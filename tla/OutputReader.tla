----------------------------- MODULE OutputReader -----------------------------
(***************************************************************************)
(* The life of a saved output in src/netmiko_mcp/connection.py: calls that *)
(* save with _save_device_output, and beside them a client that lists the  *)
(* files with list_device_outputs and reads one with read_device_output,   *)
(* page after page, following the continuation it is given.                *)
(*                                                                         *)
(* OutputStore tells of a file whose bytes it holds; here a file is the    *)
(* sequence of its bytes, byte k of the output of call w being <<w, k>>,   *)
(* and its lines are found by splitting it where a newline is.  One write  *)
(* and one read of the operating system are one step each.                 *)
(***************************************************************************)
EXTENDS Integers, SequencesExt

CONSTANTS
    Devices,        \* the devices of the inventory
    Commands,       \* command strings
    SafeName,       \* SafeName[command]: the file name part made from it
    Rank,           \* Rank[part]: the order of the file name parts
    Calls,          \* the calls that save
    Size,           \* Size[w]: how many bytes w saves, 0 included
    Newlines,       \* Newlines[w]: which of them are newlines
    Offsets,        \* the first offsets of a client
    Limits,         \* the limits of a client
    MaxClock        \* bound: the last second of the run

ASSUME SizeAssumption == Size \in [Calls -> Nat]
ASSUME ClockAssumption == MaxClock \in Nat
ASSUME PagingAssumption == Offsets \subseteq Int /\ Limits \subseteq Int

\* File name parts are compared as strings: two of them are ordered, or one.
ASSUME RankAssumption ==
    \A m, n \in Commands :
        /\ Rank[SafeName[m]] \in Int
        /\ Rank[SafeName[m]] = Rank[SafeName[n]] => SafeName[m] = SafeName[n]

VARIABLES
    clock,      \* the current second
    disk,       \* disk[name]: the bytes of each file that exists
    spc,        \* where each saving call is
    job,        \* what each saves: the device and the command
    sname,      \* the name of the file it saves to
    cpc,        \* where the client is
    unlisted,   \* the devices list_device_outputs has yet to visit
    listing,    \* listing[d]: the file names it found for d
    query,      \* the arguments of the next read_device_output
    pages,      \* the lines of all the pages the client got
    ending,     \* the kind of the last answer
    start,      \* history: the offset of the first page
    mixed,      \* history: a page came of a file with bytes of several calls
    before,     \* history: the calls that had saved when the client asked
    steady      \* history: the file is as it was when the client asked

savers == <<spc, job, sname>>
client == <<cpc, unlisted, listing, query, pages, ending, start, mixed,
            before>>
vars == <<clock, disk, savers, client, steady>>

\* The calls whose bytes a file holds.
Attributed == [name \in DOMAIN disk |-> {byte[1] : byte \in ToSet(disk[name])}]

\* The directory as OutputStore sees it.
Store == INSTANCE OutputStore WITH outputs <- Attributed

StoreSpec == Store!StoreSpec

Output(w) == [k \in 1..Size[w] |-> <<w, k>>]
NoListing == [d \in {} |-> <<>>]
NoQuery == [name |-> <<>>, offset |-> 0, limit |-> 0]

Init ==
    /\ clock = 0
    /\ disk = [name \in {} |-> <<>>]
    /\ spc = [w \in Calls |-> "idle"]
    /\ job = [w \in Calls |-> <<>>]
    /\ sname = [w \in Calls |-> <<>>]
    /\ cpc = "idle"
    /\ unlisted = {}
    /\ listing = NoListing
    /\ query = NoQuery
    /\ pages = <<>>
    /\ ending = "none"
    /\ start = 0
    /\ mixed = FALSE
    /\ before = {}
    /\ steady = TRUE

-----------------------------------------------------------------------------
(* Saving. *)

SaverGoto(w, point) == spc' = [spc EXCEPT ![w] = point]

\* The file `name` gets a new content; a client that reads it is disturbed.
SetContent(name, content) ==
    /\ disk' = [n \in DOMAIN disk \cup {name} |-> IF n = name THEN content ELSE disk[n]]
    /\ steady' = (steady /\ name # query.name)

\* A write from offset 0 of a handle of its own replaces the first bytes.  Of a
\* longer file the rest stays, from the middle of a line maybe.
Overlaid(new, old) == new \o SubSeq(old, Len(new) + 1, Len(old))

\* _save_device_output is called, and gives its file a name.
NameOutput(w, d, m) ==
    /\ spc[w] = "idle"
    /\ job' = [job EXCEPT ![w] = [device |-> d, command |-> m]]
    /\ sname' = [sname EXCEPT ![w] = Store!FileNameOf(d, m)]
    /\ SaverGoto(w, "named")
    /\ UNCHANGED <<clock, disk, client, steady>>

\* write_text opens the file: it is created, or truncated.
OpenOutput(w) ==
    /\ spc[w] = "named"
    /\ SetContent(sname[w], <<>>)
    /\ SaverGoto(w, "opened")
    /\ UNCHANGED <<clock, job, sname, client>>

\* Mutant: a write that was cut short is taken for complete.
MutShortWrite(w) ==
    /\ spc[w] = "opened"
    /\ \E k \in {n \in 0..2 : n <= Size[w]} :
          SetContent(sname[w], Overlaid(SubSeq(Output(w), 1, k), disk[sname[w]]))
    /\ SaverGoto(w, "done")
    /\ UNCHANGED <<clock, job, sname, client>>

\* write_text writes, and the save is over.
WriteOutput(w) ==
    /\ spc[w] = "opened"
    /\ SetContent(sname[w], Overlaid(Output(w), disk[sname[w]]))
    /\ SaverGoto(w, "done")
    /\ UNCHANGED <<clock, job, sname, client>>

\* The write fails, or the process dies, after a part of the output.
SaveFails(w) ==
    /\ spc[w] = "opened"
    /\ \E k \in 0..Size[w] :
          SetContent(sname[w], Overlaid(SubSeq(Output(w), 1, k), disk[sname[w]]))
    /\ SaverGoto(w, "failed")
    /\ UNCHANGED <<clock, job, sname, client>>

Tick ==
    /\ clock < MaxClock
    /\ clock' = clock + 1
    /\ UNCHANGED <<disk, savers, client, steady>>

-----------------------------------------------------------------------------
(* Listing. *)

Saved == {w \in Calls : spc[w] = "done"}

\* The client asks for the files of some devices.
AskList(D) ==
    /\ cpc = "idle"
    /\ cpc' = "listing"
    /\ unlisted' = D
    /\ before' = Saved
    /\ UNCHANGED <<clock, disk, savers, listing, query, pages, ending, start,
                   mixed, steady>>

\* get_device_names does not find them, before any directory is read.
ListFails ==
    /\ cpc = "listing"
    /\ listing = NoListing
    /\ cpc' = "idle"
    /\ unlisted' = {}
    /\ before' = {}
    /\ UNCHANGED <<clock, disk, savers, listing, query, pages, ending, start,
                   mixed, steady>>

\* Mutant: sorted without reverse=True.
MutOldestFirst(a, b) ==
    \/ Rank[a[2]] < Rank[b[2]]
    \/ Rank[a[2]] = Rank[b[2]] /\ a[3] < b[3]

\* The order of the file names, in reverse: by command first, then by time.
ListedBefore(a, b) ==
    \/ Rank[a[2]] > Rank[b[2]]
    \/ Rank[a[2]] = Rank[b[2]] /\ a[3] > b[3]

Sorted(names) ==
    CHOOSE files \in [1..Cardinality(names) -> names] :
        \A i, j \in DOMAIN files : i < j => ListedBefore(files[i], files[j])

\* The directory of one device is read; a device without one has no files.
ListDevice(d) ==
    /\ cpc = "listing"
    /\ d \in unlisted
    /\ unlisted' = unlisted \ {d}
    /\ listing' = [e \in DOMAIN listing \cup {d} |->
          IF e = d THEN Sorted({n \in DOMAIN disk : n[1] = d}) ELSE listing[e]]
    /\ UNCHANGED <<clock, disk, savers, cpc, query, pages, ending, start,
                   mixed, before, steady>>

ListReturns ==
    /\ cpc = "listing"
    /\ unlisted = {}
    /\ cpc' = "listed"
    /\ UNCHANGED <<clock, disk, savers, unlisted, listing, query, pages, ending, start,
                   mixed, before, steady>>

-----------------------------------------------------------------------------
(* Reading. *)

\* The client asks for a file: one of the list, one an answer named, or any
\* other.  What it was told before no longer matters.
AskRead(name, offset, limit) ==
    /\ cpc \in {"idle", "listed"}
    /\ cpc' = "reading"
    /\ query' = [name |-> name, offset |-> offset, limit |-> limit]
    /\ start' = offset
    /\ mixed' = FALSE
    /\ before' = Saved
    /\ steady' = TRUE
    /\ listing' = NoListing
    /\ UNCHANGED <<clock, disk, savers, unlisted, pages, ending>>

IsNewline(byte) == byte[2] \in Newlines[byte[1]]

\* Where the lines of a text end: at every newline, and with the text.
LineEnds(text) == {k \in 1..Len(text) : IsNewline(text[k]) \/ k = Len(text)}

\* content.splitlines().  A line is the set of its bytes, without its newline;
\* the offset that each byte has tells their order too.
LinesOf(text) ==
    LET LineOf(k) == Cardinality({e \in LineEnds(text) : e < k}) + 1
    IN  [i \in 1..Cardinality(LineEnds(text)) |->
            {text[k] : k \in {j \in 1..Len(text) : LineOf(j) = i /\ ~IsNewline(text[j])}}]

\* The lines of the file, if there is one.
Content(name) == IF name \in DOMAIN disk THEN <<LinesOf(disk[name])>> ELSE <<>>

\* Bytes of several calls.
Several(text) == \E j, k \in 1..Len(text) : text[j][1] # text[k][1]

EndOf(offset, limit, total) == IF offset + limit < total THEN offset + limit ELSE total

\* lines[i:j] of Python: a negative index counts from the end.
Slice(lines, i, j) ==
    LET At(x) == IF x >= 0 THEN x ELSE IF Len(lines) + x >= 0 THEN Len(lines) + x ELSE 0
    IN  SubSeq(lines, At(i) + 1, IF At(j) < Len(lines) THEN At(j) ELSE Len(lines))

\* Mutants: the last line is taken for the end of the file; the continuation
\* skips a line, as the 1-indexed header suggests; it stays where it is.
MutLastLineIsEnd(offset, limit, total) ==
    LET end == EndOf(offset, limit, total) IN IF end < total - 1 THEN {end} ELSE {}
MutSkipLine(offset, limit, total) ==
    LET end == EndOf(offset, limit, total) IN IF end < total THEN {end + 1} ELSE {}
MutSameOffset(offset, limit, total) ==
    LET end == EndOf(offset, limit, total) IN IF end < total THEN {offset} ELSE {}

\* The offset "to continue" that a page names, if it names one.
Continuation(offset, limit, total) ==
    LET end == EndOf(offset, limit, total) IN IF end < total THEN {end} ELSE {}

\* read_device_output answers with something other than a page.
ReadEnds(kind) ==
    /\ cpc = "reading"
    /\ cpc' = "ended"
    /\ ending' = kind
    /\ UNCHANGED <<clock, disk, savers, unlisted, listing, query, pages, start, mixed,
                   before, steady>>

NotFound == ReadEnds("not_found") /\ Content(query.name) = <<>>

EmptyFile == ReadEnds("empty") /\ Content(query.name) = << <<>> >>

BeyondEnd ==
    /\ ReadEnds("beyond")
    /\ \E lines \in ToSet(Content(query.name)) :
          Len(lines) > 0 /\ query.offset >= Len(lines)

\* A page.  The client takes its lines and follows the continuation; one that
\* goes back, as a negative limit gives, it does not follow.
ReadPage ==
    /\ cpc = "reading"
    /\ \E lines \in ToSet(Content(query.name)) :
          LET total == Len(lines)
              next == Continuation(query.offset, query.limit, total)
          IN  /\ total > 0
              /\ query.offset < total
              /\ pages' = pages \o Slice(lines, query.offset,
                                         EndOf(query.offset, query.limit, total))
              /\ \/ /\ next = {}
                    /\ cpc' = "ended"
                    /\ ending' = "complete"
                    /\ UNCHANGED query
                 \/ \E end \in next :
                    /\ end >= query.offset
                    /\ query' = [query EXCEPT !.offset = end]
                    /\ UNCHANGED <<cpc, ending>>
                 \/ \E end \in next :
                    /\ end < query.offset
                    /\ cpc' = "ended"
                    /\ ending' = "goes_back"
                    /\ UNCHANGED query
    /\ mixed' = (mixed \/ Several(disk[query.name]))
    /\ UNCHANGED <<clock, disk, savers, unlisted, listing, start, before, steady>>

ReadAnswers == NotFound \/ EmptyFile \/ BeyondEnd \/ ReadPage

Quiet ==
    /\ cpc = "ended"
    /\ \A w \in Calls : spc[w] \in {"done", "failed"}
    /\ UNCHANGED vars

-----------------------------------------------------------------------------

SaverStep(w) == OpenOutput(w) \/ WriteOutput(w) \/ SaveFails(w)

Next ==
    \/ \E w \in Calls, d \in Devices, m \in Commands : NameOutput(w, d, m)
    \/ \E w \in Calls : SaverStep(w)
    \/ Tick
    \/ \E D \in SUBSET Devices : AskList(D)
    \/ \E d \in Devices : ListDevice(d)
    \/ ListReturns
    \/ ListFails
    \/ \E name \in Store!FileNames, offset \in Offsets, limit \in Limits :
          AskRead(name, offset, limit)
    \/ ReadAnswers
    \/ Quiet

Spec == Init /\ [][Next]_vars

\* The server answers, and the client follows the continuation it is given.
FairSpec == Spec /\ WF_vars(ReadAnswers)

-----------------------------------------------------------------------------
(* Properties. *)

TypeOK ==
    /\ clock \in 0..MaxClock
    /\ DOMAIN disk \subseteq Store!FileNames
    /\ \A name \in DOMAIN disk : disk[name] \in Seq(Calls \X (Nat \ {0}))
    /\ spc \in [Calls -> {"idle", "named", "opened", "done", "failed"}]
    /\ \A w \in Calls : spc[w] # "idle" => sname[w] \in Store!FileNames
    /\ cpc \in {"idle", "listing", "listed", "reading", "ended"}
    /\ unlisted \subseteq Devices
    /\ \A d \in DOMAIN listing : listing[d] \in Seq(Store!FileNames)
    /\ query.offset \in Int /\ query.limit \in Int
    /\ pages \in Seq(SUBSET (Calls \X (Nat \ {0})))
    /\ ending \in {"none", "not_found", "empty", "beyond", "complete", "goes_back"}
    /\ start \in Int /\ mixed \in BOOLEAN /\ before \subseteq Calls /\ steady \in BOOLEAN

\* The client reads forward: from a line of the file, some lines at a time.
Forward == start >= 0 /\ query.limit >= 1

\* A client that follows the continuations gets the rest of the file, every
\* line once and in order, whatever its limit, as long as no call saves to the
\* file meanwhile.
PagesAreTheFile ==
    cpc = "ended" /\ steady /\ Forward /\ ending # "not_found" =>
        LET lines == LinesOf(disk[query.name])
        IN  /\ pages = SubSeq(lines, start + 1, Len(lines))
            /\ start < Len(lines) => ending = "complete"

\* Of a file that is truncated and rewritten between two pages, a client still
\* gets the lines in step: line k of the pages is line k from the first offset of
\* what some call saved, or of the part it had written, as long as no page came
\* of a file with the bytes of several calls; and every byte was answered by the
\* device of the name to a command of that name.  Of which save each line is, the
\* offset does not tell; and of a file that several calls wrote over each other
\* the numbers of the lines tell nothing.
PagesInStep ==
    \A i \in DOMAIN pages :
        /\ Forward /\ ~mixed =>
              \E w \in Calls : \E n \in 0..Size[w] :
                 LET part == LinesOf(SubSeq(Output(w), 1, n))
                 IN  start + i \in DOMAIN part /\ pages[i] = part[start + i]
        /\ \A byte \in pages[i] :
              /\ job[byte[1]].device = query.name[1]
              /\ SafeName[job[byte[1]].command] = query.name[2]

\* Another call saves for the same device and file name part in the same second.
Rival(v, w) ==
    /\ v # w /\ sname[v] # <<>>
    /\ job[v].device = job[w].device
    /\ SafeName[job[v].command] = SafeName[job[w].command]
    /\ sname[v][3] = sname[w][3]

\* "Use list_device_outputs and read_device_output to retrieve the saved
\* content" (server.py:109): of a save that was over when the client asked,
\* and that had no rival, the client gets exactly what the device answered.
SavedCanBeReadBack ==
    \A w \in before :
        /\ cpc = "ended" /\ query.name = sname[w] /\ start = 0 /\ query.limit >= 1
        /\ ~ \E v \in Calls : Rival(v, w)
        => ending \in {"complete", "empty"} /\ pages = LinesOf(Output(w))

\* What "newest first" (connection.py:331) means when a device has files of
\* several commands: of the files of one command, the first in the list is not
\* older than any save that was over when the client asked.
LatestOfCommandFirst ==
    \A w \in before : cpc = "listed" /\ job[w].device \in DOMAIN listing =>
        LET files == listing[job[w].device]
            ofCommand == {i \in DOMAIN files : files[i][2] = sname[w][2]}
        IN  \E i \in ofCommand :
               (\A j \in ofCommand : i <= j) /\ files[i][3] >= sname[w][3]

\* Reading forward comes to an end, even while the file is being rewritten.
FollowingEnds == cpc = "reading" /\ query.limit >= 1 ~> cpc = "ended"

=============================================================================
