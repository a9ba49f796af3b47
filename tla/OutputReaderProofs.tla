-------------------------- MODULE OutputReaderProofs --------------------------
(***************************************************************************)
(* Proofs about OutputReader, for every set of devices, commands and calls *)
(* that save, outputs of any length, and a client with any offset and any  *)
(* limit.                                                                  *)
(***************************************************************************)
EXTENDS OutputReader, FiniteLemmas, SequenceTheorems

-----------------------------------------------------------------------------
(* The inductive invariant. *)

Bytes == Calls \X (Nat \ {0})
FileText == Seq(Bytes)
FileLines == Seq(SUBSET Bytes)

Typed ==
    /\ clock \in 0..MaxClock
    /\ \A name \in DOMAIN disk : disk[name] \in FileText
    /\ spc \in [Calls -> {"idle", "named", "opened", "done", "failed"}]
    /\ job \in [Calls -> [device : Devices, command : Commands] \cup {<<>>}]
    /\ sname \in [Calls -> Store!FileNames \cup {<<>>}]
    /\ cpc \in {"idle", "listing", "listed", "reading", "ended"}
    /\ query \in [name : Store!FileNames \cup {<<>>}, offset : Int, limit : Int]
    /\ pages \in FileLines
    /\ start \in Int /\ mixed \in BOOLEAN

\* The file a call saves to is named after what it saves and a second that has
\* come, and is there once the call opened it.
Named ==
    \A w \in Calls : spc[w] # "idle" =>
        /\ job[w] # <<>> /\ sname[w] \in Store!FileNames
        /\ sname[w][1] = job[w].device /\ sname[w][2] = SafeName[job[w].command]
        /\ sname[w][3] <= clock
        /\ spc[w] # "named" => sname[w] \in DOMAIN disk

\* Byte k of a file is byte k of a call that saved to the file.
InPlace ==
    \A name \in DOMAIN disk : \A k \in 1..Len(disk[name]) :
        /\ disk[name][k][2] = k /\ k <= Size[disk[name][k][1]]
        /\ spc[disk[name][k][1]] # "idle" /\ sname[disk[name][k][1]] = name

\* `line` is line n of what a call saved, or of the part it had written.
SavedLine(line, n) ==
    \E w \in Calls : \E k \in 0..Size[w] :
       LET part == LinesOf(SubSeq(Output(w), 1, k))
       IN  n \in DOMAIN part /\ line = part[n]

\* The pages of a client end where it reads on.
Followed ==
    /\ cpc \in {"idle", "listing", "listed"} => pages = <<>>
    /\ cpc = "reading" /\ Forward => query.offset = start + Len(pages)
    /\ \A i \in 1..Len(pages) :
          /\ Forward /\ ~mixed => SavedLine(pages[i], start + i)
          /\ \A byte \in pages[i] :
                /\ spc[byte[1]] # "idle"
                /\ sname[byte[1]][1] = query.name[1] /\ sname[byte[1]][2] = query.name[2]

ReaderInv == Typed /\ Named /\ InPlace /\ Followed

LEMMA ReaderInit == Init => ReaderInv
<1> SUFFICES ASSUME Init PROVE ReaderInv
  OBVIOUS
<1>1. Typed
  <2>1. pages \in FileLines
    BY DEF Init, FileLines
  <2>2. mixed \in BOOLEAN
    BY DEF Init
  <2> QED BY <2>1, <2>2, ClockAssumption DEF Init, Typed, NoQuery
<1>2. Named /\ InPlace /\ Followed
  BY DEF Init, Named, InPlace, Followed
<1> QED BY <1>1, <1>2 DEF ReaderInv


-----------------------------------------------------------------------------
(* What the operators return. *)

LEMMA FileNameType ==
    ASSUME clock \in 0..MaxClock, NEW d \in Devices, NEW m \in Commands
    PROVE  /\ Store!FileNameOf(d, m) \in Store!FileNames
           /\ Store!FileNameOf(d, m)[1] = d /\ Store!FileNameOf(d, m)[2] = SafeName[m]
           /\ Store!FileNameOf(d, m)[3] <= clock
BY ClockAssumption DEF Store!FileNameOf, Store!FileNames

\* The first bytes of an output are its bytes in place.
LEMMA OutputPart ==
    ASSUME NEW w \in Calls, NEW n \in 0..Size[w]
    PROVE  /\ SubSeq(Output(w), 1, n) \in FileText /\ Len(SubSeq(Output(w), 1, n)) = n
           /\ \A k \in 1..n : SubSeq(Output(w), 1, n)[k] = <<w, k>>
<1>1. Size[w] \in Nat
  BY SizeAssumption
<1>2. Output(w) \in FileText /\ Len(Output(w)) = Size[w]
      /\ \A k \in 1..Size[w] : Output(w)[k] = <<w, k>>
  BY <1>1 DEF Output, FileText, Bytes
<1> QED BY <1>1, <1>2 DEF FileText, Bytes

\* A file that is written over has the new bytes, then the old ones that are
\* left.
LEMMA OverlaidBytes ==
    ASSUME NEW new \in FileText, NEW old \in FileText
    PROVE  /\ Overlaid(new, old) \in FileText
           /\ \A k \in 1..Len(Overlaid(new, old)) :
                 \/ k \in 1..Len(new) /\ Overlaid(new, old)[k] = new[k]
                 \/ k \in 1..Len(old) /\ Overlaid(new, old)[k] = old[k]
           /\ \A k \in 1..Len(new) :
                 k \in 1..Len(Overlaid(new, old)) /\ Overlaid(new, old)[k] = new[k]
<1> DEFINE rest == SubSeq(old, Len(new) + 1, Len(old))
<1>1. /\ rest \in FileText
      /\ Len(rest) = IF Len(new) < Len(old) THEN Len(old) - Len(new) ELSE 0
      /\ \A k \in 1..Len(rest) : rest[k] = old[Len(new) + k]
  BY DEF FileText, Bytes
<1>2. /\ new \o rest \in FileText /\ Len(new \o rest) = Len(new) + Len(rest)
      /\ \A k \in 1..(Len(new) + Len(rest)) :
            (new \o rest)[k] = IF k <= Len(new) THEN new[k] ELSE rest[k - Len(new)]
  BY <1>1 DEF FileText, Bytes
<1>3. Len(new) \in Nat /\ Len(old) \in Nat
  BY DEF FileText, Bytes
<1> HIDE DEF rest
<1> QED BY <1>1, <1>2, <1>3 DEF Overlaid, rest

\* The lines of a text are made of its bytes, and not more of them than bytes; a
\* text without lines is empty.
LEMMA LinesOfText ==
    ASSUME NEW text \in FileText
    PROVE  /\ LinesOf(text) \in FileLines
           /\ Len(LinesOf(text)) \in Nat /\ Len(LinesOf(text)) <= Len(text)
           /\ DOMAIN LinesOf(text) = 1..Len(LinesOf(text))
           /\ Len(LinesOf(text)) = 0 <=> text = <<>>
           /\ \A i \in 1..Len(LinesOf(text)) : \A byte \in LinesOf(text)[i] :
                 \E k \in 1..Len(text) : byte = text[k]
<1> DEFINE ends == LineEnds(text)
           LineOf(k) == Cardinality({e \in ends : e < k}) + 1
           line(i) == {text[k] : k \in {j \in 1..Len(text) : LineOf(j) = i /\ ~IsNewline(text[j])}}
<1>1. Len(text) \in Nat /\ \A k \in 1..Len(text) : text[k] \in Bytes
  BY DEF FileText
<1>2. IsFiniteSet(1..Len(text)) /\ Cardinality(1..Len(text)) = Len(text)
  BY <1>1, FS_Interval
<1>3. ends \subseteq 1..Len(text) /\ (Len(text) > 0 => Len(text) \in ends)
  BY <1>1 DEF LineEnds
<1> HIDE DEF ends
<1>4. IsFiniteSet(ends) /\ Cardinality(ends) \in Nat /\ Cardinality(ends) <= Len(text)
  BY <1>2, <1>3, FS_Subset, FS_CardinalityType
<1>5. Cardinality(ends) = 0 <=> ends = {}
  BY <1>4, FS_EmptySet
<1>6. \A i : line(i) \in SUBSET Bytes /\ \A byte \in line(i) : \E k \in 1..Len(text) : byte = text[k]
  BY <1>1
<1>7. LinesOf(text) = [i \in 1..Cardinality(ends) |-> line(i)]
  BY DEF LinesOf, ends
<1> HIDE DEF line
<1>8. LinesOf(text) \in FileLines /\ Len(LinesOf(text)) = Cardinality(ends)
      /\ DOMAIN LinesOf(text) = 1..Cardinality(ends)
  BY <1>4, <1>6, <1>7 DEF FileLines
<1>9. text = <<>> <=> Len(text) = 0
  BY DEF FileText
<1>10. Cardinality(ends) = 0 <=> text = <<>>
  BY <1>1, <1>3, <1>5, <1>9
<1> QED BY <1>4, <1>6, <1>7, <1>8, <1>10

\* A slice of a file has lines of the file only; a slice forward has the lines
\* from its offset to its end.
LEMMA SliceLines ==
    ASSUME NEW lines \in FileLines, NEW i \in Int, NEW j \in Int
    PROVE  /\ Slice(lines, i, j) \in FileLines
           /\ \A k \in 1..Len(Slice(lines, i, j)) :
                 \E n \in 1..Len(lines) : Slice(lines, i, j)[k] = lines[n]
           /\ 0 <= i /\ i <= j /\ j <= Len(lines) =>
                 /\ Len(Slice(lines, i, j)) = j - i
                 /\ \A k \in 1..(j - i) : i + k \in 1..Len(lines)
                                          /\ Slice(lines, i, j)[k] = lines[i + k]
<1> DEFINE At(x) == IF x >= 0 THEN x ELSE IF Len(lines) + x >= 0 THEN Len(lines) + x ELSE 0
           a == At(i) + 1
           b == IF At(j) < Len(lines) THEN At(j) ELSE Len(lines)
<1>1. Len(lines) \in Nat
  BY DEF FileLines
<1>2. a \in Nat /\ a >= 1 /\ b \in Nat /\ b <= Len(lines)
  BY <1>1
<1>3. 0 <= i /\ i <= j /\ j <= Len(lines) => a = i + 1 /\ b = j
  BY <1>1
<1>4. Slice(lines, i, j) = SubSeq(lines, a, b)
  BY DEF Slice
<1> HIDE DEF a, b
<1>5. /\ SubSeq(lines, a, b) \in FileLines
      /\ Len(SubSeq(lines, a, b)) = IF a <= b THEN b - a + 1 ELSE 0
      /\ \A k \in 1..Len(SubSeq(lines, a, b)) :
            a + k - 1 \in 1..Len(lines) /\ SubSeq(lines, a, b)[k] = lines[a + k - 1]
  BY <1>1, <1>2 DEF FileLines
<1>6. 0 <= i /\ i <= j /\ j <= Len(lines) =>
          /\ Len(SubSeq(lines, a, b)) = j - i
          /\ \A k \in 1..(j - i) : i + k \in 1..Len(lines)
                                   /\ SubSeq(lines, a, b)[k] = lines[i + k]
  BY <1>1, <1>3, <1>5
<1> QED BY <1>4, <1>5, <1>6

-----------------------------------------------------------------------------
(* The steps. *)

\* What a client has read stays as it is while a save goes on.
LEMMA SaveLeavesPages ==
    ASSUME Typed, Followed, UNCHANGED <<sname, client>>,
           \A v \in Calls : spc'[v] # "idle" <=> spc[v] # "idle"
    PROVE  Followed'
<1>1. UNCHANGED <<cpc, query, pages, start, mixed, sname>>
  BY DEF client
<1>2. pages' = pages /\ Forward' = Forward
  BY <1>1 DEF Forward
<1>3. \A i \in 1..Len(pages) : \A byte \in pages[i] : byte[1] \in Calls
  <2>1. \A i \in 1..Len(pages) : pages[i] \subseteq Bytes
    BY DEF Typed, FileLines
  <2> QED BY <2>1 DEF Bytes
<1>4. ASSUME NEW i \in 1..Len(pages), NEW byte \in pages[i]
      PROVE  spc'[byte[1]] # "idle"
  BY <1>3, <1>4 DEF Followed
<1> QED BY <1>1, <1>2, <1>4 DEF Followed

\* A save that writes puts its bytes over the first bytes of its file.
LEMMA WriteKeeps ==
    ASSUME ReaderInv, NEW w \in Calls, spc[w] = "opened", NEW n \in 0..Size[w],
           SetContent(sname[w], Overlaid(SubSeq(Output(w), 1, n), disk[sname[w]])),
           NEW point \in {"done", "failed"}, SaverGoto(w, point),
           UNCHANGED <<clock, job, sname, client>>
    PROVE  ReaderInv'
<1> USE DEF ReaderInv
<1> DEFINE content == Overlaid(SubSeq(Output(w), 1, n), disk[sname[w]])
<1>1. sname[w] \in DOMAIN disk /\ spc[w] # "idle"
  BY DEF Named
<1>2. /\ content \in FileText
      /\ \A k \in 1..Len(content) :
            \/ k \in 1..n /\ content[k] = <<w, k>>
            \/ k \in 1..Len(disk[sname[w]]) /\ content[k] = disk[sname[w]][k]
  <2>1. disk[sname[w]] \in FileText
    BY <1>1 DEF Typed
  <2>2. /\ SubSeq(Output(w), 1, n) \in FileText /\ Len(SubSeq(Output(w), 1, n)) = n
        /\ \A k \in 1..n : SubSeq(Output(w), 1, n)[k] = <<w, k>>
    BY OutputPart
  <2> HIDE DEF ReaderInv
  <2>3. /\ content \in FileText
        /\ \A k \in 1..Len(content) :
              \/ k \in 1..n /\ content[k] = SubSeq(Output(w), 1, n)[k]
              \/ k \in 1..Len(disk[sname[w]]) /\ content[k] = disk[sname[w]][k]
    BY <2>1, <2>2, OverlaidBytes
  <2> QED BY <2>2, <2>3
<1>3. /\ DOMAIN disk' = DOMAIN disk
      /\ disk'[sname[w]] = content
      /\ \A name \in DOMAIN disk : name # sname[w] => disk'[name] = disk[name]
  BY <1>1 DEF SetContent
<1>4. \A v \in Calls : (spc'[v] # "idle" <=> spc[v] # "idle")
                       /\ (spc'[v] \notin {"idle", "named"} <=> spc[v] \notin {"idle", "named"})
  BY DEF SaverGoto, Typed
<1> HIDE DEF content
<1>5. Typed'
  BY <1>2, <1>3 DEF Typed, SaverGoto, client
<1>6. Named'
  BY <1>3, <1>4 DEF Named, Typed
<1>7. InPlace'
  <2> SUFFICES ASSUME NEW name \in DOMAIN disk, NEW k \in 1..Len(disk'[name])
               PROVE  /\ disk'[name][k][2] = k /\ k <= Size[disk'[name][k][1]]
                      /\ spc'[disk'[name][k][1]] # "idle" /\ sname[disk'[name][k][1]] = name
    BY <1>3 DEF InPlace
  <2>1. CASE name # sname[w]
    <3>1. disk[name] \in FileText /\ disk'[name] = disk[name]
      BY <1>3, <2>1 DEF Typed
    <3>2. disk[name][k] \in Bytes
      BY <3>1 DEF FileText
    <3> QED BY <1>4, <3>1, <3>2 DEF InPlace, Bytes
  <2>2. CASE name = sname[w] /\ k \in 1..n /\ content[k] = <<w, k>>
    BY <1>1, <1>3, <1>4, <2>2, SizeAssumption
  <2>3. CASE name = sname[w] /\ k \in 1..Len(disk[name]) /\ content[k] = disk[name][k]
    BY <1>1, <1>3, <1>4, <2>3 DEF InPlace, Typed, FileText, Bytes
  <2> QED BY <1>2, <1>3, <2>1, <2>2, <2>3
<1>8. Followed'
  BY <1>4, SaveLeavesPages
<1> QED BY <1>5, <1>6, <1>7, <1>8

\* A save that ends, in one way or the other, has written some first bytes.
LEMMA WritesSome ==
    ASSUME NEW w \in Calls, WriteOutput(w) \/ SaveFails(w)
    PROVE  \E n \in 0..Size[w], point \in {"done", "failed"} :
              /\ spc[w] = "opened"
              /\ SetContent(sname[w], Overlaid(SubSeq(Output(w), 1, n), disk[sname[w]]))
              /\ SaverGoto(w, point) /\ UNCHANGED <<clock, job, sname, client>>
<1>1. Size[w] \in 0..Size[w] /\ SubSeq(Output(w), 1, Size[w]) = Output(w)
  <2>1. Size[w] \in Nat /\ Output(w) \in Seq(Calls \X Nat) /\ Len(Output(w)) = Size[w]
    BY SizeAssumption DEF Output
  <2> QED BY <2>1
<1>2. CASE WriteOutput(w)
  BY <1>1, <1>2 DEF WriteOutput
<1>3. CASE SaveFails(w)
  BY <1>3 DEF SaveFails
<1> QED BY <1>2, <1>3

LEMMA SaverKeeps ==
    ASSUME ReaderInv, NEW w \in Calls, SaverStep(w)
    PROVE  ReaderInv'
<1> USE DEF ReaderInv
<1>1. CASE OpenOutput(w)
  <2>1. /\ spc[w] = "named" /\ sname[w] # <<>>
        /\ DOMAIN disk' = DOMAIN disk \cup {sname[w]} /\ disk'[sname[w]] = <<>>
        /\ \A name \in DOMAIN disk : name # sname[w] => disk'[name] = disk[name]
        /\ spc' = [spc EXCEPT ![w] = "opened"]
        /\ UNCHANGED <<clock, job, sname, client>>
    BY <1>1 DEF OpenOutput, SetContent, SaverGoto, Named, Typed, Store!FileNames
  <2>2. \A v \in Calls : (spc'[v] # "idle" <=> spc[v] # "idle")
    BY <2>1 DEF Typed
  <2>3. <<>> \in FileText /\ Len(<<>>) = 0
    BY DEF FileText
  <2>4. Typed'
    BY <2>1, <2>3 DEF Typed, client
  <2>5. Named'
    BY <2>1 DEF Named, Typed
  <2>6. InPlace'
    <3> SUFFICES ASSUME NEW name \in DOMAIN disk, name # sname[w], NEW k \in 1..Len(disk[name])
                 PROVE  /\ disk[name][k][2] = k /\ k <= Size[disk[name][k][1]]
                        /\ spc'[disk[name][k][1]] # "idle" /\ sname[disk[name][k][1]] = name
      BY <2>1, <2>3 DEF InPlace
    <3> QED BY <2>2 DEF InPlace, Typed, FileText, Bytes
  <2>7. Followed'
    BY <2>1, <2>2, SaveLeavesPages
  <2> QED BY <2>4, <2>5, <2>6, <2>7
<1>2. CASE WriteOutput(w) \/ SaveFails(w)
  BY <1>2, WritesSome, WriteKeeps
<1> QED BY <1>1, <1>2 DEF SaverStep

\* A file with the bytes of one call has the lines of what that call saved, or
\* of the part it had written.
LEMMA WholeLines ==
    ASSUME ReaderInv, NEW name \in DOMAIN disk, ~Several(disk[name]),
           NEW n \in DOMAIN LinesOf(disk[name])
    PROVE  SavedLine(LinesOf(disk[name])[n], n)
<1> DEFINE text == disk[name]
           w == text[1][1]
<1>1. text \in FileText /\ Len(text) \in Nat
  BY DEF ReaderInv, Typed, FileText
<1>2. Len(text) > 0
  <2>1. DOMAIN LinesOf(text) = 1..Len(LinesOf(text)) /\ Len(LinesOf(text)) \in Nat
        /\ (Len(LinesOf(text)) = 0 <=> text = <<>>)
    BY <1>1, LinesOfText
  <2>2. text # <<>>
    BY <2>1
  <2> QED BY <1>1, <2>2 DEF FileText
<1>3. \A k \in 1..Len(text) : /\ text[k] \in Bytes /\ text[k][1] = w /\ text[k][2] = k
                              /\ k <= Size[text[k][1]]
  <2>1. \A k \in 1..Len(text) : text[k] \in Bytes
    BY <1>1 DEF FileText
  <2>2. \A k \in 1..Len(text) : text[k][1] = w
    BY <1>1, <1>2 DEF Several
  <2> QED BY <2>1, <2>2 DEF ReaderInv, InPlace
<1>4. \A k \in 1..Len(text) : text[k] = <<w, k>>
  BY <1>3 DEF Bytes
<1>5. w \in Calls /\ Len(text) \in 0..Size[w]
  <2>1. 1 \in 1..Len(text) /\ Len(text) \in 1..Len(text)
    BY <1>1, <1>2
  <2>2. w \in Calls /\ Len(text) <= Size[w]
    BY <1>3, <2>1 DEF Bytes
  <2> QED BY <1>1, <2>2, SizeAssumption
<1> HIDE DEF text, w
<1>6. text = SubSeq(Output(w), 1, Len(text))
  <2> DEFINE part == SubSeq(Output(w), 1, Len(text))
  <2>1. part \in FileText /\ Len(part) = Len(text)
        /\ \A k \in 1..Len(text) : part[k] = <<w, k>>
    BY <1>5, OutputPart
  <2> HIDE DEF part
  <2>2. text = part
    BY <1>1, <1>4, <2>1, SeqEqual DEF FileText
  <2> QED BY <2>2 DEF part
<1> QED BY <1>5, <1>6 DEF SavedLine, text

\* A page carries lines of the file, and the client reads on where it ends.
LEMMA PageKeeps ==
    ASSUME ReaderInv, ReadPage
    PROVE  ReaderInv'
<1> USE DEF ReaderInv
<1>1. PICK lines \in ToSet(Content(query.name)) : ReadPage!2!(lines)
  BY DEF ReadPage
<1> DEFINE end == EndOf(query.offset, query.limit, Len(lines))
           slice == Slice(lines, query.offset, end)
<1>2. query.name \in DOMAIN disk /\ lines = LinesOf(disk[query.name])
  <2>1. CASE query.name \in DOMAIN disk
    <3>1. Content(query.name) = <<LinesOf(disk[query.name])>>
      BY <2>1 DEF Content
    <3> QED BY <2>1, <3>1 DEF ToSet
  <2>2. CASE query.name \notin DOMAIN disk
    <3>1. Content(query.name) = <<>>
      BY <2>2 DEF Content
    <3> QED BY <3>1 DEF ToSet
  <2> QED BY <2>1, <2>2
<1>3. /\ cpc = "reading" /\ UNCHANGED <<clock, disk, spc, job, sname, start>>
      /\ mixed' = (mixed \/ Several(disk[query.name]))
  BY DEF ReadPage, savers
<1>4. /\ query.offset < Len(lines) /\ pages' = pages \o slice
      /\ query' \in [name : Store!FileNames \cup {<<>>}, offset : Int, limit : Int]
      /\ query'.name = query.name /\ query'.limit = query.limit /\ query'.offset \in Int
      /\ cpc' = "ended" \/ (cpc' = "reading" /\ query'.offset = end)
  <2>1. /\ query.offset < Len(lines) /\ pages' = pages \o slice
        /\ \/ cpc' = "ended" /\ query' = query
           \/ cpc' = cpc /\ query' = [query EXCEPT !.offset = end]
    BY <1>1 DEF Continuation
  <2>2. end \in Int
    BY <1>2, LinesOfText DEF Typed, EndOf
  <2>3. query \in [name : Store!FileNames \cup {<<>>}, offset : Int, limit : Int]
    BY DEF Typed
  <2>4. ASSUME query' = [query EXCEPT !.offset = end]
        PROVE  /\ query'.name = query.name /\ query'.limit = query.limit
               /\ query'.offset = end
               /\ query' \in [name : Store!FileNames \cup {<<>>}, offset : Int, limit : Int]
    BY <2>2, <2>3, <2>4
  <2>5. CASE cpc' = "ended" /\ query' = query
    BY <2>1, <2>3, <2>5
  <2>6. CASE query' = [query EXCEPT !.offset = end]
    <3> HIDE DEF end, slice
    <3> QED BY <1>3, <2>1, <2>2, <2>4, <2>6
  <2> QED BY <2>1, <2>5, <2>6
<1>5. /\ lines \in FileLines /\ Len(lines) \in Nat /\ end \in Int /\ pages \in FileLines
      /\ DOMAIN lines = 1..Len(lines)
      /\ \A n \in 1..Len(lines) : \A byte \in lines[n] :
            \E k \in 1..Len(disk[query.name]) : byte = disk[query.name][k]
  BY <1>2, LinesOfText DEF Typed, EndOf
<1>6. /\ slice \in FileLines
      /\ \A k \in 1..Len(slice) : \E n \in 1..Len(lines) : slice[k] = lines[n]
      /\ 0 <= query.offset /\ query.offset <= end /\ end <= Len(lines) =>
            /\ Len(slice) = end - query.offset
            /\ \A k \in 1..(end - query.offset) :
                  query.offset + k \in 1..Len(lines) /\ slice[k] = lines[query.offset + k]
  <2>1. query.offset \in Int
    BY DEF Typed
  <2> QED BY <1>5, <2>1, SliceLines
<1>7. Forward => /\ query.offset = start + Len(pages)
                 /\ 0 <= query.offset /\ query.offset <= end /\ end <= Len(lines)
  BY <1>3, <1>4, <1>5 DEF Followed, Forward, EndOf, Typed
<1> HIDE DEF end, slice
<1>8. /\ pages' \in FileLines /\ Len(pages') = Len(pages) + Len(slice)
      /\ Len(pages) \in Nat /\ Len(slice) \in Nat
      /\ \A i \in 1..Len(pages) : pages'[i] = pages[i]
      /\ \A k \in 1..Len(slice) : pages'[Len(pages) + k] = slice[k]
  BY <1>4, <1>5, <1>6 DEF FileLines
<1>9. ASSUME NEW i \in 1..Len(pages')
      PROVE  i \in 1..Len(pages) \/ \E k \in 1..Len(slice) : i = Len(pages) + k
  <2> DEFINE k == i - Len(pages)
  <2>1. i \in 1..Len(pages) \/ (k \in 1..Len(slice) /\ i = Len(pages) + k)
    BY <1>8
  <2> QED BY <2>1
<1>10. Typed'
  <2>1. mixed' \in BOOLEAN
    BY <1>3, Zenon DEF Typed
  <2> QED BY <1>3, <1>4, <1>8, <2>1 DEF Typed
<1>11. Named' /\ InPlace'
  BY <1>3 DEF Named, InPlace
<1>12. Followed'
  <2>1. cpc' = "reading" /\ Forward' => query'.offset = start + Len(pages')
    <3>1. Forward' => Forward
      BY <1>3, <1>4 DEF Forward
    <3>2. Forward => Len(pages') = Len(pages) + (end - query.offset)
      BY <1>6, <1>7, <1>8
    <3>3. start \in Int /\ query.offset \in Int
      BY DEF Typed
    <3> QED BY <1>4, <1>5, <1>7, <1>8, <3>1, <3>2, <3>3
  <2>2. ASSUME NEW i \in 1..Len(pages')
        PROVE  /\ Forward /\ ~mixed' => SavedLine(pages'[i], start + i)
               /\ \A byte \in pages'[i] :
                     /\ spc[byte[1]] # "idle"
                     /\ sname[byte[1]][1] = query.name[1] /\ sname[byte[1]][2] = query.name[2]
    <3>1. CASE i \in 1..Len(pages)
      BY <1>3, <1>8, <3>1 DEF Followed
    <3>2. ASSUME NEW k \in 1..Len(slice), i = Len(pages) + k
          PROVE  <2>2!2
      <4>1. PICK n \in 1..Len(lines) : slice[k] = lines[n]
        BY <1>6
      <4>2. pages'[i] = lines[n]
        BY <1>8, <3>2, <4>1
      <4>3. \A byte \in lines[n] : /\ spc[byte[1]] # "idle" /\ sname[byte[1]] = query.name
        BY <1>2, <1>5 DEF InPlace
      <4>4. Forward /\ ~mixed' => SavedLine(pages'[i], start + i)
        <5>1. Forward => /\ pages'[i] = lines[query.offset + k]
                         /\ query.offset + k \in 1..Len(lines)
          BY <1>6, <1>7, <1>8, <3>2
        <5>2. Forward => query.offset + k = start + i
          <6>1. start \in Int /\ query.offset \in Int
            BY DEF Typed
          <6> QED BY <1>7, <1>8, <3>2, <6>1
        <5>3. ~mixed' => ~Several(disk[query.name])
          BY <1>3
        <5> QED BY <1>2, <1>5, <5>1, <5>2, <5>3, WholeLines
      <4> QED BY <4>2, <4>3, <4>4
    <3> QED BY <1>9, <3>1, <3>2
  <2> QED BY <1>3, <1>4, <2>1, <2>2 DEF Followed, Forward
<1> QED BY <1>10, <1>11, <1>12

LEMMA ReaderStep == ReaderInv /\ [Next]_vars => ReaderInv'
<1> SUFFICES ASSUME ReaderInv, [Next]_vars PROVE ReaderInv'
  OBVIOUS
<1> USE DEF ReaderInv
<1>1. ASSUME NEW w \in Calls, NEW d \in Devices, NEW m \in Commands, NameOutput(w, d, m)
      PROVE  ReaderInv'
  <2>1. /\ spc[w] = "idle" /\ spc' = [spc EXCEPT ![w] = "named"]
        /\ job' = [job EXCEPT ![w] = [device |-> d, command |-> m]]
        /\ sname' = [sname EXCEPT ![w] = Store!FileNameOf(d, m)]
        /\ UNCHANGED <<clock, disk, client>>
    BY <1>1 DEF NameOutput, SaverGoto
  <2>2. /\ Store!FileNameOf(d, m) \in Store!FileNames
        /\ Store!FileNameOf(d, m)[1] = d /\ Store!FileNameOf(d, m)[2] = SafeName[m]
        /\ Store!FileNameOf(d, m)[3] <= clock
    BY FileNameType DEF Typed
  <2>3. Typed'
    BY <2>1, <2>2 DEF Typed, client
  <2>4. Named'
    BY <2>1, <2>2 DEF Named, Typed
  <2>5. \A v \in Calls : spc[v] # "idle" => spc'[v] # "idle" /\ sname'[v] = sname[v]
    BY <2>1 DEF Typed
  <2>6. InPlace'
    <3> SUFFICES ASSUME NEW name \in DOMAIN disk, NEW k \in 1..Len(disk[name])
                 PROVE  /\ disk[name][k][2] = k /\ k <= Size[disk[name][k][1]]
                        /\ spc'[disk[name][k][1]] # "idle" /\ sname'[disk[name][k][1]] = name
      BY <2>1 DEF InPlace
    <3>1. disk[name][k] \in Bytes
      BY DEF Typed, FileText
    <3> QED BY <2>5, <3>1 DEF InPlace, Bytes
  <2>7. Followed'
    <3>1. \A i \in 1..Len(pages) : pages[i] \subseteq Bytes
      BY DEF Typed, FileLines
    <3>2. \A i \in 1..Len(pages) : \A byte \in pages[i] : byte[1] \in Calls
      BY <3>1 DEF Bytes
    <3>3. UNCHANGED <<cpc, query, pages, start, mixed>>
      BY <2>1 DEF client
    <3>4. Forward' = Forward
      BY <3>3 DEF Forward
    <3>5. ASSUME NEW i \in 1..Len(pages), NEW byte \in pages[i]
          PROVE  /\ spc'[byte[1]] # "idle"
                 /\ sname'[byte[1]][1] = query.name[1] /\ sname'[byte[1]][2] = query.name[2]
      BY <2>5, <3>2 DEF Followed
    <3> QED BY <3>3, <3>4, <3>5 DEF Followed
  <2> QED BY <2>3, <2>4, <2>6, <2>7
<1>2. ASSUME NEW w \in Calls, SaverStep(w)
      PROVE  ReaderInv'
  BY <1>2, SaverKeeps
<1>3. CASE Tick
  <2>1. clock' = clock + 1 /\ clock' \in 0..MaxClock /\ UNCHANGED <<disk, savers, client>>
    BY <1>3, ClockAssumption DEF Tick, Typed
  <2>2. \A w \in Calls : spc[w] # "idle" => sname[w][3] <= clock'
    <3> TAKE w \in Calls
    <3> HAVE spc[w] # "idle"
    <3>1. sname[w][3] \in 0..MaxClock /\ sname[w][3] <= clock
      BY DEF Named, Store!FileNames
    <3> QED BY <2>1, <3>1, ClockAssumption DEF Typed
  <2>3. Typed' /\ InPlace' /\ Followed'
    BY <2>1 DEF Typed, InPlace, Followed, Forward, savers, client
  <2>4. Named'
    BY <2>1, <2>2 DEF Named, savers
  <2> QED BY <2>3, <2>4
<1>4. ASSUME \/ \E D \in SUBSET Devices : AskList(D)
             \/ \E d \in Devices : ListDevice(d)
             \/ ListReturns \/ ListFails
      PROVE  ReaderInv'
  <2>1. /\ cpc \in {"idle", "listing"} /\ cpc' \in {"idle", "listing", "listed"}
        /\ UNCHANGED <<clock, disk, spc, job, sname, query, pages, start, mixed>>
    BY <1>4 DEF AskList, ListDevice, ListReturns, ListFails, savers
  <2> QED BY <2>1 DEF Typed, Named, InPlace, Followed, Forward
<1>5. ASSUME NEW name \in Store!FileNames, NEW offset \in Offsets, NEW limit \in Limits,
             AskRead(name, offset, limit)
      PROVE  ReaderInv'
  <2>1. /\ pages = <<>> /\ cpc' = "reading"
        /\ query' = [name |-> name, offset |-> offset, limit |-> limit] /\ start' = offset /\ mixed' = FALSE
        /\ UNCHANGED <<clock, disk, spc, job, sname, pages>>
    BY <1>5 DEF AskRead, savers, Followed
  <2>2. offset \in Int /\ limit \in Int
    BY PagingAssumption
  <2>3. Len(pages) = 0 /\ pages \in FileLines
    BY <2>1 DEF Typed
  <2>4. Typed'
    BY <2>1, <2>2, <2>3 DEF Typed
  <2>5. Named' /\ InPlace'
    BY <2>1 DEF Named, InPlace
  <2>6. Followed'
    BY <2>1, <2>2, <2>3 DEF Followed
  <2> QED BY <2>4, <2>5, <2>6
<1>6. CASE NotFound \/ EmptyFile \/ BeyondEnd
  <2>1. /\ cpc' = "ended"
        /\ UNCHANGED <<clock, disk, spc, job, sname, query, pages, start, mixed>>
    BY <1>6 DEF NotFound, EmptyFile, BeyondEnd, ReadEnds, savers
  <2> QED BY <2>1 DEF Typed, Named, InPlace, Followed, Forward
<1>7. CASE ReadPage
  BY <1>7, PageKeeps
<1>8. CASE UNCHANGED vars
  BY <1>8 DEF vars, savers, client, Typed, Named, InPlace, Followed, Forward
<1> QED BY <1>1, <1>2, <1>3, <1>4, <1>5, <1>6, <1>7, <1>8 DEF Next, ReadAnswers, Quiet

\* Byte k of a file is byte k of a save of its device and command, torn or not,
\* and a client has as many lines as the offset it asks for next says.
THEOREM ReaderInvariant == Spec => []ReaderInv
BY ReaderInit, ReaderStep, PTL DEF Spec

\* Whatever a client reads, of files that are rewritten and torn, was answered by
\* the device of the file to a command of its name; and while it gets no page of a
\* file that several calls wrote, its lines are in step with what was saved.
THEOREM PagesInStepCorrect == Spec => []PagesInStep
<1>1. ReaderInv => PagesInStep
  <2> SUFFICES ASSUME ReaderInv, NEW i \in DOMAIN pages
               PROVE  /\ Forward /\ ~mixed => SavedLine(pages[i], start + i)
                      /\ \A byte \in pages[i] :
                            /\ job[byte[1]].device = query.name[1]
                            /\ SafeName[job[byte[1]].command] = query.name[2]
    BY DEF PagesInStep, SavedLine
  <2>1. i \in 1..Len(pages) /\ \A byte \in pages[i] : byte[1] \in Calls
    BY DEF ReaderInv, Typed, FileLines, Bytes
  <2> QED BY <2>1 DEF ReaderInv, Followed, Named
<1> QED BY <1>1, ReaderInvariant, PTL

-----------------------------------------------------------------------------
(* What a client that is not disturbed reads. *)

Undisturbed == cpc \in {"reading", "ended"} /\ steady /\ Forward

\* Its pages are the lines of the file that follow the first offset.
Copied ==
    Undisturbed => \A i \in 1..Len(pages) :
        /\ query.name \in DOMAIN disk /\ start + i \in 1..Len(LinesOf(disk[query.name]))
        /\ pages[i] = LinesOf(disk[query.name])[start + i]

\* It is told to continue where there is a line, and an answer that is not a
\* page leaves nothing out.
Reached ==
    Undisturbed =>
        /\ cpc = "reading" /\ Len(pages) > 0 =>
              query.name \in DOMAIN disk /\ query.offset < Len(LinesOf(disk[query.name]))
        /\ cpc = "ended" /\ ending = "not_found" => query.name \notin DOMAIN disk
        /\ cpc = "ended" /\ ending # "not_found" =>
              /\ query.name \in DOMAIN disk
              /\ start < Len(LinesOf(disk[query.name])) =>
                    /\ Len(pages) = Len(LinesOf(disk[query.name])) - start
                    /\ ending = "complete"
              /\ start >= Len(LinesOf(disk[query.name])) => Len(pages) = 0
              /\ Len(LinesOf(disk[query.name])) = 0 => ending = "empty"

\* No other call has taken the name of the file w saves to.
Lone(w) ==
    /\ spc[w] # "idle"
    /\ \A v \in Calls : v # w /\ spc[v] # "idle" => sname[v] # sname[w]

\* A file of one call holds the output of that call, and nobody disturbs a
\* client that asked for it when the save was over.
Kept ==
    /\ before \subseteq Saved
    /\ \A w \in Calls : Lone(w) =>
          /\ spc[w] = "opened" => disk[sname[w]] = <<>>
          /\ spc[w] = "done" => disk[sname[w]] = Output(w)
          /\ w \in before /\ cpc \in {"reading", "ended"} /\ query.name = sname[w] => steady

UndisturbedInv == Copied /\ Reached /\ Kept

LEMMA UndisturbedInit == Init => UndisturbedInv
BY DEF Init, UndisturbedInv, Copied, Reached, Kept, Undisturbed, Lone, Saved

\* An output that is written over an empty file is its content.
LEMMA OverlaidOnEmpty ==
    ASSUME NEW w \in Calls
    PROVE  Overlaid(Output(w), <<>>) = Output(w)
<1>1. Size[w] \in Nat /\ Output(w) \in Seq(Calls \X Nat) /\ Len(Output(w)) = Size[w]
  BY SizeAssumption DEF Output
<1>2. SubSeq(<<>>, Len(Output(w)) + 1, Len(<<>>)) = <<>>
  BY <1>1
<1> QED BY <1>1, <1>2 DEF Overlaid

\* A call that is given a name does not touch the disk.
LEMMA NamingUndisturbed ==
    ASSUME ReaderInv, UndisturbedInv, NEW w \in Calls, NEW d \in Devices, NEW m \in Commands,
           NameOutput(w, d, m)
    PROVE  UndisturbedInv'
<1>1. /\ spc[w] = "idle" /\ spc' = [spc EXCEPT ![w] = "named"]
      /\ sname' = [sname EXCEPT ![w] = Store!FileNameOf(d, m)]
      /\ spc \in [Calls -> {"idle", "named", "opened", "done", "failed"}]
      /\ sname \in [Calls -> Store!FileNames \cup {<<>>}]
      /\ UNCHANGED <<disk, cpc, query, pages, ending, start, before, steady>>
  BY DEF NameOutput, SaverGoto, client, ReaderInv, Typed
<1>2. Copied' /\ Reached'
  BY <1>1 DEF UndisturbedInv, Copied, Reached, Undisturbed, Forward
<1>3. Saved' = Saved
  BY <1>1 DEF Saved
<1>4. \A v \in Calls : v # w => /\ spc'[v] = spc[v] /\ sname'[v] = sname[v]
                                /\ Lone(v)' => Lone(v)
  BY <1>1 DEF Lone
<1>5. w \notin Saved /\ spc'[w] = "named"
  BY <1>1 DEF Saved
<1>6. Kept'
  <2> SUFFICES ASSUME NEW v \in Calls, Lone(v)'
               PROVE  Kept!2!(v)!2'
    BY <1>1, <1>3 DEF UndisturbedInv, Kept
  <2> QED BY <1>1, <1>4, <1>5 DEF UndisturbedInv, Kept
<1> QED BY <1>2, <1>6 DEF UndisturbedInv

\* A content that is set disturbs who reads the file, and no file of another
\* call that is alone with its name.
LEMMA ContentUndisturbed ==
    ASSUME ReaderInv, UndisturbedInv, NEW w \in Calls, spc[w] \in {"named", "opened"},
           NEW content, SetContent(sname[w], content),
           NEW point \in {"opened", "done", "failed"}, SaverGoto(w, point),
           UNCHANGED <<job, sname, client>>,
           point = "opened" => content = <<>>,
           point = "done" /\ Lone(w) => content = Output(w)
    PROVE  UndisturbedInv'
<1>1. /\ spc' = [spc EXCEPT ![w] = point]
      /\ spc \in [Calls -> {"idle", "named", "opened", "done", "failed"}]
      /\ UNCHANGED <<sname, cpc, query, pages, ending, start, before>>
  BY DEF SaverGoto, client, ReaderInv, Typed
<1>2. /\ DOMAIN disk' = DOMAIN disk \cup {sname[w]} /\ disk'[sname[w]] = content
      /\ \A name \in DOMAIN disk : name # sname[w] => disk'[name] = disk[name]
      /\ steady' = (steady /\ sname[w] # query.name)
  BY DEF SetContent
<1>3. Undisturbed' =>
          /\ Undisturbed /\ (query.name \in DOMAIN disk' <=> query.name \in DOMAIN disk)
          /\ query.name \in DOMAIN disk => disk'[query.name] = disk[query.name]
  BY <1>1, <1>2 DEF Undisturbed, Forward
<1>4. Copied'
  BY <1>1, <1>3 DEF UndisturbedInv, Copied
<1>5. Reached'
  BY <1>1, <1>3 DEF UndisturbedInv, Reached
<1>6. before \subseteq Saved' /\ w \notin before
  BY <1>1 DEF UndisturbedInv, Kept, Saved
<1>7. ASSUME NEW v \in Calls, Lone(v)'
      PROVE  /\ spc'[v] = "opened" => disk'[sname[v]] = <<>>
             /\ spc'[v] = "done" => disk'[sname[v]] = Output(v)
             /\ v \in before /\ cpc \in {"reading", "ended"} /\ query.name = sname[v] => steady'
  <2>1. Lone(v)
    BY <1>1, <1>7 DEF Lone
  <2>2. CASE v = w
    BY <1>1, <1>2, <1>6, <2>1, <2>2
  <2>3. CASE v # w
    <3>1. spc'[v] = spc[v] /\ spc[v] # "idle" /\ sname[v] # sname[w]
      BY <1>1, <2>1, <2>3 DEF Lone
    <3>2. spc[v] # "named" => disk'[sname[v]] = disk[sname[v]]
      BY <1>2, <3>1 DEF ReaderInv, Named
    <3> QED BY <1>2, <2>1, <3>1, <3>2 DEF UndisturbedInv, Kept
  <2> QED BY <2>2, <2>3
<1>8. Kept'
  BY <1>1, <1>6, <1>7 DEF Kept
<1> QED BY <1>4, <1>5, <1>8 DEF UndisturbedInv

LEMMA SavingUndisturbed ==
    ASSUME ReaderInv, UndisturbedInv, NEW w \in Calls, SaverStep(w)
    PROVE  UndisturbedInv'
<1>1. CASE OpenOutput(w)
  BY <1>1, ContentUndisturbed DEF OpenOutput
<1>2. CASE WriteOutput(w)
  <2>1. Lone(w) => Overlaid(Output(w), disk[sname[w]]) = Output(w)
    BY <1>2, OverlaidOnEmpty DEF WriteOutput, UndisturbedInv, Kept
  <2> QED BY <1>2, <2>1, ContentUndisturbed DEF WriteOutput
<1>3. CASE SaveFails(w)
  BY <1>3, ContentUndisturbed DEF SaveFails
<1> QED BY <1>1, <1>2, <1>3 DEF SaverStep

\* An answer that is not a page.
LEMMA AnswerUndisturbed ==
    ASSUME ReaderInv, UndisturbedInv, NotFound \/ EmptyFile \/ BeyondEnd
    PROVE  UndisturbedInv'
<1>1. /\ cpc = "reading" /\ cpc' = "ended"
      /\ UNCHANGED <<disk, spc, sname, query, pages, start, before, steady>>
  BY DEF NotFound, EmptyFile, BeyondEnd, ReadEnds, savers
<1>2. Copied' /\ Kept'
  BY <1>1 DEF UndisturbedInv, Copied, Kept, Undisturbed, Forward, Lone, Saved
<1>3. \/ query.name \notin DOMAIN disk /\ ending' = "not_found"
      \/ /\ query.name \in DOMAIN disk /\ ending' # "not_found"
         /\ \/ LinesOf(disk[query.name]) = <<>> /\ ending' = "empty"
            \/ Len(LinesOf(disk[query.name])) > 0 /\ query.offset >= Len(LinesOf(disk[query.name]))
  <2>1. CASE query.name \in DOMAIN disk
    <3>1. Content(query.name) = <<LinesOf(disk[query.name])>>
      BY <2>1 DEF Content
    <3>2. ToSet(Content(query.name)) = {LinesOf(disk[query.name])}
      BY <3>1 DEF ToSet
    <3> QED BY <2>1, <3>1, <3>2 DEF NotFound, EmptyFile, BeyondEnd, ReadEnds
  <2>2. CASE query.name \notin DOMAIN disk
    <3>1. Content(query.name) = <<>>
      BY <2>2 DEF Content
    <3>2. ToSet(Content(query.name)) = {}
      BY <3>1 DEF ToSet
    <3> QED BY <2>2, <3>1, <3>2 DEF NotFound, EmptyFile, BeyondEnd, ReadEnds
  <2> QED BY <2>1, <2>2
<1>4. ASSUME Undisturbed'
      PROVE  Reached'
  <2>1. Undisturbed /\ start \in Int /\ start >= 0 /\ query.offset \in Int
        /\ query.offset = start + Len(pages) /\ Len(pages) \in Nat
    BY <1>1, <1>4 DEF Undisturbed, Forward, ReaderInv, Followed, Typed, FileLines
  <2>2. Len(pages) > 0 => query.name \in DOMAIN disk /\ query.offset < Len(LinesOf(disk[query.name]))
    BY <1>1, <2>1 DEF UndisturbedInv, Reached
  <2>3. query.name \in DOMAIN disk => Len(LinesOf(disk[query.name])) \in Nat
    BY LinesOfText DEF ReaderInv, Typed
  <2> DEFINE total == Len(LinesOf(disk[query.name]))
  <2>4. CASE query.name \notin DOMAIN disk /\ ending' = "not_found"
    BY <1>1, <2>4 DEF Reached
  <2>5. CASE query.name \in DOMAIN disk /\ ending' # "not_found"
             /\ LinesOf(disk[query.name]) = <<>> /\ ending' = "empty"
    <3>1. Len(LinesOf(disk[query.name])) = 0
      BY <2>5
    <3>2. Len(pages) = 0
      BY <2>1, <2>2, <3>1
    <3> QED BY <1>1, <2>1, <2>5, <3>1, <3>2 DEF Reached
  <2>6. CASE query.name \in DOMAIN disk /\ ending' # "not_found"
             /\ total > 0 /\ query.offset >= total
    <3>1. Len(pages) = 0
      BY <2>1, <2>2, <2>3, <2>6
    <3>2. ~ (start < total) /\ ~ (total = 0)
      BY <2>1, <2>3, <2>6, <3>1
    <3> QED BY <1>1, <2>6, <3>1, <3>2 DEF Reached
  <2> QED BY <1>3, <2>4, <2>5, <2>6
<1>5. Reached'
  BY <1>4 DEF Reached
<1> QED BY <1>2, <1>5 DEF UndisturbedInv

\* A page of a file that stays as it is: its lines are those that follow, and
\* the last one ends with the file.
LEMMA PageUndisturbed ==
    ASSUME ReaderInv, UndisturbedInv, ReadPage
    PROVE  UndisturbedInv'
<1>1. PICK lines \in ToSet(Content(query.name)) : ReadPage!2!(lines)
  BY DEF ReadPage
<1> DEFINE end == EndOf(query.offset, query.limit, Len(lines))
           slice == Slice(lines, query.offset, end)
<1>2. query.name \in DOMAIN disk /\ lines = LinesOf(disk[query.name])
  <2>1. CASE query.name \in DOMAIN disk
    <3>1. Content(query.name) = <<LinesOf(disk[query.name])>>
      BY <2>1 DEF Content
    <3> QED BY <2>1, <3>1 DEF ToSet
  <2>2. CASE query.name \notin DOMAIN disk
    <3>1. Content(query.name) = <<>>
      BY <2>2 DEF Content
    <3> QED BY <3>1 DEF ToSet
  <2> QED BY <2>1, <2>2
<1>3. /\ cpc = "reading" /\ cpc' \in {"reading", "ended"}
      /\ UNCHANGED <<disk, spc, sname, start, before, steady>>
  BY <1>1 DEF ReadPage, savers
<1>4. lines \in FileLines /\ Len(lines) \in Nat /\ pages \in FileLines /\ Len(pages) \in Nat
      /\ start \in Int /\ query.offset \in Int /\ query.limit \in Int /\ end \in Int
  <2>1. lines \in FileLines /\ Len(lines) \in Nat
    BY <1>2, LinesOfText DEF ReaderInv, Typed
  <2> QED BY <2>1 DEF ReaderInv, Typed, FileLines, EndOf
<1>5. /\ Len(lines) > 0 /\ query.offset < Len(lines) /\ pages' = pages \o slice
      /\ query'.name = query.name /\ query'.limit = query.limit
      /\ \/ end >= Len(lines) /\ cpc' = "ended" /\ ending' = "complete"
         \/ end < Len(lines) /\ cpc' = "reading" /\ query'.offset = end
         \/ end < query.offset /\ cpc' = "ended" /\ ending' = "goes_back"
  <2>1. query \in [name : Store!FileNames \cup {<<>>}, offset : Int, limit : Int]
    BY DEF ReaderInv, Typed
  <2>2. /\ Len(lines) > 0 /\ query.offset < Len(lines) /\ pages' = pages \o slice
        /\ \/ /\ Continuation(query.offset, query.limit, Len(lines)) = {}
              /\ cpc' = "ended" /\ ending' = "complete" /\ query' = query
           \/ \E e \in Continuation(query.offset, query.limit, Len(lines)) :
                 query' = [query EXCEPT !.offset = e] /\ cpc' = cpc
           \/ \E e \in Continuation(query.offset, query.limit, Len(lines)) :
                 e < query.offset /\ cpc' = "ended" /\ ending' = "goes_back" /\ query' = query
    BY <1>1
  <2>3. Continuation(query.offset, query.limit, Len(lines)) =
            IF end < Len(lines) THEN {end} ELSE {}
    BY DEF Continuation
  <2> HIDE DEF end, slice
  <2>4. ASSUME query' = [query EXCEPT !.offset = end]
        PROVE  query'.name = query.name /\ query'.limit = query.limit /\ query'.offset = end
    BY <2>1, <2>4
  <2> QED BY <1>3, <1>4, <2>2, <2>3, <2>4
<1>6. Kept'
  <2>1. query'.name = query.name
    BY <1>5
  <2>2. cpc' \in {"reading", "ended"} /\ cpc \in {"reading", "ended"}
    BY <1>3
  <2>3. \A v \in Calls : Lone(v)' <=> Lone(v)
    BY <1>3 DEF Lone
  <2>4. Saved' = Saved
    BY <1>3 DEF Saved
  <2> QED BY <1>3, <2>1, <2>2, <2>3, <2>4 DEF UndisturbedInv, Kept
<1>7. ASSUME Undisturbed'
      PROVE  Undisturbed /\ start >= 0 /\ query.limit >= 1
             /\ query.offset = start + Len(pages)
             /\ 0 <= query.offset /\ query.offset <= end /\ end <= Len(lines)
  <2>1. Undisturbed /\ start >= 0 /\ query.limit >= 1
    BY <1>3, <1>5, <1>7 DEF Undisturbed, Forward
  <2>2. query.offset = start + Len(pages)
    BY <1>3, <2>1 DEF ReaderInv, Followed, Forward
  <2> QED BY <1>4, <1>5, <2>1, <2>2 DEF EndOf
<1>8. 0 <= query.offset /\ query.offset <= end /\ end <= Len(lines) =>
          /\ slice \in FileLines /\ Len(slice) = end - query.offset
          /\ \A k \in 1..(end - query.offset) :
                query.offset + k \in 1..Len(lines) /\ slice[k] = lines[query.offset + k]
  BY <1>4, SliceLines
<1> HIDE DEF end, slice
<1>9. ASSUME Undisturbed'
      PROVE  /\ Len(pages') = end - start
             /\ \A i \in 1..Len(pages') :
                   start + i \in 1..Len(lines) /\ pages'[i] = lines[start + i]
  <2>1. /\ Undisturbed /\ start >= 0 /\ query.offset = start + Len(pages)
        /\ slice \in FileLines /\ Len(slice) = end - query.offset
        /\ end - query.offset \in Nat
        /\ \A k \in 1..Len(slice) :
              query.offset + k \in 1..Len(lines) /\ slice[k] = lines[query.offset + k]
    BY <1>4, <1>7, <1>8, <1>9
  <2>2. \A i \in 1..Len(pages) : start + i \in 1..Len(lines) /\ pages[i] = lines[start + i]
    BY <1>2, <2>1 DEF UndisturbedInv, Copied
  <2>3. /\ Len(pages') = Len(pages) + Len(slice)
        /\ \A i \in 1..Len(pages) : pages'[i] = pages[i]
        /\ \A k \in 1..Len(slice) : pages'[Len(pages) + k] = slice[k]
    <3>1. pages' = pages \o slice /\ pages \in FileLines /\ slice \in FileLines
      BY <1>4, <1>5, <2>1
    <3> QED BY <3>1 DEF FileLines
  <2>4. ASSUME NEW i \in 1..Len(pages')
        PROVE  start + i \in 1..Len(lines) /\ pages'[i] = lines[start + i]
    <3>1. CASE i \in 1..Len(pages)
      BY <2>2, <2>3, <3>1
    <3>2. CASE i \notin 1..Len(pages)
      <4> DEFINE k == i - Len(pages)
      <4>1. k \in 1..Len(slice) /\ i = Len(pages) + k /\ start + i = query.offset + k
        BY <1>4, <2>1, <2>3, <3>2
      <4>2. pages'[Len(pages) + k] = slice[k] /\ slice[k] = lines[query.offset + k]
            /\ query.offset + k \in 1..Len(lines)
        BY <2>1, <2>3, <4>1
      <4> HIDE DEF k
      <4> QED BY <4>1, <4>2
    <3> QED BY <3>1, <3>2
  <2> QED BY <1>4, <2>1, <2>3, <2>4
<1>10. Copied'
  BY <1>2, <1>3, <1>5, <1>9 DEF Copied
<1>11. ASSUME Undisturbed'
       PROVE  Reached'
  <2>1. start <= query.offset
    BY <1>4, <1>7, <1>11
  <2>2. start < Len(lines) /\ Len(pages') = end - start
        /\ LinesOf(disk'[query'.name]) = lines /\ query'.name \in DOMAIN disk'
    BY <1>2, <1>3, <1>4, <1>5, <1>9, <1>11, <2>1
  <2>3. CASE end >= Len(lines) /\ cpc' = "ended" /\ ending' = "complete"
    <3>1. end = Len(lines)
      BY <1>4, <1>7, <1>11, <2>3
    <3> QED BY <1>3, <1>4, <1>5, <2>2, <2>3, <3>1 DEF Reached
  <2>4. CASE end < Len(lines) /\ cpc' = "reading" /\ query'.offset = end
    BY <2>2, <2>4 DEF Reached
  <2>5. ~ (end < query.offset)
    BY <1>4, <1>7, <1>11
  <2> QED BY <1>5, <2>3, <2>4, <2>5
<1>12. Reached'
  BY <1>11 DEF Reached
<1> QED BY <1>6, <1>10, <1>12 DEF UndisturbedInv

LEMMA UndisturbedStep == ReaderInv /\ UndisturbedInv /\ [Next]_vars => UndisturbedInv'
<1> SUFFICES ASSUME ReaderInv, UndisturbedInv, [Next]_vars PROVE UndisturbedInv'
  OBVIOUS
<1>1. ASSUME \/ \E D \in SUBSET Devices : AskList(D)
             \/ \E d \in Devices : ListDevice(d)
             \/ ListReturns \/ ListFails
      PROVE  UndisturbedInv'
  <2>1. /\ cpc' \in {"idle", "listing", "listed"} /\ before' \in {before, Saved, {}}
        /\ UNCHANGED <<disk, spc, sname>>
    BY <1>1 DEF AskList, ListDevice, ListReturns, ListFails, savers, ReaderInv, Typed
  <2>2. Copied' /\ Reached'
    BY <2>1 DEF Copied, Reached, Undisturbed
  <2>3. Kept'
    BY <2>1 DEF UndisturbedInv, Kept, Lone, Saved
  <2> QED BY <2>2, <2>3 DEF UndisturbedInv
<1>2. ASSUME NEW name \in Store!FileNames, NEW offset \in Offsets, NEW limit \in Limits,
             AskRead(name, offset, limit)
      PROVE  UndisturbedInv'
  <2>1. /\ pages = <<>> /\ cpc' = "reading" /\ before' = Saved /\ steady' = TRUE
        /\ UNCHANGED <<disk, spc, sname, pages>>
    BY <1>2 DEF AskRead, savers, ReaderInv, Followed
  <2>2. Len(pages') = 0
    BY <2>1
  <2>3. Copied' /\ Reached'
    BY <2>1, <2>2 DEF Copied, Reached
  <2>4. Kept'
    BY <2>1 DEF UndisturbedInv, Kept, Lone, Saved
  <2> QED BY <2>3, <2>4 DEF UndisturbedInv
<1>3. CASE Tick \/ UNCHANGED vars
  <2>1. UNCHANGED <<disk, spc, sname, cpc, query, pages, ending, start, before, steady>>
    BY <1>3 DEF Tick, vars, savers, client
  <2>2. Copied' /\ Reached'
    BY <2>1 DEF UndisturbedInv, Copied, Reached, Undisturbed, Forward
  <2>3. Kept'
    BY <2>1 DEF UndisturbedInv, Kept, Lone, Saved
  <2> QED BY <2>2, <2>3 DEF UndisturbedInv
<1> QED BY <1>1, <1>2, <1>3, NamingUndisturbed, SavingUndisturbed, AnswerUndisturbed,
           PageUndisturbed DEF Next, ReadAnswers, Quiet

LEMMA UndisturbedHolds == Spec => []UndisturbedInv
BY UndisturbedInit, UndisturbedStep, ReaderInvariant, PTL DEF Spec

\* Two sequences of lines that agree everywhere are one.
LEMMA SameLines ==
    ASSUME NEW s \in FileLines, NEW t \in FileLines, Len(s) = Len(t),
           \A i \in 1..Len(s) : s[i] = t[i]
    PROVE  s = t
BY SeqEqual DEF FileLines

\* A client that follows the continuations of a file that stays as it is gets
\* the rest of the file, whatever the file and the limit.
LEMMA PagesOfTheFile == ReaderInv /\ UndisturbedInv => PagesAreTheFile
<1> SUFFICES ASSUME ReaderInv, UndisturbedInv, cpc = "ended", steady, Forward,
                    ending # "not_found"
             PROVE  /\ pages = SubSeq(LinesOf(disk[query.name]), start + 1, Len(LinesOf(disk[query.name])))
                    /\ start < Len(LinesOf(disk[query.name])) => ending = "complete"
  BY DEF PagesAreTheFile
<1> DEFINE lines == LinesOf(disk[query.name])
           rest == SubSeq(lines, start + 1, Len(lines))
<1>1. /\ query.name \in DOMAIN disk
      /\ start < Len(lines) => Len(pages) = Len(lines) - start /\ ending = "complete"
      /\ start >= Len(lines) => Len(pages) = 0
      /\ \A i \in 1..Len(pages) : start + i \in 1..Len(lines) /\ pages[i] = lines[start + i]
  BY DEF UndisturbedInv, Reached, Copied, Undisturbed
<1>2. start \in Int /\ start >= 0 /\ lines \in FileLines /\ Len(lines) \in Nat
      /\ pages \in FileLines /\ Len(pages) \in Nat
  <2>1. lines \in FileLines /\ Len(lines) \in Nat
    BY <1>1, LinesOfText DEF ReaderInv, Typed
  <2> QED BY <2>1 DEF ReaderInv, Typed, FileLines, Forward
<1> HIDE DEF lines
<1>3. /\ rest \in FileLines
      /\ Len(rest) = IF start < Len(lines) THEN Len(lines) - start ELSE 0
      /\ \A i \in 1..Len(rest) : rest[i] = lines[start + i]
  BY <1>2 DEF FileLines
<1>4. Len(pages) = Len(rest) /\ \A i \in 1..Len(pages) : pages[i] = rest[i]
  BY <1>1, <1>2, <1>3
<1>5. pages = rest
  <2> HIDE DEF rest
  <2> QED BY <1>2, <1>3, <1>4, SameLines
<1> QED BY <1>1, <1>5 DEF lines

\* Read from a line of a file that nobody touches meanwhile, the pages are the
\* rest of the file, whatever the limit.
THEOREM PagesAreTheFileCorrect == Spec => []PagesAreTheFile
BY PagesOfTheFile, ReaderInvariant, UndisturbedHolds, PTL

\* What a call saved, with no other call that takes its name, is what a client
\* gets that asks when the save is over, whatever the length of the output.
THEOREM SavedCanBeReadBackCorrect == Spec => []SavedCanBeReadBack
<1>1. ReaderInv /\ UndisturbedInv => SavedCanBeReadBack
  <2> SUFFICES ASSUME ReaderInv, UndisturbedInv, NEW w \in before, cpc = "ended",
                      query.name = sname[w], start = 0, query.limit >= 1,
                      ~ \E v \in Calls : Rival(v, w)
               PROVE  ending \in {"complete", "empty"} /\ pages = LinesOf(Output(w))
    BY DEF SavedCanBeReadBack
  <2>1. w \in Calls /\ spc[w] = "done" /\ sname[w] \in DOMAIN disk
    BY DEF UndisturbedInv, Kept, Saved, ReaderInv, Named
  <2>2. Lone(w)
    <3> SUFFICES ASSUME NEW v \in Calls, v # w, spc[v] # "idle", sname[v] = sname[w]
                 PROVE  Rival(v, w)
      BY <2>1 DEF Lone
    <3>1. sname[v] # <<>>
      BY DEF ReaderInv, Named, Store!FileNames
    <3> QED BY <2>1, <3>1 DEF ReaderInv, Named, Rival
  <2>3. disk[sname[w]] = Output(w) /\ steady
    BY <2>1, <2>2 DEF UndisturbedInv, Kept
  <2>4. Undisturbed /\ Forward
    BY <2>3 DEF Undisturbed, Forward
  <2>5. ending # "not_found"
    BY <2>1, <2>4 DEF UndisturbedInv, Reached
  <2>6. LinesOf(Output(w)) \in FileLines /\ Len(LinesOf(Output(w))) \in Nat
    BY <2>1, <2>3, LinesOfText DEF ReaderInv, Typed
  <2> DEFINE lines == LinesOf(Output(w))
  <2>7. pages = SubSeq(lines, 1, Len(lines)) /\ (0 < Len(lines) => ending = "complete")
    BY <2>3, <2>4, <2>5, PagesOfTheFile DEF PagesAreTheFile
  <2>8. Len(lines) = 0 => ending = "empty"
    BY <2>3, <2>4, <2>5 DEF UndisturbedInv, Reached
  <2> HIDE DEF lines
  <2>9. SubSeq(lines, 1, Len(lines)) = lines
    BY <2>6 DEF FileLines, lines
  <2> QED BY <2>6, <2>7, <2>8, <2>9 DEF lines
<1> QED BY <1>1, ReaderInvariant, UndisturbedHolds, PTL

-----------------------------------------------------------------------------
(* The directory. *)

Savers(content) == {byte[1] : byte \in ToSet(content)}

\* A content that is set is the content that OutputStore sees.
LEMMA ContentSeen ==
    ASSUME NEW name, NEW content, SetContent(name, content)
    PROVE  Attributed' = Store!WithContent(name, Savers(content))
BY DEF SetContent, Attributed, Store!WithContent, Savers

\* The savers of a file that is written over: the one that writes, if it writes
\* a byte, and some of those that were there.
LEMMA SaversOverlaid ==
    ASSUME NEW w \in Calls, NEW n \in 0..Size[w], NEW old \in FileText
    PROVE  LET new == Savers(Overlaid(SubSeq(Output(w), 1, n), old))
           IN  /\ new \subseteq Savers(old) \cup {w}
               /\ n = 0 => new = Savers(old)
               /\ n > 0 => w \in new
<1> DEFINE part == SubSeq(Output(w), 1, n)
           content == Overlaid(part, old)
<1>1. /\ part \in FileText /\ Len(part) = n
      /\ \A k \in 1..n : part[k] = <<w, k>>
  BY OutputPart
<1>2. /\ content \in FileText
      /\ \A k \in 1..Len(content) :
            \/ k \in 1..n /\ content[k] = part[k]
            \/ k \in 1..Len(old) /\ content[k] = old[k]
      /\ \A k \in 1..n : k \in 1..Len(content) /\ content[k] = part[k]
  <2> HIDE DEF part
  <2>1. part \in FileText /\ Len(part) = n
    BY <1>1
  <2> QED BY <2>1, OverlaidBytes, SMTT(20)
<1>3. Savers(content) \subseteq Savers(old) \cup {w}
  <2> SUFFICES ASSUME NEW k \in 1..Len(content) PROVE content[k][1] \in Savers(old) \cup {w}
    BY <1>2, SMTT(20) DEF Savers, ToSet, FileText, Bytes
  <2>1. CASE k \in 1..n /\ content[k] = part[k]
    BY <1>1, <2>1
  <2>2. CASE k \in 1..Len(old) /\ content[k] = old[k]
    <3>1. old[k] \in ToSet(old)
      BY <2>2 DEF ToSet, FileText
    <3> QED BY <2>2, <3>1 DEF Savers
  <2> QED BY <1>2, <2>1, <2>2
<1>4. n = 0 => content = old
  BY DEF Overlaid, FileText
<1>5. n > 0 => w \in Savers(content)
  <2> HAVE n > 0
  <2>1. 1 \in 1..n
    OBVIOUS
  <2>2. 1 \in 1..Len(content) /\ content[1] = <<w, 1>>
    BY <1>1, <1>2, <2>1
  <2> QED BY <1>2, <2>2 DEF Savers, ToSet, FileText, Bytes
<1> QED BY <1>3, <1>4, <1>5

LEMMA StoreStep == ReaderInv /\ [Next]_vars => [Store!StoreNext]_(Store!storeVars)
<1> SUFFICES ASSUME ReaderInv, [Next]_vars
             PROVE  [Store!StoreNext]_(Store!storeVars)
  OBVIOUS
<1> USE DEF ReaderInv
<1>1. ASSUME UNCHANGED <<clock, disk>>
      PROVE  UNCHANGED Store!storeVars
  BY <1>1 DEF Store!storeVars, Attributed
<1>2. ASSUME NEW w \in Calls, OpenOutput(w)
      PROVE  Store!StoreNext
  <2>1. spc[w] = "named" /\ SetContent(sname[w], <<>>) /\ UNCHANGED clock
    BY <1>2 DEF OpenOutput
  <2>2. sname[w] \in Store!FileNames /\ sname[w][3] <= clock
    BY <2>1 DEF Named
  <2>3. Savers(<<>>) = {}
    BY DEF Savers, ToSet
  <2>4. Store!TruncateFile(sname[w])
    BY <2>1, <2>3, ContentSeen DEF Store!TruncateFile
  <2> QED BY <2>2, <2>4 DEF Store!StoreNext
<1>3. ASSUME NEW w \in Calls, NEW n \in 0..Size[w], spc[w] = "opened", UNCHANGED clock,
             SetContent(sname[w], Overlaid(SubSeq(Output(w), 1, n), disk[sname[w]]))
      PROVE  Store!StoreNext \/ UNCHANGED Store!storeVars
  <2> DEFINE name == sname[w]
             new == Savers(Overlaid(SubSeq(Output(w), 1, n), disk[name]))
  <2>1. name \in DOMAIN disk /\ disk[name] \in FileText
    BY <1>3 DEF Named, Typed
  <2>2. DOMAIN Attributed = DOMAIN disk /\ Attributed[name] = Savers(disk[name])
    BY <2>1 DEF Attributed, Savers
  <2>3. /\ new \subseteq Savers(disk[name]) \cup {w}
        /\ n = 0 => new = Savers(disk[name])
        /\ n > 0 => w \in new
    BY <2>1, SaversOverlaid
  <2>4. Attributed' = Store!WithContent(name, new)
    BY <1>3, ContentSeen
  <2> HIDE DEF new
  <2>5. CASE n = 0
    <3>1. Attributed' = Attributed
      BY <2>1, <2>2, <2>3, <2>4, <2>5 DEF Store!WithContent, Attributed
    <3> QED BY <1>3, <3>1 DEF Store!storeVars
  <2>6. CASE n > 0
    <3>1. new \ {w} \in SUBSET Attributed[name] /\ new = (new \ {w}) \cup {w}
      BY <2>2, <2>3, <2>6
    <3>2. Store!WriteFile(name, w)
      BY <1>3, <2>4, <3>1 DEF Store!WriteFile
    <3> QED BY <2>1, <2>2, <3>2 DEF Store!StoreNext
  <2>7. n = 0 \/ n > 0
    BY SizeAssumption
  <2> QED BY <2>5, <2>6, <2>7
<1>4. CASE Tick
  <2>1. clock < MaxClock /\ clock' = clock + 1 /\ UNCHANGED Attributed
    BY <1>4 DEF Tick, Attributed
  <2> QED BY <2>1 DEF Store!StoreNext, Store!ClockTicks
<1>5. ASSUME NEW w \in Calls, SaverStep(w)
      PROVE  Store!StoreNext \/ UNCHANGED Store!storeVars
  <2>1. CASE OpenOutput(w)
    BY <1>2, <2>1
  <2>2. CASE WriteOutput(w) \/ SaveFails(w)
    BY <1>3, <2>2, WritesSome DEF WriteOutput, SaveFails
  <2> QED BY <1>5, <2>1, <2>2 DEF SaverStep
<1>6. CASE \/ \E w \in Calls, d \in Devices, m \in Commands : NameOutput(w, d, m)
           \/ \E D \in SUBSET Devices : AskList(D)
           \/ \E d \in Devices : ListDevice(d)
           \/ ListReturns \/ ListFails
           \/ \E name \in Store!FileNames, offset \in Offsets, limit \in Limits :
                 AskRead(name, offset, limit)
           \/ ReadAnswers
           \/ UNCHANGED vars
  <2>1. UNCHANGED <<clock, disk>>
    BY <1>6 DEF NameOutput, AskList, ListDevice, ListReturns, ListFails, AskRead, ReadAnswers,
                NotFound, EmptyFile, BeyondEnd, ReadEnds, ReadPage, vars
  <2> QED BY <1>1, <2>1
<1> QED BY <1>4, <1>5, <1>6 DEF Next, Quiet

\* The calls that save, each on its own, use the directory as OutputStore says.
THEOREM StoreRefinement == Spec => StoreSpec
<1>1. Init => Store!StoreInit
  BY DEF Init, Store!StoreInit, Attributed
<1> QED BY <1>1, StoreStep, ReaderInvariant, PTL DEF Spec, StoreSpec, Store!StoreSpec

-----------------------------------------------------------------------------
(* What a list of files tells, and the types of the rest. *)

FilesOf(d) == {n \in Store!FileNames : n[1] = d}

\* The files of a device have a strict total order.
LEMMA FilesAreOrdered ==
    ASSUME NEW d, NEW names \in SUBSET FilesOf(d)
    PROVE  StrictTotalOrder({p \in names \X names : ListedBefore(p[1], p[2])}, names)
<1> DEFINE R == {p \in names \X names : ListedBefore(p[1], p[2])}
<1>1. ASSUME NEW x \in names, NEW y \in names
      PROVE  <<x, y>> \in R <=> ListedBefore(x, y)
  OBVIOUS
<1>2. ASSUME NEW x \in names
      PROVE  /\ x = <<d, x[2], x[3]>> /\ x[3] \in Int /\ Rank[x[2]] \in Int
             /\ \A y \in names : Rank[x[2]] = Rank[y[2]] => x[2] = y[2]
  <2>1. x = <<d, x[2], x[3]>> /\ x[3] \in 0..MaxClock
        /\ \A y \in names : y[2] \in {SafeName[m] : m \in Commands}
    BY DEF FilesOf, Store!FileNames
  <2> QED BY <2>1, ClockAssumption, RankAssumption
<1> HIDE DEF R
<1>3. \A x \in names : <<x, x>> \notin R
  BY <1>1, <1>2 DEF ListedBefore
<1>4. ASSUME NEW x \in names, NEW y \in names, NEW z \in names,
             <<x, y>> \in R, <<y, z>> \in R
      PROVE  <<x, z>> \in R
  BY <1>1, <1>2, <1>4 DEF ListedBefore
<1>5. ASSUME NEW x \in names, NEW y \in names
      PROVE  <<x, y>> \in R \/ <<y, x>> \in R \/ x = y
  BY <1>1, <1>2 DEF ListedBefore
<1> QED BY <1>3, <1>4, <1>5 DEF R, StrictTotalOrder

\* The list that is sorted for a device has each of its files once, in order.
LEMMA SortedFiles ==
    ASSUME NEW d, NEW names \in SUBSET FilesOf(d), IsFiniteSet(names)
    PROVE  /\ Cardinality(names) \in Nat
           /\ Sorted(names) \in [1..Cardinality(names) -> names]
           /\ \A i, j \in 1..Cardinality(names) : i < j =>
                 ListedBefore(Sorted(names)[i], Sorted(names)[j])
           /\ \A n \in names : \E i \in 1..Cardinality(names) : Sorted(names)[i] = n
<1> DEFINE N == Cardinality(names)
           R == {p \in names \X names : ListedBefore(p[1], p[2])}
           InOrder(files) == \A i, j \in 1..N : i < j => ListedBefore(files[i], files[j])
<1>1. N \in Nat
  BY FS_CardinalityType
<1>2. StrictTotalOrder(R, names)
  BY FilesAreOrdered
<1>3. \E files \in [1..N -> names] : InOrder(files)
  <2> HIDE DEF R
  <2>1. PICK files \in [1..N -> names] :
           \A i, j \in 1..N : i < j => <<files[i], files[j]>> \in R
    BY <1>2, SortedListExists
  <2> QED BY <2>1 DEF R
<1>4. Sorted(names) = CHOOSE files \in [1..N -> names] : InOrder(files)
  BY Zenon DEF Sorted
<1> HIDE DEF InOrder
<1>5. Sorted(names) \in [1..N -> names] /\ InOrder(Sorted(names))
  BY <1>3, <1>4
<1>6. \A i, j \in 1..N : i < j => Sorted(names)[i] # Sorted(names)[j]
  <2>1. \A n \in names : ~ (<<n, n>> \in R)
    BY <1>2 DEF StrictTotalOrder
  <2>2. \A n \in names : ~ ListedBefore(n, n)
    BY <2>1
  <2> QED BY <1>5, <2>2 DEF InOrder
<1>7. \A n \in names : \E i \in 1..N : Sorted(names)[i] = n
  BY <1>5, <1>6, ListHasAll
<1> QED BY <1>1, <1>5, <1>7 DEF InOrder

\* In a sorted list, the first file of a command is not older than any other.
LEMMA FirstIsLatest ==
    ASSUME NEW d, NEW names \in SUBSET FilesOf(d), IsFiniteSet(names), NEW f \in names
    PROVE  LET files == Sorted(names)
               ofCommand == {i \in DOMAIN files : files[i][2] = f[2]}
           IN  \E i \in ofCommand : (\A j \in ofCommand : i <= j) /\ files[i][3] >= f[3]
<1> DEFINE files == Sorted(names)
           N == Cardinality(names)
           ofCommand == {i \in DOMAIN files : files[i][2] = f[2]}
<1>1. /\ N \in Nat /\ files \in [1..N -> names]
      /\ \A i, j \in 1..N : i < j => ListedBefore(files[i], files[j])
      /\ \E i \in 1..N : files[i] = f
  BY SortedFiles
<1> HIDE DEF files
<1>2. PICK k \in 1..N : files[k] = f
  BY <1>1
<1>3. k \in ofCommand /\ ofCommand \in SUBSET Nat /\ ofCommand \subseteq 1..N
  BY <1>1, <1>2
<1>4. PICK i \in ofCommand : \A j \in ofCommand : i <= j
  <2> HIDE DEF ofCommand
  <2> QED BY <1>3, LeastNumber
<1>5. \A n \in names : n[3] \in Int /\ Rank[n[2]] \in Int
  <2> SUFFICES ASSUME NEW n \in names PROVE n[3] \in Int /\ Rank[n[2]] \in Int
    OBVIOUS
  <2>1. n[3] \in 0..MaxClock /\ n[2] \in {SafeName[m] : m \in Commands}
    BY DEF FilesOf, Store!FileNames
  <2> QED BY <2>1, ClockAssumption, RankAssumption
<1>6. files[i][3] >= f[3]
  <2>1. i \in 1..N /\ files[i] \in names /\ files[i][2] = f[2] /\ i <= k
    BY <1>1, <1>3, <1>4
  <2>2. CASE i = k
    BY <1>2, <1>5, <2>2
  <2>3. CASE i < k
    <3>1. ListedBefore(files[i], f)
      BY <1>1, <1>2, <2>1, <2>3
    <3> QED BY <1>5, <2>1, <3>1 DEF ListedBefore
  <2> QED BY <2>1, <2>2, <2>3, <1>3
<1>7. \E i1 \in ofCommand : (\A j \in ofCommand : i1 <= j) /\ files[i1][3] >= f[3]
  BY <1>4, <1>6
<1> QED BY <1>7 DEF files

\* The list of a device has files of the device, and among them those of every
\* save that was over when the client asked.
ListHeld(d) ==
    \E names \in SUBSET DOMAIN disk :
        /\ \A n \in names : n[1] = d
        /\ listing[d] = Sorted(names)
        /\ cpc \in {"listing", "listed"} =>
              \A w \in before : job[w].device = d => sname[w] \in names

Endings == {"none", "not_found", "empty", "beyond", "complete", "goes_back"}

ListingInv ==
    /\ DOMAIN disk \subseteq Store!FileNames /\ IsFiniteSet(DOMAIN disk)
    /\ before \subseteq Calls /\ unlisted \subseteq Devices
    /\ ending \in Endings /\ steady \in BOOLEAN
    /\ cpc = "idle" => DOMAIN listing = {}
    /\ cpc \in {"listing", "listed"} => \A w \in before : spc[w] = "done"
    /\ \A d \in DOMAIN listing : ListHeld(d)

LEMMA ListingInit == Init => ListingInv
<1> SUFFICES ASSUME Init PROVE ListingInv
  OBVIOUS
<1>1. DOMAIN disk = {} /\ DOMAIN listing = {}
  BY DEF Init, NoListing
<1>2. IsFiniteSet(DOMAIN disk)
  BY <1>1, FS_EmptySet
<1> QED BY <1>1, <1>2 DEF Init, ListingInv, Endings

\* Another file, and a step of a call that is not over, leave the lists as they
\* were.
LEMMA ListsKept ==
    ASSUME ListingInv, UNCHANGED <<cpc, listing, before>>,
           DOMAIN disk \subseteq DOMAIN disk',
           \A w \in Calls : spc[w] = "done" =>
              spc'[w] = "done" /\ job'[w] = job[w] /\ sname'[w] = sname[w]
    PROVE  /\ cpc' \in {"listing", "listed"} => \A w \in before' : spc'[w] = "done"
           /\ \A d \in DOMAIN listing' : ListHeld(d)'
<1>1. before \subseteq Calls /\ (cpc \in {"listing", "listed"} => \A w \in before : spc[w] = "done")
  BY DEF ListingInv
<1>2. ASSUME NEW d \in DOMAIN listing
      PROVE  ListHeld(d)'
  <2>1. PICK names \in SUBSET DOMAIN disk :
           /\ \A n \in names : n[1] = d
           /\ listing[d] = Sorted(names)
           /\ cpc \in {"listing", "listed"} =>
                 \A w \in before : job[w].device = d => sname[w] \in names
    BY DEF ListingInv, ListHeld
  <2>2. names \in SUBSET DOMAIN disk' /\ listing'[d] = Sorted(names)
    BY <2>1
  <2>3. cpc' \in {"listing", "listed"} =>
           \A w \in before' : job'[w].device = d => sname'[w] \in names
    BY <1>1, <2>1
  <2> QED BY <2>1, <2>2, <2>3 DEF ListHeld
<1> QED BY <1>1, <1>2

\* A save opens or writes a file that has a name already.
LEMMA SavingKeepsLists ==
    ASSUME ReaderInv, ListingInv, NEW w \in Calls, SaverStep(w)
    PROVE  ListingInv'
<1>1. /\ spc[w] \in {"named", "opened"} /\ \E point : spc' = [spc EXCEPT ![w] = point]
      /\ UNCHANGED <<job, sname, client>>
      /\ \E content : SetContent(sname[w], content)
  BY DEF SaverStep, OpenOutput, WriteOutput, SaveFails, SaverGoto
<1>2. sname[w] \in Store!FileNames
  BY <1>1 DEF ReaderInv, Named
<1>3. DOMAIN disk' = DOMAIN disk \cup {sname[w]}
  BY <1>1 DEF SetContent
<1>4. steady' \in BOOLEAN
  BY <1>1, Zenon DEF SetContent
<1>5. IsFiniteSet(DOMAIN disk')
  BY <1>3, FS_AddElement DEF ListingInv
<1>6. \A v \in Calls : spc[v] = "done" =>
         spc'[v] = "done" /\ job'[v] = job[v] /\ sname'[v] = sname[v]
  BY <1>1 DEF ReaderInv, Typed
<1>7. UNCHANGED <<cpc, listing, before, unlisted, ending>>
  BY <1>1 DEF client
<1>8. /\ cpc' \in {"listing", "listed"} => \A v \in before' : spc'[v] = "done"
      /\ \A d \in DOMAIN listing' : ListHeld(d)'
  BY <1>3, <1>6, <1>7, ListsKept
<1> QED BY <1>2, <1>3, <1>4, <1>5, <1>7, <1>8 DEF ListingInv

\* Reading changes no list.
LEMMA AnswerKeepsLists ==
    ASSUME ListingInv, ReadAnswers
    PROVE  ListingInv'
<1>1. /\ cpc = "reading" /\ cpc' \in {"reading", "ended"} /\ ending' \in Endings
      /\ UNCHANGED <<disk, spc, job, sname, unlisted, listing, before, steady>>
  <2>1. CASE NotFound \/ EmptyFile \/ BeyondEnd
    BY <2>1 DEF NotFound, EmptyFile, BeyondEnd, ReadEnds, Endings, savers
  <2>2. CASE ReadPage
    <3>1. cpc = "reading" /\ cpc' \in {"reading", "ended"} /\ ending' \in {"complete", "goes_back", ending}
      BY <2>2 DEF ReadPage
    <3>2. UNCHANGED <<disk, spc, job, sname, unlisted, listing, before, steady>>
      BY <2>2 DEF ReadPage, savers
    <3> QED BY <3>1, <3>2 DEF ListingInv, Endings
  <2> QED BY <2>1, <2>2 DEF ReadAnswers
<1>2. \A d \in DOMAIN listing' : ListHeld(d)'
  BY <1>1 DEF ListingInv, ListHeld
<1> QED BY <1>1, <1>2 DEF ListingInv

\* The directory of a device has every file that was saved for it.
LEMMA ListDeviceLists ==
    ASSUME ReaderInv, ListingInv, NEW d \in Devices, ListDevice(d)
    PROVE  ListingInv'
<1> DEFINE names == {n \in DOMAIN disk : n[1] = d}
<1>1. /\ cpc = "listing" /\ unlisted' = unlisted \ {d}
      /\ listing' = [e \in DOMAIN listing \cup {d} |->
                        IF e = d THEN Sorted(names) ELSE listing[e]]
      /\ UNCHANGED <<disk, spc, job, sname, cpc, before, ending, steady>>
  BY DEF ListDevice, savers
<1>2. \A w \in before : job[w].device = d => sname[w] \in names
  BY <1>1 DEF ReaderInv, Named, ListingInv
<1> HIDE DEF names
<1>3. ListHeld(d)'
  <2>1. names \in SUBSET DOMAIN disk' /\ \A n \in names : n[1] = d
    BY <1>1 DEF names
  <2>2. listing'[d] = Sorted(names)
    BY <1>1
  <2> QED BY <1>1, <1>2, <2>1, <2>2 DEF ListHeld
<1>4. ASSUME NEW e \in DOMAIN listing, e # d
      PROVE  ListHeld(e)'
  <2>1. ListHeld(e) /\ listing'[e] = listing[e]
    BY <1>1, <1>4 DEF ListingInv
  <2> QED BY <1>1, <2>1 DEF ListHeld
<1>5. DOMAIN listing' = DOMAIN listing \cup {d}
  BY <1>1
<1> QED BY <1>1, <1>3, <1>4, <1>5 DEF ListingInv

LEMMA ListingStep == ReaderInv /\ ListingInv /\ [Next]_vars => ListingInv'
<1> SUFFICES ASSUME ReaderInv, ListingInv, [Next]_vars PROVE ListingInv'
  OBVIOUS
<1>1. ASSUME NEW w \in Calls, NEW d \in Devices, NEW m \in Commands, NameOutput(w, d, m)
      PROVE  ListingInv'
  <2>1. /\ spc[w] = "idle" /\ \E point : spc' = [spc EXCEPT ![w] = point]
        /\ \E j : job' = [job EXCEPT ![w] = j]
        /\ \E n : sname' = [sname EXCEPT ![w] = n]
        /\ UNCHANGED <<disk, cpc, listing, before, unlisted, ending, steady>>
    BY <1>1 DEF NameOutput, SaverGoto, client
  <2>2. \A v \in Calls : spc[v] = "done" =>
           spc'[v] = "done" /\ job'[v] = job[v] /\ sname'[v] = sname[v]
    BY <2>1 DEF ReaderInv, Typed
  <2>3. /\ cpc' \in {"listing", "listed"} => \A v \in before' : spc'[v] = "done"
        /\ \A e \in DOMAIN listing' : ListHeld(e)'
    BY <2>1, <2>2, ListsKept
  <2> QED BY <2>1, <2>3 DEF ListingInv
<1>2. ASSUME NEW w \in Calls, SaverStep(w)
      PROVE  ListingInv'
  BY <1>2, SavingKeepsLists
<1>3. CASE Tick \/ UNCHANGED vars
  <2>1. UNCHANGED <<disk, spc, job, sname, cpc, listing, before, unlisted, ending, steady>>
    BY <1>3 DEF Tick, vars, savers, client
  <2>2. /\ cpc' \in {"listing", "listed"} => \A v \in before' : spc'[v] = "done"
        /\ \A e \in DOMAIN listing' : ListHeld(e)'
    BY <2>1, ListsKept
  <2> QED BY <2>1, <2>2 DEF ListingInv
<1>4. ASSUME NEW D \in SUBSET Devices, AskList(D)
      PROVE  ListingInv'
  <2>1. /\ cpc = "idle" /\ cpc' = "listing" /\ unlisted' = D /\ before' = Saved
        /\ UNCHANGED <<disk, spc, job, sname, listing, ending, steady>>
    BY <1>4 DEF AskList, savers
  <2>2. Saved \subseteq Calls /\ \A w \in Saved : spc[w] = "done"
    BY DEF Saved
  <2> QED BY <2>1, <2>2 DEF ListingInv
<1>5. ASSUME NEW d \in Devices, ListDevice(d)
      PROVE  ListingInv'
  BY <1>5, ListDeviceLists
<1>6. CASE ListReturns
  <2>1. /\ cpc = "listing" /\ cpc' = "listed"
        /\ UNCHANGED <<disk, spc, job, sname, listing, before, unlisted, ending, steady>>
    BY <1>6 DEF ListReturns, savers
  <2>2. \A d \in DOMAIN listing' : ListHeld(d)'
    BY <2>1 DEF ListingInv, ListHeld
  <2> QED BY <2>1, <2>2 DEF ListingInv
<1>7. CASE ListFails
  <2>1. /\ cpc' = "idle" /\ DOMAIN listing' = {} /\ unlisted' = {} /\ before' = {}
        /\ UNCHANGED <<disk, ending, steady>>
    BY <1>7 DEF ListFails, NoListing
  <2> QED BY <2>1 DEF ListingInv
<1>8. ASSUME NEW name \in Store!FileNames, NEW offset \in Offsets, NEW limit \in Limits,
             AskRead(name, offset, limit)
      PROVE  ListingInv'
  <2>1. /\ cpc' = "reading" /\ DOMAIN listing' = {} /\ before' = Saved /\ steady' = TRUE
        /\ UNCHANGED <<disk, unlisted, ending>>
    BY <1>8 DEF AskRead, NoListing
  <2> QED BY <2>1 DEF ListingInv, Saved
<1>9. CASE ReadAnswers
  BY <1>9, AnswerKeepsLists
<1> QED BY <1>1, <1>2, <1>3, <1>4, <1>5, <1>6, <1>7, <1>8, <1>9 DEF Next, Quiet

LEMMA ListingHolds == Spec => []ListingInv
BY ListingInit, ListingStep, ReaderInvariant, PTL DEF Spec

\* The files that a list was made of.
LEMMA ListedFiles ==
    ASSUME ListingInv, NEW d, NEW names \in SUBSET DOMAIN disk, \A n \in names : n[1] = d
    PROVE  names \in SUBSET FilesOf(d) /\ IsFiniteSet(names)
<1>1. IsFiniteSet(names)
  BY FS_Subset DEF ListingInv
<1> QED BY <1>1 DEF ListingInv, FilesOf

\* Every variable has its type: the names of the files are those of devices,
\* commands and seconds, and a list is a sequence of them.
THEOREM TypeCorrect == Spec => []TypeOK
<1>1. ReaderInv /\ ListingInv => TypeOK
  <2> SUFFICES ASSUME ReaderInv, ListingInv PROVE TypeOK
    OBVIOUS
  <2>1. ASSUME NEW d \in DOMAIN listing
        PROVE  listing[d] \in Seq(Store!FileNames)
    <3>1. PICK names \in SUBSET DOMAIN disk :
             (\A n \in names : n[1] = d) /\ listing[d] = Sorted(names)
      BY DEF ListingInv, ListHeld
    <3>2. names \in SUBSET FilesOf(d) /\ IsFiniteSet(names)
      BY <3>1, ListedFiles
    <3>3. Cardinality(names) \in Nat /\ Sorted(names) \in [1..Cardinality(names) -> names]
      BY <3>2, SortedFiles
    <3>4. Sorted(names) \in [1..Cardinality(names) -> Store!FileNames]
      BY <3>2, <3>3 DEF FilesOf
    <3> QED BY <3>1, <3>3, <3>4
  <2>2. query.offset \in Int /\ query.limit \in Int
    BY DEF ReaderInv, Typed
  <2>3. /\ \A name \in DOMAIN disk : disk[name] \in Seq(Calls \X (Nat \ {0}))
        /\ pages \in Seq(SUBSET (Calls \X (Nat \ {0})))
    BY DEF ReaderInv, Typed, FileText, FileLines, Bytes
  <2> QED BY <2>1, <2>2, <2>3 DEF TypeOK, ReaderInv, Typed, Named, ListingInv, Endings
<1> QED BY <1>1, ReaderInvariant, ListingHolds, PTL

\* What "newest first" means when a device has files of several commands: of the
\* files of one command, the first in the list is not older than any save that
\* was over when the client asked.
THEOREM LatestOfCommandFirstCorrect == Spec => []LatestOfCommandFirst
<1>1. ASSUME ReaderInv, ListingInv, NEW w \in before, cpc = "listed",
             job[w].device \in DOMAIN listing
      PROVE  LET files == listing[job[w].device]
                 ofCommand == {i \in DOMAIN files : files[i][2] = sname[w][2]}
             IN  \E i \in ofCommand :
                    (\A j \in ofCommand : i <= j) /\ files[i][3] >= sname[w][3]
  <2> DEFINE d == job[w].device
  <2>1. PICK names \in SUBSET DOMAIN disk :
           (\A n \in names : n[1] = d) /\ listing[d] = Sorted(names) /\ sname[w] \in names
    BY <1>1 DEF ListingInv, ListHeld
  <2> HIDE DEF d
  <2>2. names \in SUBSET FilesOf(d) /\ IsFiniteSet(names)
    BY <1>1, <2>1, ListedFiles
  <2>3. LET files == Sorted(names)
            ofCommand == {i \in DOMAIN files : files[i][2] = sname[w][2]}
        IN  \E i \in ofCommand :
               (\A j \in ofCommand : i <= j) /\ files[i][3] >= sname[w][3]
    BY <2>1, <2>2, FirstIsLatest
  <2> QED BY <2>1, <2>3 DEF d
<1>2. ReaderInv /\ ListingInv => LatestOfCommandFirst
  BY <1>1 DEF LatestOfCommandFirst
<1> QED BY <1>2, ReaderInvariant, ListingHolds, PTL

-----------------------------------------------------------------------------
(* A client reads a bounded number of pages. *)

\* No save has more than L bytes, so no file has, whatever order truncations and
\* writes come in.
FilesUpTo(L) == \A name \in DOMAIN disk : Len(disk[name]) <= L

\* The safety part of FollowingEnds: an answer to a client that asks for a line
\* at least is the last one, or names a continuation that is further on and
\* still before L, for a
\* file has no more lines than bytes; and nothing but an answer moves the client.
PagesAdvance(L) ==
    [][cpc = "reading" /\ query.limit >= 1 =>
          /\ ReadAnswers => \/ cpc' = "ended"
                            \/ /\ cpc' = "reading" /\ query'.limit = query.limit
                               /\ query.offset < query'.offset /\ query'.offset < L
          /\ ReadAnswers \/ UNCHANGED <<cpc, query>>]_vars

LEMMA FilesUpToStep ==
    ASSUME NEW L \in Nat, \A w \in Calls : Size[w] <= L
    PROVE  ReaderInv /\ FilesUpTo(L) /\ [Next]_vars => FilesUpTo(L)'
<1> SUFFICES ASSUME ReaderInv, FilesUpTo(L), [Next]_vars PROVE FilesUpTo(L)'
  OBVIOUS
<1>1. ASSUME NEW w \in Calls, SaverStep(w)
      PROVE  FilesUpTo(L)'
  <2>1. CASE OpenOutput(w)
    <3>1. /\ DOMAIN disk' = DOMAIN disk \cup {sname[w]} /\ disk'[sname[w]] = <<>>
          /\ \A name \in DOMAIN disk : name # sname[w] => disk'[name] = disk[name]
      BY <2>1 DEF OpenOutput, SetContent
    <3>2. Len(<<>>) <= L
      OBVIOUS
    <3> QED BY <3>1, <3>2 DEF FilesUpTo
  <2>2. CASE WriteOutput(w) \/ SaveFails(w)
    <3>1. PICK n \in 0..Size[w] :
             /\ spc[w] = "opened"
             /\ SetContent(sname[w], Overlaid(SubSeq(Output(w), 1, n), disk[sname[w]]))
      BY <2>2, WritesSome
    <3>2. sname[w] \in DOMAIN disk
      BY <3>1 DEF ReaderInv, Named
    <3> DEFINE new == SubSeq(Output(w), 1, n)
               old == disk[sname[w]]
               content == Overlaid(new, old)
    <3>3. /\ new \in FileText /\ Len(new) = n /\ old \in FileText /\ Len(old) <= L
          /\ Size[w] \in Nat /\ Size[w] <= L
      BY <3>2, OutputPart, SizeAssumption DEF ReaderInv, Typed, FilesUpTo
    <3> HIDE DEF new, old
    <3>4. /\ content \in FileText
          /\ \A k \in 1..Len(content) : k \in 1..Len(new) \/ k \in 1..Len(old)
      BY <3>3, OverlaidBytes
    <3>5. Len(content) <= L
      <4>1. Len(content) \in Nat /\ Len(old) \in Nat
        BY <3>3, <3>4 DEF FileText
      <4>2. CASE Len(content) = 0
        BY <4>2
      <4>3. CASE Len(content) # 0
        BY <3>3, <3>4, <4>1, <4>3
      <4> QED BY <4>2, <4>3
    <3>6. /\ DOMAIN disk' = DOMAIN disk /\ disk'[sname[w]] = content
          /\ \A name \in DOMAIN disk : name # sname[w] => disk'[name] = disk[name]
      BY <3>1, <3>2 DEF SetContent, new, old
    <3> HIDE DEF content
    <3> QED BY <3>5, <3>6 DEF FilesUpTo
  <2> QED BY <1>1, <2>1, <2>2 DEF SaverStep
<1>2. CASE ~ \E w \in Calls : SaverStep(w)
  <2>1. disk' = disk
    BY <1>2 DEF Next, NameOutput, Tick, AskList, ListFails, ListDevice, ListReturns, AskRead,
                ReadAnswers, NotFound, EmptyFile, BeyondEnd, ReadEnds, ReadPage, Quiet, vars
  <2> QED BY <2>1 DEF FilesUpTo
<1> QED BY <1>1, <1>2

LEMMA AnswerAdvances ==
    ASSUME ReaderInv, NEW L \in Nat, FilesUpTo(L), cpc = "reading", query.limit >= 1, ReadAnswers
    PROVE  \/ cpc' = "ended"
           \/ /\ cpc' = "reading" /\ query'.limit = query.limit
              /\ query.offset < query'.offset /\ query'.offset < L
<1>1. CASE NotFound \/ EmptyFile \/ BeyondEnd
  BY <1>1 DEF NotFound, EmptyFile, BeyondEnd, ReadEnds
<1>2. ASSUME ReadPage, cpc' # "ended"
      PROVE  /\ cpc' = "reading" /\ query'.limit = query.limit
             /\ query.offset < query'.offset /\ query'.offset < L
  <2>1. PICK lines \in ToSet(Content(query.name)) :
           \E end \in Continuation(query.offset, query.limit, Len(lines)) :
              query' = [query EXCEPT !.offset = end] /\ cpc' = cpc
    BY <1>2 DEF ReadPage
  <2>2. PICK end \in Continuation(query.offset, query.limit, Len(lines)) :
           query' = [query EXCEPT !.offset = end] /\ cpc' = cpc
    BY <2>1
  <2>3. query.name \in DOMAIN disk /\ lines = LinesOf(disk[query.name])
    BY <2>1 DEF Content, ToSet
  <2>4. /\ query \in [name : Store!FileNames \cup {<<>>}, offset : Int, limit : Int]
        /\ Len(lines) \in Nat /\ Len(lines) <= L
    <3>1. disk[query.name] \in FileText /\ Len(disk[query.name]) \in Nat
          /\ Len(disk[query.name]) <= L
      BY <2>3 DEF ReaderInv, Typed, FileText, FilesUpTo
    <3>2. Len(lines) \in Nat /\ Len(lines) <= Len(disk[query.name])
      BY <2>3, <3>1, LinesOfText
    <3>3. query \in [name : Store!FileNames \cup {<<>>}, offset : Int, limit : Int]
      BY DEF ReaderInv, Typed
    <3> QED BY <3>1, <3>2, <3>3
  <2>5. end = query.offset + query.limit /\ end < Len(lines)
    BY <2>4 DEF Continuation, EndOf
  <2>6. query'.offset = end /\ query'.limit = query.limit
    BY <2>2, <2>4
  <2> QED BY <2>2, <2>4, <2>5, <2>6
<1> QED BY <1>1, <1>2 DEF ReadAnswers

\* A client that asks for at least one line at a time gets to the end of a file,
\* even while any number of calls truncate, rewrite and tear it: from its first
\* line, with no more answers than the longest output has bytes, which is how many
\* lines a file can have.
THEOREM PagesAdvanceCorrect ==
    ASSUME NEW L \in Nat, \A w \in Calls : Size[w] <= L
    PROVE  Spec => PagesAdvance(L)
<1>1. Init => FilesUpTo(L)
  BY DEF Init, FilesUpTo
<1>2. ReaderInv /\ FilesUpTo(L) /\ [Next]_vars => FilesUpTo(L)'
  BY FilesUpToStep
<1>3. ReaderInv /\ FilesUpTo(L) /\ [Next]_vars =>
        (cpc = "reading" /\ query.limit >= 1 =>
          /\ ReadAnswers => \/ cpc' = "ended"
                            \/ /\ cpc' = "reading" /\ query'.limit = query.limit
                               /\ query.offset < query'.offset /\ query'.offset < L
          /\ ReadAnswers \/ UNCHANGED <<cpc, query>>)
  <2> SUFFICES ASSUME ReaderInv, FilesUpTo(L), [Next]_vars, cpc = "reading", query.limit >= 1
               PROVE  /\ ReadAnswers => \/ cpc' = "ended"
                                        \/ /\ cpc' = "reading" /\ query'.limit = query.limit
                                           /\ query.offset < query'.offset /\ query'.offset < L
                      /\ ReadAnswers \/ UNCHANGED <<cpc, query>>
    OBVIOUS
  <2>1. ReadAnswers \/ UNCHANGED <<cpc, query>>
    BY DEF Next, NameOutput, SaverStep, OpenOutput, WriteOutput, SaveFails, Tick, AskList,
           ListFails, ListDevice, ListReturns, AskRead, Quiet, client, vars
  <2> QED BY <2>1, AnswerAdvances
<1> QED BY <1>1, <1>2, <1>3, ReaderInvariant, PTL DEF Spec, PagesAdvance

=============================================================================
