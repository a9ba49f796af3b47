-------------------------- MODULE CommandValidation --------------------------
(***************************************************************************)
(* src/netmiko_mcp/security.py: whether a command may be sent, given the   *)
(* allowed_commands and denied_commands of commands.yml.                   *)
(*                                                                         *)
(* A command and a list entry are what str.split makes of them: sequences  *)
(* of words, each a sequence of characters, lower case throughout since    *)
(* every comparison ignores case.  In an entry "*" is a character.  A      *)
(* command is its base (before the first pipe), with what follows the pipe *)
(* and whether its characters are allowed.                                 *)
(***************************************************************************)
EXTENDS Naturals, FiniteSets, Sequences, SequencesExt

CONSTANTS
    Characters,     \* what words are made of, "*" included
    Entries,        \* the entries an operator writes into denied_commands
    AllowLists,     \* the allowed_commands lists to consider, as sets
    Commands,       \* the commands that are submitted
    MaxDenied       \* bound: entries of denied_commands

\* str.split leaves no empty word.
Word == Seq(Characters) \ {<<>>}

\* What follows the first pipe of a command.
Pipes == {"none", "empty", "listed", "unlisted", "multiple"}

ASSUME EntriesAssumption == Entries \subseteq Seq(Word)
ASSUME CommandsAssumption ==
    Commands \subseteq [safe : BOOLEAN, base : Seq(Word), pipe : Pipes]
ASSUME MaxDeniedAssumption == MaxDenied \in Nat

VARIABLES
    allow_pipe, \* settings.allow_pipe
    allowed,    \* the entries of allowed_commands
    denied,     \* the entries of denied_commands that were indexed so far
    trie        \* the index of AbbreviationDenyFilter

vars == <<allow_pipe, allowed, denied, trie>>

-----------------------------------------------------------------------------
(* Entries and their globs. *)

HasStar(word) == \E i \in DOMAIN word : word[i] = "*"
StarIn(words) == \E i \in DOMAIN words : HasStar(words[i])

\* "cmd *" asks for another word, "cmd*" goes on in any way.
SpaceGlob(entry) == entry # <<>> /\ Last(entry) = <<"*">>
InlineGlob(entry) == entry # <<>> /\ ~SpaceGlob(entry) /\ Last(Last(entry)) = "*"
Plain(entry) == ~SpaceGlob(entry) /\ ~InlineGlob(entry)

\* The words of an entry without its trailing star.
Stem(entry) ==
    CASE SpaceGlob(entry)  -> Front(entry)
      [] InlineGlob(entry) -> Append(Front(entry), Front(Last(entry)))
      [] OTHER             -> entry

\* What the startup check reports: a star alone, and one that does not trail.
InvalidGlob(entry) ==
    StarIn(Stem(entry)) \/ (SpaceGlob(entry) /\ Stem(entry) = <<>>)

-----------------------------------------------------------------------------
(* glob_to_regex: the words, or the words before the star and what follows.  *)

GlobMatches(entry, words) ==
    LET stem == Stem(entry)
    IN  \/ Plain(entry) /\ words = stem
        \/ SpaceGlob(entry) /\ IsPrefix(stem, words) /\ words # stem
        \/ /\ InlineGlob(entry)
           /\ Len(words) >= Len(stem)
           /\ IsPrefix(Front(stem), words)
           /\ IsPrefix(Last(stem), words[Len(stem)])

DenyCheck(words) == \E entry \in denied : GlobMatches(entry, words)

AllowMatch(words) == \E entry \in allowed : GlobMatches(entry, words)

-----------------------------------------------------------------------------
(* The trie.  A node is the path to it: the words that end before its level, *)
(* then the part of a word that leads to it from the root of its level.  The *)
(* trie maps each node to its flags.                                         *)

Root == << <<>> >>
Flags == {"word_end", "final_word", "glob_suffix", "glob_next_word"}

EmptyTrie == [n \in {Root} |-> {}]

\* Mutant: of each word, only the node where it ends is created.
MutWordNodes(words) == {SubSeq(words, 1, i) : i \in DOMAIN words}

\* The nodes add walks through, creating those that lack.
Walked(words) ==
    UNION {{Append(SubSeq(words, 1, i - 1), part) : part \in Prefixes(words[i])} :
              i \in DOMAIN words}

\* The flags add sets on a node of its walk.
NewFlags(entry, n) ==
    LET stem == Stem(entry)
        kind == CASE SpaceGlob(entry)  -> "glob_next_word"
                  [] InlineGlob(entry) -> "glob_suffix"
                  [] OTHER             -> "final_word"
    IN  {f \in {"word_end", kind} :
            \/ f = "word_end" /\ Last(n) # <<>> /\ IsPrefix(n, stem)
            \/ f = kind /\ n = stem}

Merged(t, entry, kept) ==
    [n \in kept \cup Walked(Stem(entry)) |->
        (IF n \in kept THEN t[n] ELSE {}) \cup NewFlags(entry, n)]

\* Mutant: next_word_trie is a new node each time, so what earlier entries
\* hung below a shared word is lost.
MutNewSubtrie(t, entry) ==
    IF entry = <<>> THEN t
    ELSE Merged(t, entry,
            {n \in DOMAIN t : ~\E i \in 1..(Len(Stem(entry)) - 1) :
                Len(n) > i /\ IsPrefix(SubSeq(Stem(entry), 1, i), n)})

\* Mutant: a word that ends several entries keeps the kind of the last one.
MutOneKind(t, entry) ==
    IF entry = <<>> THEN t
    ELSE [Merged(t, entry, DOMAIN t) EXCEPT ![Stem(entry)] =
            NewFlags(entry, Stem(entry))]

\* add: an entry without words is skipped.
Inserted(t, entry) == IF entry = <<>> THEN t ELSE Merged(t, entry, DOMAIN t)

\* The search goes down one level for each submitted word.  `later` has the
\* roots of the next level from which the words after words[i] are matched.

\* A deny word ends at n, and the submitted words end the way it asks for.
EndsHere(t, n, words, i, later) ==
    /\ "word_end" \in t[n]
    /\ \/ "final_word" \in t[n] /\ i = Len(words)
       \/ "glob_suffix" \in t[n]
       \/ "glob_next_word" \in t[n] /\ i < Len(words)
       \/ i < Len(words) /\ Append(n, <<>>) \in later

\* Mutant: the children of the node are not searched.
MutNoDescent(t, node, words, i, later) == EndsHere(t, node, words, i, later)

\* find_word_end: the search below the node that the submitted word reaches.
FindWordEnd(t, node, words, i, later) ==
    \E n \in DOMAIN t :
        /\ Len(n) = Len(node)
        /\ Front(n) = Front(node)
        /\ IsPrefix(Last(node), Last(n))
        /\ EndsHere(t, n, words, i, later)

\* match_word: a stem with a star is passed on the way, or the word is walked to
\* its end.
MatchWord(t, root, words, i, later) ==
    LET At(part) == Append(Front(root), part)
    IN  \/ \E part \in Prefixes(words[i]) \ {words[i]} :
              At(part) \in DOMAIN t /\ "glob_suffix" \in t[At(part)]
        \/ /\ At(words[i]) \in DOMAIN t
           /\ FindWordEnd(t, At(words[i]), words, i, later)

\* The roots of level i that match the words from words[i] on.
Matching(t, words) ==
    LET roots[i \in 1..(Len(words) + 1)] ==
            IF i > Len(words) THEN {}
            ELSE {root \in DOMAIN t :
                     /\ Len(root) = i /\ Last(root) = <<>>
                     /\ MatchWord(t, root, words, i, roots[i + 1])}
    IN  roots

IsDenied(t, words) == words # <<>> /\ Root \in Matching(t, words)[1]

-----------------------------------------------------------------------------
(* validate_command. *)

Reasons == {"ALLOWED", "UNSAFE_CHAR", "DENY_MATCH", "MULTIPLE_PIPES",
            "INVALID_PIPE_MODIFIER", "NO_ALLOW_MATCH"}

UnsafeChar(c) == ~c.safe \/ (c.pipe # "none" /\ ~allow_pipe)

\* Mutant: the lists are compared with the command, pipe included.
MutWholeCommand(c) == c.pipe = "none" /\ (DenyCheck(c.base) \/ IsDenied(trie, c.base))

DenyMatch(c) == DenyCheck(c.base) \/ IsDenied(trie, c.base)

Reason(c) ==
    CASE UnsafeChar(c)                  -> "UNSAFE_CHAR"
      [] ~UnsafeChar(c) /\ DenyMatch(c) -> "DENY_MATCH"
      [] OTHER ->
            CASE c.pipe = "multiple"              -> "MULTIPLE_PIPES"
              [] c.pipe \in {"empty", "unlisted"} -> "INVALID_PIPE_MODIFIER"
              [] OTHER -> IF AllowMatch(c.base) THEN "ALLOWED" ELSE "NO_ALLOW_MATCH"

Allowed(c) == Reason(c) = "ALLOWED"

-----------------------------------------------------------------------------
(* The lists are loaded, then build_abbreviation_filter indexes the deny     *)
(* entries one by one; the entries that the startup check reports never come *)
(* this far.                                                                 *)

Init ==
    /\ allow_pipe \in BOOLEAN
    /\ allowed \in AllowLists
    /\ denied = {}
    /\ trie = EmptyTrie

Add(entry) ==
    /\ Cardinality(denied) < MaxDenied
    /\ entry \notin denied
    /\ ~InvalidGlob(entry)
    /\ denied' = denied \cup {entry}
    /\ trie' = Inserted(trie, entry)
    /\ UNCHANGED <<allow_pipe, allowed>>

Next == \E entry \in Entries : Add(entry)

Spec == Init /\ [][Next]_vars

-----------------------------------------------------------------------------
(* Properties. *)

\* The trie is a tree: every node but the root has the node it was reached
\* from, one character or one whole word before it.
TypeOK ==
    /\ denied \subseteq Entries
    /\ Root \in DOMAIN trie
    /\ \A n \in DOMAIN trie :
          /\ trie[n] \subseteq Flags
          /\ Last(n) # <<>> => Append(Front(n), Front(Last(n))) \in DOMAIN trie
          /\ Last(n) = <<>> /\ n # Root =>
                Front(n) \in DOMAIN trie /\ "word_end" \in trie[Front(n)]

\* The reference: entry denies words when each of its words is abbreviated by
\* the submitted one, with the words its star asks for.
Denies(entry, words) ==
    LET stem == Stem(entry)
        Abbreviates(i) == IsPrefix(words[i], stem[i])
    IN  /\ stem # <<>>
        /\ Len(words) >= Len(stem)
        /\ \A i \in 1..(Len(stem) - 1) : Abbreviates(i)
        /\ \/ Abbreviates(Len(stem))
           \/ InlineGlob(entry) /\ IsPrefix(Last(stem), words[Len(stem)])
        /\ Plain(entry) => Len(words) = Len(stem)
        /\ SpaceGlob(entry) => Len(words) > Len(stem)

\* The index denies what some entry denies on its own: entries that share
\* words or prefixes of words neither hide nor widen one another
\* (AbbreviationDenyFilter: add, match_word, find_word_end).
TrieMeansItsEntries ==
    \A c \in Commands :
        IsDenied(trie, c.base) <=> \E entry \in denied : Denies(entry, c.base)

Shortens(short, long) ==
    /\ Len(short) = Len(long)
    /\ \A i \in DOMAIN short : IsPrefix(short[i], long[i])

\* A denied command stays denied when its words are abbreviated, which the
\* device would complete: deny_check and the index leave no gap between them.
AbbreviationIsDenied ==
    LET plain  == {c \in Commands : c.pipe = "none"}
        caught == {c \in plain : DenyMatch(c)}
    IN  \A c \in plain \ caught, d \in caught : ~Shortens(c.base, d.base)

\* A pipe narrows what is shown and never what is checked: a command with a
\* pipe is allowed only where the same command without it is.
PipeAllowsNoMore ==
    \A c \in Commands : Allowed(c) => Allowed([c EXCEPT !.pipe = "none"])

\* A further deny entry may only deny: no command that was refused is allowed
\* once the entry is indexed beside the others.
NewEntryOnlyDenies ==
    [][\A c \in Commands : Allowed(c)' => Allowed(c)]_vars

=============================================================================
