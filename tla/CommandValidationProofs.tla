------------------------ MODULE CommandValidationProofs ------------------------
(***************************************************************************)
(* Proofs about CommandValidation, for deny lists of any length, entries   *)
(* and commands of any number of words, and words of any length over any   *)
(* characters.                                                             *)
(***************************************************************************)
EXTENDS CommandValidation, FiniteLemmas, SequenceTheorems

-----------------------------------------------------------------------------
(* Sequences. *)

\* One sequence is a prefix of another when it agrees as far as it goes.
LEMMA PrefixElements ==
    ASSUME NEW S, NEW s \in Seq(S), NEW t \in Seq(S)
    PROVE  IsPrefix(s, t) <=> Len(s) <= Len(t) /\ \A i \in 1..Len(s) : s[i] = t[i]
<1>1. SubSeq(s, 1, Len(s)) = s /\ Len(s) \in Nat /\ Len(t) \in Nat
  OBVIOUS
<1>2. ASSUME Len(s) <= Len(t)
      PROVE  s = SubSeq(t, 1, Len(s)) <=> \A i \in 1..Len(s) : s[i] = t[i]
  <2> DEFINE u == SubSeq(t, 1, Len(s))
  <2>1. u \in Seq(S) /\ Len(u) = Len(s) /\ \A i \in 1..Len(s) : u[i] = t[i]
    BY <1>1, <1>2
  <2> HIDE DEF u
  <2>2. (\A i \in 1..Len(s) : s[i] = u[i]) => s = u
    BY <2>1, SeqEqual
  <2> QED BY <2>1, <2>2 DEF u
<1> QED BY <1>1, <1>2 DEF IsPrefix

\* The prefixes of a sequence.
LEMMA PrefixesMembers ==
    ASSUME NEW S, NEW t \in Seq(S), NEW s
    PROVE  s \in Prefixes(t) <=> s \in Seq(S) /\ IsPrefix(s, t)
<1>1. ASSUME NEW l \in 0..Len(t), s = SubSeq(t, 1, l)
      PROVE  s \in Seq(S) /\ IsPrefix(s, t)
  <2>1. s \in Seq(S) /\ Len(s) = l /\ \A i \in 1..l : s[i] = t[i]
    BY <1>1
  <2> QED BY <2>1, PrefixElements
<1>2. ASSUME s \in Seq(S), IsPrefix(s, t)
      PROVE  Len(s) \in 0..Len(t) /\ s = SubSeq(t, 1, Len(s))
  BY <1>2 DEF IsPrefix
<1> QED BY <1>1, <1>2 DEF Prefixes

\* Prefixes are ordered, and two prefixes of one sequence are comparable.
LEMMA PrefixOrder ==
    ASSUME NEW S, NEW s \in Seq(S), NEW t \in Seq(S), NEW u \in Seq(S)
    PROVE  /\ IsPrefix(s, s)
           /\ IsPrefix(s, t) /\ IsPrefix(t, u) => IsPrefix(s, u)
           /\ IsPrefix(s, u) /\ IsPrefix(t, u) => IsPrefix(s, t) \/ IsPrefix(t, s)
BY PrefixElements

LEMMA EmptyPrefix ==
    ASSUME NEW S, NEW t \in Seq(S)
    PROVE  IsPrefix(<<>>, t)
<1>1. <<>> \in Seq(S) /\ Len(<<>>) = 0 /\ Len(t) \in Nat
  OBVIOUS
<1>2. Len(<<>>) <= Len(t) /\ \A i \in 1..Len(<<>>) : <<>>[i] = t[i]
  BY <1>1
<1> QED BY <1>1, <1>2, PrefixElements

\* A sequence that is not empty is its front and its last element.
LEMMA FrontLast ==
    ASSUME NEW S, NEW s \in Seq(S), s # <<>>
    PROVE  /\ Len(s) \in Nat \ {0} /\ Last(s) = s[Len(s)] /\ Last(s) \in S
           /\ Front(s) \in Seq(S) /\ Len(Front(s)) = Len(s) - 1
           /\ \A i \in 1..(Len(s) - 1) : Front(s)[i] = s[i]
<1>1. Len(s) \in Nat \ {0}
  OBVIOUS
<1>2. Last(s) = s[Len(s)] /\ Last(s) \in S
  BY <1>1 DEF Last
<1>3. /\ SubSeq(s, 1, Len(s) - 1) \in Seq(S) /\ Len(SubSeq(s, 1, Len(s) - 1)) = Len(s) - 1
      /\ \A i \in 1..(Len(s) - 1) : SubSeq(s, 1, Len(s) - 1)[i] = s[i]
  <2> DEFINE l == Len(s) - 1
  <2>1. l \in Nat /\ l <= Len(s)
    BY <1>1
  <2> HIDE DEF l
  <2>2. /\ SubSeq(s, 1, l) \in Seq(S) /\ Len(SubSeq(s, 1, l)) = l
        /\ \A i \in 1..l : SubSeq(s, 1, l)[i] = s[i]
    BY <1>1, <2>1
  <2> QED BY <2>2 DEF l
<1> QED BY <1>1, <1>2, <1>3 DEF Front

\* A sequence with an element added.
LEMMA AppendLast ==
    ASSUME NEW S, NEW s \in Seq(S), NEW x \in S
    PROVE  /\ Append(s, x) \in Seq(S) /\ Append(s, x) # <<>>
           /\ Len(Append(s, x)) = Len(s) + 1 /\ Append(s, x)[Len(s) + 1] = x
           /\ \A i \in 1..Len(s) : Append(s, x)[i] = s[i]
           /\ Last(Append(s, x)) = x /\ Front(Append(s, x)) = s
<1>1. /\ Append(s, x) \in Seq(S) /\ Append(s, x) # <<>>
      /\ Len(Append(s, x)) = Len(s) + 1 /\ Append(s, x)[Len(s) + 1] = x
      /\ \A i \in 1..Len(s) : Append(s, x)[i] = s[i]
  OBVIOUS
<1>2. Last(Append(s, x)) = x
  BY <1>1 DEF Last
<1>3. Front(Append(s, x)) = s
  <2> DEFINE a == Append(s, x)
  <2>1. a \in Seq(S) /\ a # <<>> /\ Len(a) = Len(s) + 1 /\ \A i \in 1..Len(s) : a[i] = s[i]
    BY <1>1
  <2> HIDE DEF a
  <2>2. /\ Front(a) \in Seq(S) /\ Len(Front(a)) = Len(a) - 1
        /\ \A i \in 1..(Len(a) - 1) : Front(a)[i] = a[i]
    BY <2>1, FrontLast
  <2>3. Len(s) \in Nat /\ Len(Front(a)) = Len(s) /\ \A i \in 1..Len(s) : Front(a)[i] = s[i]
    BY <2>1, <2>2
  <2>4. Front(a) = s
    BY <2>2, <2>3, SeqEqual
  <2> QED BY <2>4 DEF a
<1> QED BY <1>1, <1>2, <1>3

-----------------------------------------------------------------------------
(* Entries and the nodes they lead to. *)

\* A node: for each level the part of a word that leads to it, which is empty
\* at the root of the level.
Part == Seq(Characters)
Node == Seq(Part) \ {<<>>}

LEMMA WordIsPart == Word \subseteq Part /\ Seq(Word) \subseteq Seq(Part) /\ <<>> \in Part
<1>1. Word \subseteq Part /\ <<>> \in Part
  BY DEF Word, Part
<1> QED BY <1>1, SeqMonotonic

\* An entry that the startup check accepts keeps a word without its star.
LEMMA StemType ==
    ASSUME NEW entry \in Seq(Word), entry # <<>>, ~InvalidGlob(entry)
    PROVE  Stem(entry) \in Seq(Word) /\ Stem(entry) # <<>>
<1>1. Front(entry) \in Seq(Word) /\ Last(entry) \in Word
  BY FrontLast
<1>2. CASE SpaceGlob(entry)
  <2>1. Stem(entry) = Front(entry)
    BY <1>2 DEF Stem, InlineGlob
  <2> QED BY <1>1, <1>2, <2>1 DEF InvalidGlob
<1>3. CASE ~SpaceGlob(entry) /\ InlineGlob(entry)
  <2> DEFINE last == Last(entry)
  <2>1. last \in Seq(Characters) /\ last # <<>> /\ last # <<"*">> /\ Last(last) = "*"
    BY <1>1, <1>3 DEF SpaceGlob, InlineGlob, Word
  <2>2. Stem(entry) = Append(Front(entry), Front(last))
    BY <1>3, Zenon DEF Stem
  <2> HIDE DEF last
  <2>3. /\ Front(last) \in Seq(Characters) /\ Len(Front(last)) = Len(last) - 1
        /\ Len(last) \in Nat \ {0} /\ last[Len(last)] = "*"
    BY <2>1, FrontLast
  <2>4. Len(last) # 1
    <3> SUFFICES ASSUME Len(last) = 1 PROVE FALSE
      OBVIOUS
    <3>1. last = <<last[1]>>
      BY <2>1
    <3> QED BY <2>1, <2>3, <3>1
  <2>5. Front(last) # <<>>
    BY <2>3, <2>4
  <2>6. Front(last) \in Word
    BY <2>3, <2>5 DEF Word
  <2> QED BY <1>1, <2>2, <2>6, AppendLast
<1>4. CASE ~SpaceGlob(entry) /\ ~InlineGlob(entry)
  BY <1>4 DEF Stem
<1> QED BY <1>2, <1>3, <1>4

\* n is on the way to the end of stem.
Leads(n, stem) ==
    /\ n \in Node /\ Len(n) <= Len(stem)
    /\ \A j \in 1..(Len(n) - 1) : n[j] = stem[j]
    /\ IsPrefix(n[Len(n)], stem[Len(n)])

\* The nodes of the walk are those on the way.
LEMMA WalkedNodes ==
    ASSUME NEW stem \in Seq(Word), NEW n
    PROVE  n \in Walked(stem) <=> Leads(n, stem)
<1>1. stem \in Seq(Part) /\ Len(stem) \in Nat
  BY WordIsPart
<1>2. ASSUME NEW i \in 1..Len(stem), NEW part \in Prefixes(stem[i]),
             n = Append(SubSeq(stem, 1, i - 1), part)
      PROVE  Leads(n, stem)
  <2> DEFINE way == SubSeq(stem, 1, i - 1)
  <2>1. stem[i] \in Part
    BY <1>1
  <2>2. part \in Part /\ IsPrefix(part, stem[i])
    BY <2>1, PrefixesMembers DEF Part
  <2>3. way \in Seq(Part) /\ Len(way) = i - 1 /\ \A j \in 1..(i - 1) : way[j] = stem[j]
    <3> DEFINE l == i - 1
    <3>1. l \in Nat /\ l <= Len(stem)
      BY <1>1
    <3> HIDE DEF l
    <3>2. /\ SubSeq(stem, 1, l) \in Seq(Part) /\ Len(SubSeq(stem, 1, l)) = l
          /\ \A j \in 1..l : SubSeq(stem, 1, l)[j] = stem[j]
      BY <1>1, <3>1
    <3> QED BY <3>2 DEF l
  <2> HIDE DEF way
  <2>4. /\ Append(way, part) \in Seq(Part) /\ Append(way, part) # <<>>
        /\ Len(Append(way, part)) = Len(way) + 1 /\ Append(way, part)[Len(way) + 1] = part
        /\ \A j \in 1..Len(way) : Append(way, part)[j] = way[j]
    BY <2>2, <2>3, AppendLast
  <2>5. n = Append(way, part)
    BY <1>2 DEF way
  <2> QED BY <2>2, <2>3, <2>4, <2>5 DEF Leads, Node
<1>3. ASSUME Leads(n, stem)
      PROVE  n \in Walked(stem)
  <2> DEFINE i == Len(n)
             way == SubSeq(stem, 1, i - 1)
  <2>1. n \in Seq(Part) /\ n # <<>> /\ i \in 1..Len(stem)
        /\ IsPrefix(n[i], stem[i]) /\ \A j \in 1..(i - 1) : n[j] = stem[j]
    BY <1>3 DEF Leads, Node
  <2>2. stem[i] \in Part /\ n[i] \in Part
    BY <1>1, <2>1
  <2>3. n[i] \in Prefixes(stem[i])
    BY <2>1, <2>2, PrefixesMembers DEF Part
  <2>4. way \in Seq(Part) /\ Len(way) = i - 1 /\ \A j \in 1..(i - 1) : way[j] = stem[j]
    <3> DEFINE l == i - 1
    <3>1. l \in Nat /\ l <= Len(stem)
      BY <1>1, <2>1
    <3> HIDE DEF l
    <3>2. /\ SubSeq(stem, 1, l) \in Seq(Part) /\ Len(SubSeq(stem, 1, l)) = l
          /\ \A j \in 1..l : SubSeq(stem, 1, l)[j] = stem[j]
      BY <1>1, <3>1
    <3> QED BY <3>2 DEF l
  <2>5. n = Append(way, n[i])
    <3> HIDE DEF way
    <3>1. /\ Append(way, n[i]) \in Seq(Part) /\ Len(Append(way, n[i])) = i
          /\ Append(way, n[i])[i] = n[i]
          /\ \A j \in 1..(i - 1) : Append(way, n[i])[j] = n[j]
      BY <2>1, <2>2, <2>4, AppendLast
    <3>2. \A j \in 1..i : Append(way, n[i])[j] = n[j]
      BY <3>1
    <3> QED BY <2>1, <3>1, <3>2, SeqEqual
  <2>6. i \in DOMAIN stem
    BY <1>1, <2>1
  <2>7. n \in {Append(SubSeq(stem, 1, i - 1), part) : part \in Prefixes(stem[i])}
    BY <2>3, <2>5
  <2> HIDE DEF i, way
  <2> QED BY <2>6, <2>7 DEF Walked
<1>4. ASSUME n \in Walked(stem)
      PROVE  Leads(n, stem)
  <2>1. PICK i \in DOMAIN stem : n \in {Append(SubSeq(stem, 1, i - 1), part) : part \in Prefixes(stem[i])}
    BY <1>4 DEF Walked
  <2>2. PICK part \in Prefixes(stem[i]) : n = Append(SubSeq(stem, 1, i - 1), part)
    BY <2>1
  <2>3. i \in 1..Len(stem)
    BY <1>1
  <2> QED BY <1>2, <2>2, <2>3
<1> QED BY <1>3, <1>4

\* The flag add sets where an entry ends.
Kind(entry) ==
    IF SpaceGlob(entry) THEN "glob_next_word"
    ELSE IF InlineGlob(entry) THEN "glob_suffix" ELSE "final_word"

\* The flags of an entry: where one of its words ends, and where it ends.
LEMMA FlagsOfEntry ==
    ASSUME NEW entry, NEW n, NEW f
    PROVE  f \in NewFlags(entry, n) <=>
              \/ f = "word_end" /\ Last(n) # <<>> /\ IsPrefix(n, Stem(entry))
              \/ f = Kind(entry) /\ n = Stem(entry)
<1>1. Kind(entry) = CASE SpaceGlob(entry)  -> "glob_next_word"
                      [] InlineGlob(entry) -> "glob_suffix"
                      [] OTHER             -> "final_word"
  BY DEF Kind, InlineGlob
<1>2. Kind(entry) # "word_end"
  BY DEF Kind
<1> QED BY <1>1, <1>2 DEF NewFlags

\* Where an entry sets flags its walk has been.
LEMMA FlagsOnTheWay ==
    ASSUME NEW entry, Stem(entry) \in Seq(Word), Stem(entry) # <<>>, NEW n \in Node,
           NewFlags(entry, n) # {}
    PROVE  n \in Walked(Stem(entry))
<1> DEFINE stem == Stem(entry)
<1>1. stem \in Seq(Part) /\ n \in Seq(Part) /\ n # <<>> /\ Len(n) \in Nat \ {0}
      /\ \A j \in 1..Len(stem) : stem[j] \in Part
  BY WordIsPart DEF Node
<1>2. IsPrefix(n, stem) \/ n = stem
  <2>1. PICK f : f \in NewFlags(entry, n)
    OBVIOUS
  <2> QED BY <2>1, FlagsOfEntry
<1> HIDE DEF stem
<1>3. Len(n) <= Len(stem) /\ \A j \in 1..Len(n) : n[j] = stem[j]
  BY <1>1, <1>2, PrefixElements
<1>4. n[Len(n)] = stem[Len(n)] /\ n[Len(n)] \in Part
  BY <1>1, <1>3
<1>5. IsPrefix(n[Len(n)], stem[Len(n)])
  BY <1>4, PrefixOrder DEF Part
<1>6. Leads(n, stem)
  BY <1>1, <1>3, <1>5 DEF Leads
<1> QED BY <1>6, WalkedNodes DEF stem

-----------------------------------------------------------------------------
(* The index. *)

\* The entries that have words.
Indexed == denied \ {<<>>}

\* The index has the nodes of its entries and the flags that each of them sets,
\* and nothing else, in whatever order the entries came.
IndexInv ==
    /\ denied \subseteq Entries
    /\ \A entry \in denied : ~InvalidGlob(entry)
    /\ \A n : n \in DOMAIN trie <=>
          n = Root \/ \E entry \in Indexed : n \in Walked(Stem(entry))
    /\ \A n \in DOMAIN trie : \A f :
          f \in trie[n] <=> \E entry \in Indexed : f \in NewFlags(entry, n)

LEMMA RootIsNode == Root \in Node /\ Len(Root) = 1 /\ Root[1] = <<>>
<1>1. Root = << <<>> >> /\ <<>> \in Part
  BY DEF Root, Part
<1>2. Root \in Seq(Part) /\ Len(Root) = 1 /\ Root[1] = <<>>
  BY <1>1
<1> QED BY <1>2 DEF Node

LEMMA IndexedStem ==
    ASSUME IndexInv, NEW entry \in Indexed
    PROVE  Stem(entry) \in Seq(Word) /\ Stem(entry) # <<>>
BY StemType, EntriesAssumption DEF IndexInv, Indexed

\* Every node of the index is a node.
LEMMA IndexNodes ==
    ASSUME IndexInv
    PROVE  DOMAIN trie \subseteq Node
<1> SUFFICES ASSUME NEW n \in DOMAIN trie PROVE n \in Node
  OBVIOUS
<1>1. CASE n = Root
  BY <1>1, RootIsNode
<1>2. ASSUME NEW entry \in Indexed, n \in Walked(Stem(entry))
      PROVE  n \in Node
  BY <1>2, IndexedStem, WalkedNodes DEF Leads
<1> QED BY <1>1, <1>2 DEF IndexInv

LEMMA IndexInit == Init => IndexInv
<1> SUFFICES ASSUME Init PROVE IndexInv
  OBVIOUS
<1>1. denied = {} /\ Indexed = {} /\ DOMAIN trie = {Root} /\ trie[Root] = {}
  BY DEF Init, EmptyTrie, Indexed
<1> QED BY <1>1 DEF IndexInv

LEMMA IndexStep == IndexInv /\ [Next]_vars => IndexInv'
<1> SUFFICES ASSUME IndexInv, [Next]_vars PROVE IndexInv'
  OBVIOUS
<1>1. CASE UNCHANGED vars
  BY <1>1 DEF IndexInv, Indexed, vars
<1>2. ASSUME NEW entry \in Entries, Add(entry)
      PROVE  IndexInv'
  <2>1. /\ denied' = denied \cup {entry} /\ trie' = Inserted(trie, entry)
        /\ ~InvalidGlob(entry) /\ entry \in Seq(Word)
    BY <1>2, EntriesAssumption DEF Add
  <2>2. denied' \subseteq Entries /\ \A e \in denied' : ~InvalidGlob(e)
    BY <2>1 DEF IndexInv
  <2>3. CASE entry = <<>>
    <3>1. trie' = trie /\ Indexed' = Indexed
      BY <2>1, <2>3 DEF Inserted, Indexed
    <3> QED BY <2>2, <3>1 DEF IndexInv
  <2>4. CASE entry # <<>>
    <3> DEFINE stem == Stem(entry)
    <3>1. stem \in Seq(Word) /\ stem # <<>>
      BY <2>1, <2>4, StemType
    <3>2. Indexed' = Indexed \cup {entry}
      BY <2>1, <2>4 DEF Indexed
    <3>3. /\ DOMAIN trie' = DOMAIN trie \cup Walked(stem)
          /\ \A n \in DOMAIN trie' :
                trie'[n] = (IF n \in DOMAIN trie THEN trie[n] ELSE {}) \cup NewFlags(entry, n)
      BY <2>1, <2>4 DEF Inserted, Merged
    <3>4. \A n : n \in DOMAIN trie' <=>
             n = Root \/ \E e \in Indexed' : n \in Walked(Stem(e))
      BY <3>2, <3>3 DEF IndexInv
    <3>5. ASSUME NEW n \in DOMAIN trie', NEW f
          PROVE  f \in trie'[n] <=> \E e \in Indexed' : f \in NewFlags(e, n)
      <4>1. CASE n \in DOMAIN trie
        BY <3>2, <3>3, <4>1 DEF IndexInv
      <4>2. CASE n \notin DOMAIN trie
        <5>1. n \in Node
          BY <3>1, <3>3, <4>2, WalkedNodes DEF Leads
        <5>2. \A e \in Indexed : NewFlags(e, n) = {}
          BY <4>2, <5>1, FlagsOnTheWay, IndexedStem DEF IndexInv
        <5> QED BY <3>2, <3>3, <4>2, <5>2
      <4> QED BY <4>1, <4>2
    <3> QED BY <2>2, <3>4, <3>5 DEF IndexInv
  <2> QED BY <2>3, <2>4
<1> QED BY <1>1, <1>2 DEF Next

\* The index is what its entries are, one by one: none hides or changes what
\* another has set.
THEOREM IndexInvariant == Spec => []IndexInv
BY IndexInit, IndexStep, PTL DEF Spec

\* A node on the way to the end of an entry is in the index.
LEMMA OnTheWayInIndex ==
    ASSUME IndexInv, NEW entry \in Indexed, NEW n, Leads(n, Stem(entry))
    PROVE  n \in DOMAIN trie
BY IndexedStem, WalkedNodes DEF IndexInv

\* The way to the end of a word of an entry, which is flagged.
LEMMA WayToWord ==
    ASSUME IndexInv, NEW entry \in Indexed, NEW n \in Node, Len(n) <= Len(Stem(entry)),
           \A j \in 1..Len(n) : n[j] = Stem(entry)[j]
    PROVE  /\ n \in DOMAIN trie /\ "word_end" \in trie[n]
           /\ n = Stem(entry) => Kind(entry) \in trie[n]
<1> DEFINE stem == Stem(entry)
<1>1. /\ stem \in Seq(Word) /\ stem \in Seq(Part) /\ Len(stem) \in Nat
      /\ n \in Seq(Part) /\ n # <<>> /\ Len(n) \in Nat \ {0}
  BY IndexedStem, WordIsPart DEF Node
<1>2. n[Len(n)] = stem[Len(n)] /\ stem[Len(n)] \in Word /\ n[Len(n)] \in Part
  BY <1>1
<1>3. IsPrefix(n[Len(n)], stem[Len(n)])
  BY <1>2, PrefixOrder DEF Part
<1>4. Leads(n, stem)
  BY <1>1, <1>3 DEF Leads
<1>5. n \in DOMAIN trie
  BY <1>4, OnTheWayInIndex
<1>6. Last(n) # <<>> /\ IsPrefix(n, stem)
  BY <1>1, <1>2, PrefixElements DEF Last, Word
<1>7. "word_end" \in NewFlags(entry, n) /\ (n = stem => Kind(entry) \in NewFlags(entry, n))
  BY <1>6, FlagsOfEntry
<1> QED BY <1>5, <1>7 DEF IndexInv

\* The flags that say how an entry ends are set by entries of that kind.
LEMMA KindFlag ==
    ASSUME IndexInv, NEW n \in DOMAIN trie, NEW f \in trie[n], f # "word_end"
    PROVE  \E entry \in Indexed : f = Kind(entry) /\ n = Stem(entry)
BY FlagsOfEntry DEF IndexInv

-----------------------------------------------------------------------------
(* The tree. *)

LEMMA IndexIsTree == IndexInv => TypeOK
<1> SUFFICES ASSUME IndexInv, NEW n \in DOMAIN trie
             PROVE  /\ trie[n] \subseteq Flags
                    /\ Last(n) # <<>> => Append(Front(n), Front(Last(n))) \in DOMAIN trie
                    /\ Last(n) = <<>> /\ n # Root =>
                          Front(n) \in DOMAIN trie /\ "word_end" \in trie[Front(n)]
  BY DEF IndexInv, TypeOK
<1>1. /\ n \in Seq(Part) /\ Len(n) \in Nat \ {0} /\ Last(n) = n[Len(n)] /\ Last(n) \in Part
      /\ Front(n) \in Seq(Part) /\ Len(Front(n)) = Len(n) - 1
      /\ \A j \in 1..(Len(n) - 1) : Front(n)[j] = n[j]
  BY IndexNodes, FrontLast DEF Node
<1>2. n = Root \/ \E entry \in Indexed : Leads(n, Stem(entry))
  BY IndexedStem, WalkedNodes DEF IndexInv
<1>3. trie[n] \subseteq Flags
  <2> SUFFICES ASSUME NEW f \in trie[n] PROVE f \in Flags
    OBVIOUS
  <2>1. f = "word_end" \/ \E entry : f = Kind(entry)
    BY KindFlag
  <2> QED BY <2>1 DEF Kind, Flags
<1>4. ASSUME Last(n) # <<>>
      PROVE  Append(Front(n), Front(Last(n))) \in DOMAIN trie
  <2>1. n # Root
    BY <1>1, <1>4, RootIsNode
  <2>2. PICK entry \in Indexed : Leads(n, Stem(entry))
    BY <1>2, <2>1
  <2> DEFINE parent == Append(Front(n), Front(Last(n)))
             stem == Stem(entry)
  <2>3. /\ Front(Last(n)) \in Part /\ Len(Front(Last(n))) = Len(Last(n)) - 1
        /\ Len(Last(n)) \in Nat
        /\ \A j \in 1..(Len(Last(n)) - 1) : Front(Last(n))[j] = Last(n)[j]
    BY <1>1, <1>4, FrontLast DEF Part
  <2>4. /\ parent \in Seq(Part) /\ parent # <<>>
        /\ Len(parent) = Len(n) /\ parent[Len(n)] = Front(Last(n))
        /\ \A j \in 1..(Len(n) - 1) : parent[j] = n[j]
    BY <1>1, <2>3, AppendLast
  <2>5. stem \in Seq(Part) /\ Len(n) <= Len(stem) /\ Len(stem) \in Nat
        /\ (\A j \in 1..(Len(n) - 1) : n[j] = stem[j]) /\ IsPrefix(n[Len(n)], stem[Len(n)])
    BY <2>2, IndexedStem, WordIsPart DEF Leads
  <2> HIDE DEF parent, stem
  <2>6. IsPrefix(Front(Last(n)), stem[Len(n)])
    <3>1. stem[Len(n)] \in Seq(Characters) /\ Last(n) \in Seq(Characters)
          /\ Front(Last(n)) \in Seq(Characters) /\ IsPrefix(Last(n), stem[Len(n)])
      BY <1>1, <2>3, <2>5 DEF Part
    <3>2. IsPrefix(Front(Last(n)), Last(n))
      <4>1. Len(Front(Last(n))) <= Len(Last(n))
            /\ \A j \in 1..Len(Front(Last(n))) : Front(Last(n))[j] = Last(n)[j]
        BY <2>3
      <4> QED BY <3>1, <4>1, PrefixElements
    <3> QED BY <3>1, <3>2, PrefixOrder
  <2>7. Leads(parent, stem)
    BY <1>1, <2>4, <2>5, <2>6 DEF Leads, Node
  <2> QED BY <2>7, OnTheWayInIndex DEF parent, stem
<1>5. ASSUME Last(n) = <<>>, n # Root
      PROVE  Front(n) \in DOMAIN trie /\ "word_end" \in trie[Front(n)]
  <2>1. PICK entry \in Indexed : Leads(n, Stem(entry))
    BY <1>2, <1>5
  <2>2. Len(n) # 1
    <3> SUFFICES ASSUME Len(n) = 1 PROVE FALSE
      OBVIOUS
    <3>1. n[1] = Root[1] /\ Len(Root) = 1 /\ Root \in Seq(Part)
      BY <1>1, <1>5, RootIsNode DEF Node
    <3>2. n = Root
      BY <1>1, <3>1, SeqEqual
    <3> QED BY <1>5, <3>2
  <2>3. Front(n) \in Node /\ Len(Front(n)) <= Len(Stem(entry))
        /\ \A j \in 1..Len(Front(n)) : Front(n)[j] = Stem(entry)[j]
    <3>1. Len(Stem(entry)) \in Nat /\ Len(n) <= Len(Stem(entry))
          /\ \A j \in 1..(Len(n) - 1) : n[j] = Stem(entry)[j]
      BY <2>1, IndexedStem DEF Leads
    <3>2. Front(n) # <<>>
      BY <1>1, <2>2
    <3> QED BY <1>1, <3>1, <3>2 DEF Node
  <2> QED BY <2>3, WayToWord
<1> QED BY <1>3, <1>4, <1>5

\* The index is a tree, whatever the entries and their order.
THEOREM TypeCorrect == Spec => []TypeOK
BY IndexIsTree, IndexInvariant, PTL

-----------------------------------------------------------------------------
(* The search. *)

\* The roots of level i that match, given those of the next level.
Level(t, words, i, later) ==
    {root \in DOMAIN t : Len(root) = i /\ Last(root) = <<>> /\ MatchWord(t, root, words, i, later)}

\* The search that goes down one level for each word is what its recursive
\* definition says: a function that is defined from the last level up.
LEMMA MatchingLevels ==
    ASSUME NEW t, NEW words, Len(words) \in Nat
    PROVE  /\ Matching(t, words)[Len(words) + 1] = {}
           /\ \A i \in 1..Len(words) :
                 Matching(t, words)[i] = Level(t, words, i, Matching(t, words)[i + 1])
<1> DEFINE N == Len(words)
           Next1(g, i) == IF i > N THEN {} ELSE Level(t, words, i, g[i + 1])
           From(k) == (N + 1 - k)..(N + 1)
           Defined(k) == \E g : g = [i \in From(k) |-> Next1(g, i)]
           Missing == {k \in 0..N : ~Defined(k)}
<1>1. Missing = {}
  <2> SUFFICES ASSUME Missing # {} PROVE FALSE
    OBVIOUS
  <2> HIDE DEF Defined
  <2>1. PICK k \in Missing : \A m \in Missing : k <= m
    <3>1. Missing \in SUBSET Nat
      OBVIOUS
    <3> HIDE DEF Missing
    <3> QED BY <3>1, LeastNumber
  <2>2. k \in 0..N /\ ~Defined(k) /\ \A m \in 0..N : m < k => Defined(m)
    BY <2>1
  <2>3. Defined(0)
    <3> DEFINE g == [i \in From(0) |-> {}]
    <3>1. g = [i \in From(0) |-> Next1(g, i)]
      <4>1. \A i \in From(0) : Next1(g, i) = {}
        OBVIOUS
      <4> HIDE DEF Next1
      <4> QED BY <4>1
    <3> QED BY <3>1 DEF Defined
  <2>4. k # 0 /\ k - 1 \in 0..N /\ k - 1 < k
    BY <2>2, <2>3
  <2>5. PICK g : g = [i \in From(k - 1) |-> Next1(g, i)]
    BY <2>2, <2>4 DEF Defined
  <2> DEFINE h == [i \in From(k) |-> IF i = N + 1 - k THEN Level(t, words, i, g[i + 1]) ELSE g[i]]
  <2>6. From(k) = From(k - 1) \cup {N + 1 - k} /\ N + 1 - k <= N /\ N + 2 - k \in From(k - 1)
        /\ N + 1 - k \notin From(k - 1) /\ \A i \in From(k - 1) : i <= N => i + 1 \in From(k - 1)
    BY <2>2, <2>4
  <2>7. \A i \in From(k - 1) : h[i] = g[i]
    BY <2>6
  <2>8. \A i \in From(k) : h[i] = Next1(h, i)
    <3> SUFFICES ASSUME NEW i \in From(k) PROVE h[i] = Next1(h, i)
      OBVIOUS
    <3>1. CASE i = N + 1 - k
      <4>1. h[i] = Level(t, words, i, g[i + 1]) /\ i <= N /\ i + 1 \in From(k - 1)
        BY <2>6, <3>1
      <4>2. h[i + 1] = g[i + 1]
        BY <2>7, <4>1
      <4> HIDE DEF h
      <4> QED BY <4>1, <4>2
    <3>2. CASE i \in From(k - 1)
      <4>1. h[i] = Next1(g, i)
        <5>1. g[i] = Next1(g, i)
          <6> HIDE DEF Next1, From
          <6> QED BY <2>5, <3>2
        <5> QED BY <2>7, <3>2, <5>1
      <4>2. i <= N => h[i + 1] = g[i + 1]
        BY <2>6, <2>7, <3>2
      <4> HIDE DEF h
      <4> QED BY <4>1, <4>2
    <3> QED BY <2>6, <3>1, <3>2
  <2>9. h = [i \in From(k) |-> Next1(h, i)]
    <3>1. h = [i \in From(k) |-> h[i]]
      OBVIOUS
    <3> HIDE DEF h, Next1, From
    <3> QED BY <2>8, <3>1
  <2> HIDE DEF h
  <2> QED BY <2>2, <2>9 DEF Defined
<1>2. Defined(N)
  <2> HIDE DEF Defined
  <2>1. N \in 0..N
    OBVIOUS
  <2> QED BY <1>1, <2>1
<1>3. From(N) = 1..(N + 1)
  OBVIOUS
<1>4. Matching(t, words) = CHOOSE g : g = [i \in 1..(N + 1) |-> Next1(g, i)]
  BY DEF Matching, Level
<1> HIDE DEF Next1, From
<1>5. Matching(t, words) = [i \in 1..(N + 1) |-> Next1(Matching(t, words), i)]
  BY <1>2, <1>3, <1>4
<1>6. \A i \in 1..(N + 1) : Matching(t, words)[i] = Next1(Matching(t, words), i)
  BY <1>5
<1> QED BY <1>6 DEF Next1

\* entry denies the words from words[i] on.
DeniesFrom(entry, words, i) ==
    LET stem == Stem(entry)
        Abbreviates(j) == IsPrefix(words[j], stem[j])
    IN  /\ i <= Len(stem) /\ Len(stem) <= Len(words)
        /\ \A j \in i..(Len(stem) - 1) : Abbreviates(j)
        /\ \/ Abbreviates(Len(stem))
           \/ InlineGlob(entry) /\ IsPrefix(Last(stem), words[Len(stem)])
        /\ Plain(entry) => Len(words) = Len(stem)
        /\ SpaceGlob(entry) => Len(words) > Len(stem)

\* An entry that leads to a root and denies the words from there on.
Caught(root, words, i) ==
    \E entry \in Indexed :
        /\ DeniesFrom(entry, words, i)
        /\ \A j \in 1..(i - 1) : root[j] = Stem(entry)[j]

LEMMA KindOfEntry ==
    ASSUME NEW entry
    PROVE  /\ Kind(entry) = "glob_next_word" <=> SpaceGlob(entry)
           /\ Kind(entry) = "glob_suffix" <=> InlineGlob(entry)
           /\ Kind(entry) = "final_word" <=> Plain(entry)
BY DEF Kind, InlineGlob, Plain

\* What is known of a root of level i.
IsRoot(root, i) == root \in DOMAIN trie /\ Len(root) = i /\ Last(root) = <<>>

LEMMA RootLevel ==
    ASSUME IndexInv, NEW i \in Nat, NEW root, IsRoot(root, i), NEW part \in Part
    PROVE  /\ i >= 1 /\ root \in Seq(Part) /\ root[i] = <<>>
           /\ Append(Front(root), part) \in Node
           /\ Len(Append(Front(root), part)) = i /\ Append(Front(root), part)[i] = part
           /\ \A j \in 1..(i - 1) : Append(Front(root), part)[j] = root[j]
           /\ Last(Append(Front(root), part)) = part
           /\ Front(Append(Front(root), part)) = Front(root)
<1>1. /\ root \in Seq(Part) /\ root # <<>> /\ i \in Nat \ {0} /\ root[i] = <<>>
      /\ Front(root) \in Seq(Part) /\ Len(Front(root)) = i - 1
      /\ \A j \in 1..(i - 1) : Front(root)[j] = root[j]
  <2>1. root \in Seq(Part) /\ root # <<>> /\ Len(root) = i /\ Last(root) = <<>>
    BY IndexNodes DEF Node, IsRoot
  <2>2. /\ Len(root) \in Nat \ {0} /\ Last(root) = root[Len(root)]
        /\ Front(root) \in Seq(Part) /\ Len(Front(root)) = Len(root) - 1
        /\ \A j \in 1..(Len(root) - 1) : Front(root)[j] = root[j]
    BY <2>1, FrontLast
  <2> QED BY <2>1, <2>2
<1>2. /\ Append(Front(root), part) \in Seq(Part) /\ Append(Front(root), part) # <<>>
      /\ Len(Append(Front(root), part)) = Len(Front(root)) + 1
      /\ Append(Front(root), part)[Len(Front(root)) + 1] = part
      /\ \A j \in 1..Len(Front(root)) : Append(Front(root), part)[j] = Front(root)[j]
      /\ Last(Append(Front(root), part)) = part
      /\ Front(Append(Front(root), part)) = Front(root)
  BY <1>1, AppendLast
<1> QED BY <1>1, <1>2 DEF Node

\* Two nodes of a level with one front and one last part are one.
LEMMA SameNode ==
    ASSUME NEW n \in Node, NEW m \in Node, Len(n) = Len(m),
           \A j \in 1..Len(n) : n[j] = m[j]
    PROVE  n = m
BY SeqEqual DEF Node

\* What the search finds at one level is denied by an entry, if what it finds
\* below is.
LEMMA FoundIsCaught ==
    ASSUME IndexInv, NEW words \in Seq(Word), NEW i \in 1..Len(words), NEW later,
           NEW root, IsRoot(root, i), MatchWord(trie, root, words, i, later),
           \A r \in later : IsRoot(r, i + 1) /\ (i < Len(words) => Caught(r, words, i + 1))
    PROVE  Caught(root, words, i)
<1> DEFINE At(part) == Append(Front(root), part)
<1>1. Len(words) \in Nat /\ i \in Nat /\ words[i] \in Word /\ words[i] \in Part
  BY WordIsPart
<1>2. ASSUME NEW part \in Prefixes(words[i]) \ {words[i]}, At(part) \in DOMAIN trie,
             "glob_suffix" \in trie[At(part)]
      PROVE  Caught(root, words, i)
  <2>1. part \in Part /\ IsPrefix(part, words[i])
    BY <1>1, <1>2, PrefixesMembers DEF Part
  <2>2. PICK entry \in Indexed : Kind(entry) = "glob_suffix" /\ At(part) = Stem(entry)
    BY <1>2, KindFlag
  <2>3. Len(Stem(entry)) = i /\ Stem(entry)[i] = part
        /\ \A j \in 1..(i - 1) : Stem(entry)[j] = root[j]
    BY <1>1, <2>1, <2>2, RootLevel
  <2>4. InlineGlob(entry) /\ ~SpaceGlob(entry) /\ ~Plain(entry)
    BY <2>2, KindOfEntry DEF Plain, InlineGlob
  <2>5. DeniesFrom(entry, words, i)
    BY <1>1, <2>1, <2>3, <2>4 DEF DeniesFrom, Last
  <2> QED BY <2>3, <2>5 DEF Caught
<1>3. ASSUME At(words[i]) \in DOMAIN trie, FindWordEnd(trie, At(words[i]), words, i, later)
      PROVE  Caught(root, words, i)
  <2>1. PICK n \in DOMAIN trie :
           /\ Len(n) = Len(At(words[i])) /\ Front(n) = Front(At(words[i]))
           /\ IsPrefix(Last(At(words[i])), Last(n)) /\ EndsHere(trie, n, words, i, later)
    BY <1>3 DEF FindWordEnd
  <2>2. /\ n \in Node /\ Len(n) = i /\ IsPrefix(words[i], n[i]) /\ n[i] \in Part
        /\ \A j \in 1..(i - 1) : n[j] = root[j]
    <3>1. /\ Len(At(words[i])) = i /\ Last(At(words[i])) = words[i]
          /\ Front(At(words[i])) = Front(root) /\ root \in Seq(Part) /\ i >= 1
      <4> DEFINE part == words[i]
      <4>1. part \in Part /\ i \in Nat
        BY <1>1
      <4> HIDE DEF part
      <4>2. /\ Len(At(part)) = i /\ At(part)[i] = part /\ Last(At(part)) = part
            /\ Front(At(part)) = Front(root) /\ root \in Seq(Part) /\ i >= 1
        BY <4>1, RootLevel
      <4> QED BY <4>2 DEF part
    <3>2. n \in Node /\ n \in Seq(Part) /\ n # <<>>
      BY IndexNodes DEF Node
    <3>3. /\ Last(n) = n[Len(n)] /\ Last(n) \in Part
          /\ \A j \in 1..(Len(n) - 1) : Front(n)[j] = n[j]
      BY <3>2, FrontLast
    <3>4. root # <<>> /\ Len(root) = i
      BY <1>1, <3>1 DEF IsRoot
    <3>5. \A j \in 1..(i - 1) : Front(root)[j] = root[j]
      BY <3>1, <3>4, FrontLast
    <3> HIDE DEF At
    <3> QED BY <2>1, <3>1, <3>2, <3>3, <3>5
  <2> HIDE DEF At
  <2>3. ASSUME NEW entry \in Indexed, n = Stem(entry),
               Plain(entry) => i = Len(words), SpaceGlob(entry) => i < Len(words)
        PROVE  Caught(root, words, i)
    <3>1. Len(Stem(entry)) = i /\ IsPrefix(words[i], Stem(entry)[i])
          /\ \A j \in 1..(i - 1) : root[j] = Stem(entry)[j]
      BY <2>2, <2>3
    <3>2. DeniesFrom(entry, words, i)
      BY <1>1, <2>3, <3>1 DEF DeniesFrom
    <3> QED BY <3>1, <3>2 DEF Caught
  <2>4. CASE "final_word" \in trie[n] /\ i = Len(words)
    <3>1. PICK entry \in Indexed : "final_word" = Kind(entry) /\ n = Stem(entry)
      BY <2>4, KindFlag
    <3> QED BY <2>3, <2>4, <3>1, KindOfEntry DEF Plain
  <2>5. CASE "glob_suffix" \in trie[n]
    <3>1. PICK entry \in Indexed : "glob_suffix" = Kind(entry) /\ n = Stem(entry)
      BY <2>5, KindFlag
    <3> QED BY <2>3, <3>1, KindOfEntry DEF Plain, InlineGlob
  <2>6. CASE "glob_next_word" \in trie[n] /\ i < Len(words)
    <3>1. PICK entry \in Indexed : "glob_next_word" = Kind(entry) /\ n = Stem(entry)
      BY <2>6, KindFlag
    <3> QED BY <2>3, <2>6, <3>1, KindOfEntry DEF Plain
  <2>7. CASE i < Len(words) /\ Append(n, <<>>) \in later
    <3>1. PICK entry \in Indexed :
             /\ DeniesFrom(entry, words, i + 1)
             /\ \A j \in 1..i : Append(n, <<>>)[j] = Stem(entry)[j]
      <4>1. Caught(Append(n, <<>>), words, i + 1)
        BY <2>7
      <4>2. PICK entry \in Indexed :
               /\ DeniesFrom(entry, words, i + 1)
               /\ \A j \in 1..((i + 1) - 1) : Append(n, <<>>)[j] = Stem(entry)[j]
        BY <4>1 DEF Caught
      <4>3. 1..((i + 1) - 1) = 1..i
        BY <1>1
      <4> QED BY <4>2, <4>3
    <3>2. \A j \in 1..i : n[j] = Stem(entry)[j]
      <4>1. n \in Seq(Part) /\ <<>> \in Part
        BY <2>2, WordIsPart DEF Node
      <4>2. \A j \in 1..i : Append(n, <<>>)[j] = n[j]
        BY <2>2, <4>1, AppendLast
      <4> QED BY <3>1, <4>2
    <3>3. IsPrefix(words[i], Stem(entry)[i]) /\ Len(Stem(entry)) \in Nat
      BY <1>1, <2>2, <3>2, IndexedStem
    <3>4. DeniesFrom(entry, words, i)
      BY <1>1, <3>1, <3>3 DEF DeniesFrom
    <3>5. \A j \in 1..(i - 1) : root[j] = Stem(entry)[j]
      BY <1>1, <2>2, <3>2
    <3> QED BY <3>4, <3>5 DEF Caught
  <2> QED BY <2>1, <2>4, <2>5, <2>6, <2>7 DEF EndsHere
<1> QED BY <1>2, <1>3 DEF MatchWord

\* What an entry denies is found at each level, if it is found below.
LEMMA CaughtIsFound ==
    ASSUME IndexInv, NEW words \in Seq(Word), NEW i \in 1..Len(words), NEW later,
           NEW root, IsRoot(root, i), Caught(root, words, i),
           \A r : i < Len(words) /\ IsRoot(r, i + 1) /\ Caught(r, words, i + 1) => r \in later
    PROVE  MatchWord(trie, root, words, i, later)
<1> DEFINE At(part) == Append(Front(root), part)
<1>1. Len(words) \in Nat /\ i \in Nat /\ words[i] \in Word /\ words[i] \in Part
  BY WordIsPart
<1>2. PICK entry \in Indexed : /\ DeniesFrom(entry, words, i)
                               /\ \A j \in 1..(i - 1) : root[j] = Stem(entry)[j]
  BY DEF Caught
<1> DEFINE stem == Stem(entry)
<1>3. stem \in Seq(Word) /\ stem \in Seq(Part) /\ Len(stem) \in Nat
      /\ i <= Len(stem) /\ Len(stem) <= Len(words)
      /\ stem[i] \in Part /\ stem[i] \in Word
  BY <1>1, <1>2, IndexedStem, WordIsPart DEF DeniesFrom
\* The word is passed on the way.
<1>4. CASE Len(stem) = i /\ InlineGlob(entry) /\ IsPrefix(stem[i], words[i])
           /\ ~ IsPrefix(words[i], stem[i])
  <2> DEFINE part == stem[i]
  <2>1. part # words[i]
    BY <1>1, <1>4, PrefixOrder DEF Part
  <2>2. part \in Prefixes(words[i]) \ {words[i]}
    BY <1>1, <1>3, <1>4, <2>1, PrefixesMembers DEF Part
  <2>3. At(part) \in Node /\ Len(At(part)) = i /\ \A j \in 1..i : At(part)[j] = stem[j]
    BY <1>1, <1>2, <1>3, RootLevel
  <2>4. stem \in Node
    BY <1>3, IndexedStem DEF Node
  <2>5. At(part) = stem
    BY <1>4, <2>3, <2>4, SameNode
  <2>6. At(part) \in DOMAIN trie /\ Kind(entry) \in trie[At(part)]
    BY <1>3, <1>4, <2>3, <2>5, WayToWord
  <2>7. "glob_suffix" \in trie[At(part)]
    BY <1>4, <2>6, KindOfEntry
  <2> HIDE DEF part
  <2> QED BY <2>2, <2>6, <2>7 DEF MatchWord
\* The word is walked to its end.
<1>5. CASE IsPrefix(words[i], stem[i])
  <2> DEFINE n == SubSeq(stem, 1, i)
  <2>1. n \in Node /\ n \in Seq(Part) /\ Len(n) = i /\ \A j \in 1..i : n[j] = stem[j]
    <3>1. n \in Seq(Part) /\ Len(n) = i /\ \A j \in 1..i : n[j] = stem[j]
      BY <1>1, <1>3
    <3> HIDE DEF n
    <3>2. n # <<>>
      BY <1>1, <3>1
    <3> QED BY <3>1, <3>2 DEF Node
  <2> HIDE DEF n
  <2>2. n \in DOMAIN trie /\ "word_end" \in trie[n] /\ (n = stem => Kind(entry) \in trie[n])
    BY <1>3, <2>1, WayToWord
  <2>3. /\ root \in Seq(Part) /\ root # <<>> /\ Len(root) = i
        /\ At(words[i]) \in Node /\ Len(At(words[i])) = i /\ At(words[i])[i] = words[i]
        /\ \A j \in 1..(i - 1) : At(words[i])[j] = root[j]
        /\ Last(At(words[i])) = words[i] /\ Front(At(words[i])) = Front(root)
    BY <1>1, RootLevel DEF IsRoot
  <2>4. At(words[i]) \in DOMAIN trie
    <3>1. Leads(At(words[i]), stem)
      BY <1>2, <1>3, <1>5, <2>3 DEF Leads
    <3> QED BY <3>1, OnTheWayInIndex
  <2> HIDE DEF At
  <2>5. Front(n) = Front(At(words[i])) /\ IsPrefix(Last(At(words[i])), Last(n))
    <3>1. /\ Front(n) \in Seq(Part) /\ Len(Front(n)) = i - 1 /\ Last(n) = n[i]
          /\ \A j \in 1..(i - 1) : Front(n)[j] = n[j]
      BY <1>1, <2>1, FrontLast DEF Node
    <3>2. /\ Front(root) \in Seq(Part) /\ Len(Front(root)) = i - 1
          /\ \A j \in 1..(i - 1) : Front(root)[j] = root[j]
      BY <2>3, FrontLast
    <3>3. Front(n) = Front(root)
      BY <1>1, <1>2, <1>3, <2>1, <3>1, <3>2, SeqEqual
    <3> QED BY <1>1, <1>3, <1>5, <2>1, <2>3, <3>1, <3>3
  <2>6. EndsHere(trie, n, words, i, later)
    <3>1. CASE Len(stem) = i
      <4>1. n = stem
        <5>1. stem \in Node
          BY <1>3, IndexedStem DEF Node
        <5> QED BY <2>1, <3>1, <5>1, SameNode
      <4>2. (Plain(entry) => i = Len(words)) /\ (SpaceGlob(entry) => i < Len(words))
        BY <1>1, <1>2, <3>1 DEF DeniesFrom
      <4>3. Plain(entry) \/ SpaceGlob(entry) \/ InlineGlob(entry)
        BY DEF Plain
      <4> QED BY <2>2, <4>1, <4>2, <4>3, KindOfEntry DEF EndsHere
    <3>2. CASE Len(stem) # i
      <4> DEFINE r == Append(n, <<>>)
      <4>1. i < Len(stem) /\ i < Len(words)
        BY <1>1, <1>3, <3>2
      <4>2. /\ r \in Node /\ Len(r) = i + 1 /\ r[i + 1] = <<>> /\ Last(r) = <<>>
            /\ \A j \in 1..i : r[j] = stem[j]
        <5>1. <<>> \in Part
          BY WordIsPart
        <5> QED BY <1>1, <2>1, <5>1, AppendLast DEF Node
      <4> HIDE DEF r
      <4>3. Leads(r, stem)
        <5>1. stem[i + 1] \in Part /\ IsPrefix(<<>>, stem[i + 1])
          <6>1. stem[i + 1] \in Part
            BY <1>1, <1>3, <4>1
          <6> QED BY <6>1, EmptyPrefix DEF Part
        <5> QED BY <1>1, <1>3, <4>1, <4>2, <5>1 DEF Leads
      <4>4. IsRoot(r, i + 1)
        BY <4>2, <4>3, OnTheWayInIndex DEF IsRoot
      <4>5. DeniesFrom(entry, words, i + 1)
        BY <1>1, <1>2, <1>3, <4>1 DEF DeniesFrom
      <4>6. Caught(r, words, i + 1)
        <5>1. (i + 1) - 1 = i
          BY <1>1
        <5> QED BY <4>2, <4>5, <5>1 DEF Caught
      <4> QED BY <2>2, <4>1, <4>4, <4>6 DEF EndsHere, r
    <3> QED BY <3>1, <3>2
  <2>7. FindWordEnd(trie, At(words[i]), words, i, later)
    BY <2>1, <2>2, <2>3, <2>5, <2>6 DEF FindWordEnd
  <2> QED BY <2>4, <2>7 DEF MatchWord, At
<1>6. \/ IsPrefix(words[i], stem[i])
      \/ Len(stem) = i /\ InlineGlob(entry) /\ IsPrefix(stem[i], words[i])
  BY <1>1, <1>2, <1>3 DEF DeniesFrom, Last
<1> QED BY <1>4, <1>5, <1>6

\* From the last word up: a root of any level matches the words from that level
\* on exactly when an entry that leads to it denies them.
LEMMA LevelMeansEntries ==
    ASSUME IndexInv, NEW words \in Seq(Word)
    PROVE  \A i \in 1..(Len(words) + 1) : \A root :
              root \in Matching(trie, words)[i] <=>
                  i <= Len(words) /\ IsRoot(root, i) /\ Caught(root, words, i)
<1> DEFINE N == Len(words)
           Right(i) == \A root : root \in Matching(trie, words)[i] <=>
                                    i <= N /\ IsRoot(root, i) /\ Caught(root, words, i)
           Wrong == {k \in 0..N : ~Right(N + 1 - k)}
<1>1. N \in Nat
  OBVIOUS
<1>2. /\ Matching(trie, words)[N + 1] = {}
      /\ \A i \in 1..N : Matching(trie, words)[i] =
                            Level(trie, words, i, Matching(trie, words)[i + 1])
  BY <1>1, MatchingLevels
<1>3. Right(N + 1)
  BY <1>1, <1>2
<1>4. ASSUME NEW i \in 1..N, Right(i + 1)
      PROVE  Right(i)
  <2> DEFINE later == Matching(trie, words)[i + 1]
  <2>1. \A root : root \in Matching(trie, words)[i] <=>
                     IsRoot(root, i) /\ MatchWord(trie, root, words, i, later)
    BY <1>2 DEF Level, IsRoot
  <2>2. \A r : r \in later <=> i + 1 <= N /\ IsRoot(r, i + 1) /\ Caught(r, words, i + 1)
    BY <1>4
  <2>3. i + 1 <= N <=> i < N
    BY <1>1
  <2> HIDE DEF later
  <2>4. ASSUME NEW root, IsRoot(root, i), MatchWord(trie, root, words, i, later)
        PROVE  Caught(root, words, i)
    BY <2>2, <2>3, <2>4, FoundIsCaught
  <2>5. ASSUME NEW root, IsRoot(root, i), Caught(root, words, i)
        PROVE  MatchWord(trie, root, words, i, later)
    BY <2>2, <2>3, <2>5, CaughtIsFound
  <2>6. i <= N
    BY <1>1
  <2> QED BY <2>1, <2>4, <2>5, <2>6
<1>5. Wrong = {}
  <2> SUFFICES ASSUME Wrong # {} PROVE FALSE
    OBVIOUS
  <2>1. PICK k \in Wrong : \A m \in Wrong : k <= m
    <3>1. Wrong \in SUBSET Nat
      BY <1>1
    <3> HIDE DEF Wrong
    <3> QED BY <3>1, LeastNumber
  <2> HIDE DEF Right
  <2>2. k \in 0..N /\ ~Right(N + 1 - k)
    BY <2>1
  <2>3. k # 0
    BY <1>1, <1>3, <2>2
  <2>4. k - 1 \notin Wrong /\ k - 1 \in 0..N
    BY <1>1, <2>1, <2>2, <2>3
  <2>5. Right(N + 1 - (k - 1))
    BY <2>4
  <2>6. N + 1 - k \in 1..N /\ (N + 1 - k) + 1 = N + 1 - (k - 1)
    BY <1>1, <2>2, <2>3
  <2> QED BY <1>4, <2>2, <2>5, <2>6
<1>6. ASSUME NEW i \in 1..(N + 1)
      PROVE  Right(i)
  <2> HIDE DEF Right
  <2>1. N + 1 - i \in 0..N /\ N + 1 - (N + 1 - i) = i
    BY <1>1
  <2>2. Right(N + 1 - (N + 1 - i))
    BY <1>5, <2>1
  <2> QED BY <2>1, <2>2
<1> QED BY <1>6

LEMMA DeniedIsCaught ==
    ASSUME IndexInv, NEW words \in Seq(Word)
    PROVE  IsDenied(trie, words) <=> \E entry \in denied : Denies(entry, words)
<1>1. Len(words) \in Nat /\ (words # <<>> <=> 1 <= Len(words))
  OBVIOUS
<1>2. IsRoot(Root, 1)
  BY RootIsNode DEF IndexInv, IsRoot, Last
<1>3. IsDenied(trie, words) <=> 1 <= Len(words) /\ Caught(Root, words, 1)
  <2>1. 1 \in 1..(Len(words) + 1)
    BY <1>1
  <2>2. Root \in Matching(trie, words)[1] <=>
           1 <= Len(words) /\ IsRoot(Root, 1) /\ Caught(Root, words, 1)
    BY <2>1, LevelMeansEntries
  <2> QED BY <1>1, <1>2, <2>2 DEF IsDenied
<1>4. Caught(Root, words, 1) <=> \E entry \in Indexed : DeniesFrom(entry, words, 1)
  BY DEF Caught
<1>5. ASSUME NEW entry \in Indexed
      PROVE  DeniesFrom(entry, words, 1) /\ 1 <= Len(words) <=> Denies(entry, words)
  <2>1. Stem(entry) \in Seq(Word) /\ Stem(entry) # <<>>
    BY IndexedStem
  <2>2. Len(Stem(entry)) \in Nat /\ 1 <= Len(Stem(entry))
    BY <2>1
  <2> QED BY <1>1, <2>1, <2>2 DEF DeniesFrom, Denies
<1>6. \A entry \in denied : Denies(entry, words) => entry \in Indexed
  <2>1. ~SpaceGlob(<<>>) /\ ~InlineGlob(<<>>)
    BY DEF SpaceGlob, InlineGlob
  <2>2. Stem(<<>>) = <<>>
    BY <2>1 DEF Stem
  <2> QED BY <2>2 DEF Denies, Indexed
<1> QED BY <1>3, <1>4, <1>5, <1>6 DEF Indexed

\* The index denies what some entry denies on its own: entries that share words
\* or prefixes of words neither hide nor widen one another.
THEOREM TrieMeansItsEntriesCorrect == Spec => []TrieMeansItsEntries
<1>1. IndexInv => TrieMeansItsEntries
  BY DeniedIsCaught, CommandsAssumption DEF TrieMeansItsEntries
<1> QED BY <1>1, IndexInvariant, PTL

-----------------------------------------------------------------------------
(* What is refused, and what a further entry or a pipe changes. *)

\* The two filters agree where both apply: what the glob of an entry matches, the
\* entry denies as its own abbreviation.
LEMMA GlobIsDenied ==
    ASSUME NEW entry \in Seq(Word), entry # <<>>, ~InvalidGlob(entry),
           NEW words \in Seq(Word), GlobMatches(entry, words)
    PROVE  Denies(entry, words)
<1> DEFINE stem == Stem(entry)
           l == Len(stem)
<1>1. stem \in Seq(Word) /\ stem # <<>> /\ stem \in Seq(Part) /\ words \in Seq(Part)
  BY StemType, WordIsPart
<1>2. /\ l \in Nat \ {0} /\ Last(stem) = stem[l] /\ Front(stem) \in Seq(Part)
      /\ Len(Front(stem)) = l - 1 /\ \A i \in 1..(l - 1) : Front(stem)[i] = stem[i]
  BY <1>1, FrontLast
<1>3. Len(words) \in Nat /\ \A i \in 1..Len(words) : words[i] \in Part
  BY <1>1
<1>4. \A i \in 1..Len(words) : IsPrefix(words[i], words[i])
  BY <1>3, PrefixOrder DEF Part
<1>5. CASE Plain(entry)
  <2>1. ~SpaceGlob(entry) /\ ~InlineGlob(entry)
    BY <1>5 DEF Plain
  <2>2. words = stem
    BY <2>1 DEF GlobMatches
  <2> HIDE DEF stem
  <2>3. l \in 1..Len(words) /\ \A i \in 1..(l - 1) : i \in 1..Len(words)
    BY <1>2, <2>2
  <2> QED BY <1>1, <1>3, <1>4, <2>1, <2>2, <2>3 DEF Denies, stem
<1>6. CASE SpaceGlob(entry)
  <2>1. ~InlineGlob(entry) /\ ~Plain(entry)
    BY <1>6 DEF Plain, InlineGlob
  <2>2. IsPrefix(stem, words) /\ words # stem
    BY <2>1 DEF GlobMatches
  <2> HIDE DEF stem
  <2>3. l <= Len(words) /\ \A i \in 1..l : stem[i] = words[i]
    BY <1>1, <2>2, PrefixElements
  <2>4. l < Len(words)
    <3> SUFFICES ASSUME l = Len(words) PROVE FALSE
      BY <1>2, <1>3, <2>3
    <3> QED BY <1>1, <2>2, <2>3, SeqEqual
  <2>5. IsPrefix(words[l], stem[l]) /\ \A i \in 1..(l - 1) : IsPrefix(words[i], stem[i])
    BY <1>2, <1>3, <1>4, <2>3
  <2> QED BY <1>1, <1>2, <1>3, <2>1, <2>4, <2>5 DEF Denies, stem
<1>7. CASE InlineGlob(entry)
  <2>1. ~SpaceGlob(entry) /\ ~Plain(entry)
    BY <1>7 DEF Plain, InlineGlob
  <2>2. Len(words) >= l /\ IsPrefix(Front(stem), words) /\ IsPrefix(Last(stem), words[l])
    BY <2>1 DEF GlobMatches
  <2> HIDE DEF stem
  <2>3. \A i \in 1..(l - 1) : stem[i] = words[i]
    BY <1>1, <1>2, <2>2, PrefixElements
  <2>4. \A i \in 1..(l - 1) : IsPrefix(words[i], stem[i])
    BY <1>2, <1>3, <1>4, <2>2, <2>3
  <2> QED BY <1>1, <1>2, <1>7, <2>1, <2>2, <2>4 DEF Denies, stem
<1> QED BY <1>5, <1>6, <1>7 DEF Plain

\* What an entry denies it denies of every abbreviation too.
LEMMA DeniesShortened ==
    ASSUME NEW entry, Stem(entry) \in Seq(Word),
           NEW long \in Seq(Word), NEW short \in Seq(Word),
           Denies(entry, long), Shortens(short, long)
    PROVE  Denies(entry, short)
<1> DEFINE stem == Stem(entry)
           l == Len(stem)
<1>1. /\ stem # <<>> /\ l <= Len(long)
      /\ \A i \in 1..(l - 1) : IsPrefix(long[i], stem[i])
      /\ \/ IsPrefix(long[l], stem[l])
         \/ InlineGlob(entry) /\ IsPrefix(Last(stem), long[l])
      /\ Plain(entry) => Len(long) = l
      /\ SpaceGlob(entry) => Len(long) > l
  BY DEF Denies
<1>2. /\ stem \in Seq(Part) /\ long \in Seq(Part) /\ short \in Seq(Part)
      /\ l \in Nat \ {0} /\ Last(stem) = stem[l]
  BY <1>1, WordIsPart, FrontLast
<1>3. Len(short) = Len(long) /\ \A i \in 1..Len(long) : IsPrefix(short[i], long[i])
  BY <1>2 DEF Shortens
<1> HIDE DEF stem
<1>4. \A i \in 1..l : stem[i] \in Part /\ long[i] \in Part /\ short[i] \in Part
                      /\ IsPrefix(short[i], long[i])
  BY <1>1, <1>2, <1>3
<1>5. \A i \in 1..l : IsPrefix(long[i], stem[i]) => IsPrefix(short[i], stem[i])
  BY <1>4, PrefixOrder DEF Part
<1>6. l \in 1..l /\ \A i \in 1..(l - 1) : i \in 1..l
  BY <1>2
<1>7. IsPrefix(stem[l], long[l]) => IsPrefix(short[l], stem[l]) \/ IsPrefix(stem[l], short[l])
  BY <1>4, <1>6, PrefixOrder DEF Part
<1> QED BY <1>1, <1>2, <1>3, <1>5, <1>6, <1>7 DEF Denies, stem

\* The entry without words denies nothing but the command without words.
LEMMA EmptyEntry ==
    ASSUME NEW words
    PROVE  GlobMatches(<<>>, words) <=> words = <<>>
<1>1. ~SpaceGlob(<<>>) /\ ~InlineGlob(<<>>)
  BY DEF SpaceGlob, InlineGlob
<1>2. Stem(<<>>) = <<>>
  BY <1>1 DEF Stem
<1> QED BY <1>1, <1>2 DEF GlobMatches, Plain

\* A denied command stays denied when its words are abbreviated: deny_check and
\* the index leave no gap between them.
THEOREM AbbreviationIsDeniedCorrect == Spec => []AbbreviationIsDenied
<1>1. ASSUME IndexInv, NEW c \in Commands, NEW d \in Commands,
             DenyMatch(d), Shortens(c.base, d.base)
      PROVE  DenyMatch(c)
  <2>1. c.base \in Seq(Word) /\ d.base \in Seq(Word)
    BY CommandsAssumption
  <2>2. \A entry \in denied : entry \in Seq(Word) /\ ~InvalidGlob(entry)
    BY <1>1, EntriesAssumption DEF IndexInv
  <2>3. ASSUME NEW entry \in denied, entry # <<>>, Denies(entry, d.base)
        PROVE  DenyMatch(c)
    <3>1. Stem(entry) \in Seq(Word)
      BY <2>2, <2>3, StemType
    <3>2. Denies(entry, c.base)
      BY <1>1, <2>1, <2>3, <3>1, DeniesShortened
    <3>3. IsDenied(trie, c.base)
      BY <1>1, <2>1, <3>2, DeniedIsCaught
    <3> QED BY <3>3 DEF DenyMatch
  <2>4. ASSUME NEW entry \in denied, GlobMatches(entry, d.base)
        PROVE  DenyMatch(c)
    <3>1. CASE entry = <<>>
      <4>1. d.base = <<>>
        BY <2>4, <3>1, EmptyEntry
      <4>2. c.base = <<>>
        BY <1>1, <2>1, <4>1 DEF Shortens
      <4>3. GlobMatches(entry, c.base)
        BY <3>1, <4>2, EmptyEntry
      <4> QED BY <4>3 DEF DenyMatch, DenyCheck
    <3>2. CASE entry # <<>>
      <4>1. Denies(entry, d.base)
        BY <2>1, <2>2, <2>4, <3>2, GlobIsDenied
      <4> QED BY <2>3, <3>2, <4>1
    <3> QED BY <3>1, <3>2
  <2>5. ASSUME IsDenied(trie, d.base)
        PROVE  DenyMatch(c)
    <3>1. PICK entry \in denied : Denies(entry, d.base)
      BY <1>1, <2>1, <2>5, DeniedIsCaught
    <3>2. Stem(<<>>) = <<>>
      BY DEF Stem, SpaceGlob, InlineGlob
    <3>3. entry # <<>>
      BY <3>1, <3>2 DEF Denies
    <3> QED BY <2>3, <3>1, <3>3
  <2> QED BY <1>1, <2>4, <2>5 DEF DenyMatch, DenyCheck
<1>2. IndexInv => AbbreviationIsDenied
  BY <1>1, Zenon DEF AbbreviationIsDenied
<1> QED BY <1>2, IndexInvariant, PTL

\* The command that a pipe follows, without the pipe.
LEMMA WithoutPipe ==
    ASSUME NEW c \in Commands
    PROVE  LET n == [c EXCEPT !.pipe = "none"]
           IN  n.safe = c.safe /\ n.base = c.base /\ n.pipe = "none"
BY CommandsAssumption

\* When a command is allowed.
LEMMA WhenAllowed ==
    ASSUME NEW c
    PROVE  Allowed(c) <=> /\ ~UnsafeChar(c) /\ ~DenyMatch(c)
                          /\ c.pipe \notin {"multiple", "empty", "unlisted"}
                          /\ AllowMatch(c.base)
<1> DEFINE checked == CASE c.pipe = "multiple"              -> "MULTIPLE_PIPES"
                        [] c.pipe \in {"empty", "unlisted"} -> "INVALID_PIPE_MODIFIER"
                        [] OTHER -> IF AllowMatch(c.base) THEN "ALLOWED" ELSE "NO_ALLOW_MATCH"
<1>1. checked = "ALLOWED" <=> /\ c.pipe \notin {"multiple", "empty", "unlisted"}
                              /\ AllowMatch(c.base)
  OBVIOUS
<1>2. Reason(c) = CASE UnsafeChar(c)                  -> "UNSAFE_CHAR"
                    [] ~UnsafeChar(c) /\ DenyMatch(c) -> "DENY_MATCH"
                    [] OTHER                          -> checked
  BY DEF Reason
<1> HIDE DEF checked
<1> QED BY <1>1, <1>2 DEF Allowed

\* A pipe narrows what is shown and never what is checked: a command with a pipe
\* is allowed only where the same command without it is.
THEOREM PipeAllowsNoMoreCorrect == Spec => []PipeAllowsNoMore
<1>1. ASSUME NEW c \in Commands, Allowed(c)
      PROVE  Allowed([c EXCEPT !.pipe = "none"])
  <2> DEFINE n == [c EXCEPT !.pipe = "none"]
  <2>1. n.safe = c.safe /\ n.base = c.base /\ n.pipe = "none"
    BY WithoutPipe
  <2> HIDE DEF n
  <2>2. ~UnsafeChar(c) /\ ~DenyMatch(c) /\ AllowMatch(c.base)
    BY <1>1, WhenAllowed
  <2>3. ~UnsafeChar(n) /\ ~DenyMatch(n) /\ AllowMatch(n.base)
    BY <2>1, <2>2 DEF UnsafeChar, DenyMatch
  <2> QED BY <2>1, <2>3, WhenAllowed DEF n
<1>2. PipeAllowsNoMore
  BY <1>1 DEF PipeAllowsNoMore
<1> QED BY <1>2, PTL

\* A further deny entry may only deny: no command that was refused is allowed
\* once the entry is indexed beside the others.
THEOREM NewEntryOnlyDeniesCorrect == Spec => NewEntryOnlyDenies
<1> DEFINE Checked(c) == /\ ~UnsafeChar(c) /\ ~DenyMatch(c)
                         /\ c.pipe \notin {"multiple", "empty", "unlisted"}
                         /\ AllowMatch(c.base)
           Means == /\ \A c \in Commands : Allowed(c) <=> Checked(c)
                    /\ IndexInv => \A c \in Commands :
                          IsDenied(trie, c.base) <=> \E entry \in denied : Denies(entry, c.base)
<1>1. Means
  BY WhenAllowed, DeniedIsCaught, CommandsAssumption
<1>2. Means'
  BY <1>1, PTL
<1>3. ASSUME IndexInv, IndexInv', [Next]_vars, NEW c \in Commands, Allowed(c)'
      PROVE  Allowed(c)
  <2>1. denied \subseteq denied' /\ UNCHANGED <<allow_pipe, allowed>>
    BY <1>3 DEF Next, Add, vars
  <2>2. ~UnsafeChar(c)' /\ ~DenyMatch(c)' /\ c.pipe \notin {"multiple", "empty", "unlisted"}
        /\ AllowMatch(c.base)'
    BY <1>2, <1>3
  <2>3. ~DenyCheck(c.base)
    BY <2>1, <2>2 DEF DenyMatch, DenyCheck
  <2>4. IsDenied(trie, c.base) => \E entry \in denied : Denies(entry, c.base)
    BY <1>1, <1>3
  <2>5. (\E entry \in denied' : Denies(entry, c.base)) => IsDenied(trie, c.base)'
    BY <1>2, <1>3
  <2>6. ~DenyMatch(c)
    BY <2>1, <2>2, <2>3, <2>4, <2>5 DEF DenyMatch
  <2>7. ~UnsafeChar(c) /\ AllowMatch(c.base)
    BY <2>1, <2>2 DEF UnsafeChar, AllowMatch
  <2> QED BY <1>1, <2>2, <2>6, <2>7
<1>4. IndexInv /\ IndexInv' /\ [Next]_vars => \A c \in Commands : Allowed(c)' => Allowed(c)
  BY <1>3
<1> HIDE DEF Means
<1> QED BY <1>4, IndexInvariant, PTL DEF Spec, NewEntryOnlyDenies

=============================================================================
