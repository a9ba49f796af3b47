---------------------------- MODULE MCOutputReader ----------------------------
(* Values of the constants of OutputReader for TLC. *)
EXTENDS OutputReader, TLC

\* "show a-b" and "show a.b" become the same file name part, which is the
\* first in the order of the names.
MCSafeName == [m \in Commands |-> IF m = "show c" THEN "show_c" ELSE "show_a_b"]
MCRank == ("show_a_b" :> 1) @@ ("show_c" :> 2)

\* "\n\na" and "xy": written over each other they give files that have a mixed
\* line, or the rest of one output under a number it never had.
MCSize == [w \in Calls |-> IF w = "w1" THEN 3 ELSE 2]
MCNewlines == [w \in Calls |-> IF w = "w1" THEN {1, 2} ELSE {}]

\* From the end, from the start, and from a line that may be beyond the end.
MCOffsets == {-2, 0, 1}
MCLimits == {-1, 0, 1, 2}

=============================================================================
