---------------------------- MODULE MCShowCommand ----------------------------
(* Values of the constants of ShowCommand for TLC. *)
EXTENDS ShowCommand, TLC

\* "show a-b" and "show a.b" become the same file name part; "reload" is the
\* command that is denied.
MCCommands == {"show a-b", "show a.b", "reload"}
MCPermitted == {"show a-b", "show a.b"}
MCSafeName == [m \in MCCommands |-> IF m = "reload" THEN "reload" ELSE "show_a_b"]

OneCommand == {"show a-b"}
OneSafeName == [m \in OneCommand |-> "show_a_b"]

\* One exception of the command phase and one of the connection phase.
MCRaisable == {"ReadTimeout", "SSHException"}

\* Calls differ by their names only.
CallSymmetry == Permutations(Calls)

=============================================================================
