------------------------ MODULE MCCommandValidation ------------------------
(* Words over two characters, of which one is a prefix of another. *)
EXTENDS CommandValidation

MCWords == { <<"a">>, <<"b">>, <<"a", "b">> }

Of(n) == [1..n -> MCWords]

\* The commands of up to three words.
MCBases == {<<>>} \cup UNION {Of(n) : n \in 1..3}

\* Plain, "cmd*" and "cmd *" entries on one and two words, some on three, one
\* without words, and two that the startup check reports.
MCStems == Of(1) \cup Of(2) \cup {<< <<"a", "b">>, w, <<"a">> >> : w \in MCWords}

Starred(stem) == Append(Front(stem), Append(Last(stem), "*"))

MCEntries ==
    MCStems \cup {Append(s, <<"*">>) : s \in MCStems} \cup {Starred(s) : s \in MCStems}
        \cup { <<>>, << <<"*">> >>, << <<"*">>, <<"a">> >> }

MCAllowLists == { {<<>>, << <<"a", "*">> >>},
                  {<< <<"a", "b">>, <<"*">> >>, << <<"b">>, <<"a">> >>} }

MCCommands ==
    [safe : {TRUE}, base : MCBases, pipe : {"none", "listed"}] \cup
    [safe : BOOLEAN, base : {<<>>, << <<"a">> >>}, pipe : Pipes]

=============================================================================
