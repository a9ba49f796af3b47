-------------------------- MODULE MCServerLifecycle --------------------------
(* Values of the constants of ServerLifecycle for TLC. *)
EXTENDS ServerLifecycle, TLC

NoFields == [f \in {} |-> FALSE]

\* The operator starts the server for stdio, on its defaults, or for HTTP, with
\* one of two tokens or with a blank one; or for stdio with NETMIKO_MCP_CONFIG set and
\* pipes switched off.
Http == "transport" :> "streamable-http"
MCEnvironments == {
    [config |-> FALSE, token |-> "", fields |-> NoFields],
    [config |-> FALSE, token |-> "t1", fields |-> Http],
    [config |-> FALSE, token |-> "t2", fields |-> Http],
    [config |-> FALSE, token |-> "", fields |-> Http],
    [config |-> TRUE, token |-> "",
     fields |-> ("transport" :> "stdio") @@ ("allow_pipe" :> FALSE)]}

MCSettingsFiles == {
    [kind |-> "missing", fields |-> NoFields],
    [kind |-> "malformed", fields |-> NoFields],
    [kind |-> "mapping", fields |-> ("pipe_in_chars" :> TRUE) @@ ("allow_pipe" :> TRUE)
                                    @@ ("http_auth_enabled" :> FALSE) @@ Http]}

\* A bearer of the token, one of nothing, and a second header that would do.
Bearer(t) == [scheme |-> "bearer", credentials |-> t]
MCRequests == {<<Bearer("t1")>>, <<Bearer("t2")>>, <<Bearer("")>>,
               <<[scheme |-> "basic", credentials |-> "t1"], Bearer("t1")>>}

=============================================================================
