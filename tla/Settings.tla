------------------------------- MODULE Settings -------------------------------
(***************************************************************************)
(* How src/netmiko_mcp/config.py resolves the settings, and the decision   *)
(* of src/netmiko_mcp/http_auth.py on a request.                           *)
(*                                                                         *)
(* A source gives values to some of the fields: it is a function from a    *)
(* subset of Fields.  The fields are those whose value decides what the    *)
(* server does when it starts; that the allowed characters include '|' is  *)
(* a field of its own.                                                     *)
(***************************************************************************)
EXTENDS Sequences

Fields == {"transport", "allow_pipe", "pipe_in_chars", "http_auth_enabled"}

Default == [transport |-> "stdio", allow_pipe |-> FALSE,
            pipe_in_chars |-> FALSE, http_auth_enabled |-> TRUE]

Values(f) == IF f = "transport" THEN {"stdio", "streamable-http"} ELSE BOOLEAN

IsSource(s) == DOMAIN s \subseteq Fields /\ \A f \in DOMAIN s : s[f] \in Values(f)
IsSettings(s) == IsSource(s) /\ DOMAIN s = Fields

\* Mutant: the file, which is more specific, wins.
MutFileWins(env, file) ==
    [f \in Fields |-> IF f \in DOMAIN file THEN file[f]
                      ELSE IF f \in DOMAIN env THEN env[f]
                      ELSE Default[f]]

\* The environment wins over the file, the file over the defaults.
Resolved(env, file) ==
    [f \in Fields |-> IF f \in DOMAIN env THEN env[f]
                      ELSE IF f \in DOMAIN file THEN file[f]
                      ELSE Default[f]]

\* The model validator: '|' needs allow_pipe.
PipeConsistent(settings) == settings.pipe_in_chars => settings.allow_pipe

IsHttp(settings) == settings.transport = "streamable-http"

-----------------------------------------------------------------------------
(* Requests.  The Authorization headers of a request are a sequence of        *)
(* schemes and credentials; the other headers do not matter.                  *)

\* The first header decides.
Authorized(headers, token) ==
    /\ headers # <<>>
    /\ headers[1].scheme = "bearer"
    /\ headers[1].credentials = token

=============================================================================
