---------------------------- MODULE ServerLifecycle ----------------------------
(***************************************************************************)
(* One server process of src/netmiko_mcp/server.py from its start to its   *)
(* death, and again after a restart: the import of the settings,           *)
(* _validate_startup, configure_audit_logger, and the tool calls it then   *)
(* serves, up to the decision on a command, where ShowCommand and          *)
(* GroupCommand begin, or to the answer of a tool that touches no device.  *)
(*                                                                         *)
(* The operator edits the settings file and the command file at any time,  *)
(* and nothing tells the process.  The command file is read twice: at      *)
(* startup, to be validated, and by the first command, to be used;         *)
(* load_commands keeps what the first reader of a process that returns has *)
(* read, in an lru_cache that takes no lock while it loads.                *)
(***************************************************************************)
EXTENDS AuditLog, Settings, FiniteSets

CONSTANTS
    Versions,       \* the well-formed contents of the command file
    AllowedOk,      \* the versions whose allowed_commands have valid globs only
    DeniedOk,       \* the versions whose denied_commands have valid globs only
    Permitting,     \* the versions under which the command of the calls is allowed
    Environments,   \* the environments in which the operator starts the server
    SettingsFiles,  \* the contents of the settings file
    Requests,       \* the Authorization headers a request may have
    MaxStarts,      \* bound: how often the server is started
    MaxEdits        \* bound: how often a file is edited

ASSUME VersionsAssumption ==
    /\ AllowedOk \subseteq Versions /\ DeniedOk \subseteq Versions
    /\ Permitting \subseteq Versions
    /\ {"none", "missing", "malformed", "empty"} \cap Versions = {}
ASSUME EnvironmentsAssumption ==
    /\ Environments # {}
    /\ \A e \in Environments : IsSource(e.fields) /\ e.config \in BOOLEAN
ASSUME SettingsFilesAssumption == \A file \in SettingsFiles : IsSource(file.fields)
ASSUME RequestsAssumption == Requests \subseteq Seq([scheme : STRING, credentials : STRING])
ASSUME BoundsAssumption == MaxStarts \in Nat /\ MaxEdits \in Nat

VARIABLES
    commandFile,    \* the content of commands.yml
    settingsFile,   \* the kind of the settings file, and its fields
    edits,          \* how often the operator edited one of them
    starts,         \* how often the server was started
    phase,          \* where the main thread of the process is
    env,            \* the environment of the process
    settings,       \* the global settings object
    startupError,   \* whether _startup_error is set
    cache,          \* what load_commands has cached, "none" if nothing
    ipc,            \* where each tool call is
    tool,           \* the kind of the tool it calls
    headers,        \* the Authorization headers of its request
    got,            \* what its run of load_commands has read
    used,           \* the contents it was decided by, in order
    servedBy,       \* history: the start of the process that serves it
    warm,           \* history: whether the cache was filled when it began
    validated,      \* history: the content _validate_startup accepted
    edited,         \* history: whether commands.yml was edited since
    reconfigured    \* history: whether the settings file was, since its import

files == <<commandFile, settingsFile, edits>>
process == <<starts, phase, env, settings, startupError, cache>>
calls == <<ipc, tool, headers, got, used, servedBy, warm>>
history == <<validated, edited, reconfigured>>
vars == <<auditVars, files, process, calls, history>>

-----------------------------------------------------------------------------

\* A file that is not there, one that no YAML parser takes, and one that loads
\* but has no lists to iterate: an empty file is None, and so may a list be.
Contents == Versions \cup {"missing", "malformed", "empty"}

ValidLists(content) == content \in AllowedOk \cap DeniedOk

\* list_groups, list_devices, list_device_outputs, read_device_output and ping
\* ("query") log an invocation; the others decide on a command first.
Tools == {"query", "show", "group"}

Starting == {"importing", "check_config", "check_file", "check_lists", "check_token",
             "configure_audit"}
Phases == {"down", "serving"} \cup Starting

Ended == {"unauthorized", "refused", "answered", "decided", "raised", "crashed"}
CallPoints == {"idle", "auth", "gate", "emit", "body", "load", "read", "loaded"} \cup Ended
InProgress(i) == ipc[i] \notin {"idle"} \cup Ended

\* The calls that the present process serves or served.
Mine(i) == phase = "serving" /\ ipc[i] # "idle" /\ servedBy[i] = starts

Init ==
    /\ AuditInit
    /\ commandFile \in Contents
    /\ settingsFile \in SettingsFiles
    /\ edits = 0
    /\ starts = 0
    /\ phase = "down"
    /\ env = (CHOOSE e \in Environments : TRUE)
    /\ settings = Default
    /\ startupError = FALSE
    /\ cache = "none"
    /\ ipc = [i \in Ids |-> "idle"]
    /\ tool = [i \in Ids |-> "query"]
    /\ headers = [i \in Ids |-> <<>>]
    /\ got = [i \in Ids |-> "none"]
    /\ used = [i \in Ids |-> <<>>]
    /\ servedBy = [i \in Ids |-> 0]
    /\ warm = [i \in Ids |-> FALSE]
    /\ validated = "none"
    /\ edited = FALSE
    /\ reconfigured = FALSE

-----------------------------------------------------------------------------
(* The operator. *)

EditCommands(content) ==
    /\ edits < MaxEdits
    /\ content # commandFile
    /\ commandFile' = content
    /\ edits' = edits + 1
    /\ edited' = (validated # "none")
    /\ UNCHANGED <<auditVars, settingsFile, process, calls, validated, reconfigured>>

EditSettings(file) ==
    /\ edits < MaxEdits
    /\ file # settingsFile
    /\ settingsFile' = file
    /\ edits' = edits + 1
    /\ reconfigured' = (phase # "down")
    /\ UNCHANGED <<auditVars, commandFile, process, calls, validated, edited>>

\* A new process, with nothing cached.
StartServer(e) ==
    /\ phase = "down"
    /\ starts < MaxStarts
    /\ starts' = starts + 1
    /\ phase' = "importing"
    /\ env' = e
    /\ UNCHANGED <<auditVars, files, settings, startupError, cache, calls, history>>

\* What a process that ends takes with it.
ProcessEnds ==
    /\ phase' = "down"
    /\ settings' = Default
    /\ startupError' = FALSE
    /\ cache' = "none"
    /\ validated' = "none"
    /\ edited' = FALSE
    /\ reconfigured' = FALSE

\* The process dies, or is stopped, with the calls it serves.
Stop ==
    /\ phase # "down"
    /\ ProcessEnds
    /\ ipc' = [i \in Ids |-> IF InProgress(i) THEN "crashed" ELSE ipc[i]]
    /\ EmitsCrash
    /\ got' = [i \in Ids |-> "none"]
    /\ warm' = [i \in Ids |-> FALSE]
    /\ UNCHANGED <<files, starts, env, tool, headers, used, servedBy>>

-----------------------------------------------------------------------------
(* Startup. *)

GotoPhase(p) ==
    /\ phase' = p
    /\ UNCHANGED <<auditVars, files, starts, env, cache, calls>>

\* An exception leaves main, or the import, and the process ends.
MainRaises ==
    /\ ProcessEnds
    /\ UNCHANGED <<auditVars, files, starts, env, calls>>

\* A check fails: SystemExit for the HTTP transport, where the operator sits
\* at the terminal; for stdio the error is kept for the tools.
CheckFails ==
    IF IsHttp(settings) THEN MainRaises
    ELSE /\ GotoPhase("configure_audit")
         /\ startupError' = TRUE
         /\ UNCHANGED <<settings, history>>

CheckPasses(p) ==
    /\ GotoPhase(p)
    /\ UNCHANGED <<settings, startupError, history>>

\* settings = McpConfig(), when config is imported.  A settings file that is
\* missing is no source; one that cannot be parsed raises, and so does the
\* validator.
ImportSettings ==
    /\ phase = "importing"
    /\ LET s == Resolved(env.fields, settingsFile.fields)
       IN  IF settingsFile.kind = "malformed" \/ ~PipeConsistent(s) THEN MainRaises
           ELSE /\ GotoPhase("check_config")
                /\ settings' = s
                /\ reconfigured' = FALSE
                /\ UNCHANGED <<startupError, validated, edited>>

\* NETMIKO_MCP_CONFIG must name a file, if it is set.
CheckConfig ==
    /\ phase = "check_config"
    /\ IF env.config /\ settingsFile.kind = "missing" THEN CheckFails
       ELSE CheckPasses("check_file")

CheckCommandFile ==
    /\ phase = "check_file"
    /\ IF commandFile = "missing" THEN CheckFails ELSE CheckPasses("check_lists")

\* Mutant: the globs of the allowed commands are validated, those of the
\* denied commands are not.
MutAllowSideOnly ==
    /\ phase = "check_lists"
    /\ IF commandFile \notin Versions THEN MainRaises
       ELSE IF commandFile \notin AllowedOk THEN CheckFails
       ELSE /\ GotoPhase("check_token")
            /\ validated' = commandFile
            /\ edited' = FALSE
            /\ UNCHANGED <<settings, startupError, reconfigured>>

\* load_yaml_file, then validate_command_lists.  A file that has gone, that
\* cannot be parsed or that holds no mapping is an exception nothing catches.
CheckLists ==
    /\ phase = "check_lists"
    /\ IF commandFile \notin Versions THEN MainRaises
       ELSE IF ~ValidLists(commandFile) THEN CheckFails
       ELSE /\ GotoPhase("check_token")
            /\ validated' = commandFile
            /\ edited' = FALSE
            /\ UNCHANGED <<settings, startupError, reconfigured>>

NeedsToken == IsHttp(settings) /\ settings.http_auth_enabled

\* Mutant: a token that is set is taken, blank or not.
MutBlankToken ==
    /\ phase = "check_token"
    /\ CheckPasses("configure_audit")

\* _get_bearer_token: SystemExit for a token that is not set or blank.
CheckToken ==
    /\ phase = "check_token"
    /\ IF NeedsToken /\ env.token = "" THEN MainRaises
       ELSE CheckPasses("configure_audit")

\* configure_audit_logger attaches the handlers, or cannot open a sink and
\* raises; then main runs the transport.
ConfigureAudit ==
    /\ phase = "configure_audit"
    /\ \/ CheckPasses("serving")
       \/ AuditEnabled /\ MainRaises

StartupStep ==
    \/ ImportSettings
    \/ CheckConfig
    \/ CheckCommandFile
    \/ CheckLists
    \/ CheckToken
    \/ ConfigureAudit

-----------------------------------------------------------------------------
(* Tool calls. *)

Goto(i, point) == ipc' = [ipc EXCEPT ![i] = point]

\* A client calls a tool; over HTTP the middleware sees the request first.
Call(i, t, h) ==
    /\ phase = "serving"
    /\ ipc[i] = "idle"
    /\ Goto(i, IF NeedsToken THEN "auth" ELSE "gate")
    /\ tool' = [tool EXCEPT ![i] = t]
    /\ headers' = [headers EXCEPT ![i] = h]
    /\ servedBy' = [servedBy EXCEPT ![i] = starts]
    /\ UNCHANGED <<auditVars, files, process, got, used, warm, history>>

\* BearerTokenMiddleware: 401, or on to the application.
Authenticate(i) ==
    /\ ipc[i] = "auth"
    /\ Goto(i, IF Authorized(headers[i], env.token) THEN "gate" ELSE "unauthorized")
    /\ UNCHANGED <<auditVars, files, process, tool, headers, got, used, servedBy, warm,
                   history>>

\* Mutant: the group tool lacks the decorator.
MutUndecorated(i) ==
    /\ ipc[i] = "gate"
    /\ Goto(i, IF startupError /\ tool[i] # "group" THEN "refused"
               ELSE IF tool[i] = "query" THEN "emit" ELSE "load")
    /\ warm' = [warm EXCEPT ![i] = cache # "none"]
    /\ UNCHANGED <<auditVars, files, process, tool, headers, got, used, servedBy, history>>

\* check_startup_error, and into the body of the tool.
Enter(i) ==
    /\ ipc[i] = "gate"
    /\ Goto(i, IF startupError THEN "refused"
               ELSE IF tool[i] = "query" THEN "emit" ELSE "load")
    /\ warm' = [warm EXCEPT ![i] = cache # "none"]
    /\ UNCHANGED <<auditVars, files, process, tool, headers, got, used, servedBy, history>>

-----------------------------------------------------------------------------
(* The tools that touch no device: log_tool_invocation, then the answer. *)

\* Mutant: the answer does not wait for the record.
MutAnswerFirst(i) ==
    /\ ipc[i] = "emit"
    /\ emitted[i] <= Len(Handlers)
    /\ emitted' = [emitted EXCEPT ![i] = 0]
    /\ Goto(i, "body")
    /\ UNCHANGED <<auditLog, files, process, tool, headers, got, used, servedBy, warm, history>>

WriteInvocation(i) ==
    /\ ipc[i] = "emit"
    /\ HandlerWrites(i, INVOKED)
    /\ UNCHANGED <<files, process, calls, history>>

InvocationFails(i) ==
    /\ ipc[i] = "emit"
    /\ HandlerRaises(i, INVOKED)
    /\ Goto(i, "raised")
    /\ UNCHANGED <<files, process, tool, headers, got, used, servedBy, warm, history>>

InvocationLogged(i) ==
    /\ ipc[i] = "emit"
    /\ EmitReturns(i)
    /\ Goto(i, "body")
    /\ UNCHANGED <<files, process, tool, headers, got, used, servedBy, warm, history>>

\* The body answers, an error included, or raises what it does not catch.
Answer(i) ==
    /\ ipc[i] = "body"
    /\ \E point \in {"answered", "raised"} : Goto(i, point)
    /\ UNCHANGED <<auditVars, files, process, tool, headers, got, used, servedBy, warm, history>>

-----------------------------------------------------------------------------
(* The decision on a command: validate_command, which calls load_commands.   *)

\* The rest of validate_command.  None has no lists, which raises.  A group
\* that is allowed is validated again for its devices; from there, and from
\* every other decision, run_show_command goes on.
DecideBy(i, content) ==
    /\ used' = [used EXCEPT ![i] = Append(@, content)]
    /\ Goto(i, IF content = "empty" THEN "raised"
               ELSE IF tool[i] = "group" /\ used[i] = <<>> /\ content \in Permitting
               THEN "load" ELSE "decided")

\* lru_cache finds the result of an earlier call.
CacheHit(i) ==
    /\ ipc[i] = "load"
    /\ cache # "none"
    /\ DecideBy(i, cache)
    /\ UNCHANGED <<auditVars, files, process, tool, headers, got, servedBy, warm, history>>

\* It does not, and runs load_commands.
CacheMiss(i) ==
    /\ ipc[i] = "load"
    /\ cache = "none"
    /\ Goto(i, "read")
    /\ UNCHANGED <<auditVars, files, process, tool, headers, got, used, servedBy, warm, history>>

\* Mutants: a file that cannot be parsed is taken for a result; it is read
\* again.
MutMalformedRead(i) ==
    /\ ipc[i] = "read"
    /\ Goto(i, "loaded")
    /\ got' = [got EXCEPT ![i] = commandFile]
    /\ UNCHANGED <<auditVars, files, process, tool, headers, used, servedBy, warm, history>>
MutReadAgain(i) ==
    /\ ipc[i] = "read"
    /\ Goto(i, IF commandFile = "malformed" THEN "load" ELSE "loaded")
    /\ got' = [got EXCEPT ![i] = commandFile]
    /\ UNCHANGED <<auditVars, files, process, tool, headers, used, servedBy, warm, history>>

\* The file as it is now.  One that is missing is read as no commands at all;
\* one that cannot be parsed raises, and nothing is cached.
ReadCommands(i) ==
    /\ ipc[i] = "read"
    /\ Goto(i, IF commandFile = "malformed" THEN "raised" ELSE "loaded")
    /\ got' = [got EXCEPT ![i] = commandFile]
    /\ UNCHANGED <<auditVars, files, process, tool, headers, used, servedBy, warm, history>>

\* Mutant: the last result stays.
MutLastStays(old, new) == new

\* lru_cache: when another thread has stored a result meanwhile, that one
\* stays, and the caller still gets its own.
Stored(old, new) == IF old = "none" THEN new ELSE old

LoadReturns(i) ==
    /\ ipc[i] = "loaded"
    /\ cache' = Stored(cache, got[i])
    /\ got' = [got EXCEPT ![i] = "none"]
    /\ DecideBy(i, got[i])
    /\ UNCHANGED <<auditVars, files, starts, phase, env, settings, startupError,
                   tool, headers, servedBy, warm, history>>

CallStep(i) ==
    \/ Authenticate(i)
    \/ Enter(i)
    \/ WriteInvocation(i)
    \/ InvocationFails(i)
    \/ InvocationLogged(i)
    \/ Answer(i)
    \/ CacheHit(i)
    \/ CacheMiss(i)
    \/ ReadCommands(i)
    \/ LoadReturns(i)

-----------------------------------------------------------------------------

\* The server waits for calls or starts that never come.
Quiet ==
    /\ phase \in {"down", "serving"}
    /\ \A i \in Ids : ~InProgress(i)
    /\ UNCHANGED vars

Next ==
    \/ \E content \in Contents : EditCommands(content)
    \/ \E file \in SettingsFiles : EditSettings(file)
    \/ \E e \in Environments : StartServer(e)
    \/ Stop
    \/ StartupStep
    \/ \E i \in Ids, t \in Tools, h \in IF IsHttp(settings) THEN Requests ELSE {<<>>} :
          Call(i, t, h)
    \/ \E i \in Ids : CallStep(i)
    \/ Quiet

Spec == Init /\ [][Next]_vars

\* The thread of every call gets on.  Nothing starts or stops the server, or
\* edits a file, by necessity.
FairSpec ==
    /\ Spec
    /\ \A i \in Ids : WF_vars(CallStep(i))

-----------------------------------------------------------------------------
(* Properties. *)

TypeOK ==
    /\ AuditTypeOK
    /\ commandFile \in Contents
    /\ settingsFile \in SettingsFiles
    /\ edits \in 0..MaxEdits /\ starts \in 0..MaxStarts
    /\ phase \in Phases
    /\ env \in Environments
    /\ IsSettings(settings)
    /\ startupError \in BOOLEAN
    /\ cache \in {"none", "missing", "empty"} \cup Versions
    /\ ipc \in [Ids -> CallPoints]
    /\ tool \in [Ids -> Tools]
    /\ headers \in [Ids -> Requests \cup {<<>>}]
    /\ got \in [Ids -> {"none"} \cup Contents]
    /\ \A i \in Ids : Len(used[i]) <= 2 /\ \A n \in 1..Len(used[i]) : used[i][n] \in Contents
    /\ servedBy \in [Ids -> 0..MaxStarts]
    /\ warm \in [Ids -> BOOLEAN]
    /\ validated \in {"none"} \cup Versions
    /\ edited \in BOOLEAN /\ reconfigured \in BOOLEAN

UsedBy(i) == {used[i][n] : n \in 1..Len(used[i])}

\* "Changes to the file require a server restart to take effect"
\* (docs/commands.md:10): once one load has returned, every command that begins
\* later, whatever is loading beside it and whatever has become of the file, is
\* decided by the lists it returned; and so are the devices of every group,
\* even of one whose own load was overtaken.
EditsWaitForRestart ==
    \A i \in Ids : Mine(i) =>
        /\ warm[i] => UsedBy(i) \subseteq {cache}
        /\ Len(used[i]) = 2 => used[i][2] = cache

\* The lists a command is decided by have passed the startup check, as long as
\* the file is not edited after it, by the first load at the latest: an
\* invalid deny entry, which the filter would ignore, is never in force.
UneditedMeansValidated ==
    ~edited =>
        \A i \in Ids : Mine(i) =>
            \A content \in UsedBy(i) : content = validated /\ ValidLists(content)

\* "a misconfigured server surfaces a clear error through any tool call rather
\* than silently misbehaving" (server.py:36): its calls decide nothing and answer
\* nothing of their own; and only a stdio server gets as far as having calls.
MisconfiguredRunsNothing ==
    phase = "serving" /\ startupError =>
        /\ ~IsHttp(settings)
        /\ cache = "none"
        /\ \A i \in Ids : Mine(i) => ipc[i] \in {"gate", "refused"}

\* "Every MCP tool invocation should produce an audit record" (audit.py:4), of
\* the tools that touch no device: no answer without a record in every sink,
\* across handlers that fail and processes that die.  A request that was not
\* authorised is no invocation, and is not recorded as one.
QueriesAreAudited ==
    \A i \in Ids :
        /\ ipc[i] = "answered" => Recorded(i, INVOKED)
        /\ ipc[i] = "unauthorized" => ~Seen(i, INVOKED)

\* A server that came up runs on the settings it was given: the environment
\* before the file before the defaults, a named file that is there, and no '|'
\* that allow_pipe does not permit, whichever sources these came from; unless
\* the file was edited after it was read.
ServesWhatWasConfigured ==
    phase = "serving" /\ ~startupError /\ ~reconfigured =>
        /\ env.config => settingsFile.kind # "missing"
        /\ \A f \in Fields :
              /\ f \in DOMAIN env.fields => settings[f] = env.fields[f]
              /\ f \in DOMAIN settingsFile.fields \ DOMAIN env.fields =>
                     settings[f] = settingsFile.fields[f]
        /\ settings.pipe_in_chars => settings.allow_pipe

\* "Every incoming HTTP request must carry an Authorization header of the form
\* Bearer <token>" (http_auth.py:4): with the authentication on, no request
\* gets to a tool without the token of the environment in which this process
\* was started, which is never blank.
OnlyBearersPass ==
    NeedsToken =>
        \A i \in Ids : Mine(i) /\ ipc[i] \notin {"auth", "unauthorized", "crashed"} =>
            \E n \in DOMAIN headers[i] :
                /\ headers[i][n].scheme = "bearer"
                /\ headers[i][n].credentials = env.token
                /\ env.token # ""

\* A tool call comes to an end, whatever has become of the files.
CallsEnd == \A i \in Ids : ipc[i] = "gate" ~> ipc[i] \in Ended

=============================================================================
