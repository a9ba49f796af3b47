------------------------ MODULE ServerLifecycleProofs ------------------------
(***************************************************************************)
(* Proofs about ServerLifecycle, for every set of environments, settings   *)
(* files, contents of the command file, requests and calls, and any number *)
(* of starts and edits.                                                    *)
(***************************************************************************)
EXTENDS ServerLifecycle, AuditLogProofs

-----------------------------------------------------------------------------
(* The inductive invariant. *)

\* Contents that load_commands returns.
Loadable == {"missing", "empty"} \cup Versions

\* A call is in progress only in the process that serves now; and what a call
\* holds at each point of its way.
Placed ==
    /\ \A i \in Ids : servedBy[i] <= starts
    /\ \A i \in Ids : InProgress(i) => phase = "serving" /\ servedBy[i] = starts
    /\ phase \in Starting => \A i \in Ids : ipc[i] = "idle" \/ servedBy[i] < starts
    /\ \A i \in Ids :
          /\ ipc[i] \in {"idle", "auth", "gate", "emit", "body", "read", "loaded"}
                => used[i] = <<>>
          /\ ipc[i] = "load" => Len(used[i]) <= 1
          /\ ipc[i] = "loaded" => got[i] \in Loadable
          /\ ipc[i] \in {"idle", "auth", "gate"} => ~warm[i]

\* How far the startup has come, and on which settings.
Startup ==
    /\ startupError => phase \in {"configure_audit", "serving"} /\ ~IsHttp(settings)
    /\ phase \in {"down", "importing", "check_config", "check_file", "check_lists"}
          => validated = "none"
    /\ phase \in {"check_token", "configure_audit", "serving"} /\ ~startupError
          => validated # "none"
    /\ validated # "none" => ValidLists(validated)
    /\ validated # "none" /\ ~edited => commandFile = validated
    /\ phase \in {"configure_audit", "serving"} /\ NeedsToken => env.token # ""

Configured ==
    /\ phase \notin {"down", "importing"} =>
          /\ PipeConsistent(settings)
          /\ ~reconfigured => settings = Resolved(env.fields, settingsFile.fields)
    /\ phase \notin {"down", "importing", "check_config"} =>
          (~startupError /\ ~reconfigured /\ env.config => settingsFile.kind # "missing")

\* The cache and the calls of the process that serves now.
Caching ==
    /\ phase # "serving" => cache = "none"
    /\ startupError => cache = "none"
    /\ phase = "serving" /\ ~edited => cache \in {"none", validated}
    /\ \A i \in Ids : Mine(i) =>
          /\ startupError => ipc[i] \in {"gate", "refused"}
          /\ used[i] # <<>> => cache # "none"
          /\ warm[i] => cache # "none" /\ ipc[i] \notin {"read", "loaded"}
          /\ ipc[i] = "loaded" /\ ~edited => got[i] = validated
          /\ ~edited => UsedBy(i) \subseteq {validated}

\* What the sinks hold of the calls of the tools that touch no device.
Auditing ==
    \A i \in Ids :
        /\ ipc[i] # "emit" => emitted[i] = 0
        /\ ipc[i] \in {"idle", "auth", "gate", "unauthorized", "refused"} =>
              \A s \in Sinks : auditLog[s][i] = <<>>
        /\ ipc[i] = "emit" => \A n \in 1..emitted[i] : InLog(Handlers[n], i, INVOKED)
        /\ ipc[i] \in {"body", "answered"} => Recorded(i, INVOKED)

Typed == TypeOK /\ used \in [Ids -> Seq(Contents)]

ServerInv ==
    /\ Typed /\ Placed /\ Startup /\ Configured /\ Caching /\ Auditing
    /\ EditsWaitForRestart /\ OnlyBearersPass

LEMMA DefaultType == IsSettings(Default)
<1>1. DOMAIN Default = Fields
  BY DEF Default, Fields
<1>2. /\ Default["transport"] \in Values("transport")
      /\ Default["allow_pipe"] \in Values("allow_pipe")
      /\ Default["pipe_in_chars"] \in Values("pipe_in_chars")
      /\ Default["http_auth_enabled"] \in Values("http_auth_enabled")
  BY DEF Default, Values
<1> QED BY <1>1, <1>2 DEF IsSettings, IsSource, Fields

LEMMA SettingsType ==
    ASSUME NEW e \in Environments, NEW file \in SettingsFiles
    PROVE  IsSettings(Resolved(e.fields, file.fields))
<1> DEFINE s == Resolved(e.fields, file.fields)
<1>1. DOMAIN s = Fields
  BY DEF Resolved
<1>2. ASSUME NEW f \in Fields PROVE s[f] \in Values(f)
  <2>1. CASE f \in DOMAIN e.fields
    BY <2>1, EnvironmentsAssumption DEF Resolved, IsSource
  <2>2. CASE f \notin DOMAIN e.fields /\ f \in DOMAIN file.fields
    BY <2>2, SettingsFilesAssumption DEF Resolved, IsSource
  <2>3. CASE f \notin DOMAIN e.fields /\ f \notin DOMAIN file.fields
    BY <2>3, DefaultType DEF Resolved, IsSettings, IsSource
  <2> QED BY <2>1, <2>2, <2>3
<1> QED BY <1>1, <1>2 DEF IsSettings, IsSource

LEMMA ServerInit == Init => ServerInv
<1> SUFFICES ASSUME Init PROVE ServerInv
  OBVIOUS
<1>1. AuditTypeOK
  <2>1. 0 \in 0..Len(Handlers)
    BY HandlersType
  <2> QED BY <2>1 DEF Init, AuditInit, AuditTypeOK
<1>2. env \in Environments
  BY EnvironmentsAssumption DEF Init
<1>3. /\ 0 \in 0..MaxStarts /\ 0 \in 0..MaxEdits
      /\ <<>> \in Seq(Contents)
  BY BoundsAssumption
<1>4. used \in [Ids -> Seq(Contents)]
  BY <1>3 DEF Init
<1>5. Typed
  <2>1. \A i \in Ids : Len(used[i]) <= 2 /\ \A n \in 1..Len(used[i]) : used[i][n] \in Contents
    <3> TAKE i \in Ids
    <3>1. used[i] = <<>>
      BY DEF Init
    <3>2. Len(used[i]) = 0
      BY <3>1
    <3> QED BY <3>2
  <2>2. /\ ipc \in [Ids -> CallPoints] /\ tool \in [Ids -> Tools]
        /\ headers \in [Ids -> Requests \cup {<<>>}]
        /\ got \in [Ids -> {"none"} \cup Contents]
        /\ servedBy \in [Ids -> 0..MaxStarts] /\ warm \in [Ids -> BOOLEAN]
    BY <1>3 DEF Init, CallPoints, Tools
  <2> QED BY <1>1, <1>2, <1>3, <1>4, <2>1, <2>2, DefaultType DEF Init, Typed, TypeOK, Phases
<1>6. Placed
  BY DEF Init, Placed, InProgress, Starting
<1>7. Startup /\ Configured /\ Caching /\ EditsWaitForRestart /\ OnlyBearersPass
  BY DEF Init, Startup, Configured, Caching, EditsWaitForRestart, OnlyBearersPass, Mine
<1>8. Auditing
  BY DEF Init, AuditInit, Auditing, Sinks
<1> QED BY <1>5, <1>6, <1>7, <1>8 DEF ServerInv

-----------------------------------------------------------------------------
(* The operator, and the end of the process. *)

\* A step that leaves the requests and the process alone lets no one in.
LEMMA BearersStay ==
    ASSUME OnlyBearersPass, UNCHANGED process, UNCHANGED calls
    PROVE  OnlyBearersPass'
<1>1. UNCHANGED <<phase, starts, env, settings, ipc, servedBy, headers>>
  BY DEF process, calls
<1>2. NeedsToken' = NeedsToken /\ \A i \in Ids : Mine(i)' = Mine(i)
  BY <1>1 DEF NeedsToken, IsHttp, Mine
<1> QED BY <1>1, <1>2 DEF OnlyBearersPass

LEMMA EditStep ==
    ASSUME ServerInv,
           \/ \E content \in Contents : EditCommands(content)
           \/ \E file \in SettingsFiles : EditSettings(file)
    PROVE  ServerInv'
<1> USE DEF ServerInv, auditVars, process, calls
<1>1. CASE \E content \in Contents : EditCommands(content)
  <2> PICK content \in Contents : EditCommands(content)
    BY <1>1
  <2>1. Typed'
    BY BoundsAssumption DEF EditCommands, Typed, TypeOK, AuditTypeOK
  <2>2. Placed' /\ Startup' /\ Configured' /\ Auditing'
    BY DEF EditCommands, Placed, InProgress, Startup, NeedsToken, Configured, Auditing,
           Recorded, InLog
  <2>3. EditsWaitForRestart' /\ OnlyBearersPass'
    <3>1. EditsWaitForRestart'
      BY DEF EditCommands, EditsWaitForRestart, Mine, UsedBy
    <3>2. OnlyBearersPass'
      BY BearersStay DEF EditCommands
    <3> QED BY <3>1, <3>2
  <2>4. Caching'
    <3>1. ~edited' => ~edited \/ phase # "serving" \/ startupError
      BY DEF EditCommands, Startup
    <3>2. \A i \in Ids : used[i] = <<>> => UsedBy(i) = {}
      BY DEF UsedBy
    <3>3. /\ UNCHANGED <<phase, cache, startupError, validated>>
          /\ \A i \in Ids : /\ Mine(i)' = Mine(i) /\ UsedBy(i)' = UsedBy(i)
                            /\ UNCHANGED <<ipc[i], used[i], warm[i], got[i]>>
      BY DEF EditCommands, Mine, UsedBy
    <3>4. ASSUME NEW i \in Ids, Mine(i), startupError
          PROVE  ipc[i] # "loaded" /\ UsedBy(i) = {}
      BY <3>2, <3>4 DEF Caching
    <3>5. phase # "serving" => \A i \in Ids : ~Mine(i)
      BY DEF Mine
    <3> QED BY <3>1, <3>3, <3>4, <3>5 DEF Caching
  <2> QED BY <2>1, <2>2, <2>3, <2>4
<1>2. CASE \E file \in SettingsFiles : EditSettings(file)
  <2> PICK file \in SettingsFiles : EditSettings(file)
    BY <1>2
  <2>1. Typed'
    BY BoundsAssumption DEF EditSettings, Typed, TypeOK, AuditTypeOK
  <2>2. Placed' /\ Startup' /\ Configured' /\ Auditing'
    BY DEF EditSettings, Placed, InProgress, Startup, NeedsToken, Configured, Auditing,
           Recorded, InLog
  <2>3. Caching'
    BY DEF EditSettings, Caching, Mine, UsedBy
  <2>4. EditsWaitForRestart' /\ OnlyBearersPass'
    BY DEF EditSettings, EditsWaitForRestart, OnlyBearersPass, NeedsToken, IsHttp, Mine,
           UsedBy
  <2> QED BY <2>1, <2>2, <2>3, <2>4
<1> QED BY <1>1, <1>2

LEMMA StartStep ==
    ASSUME ServerInv, NEW e \in Environments, StartServer(e)
    PROVE  ServerInv'
<1> USE DEF ServerInv, auditVars, files, calls, history
<1>1. Typed'
  BY BoundsAssumption DEF StartServer, Typed, TypeOK, AuditTypeOK, Phases, Starting
<1>2. Placed'
  BY DEF StartServer, Placed, InProgress, Starting, Typed, TypeOK
<1>3. Startup' /\ Configured' /\ Auditing'
  BY DEF StartServer, Startup, NeedsToken, Configured, Auditing, Recorded, InLog
<1>4. Caching' /\ EditsWaitForRestart' /\ OnlyBearersPass'
  BY DEF StartServer, Caching, EditsWaitForRestart, OnlyBearersPass, Mine
<1> QED BY <1>1, <1>2, <1>3, <1>4

LEMMA StopStep ==
    ASSUME ServerInv, Stop
    PROVE  ServerInv'
<1> USE DEF ServerInv, files
<1>1. 0 \in 0..Len(Handlers)
  BY HandlersType
<1>2. Typed'
  BY <1>1, DefaultType
  DEF Stop, ProcessEnds, EmitsCrash, Typed, TypeOK, AuditTypeOK, Phases, CallPoints, Ended
<1>3. Placed'
  BY DEF Stop, ProcessEnds, Placed, InProgress, Starting, Ended, Typed, TypeOK, CallPoints
<1>4. Startup' /\ Configured'
  BY DEF Stop, ProcessEnds, Startup, Configured
<1>5. Caching' /\ EditsWaitForRestart' /\ OnlyBearersPass'
  BY DEF Stop, ProcessEnds, Caching, EditsWaitForRestart, OnlyBearersPass, Mine
<1>6. Auditing'
  BY DEF Stop, EmitsCrash, Auditing, InProgress, Ended, Typed, TypeOK, CallPoints, Recorded,
         InLog
<1> QED BY <1>2, <1>3, <1>4, <1>5, <1>6


-----------------------------------------------------------------------------
(* Startup. *)

\* What an exception in the startup leaves behind.
LEMMA MainRaisesStep ==
    ASSUME ServerInv, phase \in Starting, MainRaises
    PROVE  ServerInv'
<1> USE DEF ServerInv, auditVars, files, calls
<1>1. Typed'
  BY DefaultType DEF MainRaises, ProcessEnds, Typed, TypeOK, AuditTypeOK, Phases
<1>2. Placed'
  BY DEF MainRaises, ProcessEnds, Placed, InProgress, Starting
<1>3. Startup' /\ Configured' /\ Auditing'
  BY DEF MainRaises, ProcessEnds, Startup, Configured, Auditing, Recorded, InLog
<1>4. Caching' /\ EditsWaitForRestart' /\ OnlyBearersPass'
  BY DEF MainRaises, ProcessEnds, Caching, EditsWaitForRestart, OnlyBearersPass, Mine
<1> QED BY <1>1, <1>2, <1>3, <1>4

\* A step of the startup that goes on touches neither files nor calls, and no
\* call is in progress before it or served after it.
LEMMA GotoPhaseStep ==
    ASSUME ServerInv, phase \in Starting, NEW p \in Starting \cup {"serving"}, GotoPhase(p),
           IsSettings(settings'), startupError' \in BOOLEAN,
           validated' \in {"none"} \cup Versions, edited' \in BOOLEAN,
           reconfigured' \in BOOLEAN
    PROVE  /\ Typed' /\ Placed' /\ Caching' /\ Auditing'
           /\ EditsWaitForRestart' /\ OnlyBearersPass'
<1> USE DEF ServerInv, auditVars, files, calls
<1>1. Typed'
  BY DEF GotoPhase, Typed, TypeOK, AuditTypeOK, Phases
<1>2. Placed'
  BY DEF GotoPhase, Placed, InProgress, Starting, Ended
<1>3. Auditing'
  BY DEF GotoPhase, Auditing, Recorded, InLog
<1>4. \A i \in Ids : ~Mine(i)'
  BY DEF GotoPhase, Placed, Mine, Typed, TypeOK
<1>5. cache' = "none"
  BY DEF GotoPhase, Caching, Starting
<1>6. Caching' /\ EditsWaitForRestart' /\ OnlyBearersPass'
  BY <1>4, <1>5 DEF Caching, EditsWaitForRestart, OnlyBearersPass
<1> QED BY <1>1, <1>2, <1>3, <1>6

LEMMA CheckFailsStep ==
    ASSUME ServerInv, phase \in {"check_config", "check_file", "check_lists"}, CheckFails
    PROVE  ServerInv'
<1>1. phase \in Starting /\ "configure_audit" \in Starting
  BY DEF Starting
<1>2. CASE IsHttp(settings)
  BY <1>1, <1>2, MainRaisesStep DEF CheckFails
<1>3. CASE ~IsHttp(settings)
  <2>1. /\ GotoPhase("configure_audit") /\ startupError' = TRUE
        /\ UNCHANGED <<settings, history>>
    BY <1>3 DEF CheckFails
  <2>2. /\ Typed' /\ Placed' /\ Caching' /\ Auditing'
        /\ EditsWaitForRestart' /\ OnlyBearersPass'
    BY <1>1, <2>1, GotoPhaseStep DEF history, ServerInv, Typed, TypeOK
  <2>3. Startup' /\ Configured'
    BY <1>3, <2>1 DEF ServerInv, Startup, Configured, GotoPhase, NeedsToken, IsHttp, files,
                      history
  <2> QED BY <2>2, <2>3 DEF ServerInv
<1> QED BY <1>2, <1>3

LEMMA StartupStepKeeps ==
    ASSUME ServerInv, StartupStep
    PROVE  ServerInv'
<1>1. CASE ImportSettings
  <2> DEFINE s == Resolved(env.fields, settingsFile.fields)
  <2>1. phase = "importing" /\ phase \in Starting /\ "check_config" \in Starting
    BY <1>1 DEF ImportSettings, Starting
  <2>2. CASE MainRaises
    BY <2>1, <2>2, MainRaisesStep
  <2>3. CASE ~MainRaises
    <3>1. /\ PipeConsistent(s) /\ GotoPhase("check_config") /\ settings' = s
          /\ reconfigured' = FALSE /\ UNCHANGED <<startupError, validated, edited>>
      BY <1>1, <2>3 DEF ImportSettings
    <3>2. IsSettings(s)
      BY SettingsType DEF ServerInv, Typed, TypeOK
    <3>3. /\ Typed' /\ Placed' /\ Caching' /\ Auditing'
          /\ EditsWaitForRestart' /\ OnlyBearersPass'
      BY <2>1, <3>1, <3>2, GotoPhaseStep DEF ServerInv, Typed, TypeOK
    <3>4. Startup' /\ Configured'
      BY <2>1, <3>1 DEF ServerInv, Startup, Configured, GotoPhase, files
    <3> QED BY <3>3, <3>4 DEF ServerInv
  <2> QED BY <2>2, <2>3
<1>2. ASSUME NEW p \in Starting \cup {"serving"}, phase \in Starting, CheckPasses(p)
      PROVE  /\ Typed' /\ Placed' /\ Caching' /\ Auditing'
             /\ EditsWaitForRestart' /\ OnlyBearersPass'
  BY <1>2, GotoPhaseStep DEF CheckPasses, history, ServerInv, Typed, TypeOK
<1>3. CASE CheckConfig
  <2>1. phase = "check_config" /\ phase \in Starting /\ "check_file" \in Starting
    BY <1>3 DEF CheckConfig, Starting
  <2>2. CASE CheckFails
    BY <2>1, <2>2, CheckFailsStep
  <2>3. CASE CheckPasses("check_file") /\ ~(env.config /\ settingsFile.kind = "missing")
    <3>1. Startup' /\ Configured'
      BY <2>1, <2>3 DEF ServerInv, Startup, Configured, CheckPasses, GotoPhase, files, history
    <3> QED BY <1>2, <2>1, <2>3, <3>1 DEF ServerInv
  <2> QED BY <1>3, <2>2, <2>3 DEF CheckConfig
<1>4. CASE CheckCommandFile
  <2>1. phase = "check_file" /\ phase \in Starting /\ "check_lists" \in Starting
    BY <1>4 DEF CheckCommandFile, Starting
  <2>2. CASE CheckFails
    BY <2>1, <2>2, CheckFailsStep
  <2>3. CASE CheckPasses("check_lists")
    <3>1. Startup' /\ Configured'
      BY <2>1, <2>3 DEF ServerInv, Startup, Configured, CheckPasses, GotoPhase, files, history
    <3> QED BY <1>2, <2>1, <2>3, <3>1 DEF ServerInv
  <2> QED BY <1>4, <2>2, <2>3 DEF CheckCommandFile
<1>5. CASE CheckLists
  <2>1. phase = "check_lists" /\ phase \in Starting /\ "check_token" \in Starting
    BY <1>5 DEF CheckLists, Starting
  <2>2. CASE MainRaises
    BY <2>1, <2>2, MainRaisesStep
  <2>3. CASE CheckFails
    BY <2>1, <2>3, CheckFailsStep
  <2>4. CASE ~MainRaises /\ ~CheckFails
    <3>1. /\ commandFile \in Versions /\ ValidLists(commandFile)
          /\ GotoPhase("check_token") /\ validated' = commandFile /\ edited' = FALSE
          /\ UNCHANGED <<settings, startupError, reconfigured>>
      BY <1>5, <2>4 DEF CheckLists
    <3>2. /\ Typed' /\ Placed' /\ Caching' /\ Auditing'
          /\ EditsWaitForRestart' /\ OnlyBearersPass'
      BY <2>1, <3>1, GotoPhaseStep DEF ServerInv, Typed, TypeOK
    <3>3. commandFile # "none" /\ ValidLists(commandFile')
      BY <3>1, VersionsAssumption DEF GotoPhase, files
    <3>4. Startup' /\ Configured'
      BY <2>1, <3>1, <3>3 DEF ServerInv, Startup, Configured, GotoPhase, files
    <3> QED BY <3>2, <3>4 DEF ServerInv
  <2> QED BY <2>2, <2>3, <2>4
<1>6. CASE CheckToken
  <2>1. phase = "check_token" /\ phase \in Starting /\ "configure_audit" \in Starting
    BY <1>6 DEF CheckToken, Starting
  <2>2. CASE MainRaises
    BY <2>1, <2>2, MainRaisesStep
  <2>3. CASE CheckPasses("configure_audit") /\ ~(NeedsToken /\ env.token = "")
    <3>1. Startup' /\ Configured'
      BY <2>1, <2>3 DEF ServerInv, Startup, Configured, CheckPasses, GotoPhase, files, history,
                        NeedsToken, IsHttp
    <3> QED BY <1>2, <2>1, <2>3, <3>1 DEF ServerInv
  <2> QED BY <1>6, <2>2, <2>3 DEF CheckToken
<1>7. CASE ConfigureAudit
  <2>1. phase = "configure_audit" /\ phase \in Starting
    BY <1>7 DEF ConfigureAudit, Starting
  <2>2. CASE MainRaises
    BY <2>1, <2>2, MainRaisesStep
  <2>3. CASE CheckPasses("serving")
    <3>1. Startup' /\ Configured'
      BY <2>1, <2>3 DEF ServerInv, Startup, Configured, CheckPasses, GotoPhase, files, history,
                        NeedsToken, IsHttp
    <3> QED BY <1>2, <2>1, <2>3, <3>1 DEF ServerInv
  <2> QED BY <1>7, <2>2, <2>3 DEF ConfigureAudit
<1> QED BY <1>1, <1>3, <1>4, <1>5, <1>6, <1>7 DEF StartupStep


-----------------------------------------------------------------------------
(* Tool calls. *)

LEMMA CallBegins ==
    ASSUME ServerInv, NEW i \in Ids, NEW t \in Tools, NEW h \in Requests \cup {<<>>},
           Call(i, t, h)
    PROVE  ServerInv'
<1> USE DEF ServerInv, auditVars, files, process, history
<1>1. ipc' \in [Ids -> CallPoints] /\ tool' \in [Ids -> Tools]
      /\ headers' \in [Ids -> Requests \cup {<<>>}] /\ servedBy' \in [Ids -> 0..MaxStarts]
  BY DEF Call, Goto, Typed, TypeOK, CallPoints
<1>2. Typed'
  BY <1>1 DEF Call, Typed, TypeOK, AuditTypeOK
<1>3. /\ phase = "serving" /\ ipc[i] = "idle" /\ ipc'[i] \in {"auth", "gate"}
      /\ servedBy'[i] = starts /\ used[i] = <<>> /\ ~warm[i]
      /\ ipc'[i] = "auth" <=> NeedsToken
      /\ \A j \in Ids : j # i => /\ ipc'[j] = ipc[j] /\ servedBy'[j] = servedBy[j]
                                 /\ headers'[j] = headers[j]
  BY DEF Call, Goto, Typed, TypeOK, Placed
<1>4. UNCHANGED <<auditVars, files, process, got, used, warm, history>>
  BY DEF Call
<1>5. Placed'
  <2>1. starts <= starts
    BY DEF Typed, TypeOK
  <2>2. \A j \in Ids : servedBy'[j] <= starts'
    BY <1>3, <1>4, <2>1 DEF Placed
  <2>3. \A j \in Ids : InProgress(j)' => phase' = "serving" /\ servedBy'[j] = starts'
    BY <1>3, <1>4 DEF Placed, InProgress
  <2> QED BY <1>3, <1>4, <2>2, <2>3 DEF Placed, Starting
<1>6. Startup' /\ Configured'
  BY <1>4 DEF Startup, Configured, NeedsToken, IsHttp
<1>7. Auditing'
  BY <1>3, <1>4 DEF Auditing, Recorded, InLog
<1>8. /\ UsedBy(i)' = {} /\ Len(used'[i]) = 0
      /\ \A j \in Ids : UsedBy(j)' = UsedBy(j)
      /\ \A j \in Ids : j # i => Mine(j)' = Mine(j)
      /\ NeedsToken' = NeedsToken
  BY <1>3, <1>4 DEF UsedBy, Mine, NeedsToken, IsHttp
<1>9. Caching'
  <2>1. startupError => ~NeedsToken
    BY DEF Startup, NeedsToken
  <2> QED BY <1>3, <1>4, <1>8, <2>1 DEF Caching
<1>10. EditsWaitForRestart'
  BY <1>3, <1>4, <1>8 DEF EditsWaitForRestart
<1>11. OnlyBearersPass'
  BY <1>3, <1>4, <1>8 DEF OnlyBearersPass
<1> QED BY <1>2, <1>5, <1>6, <1>7, <1>9, <1>10, <1>11


\* A call that takes a step is in progress, and touches no other call, no file
\* and of the process nothing but the cache.
LEMMA CallFrame ==
    ASSUME ServerInv, NEW i \in Ids, CallStep(i)
    PROVE  /\ ipc[i] \in {"auth", "gate", "emit", "body", "load", "read", "loaded"}
           /\ phase = "serving" /\ servedBy[i] = starts /\ Mine(i)
           /\ UNCHANGED <<files, starts, phase, env, settings, startupError, tool, headers,
                          servedBy, history>>
           /\ \A j \in Ids : j # i => /\ ipc'[j] = ipc[j] /\ used'[j] = used[j]
                                      /\ got'[j] = got[j] /\ warm'[j] = warm[j]
                                      /\ Mine(j)' = Mine(j) /\ UsedBy(j)' = UsedBy(j)
           /\ NeedsToken' = NeedsToken
<1>1. ipc[i] \in {"auth", "gate", "emit", "body", "load", "read", "loaded"}
  BY DEF CallStep, Authenticate, Enter, WriteInvocation, InvocationFails, InvocationLogged,
         Answer, CacheHit, CacheMiss, ReadCommands, LoadReturns
<1>2. InProgress(i)
  BY <1>1 DEF InProgress, Ended
<1>3. phase = "serving" /\ servedBy[i] = starts /\ Mine(i)
  BY <1>1, <1>2 DEF ServerInv, Placed, Mine
<1>4. UNCHANGED <<files, starts, phase, env, settings, startupError, tool, headers,
                  servedBy, history>>
  BY DEF CallStep, Authenticate, Enter, WriteInvocation, InvocationFails, InvocationLogged,
         Answer, CacheHit, CacheMiss, ReadCommands, LoadReturns, files, process, calls, history
<1>5. \A j \in Ids : j # i => /\ ipc'[j] = ipc[j] /\ used'[j] = used[j]
                             /\ got'[j] = got[j] /\ warm'[j] = warm[j]
  BY DEF CallStep, Authenticate, Enter, WriteInvocation, InvocationFails, InvocationLogged,
         Answer, CacheHit, CacheMiss, ReadCommands, LoadReturns, DecideBy, Goto, calls,
         ServerInv, Typed, TypeOK
<1>6. \A j \in Ids : j # i => Mine(j)' = Mine(j) /\ UsedBy(j)' = UsedBy(j)
  BY <1>4, <1>5 DEF Mine, UsedBy
<1>7. NeedsToken' = NeedsToken
  BY <1>4 DEF NeedsToken, IsHttp
<1> QED BY <1>1, <1>3, <1>4, <1>5, <1>6, <1>7

\* The steps of an emit of this module, and the others, on the audit log.
LEMMA CallEmits ==
    ASSUME ServerInv, NEW i \in Ids, CallStep(i)
    PROVE  \/ UNCHANGED auditVars /\ ipc[i] # "emit"
           \/ /\ ipc[i] = "emit"
              /\ \/ HandlerWrites(i, INVOKED) /\ ipc'[i] = "emit"
                 \/ HandlerRaises(i, INVOKED) /\ ipc'[i] = "raised"
                 \/ EmitReturns(i) /\ ipc'[i] = "body"
BY DEF CallStep, Authenticate, Enter, WriteInvocation, InvocationFails, InvocationLogged,
       Answer, CacheHit, CacheMiss, ReadCommands, LoadReturns, Goto, calls, auditVars,
       ServerInv, Typed, TypeOK

\* The points of a call before and after its step, and what it holds there.
LEMMA CallMoves ==
    ASSUME ServerInv, NEW i \in Ids, CallStep(i)
    PROVE  \/ /\ UNCHANGED <<used, got, warm, cache>>
              /\ \/ ipc[i] = "auth" /\ ipc'[i] \in {"gate", "unauthorized"}
                 \/ ipc[i] = "emit" /\ ipc'[i] \in {"emit", "body", "raised"}
                 \/ ipc[i] = "body" /\ ipc'[i] \in {"answered", "raised"}
           \/ /\ UNCHANGED <<used, got, cache>>
              /\ ipc[i] = "gate" /\ ipc'[i] \in {"refused", "emit", "load"}
              /\ startupError => ipc'[i] = "refused"
              /\ warm' = [warm EXCEPT ![i] = cache # "none"]
           \/ /\ UNCHANGED <<got, warm, cache>>
              /\ ipc[i] = "load" /\ ipc'[i] \in {"raised", "decided", "load"}
              /\ ipc'[i] = "load" => used[i] = <<>>
              /\ cache # "none" /\ used' = [used EXCEPT ![i] = Append(@, cache)]
           \/ /\ UNCHANGED <<used, got, warm, cache>>
              /\ ipc[i] = "load" /\ ipc'[i] = "read" /\ cache = "none"
           \/ /\ UNCHANGED <<used, warm, cache>>
              /\ ipc[i] = "read" /\ got' = [got EXCEPT ![i] = commandFile]
              /\ \/ ipc'[i] = "raised"
                 \/ ipc'[i] = "loaded" /\ commandFile # "malformed"
           \/ /\ UNCHANGED warm
              /\ ipc[i] = "loaded" /\ ipc'[i] \in {"raised", "decided", "load"}
              /\ cache' = Stored(cache, got[i]) /\ got' = [got EXCEPT ![i] = "none"]
              /\ used' = [used EXCEPT ![i] = Append(@, got[i])]
<1> USE DEF ServerInv, Typed, TypeOK, process, Goto
<1>1. CASE Authenticate(i) \/ Enter(i) \/ Answer(i)
  BY <1>1 DEF Authenticate, Enter, Answer
<1>2. CASE WriteInvocation(i) \/ InvocationFails(i) \/ InvocationLogged(i)
  BY <1>2 DEF WriteInvocation, InvocationFails, InvocationLogged, calls
<1>3. CASE CacheHit(i)
  BY <1>3 DEF CacheHit, DecideBy
<1>4. CASE CacheMiss(i) \/ ReadCommands(i)
  BY <1>4 DEF CacheMiss, ReadCommands
<1>5. CASE LoadReturns(i)
  BY <1>5 DEF LoadReturns, DecideBy
<1> QED BY <1>1, <1>2, <1>3, <1>4, <1>5 DEF CallStep


LEMMA CallTyped ==
    ASSUME ServerInv, NEW i \in Ids, CallStep(i)
    PROVE  Typed'
<1> USE DEF ServerInv, Typed
<1>1. AuditTypeOK'
  <2>1. INVOKED \in Records
    BY DEF Records
  <2> QED BY <2>1, CallEmits, EmitStep DEF TypeOK, AuditTypeOK, auditVars
<1>2. ipc' \in [Ids -> CallPoints]
  <2>1. ipc'[i] \in CallPoints
    BY CallMoves DEF CallPoints, Ended
  <2>2. \E point : ipc' = [ipc EXCEPT ![i] = point]
    BY DEF CallStep, Authenticate, Enter, WriteInvocation, InvocationFails, InvocationLogged,
           Answer, CacheHit, CacheMiss, ReadCommands, LoadReturns, DecideBy, Goto, calls, TypeOK
  <2> QED BY <2>1, <2>2 DEF TypeOK
<1>3. warm' \in [Ids -> BOOLEAN]
  BY CallMoves DEF TypeOK
<1>4. cache \in Loadable \cup {"none"} /\ got' \in [Ids -> {"none"} \cup Contents]
  BY CallMoves DEF TypeOK, Loadable, Contents
<1>5. ipc[i] = "loaded" => got[i] \in Loadable
  BY DEF Placed
<1>6. cache' \in Loadable \cup {"none"}
  BY <1>4, <1>5, CallMoves DEF Stored
<1>7. /\ used' \in [Ids -> Seq(Contents)]
      /\ \A j \in Ids : Len(used'[j]) <= 2 /\ \A n \in 1..Len(used'[j]) : used'[j][n] \in Contents
  <2>1. CASE UNCHANGED used
    BY <2>1 DEF TypeOK
  <2>2. ASSUME NEW content \in Contents, Len(used[i]) <= 1,
               used' = [used EXCEPT ![i] = Append(@, content)]
        PROVE  <1>7!1 /\ <1>7!2
    <3>1. used[i] \in Seq(Contents)
      OBVIOUS
    <3>2. Append(used[i], content) \in Seq(Contents) /\ Len(Append(used[i], content)) <= 2
      BY <2>2, <3>1
    <3>3. used' \in [Ids -> Seq(Contents)]
      BY <2>2, <3>2
    <3>4. \A j \in Ids : Len(used'[j]) <= 2
      BY <2>2, <3>2 DEF TypeOK
    <3> QED BY <3>3, <3>4
  <2>3. ipc[i] \in {"load", "loaded"} => Len(used[i]) <= 1
    BY DEF Placed
  <2>4. Loadable \subseteq Contents
    BY DEF Loadable, Contents
  <2> QED BY <1>4, <1>5, <2>1, <2>2, <2>3, <2>4, CallMoves
<1> QED BY <1>1, <1>2, <1>3, <1>4, <1>6, <1>7, CallFrame DEF TypeOK, Loadable, files, history

LEMMA CallPlaced ==
    ASSUME ServerInv, NEW i \in Ids, CallStep(i)
    PROVE  Placed'
<1> USE DEF ServerInv
<1>1. \A j \in Ids : servedBy'[j] <= starts'
  BY CallFrame DEF Placed
<1>2. \A j \in Ids : InProgress(j)' => phase' = "serving" /\ servedBy'[j] = starts'
  BY CallFrame DEF Placed, InProgress
<1>3. phase' \notin Starting
  BY CallFrame DEF Starting
<1>4. /\ ipc'[i] \in {"idle", "auth", "gate", "emit", "body", "read", "loaded"} => used'[i] = <<>>
      /\ ipc'[i] = "loaded" => got'[i] \in Loadable
      /\ ipc'[i] \in {"idle", "auth", "gate"} => ~warm'[i]
  <2>1. /\ commandFile \in Contents /\ DOMAIN got = Ids /\ DOMAIN warm = Ids
        /\ commandFile # "malformed" => commandFile \in Loadable
    BY DEF Typed, TypeOK, Contents, Loadable
  <2>2. /\ ipc[i] \in {"auth", "gate", "emit", "body", "read", "loaded"} => used[i] = <<>>
        /\ ipc[i] \in {"auth", "gate"} => ~warm[i]
    BY DEF Placed
  <2>3. ipc'[i] = "read" => used'[i] = <<>>
    <3>1. ipc'[i] = "read" => ipc[i] = "load" /\ cache = "none" /\ UNCHANGED used
      BY CallMoves
    <3>2. used[i] # <<>> => cache # "none"
      BY CallFrame DEF Caching
    <3> QED BY <3>1, <3>2
  <2>4. ipc'[i] = "loaded" => used'[i] = <<>> /\ got'[i] \in Loadable
    BY <2>1, <2>2, CallMoves
  <2>5. ipc'[i] \in {"auth", "gate"} => used'[i] = <<>> /\ ~warm'[i]
    BY <2>2, CallMoves
  <2>6. ipc'[i] \in {"emit", "body"} => used'[i] = <<>>
    BY <2>2, CallMoves
  <2>7. ipc'[i] # "idle"
    BY CallMoves
  <2> QED BY <2>3, <2>4, <2>5, <2>6, <2>7
<1>5. ipc'[i] = "load" => Len(used'[i]) <= 1
  <2>1. used[i] = <<>> => \A content : Len(Append(used[i], content)) = 1
    OBVIOUS
  <2>2. ipc[i] = "gate" => Len(used[i]) = 0
    BY DEF Placed
  <2>3. ipc[i] = "loaded" => used[i] = <<>>
    BY DEF Placed
  <2> QED BY <2>1, <2>2, <2>3, CallMoves DEF Typed
<1> QED BY <1>1, <1>2, <1>3, <1>4, <1>5, CallFrame DEF Placed


\* The contents a call was decided by, when one more decision is made.
LEMMA UsedGrows ==
    ASSUME Typed, NEW i \in Ids, NEW content \in Contents,
           used' = [used EXCEPT ![i] = Append(@, content)]
    PROVE  UsedBy(i)' = UsedBy(i) \cup {content}
<1>1. used[i] \in Seq(Contents) /\ used'[i] = Append(used[i], content)
  BY DEF Typed
<1>2. /\ Len(used'[i]) = Len(used[i]) + 1 /\ Len(used[i]) \in Nat
      /\ \A n \in 1..Len(used[i]) : used'[i][n] = used[i][n]
      /\ used'[i][Len(used[i]) + 1] = content
  BY <1>1
<1>3. ASSUME NEW c PROVE c \in UsedBy(i)' <=> c \in UsedBy(i) \cup {content}
  <2>1. ASSUME c \in UsedBy(i)' PROVE c \in UsedBy(i) \cup {content}
    <3>1. PICK n \in 1..Len(used'[i]) : c = used'[i][n]
      BY <2>1 DEF UsedBy
    <3>2. n \in 1..Len(used[i]) \/ n = Len(used[i]) + 1
      BY <1>2
    <3> QED BY <1>2, <3>1, <3>2 DEF UsedBy
  <2>2. ASSUME c \in UsedBy(i) PROVE c \in UsedBy(i)'
    <3>1. PICK n \in 1..Len(used[i]) : c = used[i][n]
      BY <2>2 DEF UsedBy
    <3>2. n \in 1..Len(used'[i])
      BY <1>2
    <3> QED BY <1>2, <3>1, <3>2 DEF UsedBy
  <2>3. content \in UsedBy(i)'
    <3>1. Len(used[i]) + 1 \in 1..Len(used'[i])
      BY <1>2
    <3> QED BY <1>2, <3>1 DEF UsedBy
  <2> QED BY <2>1, <2>2, <2>3
<1> QED BY <1>3

\* What the decisions of a step are made by, and the cache after it.
LEMMA CallLoads ==
    ASSUME ServerInv, NEW i \in Ids, CallStep(i)
    PROVE  /\ cache # "none" => cache' = cache
           /\ cache' # cache => ipc[i] = "loaded" /\ cache' = got[i]
           /\ \/ UNCHANGED used
              \/ /\ ipc[i] = "load" /\ cache # "none"
                 /\ used' = [used EXCEPT ![i] = Append(@, cache)]
                 /\ UsedBy(i)' = UsedBy(i) \cup {cache}
              \/ /\ ipc[i] = "loaded" /\ used[i] = <<>> /\ cache' # "none"
                 /\ used' = [used EXCEPT ![i] = Append(@, got[i])]
                 /\ UsedBy(i)' = UsedBy(i) \cup {got[i]}
<1> USE DEF ServerInv
<1>1. /\ cache # "none" => cache' = cache
      /\ cache' # cache => ipc[i] = "loaded" /\ cache' = got[i]
  BY CallMoves DEF Stored
<1>2. cache # "none" => cache \in Contents
  BY DEF Typed, TypeOK, Contents
<1>3. ipc[i] = "loaded" => got[i] \in Contents /\ got[i] # "none" /\ used[i] = <<>>
  BY VersionsAssumption DEF Placed, Loadable, Contents
<1>4. CASE UNCHANGED used
  BY <1>1, <1>4
<1>5. CASE ipc[i] = "load" /\ cache # "none" /\ used' = [used EXCEPT ![i] = Append(@, cache)]
  BY <1>1, <1>2, <1>5, UsedGrows
<1>6. CASE /\ ipc[i] = "loaded" /\ cache' = Stored(cache, got[i])
           /\ used' = [used EXCEPT ![i] = Append(@, got[i])]
  BY <1>1, <1>3, <1>6, UsedGrows DEF Stored
<1> QED BY <1>4, <1>5, <1>6, CallMoves

LEMMA CallCaching ==
    ASSUME ServerInv, NEW i \in Ids, CallStep(i)
    PROVE  Caching'
<1> USE DEF ServerInv
<1>1. ipc[i] # "gate" => ~startupError
  BY CallFrame DEF Caching
<1>2. /\ ipc[i] = "loaded" /\ ~edited => got[i] = validated
      /\ used[i] # <<>> => cache # "none"
      /\ warm[i] => cache # "none" /\ ipc[i] \notin {"read", "loaded"}
      /\ ~edited => UsedBy(i) \subseteq {validated} /\ cache \in {"none", validated}
  BY CallFrame DEF Caching
<1>3. startupError => cache' = "none" /\ ipc'[i] = "refused"
  <2>1. startupError => cache = "none"
    BY DEF Caching
  <2>2. startupError => ipc[i] = "gate"
    BY <1>1
  <2> QED BY <2>1, <2>2, CallMoves, CallLoads
<1>4. ~edited => cache' \in {"none", validated}
  BY <1>2, CallLoads
<1>5. used'[i] # <<>> => cache' # "none"
  BY <1>2, CallLoads
<1>6. warm'[i] => cache' # "none" /\ ipc'[i] \notin {"read", "loaded"}
  <2>1. CASE UNCHANGED warm
    BY <1>2, <2>1, CallMoves, CallLoads
  <2>2. CASE ipc[i] = "gate" /\ warm' = [warm EXCEPT ![i] = cache # "none"]
    <3>1. warm'[i] = (cache # "none")
      BY <2>2 DEF Typed, TypeOK
    <3>2. ipc'[i] \in {"refused", "emit", "load"} /\ cache' = cache
      BY <2>2, CallMoves, CallLoads
    <3> QED BY <3>1, <3>2
  <2> QED BY <2>1, <2>2, CallMoves
<1>7. ipc'[i] = "loaded" /\ ~edited => got'[i] = validated
  <2>1. ipc'[i] = "loaded" => ipc[i] = "read" /\ got' = [got EXCEPT ![i] = commandFile]
    BY CallMoves
  <2>2. ipc[i] = "read" => validated # "none"
    BY <1>1, CallFrame DEF Startup
  <2> QED BY <2>1, <2>2 DEF Startup, Typed, TypeOK
<1>8. ~edited => UsedBy(i)' \subseteq {validated}
  <2>1. CASE UNCHANGED used
    BY <1>2, <2>1 DEF UsedBy
  <2> QED BY <1>2, <2>1, CallLoads
<1>9. \A j \in Ids : j # i /\ Mine(j)' =>
          /\ startupError => ipc'[j] \in {"gate", "refused"}
          /\ used'[j] # <<>> => cache' # "none"
          /\ warm'[j] => cache' # "none" /\ ipc'[j] \notin {"read", "loaded"}
          /\ ipc'[j] = "loaded" /\ ~edited => got'[j] = validated
          /\ ~edited => UsedBy(j)' \subseteq {validated}
  BY CallFrame, CallLoads DEF Caching
<1>10. UNCHANGED <<phase, startupError, validated, edited>> /\ phase = "serving"
  BY CallFrame DEF history
<1> QED BY <1>3, <1>4, <1>5, <1>6, <1>7, <1>8, <1>9, <1>10 DEF Caching

LEMMA CallAfterEdit ==
    ASSUME ServerInv, NEW i \in Ids, CallStep(i)
    PROVE  EditsWaitForRestart'
<1> USE DEF ServerInv
<1>1. /\ used[i] # <<>> => cache # "none"
      /\ warm[i] => cache # "none" /\ ipc[i] \notin {"read", "loaded"}
  BY CallFrame DEF Caching
<1>2. /\ warm[i] => UsedBy(i) \subseteq {cache}
      /\ Len(used[i]) = 2 => used[i][2] = cache
  BY CallFrame DEF EditsWaitForRestart
<1>3. warm'[i] => UsedBy(i)' \subseteq {cache'}
  <2>1. CASE UNCHANGED warm
    <3>1. CASE UNCHANGED used
      BY <1>1, <1>2, <2>1, <3>1, CallLoads DEF UsedBy
    <3> QED BY <1>1, <1>2, <2>1, <3>1, CallLoads
  <2>2. CASE ipc[i] = "gate"
    <3>1. used'[i] = <<>>
      BY <2>2, CallLoads DEF Placed
    <3> QED BY <3>1 DEF UsedBy
  <2> QED BY <2>1, <2>2, CallMoves
<1>4. Len(used'[i]) = 2 => used'[i][2] = cache'
  <2>1. used[i] \in Seq(Contents) /\ DOMAIN used = Ids
    BY DEF Typed
  <2>2. CASE UNCHANGED used
    <3>1. Len(used[i]) = 2 => used[i] # <<>>
      BY <2>1
    <3> QED BY <1>1, <1>2, <2>2, <3>1, CallLoads
  <2>3. CASE cache # "none" /\ used' = [used EXCEPT ![i] = Append(@, cache)]
    <3>1. used'[i] = Append(used[i], cache) /\ cache' = cache
      BY <2>1, <2>3, CallLoads
    <3>2. Len(Append(used[i], cache)) = 2 => Append(used[i], cache)[2] = cache
      BY <2>1
    <3> QED BY <3>1, <3>2
  <2>4. CASE used[i] = <<>> /\ used' = [used EXCEPT ![i] = Append(@, got[i])]
    <3>1. used'[i] = Append(<<>>, got[i])
      BY <2>1, <2>4
    <3>2. Len(Append(<<>>, got[i])) = 1
      OBVIOUS
    <3> QED BY <3>1, <3>2
  <2> QED BY <2>2, <2>3, <2>4, CallLoads
<1>5. \A j \in Ids : j # i /\ Mine(j)' =>
          /\ warm'[j] => UsedBy(j)' \subseteq {cache'}
          /\ Len(used'[j]) = 2 => used'[j][2] = cache'
  <2> TAKE j \in Ids
  <2> HAVE j # i /\ Mine(j)'
  <2>1. /\ Mine(j) /\ UsedBy(j)' = UsedBy(j) /\ used'[j] = used[j] /\ warm'[j] = warm[j]
    BY CallFrame
  <2>2. Len(used[j]) = 2 => used[j] # <<>>
    OBVIOUS
  <2>3. warm[j] \/ used[j] # <<>> => cache' = cache
    BY <2>1, CallLoads DEF Caching
  <2> QED BY <2>1, <2>2, <2>3 DEF EditsWaitForRestart
<1> QED BY <1>3, <1>4, <1>5 DEF EditsWaitForRestart

LEMMA CallBearer ==
    ASSUME ServerInv, NEW i \in Ids, CallStep(i)
    PROVE  OnlyBearersPass'
<1> USE DEF ServerInv
<1> SUFFICES ASSUME NeedsToken, NEW j \in Ids, Mine(j)',
                    ipc'[j] \notin {"auth", "unauthorized", "crashed"}
             PROVE  \E n \in DOMAIN headers[j] : /\ headers[j][n].scheme = "bearer"
                                                 /\ headers[j][n].credentials = env.token
                                                 /\ env.token # ""
  BY CallFrame DEF OnlyBearersPass
<1>1. CASE j # i
  BY <1>1, CallFrame DEF OnlyBearersPass
<1>2. CASE j = i /\ ipc[i] = "auth"
  <2>1. Authenticate(i) /\ ipc'[i] # "unauthorized"
    BY <1>2 DEF CallStep, Authenticate, Enter, WriteInvocation, InvocationFails,
                InvocationLogged, Answer, CacheHit, CacheMiss, ReadCommands, LoadReturns
  <2>2. Authorized(headers[i], env.token)
    BY <2>1 DEF Authenticate, Goto, Typed, TypeOK
  <2>3. env.token # ""
    BY CallFrame DEF Startup
  <2>4. 1 \in DOMAIN headers[i]
    <3>1. headers[i] # <<>>
      BY <2>2 DEF Authorized
    <3>2. headers[i] \in Requests
      BY <3>1 DEF Typed, TypeOK
    <3>3. headers[i] \in Seq([scheme : STRING, credentials : STRING])
      BY <3>2, RequestsAssumption
    <3> HIDE DEF ServerInv
    <3> QED BY <3>1, <3>3
  <2> QED BY <1>2, <2>2, <2>3, <2>4 DEF Authorized
<1>3. CASE j = i /\ ipc[i] # "auth"
  BY <1>3, CallFrame DEF OnlyBearersPass
<1> QED BY <1>1, <1>2, <1>3

LEMMA CallAuditing ==
    ASSUME ServerInv, NEW i \in Ids, CallStep(i)
    PROVE  Auditing'
<1> USE DEF ServerInv
<1>1. AuditTypeOK /\ INVOKED \in Records
  BY DEF Typed, TypeOK, Records
<1>2. ASSUME NEW j \in Ids, j # i
      PROVE  /\ ipc'[j] = ipc[j] /\ emitted'[j] = emitted[j]
             /\ \A s \in Sinks : auditLog'[s][j] = auditLog[s][j]
  BY <1>1, <1>2, CallFrame, CallEmits, EmitStep DEF auditVars
<1>3. ASSUME NEW j \in Ids, j # i
      PROVE  /\ ipc'[j] # "emit" => emitted'[j] = 0
             /\ ipc'[j] \in {"idle", "auth", "gate", "unauthorized", "refused"} =>
                   \A s \in Sinks : auditLog'[s][j] = <<>>
             /\ ipc'[j] = "emit" => \A n \in 1..emitted'[j] : InLog(Handlers[n], j, INVOKED)'
             /\ ipc'[j] \in {"body", "answered"} => Recorded(j, INVOKED)'
  <2>1. \A s \in Sinks : InLog(s, j, INVOKED)' <=> InLog(s, j, INVOKED)
    BY <1>2, <1>3 DEF InLog
  <2>2. \A n \in 1..emitted[j] : Handlers[n] \in Sinks
    BY <1>1, HandlersType DEF AuditTypeOK
  <2> QED BY <1>2, <1>3, <2>1, <2>2, ConfiguredSinksType DEF Auditing, Recorded
<1>4. CASE UNCHANGED auditVars /\ ipc[i] # "emit"
  <2>1. emitted'[i] = 0 /\ 1..0 = {}
    BY <1>4 DEF Auditing, auditVars
  <2>2. ipc'[i] \in {"idle", "auth", "gate", "unauthorized", "refused"} =>
            ipc[i] \in {"auth", "gate"}
    BY <1>4, CallMoves
  <2>3. ipc'[i] \in {"body", "answered"} => ipc[i] = "body"
    BY <1>4, CallMoves
  <2>4. \A j \in Ids : Recorded(j, INVOKED)' <=> Recorded(j, INVOKED)
    BY <1>4 DEF Recorded, InLog, auditVars
  <2> QED BY <1>3, <1>4, <2>1, <2>2, <2>3, <2>4 DEF Auditing, auditVars
<1>5. CASE ipc[i] = "emit" /\ HandlerWrites(i, INVOKED) /\ ipc'[i] = "emit"
  <2>1. /\ NextSink(i) \in Sinks /\ emitted[i] \in Nat /\ emitted'[i] = emitted[i] + 1
        /\ auditLog' = Appended(NextSink(i), i, INVOKED)
    <3>1. emitted[i] < Len(Handlers) /\ emitted' = [emitted EXCEPT ![i] = @ + 1]
          /\ auditLog' = Appended(NextSink(i), i, INVOKED)
      BY <1>5 DEF HandlerWrites
    <3>2. DOMAIN emitted = Ids /\ emitted[i] \in 0..Len(Handlers) /\ Len(Handlers) \in Nat
      BY <1>1, HandlersType DEF AuditTypeOK
    <3>3. NextSink(i) \in Sinks
      BY <1>1, <3>1, NextSinkType
    <3> QED BY <3>1, <3>2, <3>3
  <2>2. ASSUME NEW n \in 1..emitted'[i] PROVE InLog(Handlers[n], i, INVOKED)'
    <3>1. CASE n = emitted[i] + 1
      BY <1>1, <2>1, <3>1, AppendedGrows DEF NextSink
    <3>2. CASE n \in 1..emitted[i]
      <4>1. InLog(Handlers[n], i, INVOKED)
        BY <1>5, <3>2 DEF Auditing
      <4>2. Handlers[n] \in Sinks
        BY <1>1, <3>2, HandlersType DEF AuditTypeOK
      <4> QED BY <1>1, <2>1, <4>1, <4>2, AppendedGrows
    <3> QED BY <2>1, <3>1, <3>2
  <2> QED BY <1>3, <1>5, <2>2 DEF Auditing
<1>6. CASE ipc[i] = "emit" /\ HandlerRaises(i, INVOKED) /\ ipc'[i] = "raised"
  <2>1. emitted'[i] = 0
    BY <1>1, <1>6 DEF HandlerRaises, AuditTypeOK
  <2> QED BY <1>3, <1>6, <2>1 DEF Auditing
<1>7. CASE ipc[i] = "emit" /\ EmitReturns(i) /\ ipc'[i] = "body"
  <2>1. emitted'[i] = 0 /\ emitted[i] = Len(Handlers) /\ UNCHANGED auditLog
    BY <1>1, <1>7 DEF EmitReturns, AuditTypeOK
  <2>2. Recorded(i, INVOKED)'
    BY <1>7, <2>1 DEF Auditing, Recorded, ConfiguredSinks, InLog
  <2> QED BY <1>3, <1>7, <2>1, <2>2 DEF Auditing
<1> QED BY <1>4, <1>5, <1>6, <1>7, CallEmits

-----------------------------------------------------------------------------
(* The invariant, and what follows from it. *)

LEMMA CallStepKeeps ==
    ASSUME ServerInv, NEW i \in Ids, CallStep(i)
    PROVE  ServerInv'
<1>1. Startup' /\ Configured'
  BY CallFrame DEF ServerInv, Startup, Configured, files, history
<1> QED BY <1>1, CallTyped, CallPlaced, CallCaching, CallAuditing, CallAfterEdit, CallBearer
        DEF ServerInv

LEMMA ServerStep == ServerInv /\ [Next]_vars => ServerInv'
<1> SUFFICES ASSUME ServerInv, [Next]_vars PROVE ServerInv'
  OBVIOUS
<1>1. CASE \/ \E content \in Contents : EditCommands(content)
           \/ \E file \in SettingsFiles : EditSettings(file)
  BY <1>1, EditStep
<1>2. CASE \E e \in Environments : StartServer(e)
  BY <1>2, StartStep
<1>3. CASE Stop
  BY <1>3, StopStep
<1>4. CASE StartupStep
  BY <1>4, StartupStepKeeps
<1>5. CASE \E i \in Ids, t \in Tools, h \in IF IsHttp(settings) THEN Requests ELSE {<<>>} :
              Call(i, t, h)
  BY <1>5, CallBegins
<1>6. CASE \E i \in Ids : CallStep(i)
  BY <1>6, CallStepKeeps
<1>7. CASE UNCHANGED vars
  <2> USE <1>7 DEF vars, auditVars, files, process, calls, history, ServerInv
  <2>1. Typed'
    BY DEF Typed, TypeOK, AuditTypeOK
  <2>2. Placed' /\ Startup'
    BY DEF Placed, InProgress, Startup, NeedsToken, IsHttp
  <2>3. Configured' /\ Auditing'
    BY DEF Configured, Auditing, Recorded, InLog
  <2>4. Caching'
    <3>1. /\ UNCHANGED <<phase, cache, startupError, edited, validated>>
          /\ \A i \in Ids : /\ Mine(i)' = Mine(i) /\ UsedBy(i)' = UsedBy(i)
                            /\ UNCHANGED <<ipc[i], used[i], warm[i], got[i]>>
      BY DEF Mine, UsedBy
    <3> QED BY <3>1 DEF Caching
  <2>5. EditsWaitForRestart'
    BY DEF EditsWaitForRestart, Mine, UsedBy
  <2>6. OnlyBearersPass'
    BY BearersStay
  <2> QED BY <2>1, <2>2, <2>3, <2>4, <2>5, <2>6
<1> QED BY <1>1, <1>2, <1>3, <1>4, <1>5, <1>6, <1>7 DEF Next, Quiet

\* ServerInv holds of every reachable state: it is the invariant the theorems
\* below are read off.
THEOREM ServerInvariant == Spec => []ServerInv
BY ServerInit, ServerStep, PTL DEF Spec

\* The types of the state of the server, its calls and its audit log.
THEOREM TypeCorrect == Spec => []TypeOK
<1>1. ServerInv => TypeOK
  BY DEF ServerInv, Typed
<1> QED BY <1>1, ServerInvariant, PTL

\* An edit of commands.yml waits for a restart: a command that begins after a
\* load returned, and every device of a group, is decided by the cached lists,
\* however many calls load at once and however often the file is edited.
THEOREM EditsWaitForRestartCorrect == Spec => []EditsWaitForRestart
<1>1. ServerInv => EditsWaitForRestart
  BY DEF ServerInv
<1> QED BY <1>1, ServerInvariant, PTL

\* Lists that the startup check did not accept decide no command, unless the
\* file was edited after it.
THEOREM UneditedMeansValidatedCorrect == Spec => []UneditedMeansValidated
<1>1. ServerInv => UneditedMeansValidated
  <2> SUFFICES ASSUME ServerInv, ~edited, NEW i \in Ids, Mine(i), NEW content \in UsedBy(i)
               PROVE  content = validated /\ ValidLists(content)
    BY DEF UneditedMeansValidated
  <2>1. content = validated
    BY DEF ServerInv, Caching
  <2>2. used[i] # <<>>
    BY DEF UsedBy
  <2>3. validated # "none"
    BY <2>2 DEF ServerInv, Caching, Startup, Mine
  <2> QED BY <2>1, <2>3 DEF ServerInv, Startup
<1> QED BY <1>1, ServerInvariant, PTL

\* A server with a startup error decides nothing, answers nothing of its own,
\* and serves stdio only.
THEOREM MisconfiguredRunsNothingCorrect == Spec => []MisconfiguredRunsNothing
<1>1. ServerInv => MisconfiguredRunsNothing
  BY DEF ServerInv, MisconfiguredRunsNothing, Startup, Caching
<1> QED BY <1>1, ServerInvariant, PTL

\* No answer of a tool that touches no device goes without its record in every
\* sink, and no request that was not authorised leaves one.
THEOREM QueriesAreAuditedCorrect == Spec => []QueriesAreAudited
<1>1. ServerInv => QueriesAreAudited
  <2> SUFFICES ASSUME ServerInv, NEW i \in Ids
               PROVE  /\ ipc[i] = "answered" => Recorded(i, INVOKED)
                      /\ ipc[i] = "unauthorized" => ~Seen(i, INVOKED)
    BY DEF QueriesAreAudited
  <2>1. ASSUME NEW s \in Sinks, auditLog[s][i] = <<>> PROVE ~InLog(s, i, INVOKED)
    <3>1. Len(auditLog[s][i]) = 0
      BY <2>1
    <3> QED BY <3>1 DEF InLog
  <2> QED BY <2>1 DEF ServerInv, Auditing, Seen
<1> QED BY <1>1, ServerInvariant, PTL

\* The settings in force are those of the environment, the file and the
\* defaults, in this order, and consistent.
THEOREM ServesWhatWasConfiguredCorrect == Spec => []ServesWhatWasConfigured
<1>1. ServerInv => ServesWhatWasConfigured
  BY DEF ServerInv, ServesWhatWasConfigured, Configured, Resolved, PipeConsistent
<1> QED BY <1>1, ServerInvariant, PTL

\* With the authentication on, only requests that bear the token of the process
\* that serves them reach a tool, after any restarts.
THEOREM OnlyBearersPassCorrect == Spec => []OnlyBearersPass
<1>1. ServerInv => OnlyBearersPass
  BY DEF ServerInv
<1> QED BY <1>1, ServerInvariant, PTL

-----------------------------------------------------------------------------
(* A tool call takes a bounded number of steps. *)

\* How far a call is from its answer or decision.  It loads the lists once: a
\* group that validates again finds them in the cache.
Height(i) ==
    CASE ipc[i] = "idle" -> 7
      [] ipc[i] = "auth" -> 6
      [] ipc[i] = "gate" -> 5
      [] ipc[i] = "emit" \/ (ipc[i] = "load" /\ used[i] = <<>>) -> 4
      [] ipc[i] = "read" -> 3
      [] ipc[i] = "loaded" -> 2
      [] ipc[i] = "body" \/ (ipc[i] = "load" /\ used[i] # <<>>) -> 1
      [] OTHER -> 0

StepsLeft(i) == Height(i) - emitted[i]

\* The safety part of CallsEnd: a step of a call leaves it fewer to take, and
\* no other call, no edit of a file and no end of a process leaves it more.
CallsDescend ==
    [][\A i \in Ids : /\ StepsLeft(i)' \in 0..StepsLeft(i)
                      /\ CallStep(i) => StepsLeft(i)' < StepsLeft(i)]_vars

LEMMA StepsLeftRange ==
    ASSUME ServerInv, NEW i \in Ids
    PROVE  /\ Height(i) \in 0..7 /\ emitted[i] \in 0..2 /\ StepsLeft(i) \in Nat
           /\ ipc[i] # "emit" => emitted[i] = 0
<1>1. emitted[i] \in 0..2 /\ (ipc[i] # "emit" => emitted[i] = 0)
  <2> DEFINE n == Len(Handlers)
  <2>1. n \in 0..2 /\ emitted[i] \in 0..n
    BY HandlersType DEF ServerInv, Typed, TypeOK, AuditTypeOK
  <2> HIDE DEF n
  <2> QED BY <2>1 DEF ServerInv, Auditing
<1>2. Height(i) \in 0..7 /\ (ipc[i] = "emit" => Height(i) = 4)
  BY DEF Height
<1> QED BY <1>1, <1>2 DEF StepsLeft

LEMMA CallStepDescends ==
    ASSUME ServerInv, NEW i \in Ids, CallStep(i)
    PROVE  \/ Height(i)' = Height(i) /\ emitted'[i] = emitted[i] + 1
           \/ Height(i)' < Height(i) /\ emitted'[i] = 0 /\ (ipc[i] = "emit" => Height(i)' <= 1)
<1>1. /\ emitted \in [Ids -> 0..Len(Handlers)] /\ used \in [Ids -> Seq(Contents)]
      /\ ipc[i] # "emit" => emitted[i] = 0
      /\ ipc[i] \in {"gate", "read", "loaded"} => used[i] = <<>>
      /\ cache = "none" => used[i] = <<>>
  BY CallFrame DEF ServerInv, Typed, TypeOK, AuditTypeOK, Placed, Caching, Auditing
<1>2. CASE ipc[i] = "emit"
  <2>1. CASE HandlerWrites(i, INVOKED) /\ ipc'[i] = "emit"
    BY <1>1, <1>2, <2>1 DEF HandlerWrites, Height
  <2>2. CASE \/ HandlerRaises(i, INVOKED) /\ ipc'[i] = "raised"
             \/ EmitReturns(i) /\ ipc'[i] = "body"
    BY <1>1, <1>2, <2>2 DEF HandlerRaises, EmitReturns, Height
  <2> QED BY <1>2, <2>1, <2>2, CallEmits
<1>3. CASE ipc[i] # "emit"
  <2>1. emitted' = emitted
    BY <1>3, CallEmits DEF auditVars
  <2>2. \/ ipc[i] = "auth" /\ ipc'[i] \in {"gate", "unauthorized"}
        \/ ipc[i] = "body" /\ ipc'[i] \in {"answered", "raised"}
        \/ ipc[i] = "gate" /\ ipc'[i] \in {"refused", "emit", "load"}
        \/ ipc[i] = "load" /\ ipc'[i] \in {"raised", "decided"}
        \/ ipc[i] = "load" /\ ipc'[i] = "load" /\ used[i] = <<>> /\ used'[i] # <<>>
        \/ ipc[i] = "load" /\ ipc'[i] = "read" /\ used[i] = <<>>
        \/ ipc[i] = "read" /\ ipc'[i] \in {"raised", "loaded"}
        \/ ipc[i] = "loaded" /\ ipc'[i] \in {"raised", "decided"}
        \/ ipc[i] = "loaded" /\ ipc'[i] = "load" /\ used'[i] # <<>>
    <3>1. \A x : used[i] = <<>> => Append(used[i], x) # <<>>
      OBVIOUS
    <3> QED BY <1>1, <1>3, <3>1, CallMoves
  <2>3. Height(i)' < Height(i)
    BY <2>2 DEF Height
  <2> QED BY <1>1, <1>3, <2>1, <2>3
<1> QED BY <1>2, <1>3

\* What the operator, the main thread and the other calls do.
LEMMA OthersLeaveSteps ==
    ASSUME ServerInv, [Next]_vars, NEW i \in Ids
    PROVE  \/ CallStep(i)
           \/ UNCHANGED <<ipc[i], used[i], emitted[i]>>
           \/ ipc[i] = "idle" /\ ipc'[i] \in {"auth", "gate"} /\ emitted'[i] = 0
           \/ ipc'[i] = "crashed" /\ emitted'[i] = 0
<1>1. /\ ipc \in [Ids -> CallPoints] /\ emitted \in [Ids -> 0..Len(Handlers)] /\ AuditTypeOK
      /\ ipc[i] # "emit" => emitted[i] = 0
  BY DEF ServerInv, Typed, TypeOK, AuditTypeOK, Auditing
<1>2. CASE \/ \E content \in Contents : EditCommands(content)
           \/ \E file \in SettingsFiles : EditSettings(file)
           \/ \E e \in Environments : StartServer(e)
           \/ UNCHANGED vars
  BY <1>2 DEF EditCommands, EditSettings, StartServer, auditVars, calls, vars
<1>3. CASE StartupStep
  BY <1>3 DEF StartupStep, ImportSettings, CheckConfig, CheckCommandFile, CheckLists, CheckToken,
              ConfigureAudit, CheckFails, CheckPasses, MainRaises, GotoPhase, auditVars, calls
<1>4. CASE Stop
  <2>1. /\ ipc'[i] = IF InProgress(i) THEN "crashed" ELSE ipc[i]
        /\ emitted'[i] = 0 /\ used'[i] = used[i]
    BY <1>4 DEF Stop, EmitsCrash
  <2> QED BY <1>1, <2>1 DEF InProgress, Ended
<1>5. ASSUME NEW j \in Ids, NEW t \in Tools, NEW h, Call(j, t, h)
      PROVE  \/ UNCHANGED <<ipc[i], used[i], emitted[i]>>
             \/ ipc[i] = "idle" /\ ipc'[i] \in {"auth", "gate"} /\ emitted'[i] = 0
  BY <1>1, <1>5 DEF Call, Goto, auditVars
<1>6. ASSUME NEW j \in Ids, j # i, CallStep(j)
      PROVE  UNCHANGED <<ipc[i], used[i], emitted[i]>>
  <2>1. ipc'[i] = ipc[i] /\ used'[i] = used[i]
    BY <1>6, CallFrame
  <2>2. \/ UNCHANGED auditVars
        \/ HandlerWrites(j, INVOKED) \/ HandlerRaises(j, INVOKED) \/ EmitReturns(j)
    BY <1>6, CallEmits
  <2>3. emitted'[i] = emitted[i]
    BY <1>1, <1>6, <2>2 DEF auditVars, HandlerWrites, HandlerRaises, EmitReturns
  <2> QED BY <2>1, <2>3
<1>7. CASE \E j \in Ids, t \in Tools, h \in IF IsHttp(settings) THEN Requests ELSE {<<>>} :
              Call(j, t, h)
  BY <1>5, <1>7
<1>8. CASE \E j \in Ids : CallStep(j)
  BY <1>6, <1>8
<1> QED BY <1>2, <1>3, <1>4, <1>7, <1>8 DEF Next, Quiet

\* A tool call takes at most seven steps to its answer or its decision, whatever
\* is edited, cached or raised meanwhile, and none of them twice.
THEOREM CallsDescendCorrect == Spec => CallsDescend
<1> DEFINE Bounded(i) == /\ Height(i) \in 0..7 /\ emitted[i] \in 0..2 /\ StepsLeft(i) \in Nat
                         /\ ipc[i] # "emit" => emitted[i] = 0
           AllBounded == ServerInv => \A i \in Ids : Bounded(i)
<1>1. AllBounded
  BY StepsLeftRange
<1>2. AllBounded'
  BY <1>1, PTL
<1>3. ASSUME ServerInv, ServerInv', [Next]_vars, NEW i \in Ids
      PROVE  /\ StepsLeft(i)' \in 0..StepsLeft(i)
             /\ CallStep(i) => StepsLeft(i)' < StepsLeft(i)
  <2>1. Bounded(i) /\ Bounded(i)'
    BY <1>1, <1>2, <1>3
  <2>2. ASSUME CallStep(i)
        PROVE  StepsLeft(i)' < StepsLeft(i)
    <3>1. ipc[i] = "emit" => Height(i) = 4
      BY DEF Height
    <3> QED BY <1>3, <2>1, <2>2, <3>1, CallStepDescends DEF StepsLeft
  <2>3. CASE UNCHANGED <<ipc[i], used[i], emitted[i]>>
    <3>1. StepsLeft(i)' = StepsLeft(i)
      BY <2>3 DEF StepsLeft, Height
    <3> QED BY <2>1, <2>2, <3>1
  <2>4. CASE ipc[i] = "idle" /\ ipc'[i] \in {"auth", "gate"} /\ emitted'[i] = 0
    <3>1. Height(i) = 7 /\ Height(i)' <= 6
      BY <2>4 DEF Height
    <3> QED BY <2>1, <2>2, <2>4, <3>1 DEF StepsLeft
  <2>5. CASE ipc'[i] = "crashed" /\ emitted'[i] = 0
    <3>1. Height(i)' = 0
      BY <2>5 DEF Height
    <3> QED BY <2>1, <2>2, <2>5, <3>1 DEF StepsLeft
  <2>6. CASE CallStep(i)
    BY <2>1, <2>2, <2>6
  <2> QED BY <1>3, <2>3, <2>4, <2>5, <2>6, OthersLeaveSteps
<1>4. ServerInv /\ ServerInv' /\ [Next]_vars =>
         \A i \in Ids : /\ StepsLeft(i)' \in 0..StepsLeft(i)
                        /\ CallStep(i) => StepsLeft(i)' < StepsLeft(i)
  BY <1>3
<1> HIDE DEF AllBounded
<1> QED BY <1>4, ServerInvariant, PTL DEF Spec, CallsDescend

=============================================================================
