----------------------------- MODULE GroupCommand -----------------------------
(***************************************************************************)
(* run_show_command_on_group of src/netmiko_mcp/connection.py: validate    *)
(* the command once, resolve the group, run run_show_command for every     *)
(* device on a pool of threads, and collect the results as they come,      *)
(* saving each on the calling thread when the client asked for it.         *)
(*                                                                         *)
(* The call of group call g for device d is the call <<g, d>> of           *)
(* ShowCommand.  The other calls are tool calls of send_show_command that  *)
(* run beside the group calls.                                             *)
(***************************************************************************)
EXTENDS ShowCommand, Integers, FiniteSets

CONSTANTS
    Groups,         \* the calls of send_show_command_to_group
    WorkerSettings  \* the values that settings.max_workers may have

\* Every id that is logged is a new uuid4: a group call has none of its own
\* in common with the calls of its pool.
ASSUME GroupsAssumption ==
    Groups \subseteq Ids \ Calls /\ Groups \X Devices \subseteq Calls
ASSUME WorkerSettingsAssumption == WorkerSettings \subseteq Int

VARIABLES
    maxWorkers, \* settings.max_workers: any integer, the settings have no bound
    gpc,        \* where the calling thread of each group call is
    grequest,   \* its arguments, the group resolved to its devices
    waiting,    \* the devices submitted to the pool that no worker has taken yet
    saving,     \* the device whose output the calling thread saves
    results,    \* what it collected for each device, "none" if nothing yet
    answer      \* what it answers, by kind

groupVars == <<maxWorkers, gpc, grequest, waiting, saving, results, answer>>
gvars == <<vars, groupVars>>

GroupRequests == [members : SUBSET Devices, command : Commands, save_output : BOOLEAN]

GroupPoints == {"idle", "log_denied", "inventory", "submit", "drain", "pool", "save", "write"}
               \cup Finished
Pooling == {"submit", "drain", "pool", "save", "write"}

Members(g) == grequest[g].members
GroupRunning(g) == gpc[g] \notin {"idle"} \cup Finished
GroupGoto(g, point) == gpc' = [gpc EXCEPT ![g] = point]

GroupInit ==
    /\ Init
    /\ maxWorkers \in WorkerSettings
    /\ gpc = [g \in Groups |-> "idle"]
    /\ grequest = [g \in Groups |-> NoRequest]
    /\ waiting = [g \in Groups |-> {}]
    /\ saving = [g \in Groups |-> {}]
    /\ results = [g \in Groups |-> [d \in Devices |-> "none"]]
    /\ answer = [g \in Groups |-> "none"]

-----------------------------------------------------------------------------
(* The decision, once for the whole group. *)

SendToGroup(g, r) ==
    /\ gpc[g] = "idle"
    /\ grequest' = [grequest EXCEPT ![g] = r]
    /\ GroupGoto(g, IF r.command \in Permitted THEN "inventory" ELSE "log_denied")
    /\ UNCHANGED <<vars, maxWorkers, waiting, saving, results, answer>>

\* The denial is audited under an id of the group call; a call that was
\* allowed leaves no record of its own.
WriteDenial(g) ==
    /\ gpc[g] = "log_denied"
    /\ HandlerWrites(g, DENIED)
    /\ UNCHANGED <<storeVars, pc, request, outcome, deviceVars, resultVars, crashes, groupVars>>

DenialFails(g) ==
    /\ gpc[g] = "log_denied"
    /\ HandlerRaises(g, DENIED)
    /\ GroupGoto(g, "raised")
    /\ UNCHANGED <<storeVars, pc, request, outcome, deviceVars, resultVars, crashes,
                   maxWorkers, grequest, waiting, saving, results, answer>>

\* Mutant: the denial is answered before it is logged.
MutDenialNotAwaited(g) ==
    /\ gpc[g] = "log_denied"
    /\ GroupGoto(g, "done")
    /\ answer' = [answer EXCEPT ![g] = "security_error"]
    /\ UNCHANGED <<vars, maxWorkers, grequest, waiting, saving, results>>

DenialLogged(g) ==
    /\ gpc[g] = "log_denied"
    /\ EmitReturns(g)
    /\ GroupGoto(g, "done")
    /\ answer' = [answer EXCEPT ![g] = "security_error"]
    /\ UNCHANGED <<storeVars, pc, request, outcome, deviceVars, resultVars, crashes,
                   maxWorkers, grequest, waiting, saving, results>>

-----------------------------------------------------------------------------
(* The pool. *)

\* get_all_device_params resolves the group; a pool of no threads cannot be
\* created, and raises.
GroupLookupSucceeds(g) ==
    /\ gpc[g] = "inventory"
    /\ GroupGoto(g, IF maxWorkers > 0 THEN "submit" ELSE "raised")
    /\ UNCHANGED <<vars, maxWorkers, grequest, waiting, saving, results, answer>>

\* ValueError is answered, any other exception leaves the function.
GroupLookupFails(g) ==
    /\ gpc[g] = "inventory"
    /\ \/ /\ GroupGoto(g, "done")
          /\ answer' = [answer EXCEPT ![g] = "inventory_error"]
       \/ /\ GroupGoto(g, "raised")
          /\ UNCHANGED answer
    /\ UNCHANGED <<vars, maxWorkers, grequest, waiting, saving, results>>

\* The devices whose job is not in the pool: no thread took it, and none will.
Unsubmitted(g) == {d \in Members(g) \ waiting[g] : pc[<<g, d>>] = "idle"}

\* executor.submit, for one device after the other.
SubmitJob(g, d) ==
    /\ gpc[g] = "submit"
    /\ d \in Unsubmitted(g)
    /\ waiting' = [waiting EXCEPT ![g] = @ \cup {d}]
    /\ UNCHANGED <<vars, maxWorkers, gpc, grequest, saving, results, answer>>

\* Mutant: a pool that is not a context manager is left as it is.
MutPoolNotJoined(g, d) ==
    /\ gpc[g] = "submit"
    /\ d \in Unsubmitted(g)
    /\ GroupGoto(g, "raised")
    /\ UNCHANGED <<vars, maxWorkers, grequest, waiting, saving, results, answer>>

\* executor.submit raises: the interpreter is shutting down, or no thread can be
\* started.  In the second case the job is in the queue already, and a thread
\* that an earlier submit started takes it.
SubmitFails(g, d) ==
    /\ gpc[g] = "submit"
    /\ d \in Unsubmitted(g)
    /\ GroupGoto(g, "drain")
    /\ \/ UNCHANGED waiting
       \/ /\ Unsubmitted(g) # Members(g)
          /\ waiting' = [waiting EXCEPT ![g] = @ \cup {d}]
    /\ UNCHANGED <<vars, maxWorkers, grequest, saving, results, answer>>

AllSubmitted(g) ==
    /\ gpc[g] = "submit"
    /\ Unsubmitted(g) = {}
    /\ GroupGoto(g, "pool")
    /\ UNCHANGED <<vars, maxWorkers, grequest, waiting, saving, results, answer>>

\* The devices of g that a thread of its pool is working on.
Busy(g) == {d \in Devices : Running(<<g, d>>)}

\* The exception of a submit leaves the with block, which waits for every job
\* that is in the pool, and then the function.
PoolJoined(g) ==
    /\ gpc[g] = "drain"
    /\ waiting[g] = {} /\ Busy(g) = {}
    /\ GroupGoto(g, "raised")
    /\ UNCHANGED <<vars, maxWorkers, grequest, waiting, saving, results, answer>>

\* A free thread takes the next job.  The order of the jobs is that of the
\* inventory, which may be any.
WorkerStarts(g, d) ==
    /\ gpc[g] \in Pooling
    /\ d \in waiting[g]
    /\ Cardinality(Busy(g)) < maxWorkers
    /\ waiting' = [waiting EXCEPT ![g] = @ \ {d}]
    /\ Start(<<g, d>>, [device |-> d, command |-> grequest[g].command, save_output |-> FALSE,
                        auto_save |-> ~grequest[g].save_output, preloaded |-> TRUE])
    /\ UNCHANGED <<maxWorkers, gpc, grequest, saving, results, answer>>

-----------------------------------------------------------------------------
(* Collecting the results. *)

\* as_completed yields the job of d, whose call returned or raised.
Yields(g, d) ==
    /\ gpc[g] = "pool"
    /\ d \in Members(g)
    /\ results[g][d] = "none"
    /\ pc[<<g, d>>] \in {"done", "raised"}

SetResult(g, d, kind) == results' = [results EXCEPT ![g][d] = kind]

\* future.result() raises what the call raised: an error for this device only.
CollectFailure(g, d) ==
    /\ Yields(g, d)
    /\ pc[<<g, d>>] = "raised"
    /\ SetResult(g, d, "execution_error")
    /\ UNCHANGED <<vars, maxWorkers, gpc, grequest, waiting, saving, answer>>

CollectReply(g, d) ==
    /\ Yields(g, d)
    /\ pc[<<g, d>>] = "done"
    /\ ~grequest[g].save_output
    /\ SetResult(g, d, reply[<<g, d>>])
    /\ UNCHANGED <<vars, maxWorkers, gpc, grequest, waiting, saving, answer>>

\* The answer of the call, whatever it is, is going to be saved.
CollectForSave(g, d) ==
    /\ Yields(g, d)
    /\ pc[<<g, d>>] = "done"
    /\ grequest[g].save_output
    /\ saving' = [saving EXCEPT ![g] = {d}]
    /\ GroupGoto(g, "save")
    /\ UNCHANGED <<vars, maxWorkers, grequest, waiting, results, answer>>

\* _save_device_output, on the calling thread.
OpenGroupOutput(g, d) ==
    LET name == FileNameOf(d, grequest[g].command)
    IN  /\ gpc[g] = "save"
        /\ d \in saving[g]
        /\ TruncateFile(name)
        /\ savedAs' = [savedAs EXCEPT ![<<g, d>>] = name]
        /\ GroupGoto(g, "write")
        /\ UNCHANGED <<auditVars, pc, request, outcome, deviceVars, reply, transcripts, crashes,
                       maxWorkers, grequest, waiting, saving, results, answer>>

WriteGroupOutput(g, d) ==
    /\ gpc[g] = "write"
    /\ d \in saving[g]
    /\ WriteFile(savedAs[<<g, d>>], <<g, d>>)
    /\ SetResult(g, d, "saved")
    /\ saving' = [saving EXCEPT ![g] = {}]
    /\ GroupGoto(g, "pool")
    /\ UNCHANGED <<auditVars, pc, request, outcome, deviceVars, resultVars, crashes,
                   maxWorkers, grequest, waiting, answer>>

\* Mutants: a failed save is reported as saved; a failed save is tried again.
MutSaveFailureIgnored(g, d) ==
    /\ gpc[g] \in {"save", "write"}
    /\ d \in saving[g]
    /\ SetResult(g, d, "saved")
    /\ saving' = [saving EXCEPT ![g] = {}]
    /\ GroupGoto(g, "pool")
    /\ UNCHANGED <<vars, maxWorkers, grequest, waiting, answer>>
MutSaveRetried(g, d) ==
    /\ gpc[g] \in {"save", "write"}
    /\ d \in saving[g]
    /\ GroupGoto(g, "save")
    /\ UNCHANGED <<vars, maxWorkers, grequest, waiting, saving, results, answer>>

\* The save raises: an error for this device only.
GroupSaveFails(g, d) ==
    /\ gpc[g] \in {"save", "write"}
    /\ d \in saving[g]
    /\ SetResult(g, d, "execution_error")
    /\ saving' = [saving EXCEPT ![g] = {}]
    /\ GroupGoto(g, "pool")
    /\ UNCHANGED <<vars, maxWorkers, grequest, waiting, answer>>

\* Mutant: the first exception of a device ends the group call.
MutFailFast(g) ==
    /\ gpc[g] = "pool"
    /\ \/ \A d \in Members(g) : results[g][d] # "none"
       \/ \E d \in Members(g) : results[g][d] = "execution_error"
    /\ GroupGoto(g, "done")
    /\ answer' = [answer EXCEPT ![g] = "results"]
    /\ UNCHANGED <<vars, maxWorkers, grequest, waiting, saving, results>>

\* as_completed is exhausted, the pool is shut down, the results returned.
GroupReturns(g) ==
    /\ gpc[g] = "pool"
    /\ \A d \in Members(g) : results[g][d] # "none"
    /\ GroupGoto(g, "done")
    /\ answer' = [answer EXCEPT ![g] = "results"]
    /\ UNCHANGED <<vars, maxWorkers, grequest, waiting, saving, results>>

-----------------------------------------------------------------------------

\* What the calling thread of g does next.
GroupStep(g) ==
    \/ WriteDenial(g)
    \/ DenialFails(g)
    \/ DenialLogged(g)
    \/ GroupLookupSucceeds(g)
    \/ GroupLookupFails(g)
    \/ AllSubmitted(g)
    \/ PoolJoined(g)
    \/ \E d \in Devices :
          \/ SubmitJob(g, d)
          \/ SubmitFails(g, d)
          \/ CollectFailure(g, d)
          \/ CollectReply(g, d)
          \/ CollectForSave(g, d)
          \/ OpenGroupOutput(g, d)
          \/ WriteGroupOutput(g, d)
          \/ GroupSaveFails(g, d)
    \/ GroupReturns(g)

\* The process dies with its group calls and every call of their pools.
GroupCrash ==
    /\ \/ \E c \in Calls : Running(c)
       \/ \E g \in Groups : GroupRunning(g)
    /\ CrashCalls
    /\ gpc' = [g \in Groups |-> IF GroupRunning(g) THEN "crashed" ELSE gpc[g]]
    /\ waiting' = [g \in Groups |-> {}]
    /\ UNCHANGED <<maxWorkers, grequest, saving, results, answer>>

ToolCalls == Calls \ (Groups \X Devices)

GroupQuiet ==
    /\ \A c \in ToolCalls : pc[c] \in Finished
    /\ \A g \in Groups : gpc[g] \in Finished
    /\ UNCHANGED gvars

GroupNext ==
    \/ \E g \in Groups, r \in GroupRequests : SendToGroup(g, r)
    \/ \E g \in Groups : GroupStep(g)
    \/ \E g \in Groups, d \in Devices : WorkerStarts(g, d)
    \/ /\ \E c \in ToolCalls, d \in Devices, m \in Commands, save \in BOOLEAN :
             SendShowCommand(c, d, m, save)
       /\ UNCHANGED groupVars
    \/ (\E c \in Calls : CallStep(c)) /\ UNCHANGED groupVars
    \/ GroupCrash
    \/ Tick /\ UNCHANGED groupVars
    \/ GroupQuiet

GroupSpec == GroupInit /\ [][GroupNext]_gvars

\* Every thread is scheduled: the calling thread of each group call, and the
\* threads of its pool, which take the jobs and run the calls.
GroupFairSpec ==
    /\ GroupSpec
    /\ \A g \in Groups : WF_gvars(GroupStep(g))
    /\ \A g \in Groups : WF_gvars(\E d \in Devices : WorkerStarts(g, d))
    /\ \A c \in Calls : WF_gvars(CallStep(c) /\ UNCHANGED groupVars)

-----------------------------------------------------------------------------
(* Properties. *)

GroupTypeOK ==
    /\ TypeOK
    /\ maxWorkers \in WorkerSettings
    /\ gpc \in [Groups -> GroupPoints]
    /\ grequest \in [Groups -> GroupRequests \cup {NoRequest}]
    /\ waiting \in [Groups -> SUBSET Devices]
    /\ saving \in [Groups -> SUBSET Devices]
    /\ results \in [Groups -> [Devices -> Replies]]
    /\ answer \in [Groups -> {"none", "security_error", "inventory_error", "results"}]

\* What the results of group call g may say of device d, given how the call
\* for d ended: its reply, except that a saved output is only named, and that
\* an exception becomes an error.
DueResults(g, d) ==
    IF pc[<<g, d>>] = "raised" THEN {"execution_error"}
    ELSE IF grequest[g].save_output THEN {"saved", "execution_error"}
    ELSE {reply[<<g, d>>]}

\* One device that fails, hangs up or raises costs no other device its result:
\* the answer has exactly the resolved devices, each with what came of its own
\* call, and no thread of the pool is left behind.
EachDeviceItsResult ==
    \A g \in Groups : answer[g] = "results" =>
        /\ Busy(g) = {} /\ waiting[g] = {}
        /\ \A d \in Devices :
              IF d \in Members(g) THEN results[g][d] \in DueResults(g, d)
              ELSE results[g][d] = "none" /\ pc[<<g, d>>] = "idle"

\* "a group-level audit record so the denial is never invisible"
\* (connection.py:454): an answered denial is in every sink, and a denial in
\* any sink means that no device was touched.
DenialIsVisible ==
    \A g \in Groups :
        /\ answer[g] = "security_error" => Recorded(g, DENIED)
        /\ Seen(g, DENIED) => \A d \in Devices : pc[<<g, d>>] = "idle"

\* A group call that raises leaves nothing behind: no thread of its pool works or
\* will, nothing was collected or is being saved, and what it did to a device
\* before it raised, it did for a command that is permitted, in a call that is
\* over and in the log.  A denial that cannot be logged, an inventory that raises,
\* a pool that cannot be created and a job that cannot be submitted are such
\* calls; what goes wrong with one device, its save included, is not.
RaisedLeavesNothing ==
    \A g \in Groups : gpc[g] = "raised" =>
        /\ waiting[g] = {} /\ Busy(g) = {} /\ saving[g] = {}
        /\ \A d \in Devices :
              /\ results[g][d] = "none"
              /\ pc[<<g, d>>] # "idle" =>
                    /\ d \in Members(g) /\ grequest[g].command \in Permitted
                    /\ pc[<<g, d>>] = "done" => Recorded(<<g, d>>, ALLOWED)

\* A result other than an error is backed by the audit trail of its call: a
\* plain output by a success in every sink, and a saved one by the success or
\* the error that the call answered.
ResultsAreAudited ==
    \A g \in Groups, d \in Devices : results[g][d] \in {"output", "saved"} =>
        /\ Recorded(<<g, d>>, ALLOWED)
        /\ ~grequest[g].save_output => Recorded(<<g, d>>, "SUCCESS")
        /\ grequest[g].save_output =>
              \A s \in ConfiguredSinks : \E o \in Outcomes : InLog(s, <<g, d>>, o)

\* A file named in the results is there and holds what its device answered,
\* unless another call of the same device, file name and second saved there too; a
\* tool call beside the group included.  No file holds anything of another device.
GroupFilesIntact ==
    /\ \A name \in DOMAIN outputs : \A c \in outputs[name] : BelongsTo(name, c)
    /\ \A g \in Groups, d \in Devices : results[g][d] = "saved" =>
          /\ savedAs[<<g, d>>] \in DOMAIN outputs
          /\ \/ Intact(savedAs[<<g, d>>], <<g, d>>)
             \/ \E c \in Calls : Twins(<<g, d>>, c)

\* A group call that was made comes to an end, whatever its devices do.
GroupTerminates ==
    \A g \in Groups : GroupRunning(g) ~> gpc[g] \in Finished

-----------------------------------------------------------------------------
(* Claims of the documentation, which the code does not keep. *)

\* "Every MCP tool invocation should produce an audit record" (audit.py:4),
\* while auditing is enabled.
EveryGroupCallAudited ==
    \A g \in Groups : AuditEnabled /\ answer[g] # "none" =>
        \E id \in {g} \cup ({g} \X Devices), s \in Sinks : auditLog[s][id] # <<>>

\* "save_output=True and auto-save threshold behave identically to
\* send_show_command, applied per device" (skills/netmiko-mcp/SKILL.md:148),
\* which answers an error as an error: a device whose result is a saved file
\* did return its output.
SaveNeverMasksError ==
    \A g \in Groups, d \in Devices :
        results[g][d] = "saved" => reply[<<g, d>>] \in {"output", "saved"}

=============================================================================
