----------------------------- MODULE OutputStore -----------------------------
(***************************************************************************)
(* The directory of saved outputs that connection.py keeps under           *)
(* settings.save_output_dir.                                               *)
(*                                                                         *)
(* A file is named after its device, the command with every character that *)
(* is not alphanumeric replaced and cut to 50 characters, and the second   *)
(* in which it is saved.  The name says nothing of the call that saves, so *)
(* two calls can choose the same name; nothing in the code prevents it.    *)
(* The content of a file is represented by the set of calls whose bytes it *)
(* holds: {} is a file truncated and not yet written.                      *)
(***************************************************************************)
EXTENDS Naturals

CONSTANTS
    Devices,        \* device names
    Commands,       \* command strings
    SafeName,       \* SafeName[command]: the file name part made from it
    Calls,          \* the calls that save
    MaxClock        \* bound: the last second of the run

ASSUME SafeNameAssumption == DOMAIN SafeName = Commands
ASSUME MaxClockAssumption == MaxClock \in Nat

VARIABLES
    clock,      \* the current second
    outputs     \* outputs[name]: the content of each file that exists

storeVars == <<clock, outputs>>

-----------------------------------------------------------------------------

FileNames == Devices \X {SafeName[m] : m \in Commands} \X (0..MaxClock)

\* Mutants: every file goes to one directory, whatever its device; the second
\* is rounded up.
MutFlatDirectory(device, command) ==
    <<CHOOSE d \in Devices : TRUE, SafeName[command], clock>>
MutRoundedUp(device, command) ==
    <<device, SafeName[command], clock + 1>>

\* The name _save_device_output gives a file it creates now.
FileNameOf(device, command) == <<device, SafeName[command], clock>>

StoreInit ==
    /\ clock = 0
    /\ outputs = [name \in {} |-> {}]

StoreTypeOK ==
    /\ clock \in 0..MaxClock
    /\ DOMAIN outputs \subseteq FileNames
    /\ \A name \in DOMAIN outputs : outputs[name] \subseteq Calls

-----------------------------------------------------------------------------

\* outputs with the content of one file set.
WithContent(name, content) ==
    [n \in DOMAIN outputs \cup {name} |-> IF n = name THEN content ELSE outputs[n]]

\* write_text opens with mode "w": the file is created, or truncated.
TruncateFile(name) ==
    /\ outputs' = WithContent(name, {})
    /\ UNCHANGED clock

\* write_text writes from offset 0 of its own handle.  Of what other handles
\* wrote since the truncation, any part may be overwritten.
WriteFile(name, w) ==
    /\ \E kept \in SUBSET outputs[name] : outputs' = WithContent(name, kept \cup {w})
    /\ UNCHANGED clock

\* Time passes.
ClockTicks ==
    /\ clock < MaxClock
    /\ clock' = clock + 1
    /\ UNCHANGED outputs

\* What may happen to the directory, whoever saves: a file is opened under a
\* second that has come, and gets bytes only once it is there.
StoreNext ==
    \/ \E name \in FileNames : name[3] <= clock /\ TruncateFile(name)
    \/ \E name \in DOMAIN outputs : \E w \in Calls : WriteFile(name, w)
    \/ ClockTicks

StoreSpec == StoreInit /\ [][StoreNext]_storeVars

-----------------------------------------------------------------------------
(* What a reader of the directory finds. *)

\* name was saved by w and by no other call.
Intact(name, w) == name \in DOMAIN outputs /\ outputs[name] = {w}

=============================================================================
