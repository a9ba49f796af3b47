# netmiko-mcp in TLA+

`netmiko_mcp` is an MCP server that lets a language model run show commands on
network devices. It promises three things that are hard to test: that no
command reaches a device without an audit record of its permission, that the
audit log tells what happened whatever fails, and that what is saved can be
traced to the device it was read from. These modules model the code that keeps
those promises, TLC checks them on small instances, and TLAPS proves the most
important ones for every instance.

Paths below are relative to the repository; `connection.py` and the others are
in `src/netmiko_mcp/`.

## The system

| Component | State it keeps | Operations | What makes it correct |
|---|---|---|---|
| `audit.py` | the audit log (file, syslog or both), its handlers | `configure_audit_logger`, `log_command_attempt`, `log_connection_outcome`, `log_tool_invocation`, `save_channel_transcript` | a record is in every sink, or the caller gets an exception |
| `connection.py`, one call | local variables of `run_show_command`, one SSH session | validate, audit, look up, connect, send, save, transcript, audit, disconnect | nothing is sent before it is audited; every session is released; answer and log agree |
| `connection.py`, group | `results`, the pool of threads | `run_show_command_on_group` | every device has its own result; a denial is recorded |
| `connection.py`, outputs | the files under `save_output_dir` | `_save_device_output`, `list_device_outputs`, `read_device_output` | a file holds the output of its device |
| `security.py` | the lists of `commands.yml`, cached; the filter built from them, cached | `validate_command`, `AbbreviationDenyFilter`, the startup checks | deny wins, abbreviations included; only listed commands are allowed |
| `inventory.py` | `os.environ["NETMIKO_TOOLS_CFG"]` | look a device or group up, list them without credentials | no credential in an answer |
| `server.py` | `_startup_error` | the seven tools, `_validate_startup`, `main` | a server that is misconfigured runs no command |
| `config.py` | `settings` | precedence of environment over YAML | no pipe character without `allow_pipe` |
| `http_auth.py` | the token | one decision per request | no request without the token reaches the application |

Interaction: a tool of `server.py` calls `run_show_command` or
`run_show_command_on_group`; the latter runs the former for every device on a
`ThreadPoolExecutor`. Calls are concurrent: the threads of a group, the clients
of the HTTP transport, and the stdio servers that several clients of one user
start, each a process of its own. They share the audit log and the output
directory and nothing else, without any lock but that of a `logging` handler.

Hard behaviour: an emit that fails in the middle of a control flow made of
nested `except` clauses, two sinks of which one fails, a process that dies
between two writes, two writers of one file name, threads that finish in any
order, entries of a deny list that share the nodes of one trie. The list of
hazards in `PROJECT.json` names each at its line.

## Modules

| Module | Stands for | How it corresponds |
|---|---|---|
| `AuditLog` | `audit.py` | `auditLog[sink][id]` is what a reader finds under one correlation id. An emit is one action per handler (`HandlerWrites`), a failing handler (`HandlerRaises`, which may have kept the line), and the return of `_emit` (`EmitReturns`). |
| `OutputStore` | `_save_device_output` | `outputs[name]` is the set of calls whose bytes a file holds. `write_text` is `TruncateFile`, then `WriteFile`, and other savers may come between. `StoreSpec` is the abstract specification of the directory, to which `OutputReader` maps its files of bytes. |
| `CommandGate` | abstract | What an operator is promised of a call: it is sent at most once, while it is not over, and after its permission is recorded. |
| `ShowCommand` | `run_show_command` | `pc` is the place in the function, one action per statement that can fail or that others can see. An exception in the with block goes through `unwind`, one from an except clause to `raised`. It composes `AuditLog` and `OutputStore`. |
| `GroupCommand` | `run_show_command_on_group` | The calling thread of `g` is `gpc[g]`; the call for device `d` is the call `<<g, d>>` of `ShowCommand`, started by a free thread of the pool. `maxWorkers` is `settings.max_workers`, any integer. Jobs are submitted one by one (`SubmitJob`), while threads take earlier ones; when `executor.submit` raises, the calling thread leaves the `with` block (`drain`), which waits for every job in the pool before the exception goes on (`PoolJoined`). It composes the modules above. |
| `OutputReader` | `list_device_outputs`, `read_device_output` | `disk[name]` is a file byte by byte, each byte with the call that wrote it and its place in the output of that call; `Newlines` says which of them are newlines. `Overlaid` is a write from offset 0 of a handle of its own: over a longer file it may leave a mixed line and other line numbers. `LinesOf` is `splitlines()`. A list is read device by device (`ListDevice`); `ReadPage` answers one page, and the client follows the "to continue" offset it names. Saves run beside both, and may fail after any byte. |
| `Settings` | `config.py`, `http_auth.py` | `Resolved` is the precedence of the sources, `PipeConsistent` the validator, `Authorized` the decision on a request. |
| `ServerLifecycle` | `server.py`, `load_commands` of `security.py` | `phase` is the place of the main thread between the import of the settings and the transport, `ipc[i]` that of a tool call, from the middleware to the answer of a tool that touches no device, or to the decision where `ShowCommand` and `GroupCommand` begin. The operator edits both files at any step, stops the process and starts it again. It composes `AuditLog` and `Settings`. |
| `CommandValidation` | `security.py` | The trie is a function from paths to flags, built entry by entry with `Inserted` and searched by `MatchWord` and `FindWordEnd`. Where the code recurses from one word to the next, the model is a recursive function on the levels of the trie (`Matching`), which gives the nodes from which the words that are left are caught. `Reason` is `validate_command`. `Characters` is the alphabet, any set. |
| `MCShowCommand`, `MCGroupCommand`, `MCOutputReader`, `MCServerLifecycle`, `MCCommandValidation` | | The values TLC gives to the constants. |
| `AuditLogProofs` | | Lemmas on one emit, used by the proofs on calls. |
| `FiniteLemmas` | | Least members of sets of numbers, and lists of finite sets in order; used by the last two. |
| `ShowCommandProofs`, `ShowCommandTrailProofs` | | Theorems on a call: permission; session and files; the steps it takes; the trail of its records; what an outcome vouches for. |
| `GroupCommandProofs`, `ServerLifecycleProofs`, `OutputReaderProofs`, `CommandValidationProofs` | | Theorems on the other four state machines. |

Data is abstracted to what the properties tell apart. A command is a name with
a membership in `Permitted` and a file name part, an output is long or not, an
exception is one of the classes some except clause tells from the others. In
`CommandValidation`, where the words matter, a command is a sequence of words,
over two letters when TLC runs it and over any when it is proved about; case is
folded, and a command is already normalised.

The definitions named `Mut...` are plausible bugs (a dropped guard, a clause in
the wrong place). No specification uses them; each replaces the definition that
follows it to show that the properties notice.

## What is checked

| Run | Instance | Shows |
|---|---|---|
| `audit` | one call, both sinks, all eight exceptions, transcript, `disconnect()` may raise, one crash | types; `NoUnauditedExecution`; the exact trails a sink can hold (`OutcomeTrail`); `ReplyAgreesWithAudit`; `SessionReleased`; that the call implements `CommandGate` (`GateSpec`); and, under fairness, `CallTerminates` |
| `outputs` | two calls, two devices, three commands of which two share a file name part, two seconds, one crash | `OutcomeTellsWhetherSent`, `SuccessIsDurable`, `FilesHoldTheirOutput` |
| `pool` | one group call, two devices, no thread, one or two, any submit may fail, both sinks, a device error of two kinds, `disconnect()` may raise, one crash | types; `EachDeviceItsResult`, `DenialIsVisible`, `RaisedLeavesNothing`, `ResultsAreAudited`, `GroupFilesIntact`; and, under fairness, `GroupTerminates` |
| `group_beside` | a group call and a tool call for one device, no thread or one, two seconds, one crash | `GroupFilesIntact` of two savers of one name; that the calls of a pool, and the tool call, implement `CommandGate` |
| `reader` | two saving calls, of three bytes in three lines and of two bytes in one line, two devices, two commands, two seconds; a client with offsets -2, 0 and 1 and limits -1, 0, 1 and 2 | types; a client that follows the continuations gets the rest of the file (`PagesAreTheFile`), and lines in step even of a file that is rewritten meanwhile, unless a page came of a file with bytes of several calls (`PagesInStep`); what was saved without a rival is read back as it was (`SavedCanBeReadBack`); the order of the list (`LatestOfCommandFirst`); `StoreSpec`; and, under fairness, `FollowingEnds` |
| `server` | two starts and one edit of either file, at any step; stdio and HTTP, with one of two tokens, a blank one and none needed; settings files that are missing, malformed and full; command files that are missing, malformed, empty, valid, and invalid on the deny side; two tool calls of any kind | types; the cached lists decide (`EditsWaitForRestart`), and were validated unless edited (`UneditedMeansValidated`); `MisconfiguredRunsNothing`, `QueriesAreAudited`, `ServesWhatWasConfigured`, `OnlyBearersPass`; and, under fairness, `CallsEnd` |
| `validation` | every pair of deny entries among 46 over three words that are prefixes of one another, in the three forms, against every command of up to three words | the trie means what its entries mean one by one (`TrieMeansItsEntries`); denials are closed under abbreviation (`AbbreviationIsDenied`), under more entries (`NewEntryOnlyDenies`) and do not depend on the pipe (`PipeAllowsNoMore`) |

The bounds. One call meets every handler, exception and crash with every other,
so one is enough for what is said of a single call (`audit`); two are needed
for one file, and calls that differ by name only are symmetric. Two devices on one
thread make a job wait in the queue while another runs, on two threads they run
and are collected in any order, and no thread at all is the setting that raises;
the first submit, the second and none may fail. Two seconds tell equal time stamps
from different ones. One crash suffices because a process that dies ends every
call that runs. A file of three lines has a first, a middle and a last page,
with limits that divide it and limits that do not; two bytes over two newlines
and a third byte, or the reverse, make a mixed line, and shift the lines after
it. Two starts tell a process
from the one before it, one edit puts a file between what two readers of it
saw, and two calls are the two threads that `lru_cache` lets load at once.
Entries meet in the trie in pairs: of two that part at a node, a third is
independent. The counters that the code does not bound, and that the models do,
are `clock` (`MaxClock`), `crashes` (`MaxCrashes`), the starts and edits of the
operator (`MaxStarts`, `MaxEdits`) and the deny list (`MaxDenied`). What TLC
does not reach with more calls, devices, crashes, starts or edits, the theorems
below cover.

`CHECK_DEADLOCK FALSE` is set for `validation` only: there the list of entries
ends. The other specifications have an explicit step (`Quiet`, `GroupQuiet`) of
a system that waits for a call, a start or a reader that never comes, and
deadlock is checked: no state with work left to do is without a step.

Fairness is weak fairness of each thread: of the steps of a call that runs, of
the calling thread of a group, of the threads of a pool that take jobs, of the
calls a server serves, and of the answers to a client that reads (`FollowingEnds`
is about a client that does follow). The operating system schedules every
thread, and Netmiko's own timeouts end every wait for a device. Nothing is
assumed that makes a client call, a handler succeed or fail, a save go on, an
operator edit, or a process start or die.

### Where the documentation promises more

Five runs each check one sentence of the documentation against the model, and
TLC shows how the code departs from it:

* `one_outcome` — `audit.py:4-6` counts two records for a device command. When
  the emit of an outcome raises inside the with block after a sink took it, or
  `disconnect()` raises, the outer except clause logs a second outcome: a sink
  can read `SUCCESS`, then `ERROR`.
* `transcripts` — `docs/configuration.md:379` promises the raw bytes of each
  call; a call whose command failed returns before its transcript is saved.
* `saved_output` — `server.py:105` promises an output that can be referred back
  to; two calls for one device, file name part and second share a file.
* `group_silent` — `audit.py:4` wants a record of every invocation; a group
  call answered an inventory error leaves none.
* `group_masked` — `skills/netmiko-mcp/SKILL.md:148` says that `save_output`
  behaves as in `send_show_command`, per device. The group runner saves the
  error message of a device that failed and reports "Output saved as".

`OutcomeTrail`, `FilesHoldTheirOutput`, `SuccessIsDurable`, `GroupFilesIntact`
and `ResultsAreAudited` say what holds in their place.

Smaller departures need no run of their own; the modules state what the code
does, and the properties are about that:

* "newest first" (`connection.py:331`): the list is sorted by file name, so the
  newest comes first within one command only (`LatestOfCommandFirst`).
* `read_device_output` takes any integers. A limit of 0 answers no line and
  names the same offset again, and a negative one may name an offset before it;
  `Forward` is the client that asks neither.
* A stdio server with a startup error answers every tool call with that error and
  records none of them (`server.py:41`), although `audit.py:4` and
  `docs/configuration.md:59` and `:316` want a record of every invocation.
  `MisconfiguredRunsNothing` and `QueriesAreAudited` do not say either way.
* A group of no devices, allowed, leaves no record; it is the same sentence that
  `group_silent` is about.
* An inventory that raises anything but `ValueError` (`connection.py:128`) leaves
  a permission without an outcome, one record where `audit.py:5` counts two.
  `OutcomeTrail` allows that trail for a call that raised.
* The line numbers of a file that two calls saved at once mean nothing: a client
  that follows the continuations may get a line twice, or none of it
  (`PagesInStep` excludes such files, `mixed`).
* `docs/commands.md:10` has the lists "loaded and cached at startup". They are
  read at startup to be validated, and again, to be used, by the first command.
* An empty `commands.yml`, or a null list in it, raises an exception the startup
  checks do not catch, and a stdio server ends instead of answering with the
  error (`server.py:257`, against the comment at `server.py:36`).

## What is proved

For every set of calls, devices and commands, every number of threads, every
audit destination, any clock and any number of crashes, starts and edits, deny
lists of any length, from the assumptions on the constants only:

| Theorem | Says | Module |
|---|---|---|
| `TypeCorrect` | `Spec => []TypeOK` | `ShowCommandProofs` |
| `PermissionInvariant` | `Spec => []PermissionInv` | `ShowCommandProofs` |
| `NoUnauditedExecutionCorrect` | `Spec => []NoUnauditedExecution` | `ShowCommandProofs` |
| `GateRefinement` | `Spec => GateSpec` | `ShowCommandProofs` |
| `SessionReleasedCorrect` | `Spec => []SessionReleased` | `ShowCommandProofs` |
| `FilesHoldTheirOutputCorrect` | `Spec => []FilesHoldTheirOutput` | `ShowCommandProofs` |
| `CallsDescendCorrect` | `Spec => CallsDescend` | `ShowCommandProofs` |
| `OutcomeTrailCorrect` | `Spec => []OutcomeTrail` | `ShowCommandTrailProofs` |
| `ReplyAgreesWithAuditCorrect` | `Spec => []ReplyAgreesWithAudit` | `ShowCommandTrailProofs` |
| `OutcomeTellsWhetherSentCorrect` | `Spec => []OutcomeTellsWhetherSent`, if `~DisconnectMayRaise` | `ShowCommandTrailProofs` |
| `SuccessIsDurableCorrect` | `Spec => []SuccessIsDurable` | `ShowCommandTrailProofs` |
| `GroupTypeCorrect` | `GroupSpec => []GroupTypeOK` | `GroupCommandProofs` |
| `EachDeviceItsResultCorrect` | `GroupSpec => []EachDeviceItsResult` | `GroupCommandProofs` |
| `DenialIsVisibleCorrect` | `GroupSpec => []DenialIsVisible` | `GroupCommandProofs` |
| `RaisedLeavesNothingCorrect` | `GroupSpec => []RaisedLeavesNothing` | `GroupCommandProofs` |
| `ResultsAreAuditedCorrect` | `GroupSpec => []ResultsAreAudited` | `GroupCommandProofs` |
| `GroupFilesIntactCorrect` | `GroupSpec => []GroupFilesIntact` | `GroupCommandProofs` |
| `GroupGateRefinement` | `GroupSpec => GateSpec` | `GroupCommandProofs` |
| `GroupsDescendCorrect` | `GroupSpec => GroupsDescend`, if `Devices` is finite | `GroupCommandProofs` |
| `TypeCorrect` | `Spec => []TypeOK` | `OutputReaderProofs` |
| `PagesInStepCorrect` | `Spec => []PagesInStep` | `OutputReaderProofs` |
| `PagesAreTheFileCorrect` | `Spec => []PagesAreTheFile` | `OutputReaderProofs` |
| `SavedCanBeReadBackCorrect` | `Spec => []SavedCanBeReadBack` | `OutputReaderProofs` |
| `StoreRefinement` | `Spec => StoreSpec` | `OutputReaderProofs` |
| `LatestOfCommandFirstCorrect` | `Spec => []LatestOfCommandFirst` | `OutputReaderProofs` |
| `PagesAdvanceCorrect` | `Spec => PagesAdvance(L)`, if no output has more than `L` bytes | `OutputReaderProofs` |
| `TypeCorrect` | `Spec => []TypeOK` | `ServerLifecycleProofs` |
| `EditsWaitForRestartCorrect` | `Spec => []EditsWaitForRestart` | `ServerLifecycleProofs` |
| `UneditedMeansValidatedCorrect` | `Spec => []UneditedMeansValidated` | `ServerLifecycleProofs` |
| `MisconfiguredRunsNothingCorrect` | `Spec => []MisconfiguredRunsNothing` | `ServerLifecycleProofs` |
| `QueriesAreAuditedCorrect` | `Spec => []QueriesAreAudited` | `ServerLifecycleProofs` |
| `ServesWhatWasConfiguredCorrect` | `Spec => []ServesWhatWasConfigured` | `ServerLifecycleProofs` |
| `OnlyBearersPassCorrect` | `Spec => []OnlyBearersPass` | `ServerLifecycleProofs` |
| `CallsDescendCorrect` | `Spec => CallsDescend` | `ServerLifecycleProofs` |
| `IndexInvariant` | `Spec => []IndexInv` | `CommandValidationProofs` |
| `TypeCorrect` | `Spec => []TypeOK` | `CommandValidationProofs` |
| `TrieMeansItsEntriesCorrect` | `Spec => []TrieMeansItsEntries` | `CommandValidationProofs` |
| `AbbreviationIsDeniedCorrect` | `Spec => []AbbreviationIsDenied` | `CommandValidationProofs` |
| `PipeAllowsNoMoreCorrect` | `Spec => []PipeAllowsNoMore` | `CommandValidationProofs` |
| `NewEntryOnlyDeniesCorrect` | `Spec => NewEntryOnlyDenies` | `CommandValidationProofs` |

In every module each action has a lemma or a step of its own, and one lemma
says what the steps of others leave as it is: two calls share the audit log,
in which records are only appended, and the files, which are another matter.

**Permission.** `NoUnauditedExecution` is not inductive: a record reaches the
sinks one handler at a time, several steps before the command is sent.
`PermissionInv` follows it: while the attempt is logged, the first `emitted[c]`
handlers have it (and so all of them when `_emit` returns); past the decision
every configured sink has it; nothing was sent at the points before
`send_command`, and at most once after. `Linked` adds what the types need: a
call that started has its arguments, and one that writes has its file.
`GateRefinement` maps a call to the set of calls whose permission is recorded,
the number of its sends and the set of calls that are over. The step that
completes the record in the last sink is `Record` (it may end the call, when
that handler kept the line and then failed), a send is `Execute`, the end of a
call and a crash are `Finish`, and everything else stutters.

**Session and files.** `SessionInv` says that a session is open only inside the
with block: every exception raised there leads to `unwind`, which disconnects.
`FilesInv` adds to `FilesHoldTheirOutput` that a call about to write sent its
command once and has a file of its own device and command.

**Trails.** `TrailInv` says, for each control point, which sequence of records a
sink holds. While a record is being emitted this depends on whether the handler
of the sink has been fed (`Fed`), and an emit that returns has fed them all, so
the trail of every sink then is the full one (`Full`). A handler that fails may
or may not have kept the line: at the next point every sink has one of two
trails, which is why a second outcome can follow a first. `SendsInv` counts the
sends at each point and carries the outcome a pending clause will log; it needs
`~DisconnectMayRaise`, without which a late `disconnect()` logs a connection
outcome for a command that was sent. `DurableInv` says that a file is `Blank`
between truncation and write, and `Safe` after it: intact, or chosen by another
call too, and a chosen name is never given up.

**Groups.** `GroupInv` adds to `PermissionInv` what the calling thread knows: the
devices that wait were not called, a result belongs to a call that is over and
is one `DueResults` allows, at most one device is being saved, nothing is
collected before every job is submitted, a group that was denied touched
nothing, and one that raised has no call that runs. The theorems on results, denials
and pools are read off it. `AuditedInv` joins it with `TrailInv`: the trail of a
call that is over does not change any more. `GroupFilesInv` joins it with the
lemmas of `DurableInv`: with `save_output` the calls of the pool run with both
ways of saving switched off, so the only file of a pair is the one the calling
thread opens after the call is over, and it does so once; no step removes a file,
so the one an answer names is there.

**Reader.** `ReaderInv` says that byte `k` of any file is byte `k` of some save
to that file, torn or not, because every save starts at offset 0; so a file with
the bytes of one call is a beginning of its output, and its lines are those of
that beginning; and that the next offset of a client that reads forward is the
first plus the lines it has.
`UndisturbedInv` is about what stays as it is. `Copied` and `Reached`: of a file
that no call touches, the pages are the lines after the first offset, a
continuation names a line that is there, and an answer that is not a page comes
when nothing is left. `Kept`: a file name that only one call has (`Lone`, which a
later call can end and none can bring about) holds the output of that call, and
no one disturbs a client that asked for it when the save was over. The first two
give `PagesAreTheFile`; with the third the file is the output, which is
`SavedCanBeReadBack`.

**Server.** `ServerInv` has one part for each concern. `Placed`: a call in progress
belongs to the process that serves now. `Startup`: what was validated is what
the file held, until it is edited. `Configured`: the settings are those of the
sources. `Caching`: a call that began warm never loads; while nothing was
edited, all that is loaded or cached is what was validated, so it does not
matter which of two threads wins. `Auditing`: as in `PermissionInv`.

**Lists.** `LatestOfCommandFirst` rests on what `sorted` returns. `ListedBefore` is a
strict total order of the files of one device (`FilesAreOrdered`), by
`RankAssumption`: file name parts are compared as strings, so two of equal rank
are one. A finite set with such an order can be listed: the place of a member is
the number of members before it (`SortedListExists`), and so `Sorted` returns a
list in order (`SortedFiles`). `Sorted` is a definition of `OutputReader`, because the
provers cannot see into the sort of the `TLC` module. `ListingInv` says that the list
of a device has the files it had when its directory was read, those of every
save that was over when the client asked among them.

**Validation.** `IndexInv` says that the trie has exactly the nodes of its entries
and the flags they set, for any number of entries, in whatever order they came.
That the search finds what the entries mean one by one is an induction over the
words of a command, from the last to the first (`LevelMeansEntries`). The induction
theorems of the library take an operator as a parameter, which no prover here
can instantiate; the argument is by the least level at which the search and the
entries would disagree (`LeastNumber`). It gives `DeniedIsCaught`: the index denies
a command if and only if one of its entries does. Denials are closed under
abbreviation because the index denies all that the globs do (`GlobIsDenied`), and
an entry that denies a command denies its abbreviations (`DeniesShortened`).

**Bounded steps.** Liveness needs fairness and stays with TLC, but half of each
liveness property does not: that no schedule can go on for ever. `StepsLeft` maps a
state to a number that every step of the call makes smaller and no other step
makes larger. A call takes at most 36 steps: no except clause goes back to a point
above it (`CallsDescend`). A group takes at most five for each device and nine:
a device is submitted once, and one that has a result is not collected or saved again (`GroupsDescend`), which
needs `Answered`, that a call that returns has an answer. A tool call of the
server takes at most seven: the second decision of a group finds the cache
filled. A client that asks for at least one line has its offset advanced with
every page, a file has no more lines than bytes, and none grows beyond the longest
output, even when saves overlap (`PagesAdvance`). What is left to TLC and to fairness is that a step
of a call that is not over is possible, and is taken.

Model-checked only: `CallTerminates`, `GroupTerminates`, `FollowingEnds` and `CallsEnd`
themselves, for the reason above; and that no state with work left to do is
without a step (deadlock), which is about `ENABLED`. Every other property of the
runs that pass is stated by a theorem.

## What is not modelled

* `get_sanitized_inventory` and `get_group_names`: a filter of one dictionary,
  without state. The lookups of `inventory.py` appear as what they return or
  raise.
* The settings that are no part of startup are constants of the modules; which
  literals and types `pydantic` accepts is its own affair.
* Netmiko, TextFSM, `mcp`, `uvicorn` and `pydantic` are external: they appear as
  the exceptions they raise and the concurrency they create.
* Wording and layout of records and answers; the rule by which a device name is
  rejected as a path component is one way in which a save raises, and for a
  reader a name that is not there.
* Saved files are never removed by the code; that an operator removes some is
  left out.
* A bearer token with characters other than ASCII, which is decoded as latin-1
  and compared as UTF-8, and never matches.
* White space runs inside an entry of `commands.yml`: the regular expressions
  compare them, the filter splits them.
* Power loss: a line or file that was written stays written.
* A process that dies takes every call of the model with it (`CrashCalls`): several
  stdio servers that share the log and the directory, of which one dies, are
  not told apart.
* Some neighbouring steps are one: `is_file` and `open` of `load_commands`
  (`ReadCommands`); choosing a file name and opening the file in `ShowCommand` and
  `GroupCommand`, which `OutputReader` has apart (`NameOutput`, `OpenOutput`).
* That `validate_command` raises, on lists that are not lists, appears in
  `ServerLifecycle` only, where it ends the call before its first record; in
  `ShowCommand` and `GroupCommand` it answers.
* A `disconnect()` that raises counts as a disconnected session; whether the device
  has freed its line then is not known to the program.
* A character of a saved file is one byte. A write that ends inside a character of
  several bytes, whose file `read_text` then rejects, is left out.
* The threads of a pool are started as `max_workers` allows, also after a submit
  that could not start one; fewer threads only take the jobs later.

## What is left

1. A composition of `ServerLifecycle` with `GroupCommand`, in which the decision of
   a group and those of its devices are taken by the lists of the cache; the two
   meet now at `decided`, where one ends and the other begins.
2. The white space of entries in `CommandValidation`.
