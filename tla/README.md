# Verification of the OpenClaw workbench runtime

TLA+ models of the parts of the workbench runtime (`runtime/`) that several
processes, crashes and failing system calls can get wrong, with the TLC runs
that check them on small instances and the theorems that TLAPS proves for all
instances. Paths below are relative to the root of the repository's sources.

Run, in this directory:

    tlc -workers 2 -config MCWriteLock.cfg MCWriteLock.tla      # a model-checking run
    tlapm PatchTransactionProofs.tla                            # the proofs of a module

`PROJECT.json` lists the runs, the lines of code each definition models, the
mutants that show each property can fail, and the hazards.

## The system

A local server (`runtime/http-server.mjs`) or the command line lets a user, a
chat model or an MCP client *propose* changes of a workspace: patches, commands,
recoveries, configuration changes. A separate approval makes them happen. Nothing but
files in `.openclaw-workbench/` is shared between processes.

| component | code | state | operations | hard behaviour |
|---|---|---|---|---|
| workspace write lock | `change-transaction.mjs` 178-222 | the file `write.lock` | acquire, take over a stale lock, release | takeover races, crash between creation and metadata, failing release |
| patch transactions | `change-transaction.mjs`, `workspace.mjs` | manifest, snapshots, staged files, the targets | prepare, stage, commit file by file, verify, undo, clean up | crash between renames, edits by other programs, failing undo |
| recovery | `recovery.mjs`, `startup-recovery.mjs`, part of `http-server.mjs` | recovery proposals in memory | scan, finalise at start, propose, resume, rollback | proposals that are stale when approved, crash while recovering |
| snapshot store | `snapshot-store.mjs` | a snapshot file and its lock directory | read, compare and write | lost updates, locks left by crashes, failing clean-up |
| proposal store and approvals | `proposal-store.mjs`, `action.mjs`, part of `http-server.mjs` | records in memory and in `proposals.json` | put, claim, mark terminal, manual review, reject, restore | executing twice, restarts in the middle, two servers, failing writes |
| command ledger and workflow | `command-ledger.mjs`, `workflow.mjs`, `terminal.mjs` | one file per action hash | claim, update, scan, run a command | replays, a record that disagrees with the command's outcome |
| chat sessions | `session.mjs` | sessions in memory and in a snapshot | create, send, cancel, plan review, close, review, restore | turns that overlap at an `await`, cancellation racing an answer |
| agent loop, tools, policy | `agent-loop.mjs`, `tool-registry.mjs`, ... | one turn | call the model, call tools | limits, cancellation |
| plan review | `plan.mjs` | one review | ask several models | partial answers |
| event bus | `event-bus.mjs` | a bounded list of events with sequence numbers | publish, list after a cursor, subscribe | rollback of a failed publication, expired cursors |
| audit log | `audit.mjs` | a hash chain in a file, a lock directory | append, list, verify | forked chain, lock takeover, torn line |
| terminal sessions | `terminal-session.mjs`, `pty-provider.mjs`, `windows-pty-provider.mjs` and their helpers | sessions with output buffers, files, helper and child processes | create, start, write, cancel, persist, restore, close | start racing its timer, late handles, exits and closes in any order |
| MCP servers | `mcp-registry.mjs`, `mcp-runtime.mjs`, `mcp-transport.mjs`, part of `http-server.mjs` | configured servers, proposals, instances, children | register, update, enable, start, call, stop | approvals bound to an old configuration, an instance that closes while another starts |
| MCP over HTTP | `mcp-http-transport.mjs`, `mcp-bridge-server.mjs` | sessions, request ids, replay buffer, snapshots | initialize, call, subscribe, close, expire, restore | lost, repeated and late messages, replay after a restart |
| bridge tunnel | `bridge-tunnel.mjs` | child process, three shared promises | start, stop, reset | late reports and exits, processes that do not end |
| language servers | `lsp-client.mjs`, `lsp-server-registry.mjs` | pending requests, open documents | start, request, open, change, close, shutdown | positions in three encodings, late answers, edits asked for by the server |
| gateway | `gateway-*.mjs`, `openclaw-adapter.mjs` | a child process | start, stop | overlapping start and stop |
| models, configuration, secrets | `model-*.mjs`, `config-store.mjs`, `secret-*.mjs` | configuration file, key stores | read, propose, apply | stale revision |
| diagnostics, helpers, HTTP routes | the rest of `runtime/` | none of their own | read-only aggregation, text, I/O | - |
| Windows helpers, desktop, command line | `*.ps1`, `desktop/`, `bin/` | the runtime as a child process | start, stop | - |

Who calls whom: the approval handler claims a proposal in the **proposal store**,
whose file is written through the **snapshot store**; it then runs the workflow,
which for a patch takes the **write lock** and runs a **patch transaction**, and for
a command claims its hash in the **command ledger** and spawns it; the
**audit log** and the **event bus** record what happens. At start, **recovery** scans
what the transactions of dead processes left and finalises or reports it.
Sessions and events use the snapshot store as proposals do.

What makes each part correct:

- *write lock*: at most one holder; nobody removes a lock that is not theirs; a
  lock whose holder lives is released.
- *patch transactions and recovery*: all files new or all old in the end, or the
  means to get there on disk; nothing of another program is overwritten; manifests
  tell the truth; final manifests stay.
- *snapshot store*: no committed version is overwritten by somebody who does not
  know it; a lock left behind costs availability, never data.
- *proposals*: at most one execution; the claim is durable before it; an end is final;
  denied means not executed.
- *command ledger*: at most one process per action hash; the record agrees with
  the outcome.
- *sessions*: one turn at a time; an answer belongs to its question; a cancelled turn
  says nothing more.
- *events*: a sequence number stands for one event for ever, and a cursor skips nothing.
- *terminals*: no process outlives its session, and every session ends.
- *MCP servers*: what runs is what was approved, one child at a time. *MCP over HTTP*: a
  request is executed once, a subscriber misses nothing, a live session is kept, a
  closed one stays closed.
- *tunnel*: one process, whose end withdraws the endpoint; a stop wins over a start.
- *language servers*: both sides have the same text; an answer reaches its call.
- *audit* (not modelled): one unforked chain.

## Plan

The most dangerous state came first: locks, patches, snapshots, proposals, commands and
sessions, which decide what happens to the workspace and have proofs; then the
components that talk to processes and networks. All of these are done. What
is left, in order:

1. Proofs: the sessions that overlap (`raced`), for which less holds; what a patch comes to when a file is
   edited meanwhile, where `ActsAtomically` says nothing.
2. The agent loop with its limits, the debate of `plan.mjs`, configuration changes.
3. `ProposalStore` and `EventLog` over `SnapshotRegister` by `INSTANCE` instead of by
   the outcomes it allows.

## The modules

Conventions. An action is one system call or one stretch of code between two
awaits, named after what it does. `None` stands for an absent file or value. A
hash or digest stands for the content it belongs to. Processes die at any step,
and the calls of processes in `Faulty` (or all, under `Faults`) may fail. History
variables are marked as such; no guard reads them. Bounds are constants named `Max...`.
An operator named `...Mutant` is what a bug would have made of the definition below it:
`PROJECT.json` says which property finds it.

### WriteLock (`runtime/change-transaction.mjs` 178-222)

`lock` is the file `write.lock` with its creator, whether its metadata has been
written and whether it is old enough to be stale; `pc` is where each worker is in
`acquireWorkspaceWriteLock` or in the release closure; `epoch` counts the restarts of each
process, so that a lock knows whether its process is gone. `Open`/`OpenExists` are
the exclusive open, `InspectStale`/`InspectBusy` the look at the metadata and the
pid (whose reuse is `PidReuse`), `Quarantine` the rename that moves the lock aside, `Recreate`
the second open, `WriteMetadata`/`WriteFails`/`LockCleanup` the metadata, `Release`/`Unlink`
the closure. `Age` and `LockCrash` are the environment.

- `lock` (`MCWriteLock.cfg`): three workers, two of them in one process, two
  restarts per process, reused pids, failing I/O in one worker. Two contenders and a
  dead holder are what every race of the takeover needs; the second restart lets a
  lock go stale that was itself created by a takeover. `Exclusion` holds up to the first time
  a takeover renames a lock it has not judged (`raced`), which the code allows (see
  Disagreements); liveness is `LiveLockReleased`.

The last part of `PatchTransactionProofs` proves `LockTypeOK`, `Exclusion`, `OwnLockAtPath` and
`OthersLockKept`. The inductive invariant is `LockTypeOK /\ JudgedDead /\ OwnLockAtPath`: exclusion
follows because two owners would both be the creator of the one file; `OwnLockAtPath` is kept
by a rename only because the judged lock is that of a dead process, which is `JudgedDead`
(a process that is dead stays so: `DeadStaysDead`).

### AtomicPatch and PatchTransaction (`change-transaction.mjs`, `recovery.mjs`, `startup-recovery.mjs`, part of `http-server.mjs`)

`AtomicPatch` is the promise, without crashes, faults or recoveries: a patch is committed, and then all of
its files are new, or rolled back, and then none is (`Commit`, `RollBack`).
In `PatchTransaction`, `file` is the workspace; `manifest`, `before`, `after`, `snapshot` and `temp` are
what a transaction has on disk; `expected` is the revision bound to the action,
`scanned` and `proposal` are what start-up scans and operators have decided and not
yet done; `op` is the running operation (apply, resume, rollback, finalise) with its stage, the
files left to do and those done. The actions run through `applyPatchTransaction` in
the order of the code: revision, read, manifest, snapshots, staged files, second
revision check, `committing`, then per file check, rename and read back, the undo
in the catch and the clean-up in the finally; recoveries share the replacing and undoing
actions. Other programs `Edit` files between any two steps.

- `patch` (`MCPatchTransaction.cfg`): one patch on two files, two edits, everything may fail.
  Two files are the least with a partial commit; two edits hit both of them, or one
  of them twice; git ignores the second, so that the revision (`Hashed`) misses its edits. 81,561 states.

`RollbackStaysPossible`, `ActsAtomically` and `RolledBackIsUntouched` speak of runs
without edits by others: with them the code refuses, which is `KnownContentOnly`.
`RolledBackIsUntouched` allows for one file whose verifying read failed (see Disagreements).

`ActsAtomically` is the refinement, step by step: `Atomic == INSTANCE AtomicPatch` with `Status`, what the final manifests say,
and `Content`, which is the file, or what a transaction found there as long as its manifest is pending. The renames of
a commit and of an undo, crashes between them, start-up scans and refused recoveries are stutters; the step that writes the final
manifest is the `Commit` or the `RollBack`, and it is one whether an apply, a resume, a rollback or a finalisation writes it.
Two things the code does beyond that promise are in the abstract specification, the third is a hypothesis:
- `MayMiss`: where a verifying read may fail (`VerifyFaults`), a roll-back may leave one file new.
- `Recognise`: a finalisation reads the files again but not the manifest; if every file holds what the patch makes of something,
  which it may also do after a roll-back (another patch may have the same result), a manifest that says `rolled_back` becomes `committed`.
- Two transactions that are on their way at once have to share no file (`Apart`), or the content before the first cannot be told from
  the content before the second. A transaction that dies, or cannot write its last manifest, stays pending, and the code lets another begin
  on the same files, so this is a hypothesis, and so is that nobody else edits (`edits = 0`). Where neither happens `Apart`
  always holds, since the write lock lets one operation run at a time.

In the run there is one patch, and `Apart` holds throughout. With two patches that share a file, TLC has once
explored all 693,786 states in which only verifying reads fail and 2.7 million of those in which everything does, without an exception.

`PatchTransactionProofs` proves all safety properties of the run, and `TypeOK`, `SnapshotsFirst`,
`KnownContentOnly`, `FinalStays` and `CommittedIsComplete`, for all sets of patches, files and contents. The invariant `IInv` says what each stage
may rely on: `Prepared` (everything an undo needs is there from `stage` on), `SnapshotIsBefore`,
`NothingOnDisk` (a transaction still reading has no manifest a scan could find),
`ManifestKept` (the manifest of a running operation is the one it wrote), `RenameChecked`
(what was compared still holds unless it was edited). `KnownContentOnly` is `RenameChecked`
read at the rename; `SnapshotsFirst` is `Prepared` and `ManifestKept` read there; none of them is inductive
alone.

The other three follow from how far an operation has come, which four more invariants, proved on top of `IInv`, say for
as long as nobody else edits: `Untouched` (before its first rename an apply finds what it read), `Replaced` (what is no
longer to do holds the content wanted, so that `finish` leaves all files there: `CommittedIsComplete`), `Undoing` (what an apply
has done is what it will undo, and an undo misses one file at most: `RolledBackIsUntouched`), and `Recoverable`
(a transaction past its preparation that is alone with its files knows the content of each of them, also between two
renames and after a crash there: `RollbackStaysPossible`). They need that a patch names a file (`TargetsAssumption`),
which `parseUnifiedPatch` enforces with `PATCH_NO_FILES`.

`ActsAtomicallyTheorem` and `AtomicRefinement` (`Spec /\ [](edits = 0 /\ Apart) => Atomic!Spec`) rest on these and on one more invariant,
`Planned`: what a transaction is to write is what its patch makes of what it has read, a manifest lists what was read of every file, and a
finalisation deals with a manifest that is there.
`ContentIs` gives `Content` in each kind of state without its `CHOOSE`, which is where `Apart` is needed; then every action
is a step that leaves `Content` and `Status` alone (`QuietStep`, `WritingStep` for what changes files) or ends a transaction (`EndingStep`).

### SnapshotRegister and SnapshotStore (`snapshot-store.mjs`)

`SnapshotRegister` is the promise: a register that a manager overwrites only if it holds what
that manager has loaded or last written, and of whose success it may fail to hear.
`SnapshotStore` is `writeSnapshotAtomically` call by call: the lock directory,
`owner.json`, comparison, rename, and the clean-up `removeOwnedLock` with its failures;
`OperatorRemovesLock` is the removal by hand the documents ask for. Session manager,
proposal store and event bus are its users: their modules take the write as one step with the
outcomes the register allows.

- `snapshot_store` (`MCSnapshotStore.cfg`): three processes, two of which meet failing calls, one
  crash, two versions. Lost updates need two writers and a version each has not seen;
  the third process finds the lock the others leave. `Implements` is the refinement.

The last part of `EventLogProofs` proves `StoreTypeOK`, `OneWriter` and the refinement `Implements` (`StoreRefinement`):
the event log is one of the store's users. The invariant: a write that
has begun holds its lock (`InsideHolds`), so that nothing comes between comparison
and rename (`NothingBetween`), nor between rename and removal (`StillThere`). Each step
then maps to a `Commit`, `Learn`, `Load`, `Stop` or to no step of the register.

### ProposalStore (`proposal-store.mjs`, `action.mjs`, handlers of `http-server.mjs`)

`disk` is `proposals.json`, `mem` and `known` are the records and the digest of each server,
`open` what it created since its start, `run` the stage of each approval. `Create`, `Claim`,
`Reject` are handlers; `Precheck`, `Execute`, `Finish`, `RecordVerified`, `RecordFailed`
and `RecordReview` follow an approval through its awaits to its catch; `Start` restores. `ran` counts
executions.

- `proposal_store` (`MCProposalStore.cfg`): two proposals, two servers, two crashes, failing writes
  in one server: every pair of handlers meets, in one server and across two. `StartsClaimed`
  and `ClaimSettles` hold while servers do not overlap (`overlapped`): a
  second server's start rewrites what it does not know the first one is doing.

`ProposalStoreProofs` proves `TypeOK`, `RunsOnce`, `RunIsDurable`, `EndIsFinal` and `StartsClaimed`. The key is
`KnownBehind`: the rank of a record only grows, so a server whose digest is behind stays behind
and its writes are refused; with `ClaimHeld` and `OneClaim` this gives at most one execution. `StartsClaimed` needs `ClaimOnDisk` as
well: as long as servers do not overlap there is one of them, which does not start over its own claims, so that a claim
not yet worked off stays on disk whatever the writes for other proposals come to.

### CommandLedger (`command-ledger.mjs`, `workflow.mjs`, outcome of `terminal.mjs`)

`ledger` has a record per action hash; each call has its `pc` in `approveAndRunCommand`,
its `outcome`, its `answer` and its process `childOf`; `holder` is history: which call has
linked the record. Claim (an exclusive link), approval, `executing`, spawn, the wait that
ends with the child, the timer or an abort, the record, the audit entry, and the catch that
records a failure. A child goes on after its call has stopped waiting.

- `command_ledger` (`MCCommandLedger.cfg`): three calls, two proposals of one hash, one call with
  failing operations, crashes anywhere. Records of different hashes do not touch, so one hash is
  enough; the third call meets what the first two leave.

The last part of `BridgeTunnelProofs` proves the safety properties of the run, and five more: a command is, like
a tunnel, a program the runtime spawns. `OneHolder` ties every working call
to the record it linked and `RecordFollows` says what the record says at each of its
points; `SpawnedOnce` follows from the first, the others from both.

### ChatSession (`session.mjs`)

`mem` and `disk` are the sessions in memory and in `sessions.json`; `controller` is the map of
AbortControllers, `pending` the model runners that have not settled, `pc` the stage of each turn.
A turn goes from one await to the next; its catch and its finally are run through in one go, but
with a possible crash between their two writes. `Send` and `SendResolving`/`Resolved` are
`sendMessage` without and with a model to look up, `Plan...` is `planReview`, `RunnerSettles`
is the callback that frees a session whose review has ended before its runners.

The code checks that a session is idle *before* it awaits the model lookup and marks it *after*:
two turns may begin together. The model has this; `raced` records it, and the properties speak
of runs up to that moment. Through the HTTP server the lookup is synchronous and the window
is one microtask, in which no second request is handled; a caller that passes a slow
`modelResolver` opens it.

- `chat_session` (`MCChatSession.cfg`): one session, one turn of each kind, one crash, one failing
  write. Turns of different sessions share only the snapshot. The three turns give every overlap
  of two and a third one after a failure; the fault may hit any write, and one that is written
  and reported as failed makes all later ones fail as well.

`CancelledIsSilent` is about turns in an agent loop or a review, which look at the signal; the
plain call of a model without tools may answer after it was cancelled.

`ChatSessionProofs` proves `TypeOK` and the four safety properties, for any number of sessions, turns, crashes and failing
writes. `RunningIsTrue` and `InterruptionIsOnDisk` are parts of the invariant themselves, beside
`SessionsKnown` (a session in memory is on disk), `StagesKept` (the order of the stages; a dead process does nothing),
`SyncedKept` (a snapshot is refused only after a fault) and, for runs without overlapping turns,
`ControllerKept` (the controller in the map is that of the turn under way, so that a cancellation aborts the turn it was meant for, which is
what `CancelledIsSilent` needs at the turn's answer),
`SilentUntilAsked` and `QuestionLast` (a turn has no message before its question, and its question is the last message
while the model is asked: what the catch takes back is its own) and `ResultsKept`, which is `AnswerIsStored`
from the turn's last await on, in memory and on disk. Each action has a lemma that says what it writes
(`...Shape`); what a session holds of a turn is kept by other turns (`Others`) and changed as it should by
the turn itself (`...Texts`).

### EventLog (`event-bus.mjs`, event routes of `http-server.mjs`, `connectEvents` of `control-panel.mjs`)

`file` and `bus` are the log on disk and in memory, `current` whether the bus knows the digest of
the file; `cursor`, `stream`, `mark` and `wire` are a reader's side. Handlers run without an await, so
that `Publish`, a page and the opening of a stream are one step each; between them the
server is killed or closed, another one writes the file, a connection drops. A connection that breaks makes the
panel's timer connect again (`"off"`); one that `Stop` ends cleanly does not (`"idle"`, as after a reload), until
its user clicks Connect. `unsent` records the one gap the code
leaves: a stream subscribes after the latest sequence, while its first page holds at most
`PageLimit` events.

- `event_log` (`MCEventLog.cfg`): a panel on the stream and a poller, four events of which two
  are kept, pages of one, three failures or closes: cursors expire, pages overflow, failed writes are
  repeated. 39,100 states. `PanelCatchesUp` lets a panel that waits for a click be behind, and only once it has read
  all that the ended stream had.

`EventLogProofs` proves `TypeOK`, `ShownIsStored` and `CursorCoversHistory`, for any panels, pollers, limits and numbers of
events and failures. `LogsKept`: both logs are numbered without a gap, so that what lies after a
cursor (`After`) is an end of the log, and what the bus holds is stored. `DeliveryKept`: what is on its way is stored, and
no cursor is ahead of the file. `StreamsKept`: an open stream brings all that its first page had room for.
`CoverKept`: what lies before a cursor has been shown, and will have been when the reader has read up to an event on its way.
`ReaderByReader` turns the invariant into one of a single reader, so that a step of one reader is looked at once.

### TerminalSession (`terminal-session.mjs`, both PTY providers with `pty-bridge.py` and `windows-pty.ps1`)

A session has its record (`status`, `output`, `input`), its file (`disk`, `dirty`), its entry in
`runtimes`, its timer, the stage of its `create`, and the `process` behind it: the provider's helper with its
child, whose exit and whose end of output come one after the other. `platform` chooses in `Init`
which provider's signals, clean-up and exit status apply. `OpenCwd`, `Launch`, `ProviderTimeout`, `Timeout`,
`Cancel`, `CancelReturns`, `Exit` and `Close...` are the awaits and callbacks of the manager; `HelperStarts`,
`ChildEnds`, `HelperExits`, `HelperCloses` the helper on Windows. That the helper on Windows dies
with the server, through the job object Node puts its children in, is assumed.

- `terminal` (`MCTerminalSession.cfg`): a session with a PTY and a controlled command, one place
  (`MaxSessions = 1`), one chunk of output, one failing write or crash, both platforms: the second
  session makes creations overlap, the failure may hit any write. 93,557 states.

`NoOrphan` is about processes that nobody has signalled. A signal does not always end them (`"told"`): a controlled
command gets a SIGTERM and no SIGKILL, and a SIGTERM that comes before the POSIX helper has its handler (`"starting"`)
ends the helper alone, so that its child gets no more than the hangup of its terminal.

`TerminalSessionProofs` proves `TypeOK`, `NoOrphan` and `LimitHolds`. For `NoOrphan` the invariant adds
`ProcessKept` (nothing is spawned before the launch, what is being cancelled has been signalled, a handle that is still
awaited is not held) and `DiskKept` (what had a process has a file, so that no id is used twice and
a restart resumes nothing as running). The limit is proved for `CountKept`, the union of the sessions that run or are being
created: `Create` compares the sum of the two counts, which is no less, and no other step enlarges the union.

### McpServers (`mcp-registry.mjs`, `mcp-runtime.mjs`, `mcp-transport.mjs`, part of `http-server.mjs`)

`record` and `disk` are the server's entry in memory and in the snapshot (`torn` if a write that was reported
as failed is in place), `pending`, `claimed` and `request` the proposals with the approvals that execute
them, `instance`, `child` and `transport` what runs. An approval checks the hash of the configuration it
was proposed for, claims, executes and settles, with an await between any two of these. `child` is what a transport
holds, `process` what lives: a close or `terminate` only sends SIGTERM and lets go at once, so that the old
process may live beside its successor until `ProcessEnds`. `RuntimeClose`, `CloseLeaving` and `LeavingClosed` are the close of
the runtime, which takes the instance off the register first (`leaving`) while the HTTP server still answers.

- `mcp_servers` (`MCMcpServers.cfg`): two launch configurations, of which one is proposed, with a tool, two proposals, requests
  and instances at a time, one failure, crash or close. One server is enough: servers share the snapshot only, which is written
  as a whole. Two instances are what a start that overlaps a stop needs. 2,164,945 states.

`McpServersProofs` proves `TypeOK` and the four properties of the run. `RunsItsConfig` needs
`RequestKept` (a request works with a proposal and an instance that are there), `InstanceKept`
(an instance is registered from its start until its transport is closed or the close of the runtime has reached it, and has a
child only then) and `StopKept` (a stop that returns has closed its instance or finds it forgotten, and removes no other).
`OthersToldToEnd` follows from `InstanceKept`.

### McpHttp (`mcp-http-transport.mjs`, `mcp-bridge-server.mjs`)

The client (`session`, `request`, `sub`, `cursor`), the network (`wire`, `reply`, `pipe`) and the server (`live`, `owner`,
`buffer`, `snapshot`, `stored`) are composed: requests and answers are lost, repeated and late, the stream breaks, sessions
expire, snapshots fail to be written and the server restarts from them. `ran` counts tool calls.

- `mcp_http` (`MCMcpHttp.cfg`): two requests, either of which may open a session, two sessions, a
  replay buffer of one event out of two, two faults: a repeated request after a close, a late
  answer of the first session during the second, a cursor before, at and beyond the buffer. 1.9 million states.

`McpHttpProofs` proves `TypeOK` and the four properties of the run, for any requests, sessions, limits and faults.
`ToolRunsOnce` and `FramesInOrder` are parts of the invariant. The first needs `SessionsIssued` (whom anybody knows has been made: the next id is
new), `CopiesAgree` (all copies of a call carry one session) and `RanIsSpent` (what is left of a call that ran meets a session that has claimed its id
or is over; a session that is over never comes back). The second needs `PipeKept` (frames on their way
follow one another, up to the latest event while the stream is open). `LiveSessionKept` is `AnswersTrue`, a
404 is about a session that is over for good, read where the client takes one; a client drops its session only when it closes
or terminates it, when a fault is reported, or when the server does not serve it any more. `TombstoneStays` needs `TombstonesKept`:
the file's tombstones are the server's, and not those of sessions that live or are still to come. `NoneAssumption` says that `None` is no session, event, answer or
snapshot.

### BridgeTunnel (`bridge-tunnel.mjs`)

`start`, `stop` and `reset` are where each of the three shared promises is; `generation` and `child` are the
adapter's, `process` the processes it has spawned. `...Continues` is what runs when an awaited promise has
settled: another call may come first, an event of a process or a timer may not.

- `tunnel` (`MCBridgeTunnel.cfg`): three processes, calls at any moment, kills that do nothing, so that an old process
  ends and prints while a newer start waits. 21,138 states.

`BridgeTunnelProofs` proves `TypeOK`, `OneTunnel`, `EndpointIsLive` and `StopWins`. `HandleKept` says that
what runs is the last process spawned and is `child`; `StopKept` that a stop or a reset has ended the generation, which is
why a start that it interrupts cannot report success; `StartKept` that the start no stop has interrupted has a routed
process which has not exited.

### LspData and LspClient (`lsp-client.mjs`)

`LspData` is the arithmetic: columns in UTF-8, UTF-16 and UTF-32 over an alphabet of six units that tells
apart what the code tells apart, lines, incremental changes, and the normalisation of a workspace edit; `ServerText` is
what a server makes of the same change, by the protocol and not by the code. `LspClient` has the
calls of `request` with their ids and timers, the documents on both sides, and the servers, which answer,
ask for edits, exit and send broken frames, an earlier one included.

- `lsp` (`MCLspClient.cfg`): two servers one after the other, three calls, texts with a surrogate pair,
  a two-byte character and CR LF, changes alone and in a row at whole and broken columns in every encoding,
  every workspace edit of up to two items and chosen ones of three. 468,640 states.

The last part of `McpHttpProofs` proves the three properties of the run: the language client, like the MCP client, matches answers
that may be late to calls. `CallsMatch` needs `CallsNumbered` (ids are given out in order), `CallsKept` (a call
waits under its own number) and `AskedKept` (what a server was asked is a call made to it, so that an answer that comes after a restart finds no
waiting call).

`CollectItem` is the body of the loop of `collectWorkspaceEditProposal` and `EditAnswered` what follows it, so that an edit is gone
through item by item, as the code does and without recursion. `ProposalIsExactTheorem` has the loop invariant `EditKept`: the
proposal so far is exactly what the items done so far ask for (`Exact`), with each file once, under the version its edits name and with its edits in order.
From it follows that the proposal keeps the order of any two items (`InServerOrder`), except that of a text edit after a file operation and of
text edits of two documents.
The theorem is for edits of any length over any items.

`InSyncTheorem` separates the protocol from the text functions: if the changes do not
lead out of the texts considered, but for texts longer than a document may be (`ClosedUnderChanges`), and both sides make the same of each change
of such a text (`PlacesAgree`), the documents are the same whatever
starts, exits, broken frames, encodings and timers do, and keep to their bounds (`LspTypesTheorem`). That the two agree on a text is computed by recursive
functions, which the provers cannot unfold. `InSync` in the run checks it on the texts that are reached; evaluated by TLC on every
text of up to four of the six units, with the changes of the run and all three encodings, it has no exception. The two hypotheses hold of a
finite set: starting from the texts of the run, its changes lead to 723 texts of at most nine bytes, and TLC has found that set closed and
both sides in agreement on each of its texts, so that for these texts and changes `InSync` holds of any number of versions.

## Fairness

Every liveness property is checked under weak fairness of the continuation of code that has already
begun, never of calls, crashes, faults or edits. The code justifies it: file operations return, a
holder releases in a `finally`, the write of a snapshot is synchronous, commands, starts, stops and terminal
sessions have timers, and model calls and helper processes have time limits. Continuations of a settled
promise run before anything else. Steps that belong to the outside (a child that ends, a process
that reports a URL, an operator, `Age`) have no fairness. `PanelCatchesUp` also assumes that a server that has
ended is started again; a panel's connection is due only when the code has set its timer, never after a clean end. `McpServers`, `McpHttp` and `LspClient` have safety properties only.
Runs that disable the deadlock check are systems that may stop: all
proposals, calls, requests or turns of the instance are used up.

## What is proved and what is only checked

Assumptions of the proofs are the named `ASSUME`s of the modules: constants have their types, and `None` is none
of the values it stands beside. TLC evaluates them in every run.

Proved for all instances, by the modules `...Proofs`: the type invariants of all modules that have state, and
every safety invariant and action property of the runs (`InSync` under hypotheses on its texts):

| module | of the runs | more |
|---|---|---|
| `PatchTransactionProofs` | `ActsAtomically`, `RolledBackIsUntouched`, `RollbackStaysPossible`; `Exclusion` | `CommittedIsComplete`, `SnapshotsFirst`, `KnownContentOnly`, `FinalStays`, the refinement of `AtomicPatch`; `OwnLockAtPath`, `OthersLockKept` |
| `ProposalStoreProofs` | `RunsOnce`, `StartsClaimed` | `RunIsDurable`, `EndIsFinal` |
| `ChatSessionProofs` | `RunningIsTrue`, `InterruptionIsOnDisk`, `AnswerIsStored`, `CancelledIsSilent` | |
| `EventLogProofs` | `ShownIsStored`, `CursorCoversHistory`; `Implements` | `OneWriter` |
| `TerminalSessionProofs` | `NoOrphan`, `LimitHolds` | |
| `McpServersProofs` | `RunsItsConfig`, `RecordIsStored`, `OthersToldToEnd`, `CallHasChild` | |
| `McpHttpProofs` | `ToolRunsOnce`, `FramesInOrder`, `LiveSessionKept`, `TombstoneStays`; `CallsMatch`, `ProposalIsExact`, and `InSync` on texts where changes agree | |
| `BridgeTunnelProofs` | `OneTunnel`, `EndpointIsLive`, `StopWins`; `SpawnedOnce`, `AnswerIsRecorded` | `RunIsRecorded`, `VerifiedIsTrue`, `RecordedIsOver`, `ReviewHasReason`, `RecordMovesOn` |

Four of these modules prove about two components, one after the other, and extend both. The two have no constant, variable or
definition in common: in `WriteLock`, `SnapshotStore`, `CommandLedger` and `LspClient`, whose theorems come second (after the
semicolon), names that others use begin with `Lock`, `Store`, `Ledger` and `Lsp` (`LockInit`, `StoreSpec`, `lspVars`), and a theorem about one component
uses nothing of the other. What is in the last column is not in a run any more, since the theorem says more.

Checked only on the instances above:
- What the operators of `LspData` compute (`PlacesAgree`): they recurse over texts, and the provers cannot do
  induction over data. TLC evaluated it as described under `LspClient`.
- Liveness (`LiveLockReleased`, `OperationEnds`, `LockRemoved`, `ClaimSettles`, `CallEnds`, `BecomesFree`,
  `PanelCatchesUp`, `SessionEnds`, `CallsEnd`): fairness and ENABLED are out of the provers' reach.

## Disagreements

What the models show of the code that its documents or comments say otherwise, or that a reader may not expect.
The properties are stated around these, so that the rest is still checked.

- *Takeover race* (`change-transaction.mjs:197`): the rename moves whatever lock is there; of two
  contenders that judged the same stale lock, the slower removes the new lock of the faster, and both
  may write. The comment at line 195 says that it avoids this. (`raced` in `WriteLock`.)
- *Failed verification read* (`change-transaction.mjs:173`): the replaced file is not counted as
  replaced, the undo leaves it new, and the manifest says `rolled_back`; `docs/04-review-log.md:301` has it undone.
- *Same hash* (`command-ledger.mjs:47`): a second proposal of the same command has another id and the
  same hash; it is answered with `COMMAND_LEDGER_FAILED`, not with the replay error of the documents.
- *Success recorded as failure* (`workflow.mjs:125`): if the audit entry of a command that succeeded cannot be
  written, the catch overwrites `verified` with `failed`.
- *Lost review* (`session.mjs:138`): a session in manual review is stored with `running` false;
  the restart after the next makes it active, without the review.
- *Overlapping turns* (`session.mjs:173`): the check precedes an await and the mark follows it (`raced` in `ChatSession`).
- *Denied and executed* (`http-server.mjs:885`): the approval of an MCP proposal looks it up and then awaits the body of its
  request; a denial that comes in that await deletes the proposal, which is executed none the less, and so is, once more, a proposal
  that another approval has executed by then. The window is in the model (`Ask`, `Approve`): what is executed in it
  still needs the configuration it names (`RunsItsConfig`): a call of a tool may run twice, a change only if that configuration is back.
- *Terminating a session* (`mcp-http-transport.mjs:170`): a late answer to the DELETE of an old session clears a newer one,
  which the 404 branch is careful not to do; `LiveSessionKept` excepts it.
- *Clean end* (`control-panel.mjs:44`): the panel's reading loop stops at `x.done` and only its `catch` and a 409 set the timer;
  the server's `close` ends the streams cleanly (`http-server.mjs:1345`), so that after a regular restart an open panel shows
  "event stream connected" and no event, until Connect is clicked. (`"idle"` in `EventLog`.)
- *First page* (`event-bus.mjs:94`): a panel more than 100 events behind never sees the rest of them (`unsent`).
- *Terminals*: a session counts twice against the limit while it starts; a controlled command cancelled between its
  first write and its start still runs once; one that ignores its SIGTERM outlives its session (`terminal.mjs:168`), and so may
  a child that ignores a hangup, where `pty-provider.mjs:16` says that the helper forwards the signal and escalates to SIGKILL, if
  the signal comes before the helper's handler (`pty-bridge.py:207`); on Windows, input written while the helper cleans up turns a child that succeeded into
  a failed session; cancelling ends mostly as `cancelled` on Windows and as `failed` elsewhere.
- *Overlapping servers* (`mcp-transport.mjs:177`): stop answers when SIGTERM is sent, so that the next start may run the new
  process beside the old one, which no later SIGKILL ends. While the runtime closes, an approved start is run all the same and its
  child is not closed by it, and the configuration may be changed beside an instance that has yet to be closed
  (`mcp-runtime.mjs:150`). `OthersToldToEnd` and `RunsItsConfig` are what is left.
- *MCP servers*: a child that dies leaves its instance `ready`; a failed write during a health check may leave the snapshot
  ahead of memory, which then cannot be written any more.
- *Tunnel*: late output of an old process may set the URL that a newer start waits for.
- *Language servers* (`lsp-client.mjs`): `closing` is never set back, so that after a close no exit is noticed and a restarted
  server's calls end by their timers; the frame buffer and the open documents outlive an exit; a second start while
  starting abandons the first child; a position on the empty line after a final newline is rejected.
- *Order of an edit* (`lsp-client.mjs:341`): text edits and file operations are "BOTH proposal data only, in the order the server sent
  them", and `tests/lsp-doc-sync.test.mjs:299` says that mixed ones "keep server order". The code keeps them in two lists, so that
  a proposal cannot say that a text edit follows a file operation (create a file, then fill it). (`Reordered` in `LspData`.)

## Not modelled

`PROJECT.json` lists every component with its reason. Left out for good: parsing of diffs, the policy
tables, redaction and path checks (pure functions on text, out of TLC's reach as data and without
state), the key stores and PowerShell file helpers (single calls of the operating system), the desktop's
user interface. The audit log's lock is the write lock's protocol again; the gateway is the tunnel's with less in
it. Left out so far: what the plan names. Inside the modelled parts, each module's
header lists its simplifications; the ones that matter most are that one process at a time uses a
session snapshot, and that the write lock is perfect in `PatchTransaction` (it is, outside the takeover
race of `WriteLock`), whose Windows branches take the same steps.
