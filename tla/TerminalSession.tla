--------------------------- MODULE TerminalSession ---------------------------
(***************************************************************************)
(* createTerminalSessionManager of runtime/terminal-session.mjs, with the  *)
(* processes it runs: through the PTY provider of its platform             *)
(* (pty-provider.mjs with its helper pty-bridge.py, windows-pty-provider   *)
(* with windows-pty.ps1), or as a controlled command when it has no        *)
(* provider.  A step is what runs between two awaits, timers or callbacks. *)
(*                                                                         *)
(* Simplifications:                                                        *)
(*   - A session's id is used once.  Its output is a number of chunks.     *)
(*   - taskkill ends the tree it is given.                                 *)
(*   - The writes of a session are one after the other and write what the  *)
(*     record holds when they run, so that pending ones count as one.      *)
(*   - Reading and resizing change nothing here; a write does when the     *)
(*     Windows helper has closed its input.                                *)
(*   - One instance holds sessions of a manager with a provider and of one *)
(*     without; all of them count for maxSessions.                         *)
(* An operator named ...Mutant is a faulty variation of the definition     *)
(* after it; the specification does not use it.                            *)
(***************************************************************************)
EXTENDS Integers, FiniteSets

CONSTANTS
  Sessions,     \* the ids of the sessions ever created
  Provided,     \* those whose manager has a PTY provider
  MaxSessions,  \* the limit of the manager
  MaxOutput,    \* maxOutputBytes, in chunks
  MaxFailures,  \* bound: crashes and failing writes
  None

ASSUME ConstantsAssumption ==
  /\ IsFiniteSet(Sessions)
  /\ Provided \subseteq Sessions
  /\ {MaxSessions, MaxOutput, MaxFailures} \subseteq Nat

ASSUME NoneAssumption == None \notin {"running", "exited", "cancelled", "timed_out", "failed", "manual_review"}

Ended == {"exited", "cancelled", "timed_out", "failed", "manual_review"}

VARIABLES
  platform,    \* process.platform: "posix" stands for all but "win32"
  up,          \* whether the server runs
  closing,     \* close: "no", "waiting" for creations, "cancelling", "done"
  status,      \* per session: the status of its record, None without one
  output,      \* the chunks of its record
  input,       \* whether its capabilities allow input
  disk,        \* the status in its file, None without one
  dirty,       \* whether a write of its record is pending
  creating,    \* its create: "no", "reserved", "persisting", "starting"
  runtime,     \* its entry in runtimes: "none", "waiting" or "held" (handle)
  timer,       \* whether its timeout is armed
  cancelling,  \* whether a cancel waits for its handle
  process,     \* "none", "asked" (of the POSIX provider), "starting" (the
               \* Windows helper has no child, the POSIX one no handler yet),
               \* "live", "termed" (the POSIX helper has a SIGTERM), "leaving" (a
               \* SIGTERM ends the POSIX helper without its handler, or a command
               \* has one, and its end is yet to be reported), "cleaning" (the
               \* Windows helper has seen its child end), "doomed" (the child
               \* will die, or was killed), "succeeded" and "broken" (the
               \* Windows helper has exited with 0 or not, its output is still
               \* open), "told" (it has a signal, may live on, and nobody looks
               \* after it any more), "gone"
  failures

vars == <<platform, up, closing, status, output, input, disk, dirty, creating,
          runtime, timer, cancelling, process, failures>>

Processes ==
  {"none", "asked", "starting", "live", "termed", "leaving", "cleaning", "doomed",
   "succeeded", "broken", "told", "gone"}

TypeOK ==
  /\ platform \in {"posix", "win32"}
  /\ up \in BOOLEAN
  /\ closing \in {"no", "waiting", "cancelling", "done"}
  /\ status \in [Sessions -> Ended \cup {"running", None}]
  /\ output \in [Sessions -> 0..MaxOutput]
  /\ input \in [Sessions -> BOOLEAN]
  /\ disk \in [Sessions -> Ended \cup {"running", None}]
  /\ dirty \in [Sessions -> BOOLEAN]
  /\ creating \in [Sessions -> {"no", "reserved", "persisting", "starting"}]
  /\ runtime \in [Sessions -> {"none", "waiting", "held"}]
  /\ timer \in [Sessions -> BOOLEAN]
  /\ cancelling \in [Sessions -> BOOLEAN]
  /\ process \in [Sessions -> Processes]
  /\ failures \in 0..MaxFailures

Always(value) == [s \in Sessions |-> value]

Init ==
  /\ platform \in {"posix", "win32"}
  /\ up = TRUE
  /\ closing = "no"
  /\ status = Always(None)
  /\ output = Always(0)
  /\ input = Always(FALSE)
  /\ disk = Always(None)
  /\ dirty = Always(FALSE)
  /\ creating = Always("no")
  /\ runtime = Always("none")
  /\ timer = Always(FALSE)
  /\ cancelling = Always(FALSE)
  /\ process = Always("none")
  /\ failures = 0

Set(f, s, value) == [f EXCEPT ![s] = value]

OnWindows(s) == s \in Provided /\ platform = "win32"

\* finish: only a running session ends, and its record is written.
Finish(s, end) ==
  IF status[s] = "running"
  THEN status' = Set(status, s, end) /\ dirty' = Set(dirty, s, TRUE)
  ELSE UNCHANGED <<status, dirty>>

\* The cancel of a handle, or the abort of its signal: on POSIX the helper's
\* group gets a SIGTERM, which ends a helper that has no handler for it yet.
Terminated(state) ==
  IF state = "live" THEN "termed" ELSE IF state = "starting" THEN "leaving" ELSE state

\* killTree: on Windows taskkill ends the helper and its child at once.
KilledTree(state) == IF state \in {"starting", "live", "cleaning"} THEN "doomed" ELSE state

\* A controlled command that is aborted gets a SIGTERM, and nothing after it.
Aborted(state) == IF state = "live" THEN "leaving" ELSE state

Signalled(s) ==
  IF s \notin Provided THEN Aborted(process[s])
  ELSE IF platform = "win32" THEN KilledTree(process[s]) ELSE Terminated(process[s])

\* cancelRuntime: the timer is cleared and the handle cancelled, or, without
\* one, the signal aborted, which ends what the provider may still spawn.
CancelRuntime(s) ==
  IF runtime[s] = "none" THEN UNCHANGED process
  ELSE process' = Set(process, s, Signalled(s))

-----------------------------------------------------------------------------
\* create

Running == {s \in Sessions : status[s] = "running"}

HasRoomMutant == Cardinality(Running) < MaxSessions

\* The limit counts running sessions and reservations; a session that is being
\* started is both.
HasRoom ==
  Cardinality(Running) + Cardinality({s \in Sessions : creating[s] # "no"}) < MaxSessions

Create(s) ==
  /\ up /\ closing = "no"
  /\ status[s] = None /\ disk[s] = None /\ creating[s] = "no"
  /\ HasRoom
  /\ creating' = Set(creating, s, "reserved")
  /\ UNCHANGED <<platform, up, closing, status, output, input, disk, dirty, runtime, timer,
                 cancelling, process, failures>>

\* The working directory has been opened: the record is made and written; or
\* it cannot be opened.
OpenCwd(s) ==
  /\ up /\ creating[s] = "reserved"
  /\ \/ /\ status' = Set(status, s, "running")
        /\ creating' = Set(creating, s, "persisting")
     \/ /\ creating' = Set(creating, s, "no")
        /\ UNCHANGED status
  /\ UNCHANGED <<platform, up, closing, output, input, disk, dirty, runtime, timer,
                 cancelling, process, failures>>

\* The Windows provider awaits nothing: its helper is spawned, and the handle
\* taken or cancelled, before a timer or a request can come.
LaunchOnWindows(s) ==
  /\ creating' = Set(creating, s, "no")
  /\ IF status[s] = "running"
     THEN /\ runtime' = Set(runtime, s, "held")
          /\ process' = Set(process, s, "starting")
          /\ input' = Set(input, s, TRUE)
     ELSE /\ runtime' = Set(runtime, s, "waiting")
          /\ process' = Set(process, s, "doomed")
          /\ UNCHANGED input

\* The record is on disk and start runs: the provider is asked for a process,
\* or the command is run.  The status is not looked at again.
Launch(s) ==
  /\ up /\ creating[s] = "persisting"
  /\ disk' = Set(disk, s, status[s])
  /\ timer' = Set(timer, s, TRUE)
  /\ \/ /\ s \notin Provided
        /\ creating' = Set(creating, s, "no")
        /\ runtime' = Set(runtime, s, "held")
        /\ process' = Set(process, s, "live")
        /\ UNCHANGED input
     \/ /\ s \in Provided /\ platform = "posix"
        /\ creating' = Set(creating, s, "starting")
        /\ runtime' = Set(runtime, s, "waiting")
        /\ process' = Set(process, s, "asked")
        /\ UNCHANGED input
     \/ /\ OnWindows(s)
        /\ LaunchOnWindows(s)
  /\ UNCHANGED <<platform, up, closing, status, output, dirty, cancelling, failures>>

Fail == failures < MaxFailures /\ failures' = failures + 1

\* The first write fails: the record is taken back and create throws; a write
\* of the record that was already queued still runs.
LaunchFails(s) ==
  /\ up /\ creating[s] = "persisting" /\ Fail
  /\ status' = Set(status, s, None)
  /\ dirty' = Set(dirty, s, FALSE)
  /\ creating' = Set(creating, s, "no")
  /\ \/ UNCHANGED disk
     \/ dirty[s] /\ disk' = Set(disk, s, status[s])
  /\ UNCHANGED <<platform, up, closing, output, input, runtime, timer, cancelling, process>>

LateHandleMutant(s) == FALSE

\* The handle comes after the session has ended or start has given up.
LateHandle(s) ==
  status[s] # "running" \/ runtime[s] # "waiting" \/ creating[s] # "starting"

\* The provider has spawned the process: start takes the handle, or cancels a
\* late one, most likely before its helper has a handler.
ProviderReady(s) ==
  /\ up /\ process[s] = "asked"
  /\ creating' = Set(creating, s, "no")
  /\ IF LateHandle(s)
     THEN /\ \E state \in {"leaving", "termed"} : process' = Set(process, s, state)
          /\ UNCHANGED <<runtime, input>>
     ELSE /\ process' = Set(process, s, "starting")
          /\ runtime' = Set(runtime, s, "held")
          /\ input' = Set(input, s, TRUE)
  /\ UNCHANGED <<platform, up, closing, status, output, disk, dirty, timer, cancelling,
                 failures>>

\* onExit: the session ends, and its timer and runtime with it.
OnExit(s, end) ==
  /\ Finish(s, end)
  /\ timer' = Set(timer, s, FALSE)
  /\ runtime' = Set(runtime, s, "none")

\* The provider rejects, having spawned nothing.
ProviderFails(s) ==
  /\ up /\ process[s] = "asked"
  /\ process' = Set(process, s, "none")
  /\ creating' = Set(creating, s, "no")
  /\ IF creating[s] = "starting" THEN OnExit(s, "failed")
     ELSE UNCHANGED <<status, dirty, timer, runtime>>
  /\ UNCHANGED <<platform, up, closing, output, input, disk, cancelling, failures>>

\* The provider takes longer than timeoutMs: start gives up, and will cancel
\* the handle that may still come.
ProviderTimeout(s) ==
  /\ up /\ creating[s] = "starting"
  /\ creating' = Set(creating, s, "no")
  /\ OnExit(s, "failed")
  /\ UNCHANGED <<platform, up, closing, output, input, disk, cancelling, process, failures>>

-----------------------------------------------------------------------------
\* A session that runs.

\* What may still print: the Windows helper until its output is closed.
Printing == {"live", "termed", "cleaning", "doomed", "succeeded", "broken"}

\* appendOutput: a session that exceeds its limit fails and is cancelled.  What
\* a command prints comes when it has ended.
Output(s) ==
  /\ up /\ s \in Provided /\ process[s] \in Printing /\ status[s] = "running"
  /\ IF output[s] < MaxOutput
     THEN /\ output' = Set(output, s, output[s] + 1)
          /\ dirty' = Set(dirty, s, TRUE)
          /\ UNCHANGED <<status, timer, process>>
     ELSE /\ Finish(s, "failed")
          /\ timer' = Set(timer, s, FALSE)
          /\ CancelRuntime(s)
          /\ UNCHANGED output
  /\ UNCHANGED <<platform, up, closing, input, disk, creating, runtime, cancelling, failures>>

TimeoutMutant(s) ==
  /\ up /\ timer[s]
  /\ timer' = Set(timer, s, FALSE)
  /\ CancelRuntime(s)
  /\ UNCHANGED <<platform, up, closing, status, output, input, disk, dirty, creating, runtime,
                 cancelling, failures>>

\* The session's own timer.
Timeout(s) ==
  /\ up /\ timer[s]
  /\ timer' = Set(timer, s, FALSE)
  /\ IF status[s] = "running"
     THEN /\ Finish(s, "timed_out")
          /\ CancelRuntime(s)
          /\ runtime' = Set(runtime, s, "none")
     ELSE UNCHANGED <<status, dirty, process, runtime>>
  /\ UNCHANGED <<platform, up, closing, output, input, disk, creating, cancelling, failures>>

\* cancel: with a handle the session stays running until the handle's cancel
\* is over; without one the signal is aborted and the session ends at once.
Cancel(s) ==
  /\ up /\ status[s] = "running" /\ ~cancelling[s]
  /\ timer' = Set(timer, s, FALSE)
  /\ IF runtime[s] = "held"
     THEN /\ process' = Set(process, s, Signalled(s))
          /\ cancelling' = Set(cancelling, s, TRUE)
          /\ UNCHANGED <<status, dirty, runtime>>
     ELSE /\ Finish(s, "cancelled")
          /\ runtime' = Set(runtime, s, "none")
          /\ UNCHANGED <<process, cancelling>>
  /\ UNCHANGED <<platform, up, closing, output, input, disk, creating, failures>>

\* The process has exited, or the cancel of the handle has waited long enough.
CancelReturns(s) ==
  /\ up /\ cancelling[s]
  /\ cancelling' = Set(cancelling, s, FALSE)
  /\ Finish(s, "cancelled")
  /\ runtime' = Set(runtime, s, "none")
  /\ UNCHANGED <<platform, up, closing, output, input, disk, creating, timer, process,
                 failures>>

\* The writes of a session.  If one fails while the session runs, the session
\* is given up for review and its process cancelled.
Persist(s) ==
  /\ up /\ dirty[s] /\ creating[s] # "persisting"
  /\ disk' = Set(disk, s, status[s])
  /\ dirty' = Set(dirty, s, FALSE)
  /\ UNCHANGED <<platform, up, closing, status, output, input, creating, runtime, timer,
                 cancelling, process, failures>>

PersistFails(s) ==
  /\ up /\ dirty[s] /\ creating[s] # "persisting" /\ Fail
  /\ dirty' = Set(dirty, s, FALSE)
  /\ IF status[s] = "running"
     THEN /\ status' = Set(status, s, "manual_review")
          /\ input' = Set(input, s, FALSE)
          /\ timer' = Set(timer, s, FALSE)
          /\ CancelRuntime(s)
          /\ runtime' = Set(runtime, s, "none")
     ELSE UNCHANGED <<status, input, timer, process, runtime>>
  /\ UNCHANGED <<platform, up, closing, output, disk, creating, cancelling>>

\* write: the helper on Windows has closed its input while it cleans up, or was
\* killed, and its exit is not known yet: the session fails.  A write to a
\* process that reads changes nothing here.
Write(s) ==
  /\ up /\ status[s] = "running" /\ input[s] /\ runtime[s] = "held"
  /\ OnWindows(s) /\ process[s] \in {"cleaning", "doomed"}
  /\ OnExit(s, "failed")
  /\ UNCHANGED <<platform, up, closing, output, input, disk, creating, cancelling,
                 process, failures>>

-----------------------------------------------------------------------------
\* The process: a PTY helper with its child, or a controlled command.

\* The helper's handler forwards SIGTERM to the child's group and arms the
\* watchdog that kills the group after a second.
Forward(s) ==
  /\ process[s] = "termed"
  /\ process' = Set(process, s, "doomed")
  /\ UNCHANGED <<platform, up, closing, status, output, input, disk, dirty, creating, runtime,
                 timer, cancelling, failures>>

\* The end of a process is known to a server that runs.
Reported(s, end) ==
  IF up THEN OnExit(s, end) ELSE UNCHANGED <<status, dirty, timer, runtime>>

\* The child ends, and the POSIX helper, which has waited for it, after it: it
\* answers 0 only if the child exited with 0, and any signal is a failure.
Exit(s) ==
  /\ s \in Provided /\ ~OnWindows(s) /\ process[s] \in {"live", "doomed"}
  /\ process' = Set(process, s, "gone")
  /\ \E end \in {"exited", "failed"} : Reported(s, end)
  /\ UNCHANGED <<platform, up, closing, output, input, disk, creating, cancelling, failures>>

\* A command ends, and what it has printed is appended at once: more than the
\* limit is a failure.
CommandExits(s) ==
  /\ s \notin Provided /\ process[s] = "live"
  /\ process' = Set(process, s, "gone")
  /\ \E end \in {"exited", "failed"} : Reported(s, end)
  /\ \E n \in output[s]..MaxOutput :
       /\ n > output[s] => up /\ status[s] = "running"
       /\ output' = Set(output, s, n)
  /\ UNCHANGED <<platform, up, closing, input, disk, creating, cancelling, failures>>

\* A command has a timer of its own, and is answered before it has ended.
CommandTimeout(s) ==
  /\ up /\ s \notin Provided /\ process[s] = "live" /\ runtime[s] = "held"
  /\ process' = Set(process, s, "told")
  /\ OnExit(s, "timed_out")
  /\ UNCHANGED <<platform, up, closing, output, input, disk, creating, cancelling, failures>>

\* An aborted command is answered without waiting for its end.  Of a helper that
\* was killed the child, if it had one, gets a hangup with its terminal.
Leaves(s) ==
  /\ process[s] = "leaving"
  /\ process' = Set(process, s, "told")
  /\ Reported(s, IF s \in Provided THEN "failed" ELSE "cancelled")
  /\ UNCHANGED <<platform, up, closing, output, input, disk, creating, cancelling, failures>>

Becomes(s, state) ==
  /\ process' = Set(process, s, state)
  /\ UNCHANGED <<platform, up, closing, status, output, input, disk, dirty, creating,
                 runtime, timer, cancelling, failures>>

\* A process that was told to end may do so.
ToldEnds(s) == process[s] = "told" /\ Becomes(s, "gone")

\* The POSIX helper has forked its child and has its handler; the Windows one
\* makes its pseudoconsole and starts the child in it, or fails and exits with 1.
HelperStarts(s) ==
  /\ process[s] = "starting"
  /\ \E state \in {"live"} \cup (IF OnWindows(s) THEN {"broken"} ELSE {}) : Becomes(s, state)

\* The child has ended; the helper reads its code, closes its own input and the
\* pseudoconsole and waits for its pumps, for a bounded time.
ChildEnds(s) ==
  /\ OnWindows(s) /\ process[s] = "live"
  /\ Becomes(s, "cleaning")

\* It exits with 0 only if the child did; a helper that was killed does not.
HelperExits(s) ==
  /\ OnWindows(s)
  /\ \/ process[s] = "cleaning" /\ \E state \in {"succeeded", "broken"} : Becomes(s, state)
     \/ process[s] = "doomed" /\ Becomes(s, "broken")

\* The output of the helper is closed: only then does the session end.
HelperCloses(s) ==
  /\ process[s] \in {"succeeded", "broken"}
  /\ process' = Set(process, s, "gone")
  /\ Reported(s, IF process[s] = "succeeded" THEN "exited" ELSE "failed")
  /\ UNCHANGED <<platform, up, closing, output, input, disk, creating, cancelling, failures>>

-----------------------------------------------------------------------------
\* The manager.

\* The server dies.  A POSIX helper reads the end of its input and hangs up on
\* its child; a Windows one is ended with its parent, and its console with it;
\* a provider that has not spawned yet never will.
Crash ==
  /\ up /\ Fail
  /\ up' = FALSE
  /\ closing' = "no"
  /\ status' = Always(None)
  /\ output' = Always(0)
  /\ input' = Always(FALSE)
  /\ dirty' = Always(FALSE)
  /\ creating' = Always("no")
  /\ runtime' = Always("none")
  /\ timer' = Always(FALSE)
  /\ cancelling' = Always(FALSE)
  /\ process' = [s \in Sessions |->
                   IF process[s] = "asked" THEN "none"
                   ELSE IF /\ s \in Provided
                           /\ process[s] \in {"starting", "live", "termed", "cleaning"}
                     THEN "doomed"
                   ELSE process[s]]
  /\ UNCHANGED <<platform, disk>>

Restored(stored) == IF stored = "running" THEN "manual_review" ELSE stored

\* restore: what was running needs a review, and is written as such.
Restore ==
  /\ ~up
  /\ up' = TRUE
  /\ status' = [s \in Sessions |-> Restored(disk[s])]
  /\ dirty' = [s \in Sessions |-> Restored(disk[s]) # disk[s]]
  /\ UNCHANGED <<platform, closing, output, input, disk, creating, runtime, timer,
                 cancelling, process, failures>>

\* close waits for the creations in progress, cancels what runs and writes
\* every record.
Close ==
  /\ up /\ closing = "no"
  /\ closing' = "waiting"
  /\ UNCHANGED <<platform, up, status, output, input, disk, dirty, creating, runtime, timer,
                 cancelling, process, failures>>

CloseProceeds ==
  /\ up
  /\ \/ /\ closing = "waiting" /\ \A s \in Sessions : creating[s] = "no"
        /\ closing' = "cancelling"
     \/ /\ closing = "cancelling"
        /\ \A s \in Sessions : status[s] # "running" /\ ~cancelling[s] /\ ~dirty[s]
        /\ closing' = "done"
  /\ UNCHANGED <<platform, up, status, output, input, disk, dirty, creating, runtime, timer,
                 cancelling, process, failures>>

Next ==
  \/ \E s \in Sessions :
       \/ Create(s) \/ OpenCwd(s) \/ Launch(s) \/ LaunchFails(s)
       \/ ProviderReady(s) \/ ProviderFails(s) \/ ProviderTimeout(s)
       \/ Output(s) \/ Timeout(s) \/ Cancel(s) \/ CancelReturns(s)
       \/ Persist(s) \/ PersistFails(s) \/ Write(s) \/ Forward(s) \/ Exit(s)
       \/ CommandExits(s) \/ CommandTimeout(s) \/ Leaves(s) \/ ToldEnds(s)
       \/ HelperStarts(s) \/ ChildEnds(s) \/ HelperExits(s) \/ HelperCloses(s)
  \/ Crash \/ Restore \/ Close \/ CloseProceeds

Spec == Init /\ [][Next]_vars

\* Timers fire and awaited calls come back; close cancels what runs.  No
\* provider has to answer and no process has to end by itself.
Fairness ==
  /\ WF_vars(CloseProceeds)
  /\ \A s \in Sessions :
       /\ WF_vars(OpenCwd(s)) /\ WF_vars(Launch(s)) /\ WF_vars(ProviderTimeout(s))
       /\ WF_vars(Timeout(s)) /\ WF_vars(CancelReturns(s)) /\ WF_vars(Persist(s))
       /\ WF_vars(closing = "cancelling" /\ Cancel(s))
       /\ WF_vars(Forward(s)) /\ WF_vars(process[s] = "doomed" /\ Exit(s))

FairSpec == Spec /\ Fairness

-----------------------------------------------------------------------------
\* A process that a provider has spawned runs on only for a session that runs
\* and holds its handle: whatever ends the session (its timer, the output
\* limit, a failing write, a cancel before the provider answers) has signalled
\* it, and a handle that comes late is cancelled, not taken.
NoOrphan ==
  \A s \in Provided :
    process[s] \in {"starting", "live"} => up /\ status[s] = "running" /\ runtime[s] = "held"

\* No more than maxSessions run, although creations overlap at their awaits.
LimitHolds == Cardinality(Running) <= MaxSessions

\* A session ends: no path clears its timer without ending it.
SessionEnds == \A s \in Sessions : status[s] = "running" ~> status[s] # "running"
-----------------------------------------------------------------------------
\* The inductive invariant of TerminalSessionProofs.

\* A session that has, or had, a process has a file, so that its id is not
\* used again; what is written of a session is a record; and only a server that
\* runs creates one.
DiskKept ==
  \A s \in Sessions :
    /\ process[s] # "none" \/ runtime[s] # "none" \/ cancelling[s] => disk[s] # None
    /\ creating[s] = "persisting" \/ dirty[s] => status[s] # None
    /\ creating[s] # "no" => up

\* Before its start a session has no process, and while its handle is cancelled
\* none that nobody has signalled.
ProcessKept ==
  \A s \in Provided :
    /\ creating[s] \in {"reserved", "persisting"} =>
         process[s] = "none" /\ runtime[s] = "none" /\ ~cancelling[s]
    /\ cancelling[s] => process[s] \notin {"asked", "starting", "live"}
    /\ process[s] = "asked" \/ creating[s] = "starting" => runtime[s] # "held"

\* The sessions that run or are being created.
Counted == Running \cup {s \in Sessions : creating[s] # "no"}
CountKept == Cardinality(Counted) <= MaxSessions

IInv == TypeOK /\ DiskKept /\ ProcessKept /\ NoOrphan /\ CountKept

=============================================================================
