----------------------------- MODULE McpServers -----------------------------
(***************************************************************************)
(* One MCP server of the Workbench: its record (mcp-registry.mjs), the     *)
(* proposals that change it or run it (http-server.mjs), the instances     *)
(* that run it (mcp-runtime.mjs) and the child process of each             *)
(* (mcp-transport.mjs).  A step is what runs between two awaits.           *)
(*                                                                         *)
(* A transport tells its child to end and lets go of it at once; the       *)
(* process lives on until it obeys, also beside its successor.             *)
(*                                                                         *)
(* Simplifications:                                                        *)
(*   - A record is its launch configuration, whether it is enabled and     *)
(*     whether the tool is authorized; its configHash is the record, as it *)
(*     covers all three.  Health is not in it.                             *)
(*   - The ids of proposals, requests and instances are used again once    *)
(*     nothing refers to them.                                             *)
(*   - The transport is the stdio one; its close does not fail.            *)
(*   - A child that exits and the close event that says so are one step.   *)
(* An operator named ...Mutant is a faulty variation of the definition     *)
(* after it; the specification does not use it.                            *)
(***************************************************************************)
EXTENDS Integers

CONSTANTS
  Launches,     \* the launch configurations
  Proposed,     \* the configurations a register or update may propose
  Proposals,    \* the ids of pending proposals
  Requests,     \* the ids of the approve and reject requests
  Instances,    \* the ids of the instances
  Operations,   \* the operations proposed
  MaxFailures,  \* bound: failing writes, spawns and crashes
  None

ASSUME ConstantsAssumption ==
  /\ MaxFailures \in Nat
  /\ Proposed \subseteq [launch : Launches, tool : BOOLEAN]
  /\ Operations \subseteq {"register", "update", "authorize", "enable", "disable",
                           "remove", "start", "stop", "call"}

Records == [launch : Launches, enabled : BOOLEAN, tool : BOOLEAN]

ASSUME NoneAssumption == None \notin Records \cup Instances

VARIABLES
  record,    \* the record in memory, None without one
  disk,      \* the one in the snapshot
  torn,      \* the snapshot is not the one this process knows
  pending,   \* mcpProposals: what each pending proposal says, None without one
  claimed,   \* mcpClaims
  request,   \* per request: its kind, proposal, phase and instance
  current,   \* the registered instance
  closing,   \* whether the runtime has been closed
  leaving,   \* the instance that its close has taken off the register
  instance,  \* per instance: its record, whether it is closed, its promises
  child,     \* per instance: whether its transport holds a child
  process,   \* per instance: its child as a process, "told" once it has been
             \* sent SIGTERM or its input has ended
  transport, \* per instance: the state of its transport
  failures

registry == <<record, disk, torn>>
control == <<pending, claimed, request>>
runtime == <<current, closing, leaving, instance, child, process, transport>>
vars == <<registry, control, runtime, failures>>

Contents ==
  [op : Operations, hash : Records \cup {None}, launch : Launches, tool : BOOLEAN]
RequestRecords ==
  [kind : {"approve", "reject"}, on : Proposals \cup {None},
   says : Contents \cup {None}, at : Instances \cup {None},
   phase : {"idle", "body", "start", "stop", "call", "audit"}]
InstanceRecords ==
  [record : Records \cup {None}, closed : BOOLEAN, close : {"none", "asked", "done"},
   start : {"none", "calling", "spawned", "failed", "closing", "done"}]

TypeOK ==
  /\ {record, disk} \subseteq Records \cup {None}
  /\ torn \in BOOLEAN
  /\ pending \in [Proposals -> Contents \cup {None}]
  /\ claimed \subseteq Proposals
  /\ request \in [Requests -> RequestRecords]
  /\ {current, leaving} \subseteq Instances \cup {None}
  /\ closing \in BOOLEAN
  /\ instance \in [Instances -> InstanceRecords]
  /\ child \in [Instances -> BOOLEAN]
  /\ process \in [Instances -> {"none", "running", "told"}]
  /\ transport \in [Instances -> {"disconnected", "starting", "ready", "failed"}]
  /\ failures \in 0..MaxFailures

Idle == [kind |-> "approve", on |-> None, says |-> None, at |-> None, phase |-> "idle"]
Unused == [record |-> None, closed |-> FALSE, close |-> "none", start |-> "none"]

\* state of an instance
State(i) ==
  IF instance[i].closed THEN "stopping"
  ELSE IF instance[i].start = "done" THEN "ready" ELSE "starting"

Init ==
  /\ record \in {None} \cup {r \in Records : r.enabled}
  /\ disk = record /\ torn = FALSE
  /\ pending = [p \in Proposals |-> None]
  /\ claimed = {}
  /\ request = [r \in Requests |-> Idle]
  /\ current = None /\ leaving = None /\ closing = FALSE
  /\ instance = [i \in Instances |-> Unused]
  /\ child = [i \in Instances |-> FALSE]
  /\ process = [i \in Instances |-> "none"]
  /\ transport = [i \in Instances |-> "disconnected"]
  /\ failures = 0

Fail == failures < MaxFailures /\ failures' = failures + 1

\* The server exits after a close, or dies, and is started again: the registry
\* is read from its snapshot, and nothing else is left.  A child has lost its
\* input, and lives on until it ends.
Restart ==
  /\ IF closing THEN UNCHANGED failures ELSE Fail
  /\ record' = disk /\ torn' = FALSE
  /\ pending' = [p \in Proposals |-> None]
  /\ claimed' = {}
  /\ request' = [r \in Requests |-> Idle]
  /\ current' = None /\ leaving' = None /\ closing' = FALSE
  /\ instance' = [i \in Instances |-> Unused]
  /\ child' = [i \in Instances |-> FALSE]
  /\ process' = [i \in Instances |-> IF process[i] = "none" THEN "none" ELSE "told"]
  /\ transport' = [i \in Instances |-> "disconnected"]
  /\ UNCHANGED disk

-----------------------------------------------------------------------------
\* The registry.

PersistMutant(next) ==
  \/ /\ ~torn
     /\ record' = next /\ disk' = next
     /\ UNCHANGED <<torn, failures>>
  \/ /\ Fail
     /\ record' = next
     /\ UNCHANGED <<disk, torn>>

\* A changed record is written; if that fails, memory is as before.  A write
\* reported as failed may be in place: the snapshot is then not the one this
\* process expects, and its later writes are refused.
Persist(next) ==
  \/ /\ ~torn
     /\ record' = next /\ disk' = next
     /\ UNCHANGED <<torn, failures>>
  \/ /\ UNCHANGED <<record, disk, torn>>
     /\ IF torn THEN UNCHANGED failures ELSE Fail
  \/ /\ ~torn /\ Fail
     /\ torn' = TRUE /\ disk' = next
     /\ UNCHANGED record

Refused == UNCHANGED <<registry, failures>>

StoppedMutant == current = None \/ instance[current].closed

\* The guard of remove and update: no instance is registered.
Stopped == current = None

\* The record an operation would write.
Changed(c) ==
  CASE c.op \in {"register", "update"} ->
         [launch |-> c.launch, enabled |-> FALSE, tool |-> c.tool]
    [] c.op = "authorize" -> [record EXCEPT !.tool = TRUE]
    [] c.op = "enable" -> [record EXCEPT !.enabled = TRUE]
    [] c.op = "disable" -> [record EXCEPT !.enabled = FALSE]
    [] c.op = "remove" -> None

Allowed(c) ==
  CASE c.op = "register" -> record = None
    [] c.op \in {"update", "remove"} -> Stopped /\ record # None /\ record = c.hash
    [] c.op \in {"authorize", "enable", "disable"} -> record # None /\ record = c.hash

Registers(c) == IF Allowed(c) THEN Persist(Changed(c)) ELSE Refused

\* A health check writes the registry, but nothing of the record here.
HealthCheck ==
  /\ record # None /\ ~torn /\ Fail
  /\ torn' = TRUE
  /\ UNCHANGED <<record, disk, control, runtime>>

-----------------------------------------------------------------------------
\* Proposals.

Propose(p, op) ==
  /\ pending[p] = None /\ \A r \in Requests : request[r].on # p
  /\ op = "register" \/ record # None
  /\ \E server \in IF op \in {"register", "update"}
                   THEN Proposed ELSE {record} :
       pending' = [pending EXCEPT ![p] =
                     [op |-> op, hash |-> IF op = "register" THEN None ELSE record,
                      launch |-> server.launch, tool |-> server.tool]]
  /\ UNCHANGED <<registry, claimed, request, runtime, failures>>

\* An approve or a reject has found its proposal and waits for its body.
Ask(r, kind, p) ==
  /\ request[r].phase = "idle" /\ pending[p] # None
  /\ request' = [request EXCEPT ![r] = [Idle EXCEPT !.kind = kind, !.on = p,
                                         !.says = pending[p], !.phase = "body"]]
  /\ UNCHANGED <<registry, pending, claimed, runtime, failures>>

\* The body of a reject has come: it is refused while the proposal is claimed.
Reject(r) ==
  /\ request[r].phase = "body" /\ request[r].kind = "reject"
  /\ request' = [request EXCEPT ![r] = Idle]
  /\ pending' = IF request[r].on \in claimed THEN pending
                ELSE [pending EXCEPT ![request[r].on] = None]
  /\ UNCHANGED <<registry, claimed, runtime, failures>>

\* What a request does next; it holds its claim until the audit is written.
Proceed(r, phase, at) ==
  request' = [request EXCEPT ![r].phase = phase, ![r].at = at, ![r].says = None]

\* The operation is over: the proposal is deleted and the audit written.
Over(r) ==
  /\ Proceed(r, "audit", None)
  /\ pending' = [pending EXCEPT ![request[r].on] = None]

\* start: a new instance, the one that is registered, or an error.
Starts(r, c) ==
  IF \/ record = None \/ record # c.hash \/ ~record.enabled
     \/ current # None /\ (State(current) = "stopping"
                             \/ instance[current].record # record)
  THEN Over(r) /\ UNCHANGED runtime
  ELSE IF current # None
  THEN Proceed(r, "start", current) /\ UNCHANGED <<pending, runtime>>
  ELSE \E i \in Instances :
         /\ instance[i] = Unused /\ process[i] = "none" /\ leaving # i
         /\ \A q \in Requests : request[q].at # i
         /\ current' = i
         /\ instance' = [instance EXCEPT ![i] =
                           [Unused EXCEPT !.record = record, !.start = "calling"]]
         /\ transport' = [transport EXCEPT ![i] = "starting"]
         /\ Proceed(r, "start", i)
         /\ UNCHANGED <<pending, closing, leaving, child, process>>

\* closeOnce: the first call asks the transport to close.
AskClose(x) == IF x.close = "none" THEN [x EXCEPT !.close = "asked"] ELSE x

StopsMutant(r, c) ==
  IF record = None \/ record # c.hash \/ current = None
  THEN Over(r) /\ UNCHANGED runtime
  ELSE /\ instance' = [instance EXCEPT ![current] =
                         AskClose([@ EXCEPT !.closed = TRUE])]
       /\ current' = None
       /\ Proceed(r, "stop", current)
       /\ UNCHANGED <<pending, closing, leaving, child, process, transport>>

\* stop: the instance stays registered while it closes.
Stops(r, c) ==
  IF record = None \/ record # c.hash \/ current = None
       \/ (current # None /\ State(current) = "stopping")
  THEN Over(r) /\ UNCHANGED runtime
  ELSE /\ instance' = [instance EXCEPT ![current] =
                         AskClose([@ EXCEPT !.closed = TRUE])]
       /\ Proceed(r, "stop", current)
       /\ UNCHANGED <<pending, current, closing, leaving, child, process, transport>>

\* callTool: the request is written to a child, or refused.
Calls(r, c) ==
  /\ IF /\ current # None /\ State(current) = "ready"
        /\ record = c.hash /\ instance[current].record = record
        /\ record.enabled /\ record.tool
        /\ transport[current] = "ready" /\ child[current]
     THEN Proceed(r, "call", current) /\ UNCHANGED pending
     ELSE Over(r)
  /\ UNCHANGED runtime

\* The body of an approve has come: the proposal that was found before it is
\* claimed and its operation run.
Approve(r) ==
  LET c == request[r].says IN
  /\ request[r].phase = "body" /\ request[r].kind = "approve"
  /\ IF request[r].on \in claimed
     THEN /\ request' = [request EXCEPT ![r] = Idle]
          /\ UNCHANGED <<registry, failures, pending, claimed, runtime>>
     ELSE /\ claimed' = claimed \cup {request[r].on}
          /\ \/ c.op = "start" /\ Starts(r, c) /\ Refused
             \/ c.op = "stop" /\ Stops(r, c) /\ Refused
             \/ c.op = "call" /\ Calls(r, c) /\ Refused
             \/ /\ c.op \notin {"start", "stop", "call"}
                /\ Registers(c) /\ Over(r) /\ UNCHANGED runtime

\* A call is answered by the child, or times out.
CallEnds(r) ==
  /\ request[r].phase = "call"
  /\ Over(r)
  /\ UNCHANGED <<registry, claimed, runtime, failures>>

\* The start that a request waits for has ended.
StartAnswers(r) ==
  /\ request[r].phase = "start" /\ instance[request[r].at].start \in {"none", "done"}
  /\ Over(r)
  /\ UNCHANGED <<registry, claimed, runtime, failures>>

\* An instance whose start has ended is forgotten with its registration.
Forgotten(i) == IF instance[i].start = "done" THEN Unused ELSE instance[i]

\* The instance is closed: stop removes it.
StopAnswers(r) ==
  LET i == request[r].at IN
  /\ request[r].phase = "stop" /\ instance[i].close # "asked"
  /\ Over(r)
  /\ current' = IF current = i THEN None ELSE current
  /\ instance' = [instance EXCEPT ![i] = Forgotten(i)]
  /\ UNCHANGED <<registry, claimed, closing, leaving, child, process, transport, failures>>

\* The audit is written, the claim given back and the request answered.
Finish(r) ==
  /\ request[r].phase = "audit"
  /\ claimed' = claimed \ {request[r].on}
  /\ request' = [request EXCEPT ![r] = Idle]
  /\ UNCHANGED <<registry, pending, runtime, failures>>

-----------------------------------------------------------------------------
\* The start of an instance and its transport.

\* The child is spawned, unless the transport has been closed meanwhile or the
\* command cannot be run.
Spawn(i) ==
  /\ instance[i].start = "calling"
  /\ \/ /\ transport[i] = "starting"
        /\ instance' = [instance EXCEPT ![i].start = "spawned"]
        /\ child' = [child EXCEPT ![i] = TRUE]
        /\ process' = [process EXCEPT ![i] = "running"]
        /\ transport' = [transport EXCEPT ![i] = "ready"]
        /\ UNCHANGED failures
     \/ /\ instance' = [instance EXCEPT ![i].start = "failed"]
        /\ IF transport[i] = "starting"
           THEN Fail /\ transport' = [transport EXCEPT ![i] = "failed"]
           ELSE UNCHANGED <<transport, failures>>
        /\ UNCHANGED <<child, process>>
  /\ UNCHANGED <<registry, control, current, closing, leaving>>

Abandoned(i) == instance[i].closed \/ current # i

\* The transport has started: the instance is ready.
Started(i) ==
  /\ instance[i].start = "spawned" /\ ~Abandoned(i)
  /\ instance' = [instance EXCEPT ![i].start = "done"]
  /\ UNCHANGED <<registry, control, current, closing, leaving, child, process, transport,
                 failures>>

\* It has not, or the instance was stopped: an abandoned one waits for its close.
StartFails(i) ==
  /\ \/ instance[i].start = "failed"
     \/ instance[i].start = "spawned" /\ Abandoned(i)
  /\ IF Abandoned(i)
     THEN /\ instance' = [instance EXCEPT ![i] = AskClose([@ EXCEPT !.start = "closing"])]
          /\ UNCHANGED <<current, transport>>
     ELSE /\ instance' = [instance EXCEPT ![i] = Unused]
          /\ transport' = [transport EXCEPT ![i] = "disconnected"]
          /\ current' = None
  /\ UNCHANGED <<registry, control, closing, leaving, child, process, failures>>

StartGivesUp(i) ==
  /\ instance[i].start = "closing" /\ instance[i].close = "done"
  /\ instance' = [instance EXCEPT ![i] = Unused]
  /\ current' = IF current = i THEN None ELSE current
  /\ UNCHANGED <<registry, control, closing, leaving, child, process, transport, failures>>

RejectPendingMutant(i) == UNCHANGED <<request, pending>>

\* The calls of a child that is gone are rejected.
RejectPending(i) ==
  LET lost == {r \in Requests : request[r].phase = "call" /\ request[r].at = i} IN
  /\ request' = [r \in Requests |->
                   IF r \in lost THEN [request[r] EXCEPT !.phase = "audit", !.at = None]
                   ELSE request[r]]
  /\ pending' = [p \in Proposals |->
                   IF \E r \in lost : request[r].on = p THEN None ELSE pending[p]]

\* SIGTERM: the process ends when it obeys.
Killed(i) ==
  process' = [process EXCEPT ![i] = IF @ = "running" THEN "told" ELSE @]

\* The transport's close, which runs after its start was called: it kills the
\* child that it holds and does not wait for its end.
CloseTransport(i) ==
  /\ instance[i].close = "asked"
  /\ instance' = [instance EXCEPT ![i].close = "done"]
  /\ transport' = [transport EXCEPT ![i] = "disconnected"]
  /\ child' = [child EXCEPT ![i] = FALSE]
  /\ IF child[i] THEN Killed(i) ELSE UNCHANGED process
  /\ RejectPending(i)
  /\ UNCHANGED <<registry, claimed, current, closing, leaving, failures>>

\* The child exits, or could not be run; its instance stays registered.
ChildEnds(i) ==
  /\ child[i] /\ Fail
  /\ \E next \in {"disconnected", "failed"} :
       transport' = [transport EXCEPT ![i] = next]
  /\ child' = [child EXCEPT ![i] = FALSE]
  /\ process' = [process EXCEPT ![i] = "none"]
  /\ RejectPending(i)
  /\ UNCHANGED <<registry, claimed, current, closing, leaving, instance>>

\* terminate: the child is killed for a frame that is too long or no JSON, or
\* for an input that fails; its instance stays registered.
Terminate(i) ==
  /\ child[i] /\ Fail
  /\ transport' = [transport EXCEPT ![i] = "failed"]
  /\ child' = [child EXCEPT ![i] = FALSE]
  /\ Killed(i)
  /\ RejectPending(i)
  /\ UNCHANGED <<registry, claimed, current, closing, leaving, instance>>

\* A process that has been told to end does.
ProcessEnds(i) ==
  /\ process[i] = "told"
  /\ process' = [process EXCEPT ![i] = "none"]
  /\ UNCHANGED <<registry, control, current, closing, leaving, instance, child, transport,
                 failures>>

-----------------------------------------------------------------------------
\* close of the runtime, while the HTTP server still answers.

\* The register is cleared; the instances that were in it are closed in turn.
RuntimeClose ==
  /\ ~closing /\ Fail
  /\ closing' = TRUE
  /\ leaving' = current /\ current' = None
  /\ UNCHANGED <<registry, control, instance, child, process, transport>>

\* It is the turn of the instance, after those of other servers.
CloseLeaving ==
  /\ leaving # None /\ instance[leaving].start # "none" /\ ~instance[leaving].closed
  /\ instance' = [instance EXCEPT ![leaving] = AskClose([@ EXCEPT !.closed = TRUE])]
  /\ UNCHANGED <<registry, control, current, closing, leaving, child, process, transport,
                 failures>>

\* Its closeOnce has ended, or it was forgotten before its turn.
LeavingClosed ==
  /\ leaving # None
  /\ instance[leaving].close = "done" \/ instance[leaving].start = "none"
  /\ instance' = [instance EXCEPT ![leaving] = Forgotten(leaving)]
  /\ leaving' = None
  /\ UNCHANGED <<registry, control, current, closing, child, process, transport, failures>>

Next ==
  \/ Restart \/ HealthCheck \/ RuntimeClose \/ CloseLeaving \/ LeavingClosed
  \/ \E p \in Proposals, op \in Operations : Propose(p, op)
  \/ \E r \in Requests :
       \/ \E kind \in {"approve", "reject"}, p \in Proposals : Ask(r, kind, p)
       \/ Reject(r) \/ Approve(r) \/ StartAnswers(r) \/ StopAnswers(r)
       \/ CallEnds(r) \/ Finish(r)
  \/ \E i \in Instances :
       \/ Spawn(i) \/ Started(i) \/ StartFails(i) \/ StartGivesUp(i)
       \/ CloseTransport(i) \/ ChildEnds(i) \/ Terminate(i) \/ ProcessEnds(i)

Spec == Init /\ [][Next]_vars

-----------------------------------------------------------------------------
\* While an instance is registered, also one that starts or stops, the record
\* is there with the launch configuration it was started from: no update or
\* removal gets in between ("a stale running instance can never silently keep
\* serving new config", mcp-registry.mjs:185).
RunsItsConfig ==
  current # None => record # None /\ record.launch = instance[current].record.launch

\* However starts, stops, bad frames and a close overlap, a process that has not
\* been told to end is held by the transport of an instance that a stop still
\* finds, or that the close of the runtime has yet to reach: a start may run its
\* child beside old ones, but all of them have been told.
OthersToldToEnd ==
  \A i \in Instances : process[i] = "running" => child[i] /\ i \in {current, leaving}

\* Memory never holds what a failing write has not stored: the record is the
\* stored one, or a write was in place although it was reported as failed.
RecordIsStored == torn \/ record = disk

\* A call waits for an answer only while its transport holds a child.
CallHasChild ==
  \A r \in Requests : request[r].phase = "call" => child[request[r].at]
-----------------------------------------------------------------------------
\* The inductive invariant of McpServersProofs.

\* What a request works with.
RequestKept ==
  \A r \in Requests :
    /\ request[r].phase # "idle" => request[r].on \in Proposals
    /\ request[r].phase = "body" => request[r].says \in Contents
    /\ request[r].phase \in {"start", "stop", "call"} => request[r].at \in Instances

\* What holds of an instance: it is registered from its start until its
\* transport is closed, or the close of the runtime waits for it; only then has
\* its transport a child, and nothing else a process that has not been told.
Sound(i) ==
  /\ instance[i].closed => instance[i].close # "none"
  /\ instance[i].close # "none" => instance[i].closed \/ current # i
  /\ instance[i].start = "none" => instance[i].close = "none" /\ current # i
  /\ instance[i].start # "none" /\ instance[i].close # "done" => i \in {current, leaving}
  /\ instance[i].close = "done" => transport[i] # "starting"
  /\ child[i] => /\ instance[i].close # "done"
                /\ instance[i].start \in {"spawned", "done", "closing"}
  /\ process[i] = "running" => child[i]

InstanceKept ==
  /\ leaving # None => closing /\ current # leaving
  /\ \A i \in Instances : Sound(i)

\* What a stop waits for closes, or has been forgotten.
StopKept ==
  \A r \in Requests : request[r].phase = "stop" =>
    \/ instance[request[r].at].close # "none"
    \/ instance[request[r].at].start = "none"

IInv ==
  TypeOK /\ RequestKept /\ InstanceKept /\ StopKept /\ RunsItsConfig /\ CallHasChild

=============================================================================
