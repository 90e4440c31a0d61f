-------------------------- MODULE McpServersProofs --------------------------
(***************************************************************************)
(* Proofs about McpServers, for any number of proposals, requests,         *)
(* instances and launch configurations.                                    *)
(*                                                                         *)
(* The inductive invariant IInv adds to the type invariant and to the      *)
(* properties proved                                                       *)
(*   - RequestKept: what a request works with is there;                    *)
(*   - InstanceKept: an instance is registered from its start until its    *)
(*     transport is closed, or the close of the runtime waits for it, and  *)
(*     only then has it a child;                                           *)
(*   - StopKept: what a stop waits for closes or has been forgotten, so    *)
(*     that its answer removes no instance that lives.                     *)
(***************************************************************************)
EXTENDS McpServers, TLAPS

\* A request that proceeds keeps its type.
LEMMA ProceedType ==
  ASSUME TypeOK, NEW r \in Requests, NEW at \in Instances \cup {None},
         NEW phase \in {"start", "stop", "call", "audit"}, Proceed(r, phase, at)
  PROVE  request' \in [Requests -> RequestRecords]
<1>1. [request[r] EXCEPT !.phase = phase, !.at = at, !.says = None] \in RequestRecords
  BY ZenonT(30) DEF TypeOK, RequestRecords
<1>2. request' = [request EXCEPT ![r] =
                    [request[r] EXCEPT !.phase = phase, !.at = at, !.says = None]]
  BY DEF TypeOK, RequestRecords, Proceed
<1> QED
  BY <1>1, <1>2 DEF TypeOK

\* What an allowed operation writes is a record, or none.
LEMMA ChangedType ==
  ASSUME TypeOK, NEW c \in Contents, c.op \notin {"start", "stop", "call"}, Allowed(c)
  PROVE  Changed(c) \in Records \cup {None}
BY ConstantsAssumption DEF ConstantsAssumption, TypeOK, Contents, Records, Allowed, Changed

\* Every instance record keeps its type under the updates the code makes.
LEMMA InstanceType ==
  ASSUME NEW x \in InstanceRecords
  PROVE  /\ \A start \in {"spawned", "failed", "closing", "done"} :
              [x EXCEPT !.start = start] \in InstanceRecords
         /\ [x EXCEPT !.close = "done"] \in InstanceRecords
         /\ AskClose([x EXCEPT !.closed = TRUE]) \in InstanceRecords
         /\ AskClose([x EXCEPT !.start = "closing"]) \in InstanceRecords
         /\ Unused \in InstanceRecords
<1>1. \A y \in InstanceRecords : AskClose(y) \in InstanceRecords
  BY DEF AskClose, InstanceRecords
<1>2. [x EXCEPT !.closed = TRUE] \in InstanceRecords /\ [x EXCEPT !.start = "closing"] \in InstanceRecords
  BY DEF InstanceRecords
<1> QED
  BY <1>1, <1>2 DEF InstanceRecords, Unused

\* The registry keeps its types: a record, or none, in memory and on disk.
LEMMA RegistryType ==
  ASSUME TypeOK, RequestKept, [Next]_vars
  PROVE  ({record, disk} \subseteq Records \cup {None} /\ torn \in BOOLEAN
           /\ failures \in 0..MaxFailures)'
<1> USE ConstantsAssumption DEF ConstantsAssumption, TypeOK, Refused, registry, Fail
<1>1. ASSUME NEW r \in Requests, Approve(r)
      PROVE  ({record, disk} \subseteq Records \cup {None} /\ torn \in BOOLEAN
               /\ failures \in 0..MaxFailures)'
  <2> DEFINE c == request[r].says
  <2>1. c \in Contents
    BY <1>1 DEF Approve, RequestKept
  <2>2. CASE Refused
    BY <2>2
  <2>3. CASE Registers(c) /\ c.op \notin {"start", "stop", "call"}
    <3>1. CASE Allowed(c)
      <4>1. Changed(c) \in Records \cup {None}
        BY <2>1, <2>3, <3>1, ChangedType
      <4> DEFINE next == Changed(c)
      <4>2. Persist(next)
        BY <2>3, <3>1 DEF Registers
      <4>3. next \in Records \cup {None}
        BY <4>1
      <4> HIDE DEF next, c
      <4>4. {record', disk'} \subseteq Records \cup {None}
        BY <4>2, <4>3 DEF Persist
      <4>5. torn' \in BOOLEAN
        BY <4>2 DEF Persist
      <4>6. failures' \in 0..MaxFailures
        BY <4>2 DEF Persist
      <4> QED
        BY <4>4, <4>5, <4>6
    <3>2. CASE ~Allowed(c)
      BY <2>3, <3>2 DEF Registers
    <3> QED
      BY <3>1, <3>2
  <2> QED
    BY <1>1, <2>2, <2>3 DEF Approve
<1>2. CASE Restart \/ HealthCheck
  <2>1. torn' \in BOOLEAN
    BY <1>2 DEF Restart, HealthCheck
  <2>2. {record', disk'} \subseteq Records \cup {None} /\ failures' \in 0..MaxFailures
    BY <1>2 DEF Restart, HealthCheck
  <2> QED
    BY <2>1, <2>2
<1>3. ASSUME NEW p \in Proposals, NEW op \in Operations, Propose(p, op)
      PROVE  UNCHANGED <<registry, failures>>
  BY <1>3 DEF Propose
<1>4. ASSUME NEW r \in Requests, NEW kind \in {"approve", "reject"}, NEW p \in Proposals,
             Ask(r, kind, p)
      PROVE  UNCHANGED <<registry, failures>>
  BY <1>4 DEF Ask
<1>5. ASSUME NEW r \in Requests,
             Reject(r) \/ StartAnswers(r) \/ StopAnswers(r) \/ CallEnds(r) \/ Finish(r)
      PROVE  UNCHANGED <<registry, failures>>
  BY <1>5 DEF Reject, StartAnswers, StopAnswers, CallEnds, Finish
<1>6. ASSUME NEW i \in Instances,
             Spawn(i) \/ Started(i) \/ StartFails(i) \/ StartGivesUp(i) \/ CloseTransport(i)
               \/ ChildEnds(i) \/ Terminate(i) \/ ProcessEnds(i)
      PROVE  UNCHANGED registry /\ failures' \in 0..MaxFailures
  BY <1>6 DEF Spawn, Started, StartFails, StartGivesUp, CloseTransport, ChildEnds, Terminate,
              ProcessEnds
<1>7. CASE RuntimeClose \/ CloseLeaving \/ LeavingClosed
  BY <1>7 DEF RuntimeClose, CloseLeaving, LeavingClosed
<1>8. CASE UNCHANGED vars
  BY <1>8 DEF vars
<1> QED
  BY <1>1, <1>2, <1>3, <1>4, <1>5, <1>6, <1>7, <1>8 DEF Next

\* The proposals and the requests keep their types.
LEMMA ControlType ==
  ASSUME TypeOK, RequestKept, [Next]_vars
  PROVE  (pending \in [Proposals -> Contents \cup {None}] /\ claimed \subseteq Proposals
           /\ request \in [Requests -> RequestRecords])'
<1> DEFINE G == (pending \in [Proposals -> Contents \cup {None}] /\ claimed \subseteq Proposals
                  /\ request \in [Requests -> RequestRecords])'
<1>0. Idle \in RequestRecords
  BY DEF Idle, RequestRecords
<1> USE DEF TypeOK
<1>1. ASSUME NEW r \in Requests, Over(r)
      PROVE  /\ pending' \in [Proposals -> Contents \cup {None}]
             /\ request' \in [Requests -> RequestRecords]
  BY <1>1, ProceedType DEF Over
<1>2. ASSUME NEW r \in Requests, Approve(r)
      PROVE  G
  <2>1. request[r].on \in Proposals
    BY <1>2 DEF Approve, RequestKept
  <2>2. CASE request[r].on \in claimed
    BY <1>0, <1>2, <2>2 DEF Approve
  <2>3. CASE request[r].on \notin claimed
    <3> DEFINE c == request[r].says
    <3>1. claimed' \subseteq Proposals
      BY <1>2, <2>1, <2>3 DEF Approve
    <3>2. CASE Over(r)
      BY <1>1, <3>1, <3>2
    <3>3. ASSUME Starts(r, c), ~Over(r)
          PROVE  G
      <4>1. \E i \in Instances : Proceed(r, "start", i) /\ UNCHANGED pending
        BY <3>3 DEF Starts
      <4> QED
        BY <3>1, <4>1, ProceedType
    <3>4. ASSUME Stops(r, c), ~Over(r)
          PROVE  G
      <4>1. \E i \in Instances : Proceed(r, "stop", i) /\ UNCHANGED pending
        BY <3>4 DEF Stops
      <4> QED
        BY <3>1, <4>1, ProceedType
    <3>5. ASSUME Calls(r, c), ~Over(r)
          PROVE  G
      <4>1. \E i \in Instances : Proceed(r, "call", i) /\ UNCHANGED pending
        BY <3>5 DEF Calls
      <4> QED
        BY <3>1, <4>1, ProceedType
    <3> QED
      BY <1>2, <2>3, <3>2, <3>3, <3>4, <3>5 DEF Approve
  <2> QED
    BY <2>2, <2>3
<1>3. CASE Restart
  BY <1>0, <1>3 DEF Restart
<1>4. CASE HealthCheck
  BY <1>4 DEF HealthCheck, control
<1>5. ASSUME NEW p \in Proposals, NEW op \in Operations, Propose(p, op)
      PROVE  G
  <2> PICK server \in IF op \in {"register", "update"} THEN Proposed ELSE {record} :
         pending' = [pending EXCEPT ![p] =
                       [op |-> op, hash |-> IF op = "register" THEN None ELSE record,
                        launch |-> server.launch, tool |-> server.tool]]
    BY <1>5 DEF Propose
  <2>1. /\ server.launch \in Launches /\ server.tool \in BOOLEAN
        /\ (IF op = "register" THEN None ELSE record) \in Records \cup {None}
    BY <1>5, ConstantsAssumption DEF ConstantsAssumption, Propose, Records
  <2>2. [op |-> op, hash |-> IF op = "register" THEN None ELSE record,
         launch |-> server.launch, tool |-> server.tool] \in Contents
    BY <2>1 DEF Contents
  <2> QED
    BY <1>5, <2>2 DEF Propose
<1>6. ASSUME NEW r \in Requests, NEW kind \in {"approve", "reject"}, NEW p \in Proposals,
             Ask(r, kind, p)
      PROVE  G
  <2>1. [Idle EXCEPT !.kind = kind, !.on = p, !.says = pending[p], !.phase = "body"]
          \in RequestRecords
    BY DEF Idle, RequestRecords
  <2> QED
    BY <1>6, <2>1 DEF Ask
<1>7. ASSUME NEW r \in Requests, Reject(r) \/ Finish(r)
      PROVE  G
  BY <1>0, <1>7 DEF Reject, Finish
<1>8. ASSUME NEW r \in Requests, StartAnswers(r) \/ StopAnswers(r) \/ CallEnds(r)
      PROVE  G
  BY <1>1, <1>8 DEF StartAnswers, StopAnswers, CallEnds
<1>9. ASSUME NEW i \in Instances, RejectPending(i), UNCHANGED claimed
      PROVE  G
  <2>1. ASSUME NEW r \in Requests
        PROVE  [request[r] EXCEPT !.phase = "audit", !.at = None] \in RequestRecords
    <3>1. request[r] \in RequestRecords
      OBVIOUS
    <3> QED
      BY <3>1 DEF RequestRecords
  <2> QED
    BY <1>9, <2>1 DEF RejectPending
<1>10. ASSUME NEW i \in Instances, CloseTransport(i) \/ ChildEnds(i) \/ Terminate(i)
       PROVE  G
  BY <1>9, <1>10 DEF CloseTransport, ChildEnds, Terminate
<1>11. ASSUME NEW i \in Instances, Spawn(i) \/ Started(i) \/ StartFails(i) \/ StartGivesUp(i)
                                   \/ ProcessEnds(i)
       PROVE  G
  BY <1>11 DEF Spawn, Started, StartFails, StartGivesUp, ProcessEnds, control
<1>12. CASE RuntimeClose \/ CloseLeaving \/ LeavingClosed \/ UNCHANGED vars
  BY <1>12 DEF RuntimeClose, CloseLeaving, LeavingClosed, vars, control
<1> QED
  BY <1>2, <1>3, <1>4, <1>5, <1>6, <1>7, <1>8, <1>10, <1>11, <1>12 DEF Next

\* The instances keep their types.
LEMMA RuntimeType ==
  ASSUME TypeOK, RequestKept, [Next]_vars
  PROVE  ({current, leaving} \subseteq Instances \cup {None} /\ closing \in BOOLEAN
           /\ instance \in [Instances -> InstanceRecords] /\ child \in [Instances -> BOOLEAN]
           /\ process \in [Instances -> {"none", "running", "told"}]
           /\ transport \in [Instances -> {"disconnected", "starting", "ready", "failed"}])'
<1> DEFINE G == ({current, leaving} \subseteq Instances \cup {None} /\ closing \in BOOLEAN
                  /\ instance \in [Instances -> InstanceRecords] /\ child \in [Instances -> BOOLEAN]
                  /\ process \in [Instances -> {"none", "running", "told"}]
                  /\ transport \in [Instances -> {"disconnected", "starting", "ready", "failed"}])'
<1> USE DEF TypeOK
<1>0. ASSUME UNCHANGED runtime
      PROVE  G
  BY <1>0 DEF runtime
<1>1. ASSUME NEW r \in Requests, NEW c \in Contents, Starts(r, c)
      PROVE  G
  <2>1. CASE UNCHANGED runtime
    BY <1>0, <2>1
  <2>2. ASSUME NEW i \in Instances,
               record \in Records,
               current' = i, UNCHANGED <<closing, leaving, child, process>>,
               instance' = [instance EXCEPT ![i] =
                              [Unused EXCEPT !.record = record, !.start = "calling"]],
               transport' = [transport EXCEPT ![i] = "starting"]
        PROVE  G
    <3>1. [Unused EXCEPT !.record = record, !.start = "calling"] \in InstanceRecords
      BY <2>2 DEF Unused, InstanceRecords
    <3> QED
      BY <2>2, <3>1
  <2> QED
    BY <1>1, <2>1, <2>2 DEF Starts, runtime
<1>2. ASSUME NEW r \in Requests, NEW c \in Contents, Stops(r, c)
      PROVE  G
  <2>1. CASE UNCHANGED runtime
    BY <1>0, <2>1
  <2>2. CASE current # None /\ UNCHANGED <<current, closing, leaving, child, process, transport>>
               /\ instance' = [instance EXCEPT ![current] =
                                 AskClose([instance[current] EXCEPT !.closed = TRUE])]
    <3>1. AskClose([instance[current] EXCEPT !.closed = TRUE]) \in InstanceRecords
      BY <2>2, InstanceType
    <3> QED
      BY <2>2, <3>1
  <2> QED
    BY <1>2, <2>1, <2>2 DEF Stops
<1>3. ASSUME NEW r \in Requests, Approve(r)
      PROVE  G
  <2>1. request[r].says \in Contents
    BY <1>3 DEF Approve, RequestKept
  <2> QED
    BY <1>0, <1>1, <1>2, <1>3, <2>1 DEF Approve, Calls
<1>4. ASSUME NEW r \in Requests, StopAnswers(r)
      PROVE  G
  <2>1. request[r].at \in Instances
    BY <1>4 DEF StopAnswers, RequestKept
  <2>2. Forgotten(request[r].at) \in InstanceRecords
    BY <2>1, InstanceType DEF Forgotten
  <2> QED
    BY <1>4, <2>1, <2>2 DEF StopAnswers
<1>5. CASE Restart
  BY <1>5 DEF Restart, Unused, InstanceRecords
<1>6. ASSUME NEW i \in Instances, Spawn(i) \/ Started(i)
      PROVE  G
  <2>0. \A start \in {"spawned", "failed", "done"} :
          [instance[i] EXCEPT !.start = start] \in InstanceRecords
    BY InstanceType
  <2>1. instance' \in [Instances -> InstanceRecords]
    <3>1. \E start \in {"spawned", "failed", "done"} :
            instance' = [instance EXCEPT ![i] = [instance[i] EXCEPT !.start = start]]
      BY <1>6 DEF Spawn, Started
    <3> QED
      BY <2>0, <3>1
  <2>2. child' \in [Instances -> BOOLEAN]
    BY <1>6 DEF Spawn, Started
  <2>3. transport' \in [Instances -> {"disconnected", "starting", "ready", "failed"}]
    BY <1>6 DEF Spawn, Started
  <2>4. process' \in [Instances -> {"none", "running", "told"}]
    BY <1>6 DEF Spawn, Started
  <2> QED
    BY <1>6, <2>1, <2>2, <2>3, <2>4 DEF Spawn, Started
<1>7. ASSUME NEW i \in Instances, StartFails(i) \/ StartGivesUp(i)
      PROVE  G
  <2>1. /\ Unused \in InstanceRecords
        /\ AskClose([instance[i] EXCEPT !.start = "closing"]) \in InstanceRecords
    BY InstanceType
  <2>2. instance' \in [Instances -> InstanceRecords]
    <3>1. \/ instance' = [instance EXCEPT ![i] = Unused]
          \/ instance' = [instance EXCEPT ![i] = AskClose([instance[i] EXCEPT !.start = "closing"])]
      BY <1>7 DEF StartFails, StartGivesUp
    <3> QED
      BY <2>1, <3>1
  <2> QED
    BY <1>7, <2>2 DEF StartFails, StartGivesUp
<1>8. ASSUME NEW i \in Instances, CloseTransport(i) \/ ChildEnds(i) \/ Terminate(i)
      PROVE  G
  <2>1. instance' \in [Instances -> InstanceRecords]
    <3>1. [instance[i] EXCEPT !.close = "done"] \in InstanceRecords
      BY InstanceType
    <3>2. \/ instance' = [instance EXCEPT ![i] = [instance[i] EXCEPT !.close = "done"]]
          \/ UNCHANGED instance
      BY <1>8 DEF CloseTransport, ChildEnds, Terminate
    <3> QED
      BY <3>1, <3>2
  <2>2. process' \in [Instances -> {"none", "running", "told"}]
    BY <1>8 DEF CloseTransport, ChildEnds, Terminate, Killed
  <2>3. UNCHANGED <<current, closing, leaving>>
    BY <1>8 DEF CloseTransport, ChildEnds, Terminate
  <2>4. /\ child' \in [Instances -> BOOLEAN]
        /\ transport' \in [Instances -> {"disconnected", "starting", "ready", "failed"}]
    BY <1>8 DEF CloseTransport, ChildEnds, Terminate
  <2> QED
    BY <2>1, <2>2, <2>3, <2>4
<1>9. CASE HealthCheck \/ UNCHANGED vars
  BY <1>0, <1>9 DEF HealthCheck, vars
<1>10. ASSUME NEW p \in Proposals, NEW op \in Operations, Propose(p, op)
       PROVE  G
  BY <1>0, <1>10 DEF Propose
<1>11. ASSUME NEW r \in Requests, NEW kind \in {"approve", "reject"}, NEW p \in Proposals,
              Ask(r, kind, p)
       PROVE  G
  BY <1>0, <1>11 DEF Ask
<1>12. ASSUME NEW r \in Requests, Reject(r) \/ StartAnswers(r) \/ CallEnds(r) \/ Finish(r)
       PROVE  G
  BY <1>0, <1>12 DEF Reject, StartAnswers, CallEnds, Finish
<1>13. ASSUME NEW i \in Instances, ProcessEnds(i)
       PROVE  G
  BY <1>13 DEF ProcessEnds
<1>14. CASE RuntimeClose
  BY <1>14 DEF RuntimeClose
<1>15. CASE CloseLeaving \/ LeavingClosed
  <2>1. leaving \in Instances
    BY <1>15 DEF CloseLeaving, LeavingClosed
  <2>2. /\ AskClose([instance[leaving] EXCEPT !.closed = TRUE]) \in InstanceRecords
        /\ Forgotten(leaving) \in InstanceRecords
    BY <2>1, InstanceType DEF Forgotten
  <2> QED
    BY <1>15, <2>1, <2>2 DEF CloseLeaving, LeavingClosed
<1> QED
  BY <1>3, <1>4, <1>5, <1>6, <1>7, <1>8, <1>9, <1>10, <1>11, <1>12, <1>13, <1>14, <1>15 DEF Next

\* Every step keeps the types.
LEMMA TypeStep ==
  ASSUME TypeOK, RequestKept, [Next]_vars
  PROVE  TypeOK'
BY RegistryType, ControlType, RuntimeType DEF TypeOK

\* A request that proceeds keeps what the others work with.
LEMMA ProceedKept ==
  ASSUME TypeOK, RequestKept, NEW r \in Requests, request[r].phase # "idle",
         NEW at \in Instances \cup {None}, NEW phase \in {"start", "stop", "call", "audit"},
         phase # "audit" => at \in Instances, Proceed(r, phase, at)
  PROVE  RequestKept'
<1> SUFFICES ASSUME NEW q \in Requests
             PROVE  /\ request'[q].phase # "idle" => request'[q].on \in Proposals
                    /\ request'[q].phase = "body" => request'[q].says \in Contents
                    /\ request'[q].phase \in {"start", "stop", "call"} => request'[q].at \in Instances
  BY DEF RequestKept
<1>1. CASE q = r
  BY <1>1 DEF TypeOK, RequestRecords, RequestKept, Proceed
<1>2. CASE q # r
  BY <1>2 DEF TypeOK, RequestKept, Proceed
<1> QED
  BY <1>1, <1>2

\* Every step keeps RequestKept.
LEMMA RequestStep ==
  ASSUME TypeOK, RequestKept, [Next]_vars
  PROVE  RequestKept'
<1>1. ASSUME NEW r \in Requests, request[r].phase # "idle", Over(r)
      PROVE  RequestKept'
  BY <1>1, ProceedKept DEF Over
<1>2. ASSUME NEW r \in Requests, request' = [request EXCEPT ![r] = Idle]
      PROVE  RequestKept'
  BY <1>2 DEF TypeOK, RequestKept, Idle
<1>3. ASSUME NEW r \in Requests, Approve(r)
      PROVE  RequestKept'
  <2> DEFINE c == request[r].says
  <2>1. request[r].phase = "body"
    BY <1>3 DEF Approve
  <2>2. CASE request[r].on \in claimed
    BY <1>2, <1>3, <2>2 DEF Approve
  <2>3. CASE Over(r)
    BY <1>1, <2>1, <2>3
  <2>4. CASE \E i \in Instances, phase \in {"start", "stop", "call"} : Proceed(r, phase, i)
    BY <2>1, <2>4, ProceedKept
  <2>5. ASSUME Starts(r, c) \/ Stops(r, c) \/ Calls(r, c), ~Over(r)
        PROVE  \E i \in Instances, phase \in {"start", "stop", "call"} : Proceed(r, phase, i)
    BY <2>5 DEF Starts, Stops, Calls, TypeOK
  <2> QED
    BY <1>3, <2>2, <2>3, <2>4, <2>5 DEF Approve
<1>4. ASSUME NEW r \in Requests, StartAnswers(r) \/ StopAnswers(r) \/ CallEnds(r)
      PROVE  RequestKept'
  BY <1>1, <1>4 DEF StartAnswers, StopAnswers, CallEnds
<1>5. ASSUME NEW r \in Requests, Reject(r) \/ Finish(r)
      PROVE  RequestKept'
  BY <1>2, <1>5 DEF Reject, Finish
<1>6. ASSUME NEW r \in Requests, NEW kind \in {"approve", "reject"}, NEW p \in Proposals,
             Ask(r, kind, p)
      PROVE  RequestKept'
  BY <1>6 DEF Ask, TypeOK, RequestKept, Idle
<1>7. ASSUME NEW i \in Instances, CloseTransport(i) \/ ChildEnds(i) \/ Terminate(i)
      PROVE  RequestKept'
  <2>1. \A r \in Requests :
          \/ request'[r] = request[r]
          \/ request[r].phase = "call" /\ request'[r].phase = "audit" /\ request'[r].on = request[r].on
    <3>1. RejectPending(i)
      BY <1>7 DEF CloseTransport, ChildEnds, Terminate
    <3> QED
      BY <3>1 DEF RejectPending, TypeOK, RequestRecords
  <2> QED
    BY <2>1 DEF RequestKept
<1>8. CASE Restart
  BY <1>8 DEF Restart, RequestKept, Idle
<1>9. ASSUME UNCHANGED request
      PROVE  RequestKept'
  BY <1>9 DEF RequestKept
<1>10. ASSUME NEW i \in Instances, Spawn(i) \/ Started(i) \/ StartFails(i) \/ StartGivesUp(i)
                                   \/ ProcessEnds(i)
       PROVE  UNCHANGED request
  BY <1>10 DEF Spawn, Started, StartFails, StartGivesUp, ProcessEnds, control
<1>11. ASSUME NEW p \in Proposals, NEW op \in Operations, Propose(p, op)
       PROVE  UNCHANGED request
  BY <1>11 DEF Propose
<1>12. CASE HealthCheck \/ RuntimeClose \/ CloseLeaving \/ LeavingClosed \/ UNCHANGED vars
  BY <1>9, <1>12 DEF HealthCheck, RuntimeClose, CloseLeaving, LeavingClosed, vars, control
<1> QED
  BY <1>3, <1>4, <1>5, <1>6, <1>7, <1>8, <1>9, <1>10, <1>11, <1>12 DEF Next

\* An instance that a step leaves alone stays sound, unless the step takes it
\* off the register or has its child run.
LEMMA SoundStep ==
  ASSUME TypeOK, InstanceKept, NEW j \in Instances,
         instance'[j] = instance[j], child'[j] = child[j], transport'[j] = transport[j],
         process'[j] = "running" => process[j] = "running",
         j \in {current, leaving} => j \in {current', leaving'},
         current' = j => current = j
  PROVE  Sound(j)'
BY DEF InstanceKept, Sound

\* Every step keeps InstanceKept: a stop does not forget an instance before it
\* is closed, and a start finds none registered.
LEMMA InstanceStep ==
  ASSUME TypeOK, RequestKept, StopKept, InstanceKept, [Next]_vars
  PROVE  InstanceKept'
<1> USE NoneAssumption DEF NoneAssumption
<1> DEFINE L == leaving # None => closing /\ current # leaving
           Alone(j) == /\ instance'[j] = instance[j] /\ child'[j] = child[j]
                       /\ transport'[j] = transport[j]
                       /\ process'[j] = "running" => process[j] = "running"
                       /\ j \in {current, leaving} => j \in {current', leaving'}
                       /\ current' = j => current = j
<1>0. ASSUME UNCHANGED runtime
      PROVE  InstanceKept'
  BY <1>0 DEF runtime, InstanceKept, Sound
<1>00. ASSUME L', NEW i \in Instances, Sound(i)', \A j \in Instances : j # i => Alone(j)
       PROVE  InstanceKept'
  <2>1. \A j \in Instances : j # i => Sound(j)'
    BY <1>00, SoundStep
  <2> QED
    BY <1>00, <2>1 DEF InstanceKept
<1>1. ASSUME NEW r \in Requests, NEW c \in Contents, Starts(r, c), ~UNCHANGED runtime
      PROVE  InstanceKept'
  <2>1. PICK i \in Instances :
          /\ current = None /\ current' = i /\ leaving # i
          /\ instance[i] = Unused /\ process[i] = "none"
          /\ instance' = [instance EXCEPT ![i] =
                            [Unused EXCEPT !.record = record, !.start = "calling"]]
          /\ transport' = [transport EXCEPT ![i] = "starting"]
          /\ UNCHANGED <<closing, leaving, child, process>>
    BY <1>1 DEF Starts, runtime
  <2>2. /\ instance'[i].start = "calling" /\ instance'[i].close = "none" /\ ~instance'[i].closed
        /\ ~child'[i] /\ process'[i] = "none"
    BY <2>1 DEF TypeOK, Unused, InstanceKept, Sound
  <2>3. Sound(i)'
    BY <2>1, <2>2 DEF Sound
  <2>4. \A j \in Instances : j # i => Alone(j)
    BY <2>1 DEF TypeOK
  <2>5. L'
    BY <2>1 DEF InstanceKept
  <2> QED
    BY <1>00, <2>3, <2>4, <2>5
<1>2. ASSUME NEW r \in Requests, NEW c \in Contents, Stops(r, c), ~UNCHANGED runtime
      PROVE  InstanceKept'
  <2>1. /\ current \in Instances
        /\ ~instance[current].closed
        /\ instance' = [instance EXCEPT ![current] =
                          AskClose([instance[current] EXCEPT !.closed = TRUE])]
        /\ UNCHANGED <<current, closing, leaving, child, process, transport>>
    BY <1>2 DEF Stops, TypeOK, State
  <2>2. Sound(current)
    BY <2>1 DEF InstanceKept
  <2>3. /\ instance'[current].closed /\ instance'[current].close = "asked"
        /\ instance'[current].start = instance[current].start
        /\ instance[current].start # "none"
    BY <2>1, <2>2 DEF TypeOK, InstanceRecords, Sound, AskClose
  <2>4. Sound(current)'
    BY <2>1, <2>2, <2>3 DEF Sound
  <2>5. \A j \in Instances : j # current => Alone(j)
    BY <2>1 DEF TypeOK
  <2>6. L'
    BY <2>1 DEF InstanceKept
  <2> QED
    BY <1>00, <2>1, <2>4, <2>5, <2>6
<1>3. ASSUME NEW r \in Requests, Approve(r)
      PROVE  InstanceKept'
  <2>1. request[r].says \in Contents
    BY <1>3 DEF Approve, RequestKept
  <2> QED
    BY <1>0, <1>1, <1>2, <1>3, <2>1 DEF Approve, Calls
<1>4. ASSUME NEW r \in Requests, StopAnswers(r)
      PROVE  InstanceKept'
  <2> PICK i \in Instances : i = request[r].at
    BY <1>4 DEF StopAnswers, RequestKept
  <2>1. /\ instance[i].close = "done" \/ instance[i].start = "none"
        /\ Sound(i)
    BY <1>4 DEF StopAnswers, StopKept, TypeOK, InstanceRecords, InstanceKept
  <2>2. /\ current' = IF current = i THEN None ELSE current
        /\ instance' = [instance EXCEPT ![i] = Forgotten(i)]
        /\ UNCHANGED <<closing, leaving, child, process, transport>>
    BY <1>4 DEF StopAnswers
  <2>3. instance'[i] \in {Unused, instance[i]}
    BY <2>2 DEF TypeOK, Forgotten
  <2>4. Sound(i)'
    BY <2>1, <2>2, <2>3 DEF Sound, Unused
  <2>5. \A j \in Instances : j # i => Alone(j)
    BY <2>2 DEF TypeOK
  <2>6. L'
    BY <2>2 DEF InstanceKept
  <2> QED
    BY <1>00, <2>4, <2>5, <2>6
<1>5. CASE Restart
  <2>1. L'
    BY <1>5 DEF Restart
  <2>2. \A j \in Instances : Sound(j)'
    BY <1>5 DEF Restart, Unused, Sound
  <2> QED
    BY <2>1, <2>2 DEF InstanceKept
<1>6. ASSUME NEW i \in Instances, Spawn(i)
      PROVE  InstanceKept'
  <2>1. \A j \in Instances : j # i => Alone(j)
    BY <1>6 DEF Spawn, TypeOK
  <2>2. /\ instance'[i].closed = instance[i].closed /\ instance'[i].close = instance[i].close
        /\ instance[i].start = "calling" /\ UNCHANGED <<current, closing, leaving>>
        /\ \/ /\ transport[i] = "starting" /\ instance'[i].start = "spawned"
              /\ child'[i] /\ transport'[i] = "ready"
           \/ /\ instance'[i].start = "failed" /\ child'[i] = child[i] /\ process'[i] = process[i]
              /\ transport'[i] = "failed" \/ transport'[i] = transport[i]
    BY <1>6 DEF Spawn, TypeOK, InstanceRecords
  <2>3. Sound(i)'
    BY <2>2 DEF InstanceKept, Sound
  <2> QED
    BY <1>00, <2>1, <2>2, <2>3 DEF InstanceKept
<1>7. ASSUME NEW i \in Instances, Started(i)
      PROVE  InstanceKept'
  <2>1. \A j \in Instances : j # i => Alone(j)
    BY <1>7 DEF Started, TypeOK
  <2>2. /\ instance'[i].closed = instance[i].closed /\ instance'[i].close = instance[i].close
        /\ instance[i].start = "spawned" /\ instance'[i].start = "done"
        /\ UNCHANGED <<current, closing, leaving, child, process, transport>>
    BY <1>7 DEF Started, TypeOK, InstanceRecords
  <2>3. Sound(i)'
    BY <2>2 DEF InstanceKept, Sound
  <2> QED
    BY <1>00, <2>1, <2>2, <2>3 DEF InstanceKept
<1>8. ASSUME NEW i \in Instances, StartFails(i)
      PROVE  InstanceKept'
  <2>1. UNCHANGED <<closing, leaving, child, process>>
    BY <1>8 DEF StartFails
  <2>2. CASE Abandoned(i)
    <3>0. /\ instance' = [instance EXCEPT ![i] = AskClose([instance[i] EXCEPT !.start = "closing"])]
          /\ instance[i].start # "none" /\ UNCHANGED <<current, transport>>
      BY <1>8, <2>2 DEF StartFails
    <3>1. /\ instance'[i].closed = instance[i].closed
          /\ instance'[i].close = IF instance[i].close = "none" THEN "asked" ELSE instance[i].close
          /\ instance'[i].start = "closing" /\ instance[i].start # "none"
          /\ instance[i].closed \/ current # i
          /\ UNCHANGED <<current, transport>>
      BY <2>2, <3>0 DEF Abandoned, AskClose, TypeOK, InstanceRecords
    <3>2. Sound(i)'
      BY <2>1, <3>1 DEF InstanceKept, Sound
    <3>3. \A j \in Instances : j # i => Alone(j)
      BY <1>8, <2>2 DEF StartFails, TypeOK
    <3> QED
      BY <1>00, <2>1, <3>1, <3>2, <3>3 DEF InstanceKept
  <2>3. CASE ~Abandoned(i)
    <3>1. /\ instance[i].start = "failed" /\ current = i /\ current' = None
          /\ instance'[i] = Unused
      BY <1>8, <2>3 DEF StartFails, Abandoned, TypeOK
    <3>2. Sound(i)'
      BY <2>1, <3>1 DEF InstanceKept, Sound, Unused
    <3>3. \A j \in Instances : j # i => Alone(j)
      BY <1>8, <2>3, <3>1 DEF StartFails, TypeOK
    <3> QED
      BY <1>00, <2>1, <3>1, <3>2, <3>3 DEF InstanceKept
  <2> QED
    BY <2>2, <2>3
<1>9. ASSUME NEW i \in Instances, StartGivesUp(i)
      PROVE  InstanceKept'
  <2>1. /\ instance[i].close = "done" /\ instance'[i] = Unused
        /\ current' = IF current = i THEN None ELSE current
        /\ UNCHANGED <<closing, leaving, child, process, transport>>
    BY <1>9 DEF StartGivesUp, TypeOK
  <2>2. Sound(i)'
    BY <2>1 DEF InstanceKept, Sound, Unused
  <2>3. \A j \in Instances : j # i => Alone(j)
    BY <1>9, <2>1 DEF StartGivesUp, TypeOK
  <2> QED
    BY <1>00, <2>1, <2>2, <2>3 DEF InstanceKept
<1>10. ASSUME NEW i \in Instances, CloseTransport(i)
       PROVE  InstanceKept'
  <2>1. /\ instance[i].close = "asked" /\ instance'[i].close = "done"
        /\ instance'[i].closed = instance[i].closed /\ instance'[i].start = instance[i].start
        /\ ~child'[i] /\ transport'[i] = "disconnected" /\ UNCHANGED <<current, closing, leaving>>
        /\ process'[i] # "running"
    BY <1>10 DEF CloseTransport, Killed, TypeOK, InstanceRecords, InstanceKept, Sound
  <2>2. Sound(i)'
    BY <2>1 DEF InstanceKept, Sound
  <2>3. \A j \in Instances : j # i => Alone(j)
    BY <1>10, <2>1 DEF CloseTransport, Killed, TypeOK
  <2> QED
    BY <1>00, <2>1, <2>2, <2>3 DEF InstanceKept
<1>11. ASSUME NEW i \in Instances, ChildEnds(i) \/ Terminate(i)
       PROVE  InstanceKept'
  <2>1. /\ UNCHANGED <<instance, current, closing, leaving>> /\ ~child'[i]
        /\ transport'[i] # "starting" /\ process'[i] # "running"
    BY <1>11 DEF ChildEnds, Terminate, Killed, TypeOK
  <2>2. Sound(i)'
    BY <2>1 DEF InstanceKept, Sound
  <2>3. \A j \in Instances : j # i => Alone(j)
    BY <1>11, <2>1 DEF ChildEnds, Terminate, Killed, TypeOK
  <2> QED
    BY <1>00, <2>1, <2>2, <2>3 DEF InstanceKept
<1>12. ASSUME NEW i \in Instances, ProcessEnds(i)
       PROVE  InstanceKept'
  <2>1. \A j \in Instances : Alone(j)
    BY <1>12 DEF ProcessEnds, TypeOK
  <2>2. UNCHANGED <<current, closing, leaving>>
    BY <1>12 DEF ProcessEnds
  <2> QED
    BY <2>1, <2>2, SoundStep DEF InstanceKept
<1>13. CASE RuntimeClose
  <2>1. \A j \in Instances : Alone(j)
    BY <1>13 DEF RuntimeClose, InstanceKept
  <2>2. L'
    BY <1>13 DEF RuntimeClose
  <2> QED
    BY <2>1, <2>2, SoundStep DEF InstanceKept
<1>14. CASE CloseLeaving
  <2>1. /\ leaving \in Instances
        /\ instance[leaving].start # "none"
        /\ instance' = [instance EXCEPT ![leaving] =
                          AskClose([instance[leaving] EXCEPT !.closed = TRUE])]
        /\ UNCHANGED <<current, closing, leaving, child, process, transport>>
    BY <1>14 DEF CloseLeaving, TypeOK
  <2>2. /\ instance'[leaving].closed /\ instance'[leaving].start = instance[leaving].start
        /\ instance'[leaving].close =
             IF instance[leaving].close = "none" THEN "asked" ELSE instance[leaving].close
    BY <2>1 DEF AskClose, TypeOK, InstanceRecords
  <2>3. Sound(leaving)'
    BY <2>1, <2>2 DEF InstanceKept, Sound
  <2>4. \A j \in Instances : j # leaving => Alone(j)
    BY <2>1 DEF TypeOK
  <2> QED
    BY <1>00, <2>1, <2>3, <2>4 DEF InstanceKept
<1>15. CASE LeavingClosed
  <2> PICK i \in Instances : i = leaving
    BY <1>15 DEF LeavingClosed, TypeOK
  <2>1. /\ instance[i].close = "done" \/ instance[i].start = "none"
        /\ instance' = [instance EXCEPT ![i] = Forgotten(i)] /\ leaving' = None
        /\ UNCHANGED <<current, closing, child, process, transport>>
    BY <1>15 DEF LeavingClosed
  <2>2. instance'[i] \in {Unused, instance[i]}
    BY <2>1 DEF TypeOK, Forgotten
  <2>3. Sound(i)'
    BY <2>1, <2>2 DEF InstanceKept, Sound, Unused
  <2>4. \A j \in Instances : j # i => Alone(j)
    BY <2>1 DEF TypeOK
  <2>5. L'
    BY <2>1
  <2> QED
    BY <1>00, <2>3, <2>4, <2>5
<1>16. CASE HealthCheck \/ UNCHANGED vars
  BY <1>0, <1>16 DEF HealthCheck, vars
<1>17. ASSUME NEW p \in Proposals, NEW op \in Operations, Propose(p, op)
       PROVE  InstanceKept'
  BY <1>0, <1>17 DEF Propose
<1>18. ASSUME NEW r \in Requests, NEW kind \in {"approve", "reject"}, NEW p \in Proposals,
              Ask(r, kind, p)
       PROVE  InstanceKept'
  BY <1>0, <1>18 DEF Ask
<1>19. ASSUME NEW r \in Requests, Reject(r) \/ StartAnswers(r) \/ CallEnds(r) \/ Finish(r)
       PROVE  InstanceKept'
  BY <1>0, <1>19 DEF Reject, StartAnswers, CallEnds, Finish
<1> QED
  BY <1>3, <1>4, <1>5, <1>6, <1>7, <1>8, <1>9, <1>10, <1>11, <1>12, <1>13, <1>14, <1>15, <1>16,
     <1>17, <1>18, <1>19 DEF Next

\* Every step keeps StopKept: what is closed, or forgotten, stays so while a
\* request waits for it.
LEMMA StopStep ==
  ASSUME TypeOK, RequestKept, InstanceKept, StopKept, [Next]_vars
  PROVE  StopKept'
<1> DEFINE Past(i) == instance[i].close # "none" \/ instance[i].start = "none"
           Older == \A q \in Requests : request'[q].phase = "stop" =>
                      request[q].phase = "stop" /\ request'[q].at = request[q].at
<1> USE NoneAssumption DEF NoneAssumption
<1>1. ASSUME Older, \A i \in Instances : Past(i) => Past(i)'
      PROVE  StopKept'
  BY <1>1 DEF StopKept, RequestKept
<1>2. ASSUME NEW r \in Requests, NEW at \in Instances \cup {None}, NEW phase \in {"start", "call", "audit"},
             Proceed(r, phase, at)
      PROVE  Older
  BY <1>2 DEF Proceed, TypeOK, RequestRecords
<1>3. ASSUME NEW r \in Requests, request' = [request EXCEPT ![r] = Idle]
      PROVE  Older
  BY <1>3 DEF Idle, TypeOK
<1>4. ASSUME UNCHANGED instance, Older
      PROVE  StopKept'
  BY <1>1, <1>4
<1>5. ASSUME NEW r \in Requests, NEW c \in Contents, Starts(r, c)
      PROVE  StopKept'
  <2>1. CASE UNCHANGED runtime
    BY <1>2, <1>4, <1>5, <2>1 DEF Starts, Over, runtime, TypeOK
  <2>2. CASE ~UNCHANGED runtime
    <3>1. PICK i \in Instances :
            /\ \A q \in Requests : request[q].at # i
            /\ instance' = [instance EXCEPT ![i] =
                              [Unused EXCEPT !.record = record, !.start = "calling"]]
            /\ Proceed(r, "start", i)
      BY <1>5, <2>2 DEF Starts, runtime
    <3>2. Older
      BY <1>2, <3>1
    <3>3. \A j \in Instances : j # i => instance'[j] = instance[j]
      BY <3>1 DEF TypeOK
    <3> QED
      BY <3>1, <3>2, <3>3 DEF StopKept, RequestKept
  <2> QED
    BY <2>1, <2>2
<1>6. ASSUME NEW r \in Requests, NEW c \in Contents, Stops(r, c)
      PROVE  StopKept'
  <2>1. CASE Over(r) /\ UNCHANGED runtime
    BY <1>2, <1>4, <2>1 DEF Over, runtime
  <2>2. CASE /\ current \in Instances
             /\ instance' = [instance EXCEPT ![current] =
                               AskClose([instance[current] EXCEPT !.closed = TRUE])]
             /\ Proceed(r, "stop", current)
    <3>1. instance'[current].close # "none" /\ \A j \in Instances : j # current => instance'[j] = instance[j]
      BY <2>2 DEF TypeOK, InstanceRecords, AskClose
    <3>2. request'[r].at = current /\ \A q \in Requests : q # r => request'[q] = request[q]
      BY <2>2 DEF TypeOK, RequestRecords, Proceed
    <3>3. ASSUME NEW q \in Requests, request'[q].phase = "stop"
          PROVE  \/ instance'[request'[q].at].close # "none"
                 \/ instance'[request'[q].at].start = "none"
      <4>1. CASE q = r
        BY <3>1, <3>2, <4>1
      <4>2. CASE q # r
        <5>1. request'[q] = request[q] /\ request[q].phase = "stop"
          BY <3>2, <3>3, <4>2
        <5>2. request[q].at \in Instances
          BY <5>1 DEF RequestKept
        <5>3. Past(request[q].at)
          BY <5>1 DEF StopKept
        <5>4. CASE request[q].at = current
          BY <3>1, <5>1, <5>4
        <5>5. CASE request[q].at # current
          <6>1. instance'[request[q].at] = instance[request[q].at]
            BY <3>1, <5>2, <5>5
          <6> QED
            BY <5>1, <5>3, <6>1
        <5> QED
          BY <5>4, <5>5
      <4> QED
        BY <4>1, <4>2
    <3> QED
      BY <3>3 DEF StopKept
  <2> QED
    BY <1>6, <2>1, <2>2 DEF Stops, TypeOK
<1>7. ASSUME NEW r \in Requests, Approve(r)
      PROVE  StopKept'
  <2>1. request[r].says \in Contents
    BY <1>7 DEF Approve, RequestKept
  <2>2. CASE UNCHANGED runtime /\ request' = [request EXCEPT ![r] = Idle]
    BY <1>3, <1>4, <2>2 DEF runtime
  <2>3. CASE UNCHANGED runtime /\ Over(r)
    BY <1>2, <1>4, <2>3 DEF runtime, Over
  <2>4. CASE Calls(r, request[r].says)
    BY <1>2, <1>4, <2>4 DEF Calls, Over, runtime, TypeOK
  <2> QED
    BY <1>5, <1>6, <1>7, <2>1, <2>2, <2>3, <2>4 DEF Approve
<1>8. ASSUME NEW r \in Requests, StopAnswers(r)
      PROVE  StopKept'
  <2>1. Older
    BY <1>2, <1>8 DEF StopAnswers, Over
  <2>2. \A i \in Instances : Past(i) => Past(i)'
    BY <1>8 DEF StopAnswers, Forgotten, Unused, TypeOK
  <2> QED
    BY <1>1, <2>1, <2>2
<1>9. ASSUME NEW r \in Requests, Reject(r) \/ StartAnswers(r) \/ CallEnds(r) \/ Finish(r)
      PROVE  StopKept'
  <2>1. Older
    BY <1>2, <1>3, <1>9 DEF Reject, StartAnswers, CallEnds, Finish, Over
  <2> QED
    BY <1>4, <1>9, <2>1 DEF Reject, StartAnswers, CallEnds, Finish, runtime
<1>10. ASSUME NEW r \in Requests, NEW kind \in {"approve", "reject"}, NEW p \in Proposals,
              Ask(r, kind, p)
       PROVE  StopKept'
  <2>1. Older
    BY <1>10 DEF Ask, Idle, TypeOK
  <2> QED
    BY <1>4, <1>10, <2>1 DEF Ask, runtime
<1>11. ASSUME NEW i \in Instances, Spawn(i) \/ Started(i) \/ StartFails(i) \/ StartGivesUp(i)
       PROVE  StopKept'
  <2>1. Older
    BY <1>11 DEF Spawn, Started, StartFails, StartGivesUp, control
  <2>2. instance[i].start # "none" /\ \A j \in Instances : j # i => instance'[j] = instance[j]
    BY <1>11 DEF Spawn, Started, StartFails, StartGivesUp, TypeOK
  <2>3. instance[i].close # "none" => Past(i)'
    BY <1>11 DEF Spawn, Started, StartFails, StartGivesUp, AskClose, Unused, TypeOK, InstanceRecords
  <2> QED
    BY <1>1, <2>1, <2>2, <2>3
<1>12. ASSUME NEW i \in Instances, CloseTransport(i) \/ ChildEnds(i) \/ Terminate(i)
       PROVE  StopKept'
  <2>1. Older
    <3>1. RejectPending(i)
      BY <1>12 DEF CloseTransport, ChildEnds, Terminate
    <3> QED
      BY <3>1 DEF RejectPending, TypeOK, RequestRecords
  <2>2. \A j \in Instances : Past(j) => Past(j)'
    BY <1>12 DEF CloseTransport, ChildEnds, Terminate, TypeOK, InstanceRecords
  <2> QED
    BY <1>1, <2>1, <2>2
<1>13. CASE Restart
  BY <1>13 DEF Restart, Idle, StopKept
<1>14. CASE HealthCheck \/ RuntimeClose \/ UNCHANGED vars
  BY <1>4, <1>14 DEF HealthCheck, RuntimeClose, vars, control, runtime
<1>15. ASSUME NEW p \in Proposals, NEW op \in Operations, Propose(p, op)
       PROVE  StopKept'
  BY <1>4, <1>15 DEF Propose, runtime
<1>16. ASSUME NEW i \in Instances, ProcessEnds(i)
       PROVE  StopKept'
  BY <1>4, <1>16 DEF ProcessEnds, control
<1>17. CASE CloseLeaving \/ LeavingClosed
  <2>1. Older
    BY <1>17 DEF CloseLeaving, LeavingClosed, control
  <2>2. \A i \in Instances : Past(i) => Past(i)'
    BY <1>17 DEF CloseLeaving, LeavingClosed, AskClose, Forgotten, Unused, TypeOK, InstanceRecords
  <2> QED
    BY <1>1, <2>1, <2>2
<1> QED
  BY <1>7, <1>8, <1>9, <1>10, <1>11, <1>12, <1>13, <1>14, <1>15, <1>16, <1>17 DEF Next

\* Every step keeps RunsItsConfig: a record is given another launch
\* configuration, or removed, only while no instance is registered.
LEMMA RunsItsConfigStep ==
  ASSUME TypeOK, RequestKept, InstanceKept, RunsItsConfig, [Next]_vars
  PROVE  RunsItsConfig'
<1> USE NoneAssumption DEF NoneAssumption
<1>0. ASSUME UNCHANGED <<record, current>>, current # None => instance'[current].record = instance[current].record
      PROVE  RunsItsConfig'
  BY <1>0 DEF RunsItsConfig
<1>1. ASSUME NEW r \in Requests, Approve(r)
      PROVE  RunsItsConfig'
  <2> DEFINE c == request[r].says
  <2>1. c \in Contents
    BY <1>1 DEF Approve, RequestKept
  <2>2. CASE UNCHANGED <<record, runtime>>
    BY <1>0, <2>2 DEF runtime
  <2>3. CASE Registers(c) /\ UNCHANGED runtime /\ c.op \notin {"start", "stop", "call"}
    <3>1. CASE UNCHANGED record
      BY <2>2, <2>3, <3>1
    <3>2. CASE Allowed(c) /\ record' = Changed(c)
      <4>1. CASE current = None
        BY <2>3, <4>1 DEF runtime, RunsItsConfig
      <4>2. CASE current # None
        <5>1. record \in Records
          BY <4>2 DEF RunsItsConfig, TypeOK
        <5>2. c.op \in {"authorize", "enable", "disable"}
          BY <2>1, <2>3, <3>2, <4>2, ConstantsAssumption
             DEF ConstantsAssumption, Allowed, Stopped, RunsItsConfig, Contents
        <5>3. Changed(c) \in Records /\ Changed(c).launch = record.launch
          BY <5>1, <5>2 DEF Changed, Records
        <5>4. record # None /\ record' # None
          BY <3>2, <4>2, <5>3 DEF RunsItsConfig
        <5> QED
          BY <2>3, <3>2, <4>2, <5>3, <5>4 DEF runtime, RunsItsConfig
      <4> QED
        BY <4>1, <4>2
    <3> QED
      BY <2>3, <3>1, <3>2 DEF Registers, Persist, Refused, registry
  <2>4. CASE Starts(r, c) /\ Refused
    <3>1. CASE UNCHANGED runtime
      BY <2>2, <2>4, <3>1 DEF Refused, registry
    <3>2. CASE ~UNCHANGED runtime
      <4>1. /\ record # None /\ current' \in Instances
            /\ instance' = [instance EXCEPT ![current'] =
                              [Unused EXCEPT !.record = record, !.start = "calling"]]
            /\ UNCHANGED record
        BY <2>4, <3>2 DEF Starts, Refused, registry, runtime
      <4>2. instance'[current'].record = record
        BY <4>1 DEF TypeOK, Unused
      <4> QED
        BY <4>1, <4>2 DEF RunsItsConfig
    <3> QED
      BY <3>1, <3>2
  <2>5. CASE Stops(r, c) /\ Refused
    <3>1. CASE UNCHANGED runtime
      BY <2>2, <2>5, <3>1 DEF Refused, registry
    <3>2. CASE ~UNCHANGED runtime
      <4>1. /\ current \in Instances /\ UNCHANGED <<record, current>>
            /\ instance' = [instance EXCEPT ![current] =
                              AskClose([instance[current] EXCEPT !.closed = TRUE])]
        BY <2>5, <3>2 DEF Stops, Refused, registry, TypeOK
      <4>2. instance'[current].record = instance[current].record
        BY <4>1 DEF AskClose, TypeOK, InstanceRecords
      <4> QED
        BY <1>0, <4>1, <4>2
    <3> QED
      BY <3>1, <3>2
  <2>6. CASE Calls(r, c) /\ Refused
    BY <2>2, <2>6 DEF Calls, Refused, registry
  <2> QED
    BY <1>1, <2>2, <2>3, <2>4, <2>5, <2>6 DEF Approve, registry
<1>2. ASSUME NEW r \in Requests, StopAnswers(r)
      PROVE  RunsItsConfig'
  <2>1. current' # None => current' = current /\ instance'[current] = instance[current]
    BY <1>2 DEF StopAnswers, TypeOK
  <2> QED
    BY <1>2, <2>1 DEF StopAnswers, registry, RunsItsConfig
<1>3. CASE Restart
  BY <1>3 DEF Restart, RunsItsConfig
<1>4. ASSUME NEW i \in Instances, Spawn(i) \/ Started(i) \/ CloseTransport(i) \/ ChildEnds(i)
                                  \/ Terminate(i) \/ ProcessEnds(i)
      PROVE  RunsItsConfig'
  <2>1. \A j \in Instances : instance'[j].record = instance[j].record
    BY <1>4 DEF Spawn, Started, CloseTransport, ChildEnds, Terminate, ProcessEnds, TypeOK,
                InstanceRecords
  <2> QED
    BY <1>0, <1>4, <2>1 DEF Spawn, Started, CloseTransport, ChildEnds, Terminate, ProcessEnds,
                            registry, TypeOK
<1>5. ASSUME NEW i \in Instances, StartFails(i) \/ StartGivesUp(i)
      PROVE  RunsItsConfig'
  <2>1. current' # None => current' = current /\ instance'[current].record = instance[current].record
    <3>1. CASE StartGivesUp(i)
      BY <3>1 DEF StartGivesUp, TypeOK
    <3>2. CASE StartFails(i) /\ Abandoned(i)
      <4>1. /\ current' = current
            /\ instance' = [instance EXCEPT ![i] = AskClose([instance[i] EXCEPT !.start = "closing"])]
        BY <3>2 DEF StartFails
      <4>2. AskClose([instance[i] EXCEPT !.start = "closing"]).record = instance[i].record
        BY DEF AskClose, TypeOK, InstanceRecords
      <4> QED
        BY <4>1, <4>2 DEF TypeOK
    <3>3. CASE StartFails(i) /\ ~Abandoned(i)
      BY <3>3 DEF StartFails
    <3> QED
      BY <1>5, <3>1, <3>2, <3>3
  <2> QED
    BY <1>5, <2>1 DEF StartFails, StartGivesUp, registry, RunsItsConfig
<1>6. CASE HealthCheck \/ UNCHANGED vars
  BY <1>0, <1>6 DEF HealthCheck, vars, registry, runtime
<1>7. ASSUME NEW p \in Proposals, NEW op \in Operations, Propose(p, op)
      PROVE  RunsItsConfig'
  BY <1>0, <1>7 DEF Propose, registry, runtime
<1>8. ASSUME NEW r \in Requests, NEW kind \in {"approve", "reject"}, NEW p \in Proposals,
             Ask(r, kind, p)
      PROVE  RunsItsConfig'
  BY <1>0, <1>8 DEF Ask, registry, runtime
<1>9. ASSUME NEW r \in Requests, Reject(r) \/ StartAnswers(r) \/ CallEnds(r) \/ Finish(r)
      PROVE  RunsItsConfig'
  BY <1>0, <1>9 DEF Reject, StartAnswers, CallEnds, Finish, registry, runtime
<1>10. CASE RuntimeClose
  BY <1>10 DEF RuntimeClose, RunsItsConfig
<1>11. CASE CloseLeaving \/ LeavingClosed
  <2>1. current # None => instance'[current].record = instance[current].record
    BY <1>11 DEF CloseLeaving, LeavingClosed, InstanceKept, AskClose, TypeOK, InstanceRecords
  <2> QED
    BY <1>0, <1>11, <2>1 DEF CloseLeaving, LeavingClosed, registry
<1> QED
  BY <1>1, <1>2, <1>3, <1>4, <1>5, <1>6, <1>7, <1>8, <1>9, <1>10, <1>11 DEF Next

\* Every step keeps CallHasChild: when a child goes, its calls are rejected.
LEMMA CallHasChildStep ==
  ASSUME TypeOK, RequestKept, CallHasChild, [Next]_vars
  PROVE  CallHasChild'
<1> DEFINE Older == \A q \in Requests : request'[q].phase = "call" =>
                      request[q].phase = "call" /\ request'[q].at = request[q].at
<1>1. ASSUME Older, \A i \in Instances : child[i] => child'[i]
      PROVE  CallHasChild'
  BY <1>1 DEF CallHasChild, RequestKept
<1>2. ASSUME NEW r \in Requests, NEW at \in Instances \cup {None}, NEW phase \in {"start", "stop", "audit"},
             Proceed(r, phase, at)
      PROVE  Older
  BY <1>2 DEF Proceed, TypeOK, RequestRecords
<1>3. ASSUME NEW r \in Requests, request' = [request EXCEPT ![r] = Idle]
      PROVE  Older
  BY <1>3 DEF Idle, TypeOK
<1>4. ASSUME NEW r \in Requests, Approve(r)
      PROVE  CallHasChild'
  <2> DEFINE c == request[r].says
  <2>1. UNCHANGED child
    BY <1>4 DEF Approve, Starts, Stops, Calls, runtime
  <2>2. CASE /\ child[current] /\ Proceed(r, "call", current)
    <3>1. request'[r].at = current /\ \A q \in Requests : q # r => request'[q] = request[q]
      BY <2>2 DEF TypeOK, RequestRecords, Proceed
    <3> QED
      BY <2>1, <2>2, <3>1 DEF CallHasChild
  <2>3. CASE Older
    BY <1>1, <2>1, <2>3
  <2>4. CASE Over(r) \/ request' = [request EXCEPT ![r] = Idle]
    BY <1>2, <1>3, <2>3, <2>4 DEF Over
  <2>5. CASE Starts(r, c) /\ ~Over(r)
    <3>1. \E i \in Instances : Proceed(r, "start", i)
      BY <2>5 DEF Starts, TypeOK
    <3> QED
      BY <1>2, <2>3, <3>1
  <2>6. CASE Stops(r, c) /\ ~Over(r)
    <3>1. Proceed(r, "stop", current)
      BY <2>6 DEF Stops
    <3> QED
      BY <1>2, <2>3, <3>1 DEF TypeOK
  <2>7. CASE Calls(r, c)
    BY <2>2, <2>4, <2>7 DEF Calls
  <2> QED
    BY <1>4, <2>4, <2>5, <2>6, <2>7 DEF Approve
<1>5. ASSUME NEW r \in Requests,
             Reject(r) \/ StartAnswers(r) \/ StopAnswers(r) \/ CallEnds(r) \/ Finish(r)
      PROVE  CallHasChild'
  <2>1. Older
    BY <1>2, <1>3, <1>5 DEF Reject, StartAnswers, StopAnswers, CallEnds, Finish, Over
  <2> QED
    BY <1>1, <1>5, <2>1 DEF Reject, StartAnswers, StopAnswers, CallEnds, Finish, runtime
<1>6. ASSUME NEW r \in Requests, NEW kind \in {"approve", "reject"}, NEW p \in Proposals,
             Ask(r, kind, p)
      PROVE  CallHasChild'
  <2>1. Older
    BY <1>6 DEF Ask, Idle, TypeOK
  <2> QED
    BY <1>1, <1>6, <2>1 DEF Ask, runtime
<1>7. ASSUME NEW i \in Instances, CloseTransport(i) \/ ChildEnds(i) \/ Terminate(i)
      PROVE  CallHasChild'
  <2>1. RejectPending(i) /\ child' = [child EXCEPT ![i] = FALSE]
    BY <1>7 DEF CloseTransport, ChildEnds, Terminate
  <2>2. \A q \in Requests : request'[q].phase = "call" => request'[q] = request[q] /\ request[q].at # i
    BY <2>1 DEF RejectPending, TypeOK, RequestRecords
  <2>3. \A j \in Instances : j # i => child'[j] = child[j]
    BY <2>1 DEF TypeOK
  <2> QED
    BY <2>2, <2>3 DEF CallHasChild, RequestKept
<1>8. ASSUME NEW i \in Instances, Spawn(i) \/ Started(i) \/ StartFails(i) \/ StartGivesUp(i)
      PROVE  CallHasChild'
  <2>1. Older
    BY <1>8 DEF Spawn, Started, StartFails, StartGivesUp, control
  <2>2. \A j \in Instances : child[j] => child'[j]
    BY <1>8 DEF Spawn, Started, StartFails, StartGivesUp, TypeOK
  <2> QED
    BY <1>1, <2>1, <2>2
<1>9. CASE Restart
  BY <1>9 DEF Restart, Idle, CallHasChild
<1>10. ASSUME UNCHANGED <<request, child>>
       PROVE  CallHasChild'
  BY <1>10 DEF CallHasChild
<1>11. CASE \/ HealthCheck \/ RuntimeClose \/ CloseLeaving \/ LeavingClosed \/ UNCHANGED vars
            \/ \E i \in Instances : ProcessEnds(i)
  BY <1>10, <1>11 DEF HealthCheck, RuntimeClose, CloseLeaving, LeavingClosed, ProcessEnds, vars,
                      control, runtime
<1>12. ASSUME NEW p \in Proposals, NEW op \in Operations, Propose(p, op)
       PROVE  CallHasChild'
  BY <1>10, <1>12 DEF Propose, runtime
<1> QED
  BY <1>4, <1>5, <1>6, <1>7, <1>8, <1>9, <1>11, <1>12 DEF Next

\* The initial states satisfy the invariant.
LEMMA InitIInv == Init => IInv
<1> SUFFICES ASSUME Init
             PROVE  IInv
  OBVIOUS
<1> USE NoneAssumption, ConstantsAssumption DEF NoneAssumption, ConstantsAssumption, Init
<1>1. {record, disk} \subseteq Records \cup {None} /\ failures \in 0..MaxFailures
  OBVIOUS
<1>2. /\ torn \in BOOLEAN /\ closing \in BOOLEAN /\ child \in [Instances -> BOOLEAN]
      /\ process \in [Instances -> {"none", "running", "told"}]
  OBVIOUS
<1>3. /\ pending \in [Proposals -> Contents \cup {None}]
      /\ request \in [Requests -> RequestRecords]
      /\ instance \in [Instances -> InstanceRecords]
      /\ transport \in [Instances -> {"disconnected", "starting", "ready", "failed"}]
  BY DEF Idle, RequestRecords, Unused, InstanceRecords
<1>4. TypeOK
  BY <1>1, <1>2, <1>3 DEF TypeOK
<1>5. RequestKept /\ StopKept /\ CallHasChild
  BY DEF RequestKept, StopKept, CallHasChild, Idle
<1>6. InstanceKept /\ RunsItsConfig
  BY DEF InstanceKept, Sound, RunsItsConfig, Unused
<1> QED
  BY <1>4, <1>5, <1>6 DEF IInv

\* The invariant holds in every state.
THEOREM Invariance == Spec => []IInv
<1>1. IInv /\ [Next]_vars => IInv'
  BY TypeStep, RequestStep, InstanceStep, StopStep, RunsItsConfigStep, CallHasChildStep DEF IInv
<1> QED
  BY InitIInv, <1>1, PTL DEF Spec

\* Every variable of McpServers keeps to its type.
THEOREM TypeCorrect == Spec => []TypeOK
<1>1. IInv => TypeOK
  BY DEF IInv
<1> QED
  BY Invariance, <1>1, PTL

\* RunsItsConfig: an instance is registered only beside the record it was
\* started from.
THEOREM RunsItsConfigTheorem == Spec => []RunsItsConfig
<1>1. IInv => RunsItsConfig
  BY DEF IInv
<1> QED
  BY Invariance, <1>1, PTL

\* CallHasChild: no call waits for a child that is gone.
THEOREM CallHasChildTheorem == Spec => []CallHasChild
<1>1. IInv => CallHasChild
  BY DEF IInv
<1> QED
  BY Invariance, <1>1, PTL

\* OthersToldToEnd: of the processes of a server, however many live at once, only
\* the child of the registered instance, or of the one that the close of the
\* runtime has yet to reach, has not been told to end.
THEOREM OthersToldToEndTheorem == Spec => []OthersToldToEnd
<1>1. IInv => OthersToldToEnd
  BY DEF IInv, InstanceKept, Sound, OthersToldToEnd
<1> QED
  BY Invariance, <1>1, PTL

\* RecordIsStored: a write that fails changes memory no more than the file,
\* unless it is in place and reported as failed.
THEOREM RecordIsStoredTheorem == Spec => []RecordIsStored
<1>1. Init => RecordIsStored
  BY DEF Init, RecordIsStored
<1>2. RecordIsStored /\ [Next]_vars => RecordIsStored'
  <2> SUFFICES ASSUME RecordIsStored, [Next]_vars
               PROVE  RecordIsStored'
    OBVIOUS
  <2>1. CASE UNCHANGED registry
    BY <2>1 DEF registry, RecordIsStored
  <2>2. ASSUME NEW next, Persist(next)
        PROVE  RecordIsStored'
    BY <2>2 DEF Persist, RecordIsStored
  <2>3. ASSUME NEW r \in Requests, Approve(r)
        PROVE  RecordIsStored'
    BY <2>1, <2>2, <2>3 DEF Approve, Registers, Refused
  <2>4. CASE Restart \/ HealthCheck
    BY <2>4 DEF Restart, HealthCheck, RecordIsStored
  <2>5. ASSUME NEW p \in Proposals, NEW op \in Operations, Propose(p, op)
        PROVE  UNCHANGED registry
    BY <2>5 DEF Propose
  <2>6. ASSUME NEW r \in Requests, NEW kind \in {"approve", "reject"}, NEW p \in Proposals,
               Ask(r, kind, p)
        PROVE  UNCHANGED registry
    BY <2>6 DEF Ask
  <2>7. ASSUME NEW r \in Requests,
               Reject(r) \/ StartAnswers(r) \/ StopAnswers(r) \/ CallEnds(r) \/ Finish(r)
        PROVE  UNCHANGED registry
    BY <2>7 DEF Reject, StartAnswers, StopAnswers, CallEnds, Finish
  <2>8. ASSUME NEW i \in Instances,
               Spawn(i) \/ Started(i) \/ StartFails(i) \/ StartGivesUp(i) \/ CloseTransport(i)
                 \/ ChildEnds(i) \/ Terminate(i) \/ ProcessEnds(i)
        PROVE  UNCHANGED registry
    BY <2>8 DEF Spawn, Started, StartFails, StartGivesUp, CloseTransport, ChildEnds, Terminate,
                ProcessEnds
  <2>9. CASE RuntimeClose \/ CloseLeaving \/ LeavingClosed \/ UNCHANGED vars
    BY <2>1, <2>9 DEF RuntimeClose, CloseLeaving, LeavingClosed, vars
  <2> QED
    BY <2>1, <2>3, <2>4, <2>5, <2>6, <2>7, <2>8, <2>9 DEF Next
<1> QED
  BY <1>1, <1>2, PTL DEF Spec
=============================================================================
