------------------------- MODULE ChatSessionProofs --------------------------
(***************************************************************************)
(* Proofs about ChatSession, for any number of sessions, turns, crashes    *)
(* and failing writes.                                                     *)
(*                                                                         *)
(* The inductive invariant IInv adds to the type invariant and to          *)
(* RunningIsTrue and InterruptionIsOnDisk                                  *)
(*   - SessionsKnown: a session in memory is on disk, and so is that of a  *)
(*     turn;                                                               *)
(*   - StagesKept: a turn goes through its stages in order, and nothing    *)
(*     goes on in a process that is down;                                  *)
(*   - ControllerKept: the controller of a session is that of the turn     *)
(*     under way, so that cancelTurn aborts what it is meant for;          *)
(*   - SilentUntilAsked and QuestionLast: a turn has no message before it  *)
(*     asks, and its question is the last message while it awaits the      *)
(*     model, so that the catch takes back nothing else;                   *)
(*   - ResultsKept: what AnswerIsStored says, in memory and on disk, and   *)
(*     from the last await of the turn on;                                 *)
(*   - SyncedKept: the snapshot is refused only after a fault.             *)
(*                                                                         *)
(* The proof has a lemma per action that says what the action writes       *)
(* (...Shape), for all parts to use.  What a session holds of one turn is  *)
(* then kept by the steps of others (Others), which add messages of their  *)
(* own or take their own back, and by each step of its own (...Texts).     *)
(***************************************************************************)
EXTENDS ChatSession, SequenceTheorems, TLAPS

\* The stores of sessions, in memory and on disk.
Stores == [Sessions -> SessionRecords \cup {None}]

\* A sequence without its last element.
LEMMA FrontProperties ==
  ASSUME NEW S, NEW q \in Seq(S)
  PROVE  /\ Front(q) \in Seq(S)
         /\ q # <<>> => Len(Front(q)) = Len(q) - 1
         /\ Len(Front(q)) <= Len(q)
         /\ \A i \in 1..Len(Front(q)) : i \in 1..Len(q) - 1 /\ Front(q)[i] = q[i]
<1>1. Len(q) \in Nat /\ DOMAIN q = 1..Len(q) /\ \A i \in 1..Len(q) : q[i] \in S
  BY ElementOfSeq, LenProperties
<1>2. q # <<>> => Len(q) > 0
  BY EmptySeq
<1> DEFINE n == Len(q) - 1
<1>3. n \in Int /\ \A i \in 1..n : q[i] \in S
  BY <1>1
<1> HIDE DEF n
<1>4. /\ SubSeq(q, 1, n) \in Seq(S)
      /\ Len(SubSeq(q, 1, n)) = IF 1 <= n THEN n - 1 + 1 ELSE 0
      /\ \A i \in 1..n - 1 + 1 : SubSeq(q, 1, n)[i] = q[1 + i - 1]
  BY <1>3, SubSeqProperties
<1>5. \A i \in 1..n : i \in Nat /\ SubSeq(q, 1, n)[i] = q[i]
  <2> SUFFICES ASSUME NEW i \in 1..n
               PROVE  i \in Nat /\ SubSeq(q, 1, n)[i] = q[i]
    OBVIOUS
  <2>1. i \in Nat /\ i \in 1..n - 1 + 1 /\ 1 + i - 1 = i
    BY <1>3
  <2>2. SubSeq(q, 1, n)[i] = q[1 + i - 1]
    BY <2>1, <1>4
  <2> QED
    BY <2>1, <2>2
<1>6. Front(q) = SubSeq(q, 1, n)
  BY DEF Front, n
<1>7. n = Len(q) - 1 /\ n <= Len(q)
  BY <1>1 DEF n
<1>8. 1 <= n => Len(Front(q)) = n
  BY <1>3, <1>4, <1>6
<1>9. ~(1 <= n) => Len(Front(q)) = 0
  BY <1>3, <1>4, <1>6
<1>10. n = 0 => Len(Front(q)) = 0
  BY <1>9
<1>11. q # <<>> => n \in Nat
  BY <1>1, <1>2, <1>7
<1>12. q # <<>> => Len(Front(q)) = n
  <2> SUFFICES ASSUME q # <<>> PROVE Len(Front(q)) = n
    OBVIOUS
  <2>1. CASE n = 0
    BY <2>1, <1>10
  <2>2. CASE 1 <= n
    BY <2>2, <1>8
  <2> QED
    BY <1>11, <2>1, <2>2
<1>13. Len(Front(q)) <= Len(q)
  <2>1. CASE q = <<>>
    <3>1. Len(q) = 0
      BY <2>1, EmptySeq
    <3>2. n = -1 /\ ~(1 <= n)
      BY <1>7, <3>1
    <3> QED
      BY <3>1, <3>2, <1>9
  <2> QED
    BY <2>1, <1>7, <1>12
<1>14. \A i \in 1..Len(Front(q)) : i \in 1..n
  BY <1>3, <1>8, <1>9
<1> QED
  BY <1>4, <1>5, <1>6, <1>7, <1>12, <1>13, <1>14

\* The last element of a sequence that is not empty.
LEMMA LastProperties ==
  ASSUME NEW S, NEW q \in Seq(S), q # <<>>
  PROVE  Len(q) \in 1..Len(q) /\ Last(q) = q[Len(q)] /\ Len(q) \in Nat
  BY EmptySeq, LenProperties DEF Last

\* A write of m: done, not done, or done and reported as failed.
LEMMA Written ==
  ASSUME TypeOK, NEW m \in Stores, Persisted(m) \/ PersistFails(m)
  PROVE  /\ disk' \in Stores /\ synced' \in BOOLEAN /\ faults' \in 0..MaxFaults
         /\ disk' \in {disk, m}
         /\ faults' >= faults
         /\ Persisted(m) => disk' = m /\ faults' = faults
         /\ (faults = 0 => synced) /\ PersistFails(m) => faults' > 0
         /\ (faults = 0 => synced) => (faults' = 0 => synced')
<1> USE ConstantsAssumption DEF ConstantsAssumption, TypeOK, Stores, snapshot
<1>0. faults \in Nat /\ MaxFaults \in Nat /\ faults <= MaxFaults
  OBVIOUS
<1>1. CASE Persisted(m) /\ ~PersistFails(m)
  BY <1>1, <1>0 DEF Persisted
<1>2. CASE PersistFails(m)
  <2>1. CASE ~synced /\ UNCHANGED snapshot
    BY <1>0, <2>1 DEF Persisted
  <2>2. CASE synced /\ faults < MaxFaults /\ faults' = faults + 1 /\ UNCHANGED <<disk, synced>>
    <3>1. faults' \in 0..MaxFaults /\ faults' > 0 /\ faults' >= faults /\ faults' # faults
      BY <1>0, <2>2
    <3>2. ~Persisted(m)
      BY <3>1 DEF Persisted
    <3> QED
      BY <2>2, <3>1, <3>2
  <2>3. CASE synced /\ faults < MaxFaults /\ faults' = faults + 1 /\ disk' = m /\ synced' = FALSE
    <3>1. faults' \in 0..MaxFaults /\ faults' > 0 /\ faults' >= faults /\ faults' # faults
      BY <1>0, <2>3
    <3>2. ~Persisted(m)
      BY <3>1 DEF Persisted
    <3>3. disk' \in Stores /\ synced' \in BOOLEAN /\ disk' \in {disk, m}
      BY <2>3
    <3> HIDE DEF Stores, TypeOK
    <3> QED
      BY <3>1, <3>2, <3>3
  <2> QED
    BY <1>2, <2>1, <2>2, <2>3 DEF PersistFails
<1> QED
  BY <1>1, <1>2

-----------------------------------------------------------------------------
\* A changed record of a session.
LEMMA Records ==
  ASSUME NEW r \in SessionRecords
  PROVE  /\ \A b \in BOOLEAN : [r EXCEPT !.running = b] \in SessionRecords
         /\ \A x \in Statuses : [r EXCEPT !.status = x] \in SessionRecords
         /\ \A q \in Seq(Messages) : [r EXCEPT !.messages = q] \in SessionRecords
         /\ \A p \in SUBSET Turns : [r EXCEPT !.plans = p] \in SessionRecords
  BY DEF SessionRecords

\* A session that exists has a record.
LEMMA Recorded ==
  ASSUME TypeOK, NEW s \in Sessions
  PROVE  /\ Exists(s) => mem[s] \in SessionRecords
         /\ disk[s] # None => disk[s] \in SessionRecords
         /\ \A r \in SessionRecords : [mem EXCEPT ![s] = r] \in Stores
  BY DEF TypeOK, Exists, Stores

\* The memory and the snapshot hold sessions.
LEMMA SessionTypes ==
  ASSUME TypeOK
  PROVE  mem \in Stores /\ disk \in Stores
  BY DEF TypeOK, Stores

\* The types of what is stored.
StoreTypes ==
  mem \in Stores /\ disk \in Stores /\ synced \in BOOLEAN /\ faults \in 0..MaxFaults

\* A step that changes the record of a session and writes, or not.
LEMMA StoreChange ==
  ASSUME TypeOK, NEW s \in Sessions, NEW r \in SessionRecords,
         NEW q \in SessionRecords,
         mem' \in {mem, [mem EXCEPT ![s] = q]},
         \/ UNCHANGED snapshot
         \/ Persisted([mem EXCEPT ![s] = r]) \/ PersistFails([mem EXCEPT ![s] = r])
  PROVE  StoreTypes'
<1>1. /\ mem' \in Stores /\ [mem EXCEPT ![s] = r] \in Stores /\ disk \in Stores
      /\ synced \in BOOLEAN /\ faults \in 0..MaxFaults
  BY ZenonT(30), Recorded, SessionTypes DEF TypeOK
<1>2. CASE UNCHANGED snapshot
  BY <1>1, <1>2 DEF snapshot, StoreTypes
<1>3. CASE Persisted([mem EXCEPT ![s] = r]) \/ PersistFails([mem EXCEPT ![s] = r])
  BY <1>1, <1>3, Written DEF StoreTypes
<1> QED
  BY <1>2, <1>3

\* A change of a session that is taken back when it cannot be written.
LEMMA ChangeTypes ==
  ASSUME TypeOK, NEW s \in Sessions, NEW r \in SessionRecords, Change(s, r)
  PROVE  StoreTypes'
  BY StoreChange DEF Change

\* What Begins does to the sessions.
LEMMA BeginsStores ==
  ASSUME TypeOK, NEW t \in Turns, NEW s \in Sessions, NEW r \in SessionRecords,
         NEW stage \in Stages, Exists(s), Begins(t, s, r, stage)
  PROVE  StoreTypes'
<1>1. /\ [r EXCEPT !.running = TRUE] \in SessionRecords
      /\ [mem[s] EXCEPT !.running = FALSE] \in SessionRecords
      /\ [mem EXCEPT ![s].running = FALSE] = [mem EXCEPT ![s] = [mem[s] EXCEPT !.running = FALSE]]
  BY Recorded, Records
<1> QED
  BY <1>1, StoreChange DEF Begins

\* The message a turn adds.
LEMMA AskedRecord ==
  ASSUME TypeOK, NEW s \in Sessions, NEW t \in Turns, Exists(s)
  PROVE  /\ [mem[s] EXCEPT !.messages = Append(@, Question(t))] \in SessionRecords
         /\ [mem[s] EXCEPT !.messages = Append(@, Reply(t))] \in SessionRecords
         /\ [mem[s] EXCEPT !.messages = Front(@)] \in SessionRecords
         /\ [mem[s] EXCEPT !.plans = @ \cup {t}] \in SessionRecords
<1>1. /\ mem[s] \in SessionRecords
      /\ mem[s].messages \in Seq(Messages) /\ mem[s].plans \in SUBSET Turns
  BY Recorded DEF SessionRecords
<1>2. Question(t) \in Messages /\ Reply(t) \in Messages
  BY DEF Question, Reply, Messages
<1>3. /\ Append(mem[s].messages, Question(t)) \in Seq(Messages)
      /\ Append(mem[s].messages, Reply(t)) \in Seq(Messages)
      /\ Front(mem[s].messages) \in Seq(Messages)
      /\ mem[s].plans \cup {t} \in SUBSET Turns
  BY <1>1, <1>2, AppendProperties, FrontProperties
<1> QED
  BY <1>1, <1>3, Records

\* The turn t of a step has a session, which exists while the process runs.
LEMMA OnKnown ==
  ASSUME SessionsKnown, NEW t \in Turns, pc[t] # "idle", up
  PROVE  on[t] \in Sessions /\ Exists(on[t]) /\ disk[on[t]] # None
  BY DEF SessionsKnown

\* Every step keeps the types of what is stored.
LEMMA StoreStep ==
  ASSUME TypeOK, SessionsKnown, StagesKept, [Next]_vars
  PROVE  StoreTypes'
<1> DEFINE Same == UNCHANGED <<mem, snapshot>>
<1>0. StoreTypes
  BY DEF TypeOK, StoreTypes, Stores
<1>1. Same => StoreTypes'
  BY <1>0 DEF StoreTypes, snapshot
<1>2. CASE Crash
  BY <1>0, <1>2 DEF Crash, StoreTypes, snapshot, Stores
<1>3. CASE Start
  <2>1. \A s \in Sessions : disk[s] # None => Restored(disk[s]) \in SessionRecords
    BY ZenonT(30), Recorded DEF Restored, SessionRecords, Statuses
  <2> QED
    BY <1>0, <1>3, <2>1 DEF Start, StoreTypes, Stores
<1>4. ASSUME NEW s \in Sessions, Create(s)
      PROVE  StoreTypes'
  <2>1. NewSession \in SessionRecords
    BY EmptySeq DEF NewSession, SessionRecords, Statuses
  <2> QED
    BY <1>4, <2>1, ChangeTypes DEF Create
<1>5. ASSUME NEW s \in Sessions, Close(s)
      PROVE  StoreTypes'
  <2>1. [mem[s] EXCEPT !.status = "closed"] \in SessionRecords
    BY <1>5, Recorded, Records DEF Close, Statuses
  <2> QED
    BY <1>5, <2>1, ChangeTypes DEF Close
<1>6. ASSUME NEW s \in Sessions, Review(s)
      PROVE  StoreTypes'
  <2>1. \A x \in {"active", "closed"} : [mem[s] EXCEPT !.status = x] \in SessionRecords
    BY <1>6, Recorded, Records DEF Review, Statuses
  <2> QED
    BY <1>6, <2>1, ChangeTypes DEF Review
<1>7. ASSUME NEW s \in Sessions, NEW t \in Turns, Exists(s), Asks(t, s)
      PROVE  StoreTypes'
  BY <1>7, AskedRecord, BeginsStores DEF Asks, Question, Stages
<1>8. ASSUME NEW s \in Sessions, NEW t \in Turns, Send(t, s) \/ SendResolving(t, s) \/ Plan(t, s)
      PROVE  StoreTypes'
  <2>1. CASE Send(t, s)
    BY <1>7, <2>1 DEF Send, MaySend
  <2>2. CASE SendResolving(t, s)
    BY <1>1, <2>2 DEF SendResolving
  <2>3. CASE Plan(t, s)
    BY <2>3, BeginsStores, Recorded DEF Plan, MaySend, Stages
  <2> QED
    BY <1>8, <2>1, <2>2, <2>3
<1>9. ASSUME NEW t \in Turns, Continue(t) \/ RunnerSettles(t)
      PROVE  StoreTypes'
  <2> DEFINE s == on[t]
  <2>0. up /\ pc[t] # "idle"
    BY <1>9
    DEF Continue, Resolved, Answer, ModelFails, Catch, PlanAnswer, PlanFails, End, RunnerSettles,
        Free, StagesKept
  <2>1. s \in Sessions /\ Exists(s) /\ mem[s] \in SessionRecords
    BY <2>0, OnKnown, Recorded
  <2> HIDE DEF s
  <2>2. CASE Resolved(t)
    BY <1>1, <1>7, <2>1, <2>2 DEF Resolved, s
  <2>3. CASE Answer(t)
    <3>1. [mem EXCEPT ![s].messages = Append(@, Reply(t))] =
            [mem EXCEPT ![s] = [mem[s] EXCEPT !.messages = Append(@, Reply(t))]]
      OBVIOUS
    <3> QED
      BY <2>1, <2>3, <3>1, AskedRecord, StoreChange DEF Answer, Reply, s
  <2>4. CASE ModelFails(t)
    BY <1>1, <2>4 DEF ModelFails
  <2>5. CASE Catch(t)
    <3>1. [mem EXCEPT ![s].messages = Front(@)] =
            [mem EXCEPT ![s] = [mem[s] EXCEPT !.messages = Front(@)]]
      OBVIOUS
    <3> QED
      BY <2>1, <2>5, <3>1, AskedRecord, StoreChange DEF Catch, s
  <2>6. CASE PlanAnswer(t)
    <3>1. [mem EXCEPT ![s].plans = @ \cup {t}] =
            [mem EXCEPT ![s] = [mem[s] EXCEPT !.plans = @ \cup {t}]]
      OBVIOUS
    <3> QED
      BY <2>1, <2>6, <3>1, AskedRecord, StoreChange DEF PlanAnswer, s
  <2>7. CASE PlanFails(t)
    BY <1>1, <2>7 DEF PlanFails
  <2>8. CASE End(t)
    <3> DEFINE b == t \in Reviews /\ PendingOn(on[t], pending) # {} /\ mem[s].running
    <3>1. [mem EXCEPT ![s].running = t \in Reviews /\ PendingOn(on[t], pending) # {} /\ @] =
            [mem EXCEPT ![s] = [mem[s] EXCEPT !.running = b]]
      OBVIOUS
    <3>2. b \in BOOLEAN
      BY <2>1 DEF SessionRecords
    <3> HIDE DEF b
    <3>3. [mem[s] EXCEPT !.running = b] \in SessionRecords
      BY <2>1, <3>2, Records
    <3> QED
      BY <2>1, <2>8, <3>1, <3>3, StoreChange DEF End, s
  <2>9. CASE RunnerSettles(t)
    <3>1. [mem EXCEPT ![s].running = FALSE] = [mem EXCEPT ![s] = [mem[s] EXCEPT !.running = FALSE]]
      OBVIOUS
    <3>3. [mem[s] EXCEPT !.running = FALSE] \in SessionRecords
      BY <2>1, Records
    <3> QED
      BY <1>1, <2>1, <2>9, <3>1, <3>3, StoreChange DEF RunnerSettles, s
  <2> QED
    BY <1>9, <2>2, <2>3, <2>4, <2>5, <2>6, <2>7, <2>8, <2>9 DEF Continue
<1>10. CASE CancelAll \/ UNCHANGED vars \/ \E s \in Sessions : Cancel(s)
  BY <1>1, <1>10 DEF CancelAll, Cancel, vars
<1> QED
  BY <1>2, <1>3, <1>4, <1>5, <1>6, <1>8, <1>9, <1>10 DEF Next

\* Every step keeps the types.
LEMMA TypeStep ==
  ASSUME TypeOK, SessionsKnown, StagesKept, [Next]_vars
  PROVE  TypeOK'
<1>0. StoreTypes'
  BY StoreStep
<1> DEFINE Control ==
      /\ up \in BOOLEAN /\ raced \in BOOLEAN
      /\ controller \in [Sessions -> Turns \cup {None}]
      /\ pending \subseteq Reviews
      /\ pc \in [Turns -> Stages]
      /\ on \in [Turns -> Sessions \cup {None}]
      /\ answer \in [Turns -> {"answered", "failed", None}]
      /\ aborted \subseteq Turns /\ cancelled \subseteq Turns
      /\ interrupted \subseteq Sessions
      /\ crashes \in 0..MaxCrashes
<1> SUFFICES Control'
  BY <1>0 DEF TypeOK, StoreTypes, Stores
<1>t. Control
  BY DEF TypeOK
<1> USE DEF history, Stages, Goto, Answered
<1>1. CASE UNCHANGED vars
  BY <1>t, <1>1 DEF vars
<1>2. CASE Crash
  <2>1. crashes' \in 0..MaxCrashes
    BY ConstantsAssumption, <1>t, <1>2 DEF Crash, ConstantsAssumption
  <2>2. pc' \in [Turns -> Stages]
    BY <1>t, <1>2 DEF Crash
  <2> QED
    BY <1>t, <1>2, <2>1, <2>2 DEF Crash
<1>3. CASE Start \/ \E s \in Sessions : Create(s) \/ Close(s) \/ Review(s)
  <2>1. /\ UNCHANGED <<controller, pending, pc, on, answer, aborted, crashes, cancelled, raced>>
        /\ up' \in BOOLEAN /\ interrupted' \subseteq Sessions
    <3>1. CASE Start
      BY <1>t, <3>1 DEF Start
    <3>2. ASSUME NEW s \in Sessions, Create(s) \/ Close(s)
          PROVE  UNCHANGED <<up, controller, pending, pc, on, answer, aborted, crashes, history>>
      BY <3>2 DEF Create, Close
    <3>3. ASSUME NEW s \in Sessions, Review(s)
          PROVE  /\ UNCHANGED <<up, controller, pending, pc, on, answer, aborted, crashes,
                               cancelled, raced>>
                 /\ interrupted' \subseteq interrupted
      BY <3>3 DEF Review
    <3> QED
      BY <1>3, <1>t, <3>1, <3>2, <3>3
  <2> QED
    BY <1>t, <2>1
<1>8. CASE CancelAll \/ \E s \in Sessions : Cancel(s)
  <2>1. UNCHANGED <<up, raced, controller, pending, pc, on, answer, crashes, interrupted>>
    BY <1>8 DEF CancelAll, Cancel
  <2>2. aborted' \subseteq Turns /\ cancelled' \subseteq Turns
    BY <1>t, <1>8 DEF CancelAll, Cancel
  <2> QED
    BY <1>t, <2>1, <2>2
<1>4. ASSUME NEW s \in Sessions, NEW t \in Turns, NEW r, NEW stage \in Stages,
             Begins(t, s, r, stage)
      PROVE  /\ up' \in BOOLEAN /\ raced' \in BOOLEAN
             /\ controller' \in [Sessions -> Turns \cup {None}]
             /\ pc' \in [Turns -> Stages]
             /\ on' \in [Turns -> Sessions \cup {None}]
             /\ answer' \in [Turns -> {"answered", "failed", None}]
             /\ aborted' \subseteq Turns /\ cancelled' \subseteq Turns
             /\ interrupted' \subseteq Sessions
             /\ crashes' \in 0..MaxCrashes
  <2>1. pc' = [pc EXCEPT ![t] = stage] \/ pc' = [pc EXCEPT ![t] = "done"]
    BY <1>4 DEF Begins
  <2>2. UNCHANGED answer \/ answer' = [answer EXCEPT ![t] = "failed"]
    BY <1>4 DEF Begins
  <2> QED
    BY <1>t, <1>4, <2>1, <2>2 DEF Begins
<1>5. ASSUME NEW s \in Sessions, NEW t \in Turns, Asks(t, s)
      PROVE  Control'
  BY <1>t, <1>4, <1>5 DEF Asks
<1>6. ASSUME NEW s \in Sessions, NEW t \in Turns, Send(t, s) \/ SendResolving(t, s) \/ Plan(t, s)
      PROVE  Control'
  BY <1>t, <1>4, <1>5, <1>6 DEF Send, SendResolving, Plan
<1>7. ASSUME NEW t \in Turns, Continue(t) \/ RunnerSettles(t)
      PROVE  Control'
  <2>1. CASE Resolved(t)
    <3>1. pc[t] # "idle" /\ up
      BY <2>1 DEF Resolved, Free
    <3> QED
      BY <1>t, <1>5, <2>1, <3>1, OnKnown DEF Resolved
  <2>2. CASE Answer(t) \/ ModelFails(t) \/ Catch(t) \/ PlanAnswer(t) \/ PlanFails(t)
    BY <1>t, <2>2 DEF Answer, ModelFails, Catch, PlanAnswer, PlanFails
  <2>3. CASE End(t) \/ RunnerSettles(t)
    BY <1>t, <2>3 DEF End, RunnerSettles
  <2> QED
    BY <1>7, <2>1, <2>2, <2>3 DEF Continue
<1> QED
  BY <1>1, <1>2, <1>3, <1>6, <1>7, <1>8 DEF Next

-----------------------------------------------------------------------------
\* What the steps write.

SameTexts(q, r) == q.messages = r.messages /\ q.plans = r.plans

\* The record of s becomes q in memory; a memory with r for it is written, or not.
Wrote(s, q, r) ==
  /\ s \in Sessions /\ mem[s] \in SessionRecords
  /\ q \in SessionRecords /\ r \in SessionRecords
  /\ up /\ up'
  /\ mem' = [mem EXCEPT ![s] = q]
  /\ disk' \in {disk, [mem EXCEPT ![s] = r]}
  /\ faults' >= faults

\* What is left of a change of session s, written or not; a failed write is a fault.
LEMMA Writes ==
  ASSUME TypeOK, NEW s \in Sessions, Exists(s), up, up',
         NEW q \in SessionRecords, NEW r \in SessionRecords,
         mem' = [mem EXCEPT ![s] = q],
         Persisted([mem EXCEPT ![s] = r]) \/ PersistFails([mem EXCEPT ![s] = r])
  PROVE  /\ Wrote(s, q, r)
         /\ Persisted([mem EXCEPT ![s] = r]) => disk' = [mem EXCEPT ![s] = r]
         /\ SyncedKept /\ PersistFails([mem EXCEPT ![s] = r]) => faults' > 0
         /\ SyncedKept => SyncedKept'
<1>1. [mem EXCEPT ![s] = r] \in Stores /\ mem[s] \in SessionRecords
  BY Recorded
<1> QED
  BY <1>1, Written DEF Wrote, SyncedKept

\* closeSession and reviewSession change the status of a session and nothing else of it.
LEMMA StatusShape ==
  ASSUME TypeOK, NEW s \in Sessions, Close(s) \/ Review(s)
  PROVE  /\ \E q, r \in SessionRecords :
              /\ Wrote(s, q, r)
              /\ SameTexts(q, mem[s]) /\ q.running = mem[s].running
              /\ SameTexts(r, mem[s]) /\ r.running = mem[s].running
         /\ SyncedKept => SyncedKept'
         /\ UNCHANGED <<up, controller, pending, pc, on, answer, aborted, cancelled, raced>>
<1>1. /\ up /\ Exists(s)
      /\ UNCHANGED <<up, controller, pending, pc, on, answer, aborted, cancelled, raced>>
  BY DEF Close, Review, Free, history
<1>2. PICK x \in {"active", "closed"} : Change(s, [mem[s] EXCEPT !.status = x])
  BY DEF Close, Review
<1> DEFINE r == [mem[s] EXCEPT !.status = x]
<1>3. /\ mem[s] \in SessionRecords /\ r \in SessionRecords
      /\ SameTexts(r, mem[s]) /\ r.running = mem[s].running
  <2>1. mem[s] \in SessionRecords
    BY <1>1, Recorded
  <2>2. x \in Statuses
    BY DEF Statuses
  <2> QED
    BY <2>1, <2>2, Records DEF SameTexts, SessionRecords
<1>4. mem = [mem EXCEPT ![s] = mem[s]]
  BY SessionTypes DEF Stores
<1> HIDE DEF r
<1>5. CASE mem' = [mem EXCEPT ![s] = r] /\ Persisted([mem EXCEPT ![s] = r])
  BY <1>1, <1>3, <1>5, Writes
<1>6. CASE UNCHANGED mem /\ PersistFails([mem EXCEPT ![s] = r])
  <2>1. mem' = [mem EXCEPT ![s] = mem[s]]
    BY <1>4, <1>6
  <2> QED
    BY <1>1, <1>3, <1>6, <2>1, Writes DEF SameTexts
<1> QED
  BY <1>2, <1>5, <1>6 DEF Change, r

\* The session of a turn that begins, as its record was r.
BeginsShape(t, s, r0, stage) ==
  /\ \E q, r \in SessionRecords :
       /\ Wrote(s, q, r)
       /\ SameTexts(r, r0) /\ r.running = TRUE
       /\ \/ /\ q = r /\ disk' = [mem EXCEPT ![s] = r]
             /\ pc' = [pc EXCEPT ![t] = stage] /\ UNCHANGED answer
          \/ /\ SameTexts(q, mem[s]) /\ q.running = FALSE
             /\ pc' = [pc EXCEPT ![t] = "done"] /\ answer' = [answer EXCEPT ![t] = "failed"]
             /\ SyncedKept => faults' > 0
  /\ SyncedKept => SyncedKept'
  /\ ~raced' => ~raced /\ ~mem[s].running

\* Begins marks its session, or takes everything back.
LEMMA BeginsHasShape ==
  ASSUME TypeOK, NEW t \in Turns, NEW s \in Sessions, NEW r0 \in SessionRecords,
         NEW stage, up, Exists(s), Begins(t, s, r0, stage)
  PROVE  BeginsShape(t, s, r0, stage)
<1> DEFINE r == [r0 EXCEPT !.running = TRUE]
<1> DEFINE q == [mem[s] EXCEPT !.running = FALSE]
<1>1. /\ mem[s] \in SessionRecords /\ r \in SessionRecords /\ q \in SessionRecords
      /\ SameTexts(r, r0) /\ r.running = TRUE
      /\ SameTexts(q, mem[s]) /\ q.running = FALSE
      /\ [mem EXCEPT ![s].running = FALSE] = [mem EXCEPT ![s] = q]
  BY Recorded, Records DEF SameTexts, SessionRecords
<1>2. up' /\ (~raced' => ~raced /\ ~mem[s].running)
  BY <1>1 DEF Begins, TypeOK, SessionRecords
<1> HIDE DEF r
<1>3. \/ /\ mem' = [mem EXCEPT ![s] = r] /\ Persisted([mem EXCEPT ![s] = r])
         /\ pc' = [pc EXCEPT ![t] = stage] /\ UNCHANGED answer
      \/ /\ mem' = [mem EXCEPT ![s] = q] /\ PersistFails([mem EXCEPT ![s] = r])
         /\ pc' = [pc EXCEPT ![t] = "done"] /\ answer' = [answer EXCEPT ![t] = "failed"]
  BY <1>1 DEF Begins, Goto, Answered, r
<1> HIDE DEF q
<1>4. CASE /\ mem' = [mem EXCEPT ![s] = r] /\ Persisted([mem EXCEPT ![s] = r])
           /\ pc' = [pc EXCEPT ![t] = stage] /\ UNCHANGED answer
  BY ZenonT(30), <1>1, <1>2, <1>4, Writes DEF BeginsShape
<1>5. CASE /\ mem' = [mem EXCEPT ![s] = q] /\ PersistFails([mem EXCEPT ![s] = r])
           /\ pc' = [pc EXCEPT ![t] = "done"] /\ answer' = [answer EXCEPT ![t] = "failed"]
  BY <1>1, <1>2, <1>5, Writes DEF BeginsShape
<1> QED
  BY <1>3, <1>4, <1>5

\* Asks and Plan are Begins.
LEMMA AsksShape ==
  ASSUME TypeOK, NEW t \in Turns, NEW s \in Sessions, up, Exists(s), Asks(t, s)
  PROVE  /\ BeginsShape(t, s, [mem[s] EXCEPT !.messages = Append(@, Question(t))], "asking")
         /\ on' = [on EXCEPT ![t] = s] /\ controller' = [controller EXCEPT ![s] = t]
         /\ UNCHANGED <<up, pending, aborted, cancelled>>
<1>1. Begins(t, s, [mem[s] EXCEPT !.messages = Append(@, Question(t))], "asking")
  BY DEF Asks, Question
<1> QED
  BY <1>1, BeginsHasShape, AskedRecord DEF Asks, Begins

\* Likewise a plan review.
LEMMA PlanShape ==
  ASSUME TypeOK, NEW t \in Turns, NEW s \in Sessions, Plan(t, s)
  PROVE  /\ BeginsShape(t, s, mem[s], "planning")
         /\ on' = [on EXCEPT ![t] = s] /\ controller' = [controller EXCEPT ![s] = t]
         /\ pending' = IF pc'[t] = "planning" THEN pending \cup {t} ELSE pending
         /\ t \in Reviews /\ pc[t] = "idle"
         /\ UNCHANGED <<up, aborted, cancelled>>
<1>1. /\ Begins(t, s, mem[s], "planning") /\ mem[s] \in SessionRecords /\ up /\ Exists(s)
      /\ t \in Reviews /\ pc[t] = "idle"
  BY Recorded DEF Plan, MaySend, Free
<1> QED
  BY <1>1, BeginsHasShape DEF Plan, Begins

\* The turns that go on are those of sessions that exist.
LEMMA GoesOn ==
  ASSUME TypeOK, SessionsKnown, StagesKept, NEW t \in Turns, Continue(t) \/ RunnerSettles(t)
  PROVE  /\ up /\ pc[t] # "idle" /\ on[t] \in Sessions /\ Exists(on[t])
         /\ mem[on[t]] \in SessionRecords
<1>1. up /\ pc[t] # "idle"
  BY DEF Continue, Resolved, Answer, ModelFails, Catch, PlanAnswer, PlanFails, End, RunnerSettles,
         Free, StagesKept
<1> QED
  BY <1>1, OnKnown, Recorded

\* The answer is appended; if it cannot be written, the turn goes on to the catch.
LEMMA AnswerShape ==
  ASSUME TypeOK, SessionsKnown, StagesKept, NEW t \in Turns, Answer(t)
  PROVE  /\ \E q \in SessionRecords :
              /\ Wrote(on[t], q, q) /\ q.running = On(t).running /\ q.plans = On(t).plans
              /\ q.messages = Append(On(t).messages, Reply(t))
              /\ \/ /\ disk' = [mem EXCEPT ![on[t]] = q]
                    /\ pc' = [pc EXCEPT ![t] = "ending"]
                    /\ answer' = [answer EXCEPT ![t] = "answered"]
                 \/ /\ SyncedKept => faults' > 0
                    /\ pc' = [pc EXCEPT ![t] = "catching"] /\ UNCHANGED answer
         /\ SyncedKept => SyncedKept'
         /\ pc[t] = "asking" /\ (t \in Resolves => t \notin aborted)
         /\ UNCHANGED <<up, controller, pending, on, aborted, cancelled, raced>>
<1> DEFINE s == on[t]
<1> DEFINE q == [mem[s] EXCEPT !.messages = Append(@, Reply(t))]
<1>1. /\ up /\ s \in Sessions /\ Exists(s) /\ mem[s] \in SessionRecords /\ q \in SessionRecords
  BY GoesOn, AskedRecord DEF Continue
<1>2. /\ q.running = mem[s].running /\ q.plans = mem[s].plans
      /\ q.messages = Append(mem[s].messages, Reply(t))
  BY <1>1 DEF SessionRecords
<1>3. [mem EXCEPT ![s].messages = Append(@, Reply(t))] = [mem EXCEPT ![s] = q]
  OBVIOUS
<1>4. /\ mem' = [mem EXCEPT ![s] = q]
      /\ \/ /\ Persisted([mem EXCEPT ![s] = q]) /\ pc' = [pc EXCEPT ![t] = "ending"]
            /\ answer' = [answer EXCEPT ![t] = "answered"]
         \/ /\ PersistFails([mem EXCEPT ![s] = q]) /\ pc' = [pc EXCEPT ![t] = "catching"]
            /\ UNCHANGED answer
      /\ UNCHANGED <<up, controller, pending, on, aborted, cancelled, raced>>
      /\ pc[t] = "asking" /\ (t \in Resolves => t \notin aborted)
  BY <1>3 DEF Answer, Reply, Goto, Answered, history
<1> HIDE DEF q, s
<1>5. /\ Wrote(s, q, q)
      /\ Persisted([mem EXCEPT ![s] = q]) => disk' = [mem EXCEPT ![s] = q]
      /\ SyncedKept /\ PersistFails([mem EXCEPT ![s] = q]) => faults' > 0
      /\ SyncedKept => SyncedKept'
  BY <1>1, <1>4, Writes
<1> QED
  BY <1>1, <1>2, <1>4, <1>5 DEF On, s

\* The catch takes the last message back.
LEMMA CatchShape ==
  ASSUME TypeOK, SessionsKnown, StagesKept, NEW t \in Turns, Catch(t)
  PROVE  /\ \E q \in SessionRecords :
              /\ Wrote(on[t], q, q) /\ q.running = On(t).running /\ q.plans = On(t).plans
              /\ q.messages = Front(On(t).messages)
              /\ disk' = [mem EXCEPT ![on[t]] = q] \/ (SyncedKept => faults' > 0)
         /\ SyncedKept => SyncedKept'
         /\ pc[t] = "catching" /\ pc' = [pc EXCEPT ![t] = "ending"]
         /\ answer' = [answer EXCEPT ![t] = "failed"]
         /\ UNCHANGED <<up, controller, pending, on, aborted, cancelled, raced>>
<1> DEFINE s == on[t]
<1> DEFINE q == [mem[s] EXCEPT !.messages = Front(@)]
<1>1. /\ up /\ s \in Sessions /\ Exists(s) /\ mem[s] \in SessionRecords /\ q \in SessionRecords
  BY GoesOn, AskedRecord DEF Continue
<1>2. /\ q.running = mem[s].running /\ q.plans = mem[s].plans
      /\ q.messages = Front(mem[s].messages)
  BY <1>1 DEF SessionRecords
<1>3. [mem EXCEPT ![s].messages = Front(@)] = [mem EXCEPT ![s] = q]
  OBVIOUS
<1>4. /\ mem' = [mem EXCEPT ![s] = q]
      /\ Persisted([mem EXCEPT ![s] = q]) \/ PersistFails([mem EXCEPT ![s] = q])
      /\ pc[t] = "catching" /\ pc' = [pc EXCEPT ![t] = "ending"]
      /\ answer' = [answer EXCEPT ![t] = "failed"]
      /\ UNCHANGED <<up, controller, pending, on, aborted, cancelled, raced>>
  BY <1>3 DEF Catch, Goto, Answered, history
<1> HIDE DEF q, s
<1>5. /\ Wrote(s, q, q)
      /\ Persisted([mem EXCEPT ![s] = q]) => disk' = [mem EXCEPT ![s] = q]
      /\ SyncedKept /\ PersistFails([mem EXCEPT ![s] = q]) => faults' > 0
      /\ SyncedKept => SyncedKept'
  BY <1>1, <1>4, Writes
<1> QED
  BY <1>1, <1>2, <1>4, <1>5 DEF On, s

\* The result of a plan review is added, written or not.
LEMMA PlanAnswerShape ==
  ASSUME TypeOK, SessionsKnown, StagesKept, NEW t \in Turns, PlanAnswer(t)
  PROVE  /\ \E q \in SessionRecords :
              /\ Wrote(on[t], q, q) /\ q.running = On(t).running
              /\ q.messages = On(t).messages /\ q.plans = On(t).plans \cup {t}
              /\ \/ disk' = [mem EXCEPT ![on[t]] = q] /\ answer' = [answer EXCEPT ![t] = "answered"]
                 \/ answer' = [answer EXCEPT ![t] = "failed"]
         /\ SyncedKept => SyncedKept'
         /\ pc[t] = "planning" /\ t \notin aborted /\ pc' = [pc EXCEPT ![t] = "ending"]
         /\ UNCHANGED <<up, controller, pending, on, aborted, cancelled, raced>>
<1> DEFINE s == on[t]
<1> DEFINE q == [mem[s] EXCEPT !.plans = @ \cup {t}]
<1>1. /\ up /\ s \in Sessions /\ Exists(s) /\ mem[s] \in SessionRecords /\ q \in SessionRecords
  BY GoesOn, AskedRecord DEF Continue
<1>2. /\ q.running = mem[s].running /\ q.plans = mem[s].plans \cup {t}
      /\ q.messages = mem[s].messages
  BY <1>1 DEF SessionRecords
<1>3. [mem EXCEPT ![s].plans = @ \cup {t}] = [mem EXCEPT ![s] = q]
  OBVIOUS
<1>4. /\ mem' = [mem EXCEPT ![s] = q]
      /\ \/ Persisted([mem EXCEPT ![s] = q]) /\ answer' = [answer EXCEPT ![t] = "answered"]
         \/ PersistFails([mem EXCEPT ![s] = q]) /\ answer' = [answer EXCEPT ![t] = "failed"]
      /\ pc[t] = "planning" /\ t \notin aborted /\ pc' = [pc EXCEPT ![t] = "ending"]
      /\ UNCHANGED <<up, controller, pending, on, aborted, cancelled, raced>>
  BY <1>3 DEF PlanAnswer, Goto, Answered, history
<1> HIDE DEF q, s
<1>5. /\ Wrote(s, q, q)
      /\ Persisted([mem EXCEPT ![s] = q]) => disk' = [mem EXCEPT ![s] = q]
      /\ SyncedKept => SyncedKept'
  BY <1>1, <1>4, Writes
<1> QED
  BY <1>1, <1>2, <1>4, <1>5 DEF On, s

\* The turn t frees its session, or leaves it to its runner.
LEMMA EndShape ==
  ASSUME TypeOK, SessionsKnown, StagesKept, NEW t \in Turns, End(t)
  PROVE  /\ \E q \in SessionRecords :
              /\ Wrote(on[t], q, q) /\ SameTexts(q, On(t))
              /\ q.running = (t \in Reviews /\ PendingOn(on[t], pending) # {} /\ On(t).running)
              /\ \/ disk' = [mem EXCEPT ![on[t]] = q] /\ UNCHANGED answer
                 \/ answer' = [answer EXCEPT ![t] = "failed"] /\ (SyncedKept => faults' > 0)
         /\ SyncedKept => SyncedKept'
         /\ pc[t] = "ending" /\ pc' = [pc EXCEPT ![t] = "done"]
         /\ controller' = [controller EXCEPT ![on[t]] = None]
         /\ UNCHANGED <<up, pending, on, aborted, cancelled, raced>>
<1> DEFINE s == on[t]
<1> DEFINE b == t \in Reviews /\ PendingOn(s, pending) # {} /\ mem[s].running
<1> DEFINE q == [mem[s] EXCEPT !.running = b]
<1>1. /\ up /\ s \in Sessions /\ Exists(s) /\ mem[s] \in SessionRecords
  BY GoesOn DEF Continue
<1>2. b \in BOOLEAN
  BY <1>1 DEF SessionRecords
<1>3. [mem EXCEPT ![s].running = t \in Reviews /\ PendingOn(s, pending) # {} /\ @] =
        [mem EXCEPT ![s] = q]
  OBVIOUS
<1>4. /\ mem' = [mem EXCEPT ![s] = q]
      /\ \/ Persisted([mem EXCEPT ![s] = q]) /\ UNCHANGED answer
         \/ PersistFails([mem EXCEPT ![s] = q]) /\ answer' = [answer EXCEPT ![t] = "failed"]
      /\ pc[t] = "ending" /\ pc' = [pc EXCEPT ![t] = "done"]
      /\ controller' = [controller EXCEPT ![s] = None]
      /\ UNCHANGED <<up, pending, on, aborted, cancelled, raced>>
  BY <1>3 DEF End, Goto, Answered, history
<1> HIDE DEF b
<1>5. q \in SessionRecords /\ SameTexts(q, mem[s]) /\ q.running = b
  BY <1>1, <1>2, Records DEF SameTexts, SessionRecords
<1> HIDE DEF q, s
<1>6. /\ Wrote(s, q, q)
      /\ Persisted([mem EXCEPT ![s] = q]) => disk' = [mem EXCEPT ![s] = q]
      /\ SyncedKept /\ PersistFails([mem EXCEPT ![s] = q]) => faults' > 0
      /\ SyncedKept => SyncedKept'
  BY <1>1, <1>4, <1>5, Writes
<1> QED
  BY <1>1, <1>4, <1>5, <1>6 DEF On, s, b

\* A runner that settles frees its session if its review has ended, and is else no
\* change of it.
LEMMA SettlesShape ==
  ASSUME TypeOK, SessionsKnown, StagesKept, NEW t \in Turns, RunnerSettles(t)
  PROVE  /\ \/ /\ pc[t] = "done" /\ PendingOn(on[t], pending') = {} /\ On(t).running
               /\ \E q \in SessionRecords :
                    Wrote(on[t], q, q) /\ SameTexts(q, On(t)) /\ q.running = FALSE
            \/ /\ ~(pc[t] = "done" /\ PendingOn(on[t], pending') = {} /\ On(t).running)
               /\ UNCHANGED <<mem, snapshot>>
         /\ SyncedKept => SyncedKept'
         /\ t \in pending /\ pending' = pending \ {t}
         /\ UNCHANGED <<up, controller, pc, on, answer, aborted, cancelled, raced>>
<1> DEFINE s == on[t]
<1> DEFINE q == [mem[s] EXCEPT !.running = FALSE]
<1> DEFINE frees == pc[t] = "done" /\ PendingOn(s, pending') = {} /\ mem[s].running
<1>1. /\ up /\ s \in Sessions /\ Exists(s) /\ mem[s] \in SessionRecords
      /\ q \in SessionRecords /\ SameTexts(q, mem[s]) /\ q.running = FALSE
  <2>1. up /\ s \in Sessions /\ Exists(s) /\ mem[s] \in SessionRecords
    BY GoesOn
  <2> QED
    BY <2>1, Records DEF SameTexts, SessionRecords
<1>2. [mem EXCEPT ![s].running = FALSE] = [mem EXCEPT ![s] = q]
  OBVIOUS
<1>3. /\ \/ /\ frees /\ mem' = [mem EXCEPT ![s] = q]
            /\ Persisted([mem EXCEPT ![s] = q]) \/ PersistFails([mem EXCEPT ![s] = q])
         \/ ~frees /\ UNCHANGED <<mem, snapshot>>
      /\ t \in pending /\ pending' = pending \ {t}
      /\ UNCHANGED <<up, controller, pc, on, answer, aborted, cancelled, raced>>
  BY <1>2 DEF RunnerSettles, On, history
<1> HIDE DEF q
<1>4. CASE /\ mem' = [mem EXCEPT ![s] = q] /\ frees
           /\ Persisted([mem EXCEPT ![s] = q]) \/ PersistFails([mem EXCEPT ![s] = q])
  <2>1. Wrote(s, q, q) /\ (SyncedKept => SyncedKept')
    BY <1>1, <1>3, <1>4, Writes
  <2> QED
    BY <1>1, <1>3, <1>4, <2>1 DEF On
<1>5. CASE ~frees /\ UNCHANGED <<mem, snapshot>>
  BY <1>3, <1>5 DEF On, snapshot, SyncedKept
<1> QED
  BY <1>3, <1>4, <1>5

-----------------------------------------------------------------------------
\* Sessions on disk stay there, and memory holds no others.

\* A session that is written is known, and so is that of a turn that has begun on it.
LEMMA KnownAfterWrite ==
  ASSUME TypeOK, SessionsKnown, NEW s, NEW q, NEW r, Wrote(s, q, r),
         \A t \in Turns : pc'[t] # "idle" => on'[t] = s \/ (pc[t] # "idle" /\ on'[t] = on[t])
  PROVE  SessionsKnown'
<1>1. /\ s \in Sessions /\ mem[s] # None /\ q # None /\ r # None /\ up /\ disk[s] # None
      /\ mem \in [Sessions -> SessionRecords \cup {None}]
  BY NoneAssumption DEF Wrote, SessionsKnown, Exists, TypeOK, NoneAssumption
<1>2. /\ \A x \in Sessions : mem'[x] = IF x = s THEN q ELSE mem[x]
      /\ disk' = disk \/ \A x \in Sessions : disk'[x] = IF x = s THEN r ELSE mem[x]
  BY <1>1 DEF Wrote, TypeOK
<1>3. \A x \in Sessions : mem'[x] # None => mem[x] # None /\ disk'[x] # None
  BY <1>1, <1>2 DEF SessionsKnown, Exists
<1>4. ASSUME NEW t \in Turns, pc'[t] # "idle"
      PROVE  on'[t] \in Sessions /\ disk'[on'[t]] # None /\ mem'[on'[t]] # None
  <2>1. on'[t] \in Sessions /\ mem[on'[t]] # None
    BY <1>1, <1>4 DEF SessionsKnown, Exists
  <2>2. mem'[on'[t]] # None
    BY <1>1, <1>2, <2>1
  <2> QED
    BY <1>3, <2>1, <2>2
<1> QED
  BY <1>3, <1>4 DEF SessionsKnown, Exists

\* Every step keeps SessionsKnown.
LEMMA SessionsKnownStep ==
  ASSUME TypeOK, SessionsKnown, StagesKept, [Next]_vars
  PROVE  SessionsKnown'
<1> DEFINE Calm == /\ UNCHANGED <<mem, disk, up>>
                   /\ \A t \in Turns : pc'[t] # "idle" =>
                        \/ pc[t] # "idle" /\ on'[t] = on[t]
                        \/ on'[t] \in Sessions /\ Exists(on'[t])
<1>t. /\ mem \in Stores /\ disk \in Stores /\ None \notin SessionRecords
      /\ pc \in [Turns -> Stages] /\ on \in [Turns -> Sessions \cup {None}]
  BY NoneAssumption, SessionTypes DEF TypeOK, NoneAssumption
<1>1. Calm => SessionsKnown'
  BY DEF SessionsKnown, Exists
<1>2. CASE UNCHANGED vars
  BY <1>1, <1>2 DEF vars, snapshot
<1>3. CASE CancelAll \/ \E s \in Sessions : Cancel(s)
  <2>1. UNCHANGED <<mem, disk, up, pc, on>>
    BY <1>3 DEF CancelAll, Cancel, snapshot
  <2> QED
    BY <1>1, <2>1
<1>4. CASE Crash
  <2>1. /\ UNCHANGED <<disk, on>> /\ up' = FALSE
        /\ \A s \in Sessions : mem'[s] = None
        /\ \A t \in Turns : pc'[t] # "idle" => pc[t] # "idle"
    BY <1>4, <1>t DEF Crash, snapshot, UnderWay, Awaiting, Synchronous
  <2> QED
    BY <2>1 DEF SessionsKnown, Exists
<1>5. CASE Start
  <2>1. /\ UNCHANGED <<disk, on, pc>>
        /\ \A s \in Sessions : mem'[s] = IF disk[s] = None THEN None ELSE Restored(disk[s])
    BY <1>5 DEF Start
  <2>2. \A s \in Sessions : disk[s] # None => Restored(disk[s]) # None
    <3>1. \A s \in Sessions : disk[s] # None => Restored(disk[s]) \in SessionRecords
      BY Recorded DEF Restored, SessionRecords, Statuses
    <3> QED
      BY <3>1, <1>t
  <2> QED
    BY <2>1, <2>2 DEF SessionsKnown, Exists
<1>6. ASSUME NEW s \in Sessions, Create(s)
      PROVE  SessionsKnown'
  <2> DEFINE m == [mem EXCEPT ![s] = NewSession]
  <2>1. /\ NewSession # None /\ disk[s] = None /\ mem[s] = None /\ UNCHANGED <<up, pc, on>>
        /\ m \in Stores
    <3>1. NewSession \in SessionRecords
      BY EmptySeq DEF NewSession, SessionRecords, Statuses
    <3> QED
      BY <1>6, <1>t, <3>1, Recorded DEF Create, Exists
  <2>2. \A x \in Sessions : m[x] = IF x = s THEN NewSession ELSE mem[x]
    BY <1>t DEF Stores
  <2> HIDE DEF m
  <2>3. (mem' = m /\ Persisted(m)) \/ (mem' = mem /\ PersistFails(m))
    BY <1>6 DEF Create, Change, m
  <2>4. up
    BY <1>6 DEF Create, Free
  <2>5. (mem' = m /\ disk' = m) \/ (mem' = mem /\ disk' \in {disk, m})
    BY <2>1, <2>3, Written
  <2>6. ASSUME NEW x \in Sessions, mem[x] # None
        PROVE  mem'[x] # None /\ disk'[x] # None
    BY <2>1, <2>2, <2>5, <2>6 DEF SessionsKnown, Exists
  <2>7. \A x \in Sessions : mem'[x] # None => disk'[x] # None
    BY <2>2, <2>5, <2>6
  <2>8. ASSUME NEW t \in Turns, pc'[t] # "idle"
        PROVE  on'[t] \in Sessions /\ disk'[on'[t]] # None /\ mem'[on'[t]] # None
    BY <2>1, <2>4, <2>6, <2>8 DEF SessionsKnown, Exists
  <2> QED
    BY <2>7, <2>8 DEF SessionsKnown, Exists
<1>7. ASSUME NEW s \in Sessions, Close(s) \/ Review(s)
      PROVE  SessionsKnown'
  BY <1>7, StatusShape, KnownAfterWrite
<1>8. ASSUME NEW s \in Sessions, NEW t \in Turns, NEW r, NEW stage, BeginsShape(t, s, r, stage),
             on' = [on EXCEPT ![t] = s]
      PROVE  SessionsKnown'
  <2>1. PICK q, w \in SessionRecords : /\ Wrote(s, q, w)
                                      /\ \/ pc' = [pc EXCEPT ![t] = stage]
                                         \/ pc' = [pc EXCEPT ![t] = "done"]
    BY <1>8 DEF BeginsShape
  <2>2. \A u \in Turns : u # t => pc'[u] = pc[u] /\ on'[u] = on[u]
    BY <1>t, <1>8, <2>1
  <2>3. on'[t] = s
    BY <1>t, <1>8
  <2> QED
    BY <2>1, <2>2, <2>3, KnownAfterWrite
<1>9. ASSUME NEW s \in Sessions, NEW t \in Turns, Send(t, s) \/ SendResolving(t, s) \/ Plan(t, s)
      PROVE  SessionsKnown'
  <2>1. CASE Send(t, s)
    BY <1>8, <2>1, AsksShape DEF Send, MaySend, Free
  <2>2. CASE SendResolving(t, s)
    BY <1>1, <1>t, <2>2 DEF SendResolving, MaySend, Goto, snapshot
  <2>3. CASE Plan(t, s)
    BY <1>8, <2>3, PlanShape
  <2> QED
    BY <1>9, <2>1, <2>2, <2>3
<1>10. ASSUME NEW t \in Turns, Continue(t) \/ RunnerSettles(t)
       PROVE  SessionsKnown'
  <2>0. /\ up /\ pc[t] # "idle" /\ on[t] \in Sessions /\ Exists(on[t])
    BY <1>10, GoesOn
  <2>1. ASSUME UNCHANGED on, NEW stage, pc' = [pc EXCEPT ![t] = stage]
        PROVE  \A u \in Turns : pc'[u] # "idle" => pc[u] # "idle" /\ on'[u] = on[u]
    BY <1>t, <2>0, <2>1
  <2>2. CASE Resolved(t)
    <3>1. CASE Asks(t, on[t])
      BY <1>8, <2>0, <3>1, AsksShape
    <3>2. CASE UNCHANGED <<mem, disk, up, on>> /\ pc' = [pc EXCEPT ![t] = "done"]
      BY <1>1, <2>1, <3>2
    <3> QED
      BY <2>2, <3>1, <3>2 DEF Resolved, Goto, snapshot
  <2>3. CASE Answer(t)
    <3>1. PICK stage \in {"ending", "catching"} : pc' = [pc EXCEPT ![t] = stage]
      BY <2>3, AnswerShape
    <3> QED
      BY <2>1, <2>3, <3>1, AnswerShape, KnownAfterWrite
  <2>4. CASE ModelFails(t) \/ PlanFails(t)
    <3>1. UNCHANGED <<mem, disk, up, on>> /\ \E stage : pc' = [pc EXCEPT ![t] = stage]
      BY <2>4 DEF ModelFails, PlanFails, Goto, snapshot
    <3> QED
      BY <1>1, <2>1, <3>1
  <2>5. CASE Catch(t)
    BY <2>1, <2>5, CatchShape, KnownAfterWrite
  <2>6. CASE PlanAnswer(t)
    BY <2>1, <2>6, PlanAnswerShape, KnownAfterWrite
  <2>7. CASE End(t)
    BY <2>1, <2>7, EndShape, KnownAfterWrite
  <2>8. CASE RunnerSettles(t)
    <3>1. CASE UNCHANGED <<mem, snapshot>>
      BY <1>1, <2>8, <3>1, SettlesShape DEF snapshot
    <3>2. CASE \E q \in SessionRecords : Wrote(on[t], q, q)
      BY <2>8, <3>2, SettlesShape, KnownAfterWrite
    <3> QED
      BY <2>8, <3>1, <3>2, SettlesShape
  <2> QED
    BY <1>10, <2>2, <2>3, <2>4, <2>5, <2>6, <2>7, <2>8 DEF Continue
<1> QED
  BY <1>2, <1>3, <1>4, <1>5, <1>6, <1>7, <1>9, <1>10 DEF Next

-----------------------------------------------------------------------------
\* A turn goes through its stages in order.
LEMMA StagesStep ==
  ASSUME TypeOK, SessionsKnown, StagesKept, [Next]_vars
  PROVE  StagesKept'
<1> DEFINE Stage(t) ==
      /\ t \in pending => pc[t] \in {"planning", "ending", "done"}
      /\ t \in Reviews => pc[t] \notin {"resolving", "asking", "catching"}
      /\ t \notin Reviews => pc[t] # "planning"
      /\ pc[t] \in {"idle", "resolving"} \cup Awaiting => answer[t] = None
<1> DEFINE Down == ~up => pending = {} /\ \A t \in Turns : pc[t] \notin UnderWay \cup {"resolving"}
<1>t. /\ pc \in [Turns -> Stages] /\ answer \in [Turns -> {"answered", "failed", None}]
      /\ Reviews \subseteq Turns /\ Resolves \cap Reviews = {} /\ pending \subseteq Reviews
  BY ConstantsAssumption DEF TypeOK, ConstantsAssumption
<1>i. Down /\ \A t \in Turns : Stage(t)
  BY DEF StagesKept
<1>q. SUFFICES Down' /\ \A t \in Turns : Stage(t)'
  BY DEF StagesKept
<1> USE DEF UnderWay, Awaiting, Synchronous
<1>1. CASE UNCHANGED <<up, pc, pending, answer>>
  BY <1>1, <1>i
<1>2. CASE Crash
  <2>1. /\ up' = FALSE /\ pending' = {} /\ UNCHANGED answer
        /\ \A t \in Turns : pc'[t] = IF pc[t] \in UnderWay \cup {"resolving"} THEN "lost" ELSE pc[t]
    BY <1>2, <1>t DEF Crash
  <2> QED
    BY <1>i, <2>1
<1>3. CASE Start
  BY <1>i, <1>3 DEF Start
\* a step of turn t
<1>4. ASSUME NEW t \in Turns, up', Stage(t)', pending' \ {t} \subseteq pending,
             \A u \in Turns \ {t} : pc'[u] = pc[u] /\ answer'[u] = answer[u]
      PROVE  Down' /\ \A u \in Turns : Stage(u)'
  <2>1. ASSUME NEW u \in Turns, u # t
        PROVE  Stage(u)'
    BY <1>i, <1>4, <2>1
  <2> QED
    BY <1>4, <2>1
<1>5. ASSUME NEW s \in Sessions, NEW t \in Turns, NEW r, NEW stage \in Awaiting,
             BeginsShape(t, s, r, stage), pc[t] \in {"idle", "resolving"},
             stage = "planning" <=> t \in Reviews,
             up', t \in pending' => pc'[t] = "planning", pending' \ {t} \subseteq pending
      PROVE  Down' /\ \A u \in Turns : Stage(u)'
  <2>1. \/ pc' = [pc EXCEPT ![t] = stage] /\ UNCHANGED answer
        \/ pc' = [pc EXCEPT ![t] = "done"] /\ answer' = [answer EXCEPT ![t] = "failed"]
    BY <1>5 DEF BeginsShape
  <2>2. \A u \in Turns \ {t} : pc'[u] = pc[u] /\ answer'[u] = answer[u]
    BY <1>t, <2>1
  <2>3. \/ pc'[t] = stage /\ answer'[t] = None
        \/ pc'[t] = "done" /\ answer'[t] = "failed"
    BY <1>t, <1>i, <1>5, <2>1
  <2>4. Stage(t)'
    BY <1>5, <2>3
  <2> QED
    BY <1>4, <1>5, <2>2, <2>4
<1>6. ASSUME NEW s \in Sessions, NEW t \in Turns, Send(t, s) \/ SendResolving(t, s) \/ Plan(t, s)
      PROVE  Down' /\ \A u \in Turns : Stage(u)'
  <2>0. up /\ pc[t] = "idle" /\ t \notin pending /\ answer[t] = None /\ Exists(s)
    BY <1>i, <1>6 DEF Send, SendResolving, Plan, MaySend, Free
  <2>1. CASE Send(t, s)
    <3>1. t \notin Reviews /\ Asks(t, s)
      BY <2>1 DEF Send
    <3>2. BeginsShape(t, s, [mem[s] EXCEPT !.messages = Append(@, Question(t))], "asking")
          /\ UNCHANGED <<up, pending>>
      BY <2>0, <3>1, AsksShape
    <3> QED
      BY <1>5, <2>0, <3>1, <3>2
  <2>2. CASE SendResolving(t, s)
    <3>1. /\ pc' = [pc EXCEPT ![t] = "resolving"] /\ t \in Resolves
          /\ UNCHANGED <<up, pending, answer>>
      BY <2>2 DEF SendResolving, Goto
    <3> QED
      BY <1>t, <1>4, <2>0, <3>1
  <2>3. CASE Plan(t, s)
    <3>1. /\ BeginsShape(t, s, mem[s], "planning") /\ UNCHANGED up /\ t \in Reviews
          /\ pending' = IF pc'[t] = "planning" THEN pending \cup {t} ELSE pending
      BY <2>3, PlanShape
    <3> QED
      BY <1>5, <2>0, <3>1
  <2> QED
    BY <1>6, <2>1, <2>2, <2>3
<1>7. ASSUME NEW t \in Turns, Continue(t) \/ RunnerSettles(t)
      PROVE  Down' /\ \A u \in Turns : Stage(u)'
  <2>0. up /\ pc[t] # "idle" /\ on[t] \in Sessions /\ Exists(on[t])
    BY <1>7, GoesOn
  <2>1. CASE Resolved(t)
    <3>0. pc[t] = "resolving" /\ t \notin Reviews /\ t \notin pending
      BY <1>i, <2>1 DEF Resolved
    <3>1. CASE Asks(t, on[t])
      <4>1. BeginsShape(t, on[t], [mem[on[t]] EXCEPT !.messages = Append(@, Question(t))], "asking")
            /\ UNCHANGED <<up, pending>>
        BY <2>0, <3>1, AsksShape
      <4> QED
        BY <1>5, <2>0, <3>0, <4>1
    <3>2. CASE /\ pc' = [pc EXCEPT ![t] = "done"] /\ answer' = [answer EXCEPT ![t] = "failed"]
               /\ UNCHANGED <<up, pending>>
      BY <1>t, <1>4, <2>0, <3>0, <3>2
    <3> QED
      BY <2>1, <3>1, <3>2 DEF Resolved, Goto, Answered
  <2>2. ASSUME UNCHANGED <<up, pending>>,
               NEW x \in {"ending", "catching", "done"}, pc' = [pc EXCEPT ![t] = x],
               x = "catching" => t \notin Reviews,
               t \in pending => x # "catching",
               \A u \in Turns \ {t} : answer'[u] = answer[u]
        PROVE  Down' /\ \A u \in Turns : Stage(u)'
    <3>1. pc'[t] = x /\ \A u \in Turns \ {t} : pc'[u] = pc[u]
      BY <1>t, <2>2
    <3>2. Stage(t)'
      BY <2>2, <3>1
    <3> QED
      BY <1>4, <2>0, <2>2, <3>1, <3>2
  <2>3. CASE Answer(t)
    <3>1. pc[t] = "asking" /\ t \notin Reviews /\ t \notin pending
      BY <1>i, <2>3, AnswerShape
    <3>2. \E x \in {"ending", "catching"} : pc' = [pc EXCEPT ![t] = x]
      BY <2>3, AnswerShape
    <3>3. \A u \in Turns \ {t} : answer'[u] = answer[u]
      BY <1>t, <2>3, AnswerShape
    <3> QED
      BY <2>2, <2>3, <3>1, <3>2, <3>3, AnswerShape
  <2>4. CASE ModelFails(t)
    <3>1. pc[t] = "asking" /\ t \notin Reviews /\ t \notin pending
      BY <1>i, <2>4 DEF ModelFails
    <3> QED
      BY <2>2, <2>4, <3>1 DEF ModelFails, Goto
  <2>5. CASE Catch(t)
    <3>1. \A u \in Turns \ {t} : answer'[u] = answer[u]
      BY <1>t, <2>5, CatchShape
    <3> QED
      BY <2>2, <2>5, <3>1, CatchShape
  <2>6. CASE PlanAnswer(t)
    <3>1. \A u \in Turns \ {t} : answer'[u] = answer[u]
      BY <1>t, <2>6, PlanAnswerShape
    <3> QED
      BY <2>2, <2>6, <3>1, PlanAnswerShape
  <2>7. CASE PlanFails(t)
    <3>1. \A u \in Turns \ {t} : answer'[u] = answer[u]
      BY <1>t, <2>7 DEF PlanFails, Answered
    <3> QED
      BY <2>2, <2>7, <3>1 DEF PlanFails, Goto
  <2>8. CASE End(t)
    <3>1. \A u \in Turns \ {t} : answer'[u] = answer[u]
      BY <1>t, <2>8, EndShape
    <3> QED
      BY <2>2, <2>8, <3>1, EndShape
  <2>9. CASE RunnerSettles(t)
    <3>1. pending' = pending \ {t} /\ UNCHANGED <<up, pc, answer>>
      BY <2>9, SettlesShape
    <3> QED
      BY <1>i, <2>0, <3>1
  <2> QED
    BY <1>7, <2>1, <2>3, <2>4, <2>5, <2>6, <2>7, <2>8, <2>9 DEF Continue
<1>8. CASE \E s \in Sessions : Create(s) \/ Close(s) \/ Review(s) \/ Cancel(s)
  BY <1>1, <1>8 DEF Create, Close, Review, Cancel
<1>9. CASE CancelAll \/ UNCHANGED vars
  BY <1>1, <1>9 DEF CancelAll, vars
<1> QED
  BY <1>2, <1>3, <1>6, <1>7, <1>8, <1>9 DEF Next

-----------------------------------------------------------------------------
\* The running mark, in memory and on disk.

IsBusy(t) == pc[t] \in UnderWay \/ t \in pending

\* A step that leaves the busy turns and the marks as they are.
LEMMA RunningSame ==
  ASSUME RunningIsTrue, up, ~raced' => ~raced,
         \A t \in Turns : (IsBusy(t)' <=> IsBusy(t)) /\ (IsBusy(t) => on'[t] = on[t]),
         \A s \in Sessions : Exists(s)' => Exists(s) /\ mem'[s].running = mem[s].running
  PROVE  RunningIsTrue'
<1>1. \A s \in Sessions : Busy(s)' = Busy(s)
  BY DEF Busy, IsBusy
<1> SUFFICES ASSUME NEW s \in Sessions, Exists(s)', ~raced'
             PROVE  /\ mem'[s].running <=> Busy(s)' # {}
                    /\ \A t, u \in Busy(s)' : t = u
  BY DEF RunningIsTrue
<1>2. Exists(s) /\ mem'[s].running = mem[s].running /\ ~raced
  OBVIOUS
<1>3. (mem[s].running <=> Busy(s) # {}) /\ \A t, u \in Busy(s) : t = u
  BY <1>2 DEF RunningIsTrue
<1> QED
  BY <1>1, <1>2, <1>3

\* The same for a step that writes a record with the mark it had.
LEMMA RunningAfterWrite ==
  ASSUME TypeOK, RunningIsTrue, ~raced' => ~raced, NEW s, NEW q, NEW r, Wrote(s, q, r),
         q.running = mem[s].running,
         \A t \in Turns : (IsBusy(t)' <=> IsBusy(t)) /\ (IsBusy(t) => on'[t] = on[t]),
         Exists(s)
  PROVE  RunningIsTrue'
<1>1. up /\ \A x \in Sessions : Exists(x)' => Exists(x) /\ mem'[x].running = mem[x].running
  BY DEF Wrote, TypeOK, Exists
<1> QED
  BY <1>1, RunningSame

\* What a write that is not about the session of t, or keeps its mark, leaves on disk.
LEMMA MarkKept ==
  ASSUME TypeOK, SessionsKnown, RunningIsTrue, InterruptionIsOnDisk, ~raced,
         NEW s, NEW q, NEW r, Wrote(s, q, r),
         NEW t \in Turns, pc[t] \in Awaiting, on[t] = s => r.running
  PROVE  disk'[on[t]].running
<1>1. pc[t] # "idle" /\ pc[t] \in UnderWay
  BY DEF Awaiting, UnderWay
<1>2. on[t] \in Sessions /\ Exists(on[t]) /\ up
  BY <1>1, OnKnown DEF Wrote
<1>3. t \in Busy(on[t])
  BY <1>1 DEF Busy
<1>4. mem[on[t]].running /\ disk[on[t]].running
  BY <1>2, <1>3 DEF RunningIsTrue, InterruptionIsOnDisk
<1>5. disk' = disk \/ disk'[on[t]] = IF on[t] = s THEN r ELSE mem[on[t]]
  BY <1>2 DEF Wrote, TypeOK
<1> QED
  BY <1>4, <1>5

\* A turn that begins: its session was free, and is busy with it, or free again.
LEMMA BeginsRunning ==
  ASSUME TypeOK, SessionsKnown, StagesKept, RunningIsTrue, InterruptionIsOnDisk,
         NEW t \in Turns, NEW s \in Sessions, NEW r0, NEW stage \in Awaiting,
         Exists(s), BeginsShape(t, s, r0, stage), pc[t] \in {"idle", "resolving"},
         on' = [on EXCEPT ![t] = s],
         pending' \in {pending, pending \cup {t}}, t \in pending' => pc'[t] = stage
  PROVE  RunningIsTrue' /\ InterruptionIsOnDisk'
<1> SUFFICES ASSUME ~raced'
             PROVE  RunningIsTrue' /\ InterruptionIsOnDisk'
  BY DEF RunningIsTrue, InterruptionIsOnDisk
<1>1. PICK q, r \in SessionRecords :
        /\ Wrote(s, q, r)
        /\ r.running = TRUE
        /\ \/ /\ q = r /\ disk' = [mem EXCEPT ![s] = r]
              /\ pc' = [pc EXCEPT ![t] = stage]
           \/ q.running = FALSE /\ pc' = [pc EXCEPT ![t] = "done"]
  BY DEF BeginsShape
<1>2. ~raced /\ ~mem[s].running /\ up
  BY <1>1 DEF BeginsShape, Wrote
<1>3. Busy(s) = {}
  BY <1>2 DEF RunningIsTrue
<1>t. /\ pc \in [Turns -> Stages] /\ on \in [Turns -> Sessions \cup {None}]
      /\ mem \in [Sessions -> SessionRecords \cup {None}] /\ stage \in UnderWay
  BY DEF TypeOK, UnderWay
<1>4. ~IsBusy(t)
  BY DEF IsBusy, StagesKept, UnderWay, Awaiting, Synchronous
<1>5. \A u \in Turns \ {t} : on'[u] = on[u] /\ pc'[u] = pc[u] /\ (u \in pending' <=> u \in pending)
  BY <1>t, <1>1
<1>6. on'[t] = s /\ \A x \in Sessions : mem'[x] = IF x = s THEN q ELSE mem[x]
  BY <1>t, <1>1 DEF Wrote
<1>7. \A x \in Sessions \ {s} : Busy(x)' = Busy(x)
  BY <1>4, <1>5, <1>6 DEF Busy, IsBusy
<1>8. ASSUME NEW x \in Sessions, x # s, Exists(x)'
      PROVE  (mem'[x].running <=> Busy(x)' # {}) /\ \A u, v \in Busy(x)' : u = v
  <2>1. Exists(x) /\ mem'[x] = mem[x]
    BY <1>6, <1>8 DEF Exists
  <2> QED
    BY <1>2, <1>7, <1>8, <2>1 DEF RunningIsTrue
<1>9. CASE q = r /\ disk' = [mem EXCEPT ![s] = r] /\ pc' = [pc EXCEPT ![t] = stage]
  <2>1. pc'[t] = stage
    BY <1>t, <1>9
  <2>2. Busy(s)' = {t}
    BY <1>t, <1>3, <1>5, <1>6, <2>1 DEF Busy
  <2>3. mem'[s].running = TRUE
    BY <1>1, <1>6, <1>9
  <2>4. RunningIsTrue'
    BY <1>8, <2>2, <2>3 DEF RunningIsTrue
  <2>5. disk'[s].running
    BY <1>t, <1>1, <1>9
  <2>6. ASSUME NEW u \in Turns, pc'[u] \in Awaiting
        PROVE  disk'[on'[u]].running
    BY <1>1, <1>2, <1>5, <1>6, <2>5, <2>6, MarkKept
  <2> QED
    BY <2>4, <2>6 DEF InterruptionIsOnDisk
<1>10. CASE q.running = FALSE /\ pc' = [pc EXCEPT ![t] = "done"]
  <2>1. pc'[t] = "done" /\ t \notin pending'
    <3>1. pc'[t] = "done"
      BY <1>t, <1>10
    <3> QED
      BY <3>1 DEF Awaiting
  <2>2. Busy(s)' = {}
    BY <1>3, <1>5, <2>1 DEF Busy, UnderWay, Awaiting, Synchronous
  <2>3. mem'[s].running = FALSE
    BY <1>6, <1>10
  <2>4. RunningIsTrue'
    BY <1>8, <2>2, <2>3 DEF RunningIsTrue
  <2>6. ASSUME NEW u \in Turns, pc'[u] \in Awaiting
        PROVE  disk'[on'[u]].running
    BY <1>1, <1>2, <1>5, <2>1, <2>6, MarkKept DEF Awaiting
  <2> QED
    BY <2>4, <2>6 DEF InterruptionIsOnDisk
<1> QED
  BY <1>1, <1>9, <1>10

\* A step of turn t that keeps what is busy, and writes the mark as it was.
LEMMA KeepsRunning ==
  ASSUME TypeOK, SessionsKnown, RunningIsTrue, InterruptionIsOnDisk, ~raced' => ~raced,
         NEW s, NEW q, NEW r, Wrote(s, q, r), Exists(s),
         q.running = mem[s].running, r.running = mem[s].running, UNCHANGED <<on, pending>>,
         \A t \in Turns : /\ pc'[t] \in UnderWay <=> pc[t] \in UnderWay
                          /\ pc'[t] \in Awaiting => pc[t] \in Awaiting
  PROVE  RunningIsTrue' /\ InterruptionIsOnDisk'
<1>1. RunningIsTrue'
  BY RunningAfterWrite DEF IsBusy
<1>2. ASSUME NEW t \in Turns, pc'[t] \in Awaiting, ~raced'
      PROVE  disk'[on'[t]].running
  <2>1. pc[t] \in Awaiting /\ ~raced /\ on'[t] = on[t]
    BY <1>2
  <2>2. on[t] = s => r.running
    <3> SUFFICES ASSUME on[t] = s PROVE r.running
      OBVIOUS
    <3>1. t \in Busy(s) /\ s \in Sessions /\ up
      BY <2>1 DEF Busy, UnderWay, Wrote
    <3> QED
      BY <2>1, <3>1 DEF RunningIsTrue
  <2> QED
    BY <2>1, <2>2, MarkKept
<1> QED
  BY <1>1, <1>2 DEF InterruptionIsOnDisk

\* Every step keeps the running marks true, in memory and for a restart.
LEMMA RunningStep ==
  ASSUME TypeOK, SessionsKnown, StagesKept, RunningIsTrue, InterruptionIsOnDisk,
         [Next]_vars
  PROVE  RunningIsTrue' /\ InterruptionIsOnDisk'
<1>t. /\ pc \in [Turns -> Stages] /\ on \in [Turns -> Sessions \cup {None}]
      /\ mem \in [Sessions -> SessionRecords \cup {None}] /\ pending \subseteq Turns
      /\ None \notin SessionRecords
  BY ConstantsAssumption, NoneAssumption DEF TypeOK, ConstantsAssumption, NoneAssumption
<1>u. UnderWay = {"asking", "planning", "catching", "ending"} /\ Awaiting = {"asking", "planning"}
  BY DEF UnderWay, Awaiting, Synchronous
\* nothing is written
<1>1. ASSUME UNCHANGED <<mem, disk, up, pending, raced>>,
             \A t \in Turns : /\ pc'[t] \in UnderWay <=> pc[t] \in UnderWay
                              /\ pc'[t] \in Awaiting => pc[t] \in Awaiting
                              /\ IsBusy(t) => on'[t] = on[t]
      PROVE  RunningIsTrue' /\ InterruptionIsOnDisk'
  <2>1. \A t \in Turns : (IsBusy(t)' <=> IsBusy(t)) /\ (IsBusy(t) => on'[t] = on[t])
    BY <1>1 DEF IsBusy
  <2>2. RunningIsTrue'
    <3>1. CASE up
      BY <1>1, <2>1, <3>1, RunningSame DEF Exists
    <3>2. CASE ~up
      BY <1>1, <3>2 DEF RunningIsTrue
    <3> QED
      BY <3>1, <3>2
  <2>3. InterruptionIsOnDisk'
    BY <1>1, <2>1 DEF InterruptionIsOnDisk, IsBusy, UnderWay
  <2> QED
    BY <2>2, <2>3
<1>2. CASE UNCHANGED vars
  BY <1>1, <1>2 DEF vars, snapshot, history
<1>3. CASE CancelAll \/ \E s \in Sessions : Cancel(s)
  <2>1. UNCHANGED <<mem, disk, up, pending, raced, pc, on>>
    BY <1>3 DEF CancelAll, Cancel, snapshot
  <2> QED
    BY <1>1, <2>1
<1>4. CASE Crash
  <2>1. /\ up' = FALSE /\ raced' = raced
        /\ \A t \in Turns : pc'[t] = IF pc[t] \in UnderWay \cup {"resolving"} THEN "lost" ELSE pc[t]
    BY <1>4, <1>t DEF Crash, history
  <2>2. \A t \in Turns : pc'[t] \notin Awaiting
    BY <1>u, <2>1
  <2> QED
    BY <2>1, <2>2 DEF RunningIsTrue, InterruptionIsOnDisk
<1>5. CASE Start
  <2>1. /\ ~up /\ UNCHANGED <<disk, on, pc, pending>>
        /\ \A s \in Sessions : mem'[s] = IF disk[s] = None THEN None ELSE Restored(disk[s])
    BY <1>5 DEF Start
  <2>2. \A t \in Turns : ~IsBusy(t)' /\ pc'[t] \notin Awaiting
    BY <2>1 DEF StagesKept, IsBusy, UnderWay
  <2>3. ASSUME NEW s \in Sessions, Exists(s)'
        PROVE  mem'[s].running = FALSE
    <3>1. disk[s] \in SessionRecords /\ mem'[s] = Restored(disk[s])
      BY <2>1, <2>3, Recorded DEF Exists
    <3> QED
      BY <3>1 DEF Restored, SessionRecords
  <2>4. \A s \in Sessions : Busy(s)' = {}
    BY <2>2 DEF Busy, IsBusy
  <2> QED
    BY <2>2, <2>3, <2>4 DEF RunningIsTrue, InterruptionIsOnDisk
<1>6. ASSUME NEW s \in Sessions, Create(s)
      PROVE  RunningIsTrue' /\ InterruptionIsOnDisk'
  <2> DEFINE m == [mem EXCEPT ![s] = NewSession]
  <2>1. /\ mem[s] = None /\ UNCHANGED <<up, pc, on, pending, raced>> /\ up
        /\ m \in Stores /\ NewSession.running = FALSE
    <3>1. NewSession \in SessionRecords /\ NewSession.running = FALSE
      BY EmptySeq DEF NewSession, SessionRecords, Statuses
    <3> QED
      BY <1>6, <1>t, <3>1, Recorded DEF Create, Exists, Free, history
  <2>2. \A x \in Sessions : m[x] = IF x = s THEN NewSession ELSE mem[x]
    BY <1>t
  <2> HIDE DEF m
  <2>3. (mem' = m \/ mem' = mem) /\ disk' \in {disk, m}
    <3>1. (mem' = m /\ Persisted(m)) \/ (mem' = mem /\ PersistFails(m))
      BY <1>6 DEF Create, Change, m
    <3> QED
      BY <2>1, <3>1, Written
  <2>4. ASSUME NEW t \in Turns, IsBusy(t)
        PROVE  on[t] \in Sessions \ {s} /\ Exists(on[t]) /\ t \in Busy(on[t])
    <3>1. pc[t] # "idle"
      BY <2>4 DEF IsBusy, UnderWay, Awaiting, Synchronous, StagesKept
    <3> QED
      BY <2>1, <2>4, <3>1, OnKnown DEF Exists, Busy, IsBusy
  <2>5. Busy(s) = {} /\ \A x \in Sessions : Busy(x)' = Busy(x)
    BY <2>1, <2>4 DEF Busy, IsBusy
  <2>6. ASSUME NEW x \in Sessions, Exists(x)', ~raced'
        PROVE  (mem'[x].running <=> Busy(x)' # {}) /\ \A t, u \in Busy(x)' : t = u
    <3>1. CASE x = s
      BY <2>1, <2>2, <2>3, <2>5, <2>6, <3>1 DEF Exists
    <3>2. CASE x # s
      <4>1. mem'[x] = mem[x] /\ Exists(x) /\ ~raced
        BY <2>1, <2>2, <2>3, <2>6, <3>2 DEF Exists
      <4> QED
        BY <2>1, <2>5, <4>1 DEF RunningIsTrue
    <3> QED
      BY <3>1, <3>2
  <2>7. ASSUME NEW t \in Turns, pc'[t] \in Awaiting, ~raced'
        PROVE  disk'[on'[t]].running
    <3>1. /\ pc[t] \in Awaiting /\ ~raced /\ on'[t] = on[t]
          /\ on[t] \in Sessions \ {s} /\ Exists(on[t]) /\ t \in Busy(on[t])
      BY <2>1, <2>4, <2>7 DEF IsBusy, UnderWay
    <3>2. mem[on[t]].running /\ disk[on[t]].running
      BY <2>1, <3>1 DEF RunningIsTrue, InterruptionIsOnDisk
    <3> QED
      BY <2>2, <2>3, <3>1, <3>2
  <2> QED
    BY <2>6, <2>7 DEF RunningIsTrue, InterruptionIsOnDisk
<1>7. ASSUME NEW s \in Sessions, Close(s) \/ Review(s)
      PROVE  RunningIsTrue' /\ InterruptionIsOnDisk'
  <2>1. Exists(s)
    BY <1>7 DEF Close, Review
  <2> QED
    BY <1>7, <2>1, StatusShape, KeepsRunning
<1>8. ASSUME NEW s \in Sessions, NEW t \in Turns, Send(t, s) \/ SendResolving(t, s) \/ Plan(t, s)
      PROVE  RunningIsTrue' /\ InterruptionIsOnDisk'
  <2>0. up /\ pc[t] = "idle" /\ t \notin pending /\ Exists(s)
    BY <1>8 DEF Send, SendResolving, Plan, MaySend, Free, StagesKept
  <2>1. CASE Send(t, s)
    BY <2>0, <2>1, <1>u, AsksShape, BeginsRunning DEF Send
  <2>2. CASE SendResolving(t, s)
    <3>1. /\ UNCHANGED <<mem, disk, up, pending, raced>> /\ pc' = [pc EXCEPT ![t] = "resolving"]
          /\ on' = [on EXCEPT ![t] = s]
      BY <2>2 DEF SendResolving, Goto, snapshot, history
    <3>2. ~IsBusy(t) /\ pc'[t] = "resolving"
      BY <1>t, <1>u, <2>0, <3>1 DEF IsBusy
    <3>3. \A u \in Turns \ {t} : pc'[u] = pc[u] /\ on'[u] = on[u]
      BY <1>t, <3>1
    <3> QED
      BY <1>1, <1>u, <2>0, <3>1, <3>2, <3>3
  <2>3. CASE Plan(t, s)
    BY <2>0, <2>3, <1>u, PlanShape, BeginsRunning
  <2> QED
    BY <1>8, <2>1, <2>2, <2>3
<1>9. ASSUME NEW t \in Turns, Continue(t) \/ RunnerSettles(t)
      PROVE  RunningIsTrue' /\ InterruptionIsOnDisk'
  <2>0. /\ up /\ pc[t] # "idle" /\ on[t] \in Sessions /\ Exists(on[t]) /\ On(t) = mem[on[t]]
    BY <1>9, GoesOn DEF On
  \* t remains under way
  <2>1. ASSUME pc[t] \in UnderWay, NEW x \in {"ending", "catching"}, pc' = [pc EXCEPT ![t] = x]
        PROVE  \A u \in Turns : /\ pc'[u] \in UnderWay <=> pc[u] \in UnderWay
                                /\ pc'[u] \in Awaiting => pc[u] \in Awaiting
    <3>1. pc'[t] = x /\ \A u \in Turns \ {t} : pc'[u] = pc[u]
      BY <1>t, <2>1
    <3> QED
      BY <1>u, <2>1, <3>1
  <2>2. CASE Resolved(t)
    <3>0. pc[t] = "resolving" /\ t \notin pending
      BY <2>2 DEF Resolved, StagesKept
    <3>1. CASE Asks(t, on[t])
      BY <1>u, <2>0, <3>0, <3>1, AsksShape, BeginsRunning
    <3>2. CASE /\ pc' = [pc EXCEPT ![t] = "done"] /\ UNCHANGED <<mem, disk, up, pending, on, raced>>
      <4>1. pc'[t] = "done" /\ \A u \in Turns \ {t} : pc'[u] = pc[u]
        BY <1>t, <3>2
      <4> QED
        BY <1>1, <1>u, <3>0, <3>2, <4>1
    <3> QED
      BY <2>2, <3>1, <3>2 DEF Resolved, Goto, snapshot, history
  <2>3. CASE Answer(t)
    <3>1. pc[t] \in UnderWay /\ \E x \in {"ending", "catching"} : pc' = [pc EXCEPT ![t] = x]
      BY <1>u, <2>3, AnswerShape
    <3>2. \A u \in Turns : /\ pc'[u] \in UnderWay <=> pc[u] \in UnderWay
                           /\ pc'[u] \in Awaiting => pc[u] \in Awaiting
      BY <2>1, <3>1
    <3> QED
      BY <2>0, <2>3, <3>2, AnswerShape, KeepsRunning
  <2>4. CASE ModelFails(t) \/ PlanFails(t)
    <3>1. /\ UNCHANGED <<mem, disk, up, pending, on, raced>> /\ pc[t] \in UnderWay
          /\ \E x \in {"ending", "catching"} : pc' = [pc EXCEPT ![t] = x]
      BY <1>u, <2>4 DEF ModelFails, PlanFails, Goto, snapshot, history
    <3> QED
      BY <1>1, <2>1, <3>1
  <2>5. CASE Catch(t)
    <3>1. \A u \in Turns : /\ pc'[u] \in UnderWay <=> pc[u] \in UnderWay
                           /\ pc'[u] \in Awaiting => pc[u] \in Awaiting
      BY <1>u, <2>1, <2>5, CatchShape
    <3> QED
      BY <2>0, <2>5, <3>1, CatchShape, KeepsRunning
  <2>6. CASE PlanAnswer(t)
    <3>1. \A u \in Turns : /\ pc'[u] \in UnderWay <=> pc[u] \in UnderWay
                           /\ pc'[u] \in Awaiting => pc[u] \in Awaiting
      BY <1>u, <2>1, <2>6, PlanAnswerShape
    <3> QED
      BY <2>0, <2>6, <3>1, PlanAnswerShape, KeepsRunning
  \* a step after which s is busy only with the runner of t, if at all
  <2>7. ASSUME IsBusy(t), NEW q \in SessionRecords, Wrote(on[t], q, q),
               UNCHANGED <<on, raced>>, pending' \subseteq pending,
               pc'[t] = "done",
               \A u \in Turns \ {t} : pc'[u] = pc[u] /\ (u \in pending' <=> u \in pending),
               ~raced => (q.running <=> t \in pending')
        PROVE  RunningIsTrue' /\ InterruptionIsOnDisk'
    <3> SUFFICES ASSUME ~raced
                 PROVE  RunningIsTrue' /\ InterruptionIsOnDisk'
      BY <2>7 DEF RunningIsTrue, InterruptionIsOnDisk
    <3>1. Busy(on[t]) = {t}
      <4>1. t \in Busy(on[t])
        BY <2>7 DEF Busy, IsBusy
      <4>2. \A u \in Busy(on[t]) : u = t
        BY <2>0, <4>1 DEF RunningIsTrue
      <4> QED
        BY <4>1, <4>2
    <3>2. ASSUME NEW x \in Sessions, x = on[t]
          PROVE  Busy(x)' = IF t \in pending' THEN {t} ELSE {}
      <4>1. \A u \in Busy(x)' : u = t
        BY <2>7, <3>1, <3>2 DEF Busy
      <4>2. t \in Busy(x)' <=> t \in pending'
        BY <1>u, <2>7, <3>2 DEF Busy
      <4> QED
        BY <4>1, <4>2
    <3>3. \A x \in Sessions \ {on[t]} : Busy(x)' = Busy(x)
      BY <2>7 DEF Busy
    <3>4. \A x \in Sessions : mem'[x] = IF x = on[t] THEN q ELSE mem[x]
      BY <1>t, <2>7 DEF Wrote
    <3>5. ASSUME NEW x \in Sessions, Exists(x)'
          PROVE  (mem'[x].running <=> Busy(x)' # {}) /\ \A u, v \in Busy(x)' : u = v
      <4>1. CASE x = on[t]
        <5>1. mem'[x] = q /\ (q.running <=> t \in pending')
          BY <2>7, <3>4, <4>1
        <5>2. CASE t \in pending'
          <6>0. mem'[x].running
            BY <5>1, <5>2, Zenon
          <6>1. Busy(x)' = {t} /\ mem'[x].running
            BY <3>2, <4>1, <5>2, <6>0
          <6> QED
            BY <6>1
        <5>3. CASE t \notin pending'
          <6>0. ~mem'[x].running
            BY <5>1, <5>3, Zenon
          <6>1. Busy(x)' = {} /\ ~mem'[x].running
            BY <3>2, <4>1, <5>3, <6>0
          <6> QED
            BY <6>1
        <5> QED
          BY <5>2, <5>3
      <4>2. CASE x # on[t]
        <5>1. mem'[x] = mem[x] /\ Exists(x) /\ Busy(x)' = Busy(x)
          BY <3>3, <3>4, <3>5, <4>2 DEF Exists
        <5> QED
          BY <2>0, <5>1 DEF RunningIsTrue
      <4> QED
        BY <4>1, <4>2
    <3>6. ASSUME NEW u \in Turns, pc'[u] \in Awaiting
          PROVE  disk'[on'[u]].running
      <4>1. u # t /\ pc[u] \in Awaiting
        BY <1>u, <2>7, <3>6
      <4>2. on[u] # on[t]
        <5> SUFFICES ASSUME on[u] = on[t] PROVE FALSE
          OBVIOUS
        <5>1. u \in Busy(on[t])
          BY <4>1 DEF Busy, UnderWay
        <5> QED
          BY <3>1, <4>1, <5>1
      <4> QED
        BY <2>7, <4>1, <4>2, MarkKept
    <3> QED
      BY <3>5, <3>6 DEF RunningIsTrue, InterruptionIsOnDisk
  <2>8. CASE End(t)
    <3>1. /\ pc[t] = "ending" /\ pc' = [pc EXCEPT ![t] = "done"] /\ UNCHANGED <<pending, on, raced>>
      BY <2>8, EndShape
    <3>2. PICK q \in SessionRecords :
            /\ Wrote(on[t], q, q)
            /\ q.running = (t \in Reviews /\ PendingOn(on[t], pending) # {} /\ On(t).running)
      BY <2>8, EndShape
    <3>3. IsBusy(t) /\ t \in Busy(on[t])
      BY <1>u, <3>1 DEF IsBusy, Busy
    <3>4. pc'[t] = "done" /\ \A u \in Turns \ {t} : pc'[u] = pc[u]
      BY <1>t, <3>1
    <3>5. ASSUME ~raced
          PROVE  q.running <=> t \in pending'
      <4>1. mem[on[t]].running /\ \A u \in Busy(on[t]) : u = t
        BY <2>0, <3>3, <3>5 DEF RunningIsTrue
      <4>2. \A u \in PendingOn(on[t], pending) : u = t
        BY <1>t, <4>1 DEF PendingOn, Busy
      <4>3. PendingOn(on[t], pending) # {} <=> t \in pending
        BY <4>2 DEF PendingOn
      <4>4. t \in pending => t \in Reviews
        BY DEF TypeOK
      <4> QED
        BY <2>0, <3>1, <3>2, <4>1, <4>3, <4>4
    <3> QED
      BY <2>7, <3>1, <3>2, <3>3, <3>4, <3>5
  <2>9. CASE RunnerSettles(t)
    <3>1. t \in pending /\ pending' = pending \ {t} /\ UNCHANGED <<up, pc, on, raced>>
      BY <2>9, SettlesShape
    <3>2. IsBusy(t) /\ t \in Busy(on[t]) /\ pc[t] \in {"planning", "ending", "done"}
      BY <3>1 DEF IsBusy, Busy, StagesKept
    <3>3. CASE \E q \in SessionRecords :
                 Wrote(on[t], q, q) /\ SameTexts(q, On(t)) /\ q.running = FALSE
               /\ pc[t] = "done"
      BY <2>7, <3>1, <3>2, <3>3
    <3>4. CASE /\ ~(pc[t] = "done" /\ PendingOn(on[t], pending') = {} /\ On(t).running)
               /\ UNCHANGED <<mem, snapshot>>
      <4>1. CASE ~raced /\ pc[t] = "done"
        <5>1. mem[on[t]].running /\ \A u \in Busy(on[t]) : u = t
          BY <2>0, <3>2, <4>1 DEF RunningIsTrue
        <5>2. PendingOn(on[t], pending') = {}
          BY <1>t, <3>1, <5>1 DEF PendingOn, Busy
        <5> QED
          BY <2>0, <3>4, <4>1, <5>1, <5>2
      <4>2. CASE ~raced /\ pc[t] # "done"
        <5>1. \A u \in Turns : (IsBusy(u)' <=> IsBusy(u)) /\ (IsBusy(u) => on'[u] = on[u])
          BY <1>u, <3>1, <3>2, <4>2 DEF IsBusy
        <5>2. RunningIsTrue'
          BY <2>0, <3>1, <3>4, <5>1, RunningSame DEF Exists
        <5> QED
          BY <3>1, <3>4, <5>2 DEF InterruptionIsOnDisk, snapshot
      <4>3. CASE raced
        BY <3>1, <4>3 DEF RunningIsTrue, InterruptionIsOnDisk
      <4> QED
        BY <4>1, <4>2, <4>3
    <3> QED
      BY <2>9, <3>3, <3>4, SettlesShape
  <2> QED
    BY <1>9, <2>2, <2>3, <2>4, <2>5, <2>6, <2>8, <2>9 DEF Continue
<1> QED
  BY <1>2, <1>3, <1>4, <1>5, <1>6, <1>7, <1>8, <1>9 DEF Next

-----------------------------------------------------------------------------
\* The controller of a session is that of its turn.

\* A turn that is under way is the only one of its session.
LEMMA OneTurn ==
  ASSUME SessionsKnown, StagesKept, RunningIsTrue, ~raced,
         NEW t \in Turns, pc[t] \in UnderWay
  PROVE  /\ up /\ pc[t] # "idle" /\ on[t] \in Sessions /\ Exists(on[t])
         /\ mem[on[t]].running
         /\ \A u \in Turns : on[u] = on[t] /\ IsBusy(u) => u = t
<1>1. up /\ pc[t] # "idle" /\ t \in Busy(on[t])
  BY DEF StagesKept, Busy, UnderWay, Awaiting, Synchronous
<1>2. on[t] \in Sessions /\ Exists(on[t])
  BY <1>1, OnKnown
<1>3. mem[on[t]].running /\ \A u \in Busy(on[t]) : u = t
  BY <1>1, <1>2 DEF RunningIsTrue
<1> QED
  BY <1>1, <1>2, <1>3 DEF Busy, IsBusy

\* A turn that begins registers its controller, on a session that no other turn is on.
LEMMA BeginsController ==
  ASSUME TypeOK, SessionsKnown, StagesKept, RunningIsTrue, ControllerKept,
         NEW t \in Turns, NEW s \in Sessions, NEW r0, NEW stage \in Awaiting,
         BeginsShape(t, s, r0, stage), pc[t] \in {"idle", "resolving"}, Exists(s),
         on' = [on EXCEPT ![t] = s], controller' = [controller EXCEPT ![s] = t],
         UNCHANGED <<cancelled, aborted>>
  PROVE  ControllerKept'
<1>t. /\ pc \in [Turns -> Stages] /\ on \in [Turns -> Sessions \cup {None}]
      /\ controller \in [Sessions -> Turns \cup {None}]
  BY DEF TypeOK
<1>1. /\ pc' = [pc EXCEPT ![t] = stage] \/ pc' = [pc EXCEPT ![t] = "done"]
      /\ ~raced' => ~raced /\ ~mem[s].running
  BY DEF BeginsShape
<1>2. t \notin cancelled
  BY DEF ControllerKept
<1>3. \A u \in Turns \ {t} : pc'[u] = pc[u] /\ on'[u] = on[u]
  BY <1>t, <1>1
<1>4. on'[t] = s /\ \A x \in Sessions : controller'[x] = IF x = s THEN t ELSE controller[x]
  BY <1>t
<1>5. ASSUME ~raced', NEW u \in Turns, pc'[u] \in UnderWay, u # t
      PROVE  controller'[on'[u]] = u
  <2>1. ~raced /\ pc[u] \in UnderWay /\ on'[u] = on[u]
    BY <1>1, <1>3, <1>5
  <2>2. on[u] \in Sessions /\ mem[on[u]].running
    BY <2>1, OneTurn
  <2>3. on[u] # s
    BY <1>1, <1>5, <2>2
  <2> QED
    BY <1>4, <2>1, <2>2, <2>3 DEF ControllerKept
<1>6. ASSUME NEW u \in cancelled'
      PROVE  /\ pc'[u] \notin {"idle", "resolving"}
             /\ pc'[u] \in Awaiting /\ ~raced' => u \in aborted'
  <2>1. u \in cancelled /\ u # t /\ u \in Turns
    BY <1>2, <1>6 DEF TypeOK
  <2>2. pc'[u] = pc[u]
    BY <1>3, <2>1
  <2> QED
    BY <1>1, <2>1, <2>2 DEF ControllerKept
<1> QED
  BY <1>4, <1>5, <1>6 DEF ControllerKept

\* Every step keeps ControllerKept.
LEMMA ControllerStep ==
  ASSUME TypeOK, SessionsKnown, StagesKept, RunningIsTrue, ControllerKept, [Next]_vars
  PROVE  ControllerKept'
<1>t. /\ pc \in [Turns -> Stages] /\ on \in [Turns -> Sessions \cup {None}]
      /\ controller \in [Sessions -> Turns \cup {None}] /\ cancelled \subseteq Turns
      /\ None \notin Turns
  BY NoneAssumption DEF TypeOK, NoneAssumption
<1>u. /\ UnderWay = {"asking", "planning", "catching", "ending"}
      /\ Awaiting = {"asking", "planning"}
  BY DEF UnderWay, Awaiting, Synchronous
\* nothing changes but the stages of turns under way
<1>1. ASSUME UNCHANGED <<controller, on, cancelled, aborted, raced>>,
             \A t \in Turns : /\ pc'[t] \in UnderWay => pc[t] \in UnderWay
                              /\ pc'[t] \in Awaiting => pc[t] \in Awaiting
                              /\ pc'[t] \in {"idle", "resolving"} => pc[t] \in {"idle", "resolving"}
      PROVE  ControllerKept'
  BY <1>t, <1>1 DEF ControllerKept
<1>2. CASE UNCHANGED <<controller, on, cancelled, aborted, raced, pc>>
  BY <1>1, <1>2
<1>3. CASE Start \/ UNCHANGED vars \/ \E s \in Sessions : Create(s) \/ Close(s) \/ Review(s)
  BY <1>2, <1>3 DEF Start, vars, Create, Close, Review, history
<1>4. CASE Crash
  <2>1. /\ UNCHANGED <<on, cancelled, aborted, raced>>
        /\ \A t \in Turns : pc'[t] = IF pc[t] \in UnderWay \cup {"resolving"} THEN "lost" ELSE pc[t]
    BY <1>4, <1>t DEF Crash, history
  <2>2. \A t \in Turns : /\ pc'[t] \notin UnderWay /\ pc'[t] \notin Awaiting
                         /\ pc'[t] \in {"idle", "resolving"} => pc[t] \in {"idle", "resolving"}
    BY <1>u, <2>1
  <2> QED
    BY <1>t, <2>1, <2>2 DEF ControllerKept
<1>5. ASSUME NEW s \in Sessions, Cancel(s)
      PROVE  ControllerKept'
  <2>1. /\ UNCHANGED <<controller, on, pc, raced>>
        /\ aborted' = aborted \cup {controller[s]}
        /\ cancelled' = cancelled \cup {t \in Turns : on[t] = s /\ pc[t] \in Awaiting}
    BY <1>5 DEF Cancel
  <2>2. ASSUME NEW t \in cancelled'
        PROVE  /\ pc'[t] \notin {"idle", "resolving"}
               /\ pc'[t] \in Awaiting /\ ~raced' => t \in aborted'
    <3>1. CASE t \in cancelled
      BY <2>1, <3>1 DEF ControllerKept
    <3>2. CASE t \in Turns /\ on[t] = s /\ pc[t] \in Awaiting
      BY <1>u, <2>1, <3>2 DEF ControllerKept
    <3> QED
      BY <2>1, <2>2, <3>1, <3>2
  <2> QED
    BY <2>1, <2>2 DEF ControllerKept
<1>6. CASE CancelAll
  <2>1. /\ UNCHANGED <<controller, on, pc, raced>>
        /\ aborted' = (aborted \cup {controller[s] : s \in Sessions}) \ {None}
        /\ cancelled' = cancelled \cup {t \in Turns : pc[t] \in Awaiting}
    BY <1>6 DEF CancelAll
  <2>2. ASSUME NEW t \in cancelled'
        PROVE  /\ pc'[t] \notin {"idle", "resolving"}
               /\ pc'[t] \in Awaiting /\ ~raced' => t \in aborted'
    <3>0. t \in Turns
      BY <1>t, <2>1, <2>2
    <3>1. CASE t \in cancelled
      BY <1>t, <2>1, <3>0, <3>1 DEF ControllerKept
    <3>2. CASE pc[t] \in Awaiting
      <4>1. pc'[t] \notin {"idle", "resolving"} /\ pc[t] \in UnderWay
        BY <1>u, <2>1, <3>2
      <4>2. ~raced => on[t] \in Sessions /\ controller[on[t]] = t
        BY <3>0, <4>1, OneTurn DEF ControllerKept
      <4> QED
        BY <1>t, <2>1, <3>0, <4>1, <4>2
    <3> QED
      BY <2>1, <2>2, <3>1, <3>2
  <2> QED
    BY <2>1, <2>2 DEF ControllerKept
<1>7. ASSUME NEW s \in Sessions, NEW t \in Turns, Send(t, s) \/ SendResolving(t, s) \/ Plan(t, s)
      PROVE  ControllerKept'
  <2>0. up /\ pc[t] = "idle" /\ Exists(s)
    BY <1>7 DEF Send, SendResolving, Plan, MaySend, Free
  <2>1. CASE Send(t, s)
    BY <1>u, <2>0, <2>1, AsksShape, BeginsController DEF Send
  <2>2. CASE SendResolving(t, s)
    <3>1. /\ UNCHANGED <<controller, cancelled, aborted, raced>>
          /\ pc' = [pc EXCEPT ![t] = "resolving"] /\ on' = [on EXCEPT ![t] = s]
      BY <2>2 DEF SendResolving, Goto, history
    <3>2. /\ pc'[t] = "resolving" /\ t \notin cancelled
          /\ \A u \in Turns \ {t} : pc'[u] = pc[u] /\ on'[u] = on[u]
      BY <1>t, <2>0, <3>1 DEF ControllerKept
    <3> QED
      BY <1>t, <1>u, <3>1, <3>2 DEF ControllerKept
  <2>3. CASE Plan(t, s)
    BY <1>u, <2>0, <2>3, PlanShape, BeginsController
  <2> QED
    BY <1>7, <2>1, <2>2, <2>3
<1>8. ASSUME NEW t \in Turns, Continue(t) \/ RunnerSettles(t)
      PROVE  ControllerKept'
  <2>0. up /\ pc[t] # "idle" /\ on[t] \in Sessions /\ Exists(on[t])
    BY <1>8, GoesOn
  <2>1. ASSUME UNCHANGED <<controller, on, cancelled, aborted, raced>>, pc[t] \in UnderWay,
               NEW x \in {"ending", "catching"}, pc' = [pc EXCEPT ![t] = x]
        PROVE  ControllerKept'
    <3>1. pc'[t] = x /\ \A u \in Turns \ {t} : pc'[u] = pc[u]
      BY <1>t, <2>1
    <3> QED
      BY <1>1, <1>u, <2>1, <3>1
  <2>2. CASE Resolved(t)
    <3>0. pc[t] = "resolving"
      BY <2>2 DEF Resolved
    <3>1. CASE Asks(t, on[t])
      BY <1>u, <2>0, <3>0, <3>1, AsksShape, BeginsController
    <3>2. CASE /\ pc' = [pc EXCEPT ![t] = "done"]
               /\ UNCHANGED <<controller, on, cancelled, aborted, raced>>
      <4>1. pc'[t] = "done" /\ \A u \in Turns \ {t} : pc'[u] = pc[u]
        BY <1>t, <3>2
      <4> QED
        BY <1>1, <1>u, <3>2, <4>1
    <3> QED
      BY <2>2, <3>1, <3>2 DEF Resolved, Goto, history
  <2>3. CASE Answer(t)
    BY <1>u, <2>1, <2>3, AnswerShape
  <2>4. CASE ModelFails(t) \/ PlanFails(t)
    <3>1. /\ UNCHANGED <<controller, on, cancelled, aborted, raced>> /\ pc[t] \in UnderWay
          /\ \E x \in {"ending", "catching"} : pc' = [pc EXCEPT ![t] = x]
      BY <1>u, <2>4 DEF ModelFails, PlanFails, Goto, history
    <3> QED
      BY <2>1, <3>1
  <2>5. CASE Catch(t)
    BY <1>u, <2>1, <2>5, CatchShape
  <2>6. CASE PlanAnswer(t)
    BY <1>u, <2>1, <2>6, PlanAnswerShape
  <2>7. CASE End(t)
    <3>1. /\ pc[t] = "ending" /\ pc' = [pc EXCEPT ![t] = "done"]
          /\ controller' = [controller EXCEPT ![on[t]] = None]
          /\ UNCHANGED <<on, aborted, cancelled, raced>>
      BY <2>7, EndShape
    <3>2. pc'[t] = "done" /\ \A u \in Turns \ {t} : pc'[u] = pc[u]
      BY <1>t, <3>1
    <3>3. \A x \in Sessions \ {on[t]} : controller'[x] = controller[x]
      BY <1>t, <3>1
    <3>4. ASSUME ~raced, NEW u \in Turns, pc'[u] \in UnderWay
          PROVE  controller'[on[u]] = u
      <4>1. u # t /\ pc[u] \in UnderWay
        BY <1>u, <3>2, <3>4
      <4>2. on[u] \in Sessions /\ on[u] # on[t]
        BY <1>u, <3>1, <3>4, <4>1, OneTurn DEF IsBusy
      <4> QED
        BY <3>3, <3>4, <4>1, <4>2 DEF ControllerKept
    <3>5. ASSUME NEW u \in cancelled
          PROVE  /\ pc'[u] \notin {"idle", "resolving"}
                 /\ pc'[u] \in Awaiting /\ ~raced => u \in aborted
      BY <1>t, <1>u, <3>2, <3>5 DEF ControllerKept
    <3> QED
      BY <3>1, <3>4, <3>5 DEF ControllerKept
  <2>8. CASE RunnerSettles(t)
    BY <1>2, <2>8, SettlesShape
  <2> QED
    BY <1>8, <2>2, <2>3, <2>4, <2>5, <2>6, <2>7, <2>8 DEF Continue
<1> QED
  BY <1>3, <1>4, <1>5, <1>6, <1>7, <1>8 DEF Next

\* An aborted turn that asks through an agent loop or a review is not answered.
LEMMA SilentStep ==
  ASSUME TypeOK, SessionsKnown, StagesKept, RunningIsTrue, ControllerKept, [Next]_vars,
         NEW t \in cancelled \cap (Resolves \cup Reviews), ~raced, pc[t] \in Awaiting
  PROVE  answer'[t] # "answered"
<1>t. /\ answer \in [Turns -> {"answered", "failed", None}] /\ t \in Turns /\ t \in aborted
      /\ Reviews \cap Resolves = {}
  BY ConstantsAssumption DEF TypeOK, ControllerKept, ConstantsAssumption
<1>u. pc[t] \in {"asking", "planning"}
  BY DEF Awaiting
<1>1. /\ answer[t] # "answered"
      /\ t \in Resolves => pc[t] = "asking"
      /\ t \in Reviews => pc[t] = "planning"
  BY NoneAssumption, <1>t, <1>u DEF StagesKept, NoneAssumption, Awaiting
<1>2. CASE UNCHANGED answer
  BY <1>1, <1>2
\* a step of another turn
<1>3. ASSUME NEW u \in Turns, u # t, NEW a, answer' = [answer EXCEPT ![u] = a]
      PROVE  answer'[t] # "answered"
  BY <1>t, <1>1, <1>3
<1>4. ASSUME NEW s \in Sessions, NEW u \in Turns, NEW r, NEW stage,
             BeginsShape(u, s, r, stage), u # t
      PROVE  answer'[t] # "answered"
  <2>1. UNCHANGED answer \/ answer' = [answer EXCEPT ![u] = "failed"]
    BY <1>4 DEF BeginsShape
  <2> QED
    BY <1>2, <1>3, <1>4, <2>1
<1>5. CASE UNCHANGED vars \/ Crash \/ Start \/ CancelAll
  BY <1>2, <1>5 DEF vars, Crash, Start, CancelAll
<1>6. CASE \E s \in Sessions : Create(s) \/ Close(s) \/ Review(s) \/ Cancel(s)
  BY <1>2, <1>6 DEF Create, Close, Review, Cancel
<1>7. ASSUME NEW s \in Sessions, NEW u \in Turns, Send(u, s) \/ SendResolving(u, s) \/ Plan(u, s)
      PROVE  answer'[t] # "answered"
  <2>u. up /\ pc[u] = "idle" /\ Exists(s)
    BY <1>7 DEF Send, SendResolving, Plan, MaySend, Free
  <2>0. up /\ Exists(s) /\ u # t
    BY <1>u, <2>u
  <2>1. CASE Send(u, s)
    <3>1. BeginsShape(u, s, [mem[s] EXCEPT !.messages = Append(@, Question(u))], "asking")
      BY <2>0, <2>1, AsksShape DEF Send
    <3> QED
      BY <1>4, <2>0, <3>1
  <2>2. CASE SendResolving(u, s)
    BY <1>2, <2>2 DEF SendResolving
  <2>3. CASE Plan(u, s)
    BY <1>4, <2>0, <2>3, PlanShape
  <2> QED
    BY <1>7, <2>1, <2>2, <2>3
<1>8. ASSUME NEW u \in Turns, Continue(u) \/ RunnerSettles(u)
      PROVE  answer'[t] # "answered"
  <2>0. up /\ pc[u] # "idle" /\ on[u] \in Sessions /\ Exists(on[u])
    BY <1>8, GoesOn
  <2>1. CASE Resolved(u)
    <3>u. pc[u] = "resolving"
      BY <2>1 DEF Resolved
    <3>0. u # t
      BY <1>u, <3>u
    <3>1. CASE Asks(u, on[u])
      <4>1. BeginsShape(u, on[u], [mem[on[u]] EXCEPT !.messages = Append(@, Question(u))], "asking")
        BY <2>0, <3>1, AsksShape
      <4> QED
        BY <1>4, <2>0, <3>0, <4>1
    <3>2. CASE answer' = [answer EXCEPT ![u] = "failed"]
      BY <1>3, <3>0, <3>2
    <3> QED
      BY <2>1, <3>1, <3>2 DEF Resolved, Answered
  <2>2. CASE Answer(u)
    <3>1. u # t
      BY <1>t, <1>1, <2>2, AnswerShape
    <3>2. UNCHANGED answer \/ answer' = [answer EXCEPT ![u] = "answered"]
      BY <2>2, AnswerShape
    <3> QED
      BY <1>2, <1>3, <3>1, <3>2
  <2>3. CASE ModelFails(u) \/ RunnerSettles(u)
    BY <1>2, <2>3 DEF ModelFails, RunnerSettles
  <2>4. CASE Catch(u)
    <3>1. u # t /\ answer' = [answer EXCEPT ![u] = "failed"]
      BY <1>u, <2>4, CatchShape
    <3> QED
      BY <1>3, <3>1
  <2>5. CASE PlanAnswer(u)
    <3>1. u # t
      BY <1>t, <2>5, PlanAnswerShape
    <3>2. \E a : answer' = [answer EXCEPT ![u] = a]
      BY <2>5, PlanAnswerShape
    <3> QED
      BY <1>3, <3>1, <3>2
  <2>6. CASE PlanFails(u)
    <3>1. answer' = [answer EXCEPT ![u] = "failed"]
      BY <2>6 DEF PlanFails, Answered
    <3>2. CASE u = t
      BY <1>t, <3>1, <3>2
    <3> QED
      BY <1>3, <3>1, <3>2
  <2>7. CASE End(u)
    <3>1. u # t /\ \/ UNCHANGED answer
                   \/ answer' = [answer EXCEPT ![u] = "failed"]
      BY <1>u, <2>7, EndShape
    <3> QED
      BY <1>2, <1>3, <3>1
  <2> QED
    BY <1>8, <2>1, <2>2, <2>3, <2>4, <2>5, <2>6, <2>7 DEF Continue
<1> QED
  BY <1>5, <1>6, <1>7, <1>8 DEF Next

-----------------------------------------------------------------------------
\* The texts of a session.

\* The session b is a with what turns other than t have added or taken back.
Others(a, b, t) ==
  /\ a.plans \subseteq b.plans
  /\ \/ b.messages = a.messages
     \/ \E m \in Messages : m.turn # t /\ b.messages = Append(a.messages, m)
     \/ /\ a.messages # <<>> /\ Last(a.messages).turn # t
        /\ b.messages = Front(a.messages)

\* No change of the texts is one by others.
LEMMA SameIsOthers ==
  ASSUME NEW a, NEW b, NEW t, SameTexts(b, a)
  PROVE  Others(a, b, t)
  BY DEF SameTexts, Others

\* The messages of a turn are its own.
LEMMA MessageOf ==
  ASSUME NEW t \in Turns
  PROVE  /\ Question(t) \in Messages /\ Question(t).turn = t
         /\ Reply(t) \in Messages /\ Reply(t).turn = t
         /\ Question(t) # Reply(t)
<1>1. /\ Question(t) \in Messages /\ Question(t).turn = t /\ Question(t).role = "user"
      /\ Reply(t) \in Messages /\ Reply(t).turn = t /\ Reply(t).role = "assistant"
  BY DEF Question, Reply, Messages
<1> QED
  BY <1>1

\* What one turn has said stays as long as only others go on.
LEMMA OthersKeep ==
  ASSUME NEW a \in SessionRecords, NEW b \in SessionRecords, NEW t \in Turns, Others(a, b, t)
  PROVE  /\ HasResult(a, t) => HasResult(b, t)
         /\ NotAsked(a, t) => NotAsked(b, t)
         /\ Silent(a.messages, t) => Silent(b.messages, t)
<1> DEFINE ms == a.messages
<1>1. ms \in Seq(Messages) /\ Len(ms) \in Nat /\ \A i \in 1..Len(ms) : ms[i] \in Messages
  BY LenProperties, ElementOfSeq DEF SessionRecords
<1>2. Question(t).turn = t /\ Reply(t).turn = t
  BY MessageOf
<1>3. a.plans \subseteq b.plans
  BY DEF Others
<1>4. CASE b.messages = ms
  BY <1>3, <1>4 DEF HasResult, NotAsked
<1>5. ASSUME NEW m \in Messages, m.turn # t, b.messages = Append(ms, m)
      PROVE  /\ HasResult(a, t) => HasResult(b, t)
             /\ NotAsked(a, t) => NotAsked(b, t)
             /\ Silent(ms, t) => Silent(b.messages, t)
  <2> DEFINE ns == b.messages
  <2>1. /\ Len(ns) = Len(ms) + 1 /\ ns[Len(ns)] = m
        /\ \A i \in 1..Len(ms) : ns[i] = ms[i]
    BY <1>1, <1>5, AppendProperties
  <2> HIDE DEF ns, ms
  <2>2. \A i \in 1..Len(ns) : i \in 1..Len(ms) \/ i = Len(ns)
    BY <1>1, <2>1
  <2>3. NotAsked(a, t) => NotAsked(b, t)
    BY <1>2, <1>5, <2>1, <2>2 DEF NotAsked, ns, ms
  <2>4. Silent(ms, t) => Silent(ns, t)
    BY <1>5, <2>1, <2>2 DEF Silent
  <2>5. ASSUME t \notin Reviews, HasResult(a, t)
        PROVE  HasResult(b, t)
    <3>1. PICK i \in 2..Len(ms) : ms[i] = Reply(t) /\ ms[i - 1] = Question(t)
      BY <2>5 DEF HasResult, ms
    <3>2. /\ i \in 1..Len(ms) /\ i - 1 \in 1..Len(ms) /\ i \in 2..Len(ns)
      BY <1>1, <2>1, <3>1
    <3>3. ns[i] = Reply(t) /\ ns[i - 1] = Question(t)
      BY <2>1, <3>1, <3>2
    <3> QED
      BY <2>5, <3>2, <3>3 DEF HasResult, ns
  <2>6. t \in Reviews /\ HasResult(a, t) => HasResult(b, t)
    BY <1>3 DEF HasResult
  <2> QED
    BY <2>3, <2>4, <2>5, <2>6 DEF ns
<1>6. ASSUME ms # <<>>, Last(ms).turn # t, b.messages = Front(ms)
      PROVE  /\ HasResult(a, t) => HasResult(b, t)
             /\ NotAsked(a, t) => NotAsked(b, t)
             /\ Silent(ms, t) => Silent(b.messages, t)
  <2> DEFINE ns == b.messages
  <2>1. /\ Len(ns) = Len(ms) - 1 /\ ms[Len(ms)].turn # t /\ Len(ms) \in 1..Len(ms)
        /\ \A i \in 1..Len(ns) : ns[i] = ms[i]
    BY <1>1, <1>6, FrontProperties, LastProperties
  <2> HIDE DEF ns, ms
  <2>2. \A i \in 1..Len(ns) : i \in 1..Len(ms)
    BY <1>1, <2>1
  <2>3. NotAsked(a, t) => NotAsked(b, t)
    BY <2>1, <2>2 DEF NotAsked, ns, ms
  <2>4. Silent(ms, t) => Silent(ns, t)
    BY <2>1, <2>2 DEF Silent
  <2>5. ASSUME t \notin Reviews, HasResult(a, t)
        PROVE  HasResult(b, t)
    <3>1. PICK i \in 2..Len(ms) : ms[i] = Reply(t) /\ ms[i - 1] = Question(t)
      BY <2>5 DEF HasResult, ms
    <3>2. i # Len(ms)
      BY <1>2, <2>1, <3>1
    <3>3. i \in 2..Len(ns) /\ i \in 1..Len(ns) /\ i - 1 \in 1..Len(ns)
      BY <1>1, <2>1, <3>1, <3>2
    <3>4. ns[i] = Reply(t) /\ ns[i - 1] = Question(t)
      BY <2>1, <3>1, <3>3
    <3> QED
      BY <2>5, <3>3, <3>4 DEF HasResult, ns
  <2>6. t \in Reviews /\ HasResult(a, t) => HasResult(b, t)
    BY <1>3 DEF HasResult
  <2> QED
    BY <2>3, <2>4, <2>5, <2>6 DEF ns
<1> QED
  BY <1>4, <1>5, <1>6 DEF Others

\* A session without a message of a turn has not been asked by it.
LEMMA SilentIsNotAsked ==
  ASSUME NEW r, NEW t \in Turns, Silent(r.messages, t)
  PROVE  NotAsked(r, t)
  BY MessageOf DEF Silent, NotAsked

\* A question makes its turn's first message, the answer after it its result, and
\* without it the turn has none.
LEMMA Asking ==
  ASSUME NEW ms \in Seq(Messages), NEW t \in Turns, Silent(ms, t)
  PROVE  EndsWithQuestion(Append(ms, Question(t)), t)
<1> DEFINE ns == Append(ms, Question(t))
<1>1. /\ ns \in Seq(Messages) /\ ns # <<>> /\ Len(ns) = Len(ms) + 1 /\ ns[Len(ms) + 1] = Question(t)
      /\ \A i \in 1..Len(ms) : ns[i] = ms[i]
      /\ Len(ms) \in Nat
  BY MessageOf, AppendProperties, LenProperties
<1> HIDE DEF ns
<1>2. Last(ns) = Question(t)
  BY <1>1, LastProperties
<1>3. /\ Len(Front(ns)) = Len(ms) /\ \A i \in 1..Len(Front(ns)) : Front(ns)[i] = ns[i]
  <2>1. /\ Len(Front(ns)) = Len(ns) - 1
        /\ \A i \in 1..Len(Front(ns)) : Front(ns)[i] = ns[i]
    BY <1>1, FrontProperties
  <2> QED
    BY <1>1, <2>1
<1>4. Silent(Front(ns), t)
  BY <1>1, <1>3 DEF Silent
<1> QED
  BY <1>1, <1>2, <1>4 DEF EndsWithQuestion, ns

\* A reply right after its question is a result.
LEMMA Answering ==
  ASSUME NEW r \in SessionRecords, NEW ms \in Seq(Messages), NEW t \in Turns \ Reviews,
         EndsWithQuestion(ms, t), r.messages = Append(ms, Reply(t))
  PROVE  HasResult(r, t)
<1>1. Len(ms) \in Nat /\ ms[Len(ms)] = Question(t) /\ Len(ms) \in 1..Len(ms)
  BY LastProperties DEF EndsWithQuestion
<1> DEFINE ns == r.messages
<1>2. /\ Len(ns) = Len(ms) + 1 /\ ns[Len(ms) + 1] = Reply(t)
      /\ \A i \in 1..Len(ms) : ns[i] = ms[i]
  BY MessageOf, AppendProperties
<1> HIDE DEF ns
<1>3. Len(ms) + 1 \in 2..Len(ns) /\ Len(ms) + 1 - 1 = Len(ms)
  BY <1>1, <1>2
<1>4. ns[Len(ms)] = Question(t)
  BY <1>1, <1>2
<1>5. PICK i \in 2..Len(ns) : i = Len(ms) + 1 /\ i - 1 = Len(ms)
  BY <1>1, <1>3
<1>6. ns[i] = Reply(t) /\ ns[i - 1] = Question(t)
  BY <1>2, <1>4, <1>5
<1> QED
  BY <1>6 DEF HasResult, ns

\* The message appended is the last one.
LEMMA LastAppended ==
  ASSUME NEW ms \in Seq(Messages), NEW m \in Messages
  PROVE  Append(ms, m) # <<>> /\ Last(Append(ms, m)) = m /\ Append(ms, m) \in Seq(Messages)
  BY AppendProperties, LenProperties DEF Last

-----------------------------------------------------------------------------
\* A step of which turn t is not part: what others do to its session.
OthersShape(t) ==
  /\ pc'[t] = pc[t] /\ on'[t] = on[t] /\ answer'[t] = answer[t]
  /\ up' = up /\ faults' >= faults
  /\ \A x \in Sessions : /\ mem[x] # None => mem'[x] # None /\ Others(mem[x], mem'[x], t)
                         /\ mem'[x] # None => mem[x] # None
  /\ \/ disk' = disk
     \/ up /\ \A x \in Sessions : disk'[x] # None => mem[x] # None /\ Others(mem[x], disk'[x], t)
  /\ pc[t] \in UnderWay => mem'[on[t]].messages = mem[on[t]].messages

\* The write of a session that is, for turn t, a change by others.
LEMMA OthersAfterWrite ==
  ASSUME TypeOK, SessionsKnown, StagesKept, NEW t \in Turns,
         NEW s, NEW q, NEW r, Wrote(s, q, r), Others(mem[s], q, t), Others(mem[s], r, t),
         pc'[t] = pc[t], on'[t] = on[t], answer'[t] = answer[t],
         pc[t] \in UnderWay /\ on[t] = s => q.messages = mem[s].messages
  PROVE  OthersShape(t)
<1>1. /\ s \in Sessions /\ mem[s] # None /\ q # None /\ r # None /\ up /\ up' /\ faults' >= faults
  BY NoneAssumption DEF Wrote, NoneAssumption
<1>2. /\ \A x \in Sessions : mem'[x] = IF x = s THEN q ELSE mem[x]
      /\ disk' = disk \/ \A x \in Sessions : disk'[x] = IF x = s THEN r ELSE mem[x]
  BY DEF Wrote, TypeOK
<1>3. \A x : Others(mem[x], mem[x], t)
  BY DEF Others
<1>4. up' = up
  BY <1>1 DEF TypeOK
<1>5. pc[t] \in UnderWay => mem'[on[t]].messages = mem[on[t]].messages
  <2>1. pc[t] \in UnderWay => on[t] \in Sessions
    BY DEF SessionsKnown, UnderWay, Awaiting, Synchronous
  <2> QED
    BY <1>2, <2>1
<1>6. \A x \in Sessions : /\ mem[x] # None => mem'[x] # None /\ Others(mem[x], mem'[x], t)
                          /\ mem'[x] # None => mem[x] # None
  BY <1>1, <1>2, <1>3
<1>7. \/ disk' = disk
      \/ \A x \in Sessions : disk'[x] # None => mem[x] # None /\ Others(mem[x], disk'[x], t)
  BY <1>1, <1>2, <1>3
<1> QED
  BY <1>1, <1>4, <1>5, <1>6, <1>7 DEF OthersShape

\* A step that writes nothing is one by others.
LEMMA CalmIsOthers ==
  ASSUME TypeOK, SessionsKnown, StagesKept, NEW t \in Turns, UNCHANGED <<mem, disk, up, faults>>,
         pc'[t] = pc[t], on'[t] = on[t], answer'[t] = answer[t]
  PROVE  OthersShape(t)
<1>1. \A x : Others(mem[x], mem[x], t)
  BY DEF Others
<1>2. faults' >= faults
  BY DEF TypeOK
<1> QED
  BY <1>1, <1>2 DEF OthersShape

\* Another turn begins: its session is not that of a turn under way.
LEMMA BeginsIsOthers ==
  ASSUME TypeOK, SessionsKnown, StagesKept, RunningIsTrue, ~raced',
         NEW t \in Turns, NEW u \in Turns, u # t, NEW s \in Sessions, NEW r0, NEW stage,
         BeginsShape(u, s, r0, stage), on' = [on EXCEPT ![u] = s], Others(mem[s], r0, t)
  PROVE  OthersShape(t)
<1>t. /\ pc \in [Turns -> Stages] /\ on \in [Turns -> Sessions \cup {None}]
      /\ answer \in [Turns -> {"answered", "failed", None}]
  BY DEF TypeOK
<1>1. PICK q, r \in SessionRecords :
        /\ Wrote(s, q, r) /\ SameTexts(r, r0)
        /\ \/ q = r /\ pc' = [pc EXCEPT ![u] = stage] /\ UNCHANGED answer
           \/ /\ SameTexts(q, mem[s])
              /\ pc' = [pc EXCEPT ![u] = "done"] /\ answer' = [answer EXCEPT ![u] = "failed"]
  BY DEF BeginsShape
<1>2. ~raced /\ ~mem[s].running
  BY DEF BeginsShape
<1>3. Others(mem[s], r, t) /\ Others(mem[s], q, t)
  <2>1. Others(mem[s], r, t)
    BY <1>1 DEF Others, SameTexts
  <2> QED
    BY <1>1, <2>1, SameIsOthers
<1>4. pc'[t] = pc[t] /\ on'[t] = on[t] /\ answer'[t] = answer[t]
  BY <1>t, <1>1
<1>5. ~(pc[t] \in UnderWay /\ on[t] = s)
  BY <1>2, OneTurn
<1> QED
  BY <1>1, <1>3, <1>4, <1>5, OthersAfterWrite

\* The steps of another turn, and those of no turn, but for the process and a new session.
LEMMA OthersStep ==
  ASSUME TypeOK, SessionsKnown, StagesKept, RunningIsTrue, QuestionLast,
         ~raced, ~raced', NEW t \in Turns,
         \/ UNCHANGED vars \/ CancelAll
         \/ \E s \in Sessions : Close(s) \/ Review(s) \/ Cancel(s)
         \/ \E s \in Sessions, u \in Turns \ {t} : Send(u, s) \/ SendResolving(u, s) \/ Plan(u, s)
         \/ \E u \in Turns \ {t} : Continue(u)
         \/ \E u \in Turns : RunnerSettles(u)
  PROVE  OthersShape(t)
<1>t. /\ pc \in [Turns -> Stages] /\ on \in [Turns -> Sessions \cup {None}]
      /\ answer \in [Turns -> {"answered", "failed", None}]
      /\ mem \in [Sessions -> SessionRecords \cup {None}]
  BY DEF TypeOK
<1>u. UnderWay = {"asking", "planning", "catching", "ending"}
  BY DEF UnderWay, Awaiting, Synchronous
<1>1. CASE UNCHANGED vars \/ CancelAll \/ \E s \in Sessions : Cancel(s)
  <2>1. UNCHANGED <<mem, disk, up, faults, pc, on, answer>>
    BY <1>1 DEF vars, CancelAll, Cancel, snapshot
  <2> QED
    BY <2>1, CalmIsOthers
<1>2. ASSUME NEW s \in Sessions, Close(s) \/ Review(s)
      PROVE  OthersShape(t)
  <2>1. PICK q, r \in SessionRecords :
          Wrote(s, q, r) /\ SameTexts(q, mem[s]) /\ SameTexts(r, mem[s])
    BY <1>2, StatusShape
  <2>2. Others(mem[s], q, t) /\ Others(mem[s], r, t) /\ q.messages = mem[s].messages
    BY <2>1, SameIsOthers DEF SameTexts
  <2>3. UNCHANGED <<pc, on, answer>>
    BY <1>2, StatusShape
  <2> QED
    BY <2>1, <2>2, <2>3, OthersAfterWrite
<1>3. ASSUME NEW s \in Sessions, NEW u \in Turns, u # t, Exists(s), up, Asks(u, s)
      PROVE  OthersShape(t)
  <2> DEFINE r0 == [mem[s] EXCEPT !.messages = Append(@, Question(u))]
  <2>1. BeginsShape(u, s, r0, "asking") /\ on' = [on EXCEPT ![u] = s]
    BY <1>3, AsksShape
  <2>2. Others(mem[s], r0, t)
    <3>1. mem[s] \in SessionRecords
      BY <1>3, Recorded
    <3>2. r0.plans = mem[s].plans /\ r0.messages = Append(mem[s].messages, Question(u))
      BY <3>1 DEF SessionRecords
    <3> QED
      BY <1>3, <3>2, MessageOf DEF Others
  <2> HIDE DEF r0
  <2> QED
    BY <1>3, <2>1, <2>2, BeginsIsOthers
<1>4. ASSUME NEW s \in Sessions, NEW u \in Turns, u # t,
             Send(u, s) \/ SendResolving(u, s) \/ Plan(u, s)
      PROVE  OthersShape(t)
  <2>1. CASE Send(u, s)
    BY <1>3, <1>4, <2>1 DEF Send, MaySend, Free
  <2>2. CASE SendResolving(u, s)
    <3>1. /\ UNCHANGED <<mem, disk, up, faults, answer>> /\ pc' = [pc EXCEPT ![u] = "resolving"]
          /\ on' = [on EXCEPT ![u] = s]
      BY <2>2 DEF SendResolving, Goto, snapshot
    <3>2. pc'[t] = pc[t] /\ on'[t] = on[t] /\ answer'[t] = answer[t]
      BY <1>t, <1>4, <3>1
    <3> QED
      BY <3>1, <3>2, CalmIsOthers
  <2>3. CASE Plan(u, s)
    <3>1. BeginsShape(u, s, mem[s], "planning") /\ on' = [on EXCEPT ![u] = s]
      BY <2>3, PlanShape
    <3>2. Others(mem[s], mem[s], t)
      BY DEF Others
    <3> QED
      BY <1>4, <3>1, <3>2, BeginsIsOthers
  <2> QED
    BY <1>4, <2>1, <2>2, <2>3
<1>5. ASSUME NEW u \in Turns, u # t, Continue(u)
      PROVE  OthersShape(t)
  <2>0. up /\ pc[u] # "idle" /\ on[u] \in Sessions /\ Exists(on[u]) /\ mem[on[u]] \in SessionRecords
        /\ On(u) = mem[on[u]] /\ On(u).messages \in Seq(Messages)
    BY <1>5, GoesOn DEF On, SessionRecords
  <2>1. ASSUME NEW x, pc' = [pc EXCEPT ![u] = x]
        PROVE  pc'[t] = pc[t]
    BY <1>t, <1>5, <2>1
  <2>2. ASSUME NEW x, answer' = [answer EXCEPT ![u] = x]
        PROVE  answer'[t] = answer[t]
    BY <1>t, <1>5, <2>2
  <2>3. pc[u] \in UnderWay => ~(pc[t] \in UnderWay /\ on[t] = on[u])
    BY <1>5, OneTurn DEF IsBusy
  <2>4. CASE Resolved(u)
    <3>1. CASE Asks(u, on[u])
      BY <1>3, <1>5, <2>0, <3>1
    <3>2. CASE /\ pc' = [pc EXCEPT ![u] = "done"] /\ answer' = [answer EXCEPT ![u] = "failed"]
               /\ UNCHANGED <<mem, disk, faults, up, on>>
      BY <2>1, <2>2, <3>2, CalmIsOthers
    <3> QED
      BY <2>4, <3>1, <3>2 DEF Resolved, Goto, Answered, snapshot
  <2>5. CASE Answer(u)
    <3>1. PICK q \in SessionRecords :
            /\ Wrote(on[u], q, q) /\ q.plans = mem[on[u]].plans
            /\ q.messages = Append(mem[on[u]].messages, Reply(u))
      BY <2>5, AnswerShape DEF On
    <3>2. Others(mem[on[u]], q, t)
      BY <1>5, <3>1, MessageOf DEF Others
    <3>3. pc'[t] = pc[t]
      BY <2>1, <2>5, AnswerShape
    <3>4. answer'[t] = answer[t]
      BY <2>2, <2>5, AnswerShape
    <3>5. UNCHANGED on /\ pc[u] \in UnderWay
      BY <1>u, <2>5, AnswerShape
    <3> QED
      BY <2>3, <3>1, <3>2, <3>3, <3>4, <3>5, OthersAfterWrite
  <2>6. CASE ModelFails(u)
    <3>1. UNCHANGED <<mem, disk, up, faults, on, answer>> /\ pc' = [pc EXCEPT ![u] = "catching"]
      BY <2>6 DEF ModelFails, Goto, snapshot
    <3>2. pc'[t] = pc[t]
      BY <2>1, <3>1
    <3> QED
      BY <3>1, <3>2, CalmIsOthers
  <2>7. CASE Catch(u)
    <3>1. PICK q \in SessionRecords :
            /\ Wrote(on[u], q, q) /\ q.plans = mem[on[u]].plans
            /\ q.messages = Front(mem[on[u]].messages)
      BY <2>7, CatchShape DEF On
    <3>2. /\ pc[u] = "catching" /\ pc' = [pc EXCEPT ![u] = "ending"]
          /\ answer' = [answer EXCEPT ![u] = "failed"] /\ UNCHANGED on
      BY <2>7, CatchShape
    <3>3. mem[on[u]].messages # <<>> /\ Last(mem[on[u]].messages).turn = u
      BY <2>0, <3>2, MessageOf DEF QuestionLast, EndsWithQuestion
    <3>4. Others(mem[on[u]], q, t)
      BY <1>5, <3>1, <3>3 DEF Others
    <3>5. pc'[t] = pc[t] /\ answer'[t] = answer[t]
      BY <2>1, <2>2, <3>2
    <3> QED
      BY <1>u, <2>3, <3>1, <3>2, <3>4, <3>5, OthersAfterWrite
  <2>8. CASE PlanAnswer(u)
    <3>1. PICK q \in SessionRecords :
            /\ Wrote(on[u], q, q) /\ q.plans = mem[on[u]].plans \cup {u}
            /\ q.messages = mem[on[u]].messages
      BY <2>8, PlanAnswerShape DEF On
    <3>2. Others(mem[on[u]], q, t)
      BY <3>1 DEF Others
    <3>3. pc'[t] = pc[t]
      BY <2>1, <2>8, PlanAnswerShape
    <3>4. answer'[t] = answer[t]
      BY <2>2, <2>8, PlanAnswerShape
    <3>5. UNCHANGED on
      BY <2>8, PlanAnswerShape
    <3> QED
      BY <3>1, <3>2, <3>3, <3>4, <3>5, OthersAfterWrite
  <2>9. CASE PlanFails(u)
    <3>1. /\ UNCHANGED <<mem, disk, up, faults, on>> /\ pc' = [pc EXCEPT ![u] = "ending"]
          /\ answer' = [answer EXCEPT ![u] = "failed"]
      BY <2>9 DEF PlanFails, Goto, Answered, snapshot
    <3>2. pc'[t] = pc[t] /\ answer'[t] = answer[t]
      BY <2>1, <2>2, <3>1
    <3> QED
      BY <3>1, <3>2, CalmIsOthers
  <2>10. CASE End(u)
    <3>1. PICK q \in SessionRecords : Wrote(on[u], q, q) /\ SameTexts(q, mem[on[u]])
      BY <2>10, EndShape DEF On
    <3>2. Others(mem[on[u]], q, t) /\ q.messages = mem[on[u]].messages
      BY <3>1, SameIsOthers DEF SameTexts
    <3>3. pc'[t] = pc[t]
      BY <2>1, <2>10, EndShape
    <3>4. answer'[t] = answer[t]
      BY <2>2, <2>10, EndShape
    <3>5. UNCHANGED on
      BY <2>10, EndShape
    <3> QED
      BY <3>1, <3>2, <3>3, <3>4, <3>5, OthersAfterWrite
  <2> QED
    BY <1>5, <2>4, <2>5, <2>6, <2>7, <2>8, <2>9, <2>10 DEF Continue
<1>6. ASSUME NEW u \in Turns, RunnerSettles(u)
      PROVE  OthersShape(t)
  <2>1. UNCHANGED <<up, pc, on, answer>> /\ On(u) = mem[on[u]]
    BY <1>6, SettlesShape DEF On
  <2>2. CASE UNCHANGED <<mem, snapshot>>
    BY <2>1, <2>2, CalmIsOthers DEF snapshot
  <2>3. CASE \E q \in SessionRecords : Wrote(on[u], q, q) /\ SameTexts(q, On(u))
    <3>1. PICK q \in SessionRecords : Wrote(on[u], q, q) /\ SameTexts(q, mem[on[u]])
      BY <2>1, <2>3
    <3>2. Others(mem[on[u]], q, t) /\ q.messages = mem[on[u]].messages
      BY <3>1, SameIsOthers DEF SameTexts
    <3> QED
      BY <2>1, <3>1, <3>2, OthersAfterWrite
  <2> QED
    BY <1>6, <2>2, <2>3, SettlesShape
<1> QED
  BY <1>1, <1>2, <1>4, <1>5, <1>6

-----------------------------------------------------------------------------
\* No session has a message of turn t.
SilentAll(t) ==
  \A s \in Sessions : /\ Exists(s) => Silent(mem[s].messages, t)
                      /\ disk[s] # None => Silent(disk[s].messages, t)

\* What the texts hold of a turn.
TextsOf(t) ==
  /\ pc[t] \in {"idle", "resolving"} \/ t \in Reviews => SilentAll(t)
  /\ pc[t] = "asking" => EndsWithQuestion(On(t).messages, t)
  /\ pc[t] = "catching" =>
       \/ EndsWithQuestion(On(t).messages, t)
       \/ faults > 0 /\ On(t).messages # <<>> /\ Last(On(t).messages) = Reply(t)
  /\ pc[t] \in {"ending", "done"} =>
       /\ answer[t] = "answered" => HasResult(disk[on[t]], t) /\ (up => HasResult(On(t), t))
       /\ answer[t] = "failed" /\ faults = 0 =>
            NotAsked(disk[on[t]], t) /\ (up => NotAsked(On(t), t))

\* The parts of the invariant about texts, turn by turn.
LEMMA TextsAre ==
  SilentUntilAsked /\ QuestionLast /\ ResultsKept <=> (~raced => \A t \in Turns : TextsOf(t))
  BY DEF SilentUntilAsked, QuestionLast, ResultsKept, TextsOf, SilentAll

\* A race is not forgotten.
LEMMA RacedStays ==
  ASSUME [Next]_vars, ~raced'
  PROVE  ~raced
<1>1. ASSUME NEW t, NEW s, NEW r, NEW stage, Begins(t, s, r, stage)
      PROVE  ~raced
  BY <1>1 DEF Begins
<1>2. CASE \E t, s : Asks(t, s) \/ Plan(t, s)
  BY <1>1, <1>2 DEF Asks, Plan
<1>3. CASE raced' = raced
  BY <1>3
<1>4. CASE Crash \/ Start \/ CancelAll \/ UNCHANGED vars
  BY <1>3, <1>4 DEF Crash, Start, CancelAll, vars, history
<1>5. CASE \E s \in Sessions : Create(s) \/ Close(s) \/ Review(s) \/ Cancel(s)
  BY <1>3, <1>5 DEF Create, Close, Review, Cancel, history
<1>6. CASE \E s \in Sessions, t \in Turns : Send(t, s) \/ SendResolving(t, s) \/ Plan(t, s)
  BY <1>2, <1>3, <1>6 DEF Send, SendResolving, history
<1>7. CASE \E t \in Turns : Continue(t) \/ RunnerSettles(t)
  <2>1. PICK t \in Turns : Continue(t) \/ RunnerSettles(t)
    BY <1>7
  <2>2. CASE Resolved(t)
    BY <1>2, <1>3, <2>2 DEF Resolved, history
  <2>3. CASE Answer(t) \/ ModelFails(t) \/ Catch(t) \/ PlanAnswer(t) \/ PlanFails(t) \/ End(t)
             \/ RunnerSettles(t)
    BY <1>3, <2>3 DEF Answer, ModelFails, Catch, PlanAnswer, PlanFails, End, RunnerSettles, history
  <2> QED
    BY <2>1, <2>2, <2>3 DEF Continue
<1> QED
  BY <1>4, <1>5, <1>6, <1>7 DEF Next

\* A step by others keeps what the texts hold of a turn.
LEMMA OthersTexts ==
  ASSUME TypeOK, TypeOK', SessionsKnown, SessionsKnown', NEW t \in Turns, OthersShape(t), TextsOf(t)
  PROVE  TextsOf(t)'
<1> DEFINE x == on[t]
<1>1. /\ pc'[t] = pc[t] /\ on'[t] = x /\ answer'[t] = answer[t] /\ up' = up
      /\ faults \in Nat /\ faults' \in Nat /\ faults' >= faults
  BY DEF OthersShape, TypeOK
<1>2. ASSUME NEW s \in Sessions, mem'[s] # None
      PROVE  /\ mem[s] # None /\ mem[s] \in SessionRecords /\ mem'[s] \in SessionRecords
             /\ Others(mem[s], mem'[s], t)
  BY <1>2 DEF OthersShape, TypeOK
<1>3. ASSUME NEW s \in Sessions, disk'[s] # None
      PROVE  \/ disk'[s] = disk[s]
             \/ /\ up /\ mem[s] # None /\ mem[s] \in SessionRecords /\ disk'[s] \in SessionRecords
                /\ Others(mem[s], disk'[s], t)
  BY <1>3 DEF OthersShape, TypeOK
<1>4. (pc[t] \in {"idle", "resolving"} \/ t \in Reviews =>
       \A s \in Sessions : /\ Exists(s) => Silent(mem[s].messages, t)
                           /\ disk[s] # None => Silent(disk[s].messages, t))'
  <2> SUFFICES ASSUME pc[t] \in {"idle", "resolving"} \/ t \in Reviews, NEW s \in Sessions
               PROVE  /\ mem'[s] # None => Silent(mem'[s].messages, t)
                      /\ disk'[s] # None => Silent(disk'[s].messages, t)
    BY <1>1 DEF Exists
  <2>1. mem'[s] # None => Silent(mem'[s].messages, t)
    BY <1>2, OthersKeep DEF TextsOf, SilentAll, Exists
  <2>2. disk'[s] # None => Silent(disk'[s].messages, t)
    BY <1>3, OthersKeep DEF TextsOf, SilentAll, Exists
  <2> QED
    BY <2>1, <2>2
<1>5. pc[t] \in {"asking", "catching"} => mem'[x].messages = mem[x].messages
  BY DEF OthersShape, UnderWay, Awaiting, Synchronous
<1>6. /\ pc[t] = "asking" => EndsWithQuestion(mem'[x].messages, t)
      /\ pc[t] = "catching" =>
           \/ EndsWithQuestion(mem'[x].messages, t)
           \/ faults' > 0 /\ mem'[x].messages # <<>> /\ Last(mem'[x].messages) = Reply(t)
  BY <1>1, <1>5 DEF TextsOf, SilentAll, On
<1>7. ASSUME pc[t] \in {"ending", "done"}
      PROVE  /\ answer[t] = "answered" => HasResult(disk'[x], t) /\ (up => HasResult(mem'[x], t))
             /\ answer[t] = "failed" /\ faults' = 0 =>
                  NotAsked(disk'[x], t) /\ (up => NotAsked(mem'[x], t))
  <2>1. x \in Sessions /\ disk'[x] # None /\ (up => mem'[x] # None)
    BY <1>1, <1>7 DEF SessionsKnown, Exists
  <2>2. faults' = 0 => faults = 0
    BY <1>1
  <2>3. /\ answer[t] = "answered" => HasResult(disk[x], t) /\ (up => HasResult(mem[x], t))
        /\ answer[t] = "failed" /\ faults' = 0 =>
             NotAsked(disk[x], t) /\ (up => NotAsked(mem[x], t))
    BY <1>7, <2>2 DEF TextsOf, SilentAll, On
  <2>4. up => /\ HasResult(mem[x], t) => HasResult(mem'[x], t)
              /\ NotAsked(mem[x], t) => NotAsked(mem'[x], t)
    BY <1>2, <2>1, OthersKeep
  <2>5. \/ disk'[x] = disk[x]
        \/ up /\ (HasResult(mem[x], t) => HasResult(disk'[x], t))
              /\ (NotAsked(mem[x], t) => NotAsked(disk'[x], t))
    BY <1>3, <2>1, OthersKeep
  <2> QED
    BY <2>3, <2>4, <2>5
<1> HIDE DEF x
<1> QED
  BY <1>1, <1>4, <1>6, <1>7 DEF TextsOf, SilentAll, On

-----------------------------------------------------------------------------
\* The steps of turn t itself.

\* The values after a write.
LEMMA AfterWrite ==
  ASSUME TypeOK, NEW s, NEW q, NEW r, Wrote(s, q, r)
  PROVE  /\ s \in Sessions /\ mem[s] \in SessionRecords
         /\ q \in SessionRecords /\ r \in SessionRecords
         /\ mem'[s] = q
         /\ \A x \in Sessions \ {s} : mem'[x] = mem[x]
         /\ \/ disk' = disk
            \/ disk'[s] = r /\ \A x \in Sessions \ {s} : disk'[x] = mem[x]
         /\ disk' = [mem EXCEPT ![s] = r] => disk'[s] = r
         /\ faults \in Nat /\ faults' >= faults
  BY DEF Wrote, TypeOK

\* A turn that is not in what is written stays out of it.
LEMMA SilentKept ==
  ASSUME TypeOK, NEW t \in Turns, SilentAll(t), NEW s, NEW q, NEW r, Wrote(s, q, r),
         Silent(q.messages, t), Silent(r.messages, t)
  PROVE  SilentAll(t)'
<1>1. /\ mem'[s] = q /\ \A x \in Sessions \ {s} : mem'[x] = mem[x]
      /\ disk' = disk \/ (disk'[s] = r /\ \A x \in Sessions \ {s} : disk'[x] = mem[x])
  BY AfterWrite
<1> SUFFICES ASSUME NEW x \in Sessions
             PROVE  /\ mem'[x] # None => Silent(mem'[x].messages, t)
                    /\ disk'[x] # None => Silent(disk'[x].messages, t)
  BY DEF SilentAll, Exists
<1>2. /\ mem[x] # None => Silent(mem[x].messages, t)
      /\ disk[x] # None => Silent(disk[x].messages, t)
  BY DEF SilentAll, Exists
<1>3. CASE x = s
  BY <1>1, <1>2, <1>3
<1>4. CASE x # s
  BY <1>1, <1>2, <1>4
<1> QED
  BY <1>3, <1>4

\* Turn t asks session s, or could not begin.
LEMMA AsksTexts ==
  ASSUME TypeOK, NEW t \in Turns \ Reviews, NEW s \in Sessions, up, Exists(s), Asks(t, s),
         SilentAll(t), SyncedKept
  PROVE  TextsOf(t)'
<1>t. /\ pc \in [Turns -> Stages] /\ on \in [Turns -> Sessions \cup {None}]
      /\ answer \in [Turns -> {"answered", "failed", None}]
      /\ mem[s] \in SessionRecords /\ mem[s].messages \in Seq(Messages)
  BY Recorded DEF TypeOK, SessionRecords
<1> DEFINE r0 == [mem[s] EXCEPT !.messages = Append(@, Question(t))]
<1>1. BeginsShape(t, s, r0, "asking") /\ on' = [on EXCEPT ![t] = s]
  BY AsksShape
<1>2. r0.messages = Append(mem[s].messages, Question(t))
  BY <1>t DEF SessionRecords
<1> HIDE DEF r0
<1>3. on'[t] = s
  BY <1>t, <1>1
<1>4. PICK q, r \in SessionRecords :
       /\ Wrote(s, q, r) /\ SameTexts(r, r0)
       /\ \/ q = r /\ pc' = [pc EXCEPT ![t] = "asking"]
          \/ /\ pc' = [pc EXCEPT ![t] = "done"] /\ answer' = [answer EXCEPT ![t] = "failed"]
             /\ SyncedKept => faults' > 0
  BY <1>1 DEF BeginsShape
<1>5. CASE q = r /\ pc' = [pc EXCEPT ![t] = "asking"]
  <2>1. pc'[t] = "asking"
    BY <1>t, <1>5
  <2>2. mem'[s].messages = Append(mem[s].messages, Question(t))
    BY <1>2, <1>4, <1>5, AfterWrite DEF SameTexts
  <2>3. EndsWithQuestion(Append(mem[s].messages, Question(t)), t)
    BY <1>t, Asking DEF SilentAll
  <2> QED
    BY <1>3, <2>1, <2>2, <2>3 DEF TextsOf, SilentAll, On
<1>6. CASE /\ pc' = [pc EXCEPT ![t] = "done"] /\ answer' = [answer EXCEPT ![t] = "failed"]
           /\ faults' > 0
  <2>1. pc'[t] = "done" /\ answer'[t] = "failed" /\ faults' # 0
    BY <1>t, <1>6, <1>4, AfterWrite
  <2> QED
    BY <2>1 DEF TextsOf, SilentAll
<1> QED
  BY <1>4, <1>5, <1>6

\* A plan review begins, or could not begin.
LEMMA PlanTexts ==
  ASSUME TypeOK, NEW t \in Turns, NEW s \in Sessions, Plan(t, s), TextsOf(t), SyncedKept
  PROVE  TextsOf(t)'
<1>t. /\ pc \in [Turns -> Stages] /\ answer \in [Turns -> {"answered", "failed", None}]
  BY DEF TypeOK
<1>1. BeginsShape(t, s, mem[s], "planning") /\ t \in Reviews /\ Exists(s)
  BY PlanShape DEF Plan, MaySend
<1>2. SilentAll(t)
  BY <1>1 DEF TextsOf, SilentAll
<1>3. PICK q, r \in SessionRecords :
       /\ Wrote(s, q, r) /\ SameTexts(r, mem[s])
       /\ \/ q = r /\ pc' = [pc EXCEPT ![t] = "planning"]
          \/ /\ SameTexts(q, mem[s])
             /\ pc' = [pc EXCEPT ![t] = "done"] /\ answer' = [answer EXCEPT ![t] = "failed"]
             /\ SyncedKept => faults' > 0
  BY <1>1 DEF BeginsShape
<1>4. Silent(q.messages, t) /\ Silent(r.messages, t)
  BY <1>1, <1>2, <1>3 DEF SilentAll, SameTexts
<1>5. SilentAll(t)'
  BY <1>2, <1>3, <1>4, SilentKept
<1>6. \/ pc'[t] = "planning"
      \/ pc'[t] = "done" /\ answer'[t] = "failed" /\ faults' # 0
  <2>1. CASE pc' = [pc EXCEPT ![t] = "planning"]
    BY <1>t, <2>1
  <2>2. CASE /\ pc' = [pc EXCEPT ![t] = "done"] /\ answer' = [answer EXCEPT ![t] = "failed"]
             /\ faults' > 0
    BY <1>t, <1>3, <2>2, AfterWrite
  <2> QED
    BY <1>3, <2>1, <2>2
<1> QED
  BY <1>5, <1>6 DEF TextsOf, SilentAll

\* A turn that stops before its session is touched.
LEMMA StopsTexts ==
  ASSUME TypeOK, SessionsKnown, NEW t \in Turns, pc[t] # "idle", up,
         SilentAll(t), UNCHANGED <<mem, disk, up, on>>, pc'[t] \in {"ending", "done"},
         answer'[t] = "failed"
  PROVE  TextsOf(t)'
<1>1. on[t] \in Sessions /\ Exists(on[t]) /\ disk[on[t]] # None
  BY OnKnown
<1>2. SilentAll(t)'
  BY DEF SilentAll, Exists
<1>3. NotAsked(disk[on[t]], t) /\ NotAsked(mem[on[t]], t)
  BY <1>1, SilentIsNotAsked DEF SilentAll
<1> QED
  BY <1>2, <1>3 DEF TextsOf, SilentAll, On

\* The answer follows the question, or is left to the catch.
LEMMA AnswerTexts ==
  ASSUME TypeOK, SessionsKnown, StagesKept, SyncedKept, NEW t \in Turns, Answer(t),
         TextsOf(t)
  PROVE  TextsOf(t)'
<1>t. /\ pc \in [Turns -> Stages] /\ answer \in [Turns -> {"answered", "failed", None}]
  BY DEF TypeOK
<1>0. pc[t] = "asking" /\ UNCHANGED on
  BY AnswerShape
<1>1. on[t] \in Sessions /\ mem[on[t]] \in SessionRecords /\ mem[on[t]].messages \in Seq(Messages)
  BY GoesOn DEF Continue, SessionRecords
<1>2. t \notin Reviews
  BY <1>0 DEF StagesKept
<1>3. EndsWithQuestion(mem[on[t]].messages, t)
  BY <1>0 DEF TextsOf, SilentAll, On
<1>4. PICK q \in SessionRecords :
        /\ Wrote(on[t], q, q)
        /\ q.messages = Append(mem[on[t]].messages, Reply(t))
        /\ \/ /\ disk' = [mem EXCEPT ![on[t]] = q]
              /\ pc' = [pc EXCEPT ![t] = "ending"]
              /\ answer' = [answer EXCEPT ![t] = "answered"]
           \/ /\ SyncedKept => faults' > 0
              /\ pc' = [pc EXCEPT ![t] = "catching"] /\ UNCHANGED answer
  BY AnswerShape DEF On
<1>5. mem'[on[t]] = q
  BY <1>4, AfterWrite
<1>6. CASE /\ disk' = [mem EXCEPT ![on[t]] = q]
           /\ pc' = [pc EXCEPT ![t] = "ending"]
           /\ answer' = [answer EXCEPT ![t] = "answered"]
  <2>1. disk'[on[t]] = q
    BY <1>4, <1>6, AfterWrite
  <2>2. pc'[t] = "ending" /\ answer'[t] = "answered"
    BY <1>t, <1>6
  <2>3. HasResult(q, t)
    BY <1>1, <1>2, <1>3, <1>4, Answering
  <2> QED
    BY <1>0, <1>2, <1>5, <2>1, <2>2, <2>3 DEF TextsOf, SilentAll, On
<1>7. CASE faults' > 0 /\ pc' = [pc EXCEPT ![t] = "catching"]
  <2>1. pc'[t] = "catching"
    BY <1>t, <1>7
  <2>2. q.messages # <<>> /\ Last(q.messages) = Reply(t)
    BY <1>1, <1>4, MessageOf, LastAppended
  <2> QED
    BY <1>0, <1>2, <1>5, <1>7, <2>1, <2>2 DEF TextsOf, SilentAll, On
<1> QED
  BY <1>4, <1>6, <1>7

\* The catch leaves no question behind, unless there are faults.
LEMMA CatchTexts ==
  ASSUME TypeOK, SessionsKnown, StagesKept, SyncedKept, NEW t \in Turns, Catch(t),
         TextsOf(t)
  PROVE  TextsOf(t)'
<1>t. /\ pc \in [Turns -> Stages] /\ answer \in [Turns -> {"answered", "failed", None}]
  BY DEF TypeOK
<1>0. /\ pc[t] = "catching" /\ pc' = [pc EXCEPT ![t] = "ending"]
      /\ answer' = [answer EXCEPT ![t] = "failed"] /\ UNCHANGED on
  BY CatchShape
<1>1. pc'[t] = "ending" /\ answer'[t] = "failed" /\ t \notin Reviews
  BY <1>t, <1>0 DEF StagesKept
<1>2. PICK q \in SessionRecords :
        /\ Wrote(on[t], q, q) /\ q.messages = Front(mem[on[t]].messages)
        /\ disk' = [mem EXCEPT ![on[t]] = q] \/ faults' > 0
  BY CatchShape DEF On
<1>3. mem'[on[t]] = q /\ faults \in Nat /\ faults' >= faults
      /\ (disk' = [mem EXCEPT ![on[t]] = q] => disk'[on[t]] = q)
  BY <1>2, AfterWrite
<1>4. ASSUME faults' = 0
      PROVE  NotAsked(disk'[on[t]], t) /\ NotAsked(mem'[on[t]], t)
  <2>1. faults = 0 /\ ~(faults' > 0) /\ ~(faults > 0)
    BY <1>3, <1>4
  <2>2. EndsWithQuestion(mem[on[t]].messages, t)
    BY <1>0, <2>1 DEF TextsOf, SilentAll, On
  <2>3. NotAsked(q, t)
    BY <1>2, <2>2, SilentIsNotAsked DEF EndsWithQuestion
  <2> QED
    BY <1>2, <1>3, <2>1, <2>3
<1> QED
  BY <1>0, <1>1, <1>4 DEF TextsOf, SilentAll, On

\* A plan review has its result, or adds no message.
LEMMA PlanAnswerTexts ==
  ASSUME TypeOK, SessionsKnown, SessionsKnown', StagesKept, NEW t \in Turns,
         PlanAnswer(t), TextsOf(t)
  PROVE  TextsOf(t)'
<1>t. /\ pc \in [Turns -> Stages] /\ answer \in [Turns -> {"answered", "failed", None}]
  BY DEF TypeOK
<1>0. pc[t] = "planning" /\ pc' = [pc EXCEPT ![t] = "ending"] /\ UNCHANGED <<on, up>>
  BY PlanAnswerShape
<1>1. pc'[t] = "ending" /\ t \in Reviews
  BY <1>t, <1>0 DEF StagesKept
<1>2. on[t] \in Sessions /\ Exists(on[t]) /\ up
  BY GoesOn DEF Continue
<1>3. PICK q \in SessionRecords :
        /\ Wrote(on[t], q, q)
        /\ q.messages = mem[on[t]].messages /\ q.plans = mem[on[t]].plans \cup {t}
        /\ \/ disk' = [mem EXCEPT ![on[t]] = q] /\ answer' = [answer EXCEPT ![t] = "answered"]
           \/ answer' = [answer EXCEPT ![t] = "failed"]
  BY PlanAnswerShape DEF On
<1>4. mem'[on[t]] = q /\ (disk' = [mem EXCEPT ![on[t]] = q] => disk'[on[t]] = q)
  BY <1>3, AfterWrite
<1>5. SilentAll(t)'
  <2>1. SilentAll(t)
    BY <1>1 DEF TextsOf, SilentAll
  <2>2. Silent(q.messages, t)
    BY <1>2, <1>3, <2>1 DEF SilentAll
  <2> QED
    BY <1>3, <2>1, <2>2, SilentKept
<1>6. CASE disk' = [mem EXCEPT ![on[t]] = q] /\ answer' = [answer EXCEPT ![t] = "answered"]
  <2>1. answer'[t] = "answered"
    BY <1>t, <1>6
  <2>2. HasResult(q, t)
    BY <1>1, <1>3 DEF HasResult
  <2> QED
    BY <1>0, <1>1, <1>4, <1>5, <1>6, <2>1, <2>2 DEF TextsOf, SilentAll, On
<1>7. CASE answer' = [answer EXCEPT ![t] = "failed"]
  <2>1. answer'[t] = "failed"
    BY <1>t, <1>7
  <2>2. disk'[on[t]] # None /\ mem'[on[t]] # None
    BY <1>0, <1>1, <1>2 DEF SessionsKnown, Exists
  <2>3. NotAsked(disk'[on[t]], t) /\ NotAsked(mem'[on[t]], t)
    BY <1>2, <1>5, <2>2, SilentIsNotAsked DEF SilentAll, Exists
  <2> QED
    BY <1>0, <1>1, <1>5, <2>1, <2>3 DEF TextsOf, SilentAll, On
<1> QED
  BY <1>3, <1>6, <1>7

\* The end of a turn keeps its result, or reports a failure.
LEMMA EndTexts ==
  ASSUME TypeOK, SessionsKnown, StagesKept, SyncedKept, NEW t \in Turns, End(t),
         TextsOf(t)
  PROVE  TextsOf(t)'
<1>t. /\ pc \in [Turns -> Stages] /\ answer \in [Turns -> {"answered", "failed", None}]
  BY DEF TypeOK
<1>0. pc[t] = "ending" /\ pc' = [pc EXCEPT ![t] = "done"] /\ UNCHANGED <<on, up>>
  BY EndShape
<1>1. pc'[t] = "done"
  BY <1>t, <1>0
<1>2. on[t] \in Sessions /\ Exists(on[t]) /\ up
  BY GoesOn DEF Continue
<1>3. PICK q \in SessionRecords :
        /\ Wrote(on[t], q, q) /\ SameTexts(q, mem[on[t]])
        /\ \/ disk' = [mem EXCEPT ![on[t]] = q] /\ UNCHANGED answer
           \/ answer' = [answer EXCEPT ![t] = "failed"] /\ faults' > 0
  BY EndShape DEF On
<1>4. /\ mem'[on[t]] = q /\ (disk' = [mem EXCEPT ![on[t]] = q] => disk'[on[t]] = q)
      /\ faults \in Nat /\ faults' >= faults
  BY <1>3, AfterWrite
<1>5. t \in Reviews => SilentAll(t)'
  <2> SUFFICES ASSUME t \in Reviews PROVE SilentAll(t)'
    OBVIOUS
  <2>1. SilentAll(t)
    BY DEF TextsOf, SilentAll
  <2>2. Silent(q.messages, t)
    BY <1>2, <1>3, <2>1 DEF SilentAll, SameTexts
  <2> QED
    BY <1>3, <2>1, <2>2, SilentKept
<1>6. CASE disk' = [mem EXCEPT ![on[t]] = q] /\ UNCHANGED answer
  <2>1. /\ answer[t] = "answered" => HasResult(mem[on[t]], t)
        /\ answer[t] = "failed" /\ faults = 0 => NotAsked(mem[on[t]], t)
    BY <1>0, <1>2 DEF TextsOf, SilentAll, On
  <2>2. /\ HasResult(mem[on[t]], t) => HasResult(q, t)
        /\ NotAsked(mem[on[t]], t) => NotAsked(q, t)
    BY <1>3 DEF HasResult, NotAsked, SameTexts
  <2>3. faults' = 0 => faults = 0
    BY <1>4
  <2>4. disk'[on[t]] = q /\ answer'[t] = answer[t]
    BY <1>4, <1>6
  <2> QED
    BY <1>0, <1>1, <1>4, <1>5, <2>1, <2>2, <2>3, <2>4 DEF TextsOf, SilentAll, On
<1>7. CASE answer' = [answer EXCEPT ![t] = "failed"] /\ faults' > 0
  <2>1. answer'[t] = "failed" /\ faults' # 0
    BY <1>t, <1>4, <1>7
  <2> QED
    BY <1>1, <1>5, <2>1 DEF TextsOf, SilentAll
<1> QED
  BY <1>3, <1>6, <1>7

-----------------------------------------------------------------------------
\* The texts of a session, in every step.

\* A crash loses the memory only.
LEMMA CrashTexts ==
  ASSUME TypeOK, Crash, NEW t \in Turns, TextsOf(t)
  PROVE  TextsOf(t)'
<1>1. /\ UNCHANGED <<disk, on, answer, faults>> /\ up' = FALSE
      /\ \A s \in Sessions : mem'[s] = None
      /\ pc'[t] = IF pc[t] \in UnderWay \cup {"resolving"} THEN "lost" ELSE pc[t]
  BY DEF Crash, snapshot, TypeOK
<1>2. /\ pc'[t] \in {"idle", "resolving", "ending", "done"} => pc'[t] = pc[t]
      /\ pc'[t] \notin {"asking", "catching"}
  BY <1>1 DEF UnderWay, Awaiting, Synchronous
<1> QED
  BY <1>1, <1>2 DEF TextsOf, SilentAll, Exists

\* restore takes the texts over from the snapshot.
LEMMA StartTexts ==
  ASSUME TypeOK, SessionsKnown, StagesKept, Start, NEW t \in Turns, TextsOf(t)
  PROVE  TextsOf(t)'
<1>1. /\ UNCHANGED <<disk, on, pc, answer, faults>> /\ up' = TRUE /\ ~up
      /\ \A s \in Sessions : mem'[s] = IF disk[s] = None THEN None ELSE Restored(disk[s])
  BY DEF Start
<1>2. ASSUME NEW s \in Sessions, disk[s] # None
      PROVE  /\ mem'[s].messages = disk[s].messages
             /\ mem'[s].plans = disk[s].plans
  BY <1>1, <1>2, Recorded DEF Restored, SessionRecords
<1>3. pc[t] \notin {"asking", "catching", "ending"}
  BY <1>1 DEF StagesKept, UnderWay, Awaiting, Synchronous
<1>4. SilentAll(t) => SilentAll(t)'
  <2> SUFFICES ASSUME SilentAll(t), NEW s \in Sessions
               PROVE  /\ mem'[s] # None => Silent(mem'[s].messages, t)
                      /\ disk'[s] # None => Silent(disk'[s].messages, t)
    BY DEF SilentAll, Exists
  <2>1. CASE disk[s] = None
    BY <1>1, <2>1
  <2>2. CASE disk[s] # None
    BY <1>1, <1>2, <2>2 DEF SilentAll
  <2> QED
    BY <2>1, <2>2
<1>5. ASSUME pc[t] = "done"
      PROVE  /\ HasResult(disk[on[t]], t) => HasResult(mem'[on[t]], t)
             /\ NotAsked(disk[on[t]], t) => NotAsked(mem'[on[t]], t)
  <2>1. on[t] \in Sessions /\ disk[on[t]] # None
    BY <1>5 DEF SessionsKnown
  <2> QED
    BY <1>2, <2>1 DEF HasResult, NotAsked
<1> QED
  BY <1>1, <1>3, <1>4, <1>5 DEF TextsOf, SilentAll, On

\* A new session has no messages.
LEMMA CreateTexts ==
  ASSUME TypeOK, SessionsKnown, NEW s \in Sessions, Create(s), NEW t \in Turns, TextsOf(t)
  PROVE  TextsOf(t)'
<1> DEFINE m == [mem EXCEPT ![s] = NewSession]
<1>1. /\ up /\ mem[s] = None /\ disk[s] = None /\ UNCHANGED <<up, pc, on, answer>>
  BY DEF Create, Free, Exists
<1>2. /\ NewSession \in SessionRecords /\ Silent(NewSession.messages, t)
  BY EmptySeq DEF NewSession, SessionRecords, Statuses, Silent
<1>3. /\ m \in Stores /\ m[s] = NewSession
      /\ \A x \in Sessions \ {s} : m[x] = mem[x]
  BY <1>2, Recorded DEF TypeOK
<1> HIDE DEF m
<1>4. \/ mem' = m /\ Persisted(m)
      \/ mem' = mem /\ PersistFails(m)
  BY DEF Create, Change, m
<1>5. /\ mem' \in {mem, m} /\ disk' \in {disk, m}
      /\ faults \in Nat /\ faults' \in Nat /\ faults' >= faults
  BY <1>3, <1>4, Written DEF TypeOK
<1>6. ASSUME SilentAll(t)
      PROVE  SilentAll(t)'
  <2> SUFFICES ASSUME NEW x \in Sessions
               PROVE  /\ mem'[x] # None => Silent(mem'[x].messages, t)
                      /\ disk'[x] # None => Silent(disk'[x].messages, t)
    BY DEF SilentAll, Exists
  <2>1. /\ mem[x] # None => Silent(mem[x].messages, t)
        /\ disk[x] # None => Silent(disk[x].messages, t)
    BY <1>6 DEF SilentAll, Exists
  <2>2. m[x] # None => Silent(m[x].messages, t)
    BY <1>2, <1>3, <2>1
  <2> QED
    BY <1>5, <2>1, <2>2
<1>7. ASSUME pc[t] # "idle"
      PROVE  mem'[on[t]] = mem[on[t]] /\ disk'[on[t]] \in {disk[on[t]], mem[on[t]]}
  <2>1. on[t] \in Sessions /\ on[t] # s
    BY <1>1, <1>7 DEF SessionsKnown
  <2> QED
    BY <1>3, <1>5, <2>1
<1>8. /\ pc[t] = "asking" => EndsWithQuestion(mem'[on[t]].messages, t)
      /\ pc[t] = "catching" =>
           \/ EndsWithQuestion(mem'[on[t]].messages, t)
           \/ faults' > 0 /\ mem'[on[t]].messages # <<>> /\ Last(mem'[on[t]].messages) = Reply(t)
  <2>1. faults > 0 => faults' > 0
    BY <1>5
  <2> QED
    BY <1>7, <2>1 DEF TextsOf, SilentAll, On
<1>9. ASSUME pc[t] \in {"ending", "done"}
      PROVE  /\ answer[t] = "answered" => HasResult(disk'[on[t]], t) /\ HasResult(mem'[on[t]], t)
             /\ answer[t] = "failed" /\ faults' = 0 =>
                  NotAsked(disk'[on[t]], t) /\ NotAsked(mem'[on[t]], t)
  <2>1. faults' = 0 => faults = 0
    BY <1>5
  <2>2. /\ answer[t] = "answered" => HasResult(disk[on[t]], t) /\ HasResult(mem[on[t]], t)
        /\ answer[t] = "failed" /\ faults' = 0 =>
             NotAsked(disk[on[t]], t) /\ NotAsked(mem[on[t]], t)
    BY <1>1, <1>9, <2>1 DEF TextsOf, SilentAll, On
  <2> QED
    BY <1>7, <1>9, <2>2
<1>10. pc[t] \in {"idle", "resolving"} \/ t \in Reviews => SilentAll(t)'
  BY <1>6 DEF TextsOf, SilentAll
<1> QED
  BY <1>1, <1>8, <1>9, <1>10 DEF TextsOf, SilentAll, On

\* The steps of a turn keep what the texts hold of it.
LEMMA OwnTexts ==
  ASSUME TypeOK, SessionsKnown, SessionsKnown', StagesKept, SyncedKept, NEW t \in Turns,
         TextsOf(t),
         \/ \E s \in Sessions : Send(t, s) \/ SendResolving(t, s) \/ Plan(t, s)
         \/ Continue(t)
  PROVE  TextsOf(t)'
<1>t. /\ pc \in [Turns -> Stages] /\ answer \in [Turns -> {"answered", "failed", None}]
      /\ Reviews \cap Resolves = {}
  BY ConstantsAssumption DEF TypeOK, ConstantsAssumption
<1>1. ASSUME NEW s \in Sessions, Send(t, s)
      PROVE  TextsOf(t)'
  <2>1. t \notin Reviews /\ pc[t] = "idle" /\ up /\ Exists(s) /\ Asks(t, s)
    BY <1>1 DEF Send, MaySend, Free
  <2>2. SilentAll(t)
    BY <2>1 DEF TextsOf, SilentAll
  <2> QED
    BY <2>1, <2>2, AsksTexts
<1>2. ASSUME NEW s \in Sessions, SendResolving(t, s)
      PROVE  TextsOf(t)'
  <2>1. pc[t] = "idle" /\ pc' = [pc EXCEPT ![t] = "resolving"] /\ UNCHANGED <<mem, disk>>
    BY <1>2 DEF SendResolving, MaySend, Goto, snapshot
  <2>2. pc'[t] = "resolving"
    BY <1>t, <2>1
  <2> QED
    BY <2>1, <2>2 DEF TextsOf, SilentAll, Exists
<1>3. ASSUME NEW s \in Sessions, Plan(t, s)
      PROVE  TextsOf(t)'
  BY <1>3, PlanTexts
<1>4. CASE Continue(t)
  <2>0. up /\ pc[t] # "idle" /\ on[t] \in Sessions /\ Exists(on[t])
    BY <1>4, GoesOn
  <2>1. CASE Resolved(t)
    <3>1. pc[t] = "resolving"
      BY <2>1 DEF Resolved
    <3>2. SilentAll(t) /\ t \notin Reviews
      BY <3>1 DEF TextsOf, SilentAll, StagesKept
    <3>3. CASE Asks(t, on[t])
      BY <2>0, <3>2, <3>3, AsksTexts
    <3>4. CASE /\ pc' = [pc EXCEPT ![t] = "done"] /\ answer' = [answer EXCEPT ![t] = "failed"]
               /\ UNCHANGED <<mem, disk, up, on>>
      <4>1. pc'[t] = "done" /\ answer'[t] = "failed"
        BY <1>t, <3>4
      <4> QED
        BY <2>0, <3>2, <3>4, <4>1, StopsTexts
    <3> QED
      BY <2>1, <3>3, <3>4 DEF Resolved, Goto, Answered, snapshot
  <2>2. CASE Answer(t)
    BY <2>2, AnswerTexts
  <2>3. CASE ModelFails(t)
    <3>1. /\ pc[t] = "asking" /\ pc' = [pc EXCEPT ![t] = "catching"]
          /\ UNCHANGED <<mem, disk, on>> /\ t \notin Reviews
      BY <2>3 DEF ModelFails, Goto, snapshot, StagesKept
    <3>2. pc'[t] = "catching"
      BY <1>t, <3>1
    <3> QED
      BY <3>1, <3>2 DEF TextsOf, SilentAll, On
  <2>4. CASE Catch(t)
    BY <2>4, CatchTexts
  <2>5. CASE PlanAnswer(t)
    BY <2>5, PlanAnswerTexts
  <2>6. CASE PlanFails(t)
    <3>1. /\ pc[t] = "planning" /\ pc' = [pc EXCEPT ![t] = "ending"]
          /\ answer' = [answer EXCEPT ![t] = "failed"] /\ UNCHANGED <<mem, disk, up, on>>
      BY <2>6 DEF PlanFails, Goto, Answered, snapshot
    <3>2. pc'[t] = "ending" /\ answer'[t] = "failed" /\ t \in Reviews
      BY <1>t, <3>1 DEF StagesKept
    <3>3. SilentAll(t)
      BY <3>2 DEF TextsOf, SilentAll
    <3> QED
      BY <2>0, <3>1, <3>2, <3>3, StopsTexts
  <2>7. CASE End(t)
    BY <2>7, EndTexts
  <2> QED
    BY <1>4, <2>1, <2>2, <2>3, <2>4, <2>5, <2>6, <2>7 DEF Continue
<1> QED
  BY <1>1, <1>2, <1>3, <1>4

\* Every step keeps the parts about texts.
LEMMA TextsStep ==
  ASSUME TypeOK, TypeOK', SessionsKnown, SessionsKnown', StagesKept, SyncedKept,
         RunningIsTrue, SilentUntilAsked, QuestionLast, ResultsKept, [Next]_vars
  PROVE  SilentUntilAsked' /\ QuestionLast' /\ ResultsKept'
<1> SUFFICES ASSUME ~raced', NEW t \in Turns
             PROVE  TextsOf(t)'
  BY TextsAre DEF SilentUntilAsked, QuestionLast, ResultsKept, TextsOf, SilentAll
<1>1. ~raced
  BY RacedStays
<1>2. TextsOf(t)
  BY <1>1, TextsAre
<1>3. CASE Crash
  BY <1>2, <1>3, CrashTexts
<1>4. CASE Start
  BY <1>2, <1>4, StartTexts
<1>5. CASE \E s \in Sessions : Create(s)
  BY <1>2, <1>5, CreateTexts
<1>6. CASE \/ \E s \in Sessions : Send(t, s) \/ SendResolving(t, s) \/ Plan(t, s)
           \/ Continue(t)
  BY <1>2, <1>6, OwnTexts
<1>7. CASE \/ UNCHANGED vars \/ CancelAll
           \/ \E s \in Sessions : Close(s) \/ Review(s) \/ Cancel(s)
           \/ \E s \in Sessions, u \in Turns \ {t} : Send(u, s) \/ SendResolving(u, s) \/ Plan(u, s)
           \/ \E u \in Turns \ {t} : Continue(u)
           \/ \E u \in Turns : RunnerSettles(u)
  <2>1. OthersShape(t)
    BY <1>1, <1>7, OthersStep
  <2> QED
    BY <1>2, <2>1, OthersTexts
<1> QED
  BY <1>3, <1>4, <1>5, <1>6, <1>7 DEF Next

\* Every step keeps SyncedKept.
LEMMA SyncedStep ==
  ASSUME TypeOK, SessionsKnown, StagesKept, SyncedKept, [Next]_vars
  PROVE  SyncedKept'
<1>1. CASE UNCHANGED <<synced, faults>>
  BY <1>1 DEF SyncedKept
<1>2. CASE UNCHANGED vars \/ Crash \/ CancelAll \/ \E s \in Sessions : Cancel(s)
  BY <1>1, <1>2 DEF vars, snapshot, Crash, CancelAll, Cancel
<1>3. CASE Start
  BY <1>3 DEF Start, SyncedKept
<1>4. ASSUME NEW s \in Sessions, Create(s)
      PROVE  SyncedKept'
  <2>1. NewSession \in SessionRecords
    BY EmptySeq DEF NewSession, SessionRecords, Statuses
  <2>2. [mem EXCEPT ![s] = NewSession] \in Stores
    BY <2>1, Recorded
  <2> QED
    BY <1>4, <2>2, Written DEF Create, Change, SyncedKept
<1>5. ASSUME NEW s \in Sessions, Close(s) \/ Review(s)
      PROVE  SyncedKept'
  BY <1>5, StatusShape
<1>6. ASSUME NEW s \in Sessions, NEW t \in Turns, up, Exists(s), Asks(t, s)
      PROVE  SyncedKept'
  <2>1. BeginsShape(t, s, [mem[s] EXCEPT !.messages = Append(@, Question(t))], "asking")
    BY <1>6, AsksShape
  <2> QED
    BY <2>1 DEF BeginsShape
<1>7. ASSUME NEW s \in Sessions, NEW t \in Turns, Send(t, s) \/ SendResolving(t, s) \/ Plan(t, s)
      PROVE  SyncedKept'
  <2>1. CASE Send(t, s)
    BY <1>6, <2>1 DEF Send, MaySend, Free
  <2>2. CASE SendResolving(t, s)
    BY <1>1, <2>2 DEF SendResolving, snapshot
  <2>3. CASE Plan(t, s)
    <3>1. BeginsShape(t, s, mem[s], "planning")
      BY <2>3, PlanShape
    <3> QED
      BY <3>1 DEF BeginsShape
  <2> QED
    BY <1>7, <2>1, <2>2, <2>3
<1>8. ASSUME NEW t \in Turns, Continue(t) \/ RunnerSettles(t)
      PROVE  SyncedKept'
  <2>1. CASE Resolved(t)
    <3>1. up /\ on[t] \in Sessions /\ Exists(on[t])
      BY <1>8, GoesOn
    <3> QED
      BY <1>1, <1>6, <2>1, <3>1 DEF Resolved, snapshot
  <2>2. CASE ModelFails(t) \/ PlanFails(t)
    BY <1>1, <2>2 DEF ModelFails, PlanFails, snapshot
  <2>3. CASE Answer(t) \/ Catch(t) \/ PlanAnswer(t)
    BY <2>3, AnswerShape, CatchShape, PlanAnswerShape
  <2>4. CASE End(t) \/ RunnerSettles(t)
    BY <2>4, EndShape, SettlesShape
  <2> QED
    BY <1>8, <2>1, <2>2, <2>3, <2>4 DEF Continue
<1> QED
  BY <1>2, <1>3, <1>4, <1>5, <1>7, <1>8 DEF Next

-----------------------------------------------------------------------------
\* The initial state satisfies the invariant.
LEMMA InitIInv ==
  ASSUME Init
  PROVE  IInv
<1>1. TypeOK
  <2>1. crashes \in 0..MaxCrashes /\ faults \in 0..MaxFaults
    BY ConstantsAssumption DEF Init, ConstantsAssumption
  <2>2. /\ mem \in [Sessions -> SessionRecords \cup {None}]
        /\ disk \in [Sessions -> SessionRecords \cup {None}]
        /\ controller \in [Sessions -> Turns \cup {None}]
    BY DEF Init
  <2>3. pc \in [Turns -> Stages] /\ on \in [Turns -> Sessions \cup {None}]
    BY DEF Init, Stages
  <2>4. answer \in [Turns -> {"answered", "failed", None}]
    BY DEF Init
  <2>5. /\ synced \in BOOLEAN /\ up \in BOOLEAN /\ raced \in BOOLEAN /\ pending \subseteq Reviews
        /\ aborted \subseteq Turns /\ cancelled \subseteq Turns /\ interrupted \subseteq Sessions
    BY DEF Init
  <2> QED
    BY <2>1, <2>2, <2>3, <2>4, <2>5 DEF TypeOK
<1>2. /\ \A s \in Sessions : mem[s] = None /\ disk[s] = None
      /\ \A t \in Turns : pc[t] = "idle" /\ answer[t] = None
      /\ pending = {} /\ cancelled = {} /\ up /\ synced
  BY DEF Init
<1>3. SessionsKnown /\ StagesKept /\ SyncedKept
  BY <1>1, <1>2
  DEF SessionsKnown, StagesKept, SyncedKept, Exists, TypeOK, UnderWay, Awaiting, Synchronous
<1>4. RunningIsTrue /\ InterruptionIsOnDisk /\ ControllerKept
  BY <1>2
  DEF RunningIsTrue, InterruptionIsOnDisk, ControllerKept, Exists, UnderWay, Awaiting, Synchronous
<1>5. SilentUntilAsked /\ QuestionLast /\ ResultsKept
  BY <1>2 DEF SilentUntilAsked, QuestionLast, ResultsKept, Exists
<1> QED
  BY <1>1, <1>3, <1>4, <1>5 DEF IInv

\* Every step keeps the invariant.
LEMMA Step ==
  ASSUME IInv, [Next]_vars
  PROVE  IInv'
<1> USE DEF IInv
<1>1. TypeOK' /\ SessionsKnown'
  BY TypeStep, SessionsKnownStep
<1>2. StagesKept' /\ SyncedKept'
  BY StagesStep, SyncedStep
<1>3. RunningIsTrue' /\ InterruptionIsOnDisk' /\ ControllerKept'
  BY RunningStep, ControllerStep
<1>4. SilentUntilAsked' /\ QuestionLast' /\ ResultsKept'
  BY <1>1, TextsStep
<1> QED
  BY <1>1, <1>2, <1>3, <1>4

\* The inductive invariant holds in every reachable state.
LEMMA Invariance == Spec => []IInv
<1>1. Init => IInv
  BY InitIInv
<1>2. IInv /\ [Next]_vars => IInv'
  BY Step
<1> QED
  BY <1>1, <1>2, PTL DEF Spec

\* What AnswerIsStored says of the result is what the invariant says of it.
LEMMA ResultsAreStored ==
  ASSUME TypeOK, SessionsKnown, ResultsKept
  PROVE  AnswerIsStored
<1> SUFFICES ASSUME NEW t \in Turns
    PROVE  LET stored == disk[on[t]].messages
               question == [role |-> "user", turn |-> t]
           IN /\ pc[t] = "done" /\ answer[t] = "answered" /\ ~raced =>
                   IF t \in Reviews THEN t \in disk[on[t]].plans
                   ELSE \E i \in 2..Len(stored) :
                          stored[i] = [role |-> "assistant", turn |-> t] /\ stored[i - 1] = question
              /\ /\ pc[t] = "done" /\ answer[t] = "failed" /\ faults = 0
                 /\ up /\ Exists(on[t]) /\ ~raced
                 => question \notin ToSet(mem[on[t]].messages)
  BY DEF AnswerIsStored
<1>1. pc[t] = "done" /\ answer[t] = "answered" /\ ~raced => HasResult(disk[on[t]], t)
  BY DEF ResultsKept
<1>2. ASSUME pc[t] = "done", answer[t] = "failed", faults = 0, up, ~raced
      PROVE  Question(t) \notin ToSet(mem[on[t]].messages)
  <2>1. NotAsked(mem[on[t]], t)
    BY <1>2 DEF ResultsKept, On
  <2>2. on[t] \in Sessions /\ Exists(on[t])
    BY <1>2, OnKnown
  <2>3. mem[on[t]].messages \in Seq(Messages)
    BY <2>2, Recorded DEF SessionRecords
  <2>4. DOMAIN mem[on[t]].messages = 1..Len(mem[on[t]].messages)
    BY <2>3, LenProperties
  <2> QED
    BY <2>1, <2>4 DEF ToSet, NotAsked
<1> QED
  BY <1>1, <1>2 DEF HasResult, Question, Reply

\* Every variable of ChatSession keeps to its type.
THEOREM TypeCorrect == Spec => []TypeOK
<1>1. IInv => TypeOK
  BY DEF IInv
<1> QED
  BY <1>1, Invariance, PTL

\* A session is marked as running exactly while one turn of it, or the runner of one,
\* has not ended, and never two at a time, unless a turn began on a busy session after
\* awaiting its model.
THEOREM RunningIsTrueTheorem == Spec => []RunningIsTrue
<1>1. IInv => RunningIsTrue
  BY DEF IInv
<1> QED
  BY <1>1, Invariance, PTL

\* While a turn awaits its model, the snapshot marks its session as running, so that
\* a process that starts after a crash takes it for interrupted: no write of another
\* turn, of a status or of a failed change takes the mark back.
THEOREM InterruptionIsOnDiskTheorem == Spec => []InterruptionIsOnDisk
<1>1. IInv => InterruptionIsOnDisk
  BY DEF IInv
<1> QED
  BY <1>1, Invariance, PTL

\* A turn that was answered has its result on disk, right after its question, in this
\* process and all later ones, and a failed turn leaves, without faults, no question
\* behind: the catch takes back its own message, whatever other turns do meanwhile.
THEOREM AnswerIsStoredTheorem == Spec => []AnswerIsStored
<1>1. IInv => AnswerIsStored
  BY ResultsAreStored DEF IInv
<1> QED
  BY <1>1, Invariance, PTL

\* A turn that cancelTurn was called for is not answered, if it runs an agent loop or a
\* plan review: the controller that is registered is its own.
THEOREM CancelledIsSilentTheorem == Spec => CancelledIsSilent
<1> DEFINE Silence == \A t \in (cancelled \cap (Resolves \cup Reviews)) :
                        ~raced /\ pc[t] \in Awaiting => answer'[t] # "answered"
<1>1. IInv /\ [Next]_vars => [Silence]_vars
  <2> SUFFICES ASSUME IInv, [Next]_vars PROVE Silence
    OBVIOUS
  <2> QED
    BY SilentStep DEF IInv
<1>2. Spec => [][Silence]_vars
  BY <1>1, Invariance, PTL DEF Spec
<1> QED
  BY <1>2 DEF CancelledIsSilent
=============================================================================
