---------------------------- MODULE ChatSession ----------------------------
(***************************************************************************)
(* Chat sessions (runtime/session.mjs): turns of a chat, plan reviews,     *)
(* cancellation, closing, manual review, and the snapshot from which a     *)
(* new process restores the sessions.                                      *)
(*                                                                         *)
(* A turn is one call of sendMessage or planReview.  Only what follows an  *)
(* await is a step of its own, except that a crash may come between two    *)
(* writes of the snapshot: the stages "catching" and "ending" are run      *)
(* through before anything else happens.  Simplifications:                 *)
(*   - Writing the snapshot has the outcomes of SnapshotRegister: written; *)
(*     not written; written and reported as failed, whereupon the digest   *)
(*     is stale and every later write is refused (synced).                 *)
(*   - A plan review has one model runner.  Validation of input, and that  *)
(*     plan reviews need a session in Plan mode, are left out.             *)
(*   - One process at a time uses the snapshot.                            *)
(* An operator named ...Mutant is a faulty variation of the definition     *)
(* after it; the specification does not use it.                            *)
(***************************************************************************)
EXTENDS Integers, Sequences, SequencesExt

CONSTANTS
  Sessions,    \* the sessions
  Turns,       \* the turns
  Reviews,     \* the turns that are plan reviews
  Resolves,    \* the chat turns that name a model, which is looked up
  MaxCrashes,  \* bound: the number of crashes
  MaxFaults,   \* bound: the number of failing writes of the snapshot
  None

ASSUME ConstantsAssumption ==
  /\ Reviews \subseteq Turns /\ Resolves \subseteq Turns \ Reviews
  /\ MaxCrashes \in Nat /\ MaxFaults \in Nat

VARIABLES
  mem,         \* the sessions in memory
  disk,        \* sessions.json
  synced,      \* whether the process knows the digest of disk
  up,          \* whether the process runs
  controller,  \* the turn whose AbortController is registered for a session
  pending,     \* the turns whose model runner has not settled yet
  pc,          \* the stage of each turn
  on,          \* its session
  answer,      \* whether it was answered
  aborted,     \* the turns whose controller has been aborted
  crashes,
  faults,
  cancelled,   \* history: the turns that a successful cancelTurn was meant for
  raced,       \* history: whether a turn began on a busy or inactive session
  interrupted  \* history: sessions interrupted by a crash and not resumed since

snapshot == <<disk, synced, faults>>
history == <<cancelled, raced, interrupted>>
vars == <<mem, snapshot, up, controller, pending, pc, on, answer, aborted, crashes, history>>

Messages == [role: {"user", "assistant"}, turn: Turns]
Statuses == {"active", "closed", "manual_review"}
Stages == {"idle", "resolving", "asking", "planning", "catching", "ending", "done", "lost"}
Awaiting == {"asking", "planning"}
Synchronous == {"catching", "ending"}
UnderWay == Awaiting \cup Synchronous

SessionRecords ==
  [status: Statuses, messages: Seq(Messages), plans: SUBSET Turns, running: BOOLEAN]

ASSUME NoneAssumption ==
  None \notin SessionRecords \cup Sessions \cup Turns \cup {"answered", "failed"}

NewSession == [status |-> "active", messages |-> <<>>, plans |-> {}, running |-> FALSE]

On(t) == mem[on[t]]
Exists(s) == mem[s] # None

\* No turn is between two awaits: another handler may run.
Free == up /\ \A t \in Turns : pc[t] \notin Synchronous

Goto(t, stage) == pc' = [pc EXCEPT ![t] = stage]
Answered(t, a) == answer' = [answer EXCEPT ![t] = a]
-----------------------------------------------------------------------------
(* persist: the whole memory, as m, is written to the snapshot. *)

Persisted(m) ==
  /\ synced
  /\ disk' = m
  /\ UNCHANGED <<synced, faults>>

PersistFails(m) ==
  \/ ~synced /\ UNCHANGED snapshot
  \/ /\ synced /\ faults < MaxFaults
     /\ faults' = faults + 1
     /\ \/ UNCHANGED <<disk, synced>>
        \/ disk' = m /\ synced' = FALSE

\* The change of session s to r is persisted, or taken back.
Change(s, r) ==
  LET m == [mem EXCEPT ![s] = r] IN
    \/ mem' = m /\ Persisted(m)
    \/ UNCHANGED mem /\ PersistFails(m)

Init ==
  /\ mem = [s \in Sessions |-> None]
  /\ disk = [s \in Sessions |-> None]
  /\ synced = TRUE
  /\ up = TRUE
  /\ controller = [s \in Sessions |-> None]
  /\ pending = {}
  /\ pc = [t \in Turns |-> "idle"]
  /\ on = [t \in Turns |-> None]
  /\ answer = [t \in Turns |-> None]
  /\ aborted = {} /\ cancelled = {} /\ interrupted = {}
  /\ crashes = 0 /\ faults = 0
  /\ raced = FALSE

(* The process. *)

Crash ==
  /\ up /\ crashes < MaxCrashes
  /\ up' = FALSE
  /\ crashes' = crashes + 1
  /\ mem' = [s \in Sessions |-> None]
  /\ controller' = [s \in Sessions |-> None]
  /\ pending' = {}
  /\ pc' = [t \in Turns |-> IF pc[t] \in UnderWay \cup {"resolving"} THEN "lost" ELSE pc[t]]
  /\ UNCHANGED <<snapshot, on, answer, aborted, history>>

\* Mutant: the results of plan reviews get lost.
RestoredPlansMutant(r) == [r EXCEPT !.plans = {}, !.running = FALSE]

\* restore
Restored(r) ==
  [r EXCEPT !.status = IF r.running THEN "manual_review"
                       ELSE IF @ = "closed" THEN "closed" ELSE "active",
            !.running = FALSE]

Start ==
  /\ ~up
  /\ up' = TRUE
  /\ mem' = [s \in Sessions |-> IF disk[s] = None THEN None ELSE Restored(disk[s])]
  /\ synced' = TRUE
  /\ interrupted' = interrupted \cup {s \in Sessions : disk[s] # None /\ disk[s].running}
  /\ UNCHANGED <<disk, faults, controller, pending, pc, on, answer, aborted, crashes,
                 cancelled, raced>>

(* createSession, closeSession, reviewSession, cancelTurn and cancelAllTurns *)

Create(s) ==
  /\ Free /\ ~Exists(s) /\ disk[s] = None
  /\ Change(s, NewSession)
  /\ UNCHANGED <<up, controller, pending, pc, on, answer, aborted, crashes, history>>

Close(s) ==
  /\ Free /\ Exists(s) /\ ~mem[s].running
  /\ Change(s, [mem[s] EXCEPT !.status = "closed"])
  /\ UNCHANGED <<up, controller, pending, pc, on, answer, aborted, crashes, history>>

Review(s) ==
  /\ Free /\ Exists(s) /\ mem[s].status = "manual_review"
  /\ \E status \in {"active", "closed"} :
       /\ Change(s, [mem[s] EXCEPT !.status = status])
       /\ interrupted' = IF status = "active" /\ mem' # mem THEN interrupted \ {s}
                                                          ELSE interrupted
  /\ UNCHANGED <<up, controller, pending, pc, on, answer, aborted, crashes, cancelled, raced>>

\* cancelTurn aborts the controller that is registered.
Cancel(s) ==
  /\ Free /\ Exists(s) /\ mem[s].running /\ controller[s] # None
  /\ aborted' = aborted \cup {controller[s]}
  /\ cancelled' = cancelled \cup {t \in Turns : on[t] = s /\ pc[t] \in Awaiting}
  /\ UNCHANGED <<mem, snapshot, up, controller, pending, pc, on, answer, crashes,
                 raced, interrupted>>

\* cancelAllTurns, when the server closes.
CancelAll ==
  /\ Free
  /\ aborted' = (aborted \cup {controller[s] : s \in Sessions}) \ {None}
  /\ cancelled' = cancelled \cup {t \in Turns : pc[t] \in Awaiting}
  /\ UNCHANGED <<mem, snapshot, up, controller, pending, pc, on, answer, crashes,
                 raced, interrupted>>

(* sendMessage *)

\* Mutants: the snapshot is written before the session is marked; a controller
\* that is registered already is kept.
BeginsMutant(t, s, r, stage) ==
  /\ on' = [on EXCEPT ![t] = s]
  /\ controller' = [controller EXCEPT ![s] = t]
  /\ raced' = IF mem[s].running \/ mem[s].status # "active" THEN TRUE ELSE raced
  /\ Persisted([mem EXCEPT ![s] = r])
  /\ mem' = [mem EXCEPT ![s] = [r EXCEPT !.running = TRUE]]
  /\ Goto(t, stage)
  /\ UNCHANGED <<up, answer, aborted, crashes, cancelled, interrupted>>

BeginsControllerMutant(t, s, r, stage) ==
  /\ on' = [on EXCEPT ![t] = s]
  /\ controller' = [controller EXCEPT ![s] = IF @ = None THEN t ELSE @]
  /\ raced' = IF mem[s].running \/ mem[s].status # "active" THEN TRUE ELSE raced
  /\ LET m == [mem EXCEPT ![s] = [r EXCEPT !.running = TRUE]]
     IN \/ mem' = m /\ Persisted(m) /\ Goto(t, stage) /\ UNCHANGED answer
        \/ /\ mem' = [mem EXCEPT ![s].running = FALSE]
           /\ PersistFails(m)
           /\ Goto(t, "done") /\ Answered(t, "failed")
  /\ UNCHANGED <<up, aborted, crashes, cancelled, interrupted>>

\* The turn marks the session as running, registers its controller, and writes
\* what it adds; if that fails, it takes it back, but for the controller.
Begins(t, s, r, stage) ==
  /\ on' = [on EXCEPT ![t] = s]
  /\ controller' = [controller EXCEPT ![s] = t]
  /\ raced' = IF mem[s].running \/ mem[s].status # "active" THEN TRUE ELSE raced
  /\ LET m == [mem EXCEPT ![s] = [r EXCEPT !.running = TRUE]]
     IN \/ mem' = m /\ Persisted(m) /\ Goto(t, stage) /\ UNCHANGED answer
        \/ /\ mem' = [mem EXCEPT ![s].running = FALSE]
           /\ PersistFails(m)
           /\ Goto(t, "done") /\ Answered(t, "failed")
  /\ UNCHANGED <<up, aborted, crashes, cancelled, interrupted>>

Asks(t, s) ==
  /\ Begins(t, s, [mem[s] EXCEPT !.messages = Append(@, [role |-> "user", turn |-> t])],
            "asking")
  /\ UNCHANGED pending

MaySend(t, s) ==
  /\ Free /\ pc[t] = "idle"
  /\ Exists(s) /\ mem[s].status = "active" /\ ~mem[s].running

\* A turn that names no model is checked and begun in one go.
Send(t, s) ==
  /\ t \notin Resolves \cup Reviews
  /\ MaySend(t, s)
  /\ Asks(t, s)

\* A turn that names a model awaits the resolver in between, ...
SendResolving(t, s) ==
  /\ t \in Resolves
  /\ MaySend(t, s)
  /\ on' = [on EXCEPT ![t] = s]
  /\ Goto(t, "resolving")
  /\ UNCHANGED <<mem, snapshot, up, controller, pending, answer, aborted, crashes, history>>

\* ... which finds no enabled model, or the turn begins, with no further check.
Resolved(t) ==
  /\ Free /\ pc[t] = "resolving"
  /\ \/ Asks(t, on[t])
     \/ /\ Goto(t, "done") /\ Answered(t, "failed")
        /\ UNCHANGED <<mem, snapshot, up, controller, pending, on, aborted, crashes, history>>

\* The answer arrives and is written.  The agent loop of a turn that names a
\* model answers nothing once it is aborted.
Answer(t) ==
  /\ Free /\ pc[t] = "asking"
  /\ t \in Resolves => t \notin aborted
  /\ LET m == [mem EXCEPT ![on[t]].messages = Append(@, [role |-> "assistant", turn |-> t])]
     IN /\ mem' = m
        /\ \/ Persisted(m) /\ Goto(t, "ending") /\ Answered(t, "answered")
           \/ PersistFails(m) /\ Goto(t, "catching") /\ UNCHANGED answer
  /\ UNCHANGED <<up, controller, pending, on, aborted, crashes, history>>

\* The model fails, times out or is aborted.
ModelFails(t) ==
  /\ Free /\ pc[t] = "asking"
  /\ Goto(t, "catching")
  /\ UNCHANGED <<mem, snapshot, up, controller, pending, on, answer, aborted, crashes, history>>

\* The catch takes the last message back.
Catch(t) ==
  /\ up /\ pc[t] = "catching"
  /\ mem' = [mem EXCEPT ![on[t]].messages = Front(@)]
  /\ Persisted(mem') \/ PersistFails(mem')
  /\ Goto(t, "ending") /\ Answered(t, "failed")
  /\ UNCHANGED <<up, controller, pending, on, aborted, crashes, history>>

(* planReview *)

Plan(t, s) ==
  /\ t \in Reviews
  /\ MaySend(t, s)
  /\ Begins(t, s, mem[s], "planning")
  /\ pending' = IF pc'[t] = "planning" THEN pending \cup {t} ELSE pending

\* The result is written; if that fails it stays in memory.
PlanAnswer(t) ==
  /\ Free /\ pc[t] = "planning" /\ t \notin aborted
  /\ mem' = [mem EXCEPT ![on[t]].plans = @ \cup {t}]
  /\ \/ Persisted(mem') /\ Answered(t, "answered")
     \/ PersistFails(mem') /\ Answered(t, "failed")
  /\ Goto(t, "ending")
  /\ UNCHANGED <<up, controller, pending, on, aborted, crashes, history>>

PlanFails(t) ==
  /\ Free /\ pc[t] = "planning"
  /\ Goto(t, "ending") /\ Answered(t, "failed")
  /\ UNCHANGED <<mem, snapshot, up, controller, pending, on, aborted, crashes, history>>

PendingOn(s, p) == {t \in p : on[t] = s}

\* The runner settles.  If its review has ended before it, it frees the session.
RunnerSettles(t) ==
  /\ Free /\ t \in pending
  /\ pending' = pending \ {t}
  /\ IF pc[t] = "done" /\ PendingOn(on[t], pending') = {} /\ On(t).running
       THEN /\ mem' = [mem EXCEPT ![on[t]].running = FALSE]
            /\ Persisted(mem') \/ PersistFails(mem')
       ELSE UNCHANGED <<mem, snapshot>>
  /\ UNCHANGED <<up, controller, pc, on, answer, aborted, crashes, history>>

(* The finally of both. *)

\* Mutants: only an answered turn frees the session; it is freed although model
\* runners have not settled.
EndMutant(t) ==
  /\ up /\ pc[t] = "ending"
  /\ controller' = [controller EXCEPT ![on[t]] = None]
  /\ mem' = [mem EXCEPT ![on[t]].running = answer[t] # "answered"]
  /\ Persisted(mem') \/ PersistFails(mem')
  /\ Goto(t, "done")
  /\ UNCHANGED <<up, pending, on, answer, aborted, crashes, history>>

EndEarlyMutant(t) ==
  /\ up /\ pc[t] = "ending"
  /\ controller' = [controller EXCEPT ![on[t]] = None]
  /\ mem' = [mem EXCEPT ![on[t]].running = FALSE]
  /\ \/ Persisted(mem') /\ UNCHANGED answer
     \/ PersistFails(mem') /\ Answered(t, "failed")
  /\ Goto(t, "done")
  /\ UNCHANGED <<up, pending, on, aborted, crashes, history>>

\* It frees the session, unless a review leaves runners behind.
End(t) ==
  /\ up /\ pc[t] = "ending"
  /\ controller' = [controller EXCEPT ![on[t]] = None]
  /\ mem' = [mem EXCEPT ![on[t]].running =
                t \in Reviews /\ PendingOn(on[t], pending) # {} /\ @]
  /\ \/ Persisted(mem') /\ UNCHANGED answer
     \/ PersistFails(mem') /\ Answered(t, "failed")
  /\ Goto(t, "done")
  /\ UNCHANGED <<up, pending, on, aborted, crashes, history>>

\* The part of a turn that goes on by itself or with the answer of a model.
Continue(t) ==
  \/ Resolved(t) \/ Answer(t) \/ ModelFails(t) \/ Catch(t)
  \/ PlanAnswer(t) \/ PlanFails(t) \/ End(t)

Next ==
  \/ Crash \/ Start \/ CancelAll
  \/ \E s \in Sessions :
       \/ Create(s) \/ Close(s) \/ Review(s) \/ Cancel(s)
       \/ \E t \in Turns : Send(t, s) \/ SendResolving(t, s) \/ Plan(t, s)
  \/ \E t \in Turns : Continue(t) \/ RunnerSettles(t)

Spec == Init /\ [][Next]_vars

\* Every call of a model ends, as models and their helper processes have time
\* limits, and the steps between two awaits follow one another.
FairSpec ==
  /\ Spec
  /\ \A t \in Turns : WF_vars(Continue(t)) /\ WF_vars(RunnerSettles(t))
-----------------------------------------------------------------------------
TypeOK ==
  /\ mem \in [Sessions -> SessionRecords \cup {None}]
  /\ disk \in [Sessions -> SessionRecords \cup {None}]
  /\ synced \in BOOLEAN /\ up \in BOOLEAN /\ raced \in BOOLEAN
  /\ controller \in [Sessions -> Turns \cup {None}]
  /\ pending \subseteq Reviews
  /\ pc \in [Turns -> Stages]
  /\ on \in [Turns -> Sessions \cup {None}]
  /\ answer \in [Turns -> {"answered", "failed", None}]
  /\ aborted \subseteq Turns /\ cancelled \subseteq Turns
  /\ interrupted \subseteq Sessions
  /\ crashes \in 0..MaxCrashes /\ faults \in 0..MaxFaults

Busy(s) == {t \in Turns : on[t] = s /\ (pc[t] \in UnderWay \/ t \in pending)}

\* A session is marked as running exactly while one turn of it, or a model runner
\* of one, has not ended; never two at a time.  (As long as no turn began on a
\* busy session after awaiting its model, as is assumed in what follows.)
RunningIsTrue ==
  \A s \in Sessions :
    up /\ Exists(s) /\ ~raced =>
      /\ mem[s].running <=> Busy(s) # {}
      /\ \A t, u \in Busy(s) : t = u

\* While a turn awaits its model, the snapshot says so: a process that starts
\* after a crash takes the session for interrupted, whatever was written since.
InterruptionIsOnDisk ==
  \A t \in Turns : pc[t] \in Awaiting /\ ~raced => disk[on[t]].running

\* A turn that was answered has its result, or its answer right after its
\* question, in the snapshot, in this process and all later ones; and without
\* faults a turn that failed because of its model leaves no question behind.
AnswerIsStored ==
  \A t \in Turns :
    LET stored == disk[on[t]].messages
        question == [role |-> "user", turn |-> t]
    IN /\ pc[t] = "done" /\ answer[t] = "answered" /\ ~raced =>
            IF t \in Reviews THEN t \in disk[on[t]].plans
            ELSE \E i \in 2..Len(stored) :
                   stored[i] = [role |-> "assistant", turn |-> t] /\ stored[i - 1] = question
       /\ pc[t] = "done" /\ answer[t] = "failed" /\ faults = 0 /\ up /\ Exists(on[t]) /\ ~raced =>
            question \notin ToSet(mem[on[t]].messages)

\* What cancelTurn was called for ends without an answer, if its model is called
\* in an agent loop or a plan review.
CancelledIsSilent ==
  [][ \A t \in (cancelled \cap (Resolves \cup Reviews)) :
        ~raced /\ pc[t] \in Awaiting => answer'[t] # "answered" ]_vars

\* A session that is running becomes free again, unless the process crashes.
BecomesFree ==
  \A s \in Sessions :
    (Exists(s) /\ mem[s].running) ~> ~(Exists(s) /\ mem[s].running)

-----------------------------------------------------------------------------
(* The parts of an inductive invariant. *)

\* A session in memory is on disk, and so is that of a turn, which memory has
\* whenever the process runs.
SessionsKnown ==
  /\ \A s \in Sessions : Exists(s) => disk[s] # None
  /\ \A t \in Turns : pc[t] # "idle" =>
       on[t] \in Sessions /\ disk[on[t]] # None /\ (up => Exists(on[t]))

\* The stages a turn may be in: nothing goes on in a process that is down, and a
\* turn has an answer only when it ends.
StagesKept ==
  /\ ~up => pending = {} /\ \A t \in Turns : pc[t] \notin UnderWay \cup {"resolving"}
  /\ \A t \in Turns :
       /\ t \in pending => pc[t] \in {"planning", "ending", "done"}
       /\ t \in Reviews => pc[t] \notin {"resolving", "asking", "catching"}
       /\ t \notin Reviews => pc[t] # "planning"
       /\ pc[t] \in {"idle", "resolving"} \cup Awaiting => answer[t] = None

\* The controller of a session is that of its turn, and a turn to be cancelled
\* has begun, and had its controller aborted.
ControllerKept ==
  /\ ~raced => \A t \in Turns : pc[t] \in UnderWay => controller[on[t]] = t
  /\ \A t \in cancelled :
       /\ pc[t] \notin {"idle", "resolving"}
       /\ pc[t] \in Awaiting /\ ~raced => t \in aborted

Question(t) == [role |-> "user", turn |-> t]
Reply(t) == [role |-> "assistant", turn |-> t]

\* No message of ms is of turn t.
Silent(ms, t) == \A i \in 1..Len(ms) : ms[i].turn # t

SilentUntilAsked ==
  ~raced => \A t \in Turns : pc[t] \in {"idle", "resolving"} \/ t \in Reviews =>
    \A s \in Sessions : /\ Exists(s) => Silent(mem[s].messages, t)
                        /\ disk[s] # None => Silent(disk[s].messages, t)

\* The messages ms end with the question of turn t, its only message so far.
EndsWithQuestion(ms, t) ==
  ms # <<>> /\ Last(ms) = Question(t) /\ Silent(Front(ms), t)

\* What the catch of a turn takes back is its own: its question, or the answer
\* that could not be written.
QuestionLast ==
  ~raced => \A t \in Turns :
    /\ pc[t] = "asking" => EndsWithQuestion(On(t).messages, t)
    /\ pc[t] = "catching" =>
         \/ EndsWithQuestion(On(t).messages, t)
         \/ faults > 0 /\ On(t).messages # <<>> /\ Last(On(t).messages) = Reply(t)

\* The session r has the result of turn t.
HasResult(r, t) ==
  IF t \in Reviews THEN t \in r.plans
  ELSE \E i \in 2..Len(r.messages) :
         r.messages[i] = Reply(t) /\ r.messages[i - 1] = Question(t)

NotAsked(r, t) == \A i \in 1..Len(r.messages) : r.messages[i] # Question(t)

\* The result of an answered turn is on disk and, while the process runs, in
\* memory; the question of a failed one is in neither, if there were no faults.
ResultsKept ==
  ~raced => \A t \in Turns : pc[t] \in {"ending", "done"} =>
    /\ answer[t] = "answered" => HasResult(disk[on[t]], t) /\ (up => HasResult(On(t), t))
    /\ answer[t] = "failed" /\ faults = 0 =>
         NotAsked(disk[on[t]], t) /\ (up => NotAsked(On(t), t))

\* A failed write is a fault, now or before.
SyncedKept == faults = 0 => synced

IInv ==
  /\ TypeOK
  /\ SessionsKnown /\ StagesKept /\ SyncedKept
  /\ RunningIsTrue /\ InterruptionIsOnDisk
  /\ ControllerKept
  /\ SilentUntilAsked /\ QuestionLast /\ ResultsKept
=============================================================================
