----------------------------- MODULE BridgeTunnel -----------------------------
(***************************************************************************)
(* createBridgeTunnelAdapter of runtime/bridge-tunnel.mjs: start, stop and *)
(* reset of a tunnel process, which report to their callers through three  *)
(* shared promises.  A step is what runs between two events; what goes on  *)
(* after an await runs before the next event of a process or a timer, but  *)
(* another call may come first.                                            *)
(*                                                                         *)
(* Simplifications:                                                        *)
(*   - An adapter keeps its configuration; what its checks refuse never    *)
(*     starts.  kill does not throw, and observers do not call back.       *)
(*   - A generation is the process spawned in it, or 0 once stop has begun *)
(*     a new one.  A route is whether the child was given it.              *)
(* An operator named ...Mutant is a faulty variation of the definition     *)
(* after it; the specification does not use it.                            *)
(***************************************************************************)
EXTENDS Integers, FiniteSets

CONSTANT MaxSpawns   \* bound: the processes ever spawned

ASSUME MaxSpawnsAssumption == MaxSpawns \in Nat

Processes == 1..MaxSpawns

VARIABLES
  state,       \* of the adapter
  spawns,      \* how many processes have been spawned
  process,     \* each one: "none", "running", "coded" or "signalled" (exited
               \* with or without a code), "closed" (its output too)
  child,       \* the handle kept, 0 without
  generation,  \* the process of the current generation, 0 without
  url,         \* the process that reported publicUrl, 0 without
  routed,      \* whether routePath is the one the last process was given
  start,       \* startPromise: "no", "waiting" (for a URL), "resolved",
               \* "rejected", "killing", "killed" or "stuck" (clean-up)
  stop,        \* stopPromise: "no", "waits" (for the start), "killing",
               \* "killed" or "stuck"; "left" if stored when already settled
  reset,       \* resetPromise: "no", "stopping", "stopped", "failed"
  target,      \* the process that stopProcess waits for
  watched      \* the processes a timed-out stopProcess still listens to

vars == <<state, spawns, process, child, generation, url, routed, start, stop,
          reset, target, watched>>

TypeOK ==
  /\ state \in {"idle", "starting", "ready", "stopping", "failed"}
  /\ spawns \in 0..MaxSpawns
  /\ process \in [Processes -> {"none", "running", "coded", "signalled", "closed"}]
  /\ {child, generation, url, target} \subseteq 0..spawns
  /\ routed \in BOOLEAN
  /\ start \in {"no", "waiting", "resolved", "rejected", "killing", "killed", "stuck"}
  /\ stop \in {"no", "waits", "killing", "killed", "stuck", "left"}
  /\ reset \in {"no", "stopping", "stopped", "failed"}
  /\ watched \subseteq 1..spawns

Init ==
  /\ state = "idle"
  /\ spawns = 0 /\ process = [p \in Processes |-> "none"]
  /\ child = 0 /\ generation = 0 /\ url = 0 /\ target = 0
  /\ routed = FALSE
  /\ start = "no" /\ stop = "no" /\ reset = "no"
  /\ watched = {}

Continues ==
  \/ start \in {"resolved", "rejected", "killed", "stuck"}
  \/ stop \in {"killed", "stuck"} \/ (stop = "waits" /\ start = "no")
  \/ reset \in {"stopped", "failed"}

MustWait == child # 0 /\ process[child] \in {"running", "signalled"}

\* stopProcess: the process is killed and waited for; the clean-up goes on at
\* once if there is no process or it has exited with a code.
StopProcess ==
  IF MustWait THEN target' = child /\ UNCHANGED child
  ELSE child' = 0 /\ UNCHANGED target

CleanUp == IF MustWait THEN "killing" ELSE "killed"

-----------------------------------------------------------------------------
\* start

Busy ==
  state \in {"starting", "stopping"} \/ start # "no" \/ stop # "no" \/ reset # "no"

\* A process that a stop could not end is killed again, and the start fails;
\* otherwise a process is spawned with a new route, or spawn throws.
Start ==
  /\ state # "ready" /\ ~Busy
  /\ IF child # 0
     THEN /\ StopProcess /\ start' = CleanUp
          /\ UNCHANGED <<state, spawns, process, generation, url, routed>>
     ELSE /\ state' = "starting"
          /\ url' = 0
          /\ routed' = TRUE
          /\ \/ /\ spawns < MaxSpawns
                /\ spawns' = spawns + 1
                /\ process' = [process EXCEPT ![spawns + 1] = "running"]
                /\ child' = spawns + 1 /\ generation' = spawns + 1
                /\ start' = "waiting"
             \/ /\ generation' = 0
                /\ start' = "rejected"
                /\ UNCHANGED <<spawns, process, child>>
          /\ UNCHANGED target
  /\ UNCHANGED <<stop, reset, watched>>

CurrentMutant == child # 0

\* No stop has come since the process was spawned.
Current == generation = spawns /\ child # 0

StartContinues ==
  /\ \/ /\ start = "resolved" /\ Current
        /\ state' = "ready"
        /\ start' = "no"
        /\ UNCHANGED <<child, url, target>>
     \/ /\ start = "rejected" \/ (start = "resolved" /\ ~Current)
        /\ StopProcess /\ start' = CleanUp
        /\ UNCHANGED <<state, url>>
     \/ /\ start \in {"killed", "stuck"}
        /\ url' = 0
        /\ state' = "failed"
        /\ start' = "no"
        /\ UNCHANGED <<child, target>>
  /\ UNCHANGED <<spawns, process, generation, routed, stop, reset, watched>>

UrlTimeout ==
  /\ ~Continues /\ start = "waiting"
  /\ start' = "rejected"
  /\ UNCHANGED <<state, spawns, process, child, generation, url, routed, stop, reset,
                 target, watched>>

-----------------------------------------------------------------------------
\* stop and reset

\* What stop does before its first await; `stop` is "no".
StopCalled ==
  /\ generation' = 0
  /\ IF start = "waiting" THEN start' = "rejected" ELSE UNCHANGED start
  /\ IF start # "no"
     THEN /\ state' = "stopping"
          /\ stop' = "waits"
          /\ UNCHANGED <<child, target>>
     ELSE /\ state' = "stopping"
          /\ StopProcess /\ stop' = CleanUp

Down == state = "idle" /\ child = 0

IdleStopMutant ==
  /\ generation' = 0
  /\ stop' = "left"
  /\ UNCHANGED <<state, child, start, target>>

\* Without anything to stop no promise is kept.
IdleStop ==
  /\ generation' = 0
  /\ UNCHANGED <<state, child, start, stop, target>>

\* A stop in progress is shared.
Stop ==
  /\ stop = "no"
  /\ IF Down THEN IdleStop ELSE StopCalled
  /\ UNCHANGED <<spawns, process, url, routed, reset, watched>>

\* The reset that waits for a stop goes on when that ends.
ResetGoes(phase) ==
  IF reset = "stopping" THEN reset' = phase ELSE UNCHANGED reset

\* (The return of an adapter that is down when the start has ended is left
\* out: a start that a stop has interrupted ends as failed.)
StopContinues ==
  /\ \/ /\ stop = "waits" /\ start = "no"
        /\ state' = "stopping"
        /\ StopProcess /\ stop' = CleanUp
        /\ UNCHANGED <<url, reset>>
     \/ /\ stop = "killed"
        /\ url' = 0
        /\ state' = "idle"
        /\ stop' = "no"
        /\ ResetGoes("stopped")
        /\ UNCHANGED <<child, target>>
     \/ /\ stop = "stuck"
        /\ state' = "failed"
        /\ stop' = "no"
        /\ ResetGoes("failed")
        /\ UNCHANGED <<child, url, target>>
  /\ UNCHANGED <<spawns, process, generation, routed, start, watched>>

\* A reset in progress is shared, and so is the stop it begins with.
Reset ==
  /\ reset = "no"
  /\ IF stop # "no" THEN reset' = "stopping" /\ UNCHANGED <<state, child, generation, start, stop, target>>
     ELSE IF Down THEN reset' = "stopped" /\ IdleStop
     ELSE reset' = "stopping" /\ StopCalled
  /\ UNCHANGED <<spawns, process, url, routed, watched>>

ResetContinues ==
  /\ \/ reset = "stopped" /\ routed' = FALSE
     \/ reset = "failed" /\ UNCHANGED routed
  /\ reset' = "no"
  /\ UNCHANGED <<state, spawns, process, child, generation, url, start, stop, target, watched>>

-----------------------------------------------------------------------------
\* The processes.

\* A process reports a URL; which generation it is of is not asked.
Report(p) ==
  /\ ~Continues /\ process[p] \in {"running", "coded", "signalled"}
  /\ url' = p
  /\ IF start = "waiting" THEN start' = "resolved" ELSE UNCHANGED start
  /\ UNCHANGED <<state, spawns, process, child, generation, routed, stop, reset, target, watched>>

\* The listeners of stopProcess, for an exit or a close of process p; `kept`
\* is the handle that the listener of start has left.
Gone(p, kept) ==
  LET waits == target = p /\ "killing" \in {start, stop}
  IN /\ child' = IF kept = p /\ (waits \/ p \in watched) THEN 0 ELSE kept
     /\ IF waits /\ stop = "killing" THEN stop' = "killed" ELSE UNCHANGED stop
     /\ target' = IF waits THEN 0 ELSE target

ExitMutant(p) ==
  /\ ~Continues /\ process[p] = "running"
  /\ \E how \in {"coded", "signalled"} : process' = [process EXCEPT ![p] = how]
  /\ UNCHANGED <<state, url>>
  /\ Gone(p, child)
  /\ start' = IF start = "killing" /\ target = p THEN "killed"
              ELSE IF generation = p /\ state = "starting" /\ start = "waiting" THEN "rejected"
              ELSE start
  /\ UNCHANGED <<spawns, generation, routed, reset, watched>>

\* In its own generation an exit fails a tunnel that is ready, and a start
\* that waits.
Exit(p) ==
  /\ ~Continues /\ process[p] = "running"
  /\ \E how \in {"coded", "signalled"} : process' = [process EXCEPT ![p] = how]
  /\ IF generation = p /\ state = "ready"
     THEN /\ state' = "failed"
          /\ url' = 0
          /\ Gone(p, IF child = p THEN 0 ELSE child)
     ELSE /\ UNCHANGED <<state, url>>
          /\ Gone(p, child)
  /\ start' = IF start = "killing" /\ target = p THEN "killed"
              ELSE IF generation = p /\ state = "starting" /\ start = "waiting" THEN "rejected"
              ELSE start
  /\ UNCHANGED <<spawns, generation, routed, reset, watched>>

\* Its output has ended too.
Close(p) ==
  /\ ~Continues /\ process[p] \in {"coded", "signalled"}
  /\ process' = [process EXCEPT ![p] = "closed"]
  /\ Gone(p, child)
  /\ start' = IF start = "killing" /\ target = p THEN "killed" ELSE start
  /\ UNCHANGED <<state, spawns, generation, url, routed, reset, watched>>

\* The command cannot be run: an error and no exit.  The start that waits
\* still waits for its timer.
SpawnError(p) ==
  /\ ~Continues /\ process[p] = "running" /\ start = "waiting" /\ p = spawns
  /\ process' = [process EXCEPT ![p] = "closed"]
  /\ state' = IF generation = p THEN "failed" ELSE state
  /\ UNCHANGED <<spawns, child, generation, url, routed, start, stop, reset, target, watched>>

StopTimeoutMutant ==
  /\ ~Continues /\ "killing" \in {start, stop}
  /\ child' = 0
  /\ target' = 0
  /\ start' = IF start = "killing" THEN "stuck" ELSE start
  /\ stop' = IF stop = "killing" THEN "stuck" ELSE stop
  /\ UNCHANGED <<state, spawns, process, generation, url, routed, reset, watched>>

\* The process does not end: its handle is kept, until it does.
StopTimeout ==
  /\ ~Continues /\ "killing" \in {start, stop}
  /\ watched' = watched \cup {target}
  /\ target' = 0
  /\ start' = IF start = "killing" THEN "stuck" ELSE start
  /\ stop' = IF stop = "killing" THEN "stuck" ELSE stop
  /\ UNCHANGED <<state, spawns, process, child, generation, url, routed, reset>>

Next ==
  \/ Start \/ StartContinues \/ UrlTimeout \/ Stop \/ StopContinues
  \/ Reset \/ ResetContinues \/ StopTimeout
  \/ \E p \in Processes : Report(p) \/ Exit(p) \/ Close(p) \/ SpawnError(p)

Spec == Init /\ [][Next]_vars

\* Continuations run and timers fire; no process has to report or to end.
Fairness ==
  /\ WF_vars(StartContinues) /\ WF_vars(StopContinues) /\ WF_vars(ResetContinues)
  /\ WF_vars(UrlTimeout) /\ WF_vars(StopTimeout)

FairSpec == Spec /\ Fairness

-----------------------------------------------------------------------------
\* The inductive invariant of BridgeTunnelProofs.

\* The one process that may run is the last one, and its handle is kept.
HandleKept ==
  /\ {child, generation} \subseteq {0, spawns}
  /\ \A p \in Processes :
       /\ process[p] = "running" => p = child
       /\ p > spawns => process[p] = "none"

\* A stop ends what the start has begun before it waits for the process, and
\* its end, or that of a reset, finds nothing to stop.
StopKept ==
  /\ stop \notin {"no", "waits"} => start = "no"
  /\ "killing" \in {start, stop} => child # 0 /\ target = child
  /\ stop = "killed" => child = 0
  /\ stop # "no" \/ reset # "no" => generation = 0
  /\ state = "idle" => child = 0 /\ start = "no"
  /\ reset = "stopped" => state = "idle" /\ stop = "no"

\* The process of a start that no stop has interrupted, or of a ready adapter:
\* it runs, or could not be run and has reported nothing.
Open ==
  /\ routed /\ child = spawns /\ spawns # 0
  /\ process[spawns] \in {"running", "closed"}
  /\ url = spawns => process[spawns] = "running"

StartKept ==
  /\ state = "ready" => Open /\ generation = spawns /\ start = "no"
  /\ start = "waiting" =>
       /\ Open /\ generation = spawns /\ url # spawns
       /\ process[spawns] = "running" => state = "starting"
  /\ start = "resolved" /\ Current => Open

IInv == TypeOK /\ HandleKept /\ StopKept /\ StartKept

-----------------------------------------------------------------------------
Running == {p \in Processes : process[p] = "running"}

\* No second tunnel is opened beside one that runs, and an idle adapter has
\* left none behind, even if an earlier stop had to give up.
OneTunnel ==
  /\ Cardinality(Running) <= 1
  /\ state = "idle" => Running = {}

\* The endpoint that is handed out has the route the process was given, and
\* is withdrawn when the process that reported it ends.
EndpointIsLive ==
  state = "ready" => routed /\ child # 0 /\ (url = child => child \in Running)

\* A start does not report success to its caller once a stop or a reset has
\* begun, even if the URL came just before.
StopWins == [][state # "ready" /\ state' = "ready" => stop = "no" /\ reset = "no"]_vars

\* start, stop and reset come to an end, and leave no promise that would make
\* every later start busy, whatever the processes do.
CallsEnd ==
  /\ start # "no" ~> start = "no"
  /\ stop # "no" ~> stop = "no"
  /\ reset # "no" ~> reset = "no"
=============================================================================
