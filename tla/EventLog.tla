------------------------------ MODULE EventLog ------------------------------
(***************************************************************************)
(* The event bus (runtime/event-bus.mjs), the two ways of reading it       *)
(* (http-server.mjs: the pages of GET /v1/events and the stream of GET     *)
(* /v1/events/stream) and the control panel that follows the stream        *)
(* (connectEvents of runtime/control-panel.mjs).                           *)
(*                                                                         *)
(* A handler of the server runs without an await, so that publish, list    *)
(* and the opening of a stream are one step each.  Between them the server *)
(* dies or is closed, another server of the same workspace writes the      *)
(* file, and the connection of a panel drops.                              *)
(*                                                                         *)
(* Simplifications:                                                        *)
(*   - An event is its sequence and an id; type and data are left out.     *)
(*   - The write of events.json has the outcomes that SnapshotStore.tla    *)
(*     allows: done, failed without effect, or in place and reported as    *)
(*     failed.                                                             *)
(* An operator named ...Mutant is a faulty variation of the definition     *)
(* after it; the specification does not use it.                            *)
(***************************************************************************)
EXTENDS Integers, Sequences, SequencesExt

CONSTANTS
  Panels,       \* control panels, which follow the stream
  Pollers,      \* programs that fetch page after page
  Retention,    \* the limit of createEventBus: how many events are kept
  PageLimit,    \* how many events a page holds at most
  MaxEvents,    \* bound: the number of publish calls
  MaxFailures   \* bound: crashes, drops, reloads and writes by others

ASSUME ConstantsAssumption ==
  /\ Retention \in Nat \ {0}
  /\ PageLimit \in 1..Retention
  /\ {MaxEvents, MaxFailures} \subseteq Nat
  /\ Panels \cap Pollers = {}

Readers == Panels \cup Pollers

VARIABLES
  file,      \* events.json
  up,        \* whether the server runs
  bus,       \* sequence and events of its bus
  current,   \* whether its persistedDigest is the digest of the file
  attempts,  \* the publish calls so far, the ids of their events
  failures,
  stream,    \* per panel: "idle" (no connection is due until its user
             \* clicks Connect), "off" (one is due), "open", "expired" (409)
  mark,      \* per panel: the sequence its subscription starts after, and
             \* after a 409 the earliest sequence the answer names
  wire,      \* per panel: events written to the stream and not yet read
  cursor,    \* state.lastEvent of a panel, the next "after" of a poller
  seen,      \* history: the events a reader has been shown
  unsent     \* history: the retained events that the first page of a stream
             \* has no room for

vars == <<file, up, bus, current, attempts, failures, stream, mark, wire,
          cursor, seen, unsent>>

serverVars == <<file, up, bus, current, attempts>>
readerVars == <<stream, mark, wire, cursor, seen, unsent>>

Events == [seq: 1..MaxEvents, id: 1..MaxEvents]

TypeOK ==
  /\ \A log \in {file, bus} : log.sequence \in 0..MaxEvents /\ log.events \in Seq(Events)
  /\ up \in BOOLEAN
  /\ current \in BOOLEAN
  /\ attempts \in 0..MaxEvents
  /\ failures \in 0..MaxFailures
  /\ stream \in [Panels -> {"idle", "off", "open", "expired"}]
  /\ mark \in [Panels -> 0..MaxEvents + 1]
  /\ wire \in [Panels -> Seq(Events)]
  /\ cursor \in [Readers -> 0..MaxEvents]
  /\ seen \in [Readers -> SUBSET Events]
  /\ unsent \in [Panels -> SUBSET Events]

Init ==
  /\ file = [sequence |-> 0, events |-> <<>>]
  /\ up = FALSE
  /\ bus = file
  /\ current = TRUE
  /\ attempts = 0
  /\ failures = 0
  /\ stream = [p \in Panels |-> "idle"]
  /\ mark = [p \in Panels |-> 0]
  /\ wire = [p \in Panels |-> <<>>]
  /\ cursor = [r \in Readers |-> 0]
  /\ seen = [r \in Readers |-> {}]
  /\ unsent = [p \in Panels |-> {}]

-----------------------------------------------------------------------------
\* The bus.

\* Only the newest events are kept.
Newest(events) == IF Len(events) > Retention THEN Tail(events) ELSE events

\* The log with one more event.
Added(log) ==
  LET event == [seq |-> log.sequence + 1, id |-> attempts + 1]
  IN  [sequence |-> event.seq, events |-> Newest(Append(log.events, event))]

Earliest(log) ==
  IF log.events = <<>> THEN log.sequence + 1 ELSE Head(log.events).seq

\* The events after a cursor: the log ascends, so they are its end.
After(log, after) ==
  LET first == CHOOSE i \in 1..Len(log.events) + 1 :
                 /\ \A j \in 1..i - 1 : log.events[j].seq <= after
                 /\ \A j \in i..Len(log.events) : log.events[j].seq > after
  IN  SubSeq(log.events, first, Len(log.events))

PageMutant(log, after) ==
  LET items == After(log, after)
  IN  SubSeq(items, IF Len(items) > PageLimit THEN Len(items) - PageLimit + 1 ELSE 1,
             Len(items))

\* The page of list: the oldest events after the cursor.
Page(log, after) ==
  LET items == After(log, after)
  IN  SubSeq(items, 1, IF Len(items) < PageLimit THEN Len(items) ELSE PageLimit)

CursorExpired(log, after) == after > 0 /\ after < Earliest(log) - 1

\* The event goes to the subscribers that start before it.
Deliver(event) ==
  wire' = [p \in Panels |->
             IF stream[p] = "open" /\ event.seq > mark[p]
             THEN Append(wire[p], event) ELSE wire[p]]

RolledBackMutant(before, after) == after
RolledBack(before, after) == before

\* publish: the event is stored, then delivered.  If it cannot be stored, or
\* seems not to be, the bus takes the event and its sequence back and throws.
Publish ==
  /\ up /\ attempts < MaxEvents
  /\ attempts' = attempts + 1
  /\ LET new == Added(bus)
     IN \/ /\ current
           /\ file' = new
           /\ bus' = new
           /\ Deliver(Last(new.events))
           /\ UNCHANGED current
        \/ /\ bus' = RolledBack(bus, new)
           /\ UNCHANGED <<file, current, wire>>
        \/ /\ current
           /\ file' = new
           /\ current' = FALSE
           /\ bus' = RolledBack(bus, new)
           /\ UNCHANGED wire
  /\ UNCHANGED <<up, failures, stream, mark, cursor, seen, unsent>>

Fail == failures < MaxFailures /\ failures' = failures + 1

\* A second server of the workspace has loaded the file and publishes an event.
OtherPublishes ==
  /\ Fail
  /\ attempts < MaxEvents
  /\ attempts' = attempts + 1
  /\ file' = Added(file)
  /\ current' = FALSE
  /\ UNCHANGED <<up, bus>> /\ UNCHANGED readerVars

\* restore: a start reads the file.
Start ==
  /\ ~up
  /\ up' = TRUE
  /\ bus' = file
  /\ current' = TRUE
  /\ UNCHANGED <<file, attempts, failures>> /\ UNCHANGED readerVars

\* The server is killed: the connections break, what has not been read is lost.
Crash ==
  /\ up /\ Fail
  /\ up' = FALSE
  /\ stream' = [p \in Panels |-> IF stream[p] = "idle" THEN "idle" ELSE "off"]
  /\ wire' = [p \in Panels |-> IF stream[p] = "idle" THEN wire[p] ELSE <<>>]
  /\ UNCHANGED <<file, bus, current, attempts, mark, cursor, seen, unsent>>

\* close: the streams end cleanly, with what is on its way.  The reading loop of
\* a panel then stops at x.done, and nothing sets its reconnection timer.
Stop ==
  /\ up /\ Fail
  /\ up' = FALSE
  /\ stream' = [p \in Panels |-> IF stream[p] = "open" THEN "idle" ELSE stream[p]]
  /\ UNCHANGED <<file, bus, current, attempts, mark, wire, cursor, seen, unsent>>

-----------------------------------------------------------------------------
\* The stream and the panel.

SubscribeAfterMutant(log) == log.sequence + 1
SubscribeAfter(log) == log.sequence

\* GET /v1/events/stream: the first page, then a subscription from the latest
\* sequence on; or 409 when events after the cursor are gone.
OpenStream(p) ==
  /\ up /\ stream[p] = "off"
  /\ IF CursorExpired(bus, cursor[p])
     THEN /\ stream' = [stream EXCEPT ![p] = "expired"]
          /\ mark' = [mark EXCEPT ![p] = Earliest(bus)]
          /\ UNCHANGED <<wire, unsent>>
     ELSE /\ stream' = [stream EXCEPT ![p] = "open"]
          /\ mark' = [mark EXCEPT ![p] = SubscribeAfter(bus)]
          /\ wire' = [wire EXCEPT ![p] = Page(bus, cursor[p])]
          /\ unsent' = [unsent EXCEPT ![p] =
               (@ \cup ToSet(After(bus, cursor[p]))) \ ToSet(Page(bus, cursor[p]))]
  /\ UNCHANGED <<failures, cursor, seen>> /\ UNCHANGED serverVars

ResumeAt(earliest) == earliest - 1

\* The panel reads a 409 and connects again from the earliest sequence.
HandleExpired(p) ==
  /\ stream[p] = "expired"
  /\ stream' = [stream EXCEPT ![p] = "off"]
  /\ cursor' = [cursor EXCEPT ![p] = ResumeAt(mark[p])]
  /\ UNCHANGED <<failures, mark, wire, seen, unsent>> /\ UNCHANGED serverVars

\* The panel reads an event; one it has shown already is skipped.
ReadEvent(p) ==
  /\ wire[p] # <<>>
  /\ wire' = [wire EXCEPT ![p] = Tail(@)]
  /\ LET event == Head(wire[p])
     IN IF event.seq > cursor[p]
        THEN /\ cursor' = [cursor EXCEPT ![p] = event.seq]
             /\ seen' = [seen EXCEPT ![p] = @ \cup {event}]
        ELSE UNCHANGED <<cursor, seen>>
  /\ UNCHANGED <<failures, stream, mark, unsent>> /\ UNCHANGED serverVars

\* The panel connects anew from its cursor; what it has not read is lost.
Reconnect(p) ==
  /\ stream' = [stream EXCEPT ![p] = "off"]
  /\ wire' = [wire EXCEPT ![p] = <<>>]
  /\ UNCHANGED <<mark, cursor, seen, unsent>> /\ UNCHANGED serverVars

\* The connection drops before its end has been read, or the user clicks Connect
\* while it is open.
Drop(p) ==
  /\ stream[p] \in {"open", "expired"} \/ wire[p] # <<>>
  /\ Fail
  /\ Reconnect(p)

\* The user clicks Connect when no connection is due.
Connect(p) ==
  /\ stream[p] = "idle"
  /\ Reconnect(p)
  /\ UNCHANGED failures

\* The panel is loaded anew: it has no cursor, and no token to connect with.
Reload(p) ==
  /\ Fail
  /\ stream' = [stream EXCEPT ![p] = "idle"]
  /\ wire' = [wire EXCEPT ![p] = <<>>]
  /\ cursor' = [cursor EXCEPT ![p] = 0]
  /\ seen' = [seen EXCEPT ![p] = {}]
  /\ unsent' = [unsent EXCEPT ![p] = {}]
  /\ UNCHANGED mark /\ UNCHANGED serverVars

\* GET /v1/events: the next page, from which nextAfter continues.
Poll(r) ==
  /\ up
  /\ LET page == Page(bus, cursor[r])
     IN /\ page # <<>>
        /\ cursor' = [cursor EXCEPT ![r] = Last(page).seq]
        /\ seen' = [seen EXCEPT ![r] = @ \cup ToSet(page)]
  /\ UNCHANGED <<failures, stream, mark, wire, unsent>> /\ UNCHANGED serverVars

Next ==
  \/ Publish \/ OtherPublishes \/ Start \/ Crash \/ Stop
  \/ \E p \in Panels :
       \/ OpenStream(p) \/ HandleExpired(p) \/ ReadEvent(p)
       \/ Drop(p) \/ Connect(p) \/ Reload(p)
  \/ \E r \in Pollers : Poll(r)

Spec == Init /\ [][Next]_vars

\* The server is started again, and the panel's reconnection timer, when it is
\* set, and its reading loop run; a failure, a close and a click are never due.
Fairness ==
  /\ WF_vars(Start)
  /\ \A p \in Panels :
       WF_vars(OpenStream(p)) /\ WF_vars(HandleExpired(p)) /\ WF_vars(ReadEvent(p))

FairSpec == Spec /\ Fairness

-----------------------------------------------------------------------------
\* The event is the one events.json holds under its sequence, or too old to
\* be there.
Stored(e) ==
  /\ e.seq <= file.sequence
  /\ e.seq >= Earliest(file) => e \in ToSet(file.events)

\* An event that a reader has been shown is stored: publish stores before it
\* delivers, so that no crash and no failed write lets a sequence be used twice.
ShownIsStored ==
  \A r \in Readers : \A e \in seen[r] : Stored(e)

\* A reader has been shown every event that is still kept at or before its
\* cursor, except those for which the first page of a stream had no room
\* (subscribeFrom subscribes after the latest sequence, not after the page).
CursorCoversHistory ==
  /\ \A r \in Pollers : \A e \in ToSet(bus.events) :
       e.seq <= cursor[r] => e \in seen[r]
  /\ \A p \in Panels : \A e \in ToSet(bus.events) :
       e.seq <= cursor[p] => e \in seen[p] \cup unsent[p]

\* The parts of the inductive invariant.

\* The newest events are kept, and numbered without a gap.
WellNumbered(log) ==
  /\ Len(log.events) = IF log.sequence < Retention THEN log.sequence ELSE Retention
  /\ \A i \in 1..Len(log.events) : log.events[i].seq = log.sequence - Len(log.events) + i

\* The bus has what the file has, or had: its events are stored.
LogsKept ==
  /\ WellNumbered(file) /\ WellNumbered(bus)
  /\ bus.sequence <= file.sequence /\ file.sequence <= attempts
  /\ current => bus = file
  /\ \A e \in ToSet(bus.events) : Stored(e)

\* What is on its way to a panel is stored, and no cursor is ahead of the file.
DeliveryKept ==
  /\ \A p \in Panels : \A e \in ToSet(wire[p]) : Stored(e)
  /\ \A r \in Readers : cursor[r] <= file.sequence

\* An open stream has brought, or will bring, all of the bus that its first
\* page had room for.
StreamsKept ==
  \A p \in Panels :
    /\ ~up => stream[p] # "open"
    /\ stream[p] = "expired" => 1 <= mark[p] /\ mark[p] <= Earliest(bus)
    /\ stream[p] = "open" =>
         /\ mark[p] <= bus.sequence
         /\ ToSet(bus.events) \subseteq seen[p] \cup unsent[p] \cup ToSet(wire[p])

Covered(r) == IF r \in Panels THEN seen[r] \cup unsent[r] ELSE seen[r]

\* Whatever log the bus may have after a restart, a reader has seen what lies
\* before its cursor, and a panel will have when it has read up to an event.
CoverKept ==
  \A e \in ToSet(bus.events) \cup ToSet(file.events) :
    /\ \A r \in Readers : e.seq <= cursor[r] => e \in Covered(r)
    /\ \A p \in Panels : \A i \in 1..Len(wire[p]) :
         e.seq <= wire[p][i].seq => e \in Covered(p) \cup {wire[p][j] : j \in 1..i}

IInv == TypeOK /\ LogsKept /\ DeliveryKept /\ ShownIsStored /\ StreamsKept /\ CoverKept

\* A panel catches up with every event of the bus once failures end, through
\* broken connections and expired cursors, unless a first page had no room for
\* the events after its cursor, or a close has ended its stream: then it reads
\* what the stream had, and waits for a click.
PanelCatchesUp ==
  \A p \in Panels : \A n \in 1..MaxEvents :
    (bus.sequence = n) ~>
      \/ cursor[p] >= n
      \/ unsent[p] # {}
      \/ stream[p] = "idle" /\ wire[p] = <<>>
=============================================================================
