--------------------------- MODULE EventLogProofs ---------------------------
(***************************************************************************)
(* Proofs about the event log: EventLog, for any panels, pollers, limits   *)
(* and numbers of events and failures, and the store its file is kept in,  *)
(* SnapshotStore.                                                          *)
(*                                                                         *)
(* The inductive invariant IInv of EventLog adds to the type invariant     *)
(*   - LogsKept: both logs are numbered without a gap, and the events of   *)
(*     the bus are stored;                                                 *)
(*   - DeliveryKept: what is on its way to a panel is stored, and no       *)
(*     cursor is ahead of the file;                                        *)
(*   - StreamsKept: an open stream brings all of the bus that its first    *)
(*     page had room for, and a 409 names no sequence after the earliest;  *)
(*   - CoverKept: a reader has been shown what lies before its cursor in   *)
(*     the bus and in the file, and a panel will have been when it has     *)
(*     read up to an event on its way.                                     *)
(* ReaderByReader says the same of one reader after the other, so that the *)
(* step of one reader is PanelStep or PollStep whatever the others are at. *)
(***************************************************************************)
EXTENDS EventLog, SnapshotStore, TLAPS

-----------------------------------------------------------------------------
(* Logs *)

\* What is in a sequence has an index.
LEMMA InSequence ==
  ASSUME NEW S, NEW s \in Seq(S)
  PROVE  /\ ToSet(s) \subseteq S
         /\ Len(s) \in Nat
         /\ \A x : x \in ToSet(s) <=> \E i \in 1..Len(s) : s[i] = x
BY DEF ToSet

\* A well-numbered log has one event for each number from its earliest on.
LEMMA LogNumbers ==
  ASSUME NEW log, log.sequence \in Nat, log.events \in Seq(Events), WellNumbered(log)
  PROVE  /\ Earliest(log) = log.sequence - Len(log.events) + 1
         /\ Earliest(log) \in Nat /\ 1 <= Earliest(log)
         /\ \A e \in ToSet(log.events) :
              e \in Events /\ e.seq \in Nat /\ Earliest(log) <= e.seq /\ e.seq <= log.sequence
         /\ \A e, f \in ToSet(log.events) : e.seq = f.seq => e = f
         /\ \A n \in Nat : Earliest(log) <= n /\ n <= log.sequence
                             => \E e \in ToSet(log.events) : e.seq = n
<1> USE ConstantsAssumption DEF ConstantsAssumption
<1> DEFINE events == log.events
           n == Len(events)
           sequence == log.sequence
<1>1. /\ n \in Nat /\ n <= sequence /\ events \in Seq(Events) /\ sequence \in Nat
      /\ \A i \in 1..n : events[i] \in Events /\ events[i].seq = sequence - n + i
  BY SMTT(30) DEF WellNumbered
<1>2. \A x : x \in ToSet(events) <=> \E i \in 1..n : events[i] = x
  BY InSequence
<1>3. Earliest(log) = sequence - n + 1
  <2>1. CASE events = <<>>
    BY <1>1, <2>1 DEF Earliest
  <2>2. CASE events # <<>>
    <3>1. 1 \in 1..n /\ Head(events) = events[1]
      BY <1>1, <2>2
    <3>2. Earliest(log) = events[1].seq
      BY <2>2, <3>1 DEF Earliest
    <3> QED
      BY <1>1, <3>1, <3>2
  <2> QED
    BY <2>1, <2>2
<1> HIDE DEF events, n, sequence
<1>4. Earliest(log) \in Nat /\ 1 <= Earliest(log)
  BY <1>1, <1>3
<1>5. \A e \in ToSet(events) :
        e \in Events /\ e.seq \in Nat /\ Earliest(log) <= e.seq /\ e.seq <= sequence
  <2> SUFFICES ASSUME NEW e \in ToSet(events)
               PROVE  e \in Events /\ e.seq \in Nat /\ Earliest(log) <= e.seq /\ e.seq <= sequence
    OBVIOUS
  <2>1. PICK i \in 1..n : events[i] = e
    BY <1>2
  <2>2. e \in Events /\ e.seq = sequence - n + i
    BY <1>1, <2>1
  <2> QED
    BY <1>1, <1>3, <2>2
<1>6. \A e, f \in ToSet(events) : e.seq = f.seq => e = f
  <2> SUFFICES ASSUME NEW e \in ToSet(events), NEW f \in ToSet(events), e.seq = f.seq
               PROVE  e = f
    OBVIOUS
  <2>1. PICK i \in 1..n : events[i] = e
    BY <1>2
  <2>2. PICK j \in 1..n : events[j] = f
    BY <1>2
  <2>3. sequence - n + i = sequence - n + j
    BY <1>1, <2>1, <2>2
  <2>4. i = j
    BY <1>1, <2>3
  <2> QED
    BY <2>1, <2>2, <2>4
<1>7. \A m \in Nat : Earliest(log) <= m /\ m <= sequence => \E e \in ToSet(events) : e.seq = m
  <2> SUFFICES ASSUME NEW m \in Nat, Earliest(log) <= m, m <= sequence
               PROVE  \E e \in ToSet(events) : e.seq = m
    OBVIOUS
  <2> DEFINE i == m - (sequence - n)
  <2>1. i \in 1..n /\ sequence - n + i = m
    BY <1>1, <1>3
  <2> HIDE DEF i
  <2>2. events[i] \in ToSet(events) /\ events[i].seq = m
    BY <1>1, <1>2, <2>1
  <2> QED
    BY <2>2
<1> QED
  BY <1>3, <1>4, <1>5, <1>6, <1>7 DEF events, n, sequence

\* What a publish makes of a log.
LEMMA AddedLog ==
  ASSUME NEW log, log.sequence \in Nat, log.events \in Seq(Events), WellNumbered(log),
         log.sequence < MaxEvents, attempts \in Nat, attempts < MaxEvents,
         NEW event, event = [seq |-> log.sequence + 1, id |-> attempts + 1]
  PROVE  /\ Added(log).sequence = log.sequence + 1
         /\ Added(log).events \in Seq(Events)
         /\ WellNumbered(Added(log))
         /\ event \in Events
         /\ Last(Added(log).events) = event
         /\ event \in ToSet(Added(log).events)
         /\ ToSet(Added(log).events) \subseteq ToSet(log.events) \cup {event}
         /\ Earliest(log) <= Earliest(Added(log))
         /\ \A e \in ToSet(log.events) : e.seq >= Earliest(Added(log)) => e \in ToSet(Added(log).events)
<1> USE ConstantsAssumption DEF ConstantsAssumption
<1> DEFINE old == log.events
           n == Len(old)
           total == log.sequence
           longer == Append(old, event)
           new == Newest(longer)
<1>1. Added(log) = [sequence |-> total + 1, events |-> new]
  BY DEF Added
<1>2. event \in Events /\ event.seq = total + 1
  BY DEF Events
<1>3. /\ old \in Seq(Events) /\ n \in Nat /\ total \in Nat
      /\ n = IF total < Retention THEN total ELSE Retention
      /\ \A i \in 1..n : old[i].seq = total - n + i
  BY DEF WellNumbered
<1>4. /\ longer \in Seq(Events) /\ Len(longer) = n + 1
      /\ \A i \in 1..n : longer[i] = old[i]
      /\ longer[n + 1] = event
  BY SMTT(30), <1>2, <1>3
<1> HIDE DEF old, n, total, longer
<1>5. \E d \in {0, 1} :
        /\ new \in Seq(Events)
        /\ Len(new) = n + 1 - d
        /\ Len(new) = IF total + 1 < Retention THEN total + 1 ELSE Retention
        /\ \A i \in 1..Len(new) : new[i] = longer[i + d]
  <2>1. CASE n + 1 > Retention
    <3>1. new = Tail(longer) /\ longer # <<>>
      BY <1>3, <1>4, <2>1 DEF Newest
    <3>2. /\ new \in Seq(Events) /\ Len(new) = n
          /\ \A i \in 1..Len(new) : new[i] = longer[i + 1]
      BY <1>3, <1>4, <3>1
    <3>3. n = IF total + 1 < Retention THEN total + 1 ELSE Retention
      BY <1>3, <2>1
    <3> QED
      BY <1>3, <3>2, <3>3
  <2>2. CASE ~(n + 1 > Retention)
    <3>1. new = longer
      BY <1>3, <1>4, <2>2 DEF Newest
    <3>2. n + 1 = IF total + 1 < Retention THEN total + 1 ELSE Retention
      BY <1>3, <2>2
    <3>3. \A i \in 1..Len(new) : new[i] = longer[i + 0]
      BY <1>3, <1>4, <3>1
    <3> QED
      BY <1>3, <1>4, <3>1, <3>2, <3>3
  <2> QED
    BY <2>1, <2>2
<1>6. PICK d \in {0, 1} :
        /\ new \in Seq(Events)
        /\ Len(new) = n + 1 - d
        /\ Len(new) = IF total + 1 < Retention THEN total + 1 ELSE Retention
        /\ \A i \in 1..Len(new) : new[i] = longer[i + d]
  BY <1>5
<1> HIDE DEF new
<1>7. \A i \in 1..Len(new) : /\ i + d = n + 1 => new[i] = event
                             /\ i + d # n + 1 => i + d \in 1..n /\ new[i] = old[i + d]
  <2> SUFFICES ASSUME NEW i \in 1..Len(new)
               PROVE  /\ i + d = n + 1 => new[i] = event
                      /\ i + d # n + 1 => i + d \in 1..n /\ new[i] = old[i + d]
    OBVIOUS
  <2>1. new[i] = longer[i + d] /\ i + d \in 1..n + 1
    BY SMTT(30), <1>3, <1>6
  <2>2. CASE i + d = n + 1
    BY <1>4, <2>1, <2>2
  <2>3. CASE i + d # n + 1
    <3>1. i + d \in 1..n
      <4>1. i \in Int /\ d \in Int /\ n \in Int /\ i + d \in Int /\ 1 <= i + d /\ i + d <= n + 1
        BY <1>3, <2>1
      <4> QED
        BY <2>3, <4>1
    <3>2. longer[i + d] = old[i + d]
      BY <1>4, <3>1
    <3> QED
      BY <2>1, <2>3, <3>1, <3>2
  <2> QED
    BY <2>2, <2>3
<1>8. \A i \in 1..Len(new) : new[i].seq = total + 1 - Len(new) + i
  <2> SUFFICES ASSUME NEW i \in 1..Len(new)
               PROVE  new[i].seq = total + 1 - Len(new) + i
    OBVIOUS
  <2>1. i \in Int /\ d \in Int /\ Len(new) = n + 1 - d
    BY <1>6
  <2>2. CASE i + d = n + 1
    <3>1. new[i].seq = total + 1
      BY <1>2, <1>7, <2>2
    <3> QED
      BY <1>3, <2>1, <2>2, <3>1
  <2>3. CASE i + d # n + 1
    <3>1. new[i] = old[i + d] /\ i + d \in 1..n
      BY <1>7, <2>3
    <3>2. new[i].seq = total - n + (i + d)
      BY <1>3, <3>1
    <3> QED
      BY <1>3, <2>1, <3>2
  <2> QED
    BY <2>2, <2>3
<1>9. WellNumbered(Added(log)) /\ Added(log).events = new /\ Added(log).sequence = total + 1
  <2>1. Added(log).events = new /\ Added(log).sequence = total + 1
    BY <1>1
  <2>2. Len(new) = IF total + 1 < Retention THEN total + 1 ELSE Retention
    BY <1>6
  <2>3. ASSUME NEW l, l.events = new, l.sequence = total + 1
        PROVE  WellNumbered(l)
    <3>1. Len(l.events) = IF l.sequence < Retention THEN l.sequence ELSE Retention
      BY <1>3, <1>6, <2>2, <2>3
    <3>2. ASSUME NEW i \in 1..Len(l.events)
          PROVE  l.events[i].seq = l.sequence - Len(l.events) + i
      <4>1. i \in 1..Len(new) /\ l.events[i].seq = new[i].seq
        BY <2>3
      <4>2. new[i].seq = total + 1 - Len(new) + i
        BY <1>8, <4>1
      <4>3. total \in Nat /\ Len(new) \in Nat /\ i \in Int
        BY <1>3, <1>6
      <4> QED
        BY <2>3, <4>1, <4>2, <4>3
    <3> QED
      BY <3>1, <3>2 DEF WellNumbered
  <2> QED
    BY <2>1, <2>3
<1>10. /\ \A x : x \in ToSet(old) <=> \E i \in 1..n : old[i] = x
       /\ \A x : x \in ToSet(new) <=> \E i \in 1..Len(new) : new[i] = x
  <2>1. old \in Seq(Events) /\ new \in Seq(Events)
    BY <1>3, <1>6
  <2> QED
    BY <2>1, InSequence DEF n
<1>11. Len(new) \in 1..Len(new) /\ new[Len(new)] = event
  <2>1. Len(new) \in Nat /\ Len(new) >= 1 /\ Len(new) + d = n + 1
    BY <1>3, <1>6
  <2>2. Len(new) \in 1..Len(new)
    BY <2>1
  <2> QED
    BY <1>7, <2>1, <2>2
<1>12. Last(new) = event /\ event \in ToSet(new)
  BY <1>10, <1>11 DEF Last
<1>13. ToSet(new) \subseteq ToSet(old) \cup {event}
  BY ZenonT(30), <1>7, <1>10
<1>14. /\ Earliest(log) = total - n + 1
       /\ Earliest(Added(log)) = total + 1 - Len(new) + 1
  <2>1. Earliest(log) = total - n + 1
    <3>1. log.sequence \in Nat /\ log.events \in Seq(Events) /\ WellNumbered(log)
      OBVIOUS
    <3> QED
      BY <3>1, LogNumbers DEF total, n, old
  <2>2. Earliest(Added(log)) = total + 1 - Len(new) + 1
    <3>1. Added(log).sequence \in Nat /\ Added(log).events \in Seq(Events)
      BY <1>3, <1>6, <1>9
    <3>2. Earliest(Added(log)) = Added(log).sequence - Len(Added(log).events) + 1
      BY <1>9, <3>1, LogNumbers
    <3>3. ASSUME NEW l, l.events = new, l.sequence = total + 1,
                 Earliest(l) = l.sequence - Len(l.events) + 1
          PROVE  Earliest(l) = total + 1 - Len(new) + 1
      BY SMTT(30), <1>3, <1>6, <3>3
    <3> QED
      BY <1>9, <3>2, <3>3
  <2> QED
    BY <2>1, <2>2
<1>15. Earliest(log) <= Earliest(Added(log))
  BY <1>3, <1>6, <1>14
<1>16. \A e \in ToSet(old) : e.seq >= Earliest(Added(log)) => e \in ToSet(new)
  <2> SUFFICES ASSUME NEW e \in ToSet(old), e.seq >= Earliest(Added(log))
               PROVE  e \in ToSet(new)
    OBVIOUS
  <2>1. PICK i \in 1..n : old[i] = e
    BY <1>10
  <2>2. total - n + i >= total + 1 - Len(new) + 1
    BY <1>3, <1>14, <2>1
  <2>3. i - d \in 1..Len(new) /\ (i - d) + d = i /\ i # n + 1
    BY <1>3, <1>6, <2>2
  <2>4. new[i - d] = old[i]
    BY <1>7, <2>3
  <2> QED
    BY <1>10, <2>1, <2>3, <2>4
<1> QED
  BY <1>2, <1>6, <1>9, <1>12, <1>13, <1>15, <1>16 DEF old, total

\* The events after a cursor are those with a higher number, and a page holds
\* the first of them.
LEMMA PageOfLog ==
  ASSUME NEW log, log.sequence \in Nat, log.events \in Seq(Events), WellNumbered(log),
         NEW after \in Nat
  PROVE  /\ \A e \in ToSet(log.events) : e \in ToSet(After(log, after)) <=> e.seq > after
         /\ ToSet(After(log, after)) \subseteq ToSet(log.events)
         /\ Page(log, after) \in Seq(Events)
         /\ ToSet(Page(log, after)) \subseteq ToSet(After(log, after))
         /\ \A i \in 1..Len(Page(log, after)) : \A e \in ToSet(log.events) :
              after < e.seq /\ e.seq <= Page(log, after)[i].seq
                => e \in {Page(log, after)[j] : j \in 1..i}
<1> USE ConstantsAssumption DEF ConstantsAssumption
<1> DEFINE events == log.events
           n == Len(events)
           base == log.sequence - n
           Cut(i) == /\ \A j \in 1..i - 1 : events[j].seq <= after
                     /\ \A j \in i..n : events[j].seq > after
           first == CHOOSE i \in 1..n + 1 : Cut(i)
           items == After(log, after)
           page == Page(log, after)
<1>1. /\ events \in Seq(Events) /\ n \in Nat /\ base \in Nat
      /\ \A i \in 1..n : events[i].seq = base + i /\ events[i] \in Events
  <2>1. events \in Seq(Events) /\ n \in Nat /\ \A i \in 1..n : events[i] \in Events
    OBVIOUS
  <2>2. base \in Nat
    BY <2>1 DEF WellNumbered
  <2>3. \A i \in 1..n : events[i].seq = base + i
    BY DEF WellNumbered
  <2> QED
    BY <2>1, <2>2, <2>3
<1>2. \E i \in 1..n + 1 : Cut(i)
  <2>1. CASE after < base
    <3>1. 1 \in 1..n + 1 /\ \A j \in 1..1 - 1 : events[j].seq <= after
      BY <1>1
    <3>2. \A j \in 1..n : events[j].seq > after
      <4> SUFFICES ASSUME NEW j \in 1..n
                   PROVE  events[j].seq > after
        OBVIOUS
      <4>1. events[j].seq = base + j
        BY <1>1
      <4> QED
        BY <1>1, <2>1, <4>1
    <3> QED
      BY <3>1, <3>2
  <2>2. CASE base <= after /\ after <= base + n
    <3>1. after - base + 1 \in 1..n + 1
      BY SMTT(30), <1>1, <2>2
    <3>2. Cut(after - base + 1)
      <4>1. ASSUME NEW j \in 1..(after - base + 1) - 1
            PROVE  events[j].seq <= after
        <5>1. j \in 1..n /\ j <= after - base
          BY <1>1, <2>2
        <5>2. events[j].seq = base + j
          BY <1>1, <5>1
        <5> QED
          BY <1>1, <5>1, <5>2
      <4>2. ASSUME NEW j \in after - base + 1..n
            PROVE  events[j].seq > after
        <5>1. j \in 1..n /\ j >= after - base + 1
          BY <1>1, <2>2
        <5>2. events[j].seq = base + j
          BY <1>1, <5>1
        <5> QED
          BY <1>1, <5>1, <5>2
      <4> QED
        BY <4>1, <4>2
    <3> QED
      BY <3>1, <3>2
  <2>3. CASE after > base + n
    <3>1. n + 1 \in 1..n + 1
      BY <1>1
    <3>2. ASSUME NEW j \in 1..(n + 1) - 1
          PROVE  events[j].seq <= after
      <4>1. j \in 1..n
        BY <1>1
      <4>2. events[j].seq = base + j
        BY <1>1, <4>1
      <4> QED
        BY <1>1, <2>3, <4>1, <4>2
    <3>3. ASSUME NEW j \in n + 1..n
          PROVE  events[j].seq > after
      BY <1>1
    <3>4. Cut(n + 1)
      BY <3>2, <3>3
    <3> QED
      BY <3>1, <3>4
  <2>4. after < base \/ (base <= after /\ after <= base + n) \/ after > base + n
    <3>1. after \in Nat /\ base \in Nat /\ n \in Nat
      BY <1>1
    <3> QED
      BY <3>1
  <2> QED
    BY <2>1, <2>2, <2>3, <2>4
<1>3. first \in 1..n + 1 /\ Cut(first)
  BY <1>2
<1>4. items = SubSeq(events, first, n)
  BY DEF After
<1>5. /\ \A j \in 1..first - 1 : events[j].seq <= after
      /\ \A j \in first..n : events[j].seq > after
  BY <1>3
<1> HIDE DEF events, n, base, first, Cut
<1>6. /\ items \in Seq(Events) /\ Len(items) = n + 1 - first
      /\ \A i \in 1..Len(items) : items[i] = events[first + i - 1]
  BY <1>1, <1>3, <1>4 DEF n
<1> HIDE DEF items
<1>7. PICK m \in Nat : /\ m <= Len(items)
                       /\ page = SubSeq(items, 1, m)
  <2>1. Len(items) \in Nat /\ PageLimit \in Nat
    BY <1>6
  <2>2. page = SubSeq(items, 1, IF Len(items) < PageLimit THEN Len(items) ELSE PageLimit)
    BY DEF Page, items
  <2> QED
    BY <2>1, <2>2
<1> HIDE DEF page
<1>8. /\ page \in Seq(Events) /\ Len(page) = m
      /\ \A i \in 1..m : page[i] = items[i] /\ i \in 1..Len(items)
  BY <1>6, <1>7
<1>9. /\ \A x : x \in ToSet(events) <=> \E i \in 1..n : events[i] = x
      /\ \A x : x \in ToSet(items) <=> \E i \in 1..Len(items) : items[i] = x
      /\ \A x : x \in ToSet(page) <=> \E i \in 1..Len(page) : page[i] = x
  <2>1. events \in Seq(Events)
    BY <1>1
  <2>2. items \in Seq(Events)
    BY <1>6
  <2>3. page \in Seq(Events)
    BY <1>8
  <2>4. \A x : x \in ToSet(events) <=> \E i \in 1..n : events[i] = x
    BY <2>1, InSequence DEF n
  <2>5. \A x : x \in ToSet(items) <=> \E i \in 1..Len(items) : items[i] = x
    BY <2>2, InSequence
  <2>6. \A x : x \in ToSet(page) <=> \E i \in 1..Len(page) : page[i] = x
    BY <2>3, InSequence
  <2> QED
    BY <2>4, <2>5, <2>6
<1>10. ToSet(items) \subseteq ToSet(events)
  <2> SUFFICES ASSUME NEW e \in ToSet(items)
               PROVE  e \in ToSet(events)
    OBVIOUS
  <2>1. PICK i \in 1..Len(items) : items[i] = e
    BY <1>9
  <2>2. first + i - 1 \in 1..n
    BY <1>1, <1>3, <1>6
  <2> QED
    BY <1>6, <1>9, <2>1, <2>2
<1>11. \A e \in ToSet(events) : e \in ToSet(items) <=> e.seq > after
  <2> SUFFICES ASSUME NEW e \in ToSet(events)
               PROVE  e \in ToSet(items) <=> e.seq > after
    OBVIOUS
  <2>1. PICK k \in 1..n : events[k] = e
    BY <1>9
  <2>2. e.seq = base + k
    BY <1>1, <2>1
  <2>3. CASE k < first
    <3>1. k \in 1..first - 1
      BY <1>1, <1>3, <2>3
    <3>2. e.seq <= after
      BY <1>5, <2>1, <3>1
    <3>3. e \notin ToSet(items)
      <4> SUFFICES ASSUME NEW i \in 1..Len(items), items[i] = e
                   PROVE  FALSE
        BY <1>9
      <4>1. first + i - 1 \in first..n
        <5>1. first \in Int /\ n \in Int /\ i \in Int /\ 1 <= i /\ i <= Len(items) /\ Len(items) = n + 1 - first
          BY <1>1, <1>3, <1>6
        <5> QED
          BY <5>1
      <4>2. items[i] = events[first + i - 1]
        BY <1>6
      <4>3. e.seq > after
        BY <1>5, <4>1, <4>2
      <4> QED
        BY <1>1, <2>2, <3>2, <4>3
    <3> QED
      BY <1>1, <2>2, <3>2, <3>3
  <2>4. CASE k >= first
    <3>1. k \in first..n /\ k - first + 1 \in 1..Len(items) /\ first + (k - first + 1) - 1 = k
      BY <1>1, <1>3, <1>6, <2>4
    <3>2. e.seq > after /\ items[k - first + 1] = e
      BY <1>5, <1>6, <2>1, <3>1
    <3> QED
      BY <1>9, <3>1, <3>2
  <2> QED
    BY <1>1, <1>3, <2>3, <2>4
<1>12. ToSet(page) \subseteq ToSet(items)
  BY <1>8, <1>9
<1>13. ASSUME NEW i \in 1..Len(page), NEW e \in ToSet(events), after < e.seq, e.seq <= page[i].seq
       PROVE  e \in {page[j] : j \in 1..i}
  <2>1. e \in ToSet(items)
    <3>1. e.seq > after
      <4>1. PICK k \in 1..n : events[k] = e
        BY <1>9
      <4>2. e.seq \in Nat
        BY <1>1, <4>1
      <4> QED
        BY <1>13, <4>2
    <3> QED
      BY <1>11, <3>1
  <2>2. PICK j \in 1..Len(items) : items[j] = e
    BY <1>9, <2>1
  <2>3. i \in 1..Len(items) /\ i \in 1..m /\ page[i] = items[i]
    BY <1>8
  <2>4. /\ e = events[first + j - 1] /\ page[i] = events[first + i - 1]
    BY <1>6, <2>2, <2>3
  <2>5. first + j - 1 \in 1..n /\ first + i - 1 \in 1..n
    <3>1. first \in Int /\ 1 <= first /\ Len(items) = n + 1 - first /\ j \in Int /\ i \in Int
          /\ 1 <= j /\ j <= Len(items) /\ 1 <= i /\ i <= Len(items) /\ n \in Int
      BY <1>1, <1>3, <1>6, <2>2, <2>3
    <3> QED
      BY <3>1
  <2>6. e.seq = base + (first + j - 1) /\ page[i].seq = base + (first + i - 1)
    BY <1>1, <2>4, <2>5
  <2>7. j \in Int /\ i \in Int /\ 1 <= j /\ first \in Int /\ base \in Int /\ m \in Int /\ i <= m
    BY <1>1, <1>3, <1>6, <2>2, <2>3
  <2>8. base + (first + j - 1) <= base + (first + i - 1)
    BY <1>13, <2>6
  <2>9. j <= i
    BY <2>7, <2>8
  <2>10. j \in 1..i /\ j \in 1..m
    BY <2>7, <2>9
  <2> QED
    BY <1>8, <2>2, <2>10
<1> QED
  BY <1>8, <1>10, <1>11, <1>12, <1>13 DEF events, items, page

-----------------------------------------------------------------------------
(* What the invariant says of the two logs *)

\* The events of both logs.
Kept == ToSet(bus.events) \cup ToSet(file.events)

\* The logs are well-numbered sequences of events.
LEMMA LogTypes ==
  ASSUME TypeOK, LogsKept
  PROVE  /\ file.sequence \in Nat /\ file.events \in Seq(Events) /\ WellNumbered(file)
         /\ bus.sequence \in Nat /\ bus.events \in Seq(Events) /\ WellNumbered(bus)
         /\ bus.sequence <= file.sequence /\ file.sequence <= attempts
         /\ file.sequence <= MaxEvents /\ attempts \in Nat
BY ConstantsAssumption DEF ConstantsAssumption, TypeOK, LogsKept

\* The bus begins at or before the file, and what the file has of it, it has.
LEMMA BusAndFile ==
  ASSUME TypeOK, LogsKept
  PROVE  /\ Earliest(bus) <= Earliest(file)
         /\ Earliest(bus) \in Nat /\ 1 <= Earliest(bus) /\ Earliest(bus) <= bus.sequence + 1
         /\ \A e \in Kept : /\ e \in Events /\ e.seq \in Nat /\ Earliest(bus) <= e.seq /\ 1 <= e.seq
                            /\ e.seq <= file.sequence
                            /\ e.seq <= bus.sequence => e \in ToSet(bus.events)
                            /\ Stored(e)
<1> USE ConstantsAssumption DEF ConstantsAssumption
<1>1. /\ file.sequence \in Nat /\ file.events \in Seq(Events) /\ WellNumbered(file)
      /\ bus.sequence \in Nat /\ bus.events \in Seq(Events) /\ WellNumbered(bus)
      /\ bus.sequence <= file.sequence
  BY LogTypes
<1>2. /\ Earliest(file) = file.sequence - Len(file.events) + 1
      /\ Earliest(file) \in Nat /\ 1 <= Earliest(file)
      /\ \A e \in ToSet(file.events) :
           e \in Events /\ e.seq \in Nat /\ Earliest(file) <= e.seq /\ e.seq <= file.sequence
      /\ \A e, f \in ToSet(file.events) : e.seq = f.seq => e = f
  BY <1>1, LogNumbers
<1>3. /\ Earliest(bus) = bus.sequence - Len(bus.events) + 1
      /\ Earliest(bus) \in Nat /\ 1 <= Earliest(bus)
      /\ \A e \in ToSet(bus.events) :
           e \in Events /\ e.seq \in Nat /\ Earliest(bus) <= e.seq /\ e.seq <= bus.sequence
      /\ \A m \in Nat : Earliest(bus) <= m /\ m <= bus.sequence
                           => \E e \in ToSet(bus.events) : e.seq = m
  BY <1>1, LogNumbers
<1>4. /\ Len(file.events) = IF file.sequence < Retention THEN file.sequence ELSE Retention
      /\ Len(bus.events) = IF bus.sequence < Retention THEN bus.sequence ELSE Retention
  BY <1>1 DEF WellNumbered
<1>5. Earliest(bus) <= Earliest(file) /\ Earliest(bus) <= bus.sequence + 1
  BY <1>1, <1>2, <1>3, <1>4
<1>6. \A e \in ToSet(bus.events) : Stored(e)
  BY DEF LogsKept
<1>7. ASSUME NEW e \in ToSet(bus.events)
      PROVE  /\ e \in Events /\ e.seq \in Nat /\ Earliest(bus) <= e.seq /\ 1 <= e.seq
             /\ e.seq <= file.sequence
             /\ e.seq <= bus.sequence => e \in ToSet(bus.events)
             /\ Stored(e)
  BY <1>1, <1>3, <1>6
<1>8. ASSUME NEW e \in ToSet(file.events)
      PROVE  /\ e \in Events /\ e.seq \in Nat /\ Earliest(bus) <= e.seq /\ 1 <= e.seq
             /\ e.seq <= file.sequence
             /\ e.seq <= bus.sequence => e \in ToSet(bus.events)
             /\ Stored(e)
  <2>1. e \in Events /\ e.seq \in Nat /\ Earliest(file) <= e.seq /\ e.seq <= file.sequence
    BY <1>2
  <2>2. Earliest(bus) <= e.seq /\ 1 <= e.seq
    BY <1>2, <1>3, <1>5, <2>1
  <2>3. Stored(e)
    BY <2>1 DEF Stored
  <2>4. ASSUME e.seq <= bus.sequence
        PROVE  e \in ToSet(bus.events)
    <3>1. PICK f \in ToSet(bus.events) : f.seq = e.seq
      BY <1>3, <2>1, <2>2, <2>4
    <3>2. f \in ToSet(file.events)
      <4>1. f.seq >= Earliest(file)
        BY <1>2, <2>1, <3>1
      <4> QED
        BY <1>6, <4>1 DEF Stored
    <3>3. f = e
      BY <1>2, <3>1, <3>2
    <3> QED
      BY <3>3
  <2> QED
    BY <2>1, <2>2, <2>3, <2>4
<1> QED
  BY <1>3, <1>5, <1>7, <1>8 DEF Kept

\* When the file gets one more event, what was stored stays so, and the event is
\* numbered after all of that.
LEMMA FileGrows ==
  ASSUME TypeOK, LogsKept, attempts < MaxEvents, file' = Added(file),
         NEW event, event = [seq |-> file.sequence + 1, id |-> attempts + 1]
  PROVE  /\ file'.sequence = file.sequence + 1
         /\ file'.events \in Seq(Events)
         /\ WellNumbered(file')
         /\ event \in Events /\ event.seq = file.sequence + 1
         /\ Last(Added(file).events) = event
         /\ event \in ToSet(file'.events)
         /\ ToSet(file'.events) \subseteq ToSet(file.events) \cup {event}
         /\ Earliest(file) <= Earliest(file')
         /\ Stored(event)'
         /\ \A e \in Events : Stored(e) => Stored(e)'
<1>1. /\ file.sequence \in Nat /\ file.events \in Seq(Events) /\ WellNumbered(file)
      /\ file.sequence < MaxEvents /\ attempts \in Nat
  BY LogTypes, ConstantsAssumption DEF ConstantsAssumption
<1>2. /\ Added(file).sequence = file.sequence + 1
      /\ Added(file).events \in Seq(Events)
      /\ WellNumbered(Added(file))
      /\ event \in Events
      /\ Last(Added(file).events) = event
      /\ event \in ToSet(Added(file).events)
      /\ ToSet(Added(file).events) \subseteq ToSet(file.events) \cup {event}
      /\ Earliest(file) <= Earliest(Added(file))
      /\ \A e \in ToSet(file.events) :
           e.seq >= Earliest(Added(file)) => e \in ToSet(Added(file).events)
  BY <1>1, AddedLog
<1>3. Earliest(file) \in Nat /\ Earliest(Added(file)) \in Nat
  <2>1. Added(file).sequence \in Nat
    BY <1>1, <1>2
  <2> QED
    BY <1>1, <1>2, <2>1, LogNumbers
<1>4. event.seq = file.sequence + 1
  OBVIOUS
<1>5. \A e : Stored(e)' <=> /\ e.seq <= Added(file).sequence
                            /\ e.seq >= Earliest(Added(file)) => e \in ToSet(Added(file).events)
  BY DEF Stored, Earliest
<1>6. Stored(event)'
  BY <1>1, <1>2, <1>4, <1>5
<1>7. ASSUME NEW e \in Events, Stored(e)
      PROVE  Stored(e)'
  <2>1. e.seq \in Nat
    BY ConstantsAssumption DEF ConstantsAssumption, Events
  <2>2. e.seq <= file.sequence /\ (e.seq >= Earliest(file) => e \in ToSet(file.events))
    BY <1>7 DEF Stored
  <2>3. e.seq <= Added(file).sequence
    BY <1>1, <1>2, <2>1, <2>2
  <2>4. e.seq >= Earliest(Added(file)) => e.seq >= Earliest(file)
    BY <1>2, <1>3, <2>1
  <2> QED
    BY <1>2, <1>5, <2>2, <2>3, <2>4
<1> QED
  BY <1>2, <1>4, <1>6, <1>7

-----------------------------------------------------------------------------
(* Steps of one reader *)

\* What the invariant says of one panel's values: its stream, mark, wire,
\* cursor, what it has seen, and what was not sent to it.
PanelKept(st, m, w, c, s, u) ==
  /\ \A e \in ToSet(w) : Stored(e)
  /\ c <= file.sequence
  /\ \A e \in s : Stored(e)
  /\ ~up => st # "open"
  /\ st = "expired" => 1 <= m /\ m <= Earliest(bus)
  /\ st = "open" => m <= bus.sequence /\ ToSet(bus.events) \subseteq s \cup u \cup ToSet(w)
  /\ \A e \in Kept : e.seq <= c => e \in s \cup u
  /\ \A e \in Kept : \A i \in 1..Len(w) : e.seq <= w[i].seq => e \in s \cup u \cup {w[j] : j \in 1..i}

\* What it says of one poller's cursor and what it has seen.
PollerKept(c, s) ==
  /\ c <= file.sequence
  /\ \A e \in s : Stored(e)
  /\ \A e \in Kept : e.seq <= c => e \in s

\* The invariant, reader by reader.
ByReader ==
  /\ TypeOK /\ LogsKept
  /\ \A p \in Panels : PanelKept(stream[p], mark[p], wire[p], cursor[p], seen[p], unsent[p])
  /\ \A r \in Pollers : PollerKept(cursor[r], seen[r])

\* It says the same.
LEMMA ReaderByReader == IInv <=> ByReader
<1>1. Panels \cap Pollers = {}
  BY ConstantsAssumption DEF ConstantsAssumption
<1>2. ASSUME IInv
      PROVE  /\ \A p \in Panels : PanelKept(stream[p], mark[p], wire[p], cursor[p], seen[p], unsent[p])
             /\ \A r \in Pollers : PollerKept(cursor[r], seen[r])
  <2>1. ASSUME NEW p \in Panels
        PROVE  PanelKept(stream[p], mark[p], wire[p], cursor[p], seen[p], unsent[p])
    <3>1. p \in Readers /\ Covered(p) = seen[p] \cup unsent[p]
      BY DEF Readers, Covered
    <3>2. /\ \A e \in ToSet(wire[p]) : Stored(e)
          /\ cursor[p] <= file.sequence
          /\ \A e \in seen[p] : Stored(e)
      BY <1>2, <3>1 DEF IInv, DeliveryKept, ShownIsStored
    <3>3. /\ ~up => stream[p] # "open"
          /\ stream[p] = "expired" => 1 <= mark[p] /\ mark[p] <= Earliest(bus)
          /\ stream[p] = "open" =>
               /\ mark[p] <= bus.sequence
               /\ ToSet(bus.events) \subseteq seen[p] \cup unsent[p] \cup ToSet(wire[p])
      BY <1>2 DEF IInv, StreamsKept
    <3>4. \A e \in Kept :
            /\ e.seq <= cursor[p] => e \in Covered(p)
            /\ \A i \in 1..Len(wire[p]) :
                 e.seq <= wire[p][i].seq => e \in Covered(p) \cup {wire[p][j] : j \in 1..i}
      BY <1>2, <3>1 DEF IInv, CoverKept, Kept
    <3> QED
      BY <3>1, <3>2, <3>3, <3>4 DEF PanelKept
  <2>2. ASSUME NEW r \in Pollers
        PROVE  PollerKept(cursor[r], seen[r])
    <3>1. r \in Readers /\ Covered(r) = seen[r]
      BY <1>1 DEF Readers, Covered
    <3> QED
      BY <1>2, <3>1 DEF IInv, DeliveryKept, ShownIsStored, CoverKept, Kept, PollerKept
  <2> QED
    BY <2>1, <2>2
<1>3. ASSUME TypeOK, LogsKept,
             \A p \in Panels : PanelKept(stream[p], mark[p], wire[p], cursor[p], seen[p], unsent[p]),
             \A r \in Pollers : PollerKept(cursor[r], seen[r])
      PROVE  IInv
  <2>1. ASSUME NEW r \in Readers
        PROVE  /\ cursor[r] <= file.sequence
               /\ \A e \in seen[r] : Stored(e)
               /\ \A e \in Kept : e.seq <= cursor[r] => e \in Covered(r)
    <3>1. CASE r \in Panels
      BY <1>3, <3>1 DEF PanelKept, Covered
    <3>2. CASE r \notin Panels
      BY <1>3, <3>2 DEF PollerKept, Covered, Readers
    <3> QED
      BY <3>1, <3>2
  <2>2. DeliveryKept /\ ShownIsStored
    BY <1>3, <2>1 DEF DeliveryKept, ShownIsStored, PanelKept
  <2>3. StreamsKept
    BY <1>3 DEF StreamsKept, PanelKept
  <2>4. CoverKept
    BY <1>3, <2>1 DEF CoverKept, PanelKept, Kept, Covered
  <2> QED
    BY <1>3, <2>2, <2>3, <2>4 DEF IInv
<1> QED
  BY <1>2, <1>3 DEF IInv, ByReader

\* A step that leaves the server alone and changes one panel.
LEMMA PanelStep ==
  ASSUME IInv, TypeOK', UNCHANGED serverVars, NEW p \in Panels,
         \A q \in Panels : q # p => /\ stream'[q] = stream[q] /\ mark'[q] = mark[q]
                                    /\ wire'[q] = wire[q] /\ cursor'[q] = cursor[q]
                                    /\ seen'[q] = seen[q] /\ unsent'[q] = unsent[q],
         \A r \in Pollers : cursor'[r] = cursor[r] /\ seen'[r] = seen[r],
         PanelKept(stream'[p], mark'[p], wire'[p], cursor'[p], seen'[p], unsent'[p])
  PROVE  IInv'
<1>1. /\ \A q \in Panels : PanelKept(stream[q], mark[q], wire[q], cursor[q], seen[q], unsent[q])
      /\ \A r \in Pollers : PollerKept(cursor[r], seen[r])
      /\ LogsKept
  BY ReaderByReader DEF ByReader
<1>2. LogsKept'
  BY <1>1 DEF LogsKept, serverVars, Stored, Earliest, WellNumbered
<1>3. \A q \in Panels : PanelKept(stream'[q], mark'[q], wire'[q], cursor'[q], seen'[q], unsent'[q])
  BY <1>1
<1>4. \A q \in Panels : PanelKept(stream[q], mark[q], wire[q], cursor[q], seen[q], unsent[q])'
  BY <1>3 DEF PanelKept, Kept, Stored, Earliest, serverVars
<1>5. \A r \in Pollers : PollerKept(cursor[r], seen[r])'
  BY <1>1 DEF PollerKept, Kept, Stored, Earliest, serverVars
<1>6. IInv' <=> ByReader'
  BY ReaderByReader, PTL
<1> QED
  BY <1>2, <1>4, <1>5, <1>6 DEF ByReader

-----------------------------------------------------------------------------
(* Initial states, types *)

\* The specification starts in the invariant: nothing is stored or shown.
LEMMA InitIInv == Init => IInv
<1> SUFFICES ASSUME Init PROVE IInv
  OBVIOUS
<1> USE ConstantsAssumption DEF ConstantsAssumption
<1>1. TypeOK
  <2>1. 0 \in 0..MaxEvents /\ 0 \in 0..MaxFailures /\ 0 \in 0..MaxEvents + 1 /\ <<>> \in Seq(Events)
    <3>1. MaxEvents \in Nat /\ MaxFailures \in Nat
      OBVIOUS
    <3> QED
      BY <3>1
  <2>2. \A log \in {file, bus} : log.sequence \in 0..MaxEvents /\ log.events \in Seq(Events)
    <3>1. file.sequence = 0 /\ file.events = <<>> /\ bus = file
      BY DEF Init
    <3> QED
      BY <2>1, <3>1
  <2>3. /\ up \in BOOLEAN /\ current \in BOOLEAN
        /\ attempts \in 0..MaxEvents /\ failures \in 0..MaxFailures
    BY <2>1 DEF Init
  <2>4. /\ stream \in [Panels -> {"idle", "off", "open", "expired"}]
        /\ mark \in [Panels -> 0..MaxEvents + 1]
        /\ wire \in [Panels -> Seq(Events)]
        /\ cursor \in [Readers -> 0..MaxEvents]
        /\ seen \in [Readers -> SUBSET Events]
        /\ unsent \in [Panels -> SUBSET Events]
    BY <2>1 DEF Init
  <2> QED
    BY <2>2, <2>3, <2>4 DEF TypeOK
<1>2. ToSet(<<>>) = {} /\ Len(<<>>) = 0
  BY DEF ToSet
<1>3. WellNumbered(file) /\ WellNumbered(bus) /\ file.sequence = 0 /\ bus.sequence = 0 /\ Kept = {}
  BY <1>2 DEF Init, WellNumbered, Kept
<1>4. LogsKept
  BY <1>2, <1>3 DEF Init, LogsKept
<1>5. \A p \in Panels : PanelKept(stream[p], mark[p], wire[p], cursor[p], seen[p], unsent[p])
  <2> SUFFICES ASSUME NEW p \in Panels
               PROVE  PanelKept(stream[p], mark[p], wire[p], cursor[p], seen[p], unsent[p])
    OBVIOUS
  <2>1. /\ stream[p] = "idle" /\ wire[p] = <<>> /\ cursor[p] = 0 /\ seen[p] = {}
        /\ stream[p] # "open" /\ stream[p] # "expired"
    BY DEF Init, Readers
  <2> QED
    BY <1>2, <1>3, <2>1 DEF PanelKept
<1>6. \A r \in Pollers : PollerKept(cursor[r], seen[r])
  BY <1>3 DEF Init, PollerKept, Readers
<1> QED
  BY <1>1, <1>4, <1>5, <1>6, ReaderByReader DEF ByReader

\* A page is a sequence of events of the bus, after the cursor.
LEMMA PageOfBus ==
  ASSUME TypeOK, LogsKept, NEW after \in Nat
  PROVE  /\ Page(bus, after) \in Seq(Events)
         /\ ToSet(Page(bus, after)) \subseteq ToSet(bus.events)
         /\ ToSet(After(bus, after)) \subseteq ToSet(bus.events)
         /\ \A e \in ToSet(Page(bus, after)) : e \in Events /\ e.seq \in Nat /\ e.seq > after
         /\ \A e \in ToSet(bus.events) : e.seq > after => e \in ToSet(After(bus, after))
         /\ Page(bus, after) # <<>> =>
              /\ Last(Page(bus, after)) \in ToSet(Page(bus, after))
              /\ \A e \in Kept : e.seq <= Last(Page(bus, after)).seq
                                   => e.seq <= after \/ e \in ToSet(Page(bus, after))
         /\ \A e \in Kept : \A i \in 1..Len(Page(bus, after)) : e.seq <= Page(bus, after)[i].seq
              => e.seq <= after \/ e \in {Page(bus, after)[j] : j \in 1..i}
<1> DEFINE page == Page(bus, after)
<1>1. bus.sequence \in Nat /\ bus.events \in Seq(Events) /\ WellNumbered(bus)
  BY LogTypes
<1>2. /\ \A e \in ToSet(bus.events) : e \in ToSet(After(bus, after)) <=> e.seq > after
      /\ ToSet(After(bus, after)) \subseteq ToSet(bus.events)
      /\ page \in Seq(Events)
      /\ ToSet(page) \subseteq ToSet(After(bus, after))
      /\ \A i \in 1..Len(page) : \A e \in ToSet(bus.events) :
           after < e.seq /\ e.seq <= page[i].seq => e \in {page[j] : j \in 1..i}
  BY <1>1, PageOfLog
<1> HIDE DEF page
<1>3. \A e \in ToSet(bus.events) : e \in Events /\ e.seq \in Nat /\ e.seq <= bus.sequence
  BY <1>1, LogNumbers
<1>4. /\ Len(page) \in Nat
      /\ \A x : x \in ToSet(page) <=> \E i \in 1..Len(page) : page[i] = x
  BY <1>2, InSequence
<1>5. \A e \in ToSet(page) : e \in Events /\ e.seq \in Nat /\ e.seq > after /\ e.seq <= bus.sequence
  BY <1>2, <1>3
<1>6. ASSUME NEW e \in Kept, NEW i \in 1..Len(page), e.seq <= page[i].seq
      PROVE  e.seq <= after \/ e \in {page[j] : j \in 1..i}
  <2>1. page[i] \in ToSet(page)
    BY <1>4
  <2>2. page[i].seq \in Nat /\ page[i].seq <= bus.sequence
    BY <1>5, <2>1
  <2>3. e.seq \in Nat /\ (e.seq <= bus.sequence => e \in ToSet(bus.events))
    BY BusAndFile
  <2>4. e \in ToSet(bus.events)
    BY <1>1, <1>6, <2>2, <2>3
  <2>5. CASE e.seq <= after
    BY <2>5
  <2>6. CASE after < e.seq
    BY <1>2, <1>6, <2>4, <2>6
  <2> QED
    BY <2>3, <2>5, <2>6
<1>7. ASSUME page # <<>>
      PROVE  /\ Last(page) \in ToSet(page)
             /\ \A e \in Kept : e.seq <= Last(page).seq => e.seq <= after \/ e \in ToSet(page)
  <2>1. Len(page) \in 1..Len(page)
    BY <1>2, <1>4, <1>7
  <2>2. Last(page) = page[Len(page)]
    BY DEF Last
  <2>3. Last(page) \in ToSet(page)
    BY <1>4, <2>1, <2>2
  <2>4. ASSUME NEW e \in Kept, e.seq <= Last(page).seq
        PROVE  e.seq <= after \/ e \in ToSet(page)
    <3>1. e.seq <= after \/ e \in {page[j] : j \in 1..Len(page)}
      BY <1>6, <2>1, <2>2, <2>4
    <3> QED
      BY <1>4, <3>1
  <2> QED
    BY <2>3, <2>4
<1>8. ToSet(page) \subseteq ToSet(bus.events)
  BY <1>2
<1>9. \A e \in Kept : \A i \in 1..Len(page) :
        e.seq <= page[i].seq => e.seq <= after \/ e \in {page[j] : j \in 1..i}
  BY <1>6
<1> QED
  BY <1>2, <1>5, <1>7, <1>8, <1>9 DEF page

-----------------------------------------------------------------------------
(* Steps of the readers *)

\* What the invariant gives about one panel.
LEMMA PanelFacts ==
  ASSUME IInv, NEW p \in Panels
  PROVE  /\ TypeOK /\ LogsKept /\ p \in Readers
         /\ PanelKept(stream[p], mark[p], wire[p], cursor[p], seen[p], unsent[p])
         /\ stream[p] \in {"idle", "off", "open", "expired"}
         /\ mark[p] \in Nat /\ wire[p] \in Seq(Events) /\ cursor[p] \in 0..MaxEvents
         /\ seen[p] \subseteq Events /\ unsent[p] \subseteq Events
<1>1. TypeOK /\ LogsKept /\ p \in Readers
  BY DEF IInv, Readers
<1>2. PanelKept(stream[p], mark[p], wire[p], cursor[p], seen[p], unsent[p])
  BY ReaderByReader DEF ByReader
<1>3. /\ stream[p] \in {"idle", "off", "open", "expired"}
      /\ mark[p] \in 0..MaxEvents + 1 /\ wire[p] \in Seq(Events)
      /\ cursor[p] \in 0..MaxEvents /\ seen[p] \in SUBSET Events /\ unsent[p] \in SUBSET Events
  BY <1>1 DEF TypeOK
<1>4. MaxEvents \in Nat
  BY ConstantsAssumption DEF ConstantsAssumption
<1> QED
  BY <1>1, <1>2, <1>3, <1>4

\* A connection opens: the first page continues from the cursor.
LEMMA OpenStreamStep == ASSUME IInv, NEW p \in Panels, OpenStream(p) PROVE IInv'
<1> USE ConstantsAssumption DEF ConstantsAssumption
<1>1. /\ TypeOK /\ LogsKept /\ p \in Readers
      /\ PanelKept(stream[p], mark[p], wire[p], cursor[p], seen[p], unsent[p])
      /\ mark[p] \in Nat /\ wire[p] \in Seq(Events) /\ cursor[p] \in 0..MaxEvents
      /\ seen[p] \subseteq Events /\ unsent[p] \subseteq Events
  BY PanelFacts
<1>2. UNCHANGED serverVars /\ up /\ cursor' = cursor /\ seen' = seen /\ failures' = failures
  BY DEF OpenStream
<1>3. /\ Earliest(bus) \in Nat /\ 1 <= Earliest(bus) /\ Earliest(bus) <= bus.sequence + 1
      /\ \A e \in Kept : /\ e \in Events /\ e.seq \in Nat
                         /\ e.seq <= bus.sequence => e \in ToSet(bus.events)
                         /\ Stored(e)
  BY <1>1, BusAndFile
<1>4. bus.sequence \in 0..MaxEvents /\ bus.sequence \in Nat /\ cursor[p] \in Nat
  BY <1>1 DEF TypeOK
<1>5. \A q \in Panels : q # p => /\ stream'[q] = stream[q] /\ mark'[q] = mark[q]
                                 /\ wire'[q] = wire[q] /\ unsent'[q] = unsent[q]
  BY <1>1 DEF OpenStream, TypeOK
<1> DEFINE page == Page(bus, cursor[p])
           rest == After(bus, cursor[p])
<1>6. CASE CursorExpired(bus, cursor[p])
  <2>1. /\ stream' = [stream EXCEPT ![p] = "expired"]
        /\ mark' = [mark EXCEPT ![p] = Earliest(bus)]
        /\ wire' = wire /\ unsent' = unsent
    BY <1>6 DEF OpenStream
  <2>2. stream'[p] = "expired" /\ mark'[p] = Earliest(bus) /\ wire'[p] = wire[p]
        /\ unsent'[p] = unsent[p] /\ cursor'[p] = cursor[p] /\ seen'[p] = seen[p]
    BY <1>1, <1>2, <2>1 DEF TypeOK
  <2>3. TypeOK'
    <3>1. Earliest(bus) \in 0..MaxEvents + 1
      BY <1>3, <1>4
    <3> QED
      BY <1>1, <1>2, <2>1, <3>1 DEF TypeOK, serverVars
  <2>4. PanelKept(stream'[p], mark'[p], wire'[p], cursor'[p], seen'[p], unsent'[p])
    BY <1>1, <1>2, <1>3, <2>2 DEF PanelKept
  <2> QED
    BY <1>2, <1>5, <2>3, <2>4, PanelStep
<1>7. CASE ~CursorExpired(bus, cursor[p])
  <2>1. /\ stream' = [stream EXCEPT ![p] = "open"]
        /\ mark' = [mark EXCEPT ![p] = bus.sequence]
        /\ wire' = [wire EXCEPT ![p] = page]
        /\ unsent' = [unsent EXCEPT ![p] = (@ \cup ToSet(rest)) \ ToSet(page)]
    BY <1>7 DEF OpenStream, SubscribeAfter
  <2>2. /\ page \in Seq(Events)
        /\ ToSet(page) \subseteq ToSet(bus.events)
        /\ ToSet(rest) \subseteq ToSet(bus.events)
        /\ \A e \in ToSet(page) : e \in Events /\ e.seq \in Nat /\ e.seq > cursor[p]
        /\ \A e \in ToSet(bus.events) : e.seq > cursor[p] => e \in ToSet(rest)
        /\ \A e \in Kept : \A i \in 1..Len(page) :
             e.seq <= page[i].seq => e.seq <= cursor[p] \/ e \in {page[j] : j \in 1..i}
    BY <1>1, <1>4, PageOfBus
  <2> HIDE DEF page, rest
  <2>3. /\ stream'[p] = "open" /\ mark'[p] = bus.sequence /\ wire'[p] = page
        /\ unsent'[p] = (unsent[p] \cup ToSet(rest)) \ ToSet(page)
        /\ cursor'[p] = cursor[p] /\ seen'[p] = seen[p]
    BY <1>1, <1>2, <2>1 DEF TypeOK
  <2>4. ToSet(bus.events) \subseteq Events /\ ToSet(bus.events) \subseteq Kept
    BY <1>3 DEF Kept
  <2>5. TypeOK'
    <3>1. bus.sequence \in 0..MaxEvents + 1
      BY <1>4
    <3>2. (unsent[p] \cup ToSet(rest)) \ ToSet(page) \subseteq Events
      BY <1>1, <2>2, <2>4
    <3>3. stream' \in [Panels -> {"idle", "off", "open", "expired"}] /\ mark' \in [Panels -> 0..MaxEvents + 1]
      BY <1>1, <2>1, <3>1 DEF TypeOK
    <3>4. wire' \in [Panels -> Seq(Events)]
      BY <1>1, <2>1, <2>2 DEF TypeOK
    <3>5. unsent' \in [Panels -> SUBSET Events]
      BY <1>1, <2>1, <3>2 DEF TypeOK
    <3> QED
      BY <1>1, <1>2, <3>3, <3>4, <3>5 DEF TypeOK, serverVars
  <2>6. \A e \in Kept : e.seq <= cursor[p] => e \in seen[p] \cup unsent'[p]
    <3> SUFFICES ASSUME NEW e \in Kept, e.seq <= cursor[p]
                 PROVE  e \in seen[p] \cup unsent'[p]
      OBVIOUS
    <3>1. e \in seen[p] \cup unsent[p]
      BY <1>1 DEF PanelKept
    <3>2. e \notin ToSet(page)
      BY <1>3, <1>4, <2>2
    <3> QED
      BY <2>3, <3>1, <3>2
  <2>7. ToSet(bus.events) \subseteq seen[p] \cup unsent'[p] \cup ToSet(page)
    <3> SUFFICES ASSUME NEW e \in ToSet(bus.events)
                 PROVE  e \in seen[p] \cup unsent'[p] \cup ToSet(page)
      OBVIOUS
    <3>1. CASE e.seq <= cursor[p]
      BY <2>4, <2>6, <3>1
    <3>2. CASE e.seq > cursor[p]
      BY <2>2, <2>3, <3>2
    <3> QED
      BY <1>3, <1>4, <2>4, <3>1, <3>2
  <2>8. \A e \in Kept : \A i \in 1..Len(page) :
          e.seq <= page[i].seq => e \in seen[p] \cup unsent'[p] \cup {page[j] : j \in 1..i}
    BY <2>2, <2>6
  <2>9. PanelKept(stream'[p], mark'[p], wire'[p], cursor'[p], seen'[p], unsent'[p])
    <3>1. /\ \A e \in ToSet(page) : Stored(e)
          /\ cursor[p] <= file.sequence
          /\ \A e \in seen[p] : Stored(e)
      BY <1>1, <1>3, <2>2, <2>4 DEF PanelKept
    <3> QED
      BY <1>2, <1>4, <2>3, <2>6, <2>7, <2>8, <3>1 DEF PanelKept
  <2> QED
    BY <1>2, <1>5, <2>5, <2>9, PanelStep
<1> QED
  BY <1>6, <1>7

\* A panel that reads a 409 goes back before what is kept.
LEMMA HandleExpiredStep == ASSUME IInv, NEW p \in Panels, HandleExpired(p) PROVE IInv'
<1> USE ConstantsAssumption DEF ConstantsAssumption
<1>1. /\ TypeOK /\ LogsKept /\ p \in Readers
      /\ PanelKept(stream[p], mark[p], wire[p], cursor[p], seen[p], unsent[p])
      /\ mark[p] \in Nat /\ wire[p] \in Seq(Events) /\ cursor[p] \in 0..MaxEvents
  BY PanelFacts
<1>2. /\ UNCHANGED serverVars /\ stream[p] = "expired" /\ failures' = failures
      /\ mark' = mark /\ wire' = wire /\ seen' = seen /\ unsent' = unsent
      /\ stream' = [stream EXCEPT ![p] = "off"]
      /\ cursor' = [cursor EXCEPT ![p] = mark[p] - 1]
  BY DEF HandleExpired, ResumeAt
<1>3. /\ Earliest(bus) \in Nat /\ Earliest(bus) <= bus.sequence + 1
      /\ \A e \in Kept : e.seq \in Nat /\ Earliest(bus) <= e.seq
  BY <1>1, BusAndFile
<1>4. /\ bus.sequence \in Nat /\ file.sequence \in Nat
      /\ bus.sequence <= file.sequence /\ file.sequence <= MaxEvents
  BY <1>1, LogTypes
<1>5. 1 <= mark[p] /\ mark[p] <= Earliest(bus)
  BY <1>1, <1>2 DEF PanelKept
<1>6. /\ mark[p] - 1 \in 0..MaxEvents /\ mark[p] - 1 <= file.sequence
      /\ \A e \in Kept : ~(e.seq <= mark[p] - 1)
  BY SMTT(30), <1>1, <1>3, <1>4, <1>5
<1>7. TypeOK'
  BY <1>1, <1>2, <1>6 DEF TypeOK, serverVars
<1>8. /\ stream'[p] = "off" /\ mark'[p] = mark[p] /\ wire'[p] = wire[p]
      /\ unsent'[p] = unsent[p] /\ cursor'[p] = mark[p] - 1 /\ seen'[p] = seen[p]
  BY <1>1, <1>2 DEF TypeOK
<1>9. PanelKept(stream'[p], mark'[p], wire'[p], cursor'[p], seen'[p], unsent'[p])
  BY SMTT(30), <1>1, <1>6, <1>8 DEF PanelKept
<1>10. \A q \in Panels : q # p => stream'[q] = stream[q] /\ cursor'[q] = cursor[q]
  BY <1>1, <1>2 DEF TypeOK, Readers
<1>11. \A r \in Pollers : cursor'[r] = cursor[r]
  BY <1>1, <1>2 DEF TypeOK, Readers
<1> QED
  BY <1>2, <1>7, <1>9, <1>10, <1>11, PanelStep

\* The items of a sequence without its first.
LEMMA TailOf ==
  ASSUME NEW S, NEW s \in Seq(S), s # <<>>
  PROVE  /\ Tail(s) \in Seq(S) /\ Head(s) \in ToSet(s) /\ Head(s) \in S /\ Head(s) = s[1]
         /\ 1 \in 1..Len(s)
         /\ ToSet(s) = {Head(s)} \cup ToSet(Tail(s))
         /\ \A i \in 1..Len(Tail(s)) :
              /\ i + 1 \in 1..Len(s) /\ Tail(s)[i] = s[i + 1]
              /\ {s[j] : j \in 1..i + 1} \subseteq {Head(s)} \cup {Tail(s)[j] : j \in 1..i}
<1> DEFINE t == Tail(s)
<1>1. /\ t \in Seq(S) /\ Len(t) \in Nat /\ Len(s) = Len(t) + 1 /\ Head(s) = s[1]
      /\ \A i \in 1..Len(t) : t[i] = s[i + 1]
  OBVIOUS
<1> HIDE DEF t
<1>2. /\ \A x : x \in ToSet(s) <=> \E i \in 1..Len(s) : s[i] = x
      /\ ToSet(s) \subseteq S
  BY InSequence
<1>3. \A x : x \in ToSet(t) <=> \E i \in 1..Len(t) : t[i] = x
  BY <1>1, InSequence
<1>4. 1 \in 1..Len(s) /\ Head(s) \in ToSet(s)
  BY <1>1, <1>2
<1>5. \A i \in 1..Len(t) : i + 1 \in 1..Len(s)
  BY <1>1
<1>6. ASSUME NEW j \in 1..Len(s), j # 1
      PROVE  j - 1 \in 1..Len(t) /\ t[j - 1] = s[j]
  <2>1. j - 1 \in 1..Len(t) /\ (j - 1) + 1 = j
    BY <1>1, <1>6
  <2> QED
    BY <1>1, <2>1
<1>7. ToSet(s) = {Head(s)} \cup ToSet(t)
  <2>1. ASSUME NEW x \in ToSet(s), x # Head(s)
        PROVE  x \in ToSet(t)
    <3>1. PICK j \in 1..Len(s) : s[j] = x
      BY <1>2
    <3>2. j # 1
      BY <1>1, <2>1, <3>1
    <3> QED
      BY <1>3, <1>6, <3>1, <3>2
  <2>2. ASSUME NEW x \in ToSet(t)
        PROVE  x \in ToSet(s)
    BY <1>1, <1>2, <1>3, <1>5
  <2> QED
    BY <1>4, <2>1, <2>2
<1>8. ASSUME NEW i \in 1..Len(t), NEW j \in 1..i + 1
      PROVE  s[j] \in {Head(s)} \cup {t[k] : k \in 1..i}
  <2>1. CASE j = 1
    BY <1>1, <2>1
  <2>2. CASE j # 1
    <3>1. j \in 1..Len(s) /\ j - 1 \in 1..i
      BY <1>1, <2>2
    <3> QED
      BY <1>6, <2>2, <3>1
  <2> QED
    BY <2>1, <2>2
<1>9. \A i \in 1..Len(t) : {s[j] : j \in 1..i + 1} \subseteq {Head(s)} \cup {t[j] : j \in 1..i}
  BY <1>8
<1> QED
  BY <1>1, <1>2, <1>4, <1>5, <1>7, <1>9 DEF t

\* A panel reads an event, which it may have shown already.
LEMMA ReadEventStep == ASSUME IInv, NEW p \in Panels, ReadEvent(p) PROVE IInv'
<1> USE ConstantsAssumption DEF ConstantsAssumption
<1>1. /\ TypeOK /\ LogsKept /\ p \in Readers
      /\ PanelKept(stream[p], mark[p], wire[p], cursor[p], seen[p], unsent[p])
      /\ wire[p] \in Seq(Events) /\ cursor[p] \in 0..MaxEvents /\ seen[p] \subseteq Events
  BY PanelFacts
<1> DEFINE w == wire[p]
           event == Head(w)
           rest == Tail(w)
<1>2. /\ UNCHANGED serverVars /\ failures' = failures
      /\ stream' = stream /\ mark' = mark /\ unsent' = unsent
      /\ w # <<>> /\ wire' = [wire EXCEPT ![p] = rest]
  BY DEF ReadEvent
<1>3. /\ rest \in Seq(Events) /\ event \in ToSet(w) /\ event \in Events /\ event = w[1]
      /\ 1 \in 1..Len(w)
      /\ ToSet(w) = {event} \cup ToSet(rest)
      /\ \A i \in 1..Len(rest) :
           /\ i + 1 \in 1..Len(w) /\ rest[i] = w[i + 1]
           /\ {w[j] : j \in 1..i + 1} \subseteq {event} \cup {rest[j] : j \in 1..i}
  <2>1. w \in Seq(Events) /\ w # <<>>
    BY <1>1, <1>2
  <2> HIDE DEF w
  <2> QED
    BY <2>1, TailOf
<1> HIDE DEF w, event, rest
<1>4. /\ \A e \in ToSet(w) : Stored(e)
      /\ cursor[p] <= file.sequence
      /\ \A e \in seen[p] : Stored(e)
      /\ ~up => stream[p] # "open"
      /\ stream[p] = "expired" => 1 <= mark[p] /\ mark[p] <= Earliest(bus)
      /\ stream[p] = "open" => mark[p] <= bus.sequence
                               /\ ToSet(bus.events) \subseteq seen[p] \cup unsent[p] \cup ToSet(w)
      /\ \A e \in Kept : e.seq <= cursor[p] => e \in seen[p] \cup unsent[p]
      /\ \A e \in Kept : \A i \in 1..Len(w) :
           e.seq <= w[i].seq => e \in seen[p] \cup unsent[p] \cup {w[j] : j \in 1..i}
  BY <1>1 DEF PanelKept, w
<1>5. event.seq \in 1..MaxEvents /\ event.seq \in Nat /\ event.seq <= file.sequence
  BY <1>3, <1>4 DEF Events, Stored
<1>6. ToSet(bus.events) \subseteq Kept
  BY DEF Kept
<1>7. PICK c, s : /\ cursor' = [cursor EXCEPT ![p] = c] /\ seen' = [seen EXCEPT ![p] = s]
                  /\ \/ event.seq > cursor[p] /\ c = event.seq /\ s = seen[p] \cup {event}
                     \/ ~(event.seq > cursor[p]) /\ c = cursor[p] /\ s = seen[p]
  <2>1. CASE event.seq > cursor[p]
    BY <2>1 DEF ReadEvent, event, w
  <2>2. CASE ~(event.seq > cursor[p])
    <3>1. cursor' = cursor /\ seen' = seen
      BY <2>2 DEF ReadEvent, event, w
    <3>2. cursor' = [cursor EXCEPT ![p] = cursor[p]] /\ seen' = [seen EXCEPT ![p] = seen[p]]
      BY <1>1, <3>1 DEF TypeOK
    <3> QED
      BY <2>2, <3>2
  <2> QED
    BY <2>1, <2>2
<1>8. c \in 0..MaxEvents /\ s \subseteq Events /\ seen[p] \subseteq s
  BY <1>1, <1>3, <1>5, <1>7
<1>9. TypeOK'
  <2>1. wire' \in [Panels -> Seq(Events)]
    BY <1>1, <1>2, <1>3 DEF TypeOK
  <2>2. cursor' \in [Readers -> 0..MaxEvents] /\ seen' \in [Readers -> SUBSET Events]
    BY <1>1, <1>7, <1>8 DEF TypeOK
  <2> QED
    BY <1>1, <1>2, <2>1, <2>2 DEF TypeOK, serverVars
<1>10. /\ stream'[p] = stream[p] /\ mark'[p] = mark[p] /\ wire'[p] = rest
       /\ unsent'[p] = unsent[p] /\ cursor'[p] = c /\ seen'[p] = s
  BY <1>1, <1>2, <1>7 DEF TypeOK
<1>11. \A e \in Kept : e.seq \in Nat
  BY <1>1, BusAndFile
<1>12. \A e \in Kept : e.seq <= event.seq => e \in seen[p] \cup unsent[p] \cup {event}
  <2> SUFFICES ASSUME NEW e \in Kept, e.seq <= event.seq
               PROVE  e \in seen[p] \cup unsent[p] \cup {event}
    OBVIOUS
  <2>1. e \in seen[p] \cup unsent[p] \cup {w[j] : j \in 1..1}
    BY <1>3, <1>4
  <2> QED
    BY <1>3, <2>1
<1>13. \A e \in Kept : e.seq <= c => e \in s \cup unsent[p]
  BY <1>4, <1>7, <1>12
<1>14. \A e \in Kept : e = event => e \in s \cup unsent[p]
  BY <1>1, <1>4, <1>5, <1>7
<1>15. \A e \in Kept : \A i \in 1..Len(rest) :
         e.seq <= rest[i].seq => e \in s \cup unsent[p] \cup {rest[j] : j \in 1..i}
  <2> SUFFICES ASSUME NEW e \in Kept, NEW i \in 1..Len(rest), e.seq <= rest[i].seq
               PROVE  e \in s \cup unsent[p] \cup {rest[j] : j \in 1..i}
    OBVIOUS
  <2>1. e \in seen[p] \cup unsent[p] \cup {w[j] : j \in 1..i + 1}
    BY <1>3, <1>4
  <2>2. e \in seen[p] \cup unsent[p] \cup {event} \cup {rest[j] : j \in 1..i}
    BY <1>3, <2>1
  <2> QED
    BY <1>8, <1>14, <2>2
<1>16. PanelKept(stream'[p], mark'[p], wire'[p], cursor'[p], seen'[p], unsent'[p])
  <2>1. (\A e \in ToSet(rest) : Stored(e)) /\ (\A e \in s : Stored(e))
    BY <1>3, <1>4, <1>7
  <2>2. c <= file.sequence
    BY <1>4, <1>5, <1>7
  <2>3. stream[p] = "open" => ToSet(bus.events) \subseteq s \cup unsent[p] \cup ToSet(rest)
    BY <1>3, <1>4, <1>6, <1>8, <1>14
  <2> QED
    BY <1>4, <1>10, <1>13, <1>15, <2>1, <2>2, <2>3 DEF PanelKept
<1>17. /\ \A q \in Panels : q # p => wire'[q] = wire[q] /\ cursor'[q] = cursor[q] /\ seen'[q] = seen[q]
       /\ \A r \in Pollers : cursor'[r] = cursor[r] /\ seen'[r] = seen[r]
  BY <1>1, <1>2, <1>7 DEF TypeOK, Readers
<1> QED
  BY <1>2, <1>9, <1>16, <1>17, PanelStep

\* A panel whose stream ends, or that is loaded anew, keeps or loses what it knew.
LEMMA StreamEndsStep ==
  ASSUME IInv, NEW p \in Panels, UNCHANGED serverVars,
         NEW c, NEW s, NEW u,
         \/ c = cursor[p] /\ s = seen[p] /\ u = unsent[p]
         \/ c = 0 /\ s = {} /\ u = {},
         NEW next \in {"off", "idle"},
         stream' = [stream EXCEPT ![p] = next], mark' = mark,
         wire' = [wire EXCEPT ![p] = <<>>],
         cursor' = [cursor EXCEPT ![p] = c], seen' = [seen EXCEPT ![p] = s],
         unsent' = [unsent EXCEPT ![p] = u], failures' \in 0..MaxFailures
  PROVE  IInv'
<1> USE ConstantsAssumption DEF ConstantsAssumption
<1>1. /\ TypeOK /\ LogsKept /\ p \in Readers
      /\ PanelKept(stream[p], mark[p], wire[p], cursor[p], seen[p], unsent[p])
      /\ cursor[p] \in 0..MaxEvents /\ seen[p] \subseteq Events /\ unsent[p] \subseteq Events
  BY PanelFacts
<1>2. c \in 0..MaxEvents /\ s \subseteq Events /\ u \subseteq Events
  <2>1. 0 \in 0..MaxEvents
    <3>1. MaxEvents \in Nat
      OBVIOUS
    <3> QED
      BY <3>1
  <2> QED
    BY <1>1, <2>1
<1>3. TypeOK'
  <2>1. <<>> \in Seq(Events)
    OBVIOUS
  <2>2. stream' \in [Panels -> {"idle", "off", "open", "expired"}] /\ wire' \in [Panels -> Seq(Events)]
        /\ unsent' \in [Panels -> SUBSET Events]
    BY <1>1, <1>2, <2>1 DEF TypeOK
  <2>3. cursor' \in [Readers -> 0..MaxEvents] /\ seen' \in [Readers -> SUBSET Events]
    BY <1>1, <1>2 DEF TypeOK
  <2> QED
    BY <1>1, <2>2, <2>3 DEF TypeOK, serverVars
<1>4. /\ stream'[p] = next /\ mark'[p] = mark[p] /\ wire'[p] = <<>>
      /\ unsent'[p] = u /\ cursor'[p] = c /\ seen'[p] = s
  BY <1>1 DEF TypeOK
<1>5. /\ \A q \in Panels : q # p =>
           /\ stream'[q] = stream[q] /\ wire'[q] = wire[q] /\ unsent'[q] = unsent[q]
           /\ cursor'[q] = cursor[q] /\ seen'[q] = seen[q]
      /\ \A r \in Pollers : cursor'[r] = cursor[r] /\ seen'[r] = seen[r]
  BY <1>1 DEF TypeOK, Readers
<1>6. ToSet(<<>>) = {} /\ Len(<<>>) = 0
  BY DEF ToSet
<1>7. file.sequence \in Nat /\ \A e \in Kept : e.seq \in Nat /\ 1 <= e.seq
  BY <1>1, BusAndFile, LogTypes
<1>8. PanelKept(next, mark[p], <<>>, c, s, u)
  <2>1. next # "open" /\ next # "expired"
    OBVIOUS
  <2>2. CASE c = cursor[p] /\ s = seen[p] /\ u = unsent[p]
    BY <1>1, <1>6, <2>1, <2>2 DEF PanelKept
  <2>3. CASE c = 0 /\ s = {} /\ u = {}
    BY <1>6, <1>7, <2>1, <2>3 DEF PanelKept
  <2> QED
    BY <2>2, <2>3
<1> QED
  BY <1>3, <1>4, <1>5, <1>8, PanelStep

\* A panel connects anew, after a connection has dropped or its user has clicked.
LEMMA ReconnectStep ==
  ASSUME IInv, NEW p \in Panels, Reconnect(p), failures' \in 0..MaxFailures
  PROVE  IInv'
<1>1. TypeOK /\ p \in Readers
  BY PanelFacts
<1>2. /\ UNCHANGED serverVars /\ mark' = mark
      /\ stream' = [stream EXCEPT ![p] = "off"] /\ wire' = [wire EXCEPT ![p] = <<>>]
      /\ cursor' = cursor /\ seen' = seen /\ unsent' = unsent
  BY DEF Reconnect
<1>3. PICK c, s, u : /\ c = cursor[p] /\ s = seen[p] /\ u = unsent[p]
                     /\ cursor' = [cursor EXCEPT ![p] = c] /\ seen' = [seen EXCEPT ![p] = s]
                     /\ unsent' = [unsent EXCEPT ![p] = u]
  BY <1>1, <1>2 DEF TypeOK
<1>4. PICK next \in {"off", "idle"} : next = "off" /\ stream' = [stream EXCEPT ![p] = next]
  BY <1>2
<1>5. UNCHANGED serverVars /\ mark' = mark /\ wire' = [wire EXCEPT ![p] = <<>>]
  BY <1>2
<1>6. \/ c = cursor[p] /\ s = seen[p] /\ u = unsent[p]
      \/ c = 0 /\ s = {} /\ u = {}
  BY <1>3
<1> QED
  BY <1>3, <1>4, <1>5, <1>6, StreamEndsStep

\* A panel is loaded anew.
LEMMA ReloadStep == ASSUME IInv, NEW p \in Panels, Reload(p) PROVE IInv'
<1>1. TypeOK
  BY PanelFacts
<1>2. failures' \in 0..MaxFailures
  BY <1>1, ConstantsAssumption DEF ConstantsAssumption, TypeOK, Reload, Fail
<1>3. /\ UNCHANGED serverVars /\ mark' = mark
      /\ stream' = [stream EXCEPT ![p] = "idle"] /\ wire' = [wire EXCEPT ![p] = <<>>]
      /\ cursor' = [cursor EXCEPT ![p] = 0] /\ seen' = [seen EXCEPT ![p] = {}]
      /\ unsent' = [unsent EXCEPT ![p] = {}]
  BY DEF Reload
<1> QED
  BY <1>2, <1>3, StreamEndsStep

\* A poller fetches the next page.
LEMMA PollStep == ASSUME IInv, NEW r \in Pollers, Poll(r) PROVE IInv'
<1> USE ConstantsAssumption DEF ConstantsAssumption
<1>1. /\ TypeOK /\ LogsKept /\ r \in Readers /\ r \notin Panels
      /\ \A p \in Panels : PanelKept(stream[p], mark[p], wire[p], cursor[p], seen[p], unsent[p])
      /\ \A q \in Pollers : PollerKept(cursor[q], seen[q])
  BY ReaderByReader DEF ByReader, Readers
<1>2. cursor[r] \in 0..MaxEvents /\ cursor[r] \in Nat /\ seen[r] \subseteq Events
  BY <1>1 DEF TypeOK
<1> DEFINE page == Page(bus, cursor[r])
           c == Last(page).seq
<1>3. /\ UNCHANGED serverVars /\ failures' = failures /\ stream' = stream /\ mark' = mark
      /\ wire' = wire /\ unsent' = unsent /\ page # <<>>
      /\ cursor' = [cursor EXCEPT ![r] = c]
      /\ seen' = [seen EXCEPT ![r] = seen[r] \cup ToSet(page)]
  BY DEF Poll
<1>4. /\ ToSet(page) \subseteq ToSet(bus.events)
      /\ \A e \in ToSet(page) : e \in Events
      /\ Last(page) \in ToSet(page)
      /\ \A e \in Kept : e.seq <= c => e.seq <= cursor[r] \/ e \in ToSet(page)
  BY <1>1, <1>2, <1>3, PageOfBus
<1> HIDE DEF page
<1>5. c \in 0..MaxEvents /\ c <= file.sequence /\ \A e \in ToSet(page) : Stored(e)
  <2>1. Last(page) \in Kept /\ ToSet(page) \subseteq Kept
    BY <1>4 DEF Kept
  <2>2. c <= file.sequence /\ \A e \in ToSet(page) : Stored(e)
    BY <1>1, <2>1, BusAndFile
  <2>3. c \in 1..MaxEvents
    BY <1>4 DEF Events
  <2> QED
    BY <2>2, <2>3
<1> HIDE DEF c
<1>6. TypeOK'
  <2>1. cursor' \in [Readers -> 0..MaxEvents] /\ seen' \in [Readers -> SUBSET Events]
    BY <1>1, <1>2, <1>3, <1>4, <1>5 DEF TypeOK
  <2> QED
    BY <1>1, <1>3, <2>1 DEF TypeOK, serverVars
<1>7. LogsKept'
  BY <1>1, <1>3 DEF LogsKept, serverVars, Stored, Earliest, WellNumbered
<1>8. ASSUME NEW p \in Panels
      PROVE  PanelKept(stream[p], mark[p], wire[p], cursor[p], seen[p], unsent[p])'
  <2>1. cursor'[p] = cursor[p] /\ seen'[p] = seen[p]
    BY <1>1, <1>3 DEF TypeOK, Readers
  <2> QED
    BY <1>1, <1>3, <2>1 DEF PanelKept, Kept, Stored, Earliest, serverVars
<1>9. PollerKept(c, seen[r] \cup ToSet(page))
  BY <1>1, <1>4, <1>5 DEF PollerKept
<1>10. ASSUME NEW q \in Pollers
       PROVE  PollerKept(cursor[q], seen[q])'
  <2>1. PollerKept(cursor'[q], seen'[q])
    <3>1. CASE q = r
      <4>1. cursor'[q] = c /\ seen'[q] = seen[r] \cup ToSet(page)
        BY <1>1, <1>3, <3>1 DEF TypeOK
      <4> QED
        BY <1>9, <4>1
    <3>2. CASE q # r
      <4>1. cursor'[q] = cursor[q] /\ seen'[q] = seen[q]
        BY <1>1, <1>3, <3>2 DEF TypeOK, Readers
      <4> QED
        BY <1>1, <4>1
    <3> QED
      BY <3>1, <3>2
  <2> QED
    BY <1>3, <2>1 DEF PollerKept, Kept, Stored, Earliest, serverVars
<1>11. IInv' <=> ByReader'
  BY ReaderByReader, PTL
<1> QED
  BY <1>6, <1>7, <1>8, <1>10, <1>11 DEF ByReader

-----------------------------------------------------------------------------
(* Steps of the logs *)

\* A step that leaves the readers' cursors alone, and after which what was
\* stored is so still, keeps the pollers' part.
LEMMA PollersStay ==
  ASSUME IInv, cursor' = cursor, seen' = seen, NEW new,
         file.sequence <= file'.sequence, file'.sequence \in Nat,
         \A e \in Events : Stored(e) => Stored(e)',
         \A e \in Kept' : e \in Kept \/ e = new,
         \A r \in Readers : ~(new.seq <= cursor[r])
  PROVE  \A r \in Pollers : PollerKept(cursor[r], seen[r])'
<1> SUFFICES ASSUME NEW r \in Pollers
             PROVE  PollerKept(cursor[r], seen[r])'
  OBVIOUS
<1>1. TypeOK /\ LogsKept /\ r \in Readers /\ PollerKept(cursor[r], seen[r])
  BY ReaderByReader DEF ByReader, Readers
<1>2. cursor[r] \in Nat /\ seen[r] \subseteq Events /\ file.sequence \in Nat
  BY <1>1, LogTypes, ConstantsAssumption DEF ConstantsAssumption, TypeOK
<1>3. cursor[r] <= file'.sequence
  BY <1>1, <1>2 DEF PollerKept
<1>4. \A e \in seen[r] : Stored(e)'
  BY <1>1, <1>2 DEF PollerKept
<1>5. \A e \in Kept' : e.seq <= cursor[r] => e \in seen[r]
  BY <1>1 DEF PollerKept
<1> QED
  BY <1>3, <1>4, <1>5 DEF PollerKept

\* The file gets an event that the bus does not deliver: a write by another
\* server, or one that is in place and reported as failed.
LEMMA FileOnlyStep ==
  ASSUME IInv, attempts < MaxEvents, attempts' = attempts + 1, file' = Added(file),
         current' = FALSE, UNCHANGED <<up, bus>>, UNCHANGED readerVars,
         failures' \in 0..MaxFailures
  PROVE  IInv'
<1> USE ConstantsAssumption DEF ConstantsAssumption
<1>1. /\ TypeOK /\ LogsKept
      /\ \A p \in Panels : PanelKept(stream[p], mark[p], wire[p], cursor[p], seen[p], unsent[p])
      /\ \A r \in Pollers : PollerKept(cursor[r], seen[r])
  BY ReaderByReader DEF ByReader
<1> DEFINE event == [seq |-> file.sequence + 1, id |-> attempts + 1]
<1>2. /\ file'.sequence = file.sequence + 1
      /\ file'.events \in Seq(Events)
      /\ WellNumbered(file')
      /\ event \in Events /\ event.seq = file.sequence + 1
      /\ ToSet(file'.events) \subseteq ToSet(file.events) \cup {event}
      /\ \A e \in Events : Stored(e) => Stored(e)'
  BY <1>1, FileGrows
<1> HIDE DEF event
<1>3. /\ file.sequence \in Nat /\ bus.sequence \in Nat /\ attempts \in Nat /\ MaxEvents \in Nat
      /\ bus.sequence <= file.sequence /\ file.sequence <= attempts
      /\ WellNumbered(bus)
  BY <1>1, LogTypes
<1>4. TypeOK'
  <2>1. file'.sequence \in 0..MaxEvents /\ attempts' \in 0..MaxEvents
    BY <1>2, <1>3
  <2>2. \A log \in {file', bus'} : log.sequence \in 0..MaxEvents /\ log.events \in Seq(Events)
    BY <1>1, <1>2, <2>1 DEF TypeOK
  <2> QED
    BY <1>1, <2>1, <2>2 DEF TypeOK, readerVars
<1>5. LogsKept'
  <2>1. \A e \in ToSet(bus.events) : e \in Events /\ Stored(e)
    BY <1>1, BusAndFile DEF Kept
  <2>2. \A e \in ToSet(bus.events) : Stored(e)'
    BY <1>2, <2>1
  <2>3. WellNumbered(file)' /\ WellNumbered(bus)'
    BY <1>2, <1>3 DEF WellNumbered
  <2>4. bus'.sequence <= file'.sequence /\ file'.sequence <= attempts'
    BY <1>2, <1>3
  <2> QED
    BY <2>2, <2>3, <2>4 DEF LogsKept
<1>6. \A e \in Kept' : e \in Kept \/ e = event
  BY <1>2 DEF Kept
<1>7. \A r \in Readers : cursor[r] \in Nat /\ cursor[r] <= file.sequence
  BY <1>1, <1>3 DEF TypeOK, Readers, PanelKept, PollerKept
<1>8. \A r \in Readers : ~(event.seq <= cursor[r])
  BY <1>2, <1>3, <1>7
<1>9. \A r \in Pollers : PollerKept(cursor[r], seen[r])'
  BY <1>2, <1>3, <1>6, <1>8, PollersStay DEF readerVars
<1>10. ASSUME NEW p \in Panels
       PROVE  PanelKept(stream[p], mark[p], wire[p], cursor[p], seen[p], unsent[p])'
  <2>1. /\ p \in Readers
        /\ PanelKept(stream[p], mark[p], wire[p], cursor[p], seen[p], unsent[p])
        /\ wire[p] \in Seq(Events) /\ seen[p] \subseteq Events
    BY PanelFacts
  <2>2. /\ ToSet(wire[p]) \subseteq Events
        /\ \A i \in 1..Len(wire[p]) : wire[p][i] \in ToSet(wire[p])
    BY <2>1, InSequence
  <2>3. /\ \A e \in ToSet(wire[p]) : Stored(e)'
        /\ \A e \in seen[p] : Stored(e)'
    BY <1>2, <2>1, <2>2 DEF PanelKept
  <2>4. \A i \in 1..Len(wire[p]) : ~(event.seq <= wire[p][i].seq)
    <3> SUFFICES ASSUME NEW i \in 1..Len(wire[p])
                 PROVE  ~(event.seq <= wire[p][i].seq)
      OBVIOUS
    <3>1. wire[p][i] \in Events /\ Stored(wire[p][i])
      BY <2>1, <2>2 DEF PanelKept
    <3>2. wire[p][i].seq \in Nat /\ wire[p][i].seq <= file.sequence
      BY <3>1 DEF Stored, Events
    <3> QED
      BY <1>2, <1>3, <3>2
  <2>5. cursor[p] <= file'.sequence
    BY <1>2, <1>3, <1>7, <2>1
  <2>6. \A e \in Kept' : e.seq <= cursor[p] => e \in seen[p] \cup unsent[p]
    BY <1>6, <1>8, <2>1 DEF PanelKept
  <2>7. \A e \in Kept' : \A i \in 1..Len(wire[p]) :
          e.seq <= wire[p][i].seq => e \in seen[p] \cup unsent[p] \cup {wire[p][j] : j \in 1..i}
    BY <1>6, <2>1, <2>4 DEF PanelKept
  <2> QED
    BY <2>1, <2>3, <2>5, <2>6, <2>7 DEF PanelKept, readerVars, Earliest
<1>11. IInv' <=> ByReader'
  BY ReaderByReader, PTL
<1> QED
  BY <1>4, <1>5, <1>9, <1>10, <1>11 DEF ByReader

\* The event goes to an open stream after what is on its way there.
LEMMA DeliveredEvent ==
  ASSUME TypeOK, NEW event \in Events, Deliver(event), NEW p \in Panels
  PROVE  /\ wire' \in [Panels -> Seq(Events)]
         /\ IF stream[p] = "open" /\ event.seq > mark[p]
            THEN /\ Len(wire'[p]) = Len(wire[p]) + 1
                 /\ wire'[p][Len(wire[p]) + 1] = event
                 /\ \A i \in 1..Len(wire[p]) : wire'[p][i] = wire[p][i]
                 /\ ToSet(wire'[p]) = ToSet(wire[p]) \cup {event}
            ELSE wire'[p] = wire[p]
<1>1. wire' \in [Panels -> Seq(Events)]
  <2>1. \A q \in Panels : Append(wire[q], event) \in Seq(Events) /\ wire[q] \in Seq(Events)
    BY DEF TypeOK
  <2> QED
    BY <2>1 DEF Deliver
<1>2. CASE stream[p] = "open" /\ event.seq > mark[p]
  <2> DEFINE old == wire[p]
             new == Append(old, event)
  <2>1. wire'[p] = new
    BY <1>2 DEF Deliver
  <2>2. old \in Seq(Events)
    BY DEF TypeOK
  <2>3. /\ new \in Seq(Events) /\ Len(old) \in Nat /\ Len(new) = Len(old) + 1
        /\ new[Len(old) + 1] = event
        /\ \A i \in 1..Len(old) : new[i] = old[i]
    BY <2>2
  <2> HIDE DEF old, new
  <2>4. /\ \A x : x \in ToSet(new) <=> \E i \in 1..Len(new) : new[i] = x
        /\ \A x : x \in ToSet(old) <=> \E i \in 1..Len(old) : old[i] = x
    BY <2>2, <2>3, InSequence
  <2>5. \A i \in 1..Len(new) : i = Len(old) + 1 \/ i \in 1..Len(old)
    BY <2>3
  <2>6. Len(old) + 1 \in 1..Len(new) /\ \A i \in 1..Len(old) : i \in 1..Len(new)
    BY <2>3
  <2>7. ToSet(new) \subseteq ToSet(old) \cup {event}
    BY <2>3, <2>4, <2>5
  <2>8. ToSet(old) \subseteq ToSet(new) /\ event \in ToSet(new)
    BY <2>3, <2>4, <2>6
  <2> QED
    BY <1>1, <1>2, <2>1, <2>3, <2>7, <2>8 DEF old
<1>3. CASE ~(stream[p] = "open" /\ event.seq > mark[p])
  BY <1>1, <1>3 DEF Deliver
<1> QED
  BY <1>2, <1>3

\* An event is stored and delivered.
LEMMA StoredAndDelivered ==
  ASSUME IInv, attempts < MaxEvents, attempts' = attempts + 1, current, up,
         file' = Added(file), bus' = Added(bus), Deliver(Last(Added(bus).events)),
         current' = current, UNCHANGED <<up, failures, stream, mark, cursor, seen, unsent>>
  PROVE  IInv'
<1> USE ConstantsAssumption DEF ConstantsAssumption
<1>1. /\ TypeOK /\ LogsKept /\ bus = file
      /\ \A p \in Panels : PanelKept(stream[p], mark[p], wire[p], cursor[p], seen[p], unsent[p])
      /\ \A r \in Pollers : PollerKept(cursor[r], seen[r])
  BY ReaderByReader DEF ByReader, LogsKept
<1>0. PICK event : event = [seq |-> file.sequence + 1, id |-> attempts + 1]
  OBVIOUS
<1>2. /\ file'.sequence = file.sequence + 1
      /\ file'.events \in Seq(Events)
      /\ WellNumbered(file')
      /\ event \in Events /\ event.seq = file.sequence + 1
      /\ Last(Added(file).events) = event
      /\ ToSet(file'.events) \subseteq ToSet(file.events) \cup {event}
      /\ Earliest(file) <= Earliest(file')
      /\ Stored(event)'
      /\ \A e \in Events : Stored(e) => Stored(e)'
  BY <1>0, <1>1, FileGrows
<1>3. /\ file.sequence \in Nat /\ attempts \in Nat /\ MaxEvents \in Nat
      /\ file.sequence <= attempts
  BY <1>1, LogTypes
<1>4. bus' = file' /\ Deliver(event)
  BY <1>1, <1>2
<1>5. TypeOK'
  <2>1. file'.sequence \in 0..MaxEvents /\ attempts' \in 0..MaxEvents
    BY <1>2, <1>3
  <2>2. \A log \in {file', bus'} : log.sequence \in 0..MaxEvents /\ log.events \in Seq(Events)
    BY <1>2, <1>4, <2>1
  <2>3. wire' \in [Panels -> Seq(Events)]
    <3>1. CASE Panels = {}
      BY <1>4, <3>1 DEF Deliver
    <3>2. CASE Panels # {}
      BY <1>1, <1>2, <1>4, <3>2, DeliveredEvent
    <3> QED
      BY <3>1, <3>2
  <2> QED
    BY <1>1, <2>1, <2>2, <2>3 DEF TypeOK
<1>6. \A e \in Kept : e \in Events /\ Stored(e) /\ e \in ToSet(bus.events)
  BY <1>1, BusAndFile DEF Kept
<1>7. \A e \in Kept' : e \in Kept \/ e = event
  BY <1>1, <1>2, <1>4 DEF Kept
<1>8. LogsKept'
  <2>1. \A e \in Kept' : Stored(e)'
    BY <1>2, <1>6, <1>7
  <2>2. WellNumbered(file)' /\ WellNumbered(bus)'
    BY <1>2, <1>4 DEF WellNumbered
  <2>3. bus'.sequence <= file'.sequence /\ file'.sequence <= attempts'
    BY <1>2, <1>3, <1>4
  <2> QED
    BY <1>4, <2>1, <2>2, <2>3 DEF LogsKept, Kept
<1>9. \A r \in Readers : cursor[r] \in Nat /\ cursor[r] <= file.sequence
  BY <1>1, <1>3 DEF TypeOK, Readers, PanelKept, PollerKept
<1>10. \A r \in Readers : ~(event.seq <= cursor[r])
  BY <1>2, <1>3, <1>9
<1>11. \A r \in Pollers : PollerKept(cursor[r], seen[r])'
  BY <1>2, <1>3, <1>7, <1>10, PollersStay
<1>12. ASSUME NEW p \in Panels
       PROVE  PanelKept(stream[p], mark[p], wire[p], cursor[p], seen[p], unsent[p])'
  <2>1. /\ p \in Readers
        /\ PanelKept(stream[p], mark[p], wire[p], cursor[p], seen[p], unsent[p])
        /\ wire[p] \in Seq(Events) /\ seen[p] \subseteq Events /\ mark[p] \in Nat
    BY PanelFacts
  <2>2. /\ ToSet(wire[p]) \subseteq Events /\ Len(wire[p]) \in Nat
        /\ \A i \in 1..Len(wire[p]) : wire[p][i] \in ToSet(wire[p])
    BY <2>1, InSequence
  <2>3. /\ IF stream[p] = "open" /\ event.seq > mark[p]
           THEN /\ Len(wire'[p]) = Len(wire[p]) + 1
                /\ wire'[p][Len(wire[p]) + 1] = event
                /\ \A i \in 1..Len(wire[p]) : wire'[p][i] = wire[p][i]
                /\ ToSet(wire'[p]) = ToSet(wire[p]) \cup {event}
           ELSE wire'[p] = wire[p]
    BY <1>1, <1>2, <1>4, DeliveredEvent
  <2>4. /\ ToSet(wire'[p]) \subseteq ToSet(wire[p]) \cup {event}
        /\ ToSet(wire[p]) \subseteq ToSet(wire'[p])
    BY <2>3
  <2>5. /\ \A e \in ToSet(wire'[p]) : Stored(e)'
        /\ \A e \in seen[p] : Stored(e)'
    BY <1>2, <2>1, <2>2, <2>4 DEF PanelKept
  <2>6. \A i \in 1..Len(wire[p]) : ~(event.seq <= wire[p][i].seq)
    <3> SUFFICES ASSUME NEW i \in 1..Len(wire[p])
                 PROVE  ~(event.seq <= wire[p][i].seq)
      OBVIOUS
    <3>1. wire[p][i] \in Events /\ Stored(wire[p][i])
      BY <2>1, <2>2 DEF PanelKept
    <3>2. wire[p][i].seq \in Nat /\ wire[p][i].seq <= file.sequence
      BY <3>1 DEF Stored, Events
    <3> QED
      BY <1>2, <1>3, <3>2
  <2>7. cursor[p] <= file'.sequence
    BY <1>2, <1>3, <1>9, <2>1
  <2>8. \A e \in Kept' : e.seq <= cursor[p] => e \in seen[p] \cup unsent[p]
    BY <1>7, <1>10, <2>1 DEF PanelKept
  <2>9. ~up => stream[p] # "open"
    BY <2>1 DEF PanelKept
  <2>10. stream[p] = "expired" => 1 <= mark[p] /\ mark[p] <= Earliest(file')
    <3>1. Earliest(file) \in Nat /\ Earliest(file') \in Nat
      <4>1. Earliest(file) \in Nat
        BY <1>1, BusAndFile
      <4>2. file'.sequence \in Nat
        BY <1>2, <1>3
      <4> QED
        BY <1>2, <4>1, <4>2, LogNumbers
    <3>2. stream[p] = "expired" => 1 <= mark[p] /\ mark[p] <= Earliest(file)
      BY <1>1, <2>1 DEF PanelKept
    <3> QED
      BY <1>2, <2>1, <3>1, <3>2
  <2>11. ASSUME stream[p] = "open"
         PROVE  /\ mark[p] <= file'.sequence /\ event.seq > mark[p]
                /\ ToSet(bus.events) \subseteq seen[p] \cup unsent[p] \cup ToSet(wire[p])
                /\ ToSet(file'.events) \subseteq seen[p] \cup unsent[p] \cup ToSet(wire'[p])
    <3>1. /\ mark[p] <= file.sequence
          /\ ToSet(bus.events) \subseteq seen[p] \cup unsent[p] \cup ToSet(wire[p])
      BY <1>1, <2>1, <2>11 DEF PanelKept
    <3>2. mark[p] <= file'.sequence /\ event.seq > mark[p]
      BY <1>2, <1>3, <2>1, <3>1
    <3>3. event \in ToSet(wire'[p])
      BY <2>3, <2>11, <3>2
    <3> QED
      BY <1>1, <1>2, <2>4, <3>1, <3>2, <3>3
  <2>12. ASSUME NEW e \in Kept', NEW i \in 1..Len(wire'[p]), e.seq <= wire'[p][i].seq
         PROVE  e \in seen[p] \cup unsent[p] \cup {wire'[p][j] : j \in 1..i}
    <3>1. CASE i \in 1..Len(wire[p])
      <4>1. \A j \in 1..i : j \in 1..Len(wire[p])
        BY <2>2, <3>1
      <4>2. \A j \in 1..i : wire'[p][j] = wire[p][j]
        BY <2>3, <4>1
      <4>3. wire'[p][i] = wire[p][i]
        BY <2>3, <3>1
      <4>4. e \in Kept
        BY <1>7, <2>6, <2>12, <3>1, <4>3
      <4>5. e \in seen[p] \cup unsent[p] \cup {wire[p][j] : j \in 1..i}
        BY <2>1, <2>12, <3>1, <4>3, <4>4 DEF PanelKept
      <4> QED
        BY <4>2, <4>5
    <3>2. CASE i \notin 1..Len(wire[p])
      <4>1. stream[p] = "open" /\ event.seq > mark[p]
        BY <2>3, <3>2
      <4>2. i = Len(wire[p]) + 1 /\ Len(wire'[p]) = i /\ wire'[p][i] = event
        BY <2>2, <2>3, <3>2, <4>1
      <4>3. e \in seen[p] \cup unsent[p] \cup ToSet(wire[p]) \cup {event}
        BY <1>6, <1>7, <2>11, <4>1
      <4>4. wire' \in [Panels -> Seq(Events)]
        BY <1>5 DEF TypeOK
      <4>5. \A x : x \in ToSet(wire'[p]) <=> \E j \in 1..Len(wire'[p]) : wire'[p][j] = x
        BY <4>4, InSequence
      <4>6. e \in seen[p] \cup unsent[p] \cup ToSet(wire'[p])
        BY <2>3, <4>1, <4>3
      <4> QED
        BY <4>2, <4>5, <4>6
    <3> QED
      BY <3>1, <3>2
  <2> QED
    BY <1>4, <2>5, <2>7, <2>8, <2>9, <2>10, <2>11, <2>12 DEF PanelKept
<1>13. IInv' <=> ByReader'
  BY ReaderByReader, PTL
<1> QED
  BY <1>5, <1>8, <1>11, <1>12, <1>13 DEF ByReader

\* publish: stored and delivered, taken back, or stored and taken back.
LEMMA PublishStep == ASSUME IInv, Publish PROVE IInv'
<1> USE ConstantsAssumption DEF ConstantsAssumption
<1>1. TypeOK /\ LogsKept /\ up /\ attempts < MaxEvents /\ attempts' = attempts + 1
      /\ UNCHANGED <<up, failures, stream, mark, cursor, seen, unsent>>
  BY DEF IInv, Publish
<1>2. attempts' \in 0..MaxEvents /\ failures' \in 0..MaxFailures
  BY <1>1 DEF TypeOK
<1>3. CASE /\ current /\ file' = Added(bus) /\ bus' = Added(bus)
           /\ Deliver(Last(Added(bus).events)) /\ current' = current
  <2>1. bus = file
    BY <1>1, <1>3 DEF LogsKept
  <2> QED
    BY <1>1, <1>3, <2>1, StoredAndDelivered
<1>4. CASE bus' = bus /\ UNCHANGED <<file, current, wire>>
  <2>1. TypeOK'
    BY <1>1, <1>2, <1>4 DEF TypeOK
  <2>2. file.sequence \in Nat /\ attempts \in Nat /\ file.sequence <= attempts
    BY <1>1, LogTypes
  <2>3. file'.sequence <= attempts'
    BY <1>1, <1>4, <2>2
  <2>4. LogsKept'
    BY <1>1, <1>4, <2>3 DEF LogsKept, Stored, Earliest, WellNumbered
  <2>5. DeliveryKept' /\ ShownIsStored' /\ StreamsKept' /\ CoverKept'
    BY <1>1, <1>4 DEF IInv, DeliveryKept, ShownIsStored, StreamsKept, CoverKept, Covered, Stored,
                      Earliest
  <2> QED
    BY <2>1, <2>4, <2>5 DEF IInv
<1>5. CASE /\ current /\ file' = Added(bus) /\ current' = FALSE /\ bus' = bus /\ UNCHANGED wire
  <2>1. bus = file
    BY <1>1, <1>5 DEF LogsKept
  <2>2. UNCHANGED <<up, bus>> /\ UNCHANGED readerVars /\ file' = Added(file) /\ current' = FALSE
    BY <1>1, <1>5, <2>1 DEF readerVars
  <2> QED
    BY <1>1, <1>2, <2>2, FileOnlyStep
<1>6. \/ /\ current /\ file' = Added(bus) /\ bus' = Added(bus)
         /\ Deliver(Last(Added(bus).events)) /\ current' = current
      \/ bus' = bus /\ UNCHANGED <<file, current, wire>>
      \/ current /\ file' = Added(bus) /\ current' = FALSE /\ bus' = bus /\ UNCHANGED wire
  BY DEF Publish, RolledBack
<1> QED
  BY <1>3, <1>4, <1>5, <1>6

\* Another server publishes.
LEMMA OtherPublishesStep == ASSUME IInv, OtherPublishes PROVE IInv'
<1>1. failures' \in 0..MaxFailures
  BY ConstantsAssumption DEF ConstantsAssumption, IInv, TypeOK, OtherPublishes, Fail
<1> QED
  BY <1>1, FileOnlyStep DEF OtherPublishes

\* A start reads the file; no stream is open, and a 409 names no later sequence
\* than the earliest of the file.
LEMMA StartStep == ASSUME IInv, Start PROVE IInv'
<1>1. /\ TypeOK /\ LogsKept /\ ~up
      /\ \A p \in Panels : PanelKept(stream[p], mark[p], wire[p], cursor[p], seen[p], unsent[p])
      /\ \A r \in Pollers : PollerKept(cursor[r], seen[r])
  BY ReaderByReader DEF ByReader, Start
<1>2. /\ up' = TRUE /\ bus' = file /\ current' = TRUE /\ file' = file /\ attempts' = attempts
      /\ failures' = failures /\ UNCHANGED readerVars
  BY DEF Start
<1>3. TypeOK'
  <2>1. file.sequence \in 0..MaxEvents /\ file.events \in Seq(Events)
    BY <1>1 DEF TypeOK
  <2>2. \A log \in {file', bus'} : log.sequence \in 0..MaxEvents /\ log.events \in Seq(Events)
    BY <1>2, <2>1
  <2> QED
    BY <1>1, <1>2, <2>2 DEF TypeOK, readerVars
<1>4. Kept' \subseteq Kept
  BY <1>2 DEF Kept
<1>5. \A e : Stored(e)' <=> Stored(e)
  BY <1>2 DEF Stored, Earliest
<1>6. LogsKept'
  <2>1. \A e \in ToSet(file.events) : Stored(e)
    BY <1>1, BusAndFile DEF Kept
  <2>2. WellNumbered(file)' /\ WellNumbered(bus)'
    BY <1>1, <1>2 DEF LogsKept, WellNumbered
  <2>3. bus'.sequence <= file'.sequence /\ file'.sequence <= attempts'
    BY <1>1, <1>2, LogTypes
  <2>4. \A e \in ToSet(bus'.events) : Stored(e)'
    BY <1>2, <1>5, <2>1
  <2> QED
    BY <1>2, <2>2, <2>3, <2>4 DEF LogsKept
<1>7. ASSUME NEW p \in Panels
      PROVE  PanelKept(stream[p], mark[p], wire[p], cursor[p], seen[p], unsent[p])'
  <2>1. stream[p] # "open" /\ mark[p] \in Nat
    BY <1>1, ConstantsAssumption DEF PanelKept, TypeOK, ConstantsAssumption
  <2>2. stream[p] = "expired" => 1 <= mark[p] /\ mark[p] <= Earliest(file)
    <3>1. Earliest(bus) \in Nat /\ Earliest(bus) <= Earliest(file)
      BY <1>1, BusAndFile
    <3>2. Earliest(file) \in Nat
      BY <1>1, LogTypes, LogNumbers
    <3>3. stream[p] = "expired" => 1 <= mark[p] /\ mark[p] <= Earliest(bus)
      BY <1>1 DEF PanelKept
    <3> QED
      BY <2>1, <3>1, <3>2, <3>3
  <2>3. Earliest(bus)' = Earliest(file)
    BY <1>2 DEF Earliest
  <2> QED
    BY <1>1, <1>2, <1>4, <1>5, <2>1, <2>2, <2>3 DEF PanelKept, readerVars
<1>8. \A r \in Pollers : PollerKept(cursor[r], seen[r])'
  BY <1>1, <1>2, <1>4, <1>5 DEF PollerKept, readerVars
<1>9. IInv' <=> ByReader'
  BY ReaderByReader, PTL
<1> QED
  BY <1>3, <1>6, <1>7, <1>8, <1>9 DEF ByReader

\* The server ends: a stream breaks, or ends with what is on its way.
LEMMA ServerEndsStep ==
  ASSUME IInv, up' = FALSE, UNCHANGED <<file, bus, current, attempts, mark, cursor, seen, unsent>>,
         failures' \in 0..MaxFailures,
         stream' \in [Panels -> {"idle", "off", "open", "expired"}],
         wire' \in [Panels -> Seq(Events)],
         \A p \in Panels : /\ stream'[p] # "open"
                           /\ stream'[p] = "expired" => stream[p] = "expired"
                           /\ wire'[p] = <<>> \/ wire'[p] = wire[p]
  PROVE  IInv'
<1> USE ConstantsAssumption DEF ConstantsAssumption
<1>1. /\ TypeOK /\ LogsKept
      /\ \A p \in Panels : PanelKept(stream[p], mark[p], wire[p], cursor[p], seen[p], unsent[p])
      /\ \A r \in Pollers : PollerKept(cursor[r], seen[r])
  BY ReaderByReader DEF ByReader
<1>2. TypeOK'
  BY <1>1 DEF TypeOK
<1>3. LogsKept'
  BY <1>1 DEF LogsKept, Stored, Earliest, WellNumbered
<1>4. Kept' = Kept /\ Earliest(bus)' = Earliest(bus) /\ (\A e : Stored(e)' <=> Stored(e))
  BY DEF Kept, Stored, Earliest
<1>5. ASSUME NEW p \in Panels
      PROVE  PanelKept(stream[p], mark[p], wire[p], cursor[p], seen[p], unsent[p])'
  <2>1. /\ cursor[p] <= file.sequence
        /\ \A e \in seen[p] : Stored(e)
        /\ stream[p] = "expired" => 1 <= mark[p] /\ mark[p] <= Earliest(bus)
        /\ \A e \in Kept : e.seq <= cursor[p] => e \in seen[p] \cup unsent[p]
    BY <1>1 DEF PanelKept
  <2>2. /\ \A e \in ToSet(wire'[p]) : Stored(e)
        /\ \A e \in Kept : \A i \in 1..Len(wire'[p]) :
             e.seq <= wire'[p][i].seq => e \in seen[p] \cup unsent[p] \cup {wire'[p][j] : j \in 1..i}
    <3>1. ToSet(<<>>) = {} /\ Len(<<>>) = 0
      BY DEF ToSet
    <3>2. CASE wire'[p] = <<>>
      BY <3>1, <3>2
    <3>3. CASE wire'[p] = wire[p]
      BY <1>1, <3>3 DEF PanelKept
    <3> QED
      BY <3>2, <3>3
  <2> QED
    BY <1>4, <2>1, <2>2 DEF PanelKept
<1>6. \A r \in Pollers : PollerKept(cursor[r], seen[r])'
  BY <1>1, <1>4 DEF PollerKept
<1>7. IInv' <=> ByReader'
  BY ReaderByReader, PTL
<1> QED
  BY <1>2, <1>3, <1>5, <1>6, <1>7 DEF ByReader

\* The server is killed.
LEMMA CrashStep == ASSUME IInv, Crash PROVE IInv'
<1>1. TypeOK /\ <<>> \in Seq(Events)
  BY DEF IInv
<1>2. failures' \in 0..MaxFailures
  BY <1>1, ConstantsAssumption DEF ConstantsAssumption, TypeOK, Crash, Fail
<1>3. /\ stream' \in [Panels -> {"idle", "off", "open", "expired"}]
      /\ wire' \in [Panels -> Seq(Events)]
  BY <1>1 DEF TypeOK, Crash
<1>4. \A p \in Panels : /\ stream'[p] # "open" /\ stream'[p] # "expired"
                        /\ wire'[p] = <<>> \/ wire'[p] = wire[p]
  BY DEF Crash
<1> QED
  BY <1>2, <1>3, <1>4, ServerEndsStep DEF Crash

\* The server is closed.
LEMMA StopStep == ASSUME IInv, Stop PROVE IInv'
<1>1. TypeOK
  BY DEF IInv
<1>2. failures' \in 0..MaxFailures
  BY <1>1, ConstantsAssumption DEF ConstantsAssumption, TypeOK, Stop, Fail
<1>3. /\ stream' \in [Panels -> {"idle", "off", "open", "expired"}]
      /\ wire' = wire /\ wire' \in [Panels -> Seq(Events)]
  BY <1>1 DEF TypeOK, Stop
<1>4. \A p \in Panels : stream'[p] # "open" /\ (stream'[p] = "expired" => stream[p] = "expired")
  BY DEF Stop
<1> QED
  BY <1>2, <1>3, <1>4, ServerEndsStep DEF Stop

\* Every step keeps the invariant.
LEMMA NextIInv == IInv /\ [Next]_vars => IInv'
<1> SUFFICES ASSUME IInv, [Next]_vars PROVE IInv'
  OBVIOUS
<1>1. CASE Publish
  BY <1>1, PublishStep
<1>2. CASE OtherPublishes
  BY <1>2, OtherPublishesStep
<1>3. CASE Start
  BY <1>3, StartStep
<1>4. CASE Crash
  BY <1>4, CrashStep
<1>5. CASE Stop
  BY <1>5, StopStep
<1>6. ASSUME NEW p \in Panels,
             \/ OpenStream(p) \/ HandleExpired(p) \/ ReadEvent(p)
             \/ Drop(p) \/ Connect(p) \/ Reload(p)
      PROVE  IInv'
  <2>1. CASE Drop(p) \/ Connect(p)
    <3>1. failures' \in 0..MaxFailures
      BY <2>1, ConstantsAssumption DEF ConstantsAssumption, IInv, TypeOK, Drop, Connect, Fail
    <3>2. Reconnect(p)
      BY <2>1 DEF Drop, Connect
    <3> QED
      BY <3>1, <3>2, ReconnectStep
  <2> QED
    BY <1>6, <2>1, OpenStreamStep, HandleExpiredStep, ReadEventStep, ReloadStep
<1>7. ASSUME NEW r \in Pollers, Poll(r)
      PROVE  IInv'
  BY <1>7, PollStep
<1>8. CASE UNCHANGED vars
  BY <1>8 DEF vars, IInv, TypeOK, LogsKept, WellNumbered, Stored, Earliest, DeliveryKept,
              ShownIsStored, StreamsKept, CoverKept, Covered
<1> QED
  BY <1>1, <1>2, <1>3, <1>4, <1>5, <1>6, <1>7, <1>8 DEF Next

-----------------------------------------------------------------------------
(* The theorems *)

\* The parts of the invariant hold of the event bus, its file and its readers.
THEOREM Invariance == Spec => []IInv
<1> QED
  BY InitIInv, NextIInv, PTL DEF Spec

\* The logs, cursors and streams have the types that publish, list, restore and
\* the panel give them.
THEOREM TypeCorrect == Spec => []TypeOK
<1>1. IInv => TypeOK
  BY DEF IInv
<1> QED
  BY <1>1, Invariance, PTL

\* No sequence number is used twice for what a reader has been shown: publish
\* stores an event before it delivers it.
THEOREM ShownIsStoredTheorem == Spec => []ShownIsStored
<1>1. IInv => ShownIsStored
  BY DEF IInv
<1> QED
  BY <1>1, Invariance, PTL

\* Up to its cursor a reader has been shown all that is still kept, but for what
\* a first page had no room for.
THEOREM CursorCoversHistoryTheorem == Spec => []CursorCoversHistory
<1>1. ASSUME IInv PROVE CursorCoversHistory
  <2>1. /\ \A p \in Panels : PanelKept(stream[p], mark[p], wire[p], cursor[p], seen[p], unsent[p])
        /\ \A r \in Pollers : PollerKept(cursor[r], seen[r])
    BY <1>1, ReaderByReader DEF ByReader
  <2> QED
    BY <2>1 DEF CursorCoversHistory, PanelKept, PollerKept, Kept
<1> QED
  BY <1>1, Invariance, PTL

-----------------------------------------------------------------------------
(***************************************************************************)
(* The file under the log: SnapshotStore, for any processes, versions and  *)
(* number of crashes.                                                      *)
(*                                                                         *)
(* The inductive invariant StoreIInv says that a write that has begun      *)
(* holds the lock it made, that nobody writes between its comparison and   *)
(* its rename, nor between its rename and the removal of its lock.  From   *)
(* it follow the exclusion of writers and the implementation of            *)
(* SnapshotRegister (Register!).                                           *)
(***************************************************************************)
USE StoreAssumption, NoneAssumption DEF StoreAssumption, NoneAssumption

\* The initial states satisfy the invariant.
LEMMA StoreInitHolds == StoreInit => StoreIInv
<1> SUFFICES ASSUME StoreInit PROVE StoreIInv
    OBVIOUS
<1>1. StoreTypeOK
  BY DEF StoreInit, StoreTypeOK, Stages
<1>2. InsideHolds /\ NothingBetween /\ StillThere
  BY DEF StoreInit, InsideHolds, NothingBetween, StillThere, Inside
<1> QED BY <1>1, <1>2 DEF StoreIInv

\* Every action keeps the types.
LEMMA StoreTypeStep == StoreTypeOK /\ InsideHolds /\ [StoreNext]_storeVars => StoreTypeOK'
<1> SUFFICES ASSUME StoreTypeOK, InsideHolds, [StoreNext]_storeVars
             PROVE  StoreTypeOK'
    OBVIOUS
<1> USE DEF StoreTypeOK, Stages, Locks, Goto
<1>1. ASSUME NEW p \in Procs, Restore(p) PROVE StoreTypeOK'
  BY <1>1 DEF Restore
<1>2. ASSUME NEW p \in Procs, NEW v \in Versions, MakeLock(p, v) PROVE StoreTypeOK'
  BY <1>2 DEF MakeLock
<1>3. ASSUME NEW p \in Procs, WriteOwner(p) PROVE StoreTypeOK'
  BY <1>3 DEF WriteOwner, InsideHolds, Inside, Holds
<1>4. ASSUME NEW p \in Procs, WriteOwnerFails(p) PROVE StoreTypeOK'
  BY <1>4 DEF WriteOwnerFails, Throw
<1>5. ASSUME NEW p \in Procs, Compare(p) PROVE StoreTypeOK'
  BY <1>5 DEF Compare
<1>6. ASSUME NEW p \in Procs, Refuse(p) PROVE StoreTypeOK'
  BY <1>6 DEF Refuse
<1>7. ASSUME NEW p \in Procs, Rename(p) PROVE StoreTypeOK'
  BY <1>7 DEF Rename, InsideHolds, Inside
<1>8. ASSUME NEW p \in Procs, UnlinkOwner(p) PROVE StoreTypeOK'
  BY <1>8 DEF UnlinkOwner, InsideHolds, Inside, Holds
<1>9. ASSUME NEW p \in Procs, UnlinkFails(p) PROVE StoreTypeOK'
  BY <1>9 DEF UnlinkFails, Return, Throw
<1>10. ASSUME NEW p \in Procs, RemoveLock(p) PROVE StoreTypeOK'
  BY <1>10 DEF RemoveLock, Return
<1>11. ASSUME NEW p \in Procs, RemoveLockFails(p) PROVE StoreTypeOK'
  BY <1>11 DEF RemoveLockFails, Throw
<1>12. ASSUME NEW p \in Procs, StoreCrash(p) PROVE StoreTypeOK'
  <2>1. lock' \in Locks \cup {None}
    BY <1>12 DEF StoreCrash, Holds
  <2>2. crashes' \in 0..MaxCrashes /\ pc' \in [Procs -> Stages]
    BY <1>12 DEF StoreCrash
  <2> QED BY <1>12, <2>1, <2>2 DEF StoreCrash
<1>13. CASE OperatorRemovesLock
  BY <1>13 DEF OperatorRemovesLock
<1>14. CASE UNCHANGED storeVars
  BY <1>14 DEF storeVars
<1> QED BY <1>1, <1>2, <1>3, <1>4, <1>5, <1>6, <1>7, <1>8, <1>9, <1>10, <1>11,
           <1>12, <1>13, <1>14 DEF StoreNext, Continue

\* What the actions have in common: where they lead, and whose lock it is.
LEMMA OnlyHolder ==
  ASSUME StoreTypeOK, InsideHolds, NEW p \in Procs, NEW q \in Procs,
         pc[p] \in Inside, pc[q] \in Inside
  PROVE  p = q
BY DEF InsideHolds, Holds

\* Every action keeps the three parts of the invariant.
LEMMA StoreInvStep ==
  StoreIInv /\ [StoreNext]_storeVars => InsideHolds' /\ NothingBetween' /\ StillThere'
<1> SUFFICES ASSUME StoreIInv, [StoreNext]_storeVars
             PROVE  InsideHolds' /\ NothingBetween' /\ StillThere'
    OBVIOUS
<1> DEFINE P == InsideHolds' /\ NothingBetween' /\ StillThere'
<1>0. \A p, q \in Procs : pc[p] \in Inside /\ pc[q] \in Inside => p = q
  BY OnlyHolder DEF StoreIInv
<1> USE DEF StoreIInv, StoreTypeOK, Stages, Locks, Goto, InsideHolds,
            NothingBetween, StillThere, Inside, Holds
<1>1. ASSUME NEW p \in Procs, Restore(p) PROVE P
  <2>1. \A q \in Procs : pc'[q] \in Inside => pc[q] = pc'[q] /\ q # p
    BY <1>1 DEF Restore
  <2>2. known' \in [Procs -> Versions \cup {None}] /\ \A q \in Procs \ {p} : known'[q] = known[q]
    BY <1>1 DEF Restore
  <2>3. UNCHANGED <<content, author, lock, payload, wrote>>
    BY <1>1 DEF Restore
  <2>4. InsideHolds'
    BY <2>1, <2>3
  <2>5. NothingBetween'
    BY <2>1, <2>2, <2>3
  <2>6. StillThere'
    BY <2>1, <2>3
  <2> QED BY <2>4, <2>5, <2>6
<1>2. ASSUME NEW p \in Procs, NEW v \in Versions, MakeLock(p, v) PROVE P
  <2>1. \A q \in Procs : pc[q] \notin Inside
    BY <1>2 DEF MakeLock
  <2>2. \A q \in Procs : pc'[q] \in Inside => q = p /\ pc'[q] = "claim"
    BY <1>2, <2>1 DEF MakeLock
  <2>a. lock' \in Locks /\ lock'.by = p /\ lock'.live
    BY <1>2 DEF MakeLock
  <2>b. payload'[p] \in Versions /\ ~wrote'[p]
    BY <1>2 DEF MakeLock
  <2>3. Holds(p)' /\ payload'[p] \in Versions /\ ~wrote'[p]
    BY <2>a, <2>b
  <2>4. InsideHolds'
    BY <2>2, <2>3
  <2>5. NothingBetween'
    BY <2>2, <2>3
  <2>6. StillThere'
    BY <2>2
  <2> QED BY <2>4, <2>5, <2>6
<1>3. ASSUME NEW p \in Procs, WriteOwner(p) PROVE P
  <2>1. lock \in Locks /\ lock.by = p /\ lock.live /\ payload[p] \in Versions
    BY <1>3 DEF WriteOwner
  <2>2. lock' \in Locks /\ lock'.by = p /\ lock'.live
    BY <1>3, <2>1 DEF WriteOwner
  <2>3. \A q \in Procs : pc'[q] \in Inside => q = p /\ pc'[q] = "compare"
    BY <1>0, <1>3 DEF WriteOwner
  <2>4. UNCHANGED <<content, author, known, payload, wrote>>
    BY <1>3 DEF WriteOwner
  <2>5. InsideHolds'
    BY <2>1, <2>2, <2>3, <2>4
  <2>6. NothingBetween' /\ StillThere'
    BY <1>3, <2>3, <2>4 DEF WriteOwner
  <2> QED BY <2>5, <2>6
<1>4. ASSUME NEW p \in Procs, WriteOwnerFails(p) PROVE P
  BY <1>0, <1>4 DEF WriteOwnerFails, Throw
<1>5. ASSUME NEW p \in Procs, Compare(p) PROVE P
  BY <1>0, <1>5 DEF Compare
<1>6. ASSUME NEW p \in Procs, Refuse(p) PROVE P
  BY <1>0, <1>6 DEF Refuse
<1>7. ASSUME NEW p \in Procs, Rename(p) PROVE P
  <2>1. \A q \in Procs : pc'[q] \in Inside => q = p /\ pc'[q] = "unlink"
    BY <1>0, <1>7 DEF Rename
  <2>2. Holds(p)' /\ payload'[p] \in Versions
    BY <1>7 DEF Rename
  <2>3. content' = payload'[p] /\ author' = p
    BY <1>7 DEF Rename
  <2>4. InsideHolds'
    BY <2>1, <2>2
  <2>5. NothingBetween'
    BY <2>1
  <2>6. StillThere'
    BY <2>1, <2>3
  <2> QED BY <2>4, <2>5, <2>6
<1>8. ASSUME NEW p \in Procs, UnlinkOwner(p) PROVE P
  <2>1. lock \in Locks /\ lock.by = p /\ lock.live /\ payload[p] \in Versions
    BY <1>8 DEF UnlinkOwner
  <2>2. lock' \in Locks /\ lock'.by = p /\ lock'.live
    BY <1>8, <2>1 DEF UnlinkOwner
  <2>3. \A q \in Procs : pc'[q] \in Inside => q = p /\ pc'[q] = "rmdir"
    BY <1>0, <1>8 DEF UnlinkOwner
  <2>4. UNCHANGED <<content, author, known, payload, wrote>>
    BY <1>8 DEF UnlinkOwner
  <2>5. InsideHolds'
    BY <2>1, <2>2, <2>3, <2>4
  <2>6. NothingBetween' /\ StillThere'
    BY <1>8, <2>3, <2>4 DEF UnlinkOwner
  <2> QED BY <2>5, <2>6
<1>9. ASSUME NEW p \in Procs, UnlinkFails(p) PROVE P
  BY <1>0, <1>9 DEF UnlinkFails, Return, Throw
<1>10. ASSUME NEW p \in Procs, RemoveLock(p) PROVE P
  BY <1>0, <1>10 DEF RemoveLock, Return
<1>11. ASSUME NEW p \in Procs, RemoveLockFails(p) PROVE P
  BY <1>0, <1>11 DEF RemoveLockFails, Throw
<1>12. ASSUME NEW p \in Procs, StoreCrash(p) PROVE P
  BY <1>0, <1>12 DEF StoreCrash
<1>13. CASE OperatorRemovesLock
  BY <1>13 DEF OperatorRemovesLock
<1>14. CASE UNCHANGED storeVars
  BY <1>14 DEF storeVars
<1> QED BY <1>1, <1>2, <1>3, <1>4, <1>5, <1>6, <1>7, <1>8, <1>9, <1>10, <1>11,
           <1>12, <1>13, <1>14 DEF StoreNext, Continue

\* The inductive invariant holds in every reachable state.
THEOREM StoreInvariance == StoreSpec => []StoreIInv
<1>1. StoreIInv /\ [StoreNext]_storeVars => StoreIInv'
  BY StoreTypeStep, StoreInvStep DEF StoreIInv
<1> QED BY StoreInitHolds, <1>1, PTL DEF StoreSpec

\* The variables keep to their types.
THEOREM StoreTypes == StoreSpec => []StoreTypeOK
<1>1. StoreIInv => StoreTypeOK
  BY DEF StoreIInv
<1> QED BY StoreInvariance, <1>1, PTL

\* No two writes are inside the lock at once.
THEOREM OneWriterTheorem == StoreSpec => []OneWriter
<1>1. StoreIInv => OneWriter
  BY OnlyHolder DEF StoreIInv, OneWriter
<1> QED BY StoreInvariance, <1>1, PTL

\* The initial state is one of the register.
LEMMA StoreInitRefines == StoreInit => Register!Init
BY DEF StoreInit, Register!Init

\* Every step is one of the register, or leaves it as it is.
LEMMA StoreStepRefines ==
  StoreIInv /\ [StoreNext]_storeVars => [Register!Next]_(Register!vars)
<1> DEFINE running == {p \in Procs : pc[p] # "down"}
           R == [Register!Next]_(Register!vars)
           Same == UNCHANGED <<content, author, known>>
<1> SUFFICES ASSUME StoreIInv, [StoreNext]_storeVars PROVE R
    OBVIOUS
<1>t. StoreTypeOK
  BY DEF StoreIInv
<1>s. ASSUME Same, running' = running PROVE R
  BY <1>s DEF Register!vars
<1>r. ASSUME NEW p \in Procs, NEW s \in Stages \ {"down"}, pc[p] # "down", Goto(p, s)
      PROVE  running' = running /\ p \in running
  BY <1>t, <1>r DEF StoreTypeOK, Goto
<1>1. ASSUME NEW p \in Procs, Restore(p) PROVE R
  <2>1. p \notin running /\ running' = running \cup {p}
    BY <1>t, <1>1 DEF StoreTypeOK, Restore, Goto
  <2>2. Register!Load(p)
    BY <1>1, <2>1 DEF Restore, Register!Load
  <2> QED BY <2>2 DEF Register!Next
<1>2. ASSUME NEW p \in Procs, NEW v \in Versions, MakeLock(p, v) PROVE R
  BY <1>2, <1>r, <1>s DEF MakeLock, Stages
<1>3. ASSUME NEW p \in Procs, WriteOwner(p) PROVE R
  BY <1>3, <1>r, <1>s DEF WriteOwner, Stages
<1>4. ASSUME NEW p \in Procs, WriteOwnerFails(p) PROVE R
  BY <1>4, <1>r, <1>s DEF WriteOwnerFails, Throw, Stages
<1>5. ASSUME NEW p \in Procs, Compare(p) PROVE R
  BY <1>5, <1>r, <1>s DEF Compare, Stages
<1>6. ASSUME NEW p \in Procs, Refuse(p) PROVE R
  BY <1>6, <1>r, <1>s DEF Refuse, Stages
<1>7. ASSUME NEW p \in Procs, Rename(p) PROVE R
  <2>1. running' = running /\ p \in running
    BY <1>7, <1>r DEF Rename, Stages
  <2>2. known[p] = content /\ payload[p] \in Versions
    BY <1>7 DEF Rename, StoreIInv, NothingBetween, InsideHolds, Inside
  <2>3. Register!Commit(p, payload[p])
    BY <1>7, <2>1, <2>2 DEF Rename, Register!Commit
  <2> QED BY <2>2, <2>3 DEF Register!Next
<1>8. ASSUME NEW p \in Procs, UnlinkOwner(p) PROVE R
  BY <1>8, <1>r, <1>s DEF UnlinkOwner, Stages
\* The end of a write: what its manager knows by then is in the file.
<1>e. ASSUME NEW p \in Procs, pc[p] \in {"unlink", "rmdir"}, Return(p) \/ Throw(p),
             UNCHANGED <<content, author>>
      PROVE  R
  <2>1. running' = running /\ p \in running
    BY <1>e, <1>r DEF Return, Throw, Stages
  <2>2. CASE known' = known
    BY <1>e, <2>1, <2>2, <1>s
  <2>3. CASE wrote[p] /\ known' = [known EXCEPT ![p] = payload[p]]
    <3>1. payload[p] = content /\ author = p
      BY <1>e, <2>3 DEF StoreIInv, StillThere
    <3>2. Register!Learn(p)
      BY <1>e, <2>1, <2>3, <3>1 DEF Register!Learn
    <3> QED BY <3>2 DEF Register!Next
  <2> QED BY <1>e, <2>2, <2>3 DEF Return, Throw
<1>9. ASSUME NEW p \in Procs, UnlinkFails(p) PROVE R
  BY <1>9, <1>e DEF UnlinkFails
<1>10. ASSUME NEW p \in Procs, RemoveLock(p) PROVE R
  BY <1>10, <1>e DEF RemoveLock
<1>11. ASSUME NEW p \in Procs, RemoveLockFails(p) PROVE R
  BY <1>11, <1>e DEF RemoveLockFails
<1>12. ASSUME NEW p \in Procs, StoreCrash(p) PROVE R
  <2>1. running' = running \ {p}
    BY <1>t, <1>12 DEF StoreTypeOK, StoreCrash, Goto
  <2>2. Register!Stop(p)
    BY <1>12, <2>1 DEF StoreCrash, Register!Stop
  <2> QED BY <2>2 DEF Register!Next
<1>13. CASE OperatorRemovesLock
  BY <1>13, <1>s DEF OperatorRemovesLock
<1>14. CASE UNCHANGED storeVars
  BY <1>14, <1>s DEF storeVars
<1> QED BY <1>1, <1>2, <1>3, <1>4, <1>5, <1>6, <1>7, <1>8, <1>9, <1>10, <1>11,
           <1>12, <1>13, <1>14 DEF StoreNext, Continue

\* The snapshot file implements the register: no committed version is lost.
THEOREM StoreRefinement == StoreSpec => Implements
<1>1. StoreSpec => Register!Init /\ [][Register!Next]_(Register!vars)
  BY StoreInitRefines, StoreStepRefines, StoreInvariance, PTL DEF StoreSpec
<1> QED BY <1>1 DEF Implements, Register!Spec
=============================================================================
