---------------------------- MODULE McpHttpProofs ----------------------------
(***************************************************************************)
(* Proofs about McpHttp, for any number of requests and sessions and any   *)
(* limits, and about LspClient.                                            *)
(*                                                                         *)
(* The inductive invariant IInv adds to the types, and to ToolRunsOnce and *)
(* FramesInOrder themselves,                                               *)
(*   - SessionsIssued and CopiesAgree: who knows of a session knows of one *)
(*     that was made, and all copies of a call carry the same one;         *)
(*   - RanIsSpent: what is left of a call that ran meets a session that has*)
(*     claimed it or no longer lives;                                      *)
(*   - AnswersTrue: a session that is reported missing is missing for good;*)
(*   - PipeKept: the frames on their way follow one another, up to the     *)
(*     latest event while the stream is open;                              *)
(*   - TombstonesKept: a tombstone of the file is one of the server, and   *)
(*     not that of a session that lives or is still to be made.            *)
(***************************************************************************)
EXTENDS McpHttp, LspClient, FiniteSetTheorems, SequenceTheorems, TLAPS

USE ConstantsAssumption, NoneAssumption

\* A request that is put on the wire keeps the types.
LEMMA PutType ==
  ASSUME ClientTypes, NEW r \in Requests, NEW method \in Methods, NEW carried \in
         Sessions \cup {None},
         Put(r, method, carried)
  PROVE  request' \in [Requests -> RequestRecords] /\ wire' \subseteq Copies
<1>1. [phase |-> "waiting", method |-> method, session |-> carried] \in RequestRecords
  BY DEF RequestRecords
<1>2. [req |-> r, method |-> method, session |-> carried] \in Copies
  BY DEF Copies
<1> QED
  BY <1>1, <1>2 DEF Put, ClientTypes

\* What the client keeps, and what it sends, keeps its type.
LEMMA ClientTypesStep ==
  ASSUME TypeOK, [Next]_vars
  PROVE  ClientTypes'
<1>t. /\ ClientTypes
      /\ \A r \in Requests : reply[r] # None => reply[r] \in Replies
      /\ pipe.frames \in Seq(1..MaxEvents)
      /\ 1..MaxEvents \subseteq 0..MaxEvents
  BY
  DEF TypeOK, ClientTypes, NetworkTypes, PipeRecords, ConstantsAssumption
<1>d. Done \in RequestRecords /\ Unsubscribed \in SubRecords
  BY DEF Done, Unsubscribed, RequestRecords, SubRecords, Methods
<1>1. ASSUME NEW r \in Requests, NEW method \in {"initialize", "call", "delete"}, Send(r, method)
      PROVE  ClientTypes'
  <2>1. request' \in [Requests -> RequestRecords] /\ wire' \subseteq Copies
    BY <1>t, <1>1, PutType DEF Send, ClientTypes, Methods
  <2> QED
    BY <1>t, <1>1, <2>1 DEF Send, ClientTypes
<1>2. ASSUME NEW r \in Requests, Receive(r)
      PROVE  ClientTypes'
  <2>1. reply[r].session \in Sessions \cup {None}
    BY <1>t, <1>2 DEF Receive, Replies
  <2>2. request' \in [Requests -> RequestRecords] /\ wire' \subseteq Copies
    <3>1. CASE Put(r, "notify", reply[r].session)
      BY <1>t, <2>1, <3>1, PutType DEF Methods
    <3>2. CASE Over(r) /\ UNCHANGED wire
      BY <1>t, <1>d, <3>2 DEF Over, ClientTypes
    <3> QED
      BY <1>2, <3>1, <3>2 DEF Receive
  <2> QED
    BY <1>t, <1>2, <2>1, <2>2 DEF Receive, ClientTypes, Drops
<1>3. ASSUME NEW r \in Requests, Terminated(r) \/ Timeout(r)
      PROVE  ClientTypes'
  BY <1>t, <1>d, <1>3 DEF Terminated, Timeout, Over, ClientTypes
<1>4. ASSUME NEW r \in Requests, Duplicate(r)
      PROVE  ClientTypes'
  <2>1. [req |-> r, method |-> request[r].method, session |-> request[r].session] \in Copies
    BY <1>t DEF ClientTypes, RequestRecords, Copies
  <2> QED
    BY <1>t, <1>4, <2>1 DEF Duplicate, client, ClientTypes
<1>5. CASE Subscribe
  <2>1. sub' \in SubRecords
    BY <1>t, <1>5 DEF Subscribe, ClientTypes, SubRecords
  <2> QED
    BY <1>t, <1>5, <2>1 DEF Subscribe, network, ClientTypes
<1>6. CASE Frame
  <2>1. Head(pipe.frames) \in 1..MaxEvents
    BY <1>t, <1>6, HeadTailProperties DEF Frame
  <2>2. sub' \in SubRecords
    BY <1>t, <1>6 DEF Frame, ClientTypes, SubRecords
  <2> QED
    BY <1>t, <1>6, <2>1, <2>2 DEF Frame, ClientTypes
<1>7. CASE StreamRefused \/ StreamEnds
  BY <1>t, <1>d, <1>7 DEF StreamRefused, StreamEnds, Drops, ClientTypes
<1>8. CASE Close
  BY <1>t, <1>d, <1>8 DEF Close, ClientTypes
<1>9. ASSUME NEW q \in wire, Handle(q)
      PROVE  ClientTypes'
  BY <1>t, <1>9 DEF Handle, client, ClientTypes
<1>10. CASE \/ HandleStream \/ Start \/ UNCHANGED vars
            \/ \E s \in Sessions : Broadcast(s) \/ Expire(s) \/ Resume(s)
            \/ \E graceful \in BOOLEAN : Stops(graceful)
  BY <1>t, <1>10
  DEF HandleStream, Broadcast, Expire, Resume, Stops, Start,
      client, network, vars, ClientTypes
<1> QED
  BY <1>1, <1>2, <1>3, <1>4, <1>5, <1>6, <1>7, <1>8, <1>9, <1>10 DEF Next

\* The sessions that live are sessions.
LEMMA LiveSessions ==
  ASSUME ServerTypes
  PROVE  live \subseteq Sessions
<1>1. made \in Nat /\ MaxSessionIds \in Nat /\ made <= MaxSessionIds /\ live \subseteq 1..made
  BY DEF ConstantsAssumption, ServerTypes
<1> QED
  BY <1>1 DEF Sessions

\* The buffer of a new session, and one with another event, are buffers: at most
\* maxReplayEvents are kept.
LEMMA BufferTypes ==
  /\ Fresh \in Buffers
  /\ \A b \in Buffers : b.next <= MaxEvents => Trim(b) \in Buffers
  /\ \A b \in Buffers : [first |-> b.next, next |-> b.next] \in Buffers
<1> USE DEF ConstantsAssumption
<1>1. Fresh \in Buffers
  BY DEF Fresh, Buffers
<1>2. ASSUME NEW b \in Buffers
      PROVE  [first |-> b.next, next |-> b.next] \in Buffers
  BY DEF Buffers
<1>3. ASSUME NEW b \in Buffers, b.next <= MaxEvents
      PROVE  Trim(b) \in Buffers
  <2> DEFINE first == IF b.next + 1 - b.first > MaxReplay THEN b.next + 1 - MaxReplay ELSE b.first
  <2>1. /\ b.first \in 1..(MaxEvents + 1) /\ b.next \in 1..(MaxEvents + 1)
        /\ b.next - b.first \in 0..MaxReplay
    BY DEF Buffers
  <2>2. /\ first \in 1..(MaxEvents + 1) /\ b.next + 1 - first \in 0..MaxReplay
        /\ b.next + 1 \in 1..(MaxEvents + 1)
    BY <1>3, <2>1
  <2> QED
    BY <2>2 DEF Trim, Buffers
<1> QED
  BY <1>1, <1>2, <1>3

\* What closeSession writes are snapshots.
LEMMA SavedType ==
  ASSUME ServerTypes, NEW s \in Sessions, NEW closed \in BOOLEAN
  PROVE  Saved(s, closed) \in [Sessions -> Snapshots \cup {None}]
<1>1. [closed |-> closed,
       buffer |-> IF closed THEN [first |-> buffer[s].next, next |-> buffer[s].next]
                  ELSE buffer[s]] \in Snapshots
  BY BufferTypes DEF ServerTypes, Snapshots
<1> QED
  BY <1>1 DEF Saved, ServerTypes

\* The snapshots keep their types when they are written, or not.
LEMMA PersistType ==
  ASSUME ServerTypes, NEW next \in [Sessions -> Snapshots \cup {None}],
         Persist(next)
  PROVE  /\ snapshot' \in [Sessions -> Snapshots \cup {None}]
         /\ stored' \in [Sessions -> Snapshots \cup {None}]
         /\ faults' \in 0..MaxFaults
BY DEF ConstantsAssumption, ServerTypes, Persist, Fault

\* Closing a session keeps the types of the server.
LEMMA ClosesType ==
  ASSUME ServerTypes, NEW s \in Sessions, NEW closed \in BOOLEAN,
         Closes(s, closed),
         UNCHANGED <<made, ran>>, up' \in BOOLEAN
  PROVE  ServerTypes'
<1>1. /\ snapshot' \in [Sessions -> Snapshots \cup {None}]
      /\ stored' \in [Sessions -> Snapshots \cup {None}]
      /\ faults' \in 0..MaxFaults
  BY SavedType, PersistType DEF Closes
<1>2. /\ buffer' \in [Sessions -> Buffers]
      /\ owner' \in [Requests -> Sessions \cup {None}]
      /\ live' \subseteq 1..made
  BY BufferTypes DEF Closes, ServerTypes
<1> QED
  BY <1>1, <1>2 DEF ServerTypes

\* What the server keeps keeps its type.
LEMMA ServerTypesStep ==
  ASSUME TypeOK, ToolRunsOnce, [Next]_vars
  PROVE  ServerTypes'
<1>t. ServerTypes /\ ClientTypes
  BY DEF TypeOK
<1>c. /\ MaxFaults \in Nat /\ MaxSessionIds \in Nat
      /\ None \notin Sessions
      /\ faults \in 0..MaxFaults /\ made \in 0..MaxSessionIds
  BY <1>t DEF ConstantsAssumption, NoneAssumption, ServerTypes
<1>1. ASSUME NEW r \in Requests, Duplicate(r)
      PROVE  ServerTypes'
  BY <1>t, <1>c, <1>1 DEF Duplicate, Fault, server, ServerTypes
<1>2. CASE Close
  BY <1>t, <1>c, <1>2 DEF Close, Fault, server, ServerTypes
<1>3. ASSUME NEW q \in wire, Handle(q)
      PROVE  ServerTypes'
  <2>t. q \in Copies
    BY <1>t DEF ClientTypes
  <2>1. CASE UNCHANGED <<made, live, owner, buffer, snapshot, stored, ran, faults>>
    BY <1>t, <1>3, <2>1 DEF Handle, ServerTypes
  <2>2. CASE q.method = "initialize" /\ Status(q) = "ok"
    <3>1. made < MaxSessionIds
      BY <1>c, <2>2 DEF Status, Initializes
    <3>2. made' = made + 1 /\ live' = live \cup {made + 1}
          /\ UNCHANGED <<up, owner, buffer, snapshot, stored, ran, faults>>
      BY <1>3, <2>2 DEF Handle
    <3>3. made + 1 \in 0..MaxSessionIds /\ live \cup {made + 1} \subseteq 1..(made + 1)
      <4>1. live \subseteq 1..made /\ made \in Nat
        BY <1>t, <1>c DEF ServerTypes
      <4>2. made + 1 \in 0..MaxSessionIds /\ made + 1 \in 1..(made + 1)
        BY <1>c, <3>1
      <4>3. 1..made \subseteq 1..(made + 1)
        BY <4>1
      <4> QED
        BY <4>1, <4>2, <4>3
    <3> QED
      BY <1>t, <3>2, <3>3 DEF ServerTypes
  <2>3. CASE q.method = "call" /\ Status(q) = "ok"
    <3>1. q.session \in live /\ q.req \in Requests
      BY <2>t, <2>3 DEF Status, Claim, Copies
    <3>2. q.session \in Sessions
      BY <1>t, <3>1, LiveSessions
    <3>3. ran[q.req] \in 0..1
      BY <1>t, <3>1 DEF ServerTypes, ToolRunsOnce
    <3>4. /\ owner' = [owner EXCEPT ![q.req] = q.session] /\ ran' = [ran EXCEPT ![q.req] = @ + 1]
          /\ UNCHANGED <<up, made, live, buffer, snapshot, stored, faults>>
      BY <1>3, <2>3 DEF Handle
    <3>5. owner' \in [Requests -> Sessions \cup {None}]
      BY <1>t, <3>1, <3>2, <3>4 DEF ServerTypes
    <3>6. ran[q.req] + 1 \in 0..2
      BY <3>3
    <3>7. ran' \in [Requests -> 0..2]
      BY <1>t, <3>1, <3>4, <3>6 DEF ServerTypes
    <3> QED
      BY <1>t, <3>4, <3>5, <3>7 DEF ServerTypes
  <2>4. CASE q.method = "delete" /\ Status(q) = "ok"
    <3>1. q.session \in live
      BY <2>4 DEF Status
    <3>2. q.session \in Sessions
      BY <1>t, <3>1, LiveSessions
    <3>3. Closes(q.session, TRUE) /\ UNCHANGED <<up, made, ran>>
      BY <1>3, <2>4 DEF Handle
    <3> QED
      BY <1>t, <3>2, <3>3, ClosesType DEF ServerTypes
  <2> QED
    BY <1>3, <2>1, <2>2, <2>3, <2>4 DEF Handle, Answers
<1>4. ASSUME NEW s \in Sessions, Broadcast(s)
      PROVE  ServerTypes'
  <2>1. Trim(buffer[s]) \in Buffers
    BY <1>t, <1>4, BufferTypes DEF Broadcast, ServerTypes
  <2>2. /\ buffer' \in [Sessions -> Buffers]
        /\ [snapshot EXCEPT ![s] = [closed |-> FALSE, buffer |-> Trim(buffer[s])]]
             \in [Sessions -> Snapshots \cup {None}]
    BY <1>t, <1>4, <2>1 DEF Broadcast, ServerTypes, Snapshots
  <2> QED
    BY <1>t, <1>4, <2>2, PersistType DEF Broadcast, ServerTypes
<1>5. ASSUME NEW s \in Sessions, Expire(s)
      PROVE  ServerTypes'
  BY <1>t, <1>5, ClosesType DEF Expire, ServerTypes
<1>6. ASSUME NEW s \in Sessions, Resume(s)
      PROVE  ServerTypes'
  <2>1. [snapshot EXCEPT ![s] = None] \in [Sessions -> Snapshots \cup {None}]
    BY <1>t DEF ServerTypes
  <2>2. /\ snapshot' \in [Sessions -> Snapshots \cup {None}]
        /\ stored' \in [Sessions -> Snapshots \cup {None}]
        /\ faults' \in 0..MaxFaults
    BY <1>t, <1>6, <2>1, PersistType DEF Resume
  <2>3. CASE UNCHANGED <<made, live, buffer>>
    BY <1>t, <1>6, <2>2, <2>3 DEF Resume, ServerTypes
  <2>4. CASE /\ made < MaxSessionIds
             /\ made' = made + 1 /\ live' = live \cup {made + 1}
             /\ buffer' = [buffer EXCEPT ![made + 1] = snapshot[s].buffer]
    <3>1. snapshot[s].buffer \in Buffers
      BY <1>t, <1>6 DEF Resume, ResumableSession, ServerTypes, Snapshots
    <3>2. made + 1 \in 0..MaxSessionIds /\ live \cup {made + 1} \subseteq 1..(made + 1)
      BY <1>t, <1>c, <2>4 DEF ServerTypes
    <3> QED
      BY <1>t, <1>6, <2>2, <2>4, <3>1, <3>2 DEF Resume, ServerTypes
  <2> QED
    BY <1>6, <2>3, <2>4 DEF Resume
<1>7. ASSUME NEW graceful \in BOOLEAN, Stops(graceful)
      PROVE  ServerTypes'
  <2>1. [s \in Sessions |-> IF s \in live THEN [closed |-> FALSE, buffer |-> buffer[s]]
                            ELSE snapshot[s]] \in [Sessions -> Snapshots \cup {None}]
    BY <1>t DEF ServerTypes, Snapshots
  <2>2. stored' \in [Sessions -> Snapshots \cup {None}]
    BY <1>t, <1>7, <2>1 DEF Stops, ServerTypes
  <2>3. faults' \in 0..MaxFaults /\ live' \subseteq 1..made' /\ made' \in 0..MaxSessionIds
    BY <1>t, <1>c, <1>7 DEF Stops, Fault, ServerTypes
  <2>4. /\ buffer' \in [Sessions -> Buffers]
        /\ snapshot' \in [Sessions -> Snapshots \cup {None}]
        /\ owner' \in [Requests -> Sessions \cup {None}] /\ up' \in BOOLEAN
    BY <1>t, <1>7, BufferTypes DEF Stops, ServerTypes
  <2> QED
    BY <1>t, <1>7, <2>2, <2>3, <2>4 DEF Stops, ServerTypes
<1>8. CASE \/ \E r \in Requests :
                \/ \E method \in {"initialize", "call", "delete"} : Send(r, method)
                \/ Receive(r) \/ Terminated(r) \/ Timeout(r)
           \/ Subscribe \/ StreamRefused \/ Frame \/ StreamEnds
           \/ HandleStream \/ UNCHANGED vars
  <2>1. UNCHANGED <<server, faults>>
    BY <1>8
    DEF Send, Receive, Terminated, Timeout, Subscribe, StreamRefused,
        Frame, StreamEnds, HandleStream, vars
  <2> QED
    BY <1>t, <2>1 DEF server, ServerTypes
<1>9. CASE Start
  BY <1>t, <1>9 DEF Start, ServerTypes
<1> QED
  BY <1>1, <1>2, <1>3, <1>4, <1>5, <1>6, <1>7, <1>8, <1>9 DEF Next

\* What is on its way back keeps its type.
LEMMA NetworkTypesStep ==
  ASSUME TypeOK, [Next]_vars
  PROVE  NetworkTypes'
<1>t. ServerTypes /\ NetworkTypes /\ ClientTypes
  BY DEF TypeOK
<1>p. NoPipe \in PipeRecords /\ [pipe EXCEPT !.open = FALSE] \in PipeRecords
  <2>1. <<>> \in Seq(1..MaxEvents)
    OBVIOUS
  <2> QED
    BY <1>t, <2>1 DEF NoPipe, PipeRecords, NetworkTypes
<1>1. reply' \in [Requests -> Replies \cup {None}]
  <2>1. ASSUME NEW q \in wire, Handle(q)
        PROVE  reply' \in [Requests -> Replies \cup {None}]
    <3>1. Status(q) \in {"ok", "bad", "limit", "replay", "missing", "down"}
      BY DEF Status, Initializes, Claim
    <3>2. q.method = "initialize" /\ Status(q) = "ok" => made + 1 \in Sessions
      BY <1>t
      DEF Status, Initializes, ServerTypes, Sessions, ConstantsAssumption
    <3> QED
      BY <1>t, <2>1, <3>1, <3>2 DEF Handle, NetworkTypes, Replies
  <2>2. CASE \/ \E r \in Requests : reply' = [reply EXCEPT ![r] = None]
             \/ reply' = reply \/ reply' = [r \in Requests |-> None]
    BY <1>t, <2>2 DEF NetworkTypes
  <2>3. ASSUME ~\E q \in wire : Handle(q)
        PROVE  \/ \E r \in Requests : reply' = [reply EXCEPT ![r] = None]
               \/ reply' = reply \/ reply' = [r \in Requests |-> None]
    BY <2>3
    DEF Next, vars, Send, Receive, Terminated, Timeout,
        Duplicate, Answered, Subscribe, StreamRefused, Frame,
        StreamEnds, Close, HandleStream, Broadcast, Expire, Resume,
        Stops, Start, network
  <2> QED
    BY <2>1, <2>2, <2>3
<1>2. pipe' \in PipeRecords
  <2>1. ASSUME NEW s \in Sessions, Broadcast(s)
        PROVE  pipe' \in PipeRecords
    <3>1. buffer[s].next \in 1..MaxEvents
      BY <1>t, <2>1
      DEF Broadcast, ServerTypes, Buffers, ConstantsAssumption
    <3>2. Append(pipe.frames, buffer[s].next) \in Seq(1..MaxEvents)
      BY <1>t, <3>1 DEF NetworkTypes, PipeRecords
    <3> QED
      BY <1>t, <2>1, <3>2 DEF Broadcast, NetworkTypes, PipeRecords
  <2>2. CASE Frame
    <3>1. Tail(pipe.frames) \in Seq(1..MaxEvents)
      BY <1>t, <2>2, HeadTailProperties DEF Frame, NetworkTypes, PipeRecords
    <3> QED
      BY <1>t, <2>2, <3>1 DEF Frame, NetworkTypes, PipeRecords
  <2>3. CASE HandleStream
    <3> DEFINE s == sub.session
    <3>1. CASE up /\ s \in live /\ Resumable(s)
      <4>1. s \in Sessions /\ buffer[s] \in Buffers
        BY <1>t, <3>1, LiveSessions DEF ServerTypes
      <4>2. Replayed(s) \in Seq(1..MaxEvents)
        <5>1. CASE cursor = None
          BY <5>1 DEF Replayed
        <5>2. CASE cursor # None
          <6> DEFINE n == buffer[s].next - 1 - cursor
          <6>1. n \in Nat /\ cursor \in Nat /\ \A i \in 1..n : cursor + i \in 1..MaxEvents
            BY <1>t, <4>1, <3>1, <5>2
            DEF Resumable, Buffers, ClientTypes, ConstantsAssumption
          <6>2. [i \in 1..n |-> cursor + i] \in Seq(1..MaxEvents)
            <7> HIDE DEF n
            <7> QED
              BY <6>1
          <6> QED
            BY <5>2, <6>2 DEF Replayed
        <5> QED
          BY <5>1, <5>2
      <4> QED
        BY <2>3, <3>1, <4>2 DEF HandleStream, PipeRecords
    <3>2. CASE ~(up /\ s \in live /\ Resumable(s))
      BY <1>p, <2>3, <3>2 DEF HandleStream, PipeRecords, NoPipe
    <3> QED
      BY <3>1, <3>2
  <2>4. CASE pipe' \in {pipe, NoPipe, [pipe EXCEPT !.open = FALSE]}
    BY <1>t, <1>p, <2>4 DEF NetworkTypes
  <2>5. ASSUME ~(Frame \/ HandleStream \/ \E s \in Sessions : Broadcast(s))
        PROVE  pipe' \in {pipe, NoPipe, [pipe EXCEPT !.open = FALSE]}
    BY <2>5
    DEF Next, vars, Send, Receive, Terminated, Timeout,
        Duplicate, Subscribe, StreamRefused, StreamEnds, Close,
        Handle, Answers, Closes, Expire, Resume, Stops, Start,
        network
  <2> QED
    BY <2>1, <2>2, <2>3, <2>4, <2>5
<1> QED
  BY <1>1, <1>2 DEF NetworkTypes

\* Sessions are made one after the other, and one that is over stays so.
LEMMA SessionsStep ==
  ASSUME TypeOK, [Next]_vars
  PROVE  /\ made \in Nat /\ made' \in {made, made + 1} /\ Issued \subseteq Issued'
         /\ \A s \in live : s \in 1..made
         /\ \A s \in live' : s \in live \/ (s = made + 1 /\ made' = made + 1)
         /\ None \notin live' /\ None \notin live
         /\ \A s \in Issued : s \notin live => s \notin live'
<1>t. ServerTypes
  BY DEF TypeOK
<1>1. /\ made \in Nat /\ live \subseteq 1..made
      /\ live \subseteq Sessions /\ None \notin Sessions
  BY <1>t, LiveSessions
  DEF ServerTypes, ConstantsAssumption, NoneAssumption
<1>2. \/ made' = made /\ live' \subseteq live
      \/ made < MaxSessionIds /\ made' = made + 1 /\ live' = live \cup {made + 1}
  <2>1. ASSUME NEW q \in wire, Handle(q)
        PROVE  \/ made' = made /\ live' \subseteq live
               \/ made < MaxSessionIds /\ made' = made + 1 /\ live' = live \cup {made + 1}
    <3>1. q.method = "initialize" /\ Status(q) = "ok" => made < MaxSessionIds
      BY <1>t
      DEF Status, Initializes, ServerTypes, ConstantsAssumption
    <3> QED
      BY <2>1, <3>1 DEF Handle, Answers, Closes
  <2>2. ASSUME ~\E q \in wire : Handle(q)
        PROVE  \/ made' = made /\ live' \subseteq live
               \/ made < MaxSessionIds /\ made' = made + 1 /\ live' = live \cup {made + 1}
    BY <2>2
    DEF Next, vars, Send, Receive, Terminated, Timeout,
        Duplicate, Subscribe, StreamRefused, Frame, StreamEnds, Close,
        HandleStream, Broadcast, Closes, Expire, Resume, Stops,
        Start, server
  <2> QED
    BY <2>1, <2>2
<1>3. made' \in {made, made + 1} /\ made' \in Nat /\ Issued \subseteq Issued'
  BY <1>1, <1>2 DEF Issued
<1>4. made' = made + 1 => made + 1 \in Sessions
  BY <1>1, <1>2 DEF Sessions, ConstantsAssumption
<1>5. \A s \in live' : s \in live \/ (s = made + 1 /\ made' = made + 1)
  BY <1>2
<1>6. None \notin live' /\ None \notin live
  BY <1>1, <1>4, <1>5
<1>7. \A s \in Issued : s \notin live => s \notin live'
  BY <1>1, <1>5, <1>6 DEF Issued
<1> QED
  BY <1>1, <1>3, <1>5, <1>6, <1>7

\* A request is sent, or an initialize is followed by its notification.
Sends(r) ==
  /\ request[r].phase = "new"
  /\ request'[r].phase = "waiting" /\ request'[r].session = session
Notifies(r) ==
  /\ request[r].phase = "waiting" /\ request[r].method = "initialize"
  /\ reply[r] # None /\ reply[r].status = "ok"
  /\ request'[r] = [phase |-> "waiting", method |-> "notify", session |-> reply[r].session]

\* What a step does with the requests, and what it puts on the wire.
LEMMA RequestStep ==
  ASSUME TypeOK, [Next]_vars
  PROVE  /\ \A r \in Requests :
              \/ request'[r] = request[r]
              \/ Sends(r)
              \/ Notifies(r) /\ reply' = [reply EXCEPT ![r] = None]
              \/ request[r].phase = "waiting" /\ request'[r] = Done /\ reply'[r] = None
         /\ \A q \in wire' :
              \/ q \in wire
              \/ /\ q.req \in Requests /\ request'[q.req].phase = "waiting"
                 /\ q.method = request'[q.req].method /\ q.session = request'[q.req].session
<1>t. ClientTypes /\ NetworkTypes
  BY DEF TypeOK
<1> DEFINE
  Goal == /\ \A r \in Requests :
              \/ request'[r] = request[r]
              \/ Sends(r)
              \/ Notifies(r) /\ reply' = [reply EXCEPT ![r] = None]
              \/ request[r].phase = "waiting" /\ request'[r] = Done /\ reply'[r] = None
          /\ \A q \in wire' :
              \/ q \in wire
              \/ /\ q.req \in Requests /\ request'[q.req].phase = "waiting"
                 /\ q.method = request'[q.req].method /\ q.session = request'[q.req].session
<1>1. ASSUME NEW r \in Requests, NEW method \in {"initialize", "call", "delete"}, Send(r, method)
      PROVE  Goal
  <2>1. \A x \in Requests : x # r => request'[x] = request[x]
    BY <1>t, <1>1 DEF Send, Put, ClientTypes
  <2>2. request'[r] = [phase |-> "waiting", method |-> method, session |-> session] /\ Sends(r)
    BY <1>t, <1>1 DEF Send, Put, Sends, ClientTypes
  <2>3. \A q \in wire' : q \in wire \/ (q.req = r /\ q.method = method /\ q.session = session)
    BY <1>1 DEF Send, Put
  <2> QED
    BY <2>1, <2>2, <2>3
<1>2. ASSUME NEW r \in Requests, Receive(r)
      PROVE  Goal
  <2>1. CASE /\ Put(r, "notify", reply[r].session)
             /\ request[r].method = "initialize" /\ reply[r].status = "ok"
    <3>1. reply' = [reply EXCEPT ![r] = None] /\ reply[r] # None
      BY <1>2 DEF Receive, Answered
    <3>2. \A x \in Requests : x # r => request'[x] = request[x]
      BY <1>t, <2>1 DEF Put, ClientTypes
    <3>3. Notifies(r)
      BY <1>t, <1>2, <2>1 DEF Receive, Put, Notifies, ClientTypes
    <3>4. \A q \in wire' :
            q \in wire \/ (q.req = r /\ q.method = "notify" /\ q.session = reply[r].session)
      BY <2>1 DEF Put
    <3>5. /\ request'[r].phase = "waiting" /\ request'[r].method = "notify"
          /\ request'[r].session = reply[r].session
      BY <3>3 DEF Notifies
    <3> QED
      BY <3>1, <3>2, <3>3, <3>4, <3>5
  <2>2. CASE Over(r) /\ UNCHANGED wire
    BY <1>t, <1>2, <2>2
    DEF Receive, Over, Answered, ClientTypes, NetworkTypes
  <2> QED
    BY <1>2, <2>1, <2>2 DEF Receive
<1>3. ASSUME NEW r \in Requests, Terminated(r) \/ Timeout(r)
      PROVE  Goal
  BY <1>t, <1>3
  DEF Terminated, Timeout, Over, Answered, ClientTypes, NetworkTypes
<1>4. ASSUME NEW r \in Requests, Duplicate(r)
      PROVE  Goal
  BY <1>t, <1>4 DEF Duplicate, client
<1>5. CASE Close
  BY <1>t, <1>5 DEF Close, ClientTypes
<1>6. ASSUME NEW q \in wire, Handle(q)
      PROVE  Goal
  BY <1>6 DEF Handle, client
<1>7. CASE \/ Subscribe \/ StreamRefused \/ Frame \/ StreamEnds \/ HandleStream
           \/ \E s \in Sessions : Broadcast(s) \/ Expire(s) \/ Resume(s)
           \/ \E graceful \in BOOLEAN : Stops(graceful)
           \/ Start \/ UNCHANGED vars
  <2>1. UNCHANGED <<request, wire>>
    BY <1>7
    DEF Subscribe, StreamRefused, Frame, StreamEnds, HandleStream,
        Broadcast, Expire, Resume, Stops, Start, vars, client,
        network
  <2> QED
    BY <2>1
<1> QED
  BY <1>1, <1>2, <1>3, <1>4, <1>5, <1>6, <1>7 DEF Next

\* No step makes a session up.
LEMMA SessionsIssuedStep ==
  ASSUME TypeOK, SessionsIssued, [Next]_vars
  PROVE  SessionsIssued'
<1>t. ClientTypes /\ NetworkTypes /\ ServerTypes
  BY DEF TypeOK
<1>1. Issued \subseteq Issued' /\ None \in Issued
  BY SessionsStep DEF Issued
<1>2. {session', sub'.session} \subseteq Issued
  <2>1. \/ sub' \in {sub, Unsubscribed, [sub EXCEPT !.phase = "open"]}
        \/ sub' = [phase |-> "asking", session |-> session]
    BY
    DEF Next, vars, Send, Receive, Terminated, Timeout,
        Duplicate, Subscribe, StreamRefused, Frame, StreamEnds, Close,
        Handle, HandleStream, Broadcast, Expire, Resume, Stops,
        Start, client
  <2>2. \/ session' \in {session, None}
        \/ \E r \in Requests : reply[r] # None /\ session' = reply[r].session
    BY
    DEF Next, vars, Send, Receive, Terminated, Timeout,
        Duplicate, Subscribe, StreamRefused, Frame, Drops, StreamEnds,
        Close, Handle, HandleStream, Broadcast, Expire, Resume,
        Stops, Start, client
  <2>3. sub'.session \in Issued
    BY <1>t, <1>1, <2>1
    DEF SessionsIssued, Unsubscribed, ClientTypes, SubRecords
  <2> QED
    BY <1>1, <2>2, <2>3 DEF SessionsIssued
<1>3. \A r \in Requests : request'[r].session \in Issued
  <2> SUFFICES ASSUME NEW r \in Requests
               PROVE  request'[r].session \in Issued
    OBVIOUS
  <2>1. \/ request'[r] = request[r] \/ request'[r] = Done
        \/ Sends(r) \/ Notifies(r)
    BY RequestStep
  <2> QED
    BY <1>1, <2>1 DEF SessionsIssued, Done, Sends, Notifies
<1>4. \A q \in wire' : q.session \in Issued
  <2> SUFFICES ASSUME NEW q \in wire', q \notin wire
               PROVE  q.session \in Issued
    BY DEF SessionsIssued
  <2>1. q.req \in Requests /\ q.session = request'[q.req].session
    BY RequestStep
  <2> QED
    BY <1>3, <2>1
<1>5. \A r \in Requests : reply'[r] # None => reply'[r].session \in Issued'
  <2> SUFFICES ASSUME NEW r \in Requests, reply'[r] # None
               PROVE  reply'[r].session \in Issued'
    OBVIOUS
  <2>1. \/ reply'[r] = reply[r]
        \/ reply'[r].session = None
        \/ reply'[r].session = made + 1 /\ made' = made + 1
    <3>1. ASSUME NEW q \in wire, Handle(q)
          PROVE  \/ reply'[r] = reply[r]
                 \/ reply'[r].session = None
                 \/ reply'[r].session = made + 1 /\ made' = made + 1
      BY <1>t, <3>1 DEF Handle, NetworkTypes
    <3>2. ASSUME ~\E q \in wire : Handle(q)
          PROVE  reply'[r] = reply[r]
      BY <1>t, <3>2
      DEF Next, vars, Send, Receive, Terminated, Timeout,
          Duplicate, Answered, Subscribe, StreamRefused, Frame,
          StreamEnds, Close, HandleStream, Broadcast, Expire, Resume,
          Stops, Start, network, NetworkTypes
    <3> QED
      BY <3>1, <3>2
  <2>2. made' = made + 1 => made + 1 \in Issued'
    BY SessionsStep DEF Issued
  <2> QED
    BY <1>1, <2>1, <2>2 DEF SessionsIssued
<1> QED
  BY <1>1, <1>2, <1>3, <1>4, <1>5 DEF SessionsIssued

\* The same for one request that has been sent.
LEMMA SentStep ==
  ASSUME TypeOK, [Next]_vars, NEW r \in Requests, request[r].phase # "new"
  PROVE  /\ request'[r].phase # "new"
         /\ request'[r].phase = "waiting" => request'[r] = request[r] \/ Notifies(r)
<1>1. request'[r] = request[r] \/ Notifies(r) \/ request'[r] = Done
  BY RequestStep DEF Sends
<1>2. Done.phase = "over"
  BY DEF Done
<1>3. Notifies(r) => request'[r].phase = "waiting"
  BY DEF Notifies
<1> QED
  BY <1>1, <1>2, <1>3

\* Every step keeps CopiesAgree: what goes on the wire is what the client waits for.
LEMMA CopiesAgreeStep ==
  ASSUME TypeOK, CopiesAgree, [Next]_vars
  PROVE  CopiesAgree'
<1>t. ClientTypes /\ ClientTypes'
  BY ClientTypesStep DEF TypeOK
<1>2. ASSUME NEW q \in wire'
      PROVE  /\ request'[q.req].phase # "new"
             /\ request'[q.req].phase = "waiting" =>
                  \/ q.method = request'[q.req].method /\ q.session = request'[q.req].session
                  \/ q.method = "initialize" /\ request'[q.req].method = "notify"
  <2>1. q.req \in Requests
    BY <1>t DEF ClientTypes, Copies
  <2>2. CASE q \in wire
    <3>1. CASE request'[q.req] = request[q.req]
      BY <2>2, <3>1 DEF CopiesAgree
    <3>2. CASE Notifies(q.req)
      <4>1. request[q.req].phase = "waiting" /\ request[q.req].method = "initialize"
        BY <3>2 DEF Notifies
      <4>2. request'[q.req].phase = "waiting" /\ request'[q.req].method = "notify"
        BY <3>2 DEF Notifies
      <4> QED
        BY <2>2, <4>1, <4>2 DEF CopiesAgree
    <3> QED
      BY <2>1, <2>2, <3>1, <3>2, SentStep DEF CopiesAgree
  <2>3. CASE q \notin wire
    BY <2>3, RequestStep
  <2> QED
    BY <2>2, <2>3
<1>3. ASSUME NEW q \in wire', NEW p \in wire', p.req = q.req, p.method = "call", q.method = "call"
      PROVE  p.session = q.session
  <2>1. q.req \in Requests
    BY <1>t DEF ClientTypes, Copies
  <2>2. CASE q \in wire /\ p \in wire
    BY <1>3, <2>2 DEF CopiesAgree
  <2>3. CASE q \notin wire \/ p \notin wire
    <3>1. request'[q.req].phase = "waiting"
      BY <1>3, <2>3, RequestStep
    <3> QED
      BY <1>2, <1>3, <3>1
  <2> QED
    BY <2>2, <2>3
<1> QED
  BY <1>2, <1>3 DEF CopiesAgree

\* What runs a tool is the arrival of a call that its session takes.
LEMMA RanStep ==
  ASSUME TypeOK, [Next]_vars, NEW r \in Requests
  PROVE  \/ ran'[r] = ran[r] /\ (owner'[r] = owner[r] \/ (owner[r] \notin live' /\ owner'[r] = None))
         \/ \E q \in wire : /\ q.req = r /\ q.method = "call" /\ q.session \in live /\ owner[r] = None
                            /\ ran'[r] = ran[r] + 1 /\ owner'[r] = q.session
                            /\ wire' = wire \ {q} /\ live' = live /\ request' = request
<1>t. ClientTypes /\ ServerTypes
  BY DEF TypeOK
<1>1. ASSUME NEW q \in wire, Handle(q)
      PROVE  \/ ran'[r] = ran[r] /\ (owner'[r] = owner[r] \/ (owner[r] \notin live' /\ owner'[r] = None))
             \/ /\ q.req = r /\ q.method = "call" /\ q.session \in live /\ owner[r] = None
                /\ ran'[r] = ran[r] + 1 /\ owner'[r] = q.session
                /\ wire' = wire \ {q} /\ live' = live /\ request' = request
  <2>1. CASE q.method = "call" /\ Status(q) = "ok"
    BY <1>t, <1>1, <2>1 DEF Handle, Status, Claim, client, ServerTypes
  <2>2. CASE ~(q.method = "call" /\ Status(q) = "ok")
    BY ZenonT(30), <1>t, <1>1, <2>2 DEF Handle, Answers, Closes, ServerTypes
  <2> QED
    BY <2>1, <2>2
<1>2. ASSUME ~\E q \in wire : Handle(q)
      PROVE  ran'[r] = ran[r] /\ (owner'[r] = owner[r] \/ (owner[r] \notin live' /\ owner'[r] = None))
  BY <1>t, <1>2
  DEF Next, vars, Send, Receive, Terminated, Timeout, Duplicate,
      Subscribe, StreamRefused, Frame, StreamEnds, Close,
      HandleStream, Broadcast, Closes, Expire, Resume, Stops,
      Start, server, ServerTypes
<1> QED
  BY <1>1, <1>2

\* Spent after the step.
SpentNext(r, s) == s \notin live' \/ owner'[r] = s

\* Every step keeps RanIsSpent and with it ToolRunsOnce: a call that runs is claimed
\* by its session, and a session whose ids are dropped never lives again.
LEMMA RanIsSpentStep ==
  ASSUME TypeOK, SessionsIssued, CopiesAgree, RanIsSpent,
         ToolRunsOnce, [Next]_vars
  PROVE  RanIsSpent' /\ ToolRunsOnce'
<1>t. ClientTypes /\ ServerTypes /\ ClientTypes'
  BY ClientTypesStep DEF TypeOK
<1>c. CopiesAgree'
  BY CopiesAgreeStep
<1> SUFFICES ASSUME NEW r \in Requests
             PROVE  /\ ran'[r] <= 1
                    /\ request'[r].phase = "new" => ran'[r] = 0
                    /\ ran'[r] # 0 =>
                         /\ request'[r].phase = "waiting" /\ request'[r].method = "call" =>
                              SpentNext(r, request'[r].session)
                         /\ \A q \in wire' : q.req = r /\ q.method = "call" => SpentNext(r, q.session)
  BY DEF RanIsSpent, ToolRunsOnce, Spent, SpentNext
<1>1. CASE \E q \in wire : /\ q.req = r /\ q.method = "call" /\ q.session \in live /\ owner[r] = None
                           /\ ran'[r] = ran[r] + 1 /\ owner'[r] = q.session
                           /\ wire' = wire \ {q} /\ live' = live /\ request' = request
  <2>1. PICK q \in wire : /\ q.req = r /\ q.method = "call" /\ q.session \in live /\ owner[r] = None
                          /\ ran'[r] = ran[r] + 1 /\ owner'[r] = q.session
                          /\ wire' = wire \ {q} /\ live' = live /\ request' = request
    BY <1>1
  <2>2. ran[r] = 0
    BY <2>1, SessionsStep DEF RanIsSpent, Spent
  <2>3. SpentNext(r, q.session)
    BY <2>1 DEF SpentNext
  <2>4. \A p \in wire' : p.req = r /\ p.method = "call" => p.session = q.session
    BY <2>1 DEF CopiesAgree
  <2>5. request'[r].phase = "waiting" /\ request'[r].method = "call" => request'[r].session = q.session
    BY <2>1 DEF CopiesAgree
  <2>6. request'[r].phase # "new"
    BY <2>1 DEF CopiesAgree
  <2> QED
    BY <2>1, <2>2, <2>3, <2>4, <2>5, <2>6
<1>2. CASE ran'[r] = ran[r] /\ (owner'[r] = owner[r] \/ (owner[r] \notin live' /\ owner'[r] = None))
  <2>1. ran'[r] <= 1 /\ (request'[r].phase = "new" => ran'[r] = 0)
    BY <1>2, SentStep DEF RanIsSpent, ToolRunsOnce
  <2>2. \A s \in Issued : Spent(r, s) => SpentNext(r, s)
    BY <1>2, SessionsStep DEF Spent, SpentNext
  <2>3. ASSUME ran[r] # 0, request'[r].phase = "waiting", request'[r].method = "call"
        PROVE  SpentNext(r, request'[r].session)
    <3>1. request'[r] = request[r]
      <4>1. Notifies(r) => request'[r].method = "notify"
        BY DEF Notifies
      <4> QED
        BY <2>3, <4>1, SentStep DEF RanIsSpent
    <3> QED
      BY <2>2, <2>3, <3>1 DEF RanIsSpent, SessionsIssued
  <2>4. ASSUME ran[r] # 0, NEW q \in wire', q.req = r, q.method = "call"
        PROVE  SpentNext(r, q.session)
    <3>1. CASE q \in wire
      BY <2>2, <2>4, <3>1 DEF RanIsSpent, SessionsIssued
    <3>2. CASE q \notin wire
      BY <2>3, <2>4, <3>2, RequestStep
    <3> QED
      BY <3>1, <3>2
  <2> QED
    BY <1>2, <2>1, <2>3, <2>4
<1> QED
  BY <1>1, <1>2, RanStep

\* What a step does with the stream and the subscription it belongs to.
LEMMA PipeStep ==
  ASSUME TypeOK, PipeKept, [Next]_vars
  PROVE  \/ pipe'.status = pipe.status /\ (sub'.session = sub.session \/ pipe.status = "none")
         \/ pipe' = NoPipe
         \/ HandleStream
<1>t. ClientTypes /\ NetworkTypes
  BY DEF TypeOK
<1>1. ASSUME UNCHANGED <<pipe, sub>>
      PROVE  pipe'.status = pipe.status /\ sub'.session = sub.session
  BY <1>1
<1>2. CASE Subscribe
  BY <1>2 DEF Subscribe, network, PipeKept, NoPipe
<1>3. CASE Frame
  BY <1>t, <1>3
  DEF Frame, ClientTypes, SubRecords, NetworkTypes, PipeRecords
<1>4. CASE UNCHANGED sub /\ pipe' = [pipe EXCEPT !.open = FALSE]
  BY <1>t, <1>4 DEF NetworkTypes, PipeRecords
<1>5. ASSUME NEW s \in Sessions, Broadcast(s)
      PROVE  pipe'.status = pipe.status /\ sub'.session = sub.session
  BY <1>t, <1>5 DEF Broadcast, client, NetworkTypes, PipeRecords
<1>6. ASSUME ~(\/ Subscribe \/ Frame \/ HandleStream
               \/ \E s \in Sessions : Broadcast(s))
      PROVE  \/ UNCHANGED <<pipe, sub>> \/ pipe' = NoPipe
             \/ UNCHANGED sub /\ pipe' = [pipe EXCEPT !.open = FALSE]
  BY <1>6
  DEF Next, vars, Send, Receive, Terminated, Timeout, Duplicate,
      StreamRefused, StreamEnds, Close, Handle, Answers, Closes,
      Expire, Resume, Stops, Start, network, client
<1> QED
  BY <1>1, <1>2, <1>3, <1>4, <1>5, <1>6

\* Every step keeps AnswersTrue: a session that is missing is not made again.
LEMMA AnswersTrueStep ==
  ASSUME TypeOK, SessionsIssued, CopiesAgree, AnswersTrue,
         PipeKept, [Next]_vars
  PROVE  AnswersTrue'
<1>t. ClientTypes /\ NetworkTypes /\ ServerTypes
  BY DEF TypeOK
<1>1. ASSUME NEW r \in Requests, reply'[r] # None
      PROVE  /\ request'[r].phase = "waiting"
             /\ reply'[r].status = "missing" => request'[r].session \notin live'
             /\ request'[r].method = "initialize" /\ reply'[r].status = "ok" => reply'[r].session # None
  <2>1. CASE reply'[r] = reply[r]
    <3>1. request'[r] = request[r]
      BY <1>t, <1>1, <2>1, RequestStep DEF AnswersTrue, Sends, NetworkTypes
    <3>2. request[r].session \notin live => request[r].session \notin live'
      BY SessionsStep DEF SessionsIssued
    <3> QED
      BY <1>1, <2>1, <3>1, <3>2 DEF AnswersTrue
  <2>2. ASSUME NEW q \in wire, Handle(q), reply'[r] # reply[r]
        PROVE  /\ request'[r].phase = "waiting"
               /\ reply'[r].status = "missing" => request'[r].session \notin live'
               /\ request'[r].method = "initialize" /\ reply'[r].status = "ok" => reply'[r].session # None
    <3>1. /\ r = q.req /\ request[r].phase = "waiting" /\ request[r].method = q.method
          /\ request' = request
          /\ reply'[r] = [status |-> Status(q),
                          session |-> IF q.method = "initialize" /\ Status(q) = "ok"
                                      THEN made + 1 ELSE None]
      BY <1>t, <2>2 DEF Handle, client, NetworkTypes
    <3>2. q.session = request[r].session
      BY <3>1 DEF CopiesAgree
    <3>3. Status(q) = "missing" => q.session \notin live
      BY DEF Status, Initializes, Claim
    <3>4. q.session \notin live => q.session \notin live'
      BY SessionsStep DEF SessionsIssued
    <3>5. q.method = "initialize" /\ Status(q) = "ok" => made + 1 # None
      <4>1. q.method = "initialize" /\ Status(q) = "ok" => made' = made + 1 /\ made + 1 \in live'
        BY <2>2 DEF Handle
      <4> QED
        BY <4>1, SessionsStep
    <3> QED
      BY <3>1, <3>2, <3>3, <3>4, <3>5
  <2>3. ASSUME ~\E q \in wire : Handle(q)
        PROVE  reply'[r] = reply[r]
    BY <1>t, <1>1, <2>3
    DEF Next, vars, Send, Receive, Terminated, Timeout,
        Duplicate, Answered, Subscribe, StreamRefused, Frame,
        StreamEnds, Close, HandleStream, Broadcast, Expire, Resume,
        Stops, Start, network, NetworkTypes
  <2> QED
    BY <2>1, <2>2, <2>3
<1>2. pipe'.status = "missing" => sub'.session \notin live'
  <2>1. CASE HandleStream
    BY <2>1 DEF HandleStream, NoPipe, client, server
  <2>2. CASE pipe'.status = pipe.status /\ (sub'.session = sub.session \/ pipe.status = "none")
    BY <2>2, SessionsStep DEF AnswersTrue, SessionsIssued
  <2> QED
    BY <2>1, <2>2, PipeStep DEF NoPipe
<1> QED
  BY <1>1, <1>2 DEF AnswersTrue

\* What is left of a sequence without its first element.
LEMMA Taken ==
  ASSUME NEW S, NEW f \in Seq(S), f # <<>>
  PROVE  /\ Tail(f) \in Seq(S) /\ Len(Tail(f)) = Len(f) - 1 /\ Len(f) \in Nat \ {0}
         /\ Head(f) = f[1] /\ f[1] \in S
         /\ \A i \in 1..Len(Tail(f)) : Tail(f)[i] = f[i + 1]
         /\ DOMAIN f = 1..Len(f)
         /\ DOMAIN Tail(f) = 1..Len(Tail(f)) /\ (Tail(f) # <<>> => Len(Tail(f)) > 0)
<1>1. /\ Tail(f) \in Seq(S) /\ Len(Tail(f)) = Len(f) - 1
      /\ \A i \in 1..Len(Tail(f)) : Tail(f)[i] = f[i + 1]
  BY HeadTailProperties
<1>2. Len(f) \in Nat /\ Len(f) # 0 /\ DOMAIN f = 1..Len(f)
  BY EmptySeq
<1>3. Head(f) = f[1] /\ f[1] \in S
  BY <1>2
<1>4. DOMAIN Tail(f) = 1..Len(Tail(f)) /\ (Tail(f) # <<>> => Len(Tail(f)) > 0)
  BY <1>1, EmptySeq
<1> QED
  BY <1>1, <1>2, <1>3, <1>4

\* A sequence with one more element.
LEMMA Appended ==
  ASSUME NEW S, NEW f \in Seq(S), NEW x
  PROVE  /\ DOMAIN Append(f, x) = 1..Len(Append(f, x))
         /\ Len(Append(f, x)) = Len(f) + 1 /\ Len(f) \in Nat /\ Append(f, x) # <<>>
         /\ \A i \in 1..Len(f) : Append(f, x)[i] = f[i]
         /\ Append(f, x)[Len(f) + 1] = x
         /\ DOMAIN f = 1..Len(f) /\ (f = <<>> <=> Len(f) = 0)
OBVIOUS

\* No frame is on its way and no stream is open.
LEMMA NoPipeIsKept ==
  ASSUME pipe' = NoPipe
  PROVE  PipeKept' /\ FramesInOrder'
BY DEF NoPipe, PipeKept, FramesInOrder

\* A stream that is not touched, or ends, stays in order: its session, if it is
\* still open, lives with the same buffer.
LEMMA SameFrames ==
  ASSUME NetworkTypes, PipeKept, FramesInOrder, UNCHANGED <<sub, cursor>>,
         pipe' = [pipe EXCEPT !.open = pipe'.open], pipe'.open => pipe.open,
         pipe'.open => sub.session \in live' /\ buffer'[sub.session] = buffer[sub.session],
         pipe'.open \in BOOLEAN
  PROVE  PipeKept' /\ FramesInOrder'
<1>1. pipe'.frames = pipe.frames /\ pipe'.status = pipe.status
  BY DEF NetworkTypes, PipeRecords
<1>2. sub.phase = "none" => pipe' = NoPipe
  BY DEF PipeKept, NoPipe
<1> QED
  BY <1>1, <1>2 DEF PipeKept, FramesInOrder

\* Every step keeps the frames in order: what is replayed begins after the cursor,
\* and what is broadcast follows what was replayed.
LEMMA PipeKeptStep ==
  ASSUME TypeOK, PipeKept, FramesInOrder, [Next]_vars
  PROVE  PipeKept' /\ FramesInOrder'
<1>t. ClientTypes /\ NetworkTypes /\ ServerTypes
  BY DEF TypeOK
<1>1. CASE Subscribe
  BY <1>1, NoPipeIsKept DEF Subscribe, PipeKept, network
<1>2. CASE Frame
  <2> DEFINE f == pipe.frames
  <2>1. /\ f \in Seq(1..MaxEvents) /\ f # <<>> /\ sub'.session = sub.session /\ sub'.phase = "open"
        /\ pipe'.frames = Tail(f) /\ pipe'.open = pipe.open /\ pipe'.status = pipe.status
        /\ cursor' = Head(f) /\ UNCHANGED <<live, buffer>>
    BY <1>t, <1>2
    DEF Frame, NetworkTypes, PipeRecords, ClientTypes, SubRecords,
        server
  <2>2. /\ Tail(f) \in Seq(1..MaxEvents) /\ Len(Tail(f)) = Len(f) - 1 /\ Head(f) = f[1]
        /\ \A i \in 1..Len(Tail(f)) : Tail(f)[i] = f[i + 1]
        /\ Len(f) \in Nat \ {0} /\ f[1] \in Nat /\ DOMAIN f = 1..Len(f)
        /\ DOMAIN Tail(f) = 1..Len(Tail(f)) /\ (Tail(f) # <<>> => Len(Tail(f)) > 0)
    <3> HIDE DEF f
    <3>1. 1..MaxEvents \subseteq Nat
      OBVIOUS
    <3> QED
      BY <2>1, <3>1, Taken
  <2>3. /\ \A i \in 1..Len(f) : f[i] = f[1] + i - 1
        /\ pipe.open => f[1] + Len(f) = buffer[sub.session].next
        /\ pipe.status = "ok"
        /\ pipe.open => sub.session \in live
    BY <2>1, <2>2 DEF PipeKept
  <2> HIDE DEF f
  <2>4. \A i \in 1..Len(Tail(f)) : Tail(f)[i] = f[1] + i
    <3> SUFFICES ASSUME NEW i \in 1..Len(Tail(f))
                 PROVE  Tail(f)[i] = f[1] + i
      OBVIOUS
    <3>1. i \in Nat /\ i + 1 \in 1..Len(f) /\ f[1] \in Nat
      BY <2>2
    <3>2. f[i + 1] = f[1] + (i + 1) - 1
      BY <2>3, <3>1
    <3>3. Tail(f)[i] = f[i + 1]
      BY <2>2
    <3> QED
      BY <3>1, <3>2, <3>3
  <2>5. Len(Tail(f)) > 0 => Tail(f)[1] = f[1] + 1
    BY SMTT(30), <2>2, <2>4
  <2>6. \A i \in 1..Len(Tail(f)) : Tail(f)[i] = Tail(f)[1] + i - 1
    <3> SUFFICES ASSUME NEW i \in 1..Len(Tail(f))
                 PROVE  Tail(f)[i] = Tail(f)[1] + i - 1
      OBVIOUS
    <3>1. Tail(f)[i] = f[1] + i /\ Tail(f)[1] = f[1] + 1 /\ f[1] \in Nat
      BY SMTT(30), <2>2, <2>4, <2>5
    <3> QED
      BY <3>1
  <2>7. pipe.open => f[1] + Len(Tail(f)) + 1 = buffer[sub.session].next
    BY <2>2, <2>3
  <2>8. Tail(f) # <<>> =>
          f[1] \in Nat /\ Len(Tail(f)) \in Nat /\ Tail(f)[1] = f[1] + 1
    BY SMTT(30), <2>2, <2>5
  <2>9. pipe.open /\ Tail(f) # <<>> => Tail(f)[1] + Len(Tail(f)) = buffer[sub.session].next
    BY SMTT(30), <2>7, <2>8
  <2> QED
    BY ZenonT(30), <2>1, <2>2, <2>3, <2>4, <2>6, <2>7, <2>9 DEF PipeKept, FramesInOrder
<1>3. CASE HandleStream
  <2> DEFINE s == sub.session
  <2>1. UNCHANGED <<sub, cursor, live, buffer>> /\ sub.phase = "asking"
    BY <1>3 DEF HandleStream, client, server
  <2>2. CASE up /\ s \in live /\ Resumable(s)
    <3>1. pipe' = [frames |-> Replayed(s), open |-> TRUE, status |-> "ok"]
      BY <1>3, <2>2 DEF HandleStream
    <3>2. CASE cursor = None
      <4>1. Replayed(s) = <<>>
        BY <3>2 DEF Replayed
      <4> QED
        BY <2>1, <2>2, <3>1, <3>2, <4>1 DEF PipeKept, FramesInOrder
    <3>3. CASE cursor # None
      <4> DEFINE n == buffer[s].next - 1 - cursor
      <4>1. n \in Nat /\ cursor \in Nat /\ buffer[s].next \in Nat
        <5>1. s \in Sessions /\ buffer[s] \in Buffers
          BY <1>t, <2>2, LiveSessions DEF ServerTypes
        <5> QED
          BY <1>t, <2>2, <3>3, <5>1
          DEF Resumable, Buffers, ClientTypes, ConstantsAssumption
      <4>2. Replayed(s) = [i \in 1..n |-> cursor + i]
        BY <3>3 DEF Replayed
      <4>3. n + cursor + 1 = buffer[s].next
        BY <4>1
      <4> HIDE DEF n
      <4>4. /\ DOMAIN Replayed(s) = 1..n /\ Len(Replayed(s)) = n
            /\ \A i \in 1..n : Replayed(s)[i] = cursor + i
        BY <4>1, <4>2
      <4>5. \A i \in 1..n : Replayed(s)[i] = Replayed(s)[1] + i - 1
        BY <4>1, <4>4
      <4>6. Replayed(s) # <<>> => n > 0 /\ Replayed(s)[1] = cursor + 1
        BY <4>1, <4>2, <4>4
      <4>7. /\ cursor + Len(Replayed(s)) + 1 = buffer[s].next
            /\ Replayed(s) # <<>> => Replayed(s)[1] + Len(Replayed(s)) = buffer[s].next
        BY <4>1, <4>3, <4>4, <4>6
      <4> QED
        BY <2>1, <2>2, <3>1, <4>4, <4>5, <4>7 DEF PipeKept, FramesInOrder
    <3> QED
      BY <3>2, <3>3
  <2>3. CASE ~(up /\ s \in live /\ Resumable(s))
    <3>1. pipe'.frames = <<>> /\ pipe'.open = FALSE /\ pipe'.status # "ok"
      BY <1>3, <2>3 DEF HandleStream, NoPipe
    <3> QED
      BY <2>1, <3>1 DEF PipeKept, FramesInOrder
  <2> QED
    BY <2>2, <2>3
<1>4. ASSUME NEW s \in Sessions, Broadcast(s)
      PROVE  PipeKept' /\ FramesInOrder'
  <2> DEFINE f == pipe.frames
  <2>1. /\ UNCHANGED <<sub, cursor, live>>
        /\ buffer' = [buffer EXCEPT ![s] = Trim(buffer[s])]
    BY <1>4 DEF Broadcast, client
  <2>2. CASE sub.session = s /\ pipe.open
    <3>1. pipe' = [pipe EXCEPT !.frames = Append(f, buffer[s].next)]
      BY <1>4, <2>2 DEF Broadcast
    <3>2. buffer'[s].next = buffer[s].next + 1 /\ buffer[s].next \in Nat
      BY <1>t, <1>4, <2>1
      DEF Trim, ServerTypes, Buffers, ConstantsAssumption
    <3>3. pipe'.frames = Append(f, buffer[s].next) /\ pipe'.open /\ pipe'.status = pipe.status
          /\ f \in Seq(1..MaxEvents)
      BY <1>t, <2>2, <3>1 DEF NetworkTypes, PipeRecords
    <3>4. pipe.status = "ok" /\ s \in live /\ sub.phase # "none"
      BY <2>2 DEF PipeKept, NoPipe
    <3> DEFINE g == Append(f, buffer[s].next)
    <3>5. /\ DOMAIN g = 1..Len(g) /\ Len(g) = Len(f) + 1 /\ Len(f) \in Nat /\ g # <<>>
          /\ \A i \in 1..Len(f) : g[i] = f[i]
          /\ g[Len(f) + 1] = buffer[s].next
          /\ DOMAIN f = 1..Len(f) /\ (f = <<>> <=> Len(f) = 0)
      <4> HIDE DEF f
      <4> QED
        BY <3>3, Appended
    <3>6. /\ \A i \in 1..Len(f) : f[i] = f[1] + i - 1
          /\ f # <<>> => f[1] + Len(f) = buffer[s].next
          /\ cursor # None => \A i \in 1..Len(f) : f[i] = cursor + i
          /\ cursor # None => cursor + Len(f) + 1 = buffer[s].next
          /\ f # <<>> => f[1] \in Nat
          /\ cursor # None => cursor \in Nat
      <4>1. f # <<>> => f[1] \in Nat
        <5>1. 1..MaxEvents \subseteq Nat
          OBVIOUS
        <5> HIDE DEF f
        <5> QED
          BY <3>3, <5>1, Taken
      <4>2. cursor # None => cursor \in Nat
        BY <1>t DEF ClientTypes
      <4> QED
        BY <2>2, <3>4, <3>5, <4>1, <4>2 DEF PipeKept, FramesInOrder
    <3> HIDE DEF f, g
    <3>7. \A i \in 1..Len(g) : g[i] = g[1] + i - 1
      <4>1. CASE Len(f) = 0
        BY <3>2, <3>5, <4>1
      <4>2. CASE Len(f) > 0
        <5>1. g[1] = f[1] /\ f # <<>>
          BY <3>5, <3>6, <4>2
        <5>2. g[Len(f) + 1] = g[1] + (Len(f) + 1) - 1 /\ g[1] \in Nat
          BY <3>2, <3>5, <3>6, <4>2, <5>1
        <5>3. \A i \in 1..Len(f) : g[i] = g[1] + i - 1
          BY <3>5, <3>6, <5>1
        <5>4. \A i \in 1..Len(g) : i \in 1..Len(f) \/ i = Len(f) + 1
          BY <3>5
        <5> QED
          BY <5>2, <5>3, <5>4
      <4> QED
        BY <3>5, <4>1, <4>2
    <3>8. g[1] + Len(g) = buffer[s].next + 1
      <4>1. g[1] \in Nat
        BY <3>2, <3>5, <3>6
      <4>2. Len(f) \in Nat /\ Len(f) + 1 \in 1..Len(g)
        BY <3>5
      <4>3. g[Len(f) + 1] = g[1] + (Len(f) + 1) - 1
        BY <3>7, <4>2
      <4> QED
        BY <3>2, <3>5, <4>1, <4>3
    <3>9. cursor # None => /\ \A i \in 1..Len(g) : g[i] = cursor + i
                           /\ cursor + Len(g) + 1 = buffer[s].next + 1
      <4>1. cursor # None => buffer[s].next = cursor + (Len(f) + 1)
        BY <3>2, <3>5, <3>6
      <4>2. cursor # None => \A i \in 1..Len(f) : g[i] = cursor + i
        BY <3>5, <3>6
      <4>3. cursor # None => cursor + Len(g) + 1 = buffer[s].next + 1
        BY <3>2, <3>5, <3>6, <4>1
      <4>4. \A i \in 1..Len(g) : i \in 1..Len(f) \/ i = Len(f) + 1
        BY <3>5
      <4> QED
        BY <3>5, <4>1, <4>2, <4>3, <4>4
    <3>10. pipe'.frames = g /\ UNCHANGED <<sub, cursor, live>> /\ buffer'[s].next = buffer[s].next + 1
           /\ pipe'.open /\ pipe'.status = "ok" /\ DOMAIN g = 1..Len(g) /\ g # <<>>
      BY <2>1, <3>2, <3>3, <3>4, <3>5 DEF g, f
    <3> QED
      BY <2>2, <3>4, <3>7, <3>8, <3>9, <3>10 DEF PipeKept, FramesInOrder
  <2>3. CASE ~(sub.session = s /\ pipe.open)
    <3>1. pipe' = pipe
      BY <1>4, <2>3 DEF Broadcast
    <3>2. pipe.open => buffer'[sub.session] = buffer[sub.session] /\ sub.session \in live'
      BY <1>t, <2>1, <2>3 DEF ServerTypes, PipeKept
    <3> QED
      BY <2>1, <3>1, <3>2 DEF PipeKept, FramesInOrder
  <2> QED
    BY <2>2, <2>3
<1>5. ASSUME NEW s, NEW closed \in BOOLEAN, Closes(s, closed), UNCHANGED <<sub, cursor>>
      PROVE  PipeKept' /\ FramesInOrder'
  <2>1. CASE sub.session = s
    <3>1. pipe' = [pipe EXCEPT !.open = FALSE]
      BY <1>5, <2>1 DEF Closes
    <3>2. pipe'.open = FALSE
      BY <1>t, <3>1 DEF NetworkTypes, PipeRecords
    <3> QED
      BY <1>t, <1>5, <3>1, <3>2, SameFrames
  <2>2. CASE sub.session # s
    <3>1. pipe' = pipe
      BY <1>5, <2>2 DEF Closes
    <3>2. pipe.open => sub.session \in live' /\ buffer'[sub.session] = buffer[sub.session]
      BY <1>t, <1>5, <2>2, LiveSessions DEF Closes, ServerTypes, PipeKept
    <3> QED
      BY <1>5, <3>1, <3>2 DEF PipeKept, FramesInOrder
  <2> QED
    BY <2>1, <2>2
<1>6. ASSUME NEW graceful \in BOOLEAN, Stops(graceful)
      PROVE  PipeKept' /\ FramesInOrder'
  <2>1. pipe' = [pipe EXCEPT !.open = FALSE] /\ UNCHANGED <<sub, cursor>>
    BY <1>6 DEF Stops, client
  <2>2. pipe'.open = FALSE
    BY <1>t, <2>1 DEF NetworkTypes, PipeRecords
  <2> QED
    BY <1>t, <2>1, <2>2, SameFrames
<1>7. ASSUME NEW s \in Sessions, Resume(s)
      PROVE  PipeKept' /\ FramesInOrder'
  <2>1. UNCHANGED <<pipe, sub, cursor>> /\ live \subseteq live'
    BY <1>7 DEF Resume, network, client
  <2>2. \A x \in live : buffer'[x] = buffer[x]
    <3>1. \A x \in live : x # made + 1
      BY <1>t DEF ServerTypes
    <3>2. live \subseteq Sessions
      BY <1>t, LiveSessions
    <3> QED
      BY <1>t, <1>7, <3>1, <3>2 DEF Resume, ServerTypes
  <2> QED
    BY <2>1, <2>2 DEF PipeKept, FramesInOrder
<1>8. CASE UNCHANGED <<pipe, sub, cursor, buffer>> /\ live \subseteq live'
  BY <1>8 DEF PipeKept, FramesInOrder
<1>9. CASE \/ \E r \in Requests :
                \/ \E method \in {"initialize", "call", "delete"} : Send(r, method)
                \/ Receive(r) \/ Terminated(r) \/ Timeout(r) \/ Duplicate(r)
           \/ StreamRefused \/ StreamEnds \/ Close \/ Start \/ UNCHANGED vars
  <2>1. UNCHANGED <<buffer, live>>
    BY <1>9
    DEF vars, Send, Receive, Terminated, Timeout, Duplicate,
        StreamRefused, StreamEnds, Close, Start, server
  <2>2. pipe' = NoPipe \/ UNCHANGED <<pipe, sub, cursor>>
    BY <1>9
    DEF vars, Send, Receive, Terminated, Timeout, Duplicate,
        StreamRefused, StreamEnds, Close, Start, network, client
  <2> QED
    BY <1>8, <2>1, <2>2, NoPipeIsKept
<1>10. ASSUME NEW q \in wire, Handle(q)
       PROVE  PipeKept' /\ FramesInOrder'
  <2>1. \/ Closes(q.session, TRUE) /\ UNCHANGED <<sub, cursor>>
        \/ UNCHANGED <<pipe, sub, cursor, buffer>> /\ live \subseteq live'
    BY <1>10 DEF Handle, Answers, client
  <2> QED
    BY <1>5, <1>8, <2>1
<1>11. ASSUME NEW s \in Sessions, Expire(s)
       PROVE  PipeKept' /\ FramesInOrder'
  BY <1>5, <1>11 DEF Expire, client
<1> QED
  BY <1>1, <1>2, <1>3, <1>4, <1>6, <1>7, <1>8, <1>9, <1>10, <1>11 DEF Next

\* What no step does with a tombstone.
TombstonesStay ==
  \A s \in Sessions :
    /\ Tombstone(stored[s]) => stored'[s] = stored[s]
    /\ Tombstone(snapshot[s]) /\ up' => snapshot'[s] = snapshot[s]

\* New snapshots that keep the tombstones are written, or not.
LEMMA Written ==
  ASSUME TombstonesKept, up, up',
         stored' = snapshot' \/ stored' = stored,
         \A s \in Sessions : Tombstone(snapshot[s]) => snapshot'[s] = snapshot[s],
         \A s \in Sessions : s \in live' \/ s > made' =>
           (s \in live \/ s > made) /\ ~Tombstone(snapshot'[s])
  PROVE  TombstonesKept' /\ TombstonesStay
BY DEF TombstonesKept, TombstonesStay, Tombstone

\* Every step keeps the tombstones.
LEMMA TombstonesStep ==
  ASSUME TypeOK, TombstonesKept, [Next]_vars
  PROVE  TombstonesKept' /\ TombstonesStay
<1>t. ServerTypes /\ ClientTypes
  BY DEF TypeOK
<1>n. \A s \in Sessions : s \in live' \/ s > made' => s \in live \/ s > made
  BY SessionsStep DEF Sessions
<1>m. \A s \in live : ~(s > made) /\ s \in Sessions
  BY <1>t, LiveSessions DEF ServerTypes
<1>1. ASSUME NEW s \in live, NEW closed \in BOOLEAN, Closes(s, closed), up, UNCHANGED <<up, made>>
      PROVE  TombstonesKept' /\ TombstonesStay
  <2>1. /\ snapshot' = Saved(s, closed) /\ live' = live \ {s}
        /\ stored' = snapshot' \/ stored' = stored
    BY <1>1 DEF Closes, Persist
  <2>2. \A x \in Sessions : x # s => snapshot'[x] = snapshot[x]
    BY <1>t, <2>1 DEF Saved, ServerTypes
  <2>3. ~Tombstone(snapshot[s])
    BY <1>1, <1>m DEF TombstonesKept
  <2>4. \A x \in Sessions : x \in live' \/ x > made' => x # s
    BY <1>1, <1>m, <2>1
  <2> QED
    BY <1>1, <1>n, <2>1, <2>2, <2>3, <2>4, Written DEF TombstonesKept
<1>2. ASSUME UNCHANGED <<up, snapshot, stored>>, ~up => live' = live
      PROVE  TombstonesKept' /\ TombstonesStay
  BY <1>2, <1>n DEF TombstonesKept, TombstonesStay, Tombstone
<1>3. ASSUME NEW q \in wire, Handle(q)
      PROVE  TombstonesKept' /\ TombstonesStay
  <2>1. Status(q) = "ok" => up
    BY DEF Status
  <2>2. q.method = "delete" /\ Status(q) = "ok" => q.session \in live
    BY DEF Status
  <2>3. \/ up /\ q.session \in live /\ Closes(q.session, TRUE) /\ UNCHANGED <<up, made>>
        \/ UNCHANGED <<up, snapshot, stored>> /\ (~up => live' = live)
    BY <1>3, <2>1, <2>2 DEF Handle, Answers
  <2> QED
    BY <1>1, <1>2, <2>3
<1>4. ASSUME NEW s \in Sessions, Broadcast(s)
      PROVE  TombstonesKept' /\ TombstonesStay
  <2>1. /\ up /\ s \in live /\ UNCHANGED <<up, made, live>>
        /\ snapshot' = [snapshot EXCEPT ![s] = [closed |-> FALSE, buffer |-> Trim(buffer[s])]]
        /\ stored' = snapshot' \/ stored' = stored
    BY <1>4 DEF Broadcast, Persist
  <2>2. \A x \in Sessions :
          snapshot'[x] = IF x = s THEN [closed |-> FALSE, buffer |-> Trim(buffer[s])]
                         ELSE snapshot[x]
    BY <1>t, <2>1 DEF ServerTypes
  <2>3. ~Tombstone([closed |-> FALSE, buffer |-> Trim(buffer[s])])
    BY DEF Tombstone
  <2>4. ~Tombstone(snapshot[s])
    BY <2>1 DEF TombstonesKept
  <2>5. \A x \in Sessions : x \in live \/ x > made => ~Tombstone(snapshot'[x])
    BY <2>2, <2>3 DEF TombstonesKept
  <2> QED
    BY <2>1, <2>2, <2>4, <2>5, Written
<1>5. ASSUME NEW s \in Sessions, Expire(s)
      PROVE  TombstonesKept' /\ TombstonesStay
  BY <1>1, <1>5 DEF Expire
<1>6. ASSUME NEW s \in Sessions, Resume(s)
      PROVE  TombstonesKept' /\ TombstonesStay
  <2>1. /\ up /\ up' = up /\ ~Tombstone(snapshot[s]) /\ snapshot' = [snapshot EXCEPT ![s] = None]
        /\ stored' = snapshot' \/ stored' = stored
    BY <1>6 DEF Resume, ResumableSession, Persist, Tombstone
  <2>2. \A x \in Sessions : snapshot'[x] = IF x = s THEN None ELSE snapshot[x]
    BY <1>t, <2>1 DEF ServerTypes
  <2>3. \A x \in Sessions : x \in live \/ x > made => ~Tombstone(snapshot'[x])
    BY <2>2 DEF TombstonesKept, Tombstone
  <2> QED
    BY <1>n, <2>1, <2>2, <2>3, Written
<1>7. ASSUME NEW graceful \in BOOLEAN, Stops(graceful)
      PROVE  TombstonesKept' /\ TombstonesStay
  <2>1. /\ up /\ ~up' /\ live' = {} /\ made' = made
        /\ \A s \in Sessions : snapshot'[s] = None
    BY <1>7 DEF Stops
  <2>2. \A s \in Sessions : Tombstone(stored[s]) => stored'[s] = stored[s]
    BY <1>7, <2>1 DEF Stops, TombstonesKept
  <2>3. \A s \in Sessions : s > made => ~Tombstone(stored'[s])
    BY <1>7, <1>m DEF Stops, TombstonesKept
  <2> QED
    BY <2>1, <2>2, <2>3 DEF TombstonesKept, TombstonesStay, Tombstone
<1>8. CASE Start
  BY <1>8 DEF Start, TombstonesKept, TombstonesStay, Tombstone
<1>9. CASE \/ \E r \in Requests :
                \/ \E method \in {"initialize", "call", "delete"} : Send(r, method)
                \/ Receive(r) \/ Terminated(r) \/ Timeout(r) \/ Duplicate(r)
           \/ Subscribe \/ StreamRefused \/ Frame \/ StreamEnds \/ Close
           \/ HandleStream \/ UNCHANGED vars
  <2>1. UNCHANGED <<up, snapshot, stored, live>>
    BY <1>9
    DEF Send, Receive, Terminated, Timeout, Duplicate, Subscribe,
        StreamRefused, Frame, StreamEnds, Close, HandleStream, vars,
        server
  <2> QED
    BY <1>2, <2>1
<1> QED
  BY <1>3, <1>4, <1>5, <1>6, <1>7, <1>8, <1>9 DEF Next

\* The initial state satisfies the invariant.
LEMMA InitHttp ==
  ASSUME Init
  PROVE  IInv
<1>1. ClientTypes
  BY
  DEF Init, ClientTypes, RequestRecords, SubRecords, Methods,
      Unsubscribed
<1>2. ServerTypes
  BY BufferTypes DEF Init, ServerTypes, ConstantsAssumption
<1>3. NetworkTypes
  <2>1. <<>> \in Seq(1..MaxEvents)
    OBVIOUS
  <2> QED
    BY <2>1 DEF Init, NetworkTypes, PipeRecords, NoPipe
<1>4. /\ SessionsIssued /\ CopiesAgree /\ RanIsSpent
      /\ ToolRunsOnce /\ AnswersTrue
  BY
  DEF Init, SessionsIssued, Issued, CopiesAgree, RanIsSpent,
      ToolRunsOnce, AnswersTrue, Unsubscribed, NoPipe
<1>5. PipeKept /\ FramesInOrder
  BY DEF Init, PipeKept, FramesInOrder, NoPipe
<1>6. TombstonesKept
  BY DEF Init, TombstonesKept, Tombstone
<1> QED
  BY <1>1, <1>2, <1>3, <1>4, <1>5, <1>6 DEF IInv, TypeOK

\* IInv: the inductive invariant of McpHttp.
THEOREM HttpInvariance == Spec => []IInv
<1>1. Init => IInv
  BY InitHttp
<1>2. IInv /\ [Next]_vars => IInv'
  <2> SUFFICES ASSUME IInv, [Next]_vars
               PROVE  IInv'
    OBVIOUS
  <2> USE DEF IInv
  <2>1. TypeOK'
    BY ClientTypesStep, NetworkTypesStep, ServerTypesStep DEF TypeOK
  <2> QED
    BY <2>1, SessionsIssuedStep, CopiesAgreeStep, RanIsSpentStep, AnswersTrueStep, PipeKeptStep,
       TombstonesStep
<1> QED
  BY <1>1, <1>2, PTL DEF Spec

\* TypeOK: the types of McpHttp, the bound of the replay buffer among them.
THEOREM HttpTypesTheorem == Spec => []TypeOK
<1>1. IInv => TypeOK
  BY DEF IInv
<1> QED
  BY HttpInvariance, <1>1, PTL

\* ToolRunsOnce: no tool runs twice for a request, however often it arrives.
THEOREM ToolRunsOnceTheorem == Spec => []ToolRunsOnce
<1>1. IInv => ToolRunsOnce
  BY DEF IInv
<1> QED
  BY HttpInvariance, <1>1, PTL

\* TombstoneStays: a session that was closed is never revived, through restarts.
THEOREM TombstoneStaysTheorem == Spec => TombstoneStays
<1>1. IInv /\ [Next]_vars => [\A s \in Sessions :
       /\ stored[s] # None /\ stored[s].closed => stored'[s] = stored[s]
       /\ snapshot[s] # None /\ snapshot[s].closed /\ up' => snapshot'[s] = snapshot[s]]_vars
  BY TombstonesStep DEF IInv, TombstonesStay, Tombstone
<1> QED
  BY HttpInvariance, <1>1, PTL DEF Spec, TombstoneStays

\* LiveSessionKept: a late 404 for an old session does not clear a newer one.
THEOREM LiveSessionKeptTheorem == Spec => LiveSessionKept
<1>1. IInv /\ [Next]_vars =>
        [\/ session = None \/ session' # None \/ session \notin live
         \/ faults' # faults
         \/ \E r \in Requests : request[r].phase = "waiting" /\ request[r].method = "delete"]_vars
  <2> SUFFICES ASSUME IInv, [Next]_vars,
                      session # None, session' = None, session \in live, faults' = faults,
                      ~\E r \in Requests : request[r].phase = "waiting" /\ request[r].method = "delete"
               PROVE  FALSE
    OBVIOUS
  <2>1. ASSUME NEW r \in Requests, Receive(r)
        PROVE  FALSE
    <3>1. request[r].method = "initialize" /\ reply[r].status = "ok" => session' # None
      BY <2>1 DEF Receive, IInv, AnswersTrue
    <3>2. reply[r].status = "missing" => session # request[r].session
      BY <2>1 DEF Receive, IInv, AnswersTrue
    <3> QED
      BY <2>1, <3>1, <3>2 DEF Receive, Drops
  <2>2. CASE StreamRefused
    BY <2>2 DEF StreamRefused, Drops, IInv, AnswersTrue
  <2>3. CASE Close
    BY <2>3 DEF Close, Fault, IInv, TypeOK
  <2>4. ASSUME NEW r \in Requests, Terminated(r)
        PROVE  FALSE
    BY <2>4 DEF Terminated
  <2>5. ASSUME ~(\/ StreamRefused \/ Close
                 \/ \E r \in Requests : Receive(r) \/ Terminated(r))
        PROVE  session' = session
    BY <2>5
    DEF Next, vars, Send, Timeout, Duplicate, Subscribe, Frame,
        StreamEnds, Handle, HandleStream, Broadcast, Expire, Resume,
        Stops, Start, client
  <2> QED
    BY <2>1, <2>2, <2>3, <2>4, <2>5
<1> QED
  BY HttpInvariance, <1>1, PTL DEF Spec, LiveSessionKept

\* FramesInOrder: a subscriber that goes on after its cursor misses no event.
THEOREM FramesInOrderTheorem == Spec => []FramesInOrder
<1>1. IInv => FramesInOrder
  BY DEF IInv
<1> QED
  BY HttpInvariance, <1>1, PTL

-----------------------------------------------------------------------------
(***************************************************************************)
(* The program's other JSON-RPC client, over pipes: LspClient, for any     *)
(* number of servers, calls and versions.                                  *)
(*                                                                         *)
(* The inductive invariant LspIInv adds to the types                       *)
(*   - CallsNumbered: the calls made are numbered from 1 on, whichever     *)
(*     server they go to, so that no id is used twice;                     *)
(*   - CallsKept: a call waits under its own number, or not at all;        *)
(*   - AskedKept: what a server may still answer is a call made to it.     *)
(* Its NoneMade is the step of every action but a request.                 *)
(***************************************************************************)
HIDE NoneAssumption
HIDE ConstantsAssumption
USE LspAssumption DEF LspAssumption

\* The calls made are a number of calls.
LEMMA MadeBound ==
  ASSUME CallsNumbered
  PROVE  Made \in 0..MaxCalls
<1>1. IsFiniteSet(Calls) /\ Cardinality(Calls) = MaxCalls
  <2>1. MaxCalls \in Nat
    OBVIOUS
  <2>2. Cardinality(1..MaxCalls) = MaxCalls
    BY <2>1, FS_Interval
  <2> QED
    BY <2>1, <2>2, FS_Interval DEF Calls
<1>2. {c \in Calls : call[c] # NoCall} \subseteq Calls
  OBVIOUS
<1>3. Made \in Nat /\ Made <= MaxCalls
  BY <1>1, <1>2, FS_Subset, FS_CardinalityType DEF Made
<1> QED
  BY <1>3

\* The initial state satisfies the invariant.
LEMMA LspInitIInv ==
  ASSUME LspInit
  PROVE  LspIInv
<1>1. CallTypes
  <2> USE DEF LspInit, CallTypes
  <2>1. NoCall \in CallRecords
    BY DEF NoCall, CallRecords
  <2>2. call \in [Calls -> CallRecords]
    BY <2>1
  <2>3. pending \in [Calls -> 0..MaxCalls] /\ asked \in [Servers -> SUBSET Calls]
    OBVIOUS
  <2>4. encoding \in Encodings /\ negotiated \in Encodings
    BY DEF Encodings
  <2>5. /\ spawns \in 0..MaxSpawns /\ child \in 0..spawns /\ torn \in 0..spawns
       /\ alive \subseteq 1..spawns
    OBVIOUS
  <2> QED
    BY <2>2, <2>3, <2>4, <2>5
<1>2. {c \in Calls : call[c] # NoCall} = {}
  BY DEF LspInit
<1>3. Made = 0
  BY <1>2, FS_EmptySet DEF Made
<1>4. CallsNumbered
  BY <1>2, <1>3 DEF LspInit, CallsNumbered
<1>5. CallsKept /\ AskedKept
  BY DEF LspInit, CallsKept, AskedKept, NoCall, Calls
<1> QED
  BY <1>1, <1>4, <1>5 DEF LspIInv

\* A step that makes no call keeps the numbers of those made, and what it has
\* to show of each call by itself.
LEMMA NoneMade ==
  ASSUME LspIInv,
         call' \in [Calls -> CallRecords],
         pending' \in [Calls -> 0..MaxCalls],
         asked' \in [Servers -> SUBSET Calls],
         \A s \in Servers : asked'[s] \subseteq asked[s],
         \A c \in Calls : IF call[c].phase = "none" THEN call'[c] = call[c]
                              ELSE call'[c].phase # "none" /\ call'[c].server = call[c].server,
         \A c \in Calls : /\ pending'[c] \in {0, c}
                          /\ call'[c].phase = "waiting" <=> pending'[c] = c
                          /\ call'[c].from \in {0, call'[c].server}
  PROVE  CallsNumbered' /\ CallsKept' /\ AskedKept'
<1>1. \A c \in Calls : call'[c] # NoCall <=> call[c] # NoCall
  BY DEF LspIInv, CallsNumbered, NoCall
<1>2. {c \in Calls : call'[c] # NoCall} = {c \in Calls : call[c] # NoCall}
  BY <1>1
<1>3. Made' = Made
  BY <1>2 DEF Made
<1>4. \A c \in Calls : call'[c].phase = "none" => call'[c] = NoCall
  BY DEF LspIInv, CallsNumbered
<1>5. CallsNumbered'
  BY <1>2, <1>3, <1>4 DEF LspIInv, CallsNumbered
<1>6. CallsKept'
  BY DEF CallsKept
<1>7. AskedKept'
  BY DEF LspIInv, AskedKept, CallTypes
<1> QED
  BY <1>5, <1>6, <1>7

\* A request makes the call with the next number.
LEMMA LspRequestStep ==
  ASSUME LspIInv, NEW method \in {"initialize", "read", "shutdown"}, NEW to \in Servers,
         Request(method, to)
  PROVE  /\ call' \in [Calls -> CallRecords]
         /\ pending' \in [Calls -> 0..MaxCalls]
         /\ asked' \in [Servers -> SUBSET Calls]
         /\ CallsNumbered' /\ CallsKept' /\ AskedKept'
<1> DEFINE n == Made + 1
           new == [method |-> method, server |-> to, phase |-> "waiting", from |-> 0]
<1>1. Made \in Nat /\ n \in Calls
  BY MadeBound DEF LspIInv, Request, Calls
<1>2. new \in CallRecords /\ new # NoCall
  BY DEF CallRecords, Servers, NoCall
<1>3. /\ call' = [call EXCEPT ![n] = new]
      /\ pending' = [pending EXCEPT ![n] = n]
      /\ asked' = [asked EXCEPT ![to] = @ \cup {n}]
  BY DEF Request, NewId
<1>4. call' \in [Calls -> CallRecords]
  BY <1>1, <1>2, <1>3 DEF LspIInv, CallTypes, CallRecords
<1>5. pending' \in [Calls -> 0..MaxCalls]
  BY <1>1, <1>3 DEF LspIInv, CallTypes, Calls
<1>6. asked' \in [Servers -> SUBSET Calls]
  BY <1>1, <1>3 DEF LspIInv, CallTypes
<1>7. {c \in Calls : call[c] # NoCall} = 1..Made
  BY DEF LspIInv, CallsNumbered
<1>8. \A c \in Calls : c \in 1..Made <=> call[c] # NoCall
  BY <1>7
<1>9. \A c \in Calls : call'[c] = IF c = n THEN new ELSE call[c]
  BY <1>1, <1>3 DEF LspIInv, CallTypes
<1>10. \A c \in Calls : call'[c] # NoCall <=> c \in 1..n
  <2>1. \A c \in Calls : c \in 1..n <=> c = n \/ c \in 1..Made
    BY <1>1 DEF Calls
  <2> HIDE DEF new
  <2> QED
    BY <1>1, <1>2, <1>8, <1>9, <2>1
<1>11. 1..n \subseteq Calls
  BY <1>1 DEF Calls
<1>12. {c \in Calls : call'[c] # NoCall} = 1..n
  BY <1>10, <1>11
<1>13. Made' = n
  <2>1. Cardinality(1..n) = n
    BY <1>1, FS_Interval
  <2> QED
    BY <1>12, <2>1 DEF Made
<1>14. CallsNumbered'
  <2>1. \A c \in Calls : call'[c].phase = "none" => call'[c] = NoCall
    BY <1>9 DEF LspIInv, CallsNumbered
  <2> QED
    BY <1>12, <1>13, <2>1 DEF CallsNumbered
<1>15. \A c \in Calls : pending'[c] = IF c = n THEN n ELSE pending[c]
  BY <1>1, <1>3 DEF LspIInv, CallTypes
<1>16. CallsKept'
  BY <1>9, <1>15 DEF LspIInv, CallsKept
<1>17. call[n] = NoCall
  BY <1>1, <1>8
<1>18. \A s \in Servers : n \notin asked[s]
  BY <1>1, <1>17 DEF LspIInv, AskedKept, NoCall
<1>19. AskedKept'
  <2> SUFFICES ASSUME NEW s \in Servers, NEW id \in asked'[s]
               PROVE  call'[id].phase # "none" /\ call'[id].server = s
    BY DEF AskedKept
  <2>1. CASE id \in asked[s]
    <3>1. id \in Calls /\ id # n
      BY <1>18, <2>1 DEF LspIInv, CallTypes
    <3> QED
      BY <1>9, <2>1, <3>1 DEF LspIInv, AskedKept
  <2>2. CASE id \notin asked[s]
    <3>1. id = n /\ s = to
      BY <1>3, <2>2 DEF LspIInv, CallTypes
    <3> QED
      BY <1>1, <1>9, <3>1
  <2> QED
    BY <2>1, <2>2
<1> QED
  BY <1>4, <1>5, <1>6, <1>14, <1>16, <1>19

\* Under CallsKept the pending calls are those that wait.
LEMMA PendingCalls ==
  ASSUME LspIInv
  PROVE  \A c \in Calls : c \in Pending <=> call[c].phase = "waiting"
<1> SUFFICES ASSUME NEW c \in Calls
             PROVE  c \in Pending <=> pending[c] = c
  BY DEF LspIInv, CallsKept
<1>1. c # 0
  BY DEF Calls
<1> QED
  BY <1>1 DEF LspIInv, CallsKept, Pending

\* Rejecting what is pending, after the caller has settled calls that do not
\* wait.
LEMMA RejectedStep ==
  ASSUME LspIInv, NEW calls \in [Calls -> CallRecords],
         \A c \in Calls :
           \/ calls[c] = call[c]
           \/ /\ call[c].phase \in {"answered", "rejected"}
              /\ calls[c] = [call[c] EXCEPT !.phase = "over"]
           \/ /\ call[c].phase \in {"answered", "rejected"}
              /\ calls[c] = [call[c] EXCEPT !.phase = "closing"],
         call' = Rejected(calls), pending' = NothingPending, asked' = asked
  PROVE  /\ call' \in [Calls -> CallRecords]
         /\ pending' \in [Calls -> 0..MaxCalls]
         /\ asked' \in [Servers -> SUBSET Calls]
         /\ CallsNumbered' /\ CallsKept' /\ AskedKept'
<1>1. \A c \in Calls : call[c] \in CallRecords /\ calls[c] \in CallRecords
  BY DEF LspIInv, CallTypes, CallRecords
<1>2. \A c \in Calls : [calls[c] EXCEPT !.phase = "rejected"] \in CallRecords
  <2> SUFFICES ASSUME NEW c \in Calls
               PROVE  [calls[c] EXCEPT !.phase = "rejected"] \in CallRecords
    OBVIOUS
  <2>1. calls[c] \in CallRecords
    OBVIOUS
  <2> QED
    BY <2>1 DEF CallRecords
<1>3. \A c \in Calls : call'[c] = IF call[c].phase = "waiting"
                                  THEN [calls[c] EXCEPT !.phase = "rejected"] ELSE calls[c]
  BY PendingCalls DEF Rejected
<1>4. call' \in [Calls -> CallRecords]
  BY <1>2 DEF Rejected
<1>5. /\ pending' \in [Calls -> 0..MaxCalls]
      /\ \A c \in Calls : pending'[c] = 0 /\ c # 0
  BY DEF NothingPending, Calls
<1>6. asked' \in [Servers -> SUBSET Calls]
  BY DEF LspIInv, CallTypes
<1>7. \A c \in Calls : /\ call'[c].server = call[c].server
                       /\ call'[c].from = call[c].from
                       /\ call'[c].phase # "waiting"
                       /\ call[c].phase = "none" => call'[c] = call[c]
                       /\ call[c].phase # "none" => call'[c].phase # "none"
  <2> SUFFICES ASSUME NEW c \in Calls
               PROVE  /\ call'[c].server = call[c].server
                      /\ call'[c].from = call[c].from
                      /\ call'[c].phase # "waiting"
                      /\ call[c].phase = "none" => call'[c] = call[c]
                      /\ call[c].phase # "none" => call'[c].phase # "none"
    OBVIOUS
  <2>1. call[c] \in CallRecords /\ calls[c] \in CallRecords
    BY <1>1
  <2>2. CASE call[c].phase = "waiting"
    <3>1. calls[c] = call[c]
      BY <2>2
    <3>2. call'[c] = [call[c] EXCEPT !.phase = "rejected"]
      BY <1>3, <2>2, <3>1
    <3> QED
      BY <2>1, <2>2, <3>2 DEF CallRecords
  <2>3. CASE call[c].phase # "waiting"
    <3>1. call'[c] = calls[c]
      BY <1>3, <2>3
    <3> QED
      BY <2>1, <2>3, <3>1 DEF CallRecords
  <2> QED
    BY <2>2, <2>3
<1>8. \A c \in Calls : /\ pending'[c] \in {0, c}
                       /\ call'[c].phase = "waiting" <=> pending'[c] = c
                       /\ call'[c].from \in {0, call'[c].server}
  BY <1>5, <1>7 DEF LspIInv, CallsKept
<1>9. \A c \in Calls : IF call[c].phase = "none" THEN call'[c] = call[c]
                           ELSE call'[c].phase # "none" /\ call'[c].server = call[c].server
  BY <1>7
<1>10. asked' \in [Servers -> SUBSET Calls] /\ \A s \in Servers : asked'[s] \subseteq asked[s]
  BY <1>6
<1>11. CallsNumbered' /\ CallsKept' /\ AskedKept'
  BY <1>4, <1>5, <1>8, <1>9, <1>10, NoneMade
<1> QED
  BY <1>4, <1>5, <1>6, <1>11

\* One call is settled, and waits no longer.
LEMMA SettledStep ==
  ASSUME LspIInv, NEW c \in Calls, call[c].phase # "none",
         NEW phase \in {"answered", "rejected", "closing", "over"},
         NEW from \in {call[c].from, call[c].server},
         call' = [call EXCEPT ![c] = [call[c] EXCEPT !.phase = phase, !.from = from]],
         pending' = [pending EXCEPT ![c] = 0],
         asked' \in [Servers -> SUBSET Calls],
         \A s \in Servers : asked'[s] \subseteq asked[s]
  PROVE  /\ call' \in [Calls -> CallRecords]
         /\ pending' \in [Calls -> 0..MaxCalls]
         /\ CallsNumbered' /\ CallsKept' /\ AskedKept'
<1>1. call[c] \in CallRecords
  BY DEF LspIInv, CallTypes, CallRecords
<1>2. [call[c] EXCEPT !.phase = phase, !.from = from] \in CallRecords
  BY <1>1 DEF CallRecords
<1>3. call' \in [Calls -> CallRecords]
  BY <1>2 DEF LspIInv, CallTypes, CallRecords
<1>4. pending' \in [Calls -> 0..MaxCalls]
  BY DEF LspIInv, CallTypes
<1>5. \A d \in Calls : d # c => call'[d] = call[d] /\ pending'[d] = pending[d]
  BY DEF LspIInv, CallTypes
<1>6. /\ call'[c].phase = phase /\ call'[c].from = from
      /\ call'[c].server = call[c].server
      /\ pending'[c] = 0 /\ c # 0
  BY <1>1 DEF LspIInv, CallTypes, CallRecords, Calls
<1>7. \A d \in Calls : IF call[d].phase = "none" THEN call'[d] = call[d]
                           ELSE call'[d].phase # "none" /\ call'[d].server = call[d].server
  BY <1>5, <1>6
<1>8. \A d \in Calls : /\ pending'[d] \in {0, d}
                       /\ call'[d].phase = "waiting" <=> pending'[d] = d
                       /\ call'[d].from \in {0, call'[d].server}
  BY <1>5, <1>6 DEF LspIInv, CallsKept
<1>9. CallsNumbered' /\ CallsKept' /\ AskedKept'
  BY <1>3, <1>4, <1>7, <1>8, NoneMade
<1> QED
  BY <1>3, <1>4, <1>9

\* A step that leaves the calls alone.
LEMMA SameStep ==
  ASSUME LspIInv, UNCHANGED <<call, pending, asked>>
  PROVE  /\ call' \in [Calls -> CallRecords]
         /\ pending' \in [Calls -> 0..MaxCalls]
         /\ asked' \in [Servers -> SUBSET Calls]
         /\ CallsNumbered' /\ CallsKept' /\ AskedKept'
BY DEF LspIInv, CallTypes, CallsNumbered, CallsKept, AskedKept, Made

\* Every step of the calls keeps the invariant, and the types of all the rest.
LEMMA CloseStep ==
  ASSUME LspIInv, NEW calls \in [Calls -> CallRecords],
         \A c \in Calls :
           \/ calls[c] = call[c]
           \/ /\ call[c].phase \in {"answered", "rejected"}
              /\ calls[c] = [call[c] EXCEPT !.phase = "over"]
           \/ /\ call[c].phase \in {"answered", "rejected"}
              /\ calls[c] = [call[c] EXCEPT !.phase = "closing"],
         CloseNow(calls), negotiated' \in Encodings,
         UNCHANGED <<encoding, spawns, alive, initialized, torn, asked>>
  PROVE  LspIInv'
<1>1. /\ call' \in [Calls -> CallRecords]
      /\ pending' \in [Calls -> 0..MaxCalls]
      /\ asked' \in [Servers -> SUBSET Calls]
      /\ CallsNumbered' /\ CallsKept' /\ AskedKept'
  BY RejectedStep DEF CloseNow
<1>2. /\ child' \in 0..spawns' /\ state' \in {"disconnected", "starting", "ready", "failed"}
      /\ closing' \in BOOLEAN
  BY DEF CloseNow, LspIInv, CallTypes
<1>3. CallTypes'
  BY <1>1, <1>2 DEF LspIInv, CallTypes, CallRecords
<1> QED
  BY <1>1, <1>3 DEF LspIInv

\* One call is settled, and the rest keeps its type.
LEMMA SettledInv ==
  ASSUME LspIInv, NEW c \in Calls, call[c].phase # "none",
         NEW phase \in {"answered", "rejected", "closing", "over"},
         NEW from \in {call[c].from, call[c].server},
         call' = [call EXCEPT ![c] = [call[c] EXCEPT !.phase = phase, !.from = from]],
         pending' = [pending EXCEPT ![c] = 0],
         asked' \in [Servers -> SUBSET Calls],
         \A s \in Servers : asked'[s] \subseteq asked[s],
         negotiated' \in Encodings, initialized' \in BOOLEAN, torn' \in 0..spawns,
         state' \in {"disconnected", "starting", "ready", "failed"},
         UNCHANGED <<encoding, spawns, child, alive, closing>>
  PROVE  LspIInv'
<1>1. /\ call' \in [Calls -> CallRecords]
      /\ pending' \in [Calls -> 0..MaxCalls]
      /\ CallsNumbered' /\ CallsKept' /\ AskedKept'
  BY SettledStep
<1>2. CallTypes'
  BY <1>1 DEF LspIInv, CallTypes, CallRecords
<1> QED
  BY <1>1, <1>2 DEF LspIInv

\* A call that does not wait has nothing in the table.
LEMMA NotPending ==
  ASSUME LspIInv, NEW c \in Calls, call[c].phase # "waiting"
  PROVE  pending = [pending EXCEPT ![c] = 0]
<1>1. pending[c] = 0
  BY DEF LspIInv, CallsKept
<1> QED
  BY <1>1 DEF LspIInv, CallTypes

\* Every step keeps the invariant.
LEMMA LspInvStep ==
  ASSUME LspIInv, [LspNext]_lspVars
  PROVE  LspIInv'
<1>t. /\ CallTypes /\ call \in [Calls -> CallRecords] /\ spawns \in Nat
      /\ Servers = 1..MaxSpawns /\ MaxSpawns \in Nat /\ MaxCalls \in Nat
  BY DEF LspIInv, CallTypes, CallRecords, Servers
<1>r. \A c \in Calls : call[c] \in CallRecords
  BY <1>t
<1>s. ASSUME UNCHANGED <<encoding, state, spawns, child, alive, closing, initialized, negotiated,
                         call, pending, asked>>, torn' \in 0..spawns
      PROVE  LspIInv'
  <2>1. CallsNumbered' /\ CallsKept' /\ AskedKept'
    BY <1>s, SameStep
  <2>2. CallTypes'
    BY <1>s, <1>t DEF CallTypes
  <2> QED
    BY <2>1, <2>2 DEF LspIInv
<1>1. CASE LspStart
  <2>1. Request("initialize", spawns + 1) /\ spawns + 1 \in Servers
    BY <1>1, <1>t DEF LspStart
  <2>2. /\ call' \in [Calls -> CallRecords]
        /\ pending' \in [Calls -> 0..MaxCalls]
        /\ asked' \in [Servers -> SUBSET Calls]
        /\ CallsNumbered' /\ CallsKept' /\ AskedKept'
    BY <2>1, LspRequestStep
  <2>3. CallTypes'
    BY <1>1, <1>t, <2>2 DEF LspStart, CallTypes, CallRecords
  <2> QED
    BY <2>2, <2>3 DEF LspIInv
<1>2. ASSUME NEW c \in Calls, StartProceeds(c)
      PROVE  LspIInv'
  <2>1. call[c].phase \in {"answered", "rejected"}
    BY <1>2 DEF StartProceeds, Queued
  <2>2. negotiated' \in Encodings /\ UNCHANGED <<encoding, spawns, alive, torn, asked>>
    BY <1>2, <1>t DEF StartProceeds, CallTypes
  <2>3. CASE call[c].phase = "answered" /\ child \in alive
    <3>1. call' = [call EXCEPT ![c] = [call[c] EXCEPT !.phase = "over", !.from = call[c].from]]
      <4>1. [call[c] EXCEPT !.phase = "over"]
              = [call[c] EXCEPT !.phase = "over", !.from = call[c].from]
        BY <1>r DEF CallRecords
      <4> QED
        BY <1>2, <1>t, <2>3, <4>1 DEF StartProceeds
    <3>2. pending' = [pending EXCEPT ![c] = 0]
      BY <1>2, <2>3, NotPending DEF StartProceeds
    <3>3. initialized' \in BOOLEAN /\ state' = "ready" /\ UNCHANGED <<child, closing>>
      BY <1>2, <2>3 DEF StartProceeds
    <3>4. asked' \in [Servers -> SUBSET Calls] /\ torn' \in 0..spawns
      BY <1>t, <2>2 DEF CallTypes
    <3> QED
      BY <2>1, <2>2, <3>1, <3>2, <3>3, <3>4, SettledInv
  <2>4. CASE ~(call[c].phase = "answered" /\ child \in alive)
    <3> DEFINE calls == [call EXCEPT ![c].phase = "closing"]
    <3>1. CloseNow(calls) /\ UNCHANGED initialized
      BY <1>2, <2>4 DEF StartProceeds
    <3>2. [call[c] EXCEPT !.phase = "closing"] \in CallRecords
      BY <1>r DEF CallRecords
    <3>3. calls \in [Calls -> CallRecords]
      BY <1>t, <3>2
    <3>4. \A d \in Calls :
            \/ calls[d] = call[d]
            \/ /\ call[d].phase \in {"answered", "rejected"}
               /\ calls[d] = [call[d] EXCEPT !.phase = "closing"]
      BY <1>t, <2>1
    <3> HIDE DEF calls
    <3> QED
      BY <2>2, <3>1, <3>3, <3>4, CloseStep
  <2> QED
    BY <2>3, <2>4
<1>3. ASSUME NEW c \in Calls, StartFails(c)
      PROVE  LspIInv'
  <2>1. call' = [call EXCEPT ![c] = [call[c] EXCEPT !.phase = "over", !.from = call[c].from]]
    <3>1. [call[c] EXCEPT !.phase = "over"]
            = [call[c] EXCEPT !.phase = "over", !.from = call[c].from]
      BY <1>r DEF CallRecords
    <3> QED
      BY <1>3, <1>t, <3>1 DEF StartFails
  <2>2. /\ call[c].phase = "closing" /\ state' = "failed"
        /\ UNCHANGED <<encoding, spawns, child, alive, closing, initialized, negotiated, torn,
                       pending, asked>>
    BY <1>3 DEF StartFails
  <2>3. pending' = [pending EXCEPT ![c] = 0]
    BY <2>2, NotPending
  <2>4. /\ asked' \in [Servers -> SUBSET Calls] /\ torn' \in 0..spawns
        /\ initialized' \in BOOLEAN /\ negotiated' \in Encodings
    BY <1>t, <2>2 DEF CallTypes
  <2> QED
    BY <2>1, <2>2, <2>3, <2>4, SettledInv
<1>4. CASE Ask
  <2>1. child \in Servers
    BY <1>4, <1>t DEF Ask, CallTypes
  <2>2. Request("read", child) \/ Request("shutdown", child)
    BY <1>4 DEF Ask
  <2>3. /\ call' \in [Calls -> CallRecords]
        /\ pending' \in [Calls -> 0..MaxCalls]
        /\ asked' \in [Servers -> SUBSET Calls]
        /\ CallsNumbered' /\ CallsKept' /\ AskedKept'
    BY <2>1, <2>2, LspRequestStep
  <2>4. CallTypes'
    BY <1>4, <1>t, <2>3 DEF Ask, CallTypes, CallRecords
  <2> QED
    BY <2>3, <2>4 DEF LspIInv
<1>5. ASSUME NEW c \in Calls, ShutdownProceeds(c)
      PROVE  LspIInv'
  <2>1. call[c].phase \in {"answered", "rejected"}
    BY <1>5 DEF ShutdownProceeds, Queued
  <2>2. UNCHANGED <<encoding, spawns, alive, initialized, negotiated, torn, asked>>
    BY <1>5 DEF ShutdownProceeds
  <2>3. /\ asked' \in [Servers -> SUBSET Calls] /\ torn' \in 0..spawns
        /\ initialized' \in BOOLEAN /\ negotiated' \in Encodings
    BY <1>t, <2>2 DEF CallTypes
  <2>4. CASE child \in alive
    <3> DEFINE calls == [call EXCEPT ![c].phase = "over"]
    <3>1. CloseNow(calls)
      BY <1>5, <2>4 DEF ShutdownProceeds
    <3>2. [call[c] EXCEPT !.phase = "over"] \in CallRecords
      BY <1>r DEF CallRecords
    <3>3. calls \in [Calls -> CallRecords]
      BY <1>t, <3>2
    <3>4. \A d \in Calls :
            \/ calls[d] = call[d]
            \/ /\ call[d].phase \in {"answered", "rejected"}
               /\ calls[d] = [call[d] EXCEPT !.phase = "over"]
      BY <1>t, <2>1
    <3> HIDE DEF calls
    <3> QED
      BY <2>2, <2>3, <3>1, <3>3, <3>4, CloseStep
  <2>5. CASE child \notin alive
    <3>1. call' = [call EXCEPT ![c] = [call[c] EXCEPT !.phase = "over", !.from = call[c].from]]
      <4>1. [call[c] EXCEPT !.phase = "over"]
              = [call[c] EXCEPT !.phase = "over", !.from = call[c].from]
        BY <1>r DEF CallRecords
      <4> QED
        BY <1>5, <1>t, <2>5, <4>1 DEF ShutdownProceeds
    <3>2. pending' = [pending EXCEPT ![c] = 0]
      BY <1>5, <2>1, <2>5, NotPending DEF ShutdownProceeds
    <3>3. state' \in {"disconnected", "starting", "ready", "failed"} /\ UNCHANGED <<child, closing>>
      BY <1>5, <1>t, <2>5 DEF ShutdownProceeds, CallTypes
    <3> QED
      BY <2>1, <2>2, <2>3, <3>1, <3>2, <3>3, SettledInv
  <2> QED
    BY <2>4, <2>5
<1>6. CASE LspClose
  <2>1. /\ CloseNow(call)
        /\ UNCHANGED <<encoding, spawns, alive, initialized, negotiated, torn, asked>>
    BY <1>6 DEF LspClose
  <2>2. negotiated' \in Encodings
    BY <1>t, <2>1 DEF CallTypes
  <2> QED
    BY <1>t, <2>1, <2>2, CloseStep
<1>7. ASSUME NEW s \in Servers, Part(s)
      PROVE  LspIInv'
  <2>1. torn' \in 0..spawns
    BY <1>7, <1>t DEF Part, CallTypes
  <2> QED
    BY <1>7, <1>s, <2>1 DEF Part, others
<1>8. ASSUME NEW s \in Servers, NEW id \in Calls, Answer(s, id)
      PROVE  LspIInv'
  <2>1. /\ id \in asked[s] /\ asked' = [asked EXCEPT ![s] = @ \ {id}]
        /\ UNCHANGED <<encoding, state, spawns, child, alive, closing, initialized, negotiated>>
    BY <1>8 DEF Answer
  <2>2. asked' \in [Servers -> SUBSET Calls] /\ \A q \in Servers : asked'[q] \subseteq asked[q]
    BY <1>t, <2>1 DEF CallTypes
  <2>3. torn' \in 0..spawns
    BY <1>8, <1>t DEF Answer, CallTypes
  <2>4. call[id].phase # "none" /\ call[id].server = s
    BY <2>1 DEF LspIInv, AskedKept
  <2>5. initialized' \in BOOLEAN /\ negotiated' \in Encodings
        /\ state' \in {"disconnected", "starting", "ready", "failed"}
    BY <1>t, <2>1 DEF CallTypes
  <2>6. CASE pending[id] # 0 /\ ~UNCHANGED <<call, pending>>
    <3>1. pending[id] = id /\ pending' = [pending EXCEPT ![id] = 0]
      BY <1>8, <2>6 DEF Answer, LspIInv, CallsKept
    <3>2. PICK phase \in {"answered", "rejected"} :
            call' = [call EXCEPT ![pending[id]].phase = phase, ![pending[id]].from = s]
      BY <1>8, <2>6 DEF Answer
    <3>3. call' = [call EXCEPT ![id] = [call[id] EXCEPT !.phase = phase, !.from = s]]
      BY <1>t, <3>1, <3>2
    <3> QED
      BY <2>1, <2>2, <2>3, <2>4, <2>5, <3>1, <3>3, SettledInv
  <2>7. CASE ~(pending[id] # 0 /\ ~UNCHANGED <<call, pending>>)
    <3>1. UNCHANGED <<call, pending>>
      BY <1>8, <2>7 DEF Answer
    <3>2. \A c \in Calls : IF call[c].phase = "none" THEN call'[c] = call[c]
                               ELSE call'[c].phase # "none" /\ call'[c].server = call[c].server
      BY <3>1
    <3>3. \A c \in Calls : /\ pending'[c] \in {0, c}
                           /\ call'[c].phase = "waiting" <=> pending'[c] = c
                           /\ call'[c].from \in {0, call'[c].server}
      BY <3>1 DEF LspIInv, CallsKept
    <3>4. call' \in [Calls -> CallRecords] /\ pending' \in [Calls -> 0..MaxCalls]
      BY <1>t, <3>1 DEF CallTypes
    <3>5. CallsNumbered' /\ CallsKept' /\ AskedKept'
      BY <2>2, <3>2, <3>3, <3>4, NoneMade
    <3>6. CallTypes'
      BY <1>t, <2>1, <2>2, <2>3, <3>1 DEF CallTypes
    <3> QED
      BY <3>5, <3>6 DEF LspIInv
  <2> QED
    BY <2>6, <2>7
<1>9. ASSUME NEW s \in Servers, NEW items \in Edits, ApplyEdit(s, items)
      PROVE  LspIInv'
  <2>1. torn' \in 0..spawns
    BY <1>9, <1>t DEF ApplyEdit
  <2> QED
    BY <1>9, <1>s, <2>1 DEF ApplyEdit, others
<1>10. CASE CollectItem \/ EditAnswered
  <2>1. torn' \in 0..spawns
    BY <1>10, <1>t DEF CollectItem, EditAnswered, CallTypes
  <2> QED
    BY <1>10, <1>s, <2>1 DEF CollectItem, EditAnswered, others
<1>11. ASSUME NEW s \in Servers, FailFrame(s)
       PROVE  LspIInv'
  <2>1. /\ call' = Rejected(call) /\ pending' = NothingPending /\ asked' = asked
        /\ torn' = 0 /\ state' = "failed"
        /\ UNCHANGED <<encoding, spawns, child, alive, closing, initialized, negotiated>>
    BY <1>11 DEF FailFrame
  <2>2. /\ call' \in [Calls -> CallRecords]
        /\ pending' \in [Calls -> 0..MaxCalls]
        /\ asked' \in [Servers -> SUBSET Calls]
        /\ CallsNumbered' /\ CallsKept' /\ AskedKept'
    BY <1>t, <2>1, RejectedStep
  <2>3. CallTypes'
    BY <1>t, <2>1, <2>2 DEF CallTypes, CallRecords
  <2> QED
    BY <2>2, <2>3 DEF LspIInv
<1>12. ASSUME NEW s \in Servers, Exit(s)
       PROVE  LspIInv'
  <2>1. /\ alive' = alive \ {s} /\ asked' = asked
        /\ UNCHANGED <<encoding, spawns, child, closing, initialized, negotiated, torn>>
    BY <1>12 DEF Exit
  <2>2. CASE closing
    <3>1. UNCHANGED <<state, call, pending>>
      BY <1>12, <2>2 DEF Exit
    <3>2. CallsNumbered' /\ CallsKept' /\ AskedKept'
      BY <2>1, <3>1, SameStep
    <3>3. CallTypes'
      BY <1>t, <2>1, <3>1 DEF CallTypes
    <3> QED
      BY <3>2, <3>3 DEF LspIInv
  <2>3. CASE ~closing
    <3>1. state' = "failed" /\ call' = Rejected(call) /\ pending' = NothingPending
      BY <1>12, <2>3 DEF Exit
    <3>2. /\ call' \in [Calls -> CallRecords]
          /\ pending' \in [Calls -> 0..MaxCalls]
          /\ asked' \in [Servers -> SUBSET Calls]
          /\ CallsNumbered' /\ CallsKept' /\ AskedKept'
      BY <1>t, <2>1, <3>1, RejectedStep
    <3>3. CallTypes'
      BY <1>t, <2>1, <3>1, <3>2 DEF CallTypes, CallRecords
    <3> QED
      BY <3>2, <3>3 DEF LspIInv
  <2> QED
    BY <2>2, <2>3
<1>13. ASSUME NEW id \in Calls, LspTimeout(id)
       PROVE  LspIInv'
  <2>1. pending[id] = id /\ pending' = [pending EXCEPT ![id] = 0]
    BY <1>13 DEF LspTimeout, LspIInv, CallsKept
  <2>2. call[id].phase = "waiting"
    BY <2>1 DEF LspIInv, CallsKept
  <2>3. call' = [call EXCEPT ![id] = [call[id] EXCEPT !.phase = "rejected", !.from = call[id].from]]
    <3>1. [call[id] EXCEPT !.phase = "rejected"]
            = [call[id] EXCEPT !.phase = "rejected", !.from = call[id].from]
      BY <1>r DEF CallRecords
    <3> QED
      BY <1>13, <1>t, <2>1, <3>1 DEF LspTimeout
  <2>4. UNCHANGED <<encoding, state, spawns, child, alive, closing, initialized, negotiated, torn,
                    asked>>
    BY <1>13 DEF LspTimeout
  <2>5. /\ asked' \in [Servers -> SUBSET Calls] /\ torn' \in 0..spawns
        /\ initialized' \in BOOLEAN /\ negotiated' \in Encodings
        /\ state' \in {"disconnected", "starting", "ready", "failed"}
    BY <1>t, <2>4 DEF CallTypes
  <2> QED
    BY <2>1, <2>2, <2>3, <2>4, <2>5, SettledInv
<1>14. ASSUME NEW mine, NEW theirs, Tell(mine, theirs)
       PROVE  LspIInv'
  <2>1. torn' \in 0..spawns
    BY <1>14, <1>t DEF Tell, CallTypes
  <2> QED
    BY <1>14, <1>s, <2>1 DEF Tell, others
<1>15. ASSUME NEW text \in Texts, didOpen(text)
       PROVE  LspIInv'
  BY <1>15, <1>14 DEF didOpen
<1>16. ASSUME NEW version \in 1..MaxVersion, NEW text \in Texts, didReplace(text, version)
       PROVE  LspIInv'
  BY <1>16, <1>14 DEF didReplace, Changed
<1>17. ASSUME NEW version \in 1..MaxVersion, NEW changes \in Changes, didChange(changes, version)
       PROVE  LspIInv'
  BY <1>17, <1>14 DEF didChange, Changed
<1>18. CASE didClose
  BY <1>18, <1>14 DEF didClose
<1>19. CASE UNCHANGED lspVars
  <2>1. torn' \in 0..spawns
    BY <1>19, <1>t DEF lspVars, CallTypes
  <2> QED
    BY <1>19, <1>s, <2>1 DEF lspVars
<1> QED
  BY <1>1, <1>2, <1>3, <1>4, <1>5, <1>6, <1>7, <1>8, <1>9, <1>10, <1>11, <1>12, <1>13, <1>15,
     <1>16, <1>17, <1>18, <1>19 DEF LspNext

\* IInv is an invariant.
THEOREM LspInvariance == LspSpec => []LspIInv
<1> QED
  BY LspInitIInv, LspInvStep, PTL DEF LspSpec

\* CallsMatch: every answer goes to the call it was given for, and no call
\* that waits is forgotten.
THEOREM CallsMatchTheorem == LspSpec => []CallsMatch
<1>1. LspIInv => CallsMatch
  BY PendingCalls DEF LspIInv, CallsKept, CallsMatch
<1> QED
  BY LspInvariance, <1>1, PTL

\* Every step keeps what both sides have of the document.
LEMMA DocumentStep ==
  ASSUME NEW T, ClosedUnderChanges(T), PlacesAgree(T), LspIInv, DocumentKept(T),
         [LspNext]_lspVars
  PROVE  DocumentKept(T)'
<1>t. alive \subseteq 1..spawns /\ spawns \in Nat /\ encoding \in Encodings
  BY DEF LspIInv, CallTypes
<1>a. child \in alive => child # 0
  BY <1>t
<1>s. ASSUME UNCHANGED <<encoding, child, initialized, negotiated, documents>>
      PROVE  DocumentKept(T)'
  BY <1>s DEF DocumentKept, documents
<1>c. ASSUME NEW calls, CloseNow(calls), negotiated' \in {negotiated, encoding},
             UNCHANGED <<encoding, initialized, copy>>
      PROVE  DocumentKept(T)'
  BY <1>c DEF CloseNow, DocumentKept
<1>o. ASSUME NEW text \in T, NEW version, CanSend, doc' = [version |-> version, text |-> text],
             copy' \in {Closed, doc'}, UNCHANGED others
      PROVE  DocumentKept(T)'
  BY <1>o DEF CanSend, DocumentKept, others
<1>1. CASE LspStart
  BY <1>1 DEF LspStart, DocumentKept
<1>2. ASSUME NEW c \in Calls, StartProceeds(c)
      PROVE  DocumentKept(T)'
  <2>1. CASE call[c].phase = "answered" /\ child \in alive
    BY <1>2, <2>1 DEF StartProceeds, DocumentKept
  <2>2. CASE ~(call[c].phase = "answered" /\ child \in alive)
    BY <1>2, <2>2, <1>c DEF StartProceeds
  <2> QED
    BY <2>1, <2>2
<1>3. ASSUME NEW c \in Calls, StartFails(c) \/ LspTimeout(c)
      PROVE  DocumentKept(T)'
  BY <1>3, <1>s DEF StartFails, LspTimeout
<1>4. CASE Ask
  BY <1>4, <1>s DEF Ask
<1>5. ASSUME NEW c \in Calls, ShutdownProceeds(c)
      PROVE  DocumentKept(T)'
  BY <1>5, <1>s, <1>c DEF ShutdownProceeds, documents
<1>6. CASE LspClose
  BY <1>6, <1>c DEF LspClose
<1>7. ASSUME NEW s \in Servers, Part(s) \/ FailFrame(s) \/ Exit(s)
      PROVE  DocumentKept(T)'
  BY <1>7, <1>s DEF Part, FailFrame, Exit, others
<1>8. ASSUME NEW s \in Servers, NEW id \in Calls, Answer(s, id)
      PROVE  DocumentKept(T)'
  BY <1>8, <1>s DEF Answer
<1>9. ASSUME NEW s \in Servers, NEW items \in Edits, ApplyEdit(s, items)
      PROVE  DocumentKept(T)'
  BY <1>9, <1>s DEF ApplyEdit, others
<1>10. CASE CollectItem \/ EditAnswered
  BY <1>10, <1>s DEF CollectItem, EditAnswered, others
<1>11. ASSUME NEW text \in Texts, didOpen(text)
       PROVE  DocumentKept(T)'
  BY <1>11, <1>o DEF didOpen, Tell, ClosedUnderChanges
<1>12. ASSUME NEW version \in 1..MaxVersion, NEW text \in Texts, didReplace(text, version)
       PROVE  DocumentKept(T)'
  BY <1>12, <1>o DEF didReplace, Changed, Tell, ClosedUnderChanges
<1>13. ASSUME NEW version \in 1..MaxVersion, NEW changes \in Changes, didChange(changes, version)
       PROVE  DocumentKept(T)'
  <2> DEFINE text == ChangeText(doc.text, changes, negotiated)
             theirs == ServerText(copy.text, changes, encoding)
  <2>1. /\ CanSend /\ doc # Closed /\ text # Invalid /\ Bytes(text) <= MaxDocument
        /\ doc' = [version |-> version, text |-> text]
        /\ copy' = IF copy = Closed THEN Closed ELSE [version |-> version, text |-> theirs]
        /\ UNCHANGED others
    BY <1>13 DEF didChange, Changed, Tell
  <2>2. initialized /\ negotiated = encoding /\ child # 0 /\ doc.text \in T
    BY <1>a, <2>1 DEF CanSend, DocumentKept
  <2>3. text \in T /\ text = ServerText(doc.text, changes, encoding)
    <3>1. text # Invalid /\ Bytes(text) <= MaxDocument => text \in T
      BY <1>t, <2>2 DEF ClosedUnderChanges
    <3>2. text \in {Invalid, ServerText(doc.text, changes, encoding)}
      BY <1>t, <2>2 DEF PlacesAgree
    <3> QED
      BY <2>1, <3>1, <3>2
  <2>4. copy # Closed => theirs = text
    BY <2>2, <2>3 DEF DocumentKept
  <2>5. copy' \in {Closed, doc'}
    BY <2>1, <2>4
  <2> HIDE DEF text, theirs
  <2> QED
    BY <1>o, <2>1, <2>3, <2>5
<1>14. CASE didClose
  BY <1>14 DEF didClose, Tell, DocumentKept, others
<1>15. CASE UNCHANGED lspVars
  BY <1>15, <1>s DEF lspVars, documents
<1> QED
  BY <1>1, <1>2, <1>3, <1>4, <1>5, <1>6, <1>7, <1>8, <1>9, <1>10, <1>11, <1>12, <1>13, <1>14,
     <1>15 DEF LspNext

\* InSync, whatever the servers, calls and frames do: the client and a running
\* server have the same document if each change by itself means the same to
\* both.  That it does is a fact about texts and not about the protocol.
THEOREM InSyncTheorem ==
  ASSUME NEW T, ClosedUnderChanges(T), PlacesAgree(T)
  PROVE  LspSpec => []InSync
<1>1. LspInit => DocumentKept(T)
  BY DEF LspInit, DocumentKept
<1>2. LspIInv /\ DocumentKept(T) /\ [LspNext]_lspVars => DocumentKept(T)'
  BY DocumentStep
<1>3. LspIInv /\ DocumentKept(T) => InSync
  BY DEF LspIInv, CallTypes, DocumentKept, InSync
<1> QED
  BY <1>1, <1>2, <1>3, LspInvariance, PTL DEF LspSpec

\* A document is closed or has a version and a size that are allowed.
DocumentTypes ==
  \A d \in {doc, copy} :
    d = Closed \/ (d.version \in 0..MaxVersion /\ Bytes(d.text) <= MaxDocument)

\* Every step keeps the documents, on both sides, within their bounds.
LEMMA DocumentTypesStep ==
  ASSUME NEW T, PlacesAgree(T), LspIInv, DocumentKept(T),
         DocumentTypes, [LspNext]_lspVars
  PROVE  DocumentTypes'
<1>t. MaxVersion \in Nat /\ alive \subseteq 1..spawns /\ spawns \in Nat /\ encoding \in Encodings
  BY DEF LspIInv, CallTypes
<1>s. ASSUME doc' \in {doc, Closed}, copy' \in {copy, doc', Closed}
      PROVE  DocumentTypes'
  BY <1>s DEF DocumentTypes
<1>o. ASSUME NEW text, NEW version \in 0..MaxVersion, Bytes(text) <= MaxDocument,
             doc' = [version |-> version, text |-> text], copy' \in {Closed, doc'}
      PROVE  DocumentTypes'
  BY <1>o DEF DocumentTypes
<1>n. ASSUME NEW version, version \in doc.version + 1..MaxVersion, doc # Closed
      PROVE  version \in 0..MaxVersion
  <2>1. doc.version \in 0..MaxVersion
    BY <1>n DEF DocumentTypes
  <2> QED
    BY <1>n, <1>t, <2>1
<1>1. CASE LspStart
  BY <1>1, <1>s DEF LspStart
<1>2. ASSUME NEW c \in Calls,
             \/ StartProceeds(c) \/ StartFails(c) \/ ShutdownProceeds(c)
             \/ LspTimeout(c)
      PROVE  DocumentTypes'
  BY <1>2, <1>s DEF StartProceeds, StartFails, ShutdownProceeds, LspTimeout, CloseNow,
      documents
<1>3. CASE Ask \/ LspClose \/ CollectItem \/ EditAnswered
  BY <1>3, <1>s
  DEF Ask, LspClose, CloseNow, CollectItem, EditAnswered, others, documents
<1>4. ASSUME NEW s \in Servers,
             \/ Part(s) \/ FailFrame(s) \/ Exit(s)
             \/ \E id \in Calls : Answer(s, id)
             \/ \E items \in Edits : ApplyEdit(s, items)
      PROVE  DocumentTypes'
  BY <1>4, <1>s DEF Part, FailFrame, Exit, Answer, ApplyEdit, others, documents
<1>5. ASSUME NEW text \in Texts, didOpen(text)
      PROVE  DocumentTypes'
  BY <1>5, <1>t, <1>o DEF didOpen, Tell
<1>6. ASSUME NEW text \in Texts, NEW version \in 1..MaxVersion, didReplace(text, version)
      PROVE  DocumentTypes'
  BY <1>6, <1>n, <1>o DEF didReplace, Changed, Tell
<1>7. ASSUME NEW changes \in Changes, NEW version \in 1..MaxVersion, didChange(changes, version)
      PROVE  DocumentTypes'
  <2> DEFINE text == ChangeText(doc.text, changes, negotiated)
             theirs == ServerText(copy.text, changes, encoding)
  <2>1. /\ CanSend /\ doc # Closed /\ text # Invalid
        /\ version \in doc.version + 1..MaxVersion /\ Bytes(text) <= MaxDocument
        /\ doc' = [version |-> version, text |-> text]
        /\ copy' = IF copy = Closed THEN Closed
                   ELSE [version |-> version, text |-> theirs]
    BY <1>7 DEF didChange, Changed, Tell
  <2>2. initialized /\ negotiated = encoding /\ child # 0 /\ doc.text \in T
    BY <1>t, <2>1 DEF CanSend, DocumentKept
  <2>3. text = ServerText(doc.text, changes, encoding)
    BY <1>t, <2>1, <2>2 DEF PlacesAgree
  <2>4. copy # Closed => theirs = text
    BY <2>2, <2>3 DEF DocumentKept
  <2>5. copy' \in {Closed, doc'}
    BY <2>1, <2>4
  <2>6. version \in 0..MaxVersion
    BY <1>n, <2>1
  <2> HIDE DEF text, theirs
  <2> QED
    BY <1>o, <2>1, <2>5, <2>6
<1>8. CASE didClose
  BY <1>8, <1>s DEF didClose, Tell
<1>9. CASE UNCHANGED lspVars
  BY <1>9, <1>s DEF lspVars, documents
<1> QED
  BY <1>1, <1>2, <1>3, <1>4, <1>5, <1>6, <1>7, <1>8, <1>9 DEF LspNext

\* Every variable of LspClient keeps to its type, on such texts: no document gets a
\* size or a version that is not allowed, on either side.
THEOREM LspTypesTheorem ==
  ASSUME NEW T, ClosedUnderChanges(T), PlacesAgree(T)
  PROVE  LspSpec => []LspTypeOK
<1>1. LspInit => DocumentKept(T) /\ DocumentTypes
  BY DEF LspInit, DocumentKept, DocumentTypes
<1>2. LspIInv /\ DocumentKept(T) /\ DocumentTypes /\ [LspNext]_lspVars
        => DocumentKept(T)' /\ DocumentTypes'
  BY DocumentStep, DocumentTypesStep
<1>3. LspIInv /\ DocumentTypes => LspTypeOK
  BY DEF LspIInv, LspTypeOK, DocumentTypes
<1> QED
  BY <1>1, <1>2, <1>3, LspInvariance, PTL DEF LspSpec

-----------------------------------------------------------------------------
(***************************************************************************)
(* What the client makes of a workspace edit, for any edits: EditKept says *)
(* after every item that the proposal says what the items so far do.       *)
(***************************************************************************)
HIDE LspAssumption DEF LspAssumption

\* A number above all others goes to the end of those that ascend.
LEMMA AscendingAppend ==
  ASSUME NEW s \in Seq(Nat), NEW set, Ascending(s, set), NEW x \in Nat, \A y \in set : y < x
  PROVE  Ascending(Append(s, x), set \cup {x})
<1> DEFINE t == Append(s, x)
<1>1. /\ Len(s) \in Nat /\ Len(t) = Len(s) + 1 /\ t[Len(s) + 1] = x
      /\ \A k \in 1..Len(s) : t[k] = s[k] /\ s[k] \in Nat
  OBVIOUS
<1>2. \A k \in 1..Len(t) : k \in 1..Len(s) \/ k = Len(s) + 1
  BY <1>1
<1>3. 1..Len(s) \subseteq 1..Len(t) /\ Len(s) + 1 \in 1..Len(t)
  BY <1>1
<1> HIDE DEF t
<1>4. {t[k] : k \in 1..Len(t)} = set \cup {x}
  BY <1>1, <1>2, <1>3 DEF Ascending
<1>5. ASSUME NEW k \in 1..Len(t), NEW l \in 1..Len(t), k < l
      PROVE  t[k] < t[l]
  <2>1. k \in 1..Len(s)
    BY <1>1, <1>5
  <2>2. CASE l \in 1..Len(s)
    BY <1>1, <1>5, <2>1, <2>2 DEF Ascending
  <2>3. CASE l = Len(s) + 1
    BY <1>1, <2>1, <2>3 DEF Ascending
  <2> QED
    BY <1>2, <2>2, <2>3
<1> QED
  BY <1>4, <1>5 DEF Ascending, t

\* The first of numbers that ascend is the least.
LEMMA AscendingFirst ==
  ASSUME NEW s \in Seq(Nat), s # <<>>, NEW set, Ascending(s, set)
  PROVE  /\ s[1] \in set /\ s[1] \in Nat
         /\ \A y \in set : y \in Nat /\ s[1] <= y
<1>1. Len(s) \in Nat /\ 1 \in 1..Len(s) /\ \A k \in 1..Len(s) : s[k] \in Nat
  OBVIOUS
<1>2. \A k \in 1..Len(s) : s[1] <= s[k]
  <2> SUFFICES ASSUME NEW k \in 1..Len(s), k # 1
               PROVE  s[1] < s[k]
    BY <1>1
  <2> QED
    BY <1>1 DEF Ascending
<1> QED
  BY <1>1, <1>2 DEF Ascending

\* The parts of a proposal.
LEMMA ProposalParts ==
  ASSUME NEW proposal \in Proposals
  PROVE  /\ proposal.operations \in Seq(Nat) /\ proposal.files \in Seq(FileRecords)
         /\ Len(proposal.files) \in Nat
         /\ \A f \in 1..Len(proposal.files) :
              proposal.files[f] \in FileRecords /\ proposal.files[f].edits \in Seq(Nat)
<1>1. proposal.operations \in Seq(Nat) /\ proposal.files \in Seq(FileRecords)
  BY DEF Proposals
<1>2. /\ Len(proposal.files) \in Nat
      /\ \A f \in 1..Len(proposal.files) : proposal.files[f] \in FileRecords
  BY <1>1
<1> QED
  BY <1>1, <1>2 DEF FileRecords

\* Of a document a proposal has one file.
LEMMA OneFile ==
  ASSUME NEW proposal \in Proposals, NEW items, NEW n \in Nat,
         \A f \in 1..Len(proposal.files) : ExactFile(proposal.files[f], items, n),
         \A f, g \in 1..Len(proposal.files) :
           f < g => proposal.files[f].edits[1] < proposal.files[g].edits[1],
         NEW f \in 1..Len(proposal.files), NEW g \in 1..Len(proposal.files),
         proposal.files[f].uri = proposal.files[g].uri
  PROVE  f = g
<1> DEFINE a == proposal.files[f].edits
           b == proposal.files[g].edits
           set == {i \in TextEdits(items, n) : items[i].uris = {proposal.files[f].uri}}
<1>1. a \in Seq(Nat) /\ b \in Seq(Nat) /\ f \in Nat /\ g \in Nat
  BY ProposalParts
<1>2. a # <<>> /\ b # <<>> /\ Ascending(a, set) /\ Ascending(b, set)
  BY DEF ExactFile
<1> HIDE DEF a, b, set
<1>3. a[1] \in Nat /\ b[1] \in Nat /\ a[1] <= b[1] /\ b[1] <= a[1]
  BY <1>1, <1>2, AscendingFirst
<1>4. (f < g => a[1] < b[1]) /\ (g < f => b[1] < a[1])
  BY DEF a, b
<1> QED
  BY <1>1, <1>3, <1>4

\* The edits of the document `uri` among the first n items.
EditsOf(items, n, uri) == {i \in TextEdits(items, n) : items[i].uris = {uri}}

\* What an item adds to the first n.
LEMMA NextItem ==
  ASSUME NEW items \in Edits, NEW n \in Nat, n < Len(items)
  PROVE  /\ items[n + 1] \in Items
         /\ 1..n + 1 = 1..n \cup {n + 1} /\ n + 1 \notin 1..n
         /\ TextEdits(items, n) \subseteq 1..n
         /\ TextEdits(items, n + 1) =
              TextEdits(items, n) \cup (IF items[n + 1].kind = "edit" THEN {n + 1} ELSE {})
<1>1. items \in Seq(Items) /\ n + 1 \in 1..Len(items)
  <2>1. items \in Seq(Items)
    BY EditsAssumption DEF EditsAssumption
  <2> QED
    BY <2>1
<1>2. items[n + 1] \in Items
  BY <1>1
<1>3. 1..n + 1 = 1..n \cup {n + 1} /\ n + 1 \notin 1..n
  OBVIOUS
<1> QED
  BY <1>2, <1>3 DEF TextEdits

\* An item that may not be accepted makes the edit invalid.
LEMMA UnacceptableItem ==
  ASSUME NEW items \in Edits, NEW n \in Nat, n < Len(items), NEW proposal \in Proposals,
         proposal.valid, Exact(proposal, items, n), ~Acceptable(items[n + 1])
  PROVE  /\ AddItem(proposal, items, n + 1) \in Proposals
         /\ Exact(AddItem(proposal, items, n + 1), items, n + 1)
<1>1. AddItem(proposal, items, n + 1) = [proposal EXCEPT !.valid = FALSE]
  BY DEF AddItem
<1>2. /\ [proposal EXCEPT !.valid = FALSE] \in Proposals
      /\ ~[proposal EXCEPT !.valid = FALSE].valid
  BY DEF Proposals
<1>3. ~Sound(items, n + 1)
  BY DEF Sound
<1> QED
  BY <1>1, <1>2, <1>3 DEF Exact

\* A file operation is added after those before it.
LEMMA OperationItem ==
  ASSUME NEW items \in Edits, NEW n \in Nat, n < Len(items), NEW proposal \in Proposals,
         proposal.valid, Exact(proposal, items, n), Acceptable(items[n + 1]),
         items[n + 1].kind # "edit"
  PROVE  /\ AddItem(proposal, items, n + 1) \in Proposals
         /\ Exact(AddItem(proposal, items, n + 1), items, n + 1)
<1> DEFINE i == n + 1
           T == TextEdits(items, n)
           operations == Append(proposal.operations, i)
           next == [proposal EXCEPT !.operations = operations]
<1>1. AddItem(proposal, items, i) = next
  BY DEF AddItem, Proposals
<1>2. proposal.operations \in Seq(Nat) /\ operations \in Seq(Nat) /\ i \in Nat
  BY ProposalParts
<1>3. /\ next \in Proposals /\ next.valid /\ next.operations = operations
      /\ next.files = proposal.files
  BY <1>2 DEF Proposals
<1>4. TextEdits(items, i) = T /\ T \subseteq 1..n /\ 1..i = 1..n \cup {i} /\ i \notin 1..n
  <2>1. TextEdits(items, i) = T \cup (IF items[i].kind = "edit" THEN {i} ELSE {})
    BY NextItem
  <2>2. T \subseteq 1..n /\ 1..i = 1..n \cup {i} /\ i \notin 1..n
    BY NextItem
  <2> QED
    BY <2>1, <2>2
<1>5. Sound(items, i)
  BY <1>4 DEF Exact, Sound
<1>6. Ascending(operations, 1..i \ TextEdits(items, i))
  <2>1. 1..i \ TextEdits(items, i) = (1..n \ T) \cup {i}
    BY <1>4
  <2>2. Ascending(proposal.operations, 1..n \ T)
    BY DEF Exact
  <2>3. \A y \in 1..n \ T : y < i
    OBVIOUS
  <2> HIDE DEF i, T
  <2> QED
    BY <1>2, <2>1, <2>2, <2>3, AscendingAppend
<1>7. \A f \in 1..Len(proposal.files) : ExactFile(proposal.files[f], items, i)
  BY <1>4 DEF Exact, ExactFile
<1> HIDE DEF i, T, operations, next
<1>8. Exact(next, items, i)
  BY <1>3, <1>4, <1>5, <1>6, <1>7 DEF Exact, T
<1> QED
  BY <1>1, <1>3, <1>8 DEF i

\* The first edit of a document makes a file of its own, after the others.
LEMMA NewFileItem ==
  ASSUME NEW items \in Edits, NEW n \in Nat, n < Len(items), NEW proposal \in Proposals,
         proposal.valid, Exact(proposal, items, n), Acceptable(items[n + 1]),
         items[n + 1].kind = "edit",
         \A f \in 1..Len(proposal.files) : proposal.files[f].uri \notin items[n + 1].uris
  PROVE  /\ AddItem(proposal, items, n + 1) \in Proposals
         /\ Exact(AddItem(proposal, items, n + 1), items, n + 1)
<1> DEFINE i == n + 1
           T == TextEdits(items, n)
           files == proposal.files
<1>1. /\ items[i] \in Items
      /\ 1..i = 1..n \cup {i} /\ i \notin 1..n /\ T \subseteq 1..n
      /\ TextEdits(items, i) = T \cup {i}
  BY NextItem
<1>2. PICK u \in items[i].uris : items[i].uris = {u}
  BY <1>1, EditsAssumption DEF EditsAssumption
<1>3. (CHOOSE x \in items[i].uris : TRUE) = u
  BY <1>2
<1> DEFINE file == [uri |-> u, version |-> items[i].version, edits |-> <<i>>]
           next == [proposal EXCEPT !.files = Append(files, file)]
<1>4. AddItem(proposal, items, i) = next
  <2>1. {f \in 1..Len(files) : files[f].uri \in items[i].uris} = {}
    OBVIOUS
  <2> HIDE DEF i
  <2> QED
    BY <1>3, <2>1 DEF AddItem, i
<1>5. files \in Seq(FileRecords) /\ file \in FileRecords
  <2>1. u \in UNION {item.uris : item \in Items}
    BY <1>1, <1>2
  <2>2. items[i].version \in {item.version : item \in Items}
    BY <1>1
  <2>3. <<i>> \in Seq(Nat)
    OBVIOUS
  <2> QED
    BY <2>1, <2>2, <2>3, ProposalParts DEF FileRecords
<1>6. /\ next \in Proposals /\ next.valid /\ next.operations = proposal.operations
      /\ next.files = Append(files, file)
  <2> HIDE DEF file
  <2>1. Append(files, file) \in Seq(FileRecords)
    BY <1>5
  <2> QED
    BY <2>1 DEF Proposals
<1>7. /\ Len(files) \in Nat /\ Len(next.files) = Len(files) + 1
      /\ \A f \in 1..Len(files) : next.files[f] = files[f]
      /\ next.files[Len(files) + 1] = file
  <2> HIDE DEF file, next, files
  <2> QED
    BY <1>5, <1>6
<1>8. \A f \in 1..Len(next.files) : f \in 1..Len(files) \/ f = Len(files) + 1
  <2> HIDE DEF next, files
  <2> QED
    BY <1>7
<1>9. /\ \A f \in 1..Len(files) : ExactFile(files[f], items, n) /\ files[f].edits \in Seq(Nat)
      /\ \A f, g \in 1..Len(files) : f < g => files[f].edits[1] < files[g].edits[1]
      /\ \A k \in T : \E f \in 1..Len(files) : items[k].uris = {files[f].uri}
      /\ Ascending(proposal.operations, 1..n \ T)
      /\ Sound(items, n)
  BY ProposalParts DEF Exact
<1>10. \A k \in T : items[k].uris # {u}
  <2> SUFFICES ASSUME NEW k \in T, items[k].uris = {u}
               PROVE  FALSE
    OBVIOUS
  <2>1. PICK f \in 1..Len(files) : items[k].uris = {files[f].uri}
    BY <1>9
  <2>2. files[f].uri = u
    BY <2>1
  <2> QED
    BY <1>2, <2>2
<1>11. Sound(items, i)
  <2>1. \A k \in 1..i : Acceptable(items[k])
    BY <1>1, <1>9 DEF Sound
  <2>2. ASSUME NEW k \in TextEdits(items, i), NEW l \in TextEdits(items, i),
               items[k].uris = items[l].uris
        PROVE  \/ items[k].version = items[l].version
               \/ NoVersion \in {items[k].version, items[l].version}
    <3>1. CASE k \in T /\ l \in T
      BY <1>9, <2>2, <3>1 DEF Sound
    <3>2. CASE k = i \/ l = i
      <4>1. k = l
        BY <1>1, <1>2, <1>10, <2>2, <3>2
      <4> QED
        BY <4>1
    <3> QED
      BY <1>1, <3>1, <3>2
  <2> QED
    BY <1>9, <2>1, <2>2 DEF Sound
<1>12. ASSUME NEW f \in 1..Len(files)
       PROVE  ExactFile(files[f], items, i)
  <2>1. files[f].uri # u
    BY <1>2
  <2>2. \A k \in TextEdits(items, i) : items[k].uris = {files[f].uri} => k \in T
    BY <1>1, <1>2, <2>1
  <2>3. {k \in TextEdits(items, i) : items[k].uris = {files[f].uri}}
          = {k \in T : items[k].uris = {files[f].uri}}
    BY <1>1, <2>2
  <2>4. ExactFile(files[f], items, n)
    BY <1>9
  <2> QED
    BY <1>1, <2>2, <2>3, <2>4 DEF ExactFile
<1>13. ExactFile(file, items, i)
  <2>1. {k \in TextEdits(items, i) : items[k].uris = {u}} = {i}
    BY <1>1, <1>2, <1>10
  <2>2. Ascending(<<i>>, {i})
    BY DEF Ascending
  <2> QED
    BY <1>1, <1>2, <1>10, <2>1, <2>2 DEF ExactFile
<1>14. ASSUME NEW f \in 1..Len(next.files), NEW g \in 1..Len(next.files), f < g
       PROVE  next.files[f].edits[1] < next.files[g].edits[1]
  <2>1. f \in 1..Len(files)
    BY <1>7, <1>14
  <2>2. CASE g \in 1..Len(files)
    BY <1>7, <1>9, <1>14, <2>1, <2>2
  <2>3. CASE g = Len(files) + 1
    <3>1. files[f].edits[1] \in T
      <4>1. /\ files[f].edits \in Seq(Nat) /\ files[f].edits # <<>>
            /\ Ascending(files[f].edits, {k \in T : items[k].uris = {files[f].uri}})
        BY <1>9, <2>1 DEF ExactFile
      <4> QED
        BY <4>1, AscendingFirst
    <3>2. next.files[f].edits[1] \in 1..n
      BY <1>1, <1>7, <2>1, <3>1
    <3>3. next.files[g].edits[1] = i
      BY <1>7, <2>3
    <3> QED
      BY <3>2, <3>3
  <2> QED
    BY <1>8, <2>2, <2>3
<1>15. ASSUME NEW k \in TextEdits(items, i)
       PROVE  \E f \in 1..Len(next.files) : items[k].uris = {next.files[f].uri}
  <2>1. CASE k \in T
    <3>1. PICK f \in 1..Len(files) : items[k].uris = {files[f].uri}
      BY <1>9, <2>1
    <3>2. f \in 1..Len(next.files) /\ next.files[f] = files[f]
      BY <1>7
    <3> QED
      BY <3>1, <3>2
  <2>2. CASE k = i
    BY <1>2, <1>7, <2>2
  <2> QED
    BY <1>1, <2>1, <2>2
<1>16. 1..i \ TextEdits(items, i) = 1..n \ T
  BY <1>1
<1>17. \A f \in 1..Len(next.files) : ExactFile(next.files[f], items, i)
  BY <1>7, <1>8, <1>12, <1>13
<1> HIDE DEF next, file, files, i, T
<1>18. Exact(next, items, i)
  BY <1>6, <1>9, <1>11, <1>14, <1>15, <1>16, <1>17 DEF Exact
<1> QED
  BY <1>4, <1>6, <1>18 DEF i

\* An edit of a document that has a file is added to it, unless their versions
\* contradict each other.
LEMMA MergedItem ==
  ASSUME NEW items \in Edits, NEW n \in Nat, n < Len(items), NEW proposal \in Proposals,
         proposal.valid, Exact(proposal, items, n), Acceptable(items[n + 1]),
         items[n + 1].kind = "edit",
         \E f \in 1..Len(proposal.files) : proposal.files[f].uri \in items[n + 1].uris
  PROVE  /\ AddItem(proposal, items, n + 1) \in Proposals
         /\ Exact(AddItem(proposal, items, n + 1), items, n + 1)
<1> DEFINE i == n + 1
           T == TextEdits(items, n)
           files == proposal.files
           same == {f \in 1..Len(files) : files[f].uri \in items[i].uris}
           m == CHOOSE f \in same : TRUE
           version == Merged(files[m].version, items[i].version)
           file == WithEdit(files[m], version, i)
           next == [proposal EXCEPT !.files[m] = file]
<1>1. /\ items[i] \in Items /\ i \in Nat
      /\ 1..i = 1..n \cup {i} /\ i \notin 1..n /\ T \subseteq 1..n
      /\ TextEdits(items, i) = T \cup {i}
  BY NextItem
<1>2. m \in 1..Len(files) /\ files[m].uri \in items[i].uris
  OBVIOUS
<1> DEFINE u == files[m].uri
           edits == EditsOf(items, n, u)
<1>3. items[i].uris = {u} /\ items[i].version # Invalid
  BY SMTT(30), <1>1, <1>2, EditsAssumption DEF EditsAssumption
<1>4. /\ files \in Seq(FileRecords)
      /\ Len(files) \in Nat /\ \A f \in 1..Len(files) : files[f] \in FileRecords
  BY ProposalParts
<1>5. /\ \A f \in 1..Len(files) : ExactFile(files[f], items, n) /\ files[f].edits \in Seq(Nat)
      /\ \A f, g \in 1..Len(files) : f < g => files[f].edits[1] < files[g].edits[1]
      /\ \A k \in T : \E f \in 1..Len(files) : items[k].uris = {files[f].uri}
      /\ Ascending(proposal.operations, 1..n \ T)
      /\ Sound(items, n)
  BY ProposalParts DEF Exact
<1>6. /\ files[m].edits \in Seq(Nat) /\ files[m].edits # <<>>
      /\ Ascending(files[m].edits, edits) /\ edits \subseteq T
      /\ \A k \in edits : items[k].version \in {NoVersion, files[m].version}
      /\ files[m].version # NoVersion => \E k \in edits : items[k].version = files[m].version
  BY <1>2, <1>5 DEF ExactFile, EditsOf
<1>7. files[m].version # Invalid
  <2>1. CASE files[m].version = NoVersion
    BY SMTT(30), <2>1, EditsAssumption DEF EditsAssumption
  <2>2. CASE files[m].version # NoVersion
    <3>1. PICK k \in edits : items[k].version = files[m].version
      BY ZenonT(30), <1>6, <2>2
    <3>2. k \in 1..n /\ items[k].kind = "edit"
      BY <1>1, <1>6 DEF TextEdits
    <3>3. items \in Seq(Items)
      BY EditsAssumption DEF EditsAssumption
    <3>4. items[k] \in Items
      BY <3>2, <3>3
    <3> QED
      BY SMTT(30), <3>1, <3>2, <3>4, EditsAssumption DEF EditsAssumption
  <2> QED
    BY <2>1, <2>2
<1>8. AddItem(proposal, items, i) = IF version = Invalid THEN [proposal EXCEPT !.valid = FALSE]
                                    ELSE next
  <2>1. same # {}
    BY <1>2
  <2>2. Acceptable(items[i]) /\ items[i].kind = "edit"
    OBVIOUS
  <2> HIDE DEF i
  <2> QED
    BY <2>1, <2>2 DEF AddItem
<1>9. \A k \in T : items[k].uris = {u} <=> k \in edits
  BY DEF EditsOf
<1> HIDE DEF i, T, same, m, version, file, next, files, u, edits
<1>10. CASE version = Invalid
  <2>1. /\ items[i].version # NoVersion /\ items[i].version # files[m].version
        /\ files[m].version # NoVersion
    BY <1>3, <1>7, <1>10 DEF Merged, version
  <2>2. PICK k \in edits : items[k].version = files[m].version
    BY <1>6, <2>1
  <2>3. /\ k \in TextEdits(items, i) /\ i \in TextEdits(items, i)
        /\ items[k].uris = items[i].uris
    BY <1>1, <1>3, <1>6, <1>9
  <2>4. ~Sound(items, i)
    BY <2>1, <2>2, <2>3 DEF Sound
  <2>5. /\ [proposal EXCEPT !.valid = FALSE] \in Proposals
        /\ ~[proposal EXCEPT !.valid = FALSE].valid
    BY DEF Proposals
  <2> QED
    BY <1>8, <1>10, <2>4, <2>5 DEF Exact, i
<1>11. CASE version # Invalid
  <2>1. /\ version \in {files[m].version, items[i].version}
        /\ items[i].version \in {NoVersion, version}
        /\ files[m].version \in {NoVersion, version}
    BY <1>7, <1>11 DEF Merged, version
  <2>2. /\ file \in FileRecords /\ file.uri = u /\ file.version = version
        /\ file.edits = Append(files[m].edits, i)
    <3>1. files[m] \in FileRecords /\ Append(files[m].edits, i) \in Seq(Nat)
      BY <1>1, <1>2, <1>4, <1>6
    <3>2. version \in {item.version : item \in Items} \cup {NoVersion}
      BY <1>1, <2>1, <3>1 DEF FileRecords
    <3> QED
      BY <3>1, <3>2 DEF file, WithEdit, FileRecords, u
  <2>3. /\ next \in Proposals /\ next.valid /\ next.operations = proposal.operations
        /\ next.files = [files EXCEPT ![m] = file]
    <3>1. [files EXCEPT ![m] = file] \in Seq(FileRecords)
      BY <1>2, <1>4, <2>2
    <3>2. next = [proposal EXCEPT !.files = [files EXCEPT ![m] = file]]
      BY DEF next, Proposals, files
    <3> QED
      BY <3>1, <3>2 DEF Proposals, FileRecords
  <2>4. /\ Len(next.files) = Len(files)
        /\ next.files[m] = file
        /\ \A f \in 1..Len(files) : f # m => next.files[f] = files[f]
    BY <1>2, <1>4, <2>3
  <2>5. Sound(items, i)
    <3>1. \A k \in 1..i : Acceptable(items[k])
      BY <1>1, <1>5 DEF Sound, i
    <3>2. ASSUME NEW k \in TextEdits(items, i), NEW l \in TextEdits(items, i),
                 items[k].uris = items[l].uris
          PROVE  \/ items[k].version = items[l].version
                 \/ NoVersion \in {items[k].version, items[l].version}
      <4>1. CASE k \in T /\ l \in T
        BY <1>5, <3>2, <4>1 DEF Sound, T
      <4>2. CASE k \in T /\ l = i
        BY <1>3, <1>6, <1>9, <2>1, <3>2, <4>2
      <4>3. CASE k = i /\ l \in T
        BY <1>3, <1>6, <1>9, <2>1, <3>2, <4>3
      <4>4. CASE k = i /\ l = i
        BY <4>4
      <4> QED
        BY <1>1, <4>1, <4>2, <4>3, <4>4
    <3> QED
      BY <1>5, <3>1, <3>2 DEF Sound
  <2>6. ExactFile(file, items, i)
    <3>1. {k \in TextEdits(items, i) : items[k].uris = {u}} = edits \cup {i}
      BY <1>1, <1>3, <1>6, <1>9
    <3>2. \A y \in edits : y < i
      <4>1. \A y \in edits : y \in 1..n
        BY <1>1, <1>6
      <4> QED
        BY <4>1 DEF i
    <3>3. Ascending(Append(files[m].edits, i), edits \cup {i})
      <4>1. /\ files[m].edits \in Seq(Nat) /\ i \in Nat
            /\ Ascending(files[m].edits, edits)
        BY <1>1, <1>6
      <4> QED
        BY <3>2, <4>1, AscendingAppend
    <3>4. file.edits # <<>>
      <4> DEFINE before == files[m].edits
      <4>1. before \in Seq(Nat) /\ file.edits = Append(before, i)
        BY <1>6, <2>2
      <4> HIDE DEF before
      <4> QED
        BY <4>1, Appended
    <3>5. \A k \in edits \cup {i} : items[k].version \in {NoVersion, version}
      BY <1>6, <2>1
    <3>6. version # NoVersion => \E k \in edits \cup {i} : items[k].version = version
      BY <1>6, <2>1
    <3> QED
      BY <2>2, <3>1, <3>3, <3>4, <3>5, <3>6 DEF ExactFile
  <2>7. ASSUME NEW f \in 1..Len(files)
        PROVE  ExactFile(next.files[f], items, i)
    <3>1. CASE f = m
      BY <2>4, <2>6, <3>1
    <3>2. CASE f # m
      <4>1. files[f].uri # u
        BY <1>2, <1>5, <3>2, OneFile DEF files, u
      <4>2. \A k \in TextEdits(items, i) : items[k].uris = {files[f].uri} => k \in T
        BY <1>1, <1>3, <4>1
      <4>3. {k \in TextEdits(items, i) : items[k].uris = {files[f].uri}}
              = {k \in T : items[k].uris = {files[f].uri}}
        BY <1>1, <4>2
      <4>4. ExactFile(files[f], items, n) /\ next.files[f] = files[f]
        BY <1>5, <2>4, <3>2
      <4> QED
        BY <1>1, <4>2, <4>3, <4>4 DEF ExactFile, T
    <3> QED
      BY <3>1, <3>2
  <2>8. \A f \in 1..Len(files) : next.files[f].edits[1] = files[f].edits[1]
    <3>1. Append(files[m].edits, i)[1] = files[m].edits[1]
      BY <1>1, <1>6
    <3> QED
      BY <2>2, <2>4, <3>1
  <2>9. \A f, g \in 1..Len(files) : f < g => next.files[f].edits[1] < next.files[g].edits[1]
    BY <1>5, <2>8
  <2>10. ASSUME NEW k \in TextEdits(items, i)
         PROVE  \E f \in 1..Len(files) : items[k].uris = {next.files[f].uri}
    <3>1. \A f \in 1..Len(files) : next.files[f].uri = files[f].uri
      BY <2>2, <2>4 DEF u
    <3>2. CASE k \in T
      BY <1>5, <3>1, <3>2
    <3>3. CASE k = i
      BY <1>2, <1>3, <3>1, <3>3 DEF u
    <3> QED
      BY <1>1, <3>2, <3>3
  <2>11. 1..i \ TextEdits(items, i) = 1..n \ T
    BY <1>1
  <2>12. Exact(next, items, i)
    BY <1>5, <2>3, <2>4, <2>5, <2>7, <2>9, <2>10, <2>11 DEF Exact
  <2> QED
    BY <1>8, <1>11, <2>3, <2>12 DEF i
<1> QED
  BY <1>10, <1>11

\* Each item, whatever it is, keeps the proposal true to the items so far.
LEMMA AddItemExact ==
  ASSUME NEW items \in Edits, NEW n \in Nat, n < Len(items), NEW proposal \in Proposals,
         proposal.valid, Exact(proposal, items, n)
  PROVE  /\ AddItem(proposal, items, n + 1) \in Proposals
         /\ Exact(AddItem(proposal, items, n + 1), items, n + 1)
<1>1. CASE ~Acceptable(items[n + 1])
  BY <1>1, UnacceptableItem
<1>2. CASE Acceptable(items[n + 1]) /\ items[n + 1].kind # "edit"
  BY <1>2, OperationItem
<1>3. CASE /\ Acceptable(items[n + 1]) /\ items[n + 1].kind = "edit"
           /\ \A f \in 1..Len(proposal.files) : proposal.files[f].uri \notin items[n + 1].uris
  BY <1>3, NewFileItem
<1>4. CASE /\ Acceptable(items[n + 1]) /\ items[n + 1].kind = "edit"
           /\ \E f \in 1..Len(proposal.files) : proposal.files[f].uri \in items[n + 1].uris
  BY <1>4, MergedItem
<1> QED
  BY <1>1, <1>2, <1>3, <1>4

\* An edit that comes has been answered with nothing yet.
LEMMA EditComes ==
  ASSUME NEW items \in Edits,
         edit' = [items |-> items, done |-> 0,
                  proposal |-> [valid |-> items # <<>>, files |-> <<>>, operations |-> <<>>]]
  PROVE  EditKept'
<1> DEFINE empty == [valid |-> items # <<>>, files |-> <<>>, operations |-> <<>>]
<1>1. TextEdits(items, 0) = {} /\ 1..0 = {} /\ Len(items) \in Nat
  BY DEF TextEdits
<1>2. empty \in Proposals
  BY DEF Proposals
<1>3. Ascending(<<>>, {})
  BY DEF Ascending
<1>4. Sound(items, 0) <=> items # <<>>
  BY <1>1 DEF Sound
<1>5. Exact(empty, items, 0)
  BY <1>1, <1>3, <1>4 DEF Exact
<1>6. edit'.items = items /\ edit'.done = 0 /\ edit'.proposal = empty
  OBVIOUS
<1> HIDE DEF empty
<1>7. EditTypes'
  BY <1>1, <1>2, <1>6 DEF EditTypes, empty
<1> QED
  BY <1>5, <1>6, <1>7 DEF EditKept

\* Every step keeps what is known of the edit that is being answered.
LEMMA EditStep ==
  ASSUME EditKept, [LspNext]_lspVars
  PROVE  EditKept'
<1>s. ASSUME edit' \in {edit, NoEdit}
      PROVE  EditKept'
  BY <1>s DEF EditKept, EditTypes
<1>1. ASSUME NEW s \in Servers, NEW items \in Edits, ApplyEdit(s, items)
      PROVE  EditKept'
  BY <1>1, EditComes DEF ApplyEdit
<1>2. CASE CollectItem
  <2> DEFINE next == AddItem(edit.proposal, edit.items, edit.done + 1)
  <2>1. /\ edit \in [items : Edits, done : Nat, proposal : Proposals]
        /\ edit.done < Len(edit.items) /\ edit.proposal.valid
        /\ Exact(edit.proposal, edit.items, edit.done)
    BY <1>2 DEF CollectItem, Collected, EditKept, EditTypes
  <2>2. next \in Proposals /\ Exact(next, edit.items, edit.done + 1)
    BY <2>1, AddItemExact
  <2> HIDE DEF next
  <2>3. edit' = [edit EXCEPT !.done = edit.done + 1, !.proposal = next]
    BY <1>2 DEF CollectItem, next
  <2>4. edit.done + 1 \in Nat
    BY <2>1
  <2>5. /\ edit'.items = edit.items /\ edit'.done = edit.done + 1 /\ edit'.proposal = next
        /\ edit' \in [items : Edits, done : Nat, proposal : Proposals]
    BY <2>1, <2>2, <2>3, <2>4
  <2>6. edit'.done <= Len(edit'.items)
    <3>1. Len(edit.items) \in Nat
      BY <2>1, EditsAssumption DEF EditsAssumption
    <3> QED
      BY <2>1, <2>5, <3>1
  <2> QED
    BY <2>2, <2>5, <2>6 DEF EditKept, EditTypes
<1>3. CASE LspStart \/ Ask \/ LspClose \/ didClose \/ EditAnswered
  BY <1>3, <1>s DEF LspStart, Ask, LspClose, didClose, Tell, EditAnswered
<1>4. ASSUME NEW c \in Calls,
             StartProceeds(c) \/ StartFails(c) \/ ShutdownProceeds(c) \/ LspTimeout(c)
      PROVE  EditKept'
  BY <1>4, <1>s DEF StartProceeds, StartFails, ShutdownProceeds, LspTimeout
<1>5. ASSUME NEW s \in Servers,
             Part(s) \/ FailFrame(s) \/ Exit(s) \/ (\E id \in Calls : Answer(s, id))
      PROVE  EditKept'
  BY <1>5, <1>s DEF Part, FailFrame, Exit, Answer
<1>6. ASSUME NEW text \in Texts, didOpen(text)
      PROVE  EditKept'
  BY <1>6, <1>s DEF didOpen, Tell
<1>7. ASSUME NEW version \in 1..MaxVersion,
             \/ \E text \in Texts : didReplace(text, version)
             \/ \E changes \in Changes : didChange(changes, version)
      PROVE  EditKept'
  BY <1>7, <1>s DEF didReplace, didChange, Changed, Tell
<1>8. CASE UNCHANGED lspVars
  BY <1>8, <1>s DEF lspVars
<1> QED
  BY <1>1, <1>2, <1>3, <1>4, <1>5, <1>6, <1>7, <1>8 DEF LspNext

\* Numbers that ascend follow one another.
LEMMA AscendingFollow ==
  ASSUME NEW s \in Seq(Nat), NEW set, Ascending(s, set), NEW x \in set, NEW y \in set, x < y
  PROVE  Follow(s, x, y)
<1>1. Len(s) \in Nat /\ \A k \in 1..Len(s) : s[k] \in Nat
  OBVIOUS
<1> PICK k \in 1..Len(s), l \in 1..Len(s) : s[k] = x /\ s[l] = y
  BY DEF Ascending
<1>2. l < k => y < x
  BY DEF Ascending
<1>3. k < l
  BY <1>1, <1>2
<1> QED
  BY <1>3 DEF Follow

\* An exact proposal keeps the order of the server, as far as its lists can.
LEMMA ExactInOrder ==
  ASSUME NEW proposal \in Proposals, NEW items, Len(items) \in Nat,
         Exact(proposal, items, Len(items))
  PROVE  InServerOrder(proposal, items)
<1> SUFFICES ASSUME proposal.valid, NEW i \in 1..Len(items), NEW j \in 1..Len(items), i < j,
                    ~Reordered(items, i, j), ~Independent(items, i, j)
             PROVE  Precedes(proposal, i, j)
  BY DEF InServerOrder
<1> DEFINE T == TextEdits(items, Len(items))
           operations == proposal.operations
<1>1. /\ operations \in Seq(Nat)
      /\ Ascending(operations, 1..Len(items) \ T)
      /\ \A f \in 1..Len(proposal.files) :
           proposal.files[f].edits \in Seq(Nat) /\ ExactFile(proposal.files[f], items, Len(items))
      /\ \A k \in T : \E f \in 1..Len(proposal.files) : items[k].uris = {proposal.files[f].uri}
  BY ProposalParts DEF Exact
<1>2. CASE i \notin T /\ j \notin T
  <2> DEFINE set == 1..Len(items) \ T
  <2>1. i \in set /\ j \in set /\ Ascending(operations, set)
    BY <1>1, <1>2
  <2> HIDE DEF set
  <2>2. Follow(operations, i, j)
    BY <1>1, <2>1, AscendingFollow
  <2> QED
    BY <2>2 DEF Precedes
<1>3. CASE i \in T
  <2> PICK f \in 1..Len(proposal.files) : items[i].uris = {proposal.files[f].uri}
    BY <1>1, <1>3
  <2> DEFINE edits == proposal.files[f].edits
             set == {k \in T : items[k].uris = {proposal.files[f].uri}}
  <2>1. edits \in Seq(Nat) /\ Ascending(edits, set) /\ i \in set
    BY <1>1, <1>3 DEF ExactFile
  <2> HIDE DEF set
  <2>2. CASE j \in T
    <3>1. j \in set
      BY <1>3, <2>2 DEF Independent, TextEdits, set
    <3>2. Follow(edits, i, j)
      BY <2>1, <3>1, AscendingFollow
    <3> QED
      BY <3>2 DEF Precedes
  <2>3. CASE j \notin T
    <3>1. j \in {operations[k] : k \in 1..Len(operations)}
      BY <1>1, <2>3 DEF Ascending
    <3>2. i \in {edits[k] : k \in 1..Len(edits)}
      BY <2>1 DEF Ascending
    <3> QED
      BY <3>1, <3>2 DEF Precedes
  <2> QED
    BY <2>2, <2>3
<1>4. i \notin T => j \notin T
  BY DEF Reordered, TextEdits
<1> QED
  BY <1>2, <1>3, <1>4

\* ProposalIsExact, for edits of any length: a proposal that is handed on says
\* what the server's edit says, and an edit that is refused had a reason.
THEOREM ProposalIsExactTheorem == LspSpec => []ProposalIsExact
<1>1. LspInit => EditKept
  BY DEF LspInit, EditKept
<1>2. EditKept /\ [LspNext]_lspVars => EditKept'
  BY EditStep
<1>3. EditKept => ProposalIsExact
  <2> SUFFICES ASSUME EditKept, edit # NoEdit, Collected
               PROVE  /\ Exact(edit.proposal, edit.items, Len(edit.items))
                      /\ InServerOrder(edit.proposal, edit.items)
    BY DEF ProposalIsExact
  <2>1. /\ edit.items \in Edits /\ edit.done \in Nat /\ edit.done <= Len(edit.items)
        /\ edit.proposal \in Proposals /\ Exact(edit.proposal, edit.items, edit.done)
    BY DEF EditKept, EditTypes
  <2>2. CASE edit.done = Len(edit.items)
    BY <2>1, <2>2, ExactInOrder
  <2>3. CASE ~edit.proposal.valid
    <3>1. ~Sound(edit.items, edit.done)
      BY <2>1, <2>3 DEF Exact
    <3>2. ~Sound(edit.items, Len(edit.items))
      <4>1. 1..edit.done \subseteq 1..Len(edit.items)
        <5>1. Len(edit.items) \in Nat
          BY <2>1, EditsAssumption DEF EditsAssumption
        <5> QED
          BY <2>1, <5>1
      <4>2. TextEdits(edit.items, edit.done) \subseteq TextEdits(edit.items, Len(edit.items))
        BY <4>1 DEF TextEdits
      <4> QED
        BY <3>1, <4>1, <4>2 DEF Sound
    <3> QED
      BY <2>3, <3>2 DEF Exact, InServerOrder
  <2> QED
    BY <2>2, <2>3 DEF Collected
<1> QED
  BY <1>1, <1>2, <1>3, PTL DEF LspSpec
=============================================================================
