------------------------------ MODULE McpHttp ------------------------------
(***************************************************************************)
(* The MCP HTTP transport (mcp-http-transport.mjs) and the bridge server   *)
(* it talks to (mcp-bridge-server.mjs): sessions, the replay protection of *)
(* requests, the event stream with its replay buffer, and the snapshots    *)
(* that outlive the server.                                                *)
(*                                                                         *)
(* Simplifications:                                                        *)
(*   - There is one client with one subscription at a time.  A request is  *)
(*     used once; of its body only the method is left.                     *)
(*   - Sessions are numbered as they are made.  Time is not modelled: a    *)
(*     session may expire whenever nothing is being handled.               *)
(*   - The events of a session are their sequence numbers, so that a       *)
(*     buffer is its first and its next one.                               *)
(* An operator named ...Mutant is a faulty variation of the definition     *)
(* after it; the specification does not use it.                            *)
(***************************************************************************)
EXTENDS Integers, FiniteSets, Sequences

CONSTANTS
  Requests,     \* the requests the client ever sends
  MaxSessionIds, \* bound: the sessions ever made
  MaxSessions,  \* the server's limit of live sessions
  MaxIds,       \* maxRequestIdsPerSession
  MaxReplay,    \* maxReplayEvents
  MaxEvents,    \* bound: the sequence numbers of a session
  MaxFaults,    \* bound: faults of network, disk and processes
  None

ASSUME ConstantsAssumption ==
  {MaxSessionIds, MaxSessions, MaxIds, MaxReplay, MaxEvents, MaxFaults} \subseteq Nat

Sessions == 1..MaxSessionIds
Methods == {"initialize", "notify", "call", "delete"}

VARIABLES
  session,    \* the client's session, None without one
  request,    \* per request: phase, method and the session it carried
  sub,        \* the subscription: phase and the session it carried
  cursor,     \* the last event it has received, or was resumed after
  wire,       \* the requests on their way to the server
  reply,      \* per request: the answer on its way back
  pipe,       \* the frames of the stream on their way, and if it will end
  up,         \* whether the server runs
  made,       \* the sessions made
  live,       \* the server's sessions
  owner,      \* requestOwners
  buffer,     \* per session: the first and the next event of its buffer
  snapshot,   \* replaySnapshots
  stored,     \* the snapshot file
  ran,        \* per request: how often a tool was called for it
  faults

client == <<session, request, sub, cursor>>
network == <<wire, reply, pipe>>
server == <<up, made, live, owner, buffer, snapshot, stored, ran>>
vars == <<client, network, server, faults>>

Copies == [req : Requests, method : Methods, session : Sessions \cup {None}]
Replies == [status : {"ok", "bad", "limit", "replay", "missing", "down"},
            session : Sessions \cup {None}]
Buffers == {b \in [first : 1..(MaxEvents + 1), next : 1..(MaxEvents + 1)] :
              b.next - b.first \in 0..MaxReplay}
Snapshots == [closed : BOOLEAN, buffer : Buffers]

ASSUME NoneAssumption == None \notin Sessions \cup 0..MaxEvents \cup Replies \cup Snapshots

RequestRecords ==
  [phase : {"new", "waiting", "over"}, method : Methods, session : Sessions \cup {None}]
SubRecords == [phase : {"none", "asking", "open"}, session : Sessions \cup {None}]
PipeRecords ==
  [frames : Seq(1..MaxEvents), open : BOOLEAN,
   status : {"none", "ok", "missing", "expired", "down"}]

ClientTypes ==
  /\ session \in Sessions \cup {None}
  /\ request \in [Requests -> RequestRecords]
  /\ sub \in SubRecords
  /\ cursor \in 0..MaxEvents \cup {None}
  /\ wire \subseteq Copies

NetworkTypes ==
  /\ reply \in [Requests -> Replies \cup {None}]
  /\ pipe \in PipeRecords

ServerTypes ==
  /\ up \in BOOLEAN
  /\ made \in 0..MaxSessionIds /\ live \subseteq 1..made
  /\ owner \in [Requests -> Sessions \cup {None}]
  /\ buffer \in [Sessions -> Buffers]
  /\ snapshot \in [Sessions -> Snapshots \cup {None}]
  /\ stored \in [Sessions -> Snapshots \cup {None}]
  /\ ran \in [Requests -> 0..2]
  /\ faults \in 0..MaxFaults

TypeOK == ClientTypes /\ NetworkTypes /\ ServerTypes

Unsubscribed == [phase |-> "none", session |-> None]
NoPipe == [frames |-> <<>>, open |-> FALSE, status |-> "none"]
Fresh == [first |-> 1, next |-> 1]

Init ==
  /\ session = None
  /\ request = [r \in Requests |-> [phase |-> "new", method |-> "call", session |-> None]]
  /\ sub = Unsubscribed
  /\ cursor = None
  /\ wire = {}
  /\ reply = [r \in Requests |-> None]
  /\ pipe = NoPipe
  /\ up = TRUE /\ made = 0 /\ live = {}
  /\ owner = [r \in Requests |-> None]
  /\ buffer = [s \in Sessions |-> Fresh]
  /\ snapshot = [s \in Sessions |-> None]
  /\ stored = [s \in Sessions |-> None]
  /\ ran = [r \in Requests |-> 0]
  /\ faults = 0

Fault == faults < MaxFaults /\ faults' = faults + 1

-----------------------------------------------------------------------------
\* The client.

Put(r, method, carried) ==
  /\ request' = [request EXCEPT ![r] =
                   [phase |-> "waiting", method |-> method, session |-> carried]]
  /\ wire' = wire \cup {[req |-> r, method |-> method, session |-> carried]}

\* request, or terminateSession if there is a session.
Send(r, method) ==
  /\ request[r].phase = "new"
  /\ method = "delete" => session # None
  /\ Put(r, method, session)
  /\ UNCHANGED <<session, sub, cursor, reply, pipe, server, faults>>

Done == [phase |-> "over", method |-> "call", session |-> None]
Over(r) == request' = [request EXCEPT ![r] = Done]
Answered(r) == reply' = [reply EXCEPT ![r] = None]

DropsMutant(carried) == IF carried # None THEN None ELSE session

\* A 404 ends the client's session if it is still the one that was carried.
Drops(carried) == IF session = carried THEN None ELSE session

\* The answer to a request.  An initialize takes the session it is given and
\* is followed by a notification.
Receive(r) ==
  /\ request[r].phase = "waiting" /\ reply[r] # None
  /\ Answered(r)
  /\ IF request[r].method = "initialize" /\ reply[r].status = "ok"
     THEN /\ session' = reply[r].session
          /\ Put(r, "notify", reply[r].session)
     ELSE /\ session' = IF reply[r].status = "missing" THEN Drops(request[r].session)
                        ELSE session
          /\ Over(r)
          /\ UNCHANGED wire
  /\ request[r].method # "delete"
  /\ UNCHANGED <<sub, cursor, pipe, server, faults>>

\* terminateSession has its answer: whatever session there is now is dropped,
\* and the subscription closed.
Terminated(r) ==
  /\ request[r].phase = "waiting" /\ reply[r] # None /\ request[r].method = "delete"
  /\ Answered(r) /\ Over(r)
  /\ IF reply[r].status \in {"ok", "missing"}
     THEN session' = None /\ sub' = Unsubscribed /\ pipe' = NoPipe
     ELSE UNCHANGED <<session, sub, pipe>>
  /\ UNCHANGED <<cursor, wire, server, faults>>

\* The timeout of a request, which may still be on its way.
Timeout(r) ==
  /\ request[r].phase = "waiting"
  /\ Over(r) /\ Answered(r)
  /\ UNCHANGED <<session, sub, cursor, wire, pipe, server, faults>>

\* subscribe: after the last event received, or without a cursor.
Subscribe ==
  /\ session # None /\ sub.phase = "none"
  /\ sub' = [phase |-> "asking", session |-> session]
  /\ cursor' \in {cursor, None}
  /\ UNCHANGED <<session, request, network, server, faults>>

\* The stream has been refused: a 404 drops the session it carried.
StreamRefused ==
  /\ sub.phase = "asking" /\ pipe.status \in {"missing", "expired", "down"}
  /\ session' = IF pipe.status = "missing" THEN Drops(sub.session) ELSE session
  /\ cursor' = IF pipe.status = "expired" THEN None ELSE cursor
  /\ sub' = Unsubscribed /\ pipe' = NoPipe
  /\ UNCHANGED <<request, wire, reply, server, faults>>

\* A frame: its id becomes the cursor.
Frame ==
  /\ sub.phase # "none" /\ pipe.frames # <<>>
  /\ cursor' = Head(pipe.frames)
  /\ sub' = [sub EXCEPT !.phase = "open"]
  /\ pipe' = [pipe EXCEPT !.frames = Tail(@)]
  /\ UNCHANGED <<session, request, wire, reply, server, faults>>

\* The stream has ended, or the subscriber closes it.
StreamEnds ==
  /\ sub.phase # "none"
  /\ sub' = Unsubscribed /\ pipe' = NoPipe
  /\ UNCHANGED <<session, request, cursor, wire, reply, server, faults>>

\* close and start again: every request is aborted and the session forgotten.
Close ==
  /\ Fault
  /\ session' = None /\ cursor' = None
  /\ sub' = Unsubscribed /\ pipe' = NoPipe
  /\ request' = [r \in Requests |-> IF request[r].phase = "waiting"
                                    THEN Done ELSE request[r]]
  /\ reply' = [r \in Requests |-> None]
  /\ UNCHANGED <<wire, server>>

-----------------------------------------------------------------------------
\* The snapshots of the server.

\* persistReplaySnapshots: a failing write is not noticed, the next one retries.
Persist(next) ==
  /\ snapshot' = next
  /\ \/ stored' = next /\ UNCHANGED faults
     \/ UNCHANGED stored /\ Fault

Saved(s, closed) ==
  [snapshot EXCEPT ![s] =
     [closed |-> closed,
      buffer |-> IF closed THEN [first |-> buffer[s].next, next |-> buffer[s].next]
                 ELSE buffer[s]]]

\* closeSession: its snapshot is written, the ids of its requests are dropped
\* and its streams ended.
Closes(s, closed) ==
  /\ Persist(Saved(s, closed))
  /\ live' = live \ {s}
  /\ buffer' = [buffer EXCEPT ![s] = Fresh]
  /\ owner' = [r \in Requests |-> IF owner[r] = s THEN None ELSE owner[r]]
  /\ pipe' = IF sub.session = s THEN [pipe EXCEPT !.open = FALSE] ELSE pipe

\* A request is refused, or answered without an effect.
Answers == UNCHANGED <<pipe, made, live, owner, buffer, snapshot, stored, ran, faults>>

\* initialize: no session may be carried, and the table must have room.
Initializes(q) ==
  IF q.session # None THEN "bad"
  ELSE IF Cardinality(live) >= MaxSessions \/ made = MaxSessionIds THEN "limit" ELSE "ok"

ClaimMutant(q) == IF q.session \notin live THEN "missing" ELSE "ok"

\* requireSession and claimRequest: an id is used once, and there is a limit.
Claim(q) ==
  IF q.session \notin live THEN "missing"
  ELSE IF owner[q.req] # None THEN "replay"
  ELSE IF Cardinality({r \in Requests : owner[r] = q.session}) >= MaxIds THEN "limit"
  ELSE "ok"

Status(q) ==
  IF ~up THEN "down"
  ELSE IF q.method = "initialize" THEN Initializes(q)
  ELSE IF q.method = "call" THEN Claim(q)
  ELSE IF q.session \notin live THEN "missing" ELSE "ok"

\* handle: a request arrives, once or (a fault of what is between) again, and
\* is answered; the client may have given up on it.
Handle(q) ==
  /\ q \in wire
  /\ wire' = wire \ {q}
  /\ reply' = IF request[q.req].phase = "waiting" /\ request[q.req].method = q.method
              THEN [reply EXCEPT ![q.req] =
                      [status |-> Status(q),
                       session |-> IF q.method = "initialize" /\ Status(q) = "ok"
                                   THEN made + 1 ELSE None]]
              ELSE reply
  /\ IF Status(q) # "ok" \/ q.method = "notify" THEN Answers
     ELSE \/ /\ q.method = "initialize"
             /\ made' = made + 1 /\ live' = live \cup {made + 1}
             /\ UNCHANGED <<pipe, owner, buffer, snapshot, stored, ran, faults>>
          \/ /\ q.method = "call"
             /\ owner' = [owner EXCEPT ![q.req] = q.session]
             /\ ran' = [ran EXCEPT ![q.req] = @ + 1]
             /\ UNCHANGED <<pipe, made, live, buffer, snapshot, stored, faults>>
          \/ /\ q.method = "delete"
             /\ Closes(q.session, TRUE)
             /\ UNCHANGED <<made, ran>>
  /\ UNCHANGED <<client, up>>

\* A request is sent again by what is between client and server.
Duplicate(r) ==
  /\ request[r].phase = "waiting" /\ ran[r] < 2 /\ Fault
  /\ wire' = wire \cup {[req |-> r, method |-> request[r].method,
                         session |-> request[r].session]}
  /\ UNCHANGED <<client, reply, pipe, server>>

ReplayedMutant(s) == [i \in 1..(buffer[s].next - buffer[s].first) |-> buffer[s].first + i - 1]

\* resolveReplay: the buffered events after the cursor.
Replayed(s) ==
  IF cursor = None THEN <<>>
  ELSE [i \in 1..(buffer[s].next - 1 - cursor) |-> cursor + i]

Resumable(s) == cursor = None \/ cursor \in buffer[s].first..(buffer[s].next - 1)

\* handle, the GET: the stream is opened after the replayed events, or refused.
HandleStream ==
  LET s == sub.session IN
  /\ sub.phase = "asking" /\ pipe.status = "none"
  /\ pipe' = IF ~up THEN [NoPipe EXCEPT !.status = "down"]
             ELSE IF s \notin live THEN [NoPipe EXCEPT !.status = "missing"]
             ELSE IF ~Resumable(s) THEN [NoPipe EXCEPT !.status = "expired"]
             ELSE [frames |-> Replayed(s), open |-> TRUE, status |-> "ok"]
  /\ UNCHANGED <<client, wire, reply, server, faults>>

\* The buffer after another event: at most maxReplayEvents are kept.
Trim(b) ==
  [first |-> IF b.next + 1 - b.first > MaxReplay THEN b.next + 1 - MaxReplay ELSE b.first,
   next |-> b.next + 1]

\* broadcast: an event is buffered, delivered and stored.
Broadcast(s) ==
  /\ up /\ s \in live /\ buffer[s].next <= MaxEvents
  /\ buffer' = [buffer EXCEPT ![s] = Trim(@)]
  /\ pipe' = IF sub.session = s /\ pipe.open
             THEN [pipe EXCEPT !.frames = Append(@, buffer[s].next)] ELSE pipe
  /\ Persist([snapshot EXCEPT ![s] = [closed |-> FALSE, buffer |-> Trim(buffer[s])]])
  /\ UNCHANGED <<client, wire, reply, up, made, live, owner, ran>>

\* expireSessions, for one session that has been idle.
Expire(s) ==
  /\ up /\ s \in live
  /\ Closes(s, FALSE)
  /\ UNCHANGED <<client, wire, reply, up, made, ran>>

ResumableSessionMutant(s) == s \notin live /\ snapshot[s] # None

ResumableSession(s) == s \notin live /\ snapshot[s] # None /\ ~snapshot[s].closed

\* resumeSession: the buffer of a session that is not live, and was not closed,
\* goes over to a new one, or has expired.
Resume(s) ==
  /\ up /\ ResumableSession(s)
  /\ Persist([snapshot EXCEPT ![s] = None])
  /\ \/ UNCHANGED <<made, live, buffer>>
     \/ /\ made < MaxSessionIds
        /\ made' = made + 1 /\ live' = live \cup {made + 1}
        /\ buffer' = [buffer EXCEPT ![made + 1] = snapshot[s].buffer]
  /\ UNCHANGED <<client, network, up, owner, ran>>

\* stop closes every session with its snapshot; a crash does not.
Stops(graceful) ==
  /\ up /\ Fault
  /\ up' = FALSE
  /\ live' = {}
  /\ owner' = [r \in Requests |-> None]
  /\ pipe' = [pipe EXCEPT !.open = FALSE]
  /\ stored' = IF graceful
               THEN [s \in Sessions |-> IF s \in live THEN [closed |-> FALSE, buffer |-> buffer[s]]
                                        ELSE snapshot[s]]
               ELSE stored
  /\ snapshot' = [s \in Sessions |-> None]
  /\ buffer' = [s \in Sessions |-> Fresh]
  /\ UNCHANGED <<client, wire, reply, made, ran>>

\* A new server loads the snapshots; no session lives.
Start ==
  /\ ~up
  /\ up' = TRUE
  /\ snapshot' = stored
  /\ UNCHANGED <<client, network, made, live, owner, buffer, stored, ran, faults>>

Next ==
  \/ \E r \in Requests :
       \/ \E method \in {"initialize", "call", "delete"} : Send(r, method)
       \/ Receive(r) \/ Terminated(r) \/ Timeout(r) \/ Duplicate(r)
  \/ Subscribe \/ StreamRefused \/ Frame \/ StreamEnds \/ Close
  \/ \E q \in wire : Handle(q)
  \/ HandleStream
  \/ \E s \in Sessions : Broadcast(s) \/ Expire(s) \/ Resume(s)
  \/ \E graceful \in BOOLEAN : Stops(graceful)
  \/ Start

Spec == Init /\ [][Next]_vars

-----------------------------------------------------------------------------
\* No tool runs twice for a request, although the request may arrive twice, also
\* after its session was closed or the server restarted.
ToolRunsOnce == \A r \in Requests : ran[r] <= 1

\* A subscriber that goes on after its cursor misses no event and sees none
\* twice, however often the stream breaks: what is on its way to it are the
\* events after its cursor, and if the stream is open up to the latest one.
FramesInOrder ==
  cursor # None /\ pipe.status = "ok" =>
    /\ \A i \in DOMAIN pipe.frames : pipe.frames[i] = cursor + i
    /\ pipe.open => cursor + Len(pipe.frames) + 1 = buffer[sub.session].next

\* The client does not lose a session that lives: "a late 404 for an old session
\* must not clear a newer session" (mcp-http-transport.mjs:170), however late an
\* answer is.  (Except to its own close, or while it terminates a session.)
LiveSessionKept ==
  [][\/ session = None \/ session' # None \/ session \notin live
     \/ faults' # faults
     \/ \E r \in Requests : request[r].phase = "waiting" /\ request[r].method = "delete"]_vars

\* The tombstone of a session that was closed stays, through restarts: "it can
\* never be silently revived" (mcp-bridge-server.mjs:195).
TombstoneStays ==
  [][\A s \in Sessions :
       /\ stored[s] # None /\ stored[s].closed => stored'[s] = stored[s]
       /\ snapshot[s] # None /\ snapshot[s].closed /\ up' => snapshot'[s] = snapshot[s]]_vars

-----------------------------------------------------------------------------
(* The parts of an inductive invariant. *)

\* A session that anyone knows of has been made, so that the next one is new.
Issued == 1..made \cup {None}

SessionsIssued ==
  /\ {session, sub.session} \subseteq Issued
  /\ \A r \in Requests :
       /\ request[r].session \in Issued
       /\ reply[r] # None => reply[r].session \in Issued
  /\ \A q \in wire : q.session \in Issued

\* What is on its way for a request is what the client waits for, or the
\* initialize before its notification; and a call carries one session.
CopiesAgree ==
  \A q \in wire :
    /\ request[q.req].phase # "new"
    /\ request[q.req].phase = "waiting" =>
         \/ q.method = request[q.req].method /\ q.session = request[q.req].session
         \/ q.method = "initialize" /\ request[q.req].method = "notify"
    /\ \A p \in wire : p.req = q.req /\ p.method = "call" /\ q.method = "call" =>
         p.session = q.session

\* A session no longer takes a request: it is over, or the request claimed.
Spent(r, s) == s \notin live \/ owner[r] = s

\* What is left, or may be sent again, of a call that ran meets a session that
\* does not take it.
RanIsSpent ==
  \A r \in Requests :
    /\ request[r].phase = "new" => ran[r] = 0
    /\ ran[r] # 0 =>
         /\ request[r].phase = "waiting" /\ request[r].method = "call" =>
              Spent(r, request[r].session)
         /\ \A q \in wire : q.req = r /\ q.method = "call" => Spent(r, q.session)

\* An answer is awaited; that a session is missing stays true, and an initialize
\* that succeeded has a session.
AnswersTrue ==
  /\ \A r \in Requests :
       reply[r] # None =>
         /\ request[r].phase = "waiting"
         /\ reply[r].status = "missing" => request[r].session \notin live
         /\ request[r].method = "initialize" /\ reply[r].status = "ok" =>
              reply[r].session # None
  /\ pipe.status = "missing" => sub.session \notin live

\* The frames on their way follow one another, and an open stream, that of a
\* live session, is up to date.
PipeKept ==
  /\ sub.phase = "none" => pipe = NoPipe
  /\ pipe.open => pipe.status = "ok" /\ sub.session \in live
  /\ pipe.status # "ok" => pipe.frames = <<>>
  /\ \A i \in DOMAIN pipe.frames : pipe.frames[i] = pipe.frames[1] + i - 1
  /\ pipe.open /\ pipe.frames # <<>> =>
       pipe.frames[1] + Len(pipe.frames) = buffer[sub.session].next

Tombstone(x) == x # None /\ x.closed

\* A tombstone of the file is one of the server too, and never that of a
\* session that lives or is still to come.
TombstonesKept ==
  /\ ~up => live = {} /\ \A s \in Sessions : snapshot[s] = None
  /\ \A s \in Sessions :
       /\ up /\ Tombstone(stored[s]) => snapshot[s] = stored[s]
       /\ s \in live \/ s > made => ~Tombstone(stored[s]) /\ ~Tombstone(snapshot[s])

IInv ==
  /\ TypeOK /\ SessionsIssued /\ CopiesAgree /\ RanIsSpent /\ ToolRunsOnce
  /\ AnswersTrue /\ PipeKept /\ FramesInOrder /\ TombstonesKept
=============================================================================
