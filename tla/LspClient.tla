------------------------------ MODULE LspClient ------------------------------
(***************************************************************************)
(* createLspClient of runtime/lsp-client.mjs with the language servers it  *)
(* spawns.  A step is what runs between two events: a call of the          *)
(* application, a frame, an exit, a timer.                                 *)
(*                                                                         *)
(* Simplifications:                                                        *)
(*   - There is one document; what a server knows of it is what it has once*)
(*     it has read all that was written to it.                             *)
(*   - The command of the client is one server, so that all its processes  *)
(*     choose the same position encoding.                                  *)
(*   - The application uses documents after the first start has returned,  *)
(*     since it counts positions in the negotiated encoding.               *)
(*   - Notifications of the server, and requests other than for a workspace*)
(*     edit, change nothing here.  What the handler of an edit answers     *)
(*     changes nothing either; its answer comes at once.                   *)
(* Names that other components have as well begin with Lsp, so that a      *)
(* module can extend this one beside another (McpHttpProofs).              *)
(* An operator named ...Mutant is a faulty variation of the definition     *)
(* after it; the specification does not use it.                            *)
(***************************************************************************)
EXTENDS LspData

CONSTANTS
  MaxSpawns,    \* bound: the servers ever spawned
  MaxCalls,     \* bound: the calls of request
  MaxVersion,   \* bound: the versions of the document
  MaxDocument,  \* maxDocumentBytes
  Texts,        \* the texts a document is opened with or replaced by
  Changes,      \* the lists of incremental changes the application makes
  Items,        \* the items of workspace edits
  Edits,        \* the workspace edits a server asks for
  MaxCallsAtEdit  \* bound: the calls made when it asks for one

ASSUME LspAssumption ==
  /\ {MaxSpawns, MaxCalls, MaxVersion, MaxDocument, MaxCallsAtEdit} \subseteq Nat
  /\ Texts \subseteq Seq(Units)

\* A text edit is of one document.  (A document has one URI, an operation up to
\* two.)
ASSUME EditsAssumption ==
  /\ NoVersion # Invalid
  /\ Edits \subseteq Seq(Items)
  /\ \A item \in Items : item.kind = "edit" =>
       /\ item.version # Invalid
       /\ \E uri \in item.uris : item.uris = {uri}

Servers == 1..MaxSpawns
Calls == 1..MaxCalls
NoEdit == [items |-> <<>>, done |-> 0, proposal |-> NoVersion]
Closed == [version |-> -1, text |-> <<>>]   \* a document that is not open

VARIABLES
  encoding,     \* what the server chooses
  state,        \* of the client
  spawns,       \* how many servers have been spawned
  child,        \* the current one, 0 without
  alive,        \* the servers that have not exited
  closing,      \* whether close was ever called
  initialized,
  negotiated,   \* positionEncoding
  torn,         \* the server of whose frame the buffer holds a part, 0 without
  call,         \* the calls of request
  pending,      \* the call that waits for the answer with an id, 0 without
  asked,        \* the ids each server has been sent and not answered
  doc,          \* the document in openDocuments
  copy,         \* the document in the current server
  edit          \* the workspace edit that is being answered, its items done
                \* so far and the proposal they make

lspVars == <<encoding, state, spawns, child, alive, closing, initialized, negotiated,
             torn, call, pending, asked, doc, copy, edit>>
documents == <<doc, copy>>
others == <<encoding, state, spawns, child, alive, closing, initialized, negotiated,
            call, pending, asked>>

NoCall == [method |-> "none", server |-> 0, phase |-> "none", from |-> 0]

CallRecords ==
  [method : {"none", "initialize", "read", "shutdown"},
   server : 0..MaxSpawns, from : 0..MaxSpawns,
   phase : {"none", "waiting", "answered", "rejected", "closing", "over"}]

\* The types of all but the document.
CallTypes ==
  /\ encoding \in Encodings /\ negotiated \in Encodings
  /\ state \in {"disconnected", "starting", "ready", "failed"}
  /\ spawns \in 0..MaxSpawns /\ child \in 0..spawns /\ torn \in 0..spawns
  /\ alive \subseteq 1..spawns
  /\ closing \in BOOLEAN /\ initialized \in BOOLEAN
  /\ call \in [Calls -> CallRecords]
  /\ pending \in [Calls -> 0..MaxCalls]
  /\ asked \in [Servers -> SUBSET Calls]

LspTypeOK ==
  /\ CallTypes
  /\ \A d \in {doc, copy} :
       d = Closed \/ (d.version \in 0..MaxVersion /\ Bytes(d.text) <= MaxDocument)

LspInit ==
  /\ encoding \in Encodings
  /\ state = "disconnected"
  /\ spawns = 0 /\ child = 0 /\ alive = {}
  /\ closing = FALSE /\ initialized = FALSE
  /\ negotiated = "utf-16"
  /\ torn = 0
  /\ call = [c \in Calls |-> NoCall]
  /\ pending = [id \in Calls |-> 0]
  /\ asked = [s \in Servers |-> {}]
  /\ doc = Closed
  /\ copy = Closed
  /\ edit = NoEdit

-----------------------------------------------------------------------------
\* The continuations of start and shutdown run as soon as their request has
\* settled, before any other event.
Queued(c) ==
  /\ call[c].method \in {"initialize", "shutdown"}
  /\ call[c].phase \in {"answered", "rejected"}

Quiet == edit = NoEdit /\ \A c \in Calls : ~Queued(c)

Made == Cardinality({c \in Calls : call[c] # NoCall})

NewIdMutant(server) == Cardinality({c \in Calls : call[c].server = server}) + 1

\* nextId is never set back.
NewId(server) == Made + 1

\* request: the call waits for the answer with its id.  (To a child that has
\* exited nothing can be sent, and the call is rejected at once.)
Request(method, server) ==
  /\ Made < MaxCalls
  /\ call' = [call EXCEPT ![Made + 1] =
                [method |-> method, server |-> server, phase |-> "waiting", from |-> 0]]
  /\ pending' = [pending EXCEPT ![NewId(server)] = Made + 1]
  /\ asked' = [asked EXCEPT ![server] = @ \cup {NewId(server)}]

Pending == {pending[id] : id \in Calls} \ {0}
NothingPending == [id \in Calls |-> 0]

\* Every pending call is rejected.
Rejected(calls) ==
  [c \in Calls |-> IF c \in Pending THEN [calls[c] EXCEPT !.phase = "rejected"] ELSE calls[c]]

\* close: the documents and the pending calls are given up and the child is
\* killed; its exit comes later.  `calls` is call, but for the caller.
CloseNow(calls) ==
  /\ child' = 0
  /\ state' = "disconnected"
  /\ closing' = TRUE
  /\ doc' = Closed
  /\ call' = Rejected(calls)
  /\ pending' = NothingPending

-----------------------------------------------------------------------------
\* start: a server is spawned, whatever became of the one before, and asked to
\* initialize.
LspStart ==
  /\ Quiet
  /\ state # "ready" /\ spawns < MaxSpawns
  /\ spawns' = spawns + 1
  /\ child' = spawns + 1
  /\ alive' = alive \cup {spawns + 1}
  /\ state' = "starting"
  /\ Request("initialize", spawns + 1)
  /\ copy' = Closed
  /\ UNCHANGED <<encoding, closing, initialized, negotiated, torn, doc, edit>>

\* start goes on: with an answer and a child that runs the client is ready;
\* otherwise it is closed, and start waits for the exit.
StartProceeds(c) ==
  /\ Queued(c) /\ call[c].method = "initialize"
  /\ negotiated' = IF call[c].phase = "answered" THEN encoding ELSE negotiated
  /\ IF call[c].phase = "answered" /\ child \in alive
     THEN /\ initialized' = TRUE
          /\ state' = "ready"
          /\ call' = [call EXCEPT ![c].phase = "over"]
          /\ UNCHANGED <<child, closing, pending, doc>>
     ELSE /\ CloseNow([call EXCEPT ![c].phase = "closing"])
          /\ UNCHANGED initialized
  /\ UNCHANGED <<encoding, spawns, alive, torn, asked, copy, edit>>

\* The wait of a failed start is over: the client has failed, even if another
\* start has begun meanwhile.
StartFails(c) ==
  /\ Quiet
  /\ call[c].phase = "closing"
  /\ call' = [call EXCEPT ![c].phase = "over"]
  /\ state' = "failed"
  /\ UNCHANGED <<encoding, spawns, child, alive, closing, initialized, negotiated,
                 torn, pending, asked, documents, edit>>

\* The application calls request, or shutdown, which asks the server first.
Ask ==
  /\ Quiet
  /\ child \in alive
  /\ \/ state = "ready" /\ Request("read", child)
     \/ initialized /\ Request("shutdown", child)
  /\ UNCHANGED <<encoding, state, spawns, child, alive, closing, initialized,
                 negotiated, torn, documents, edit>>

\* Whatever the answer, the server is told to exit and the client closed; if
\* it cannot be told, shutdown throws.
ShutdownProceeds(c) ==
  /\ Queued(c) /\ call[c].method = "shutdown"
  /\ IF child \in alive THEN CloseNow([call EXCEPT ![c].phase = "over"])
     ELSE /\ call' = [call EXCEPT ![c].phase = "over"]
          /\ UNCHANGED <<child, state, closing, doc, pending>>
  /\ UNCHANGED <<encoding, spawns, alive, initialized, negotiated, torn, asked, copy, edit>>

LspClose ==
  /\ Quiet
  /\ CloseNow(call)
  /\ UNCHANGED <<encoding, spawns, alive, initialized, negotiated, torn, asked, copy, edit>>

-----------------------------------------------------------------------------
\* What comes from the servers, the current one or an earlier one.

\* A part of a frame comes, or the rest of one, or what is taken for it.
Part(s) ==
  /\ Quiet /\ s \in alive
  /\ \/ torn = 0 /\ torn' = s
     \/ torn # 0 /\ torn' = 0
  /\ UNCHANGED <<others, documents, edit>>

\* A server answers; an answer nobody waits for is dropped.  If the buffer
\* holds a part of a frame of another server, the frame may be lost.
Answer(s, id) ==
  /\ Quiet /\ id \in asked[s]
  /\ asked' = [asked EXCEPT ![s] = @ \ {id}]
  /\ \/ /\ torn' = 0
        /\ IF pending[id] # 0
           THEN /\ \E phase \in {"answered", "rejected"} :
                     call' = [call EXCEPT ![pending[id]].phase = phase, ![pending[id]].from = s]
                /\ pending' = [pending EXCEPT ![id] = 0]
           ELSE UNCHANGED <<call, pending>>
     \/ /\ torn \notin {0, s} /\ torn' \in {0, torn}
        /\ UNCHANGED <<call, pending>>
  /\ UNCHANGED <<encoding, state, spawns, child, alive, closing, initialized,
                 negotiated, documents, edit>>

\* A server asks for an edit, and its items are collected one by one until one
\* is refused.  Nothing else happens in between (Quiet).
ApplyEdit(s, items) ==
  /\ Quiet /\ s \in alive
  /\ Made <= MaxCallsAtEdit
  /\ torn' = 0
  /\ edit' = [items |-> items, done |-> 0,
              proposal |-> [valid |-> items # <<>>, files |-> <<>>, operations |-> <<>>]]
  /\ UNCHANGED <<others, documents>>

Collected == edit.done = Len(edit.items) \/ ~edit.proposal.valid

CollectItem ==
  /\ edit # NoEdit /\ ~Collected
  /\ edit' = [edit EXCEPT !.done = @ + 1,
                          !.proposal = AddItem(@, edit.items, edit.done + 1)]
  /\ UNCHANGED <<others, torn, documents>>

\* An edit that is refused is answered at once, another one handed to the
\* handler as a proposal; whatever that returns, the server is told
\* applied:false.
EditAnswered ==
  /\ edit # NoEdit /\ Collected
  /\ edit' = NoEdit
  /\ UNCHANGED <<others, torn, documents>>

\* failFrame: a frame is too long.
FailFrame(s) ==
  /\ Quiet /\ s \in alive
  /\ torn' = 0
  /\ call' = Rejected(call)
  /\ pending' = NothingPending
  /\ state' = "failed"
  /\ UNCHANGED <<encoding, spawns, child, alive, closing, initialized, negotiated,
                 asked, documents, edit>>

\* onExit: after a close no exit is noticed any more.
Exit(s) ==
  /\ Quiet /\ s \in alive
  /\ alive' = alive \ {s}
  /\ IF closing THEN UNCHANGED <<state, call, pending>>
     ELSE /\ state' = "failed"
          /\ call' = Rejected(call)
          /\ pending' = NothingPending
  /\ UNCHANGED <<encoding, spawns, child, closing, initialized, negotiated, torn,
                 asked, documents, edit>>

\* requestTimeoutMs has passed.
LspTimeout(id) ==
  /\ Quiet /\ pending[id] # 0
  /\ call' = [call EXCEPT ![pending[id]].phase = "rejected"]
  /\ pending' = [pending EXCEPT ![id] = 0]
  /\ UNCHANGED <<encoding, state, spawns, child, alive, closing, initialized,
                 negotiated, torn, asked, documents, edit>>

-----------------------------------------------------------------------------
\* Documents: each call is checked, sent, and then noted.

CanSend == Quiet /\ initialized /\ child \in alive

Tell(mine, theirs) ==
  /\ doc' = mine
  /\ copy' = theirs
  /\ UNCHANGED <<others, torn, edit>>

didOpen(text) ==
  /\ CanSend /\ doc = Closed
  /\ Bytes(text) <= MaxDocument
  /\ LET opened == [version |-> 0, text |-> text] IN Tell(opened, opened)

\* A server that does not have the document ignores the change.
Changed(version, mine, theirs) ==
  /\ version \in doc.version + 1..MaxVersion
  /\ Bytes(mine) <= MaxDocument
  /\ Tell([version |-> version, text |-> mine],
          IF copy = Closed THEN Closed ELSE [version |-> version, text |-> theirs])

didReplace(text, version) ==
  /\ CanSend /\ doc # Closed
  /\ Changed(version, text, text)

didChange(changes, version) ==
  /\ CanSend /\ doc # Closed
  /\ LET text == ChangeText(doc.text, changes, negotiated)
     IN /\ text # Invalid
        /\ Changed(version, text, ServerText(copy.text, changes, encoding))

didClose ==
  /\ CanSend /\ doc # Closed
  /\ Tell(Closed, Closed)

LspNext ==
  \/ LspStart \/ Ask \/ LspClose \/ didClose \/ CollectItem \/ EditAnswered
  \/ \E c \in Calls : StartProceeds(c) \/ StartFails(c) \/ ShutdownProceeds(c) \/ LspTimeout(c)
  \/ \E s \in Servers :
       \/ Part(s) \/ FailFrame(s) \/ Exit(s)
       \/ \E id \in Calls : Answer(s, id)
       \/ \E items \in Edits : ApplyEdit(s, items)
  \/ \E text \in Texts : didOpen(text)
  \/ \E version \in 1..MaxVersion :
       \/ \E text \in Texts : didReplace(text, version)
       \/ \E changes \in Changes : didChange(changes, version)

LspSpec == LspInit /\ [][LspNext]_lspVars

-----------------------------------------------------------------------------
\* What a running server has of a document it was told to open is what the
\* client has: each incremental change, in whatever encoding was negotiated,
\* means the same place on both sides, and a change that cannot be placed is
\* neither noted nor sent.
InSync ==
  child \in alive /\ copy # Closed => copy = doc

\* A call that waits is in the table, where an answer, its timer, an exit or a
\* close will find it; and an answer is that of the server that was asked,
\* even if an earlier one answers late.
CallsMatch ==
  /\ \A c \in Calls : call[c].phase = "waiting" <=> c \in Pending
  /\ \A c \in Calls : call[c].phase \in {"answered", "over"} /\ call[c].from # 0 =>
       call[c].from = call[c].server

\* The parts of the inductive invariant from which CallsMatch follows.

\* The calls made have the first numbers, in the order of nextId.
CallsNumbered ==
  /\ {c \in Calls : call[c] # NoCall} = 1..Made
  /\ \A c \in Calls : call[c].phase = "none" => call[c] = NoCall

\* A call waits under its own number, and its answer is of the server asked.
CallsKept ==
  /\ \A c \in Calls : pending[c] \in {0, c}
  /\ \A c \in Calls : call[c].phase = "waiting" <=> pending[c] = c
  /\ \A c \in Calls : call[c].from \in {0, call[c].server}

\* What a server has been asked is a call that was made to it.
AskedKept ==
  \A s \in Servers : \A id \in asked[s] : call[id].phase # "none" /\ call[id].server = s

LspIInv == CallTypes /\ CallsNumbered /\ CallsKept /\ AskedKept

\* What InSync needs of the text functions: both sides make the same of each
\* change to such a text that can be placed in it.
PlacesAgree(texts) ==
  \A text \in texts : \A changes \in Changes : \A unit \in Encodings :
    ChangeText(text, changes, unit) \in {Invalid, ServerText(text, changes, unit)}

\* The texts that documents may come to have: a change leads to another of
\* them, fails, or makes a text that is too long.
ClosedUnderChanges(texts) ==
  /\ Texts \subseteq texts
  /\ \A text \in texts : \A changes \in Changes : \A unit \in Encodings :
       LET next == ChangeText(text, changes, unit)
       IN next # Invalid /\ Bytes(next) <= MaxDocument => next \in texts

\* What InSync needs of the client: both sides count in the same units, and a
\* server that is not told of a document does not keep one.
DocumentKept(texts) ==
  /\ initialized => negotiated = encoding
  /\ doc # Closed => initialized /\ doc.text \in texts
  /\ child # 0 /\ copy # Closed => copy = doc

\* A proposal says what the server's edit says: all its text edits, by
\* document and in their order, all its file operations, and for each document
\* the one version any of its edits was written for; an edit that contradicts
\* itself or leaves the workspace is refused as a whole.  The items are "in the
\* order the server sent them" (lsp-client.mjs:342), except that a text edit
\* sent after a file operation comes before it.
ProposalIsExact ==
  edit # NoEdit /\ Collected =>
    Exact(edit.proposal, edit.items, Len(edit.items)) /\ InServerOrder(edit.proposal, edit.items)

\* It does at every step of the loop for the items done so far.
FileRecords ==
  [uri : UNION {item.uris : item \in Items},
   version : {item.version : item \in Items} \cup {NoVersion},
   edits : Seq(Nat)]
Proposals == [valid : BOOLEAN, operations : Seq(Nat), files : Seq(FileRecords)]

EditTypes ==
  /\ edit \in [items : Edits, done : Nat, proposal : Proposals]
  /\ edit.done <= Len(edit.items)

EditKept == edit # NoEdit => EditTypes /\ Exact(edit.proposal, edit.items, edit.done)
=============================================================================
