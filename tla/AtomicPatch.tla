---------------------------- MODULE AtomicPatch ----------------------------
(***************************************************************************)
(* What patch transactions promise whoever approves them: a patch changes  *)
(* all of its files at once, or none of them.  There are no crashes here,  *)
(* no faults and no recoveries; PatchTransaction.tla has them and          *)
(* implements this.                                                        *)
(***************************************************************************)
CONSTANTS
  Txs,      \* the patches
  Files,    \* the files of the workspace
  Contents, \* what a file may hold
  Targets,  \* the files of each patch
  Patched,  \* what each patch makes of a content, None where it does not match
  Initial,  \* the content of every file to begin with
  MayMiss,  \* whether a roll-back may miss a file
  None

VARIABLES
  content,  \* the content of each file
  status    \* "open" until the patch is over, then how it ended

vars == <<content, status>>

Init ==
  /\ content = [f \in Files |-> Initial]
  /\ status = [t \in Txs |-> "open"]

\* The files with those of fs patched.
With(t, fs) == [f \in Files |-> IF f \in fs THEN Patched[t][content[f]] ELSE content[f]]

Commit(t) ==
  /\ status[t] = "open"
  /\ \A f \in Targets[t] : Patched[t][content[f]] # None
  /\ content' = With(t, Targets[t])
  /\ status' = [status EXCEPT ![t] = "committed"]

\* Nothing has changed, but for one file at most where that cannot be excluded.
RollBack(t) ==
  /\ status[t] = "open"
  /\ \/ content' = content
     \/ MayMiss /\ \E missed \in Targets[t] : content' = With(t, {missed})
  /\ status' = [status EXCEPT ![t] = "rolled_back"]

\* A patch that is reported as rolled back is reported as committed later on,
\* because what it makes is there: in every one of its files.
Recognise(t) ==
  /\ status[t] = "rolled_back"
  /\ \A f \in Targets[t] : \E c \in Contents : content[f] = Patched[t][c]
  /\ status' = [status EXCEPT ![t] = "committed"]
  /\ UNCHANGED content

Next == \E t \in Txs : Commit(t) \/ RollBack(t) \/ Recognise(t)

Spec == Init /\ [][Next]_vars
=============================================================================
