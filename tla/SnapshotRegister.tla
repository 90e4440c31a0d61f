-------------------------- MODULE SnapshotRegister --------------------------
(***************************************************************************)
(* What a snapshot file of the runtime promises the managers that share it *)
(* (docs/06-chat-session-api.md: "the disk keeps the version committed     *)
(* first"): a register that a manager overwrites only if it holds the      *)
(* content that manager has loaded or has itself written last.             *)
(* SnapshotStore.tla implements it with a lock directory and renames.      *)
(***************************************************************************)
CONSTANTS
  Procs,     \* the processes, one manager of the file in each
  Versions,  \* what a manager may write
  None       \* no file

VARIABLES
  content,   \* the file
  author,    \* who wrote it, None if nobody has
  known,     \* the content each manager believes to be in the file
  running    \* the processes whose manager has loaded the file

vars == <<content, author, known, running>>

Init ==
  /\ content = None
  /\ author = None
  /\ known = [p \in Procs |-> None]
  /\ running = {}

\* A manager is created and reads the file.
Load(p) ==
  /\ p \notin running
  /\ running' = running \cup {p}
  /\ known' = [known EXCEPT ![p] = content]
  /\ UNCHANGED <<content, author>>

\* The manager overwrites the content it knows.
Commit(p, v) ==
  /\ p \in running
  /\ known[p] = content
  /\ content' = v
  /\ author' = p
  /\ UNCHANGED <<known, running>>

\* It learns that its write is in place.  It need not: a write may be in place
\* and be reported as failed.
Learn(p) ==
  /\ p \in running
  /\ author = p
  /\ known' = [known EXCEPT ![p] = content]
  /\ UNCHANGED <<content, author, running>>

Stop(p) ==
  /\ running' = running \ {p}
  /\ UNCHANGED <<content, author, known>>

Next ==
  \E p \in Procs :
    \/ Load(p) \/ Learn(p) \/ Stop(p)
    \/ \E v \in Versions : Commit(p, v)

Spec == Init /\ [][Next]_vars
=============================================================================
