------------------------- MODULE ProposalStoreProofs -------------------------
(***************************************************************************)
(* Proofs about ProposalStore, for any proposals, processes, number of     *)
(* crashes and failing writes.  The heart is WriteGrows: whatever becomes  *)
(* of a write, records only move on in rank, because a process that may    *)
(* write has the records of the store, or what it made of them.            *)
(***************************************************************************)
EXTENDS ProposalStore, TLAPS

USE ConstantsAssumption, NoneAssumption DEF ConstantsAssumption, NoneAssumption

\* What approvals write is a record.
LEMMA RecordTypes ==
  /\ Claimed \in Records
  /\ Claimed.status = "executing"
  /\ \A s \in Statuses : Record(s) \in Records /\ Record(s).status = s
BY DEF Claimed, Record, Records, Statuses, TERMINAL, Ended, Closed

\* Ranks are small numbers; a terminal record has the highest.
LEMMA RankType ==
  ASSUME NEW r \in Records \cup {None}
  PROVE  /\ Rank(r) \in 0..4
         /\ r = None <=> Rank(r) = 0
         /\ r # None /\ r.status \in TERMINAL <=> Rank(r) = 4
         /\ r # None /\ r.status = "awaiting_approval" <=> Rank(r) = 1
         /\ r # None /\ r.status = "executing" <=> Rank(r) = 2
         /\ r # None /\ r.status = "manual_review" <=> Rank(r) = 3
BY DEF Rank, Records, Statuses, TERMINAL, Ended, Closed

\* What a starting process makes of a record is of the same kind or later.
LEMMA RestoredType ==
  ASSUME NEW r \in Records \cup {None}
  PROVE  /\ Restored(r) \in Records \cup {None}
         /\ Rank(r) <= Rank(Restored(r))
         /\ Rank(Restored(r)) \notin {1, 2}
         /\ Rank(r) \in {0, 4} => Restored(r) = r
<1>1. CASE r = None \/ r.status \in TERMINAL
  <2>1. Restored(r) = r
    BY <1>1 DEF Restored
  <2> QED BY <1>1, <2>1, RankType
<1>2. CASE ~(r = None \/ r.status \in TERMINAL)
  <2> DEFINE why == IF r.reason = None THEN "restarted_before_terminal" ELSE r.reason
  <2>1. Restored(r) = [r EXCEPT !.status = "manual_review", !.reason = why]
    BY <1>2 DEF Restored
  <2>2. r \in Records
    BY <1>2
  <2>3. why \in Reasons
    BY <2>2 DEF Records, Reasons
  <2>4. Restored(r) \in Records /\ Restored(r).status = "manual_review"
    BY <2>1, <2>2, <2>3 DEF Records, Statuses
  <2>5. Rank(Restored(r)) = 3
    BY <2>4, RankType
  <2>6. Rank(r) \in {1, 2, 3}
    BY <1>2, <2>2, RankType
  <2> QED BY <2>4, <2>5, <2>6
<1> QED BY <1>1, <1>2

\* What a write of record r for proposal i by process p brings about, done or not.
Moves(p, i) ==
  /\ disk' \in Snapshots
  /\ mem' \in [Procs -> Snapshots]
  /\ known' \in [Procs -> Snapshots]
  /\ \A j \in Ids : Rank(disk[j]) <= Rank(disk'[j])
  /\ \A j \in Ids \ {i} : Rank(disk[j]) = 4 => disk'[j] = disk[j]
  /\ \A q \in Procs, j \in Ids : q # p \/ j # i => mem'[q][j] = mem[q][j]
  /\ KnownBehind'
  /\ MemoryIsKnown'

\* Whether it fails or not, a write of a record no earlier than the known one only
\* moves the store on.
LEMMA WriteGrows ==
  ASSUME IInv, NEW p \in up, NEW i \in Ids, NEW r \in Records,
         Rank(mem[p][i]) < Rank(r),
         Persisted(p, i, r) \/ PersistFails(p, i, r),
         up' = up
  PROVE  Moves(p, i)
<1> DEFINE new == [mem[p] EXCEPT ![i] = r]
<1>0. TypeOK /\ p \in Procs
  BY DEF IInv, TypeOK
<1>1. new \in Snapshots
  BY <1>0 DEF TypeOK, Snapshots
<1>2. ASSUME known[p] = disk
      PROVE  /\ \A j \in Ids : Rank(disk[j]) <= Rank(new[j])
             /\ Rank(disk[i]) < Rank(new[i])
             /\ \A j \in Ids \ {i} : Rank(disk[j]) = 4 => new[j] = disk[j]
  <2>1. \A j \in Ids : /\ disk[j] \in Records \cup {None}
                       /\ mem[p][j] \in Records \cup {None}
    BY <1>0 DEF TypeOK, Snapshots
  <2>2. \A j \in Ids : mem[p][j] = disk[j] \/ mem[p][j] = Restored(disk[j])
    BY <1>2 DEF IInv, MemoryIsKnown
  <2>3. \A j \in Ids : /\ Rank(disk[j]) <= Rank(mem[p][j])
                       /\ Rank(disk[j]) = 4 => mem[p][j] = disk[j]
    BY <2>1, <2>2, RestoredType, RankType
  <2>4. /\ new[i] = r
        /\ \A j \in Ids \ {i} : new[j] = mem[p][j]
    BY <1>0 DEF TypeOK, Snapshots
  <2>5. Rank(disk[i]) < Rank(r) /\ Rank(disk[i]) <= Rank(r)
    <3>1. Rank(disk[i]) \in 0..4 /\ Rank(mem[p][i]) \in 0..4 /\ Rank(r) \in 0..4
      BY <2>1, RankType
    <3>2. Rank(disk[i]) <= Rank(mem[p][i]) /\ Rank(mem[p][i]) < Rank(r)
      BY <2>3
    <3> QED BY <3>1, <3>2
  <2> QED BY <2>3, <2>4, <2>5
<1>3. \A q \in Procs, j \in Ids :
         /\ disk[j] \in Records \cup {None} /\ Rank(disk[j]) \in 0..4
         /\ known[q][j] \in Records \cup {None} /\ Rank(known[q][j]) \in 0..4
         /\ Rank(known[q][j]) <= Rank(disk[j])
  BY <1>0, RankType DEF TypeOK, Snapshots, IInv, KnownBehind
<1>4. \A j \in Ids : new[j] \in Records \cup {None} /\ Rank(new[j]) \in 0..4
  BY <1>1, RankType DEF Snapshots
\* Whoever's digest was that of an earlier content is behind the new one.
<1>5. ASSUME known[p] = disk, NEW q \in Procs PROVE known[q] # new
  <2> SUFFICES ASSUME known[q] = new PROVE FALSE
    OBVIOUS
  <2>1. Rank(new[i]) <= Rank(disk[i]) /\ Rank(disk[i]) < Rank(new[i])
    BY <1>2, <1>3, <1>5
  <2> QED BY <1>3, <1>4, <2>1
<1>6. CASE Persisted(p, i, r)
  <2>1. /\ known[p] = disk /\ disk' = new
        /\ mem' = [mem EXCEPT ![p] = new] /\ known' = [known EXCEPT ![p] = new]
    BY <1>6 DEF Persisted
  <2>2. mem' \in [Procs -> Snapshots] /\ known' \in [Procs -> Snapshots]
    BY <1>0, <1>1, <2>1 DEF TypeOK
  <2>3. \A q \in Procs, j \in Ids : q # p \/ j # i => mem'[q][j] = mem[q][j]
    BY <1>0, <2>1 DEF TypeOK, Snapshots
  <2>4. \A q \in Procs : known'[q] = IF q = p THEN new ELSE known[q]
    BY <1>0, <2>1 DEF TypeOK
  <2>5. KnownBehind'
    BY <1>2, <1>3, <1>4, <2>1, <2>4 DEF KnownBehind
  <2>6. MemoryIsKnown'
    <3> SUFFICES ASSUME NEW q \in up, known'[q] = new, NEW j \in Ids
                 PROVE  mem'[q][j] = new[j]
      BY <2>1 DEF MemoryIsKnown
    <3>1. q \in Procs
      BY <1>0 DEF TypeOK
    <3>2. q = p
      BY <1>5, <2>1, <2>4, <3>1
    <3> QED BY <1>0, <2>1, <3>2 DEF TypeOK
  <2> QED BY <1>1, <1>2, <2>1, <2>2, <2>3, <2>5, <2>6 DEF Moves
<1>7. CASE PersistFails(p, i, r)
  <2>1. CASE UNCHANGED store
    <3>1. KnownBehind' /\ MemoryIsKnown'
      BY <2>1 DEF store, IInv, KnownBehind, MemoryIsKnown
    <3> QED BY <1>0, <1>3, <2>1, <3>1 DEF store, Moves, TypeOK
  <2>2. CASE known[p] = disk /\ disk' = new /\ UNCHANGED <<mem, known>>
    <3>1. KnownBehind'
      BY <1>2, <1>3, <1>4, <2>2 DEF KnownBehind
    <3>2. MemoryIsKnown'
      BY <1>0, <1>5, <2>2 DEF MemoryIsKnown, TypeOK
    <3> QED BY <1>0, <1>1, <1>2, <2>2, <3>1, <3>2 DEF Moves, TypeOK
  <2> QED BY <1>7, <2>1, <2>2 DEF PersistFails
<1> QED BY <1>6, <1>7

\* The initial state satisfies the invariant.
LEMMA InitHolds == Init => IInv
<1> SUFFICES ASSUME Init PROVE IInv
    OBVIOUS
<1>1. NoRecords \in Snapshots
  BY DEF NoRecords, Snapshots
<1>2. TypeOK
  <2>1. overlapped \in BOOLEAN
    BY DEF Init
  <2>2. disk \in Snapshots /\ mem \in [Procs -> Snapshots] /\ known \in [Procs -> Snapshots]
    BY <1>1 DEF Init
  <2>3. /\ up \in SUBSET Procs /\ open \in [Procs -> SUBSET Ids]
        /\ run \in [Procs -> [Ids -> Stages]] /\ ran \in [Ids -> Nat]
        /\ crashes \in 0..MaxCrashes
    BY DEF Init, Stages
  <2> QED BY <2>1, <2>2, <2>3 DEF TypeOK
<1>3. KnownBehind
  <2>1. \A i \in Ids : Rank(NoRecords[i]) = 0
    BY RankType DEF NoRecords
  <2>2. \A p \in Procs : known[p] = NoRecords /\ disk = NoRecords
    BY DEF Init
  <2>3. \A p \in Procs, i \in Ids : Rank(known[p][i]) = 0 /\ Rank(disk[i]) = 0
    BY <2>1, <2>2
  <2> QED BY <2>3 DEF KnownBehind
<1>4. MemoryIsKnown /\ ClaimHeld /\ OneClaim /\ RanOnce
  BY DEF Init, MemoryIsKnown, ClaimHeld, OneClaim, RanOnce
<1> QED BY <1>2, <1>3, <1>4 DEF IInv

\* A process that may execute a claim has what the claim says in memory.
LEMMA ClaimFacts ==
  ASSUME IInv, NEW p \in Procs, NEW i \in Ids, run[p][i] # "none"
  PROVE  p \in up /\ mem[p][i] = Claimed /\ Rank(mem[p][i]) = 2
BY RecordTypes, RankType DEF IInv, ClaimHeld

\* Records move on in every step.
LEMMA RecordsGrow ==
  ASSUME IInv, [Next]_vars
  PROVE  /\ \A i \in Ids : Rank(disk[i]) <= Rank(disk'[i])
         /\ \A i \in Ids : Rank(disk[i]) = 4 => disk'[i] = disk[i]
         /\ disk' \in Snapshots
         /\ mem' \in [Procs -> Snapshots]
         /\ known' \in [Procs -> Snapshots]
         /\ KnownBehind'
         /\ MemoryIsKnown'
<1> DEFINE G == /\ \A i \in Ids : Rank(disk[i]) <= Rank(disk'[i])
                /\ \A i \in Ids : Rank(disk[i]) = 4 => disk'[i] = disk[i]
                /\ disk' \in Snapshots
                /\ mem' \in [Procs -> Snapshots]
                /\ known' \in [Procs -> Snapshots]
                /\ KnownBehind'
                /\ MemoryIsKnown'
<1>0. /\ TypeOK
      /\ up \subseteq Procs
      /\ \A j \in Ids : disk[j] \in Records \cup {None} /\ Rank(disk[j]) \in 0..4
      /\ \A j \in Ids, q \in Procs :
           mem[q][j] \in Records \cup {None} /\ Rank(mem[q][j]) \in 0..4
  BY RankType DEF IInv, TypeOK, Snapshots
\* A step that leaves the store alone.
<1>s. ASSUME UNCHANGED store, up' = up PROVE G
  <2>1. KnownBehind'
    BY <1>s DEF store, IInv, KnownBehind
  <2>2. MemoryIsKnown'
    BY <1>s DEF store, IInv, MemoryIsKnown
  <2>3. disk' = disk /\ mem' = mem /\ known' = known
    BY <1>s DEF store
  <2>4. disk' \in Snapshots /\ mem' \in [Procs -> Snapshots] /\ known' \in [Procs -> Snapshots]
    BY <1>0, <2>3 DEF TypeOK
  <2> QED BY <1>0, <2>1, <2>2, <2>3, <2>4
\* A write of a record of higher rank than the one in memory.
<1>w. ASSUME NEW p \in up, NEW i \in Ids, NEW r \in Records,
             Rank(mem[p][i]) < Rank(r), Rank(mem[p][i]) < 4,
             Persisted(p, i, r) \/ PersistFails(p, i, r), up' = up
      PROVE  G
  <2>1. Moves(p, i)
    BY <1>w, WriteGrows
  <2>2. Rank(disk[i]) = 4 => disk'[i] = disk[i]
    <3>1. CASE disk' = disk
      BY <3>1
    <3>2. CASE known[p] = disk
      <4>1. mem[p][i] = disk[i] \/ mem[p][i] = Restored(disk[i])
        BY <3>2 DEF IInv, MemoryIsKnown
      <4>2. Rank(disk[i]) # 4
        BY <1>0, <1>w, <4>1, RestoredType
      <4> QED BY <4>2
    <3> QED BY <1>w, <3>1, <3>2 DEF Persisted, PersistFails, store
  <2> QED BY <2>1, <2>2 DEF Moves
<1>1. ASSUME NEW p \in Procs, Start(p) PROVE G
  <2>1. up' = up \cup {p} /\ disk' = disk
    BY <1>1 DEF Start
  <2> DEFINE seen == [i \in Ids |-> Restored(disk[i])]
  <2>2. seen \in Snapshots
    BY <1>0, RestoredType DEF Snapshots
  <2>3. mem' = [mem EXCEPT ![p] = seen] /\ known' = [known EXCEPT ![p] = disk]
    BY <1>1 DEF Start
  <2>4. mem' \in [Procs -> Snapshots] /\ known' \in [Procs -> Snapshots]
    BY <1>0, <2>2, <2>3 DEF TypeOK
  <2>5. \A q \in Procs : /\ known'[q] = IF q = p THEN disk ELSE known[q]
                         /\ mem'[q] = IF q = p THEN seen ELSE mem[q]
    BY <1>0, <2>3 DEF TypeOK
  <2>6. KnownBehind'
    <3>1. ASSUME NEW q \in Procs, NEW i \in Ids PROVE Rank(known'[q][i]) <= Rank(disk[i])
      <4>1. CASE q = p
        <5>1. known'[q] = disk
          BY <2>5, <4>1
        <5>2. disk[i] \in Records \cup {None}
          BY <1>0 DEF TypeOK, Snapshots
        <5> QED BY <5>1, <5>2, RankType
      <4>2. CASE q # p
        BY <2>5, <4>2 DEF KnownBehind, IInv
      <4> QED BY <4>1, <4>2
    <3>2. \A q \in Procs, i \in Ids : Rank(known'[q][i]) <= Rank(disk'[i])
      BY <2>1, <3>1
    <3> QED BY <3>2 DEF KnownBehind
  <2>7. MemoryIsKnown'
    <3> SUFFICES ASSUME NEW q \in up', known'[q] = disk, NEW i \in Ids
                 PROVE  mem'[q][i] \in {disk[i], Restored(disk[i])}
      BY <2>1 DEF MemoryIsKnown
    <3>1. CASE q = p
      BY <1>0, <2>5, <3>1
    <3>2. CASE q # p
      BY <1>0, <2>1, <2>5, <3>2 DEF MemoryIsKnown, IInv
    <3> QED BY <3>1, <3>2
  <2> QED BY SMTT(30), <1>0, <2>1, <2>4, <2>6, <2>7 DEF TypeOK
<1>2. ASSUME NEW p \in Procs, Crash(p) PROVE G
  <2>1. up' = up \ {p} /\ disk' = disk
    BY <1>2 DEF Crash
  <2>2. NoRecords \in Snapshots /\ \A i \in Ids : Rank(NoRecords[i]) = 0
    BY RankType DEF NoRecords, Snapshots
  <2>3. mem' = [mem EXCEPT ![p] = NoRecords] /\ known' = [known EXCEPT ![p] = NoRecords]
    BY <1>2 DEF Crash
  <2>4. mem' \in [Procs -> Snapshots] /\ known' \in [Procs -> Snapshots]
    BY <1>0, <2>2, <2>3 DEF TypeOK
  <2>5. \A q \in Procs : /\ known'[q] = IF q = p THEN NoRecords ELSE known[q]
                         /\ mem'[q] = IF q = p THEN NoRecords ELSE mem[q]
    BY <1>0, <2>3 DEF TypeOK
  <2>6. KnownBehind'
    BY <1>0, <2>1, <2>2, <2>5 DEF KnownBehind, IInv
  <2>7. MemoryIsKnown'
    BY <1>0, <2>1, <2>5 DEF MemoryIsKnown, IInv
  <2> QED BY SMTT(30), <1>0, <2>1, <2>4, <2>6, <2>7 DEF TypeOK
<1>3. ASSUME NEW p \in Procs, NEW i \in Ids, Create(p, i) PROVE G
  <2>1. /\ p \in up /\ up' = up /\ mem[p][i] = None
        /\ \/ Persisted(p, i, Record("awaiting_approval"))
           \/ PersistFails(p, i, Record("awaiting_approval"))
    BY <1>3 DEF Create
  <2>2. /\ Record("awaiting_approval") \in Records
        /\ Rank(Record("awaiting_approval")) = 1
    BY RecordTypes, RankType DEF Statuses
  <2>3. Rank(mem[p][i]) = 0
    BY <2>1, RankType
  <2> QED BY <1>w, <2>1, <2>2, <2>3
<1>4. ASSUME NEW p \in Procs, NEW i \in Ids, Claim(p, i) PROVE G
  <2>1. /\ p \in up /\ up' = up /\ Has(p, i, "awaiting_approval")
        /\ Persisted(p, i, Claimed) \/ PersistFails(p, i, Claimed)
    BY <1>4 DEF Claim
  <2>2. Claimed \in Records /\ Rank(Claimed) = 2
    BY RecordTypes, RankType
  <2>3. Rank(mem[p][i]) = 1
    BY <1>0, <2>1, RankType DEF Has
  <2> QED BY <1>w, <2>1, <2>2, <2>3
<1>5. ASSUME NEW p \in Procs, NEW i \in Ids, Precheck(p, i) PROVE G
  BY <1>5, <1>s DEF Precheck
<1>6. ASSUME NEW p \in Procs, NEW i \in Ids, Execute(p, i) PROVE G
  BY <1>6, <1>s DEF Execute
<1>7. ASSUME NEW p \in Procs, NEW i \in Ids, Finish(p, i) PROVE G
  BY <1>7, <1>s DEF Finish
\* The end of an approval: its record has rank 2 and moves on.
<1>e. ASSUME NEW p \in Procs, NEW i \in Ids, NEW r \in Records, Rank(r) \in {3, 4},
             run[p][i] # "none", Persisted(p, i, r) \/ PersistFails(p, i, r), up' = up
      PROVE  G
  BY <1>e, <1>w, ClaimFacts
<1>8. ASSUME NEW p \in Procs, NEW i \in Ids, RecordVerified(p, i) PROVE G
  <2>1. Record("verified") \in Records /\ Rank(Record("verified")) = 4
    BY RecordTypes, RankType DEF Statuses, TERMINAL, Ended
  <2> QED BY <1>8, <1>e, <2>1 DEF RecordVerified
<1>9. ASSUME NEW p \in Procs, NEW i \in Ids, RecordFailed(p, i) PROVE G
  <2>1. Record("failed") \in Records /\ Rank(Record("failed")) = 4
    BY RecordTypes, RankType DEF Statuses, TERMINAL, Ended
  <2> QED BY <1>9, <1>e, <2>1 DEF RecordFailed
<1>10. ASSUME NEW p \in Procs, NEW i \in Ids, RecordReview(p, i) PROVE G
  <2> DEFINE r == [Claimed EXCEPT !.status = "manual_review",
                                  !.reason = "approval_precondition_failed"]
  <2>1. r \in Records /\ r.status = "manual_review"
    BY RecordTypes DEF Records, Statuses, Reasons
  <2>2. Rank(r) = 3
    BY <2>1, RankType
  <2>3. /\ run[p][i] # "none" /\ up' = up
        /\ Persisted(p, i, r) \/ PersistFails(p, i, r)
    BY <1>10 DEF RecordReview
  <2> QED BY <1>e, <2>1, <2>2, <2>3
<1>11. ASSUME NEW p \in Procs, NEW i \in Ids, NEW closed \in Closed, Reject(p, i, closed)
       PROVE  G
  <2>1. /\ p \in up /\ up' = up
        /\ Has(p, i, "awaiting_approval") \/ Has(p, i, "manual_review")
        /\ Persisted(p, i, Record(closed)) \/ PersistFails(p, i, Record(closed))
    BY <1>11 DEF Reject
  <2>2. Record(closed) \in Records /\ Rank(Record(closed)) = 4
    BY RecordTypes, RankType DEF Statuses, TERMINAL, Closed
  <2>3. Rank(mem[p][i]) \in {1, 3}
    BY <1>0, <2>1, RankType DEF Has
  <2> QED BY <1>w, <2>1, <2>2, <2>3
<1>12. CASE UNCHANGED vars
  BY <1>12, <1>s DEF vars
<1> QED BY <1>1, <1>2, <1>3, <1>4, <1>5, <1>6, <1>7, <1>8, <1>9, <1>10, <1>11, <1>12
        DEF Next, Continue

\* The types of the variables that are not of the store.
LEMMA TypeStep == ASSUME IInv, [Next]_vars PROVE TypeOK'
<1>1. disk' \in Snapshots /\ mem' \in [Procs -> Snapshots] /\ known' \in [Procs -> Snapshots]
  BY RecordsGrow
<1> DEFINE T == /\ up' \in SUBSET Procs
                /\ open' \in [Procs -> SUBSET Ids]
                /\ run' \in [Procs -> [Ids -> Stages]]
                /\ ran' \in [Ids -> Nat]
                /\ crashes' \in 0..MaxCrashes
                /\ overlapped' \in BOOLEAN
<1> SUFFICES T
  BY <1>1 DEF TypeOK
<1>0. TypeOK
  BY DEF IInv
<1> USE DEF TypeOK, Stages
<1>2. ASSUME NEW p \in Procs, Start(p) PROVE T
  BY <1>0, <1>2 DEF Start
<1>3. ASSUME NEW p \in Procs, Crash(p) PROVE T
  <2>1. crashes' \in 0..MaxCrashes
    BY <1>0, <1>3 DEF Crash
  <2> QED BY <1>0, <1>3, <2>1 DEF Crash
<1>4. ASSUME NEW p \in Procs, NEW i \in Ids, Create(p, i) PROVE T
  <2>1. open' = open \/ open' = [open EXCEPT ![p] = @ \cup {i}]
    BY <1>4 DEF Create
  <2>2. open' \in [Procs -> SUBSET Ids]
    BY <1>0, <2>1
  <2>3. /\ up' = up /\ run' = run /\ ran' = ran /\ crashes' = crashes
        /\ overlapped' = overlapped
    BY <1>4 DEF Create
  <2> QED BY <1>0, <2>2, <2>3
<1>5. ASSUME NEW p \in Procs, NEW i \in Ids, Claim(p, i) PROVE T
  <2>1. run' = run \/ run' = [run EXCEPT ![p][i] = "claimed"]
    BY <1>5 DEF Claim
  <2>2. run' \in [Procs -> [Ids -> Stages]]
    <3>1. [run EXCEPT ![p][i] = "claimed"] \in [Procs -> [Ids -> Stages]]
      BY <1>0
    <3> QED BY <1>0, <2>1, <3>1
  <2>3. /\ up' = up /\ open' = open /\ ran' = ran /\ crashes' = crashes
        /\ overlapped' = overlapped
    BY <1>5 DEF Claim
  <2> QED BY <1>0, <2>2, <2>3
<1>6. ASSUME NEW p \in Procs, NEW i \in Ids, Precheck(p, i) PROVE T
  BY <1>0, <1>6 DEF Precheck
<1>7. ASSUME NEW p \in Procs, NEW i \in Ids, Execute(p, i) PROVE T
  BY <1>0, <1>7 DEF Execute
<1>8. ASSUME NEW p \in Procs, NEW i \in Ids, Finish(p, i) PROVE T
  <2>1. PICK s \in Ended \cup {"review"} : run' = [run EXCEPT ![p][i] = s]
    BY <1>8 DEF Finish
  <2>2. run' \in [Procs -> [Ids -> Stages]]
    BY <1>0, <2>1 DEF Ended
  <2>3. /\ up' = up /\ open' = open /\ ran' = ran /\ crashes' = crashes
        /\ overlapped' = overlapped
    BY <1>8 DEF Finish
  <2> QED BY <1>0, <2>2, <2>3
<1>9. ASSUME NEW p \in Procs, NEW i \in Ids, RecordVerified(p, i) PROVE T
  <2>1. \/ run' = [run EXCEPT ![p][i] = "none"]
        \/ run' = [run EXCEPT ![p][i] = "review"]
    BY <1>9 DEF RecordVerified
  <2>2. run' \in [Procs -> [Ids -> Stages]]
    <3>1. [run EXCEPT ![p][i] = "none"] \in [Procs -> [Ids -> Stages]]
      BY <1>0
    <3>2. [run EXCEPT ![p][i] = "review"] \in [Procs -> [Ids -> Stages]]
      BY <1>0
    <3> QED BY <2>1, <3>1, <3>2
  <2>3. open' = open \/ open' = [open EXCEPT ![p] = @ \ {i}]
    BY <1>9 DEF RecordVerified
  <2>4. open' \in [Procs -> SUBSET Ids]
    BY <1>0, <2>3
  <2>5. /\ up' = up /\ ran' = ran /\ crashes' = crashes
        /\ overlapped' = overlapped
    BY <1>9 DEF RecordVerified
  <2> QED BY <1>0, <2>2, <2>4, <2>5
<1>10. ASSUME NEW p \in Procs, NEW i \in Ids, RecordFailed(p, i) PROVE T
  BY <1>0, <1>10 DEF RecordFailed
<1>11. ASSUME NEW p \in Procs, NEW i \in Ids, RecordReview(p, i) PROVE T
  BY <1>0, <1>11 DEF RecordReview
<1>12. ASSUME NEW p \in Procs, NEW i \in Ids, NEW closed \in Closed, Reject(p, i, closed)
       PROVE  T
  BY <1>0, <1>12 DEF Reject
<1>13. CASE UNCHANGED vars
  BY <1>0, <1>13 DEF vars
<1> QED BY <1>2, <1>3, <1>4, <1>5, <1>6, <1>7, <1>8, <1>9, <1>10, <1>11, <1>12, <1>13
        DEF Next, Continue

\* What a write of p for i leaves as it is.
LEMMA OthersKept ==
  ASSUME TypeOK, NEW p \in Procs, NEW i \in Ids, NEW r,
         Persisted(p, i, r) \/ PersistFails(p, i, r)
  PROVE  \A q \in Procs, j \in Ids : q # p \/ j # i => mem'[q][j] = mem[q][j]
<1>1. CASE mem' = mem
  BY <1>1
<1>2. CASE mem' = [mem EXCEPT ![p] = [mem[p] EXCEPT ![i] = r]]
  BY <1>2 DEF TypeOK, Snapshots
<1> QED BY <1>1, <1>2 DEF Persisted, PersistFails, store

\* The approvals keep their claims, one for each proposal, and execute once.
LEMMA ApprovalStep == ASSUME IInv, [Next]_vars PROVE ClaimHeld' /\ OneClaim' /\ RanOnce'
<1> DEFINE A == ClaimHeld' /\ OneClaim' /\ RanOnce'
<1> SUFFICES A
  OBVIOUS
<1>0. /\ TypeOK /\ TypeOK'
      /\ \A i \in Ids : /\ Rank(disk[i]) <= Rank(disk'[i])
                        /\ Rank(disk[i]) \in Int /\ Rank(disk'[i]) \in Int
  BY RecordsGrow, TypeStep, RankType DEF IInv, TypeOK, Snapshots
<1>c. ClaimHeld /\ OneClaim /\ RanOnce
  BY DEF IInv
\* A step that begins no approval and executes nothing: every approval under way
\* was so before, and its memory is untouched.
<1>k. ASSUME \A p \in Procs, i \in Ids : run'[p][i] # "none" =>
               /\ run[p][i] # "none"
               /\ run'[p][i] = "claimed" => run[p][i] = "claimed"
               /\ p \in up'
               /\ mem'[p][i] = mem[p][i],
             ran' = ran
      PROVE  A
  <2>1. ClaimHeld'
    BY <1>0, <1>c, <1>k DEF ClaimHeld
  <2>2. OneClaim'
    BY <1>c, <1>k DEF OneClaim
  <2>3. RanOnce'
    BY <1>0, <1>c, <1>k DEF RanOnce
  <2> QED BY <2>1, <2>2, <2>3
\* A step of the approval of i in p, other than its beginning and its execution.
<1>a. ASSUME NEW p \in Procs, NEW i \in Ids, NEW s \in Stages \ {"claimed"},
             run[p][i] # "none", run' = [run EXCEPT ![p][i] = s], up' = up, ran' = ran,
             \A q \in Procs, j \in Ids : q # p \/ j # i => mem'[q][j] = mem[q][j],
             s # "none" => mem' = mem
      PROVE  A
  <2>1. \A q \in Procs, j \in Ids :
          run'[q][j] = IF q = p /\ j = i THEN s ELSE run[q][j]
    BY <1>0, <1>a DEF TypeOK
  <2>2. \A q \in Procs, j \in Ids : run[q][j] # "none" => q \in up
    BY <1>c DEF ClaimHeld
  <2> QED BY <1>a, <1>k, <2>1, <2>2
<1>1. ASSUME NEW p \in Procs, Start(p) PROVE A
  <2>1. \A q \in Procs, i \in Ids : run[q][i] # "none" => q # p /\ q \in up
    BY <1>1, <1>c DEF Start, ClaimHeld
  <2>2. \A q \in Procs \ {p} : mem'[q] = mem[q]
    BY <1>0, <1>1 DEF Start, TypeOK
  <2> QED BY <1>1, <1>k, <2>1, <2>2 DEF Start
<1>2. ASSUME NEW p \in Procs, Crash(p) PROVE A
  <2>1. \A q \in Procs, i \in Ids :
          run'[q][i] = IF q = p THEN "none" ELSE run[q][i]
    BY <1>0, <1>2 DEF Crash, TypeOK
  <2>2. \A q \in Procs \ {p} : mem'[q] = mem[q]
    BY <1>0, <1>2 DEF Crash, TypeOK
  <2>3. \A q \in Procs, i \in Ids : run[q][i] # "none" => q \in up
    BY <1>c DEF ClaimHeld
  <2> QED BY <1>2, <1>k, <2>1, <2>2, <2>3 DEF Crash
<1>3. ASSUME NEW p \in Procs, NEW i \in Ids, Create(p, i) PROVE A
  <2>1. \A q \in Procs, j \in Ids : run[q][j] # "none" => q \in up /\ mem[q][j] # None
    BY <1>c, RecordTypes DEF ClaimHeld
  <2>2. \A q \in Procs, j \in Ids : q # p \/ j # i => mem'[q][j] = mem[q][j]
    BY <1>0, <1>3, OthersKept DEF Create
  <2> QED BY <1>3, <1>k, <2>1, <2>2 DEF Create
<1>4. ASSUME NEW p \in Procs, NEW i \in Ids, Claim(p, i) PROVE A
  <2>0. /\ p \in up /\ up' = up /\ ran' = ran /\ Has(p, i, "awaiting_approval")
        /\ Persisted(p, i, Claimed) \/ PersistFails(p, i, Claimed)
    BY <1>4 DEF Claim
  <2>1. \A q \in Procs, j \in Ids : run[q][j] # "none" => q \in up /\ ~(q = p /\ j = i)
    BY <1>c, <2>0, RecordTypes DEF ClaimHeld, Has
  <2>2. \A q \in Procs, j \in Ids : q # p \/ j # i => mem'[q][j] = mem[q][j]
    BY <1>0, <2>0, OthersKept
  <2>3. CASE run' = run
    BY <1>k, <2>0, <2>1, <2>2, <2>3
  <2>4. CASE Persisted(p, i, Claimed) /\ run' = [run EXCEPT ![p][i] = "claimed"]
    <3>1. known[p] = disk /\ disk' = mem'[p] /\ mem'[p][i] = Claimed
      BY <1>0, <2>4 DEF Persisted, TypeOK, Snapshots
    \* The record on disk waits for approval: nobody has claimed it.
    <3>2. Rank(disk[i]) = 1
      <4>1. mem[p][i] = disk[i] \/ mem[p][i] = Restored(disk[i])
        BY <2>0, <3>1 DEF IInv, MemoryIsKnown
      <4>2. disk[i] \in Records \cup {None} /\ mem[p][i] \in Records \cup {None}
        BY <1>0 DEF TypeOK, Snapshots
      <4>3. Rank(mem[p][i]) = 1
        BY <2>0, <4>2, RankType DEF Has
      <4> QED BY <4>1, <4>2, <4>3, RestoredType
    <3>3. /\ \A q \in Procs : run[q][i] = "none"
          /\ ran[i] = 0
      BY <1>c, <3>2 DEF ClaimHeld, RanOnce
    <3>4. \A q \in Procs, j \in Ids :
            run'[q][j] = IF q = p /\ j = i THEN "claimed" ELSE run[q][j]
      BY <1>0, <2>4 DEF TypeOK
    <3>5. Rank(disk'[i]) = 2
      BY <3>1, RecordTypes, RankType
    <3>6. ClaimHeld'
      <4> SUFFICES ASSUME NEW q \in Procs, NEW j \in Ids, run'[q][j] # "none"
                   PROVE  q \in up /\ mem'[q][j] = Claimed /\ Rank(disk'[j]) >= 2
        BY <2>0 DEF ClaimHeld
      <4>1. CASE q = p /\ j = i
        BY <2>0, <3>1, <3>5, <4>1
      <4>2. CASE ~(q = p /\ j = i)
        BY <1>0, <1>c, <2>2, <3>4, <4>2 DEF ClaimHeld
      <4> QED BY <4>1, <4>2
    <3>7. OneClaim'
      BY <1>c, <3>3, <3>4 DEF OneClaim
    <3>8. RanOnce'
      BY <1>0, <1>c, <2>0, <3>3, <3>4 DEF RanOnce
    <3> QED BY <3>6, <3>7, <3>8
  <2> QED BY <1>4, <2>3, <2>4 DEF Claim
<1>5. ASSUME NEW p \in Procs, NEW i \in Ids, Precheck(p, i) PROVE A
  BY <1>5, <1>a DEF Precheck, store, Stages
<1>6. ASSUME NEW p \in Procs, NEW i \in Ids, Execute(p, i) PROVE A
  <2>1. \A q \in Procs, j \in Ids :
          run'[q][j] = IF q = p /\ j = i THEN "executing" ELSE run[q][j]
    BY <1>0, <1>6 DEF Execute, TypeOK
  <2>2. /\ run[p][i] = "claimed"
        /\ disk' = disk /\ mem' = mem /\ up' = up
        /\ \A j \in Ids : ran'[j] = IF j = i THEN ran[i] + 1 ELSE ran[j]
    BY <1>0, <1>6 DEF Execute, store, TypeOK
  <2>3. ClaimHeld' /\ OneClaim'
    BY <1>c, <2>1, <2>2 DEF ClaimHeld, OneClaim
  <2>4. ran[i] = 0 /\ Rank(disk[i]) >= 2
    BY <1>c, <2>2 DEF RanOnce, ClaimHeld
  <2>5. \A q \in Procs : run'[q][i] # "claimed"
    BY <1>c, <2>1, <2>2 DEF OneClaim
  <2>6. RanOnce'
    BY <1>c, <2>1, <2>2, <2>4, <2>5 DEF RanOnce
  <2> QED BY <2>3, <2>6
<1>7. ASSUME NEW p \in Procs, NEW i \in Ids, Finish(p, i) PROVE A
  <2>1. PICK s \in Ended \cup {"review"} : run' = [run EXCEPT ![p][i] = s]
    BY <1>7 DEF Finish
  <2>2. s \in Stages \ {"claimed"} /\ mem' = mem
    BY <1>7 DEF Finish, Ended, Stages, store
  <2> QED BY <1>7, <1>a, <2>1, <2>2 DEF Finish
<1>8. ASSUME NEW p \in Procs, NEW i \in Ids, RecordVerified(p, i) PROVE A
  <2>1. \A q \in Procs, j \in Ids : q # p \/ j # i => mem'[q][j] = mem[q][j]
    BY <1>0, <1>8, OthersKept DEF RecordVerified
  <2>2. CASE run' = [run EXCEPT ![p][i] = "none"]
    BY <1>8, <1>a, <2>1, <2>2 DEF RecordVerified, Stages
  <2>3. CASE mem' = mem /\ run' = [run EXCEPT ![p][i] = "review"]
    BY <1>8, <1>a, <2>1, <2>3 DEF RecordVerified, Stages
  <2> QED BY <1>8, <2>2, <2>3 DEF RecordVerified, PersistFails, store
<1>9. ASSUME NEW p \in Procs, NEW i \in Ids, RecordFailed(p, i) PROVE A
  <2>1. \A q \in Procs, j \in Ids : q # p \/ j # i => mem'[q][j] = mem[q][j]
    BY <1>0, <1>9, OthersKept DEF RecordFailed
  <2> QED BY <1>9, <1>a, <2>1 DEF RecordFailed, Stages
<1>10. ASSUME NEW p \in Procs, NEW i \in Ids, RecordReview(p, i) PROVE A
  <2>1. \A q \in Procs, j \in Ids : q # p \/ j # i => mem'[q][j] = mem[q][j]
    BY <1>0, <1>10, OthersKept DEF RecordReview
  <2> QED BY <1>10, <1>a, <2>1 DEF RecordReview, Stages
<1>11. ASSUME NEW p \in Procs, NEW i \in Ids, NEW closed \in Closed, Reject(p, i, closed)
       PROVE  A
  <2>1. \A q \in Procs, j \in Ids : q # p \/ j # i => mem'[q][j] = mem[q][j]
    BY <1>0, <1>11, OthersKept DEF Reject
  <2>2. \A q \in Procs, j \in Ids : run[q][j] # "none" => q \in up /\ ~(q = p /\ j = i)
    BY <1>11, <1>c, RecordTypes DEF Reject, ClaimHeld, Has
  <2> QED BY <1>11, <1>k, <2>1, <2>2 DEF Reject
<1>12. CASE UNCHANGED vars
  BY <1>12, <1>c DEF vars, store, ClaimHeld, OneClaim, RanOnce
<1> QED BY <1>1, <1>2, <1>3, <1>4, <1>5, <1>6, <1>7, <1>8, <1>9, <1>10, <1>11, <1>12
        DEF Next, Continue

\* IInv is an invariant.
THEOREM Invariance == Spec => []IInv
<1>1. IInv /\ [Next]_vars => IInv'
  BY RecordsGrow, TypeStep, ApprovalStep DEF IInv
<1> QED BY InitHolds, <1>1, PTL DEF Spec

\* The variables keep to their types.
THEOREM TypeCorrect == Spec => []TypeOK
<1>1. IInv => TypeOK
  BY DEF IInv
<1> QED BY Invariance, <1>1, PTL

\* No proposal is executed twice.
THEOREM RunsOnceTheorem == Spec => []RunsOnce
<1>1. IInv => RunsOnce
  BY DEF IInv, RanOnce, RunsOnce
<1> QED BY Invariance, <1>1, PTL

\* A proposal that has been executed is on disk, and not as one that waits.
THEOREM RunIsDurableTheorem == Spec => []RunIsDurable
<1>1. ASSUME IInv PROVE RunIsDurable
  <2> SUFFICES ASSUME NEW i \in Ids, ran[i] > 0
               PROVE  disk[i] # None /\ disk[i].status # "awaiting_approval"
    BY DEF RunIsDurable
  <2>1. Rank(disk[i]) >= 2
    BY <1>1 DEF IInv, RanOnce
  <2>2. disk[i] \in Records \cup {None}
    BY <1>1 DEF IInv, TypeOK, Snapshots
  <2> QED BY <2>1, <2>2, RankType
<1> QED BY Invariance, <1>1, PTL

\* What has ended stays as it ended, and no proposal gets lost.
THEOREM EndIsFinalTheorem == Spec => EndIsFinal
<1> DEFINE A == \A i \in Ids :
                  disk[i] # None =>
                    /\ disk'[i] # None
                    /\ disk[i].status \in TERMINAL => disk'[i] = disk[i]
<1>1. ASSUME IInv, [Next]_vars PROVE A
  <2> SUFFICES ASSUME NEW i \in Ids, disk[i] # None
               PROVE  /\ disk'[i] # None
                      /\ disk[i].status \in TERMINAL => disk'[i] = disk[i]
    OBVIOUS
  <2>1. /\ disk[i] \in Records \cup {None} /\ disk'[i] \in Records \cup {None}
        /\ Rank(disk[i]) <= Rank(disk'[i])
        /\ Rank(disk[i]) = 4 => disk'[i] = disk[i]
    BY <1>1, RecordsGrow DEF IInv, TypeOK, Snapshots
  <2>2. Rank(disk[i]) # 0 /\ Rank(disk[i]) \in 0..4 /\ Rank(disk'[i]) \in 0..4
    BY <2>1, RankType
  <2>3. disk[i].status \in TERMINAL => Rank(disk[i]) = 4
    BY <2>1, RankType
  <2>4. disk'[i] # None
    BY <2>1, <2>2, RankType
  <2> QED BY <2>1, <2>3, <2>4
<1>2. IInv /\ [Next]_vars => [A]_vars
  BY <1>1
<1> QED BY <1>2, Invariance, PTL DEF Spec, EndIsFinal

(***************************************************************************)
(* An execution starts from a claim on disk.                               *)
(***************************************************************************)

\* As long as no server is started while another one runs, a claim that has not
\* been worked off is on disk.
ClaimOnDisk ==
  ~overlapped =>
    /\ \A p, q \in up : p = q
    /\ \A p \in Procs, i \in Ids : run[p][i] = "claimed" => disk[i] = Claimed

\* A write of p for i leaves the other claims of p on disk.
LEMMA WriteKeepsClaims ==
  ASSUME TypeOK, NEW p \in Procs, NEW i \in Ids, NEW r,
         Persisted(p, i, r) \/ PersistFails(p, i, r),
         NEW j \in Ids \ {i}, mem[p][j] = Claimed, disk[j] = Claimed
  PROVE  disk'[j] = Claimed
<1>1. disk' = disk \/ disk' = [mem[p] EXCEPT ![i] = r]
  BY DEF Persisted, PersistFails, store
<1> QED BY <1>1 DEF TypeOK, Snapshots

\* Every step leaves the claims under way on disk.
LEMMA ClaimOnDiskStep == ASSUME IInv, ClaimOnDisk, [Next]_vars PROVE ClaimOnDisk'
<1> USE DEF ClaimOnDisk
<1>0. /\ TypeOK /\ \A p \in Procs, i \in Ids :
                     run[p][i] # "none" => p \in up /\ mem[p][i] = Claimed
  BY DEF IInv, ClaimHeld
\* A step of p that writes for i at most.
<1>w. ASSUME NEW p \in Procs, NEW i \in Ids, NEW r, p \in up, up' = up,
             overlapped' = overlapped,
             disk' = disk \/ Persisted(p, i, r) \/ PersistFails(p, i, r),
             \A q \in Procs, j \in Ids : q # p \/ j # i => run'[q][j] = run[q][j],
             run'[p][i] = "claimed" => disk'[i] = Claimed
      PROVE  ClaimOnDisk'
  <2> SUFFICES ASSUME ~overlapped, NEW q \in Procs, NEW j \in Ids, run'[q][j] = "claimed"
               PROVE  disk'[j] = Claimed
    BY <1>w
  <2>1. CASE q = p /\ j = i
    BY <1>w, <2>1
  <2>2. CASE ~(q = p /\ j = i)
    <3>1. run[q][j] = "claimed" /\ q = p /\ j # i /\ mem[p][j] = Claimed
          /\ disk[j] = Claimed
      BY <1>0, <1>w, <2>2
    <3> QED BY <1>0, <1>w, <3>1, WriteKeepsClaims
  <2> QED BY <2>1, <2>2
\* A step of the approval of i in p after its claim.
<1>a. ASSUME NEW p \in Procs, NEW i \in Ids, NEW s \in Stages \ {"claimed"}, NEW r,
             run[p][i] # "none", run' = [run EXCEPT ![p][i] = s], up' = up,
             overlapped' = overlapped,
             disk' = disk \/ Persisted(p, i, r) \/ PersistFails(p, i, r)
      PROVE  ClaimOnDisk'
  <2>1. \A q \in Procs, j \in Ids :
          run'[q][j] = IF q = p /\ j = i THEN s ELSE run[q][j]
    BY <1>0, <1>a DEF TypeOK
  <2> QED BY <1>0, <1>a, <1>w, <2>1
<1>1. ASSUME NEW p \in Procs, Start(p) PROVE ClaimOnDisk'
  BY <1>0, <1>1 DEF Start
<1>2. ASSUME NEW p \in Procs, Crash(p) PROVE ClaimOnDisk'
  <2>1. \A q \in Procs, i \in Ids :
          run'[q][i] = IF q = p THEN "none" ELSE run[q][i]
    BY <1>0, <1>2 DEF Crash, TypeOK
  <2> QED BY <1>2, <2>1 DEF Crash
<1>3. ASSUME NEW p \in Procs, NEW i \in Ids, Create(p, i) PROVE ClaimOnDisk'
  <2>1. run[p][i] = "none"
    BY <1>0, <1>3, RecordTypes DEF Create
  <2> QED BY <1>3, <1>w, <2>1 DEF Create
<1>4. ASSUME NEW p \in Procs, NEW i \in Ids, Claim(p, i) PROVE ClaimOnDisk'
  <2>0. /\ p \in up /\ up' = up /\ overlapped' = overlapped /\ run[p][i] = "none"
    BY <1>0, <1>4, RecordTypes DEF Claim, Has
  <2>1. CASE Persisted(p, i, Claimed) /\ run' = [run EXCEPT ![p][i] = "claimed"]
    <3>1. disk'[i] = Claimed
      BY <1>0, <2>1 DEF Persisted, TypeOK, Snapshots
    <3>2. \A q \in Procs, j \in Ids : q # p \/ j # i => run'[q][j] = run[q][j]
      BY <1>0, <2>1 DEF TypeOK
    <3> QED BY <1>w, <2>0, <2>1, <3>1, <3>2
  <2>2. CASE PersistFails(p, i, Claimed) /\ run' = run
    BY <1>w, <2>0, <2>2
  <2> QED BY <1>4, <2>1, <2>2 DEF Claim
<1>5. ASSUME NEW p \in Procs, NEW i \in Ids, Precheck(p, i) PROVE ClaimOnDisk'
  BY <1>5, <1>a DEF Precheck, store, Stages
<1>6. ASSUME NEW p \in Procs, NEW i \in Ids, Execute(p, i) PROVE ClaimOnDisk'
  BY <1>6, <1>a DEF Execute, store, Stages
<1>7. ASSUME NEW p \in Procs, NEW i \in Ids, Finish(p, i) PROVE ClaimOnDisk'
  <2>1. PICK s \in Ended \cup {"review"} : run' = [run EXCEPT ![p][i] = s]
    BY <1>7 DEF Finish
  <2>2. s \in Stages \ {"claimed"} /\ disk' = disk
    BY <1>7 DEF Finish, Ended, Stages, store
  <2> QED BY <1>7, <1>a, <2>1, <2>2 DEF Finish
<1>8. ASSUME NEW p \in Procs, NEW i \in Ids, RecordVerified(p, i) PROVE ClaimOnDisk'
  BY <1>8, <1>a DEF RecordVerified, Stages
<1>9. ASSUME NEW p \in Procs, NEW i \in Ids, RecordFailed(p, i) PROVE ClaimOnDisk'
  BY <1>9, <1>a DEF RecordFailed, Stages
<1>10. ASSUME NEW p \in Procs, NEW i \in Ids, RecordReview(p, i) PROVE ClaimOnDisk'
  <2>1. "none" \in Stages \ {"claimed"} /\ run[p][i] # "none"
    BY <1>10 DEF RecordReview, Stages
  <2>2. PICK r : Persisted(p, i, r) \/ PersistFails(p, i, r)
    BY <1>10 DEF RecordReview
  <2> QED BY <1>10, <1>a, <2>1, <2>2 DEF RecordReview
<1>11. ASSUME NEW p \in Procs, NEW i \in Ids, NEW closed \in Closed, Reject(p, i, closed)
       PROVE  ClaimOnDisk'
  <2>1. run[p][i] = "none"
    BY <1>0, <1>11, RecordTypes DEF Reject, Has
  <2> QED BY <1>11, <1>w, <2>1 DEF Reject
<1>12. CASE UNCHANGED vars
  BY <1>12 DEF vars, store
<1> QED BY <1>1, <1>2, <1>3, <1>4, <1>5, <1>6, <1>7, <1>8, <1>9, <1>10, <1>11, <1>12
        DEF Next, Continue

\* As long as one server runs at a time, an execution starts only when the store
\* on disk says that it does: never after the proposal was denied or cancelled.
THEOREM StartsClaimedTheorem == Spec => StartsClaimed
<1> DEFINE A == ~overlapped =>
                  \A i \in Ids : ran'[i] # ran[i] => disk[i].status = "executing"
<1>1. Init => ClaimOnDisk
  BY DEF Init, ClaimOnDisk
<1>2. IInv /\ ClaimOnDisk /\ [Next]_vars => ClaimOnDisk'
  BY ClaimOnDiskStep
<1>3. ASSUME IInv, ClaimOnDisk, [Next]_vars PROVE A
  <2> SUFFICES ASSUME ~overlapped, NEW i \in Ids, ran'[i] # ran[i]
               PROVE  disk[i].status = "executing"
    OBVIOUS
  <2>1. PICK p \in Procs, j \in Ids : Execute(p, j)
    <3>1. ASSUME NEW p \in Procs, Start(p) \/ Crash(p)
          PROVE  ran' = ran
      BY <3>1 DEF Start, Crash
    <3>2. ASSUME NEW p \in Procs, NEW j \in Ids,
                 \/ Create(p, j) \/ Claim(p, j) \/ Precheck(p, j) \/ Finish(p, j)
                 \/ RecordVerified(p, j) \/ RecordFailed(p, j) \/ RecordReview(p, j)
                 \/ \E closed \in Closed : Reject(p, j, closed)
          PROVE  ran' = ran
      BY <3>2 DEF Create, Claim, Precheck, Finish, RecordVerified, RecordFailed,
         RecordReview, Reject
    <3> QED BY <1>3, <3>1, <3>2 DEF Next, Continue, vars
  <2>2. j = i /\ run[p][i] = "claimed"
    BY <1>3, <2>1 DEF Execute, IInv, TypeOK
  <2> QED BY <1>3, <2>2 DEF ClaimOnDisk, Claimed, Record
<1>4. IInv /\ ClaimOnDisk /\ [Next]_vars => [A]_vars
  BY <1>3
<1> QED BY <1>1, <1>2, <1>4, Invariance, PTL DEF Spec, StartsClaimed
=============================================================================
