--------------------------- MODULE CatalogAgreesProofs ---------------------------
(***************************************************************************)
(* The proof that the catalog and the log never disagree on a group        *)
(* (CatalogAgrees of TapeLogStore), whatever is killed, cut off, damaged   *)
(* or fails: through power loss that brings an old name back, repairs that *)
(* cut the log, and snapshots that read a file replaced or shortened since.*)
(***************************************************************************)
EXTENDS TapeLogStoreProofs

(* The closed groups written to a file, damaged or not, and the frames of   *)
(* the log that no failing sync can take back.                              *)
Whole(i) == ClosedPrefix(File(i).frames)
Stable == SubSeq(Log.frames, 1, Log.synced)

(* The catalog compares with the log in every directory, and a file that    *)
(* was the log and is still referred to has no group the log can lose: a    *)
(* replacement is synced before it takes the name.  Only an unreconciled    *)
(* repair may have cut groups the old name still has.                       *)
CatalogInv ==
    /\ \A d \in Directories : Comparable(projected, Whole(d.log))
    /\ durable_dir.log # dir.log =>
          /\ dir.log # None
          /\ Comparable(Whole(dir.log), Whole(durable_dir.log))
          /\ dir.repair = NoRecord => IsPrefix(Whole(durable_dir.log), Stable)
    /\ snap # NoSnap =>
          /\ dir.log # None
          /\ snap.inode # dir.log => IsPrefix(Whole(snap.inode), Stable)

(* An owner at work holds all that the catalog holds. *)
HeldInv ==
    /\ lease.state = "ready" \/ op.at \in {"open", "copied", "staged"} \/ Replacing =>
          IsPrefix(projected, lease.closed)
    /\ op.at \in {"closing", "linked"} => IsPrefix(projected, inode[op.out].frames)
    /\ op.at \in {"recorded", "replace"} /\ op.why \in {"repair", "rebuild"} =>
          snap = NoSnap
    /\ op.at = "replace" /\ op.why = "clear" => Log.damage = 0

AgreeInv == CatalogInv /\ HeldInv

--------------------------------------------------------------------------------
(* Sequences that compare. *)

LEMMA ComparePrefixes ==
    ASSUME NEW s \in Seq(Frames), NEW t \in Seq(Frames), NEW u \in Seq(Frames),
           IsPrefix(s, u), IsPrefix(t, u)
    PROVE  Comparable(s, t)
<1>1. Len(s) \in Nat /\ Len(t) \in Nat
  OBVIOUS
<1>2. Len(s) <= Len(t) \/ Len(t) <= Len(s)
  BY <1>1
<1> QED BY <1>2, PrefixesCompare DEF Comparable

LEMMA CompareShorter ==
    ASSUME NEW s \in Seq(Frames), NEW t \in Seq(Frames), NEW u \in Seq(Frames),
           Comparable(s, t), IsPrefix(u, t)
    PROVE  Comparable(s, u) /\ Comparable(u, s)
BY ComparePrefixes, PrefixTransitive DEF Comparable

(* The longer of two that compare extends the other. *)
LEMMA CompareLength ==
    ASSUME NEW s \in Seq(Frames), NEW t \in Seq(Frames), Comparable(s, t),
           Len(s) <= Len(t)
    PROVE  IsPrefix(s, t)
BY PrefixSameLength, PrefixReflexive DEF Comparable

(* A closed prefix is in the closed prefix. *)
LEMMA ClosedInside ==
    ASSUME NEW c \in Seq(Frames), NEW s \in Seq(Frames), ClosedPrefix(c) = c,
           IsPrefix(c, s)
    PROVE  IsPrefix(c, ClosedPrefix(s))
BY ClosedMonotone

(* The synced frames of a file survive in what grows or shrinks from it. *)
LEMMA SyncedKept ==
    ASSUME NEW f, NEW g, FileOK(f), FileOK(g), Comparable(f.frames, g.frames),
           f.synced <= g.synced
    PROVE  IsPrefix(SubSeq(f.frames, 1, f.synced), SubSeq(g.frames, 1, g.synced))
<1>1. /\ f.frames \in Seq(Frames) /\ g.frames \in Seq(Frames)
      /\ f.synced \in 0..Len(f.frames) /\ g.synced \in 0..Len(g.frames)
  BY DEF FileOK, FileStates
<1> DEFINE s == SubSeq(f.frames, 1, f.synced)
           t == SubSeq(g.frames, 1, g.synced)
<1>2. /\ s \in Seq(Frames) /\ Len(s) = f.synced
      /\ \A i \in 1..f.synced : s[i] = f.frames[i]
      /\ t \in Seq(Frames) /\ Len(t) = g.synced
      /\ \A i \in 1..g.synced : t[i] = g.frames[i]
  BY <1>1, SubSeqPrefix
<1>3. \A i \in 1..f.synced : f.frames[i] = g.frames[i]
  BY <1>1, PrefixElements DEF Comparable
<1> HIDE DEF s, t
<1>4. Len(s) <= Len(t) /\ \A i \in 1..Len(s) : s[i] = t[i]
  BY <1>1, <1>2, <1>3
<1> QED BY <1>2, <1>4, PrefixElements DEF s, t

--------------------------------------------------------------------------------
(* Files that were the log. *)
USE StoreAssumption DEF None

LEMMA WholeOK ==
    ASSUME TypeOK, NEW i \in Inodes \cup {None}
    PROVE  /\ FileOK(File(i)) /\ File(i).frames \in Seq(Frames)
           /\ Whole(i) \in Seq(Frames) /\ IsPrefix(Whole(i), File(i).frames)
           /\ ClosedPrefix(Whole(i)) = Whole(i)
           /\ i = None => Whole(i) = <<>>
<1>1. FileOK(File(i))
  BY EmptyFileOK, TypeParts DEF File, FilesOK
<1>2. File(i).frames \in Seq(Frames)
  BY <1>1 DEF FileOK, FileStates
<1>3. i = None => Whole(i) = <<>>
  BY EmptyFields, ClosedPrefixEmpty DEF Whole, File
<1> QED BY <1>1, <1>2, <1>3, ClosedPrefixType DEF Whole

LEMMA StableOK ==
    ASSUME TypeOK
    PROVE  Stable \in Seq(Frames) /\ IsPrefix(Stable, Log.frames)
<1>1. Log.frames \in Seq(Frames) /\ Log.synced \in 0..Len(Log.frames)
  BY LogOK DEF FileOK, FileStates
<1> QED BY <1>1, SubSeqPrefix DEF Stable

(* The readable closed frames are among the written ones. *)
LEMMA ClosedInWhole ==
    ASSUME TypeOK
    PROVE  IsPrefix(Closed(Log), Whole(dir.log)) /\ Closed(Log) \in Seq(Frames)
<1>1. Log.frames \in Seq(Frames) /\ Log.damage \in 0..Len(Log.frames)
  BY LogOK DEF FileOK, FileStates
<1>2. Readable(Log) \in Seq(Frames) /\ IsPrefix(Readable(Log), Log.frames)
  BY <1>1, SubSeqPrefix, PrefixReflexive DEF Readable
<1> QED BY <1>1, <1>2, ClosedMonotone, ClosedPrefixType DEF Closed, Whole, Log

LEMMA Types ==
    ASSUME StoreInv
    PROVE  /\ dir.log \in Inodes \cup {None} /\ durable_dir.log \in Inodes \cup {None}
           /\ snap.inode \in Inodes \cup {None} /\ (snap # NoSnap => snap.inode \in Inodes)
           /\ projected \in Seq(Frames) /\ lease.closed \in Seq(Frames)
           /\ dir \in Entries /\ durable_dir \in Entries
BY TypeParts DEF StoreInv, StateOK, Entries, Leases, Snapshots, NoSnap

(* Steps that leave the frames of every file in use as they are. *)
LEMMA CatalogQuiet ==
    ASSUME StoreInv, CatalogInv,
           \A i \in {dir.log, durable_dir.log, snap.inode} : i \in Inodes =>
               inode'[i].frames = inode[i].frames /\ inode'[i].synced = inode[i].synced,
           dir'.log = dir.log, durable_dir'.log \in {dir.log, durable_dir.log},
           dir'.repair = NoRecord => dir.repair = NoRecord \/ durable_dir'.log = dir.log,
           projected' = projected,
           snap' \in {snap, NoSnap} \/ (snap'.inode = dir.log /\ dir.log # None)
    PROVE  CatalogInv'
<1>1. \A i \in {dir.log, durable_dir.log, snap.inode} :
          /\ (IF i = None THEN EmptyFile ELSE inode'[i]).frames = File(i).frames
          /\ (IF i = None THEN EmptyFile ELSE inode'[i]).synced = File(i).synced
  BY Types DEF File
<1> DEFINE W(i) == ClosedPrefix((IF i = None THEN EmptyFile ELSE inode'[i]).frames)
<1>2. \A i \in {dir.log, durable_dir.log, snap.inode} : W(i) = Whole(i)
  BY <1>1 DEF Whole
<1>3. /\ Whole(dir.log)' = Whole(dir.log)
      /\ Whole(durable_dir.log)' \in {Whole(dir.log), Whole(durable_dir.log)}
      /\ durable_dir'.log = durable_dir.log => Whole(durable_dir.log)' = Whole(durable_dir.log)
      /\ durable_dir'.log = dir.log => Whole(durable_dir.log)' = Whole(dir.log)
  BY <1>2 DEF Whole, File
<1>4. snap' = snap => Whole(snap.inode)' = Whole(snap.inode)
  BY <1>2 DEF Whole, File
<1>5. Stable' = Stable
  BY <1>1 DEF Stable, Log, File
<1>6. /\ Comparable(projected, Whole(dir.log))'
      /\ Comparable(projected, Whole(durable_dir.log))'
  BY <1>3 DEF CatalogInv, Directories, Comparable
<1>7. \A d \in Directories' : Comparable(projected, Whole(d.log))'
  BY <1>6 DEF Directories
<1> QED BY <1>3, <1>4, <1>5, <1>6, <1>7 DEF CatalogInv

(* The owner writes to its file: the log, or one that is not yet linked. *)
LEMMA WriteAgrees ==
    ASSUME StoreInv, CatalogInv, NEW i \in Inodes, i # dir.log => dir.log = None,
           NEW g, FileOK(g), inode' = [inode EXCEPT ![i] = g],
           UNCHANGED <<dir, durable_dir, projected, snap>>,
           Comparable(inode[i].frames, g.frames), inode[i].synced <= g.synced,
           i = dir.log => dir.repair = NoRecord /\ Comparable(projected, ClosedPrefix(g.frames))
    PROVE  CatalogInv'
<1>1. FilesOK' /\ inode'[i] = g /\ \A j \in Inodes \ {i} : inode'[j] = inode[j]
  BY OneFile, TypeParts DEF StoreInv
<1>2. CASE i # dir.log
  <2>1. dir.log = None /\ durable_dir.log = None /\ snap = NoSnap
    BY <1>2 DEF CatalogInv
  <2>2. \A j \in {dir.log, durable_dir.log, snap.inode} : j \notin Inodes
    BY <2>1 DEF NoSnap
  <2> QED BY <2>2, CatalogQuiet
<1>3. CASE i = dir.log
  <2> DEFINE w == ClosedPrefix(g.frames)
             t == SubSeq(g.frames, 1, g.synced)
             d == durable_dir.log
             n == snap.inode
  <2>1. Log' = g /\ Log = inode[i] /\ i # None
    BY <1>1, <1>3 DEF Log, File
  <2>2. /\ g.frames \in Seq(Frames) /\ w \in Seq(Frames) /\ IsPrefix(w, g.frames)
        /\ ClosedPrefix(w) = w /\ g.synced \in 0..Len(g.frames)
    BY ClosedPrefixType DEF FileOK, FileStates
  <2>3. Stable' = t /\ IsPrefix(Stable, t) /\ t \in Seq(Frames) /\ IsPrefix(t, g.frames)
    <3>1. FileOK(inode[i])
      BY TypeParts DEF StoreInv, FilesOK
    <3>2. Stable' = t
      BY <2>1 DEF Stable
    <3> QED BY <2>1, <2>2, <3>1, <3>2, SyncedKept, SubSeqPrefix DEF Stable
  <2>4. Whole(dir.log)' = w
    BY <1>1, <1>3 DEF Whole, File
  <2>5. d # dir.log => Whole(durable_dir.log)' = Whole(d)
    BY <1>1, <1>3, Types DEF Whole, File
  <2>6. n # dir.log => Whole(snap.inode)' = Whole(n)
    BY <1>1, <1>3, Types DEF Whole, File
  <2>7. d # dir.log => IsPrefix(Whole(d), Stable)
    BY <1>3 DEF CatalogInv
  <2> HIDE DEF w, t
  <2>8. ASSUME NEW j \in Inodes \cup {None}, IsPrefix(Whole(j), Stable)
        PROVE  IsPrefix(Whole(j), t) /\ Comparable(w, Whole(j))
    <3>1. Whole(j) \in Seq(Frames) /\ ClosedPrefix(Whole(j)) = Whole(j)
      BY WholeOK DEF StoreInv
    <3>2. IsPrefix(Whole(j), t)
      BY <2>3, <2>8, <3>1, StableOK, PrefixTransitive DEF StoreInv
    <3>3. IsPrefix(Whole(j), g.frames)
      BY <2>2, <2>3, <3>1, <3>2, PrefixTransitive
    <3> QED BY <2>2, <3>1, <3>2, <3>3, ComparePrefixes
  <2>9. d # dir.log => IsPrefix(Whole(d), t) /\ Comparable(w, Whole(d))
    BY <2>7, <2>8, Types
  <2>10. snap # NoSnap /\ n # dir.log => IsPrefix(Whole(n), t)
    BY <2>8, Types DEF CatalogInv
  <2>11. /\ Comparable(projected, Whole(dir.log))'
         /\ d # dir.log => Comparable(projected, Whole(durable_dir.log))'
    BY <1>3, <2>4, <2>5 DEF CatalogInv, Directories, Comparable, w
  <2>12. \A e \in Directories' : Comparable(projected, Whole(e.log))'
    BY <2>11 DEF Directories
  <2> QED BY <1>3, <2>1, <2>3, <2>4, <2>5, <2>6, <2>9, <2>10, <2>12 DEF CatalogInv
<1> QED BY <1>2, <1>3

(* Nobody at work: an owner at work is what HeldInv is about. *)
LEMMA HeldQuiet ==
    ASSUME lease'.state # "ready",
           \/ op'.at \in {"none", "uncertain", "unmark", "unmarked", "project"}
           \/ op'.at = "replaced" /\ lease'.state = "none"
    PROVE  HeldInv'
BY DEF HeldInv, Replacing

(* The same owner and catalog, at work on in-between stages. *)
LEMMA HeldKept ==
    ASSUME HeldInv, lease'.closed = lease.closed, projected' = projected,
           lease.state = "ready" \/ op.at \in {"open", "copied", "staged"} \/ Replacing,
           op'.at \notin {"closing", "linked", "recorded"},
           op'.at = "replace" => op'.why \notin {"repair", "rebuild", "clear"}
    PROVE  HeldInv'
BY DEF HeldInv

--------------------------------------------------------------------------------
(* Steps that touch neither frames nor catalog. *)
USE DEF Fault, NoFault, SetEntry, SyncDirectory, files

LEMMA UntouchedAgrees ==
    ASSUME StoreInv, CatalogInv, inode' = inode, dir' = dir,
           durable_dir' \in {dir, durable_dir}, projected' = projected,
           snap' \in {snap, NoSnap}
    PROVE  CatalogInv'
BY CatalogQuiet

(* Most of what an owner does is of this kind. *)
LEMMA OwnerUntouched ==
    ASSUME StoreInv, AgreeInv,
           \/ \E fresh, recovery \in BOOLEAN : acquire(fresh, recovery)
           \/ set_projection_floor \/ Release \/ DropStaged \/ cancel_detached
           \/ \E rows \in {0, 1}, sync \in BOOLEAN : stage(rows, sync)
           \/ LinkSyncs \/ ReconcileSyncs
    PROVE  AgreeInv'
<1>1. /\ inode' = inode /\ dir' = dir /\ durable_dir' \in {dir, durable_dir}
      /\ projected' = projected /\ snap' = snap
  BY DEF acquire, set_projection_floor, Release, DropStaged, cancel_detached, stage,
     LinkSyncs, ReconcileSyncs
<1>2. CatalogInv'
  BY <1>1, UntouchedAgrees DEF AgreeInv
<1> SUFFICES HeldInv'
  BY <1>2 DEF AgreeInv
<1>l. lease \in Leases /\ op \in Operations
  BY TypeParts DEF StoreInv, StateOK
<1>3. ASSUME NEW fresh \in BOOLEAN, NEW recovery \in BOOLEAN, acquire(fresh, recovery)
      PROVE  HeldInv'
  <2>1. /\ lease'.closed = Closed(Log) /\ op'.at = "none"
        /\ Len(projected) <= Len(Closed(Log))
    BY <1>3, OpIdle DEF acquire, AboveProjection, Unlocked
  <2>2. Comparable(projected, Closed(Log))
    BY ClosedInWhole, CompareShorter, WholeOK, Types
    DEF StoreInv, AgreeInv, CatalogInv, Directories
  <2>3. IsPrefix(projected, Closed(Log))
    BY <2>1, <2>2, ClosedInWhole, CompareLength, Types DEF StoreInv
  <2> QED BY <1>1, <2>1, <2>3 DEF HeldInv, Replacing
<1>4. CASE set_projection_floor
  <2>1. /\ lease' = [lease EXCEPT !.floor = Len(projected)] /\ op' = op
    BY <1>4 DEF set_projection_floor
  <2>2. lease'.closed = lease.closed /\ lease'.state = lease.state
    BY <1>l, <2>1 DEF Leases
  <2>3. Log' = Log
    BY <1>1 DEF Log, File
  <2> QED BY <1>1, <2>1, <2>2, <2>3 DEF AgreeInv, HeldInv, Replacing
<1>5. CASE Release \/ DropStaged
  <2>1. op' = NoOp /\ (lease' = NoLease \/ (lease' = lease /\ op.at = "staged"))
    <3>1. Release => op' = NoOp /\ lease' = NoLease
      BY DEF Release
    <3>2. DropStaged => op' = NoOp /\ lease' = lease /\ op.at = "staged"
      BY DEF DropStaged, Dropped
    <3> QED BY <1>5, <3>1, <3>2
  <2>2. lease'.state # "ready"
    BY <2>1, LeaseNone DEF StoreInv, ControlInv, Publishing
  <2> QED BY <2>1, <2>2, OpIdle, HeldQuiet
<1>6. CASE cancel_detached
  <2>1. /\ op.at = "staged"
        /\ \/ op' = NoOp /\ lease' = [lease EXCEPT !.state = "ready"]
           \/ op' = NoOp /\ lease' = lease
           \/ op' = [NoOp EXCEPT !.at = "replace", !.why = "cancel"] /\ lease' = lease
    BY <1>6 DEF cancel_detached
  <2>2. lease'.closed = lease.closed
    BY <1>l, <2>1 DEF Leases
  <2>3. \/ op'.at = "none"
        \/ op'.at = "replace" /\ op'.why = "cancel"
    BY <2>1, OpIdle DEF Operations
  <2> QED BY <1>1, <2>1, <2>2, <2>3, HeldKept DEF AgreeInv
<1>7. ASSUME NEW rows \in {0, 1}, NEW sync \in BOOLEAN, stage(rows, sync) PROVE HeldInv'
  <2> DEFINE a == IF lease.torn THEN "replace" ELSE "open"
  <2>1. /\ lease' = [lease EXCEPT !.state = "fenced"] /\ lease.state = "ready"
        /\ op' = [NoOp EXCEPT !.at = a, !.why = "stage", !.rows = rows, !.sync = sync]
    BY <1>7 DEF stage
  <2>2. a \in {"replace", "open"}
    OBVIOUS
  <2> HIDE DEF a
  <2>3. op'.at = a /\ op'.why = "stage" /\ lease'.closed = lease.closed
    BY <1>l, <2>1, OpIdle DEF Operations, Leases
  <2> QED BY <1>1, <2>1, <2>2, <2>3, HeldKept DEF AgreeInv
<1>8. CASE LinkSyncs
  <2>1. op.at = "linked"
    BY <1>8 DEF LinkSyncs
  <2>2. CASE Publish
    <3>1. IsPrefix(projected, inode[op.out].frames) /\ lease.state = "fenced"
      BY <2>1 DEF AgreeInv, HeldInv, StoreInv, ControlInv, Publishing
    <3>2. /\ op' = NoOp
          /\ \/ lease' = [lease EXCEPT !.state = "ready", !.closed = inode[op.out].frames]
             \/ lease' = lease
      BY <2>2 DEF Publish
    <3>3. lease'.state = "ready" => lease'.closed = inode[op.out].frames
      BY <1>l, <3>1, <3>2 DEF Leases
    <3> QED BY <1>1, <3>1, <3>2, <3>3, OpIdle DEF HeldInv, Replacing
  <2>3. CASE Ambiguous
    BY <2>3, AmbiguousLeaves, HeldQuiet
  <2> QED BY <1>8, <2>2, <2>3 DEF LinkSyncs
<1>9. CASE ReconcileSyncs
  <2>1. op.at = "reconciled" /\ lease.state = "ready"
    BY <1>9 DEF ReconcileSyncs, StoreInv, ControlInv
  <2>2. CASE lease' = [lease EXCEPT !.repair = FALSE] /\ op' = NoOp
    <3>1. lease'.closed = lease.closed
      BY <1>l, <2>2 DEF Leases
    <3> QED BY <1>1, <2>1, <2>2, <3>1, OpIdle, HeldKept DEF AgreeInv
  <2>3. CASE Ambiguous
    BY <2>3, AmbiguousLeaves, HeldQuiet
  <2> QED BY <1>9, <2>2, <2>3 DEF ReconcileSyncs
<1> QED BY <1>3, <1>4, <1>5, <1>6, <1>7, <1>8, <1>9

LEMMA ReconcileAgrees ==
    ASSUME StoreInv, AgreeInv, reconcile_repaired_tail PROVE AgreeInv'
<1>0. CASE Ambiguous /\ UNCHANGED <<files, snap, projected>>
  <2>1. CatalogInv'
    BY <1>0, UntouchedAgrees DEF AgreeInv
  <2>2. HeldInv'
    BY <1>0, AmbiguousLeaves, HeldQuiet
  <2> QED BY <2>1, <2>2 DEF AgreeInv
<1> SUFFICES ASSUME RemoveRepairFence PROVE AgreeInv'
  BY <1>0 DEF reconcile_repaired_tail
<1>1. /\ inode' = [inode EXCEPT ![dir.log] = [inode[dir.log] EXCEPT !.cut = FALSE]]
      /\ dir' = [dir EXCEPT !.repair = NoRecord] /\ durable_dir' = dir
      /\ lease.state = "ready" /\ op' = [NoOp EXCEPT !.at = "reconciled"]
      /\ UNCHANGED <<lease, snap, projected>>
  BY DEF reconcile_repaired_tail, RemoveRepairFence
<1>2. dir'.log = dir.log
  BY <1>1, Types DEF Entries
<1>3. \A i \in Inodes : inode'[i].frames = inode[i].frames /\ inode'[i].synced = inode[i].synced
  BY <1>1, TypeParts DEF StoreInv, FilesOK, FileStates
<1>4. CatalogInv'
  BY <1>1, <1>2, <1>3, CatalogQuiet DEF AgreeInv
<1>5. op'.at = "reconciled"
  BY <1>1, OpIdle DEF Operations
<1>6. HeldInv'
  BY <1>1, <1>5, HeldKept DEF AgreeInv
<1> QED BY <1>4, <1>6 DEF AgreeInv

(* Of what recovery does, all but the replacement and the projection. *)
LEMMA RecoveryUntouched ==
    ASSUME StoreInv, AgreeInv,
           \/ ReplaceSynced \/ ReplaceFails \/ fence_ambiguity \/ clear_ambiguity
           \/ RemoveMarker \/ MarkerRemoved \/ RecordSyncs
           \/ \E rebuild \in BOOLEAN : repair_tail(rebuild) \/ resume_repair(rebuild)
    PROVE  AgreeInv'
<1>1. inode' = inode /\ projected' = projected /\ snap' = snap
  BY DEF ReplaceSynced, ReplaceFails, fence_ambiguity, clear_ambiguity, RemoveMarker,
     MarkerRemoved, RecordSyncs, repair_tail, resume_repair
<1>l. lease \in Leases /\ op \in Operations
  BY TypeParts DEF StoreInv, StateOK
<1>2. CASE \/ ReplaceSynced \/ ReplaceFails \/ clear_ambiguity \/ MarkerRemoved
           \/ RecordSyncs \/ \E rebuild \in BOOLEAN : resume_repair(rebuild)
  <2>1. dir' = dir /\ durable_dir' \in {dir, durable_dir}
    BY <1>2 DEF ReplaceSynced, ReplaceFails, clear_ambiguity, MarkerRemoved, RecordSyncs,
       resume_repair
  <2>2. CatalogInv'
    BY <1>1, <2>1, UntouchedAgrees DEF AgreeInv
  <2> SUFFICES HeldInv'
    BY <2>2 DEF AgreeInv
  <2>3. CASE ReplaceSynced
    <3>1. op.at = "replaced" /\ op' = AfterReplace
      BY <2>3 DEF ReplaceSynced
    <3>2. CASE lease.state = "none"
      <4>1. lease' = lease /\ op.why \in {"clear", "repair", "rebuild"}
        BY <2>3, <3>1, <3>2 DEF ReplaceSynced, StoreInv, ControlInv
      <4>2. \/ op' = [op EXCEPT !.at = "unmark"] \/ op' = [op EXCEPT !.at = "project"]
            \/ op' = NoOp
        BY <3>1, <4>1 DEF AfterReplace
      <4>3. op'.at \in {"unmark", "project", "none"}
        BY <1>l, <4>2, OpIdle DEF Operations
      <4> QED BY <3>2, <4>1, <4>3, HeldQuiet
    <3>3. CASE lease.state # "none"
      <4>1. Replacing /\ op.why \in {"stage", "rollback", "cancel"}
        BY <3>1, <3>3 DEF Replacing, StoreInv, ControlInv
      <4>2. op' = [op EXCEPT !.at = "open"] \/ op' = NoOp
        BY <3>1, <4>1 DEF AfterReplace
      <4>3. op'.at \in {"open", "none"}
        BY <1>l, <4>2, OpIdle DEF Operations
      <4> DEFINE a == IF op.why = "stage" THEN "fenced" ELSE "ready"
      <4>4. lease' = [lease EXCEPT !.torn = FALSE, !.state = a]
        BY <2>3, <3>3 DEF ReplaceSynced
      <4> HIDE DEF a
      <4>5. lease'.closed = lease.closed
        BY <1>l, <4>4 DEF Leases
      <4> QED BY <1>1, <4>1, <4>3, <4>5, HeldKept DEF AgreeInv
    <3> QED BY <3>2, <3>3
  <2>4. CASE ReplaceFails
    <3>1. /\ op.at \in {"replace", "replaced"} /\ lease' = lease
          /\ op' = NoOp \/ op' = [op EXCEPT !.at = "uncertain"]
      BY <2>4 DEF ReplaceFails
    <3>2. op'.at \in {"none", "uncertain"} /\ lease.state # "ready"
      BY <1>l, <3>1, OpIdle DEF Operations, StoreInv, ControlInv
    <3> QED BY <3>1, <3>2, HeldQuiet
  <2>5. CASE clear_ambiguity
    <3> DEFINE a == IF dir.log = None THEN "unmark" ELSE "replace"
    <3>1. /\ lease' = NoLease
          /\ \/ op' = [NoOp EXCEPT !.at = a, !.why = "clear"] /\ Log.damage = 0
             \/ op' = [NoOp EXCEPT !.at = "uncertain"]
      BY <2>5 DEF clear_ambiguity, Unlocked, Clearable, Validates
    <3>2. a \in {"unmark", "replace"}
      OBVIOUS
    <3> HIDE DEF a
    <3>3. \/ op'.at = "uncertain"
          \/ op'.at \in {"unmark", "replace"} /\ op'.why = "clear" /\ Log.damage = 0
      BY <3>1, <3>2, OpIdle DEF Operations
    <3>4. Log' = Log
      BY <1>1, <2>1 DEF Log, File
    <3> QED BY <3>1, <3>3, <3>4, LeaseNone DEF HeldInv, Replacing
  <2>6. CASE MarkerRemoved
    <3>1. op.at = "unmarked" /\ ((op' = NoOp /\ lease' = lease) \/ Ambiguous)
      BY <2>6 DEF MarkerRemoved
    <3>2. lease.state = "none"
      BY <3>1 DEF StoreInv, ControlInv
    <3> QED BY <3>1, <3>2, OpIdle, AmbiguousLeaves, HeldQuiet
  <2>7. CASE RecordSyncs
    <3>1. /\ op.at = "recorded" /\ lease' = lease
          /\ op' = NoOp \/ op' = [op EXCEPT !.at = "replace"]
      BY <2>7 DEF RecordSyncs
    <3>2. lease.state = "none" /\ snap = NoSnap /\ op.why \in {"repair", "rebuild"}
      BY <3>1 DEF StoreInv, ControlInv, AgreeInv, HeldInv
    <3>3. op'.at = "none" \/ (op'.at = "replace" /\ op'.why \in {"repair", "rebuild"})
      BY <1>l, <3>1, <3>2, OpIdle DEF Operations
    <3> QED BY <1>1, <3>1, <3>2, <3>3 DEF HeldInv, Replacing
  <2>8. ASSUME NEW rebuild \in BOOLEAN, resume_repair(rebuild) PROVE HeldInv'
    <3> DEFINE w == IF rebuild THEN "rebuild" ELSE "repair"
    <3>1. /\ lease' = NoLease /\ op' = [NoOp EXCEPT !.at = "replace", !.why = w]
          /\ snap = NoSnap
      BY <2>8 DEF resume_repair, Offline, Unlocked
    <3>2. w \in {"repair", "rebuild"}
      OBVIOUS
    <3> HIDE DEF w
    <3>3. op'.at = "replace" /\ op'.why = w
      BY <3>1, OpIdle DEF Operations
    <3> QED BY <1>1, <3>1, <3>2, <3>3, LeaseNone DEF HeldInv, Replacing
  <2> QED BY <1>2, <2>3, <2>4, <2>5, <2>6, <2>7, <2>8
<1>3. CASE fence_ambiguity \/ RemoveMarker
  <2> DEFINE d == [dir EXCEPT !.ambiguous = TRUE]
             e == [dir EXCEPT !.ambiguous = FALSE]
  <2>1. dir' \in {dir, d, e} /\ durable_dir' \in {dir, d, durable_dir}
    BY <1>3 DEF fence_ambiguity, RemoveMarker
  <2>2. d.log = dir.log /\ d.repair = dir.repair /\ e.log = dir.log /\ e.repair = dir.repair
    BY Types DEF Entries
  <2> HIDE DEF d, e
  <2>3. CatalogInv'
    BY <1>1, <2>1, <2>2, CatalogQuiet DEF AgreeInv
  <2>4. /\ op.at \in {"uncertain", "unmark"} /\ lease' = lease
        /\ op' = NoOp \/ op' = [op EXCEPT !.at = "unmarked"]
    BY <1>3 DEF fence_ambiguity, RemoveMarker
  <2>5. op'.at \in {"none", "unmarked"} /\ lease.state # "ready"
    BY <1>l, <2>4, OpIdle DEF Operations, StoreInv, ControlInv
  <2>6. HeldInv'
    BY <2>4, <2>5, HeldQuiet
  <2> QED BY <2>3, <2>6 DEF AgreeInv
<1>4. ASSUME NEW rebuild \in BOOLEAN, repair_tail(rebuild) PROVE AgreeInv'
  <2> DEFINE w == IF rebuild THEN "rebuild" ELSE "repair"
             r == RepairRecord(rebuild)
  <2>1. /\ lease' = NoLease /\ op' = [NoOp EXCEPT !.at = "recorded", !.why = w]
        /\ snap = NoSnap /\ dir' = [dir EXCEPT !.repair = r] /\ durable_dir' = durable_dir
        /\ dir.repair = NoRecord
    BY <1>4 DEF repair_tail, Offline, Unlocked, RepairRequired
  <2> HIDE DEF w, r
  <2>2. op'.at = "recorded"
    BY <2>1, OpIdle DEF Operations
  <2>3. dir'.log = dir.log
    BY <2>1, Types DEF Entries
  <2>4. CatalogInv'
    BY <1>1, <2>1, <2>3, CatalogQuiet DEF AgreeInv
  <2>5. HeldInv'
    BY <1>1, <2>1, <2>2, LeaseNone DEF HeldInv, Replacing
  <2> QED BY <2>4, <2>5 DEF AgreeInv
<1> QED BY <1>2, <1>3, <1>4

--------------------------------------------------------------------------------
(* The owner writes. *)

(* A file that nothing refers to. *)
LEMMA FreshAgrees ==
    ASSUME StoreInv, CatalogInv, SomeInode, NEW g, FileOK(g),
           inode' = [inode EXCEPT ![NewInode] = g],
           UNCHANGED <<dir, durable_dir, projected, snap>>
    PROVE  CatalogInv'
<1>1. \A j \in Inodes \ {NewInode} : inode'[j] = inode[j]
  BY FreshInode, OneFile, TypeParts DEF StoreInv
<1> QED BY <1>1, FreshInode, CatalogQuiet

LEMMA StageWritesAgrees == ASSUME StoreInv, AgreeInv, StageWrites PROVE AgreeInv'
<1>1. /\ op.at = "open"
      /\ UNCHANGED <<dir, durable_dir, process_fence, lease, snap, projected>>
  BY DEF StageWrites
<1>l. op \in Operations /\ dir.repair = NoRecord
  BY <1>1, TypeParts DEF StoreInv, StateOK, ControlInv, Publishing
<1>2. CASE lease.closed = <<>>
  <2> DEFINE i == NewInode
  <2>1. /\ SomeInode /\ inode' = [inode EXCEPT ![i] = EmptyFile]
        /\ op' = [op EXCEPT !.at = "staged", !.out = i]
    BY <1>2 DEF StageWrites
  <2>2. CatalogInv'
    BY <1>1, <2>1, FreshAgrees, EmptyFileOK DEF AgreeInv
  <2> HIDE DEF i
  <2>3. op'.at = "staged"
    BY <1>l, <2>1 DEF Operations
  <2> QED BY <1>1, <2>2, <2>3, HeldKept DEF AgreeInv
<1>3. CASE lease.closed # <<>>
  <2> DEFINE a == IF op.rows > 0 /\ op.sync THEN "copied" ELSE "staged"
             i == dir.log
             x == Frame(FALSE)
             g == Appended(inode[i], x)
  <2>1. /\ op' = [op EXCEPT !.at = a, !.out = i]
        /\ inode' = inode \/ inode' = [inode EXCEPT ![i] = g]
    BY <1>3 DEF StageWrites
  <2>2. a \in {"copied", "staged"}
    OBVIOUS
  <2>3. /\ i \in Inodes /\ Log = inode[i] /\ FileOK(inode[i])
        /\ Log.frames = lease.closed /\ ClosedPrefix(lease.closed) = lease.closed
    BY <1>1, <1>3, LogOK DEF StoreInv, FoldInv
  <2>4. /\ FileOK(g) /\ IsPrefix(inode[i].frames, g.frames) /\ g.synced = inode[i].synced
        /\ ClosedPrefix(g.frames) = ClosedPrefix(inode[i].frames)
    <3>1. x \in Frames /\ ~x.closes
      BY FrameOK, TypeParts DEF StoreInv, StateOK
    <3> HIDE DEF x
    <3> QED BY <2>3, <3>1, AppendedOK
  <2> HIDE DEF a, g
  <2>5. op'.at = a
    BY <1>l, <2>1 DEF Operations
  <2>6. IsPrefix(projected, lease.closed)
    BY <1>1 DEF AgreeInv, HeldInv
  <2>7. inode[i].synced <= g.synced
    BY <2>3, <2>4 DEF FileOK, FileStates
  <2>8. CASE inode' = inode
    BY <1>1, <2>2, <2>5, <2>8, UntouchedAgrees, HeldKept DEF AgreeInv
  <2>9. CASE inode' = [inode EXCEPT ![i] = g]
    <3>a. Comparable(inode[i].frames, g.frames) /\ Comparable(projected, ClosedPrefix(g.frames))
      BY <2>3, <2>4, <2>6 DEF Comparable
    <3>1. CatalogInv'
      BY <1>1, <1>l, <2>3, <2>4, <2>7, <2>9, <3>a, WriteAgrees DEF AgreeInv
    <3> QED BY <1>1, <2>2, <2>5, <3>1, HeldKept DEF AgreeInv
  <2> QED BY <2>1, <2>8, <2>9
<1> QED BY <1>2, <1>3

(* A write that fails after part of a frame. *)
LEMMA ShortAgrees ==
    ASSUME StoreInv, AgreeInv, NEW i \in Inodes,
           inode' = [inode EXCEPT ![i] = ShortWrite(inode[i])],
           UNCHANGED <<dir, durable_dir, projected, snap>>
    PROVE  CatalogInv'
<1> DEFINE g == ShortWrite(inode[i])
<1>1. FileOK(g) /\ g.frames = inode[i].frames /\ g.synced = inode[i].synced
  BY ShortWriteOK, TypeParts DEF StoreInv, FilesOK
<1> HIDE DEF g
<1>2. inode'[i] = g /\ \A j \in Inodes \ {i} : inode'[j] = inode[j]
  BY <1>1, OneFile, TypeParts DEF StoreInv, g
<1>3. \A j \in Inodes : inode'[j].frames = inode[j].frames /\ inode'[j].synced = inode[j].synced
  BY <1>1, <1>2
<1> QED BY <1>3, CatalogQuiet DEF AgreeInv

LEMMA StageWriteFailsAgrees == ASSUME StoreInv, AgreeInv, StageWriteFails PROVE AgreeInv'
<1>1. /\ Ambiguous /\ inode' = [inode EXCEPT ![dir.log] = ShortWrite(inode[dir.log])]
      /\ UNCHANGED <<dir, durable_dir, snap, projected>>
  BY DEF StageWriteFails
<1>2. CatalogInv'
  <2>1. CASE dir.log # None
    BY <1>1, <2>1, ShortAgrees, Types
  <2>2. CASE dir.log = None
    <3>1. inode' = inode
      BY <1>1, <2>2, TypeParts DEF StoreInv, FilesOK
    <3> QED BY <1>1, <3>1, UntouchedAgrees DEF AgreeInv
  <2> QED BY <2>1, <2>2
<1> QED BY <1>1, <1>2, AmbiguousLeaves, HeldQuiet DEF AgreeInv

(* A sync of the file, or one that fails. *)
LEMMA SyncAgrees ==
    ASSUME StoreInv, AgreeInv, op.at \in {"copied", "closing"},
           NEW g \in {Synced(inode[op.out])} \cup SyncFails(inode[op.out]),
           inode' = [inode EXCEPT ![op.out] = g],
           UNCHANGED <<dir, durable_dir, projected, snap>>
    PROVE  CatalogInv'
<1> DEFINE i == op.out
           f == inode[i]
<1>1. /\ i \in Inodes /\ f.damage = 0 /\ FileOK(f) /\ dir.repair = NoRecord
      /\ i # dir.log => dir.log = None
  BY TypeParts DEF StoreInv, ControlInv, FoldInv, Sound, Publishing, FilesOK
<1>2. f.frames \in Seq(Frames) /\ f.synced \in 0..Len(f.frames)
  BY <1>1 DEF FileOK, FileStates
<1>3. /\ FileOK(g) /\ IsPrefix(g.frames, f.frames) /\ f.synced <= g.synced
      /\ IsPrefix(ClosedPrefix(g.frames), ClosedPrefix(f.frames))
  <2>1. CASE g = Synced(f)
    <3>1. ClosedPrefix(f.frames) \in Seq(Frames)
      BY <1>2, ClosedPrefixType
    <3> QED BY <1>1, <1>2, <2>1, <3>1, SyncedOK, PrefixReflexive
  <2>2. CASE g \in SyncFails(f)
    <3>1. FileOK(g) /\ g.synced = f.synced /\ IsPrefix(g.frames, f.frames)
          /\ IsPrefix(ClosedPrefix(g.frames), ClosedPrefix(f.frames))
      BY <1>1, <2>2, SyncFailsOK
    <3> QED BY <1>2, <3>1
  <2> QED BY <2>1, <2>2
<1>4. g.frames \in Seq(Frames)
  BY <1>3 DEF FileOK, FileStates
<1> HIDE DEF f
<1>5. i = dir.log => Comparable(projected, ClosedPrefix(g.frames))
  <2> SUFFICES ASSUME i = dir.log PROVE Comparable(projected, ClosedPrefix(g.frames))
    OBVIOUS
  <2>1. Whole(dir.log) = ClosedPrefix(f.frames)
    BY <1>1 DEF Whole, File, f
  <2>2. Comparable(projected, ClosedPrefix(f.frames))
    BY <2>1 DEF AgreeInv, CatalogInv, Directories
  <2> QED BY <1>2, <1>3, <1>4, <2>2, ClosedPrefixType, CompareShorter, Types
<1> QED BY <1>1, <1>3, <1>5, WriteAgrees DEF AgreeInv, Comparable, f

LEMMA StageSyncsAgrees == ASSUME StoreInv, AgreeInv, StageSyncs PROVE AgreeInv'
<1>1. /\ op.at = "copied"
      /\ UNCHANGED <<dir, durable_dir, process_fence, lease, snap, projected>>
      /\ \E g \in {Synced(inode[op.out])} \cup SyncFails(inode[op.out]) :
             inode' = [inode EXCEPT ![op.out] = g]
      /\ \/ op' = [op EXCEPT !.at = "staged"]
         \/ op' = [NoOp EXCEPT !.at = "replace", !.why = "rollback"]
  BY DEF StageSyncs
<1>2. CatalogInv'
  BY <1>1, SyncAgrees
<1>3. op \in Operations
  BY TypeParts DEF StoreInv, StateOK
<1>4. op'.at = "staged" \/ (op'.at = "replace" /\ op'.why = "rollback")
  BY <1>1, <1>3, OpIdle DEF Operations
<1> QED BY <1>1, <1>2, <1>4, HeldKept DEF AgreeInv

(* A frame is added to the file of a publication. *)
LEMMA AppendAgrees ==
    ASSUME StoreInv, AgreeInv, op.at = "staged", NEW b \in BOOLEAN,
           inode' = [inode EXCEPT ![op.out] = Appended(inode[op.out], Frame(b))],
           UNCHANGED <<dir, durable_dir, projected, snap>>
    PROVE  CatalogInv' /\ (b => IsPrefix(projected, inode'[op.out].frames))
<1> DEFINE i == op.out
           f == inode[i]
           x == Frame(b)
           g == Appended(f, x)
<1>1. /\ i \in Inodes /\ FileOK(f) /\ dir.repair = NoRecord
      /\ i # dir.log => dir.log = None
      /\ ClosedPrefix(f.frames) = lease.closed /\ IsPrefix(projected, lease.closed)
  BY TypeParts DEF StoreInv, ControlInv, FoldInv, Publishing, FilesOK, AgreeInv, HeldInv
<1>2. f.frames \in Seq(Frames) /\ f.synced \in Nat
  BY <1>1 DEF FileOK, FileStates
<1>3. x \in Frames /\ x.closes = b
  BY TypeParts DEF StoreInv, StateOK, Frame, Frames
<1> HIDE DEF x
<1>4. /\ FileOK(g) /\ g.synced = f.synced /\ IsPrefix(f.frames, g.frames)
      /\ b => ClosedPrefix(g.frames) = g.frames
      /\ ~b => ClosedPrefix(g.frames) = ClosedPrefix(f.frames)
  BY <1>1, <1>3, AppendedOK
<1>5. inode' = [inode EXCEPT ![i] = g]
  BY DEF x
<1> HIDE DEF f, g
<1>6. g.frames \in Seq(Frames) /\ f.synced <= g.synced
  BY <1>2, <1>4 DEF FileOK, FileStates
<1>7. IsPrefix(lease.closed, f.frames)
  BY <1>1, <1>2, ClosedPrefixType
<1>8. IsPrefix(projected, g.frames)
  BY <1>1, <1>2, <1>4, <1>6, <1>7, PrefixTransitive, Types
<1>9. Comparable(projected, ClosedPrefix(g.frames))
  BY <1>1, <1>4, <1>8 DEF Comparable
<1>10. CatalogInv'
  BY <1>1, <1>4, <1>5, <1>6, <1>9, WriteAgrees DEF AgreeInv, Comparable, f
<1>11. inode'[i] = g
  BY <1>1, <1>5, TypeParts DEF StoreInv, FilesOK
<1> QED BY <1>8, <1>10, <1>11

LEMMA PushFileRowAgrees == ASSUME StoreInv, AgreeInv, push_file_row PROVE AgreeInv'
<1>1. /\ op.at = "staged" /\ lease' = lease
      /\ UNCHANGED <<dir, durable_dir, snap, projected>>
      /\ \/ /\ inode' = [inode EXCEPT ![op.out] = Appended(inode[op.out], Frame(FALSE))]
            /\ op' = [op EXCEPT !.rows = 2]
         \/ /\ inode' = [inode EXCEPT ![op.out] = ShortWrite(inode[op.out])]
            /\ op' = NoOp
  BY DEF push_file_row
<1>2. op \in Operations /\ lease.state = "fenced" /\ op.out \in Inodes
  BY <1>1, TypeParts DEF StoreInv, StateOK, ControlInv, Publishing
<1>3. CASE /\ inode' = [inode EXCEPT ![op.out] = Appended(inode[op.out], Frame(FALSE))]
           /\ op' = [op EXCEPT !.rows = 2]
  <2>1. op'.at = "staged"
    BY <1>1, <1>2, <1>3 DEF Operations
  <2>2. CatalogInv'
    BY <1>1, <1>3, AppendAgrees
  <2> QED BY <1>1, <2>1, <2>2, HeldKept DEF AgreeInv
<1>4. CASE /\ inode' = [inode EXCEPT ![op.out] = ShortWrite(inode[op.out])]
           /\ op' = NoOp
  BY <1>1, <1>2, <1>4, ShortAgrees, OpIdle, HeldQuiet DEF AgreeInv
<1> QED BY <1>1, <1>3, <1>4

LEMMA CompleteAgrees == ASSUME StoreInv, AgreeInv, complete PROVE AgreeInv'
<1>1. /\ op.at = "staged" /\ UNCHANGED <<dir, durable_dir, snap, projected>>
      /\ \/ /\ inode' = [inode EXCEPT ![op.out] = Appended(inode[op.out], Frame(TRUE))]
            /\ op' = [op EXCEPT !.at = "closing"] /\ lease' = lease
         \/ /\ inode' = [inode EXCEPT ![op.out] = ShortWrite(inode[op.out])]
            /\ Ambiguous
  BY DEF complete
<1>2. op \in Operations /\ lease.state = "fenced" /\ op.out \in Inodes
  BY <1>1, TypeParts DEF StoreInv, StateOK, ControlInv, Publishing
<1>3. CASE /\ inode' = [inode EXCEPT ![op.out] = Appended(inode[op.out], Frame(TRUE))]
           /\ op' = [op EXCEPT !.at = "closing"] /\ lease' = lease
  <2>1. op'.at = "closing" /\ op'.out = op.out
    BY <1>2, <1>3 DEF Operations
  <2>2. CatalogInv' /\ IsPrefix(projected, inode'[op.out].frames)
    BY <1>1, <1>3, AppendAgrees
  <2>3. HeldInv'
    BY <1>1, <1>2, <1>3, <2>1, <2>2 DEF HeldInv, Replacing
  <2> QED BY <2>2, <2>3 DEF AgreeInv
<1>4. CASE /\ inode' = [inode EXCEPT ![op.out] = ShortWrite(inode[op.out])]
           /\ Ambiguous
  BY <1>1, <1>2, <1>4, ShortAgrees, AmbiguousLeaves, HeldQuiet DEF AgreeInv
<1> QED BY <1>1, <1>3, <1>4

LEMMA CloserSyncsAgrees == ASSUME StoreInv, AgreeInv, CloserSyncs PROVE AgreeInv'
<1> DEFINE i == op.out
           f == inode[i]
           g == Synced(f)
<1>1. op.at = "closing" /\ UNCHANGED <<snap, projected>>
  BY DEF CloserSyncs
<1>2. /\ i \in Inodes /\ FileOK(f) /\ ClosedPrefix(f.frames) = f.frames
      /\ lease.state = "fenced" /\ op \in Operations /\ lease \in Leases
      /\ dir.repair = NoRecord /\ IsPrefix(projected, f.frames)
      /\ i # dir.log => dir.log = None
  BY <1>1, TypeParts
  DEF StoreInv, ControlInv, FoldInv, Publishing, FilesOK, StateOK, AgreeInv, HeldInv
<1>3. f.frames \in Seq(Frames)
  BY <1>2 DEF FileOK, FileStates
<1>4. FileOK(g) /\ g.frames = f.frames
  BY <1>2, SyncedOK
<1>5. CASE inode' = [inode EXCEPT ![i] = g] /\ Publish /\ UNCHANGED <<dir, durable_dir>>
  <2>1. CatalogInv'
    BY <1>1, <1>5, SyncAgrees
  <2>2. op' = NoOp /\ (lease' = lease \/ lease' = [lease EXCEPT !.state = "ready", !.closed = f.frames])
    BY <1>5 DEF Publish
  <2> HIDE DEF f
  <2>3. lease'.state = "ready" => lease'.closed = f.frames
    BY <1>2, <2>2 DEF Leases
  <2>4. HeldInv'
    BY <1>1, <1>2, <2>2, <2>3, OpIdle DEF HeldInv, Replacing
  <2> QED BY <2>1, <2>4 DEF AgreeInv
<1>6. CASE /\ inode' = [inode EXCEPT ![i] = g] /\ i # dir.log
           /\ dir' = [dir EXCEPT !.log = i] /\ durable_dir' = durable_dir
           /\ op' = [op EXCEPT !.at = "linked"] /\ lease' = lease
  <2> HIDE DEF g, f
  <2>1. /\ dir'.log = i /\ i # None /\ op'.at = "linked" /\ op'.out = i
    BY <1>2, <1>6, Types DEF Operations, Entries
  <2>2. durable_dir.log = None /\ snap = NoSnap
    BY <1>2, <1>6 DEF AgreeInv, CatalogInv
  <2>3. inode'[i] = g
    BY <1>2, <1>6, TypeParts DEF StoreInv, FilesOK
  <2>4. /\ Whole(dir.log)' = f.frames /\ Whole(durable_dir.log)' = <<>>
    BY <1>2, <1>4, <1>6, <2>1, <2>2, <2>3, ClosedPrefixEmpty, EmptyFields DEF Whole, File
  <2>5. IsPrefix(<<>>, Stable)'
    <3>1. FileOK(g) /\ Stable' = SubSeq(g.frames, 1, g.synced)
      BY <1>4, <2>1, <2>3 DEF Stable, Log, File
    <3>2. SubSeq(g.frames, 1, g.synced) \in Seq(Frames)
      BY <3>1, SubSeqPrefix DEF FileOK, FileStates
    <3> QED BY <3>1, <3>2, PrefixEmpty
  <2>6. Comparable(projected, <<>>) /\ Comparable(f.frames, <<>>)
    BY <1>3, PrefixEmpty, Types DEF Comparable
  <2>7. \A d \in Directories' : Comparable(projected, Whole(d.log))'
    BY <1>1, <1>2, <2>4, <2>6 DEF Directories, Comparable
  <2>8. CatalogInv'
    BY <1>1, <2>1, <2>2, <2>4, <2>5, <2>6, <2>7 DEF CatalogInv, Comparable
  <2>9. HeldInv'
    BY <1>1, <1>2, <1>4, <1>6, <2>1, <2>3 DEF HeldInv, Replacing
  <2> QED BY <2>8, <2>9 DEF AgreeInv
<1>7. CASE /\ \E h \in SyncFails(f) : inode' = [inode EXCEPT ![i] = h]
           /\ Ambiguous /\ UNCHANGED <<dir, durable_dir>>
  <2>1. CatalogInv'
    BY <1>1, <1>7, SyncAgrees
  <2> QED BY <1>7, <2>1, AmbiguousLeaves, HeldQuiet DEF AgreeInv
<1> QED BY <1>5, <1>6, <1>7 DEF CloserSyncs, SyncedClose

--------------------------------------------------------------------------------
(* The log is replaced. *)

(* What a file shares with the synced frames is closed in the log. *)
LEMMA StableInWhole ==
    ASSUME StoreInv, NEW j \in Inodes \cup {None}, IsPrefix(Whole(j), Stable)
    PROVE  IsPrefix(Whole(j), Whole(dir.log))
<1>1. /\ Whole(j) \in Seq(Frames) /\ ClosedPrefix(Whole(j)) = Whole(j)
      /\ Log.frames \in Seq(Frames)
  BY WholeOK, LogOK DEF StoreInv
<1>2. IsPrefix(Whole(j), Log.frames)
  BY <1>1, StableOK, PrefixTransitive DEF StoreInv
<1> QED BY <1>1, <1>2, ClosedInside DEF Whole, Log

(* What a replacement keeps: with an owner, or where an ambiguity is        *)
(* cleared, all that is closed; in a repair, what can be read of it.        *)
LEMMA KeptAgrees ==
    ASSUME StoreInv, AgreeInv, op.at = "replace"
    PROVE  /\ Kept \in Seq(Frames) /\ ClosedPrefix(Kept) = Kept
           /\ Comparable(projected, Kept)
           /\ IsPrefix(Whole(dir.log), Kept) \/ IsPrefix(Kept, Whole(dir.log))
           /\ dir.repair = NoRecord \/ snap # NoSnap => IsPrefix(Whole(dir.log), Kept)
<1>1. /\ Kept \in Seq(Frames) /\ Whole(dir.log) \in Seq(Frames)
      /\ IsPrefix(Closed(Log), Whole(dir.log)) /\ ClosedPrefix(Closed(Log)) = Closed(Log)
  BY KeptOK, WholeOK, ClosedInWhole, LogOK, Types DEF StoreInv
<1>2. CASE lease.state # "none"
  <2>1. Replacing /\ Kept = lease.closed
    BY <1>2 DEF StoreInv, ControlInv, Replacing, Kept
  <2>2. /\ ClosedPrefix(lease.closed) = lease.closed
        /\ IsPrefix(Whole(dir.log), lease.closed) /\ IsPrefix(projected, lease.closed)
    BY <2>1 DEF StoreInv, FoldInv, AgreeInv, HeldInv, Whole, Log
  <2> QED BY <1>1, <2>1, <2>2 DEF Comparable
<1>3. CASE lease.state = "none"
  <2>1. Kept = Closed(Log) /\ op.why \in {"clear", "repair", "rebuild"}
    BY <1>3 DEF StoreInv, ControlInv, RepairInv, Kept
  <2>2. Comparable(projected, Closed(Log))
    BY <1>1, <2>1, CompareShorter, Types DEF AgreeInv, CatalogInv, Directories
  <2>3. op.why = "clear" => Closed(Log) = Whole(dir.log)
    BY LogOK DEF StoreInv, AgreeInv, HeldInv, Whole, Log
  <2>4. op.why # "clear" => dir.repair # NoRecord /\ snap = NoSnap
    BY <2>1 DEF StoreInv, RepairInv, AgreeInv, HeldInv
  <2>5. IsPrefix(Whole(dir.log), Whole(dir.log))
    BY <1>1, PrefixReflexive
  <2> QED BY <1>1, <2>1, <2>2, <2>3, <2>4, <2>5
<1> QED BY <1>2, <1>3

LEMMA ReplaceAgrees == ASSUME StoreInv, AgreeInv, replace_prefix PROVE AgreeInv'
<1> DEFINE i == NewInode
           c == (op.why \in {"repair", "rebuild"} \/ Log.cut)
           g == Replacement(c)
           k == Kept
           w == Whole(dir.log)
           d == durable_dir.log
           n == snap.inode
<1>1. c \in BOOLEAN
  OBVIOUS
<1>2. /\ op.at = "replace" /\ SomeInode /\ durable_dir' = durable_dir
      /\ inode' = [inode EXCEPT ![i] = g] /\ dir' = [dir EXCEPT !.log = i]
      /\ op' = [op EXCEPT !.at = "replaced"]
      /\ UNCHANGED <<lease, snap, projected>>
  BY DEF replace_prefix
<1> HIDE DEF c
<1>3. i \in Inodes /\ i # None /\ i # d /\ i # n
  BY <1>2, FreshInode
<1>4. FileOK(g) /\ g.frames = k /\ g.synced = Len(k)
  BY <1>1, KeptOK, ReplacementOK
<1> HIDE DEF g, i
<1>5. inode'[i] = g /\ \A j \in Inodes \ {i} : inode'[j] = inode[j]
  BY <1>2, <1>3, <1>4, OneFile, TypeParts DEF StoreInv
<1>6. dir'.log = i /\ dir'.repair = dir.repair /\ op'.at = "replaced"
  BY <1>2, <1>3, Types, TypeParts DEF StoreInv, StateOK, Entries, Operations
<1>7. /\ k \in Seq(Frames) /\ ClosedPrefix(k) = k /\ Comparable(projected, k)
      /\ IsPrefix(w, k) \/ IsPrefix(k, w)
      /\ dir.repair = NoRecord \/ snap # NoSnap => IsPrefix(w, k)
  BY <1>2, KeptAgrees
<1>8. w \in Seq(Frames) /\ Whole(d) \in Seq(Frames) /\ Whole(n) \in Seq(Frames)
  BY WholeOK, Types DEF StoreInv
<1> HIDE DEF k
<1>9. Whole(dir.log)' = k
  BY <1>3, <1>4, <1>5, <1>6, <1>7 DEF Whole, File
<1>10. Whole(durable_dir.log)' = Whole(d) /\ Whole(snap.inode)' = Whole(n)
  BY <1>2, <1>3, <1>5, Types DEF Whole, File
<1>11. Stable' = k
  <2>1. Stable' = SubSeq(k, 1, Len(k))
    BY <1>3, <1>4, <1>5, <1>6 DEF Stable, Log, File
  <2> QED BY <1>7, <2>1, SubSeqFull
<1>12. ASSUME NEW j \in Inodes \cup {None}, IsPrefix(Whole(j), w), IsPrefix(w, k)
       PROVE  IsPrefix(Whole(j), k)
  BY <1>7, <1>8, <1>12, WholeOK, PrefixTransitive DEF StoreInv
<1>13. Comparable(k, Whole(d)) /\ (dir.repair = NoRecord => IsPrefix(Whole(d), k))
  <2>1. dir.repair = NoRecord => IsPrefix(Whole(d), w)
    <3>1. d # dir.log /\ dir.repair = NoRecord => IsPrefix(Whole(d), Stable)
      BY DEF AgreeInv, CatalogInv
    <3> QED BY <1>8, <3>1, StableInWhole, PrefixReflexive, Types
  <2>2. dir.repair = NoRecord => IsPrefix(Whole(d), k)
    BY <1>7, <1>12, <2>1, Types
  <2>3. Comparable(w, Whole(d))
    BY <1>8, PrefixReflexive DEF AgreeInv, CatalogInv, Comparable
  <2>4. CASE IsPrefix(k, w)
    <3>1. Comparable(Whole(d), w)
      BY <2>3 DEF Comparable
    <3> QED BY <1>7, <1>8, <2>2, <2>4, <3>1, CompareShorter
  <2>5. CASE dir.repair = NoRecord
    BY <2>2, <2>5 DEF Comparable
  <2>6. CASE dir.repair # NoRecord /\ IsPrefix(w, k)
    <3>1. lease.state = "none"
      BY <1>2, <2>6 DEF StoreInv, ControlInv, Replacing
    <3>2. k = Closed(Log)
      BY <1>2, <3>1 DEF StoreInv, ControlInv, RepairInv, Kept, k
    <3> QED BY <2>4, <3>2, ClosedInWhole DEF StoreInv
  <2> QED BY <1>7, <2>4, <2>5, <2>6
<1>14. snap # NoSnap => IsPrefix(Whole(n), k)
  <2>1. snap # NoSnap /\ n # dir.log => IsPrefix(Whole(n), Stable)
    BY DEF AgreeInv, CatalogInv
  <2>2. snap # NoSnap => IsPrefix(Whole(n), w)
    BY <1>8, <2>1, StableInWhole, PrefixReflexive, Types
  <2> QED BY <1>7, <1>12, <2>2, Types
<1>15. \A e \in Directories' : Comparable(projected, Whole(e.log))'
  <2>1. Comparable(projected, Whole(d))
    BY DEF AgreeInv, CatalogInv, Directories
  <2> QED BY <1>2, <1>7, <1>9, <1>10, <2>1 DEF Directories, Comparable
<1>16. CatalogInv'
  <2>1. Comparable(Whole(dir.log), Whole(durable_dir.log))'
    BY <1>9, <1>10, <1>13 DEF Comparable
  <2> QED BY <1>2, <1>3, <1>6, <1>10, <1>11, <1>13, <1>14, <1>15, <2>1 DEF CatalogInv
<1>17. HeldInv'
  BY <1>2, <1>6 DEF AgreeInv, HeldInv, Replacing, StoreInv, ControlInv
<1> QED BY <1>16, <1>17 DEF AgreeInv

--------------------------------------------------------------------------------
(* The catalog is written, and the host stops. *)

(* In the log is in what its owner holds. *)
LEMMA WholeHeld ==
    ASSUME StoreInv, dir.log # None
    PROVE  /\ lease.state = "ready" \/ op.at \in {"open", "copied", "staged"} \/ Replacing =>
                 IsPrefix(Whole(dir.log), lease.closed)
           /\ op.at \in {"closing", "linked"} => Whole(dir.log) = inode[op.out].frames
<1>1. Log = inode[dir.log] /\ Whole(dir.log) = ClosedPrefix(Log.frames)
  BY LogOK DEF StoreInv, Whole, Log
<1>2. ClosedPrefix(lease.closed) = lease.closed /\ IsPrefix(lease.closed, lease.closed)
  BY PrefixReflexive, Types DEF StoreInv, FoldInv
<1>3. op.at \in {"copied", "staged", "closing", "linked"} => op.out = dir.log
  BY DEF StoreInv, ControlInv
<1>4. lease.state = "ready" \/ op.at \in {"open", "copied", "staged"} =>
          Whole(dir.log) = lease.closed
  BY <1>1, <1>2, <1>3 DEF StoreInv, FoldInv
<1>5. Replacing => IsPrefix(Whole(dir.log), lease.closed)
  BY <1>1, <1>2 DEF StoreInv, FoldInv, Replacing
<1>6. op.at \in {"closing", "linked"} => Whole(dir.log) = inode[op.out].frames
  BY <1>1, <1>3 DEF StoreInv, FoldInv
<1> QED BY <1>2, <1>4, <1>5, <1>6

(* The catalog is given groups of the log. *)
LEMMA ProjectedAgrees ==
    ASSUME StoreInv, CatalogInv, projected' \in Seq(Frames),
           IsPrefix(projected', Whole(dir.log)),
           UNCHANGED <<inode, dir, durable_dir>>, snap' \in {snap, NoSnap}
    PROVE  CatalogInv'
<1>1. /\ Whole(dir.log) \in Seq(Frames) /\ Whole(durable_dir.log) \in Seq(Frames)
  BY WholeOK, Types DEF StoreInv
<1>2. /\ Whole(dir.log)' = Whole(dir.log) /\ Whole(durable_dir.log)' = Whole(durable_dir.log)
      /\ Stable' = Stable /\ (snap' = snap => Whole(snap.inode)' = Whole(snap.inode))
  BY DEF Whole, File, Stable, Log
<1> DEFINE p == projected'
<1>3. Comparable(p, Whole(dir.log)) /\ Comparable(p, Whole(durable_dir.log))
  <2>1. Comparable(Whole(durable_dir.log), Whole(dir.log))
    BY <1>1, PrefixReflexive DEF CatalogInv, Comparable
  <2> HIDE DEF p
  <2>2. p \in Seq(Frames) /\ IsPrefix(p, Whole(dir.log))
    BY DEF p
  <2> QED BY <1>1, <2>1, <2>2, CompareShorter DEF Comparable
<1>4. \A e \in Directories' : Comparable(projected, Whole(e.log))'
  BY <1>2, <1>3 DEF Directories, Comparable
<1>5. Comparable(Whole(dir.log), Whole(durable_dir.log))' <=>
          Comparable(Whole(dir.log), Whole(durable_dir.log))
  BY <1>2 DEF Comparable
<1> QED BY <1>2, <1>4, <1>5 DEF CatalogInv

LEMMA ReadAgrees == ASSUME StoreInv, AgreeInv, Read PROVE AgreeInv'
<1>1. CASE snapshot
  <2>1. /\ snap'.inode = dir.log /\ dir.log # None /\ op = NoOp /\ lease = NoLease
        /\ UNCHANGED <<inode, dir, durable_dir, lease, op, projected>>
    BY <1>1 DEF snapshot, Unlocked
  <2>2. CatalogInv'
    BY <2>1, CatalogQuiet DEF AgreeInv
  <2> QED BY <2>1, <2>2, OpIdle, LeaseNone, HeldQuiet DEF AgreeInv
<1>2. CASE ProjectSnapshot
  <2> DEFINE s == SnapshotFrames
             c == ClosedPrefix(s)
             w == Whole(dir.log)
  <2>1. /\ snap # NoSnap /\ Project(s) /\ snap' = NoSnap
        /\ UNCHANGED <<inode, dir, durable_dir, lease, op>>
    BY <1>2 DEF ProjectSnapshot
  <2>2. /\ snap.inode \in Inodes /\ s \in Seq(Frames)
        /\ IsPrefix(s, inode[snap.inode].frames) /\ dir.log # None
    BY <2>1, SnapshotFramesOK DEF StoreInv, AgreeInv, CatalogInv
  <2>3. /\ w \in Seq(Frames) /\ Whole(snap.inode) \in Seq(Frames)
        /\ File(snap.inode).frames \in Seq(Frames) /\ c \in Seq(Frames)
    BY <2>2, WholeOK, ClosedPrefixType, Types DEF StoreInv
  <2>4. IsPrefix(c, Whole(snap.inode))
    BY <2>2, <2>3, ClosedMonotone DEF Whole, File
  <2>5. IsPrefix(Whole(snap.inode), w)
    <3>1. snap.inode # dir.log => IsPrefix(Whole(snap.inode), Stable)
      BY <2>1 DEF AgreeInv, CatalogInv
    <3> QED BY <2>3, <3>1, StableInWhole, PrefixReflexive, Types
  <2> HIDE DEF s, w
  <2>6. IsPrefix(c, w)
    BY <2>3, <2>4, <2>5, PrefixTransitive
  <2>7. Comparable(projected, c)
    BY <2>3, <2>6, CompareShorter, Types DEF AgreeInv, CatalogInv, Directories, w
  <2>8. projected' = c
    BY <2>1, <2>2, <2>7, ProjectOK, Types
  <2> HIDE DEF c
  <2>9. CatalogInv'
    BY <2>1, <2>3, <2>6, <2>8, ProjectedAgrees DEF AgreeInv, w
  <2>10. /\ lease.state = "ready" \/ op.at \in {"open", "copied", "staged"} \/ Replacing =>
               IsPrefix(c, lease.closed)
         /\ op.at \in {"closing", "linked"} => IsPrefix(c, inode[op.out].frames)
    BY <2>2, <2>3, <2>6, WholeHeld, PrefixTransitive, Types DEF w
  <2>11. Log' = Log
    BY <2>1 DEF Log, File
  <2>12. HeldInv'
    BY <2>1, <2>8, <2>10, <2>11 DEF AgreeInv, HeldInv, Replacing
  <2> QED BY <2>9, <2>12 DEF AgreeInv
<1>3. CASE ProjectOwned
  <2>1. /\ lease.state = "ready" /\ op = NoOp /\ Project(lease.closed)
        /\ UNCHANGED <<inode, dir, durable_dir, lease, op, snap>>
    BY <1>3 DEF ProjectOwned, memory
  <2>2. /\ ClosedPrefix(lease.closed) = lease.closed /\ Whole(dir.log) = lease.closed
        /\ Comparable(projected, lease.closed)
    BY <2>1 DEF StoreInv, FoldInv, AgreeInv, HeldInv, Comparable, Whole, Log
  <2>3. projected' = lease.closed
    BY <2>1, <2>2, ProjectOK, Types
  <2>4. IsPrefix(lease.closed, lease.closed)
    BY PrefixReflexive, Types
  <2>5. CatalogInv'
    BY <2>1, <2>2, <2>3, <2>4, ProjectedAgrees, Types DEF AgreeInv
  <2>6. HeldInv'
    BY <2>1, <2>3, <2>4, OpIdle DEF HeldInv, Replacing
  <2> QED BY <2>5, <2>6 DEF AgreeInv
<1> QED BY <1>1, <1>2, <1>3 DEF Read

LEMMA RebuildAgrees == ASSUME StoreInv, AgreeInv, RebuildProjection PROVE AgreeInv'
<1>1. /\ op.at = "project" /\ op' = NoOp /\ projected' \in {projected, Closed(Log)}
      /\ UNCHANGED <<inode, dir, durable_dir, lease, snap>>
  BY DEF RebuildProjection
<1>2. CatalogInv'
  <2>1. CASE projected' = projected
    BY <1>1, <2>1, UntouchedAgrees DEF AgreeInv
  <2>2. CASE projected' = Closed(Log)
    BY <1>1, <2>2, ClosedInWhole, ProjectedAgrees DEF StoreInv, AgreeInv
  <2> QED BY <1>1, <2>1, <2>2
<1>3. lease.state = "none"
  BY <1>1 DEF StoreInv, ControlInv
<1> QED BY <1>1, <1>2, <1>3, OpIdle, HeldQuiet DEF AgreeInv

LEMMA HostAgrees == ASSUME StoreInv, AgreeInv, Host PROVE AgreeInv'
<1>1. CASE Restart \/ Kill
  <2>1. /\ lease' = NoLease /\ op' = NoOp /\ snap' = NoSnap
        /\ UNCHANGED <<inode, dir, durable_dir, projected>>
    BY <1>1 DEF Restart, Kill, ProcessEnds
  <2> QED BY <2>1, UntouchedAgrees, OpIdle, LeaseNone, HeldQuiet DEF AgreeInv
<1>2. CASE PowerLoss
  <2>1. PICK d \in Directories :
          \E n \in File(d.log).synced..Len(File(d.log).frames), b \in BOOLEAN :
            /\ dir' = d /\ durable_dir' = d
            /\ inode' = [i \in Inodes |-> IF i = d.log THEN Survives(File(d.log), n, b)
                                                       ELSE EmptyFile]
    BY <1>2 DEF PowerLoss
  <2> DEFINE f == File(d.log)
  <2>2. PICK n \in f.synced..Len(f.frames), b \in BOOLEAN :
          /\ dir' = d /\ durable_dir' = d
          /\ inode' = [i \in Inodes |-> IF i = d.log THEN Survives(f, n, b) ELSE EmptyFile]
    BY <2>1
  <2> DEFINE g == Survives(f, n, b)
  <2>3. d.log \in Inodes \cup {None} /\ Comparable(projected, Whole(d.log))
    BY Types DEF AgreeInv, CatalogInv, Directories
  <2>4. FileOK(f) /\ f.frames \in Seq(Frames) /\ Whole(d.log) \in Seq(Frames)
    BY <2>3, WholeOK DEF StoreInv
  <2>5. g.frames = SubSeq(f.frames, 1, n)
    BY <2>2, <2>4, SurvivesOK
  <2>6. g.frames \in Seq(Frames) /\ IsPrefix(g.frames, f.frames)
    <3>1. n \in 0..Len(f.frames)
      BY <2>2, <2>4 DEF FileOK, FileStates
    <3> QED BY <2>4, <2>5, <3>1, SubSeqPrefix
  <2> DEFINE v == ClosedPrefix((IF d.log = None THEN EmptyFile ELSE g).frames)
  <2>7. v \in Seq(Frames) /\ IsPrefix(v, Whole(d.log))
    <3>1. CASE d.log = None
      <4>1. v = <<>>
        BY <3>1, EmptyFields, ClosedPrefixEmpty
      <4> HIDE DEF v
      <4> QED BY <2>4, <4>1, PrefixEmpty
    <3>2. CASE d.log # None
      BY <2>4, <2>6, <3>2, ClosedMonotone, ClosedPrefixType DEF Whole
    <3> QED BY <3>1, <3>2
  <2>8. Whole(dir.log)' = v /\ Whole(durable_dir.log)' = v
    <3>1. d.log # None => inode'[d.log] = g
      BY <2>2, <2>3
    <3> HIDE DEF g
    <3> QED BY <2>2, <3>1 DEF Whole, File
  <2> HIDE DEF v, g, f
  <2>9. lease' = NoLease /\ op' = NoOp /\ snap' = NoSnap /\ projected' = projected
    BY <1>2 DEF PowerLoss, ProcessEnds
  <2>10. Comparable(projected, v)
    BY <2>3, <2>4, <2>7, CompareShorter, Types
  <2>11. \A e \in Directories' : Comparable(projected, Whole(e.log))'
    BY <2>8, <2>9, <2>10 DEF Directories, Comparable
  <2>12. CatalogInv'
    BY <2>2, <2>9, <2>11 DEF CatalogInv
  <2> QED BY <2>9, <2>12, OpIdle, LeaseNone, HeldQuiet DEF AgreeInv
<1>3. CASE Corrupt
  <2>1. /\ lease = NoLease /\ op = NoOp
        /\ UNCHANGED <<dir, durable_dir, lease, op, snap, projected>>
    BY <1>3 DEF Corrupt, Unlocked, memory
  <2>2. PICK n \in 1..Len(Log.frames) :
            inode' = [inode EXCEPT ![dir.log] = [inode[dir.log] EXCEPT !.damage = n]]
    BY <1>3 DEF Corrupt
  <2>3. \A i \in Inodes : inode'[i].frames = inode[i].frames /\ inode'[i].synced = inode[i].synced
    BY <2>2, TypeParts DEF StoreInv, FilesOK, FileStates
  <2>4. CatalogInv'
    BY <2>1, <2>3, CatalogQuiet DEF AgreeInv
  <2> QED BY <2>1, <2>4, OpIdle, LeaseNone, HeldQuiet DEF AgreeInv
<1> QED BY <1>1, <1>2, <1>3 DEF Host

--------------------------------------------------------------------------------
LEMMA AgreeInit == ASSUME Init PROVE AgreeInv
<1>1. /\ dir.log = None /\ durable_dir = dir /\ lease = NoLease /\ op = NoOp
      /\ snap = NoSnap /\ projected = <<>>
  BY DEF Init
<1>2. Whole(dir.log) = <<>>
  BY <1>1, EmptyFields, ClosedPrefixEmpty DEF Whole, File
<1>3. Comparable(<<>>, <<>>)
  <2>1. <<>> \in Seq(Frames)
    OBVIOUS
  <2> QED BY <2>1, PrefixEmpty DEF Comparable
<1>4. CatalogInv
  BY <1>1, <1>2, <1>3 DEF CatalogInv, Directories
<1>5. HeldInv
  BY <1>1, OpIdle, LeaseNone DEF HeldInv, Replacing
<1> QED BY <1>4, <1>5 DEF AgreeInv

LEMMA AgreeNext == StoreInv /\ AgreeInv /\ [Next]_vars => AgreeInv'
<1> SUFFICES ASSUME StoreInv, AgreeInv, [Next]_vars PROVE AgreeInv'
  OBVIOUS
<1>1. CASE Own
  BY <1>1, OwnerUntouched, StageWritesAgrees, StageWriteFailsAgrees, StageSyncsAgrees,
     PushFileRowAgrees, CompleteAgrees, CloserSyncsAgrees, ReconcileAgrees DEF Own
<1>2. CASE Recover
  BY <1>2, ReplaceAgrees, RecoveryUntouched, RebuildAgrees DEF Recover
<1>3. CASE UNCHANGED vars
  <2>1. UNCHANGED <<inode, dir, durable_dir, lease, op, snap, projected>>
    BY <1>3 DEF vars, memory
  <2>2. Log' = Log
    BY <2>1 DEF Log, File
  <2> QED BY <2>1, <2>2, UntouchedAgrees DEF AgreeInv, HeldInv, Replacing
<1> QED BY <1>1, <1>2, <1>3, ReadAgrees, HostAgrees DEF Next

(* For every number of inodes, groups and faults, and whatever faults       *)
(* happen: the catalog, the names power loss may bring back and the file a  *)
(* snapshot reads compare with the log, and an owner holds what the catalog *)
(* holds in every stage of its work.                                        *)
THEOREM AgreeInvariance == Spec => []AgreeInv
<1>1. Init => AgreeInv
  BY AgreeInit
<1>2. StoreInv /\ AgreeInv /\ [Next]_vars => AgreeInv'
  BY AgreeNext
<1> QED BY <1>1, <1>2, StoreInvariance, PTL DEF Spec

(* CatalogAgrees: the catalog never holds a group the readable log          *)
(* contradicts, and a usable owner never publishes behind the catalog       *)
(* (acquire_inner, project_snapshot, replace_prefix of store.rs).           *)
THEOREM CatalogNeverDisagrees == Spec => []CatalogAgrees
<1>1. StoreInv /\ AgreeInv => CatalogAgrees
  <2> SUFFICES ASSUME StoreInv, AgreeInv PROVE CatalogAgrees
    OBVIOUS
  <2>1. Comparable(projected, Closed(Log))
    BY ClosedInWhole, CompareShorter, WholeOK, Types
    DEF StoreInv, AgreeInv, CatalogInv, Directories
  <2> QED BY <2>1 DEF CatalogAgrees, AgreeInv, HeldInv
<1> QED BY <1>1, StoreInvariance, AgreeInvariance, PTL
================================================================================
