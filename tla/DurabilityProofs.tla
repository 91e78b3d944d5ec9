--------------------------- MODULE DurabilityProofs ---------------------------
(***************************************************************************)
(* The proof that a commit an owner saw succeed, and every group of the    *)
(* catalog, survives power loss in the log (AckedDurable, ProjectedDurable *)
(* of TapeLogStore), through failing writes, failing file syncs, failing   *)
(* callbacks and power loss at any point.                                  *)
(***************************************************************************)
EXTENDS CatalogAgreesProofs

(* The faults a log survives: each of the others (a kill, a failing         *)
(* directory sync, a marker that is not created, damage) loses commits.     *)
Survivable == Faults \subseteq {"power", "write", "sync", "observer"}

(* The closed groups each directory that power loss may leave is sure to    *)
(* have, and what all of them have.                                         *)
Durable(i) == DurableClosed(File(i))
Promised == {Durable(dir.log), Durable(durable_dir.log)}
Under(s, T) == \A t \in T : IsPrefix(s, t)

Intact == \A i \in Inodes : inode[i].damage = 0

(* What was promised: acknowledged, projected, or captured for projection. *)
PromiseInv ==
    /\ Under(acked, Promised) /\ Under(projected, Promised)
    /\ snap # NoSnap =>
          /\ snap.end <= Len(inode[snap.inode].frames)
          /\ Under(SubSeq(inode[snap.inode].frames, 1, snap.end), Promised)

(* Nothing is in doubt: no marker stands or is about to, and no closing     *)
(* frame awaits its sync.  Then what can be read is durable, and a file     *)
(* that no later sync writes ends in provisional frames, so that the next   *)
(* owner replaces it.                                                       *)
Settled == \/ op.at \in {"unmark", "unmarked"}
           \/ ~dir.ambiguous /\ op.at \notin {"uncertain", "closing", "linked"}
SettledInv ==
    Settled => /\ Under(ClosedPrefix(Log.frames), Promised)
               /\ Log.suspect => ClosedPrefix(Log.frames) # Log.frames

(* The name is durable but inside a replacement or the first link, and the  *)
(* file of a publication can be synced.                                     *)
StageInv ==
    /\ Replacing => Under(lease.closed, Promised)
    /\ durable_dir.log # dir.log => op.at \in {"replaced", "linked"}
    /\ op.at = "replaced" => ~Log.suspect /\ Log.synced = Len(Log.frames)
    /\ op.at \in {"copied", "staged", "closing", "linked"} => ~inode[op.out].suspect
    /\ op.at = "copied" => ClosedPrefix(inode[op.out].frames) # inode[op.out].frames
    /\ op.at = "linked" => inode[op.out].synced = Len(inode[op.out].frames)

DurableInv == Intact /\ PromiseInv /\ SettledInv /\ StageInv

--------------------------------------------------------------------------------
(* Durable prefixes. *)
USE StoreAssumption DEF None

LEMMA DurableClosedOK ==
    ASSUME NEW f, FileOK(f)
    PROVE  /\ DurableClosed(f) \in Seq(Frames)
           /\ IsPrefix(DurableClosed(f), ClosedPrefix(f.frames))
           /\ Len(DurableClosed(f)) <= f.synced
           /\ f.synced = Len(f.frames) => DurableClosed(f) = ClosedPrefix(f.frames)
<1>1. f.frames \in Seq(Frames) /\ f.synced \in 0..Len(f.frames)
  BY DEF FileOK, FileStates
<1> DEFINE t == SubSeq(f.frames, 1, f.synced)
<1>2. t \in Seq(Frames) /\ Len(t) = f.synced /\ IsPrefix(t, f.frames)
  BY <1>1, SubSeqPrefix
<1>3. f.synced = Len(f.frames) => t = f.frames
  BY <1>1, SubSeqFull
<1>4. DurableClosed(f) = ClosedPrefix(t)
  BY DEF DurableClosed
<1> HIDE DEF t
<1>5. ClosedPrefix(t) \in Seq(Frames) /\ IsPrefix(ClosedPrefix(t), t)
  BY <1>2, ClosedPrefixType
<1>6. Len(ClosedPrefix(t)) <= Len(t)
  BY <1>2, <1>5, PrefixElements
<1> QED BY <1>1, <1>2, <1>3, <1>4, <1>5, <1>6, ClosedMonotone

(* A file that grows, or loses unsynced frames, loses nothing durable. *)
LEMMA DurableKept ==
    ASSUME NEW f, NEW g, FileOK(f), FileOK(g), Comparable(f.frames, g.frames),
           f.synced <= g.synced
    PROVE  IsPrefix(DurableClosed(f), DurableClosed(g))
<1> DEFINE s == SubSeq(f.frames, 1, f.synced)
           t == SubSeq(g.frames, 1, g.synced)
<1>1. IsPrefix(s, t)
  BY SyncedKept
<1>2. /\ f.frames \in Seq(Frames) /\ f.synced \in 0..Len(f.frames)
      /\ g.frames \in Seq(Frames) /\ g.synced \in 0..Len(g.frames)
  BY DEF FileOK, FileStates
<1>3. s \in Seq(Frames) /\ t \in Seq(Frames)
  BY <1>2, SubSeqPrefix
<1> HIDE DEF s, t
<1>4. IsPrefix(ClosedPrefix(s), ClosedPrefix(t))
  BY <1>1, <1>3, ClosedMonotone
<1> QED BY <1>4 DEF DurableClosed, s, t

LEMMA DurableOK ==
    ASSUME TypeOK, NEW i \in Inodes \cup {None}
    PROVE  /\ Durable(i) \in Seq(Frames) /\ IsPrefix(Durable(i), Whole(i))
           /\ Len(Durable(i)) <= File(i).synced
           /\ File(i).synced = Len(File(i).frames) => Durable(i) = Whole(i)
BY WholeOK, DurableClosedOK DEF Durable, Whole

LEMMA PromisedOK ==
    ASSUME StoreInv
    PROVE  /\ \A t \in Promised : t \in Seq(Frames)
           /\ acked \in Seq(Frames) /\ projected \in Seq(Frames)
           /\ lease.closed \in Seq(Frames)
           /\ ClosedPrefix(Log.frames) \in Seq(Frames)
           /\ durable_dir.log = dir.log => Promised = {Durable(dir.log)}
           /\ dir.log # None => dir.log \in Inodes /\ Log = inode[dir.log]
BY DurableOK, Types, LogOK, TypeParts, ClosedPrefixType
DEF Promised, StoreInv, StateOK

(* What lies under the old promise lies under one that extends it. *)
LEMMA UnderKept ==
    ASSUME NEW T, NEW U, NEW s \in Seq(Frames), Under(s, T),
           \A t \in T : t \in Seq(Frames), \A u \in U : u \in Seq(Frames),
           \A u \in U : \E t \in T : IsPrefix(t, u)
    PROVE  Under(s, U)
<1>1. ASSUME NEW u \in U PROVE IsPrefix(s, u)
  <2>1. PICK t \in T : IsPrefix(t, u)
    OBVIOUS
  <2> QED BY <2>1, PrefixTransitive DEF Under
<1> QED BY <1>1 DEF Under

LEMMA UnderShorter ==
    ASSUME NEW T, NEW s \in Seq(Frames), NEW t \in Seq(Frames), Under(t, T),
           IsPrefix(s, t), \A u \in T : u \in Seq(Frames)
    PROVE  Under(s, T)
BY PrefixTransitive DEF Under

--------------------------------------------------------------------------------
(* Steps that leave every file in use and its name. *)

Writing == {"replaced", "copied", "staged", "closing", "linked"}

LEMMA QuietDurable ==
    ASSUME StoreInv, DurableInv,
           \A i \in Inodes : /\ inode'[i].frames = inode[i].frames
                             /\ inode'[i].synced = inode[i].synced
                             /\ inode'[i].suspect = inode[i].suspect
                             /\ inode'[i].damage = inode[i].damage,
           dir'.log = dir.log, durable_dir'.log = dir.log,
           UNCHANGED <<acked, projected>>, snap' \in {snap, NoSnap},
           op'.at \notin Writing,
           Settled' => /\ IsPrefix(ClosedPrefix(Log.frames), Durable(dir.log))
                       /\ Log.suspect => ClosedPrefix(Log.frames) # Log.frames,
           Replacing' => IsPrefix(lease'.closed, Durable(dir.log))
    PROVE  DurableInv'
<1>1. dir.log \in Inodes \cup {None}
  BY Types
<1>2. /\ File(dir.log)'.frames = File(dir.log).frames
      /\ File(dir.log)'.synced = File(dir.log).synced
      /\ File(dir.log)'.suspect = File(dir.log).suspect
  BY <1>1 DEF File
<1>3. Durable(dir.log)' = Durable(dir.log)
  BY <1>2 DEF Durable, DurableClosed
<1>4. Durable(durable_dir.log)' = Durable(dir.log)'
  BY DEF Durable
<1>5. Promised' = {Durable(dir.log)}
  BY <1>3, <1>4 DEF Promised
<1>6. Durable(dir.log) \in Promised
  BY DEF Promised
<1>7. Intact'
  BY DEF DurableInv, Intact
<1>8. PromiseInv'
  <2>1. \A s : Under(s, Promised) => Under(s, Promised')
    BY <1>5, <1>6 DEF Under
  <2>2. Under(acked, Promised)' /\ Under(projected, Promised)'
    BY <2>1 DEF DurableInv, PromiseInv, Under
  <2>3. CASE snap' = NoSnap
    BY <2>2, <2>3 DEF PromiseInv
  <2>4. CASE snap' = snap /\ snap # NoSnap
    <3>1. snap.inode \in Inodes
      BY <2>4, Types
    <3>2. inode'[snap.inode].frames = inode[snap.inode].frames
      BY <3>1
    <3> QED BY <2>1, <2>2, <2>4, <3>2 DEF DurableInv, PromiseInv, Under
  <2> QED BY <2>3, <2>4
<1>9. SettledInv'
  <2>1. Log'.frames = Log.frames /\ Log'.suspect = Log.suspect
    BY <1>2 DEF Log
  <2> QED BY <1>5, <2>1 DEF SettledInv, Under
<1>10. StageInv'
  BY <1>5 DEF StageInv, Writing, Under
<1> QED BY <1>7, <1>8, <1>9, <1>10 DEF DurableInv

LEMMA SettledOK ==
    ASSUME DurableInv, Settled
    PROVE  /\ IsPrefix(ClosedPrefix(Log.frames), Durable(dir.log))
           /\ Log.suspect => ClosedPrefix(Log.frames) # Log.frames
BY DEF DurableInv, SettledInv, Under, Promised

(* Of these, the ones that take on no doubt and no replacement. *)
LEMMA IdleDurable ==
    ASSUME StoreInv, DurableInv, inode' = inode,
           dir'.log = dir.log, durable_dir'.log = dir.log,
           UNCHANGED <<acked, projected>>, snap' \in {snap, NoSnap},
           op'.at \notin Writing,
           Settled' => Settled,
           Replacing' => IsPrefix(lease'.closed, Durable(dir.log))
    PROVE  DurableInv'
<1>1. Settled' => /\ IsPrefix(ClosedPrefix(Log.frames), Durable(dir.log))
                  /\ Log.suspect => ClosedPrefix(Log.frames) # Log.frames
  BY SettledOK
<1> QED BY <1>1, QuietDurable

USE DEF Fault, NoFault, SetEntry, SyncDirectory, files

LEMMA Named ==
    ASSUME StoreInv, DurableInv, op.at \notin {"replaced", "linked"}
    PROVE  durable_dir.log = dir.log
BY DEF DurableInv, StageInv

(* What an owner at work holds is durable. *)
LEMMA OwnerDurable ==
    ASSUME StoreInv, DurableInv,
           lease.state = "ready" \/ (op.at = "staged" /\ op.out = dir.log)
    PROVE  IsPrefix(lease.closed, Durable(dir.log))
<1>1. Settled
  BY DEF StoreInv, ControlInv, Settled, Publishing
<1>2. lease.closed = ClosedPrefix(Log.frames)
  <2>1. CASE lease.state = "ready"
    BY <2>1 DEF StoreInv, FoldInv
  <2>2. CASE op.at = "staged" /\ op.out = dir.log
    <3>1. ClosedPrefix(inode[dir.log].frames) = lease.closed /\ dir.log \in Inodes
      BY <2>2 DEF StoreInv, FoldInv, ControlInv
    <3> QED BY <3>1 DEF Log, File
  <2> QED BY <2>1, <2>2
<1> QED BY <1>1, <1>2, SettledOK

LEMMA OwnerIdle ==
    ASSUME Survivable, StoreInv, DurableInv,
           \/ \E fresh, recovery \in BOOLEAN : acquire(fresh, recovery)
           \/ set_projection_floor \/ Release \/ DropStaged \/ cancel_detached
           \/ \E rows \in {0, 1}, sync \in BOOLEAN : stage(rows, sync)
           \/ ReconcileSyncs
    PROVE  DurableInv'
<1>l. lease \in Leases /\ op \in Operations
  BY TypeParts DEF StoreInv, StateOK
<1>1. /\ inode' = inode /\ dir' = dir /\ durable_dir' \in {dir, durable_dir}
      /\ UNCHANGED <<projected, snap, acked>>
  BY DEF acquire, set_projection_floor, Release, DropStaged, cancel_detached, stage,
     ReconcileSyncs
<1>2. op.at \in {"none", "staged", "reconciled"}
  BY OpIdle DEF acquire, set_projection_floor, Release, DropStaged, cancel_detached, stage,
     ReconcileSyncs, Unlocked
<1>3. durable_dir'.log = dir.log
  BY <1>1, <1>2, Named
<1>4. ASSUME op'.at \in {"none", "open", "replace"} PROVE Settled' => Settled
  BY <1>1, <1>2, <1>4 DEF Settled
<1>5. ASSUME op' = NoOp PROVE DurableInv'
  BY <1>1, <1>3, <1>4, <1>5, OpIdle, IdleDurable DEF Writing, Replacing
<1>6. ASSUME op'.at \in {"open", "replace"}, lease'.closed = lease.closed,
             lease.state = "ready" \/ (op.at = "staged" /\ op.out = dir.log)
      PROVE  DurableInv'
  BY <1>1, <1>3, <1>4, <1>6, OwnerDurable, IdleDurable DEF Writing
<1>7. ASSUME NEW rows \in {0, 1}, NEW sync \in BOOLEAN, stage(rows, sync)
      PROVE  DurableInv'
  <2> DEFINE a == IF lease.torn THEN "replace" ELSE "open"
  <2>1. /\ lease' = [lease EXCEPT !.state = "fenced"] /\ lease.state = "ready"
        /\ op' = [NoOp EXCEPT !.at = a, !.why = "stage", !.rows = rows, !.sync = sync]
    BY <1>7 DEF stage
  <2>2. a \in {"replace", "open"}
    OBVIOUS
  <2> HIDE DEF a
  <2>3. op'.at = a /\ lease'.closed = lease.closed
    BY <1>l, <2>1, OpIdle DEF Operations, Leases
  <2> QED BY <1>6, <2>1, <2>2, <2>3
<1>8. CASE cancel_detached
  <2>1. CASE op' = NoOp
    BY <1>5, <2>1
  <2>2. CASE /\ op.at = "staged" /\ op.out = dir.log /\ lease' = lease
             /\ op' = [NoOp EXCEPT !.at = "replace", !.why = "cancel"]
    <3>1. op'.at = "replace"
      BY <2>2, OpIdle DEF Operations
    <3> QED BY <1>6, <2>2, <3>1
  <2> QED BY <1>8, <2>1, <2>2 DEF cancel_detached
<1>9. CASE ReconcileSyncs
  BY <1>5, <1>9 DEF ReconcileSyncs, Survivable
<1>10. CASE \/ \E fresh, recovery \in BOOLEAN : acquire(fresh, recovery)
            \/ set_projection_floor \/ Release \/ DropStaged
  BY <1>5, <1>10 DEF acquire, set_projection_floor, Release, DropStaged, Unlocked
<1> QED BY <1>7, <1>8, <1>9, <1>10

LEMMA ReconcileDurable ==
    ASSUME StoreInv, DurableInv, reconcile_repaired_tail PROVE DurableInv'
<1>0. CASE Ambiguous /\ UNCHANGED <<files, snap, projected, acked>>
  <2>1. op.at = "none" /\ op'.at = "uncertain"
    BY <1>0, OpIdle, AmbiguousLeaves DEF reconcile_repaired_tail
  <2>2. Settled' => Settled
    BY <1>0, <2>1 DEF Settled
  <2> QED BY <1>0, <2>1, <2>2, Named, IdleDurable DEF Writing, Replacing
<1> SUFFICES ASSUME RemoveRepairFence PROVE DurableInv'
  BY <1>0 DEF reconcile_repaired_tail
<1>1. /\ inode' = [inode EXCEPT ![dir.log] = [inode[dir.log] EXCEPT !.cut = FALSE]]
      /\ dir' = [dir EXCEPT !.repair = NoRecord] /\ durable_dir' = dir
      /\ lease.state = "ready" /\ op' = [NoOp EXCEPT !.at = "reconciled"] /\ op = NoOp
      /\ UNCHANGED <<lease, snap, projected, acked>>
  BY DEF reconcile_repaired_tail, RemoveRepairFence
<1>2. dir'.log = dir.log /\ durable_dir'.log = dir.log
  BY <1>1, Types DEF Entries
<1>3. \A i \in Inodes : /\ inode'[i].frames = inode[i].frames
                        /\ inode'[i].synced = inode[i].synced
                        /\ inode'[i].suspect = inode[i].suspect
                        /\ inode'[i].damage = inode[i].damage
  BY <1>1, TypeParts DEF StoreInv, FilesOK, FileStates
<1>4. op'.at = "reconciled"
  BY <1>1, OpIdle DEF Operations
<1>5. Settled
  BY <1>1, OpIdle DEF Settled, StoreInv, ControlInv
<1> QED BY <1>1, <1>2, <1>3, <1>4, <1>5, SettledOK, QuietDurable DEF Writing, Replacing

(* Recovery, but for the replacement itself and the projection. *)
LEMMA RecoveryDurable ==
    ASSUME Survivable, StoreInv, DurableInv,
           \/ ReplaceFails \/ fence_ambiguity \/ clear_ambiguity
           \/ RemoveMarker \/ MarkerRemoved \/ RecordSyncs
           \/ \E rebuild \in BOOLEAN : repair_tail(rebuild) \/ resume_repair(rebuild)
    PROVE  DurableInv'
<1>l. lease \in Leases /\ op \in Operations
  BY TypeParts DEF StoreInv, StateOK
<1>1. /\ inode' = inode /\ UNCHANGED <<projected, snap, acked>>
  BY DEF ReplaceFails, fence_ambiguity, clear_ambiguity, RemoveMarker,
     MarkerRemoved, RecordSyncs, repair_tail, resume_repair
<1>2. CASE ReplaceFails
  <2>1. /\ op.at = "replace" /\ UNCHANGED <<dir, durable_dir>>
        /\ op' = NoOp \/ op' = [op EXCEPT !.at = "uncertain"]
    BY <1>2 DEF ReplaceFails, Survivable
  <2>2. op'.at \in {"none", "uncertain"}
    BY <1>l, <2>1, OpIdle DEF Operations
  <2>3. Settled' => Settled
    BY <2>1, <2>2 DEF Settled
  <2> QED BY <1>1, <2>1, <2>2, <2>3, Named, IdleDurable DEF Writing, Replacing
<1>3. CASE fence_ambiguity
  <2>1. /\ op.at = "uncertain" /\ dir' = [dir EXCEPT !.ambiguous = TRUE]
        /\ durable_dir' = dir' /\ op' = NoOp
    BY <1>3 DEF fence_ambiguity, Survivable
  <2>2. dir'.log = dir.log /\ dir'.ambiguous
    BY <2>1, Types DEF Entries
  <2>3. ~Settled'
    BY <2>1, <2>2, OpIdle DEF Settled
  <2> QED BY <1>1, <2>1, <2>2, <2>3, OpIdle, IdleDurable DEF Writing, Replacing
<1>4. CASE clear_ambiguity
  <2> DEFINE a == IF dir.log = None THEN "unmark" ELSE "replace"
  <2>1. /\ lease' = NoLease /\ op = NoOp /\ dir' = dir
        /\ \/ op' = [NoOp EXCEPT !.at = a, !.why = "clear"]
           \/ op' = [NoOp EXCEPT !.at = "uncertain"]
        /\ durable_dir' \in {dir, durable_dir}
    BY <1>4 DEF clear_ambiguity, Unlocked
  <2>2. durable_dir'.log = dir.log
    BY <2>1, OpIdle, Named
  <2>3. a = "replace" \/ (a = "unmark" /\ dir.log = None)
    OBVIOUS
  <2> HIDE DEF a
  <2>4. op'.at \in {a, "uncertain"}
    BY <2>1, OpIdle DEF Operations
  <2>5. ~Replacing'
    BY <2>1, LeaseNone DEF Replacing
  <2>6. CASE op'.at = "unmark"
    <3>1. dir.log = None
      BY <2>3, <2>4, <2>6
    <3>2. Log = EmptyFile
      BY <3>1, LogOK DEF StoreInv
    <3>3. ClosedPrefix(Log.frames) = <<>> /\ ~Log.suspect
      BY <3>2, EmptyFields, ClosedPrefixEmpty DEF EmptyFile
    <3>4. IsPrefix(ClosedPrefix(Log.frames), Durable(dir.log))
      BY <3>3, DurableOK, Types, PrefixEmpty DEF StoreInv
    <3> QED BY <1>1, <2>1, <2>2, <2>5, <2>6, <3>3, <3>4, QuietDurable DEF Writing
  <2>7. CASE op'.at # "unmark"
    <3>1. Settled' => Settled
      BY <2>1, <2>3, <2>4, <2>7, OpIdle DEF Settled
    <3> QED BY <1>1, <2>1, <2>2, <2>3, <2>4, <2>5, <2>7, <3>1, IdleDurable DEF Writing
  <2> QED BY <2>6, <2>7
<1>5. CASE RemoveMarker
  <2>1. /\ op.at = "unmark" /\ dir' = [dir EXCEPT !.ambiguous = FALSE]
        /\ durable_dir' = durable_dir /\ op' = [op EXCEPT !.at = "unmarked"]
    BY <1>5 DEF RemoveMarker
  <2>2. dir'.log = dir.log /\ op'.at = "unmarked"
    BY <1>l, <2>1, Types DEF Entries, Operations
  <2>3. Settled
    BY <2>1 DEF Settled
  <2> QED BY <1>1, <2>1, <2>2, <2>3, Named, IdleDurable DEF Writing, Replacing
<1>6. CASE MarkerRemoved
  <2>1. op.at = "unmarked" /\ op' = NoOp /\ durable_dir' = dir /\ dir' = dir
    BY <1>6 DEF MarkerRemoved, Survivable
  <2>2. Settled
    BY <2>1 DEF Settled
  <2> QED BY <1>1, <2>1, <2>2, OpIdle, IdleDurable DEF Writing, Replacing
<1>7. CASE RecordSyncs
  <2>1. /\ op.at = "recorded" /\ dir' = dir /\ durable_dir' = dir
        /\ op' = [op EXCEPT !.at = "replace"] /\ lease' = lease
    BY <1>7 DEF RecordSyncs, Survivable
  <2>2. op'.at = "replace" /\ lease.state = "none"
    BY <1>l, <2>1 DEF Operations, StoreInv, ControlInv
  <2>3. Settled' => Settled
    BY <2>1, <2>2 DEF Settled
  <2> QED BY <1>1, <2>1, <2>2, <2>3, IdleDurable DEF Writing, Replacing
<1>8. ASSUME NEW rebuild \in BOOLEAN, repair_tail(rebuild) \/ resume_repair(rebuild)
      PROVE  DurableInv'
  <2> DEFINE w == IF rebuild THEN "rebuild" ELSE "repair"
             r == RepairRecord(rebuild)
  <2>1. /\ op = NoOp /\ lease' = NoLease /\ durable_dir' = durable_dir
        /\ \/ op' = [NoOp EXCEPT !.at = "recorded", !.why = w]
           \/ op' = [NoOp EXCEPT !.at = "replace", !.why = w]
        /\ dir' = dir \/ dir' = [dir EXCEPT !.repair = r]
    BY <1>8 DEF repair_tail, resume_repair, Offline, Unlocked
  <2> HIDE DEF w, r
  <2>2. op'.at \in {"recorded", "replace"}
    BY <2>1, OpIdle DEF Operations
  <2>3. dir'.log = dir.log /\ dir'.ambiguous = dir.ambiguous
    BY <2>1, Types DEF Entries
  <2>4. Settled' => Settled
    BY <2>1, <2>2, <2>3, OpIdle DEF Settled
  <2> QED BY <1>1, <2>1, <2>2, <2>3, <2>4, OpIdle, LeaseNone, Named, IdleDurable
          DEF Writing, Replacing
<1> QED BY <1>2, <1>3, <1>4, <1>5, <1>6, <1>7, <1>8

--------------------------------------------------------------------------------
(* The owner writes. *)

LEMMA WrittenSuspect ==
    ASSUME NEW f, FileOK(f)
    PROVE  /\ \A x \in Frames : Appended(f, x).suspect = f.suspect
           /\ ShortWrite(f).suspect = f.suspect
           /\ \A g \in SyncFails(f) :
                  \/ g.frames = f.frames /\ g.synced = f.synced
                  \/ /\ g.suspect = f.suspect /\ g.synced = f.synced
                     /\ g.frames = SubSeq(f.frames, 1, f.synced)
<1>1. \A x \in Frames : Appended(f, x).suspect = f.suspect
  BY DEF FileOK, FileStates, Appended
<1>2. ShortWrite(f).suspect = f.suspect
  BY DEF FileOK, FileStates, ShortWrite
<1>3. ASSUME NEW g \in SyncFails(f)
      PROVE  \/ g.frames = f.frames /\ g.synced = f.synced
             \/ /\ g.suspect = f.suspect /\ g.synced = f.synced
                /\ g.frames = SubSeq(f.frames, 1, f.synced)
  <2> DEFINE t == SubSeq(f.frames, 1, f.synced)
  <2>1. \/ g = [f EXCEPT !.suspect = TRUE]
        \/ g = [f EXCEPT !.frames = t, !.short = FALSE]
    BY DEF SyncFails
  <2> HIDE DEF t
  <2> QED BY <2>1 DEF FileOK, FileStates, t
<1> QED BY <1>1, <1>2, <1>3

(* What was promised of a file is still promised once it has grown, or lost *)
(* unsynced frames: the captured frames are among the durable ones.         *)
LEMMA PromiseKept ==
    ASSUME StoreInv, AgreeInv, DurableInv, op.at \notin {"replaced", "linked"},
           NEW i \in Inodes, i # dir.log => dir.log = None,
           NEW g, FileOK(g), g.damage = 0, inode' = [inode EXCEPT ![i] = g],
           UNCHANGED <<dir, durable_dir, projected, snap>>,
           i = dir.log => /\ Comparable(inode[i].frames, g.frames)
                          /\ inode[i].synced <= g.synced,
           acked' = acked \/ (i = dir.log /\ acked' = DurableClosed(g))
    PROVE  /\ Intact' /\ PromiseInv'
           /\ Promised' = {Durable(dir.log)'} /\ Durable(dir.log)' \in Seq(Frames)
           /\ IsPrefix(Durable(dir.log), Durable(dir.log)')
           /\ i = dir.log => Log' = g /\ Durable(dir.log)' = DurableClosed(g)
           /\ i # dir.log => Log' = EmptyFile
<1> DEFINE d == Durable(dir.log)
           e == Durable(dir.log)'
<1>1. /\ FilesOK' /\ inode'[i] = g /\ FileOK(inode[i])
      /\ \A j \in Inodes \ {i} : inode'[j] = inode[j]
  BY OneFile, TypeParts DEF StoreInv, FilesOK
<1>2. Intact'
  BY <1>1 DEF DurableInv, Intact
<1>3. durable_dir.log = dir.log /\ Promised = {d}
  BY Named, PromisedOK
<1>4. Promised' = {e}
  BY <1>3 DEF Promised, Durable
<1>5. d \in Seq(Frames) /\ Len(d) <= Log.synced
  BY DurableOK, Types DEF StoreInv, Log
<1>6. CASE i # dir.log
  <2>1. dir.log = None /\ snap = NoSnap /\ Log' = EmptyFile
    BY <1>6 DEF AgreeInv, CatalogInv, Log, File
  <2>2. e = d
    BY <2>1 DEF Durable, File
  <2>3. IsPrefix(d, d)
    BY <1>5, PrefixReflexive
  <2>4. PromiseInv'
    BY <1>3, <1>4, <1>6, <2>1, <2>2 DEF DurableInv, PromiseInv, Under
  <2> QED BY <1>2, <1>4, <1>5, <1>6, <2>1, <2>2, <2>3, <2>4
<1>7. CASE i = dir.log
  <2>1. Log = inode[i] /\ Log' = g
    BY <1>1, <1>7 DEF Log, File
  <2>2. d = DurableClosed(inode[i]) /\ e = DurableClosed(g)
    BY <1>1, <1>7 DEF Durable, File
  <2>3. IsPrefix(d, e) /\ e \in Seq(Frames)
    BY <1>1, <1>7, <2>2, DurableKept, DurableClosedOK
  <2> HIDE DEF d, e
  <2>4. ASSUME NEW s \in Seq(Frames), Under(s, Promised) PROVE Under(s, Promised')
    BY <1>3, <1>4, <1>5, <2>3, <2>4, PrefixTransitive DEF Under
  <2>5. Under(acked, Promised)' /\ Under(projected, Promised)'
    <3>1. Under(acked, Promised') /\ Under(projected, Promised')
      BY <2>4, PromisedOK DEF DurableInv, PromiseInv
    <3>2. IsPrefix(e, e)
      BY <2>3, PrefixReflexive
    <3> QED BY <1>4, <2>2, <3>1, <3>2 DEF Under
  <2>6. ASSUME snap # NoSnap
        PROVE  /\ snap.end <= Len(inode'[snap.inode].frames)
               /\ Under(SubSeq(inode'[snap.inode].frames, 1, snap.end), Promised')
    <3> DEFINE j == snap.inode
               n == snap.end
               t == SubSeq(inode[j].frames, 1, n)
    <3>1. /\ j \in Inodes /\ n \in Nat /\ inode[j].frames \in Seq(Frames)
          /\ n <= Len(inode[j].frames) /\ Under(t, Promised)
      BY <2>6, Types, TypeParts
      DEF StoreInv, StateOK, FilesOK, FileStates, Snapshots, DurableInv, PromiseInv
    <3>2. t \in Seq(Frames) /\ Len(t) = n /\ \A k \in 1..n : t[k] = inode[j].frames[k]
      BY <3>1, SubSeqPrefix
    <3>3. Under(t, Promised')
      BY <2>4, <3>1, <3>2
    <3>4. CASE j # i
      BY <1>1, <3>1, <3>3, <3>4
    <3>5. CASE j = i
      <4> HIDE DEF t, n, j
      <4>1. /\ g.frames \in Seq(Frames) /\ g.synced \in 0..Len(g.frames)
            /\ inode[i].synced \in Nat
        BY <1>1 DEF FileOK, FileStates
      <4>2. IsPrefix(t, d)
        BY <1>3, <3>1 DEF Under, t, n, j
      <4>3. n <= Len(d)
        BY <1>5, <3>2, <4>2, PrefixElements
      <4>4. n <= Len(g.frames)
        BY <1>5, <1>7, <2>1, <3>1, <4>1, <4>3
      <4>5. \A k \in 1..n : inode[i].frames[k] = g.frames[k]
        BY <1>7, <3>1, <3>5, <4>1, <4>4, PrefixElements DEF Comparable
      <4> DEFINE u == SubSeq(g.frames, 1, n)
      <4>6. u \in Seq(Frames) /\ Len(u) = n /\ \A k \in 1..n : u[k] = g.frames[k]
        BY <3>1, <4>1, <4>4, SubSeqPrefix
      <4> HIDE DEF u
      <4>7. u = t
        BY <3>1, <3>2, <3>5, <4>5, <4>6, SeqEqual
      <4> QED BY <1>1, <3>3, <3>5, <4>4, <4>7 DEF u, n, j
    <3> QED BY <3>4, <3>5
  <2>7. PromiseInv'
    BY <2>5, <2>6 DEF PromiseInv
  <2> QED BY <1>2, <1>4, <1>7, <2>1, <2>2, <2>3, <2>7 DEF d, e
<1> QED BY <1>6, <1>7

LEMMA WriteDurable ==
    ASSUME StoreInv, AgreeInv, DurableInv, op.at \notin {"replaced", "linked"},
           NEW i \in Inodes, i # dir.log => dir.log = None,
           NEW g, FileOK(g), g.damage = 0, inode' = [inode EXCEPT ![i] = g],
           UNCHANGED <<dir, durable_dir, projected, snap>>,
           i = dir.log => /\ Comparable(inode[i].frames, g.frames)
                          /\ inode[i].synced <= g.synced,
           acked' = acked \/ (i = dir.log /\ acked' = DurableClosed(g)),
           op'.at \notin {"replaced", "linked"},
           op'.at \in {"copied", "staged", "closing"} => op'.out = i /\ ~g.suspect,
           op'.at = "copied" => ClosedPrefix(g.frames) # g.frames,
           Replacing' => lease'.closed \in Seq(Frames) /\ IsPrefix(lease'.closed, Durable(dir.log)),
           Settled' /\ i = dir.log =>
               /\ \/ IsPrefix(ClosedPrefix(g.frames), Durable(dir.log))
                  \/ IsPrefix(ClosedPrefix(g.frames), DurableClosed(g))
               /\ g.suspect => ClosedPrefix(g.frames) # g.frames
    PROVE  DurableInv'
<1> DEFINE d == Durable(dir.log)
           e == Durable(dir.log)'
<1>1. /\ Intact' /\ PromiseInv' /\ Promised' = {e} /\ e \in Seq(Frames) /\ IsPrefix(d, e)
      /\ i = dir.log => Log' = g /\ e = DurableClosed(g)
      /\ i # dir.log => Log' = EmptyFile
  BY PromiseKept
<1>2. inode'[i] = g /\ durable_dir.log = dir.log /\ d \in Seq(Frames)
  BY Named, DurableOK, Types, TypeParts DEF StoreInv, FilesOK
<1> HIDE DEF d, e
<1>3. g.frames \in Seq(Frames) /\ ClosedPrefix(g.frames) \in Seq(Frames)
  BY ClosedPrefixType DEF FileOK, FileStates
<1>4. SettledInv'
  <2>1. CASE i = dir.log
    <3>1. Settled' => IsPrefix(ClosedPrefix(g.frames), e)
      BY <1>1, <1>2, <1>3, <2>1, PrefixTransitive DEF d
    <3> QED BY <1>1, <2>1, <3>1 DEF SettledInv, Under
  <2>2. CASE i # dir.log
    <3>1. ClosedPrefix(Log'.frames) = <<>> /\ ~Log'.suspect
      BY <1>1, <2>2, EmptyFields, ClosedPrefixEmpty DEF EmptyFile
    <3>2. IsPrefix(<<>>, e)
      BY <1>1, PrefixEmpty
    <3> QED BY <1>1, <3>1, <3>2 DEF SettledInv, Under
  <2> QED BY <2>1, <2>2
<1>5. Replacing' => Under(lease.closed, Promised)'
  BY <1>1, <1>2, PrefixTransitive DEF Under, d
<1>6. StageInv'
  BY <1>2, <1>5 DEF StageInv
<1> QED BY <1>1, <1>4, <1>6 DEF DurableInv

(* A write of the log's or the new file's owner. *)
LEMMA Writer ==
    ASSUME StoreInv, DurableInv, op.at \in {"copied", "staged", "closing"}
    PROVE  /\ op.out \in Inodes /\ FileOK(inode[op.out]) /\ inode[op.out].damage = 0
           /\ ~inode[op.out].suspect
           /\ op.out # dir.log => dir.log = None
           /\ inode[op.out].frames \in Seq(Frames)
           /\ inode[op.out].synced \in 0..Len(inode[op.out].frames)
           /\ op \in Operations /\ lease \in Leases /\ lease.state = "fenced"
           /\ op.out = dir.log =>
                 Log = inode[op.out] /\ Durable(dir.log) = DurableClosed(inode[op.out])
           /\ op.at = "copied" => op.out = dir.log
<1>1. /\ op.out \in Inodes /\ FileOK(inode[op.out]) /\ inode[op.out].damage = 0
      /\ ~inode[op.out].suspect /\ (op.out # dir.log => dir.log = None)
      /\ op \in Operations /\ lease \in Leases /\ lease.state = "fenced"
      /\ op.at = "copied" => op.out = dir.log
  BY TypeParts DEF StoreInv, StateOK, FilesOK, ControlInv, Publishing, FoldInv, Sound,
     DurableInv, StageInv
<1>2. /\ inode[op.out].frames \in Seq(Frames)
      /\ inode[op.out].synced \in 0..Len(inode[op.out].frames)
  BY <1>1 DEF FileOK, FileStates
<1> QED BY <1>1, <1>2 DEF Log, File, Durable

LEMMA StageWritesDurable ==
    ASSUME StoreInv, AgreeInv, DurableInv, StageWrites PROVE DurableInv'
<1>1. /\ op.at = "open"
      /\ UNCHANGED <<dir, durable_dir, lease, snap, projected, acked>>
  BY DEF StageWrites
<1>2. /\ op \in Operations /\ Log.frames = lease.closed /\ Log.damage = 0
      /\ dir.log # None <=> lease.closed # <<>>
      /\ ClosedPrefix(lease.closed) = lease.closed
  BY <1>1, TypeParts DEF StoreInv, StateOK, FoldInv, Sound
<1>3. Settled
  BY <1>1 DEF Settled, StoreInv, ControlInv, Publishing
<1>4. IsPrefix(lease.closed, Durable(dir.log)) /\ ~Log.suspect
  BY <1>2, <1>3, SettledOK
<1>5. CASE lease.closed = <<>>
  <2> DEFINE i == NewInode
             g == EmptyFile
  <2>1. /\ SomeInode /\ inode' = [inode EXCEPT ![i] = g]
        /\ op' = [op EXCEPT !.at = "staged", !.out = i]
    BY <1>5 DEF StageWrites
  <2>2. i \in Inodes /\ i # dir.log /\ dir.log = None
    BY <1>2, <1>5, <2>1, FreshInode
  <2>3. FileOK(g) /\ g.damage = 0 /\ ~g.suspect
    BY EmptyFileOK DEF EmptyFile
  <2> HIDE DEF i, g
  <2>4. op'.at = "staged" /\ op'.out = i
    BY <1>2, <2>1, <2>2 DEF Operations
  <2> QED BY <1>1, <2>1, <2>2, <2>3, <2>4, WriteDurable DEF Replacing
<1>6. CASE lease.closed # <<>>
  <2> DEFINE i == dir.log
             f == inode[i]
             x == Frame(FALSE)
  <2>1. i \in Inodes /\ Log = f /\ FileOK(f)
    BY <1>2, <1>6, LogOK DEF StoreInv
  <2>2. f.frames \in Seq(Frames) /\ f.synced \in Nat /\ Comparable(f.frames, f.frames)
    BY <2>1, PrefixReflexive DEF FileOK, FileStates, Comparable
  <2>3. CASE op.rows = 0
    <3>1. inode' = inode /\ op' = [op EXCEPT !.at = "staged", !.out = i]
      BY <1>2, <1>6, <2>3 DEF StageWrites, Operations
    <3>2. inode' = [inode EXCEPT ![i] = f]
      BY <3>1, TypeParts DEF StoreInv, FilesOK
    <3>3. op'.at = "staged" /\ op'.out = i
      BY <1>2, <2>1, <3>1 DEF Operations
    <3> HIDE DEF f
    <3>4. f.damage = 0 /\ ~f.suspect /\ IsPrefix(ClosedPrefix(f.frames), Durable(dir.log))
      BY <1>2, <1>4, <2>1
    <3>5. f.synced <= f.synced
      BY <2>2
    <3> QED BY <1>1, <2>1, <2>2, <3>2, <3>3, <3>4, <3>5, WriteDurable DEF Replacing, f
  <2>4. CASE op.rows # 0
    <3> DEFINE a == IF op.rows > 0 /\ op.sync THEN "copied" ELSE "staged"
               g == Appended(f, x)
    <3>1. /\ inode' = [inode EXCEPT ![i] = g]
          /\ op' = [op EXCEPT !.at = a, !.out = i]
      BY <1>6, <2>4 DEF StageWrites
    <3>2. a \in {"copied", "staged"}
      OBVIOUS
    <3> HIDE DEF a
    <3>3. op'.at = a /\ op'.out = i
      BY <1>2, <2>1, <3>1 DEF Operations
    <3>4. x \in Frames /\ ~x.closes
      BY FrameOK, TypeParts DEF StoreInv, StateOK
    <3> HIDE DEF x
    <3>5. g.suspect = f.suspect
      BY <2>1, <3>4, WrittenSuspect
    <3>6. /\ FileOK(g) /\ g.damage = f.damage /\ g.synced = f.synced
          /\ IsPrefix(f.frames, g.frames) /\ ClosedPrefix(g.frames) = ClosedPrefix(f.frames)
      BY <2>1, <3>4, AppendedOK
    <3>7. Len(g.frames) = Len(f.frames) + 1
      <4>1. g.frames = Append(f.frames, x)
        BY <2>1 DEF Appended, FileOK, FileStates
      <4> QED BY <2>2, <3>4, <4>1, AppendPrefix
    <3> HIDE DEF g, f
    <3>8. ClosedPrefix(g.frames) = f.frames
      BY <1>2, <2>1, <3>6
    <3>9. f.frames # g.frames /\ f.synced <= g.synced
      BY <2>2, <3>6, <3>7
    <3>10. /\ ~g.suspect /\ g.damage = 0 /\ Comparable(f.frames, g.frames)
           /\ IsPrefix(ClosedPrefix(g.frames), Durable(dir.log))
      BY <1>2, <1>4, <2>1, <3>5, <3>6, <3>8 DEF Comparable
    <3> QED BY <1>1, <2>1, <3>1, <3>2, <3>3, <3>6, <3>8, <3>9, <3>10, WriteDurable
            DEF Replacing, f
  <2> QED BY <2>3, <2>4
<1> QED BY <1>5, <1>6

(* A write that fails after part of a frame leaves the frames. *)
LEMMA ShortDurable ==
    ASSUME StoreInv, AgreeInv, DurableInv,
           op.at = "staged" \/ (op.at = "open" /\ dir.log # None),
           NEW i, i = IF op.at = "open" THEN dir.log ELSE op.out,
           inode' = [inode EXCEPT ![i] = ShortWrite(inode[i])],
           UNCHANGED <<dir, durable_dir, snap, projected, acked>>,
           op'.at \in {"none", "uncertain"}
    PROVE  DurableInv'
<1> DEFINE f == inode[i]
           g == ShortWrite(f)
<1>1. i \in Inodes /\ FileOK(f) /\ f.damage = 0 /\ (i # dir.log => dir.log = None)
  <2>1. CASE op.at = "staged"
    BY <2>1, Writer
  <2>2. CASE op.at = "open" /\ dir.log # None
    BY <2>2, LogOK DEF StoreInv, FoldInv, Sound
  <2> QED BY <2>1, <2>2
<1>2. f.frames \in Seq(Frames) /\ f.synced \in Nat
  BY <1>1 DEF FileOK, FileStates
<1>3. /\ FileOK(g) /\ g.frames = f.frames /\ g.damage = 0 /\ g.synced = f.synced
      /\ g.suspect = f.suspect
  BY <1>1, ShortWriteOK, WrittenSuspect
<1>4. Settled
  BY DEF Settled, StoreInv, ControlInv, Publishing
<1>5. i = dir.log => Log = f
  BY <1>1 DEF Log, File
<1> HIDE DEF f, g
<1>6. i = dir.log => /\ IsPrefix(ClosedPrefix(g.frames), Durable(dir.log))
                     /\ g.suspect => ClosedPrefix(g.frames) # g.frames
  BY <1>3, <1>4, <1>5, SettledOK
<1>7. Comparable(f.frames, g.frames) /\ f.synced <= g.synced
  BY <1>2, <1>3, PrefixReflexive DEF Comparable
<1> QED BY <1>1, <1>3, <1>6, <1>7, WriteDurable DEF Replacing, f, g

LEMMA StageWriteFailsDurable ==
    ASSUME StoreInv, AgreeInv, DurableInv, StageWriteFails PROVE DurableInv'
<1>1. /\ op.at = "open" /\ Ambiguous
      /\ inode' = [inode EXCEPT ![dir.log] = ShortWrite(inode[dir.log])]
      /\ UNCHANGED <<dir, durable_dir, snap, projected, acked>>
  BY DEF StageWriteFails
<1>2. op'.at = "uncertain"
  BY <1>1, AmbiguousLeaves
<1>3. CASE dir.log # None
  BY <1>1, <1>2, <1>3, ShortDurable
<1>4. CASE dir.log = None
  <2>1. inode' = inode
    BY <1>1, <1>4, TypeParts DEF StoreInv, FilesOK
  <2> QED BY <1>1, <1>2, <2>1, Named, IdleDurable DEF Writing, Settled, Replacing
<1> QED BY <1>3, <1>4

(* A sync that fails leaves the frames, or the synced ones of them. *)
LEMMA SyncLost ==
    ASSUME NEW f, FileOK(f), f.damage = 0, NEW g \in SyncFails(f)
    PROVE  /\ FileOK(g) /\ g.damage = 0 /\ f.synced <= g.synced
           /\ Comparable(f.frames, g.frames)
           /\ \/ g.frames = f.frames
              \/ /\ g.suspect = f.suspect
                 /\ ClosedPrefix(g.frames) = DurableClosed(g)
<1>1. /\ FileOK(g) /\ g.damage = 0 /\ g.synced = f.synced
      /\ IsPrefix(g.frames, f.frames)
  BY SyncFailsOK
<1>2. f.frames \in Seq(Frames) /\ f.synced \in 0..Len(f.frames)
  BY DEF FileOK, FileStates
<1>3. \/ g.frames = f.frames
      \/ g.suspect = f.suspect /\ g.frames = SubSeq(f.frames, 1, f.synced)
  BY WrittenSuspect
<1>4. Len(SubSeq(f.frames, 1, f.synced)) = f.synced
  BY <1>2, SubSeqPrefix
<1>5. g.frames = SubSeq(f.frames, 1, f.synced) => ClosedPrefix(g.frames) = DurableClosed(g)
  BY <1>1, <1>4, DurableClosedOK
<1>6. f.synced <= g.synced
  BY <1>1, <1>2
<1> QED BY <1>1, <1>3, <1>5, <1>6 DEF Comparable

LEMMA StageSyncsDurable ==
    ASSUME StoreInv, AgreeInv, DurableInv, StageSyncs PROVE DurableInv'
<1> DEFINE i == op.out
           f == inode[i]
           c == lease.closed
<1>1. /\ op.at = "copied" /\ UNCHANGED <<dir, durable_dir, lease, snap, projected, acked>>
  BY DEF StageSyncs
<1>2. /\ i \in Inodes /\ FileOK(f) /\ f.damage = 0 /\ ~f.suspect /\ i = dir.log
      /\ f.frames \in Seq(Frames) /\ f.synced \in 0..Len(f.frames)
      /\ op \in Operations /\ Log = f /\ Durable(dir.log) = DurableClosed(f)
      /\ c \in Seq(Frames)
  BY <1>1, Writer, Types
<1>3. /\ ClosedPrefix(f.frames) = c /\ ClosedPrefix(f.frames) # f.frames
  BY <1>1 DEF StoreInv, FoldInv, DurableInv, StageInv
<1>4. Settled
  BY <1>1 DEF Settled, StoreInv, ControlInv, Publishing
<1>5. IsPrefix(c, Durable(dir.log))
  BY <1>2, <1>3, <1>4, SettledOK
<1>6. CASE inode' = [inode EXCEPT ![i] = Synced(f)] /\ op' = [op EXCEPT !.at = "staged"]
  <2> DEFINE g == Synced(f)
  <2>1. /\ FileOK(g) /\ g.frames = f.frames /\ g.damage = 0 /\ ~g.suspect
        /\ g.synced = Len(f.frames)
    BY <1>2, SyncedOK
  <2> HIDE DEF f, g
  <2>2. op'.at = "staged" /\ op'.out = i
    BY <1>2, <1>6 DEF Operations
  <2>3. Comparable(f.frames, g.frames) /\ f.synced <= g.synced
    BY <1>2, <2>1, PrefixReflexive DEF Comparable
  <2>4. IsPrefix(ClosedPrefix(g.frames), Durable(dir.log))
    BY <1>3, <1>5, <2>1
  <2> QED BY <1>1, <1>2, <1>6, <2>1, <2>2, <2>3, <2>4, WriteDurable DEF Replacing, f, g
<1>7. ASSUME NEW g \in SyncFails(f), inode' = [inode EXCEPT ![i] = g],
             op' = [NoOp EXCEPT !.at = "replace", !.why = "rollback"]
      PROVE  DurableInv'
  <2>1. /\ FileOK(g) /\ g.damage = 0 /\ f.synced <= g.synced
        /\ Comparable(f.frames, g.frames)
        /\ \/ g.frames = f.frames
           \/ /\ g.suspect = f.suspect
              /\ ClosedPrefix(g.frames) = DurableClosed(g)
    BY <1>2, <1>7, SyncLost
  <2>2. op'.at = "replace"
    BY <1>7, OpIdle DEF Operations
  <2> HIDE DEF f, i, c
  <2>3. DurableClosed(g) \in Seq(Frames) /\ IsPrefix(DurableClosed(g), DurableClosed(g))
    BY <2>1, DurableClosedOK, PrefixReflexive
  <2>4. /\ \/ IsPrefix(ClosedPrefix(g.frames), Durable(dir.log))
           \/ IsPrefix(ClosedPrefix(g.frames), DurableClosed(g))
        /\ g.suspect => ClosedPrefix(g.frames) # g.frames
    BY <1>2, <1>3, <1>5, <2>1, <2>3
  <2>5. lease'.closed \in Seq(Frames) /\ IsPrefix(lease'.closed, Durable(dir.log))
    BY <1>1, <1>2, <1>5 DEF c
  <2> QED BY <1>1, <1>2, <1>7, <2>1, <2>2, <2>4, <2>5, WriteDurable DEF f, i
<1> QED BY <1>6, <1>7 DEF StageSyncs

(* A frame is added to the file of a publication: provisional, or the       *)
(* closer, which is in doubt until it is synced.                            *)
LEMMA AppendDurable ==
    ASSUME StoreInv, AgreeInv, DurableInv, op.at = "staged", NEW b \in BOOLEAN,
           inode' = [inode EXCEPT ![op.out] = Appended(inode[op.out], Frame(b))],
           UNCHANGED <<dir, durable_dir, snap, projected, acked, lease>>,
           op'.at = IF b THEN "closing" ELSE "staged", op'.out = op.out
    PROVE  DurableInv'
<1> DEFINE i == op.out
           f == inode[i]
           x == Frame(b)
           g == Appended(f, x)
<1>1. /\ i \in Inodes /\ FileOK(f) /\ f.damage = 0 /\ ~f.suspect
      /\ i # dir.log => dir.log = None
      /\ f.frames \in Seq(Frames) /\ f.synced \in Nat
      /\ i = dir.log => Log = f
  BY Writer
<1>2. x \in Frames /\ x.closes = b
  BY TypeParts DEF StoreInv, StateOK, Frame, Frames
<1>3. inode' = [inode EXCEPT ![i] = g]
  OBVIOUS
<1> HIDE DEF x
<1>4. /\ FileOK(g) /\ g.damage = 0 /\ g.synced = f.synced /\ IsPrefix(f.frames, g.frames)
      /\ ~b => ClosedPrefix(g.frames) = ClosedPrefix(f.frames)
      /\ ~g.suspect
  BY <1>1, <1>2, AppendedOK, WrittenSuspect
<1>5. Settled
  BY DEF Settled, StoreInv, ControlInv, Publishing
<1> HIDE DEF f, g
<1>6. ~b /\ i = dir.log => IsPrefix(ClosedPrefix(g.frames), Durable(dir.log))
  BY <1>1, <1>4, <1>5, SettledOK
<1>7. b => ~Settled'
  BY DEF Settled, StoreInv, ControlInv, Publishing
<1>8. Comparable(f.frames, g.frames) /\ f.synced <= g.synced
  BY <1>1, <1>4 DEF Comparable
<1> QED BY <1>1, <1>3, <1>4, <1>6, <1>7, <1>8, WriteDurable DEF Replacing, f

LEMMA PushFileRowDurable ==
    ASSUME StoreInv, AgreeInv, DurableInv, push_file_row PROVE DurableInv'
<1>1. /\ op.at = "staged" /\ UNCHANGED <<dir, durable_dir, lease, snap, projected, acked>>
      /\ \/ /\ inode' = [inode EXCEPT ![op.out] = Appended(inode[op.out], Frame(FALSE))]
            /\ op' = [op EXCEPT !.rows = 2]
         \/ /\ inode' = [inode EXCEPT ![op.out] = ShortWrite(inode[op.out])]
            /\ op' = NoOp
  BY DEF push_file_row
<1>2. op \in Operations
  BY TypeParts DEF StoreInv, StateOK
<1>3. op' = [op EXCEPT !.rows = 2] => op'.at = "staged" /\ op'.out = op.out
  BY <1>1, <1>2 DEF Operations
<1> QED BY <1>1, <1>3, OpIdle, AppendDurable, ShortDurable

LEMMA CompleteDurable ==
    ASSUME StoreInv, AgreeInv, DurableInv, complete PROVE DurableInv'
<1>1. /\ op.at = "staged" /\ UNCHANGED <<dir, durable_dir, snap, projected, acked>>
      /\ \/ /\ inode' = [inode EXCEPT ![op.out] = Appended(inode[op.out], Frame(TRUE))]
            /\ op' = [op EXCEPT !.at = "closing"] /\ lease' = lease
         \/ /\ inode' = [inode EXCEPT ![op.out] = ShortWrite(inode[op.out])]
            /\ Ambiguous
  BY DEF complete
<1>2. op \in Operations
  BY TypeParts DEF StoreInv, StateOK
<1>3. op' = [op EXCEPT !.at = "closing"] => op'.at = "closing" /\ op'.out = op.out
  BY <1>1, <1>2 DEF Operations
<1>4. Ambiguous => op'.at = "uncertain"
  BY AmbiguousLeaves
<1> QED BY <1>1, <1>3, <1>4, AppendDurable, ShortDurable

LEMMA CloserSyncsDurable ==
    ASSUME StoreInv, AgreeInv, DurableInv, CloserSyncs PROVE DurableInv'
<1> DEFINE i == op.out
           f == inode[i]
           g == Synced(f)
<1>1. op.at = "closing" /\ UNCHANGED <<snap, projected>>
  BY DEF CloserSyncs
<1>2. /\ i \in Inodes /\ FileOK(f) /\ f.damage = 0 /\ ~f.suspect
      /\ i # dir.log => dir.log = None
      /\ f.frames \in Seq(Frames) /\ f.synced \in 0..Len(f.frames)
      /\ op \in Operations /\ lease \in Leases /\ lease.state = "fenced"
      /\ ClosedPrefix(f.frames) = f.frames
  BY <1>1, Writer DEF StoreInv, FoldInv
<1>3. /\ FileOK(g) /\ g.frames = f.frames /\ g.damage = 0 /\ ~g.suspect
      /\ g.synced = Len(f.frames)
  BY <1>2, SyncedOK
<1>4. DurableClosed(g) = f.frames /\ IsPrefix(f.frames, f.frames)
  BY <1>2, <1>3, DurableClosedOK, PrefixReflexive
<1>5. CASE /\ inode' = [inode EXCEPT ![i] = g] /\ i = dir.log /\ Publish
           /\ UNCHANGED <<dir, durable_dir>>
  <2>1. op' = NoOp /\ acked' = f.frames
    BY <1>5 DEF Publish
  <2> HIDE DEF f, g
  <2>2. Comparable(f.frames, g.frames) /\ f.synced <= g.synced
    BY <1>2, <1>3, <1>4 DEF Comparable
  <2>3. /\ IsPrefix(ClosedPrefix(g.frames), DurableClosed(g))
        /\ acked' = DurableClosed(g) /\ op'.at = "none"
    BY <1>2, <1>3, <1>4, <2>1, OpIdle
  <2> QED BY <1>1, <1>2, <1>3, <1>5, <2>2, <2>3, WriteDurable DEF Replacing, f
<1>6. CASE /\ inode' = [inode EXCEPT ![i] = g] /\ i # dir.log
           /\ dir' = [dir EXCEPT !.log = i] /\ durable_dir' = durable_dir
           /\ op' = [op EXCEPT !.at = "linked"] /\ UNCHANGED <<lease, acked>>
  <2> HIDE DEF g, f
  <2>1. dir'.log = i /\ i # None /\ op'.at = "linked" /\ op'.out = i
    BY <1>2, <1>6, Types DEF Operations, Entries
  <2>2. durable_dir.log = None /\ dir.log = None /\ snap = NoSnap
    BY <1>2, <1>6 DEF AgreeInv, CatalogInv
  <2>3. FilesOK' /\ inode'[i] = g /\ \A j \in Inodes \ {i} : inode'[j] = inode[j]
    BY <1>2, <1>3, <1>6, OneFile, TypeParts DEF StoreInv
  <2>4. Durable(dir.log) = <<>> /\ Durable(durable_dir.log)' = <<>>
    <3> DEFINE z == EmptyFile
    <3>1. FileOK(z) /\ z.frames = <<>> /\ Len(z.frames) = 0 /\ z.synced = 0
      BY EmptyFileOK, EmptyFields
    <3> HIDE DEF z
    <3>2. DurableClosed(z) = <<>>
      BY <3>1, DurableClosedOK, ClosedPrefixEmpty
    <3> QED BY <1>6, <2>2, <3>2 DEF Durable, File, z
  <2>5. Durable(dir.log)' = f.frames
    BY <1>4, <2>1, <2>3 DEF Durable, File
  <2>6. Promised' = {f.frames, <<>>}
    BY <2>4, <2>5 DEF Promised
  <2>7. Under(acked, {<<>>}) /\ Under(projected, {<<>>})
    BY <2>2, <2>4 DEF DurableInv, PromiseInv, Promised, Under
  <2>8. acked = <<>> /\ projected = <<>>
    <3>1. acked \in Seq(Frames) /\ projected \in Seq(Frames) /\ <<>> \in Seq(Frames)
      BY PromisedOK
    <3>2. \A s \in Seq(Frames) : IsPrefix(s, <<>>) => s = <<>>
      <4> TAKE s \in Seq(Frames)
      <4> DEFINE z == <<>>
      <4>1. z \in Seq(Frames) /\ Len(z) = 0 /\ Len(s) \in Nat
        OBVIOUS
      <4> HIDE DEF z
      <4>2. Len(z) <= Len(s)
        BY <4>1
      <4>3. IsPrefix(s, z) => s = z
        BY <4>1, <4>2, PrefixSameLength
      <4> QED BY <4>3 DEF z
    <3> QED BY <2>7, <3>1, <3>2 DEF Under
  <2>9. Intact'
    BY <1>3, <2>3 DEF DurableInv, Intact
  <2>10. PromiseInv'
    <3>1. <<>> \in Seq(Frames)
      OBVIOUS
    <3>2. Under(<<>>, {f.frames, <<>>})
      BY <1>2, <3>1, PrefixEmpty DEF Under
    <3> QED BY <1>1, <1>6, <2>2, <2>6, <2>8, <3>2 DEF PromiseInv
  <2>11. ~Settled'
    BY <1>1, <1>6, <2>1, Types DEF Settled, StoreInv, ControlInv, Publishing, Entries
  <2>12. SettledInv' /\ StageInv'
    BY <1>3, <2>1, <2>3, <2>11 DEF SettledInv, StageInv, Replacing
  <2> QED BY <2>9, <2>10, <2>12 DEF DurableInv
<1>7. ASSUME NEW h \in SyncFails(f), inode' = [inode EXCEPT ![i] = h], Ambiguous,
             UNCHANGED <<dir, durable_dir, acked>>
      PROVE  DurableInv'
  <2>1. /\ FileOK(h) /\ h.damage = 0 /\ f.synced <= h.synced
        /\ Comparable(f.frames, h.frames)
    BY <1>2, <1>7, SyncLost
  <2>2. op'.at = "uncertain"
    BY <1>7, AmbiguousLeaves
  <2>3. ~Settled' /\ ~Replacing'
    BY <2>2 DEF Settled, Replacing
  <2> QED BY <1>1, <1>2, <1>7, <2>1, <2>2, <2>3, WriteDurable
<1> QED BY <1>5, <1>6, <1>7 DEF CloserSyncs, SyncedClose

LEMMA LinkSyncsDurable ==
    ASSUME Survivable, StoreInv, AgreeInv, DurableInv, LinkSyncs PROVE DurableInv'
<1> DEFINE f == inode[op.out]
<1>1. /\ op.at = "linked" /\ durable_dir' = dir /\ op' = NoOp /\ acked' = f.frames
      /\ UNCHANGED <<inode, dir, snap, projected>>
  BY DEF LinkSyncs, Publish, Survivable
<1>2. /\ op.out = dir.log /\ op.out \in Inodes /\ ClosedPrefix(f.frames) = f.frames
      /\ ~f.suspect /\ f.synced = Len(f.frames) /\ FileOK(f)
      /\ IsPrefix(projected, f.frames)
  BY <1>1, TypeParts DEF StoreInv, ControlInv, FoldInv, FilesOK, AgreeInv, HeldInv,
     DurableInv, StageInv
<1>3. f.frames \in Seq(Frames) /\ IsPrefix(f.frames, f.frames)
  BY <1>2, PrefixReflexive DEF FileOK, FileStates
<1>4. DurableClosed(f) = f.frames
  BY <1>2, DurableClosedOK
<1>5. Log' = f /\ Log = f /\ Durable(dir.log) = f.frames
  BY <1>1, <1>2, <1>4 DEF Log, File, Durable
<1>6. Promised' = {f.frames} /\ f.frames \in Promised
  BY <1>1, <1>5 DEF Promised, Durable, File
<1>7. PromiseInv'
  <2>1. snap' # NoSnap => /\ snap.end <= Len(inode[snap.inode].frames)
                          /\ Under(SubSeq(inode[snap.inode].frames, 1, snap.end), Promised)
    BY <1>1 DEF DurableInv, PromiseInv
  <2> QED BY <1>1, <1>2, <1>3, <1>6, <2>1 DEF PromiseInv, Under
<1>8. Intact'
  BY <1>1 DEF DurableInv, Intact
<1>9. SettledInv'
  BY <1>2, <1>3, <1>5, <1>6 DEF SettledInv, Under
<1>10. StageInv'
  BY <1>1, OpIdle DEF StageInv, Replacing
<1> QED BY <1>7, <1>8, <1>9, <1>10 DEF DurableInv

--------------------------------------------------------------------------------
(* The log is replaced: by all that is durable of it, and synced first. *)

(* What a replacement keeps holds what is durable, and where nothing is in  *)
(* doubt is durable itself.                                                 *)
LEMMA KeptDurable ==
    ASSUME StoreInv, AgreeInv, DurableInv, op.at = "replace"
    PROVE  /\ Kept \in Seq(Frames) /\ ClosedPrefix(Kept) = Kept
           /\ IsPrefix(Durable(dir.log), Kept)
           /\ Replacing \/ Settled => IsPrefix(Kept, Durable(dir.log))
           /\ Replacing => Kept = lease.closed
<1> DEFINE w == Whole(dir.log)
           d == Durable(dir.log)
<1>1. /\ Kept \in Seq(Frames) /\ ClosedPrefix(Kept) = Kept
      /\ d \in Seq(Frames) /\ w \in Seq(Frames) /\ IsPrefix(d, w)
  BY KeptAgrees, DurableOK, WholeOK, Types DEF StoreInv
<1>2. CASE lease.state # "none"
  <2>1. Replacing /\ Kept = lease.closed
    BY <1>2 DEF StoreInv, ControlInv, Replacing, Kept
  <2>2. IsPrefix(w, Kept) /\ IsPrefix(Kept, d)
    BY <2>1 DEF StoreInv, FoldInv, Whole, Log, DurableInv, StageInv, Under, Promised
  <2> HIDE DEF w, d
  <2>3. IsPrefix(d, Kept)
    BY <1>1, <2>2, PrefixTransitive
  <2> QED BY <1>1, <2>1, <2>2, <2>3 DEF d
<1>3. CASE lease.state = "none"
  <2>1. Kept = Closed(Log) /\ ~Replacing
    BY <1>3 DEF StoreInv, ControlInv, RepairInv, Kept, Replacing
  <2>2. Log.damage = 0
    BY Types, EmptyFields DEF DurableInv, Intact, Log, File
  <2>3. Kept = w /\ w = ClosedPrefix(Log.frames)
    BY <2>1, <2>2, LogOK DEF StoreInv, Whole, Log
  <2> QED BY <1>1, <2>1, <2>3, SettledOK
<1> QED BY <1>2, <1>3

LEMMA ReplaceDurable ==
    ASSUME StoreInv, AgreeInv, DurableInv, replace_prefix PROVE DurableInv'
<1> DEFINE i == NewInode
           c == (op.why \in {"repair", "rebuild"} \/ Log.cut)
           g == Replacement(c)
           k == Kept
           d == Durable(dir.log)
<1>1. c \in BOOLEAN
  OBVIOUS
<1>2. /\ op.at = "replace" /\ SomeInode /\ durable_dir' = durable_dir
      /\ inode' = [inode EXCEPT ![i] = g] /\ dir' = [dir EXCEPT !.log = i]
      /\ op' = [op EXCEPT !.at = "replaced"]
      /\ UNCHANGED <<lease, snap, projected, acked>>
  BY DEF replace_prefix
<1> HIDE DEF c
<1>3. i \in Inodes /\ i # None /\ i # dir.log /\ i # snap.inode
  BY <1>2, FreshInode
<1>4. /\ FileOK(g) /\ g.frames = k /\ g.synced = Len(k) /\ ~g.suspect /\ g.damage = 0
  BY <1>1, KeptOK, ReplacementOK DEF Sound
<1> HIDE DEF g, i
<1>5. inode'[i] = g /\ \A j \in Inodes \ {i} : inode'[j] = inode[j]
  BY <1>2, <1>3, <1>4, OneFile, TypeParts DEF StoreInv
<1>6. dir'.log = i /\ dir'.ambiguous = dir.ambiguous /\ op'.at = "replaced"
  BY <1>2, <1>3, Types, TypeParts DEF StoreInv, StateOK, Entries, Operations
<1>7. /\ k \in Seq(Frames) /\ ClosedPrefix(k) = k /\ IsPrefix(d, k)
      /\ Replacing \/ Settled => IsPrefix(k, d)
      /\ Replacing => k = lease.closed
  BY <1>2, KeptDurable
<1>8. durable_dir.log = dir.log /\ Promised = {d} /\ d \in Seq(Frames)
  BY <1>2, Named, PromisedOK, DurableOK, Types DEF StoreInv
<1> HIDE DEF k
<1>9. Durable(dir.log)' = k
  <2>1. DurableClosed(g) = k
    BY <1>4, <1>7, DurableClosedOK
  <2> QED BY <1>3, <1>5, <1>6, <2>1 DEF Durable, File
<1>10. Durable(durable_dir.log)' = d
  BY <1>2, <1>3, <1>5, <1>8, Types DEF Durable, File
<1>11. Promised' = {k, d}
  BY <1>9, <1>10 DEF Promised
<1> HIDE DEF d
<1>12. ASSUME NEW s \in Seq(Frames), Under(s, Promised) PROVE Under(s, Promised')
  BY <1>7, <1>8, <1>11, <1>12, PrefixTransitive DEF Under
<1>13. Intact'
  BY <1>4, <1>5 DEF DurableInv, Intact
<1>14. PromiseInv'
  <2>1. Under(acked, Promised') /\ Under(projected, Promised')
    BY <1>12, PromisedOK DEF DurableInv, PromiseInv
  <2>2. ASSUME snap # NoSnap
        PROVE  /\ snap.end <= Len(inode'[snap.inode].frames)
               /\ Under(SubSeq(inode'[snap.inode].frames, 1, snap.end), Promised')
    <3> DEFINE t == SubSeq(inode[snap.inode].frames, 1, snap.end)
    <3>1. /\ snap.inode \in Inodes /\ snap.end \in Nat
          /\ inode[snap.inode].frames \in Seq(Frames)
          /\ snap.end <= Len(inode[snap.inode].frames) /\ Under(t, Promised)
      BY <2>2, Types, TypeParts
      DEF StoreInv, StateOK, FilesOK, FileStates, Snapshots, DurableInv, PromiseInv
    <3>2. t \in Seq(Frames)
      BY <3>1, SubSeqPrefix
    <3> HIDE DEF t
    <3>3. Under(t, Promised')
      BY <1>12, <3>1, <3>2
    <3> QED BY <1>3, <1>5, <3>1, <3>3 DEF t
  <2> QED BY <1>2, <2>1, <2>2 DEF PromiseInv
<1>15. Log' = g
  BY <1>3, <1>5, <1>6 DEF Log, File
<1>16. Replacing \/ Settled => Under(k, Promised')
  BY <1>7, <1>11, PrefixReflexive DEF Under
<1>17. SettledInv'
  <2>1. Settled' => Settled
    BY <1>2, <1>6 DEF Settled
  <2> QED BY <1>4, <1>7, <1>15, <1>16, <2>1 DEF SettledInv
<1>18. StageInv'
  <2>1. Replacing' => Replacing
    BY <1>2, <1>6 DEF Replacing
  <2> QED BY <1>2, <1>4, <1>6, <1>7, <1>15, <1>16, <2>1 DEF StageInv
<1> QED BY <1>13, <1>14, <1>17, <1>18 DEF DurableInv

LEMMA ReplaceSyncedDurable ==
    ASSUME StoreInv, DurableInv, ReplaceSynced PROVE DurableInv'
<1>1. /\ op.at = "replaced" /\ durable_dir' = dir /\ op' = AfterReplace
      /\ UNCHANGED <<inode, dir, snap, projected, acked>>
  BY DEF ReplaceSynced
<1>2. op \in Operations
  BY TypeParts DEF StoreInv, StateOK
<1>3. \/ op' = [op EXCEPT !.at = "open"] \/ op' = [op EXCEPT !.at = "unmark"]
      \/ op' = [op EXCEPT !.at = "project"] \/ op' = NoOp
  BY <1>1 DEF AfterReplace
<1>4. op'.at \in {"open", "unmark", "project", "none"}
  BY <1>2, <1>3, OpIdle DEF Operations
<1>5. ~Log.suspect /\ Log.synced = Len(Log.frames)
  BY <1>1 DEF DurableInv, StageInv
<1>6. Durable(dir.log) = Whole(dir.log) /\ Whole(dir.log) \in Seq(Frames)
  BY <1>5, DurableOK, WholeOK, Types DEF StoreInv, Log
<1>7. IsPrefix(ClosedPrefix(Log.frames), Durable(dir.log))
  BY <1>6, PrefixReflexive DEF Whole, Log
<1> QED BY <1>1, <1>4, <1>5, <1>7, QuietDurable DEF Writing, Replacing

--------------------------------------------------------------------------------
(* The catalog is written. *)

LEMMA ReaderDurable ==
    ASSUME DurableInv, UNCHANGED <<inode, dir, durable_dir, op, lease>>, PromiseInv'
    PROVE  DurableInv'
<1>1. Promised' = Promised /\ Log' = Log /\ (Settled' <=> Settled) /\ (Replacing' <=> Replacing)
  BY DEF Promised, Durable, Log, File, Settled, Replacing
<1>2. Intact'
  BY DEF DurableInv, Intact
<1>3. SettledInv'
  BY <1>1 DEF DurableInv, SettledInv, Under
<1>4. StageInv'
  BY <1>1 DEF DurableInv, StageInv, Under
<1> QED BY <1>2, <1>3, <1>4 DEF DurableInv

(* The catalog is given what is under the promise. *)
LEMMA ProjectDurable ==
    ASSUME DurableInv, UNCHANGED <<inode, dir, durable_dir, acked>>,
           snap' \in {snap, NoSnap}, Under(projected', Promised)
    PROVE  PromiseInv' /\ Promised' = Promised
<1>1. Promised' = Promised
  BY DEF Promised, Durable, File
<1>2. Under(acked, Promised)' /\ Under(projected, Promised)'
  BY <1>1 DEF DurableInv, PromiseInv, Under
<1>3. snap' # NoSnap =>
          /\ snap' = snap /\ snap.end <= Len(inode[snap.inode].frames)
          /\ Under(SubSeq(inode[snap.inode].frames, 1, snap.end), Promised')
  BY <1>1 DEF DurableInv, PromiseInv
<1> QED BY <1>1, <1>2, <1>3 DEF PromiseInv, Under

LEMMA ReadDurable ==
    ASSUME StoreInv, AgreeInv, DurableInv, Read PROVE DurableInv'
<1>p. Promised # {} /\ \A t \in Promised : t \in Seq(Frames)
  BY PromisedOK DEF Promised
<1>1. CASE snapshot
  <2>1. /\ snap' = [inode |-> dir.log, end |-> SnapshotEnd(Log)] /\ op = NoOp
        /\ ~dir.ambiguous /\ dir.log # None
        /\ UNCHANGED <<inode, dir, durable_dir, lease, op, projected, acked>>
    BY <1>1 DEF snapshot, Unlocked, has_ambiguity
  <2>2. Settled
    BY <2>1, OpIdle DEF Settled
  <2> DEFINE s == Log.frames
             c == ClosedPrefix(s)
             n == Len(c)
  <2>3. Log = inode[dir.log] /\ Log.damage = 0 /\ Closed(Log) = c /\ s \in Seq(Frames)
    <3>1. Log = inode[dir.log] /\ dir.log \in Inodes
      BY <2>1, LogOK DEF StoreInv
    <3> QED BY <3>1, LogOK DEF StoreInv, DurableInv, Intact
  <2>4. snap'.inode = dir.log /\ snap'.end = n
    BY <2>1, <2>3 DEF SnapshotEnd
  <2>5. c \in Seq(Frames) /\ IsPrefix(c, s)
    BY <2>3, ClosedPrefixType
  <2>6. Under(c, Promised)
    BY <2>2 DEF DurableInv, SettledInv
  <2> HIDE DEF s, c
  <2>7. n \in 0..Len(s)
    BY <2>3, <2>5, PrefixElements
  <2>8. SubSeq(s, 1, n) = c
    BY <2>3, <2>5, <2>7, SubSeqPrefix, PrefixElements, SeqEqual
  <2> HIDE DEF n
  <2>9. Promised' = Promised
    BY <2>1 DEF Promised, Durable, File
  <2>10. /\ n <= Len(inode'[snap'.inode].frames)
         /\ Under(SubSeq(inode'[snap'.inode].frames, 1, snap'.end), Promised')
    <3>1. inode'[snap'.inode].frames = s
      BY <2>1, <2>3, <2>4 DEF s
    <3>2. n <= Len(s) /\ SubSeq(s, 1, snap'.end) = c
      BY <2>3, <2>4, <2>7, <2>8
    <3> QED BY <2>6, <2>9, <3>1, <3>2
  <2>11. Under(acked, Promised)' /\ Under(projected, Promised)'
    BY <2>1, <2>9 DEF DurableInv, PromiseInv, Under
  <2>12. PromiseInv'
    BY <2>4, <2>10, <2>11 DEF PromiseInv
  <2> QED BY <2>1, <2>12, ReaderDurable
<1>2. CASE ProjectSnapshot
  <2> DEFINE s == SnapshotFrames
             c == ClosedPrefix(s)
             f == inode[snap.inode]
  <2>1. /\ snap # NoSnap /\ Project(s) /\ snap' = NoSnap
        /\ UNCHANGED <<inode, dir, durable_dir, lease, op, acked>>
    BY <1>2 DEF ProjectSnapshot
  <2>2. /\ snap.inode \in Inodes /\ s \in Seq(Frames) /\ snap.end \in Nat
        /\ f.frames \in Seq(Frames)
    BY <2>1, SnapshotFramesOK, Types, TypeParts
    DEF StoreInv, StateOK, Snapshots, FilesOK, FileStates
  <2>3. snap.end <= Len(f.frames) /\ Under(SubSeq(f.frames, 1, snap.end), Promised)
    BY <2>1 DEF DurableInv, PromiseInv
  <2>4. s = SubSeq(f.frames, 1, snap.end)
    BY <2>2, <2>3 DEF SnapshotFrames
  <2> HIDE DEF s, f
  <2>5. c \in Seq(Frames) /\ IsPrefix(c, s)
    BY <2>2, ClosedPrefixType
  <2>6. Under(c, Promised)
    BY <1>p, <2>2, <2>3, <2>4, <2>5, UnderShorter
  <2> HIDE DEF c
  <2>7. Comparable(projected, c)
    BY <1>p, <2>5, <2>6, ComparePrefixes, Types DEF DurableInv, PromiseInv, Under
  <2>8. projected' = c
    BY <2>1, <2>2, <2>7, ProjectOK, Types DEF c
  <2> QED BY <2>1, <2>6, <2>8, ProjectDurable, ReaderDurable
<1>3. CASE ProjectOwned
  <2>1. /\ lease.state = "ready" /\ op = NoOp /\ Project(lease.closed)
        /\ UNCHANGED <<inode, dir, durable_dir, lease, op, snap, acked>>
    BY <1>3 DEF ProjectOwned, memory
  <2>2. /\ ClosedPrefix(lease.closed) = lease.closed
        /\ Comparable(projected, lease.closed)
    BY <2>1 DEF StoreInv, FoldInv, AgreeInv, HeldInv, Comparable
  <2>3. projected' = lease.closed
    BY <2>1, <2>2, ProjectOK, Types
  <2>4. IsPrefix(lease.closed, Durable(dir.log))
    BY <2>1, OwnerDurable
  <2>5. Promised = {Durable(dir.log)}
    BY <2>1, OpIdle, Named, PromisedOK
  <2> QED BY <2>1, <2>3, <2>4, <2>5, ProjectDurable, ReaderDurable DEF Under
<1> QED BY <1>1, <1>2, <1>3 DEF Read

LEMMA RebuildDurable ==
    ASSUME StoreInv, DurableInv, RebuildProjection PROVE DurableInv'
<1>1. /\ op.at = "project" /\ op' = NoOp
      /\ UNCHANGED <<inode, dir, durable_dir, lease, snap, acked>>
      /\ projected' = projected \/ (projected' = Closed(Log) /\ ~dir.ambiguous)
  BY DEF RebuildProjection, has_ambiguity
<1>2. Log.damage = 0
  BY Types, EmptyFields DEF DurableInv, Intact, Log, File
<1>3. ~dir.ambiguous => Under(Closed(Log), Promised)
  <2>1. ~dir.ambiguous => Settled
    BY <1>1 DEF Settled
  <2> QED BY <1>2, <2>1, LogOK DEF StoreInv, DurableInv, SettledInv
<1>4. Under(projected', Promised)
  BY <1>1, <1>3 DEF DurableInv, PromiseInv
<1>5. PromiseInv' /\ Promised' = Promised
  BY <1>1, <1>4, ProjectDurable
<1>6. Intact' /\ Log' = Log
  BY <1>1 DEF DurableInv, Intact, Log, File
<1>7. SettledInv'
  <2>1. Settled' => Settled
    BY <1>1, OpIdle DEF Settled
  <2> QED BY <1>5, <1>6, <2>1 DEF DurableInv, SettledInv, Under
<1>8. StageInv'
  BY <1>1, OpIdle DEF DurableInv, StageInv, Replacing
<1> QED BY <1>5, <1>6, <1>7, <1>8 DEF DurableInv

--------------------------------------------------------------------------------
(* The host stops. *)

LEMMA SurvivesDurable ==
    ASSUME NEW f, FileOK(f), f.damage = 0, NEW n \in f.synced..Len(f.frames),
           NEW b \in BOOLEAN, NEW g, g = Survives(f, n, b)
    PROVE  /\ FileOK(g) /\ g.damage = 0 /\ ~g.suspect
           /\ IsPrefix(DurableClosed(f), DurableClosed(g))
           /\ DurableClosed(g) = ClosedPrefix(g.frames)
<1> DEFINE t == SubSeq(f.frames, 1, n)
           m == IF f.damage > n THEN 0 ELSE f.damage
<1>1. FileOK(g) /\ g.synced = n /\ Len(g.frames) = n /\ g.frames = t
  BY SurvivesOK
<1>2. f.frames \in Seq(Frames) /\ f.synced \in Nat /\ n \in 0..Len(f.frames)
  BY DEF FileOK, FileStates
<1>3. IsPrefix(t, f.frames)
  BY <1>2, SubSeqPrefix
<1>4. g = [f EXCEPT !.frames = t, !.synced = n, !.suspect = FALSE, !.short = b,
                    !.damage = m]
  BY DEF Survives
<1>5. m = 0
  OBVIOUS
<1> HIDE DEF t, m
<1>6. g.damage = 0 /\ ~g.suspect
  BY <1>4, <1>5 DEF FileOK, FileStates
<1>7. Comparable(f.frames, g.frames) /\ f.synced <= g.synced
  BY <1>1, <1>2, <1>3 DEF Comparable
<1> QED BY <1>1, <1>6, <1>7, DurableKept, DurableClosedOK

LEMMA PowerLossDurable ==
    ASSUME StoreInv, DurableInv, PowerLoss PROVE DurableInv'
<1>1. PICK d \in Directories :
          \E n \in File(d.log).synced..Len(File(d.log).frames), b \in BOOLEAN :
            /\ dir' = d /\ durable_dir' = d
            /\ inode' = [i \in Inodes |-> IF i = d.log THEN Survives(File(d.log), n, b)
                                                       ELSE EmptyFile]
  BY DEF PowerLoss
<1> DEFINE f == File(d.log)
<1>2. PICK n \in f.synced..Len(f.frames), b \in BOOLEAN :
          /\ dir' = d /\ durable_dir' = d
          /\ inode' = [i \in Inodes |-> IF i = d.log THEN Survives(f, n, b) ELSE EmptyFile]
  BY <1>1
<1> DEFINE g == Survives(f, n, b)
           h == IF d.log = None THEN EmptyFile ELSE g
<1>3. d.log \in Inodes \cup {None} /\ Durable(d.log) \in Promised
  BY Types DEF Directories, Promised
<1>4. FileOK(f) /\ f.damage = 0
  BY <1>3, WholeOK, EmptyFields DEF StoreInv, DurableInv, Intact, File
<1>5. /\ FileOK(g) /\ g.damage = 0 /\ ~g.suspect
      /\ IsPrefix(DurableClosed(f), DurableClosed(g))
      /\ DurableClosed(g) = ClosedPrefix(g.frames)
  BY <1>2, <1>4, SurvivesDurable
<1> HIDE DEF g
<1>6. File(dir.log)' = h /\ File(durable_dir.log)' = h
  <2>1. d.log # None => inode'[d.log] = g
    BY <1>2, <1>3 DEF g
  <2> QED BY <1>2, <2>1 DEF File
<1>7. /\ FileOK(h) /\ ~h.suspect /\ IsPrefix(DurableClosed(f), DurableClosed(h))
      /\ DurableClosed(h) = ClosedPrefix(h.frames)
  <2>1. CASE d.log = None
    <3>1. f = h /\ h = EmptyFile
      BY <2>1 DEF File
    <3>2. h.frames = <<>> /\ h.synced = 0 /\ ~h.suspect
      BY <3>1, EmptyFields DEF EmptyFile
    <3>3. h.synced = Len(h.frames)
      BY <3>2
    <3> HIDE DEF h, f
    <3> QED BY <1>4, <3>1, <3>2, <3>3, DurableClosedOK, PrefixReflexive
  <2>2. CASE d.log # None
    BY <1>5, <2>2
  <2> QED BY <2>1, <2>2
<1> HIDE DEF f, h
<1>8. DurableClosed(f) \in Seq(Frames) /\ DurableClosed(h) \in Seq(Frames)
  BY <1>4, <1>7, DurableClosedOK
<1>9. Promised' = {DurableClosed(h)} /\ Log' = h
  BY <1>6 DEF Promised, Durable, Log
<1>10. lease' = NoLease /\ op' = NoOp /\ snap' = NoSnap /\ UNCHANGED <<projected, acked>>
  BY DEF PowerLoss, ProcessEnds
<1>11. Intact'
  BY <1>2, <1>5, EmptyFields DEF Intact, g
<1>12. PromiseInv'
  <2>1. ASSUME NEW s \in Seq(Frames), Under(s, Promised) PROVE Under(s, Promised')
    BY <1>3, <1>7, <1>8, <1>9, <2>1, PrefixTransitive DEF Under, Durable, f
  <2>2. Under(acked, Promised') /\ Under(projected, Promised')
    BY <2>1, PromisedOK DEF DurableInv, PromiseInv
  <2> QED BY <1>10, <2>2 DEF PromiseInv, Under
<1>13. SettledInv'
  BY <1>7, <1>8, <1>9, PrefixReflexive DEF SettledInv, Under
<1>14. StageInv'
  BY <1>2, <1>10, OpIdle DEF StageInv, Replacing
<1> QED BY <1>11, <1>12, <1>13, <1>14 DEF DurableInv

LEMMA HostDurable ==
    ASSUME Survivable, StoreInv, DurableInv, Host PROVE DurableInv'
<1>1. CASE Restart
  <2>1. /\ lease' = NoLease /\ op' = NoOp /\ snap' = NoSnap /\ op = NoOp
        /\ UNCHANGED <<inode, dir, durable_dir, projected, acked>>
    BY <1>1 DEF Restart, ProcessEnds, Unlocked
  <2> QED BY <2>1, OpIdle, Named, IdleDurable DEF Writing, Settled, Replacing
<1>2. ~Kill /\ ~Corrupt
  BY DEF Survivable, Kill, Corrupt
<1> QED BY <1>1, <1>2, PowerLossDurable DEF Host

--------------------------------------------------------------------------------
LEMMA DurableInit == ASSUME Init PROVE DurableInv
<1>1. /\ dir.log = None /\ durable_dir = dir /\ lease = NoLease /\ op = NoOp
      /\ snap = NoSnap /\ projected = <<>> /\ acked = <<>>
      /\ inode = [i \in Inodes |-> EmptyFile]
  BY DEF Init
<1>2. <<>> \in Seq(Frames)
  OBVIOUS
<1>3. Log = EmptyFile /\ ClosedPrefix(Log.frames) = <<>> /\ ~Log.suspect
  BY <1>1, EmptyFields, ClosedPrefixEmpty DEF Log, File, EmptyFile
<1>4. FileOK(Log) /\ Log.synced = Len(Log.frames)
  BY <1>3, EmptyFileOK DEF EmptyFile
<1>5. Promised = {<<>>}
  <2>1. DurableClosed(Log) = <<>>
    BY <1>3, <1>4, DurableClosedOK
  <2> QED BY <1>1, <2>1 DEF Promised, Durable, Log
<1>6. Under(<<>>, Promised)
  BY <1>2, <1>5, PrefixEmpty DEF Under
<1>7. Intact
  BY <1>1, EmptyFields DEF Intact
<1>8. PromiseInv /\ SettledInv
  BY <1>1, <1>3, <1>6 DEF PromiseInv, SettledInv
<1>9. StageInv
  BY <1>1, OpIdle DEF StageInv, Replacing
<1> QED BY <1>7, <1>8, <1>9 DEF DurableInv

LEMMA DurableNext ==
    ASSUME Survivable
    PROVE  StoreInv /\ AgreeInv /\ DurableInv /\ [Next]_vars => DurableInv'
<1> SUFFICES ASSUME StoreInv, AgreeInv, DurableInv, [Next]_vars PROVE DurableInv'
  OBVIOUS
<1>1. CASE Own
  BY <1>1, OwnerIdle, StageWritesDurable, StageWriteFailsDurable, StageSyncsDurable,
     PushFileRowDurable, CompleteDurable, CloserSyncsDurable, LinkSyncsDurable,
     ReconcileDurable DEF Own
<1>2. CASE Recover
  BY <1>2, ReplaceDurable, ReplaceSyncedDurable, RecoveryDurable, RebuildDurable DEF Recover
<1>3. CASE UNCHANGED vars
  <2>1. UNCHANGED <<inode, dir, durable_dir, lease, op, snap, projected, acked>>
    BY <1>3 DEF vars, memory
  <2>2. Under(projected', Promised)
    BY <2>1 DEF DurableInv, PromiseInv
  <2> QED BY <2>1, <2>2, ProjectDurable, ReaderDurable
<1> QED BY <1>1, <1>2, <1>3, ReadDurable, HostDurable DEF Next

(* For every number of inodes, groups and faults, as long as the faults are *)
(* power loss, failing writes, failing file syncs and failing callbacks:    *)
(* what was acknowledged, projected or captured is durable under every name *)
(* power loss may leave, and what can be read is durable unless a marker    *)
(* says that it is in doubt.                                                *)
THEOREM DurableInvariance == ASSUME Survivable PROVE Spec => []DurableInv
<1>1. Init => DurableInv
  BY DurableInit
<1>2. StoreInv /\ AgreeInv /\ DurableInv /\ [Next]_vars => DurableInv'
  BY DurableNext
<1> QED BY <1>1, <1>2, StoreInvariance, AgreeInvariance, PTL DEF Spec

(* AckedDurable: a commit whose owner saw Publish succeed is in the synced, *)
(* closed frames of the log under every name that power loss may leave      *)
(* (complete_inner, replace_prefix and clear_ambiguity_above of store.rs).  *)
THEOREM NoAckedCommitLost == ASSUME Survivable PROVE Spec => []AckedDurable
<1>1. DurableInv => AckedDurable
  BY DEF DurableInv, PromiseInv, Under, Promised, Durable, AckedDurable, Directories
<1> QED BY <1>1, DurableInvariance, PTL

(* ProjectedDurable: the catalog holds no group that power loss takes from  *)
(* the log: a snapshot captures durable groups only, and stays readable     *)
(* when the file is replaced or loses frames (project_snapshot).            *)
THEOREM CatalogIsDurable == ASSUME Survivable PROVE Spec => []ProjectedDurable
<1>1. DurableInv => ProjectedDurable
  BY DEF DurableInv, PromiseInv, Under, Promised, Durable, ProjectedDurable, Directories
<1> QED BY <1>1, DurableInvariance, PTL
================================================================================
