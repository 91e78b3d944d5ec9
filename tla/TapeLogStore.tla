------------------------------ MODULE TapeLogStore ------------------------------
(***************************************************************************)
(* The file behind a per-tape authority log                                *)
(* (crates/remanence-state/src/tape_log/store.rs): its exclusive lease, the *)
(* staged append, the fence of an uncertain publication, copy-prefix        *)
(* repair, frozen snapshots, and the catalog mark that is its floor.        *)
(*                                                                         *)
(* A log is a sequence of frames; the position of a frame is its sequence  *)
(* number, and a closing frame makes every frame up to it authoritative.   *)
(* What a record says is TapeLogFold's subject.                            *)
(*                                                                         *)
(* The host is modelled as the repository's crash suite models it          *)
(* (crates/remanence-chaos/src/file_model.rs).  A killed process loses its *)
(* memory and locks, but the page cache survives.  Power loss also cuts a  *)
(* file to a prefix that keeps its synced frames, and leaves either the    *)
(* present directory entries or those of the last directory sync.  After a *)
(* failed sync the dirty bytes are lost, now or at the next power loss.    *)
(***************************************************************************)
EXTENDS Integers, Sequences, SequencesExt

CONSTANTS
    Inodes,     \* inode numbers
    Faults,     \* faults that may happen, of those FaultKinds lists
    MaxFaults,  \* how many happen
    MaxGroups   \* how many groups an owner attempts to publish

FaultKinds ==
    {"power",     \* the host stops: unsynced bytes and names may be lost
     "kill",      \* the process stops inside an operation
     "write",     \* an append fails after part of its last frame
     "sync",      \* a file sync fails
     "dirsync",   \* a directory sync fails
     "marker",    \* the ambiguity marker cannot be created
     "observer",  \* a callback fails after a durable commit
     "corrupt"}   \* the log is damaged on disk

(* No file: an absent log. *)
None == 0

ASSUME StoreAssumption ==
    /\ Faults \subseteq FaultKinds
    /\ MaxFaults \in Nat
    /\ MaxGroups \in Nat
    /\ Inodes \subseteq Nat \ {None}

VARIABLES
    inode,          \* contents and durability of each inode
    dir,            \* directory entries of this tape: log, ambiguous, repair
    durable_dir,    \* the entries of the last directory sync
    process_fence,  \* this process remembers an ambiguous publication
    lease,          \* the exclusive owner
    op,             \* its operation in progress
    snap,           \* a frozen snapshot: inode and end
    projected,      \* frames in the catalog; the mark is their number
    attempts,       \* groups begun
    faults,         \* faults so far
    acked           \* history: frames of the last commit an owner saw succeed

files == <<inode, dir, durable_dir>>
memory == <<process_fence, lease, op, snap>>
vars == <<files, memory, projected, attempts, faults, acked>>

--------------------------------------------------------------------------------
(* Values *)

EmptyFile == [frames |-> <<>>, synced |-> 0, suspect |-> FALSE,
              short |-> FALSE, damage |-> 0, cut |-> FALSE]

NoLease == [state |-> "none", closed |-> <<>>, torn |-> FALSE,
            repair |-> FALSE, floor |-> 0]
NoOp == [at |-> "none", why |-> "none", out |-> None, rows |-> 0, sync |-> FALSE]
NoSnap == [inode |-> None, end |-> 0]

Frame(closes) == [group |-> attempts, closes |-> closes]

(* The longest prefix of frames that ends with a closing frame. *)
ClosedPrefix(frames) ==
    LET ends == {n \in DOMAIN frames : frames[n].closes}
    IN IF ends = {} THEN <<>>
       ELSE SubSeq(frames, 1, CHOOSE n \in ends : \A m \in ends : m <= n)

(* Frames before the first damaged one. *)
Readable(file) ==
    IF file.damage = 0 THEN file.frames
    ELSE SubSeq(file.frames, 1, file.damage - 1)
Closed(file) == ClosedPrefix(Readable(file))

(* Tail::Complete: nothing follows the last closing frame. *)
Complete(file) == Closed(file) = file.frames /\ ~file.short

File(i) == IF i = None THEN EmptyFile ELSE inode[i]
Log == File(dir.log)

(* The content of a file, as its digest and length bind it. *)
Content(file) == <<file.frames, file.short, file.damage>>
NoRecord == [kept |-> <<>>, original |-> Content(EmptyFile)]

(* An inode nothing refers to. *)
Referenced == {dir.log, durable_dir.log, op.out, snap.inode}
NewInode == CHOOSE i \in Inodes \ Referenced : TRUE
SomeInode == Inodes \ Referenced # {}

--------------------------------------------------------------------------------
(* The host file system (external). *)

Fault(kind) ==
    /\ kind \in Faults
    /\ faults < MaxFaults
    /\ faults' = faults + 1
NoFault == UNCHANGED faults

(* A directory entry changes; it is not durable until the directory is. *)
SetEntry(name, value) ==
    /\ dir' = [dir EXCEPT ![name] = value]
    /\ UNCHANGED durable_dir

SyncDirectory ==
    /\ durable_dir' = dir
    /\ UNCHANGED <<inode, dir>>

(* The directories power loss may leave. *)
Directories == {dir, durable_dir}

Synced(file) ==
    IF file.suspect THEN file ELSE [file EXCEPT !.synced = Len(file.frames)]
(* A failed sync may lose the dirty bytes, or keep them readable while no   *)
(* later sync writes them.                                                  *)
SyncFails(file) ==
    {[file EXCEPT !.suspect = TRUE],
     [file EXCEPT !.frames = SubSeq(@, 1, file.synced), !.short = FALSE]}
Appended(file, frame) == [file EXCEPT !.frames = Append(@, frame)]
ShortWrite(file) == [file EXCEPT !.short = TRUE]

--------------------------------------------------------------------------------
Init ==
    /\ inode = [i \in Inodes |-> EmptyFile]
    /\ dir = [log |-> None, ambiguous |-> FALSE, repair |-> NoRecord]
    /\ durable_dir = dir
    /\ process_fence = FALSE
    /\ lease = NoLease
    /\ op = NoOp
    /\ snap = NoSnap
    /\ projected = <<>>
    /\ attempts = 0
    /\ faults = 0
    /\ acked = <<>>

(* Nobody holds the exclusive flock. *)
Unlocked == lease = NoLease /\ op = NoOp

(* Mutant: a process fence that outlives its marker is not consulted. *)
MarkerOnly == dir.ambiguous
has_ambiguity == process_fence \/ dir.ambiguous

RepairRequired == dir.repair # NoRecord

(* Captured::validate: no damage, and an active file is initialized. *)
Validates(file) == file.damage = 0 /\ (dir.log # None => Closed(file) # <<>>)

(* Mutant: the catalog's floor is not consulted. *)
AboveProjectionUnchecked(closed) == TRUE
AboveProjection(closed) == Len(closed) >= Len(projected)

(* acquire_inner: the only mutation capability.  A fresh owner refuses an   *)
(* existing log.  A recovery owner may hold a repaired log, but publishes   *)
(* nothing before reconciliation.                                           *)
acquire(fresh, recovery) ==
    /\ Unlocked
    /\ ~has_ambiguity
    /\ RepairRequired => recovery
    /\ fresh => dir.log = None
    /\ Validates(Log)
    /\ AboveProjection(Closed(Log))
    /\ lease' = [state |-> "ready", closed |-> Closed(Log),
                 torn |-> ~Complete(Log), repair |-> RepairRequired,
                 floor |-> Len(projected)]
    /\ NoFault
    /\ UNCHANGED <<files, process_fence, op, snap, projected, attempts, acked>>

(* set_projection_floor: the floor never regresses. *)
set_projection_floor ==
    /\ lease.state # "none" /\ op = NoOp
    /\ lease.floor # Len(projected)
    /\ Len(projected) >= lease.floor
    /\ lease' = [lease EXCEPT !.floor = Len(projected)]
    /\ NoFault
    /\ UNCHANGED <<files, process_fence, op, snap, projected, attempts, acked>>

(* Dropping the lease; a staged group is dropped with it. *)
Release ==
    /\ lease.state # "none"
    /\ op.at \in {"none", "staged"}
    /\ lease' = NoLease
    /\ op' = NoOp
    /\ NoFault
    /\ UNCHANGED <<files, process_fence, snap, projected, attempts, acked>>

--------------------------------------------------------------------------------
(* replace_prefix: copy a prefix to a new inode, sync it, rename it over    *)
(* the log, sync the directory.  The caller is op.why; it keeps the frames  *)
(* its owner or its validation established.                                 *)

(* Mutant: clearing an ambiguity cuts the log back to the catalog's mark. *)
KeptProjected == IF op.why \in {"repair", "rebuild"} THEN dir.repair.kept
                 ELSE IF lease.state = "none" THEN projected
                 ELSE lease.closed
Kept == IF op.why \in {"repair", "rebuild"} THEN dir.repair.kept
        ELSE IF lease.state = "none" THEN Closed(Log)
        ELSE lease.closed

(* Mutant: the old file is shortened, not copied. *)
ReplacementShortened(cut) == [Log EXCEPT !.frames = Kept, !.cut = cut]
Replacement(cut) == [EmptyFile EXCEPT !.frames = Kept, !.synced = Len(Kept),
                                      !.cut = cut]

(* The log is shorter than the prefix to copy. *)
ShortSource == ~IsPrefix(Kept, Log.frames)

replace_prefix ==
    /\ op.at = "replace"
    /\ ~ShortSource
    /\ SomeInode
    /\ LET i == NewInode
       IN /\ inode' = [inode EXCEPT ![i] =
                         Replacement(op.why \in {"repair", "rebuild"} \/ Log.cut)]
          /\ SetEntry("log", i)
    /\ op' = [op EXCEPT !.at = "replaced"]
    /\ NoFault
    /\ UNCHANGED <<process_fence, lease, snap, projected, attempts, acked>>

(* What a caller does after the replacement is durable. *)
AfterReplace ==
    CASE op.why = "stage"  -> [op EXCEPT !.at = "open"]
      [] op.why = "clear"  -> [op EXCEPT !.at = "unmark"]
      [] op.why = "rebuild" -> [op EXCEPT !.at = "project"]
      [] OTHER -> NoOp

ReplaceSynced ==
    /\ op.at = "replaced"
    /\ SyncDirectory
    /\ lease' = IF lease.state = "none" THEN lease
                ELSE [lease EXCEPT !.torn = FALSE,
                        !.state = IF op.why = "stage" THEN "fenced" ELSE "ready"]
    /\ op' = AfterReplace
    /\ NoFault
    /\ UNCHANGED <<process_fence, snap, projected, attempts, acked>>

(* The copy or its directory sync fails.  An owner stays fenced and a       *)
(* repair keeps its record; only clear_ambiguity raises the fence again.    *)
ReplaceFails ==
    /\ \/ op.at = "replace" /\ Fault("sync")
       \/ op.at = "replace" /\ ShortSource /\ NoFault
       \/ op.at = "replaced" /\ Fault("dirsync")
    /\ op' = IF op.why = "clear" THEN [op EXCEPT !.at = "uncertain"] ELSE NoOp
    /\ process_fence' = (process_fence \/ op.why = "clear")
    /\ UNCHANGED <<files, lease, snap, projected, attempts, acked>>

--------------------------------------------------------------------------------
(* Publication: stage, media barrier, complete. *)

(* An uncertain publication: the owner is fenced, the process remembers it, *)
(* and the marker is still to be written.                                   *)
Ambiguous ==
    /\ lease' = IF lease.state = "none" THEN lease
                ELSE [lease EXCEPT !.state = "fenced"]
    /\ process_fence' = TRUE
    /\ op' = [NoOp EXCEPT !.at = "uncertain"]

(* fence_ambiguity: the directory is synced even if the marker is not       *)
(* created, and neither failure is reported.                                *)
fence_ambiguity ==
    /\ op.at = "uncertain"
    /\ \/ /\ NoFault
          /\ dir' = [dir EXCEPT !.ambiguous = TRUE]
          /\ durable_dir' = dir'
       \/ /\ Fault("dirsync")
          /\ SetEntry("ambiguous", TRUE)
       \/ /\ Fault("marker")
          /\ dir' = dir
          /\ durable_dir' = dir
    /\ op' = NoOp
    /\ UNCHANGED <<inode, process_fence, lease, snap, projected, attempts, acked>>

(* Mutant: a repaired log is published to before its reconciliation. *)
ReconciledUnchecked == TRUE
Reconciled == ~lease.repair

(* stage_inner, up to the first write.  A torn suffix is replaced first.    *)
(* The first group of a log is the single Initialized record.               *)
stage(rows, sync) ==
    /\ lease.state = "ready" /\ op = NoOp
    /\ Reconciled
    /\ Len(lease.closed) >= lease.floor
    /\ attempts < MaxGroups
    /\ lease.closed = <<>> => rows = 0
    /\ lease.closed # <<>> => dir.log # None
    /\ lease' = [lease EXCEPT !.state = "fenced"]
    /\ op' = [NoOp EXCEPT !.at = IF lease.torn THEN "replace" ELSE "open",
                          !.why = "stage", !.rows = rows, !.sync = sync]
    /\ attempts' = attempts + 1
    /\ NoFault
    /\ UNCHANGED <<files, process_fence, snap, projected, acked>>

(* The provisional frames are written: to the log, or to a temporary file   *)
(* that becomes it.                                                         *)
StageWrites ==
    /\ op.at = "open"
    /\ \/ /\ lease.closed = <<>>
          /\ SomeInode
          /\ op' = [op EXCEPT !.at = "staged", !.out = NewInode]
          /\ inode' = [inode EXCEPT ![NewInode] = EmptyFile]
       \/ /\ lease.closed # <<>>
          /\ op' = [op EXCEPT !.at = IF op.rows > 0 /\ op.sync THEN "copied"
                                                               ELSE "staged",
                              !.out = dir.log]
          /\ inode' = IF op.rows = 0 THEN inode
                      ELSE [inode EXCEPT ![dir.log] = Appended(@, Frame(FALSE))]
    /\ NoFault
    /\ UNCHANGED <<dir, durable_dir, process_fence, lease, snap, projected, attempts, acked>>

StageWriteFails ==
    /\ op.at = "open" /\ op.rows > 0
    /\ Fault("write")
    /\ inode' = [inode EXCEPT ![dir.log] = ShortWrite(@)]
    /\ Ambiguous
    /\ UNCHANGED <<dir, durable_dir, snap, projected, attempts, acked>>

(* sync_data before the media barrier; a failure rolls the log back. *)
StageSyncs ==
    /\ op.at = "copied"
    /\ \/ /\ NoFault
          /\ inode' = [inode EXCEPT ![op.out] = Synced(@)]
          /\ op' = [op EXCEPT !.at = "staged"]
       \/ /\ Fault("sync")
          /\ \E file \in SyncFails(inode[op.out]) : inode' = [inode EXCEPT ![op.out] = file]
          /\ op' = [NoOp EXCEPT !.at = "replace", !.why = "rollback"]
    /\ UNCHANGED <<dir, durable_dir, process_fence, lease, snap, projected, attempts, acked>>

(* push_file_row: a row learnt at the barrier. *)
push_file_row ==
    /\ op.at = "staged" /\ op.rows = 1
    /\ \/ /\ NoFault
          /\ inode' = [inode EXCEPT ![op.out] = Appended(@, Frame(FALSE))]
          /\ op' = [op EXCEPT !.rows = 2]
       \/ /\ Fault("write")
          /\ inode' = [inode EXCEPT ![op.out] = ShortWrite(@)]
          /\ op' = NoOp
    /\ UNCHANGED <<dir, durable_dir, process_fence, lease, snap, projected, attempts, acked>>

(* Mutant: dropping a staged group leaves the owner usable. *)
DroppedUnfenced == [lease EXCEPT !.state = "ready"]
Dropped == lease

(* The closer is refused, or the staged group is dropped: no closing write  *)
(* was tried, and the owner stays fenced.                                   *)
DropStaged ==
    /\ op.at = "staged"
    /\ op' = NoOp
    /\ lease' = Dropped
    /\ NoFault
    /\ UNCHANGED <<files, process_fence, snap, projected, attempts, acked>>

(* cancel_detached: the media barrier failed before any closing write.  The *)
(* temporary of a new log is removed; if that cannot be synced, the owner   *)
(* stays fenced.                                                            *)
cancel_detached ==
    /\ op.at = "staged"
    /\ ~has_ambiguity
    /\ \/ /\ op.out # dir.log
          /\ op' = NoOp
          /\ \/ /\ NoFault
                /\ SyncDirectory
                /\ lease' = [lease EXCEPT !.state = "ready"]
             \/ Fault("dirsync") /\ UNCHANGED <<files, lease>>
       \/ /\ op.out = dir.log
          /\ op' = [NoOp EXCEPT !.at = "replace", !.why = "cancel"]
          /\ NoFault
          /\ UNCHANGED <<files, lease>>
    /\ UNCHANGED <<process_fence, snap, projected, attempts, acked>>

(* complete_inner: write the closer, sync the file, and give a new log its  *)
(* name.  Every failure from the first byte on is ambiguous.                *)
complete ==
    /\ op.at = "staged"
    /\ \/ /\ NoFault
          /\ inode' = [inode EXCEPT ![op.out] = Appended(@, Frame(TRUE))]
          /\ op' = [op EXCEPT !.at = "closing"]
          /\ UNCHANGED <<process_fence, lease>>
       \/ /\ Fault("write")
          /\ inode' = [inode EXCEPT ![op.out] = ShortWrite(@)]
          /\ Ambiguous
    /\ UNCHANGED <<dir, durable_dir, snap, projected, attempts, acked>>

(* The commit is durable: the owner folds it and may publish again.  A      *)
(* failing callback leaves the owner fenced, the commit standing.           *)
Publish ==
    /\ acked' = inode[op.out].frames
    /\ op' = NoOp
    /\ \/ /\ NoFault
          /\ lease' = [lease EXCEPT !.state = "ready",
                                    !.closed = inode[op.out].frames]
       \/ /\ Fault("observer")
          /\ UNCHANGED lease
    /\ UNCHANGED process_fence

(* Mutant: the closer is not synced. *)
UnsyncedClose(file) == file
SyncedClose(file) == Synced(file)

CloserSyncs ==
    /\ op.at = "closing"
    /\ \/ /\ inode' = [inode EXCEPT ![op.out] = SyncedClose(@)]
          /\ op.out = dir.log
          /\ Publish
          /\ UNCHANGED <<dir, durable_dir>>
       \/ /\ inode' = [inode EXCEPT ![op.out] = SyncedClose(@)]
          /\ op.out # dir.log
          /\ SetEntry("log", op.out)
          /\ op' = [op EXCEPT !.at = "linked"]
          /\ NoFault
          /\ UNCHANGED <<process_fence, lease, acked>>
       \/ /\ Fault("sync")
          /\ \E file \in SyncFails(inode[op.out]) : inode' = [inode EXCEPT ![op.out] = file]
          /\ Ambiguous
          /\ UNCHANGED <<dir, durable_dir, acked>>
    /\ UNCHANGED <<snap, projected, attempts>>

LinkSyncs ==
    /\ op.at = "linked"
    /\ \/ SyncDirectory /\ Publish
       \/ Fault("dirsync") /\ Ambiguous /\ UNCHANGED <<files, acked>>
    /\ UNCHANGED <<snap, projected, attempts>>

--------------------------------------------------------------------------------
(* clear_ambiguity_above: revalidate what can be read, copy it to a new     *)
(* inode, and retire the marker only then.  A refusal fences again.         *)

Clearable ==
    /\ Validates(Log)
    /\ AboveProjection(Closed(Log))

clear_ambiguity ==
    /\ Unlocked
    /\ has_ambiguity
    /\ \/ /\ Clearable
          /\ op' = [NoOp EXCEPT !.at = IF dir.log = None THEN "unmark" ELSE "replace",
                                !.why = "clear"]
          /\ durable_dir' = IF dir.log = None THEN dir ELSE durable_dir
          /\ NoFault
          /\ UNCHANGED process_fence
       \/ /\ \/ ~Clearable /\ NoFault
             \/ Clearable /\ dir.log = None /\ Fault("dirsync")
          /\ op' = [NoOp EXCEPT !.at = "uncertain"]
          /\ process_fence' = TRUE
          /\ UNCHANGED durable_dir
    /\ UNCHANGED <<inode, dir, lease, snap, projected, attempts, acked>>

RemoveMarker ==
    /\ op.at = "unmark"
    /\ SetEntry("ambiguous", FALSE)
    /\ op' = [op EXCEPT !.at = "unmarked"]
    /\ NoFault
    /\ UNCHANGED <<inode, process_fence, lease, snap, projected, attempts, acked>>

MarkerRemoved ==
    /\ op.at = "unmarked"
    /\ \/ /\ NoFault
          /\ SyncDirectory
          /\ process_fence' = FALSE
          /\ op' = NoOp
          /\ UNCHANGED lease
       \/ Fault("dirsync") /\ Ambiguous /\ UNCHANGED files
    /\ UNCHANGED <<snap, projected, attempts, acked>>

--------------------------------------------------------------------------------
(* Explicit repair of a damaged suffix, by an offline process that owns the *)
(* state: no snapshot of a serving process outlives it.                     *)
Offline == Unlocked /\ snap = NoSnap

(* Mutant: only a cut below the catalog's mark is recorded. *)
RecordIfRebuilt(rebuild) ==
    [kept |-> IF rebuild THEN Closed(Log) ELSE <<>>,
     original |-> IF rebuild THEN Content(Log) ELSE Content(EmptyFile)]
RepairRecord(rebuild) == [kept |-> Closed(Log), original |-> Content(Log)]

(* repair_tail: record what is kept and what is cut, make the record        *)
(* durable, then replace.  A cut below the catalog's mark needs a rebuild.  *)
repair_tail(rebuild) ==
    /\ Offline
    /\ ~RepairRequired
    /\ dir.log # None
    /\ ~Complete(Log)
    /\ Closed(Log) # <<>>
    /\ ~rebuild => AboveProjection(Closed(Log))
    /\ SetEntry("repair", RepairRecord(rebuild))
    /\ op' = [NoOp EXCEPT !.at = "recorded",
                          !.why = IF rebuild THEN "rebuild" ELSE "repair"]
    /\ NoFault
    /\ UNCHANGED <<inode, process_fence, lease, snap, projected, attempts, acked>>

RecordSyncs ==
    /\ op.at = "recorded"
    /\ \/ /\ NoFault
          /\ durable_dir' = dir
          /\ op' = [op EXCEPT !.at = "replace"]
       \/ /\ Fault("dirsync")
          /\ op' = NoOp
          /\ UNCHANGED durable_dir
    /\ UNCHANGED <<inode, dir, process_fence, lease, snap, projected, attempts, acked>>

(* resume_repair: the log must be the recorded original or the recorded     *)
(* prefix, and is copied again in either case.                              *)
resume_repair(rebuild) ==
    /\ Offline
    /\ RepairRequired
    /\ ~rebuild => AboveProjection(dir.repair.kept)
    /\ \/ Content(Log) = dir.repair.original
       \/ Content(Log) = <<dir.repair.kept, FALSE, 0>>
    /\ op' = [NoOp EXCEPT !.at = "replace",
                          !.why = IF rebuild THEN "rebuild" ELSE "repair"]
    /\ NoFault
    /\ UNCHANGED <<files, process_fence, lease, snap, projected, attempts, acked>>

(* rebuild_repaired_tape_projection, from a snapshot of the repaired log,   *)
(* which an ambiguity fence refuses.                                        *)
RebuildProjection ==
    /\ op.at = "project"
    /\ op' = NoOp
    /\ projected' = IF has_ambiguity THEN projected ELSE Closed(Log)
    /\ NoFault
    /\ UNCHANGED <<files, process_fence, lease, snap, attempts, acked>>

RemoveRepairFence ==
    /\ dir' = [dir EXCEPT !.repair = NoRecord]
    /\ durable_dir' = dir
    /\ inode' = [inode EXCEPT ![dir.log].cut = FALSE]
    /\ op' = [NoOp EXCEPT !.at = "reconciled"]
    /\ NoFault
    /\ UNCHANGED <<process_fence, lease>>

(* reconcile_repaired_tail: the recovery owner has proved the physical tail *)
(* at the retained cursor.  The evidence is written and synced, and so is   *)
(* its name, before the fence is removed; a failure is ambiguous.           *)
reconcile_repaired_tail ==
    /\ lease.state = "ready" /\ op = NoOp
    /\ lease.repair
    /\ Len(lease.closed) >= lease.floor
    /\ lease.closed = dir.repair.kept
    /\ Content(Log) = <<dir.repair.kept, FALSE, 0>>
    /\ \/ RemoveRepairFence
       \/ /\ \E kind \in {"write", "sync", "dirsync"} : Fault(kind)
          /\ Ambiguous
          /\ UNCHANGED files
    /\ UNCHANGED <<snap, projected, attempts, acked>>

ReconcileSyncs ==
    /\ op.at = "reconciled"
    /\ \/ /\ NoFault
          /\ SyncDirectory
          /\ lease' = [lease EXCEPT !.repair = FALSE]
          /\ op' = NoOp
          /\ UNCHANGED process_fence
       \/ Fault("dirsync") /\ Ambiguous /\ UNCHANGED files
    /\ UNCHANGED <<snap, projected, attempts, acked>>

--------------------------------------------------------------------------------
(* Snapshots and the catalog. *)

(* Captured::fold: a snapshot ends with the last closing frame. *)
SnapshotEnd(file) == Len(Closed(file))

(* Store::snapshot: the inode and the closed end are captured under a       *)
(* shared lock; every later read goes to that inode, unlocked.              *)
snapshot ==
    /\ Unlocked
    /\ ~has_ambiguity
    /\ dir.log # None
    /\ Validates(Log)
    /\ snap' = [inode |-> dir.log, end |-> SnapshotEnd(Log)]
    /\ NoFault
    /\ UNCHANGED <<files, process_fence, lease, op, projected, attempts, acked>>

(* project_snapshot: from the mark's own closing frame, which must be read  *)
(* again, every group whose closing frame is read too.                      *)
Project(frames) ==
    /\ projected # <<>> => /\ Len(projected) <= Len(frames)
                           /\ frames[Len(projected)].closes
    /\ LET closed == ClosedPrefix(frames)
       IN projected' = projected \o SubSeq(closed, Len(projected) + 1, Len(closed))

(* The frames of the captured inode up to the frozen end, as they are now:  *)
(* a failed sync may have shortened the file, and an owner appended to it.  *)
SnapshotFrames ==
    LET frames == inode[snap.inode].frames
    IN SubSeq(frames, 1, IF snap.end < Len(frames) THEN snap.end ELSE Len(frames))

ProjectSnapshot ==
    /\ snap # NoSnap
    /\ LET damage == inode[snap.inode].damage
       IN damage = 0 \/ damage \notin Len(projected)..Len(SnapshotFrames)
    /\ Project(SnapshotFrames)
    /\ snap' = NoSnap
    /\ NoFault
    /\ UNCHANGED <<files, process_fence, lease, op, attempts, acked>>

(* The owner projects what it has folded (Lease::snapshot). *)
ProjectOwned ==
    /\ lease.state = "ready" /\ op = NoOp
    /\ Project(lease.closed)
    /\ NoFault
    /\ UNCHANGED <<files, memory, attempts, acked>>

--------------------------------------------------------------------------------
(* The process and the host stop (external). *)

ProcessEnds ==
    /\ process_fence' = FALSE
    /\ lease' = NoLease
    /\ op' = NoOp
    /\ snap' = NoSnap

(* An orderly exit: nothing is in progress. *)
Restart ==
    /\ Unlocked
    /\ ProcessEnds
    /\ NoFault
    /\ UNCHANGED <<files, projected, attempts, acked>>

Kill ==
    /\ Fault("kill")
    /\ ProcessEnds
    /\ UNCHANGED <<files, projected, attempts, acked>>

(* What power loss leaves of a file: its first n frames, and perhaps part   *)
(* of the next one.                                                         *)
Survives(file, n, short) ==
    [file EXCEPT !.frames = SubSeq(file.frames, 1, n), !.synced = n,
                 !.suspect = FALSE, !.short = short,
                 !.damage = IF @ > n THEN 0 ELSE @]

PowerLoss ==
    /\ Fault("power")
    /\ ProcessEnds
    /\ \E d \in Directories :
         LET file == File(d.log)
         IN \E n \in file.synced..Len(file.frames), short \in BOOLEAN :
              /\ short => n < Len(file.frames) \/ file.short
              /\ dir' = d
              /\ durable_dir' = d
              /\ inode' = [i \in Inodes |-> IF i = d.log
                                               THEN Survives(file, n, short)
                                               ELSE EmptyFile]
    /\ UNCHANGED <<projected, attempts, acked>>

Corrupt ==
    /\ Fault("corrupt")
    /\ dir.log # None
    /\ Log.damage = 0
    /\ \E n \in 1..Len(Log.frames) :
         inode' = [inode EXCEPT ![dir.log].damage = n]
    /\ Unlocked
    /\ UNCHANGED <<dir, durable_dir, memory, projected, attempts, acked>>

Own ==
    \/ \E fresh, recovery \in BOOLEAN : acquire(fresh, recovery)
    \/ set_projection_floor
    \/ Release
    \/ \E rows \in {0, 1}, sync \in BOOLEAN : stage(rows, sync)
    \/ StageWrites \/ StageWriteFails \/ StageSyncs
    \/ push_file_row \/ DropStaged \/ cancel_detached
    \/ complete \/ CloserSyncs \/ LinkSyncs
    \/ reconcile_repaired_tail \/ ReconcileSyncs

Recover ==
    \/ replace_prefix \/ ReplaceSynced \/ ReplaceFails
    \/ fence_ambiguity
    \/ clear_ambiguity \/ RemoveMarker \/ MarkerRemoved
    \/ \E rebuild \in BOOLEAN : repair_tail(rebuild) \/ resume_repair(rebuild)
    \/ RecordSyncs \/ RebuildProjection

Read == snapshot \/ ProjectSnapshot \/ ProjectOwned

Host == Restart \/ Kill \/ PowerLoss \/ Corrupt

Next == Own \/ Recover \/ Read \/ Host

Spec == Init /\ [][Next]_vars

--------------------------------------------------------------------------------
(* Properties *)

Frames == [group : 0..MaxGroups, closes : BOOLEAN]
FileStates ==
    [frames : Seq(Frames), synced : Nat, suspect : BOOLEAN, short : BOOLEAN,
     damage : Nat, cut : BOOLEAN]
Entries ==
    [log : Inodes \cup {None}, ambiguous : BOOLEAN,
     repair : [kept : Seq(Frames), original : Seq(Frames) \X BOOLEAN \X Nat]]
Leases ==
    [state : {"none", "ready", "fenced"}, closed : Seq(Frames), torn : BOOLEAN,
     repair : BOOLEAN, floor : Nat]
Operations ==
    [at : {"none", "replace", "replaced", "open", "copied", "staged", "closing",
           "linked", "uncertain", "unmark", "unmarked", "recorded", "project",
           "reconciled"},
     why : {"none", "stage", "rollback", "cancel", "clear", "repair", "rebuild"},
     out : Inodes \cup {None}, rows : 0..2, sync : BOOLEAN]

Snapshots == {NoSnap} \cup [inode : Inodes, end : Nat]

(* Every variable keeps its type; no file has more synced frames than       *)
(* frames, or damage behind them.                                           *)
TypeOK ==
    /\ inode \in [Inodes -> FileStates]
    /\ \A i \in Inodes : /\ inode[i].synced <= Len(inode[i].frames)
                          /\ inode[i].damage <= Len(inode[i].frames)
    /\ dir \in Entries /\ durable_dir \in Entries
    /\ process_fence \in BOOLEAN
    /\ lease \in Leases
    /\ op \in Operations
    /\ snap \in Snapshots
    /\ projected \in Seq(Frames) /\ acked \in Seq(Frames)
    /\ attempts \in 0..MaxGroups
    /\ faults \in 0..MaxFaults

Comparable(a, b) == IsPrefix(a, b) \/ IsPrefix(b, a)

(* A usable owner folds exactly the log it would read: its closed prefix is *)
(* the file's, and a file it believes complete has nothing after it.        *)
(* Otherwise its next append lands behind frames it does not know of.       *)
FoldMatchesLog ==
    lease.state = "ready" =>
      /\ lease.closed = Closed(Log)
      /\ ~lease.torn => Complete(Log)

(* No commit an owner saw succeed is lost, whatever is left of the page     *)
(* cache and the directory when power fails now.                            *)
DurableClosed(file) == ClosedPrefix(SubSeq(file.frames, 1, file.synced))
AckedDurable ==
    \A d \in Directories : IsPrefix(acked, DurableClosed(File(d.log)))

(* The catalog and the log never disagree on a group: one is a prefix of    *)
(* the other, and an owner that may publish holds all the catalog holds.    *)
CatalogAgrees ==
    /\ Comparable(projected, Closed(Log))
    /\ lease.state = "ready" /\ ~lease.repair => IsPrefix(projected, lease.closed)

(* "fsyncs the log, and then projects it into SQLite"                       *)
(* (docs/reference-tape-layout.md): what the catalog holds survives power   *)
(* loss in the log.                                                         *)
ProjectedDurable ==
    \A d \in Directories : IsPrefix(projected, DurableClosed(File(d.log)))

(* A log that repair has cut is never without its repair fence, whatever    *)
(* power loss leaves, until the physical tail is reconciled.                *)
RepairFenced ==
    \A d \in Directories : File(d.log).cut => d.repair # NoRecord

(* No operation removes a closed group from the log: replacing a torn tail, *)
(* a rollback, a cancellation or a cleared ambiguity removes provisional    *)
(* frames only.  What a fault destroys (a failing sync) is no operation's.   *)
KeepsClosed == faults' = faults => IsPrefix(Closed(Log), Closed(Log)')
ClosedKept == [][KeepsClosed]_vars

(* Nothing is published under a fence: no closing frame is written while an *)
(* ambiguity or an unreconciled repair stands.                              *)
PublishesUnfenced ==
    (Len(acked') > Len(acked) \/ op'.at = "closing") =>
      ~process_fence /\ ~dir.ambiguous /\ dir.repair = NoRecord
FencedIsSilent == [][PublishesUnfenced]_vars

=================================================================================
