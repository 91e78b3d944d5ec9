------------------------------ MODULE TapeLogFold ------------------------------
(***************************************************************************)
(* The fold of a per-tape authority log                                    *)
(* (crates/remanence-state/src/tape_log/fold.rs).                          *)
(*                                                                         *)
(* A tape's log is a stream of frames.  Continuation frames build a group  *)
(* (file rows, catalogs, a plan's directory, an abandoned tail); one       *)
(* closing record makes the group authoritative.  The fold keeps a         *)
(* bounded summary of the closed groups and refuses, and is poisoned by,   *)
(* every frame that contradicts it.                                        *)
(*                                                                         *)
(* Each action is one accepted frame; its guard is the conjunction of the  *)
(* code's checks.  A frame field that must equal what the fold already     *)
(* holds carries no information, so a frame with another value is the      *)
(* action Refuse.  Digests are modelled by what they bind: two row digests *)
(* are equal exactly when the rows are.  Left out: the check value (only   *)
(* its provenance is told apart), catalog bytes, and the counters that     *)
(* merely number commits.                                                  *)
(***************************************************************************)
EXTENDS Integers, FiniteSets

CONSTANTS
    EpochBlocks,    \* epoch_blocks(): blocks of one parity epoch, 0 when parity is off
    SidecarExtent,  \* blocks of the closeout sidecar of a range of n data blocks
    Sessions,       \* write-session identities
    Triggers,       \* reasons to finalize a tape (TerminalFinalizationTrigger)
    Editions,       \* identities of terminal index editions (and manual requests)
    BlockCounts,    \* block counts a file row may claim
    RecordCounts,   \* record counts a terminal layout may plan
    TailBlocks,     \* block counts of a file in an abandoned tail
    MaxTailFiles,   \* files of an abandoned tail (a bound of the model)
    MaxLba,         \* largest position a checked addition yields
    MaxTotal,       \* largest number of data ordinals
    MaxClosed       \* largest sequence of a closing record

Parity == EpochBlocks > 0

(* An absent trigger, session or edition. *)
None == "none"


ASSUME ConstantsAssumption ==
    /\ EpochBlocks \in Nat
    /\ SidecarExtent \in [1..EpochBlocks -> Nat]
    /\ Triggers \subseteq {"ReachedLowWatermark", "HardwareEarlyWarning",
                           "OperatorCloseOut", "PoolCloseOut",
                           "NoPendingObjectFits"}
    /\ None \notin Sessions
    /\ None \notin Editions
    /\ BlockCounts \subseteq Nat
    /\ RecordCounts \subseteq Nat
    /\ TailBlocks \subseteq Nat
    /\ MaxTailFiles \in Nat
    /\ MaxLba \in Nat
    /\ MaxTotal \in Nat
    /\ MaxClosed \in Nat

VARIABLES
    initialized,       \* a group has closed: tape_uuid is known
    files,             \* file rows of the closed groups, by tape file number
    media,             \* the summary's media boundary (see MediaType)
    provenance,        \* of the check over the uncovered range
    seal_due,          \* outstanding seal obligation
    sealed,
    open_session,
    last_session_end,
    last_media_commit, \* the last closing record that proved a media barrier
    last_ordinary,     \* boundary of the last ordinary commit
    last_closeout,     \* boundary of a closeout after that commit
    finalization,      \* terminal plan and its progress
    closed,            \* closing records so far
    pending,           \* the group being built
    poisoned

summary == <<initialized, files, media, provenance, seal_due, sealed,
             open_session, last_session_end, last_media_commit, last_ordinary,
             last_closeout, finalization, closed>>
vars == <<summary, pending, poisoned>>

--------------------------------------------------------------------------------
(* Values *)

Kinds == {"Bootstrap", "Object", "ParitySidecar", "ParityMap",
          "TapeIndexReplica", "IndexSeparationExtent"}

(* A file row.  An Object owns the data ordinals first..end-1 and names     *)
(* the session of its commit; a sidecar protects first..end-1 as one epoch. *)
(* at is the closing record that published the row (0 while provisional).   *)
RowType == [kind: Kinds, blocks: Nat, lba: Nat, first: Nat, end: Nat,
            epoch: Nat, session: Sessions \cup {None}, at: Nat]

(* Where an uncovered ordinal lies, and the commit that published it. *)
PlaceType == [file: Nat, lba: Nat, at: Nat]

EmptyFn == [n \in {} |-> 0]

(* f overridden by g. *)
Merge(f, g) == [n \in DOMAIN f \cup DOMAIN g |->
                    IF n \in DOMAIN g THEN g[n] ELSE f[n]]

Larger(a, b) == IF a >= b THEN a ELSE b

NoTail == [count |-> 0, possible |-> 0, synchronized |-> 0,
           unsynchronized |-> FALSE, incomplete |-> FALSE, torn |-> FALSE]

NoBoundary == [lba |-> 0, file |-> 0]

NoEnd == [session |-> None, base |-> 0, lba |-> 0, file |-> 0,
          synchronized |-> 0, possible |-> 0, eod |-> -1]

NoPlan == [trigger |-> None, edition |-> None, file |-> 0, lba |-> 0,
           replica |-> 0, separation |-> 0, rows |-> EmptyFn]

NoFinalization == [phase |-> "none", plan |-> NoPlan, prefix_written |-> FALSE,
                   components_written |-> 0, recovery_required |-> FALSE]

(* pending_copy: the boundary is copied, the old extents are not. *)
NewGroup(m) == [begun |-> FALSE, media |-> [m EXCEPT !.uncovered = EmptyFn],
                rows |-> EmptyFn, catalog |-> FALSE, directory |-> 0,
                tail |-> NoTail]

Boundary(m) == [lba |-> m.cursor, file |-> m.next_file]

HasKind(p, kind) == \E n \in DOMAIN p.rows : p.rows[n].kind = kind
HasComponent(p) == \/ HasKind(p, "TapeIndexReplica")
                   \/ HasKind(p, "IndexSeparationExtent")
RowCount(p) == p.media.next_file - media.next_file

(* Drop the ordinals below lower. *)
trim(uncovered, lower) ==
    [o \in {x \in DOMAIN uncovered : x >= lower} |-> uncovered[o]]

(* Mutant: the last two components are exchanged. *)
ComponentKindExchanged(k) ==
    IF k \in {0, 2, 3} THEN "TapeIndexReplica" ELSE "IndexSeparationExtent"

(* The five terminal components: A, gap AB, B, gap BC, C. *)
ComponentKind(k) ==
    IF k \in {0, 2, 4} THEN "TapeIndexReplica" ELSE "IndexSeparationExtent"
ComponentRecords(plan, k) ==
    IF k \in {0, 2, 4} THEN plan.replica ELSE plan.separation
(* Planned start of component k; of the expected EOD for k = 5. *)
ComponentStart(plan, k) ==
    plan.lba + CASE k = 0 -> 0
                 [] k = 1 -> plan.replica + 1
                 [] k = 2 -> plan.replica + plan.separation + 2
                 [] k = 3 -> 2 * plan.replica + plan.separation + 3
                 [] k = 4 -> 2 * plan.replica + 2 * plan.separation + 4
                 [] OTHER -> 3 * plan.replica + 2 * plan.separation + 5

(* closeout_due: an uncovered range that no accepted plan owns. *)
closeout_due ==
    /\ Parity
    /\ media.protected < media.total
    /\ finalization.phase # "accepted"

(* unprotected_since: commit of the earliest uncovered ordinal, 0 for none. *)
unprotected_since ==
    IF media.protected \in DOMAIN media.uncovered
      THEN media.uncovered[media.protected].at ELSE 0

(* The session a closeout may name. *)
responsible ==
    IF open_session # None THEN open_session ELSE last_session_end.session

(* latest_report: the boundary handed to recovery as the append base. *)
latest_report ==
    IF last_ordinary = NoBoundary THEN Boundary(media)
    ELSE IF last_closeout # NoBoundary THEN last_closeout ELSE last_ordinary

--------------------------------------------------------------------------------
Init ==
    /\ initialized = FALSE
    /\ files = EmptyFn
    /\ media = [cursor |-> 0, protected |-> 0, total |-> 0, next_epoch |-> 0,
                next_file |-> 0, uncovered |-> EmptyFn]
    /\ provenance = "Empty"
    /\ seal_due = None
    /\ sealed = FALSE
    /\ open_session = None
    /\ last_session_end = NoEnd
    /\ last_media_commit = 0
    /\ last_ordinary = NoBoundary
    /\ last_closeout = NoBoundary
    /\ finalization = NoFinalization
    /\ closed = 0
    /\ pending = NewGroup(media)
    /\ poisoned = FALSE

(* Record::Initialized: only on a fresh log, as its first frame. *)
Initialized ==
    /\ ~poisoned /\ ~initialized /\ ~pending.begun
    /\ MaxLba >= 2 /\ MaxClosed >= 1
    /\ initialized' = TRUE
    /\ files' = [n \in {0} |->
                   [kind |-> "Bootstrap", blocks |-> 1, lba |-> 0, first |-> 0,
                    end |-> 0, epoch |-> 0, session |-> None, at |-> 1]]
    /\ media' = [media EXCEPT !.cursor = 2, !.next_file = 1]
    /\ last_media_commit' = 1
    /\ closed' = 1
    /\ pending' = NewGroup(media')
    /\ UNCHANGED <<provenance, seal_due, sealed, open_session, last_session_end,
                   last_ordinary, last_closeout, finalization, poisoned>>

(* Mutant: ordinary records are accepted under a plan. *)
FinalizationIgnored == TRUE
NoFinalizationYet == finalization.phase = "none"

--------------------------------------------------------------------------------
(* Continuation frames: they change the pending group only. *)

Continuation ==
    /\ ~poisoned /\ ~sealed /\ initialized
    /\ UNCHANGED <<summary, poisoned>>

(* Mutant: positions are added without an overflow check. *)
FitsUnchecked(p, blocks) == TRUE
Fits(p, blocks) == p.media.cursor + blocks + 1 <= MaxLba

(* apply_row, common part: rows are dense, start at the cursor, follow a    *)
(* complete catalog, precede the plan directory and never follow a map.     *)
RowAdmissible(p, blocks) ==
    /\ p.tail.count = 0
    /\ p.directory = 0
    /\ ~p.catalog
    /\ ~HasKind(p, "ParityMap")
    /\ blocks > 0
    /\ Fits(p, blocks)

(* Mutant: the filemark is not counted. *)
SpanWithoutFilemark(row) == row.blocks
Span(row) == row.blocks + 1

(* The row occupies the next file at the cursor and one filemark after it. *)
PushRow(p, m, row) ==
    [p EXCEPT !.begun = TRUE,
              !.media = [m EXCEPT !.cursor = p.media.cursor + Span(row),
                                  !.next_file = p.media.next_file + 1],
              !.rows = Merge(p.rows, [n \in {p.media.next_file} |-> row])]

Row(p, kind, blocks, first, end, epoch, session) ==
    [kind |-> kind, blocks |-> blocks, lba |-> p.media.cursor, first |-> first,
     end |-> end, epoch |-> epoch, session |-> session, at |-> 0]

(* Mutant: an extent cut at lower keeps the address of the whole Object. *)
OrdinalLbaUncut(m, lower, o) == m.cursor + (o - Larger(m.total, lower))
OrdinalLba(m, lower, o) == m.cursor + (o - m.total)

(* An Object takes the next ordinals.  Of the group's extents only the last *)
(* E - 1 ordinals are kept: a group that ends further from W is refused.    *)
KeptFrom(m, end) == Larger(m.protected, end - (EpochBlocks - 1))
ObjectPlaces(m, lower, end) ==
    [o \in Larger(m.total, lower)..(end - 1) |->
        [file |-> m.next_file, lba |-> OrdinalLba(m, lower, o), at |-> 0]]
ObjectMedia(m, blocks) ==
    LET end == m.total + blocks
        lower == KeptFrom(m, end)
    IN [m EXCEPT !.total = end,
                 !.uncovered =
                    IF Parity THEN Merge(trim(@, lower), ObjectPlaces(m, lower, end))
                              ELSE @]

PushObject(blocks) ==
    /\ Continuation
    /\ RowAdmissible(pending, blocks)
    /\ pending.media.total + blocks <= MaxTotal
    /\ seal_due = None
    /\ NoFinalizationYet
    /\ LET m == pending.media
           ordinals == IF Parity THEN <<m.total, m.total + blocks>> ELSE <<0, 0>>
       IN pending' = [PushRow(pending, ObjectMedia(m, blocks),
                              Row(pending, "Object", blocks, ordinals[1],
                                  ordinals[2], 0, open_session))
                      EXCEPT !.catalog = TRUE]

(* The last catalog chunk of the Object just pushed (earlier chunks only    *)
(* feed the validator).                                                     *)
PushCatalog ==
    /\ Continuation
    /\ pending.catalog
    /\ pending' = [pending EXCEPT !.catalog = FALSE]

(* Mutant: a sidecar does not advance the epoch. *)
SidecarMediaSameEpoch(m, end) ==
    [m EXCEPT !.protected = end, !.uncovered = trim(@, end)]

(* A sidecar protects the next ordinals, from W, as the next epoch. *)
SidecarMedia(m, end) ==
    [m EXCEPT !.protected = end, !.next_epoch = @ + 1,
              !.uncovered = trim(@, end)]

SidecarCovers(m, end) ==
    /\ Parity
    /\ end > m.protected
    /\ end <= m.total
    /\ end - m.protected <= EpochBlocks

PushSidecar(blocks, end) ==
    /\ Continuation
    /\ RowAdmissible(pending, blocks)
    /\ SidecarCovers(pending.media, end)
    /\ pending' = PushRow(pending, SidecarMedia(pending.media, end),
                          Row(pending, "ParitySidecar", blocks,
                              pending.media.protected, end,
                              pending.media.next_epoch, None))

PushMap(blocks) ==
    /\ Continuation
    /\ RowAdmissible(pending, blocks)
    /\ Parity
    /\ pending' = PushRow(pending, pending.media,
                          Row(pending, "ParityMap", blocks, 0, 0, 0, None))

(* A terminal component must be the one the plan expects next. *)
PushComponent ==
    LET k == finalization.components_written
        records == ComponentRecords(finalization.plan, k)
    IN /\ Continuation
       /\ finalization.phase # "none"
       /\ k < 5
       /\ RowAdmissible(pending, records)
       /\ pending' = PushRow(pending, pending.media,
                             Row(pending, ComponentKind(k), records, 0, 0, 0,
                                 None))

(* One row of a plan's sidecar directory.  Content and length are bound at  *)
(* the plan; the model stops at the length a plan can be accepted with.     *)
PushDirectory ==
    /\ Continuation
    /\ pending.tail.count = 0
    /\ ~pending.catalog
    /\ pending.directory < pending.media.next_epoch
    /\ pending' = [pending EXCEPT !.begun = TRUE, !.directory = @ + 1]

(* Mutant: synchronized blocks are not bounded by the known ones. *)
SyncedBeyondKnown(known, synced) == TRUE
SyncedIsPrefix(known, synced) == synced <= known

(* A file an ended session left beyond the cursor: synchronized blocks are a *)
(* prefix of the known ones, and no file follows an incomplete one.          *)
TailFileShape(known, unknown, filemark, synced, synced_mark, torn) ==
    /\ SyncedIsPrefix(known, synced)
    /\ synced_mark => filemark = "Present" /\ synced = known /\ unknown = 0
    /\ pending.tail.unsynchronized => synced = 0 /\ ~synced_mark
    /\ torn => known > 0 /\ unknown = 0 /\ filemark = "Absent"
    /\ filemark = "Present" => unknown = 0 /\ known > 0

PushTailFile(known, unknown, filemark, synced, synced_mark, torn) ==
    LET t == pending.tail
        possible == t.possible + known + unknown
                      + (IF filemark = "Absent" THEN 0 ELSE 1)
    IN /\ Continuation
       /\ RowCount(pending) = 0 /\ pending.directory = 0 /\ ~pending.catalog
       /\ ~t.incomplete
       /\ open_session # None
       /\ TailFileShape(known, unknown, filemark, synced, synced_mark, torn)
       /\ t.count < MaxTailFiles
       /\ possible <= MaxLba
       /\ media.next_file + t.count <= MaxLba
       /\ pending' =
            [pending EXCEPT
               !.begun = TRUE,
               !.tail = [count |-> t.count + 1,
                         possible |-> possible,
                         synchronized |->
                           IF synced > 0 \/ synced_mark
                             THEN t.possible + synced
                                    + (IF synced_mark THEN 1 ELSE 0)
                             ELSE t.synchronized,
                         unsynchronized |-> t.unsynchronized \/ ~synced_mark,
                         incomplete |-> filemark # "Present",
                         torn |-> t.torn \/ torn]]

--------------------------------------------------------------------------------
(* Closing records. *)

Closer ==
    /\ ~poisoned /\ ~sealed /\ initialized
    /\ ~pending.catalog
    /\ closed < MaxClosed
    /\ closed' = closed + 1
    /\ UNCHANGED <<initialized, poisoned>>

(* The closing record publishes no media boundary. *)
MetadataOnly ==
    /\ pending' = NewGroup(media)
    /\ UNCHANGED <<files, media, provenance, seal_due, last_media_commit,
                   last_ordinary, last_closeout>>

RequireEmpty == ~pending.begun

(* Mutant: the commit is not stamped on what it publishes. *)
Unstamped(f) == f

(* A closing record's rows, stamped with the record that publishes them. *)
Stamped(f) == [n \in DOMAIN f |-> [f[n] EXCEPT !.at = closed + 1]]

(* publish_media: what is left of the old extents, then the group's own. *)
publish_media ==
    /\ files' = Merge(files, Stamped(pending.rows))
    /\ media' = [pending.media EXCEPT
                   !.uncovered = Merge(trim(media.uncovered,
                                            pending.media.protected),
                                       Stamped(pending.media.uncovered))]
    /\ last_media_commit' = closed + 1
    /\ pending' = NewGroup(media')

(* check_commit: what an ordinary or terminal commit claims must be what    *)
(* the group's rows amount to.                                              *)
UncoveredWithinEpoch(m) ==
    /\ m.protected <= m.total
    /\ Parity => m.total - m.protected < EpochBlocks
    /\ ~Parity => m.protected = 0 /\ m.uncovered = EmptyFn

NewExtentsPresent(m) ==
    LET kept == DOMAIN trim(m.uncovered, m.protected)
        front == Larger(m.protected, media.total)
    IN Parity /\ m.total > m.protected /\ m.total > media.total =>
         /\ front \in kept
         /\ (m.total - 1) \in kept
         /\ kept \subseteq front..(m.total - 1)

SealKept(due) == seal_due # None => due = seal_due

check_commit(due) ==
    /\ UncoveredWithinEpoch(pending.media)
    /\ NewExtentsPresent(pending.media)
    /\ due # "OperatorCloseOut"
    /\ SealKept(due)
    /\ provenance' = IF Parity /\ pending.media.total > pending.media.protected
                       THEN "OriginalWrite" ELSE "Empty"
    /\ seal_due' = due

(* Mutant: a session opens over unprotected data. *)
DebtIgnored == TRUE
NoDebt == Parity => media.protected = media.total

SessionOpened(s) ==
    /\ Closer
    /\ RequireEmpty
    /\ open_session = None
    /\ NoFinalizationYet
    /\ NoDebt
    /\ open_session' = s
    /\ last_session_end' = NoEnd
    /\ MetadataOnly
    /\ UNCHANGED <<sealed, finalization>>

SessionEnded(crash_recovered) ==
    /\ Closer
    /\ open_session # None
    /\ RowCount(pending) = 0 /\ pending.directory = 0
    /\ pending.tail.torn => crash_recovered
    /\ open_session' = None
    /\ last_session_end' =
         [session |-> open_session, base |-> last_media_commit,
          lba |-> media.cursor, file |-> media.next_file,
          synchronized |-> pending.tail.synchronized,
          possible |-> pending.tail.possible, eod |-> -1]
    /\ MetadataOnly
    /\ UNCHANGED <<sealed, finalization>>

(* SessionEnded with a proved EOD: the same ending at the same boundary,    *)
(* refined once.                                                            *)
SessionTailEod(eod) ==
    LET end == last_session_end
    IN /\ Closer
       /\ RequireEmpty
       /\ end.session # None
       /\ open_session = None
       /\ end.base = last_media_commit
       /\ end.lba = media.cursor /\ end.file = media.next_file
       /\ end.eod # -1 => end.eod = eod
       /\ eod >= end.lba + end.synchronized
       /\ eod <= end.lba + end.possible
       /\ last_session_end' = [end EXCEPT !.eod = eod]
       /\ MetadataOnly
       /\ UNCHANGED <<open_session, sealed, finalization>>

(* ClosedOut: exactly one sidecar covers all of [W, T), which was checked   *)
(* as it was written.                                                       *)
ClosedOut ==
    /\ Closer
    /\ pending.tail.count = 0
    /\ NoFinalizationYet
    /\ Parity
    /\ media.protected # media.total
    /\ provenance = "OriginalWrite"
    /\ RowCount(pending) = 1
    /\ ~HasKind(pending, "Object") /\ ~HasKind(pending, "ParityMap")
    /\ ~HasComponent(pending)
    /\ pending.directory = 0
    /\ pending.media.protected = media.total
    /\ pending.media.total = media.total
    /\ pending.rows[media.next_file].blocks
         = SidecarExtent[media.total - media.protected]
    /\ publish_media
    /\ provenance' = "Empty"
    /\ last_session_end' = NoEnd
    /\ last_closeout' = Boundary(pending.media)
    /\ UNCHANGED <<seal_due, sealed, open_session, last_ordinary, finalization>>

(* Mutant: a commit keeps the boundary of an earlier closeout. *)
ReportKeepsCloseout ==
    /\ last_ordinary' = Boundary(pending.media)
    /\ UNCHANGED last_closeout
ReportCommit ==
    /\ last_ordinary' = Boundary(pending.media)
    /\ last_closeout' = NoBoundary

(* Committed: an ordinary checkpoint, owned by the open session. *)
Committed(due) ==
    /\ Closer
    /\ pending.tail.count = 0
    /\ NoFinalizationYet
    /\ ~HasKind(pending, "ParityMap") /\ ~HasComponent(pending)
    /\ pending.directory = 0
    /\ HasKind(pending, "Object") => open_session # None
    /\ check_commit(due)
    /\ publish_media
    /\ ReportCommit
    /\ UNCHANGED <<sealed, open_session, last_session_end, finalization>>

AcceptedPlan == finalization.phase = "accepted"

(* TerminalPrefix: the planned sidecars and map, exactly as planned. *)
TerminalPrefix(due) ==
    /\ Closer
    /\ pending.tail.count = 0
    /\ AcceptedPlan
    /\ ~finalization.prefix_written
    /\ finalization.components_written = 0
    /\ pending.directory = 0
    /\ pending.rows = finalization.plan.rows
    /\ pending.media.cursor = ComponentStart(finalization.plan, 0)
    /\ check_commit(due)
    /\ publish_media
    /\ finalization' = [finalization EXCEPT !.prefix_written = TRUE]
    /\ UNCHANGED <<sealed, open_session, last_session_end, last_ordinary,
                   last_closeout>>

(* ComponentWritten: the next component, where the plan put it. *)
ComponentWritten(due) ==
    LET k == finalization.components_written
        plan == finalization.plan
    IN /\ Closer
       /\ pending.tail.count = 0
       /\ AcceptedPlan
       /\ finalization.prefix_written
       /\ k < 5
       /\ RowCount(pending) = 1
       /\ HasComponent(pending)
       /\ pending.directory = 0
       /\ media.next_file = plan.file + k
       /\ media.cursor = ComponentStart(plan, k)
       /\ pending.media.cursor
            = ComponentStart(plan, k) + ComponentRecords(plan, k) + 1
       /\ check_commit(due)
       /\ provenance' = provenance
       /\ publish_media
       /\ finalization' = [finalization EXCEPT !.components_written = @ + 1,
                                               !.recovery_required = FALSE]
       /\ UNCHANGED <<sealed, open_session, last_session_end, last_ordinary,
                      last_closeout>>

(* validate_plan: the terminal layout starts where the prefix ends, the     *)
(* prefix completes the protection, and the directory lists every sidecar.  *)
validate_plan(plan, prepared) ==
    /\ plan.replica >= 2 /\ plan.separation >= 2
    /\ ComponentStart(plan, 5) <= MaxLba
    /\ Parity => pending.media.protected = pending.media.total
    /\ prepared => plan.trigger = "OperatorCloseOut"
    /\ seal_due # None /\ plan.trigger # "OperatorCloseOut"
         => plan.trigger = seal_due
    /\ HasKind(pending, "ParityMap") <=> pending.directory > 0
    /\ pending.directory = pending.media.next_epoch

(* The plan a group states: its layout follows from where its prefix ends. *)
PlanOf(trigger, edition, replica, separation) ==
    [trigger |-> trigger, edition |-> edition, file |-> pending.media.next_file,
     lba |-> pending.media.cursor, replica |-> replica,
     separation |-> separation, rows |-> pending.rows]

(* Mutant: an accepted plan may be replaced. *)
SupersedesAny(prepared, plan) == finalization.phase # "none" => ~prepared
Supersedes(prepared, plan) ==
    finalization.phase # "none" =>
      /\ finalization.phase = "prepared"
      /\ ~prepared
      /\ finalization.plan = plan

(* FinalizationDecided and FinalizationPrepared: the group's rows are the   *)
(* planned prefix and are not published.  A plan replaces only an identical *)
(* preparation.                                                             *)
Plan(prepared, plan) ==
    /\ Closer
    /\ pending.tail.count = 0
    /\ ~HasKind(pending, "Object") /\ ~HasComponent(pending)
    /\ validate_plan(plan, prepared)
    /\ Supersedes(prepared, plan)
    /\ finalization' = [phase |-> IF prepared THEN "prepared" ELSE "accepted",
                        plan |-> plan,
                        prefix_written |-> RowCount(pending) = 0,
                        components_written |-> 0,
                        recovery_required |-> FALSE]
    /\ MetadataOnly
    /\ UNCHANGED <<sealed, open_session, last_session_end>>

Sealed ==
    /\ Closer
    /\ RequireEmpty
    /\ AcceptedPlan
    /\ finalization.components_written = 5
    /\ media.cursor = ComponentStart(finalization.plan, 5)
    /\ sealed' = TRUE
    /\ finalization' = [finalization EXCEPT !.recovery_required = FALSE]
    /\ MetadataOnly
    /\ UNCHANGED <<open_session, last_session_end>>

FinalizationPreparationRetired ==
    /\ Closer
    /\ RequireEmpty
    /\ finalization.phase = "prepared"
    /\ finalization' = NoFinalization
    /\ MetadataOnly
    /\ UNCHANGED <<sealed, open_session, last_session_end>>

FinalizationRecoveryRequired ==
    /\ Closer
    /\ RequireEmpty
    /\ finalization.phase # "none"
    /\ finalization' = [finalization EXCEPT !.recovery_required = TRUE]
    /\ MetadataOnly
    /\ UNCHANGED <<sealed, open_session, last_session_end>>

--------------------------------------------------------------------------------
(* Any frame that fails a check poisons the fold.  What is left of the      *)
(* group is never read again: push and finish both fail from here on.       *)
Refuse ==
    /\ poisoned' = TRUE
    /\ pending' = NewGroup(media)
    /\ UNCHANGED summary

(* The stream ends inside a group (a torn tail): finish leaves the group    *)
(* out and a later owner resumes at the closed boundary (from_validated).   *)
TornTail ==
    /\ ~poisoned
    /\ pending.begun
    /\ pending' = NewGroup(media)
    /\ UNCHANGED <<summary, poisoned>>

PushFrame ==
    \/ \E b \in BlockCounts : PushObject(b) \/ PushMap(b)
    \/ \E b \in BlockCounts, end \in 1..MaxLba : PushSidecar(b, end)
    \/ PushCatalog
    \/ PushComponent
    \/ PushDirectory
    \/ \E known, unknown, synced \in TailBlocks,
          filemark \in {"Present", "Absent", "Unknown"},
          synced_mark, torn \in BOOLEAN :
         PushTailFile(known, unknown, filemark, synced, synced_mark, torn)

CloseSession ==
    \/ \E s \in Sessions : SessionOpened(s)
    \/ \E crash_recovered \in BOOLEAN : SessionEnded(crash_recovered)
    \/ \E eod \in 0..MaxLba : SessionTailEod(eod)

CloseMedia ==
    \/ ClosedOut
    \/ \E due \in Triggers \cup {None} :
         Committed(due) \/ TerminalPrefix(due) \/ ComponentWritten(due)

CloseFinalization ==
    \/ \E prepared \in BOOLEAN, trigger \in Triggers, edition \in Editions,
          replica, separation \in RecordCounts :
         Plan(prepared, PlanOf(trigger, edition, replica, separation))
    \/ Sealed
    \/ FinalizationPreparationRetired
    \/ FinalizationRecoveryRequired

Next ==
    \/ Initialized
    \/ PushFrame
    \/ CloseSession
    \/ CloseMedia
    \/ CloseFinalization
    \/ Refuse
    \/ TornTail

Spec == Init /\ [][Next]_vars

--------------------------------------------------------------------------------
(* Properties *)

FilesBelow(k) == DOMAIN files = 0..(k - 1)

(* Every position, count and phase stays in its range: a position is a      *)
(* checked 64-bit addition.                                                  *)
TypeOK ==
    /\ initialized \in BOOLEAN /\ sealed \in BOOLEAN /\ poisoned \in BOOLEAN
    /\ \A n \in DOMAIN files : files[n] \in RowType
    /\ media.cursor \in 0..MaxLba /\ media.next_file \in 0..MaxLba
    /\ media.protected \in Nat /\ media.total \in 0..MaxTotal
    /\ media.next_epoch \in Nat
    /\ provenance \in {"Empty", "OriginalWrite"}
    /\ seal_due \in Triggers \cup {None}
    /\ open_session \in Sessions \cup {None}
    /\ closed \in 0..MaxClosed
    /\ finalization.phase \in {"none", "prepared", "accepted"}
    /\ finalization.components_written \in 0..5

(* The retained extents are exactly the uncovered range [W, T), each ordinal *)
(* at the file, block address and commit of the Object that owns it, and the *)
(* range never fills an epoch.  Closeout and recovery rebuild parity from    *)
(* these addresses, while trim, the E - 1 cut of a pending group and         *)
(* publish_media each drop part of them.                                     *)
UncoveredIsExact ==
    /\ DOMAIN media.uncovered
         = IF Parity THEN media.protected..(media.total - 1) ELSE {}
    /\ Parity /\ initialized => media.total - media.protected < EpochBlocks
    /\ \A o \in DOMAIN media.uncovered :
         LET place == media.uncovered[o]
             row == files[place.file]
         IN /\ place.file \in DOMAIN files
            /\ row.kind = "Object"
            /\ row.first <= o /\ o < row.end
            /\ place.lba = row.lba + (o - row.first)
            /\ place.at = row.at

(* Files are dense from BOT and contiguous on the medium, one filemark      *)
(* apart; the cursor and next file number are where the last one ends.      *)
DenseLayout ==
    /\ FilesBelow(media.next_file)
    /\ \A n \in DOMAIN files :
         files[n].lba + files[n].blocks + 1
           = IF n + 1 \in DOMAIN files THEN files[n + 1].lba ELSE media.cursor

(* Every ordinal below T belongs to exactly one Object, every ordinal below *)
(* W to exactly one sidecar, no ordinal at or above W to any, and sidecars  *)
(* number their epochs in file order.                                       *)
Owners(kind, o) == {n \in DOMAIN files : /\ files[n].kind = kind
                                         /\ files[n].first <= o
                                         /\ o < files[n].end}
SidecarsPartition ==
    Parity =>
      /\ \A o \in 0..(media.total - 1) :
           /\ Cardinality(Owners("Object", o)) = 1
           /\ Cardinality(Owners("ParitySidecar", o))
                = IF o < media.protected THEN 1 ELSE 0
      /\ \A n \in DOMAIN files : files[n].kind = "ParitySidecar" =>
           files[n].epoch = Cardinality({k \in 0..(n - 1) :
                                           files[k].kind = "ParitySidecar"})

(* An uncovered range has a check from the original write and an age, so a  *)
(* closeout of it can be proved and closeout_required never misses the age; *)
(* an empty range has neither.                                              *)
DebtIsClosable ==
    initialized =>
      /\ provenance = "OriginalWrite" <=> Parity /\ media.protected < media.total
      /\ closeout_due => unprotected_since > 0

(* All uncovered Objects were committed by one session, the one a closeout  *)
(* holds responsible: no session opens over another's debt.                 *)
DebtHasOneOwner ==
    \A o \in DOMAIN media.uncovered :
      /\ responsible # None
      /\ files[media.uncovered[o].file].session = responsible

(* Until its first file is published a plan starts at the boundary it was   *)
(* made for, and from then on the tape ends where the plan's next component *)
(* starts, fully protected.                                                 *)
PlanInPlace ==
    finalization.phase # "none" =>
      LET plan == finalization.plan
          k == finalization.components_written
      IN IF finalization.prefix_written
           THEN /\ media.cursor = ComponentStart(plan, k)
                /\ media.next_file = plan.file + k
                /\ Parity => media.protected = media.total
           ELSE /\ DOMAIN plan.rows = media.next_file..(plan.file - 1)
                /\ plan.rows[media.next_file].lba = media.cursor
                /\ k = 0

(* A sealed tape ends with A, gap, B, gap, C where the accepted plan put    *)
(* them, at the expected EOD, with no ordinal unprotected.                  *)
SealedTail ==
    sealed =>
      LET plan == finalization.plan
      IN /\ finalization.phase = "accepted"
         /\ media.next_file = plan.file + 5
         /\ media.cursor = ComponentStart(plan, 5)
         /\ Parity => media.protected = media.total
         /\ \A k \in {0, 2, 4} :
              /\ files[plan.file + k].kind = "TapeIndexReplica"
              /\ files[plan.file + k].blocks = plan.replica
         /\ \A k \in {1, 3} :
              /\ files[plan.file + k].kind = "IndexSeparationExtent"
              /\ files[plan.file + k].blocks = plan.separation

(* The physical evidence of an ended session stays a window: synchronized   *)
(* blocks never exceed possible ones, and a proved EOD lies between them.   *)
TailWindow ==
    /\ pending.tail.synchronized <= pending.tail.possible
    /\ LET end == last_session_end
       IN /\ end.synchronized <= end.possible
          /\ end.eod # -1 =>
               /\ end.lba + end.synchronized <= end.eod
               /\ end.eod <= end.lba + end.possible

(* Until the first file of a terminal plan is published, the report recovery *)
(* appends from is the tape's real boundary, closeouts included.             *)
ReportIsBoundary ==
    (finalization.phase = "none"
       \/ (~finalization.prefix_written /\ finalization.components_written = 0))
      => latest_report = Boundary(media)

(* The log is append-only: no step changes or drops a published row, and    *)
(* neither W, T nor the cursor ever goes back.                              *)
Appends ==
    /\ \A n \in DOMAIN files : n \in DOMAIN files' /\ files'[n] = files[n]
    /\ media'.protected >= media.protected
    /\ media'.total >= media.total
    /\ media'.cursor >= media.cursor
AppendOnly == [][Appends]_vars

(* An accepted plan is final: it is never replaced or withdrawn, its        *)
(* progress never goes back, and no Object is published under it.           *)
KeepsPlan ==
    finalization.phase = "accepted" =>
      /\ finalization'.phase = "accepted"
      /\ finalization'.plan = finalization.plan
      /\ finalization'.components_written >= finalization.components_written
      /\ finalization.prefix_written => finalization'.prefix_written
      /\ media'.total = media.total
PlanIsFinal == [][KeepsPlan]_vars

(* A preparation becomes, if anything, the accepted plan it states: same    *)
(* edition and request, same layout, same prefix.  Otherwise it is retired.  *)
BindsPreparation ==
    finalization.phase = "prepared" =>
      finalization'.phase = "none" \/ finalization'.plan = finalization.plan
PreparationIsBinding == [][BindsPreparation]_vars

(* A seal obligation is never lost or exchanged, and no Object is admitted  *)
(* while it stands.                                                         *)
KeepsSealDue ==
    seal_due # None => seal_due' = seal_due /\ media'.total = media.total
SealDueIsSticky == [][KeepsSealDue]_vars

================================================================================
