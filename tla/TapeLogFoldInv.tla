---------------------------- MODULE TapeLogFoldInv ----------------------------
(***************************************************************************)
(* The inductive invariant of TapeLogFold.  SummaryInv speaks of what the  *)
(* closed groups established; GroupInv says how the pending group extends  *)
(* it: its rows continue the published ones, and its extents are the       *)
(* newest ordinals of its own Objects.                                     *)
(***************************************************************************)
EXTENDS TapeLogFold

MediaFields == {"cursor", "protected", "total", "next_epoch", "next_file",
                "uncovered"}
GroupFields == {"begun", "media", "rows", "catalog", "directory", "tail"}

MediaTyped(m) ==
    /\ DOMAIN m = MediaFields
    /\ m.cursor \in 0..MaxLba
    /\ m.protected \in Nat
    /\ m.total \in 0..MaxTotal
    /\ m.next_epoch \in Nat
    /\ m.next_file \in Nat
    /\ m.next_file <= m.cursor
    /\ \A o \in DOMAIN m.uncovered : m.uncovered[o] \in PlaceType

(* Rows lo..hi-1 lie end to end, one filemark apart, from start to stop. *)
Contiguous(rows, lo, hi, start, stop) ==
    /\ DOMAIN rows = lo..(hi - 1)
    /\ lo <= hi
    /\ lo = hi => start = stop
    /\ lo < hi => rows[lo].lba = start
    /\ \A n \in lo..(hi - 1) :
         rows[n].lba + rows[n].blocks + 1
           = IF n + 1 < hi THEN rows[n + 1].lba ELSE stop

(* Ordinal o is where its Object's row says. *)
Placed(rows, place, o) ==
    /\ place.file \in DOMAIN rows
    /\ rows[place.file].kind = "Object"
    /\ rows[place.file].first <= o /\ o < rows[place.file].end
    /\ place.lba = rows[place.file].lba + (o - rows[place.file].first)
    /\ place.at = rows[place.file].at

(* A group of rows that starts with W = from leaves W = to: the end of its  *)
(* last sidecar.                                                            *)
NoneOf(rows, kind) == \A n \in DOMAIN rows : rows[n].kind # kind
Covers(rows, from, to) ==
    \/ NoneOf(rows, "ParitySidecar") /\ to = from
    \/ \E n \in DOMAIN rows :
         /\ rows[n].kind = "ParitySidecar" /\ rows[n].end = to
         /\ \A k \in DOMAIN rows : rows[k].kind = "ParitySidecar" => k <= n

--------------------------------------------------------------------------------
(* The summary. *)

FinalizationTyped ==
    /\ DOMAIN finalization = {"phase", "plan", "prefix_written",
                              "components_written", "recovery_required"}
    /\ finalization.phase \in {"none", "prepared", "accepted"}
    /\ finalization.prefix_written \in BOOLEAN
    /\ finalization.components_written \in 0..5
    /\ finalization.plan.file \in Nat
    /\ finalization.plan.lba \in Nat
    /\ finalization.plan.replica \in Nat
    /\ finalization.plan.separation \in Nat

(* An ending's window, and the EOD proved inside it. *)
EndTyped(end) ==
    /\ DOMAIN end = {"session", "base", "lba", "file", "synchronized",
                     "possible", "eod"}
    /\ end.lba \in Nat /\ end.synchronized \in Nat /\ end.possible \in Nat
    /\ end.synchronized <= end.possible
    /\ end.eod # -1 => /\ end.lba + end.synchronized <= end.eod
                       /\ end.eod <= end.lba + end.possible

ScalarsTyped ==
    /\ initialized \in BOOLEAN /\ sealed \in BOOLEAN /\ poisoned \in BOOLEAN
    /\ provenance \in {"Empty", "OriginalWrite"}
    /\ seal_due \in Triggers \cup {None}
    /\ open_session \in Sessions \cup {None}
    /\ EndTyped(last_session_end)
    /\ closed \in 0..MaxClosed

FilesInv ==
    /\ \A n \in DOMAIN files : files[n] \in RowType
    /\ Contiguous(files, 0, media.next_file, 0, media.cursor)

(* Before Initialized there is nothing. *)
FreshInv ==
    ~initialized =>
      /\ media.cursor = 0 /\ media.protected = 0 /\ media.total = 0
      /\ media.next_file = 0 /\ media.uncovered = EmptyFn
      /\ ~pending.begun
      /\ provenance = "Empty"
      /\ finalization.phase = "none" /\ ~sealed

UncoveredInv ==
    /\ Parity => /\ media.protected <= media.total
                 /\ media.total - media.protected < EpochBlocks
                 /\ DOMAIN media.uncovered = media.protected..(media.total - 1)
    /\ ~Parity => media.protected = 0 /\ DOMAIN media.uncovered = {}
    /\ \A o \in DOMAIN media.uncovered : Placed(files, media.uncovered[o], o)

DebtInv ==
    /\ provenance = "OriginalWrite" <=> Parity /\ media.protected < media.total
    /\ \A o \in DOMAIN media.uncovered : media.uncovered[o].at > 0

OwnerInv ==
    \A o \in DOMAIN media.uncovered :
      /\ responsible # None
      /\ files[media.uncovered[o].file].session = responsible

(* A plan's prefix starts at the boundary and, once it is written, the       *)
(* components follow it one by one.                                          *)
PrefixPlanned ==
    LET plan == finalization.plan
    IN /\ finalization.components_written = 0
       /\ Contiguous(plan.rows, media.next_file, plan.file,
                     media.cursor, plan.lba)
       /\ media.next_file < plan.file
       /\ Parity => Covers(plan.rows, media.protected, media.total)
       /\ NoneOf(plan.rows, "Object")

TailStarted ==
    LET plan == finalization.plan
        k == finalization.components_written
    IN /\ media.cursor = ComponentStart(plan, k)
       /\ media.next_file = plan.file + k
       /\ Parity => media.protected = media.total
       /\ \A j \in 0..(k - 1) :
            /\ files[plan.file + j].kind = ComponentKind(j)
            /\ files[plan.file + j].blocks = ComponentRecords(plan, j)

PlanInv ==
    finalization.phase # "none" =>
      /\ ~finalization.prefix_written => PrefixPlanned
      /\ finalization.prefix_written => TailStarted

SealInv ==
    sealed => /\ finalization.phase = "accepted"
              /\ finalization.prefix_written
              /\ finalization.components_written = 5

SummaryInv ==
    /\ ScalarsTyped /\ FinalizationTyped /\ MediaTyped(media)
    /\ FilesInv /\ UncoveredInv /\ DebtInv /\ OwnerInv /\ PlanInv /\ SealInv

--------------------------------------------------------------------------------
(* The pending group. *)

GroupTyped ==
    /\ DOMAIN pending = GroupFields
    /\ pending.directory \in Nat
    /\ MediaTyped(pending.media)
    /\ \A n \in DOMAIN pending.rows : pending.rows[n] \in RowType

TailTyped ==
    /\ DOMAIN pending.tail = {"count", "possible", "synchronized",
                              "unsynchronized", "incomplete", "torn"}
    /\ pending.tail.count \in Nat
    /\ pending.tail.possible \in Nat
    /\ pending.tail.synchronized \in Nat
    /\ pending.tail.synchronized <= pending.tail.possible

GroupLayout ==
    /\ Contiguous(pending.rows, media.next_file, pending.media.next_file,
                  media.cursor, pending.media.cursor)
    /\ media.cursor <= pending.media.cursor

(* The group's extents are the newest of its own ordinals. *)
GroupUncovered ==
    LET m == pending.media
        D == DOMAIN m.uncovered
    IN /\ media.protected <= m.protected /\ media.total <= m.total
       /\ Parity => m.protected <= m.total
       /\ ~Parity => m.protected = 0 /\ m.uncovered = EmptyFn
       /\ D \subseteq Larger(m.protected, media.total)..(m.total - 1)
       /\ \A o \in D : o..(m.total - 1) \subseteq D
       /\ \A o \in D : Placed(pending.rows, m.uncovered[o], o)

GroupCovers ==
    /\ Covers(pending.rows, media.protected, pending.media.protected)
    /\ NoneOf(pending.rows, "Object") => pending.media.total = media.total

GroupKinds ==
    \A n \in DOMAIN pending.rows :
      /\ pending.rows[n].kind = "Object" =>
           pending.rows[n].session = open_session /\ seal_due = None
      /\ pending.rows[n].kind \in {"TapeIndexReplica", "IndexSeparationExtent"} =>
           /\ pending.rows[n].kind = ComponentKind(finalization.components_written)
           /\ pending.rows[n].blocks
                = ComponentRecords(finalization.plan,
                                   finalization.components_written)

GroupInv == /\ GroupTyped /\ TailTyped /\ GroupLayout /\ GroupUncovered
            /\ GroupCovers /\ GroupKinds

(* The published history and the pending group are consistent after every   *)
(* frame.                                                                    *)
IndInv == SummaryInv /\ FreshInv /\ GroupInv

================================================================================
