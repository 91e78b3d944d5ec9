--------------------------- MODULE TapeLogFoldProofs ---------------------------
(***************************************************************************)
(* Proofs about TapeLogFold for every epoch size, every set of sessions,   *)
(* editions and block counts, and every bound.                             *)
(***************************************************************************)
EXTENDS TapeLogFoldInv, FiniteSetTheorems, TLAPS

--------------------------------------------------------------------------------
(* Operators *)

(* A new group holds the boundary and nothing else. *)
LEMMA NewGroupFields ==
    ASSUME NEW m, DOMAIN m = MediaFields
    PROVE  LET q == NewGroup(m)
           IN /\ DOMAIN q = GroupFields
              /\ q.begun = FALSE /\ q.catalog = FALSE /\ q.directory = 0
              /\ q.tail = NoTail
              /\ DOMAIN q.media = MediaFields
              /\ q.media.cursor = m.cursor
              /\ q.media.next_file = m.next_file
              /\ q.media.protected = m.protected /\ q.media.total = m.total
              /\ q.media.next_epoch = m.next_epoch
              /\ q.media.uncovered = EmptyFn
              /\ q.rows = EmptyFn
BY DEF NewGroup, GroupFields, MediaFields

(* The empty map has no keys. *)
LEMMA EmptyFnDomain == DOMAIN EmptyFn = {}
BY DEF EmptyFn

(* A merged map has both domains and prefers its second argument. *)
LEMMA MergeFields ==
    ASSUME NEW f, NEW g
    PROVE  /\ DOMAIN Merge(f, g) = DOMAIN f \cup DOMAIN g
           /\ \A n \in DOMAIN g : Merge(f, g)[n] = g[n]
           /\ \A n \in DOMAIN f : n \notin DOMAIN g => Merge(f, g)[n] = f[n]
BY DEF Merge

(* An interval grows by its successor. *)
LEMMA IntervalPush ==
    ASSUME NEW a \in Nat, NEW b \in Nat, a <= b
    PROVE  /\ (a..(b - 1)) \cup {b} = a..b
           /\ b \notin a..(b - 1)
OBVIOUS

(* Adding one row to the rows of a group (apply_row) changes no other. *)
LEMMA MergeRow ==
    ASSUME NEW rows, NEW k, NEW row
    PROVE  LET r == Merge(rows, [n \in {k} |-> row])
           IN /\ DOMAIN r = DOMAIN rows \cup {k}
              /\ r[k] = row
              /\ \A n \in DOMAIN rows : n # k => r[n] = rows[n]
BY DEF Merge

(* trim (fold.rs) keeps exactly the ordinals at or above its bound. *)
LEMMA TrimFields ==
    ASSUME NEW f, NEW lower
    PROVE  /\ DOMAIN trim(f, lower) = {o \in DOMAIN f : o >= lower}
           /\ \A o \in DOMAIN trim(f, lower) : trim(f, lower)[o] = f[o]
BY DEF trim

(* One more row at the end. *)
LEMMA ContiguousPush ==
    ASSUME NEW rows, NEW lo \in Nat, NEW hi \in Nat, NEW start \in Nat,
           NEW stop \in Nat, NEW row,
           Contiguous(rows, lo, hi, start, stop),
           row.lba = stop, row.blocks \in Nat,
           \A n \in DOMAIN rows : rows[n].lba \in Nat /\ rows[n].blocks \in Nat
    PROVE  Contiguous(Merge(rows, [n \in {hi} |-> row]), lo, hi + 1, start,
                      stop + row.blocks + 1)
<1> DEFINE r == Merge(rows, [n \in {hi} |-> row])
<1>1. /\ DOMAIN r = DOMAIN rows \cup {hi}
      /\ r[hi] = row
      /\ \A n \in DOMAIN rows : n # hi => r[n] = rows[n]
  BY DEF Merge
<1> HIDE DEF r
<1>2. DOMAIN r = lo..(hi + 1 - 1)
  BY <1>1 DEF Contiguous
<1>a. DOMAIN rows = lo..(hi - 1) /\ lo <= hi
  BY DEF Contiguous
<1>b. \A n \in lo..(hi - 1) : r[n] = rows[n]
  BY <1>1, <1>a
<1>3. r[lo].lba = start
  <2>1. CASE lo = hi
    BY <1>1, <2>1 DEF Contiguous
  <2>2. CASE lo < hi
    BY <1>b, <2>2 DEF Contiguous
  <2> QED
    BY <1>a, <2>1, <2>2
<1>4. ASSUME NEW n \in lo..(hi + 1 - 1)
      PROVE  r[n].lba + r[n].blocks + 1
               = IF n + 1 < hi + 1 THEN r[n + 1].lba ELSE stop + row.blocks + 1
  <2>1. CASE n = hi
    BY <1>1, <2>1
  <2>2. CASE n + 1 = hi
    <3>1. n \in lo..(hi - 1) /\ r[n] = rows[n] /\ r[n + 1] = row
      BY <1>1, <1>b, <2>2
    <3>2. rows[n].lba + rows[n].blocks + 1 = stop
      BY <3>1, <2>2 DEF Contiguous
    <3> QED
      BY <3>1, <3>2, <2>2
  <2>3. CASE n + 1 < hi
    BY <1>b, <2>3 DEF Contiguous
  <2> QED
    BY <2>1, <2>2, <2>3
<1>5. Contiguous(r, lo, hi + 1, start, stop + row.blocks + 1)
  BY <1>2, <1>3, <1>4 DEF Contiguous
<1> QED
  BY <1>5 DEF r

(* Rows after rows. *)
LEMMA ContiguousMerge ==
    ASSUME NEW f, NEW g, NEW a \in Nat, NEW b \in Nat, NEW c \in Nat,
           NEW s, NEW t, NEW u,
           Contiguous(f, a, b, s, t), Contiguous(g, b, c, t, u)
    PROVE  Contiguous(Merge(f, g), a, c, s, u)
<1> DEFINE r == Merge(f, g)
<1>1. /\ DOMAIN r = DOMAIN f \cup DOMAIN g
      /\ \A n \in DOMAIN g : r[n] = g[n]
      /\ \A n \in DOMAIN f : n \notin DOMAIN g => r[n] = f[n]
  BY MergeFields
<1> HIDE DEF r
<1>2. DOMAIN f = a..(b - 1) /\ DOMAIN g = b..(c - 1) /\ a <= b /\ b <= c
  BY DEF Contiguous
<1>3. /\ \A n \in b..(c - 1) : r[n] = g[n]
      /\ \A n \in a..(b - 1) : r[n] = f[n]
  BY <1>1, <1>2
<1>4. DOMAIN r = a..(c - 1)
  BY <1>1, <1>2
<1>5. (a = c => s = u) /\ (a < c => r[a].lba = s)
  BY <1>3, <1>2 DEF Contiguous
<1>6. ASSUME NEW n \in a..(c - 1)
      PROVE  r[n].lba + r[n].blocks + 1
               = IF n + 1 < c THEN r[n + 1].lba ELSE u
  <2>1. CASE n >= b
    BY <1>3, <1>2, <2>1 DEF Contiguous
  <2>2. CASE n + 1 < b
    BY <1>3, <1>2, <2>2 DEF Contiguous
  <2>3. CASE n + 1 = b
    BY <1>3, <1>2, <2>3 DEF Contiguous
  <2> QED
    BY <1>2, <2>1, <2>2, <2>3
<1>7. Contiguous(r, a, c, s, u)
  BY <1>2, <1>4, <1>5, <1>6 DEF Contiguous
<1> QED
  BY <1>7 DEF r

(* Stamping changes nothing but the commit. *)
LEMMA StampedFields ==
    ASSUME NEW rows, \A n \in DOMAIN rows : rows[n] \in RowType, closed \in Nat
    PROVE  /\ DOMAIN Stamped(rows) = DOMAIN rows
           /\ \A n \in DOMAIN rows :
                /\ Stamped(rows)[n] \in RowType
                /\ Stamped(rows)[n].kind = rows[n].kind
                /\ Stamped(rows)[n].blocks = rows[n].blocks
                /\ Stamped(rows)[n].lba = rows[n].lba
                /\ Stamped(rows)[n].first = rows[n].first
                /\ Stamped(rows)[n].end = rows[n].end
                /\ Stamped(rows)[n].session = rows[n].session
                /\ Stamped(rows)[n].at = closed + 1
BY DEF Stamped, RowType

(* Stamping the extents of a commit changes nothing but their commit. *)
LEMMA StampedPlaces ==
    ASSUME NEW places, \A o \in DOMAIN places : places[o] \in PlaceType,
           closed \in Nat
    PROVE  /\ DOMAIN Stamped(places) = DOMAIN places
           /\ \A o \in DOMAIN places :
                /\ Stamped(places)[o] \in PlaceType
                /\ Stamped(places)[o].file = places[o].file
                /\ Stamped(places)[o].lba = places[o].lba
                /\ Stamped(places)[o].at = closed + 1
BY DEF Stamped, PlaceType

(* Stamping rows does not move them. *)
LEMMA ContiguousStamped ==
    ASSUME NEW rows, NEW a \in Nat, NEW b \in Nat, NEW s, NEW t,
           \A n \in DOMAIN rows : rows[n] \in RowType, closed \in Nat,
           Contiguous(rows, a, b, s, t)
    PROVE  Contiguous(Stamped(rows), a, b, s, t)
<1> DEFINE r == Stamped(rows)
<1>1. /\ DOMAIN r = DOMAIN rows
      /\ \A n \in DOMAIN rows : r[n].lba = rows[n].lba
                                /\ r[n].blocks = rows[n].blocks
  BY StampedFields
<1> HIDE DEF r
<1>2. DOMAIN rows = a..(b - 1)
  BY DEF Contiguous
<1>3. ASSUME NEW n \in a..(b - 1)
      PROVE  r[n].lba + r[n].blocks + 1
               = IF n + 1 < b THEN r[n + 1].lba ELSE t
  <2>1. rows[n].lba + rows[n].blocks + 1
          = IF n + 1 < b THEN rows[n + 1].lba ELSE t
    BY DEF Contiguous
  <2>2. r[n].lba = rows[n].lba /\ r[n].blocks = rows[n].blocks
    BY <1>1, <1>2
  <2>3. n + 1 < b => r[n + 1].lba = rows[n + 1].lba
    BY <1>1, <1>2
  <2> QED
    BY <2>1, <2>2, <2>3
<1>4. a < b => r[a].lba = s
  BY <1>1, <1>2 DEF Contiguous
<1>5. Contiguous(r, a, b, s, t)
  BY <1>1, <1>2, <1>3, <1>4 DEF Contiguous
<1> QED
  BY <1>5 DEF r

--------------------------------------------------------------------------------
(* Initial states *)

(* A group that has not begun extends any summary. *)
LEMMA NewGroupInv ==
    ASSUME MediaTyped(media)',
           media'.protected <= media'.total \/ ~Parity,
           ~Parity => media'.protected = 0,
           pending' = NewGroup(media')
    PROVE  GroupInv' /\ ~pending'.begun
<1> USE EmptyFnDomain
<1>1. DOMAIN media' = MediaFields /\ media'.cursor \in Nat
      /\ media'.next_file \in Nat /\ media'.protected \in Nat
      /\ media'.total \in Nat
  BY ConstantsAssumption DEF MediaTyped
<1>2. /\ DOMAIN pending' = GroupFields
      /\ pending'.begun = FALSE /\ pending'.directory = 0
      /\ pending'.tail = NoTail
      /\ DOMAIN pending'.media = MediaFields
      /\ pending'.media.cursor = media'.cursor
      /\ pending'.media.next_file = media'.next_file
      /\ pending'.media.protected = media'.protected
      /\ pending'.media.total = media'.total
      /\ pending'.media.next_epoch = media'.next_epoch
      /\ pending'.media.uncovered = EmptyFn
      /\ pending'.rows = EmptyFn
  BY <1>1, NewGroupFields
<1>3. MediaTyped(pending.media)'
  BY <1>2 DEF MediaTyped
<1>4. GroupTyped'
  BY <1>2, <1>3 DEF GroupTyped
<1>5. TailTyped'
  BY <1>2 DEF TailTyped, NoTail
<1>6. GroupLayout'
  <2>1. media'.next_file..(media'.next_file - 1) = {}
    BY <1>1
  <2> QED
    BY <1>1, <1>2, <2>1 DEF GroupLayout, Contiguous
<1>7. GroupUncovered'
  BY <1>1, <1>2 DEF GroupUncovered
<1>8. GroupCovers' /\ GroupKinds'
  BY <1>2 DEF GroupCovers, GroupKinds, Covers, NoneOf
<1> QED
  BY <1>2, <1>4, <1>5, <1>6, <1>7, <1>8 DEF GroupInv

(* A fresh summary (TapeSummary::default) satisfies the invariant. *)
THEOREM InitInv == Init => IndInv
<1> SUFFICES ASSUME Init PROVE IndInv
  OBVIOUS
<1> USE ConstantsAssumption, EmptyFnDomain
<1>1. /\ DOMAIN media = MediaFields
      /\ media.cursor = 0 /\ media.protected = 0 /\ media.total = 0
      /\ media.next_epoch = 0 /\ media.next_file = 0
      /\ media.uncovered = EmptyFn /\ files = EmptyFn
  BY DEF Init, MediaFields
<1>2. /\ DOMAIN pending = GroupFields
      /\ pending.begun = FALSE /\ pending.catalog = FALSE
      /\ pending.directory = 0 /\ pending.tail = NoTail
      /\ DOMAIN pending.media = MediaFields
      /\ pending.media.cursor = 0 /\ pending.media.protected = 0
      /\ pending.media.total = 0 /\ pending.media.next_epoch = 0
      /\ pending.media.next_file = 0 /\ pending.media.uncovered = EmptyFn
      /\ pending.rows = EmptyFn
  BY <1>1, NewGroupFields DEF Init
<1>3. 0..(0 - 1) = {}
  OBVIOUS
<1>4. MediaTyped(media) /\ MediaTyped(pending.media)
  BY <1>1, <1>2 DEF MediaTyped
<1>5. SummaryInv
  <2>1. ScalarsTyped
    <3>1. initialized \in BOOLEAN /\ sealed \in BOOLEAN /\ poisoned \in BOOLEAN
      BY DEF Init
    <3>2. provenance \in {"Empty", "OriginalWrite"}
      BY DEF Init
    <3>3. seal_due \in Triggers \cup {None} /\ open_session \in Sessions \cup {None}
      BY DEF Init
    <3>4. closed \in 0..MaxClosed
      BY DEF Init
    <3>5. EndTyped(last_session_end)
      BY DEF Init, EndTyped, NoEnd
    <3> QED
      BY <3>1, <3>2, <3>3, <3>4, <3>5 DEF ScalarsTyped
  <2>2. FinalizationTyped
    BY DEF Init, FinalizationTyped, NoFinalization, NoPlan
  <2>3. FilesInv
    BY <1>1, <1>3 DEF FilesInv, Contiguous
  <2>4. UncoveredInv
    BY <1>1, <1>3 DEF UncoveredInv, Parity
  <2>5. DebtInv /\ OwnerInv
    BY <1>1 DEF Init, DebtInv, OwnerInv
  <2>6. PlanInv /\ SealInv
    BY DEF Init, PlanInv, SealInv, NoFinalization
  <2> QED
    BY <1>4, <2>1, <2>2, <2>3, <2>4, <2>5, <2>6 DEF SummaryInv
<1>6. FreshInv
  BY <1>1, <1>2 DEF Init, FreshInv, NoFinalization
<1>7. GroupInv
  <2>1. GroupTyped
    BY <1>2, <1>4 DEF GroupTyped
  <2>2. TailTyped
    BY <1>2 DEF TailTyped, NoTail
  <2>3. GroupLayout
    BY <1>1, <1>2, <1>3 DEF GroupLayout, Contiguous
  <2>4. GroupUncovered
    BY <1>1, <1>2 DEF GroupUncovered
  <2>5. GroupCovers /\ GroupKinds
    BY <1>1, <1>2 DEF GroupCovers, GroupKinds, Covers, NoneOf
  <2> QED
    BY <2>1, <2>2, <2>3, <2>4, <2>5 DEF GroupInv
<1> QED
  BY <1>5, <1>6, <1>7 DEF IndInv

--------------------------------------------------------------------------------
(* Continuation frames *)

(* A frame that leaves the summary alone leaves its invariant alone. *)
LEMMA SummaryKept ==
    ASSUME SummaryInv, UNCHANGED summary, poisoned' \in BOOLEAN
    PROVE  SummaryInv'
<1> USE DEF summary
<1>1. ScalarsTyped'
  BY DEF SummaryInv, ScalarsTyped, EndTyped
<1>2. FinalizationTyped' /\ MediaTyped(media)'
  BY DEF SummaryInv, FinalizationTyped, MediaTyped
<1>3. FilesInv'
  BY DEF SummaryInv, FilesInv, Contiguous
<1>4. UncoveredInv' /\ DebtInv'
  BY DEF SummaryInv, UncoveredInv, DebtInv, Placed
<1>5. OwnerInv'
  BY DEF SummaryInv, OwnerInv, responsible
<1>6. PlanInv' /\ SealInv'
  BY DEF SummaryInv, PlanInv, SealInv, PrefixPlanned, TailStarted
<1> QED
  BY <1>1, <1>2, <1>3, <1>4, <1>5, <1>6 DEF SummaryInv

(* The group after one more row. *)
RowEffect(m, row) ==
    /\ DOMAIN pending' = GroupFields
    /\ pending'.begun = TRUE
    /\ pending'.directory = pending.directory
    /\ pending'.tail = pending.tail
    /\ DOMAIN pending'.media = MediaFields
    /\ pending'.media.cursor = pending.media.cursor + row.blocks + 1
    /\ pending'.media.next_file = pending.media.next_file + 1
    /\ pending'.media.protected = m.protected
    /\ pending'.media.total = m.total
    /\ pending'.media.next_epoch = m.next_epoch
    /\ pending'.media.uncovered = m.uncovered
    /\ pending'.rows = Merge(pending.rows,
                             [n \in {pending.media.next_file} |-> row])

(* A row that fits the medium leaves the next file number below the cursor. *)
LEMMA NextRowFits ==
    ASSUME NEW a \in Nat, NEW b \in Nat, NEW c \in Nat, b <= a,
           a + c + 1 <= MaxLba, MaxLba \in Nat
    PROVE  /\ a + c + 1 \in 0..MaxLba
           /\ b + 1 \in Nat
           /\ b + 1 <= a + c + 1
OBVIOUS

(* A row pushed by apply_row keeps the group's types, tail and layout. *)
LEMMA RowStep ==
    ASSUME SummaryInv, GroupInv, UNCHANGED summary,
           NEW m, NEW row, RowEffect(m, row),
           row \in RowType, row.lba = pending.media.cursor,
           pending.media.cursor + row.blocks + 1 <= MaxLba,
           m.protected \in Nat, m.total \in 0..MaxTotal, m.next_epoch \in Nat,
           \A o \in DOMAIN m.uncovered : m.uncovered[o] \in PlaceType
    PROVE  /\ GroupTyped' /\ TailTyped' /\ GroupLayout'
           /\ DOMAIN pending.rows
                = media.next_file..(pending.media.next_file - 1)
           /\ DOMAIN pending'.rows
                = media.next_file..pending.media.next_file
           /\ pending'.rows[pending.media.next_file] = row
           /\ \A n \in DOMAIN pending.rows : pending'.rows[n] = pending.rows[n]
<1> USE ConstantsAssumption
<1>1. /\ media.next_file \in Nat /\ media.cursor \in Nat
      /\ pending.media.next_file \in Nat /\ pending.media.cursor \in Nat
      /\ pending.media.next_file <= pending.media.cursor
      /\ row.blocks \in Nat /\ row.lba \in Nat
      /\ \A n \in DOMAIN pending.rows : pending.rows[n] \in RowType
  BY DEF SummaryInv, GroupInv, GroupTyped, MediaTyped, RowType
<1>2. Contiguous(pending.rows, media.next_file, pending.media.next_file,
                 media.cursor, pending.media.cursor)
  BY DEF GroupInv, GroupLayout
<1>3. /\ DOMAIN pending.rows = media.next_file..(pending.media.next_file - 1)
      /\ media.next_file <= pending.media.next_file
  BY <1>2 DEF Contiguous
<1>4. /\ DOMAIN pending'.rows = DOMAIN pending.rows \cup {pending.media.next_file}
      /\ pending'.rows[pending.media.next_file] = row
      /\ \A n \in DOMAIN pending.rows :
           n # pending.media.next_file => pending'.rows[n] = pending.rows[n]
  <2>1. pending'.rows = Merge(pending.rows,
                              [n \in {pending.media.next_file} |-> row])
    BY DEF RowEffect
  <2> QED
    BY <2>1 DEF Merge
<1>5. /\ DOMAIN pending'.rows = media.next_file..pending.media.next_file
      /\ \A n \in DOMAIN pending.rows : pending'.rows[n] = pending.rows[n]
  <2>1. /\ media.next_file..(pending.media.next_file - 1)
             \cup {pending.media.next_file}
             = media.next_file..pending.media.next_file
        /\ pending.media.next_file
             \notin media.next_file..(pending.media.next_file - 1)
    BY <1>1, <1>3, IntervalPush
  <2> QED
    BY <1>3, <1>4, <2>1
<1>6. GroupTyped'
  <2>1. MediaTyped(pending.media)'
    <3>1. /\ pending'.media.cursor \in 0..MaxLba
          /\ pending'.media.next_file \in Nat
          /\ pending'.media.next_file <= pending'.media.cursor
      <4>1. /\ pending'.media.cursor = pending.media.cursor + row.blocks + 1
            /\ pending'.media.next_file = pending.media.next_file + 1
        BY DEF RowEffect
      <4>2. /\ pending.media.cursor + row.blocks + 1 \in 0..MaxLba
            /\ pending.media.next_file + 1 \in Nat
            /\ pending.media.next_file + 1 <= pending.media.cursor + row.blocks + 1
        BY <1>1, NextRowFits
      <4> QED
        BY <4>1, <4>2
    <3> QED
      BY <3>1 DEF MediaTyped, RowEffect
  <2>2. \A n \in DOMAIN pending'.rows : pending'.rows[n] \in RowType
    BY <1>1, <1>4, <1>5
  <2>3. pending'.directory \in Nat
    BY DEF RowEffect, GroupInv, GroupTyped
  <2> QED
    BY <2>1, <2>2, <2>3 DEF GroupTyped, RowEffect
<1>7. TailTyped'
  BY DEF GroupInv, TailTyped, RowEffect
<1>8. GroupLayout'
  <2>1. \A n \in DOMAIN pending.rows : pending.rows[n].lba \in Nat
                                        /\ pending.rows[n].blocks \in Nat
    BY <1>1 DEF RowType
  <2>2. Contiguous(Merge(pending.rows, [n \in {pending.media.next_file} |-> row]),
                   media.next_file, pending.media.next_file + 1, media.cursor,
                   pending.media.cursor + row.blocks + 1)
    BY <1>1, <1>2, <2>1, ContiguousPush
  <2>3. Contiguous(pending'.rows, media.next_file, pending'.media.next_file,
                   media.cursor, pending'.media.cursor)
    BY <2>2 DEF RowEffect
  <2>4. media.cursor <= pending.media.cursor
    BY DEF GroupInv, GroupLayout
  <2>5. pending'.media.cursor = pending.media.cursor + row.blocks + 1
    BY DEF RowEffect
  <2>6. media.cursor <= pending'.media.cursor
    BY <1>1, <2>4, <2>5
  <2> QED
    BY <2>3, <2>6 DEF GroupLayout, summary
<1> QED
  BY <1>3, <1>4, <1>5, <1>6, <1>7, <1>8

(* A published or pending placement survives rows being added. *)
LEMMA PlacedKept ==
    ASSUME NEW rows, NEW more, NEW place, NEW o, Placed(rows, place, o),
           \A n \in DOMAIN rows : n \in DOMAIN more /\ more[n] = rows[n]
    PROVE  Placed(more, place, o)
BY DEF Placed

(* A row that is no sidecar leaves the ordinals the sidecars cover alone. *)
LEMMA CoversKept ==
    ASSUME NEW rows, NEW lo \in Nat, NEW hi \in Nat, NEW more, NEW a, NEW b,
           DOMAIN rows = lo..(hi - 1), DOMAIN more = lo..hi,
           \A n \in DOMAIN rows : more[n] = rows[n],
           more[hi].kind # "ParitySidecar",
           Covers(rows, a, b)
    PROVE  Covers(more, a, b)
<1>1. \A n \in DOMAIN more : n = hi \/ n \in DOMAIN rows
  OBVIOUS
<1>2. DOMAIN rows \subseteq DOMAIN more
  OBVIOUS
<1>3. CASE NoneOf(rows, "ParitySidecar") /\ b = a
  BY <1>1, <1>3 DEF Covers, NoneOf
<1>4. CASE \E n \in DOMAIN rows :
             /\ rows[n].kind = "ParitySidecar" /\ rows[n].end = b
             /\ \A k \in DOMAIN rows : rows[k].kind = "ParitySidecar" => k <= n
  BY <1>1, <1>2, <1>4 DEF Covers
<1> QED
  BY <1>3, <1>4 DEF Covers

(* The facts about a group that every continuation needs. *)
LEMMA GroupFacts ==
    ASSUME SummaryInv, GroupInv
    PROVE  /\ DOMAIN pending = GroupFields
           /\ DOMAIN pending.media = MediaFields
           /\ pending.media.cursor \in Nat /\ pending.media.protected \in Nat
           /\ pending.media.total \in Nat /\ pending.media.next_epoch \in Nat
           /\ pending.media.next_file \in Nat
           /\ media.protected \in Nat /\ media.total \in Nat
           /\ media.next_file \in Nat /\ media.cursor \in Nat
           /\ \A o \in DOMAIN pending.media.uncovered :
                pending.media.uncovered[o] \in PlaceType
BY ConstantsAssumption DEF SummaryInv, GroupInv, GroupTyped, MediaTyped

(* A row of a group is a row whatever its kind. *)
LEMMA RowTyped ==
    ASSUME NEW p, p.media.cursor \in Nat, NEW kind \in Kinds,
           NEW blocks \in Nat, NEW first \in Nat, NEW end \in Nat,
           NEW epoch \in Nat, NEW session \in Sessions \cup {None}
    PROVE  LET row == Row(p, kind, blocks, first, end, epoch, session)
           IN /\ row \in RowType
              /\ row.kind = kind /\ row.blocks = blocks
              /\ row.lba = p.media.cursor
              /\ row.first = first /\ row.end = end
              /\ row.session = session /\ row.at = 0
BY DEF Row, RowType

(* PushRow has the effect RowStep speaks of. *)
LEMMA PushEffect ==
    ASSUME SummaryInv, GroupInv, NEW m, NEW row, DOMAIN m = MediaFields,
           row \in RowType,
           \/ pending' = PushRow(pending, m, row)
           \/ pending' = [PushRow(pending, m, row) EXCEPT !.catalog = TRUE]
    PROVE  RowEffect(m, row)
<1>1. /\ row.blocks \in Int /\ pending.media.cursor \in Int
      /\ DOMAIN pending = GroupFields
  BY GroupFacts DEF RowType
<1>2. pending'.media = [m EXCEPT !.cursor = pending.media.cursor + Span(row),
                                 !.next_file = pending.media.next_file + 1]
  BY <1>1 DEF PushRow, GroupFields
<1>3. /\ DOMAIN pending'.media = MediaFields
      /\ pending'.media.cursor = pending.media.cursor + Span(row)
      /\ pending'.media.next_file = pending.media.next_file + 1
      /\ pending'.media.protected = m.protected
      /\ pending'.media.total = m.total
      /\ pending'.media.next_epoch = m.next_epoch
      /\ pending'.media.uncovered = m.uncovered
  BY <1>2 DEF MediaFields
<1>4. pending'.media.cursor = pending.media.cursor + row.blocks + 1
  BY <1>1, <1>3 DEF Span
<1>5. /\ DOMAIN pending' = GroupFields
      /\ pending'.begun = TRUE
      /\ pending'.directory = pending.directory
      /\ pending'.tail = pending.tail
      /\ pending'.rows = Merge(pending.rows,
                               [n \in {pending.media.next_file} |-> row])
  BY <1>1 DEF PushRow, GroupFields
<1> QED
  BY <1>3, <1>4, <1>5 DEF RowEffect

(* A row that is neither an Object nor a sidecar leaves the coverage alone. *)
LEMMA PlainRow ==
    ASSUME SummaryInv, GroupInv, UNCHANGED summary,
           NEW row, RowEffect(pending.media, row),
           row \in RowType, row.lba = pending.media.cursor,
           row.kind \notin {"Object", "ParitySidecar"},
           pending.media.cursor + row.blocks + 1 <= MaxLba
    PROVE  /\ GroupTyped' /\ TailTyped' /\ GroupLayout'
           /\ GroupUncovered' /\ GroupCovers'
           /\ \A n \in DOMAIN pending'.rows :
                \/ n \in DOMAIN pending.rows /\ pending'.rows[n] = pending.rows[n]
                \/ pending'.rows[n] = row
<1> USE DEF summary
<1>1. pending.media.total \in 0..MaxTotal
  BY DEF GroupInv, GroupTyped, MediaTyped
<1>2. /\ GroupTyped' /\ TailTyped' /\ GroupLayout'
      /\ DOMAIN pending.rows = media.next_file..(pending.media.next_file - 1)
      /\ DOMAIN pending'.rows = media.next_file..pending.media.next_file
      /\ pending'.rows[pending.media.next_file] = row
      /\ \A n \in DOMAIN pending.rows : pending'.rows[n] = pending.rows[n]
  BY <1>1, GroupFacts, RowStep
<1>3. /\ media.next_file \in Nat /\ pending.media.next_file \in Nat
  BY GroupFacts
<1>4. /\ DOMAIN pending.rows \subseteq DOMAIN pending'.rows
      /\ \A n \in DOMAIN pending'.rows :
           n \in DOMAIN pending.rows \/ n = pending.media.next_file
  BY <1>2, <1>3
<1>5. /\ pending'.media.protected = pending.media.protected
      /\ pending'.media.total = pending.media.total
      /\ pending'.media.uncovered = pending.media.uncovered
  BY DEF RowEffect
<1>6. \A o \in DOMAIN pending.media.uncovered :
        Placed(pending'.rows, pending.media.uncovered[o], o)
  BY <1>2, <1>4, PlacedKept DEF GroupInv, GroupUncovered
<1>7. GroupUncovered'
  BY <1>5, <1>6 DEF GroupInv, GroupUncovered
<1>8. Covers(pending'.rows, media.protected, pending.media.protected)
  BY <1>2, <1>3, CoversKept DEF GroupInv, GroupCovers
<1>9. GroupCovers'
  BY <1>2, <1>4, <1>5, <1>8 DEF GroupInv, GroupCovers, NoneOf
<1> QED
  BY <1>2, <1>4, <1>7, <1>9

(* A ParityMap row keeps the group invariant and the summary. *)
LEMMA PushMapStep ==
    ASSUME SummaryInv, GroupInv, NEW blocks \in BlockCounts, PushMap(blocks)
    PROVE  GroupInv' /\ UNCHANGED <<summary, poisoned>>
<1> DEFINE row == Row(pending, "ParityMap", blocks, 0, 0, 0, None)
<1>1. UNCHANGED summary /\ UNCHANGED poisoned
  BY DEF PushMap, Continuation
<1>a. blocks \in Nat /\ "ParityMap" \in Kinds
  BY ConstantsAssumption DEF Kinds
<1>2. /\ row \in RowType /\ row.kind = "ParityMap"
      /\ row.lba = pending.media.cursor /\ row.blocks = blocks
  BY <1>a, GroupFacts, RowTyped
<1>3. pending' = PushRow(pending, pending.media, row)
  BY DEF PushMap
<1>4. pending.media.cursor + blocks + 1 <= MaxLba
  BY DEF PushMap, RowAdmissible, Fits
<1> HIDE DEF row
<1>5. RowEffect(pending.media, row)
  BY <1>2, <1>3, GroupFacts, PushEffect
<1>6. /\ GroupTyped' /\ TailTyped' /\ GroupLayout'
      /\ GroupUncovered' /\ GroupCovers'
      /\ \A n \in DOMAIN pending'.rows :
           \/ n \in DOMAIN pending.rows /\ pending'.rows[n] = pending.rows[n]
           \/ pending'.rows[n] = row
  BY <1>1, <1>2, <1>4, <1>5, PlainRow
<1>7. GroupKinds'
  BY <1>1, <1>2, <1>6 DEF GroupInv, GroupKinds, summary
<1> QED
  BY <1>1, <1>6, <1>7 DEF GroupInv

(* A terminal component row keeps the group invariant and the summary. *)
LEMMA PushComponentStep ==
    ASSUME SummaryInv, GroupInv, PushComponent
    PROVE  GroupInv' /\ UNCHANGED <<summary, poisoned>>
<1> DEFINE k == finalization.components_written
           records == ComponentRecords(finalization.plan, k)
           row == Row(pending, ComponentKind(k), records, 0, 0, 0, None)
<1>1. UNCHANGED summary /\ UNCHANGED poisoned
  BY DEF PushComponent, Continuation
<1>2. records \in Nat
  BY DEF SummaryInv, FinalizationTyped, ComponentRecords
<1>3. /\ ComponentKind(k) \in Kinds
      /\ ComponentKind(k) \notin {"Object", "ParitySidecar"}
  BY DEF ComponentKind, Kinds
<1>4. pending.media.cursor + records + 1 <= MaxLba
  BY DEF PushComponent, RowAdmissible, Fits
<1>5. pending' = PushRow(pending, pending.media, row)
  BY DEF PushComponent
<1> HIDE DEF records, k
<1>6. /\ row \in RowType /\ row.kind = ComponentKind(k)
      /\ row.lba = pending.media.cursor /\ row.blocks = records
  BY <1>2, <1>3, GroupFacts, RowTyped
<1> HIDE DEF row
<1>7. RowEffect(pending.media, row)
  BY <1>5, <1>6, GroupFacts, PushEffect
<1>8. /\ GroupTyped' /\ TailTyped' /\ GroupLayout'
      /\ GroupUncovered' /\ GroupCovers'
      /\ \A n \in DOMAIN pending'.rows :
           \/ n \in DOMAIN pending.rows /\ pending'.rows[n] = pending.rows[n]
           \/ pending'.rows[n] = row
  BY <1>1, <1>3, <1>4, <1>6, <1>7, PlainRow
<1>9. GroupKinds'
  BY <1>1, <1>3, <1>6, <1>8 DEF GroupInv, GroupKinds, summary, k, records
<1> QED
  BY <1>1, <1>8, <1>9 DEF GroupInv

(* A sidecar drops from the group's extents what it covers. *)
LEMMA SidecarMediaFields ==
    ASSUME NEW m, NEW end, DOMAIN m = MediaFields
    PROVE  LET q == SidecarMedia(m, end)
           IN /\ DOMAIN q = MediaFields
              /\ q.protected = end /\ q.total = m.total
              /\ q.next_epoch = m.next_epoch + 1
              /\ q.uncovered = trim(m.uncovered, end)
BY DEF SidecarMedia, MediaFields

(* A sidecar row extends the covered ordinals and trims the extents below W. *)
LEMMA PushSidecarStep ==
    ASSUME SummaryInv, GroupInv, NEW blocks \in BlockCounts, NEW end \in 1..MaxLba,
           PushSidecar(blocks, end)
    PROVE  GroupInv' /\ UNCHANGED <<summary, poisoned>>
<1> DEFINE pm == pending.media
           m == SidecarMedia(pm, end)
           row == Row(pending, "ParitySidecar", blocks, pm.protected, end,
                      pm.next_epoch, None)
<1>1. UNCHANGED summary /\ UNCHANGED poisoned
  BY DEF PushSidecar, Continuation
<1>2. /\ DOMAIN pm = MediaFields
      /\ pm.protected \in Nat /\ pm.next_epoch \in Nat /\ pm.total \in Nat
      /\ pm.cursor \in Nat /\ pm.next_file \in Nat
      /\ media.protected \in Nat /\ media.total \in Nat
      /\ media.next_file \in Nat
  BY GroupFacts
<1>3. /\ blocks \in Nat /\ end \in Nat /\ "ParitySidecar" \in Kinds
      /\ None \in Sessions \cup {None}
  BY ConstantsAssumption DEF Kinds
<1>4. /\ row \in RowType /\ row.kind = "ParitySidecar"
      /\ row.lba = pm.cursor /\ row.blocks = blocks /\ row.end = end
  BY <1>2, <1>3 DEF Row, RowType
<1>5. Parity /\ end > pm.protected /\ end <= pm.total
  BY DEF PushSidecar, SidecarCovers
<1>6. pending' = PushRow(pending, m, row)
  BY DEF PushSidecar
<1>7. pm.cursor + blocks + 1 <= MaxLba
  BY DEF PushSidecar, RowAdmissible, Fits
<1>8. /\ DOMAIN m = MediaFields
      /\ m.protected = end /\ m.total = pm.total
      /\ m.next_epoch = pm.next_epoch + 1
      /\ m.uncovered = trim(pm.uncovered, end)
  BY <1>2, SidecarMediaFields
<1>9. /\ DOMAIN m.uncovered = {o \in DOMAIN pm.uncovered : o >= end}
      /\ \A o \in DOMAIN m.uncovered : m.uncovered[o] = pm.uncovered[o]
  BY <1>8 DEF trim
<1> HIDE DEF m, row
<1>10. RowEffect(m, row)
  BY <1>4, <1>6, <1>8, PushEffect
<1>11. /\ m.protected \in Nat /\ m.next_epoch \in Nat /\ m.total \in 0..MaxTotal
       /\ \A o \in DOMAIN m.uncovered : m.uncovered[o] \in PlaceType
  <2>1. m.protected \in Nat /\ m.next_epoch \in Nat
    BY <1>2, <1>3, <1>8
  <2>2. m.total \in 0..MaxTotal
    BY <1>8 DEF GroupInv, GroupTyped, MediaTyped
  <2>3. \A o \in DOMAIN m.uncovered : m.uncovered[o] \in PlaceType
    BY <1>9, GroupFacts
  <2> QED
    BY <2>1, <2>2, <2>3
<1>12. /\ GroupTyped' /\ TailTyped' /\ GroupLayout'
       /\ DOMAIN pending.rows = media.next_file..(pm.next_file - 1)
       /\ DOMAIN pending'.rows = media.next_file..pm.next_file
       /\ pending'.rows[pm.next_file] = row
       /\ \A n \in DOMAIN pending.rows : pending'.rows[n] = pending.rows[n]
  BY <1>1, <1>4, <1>7, <1>10, <1>11, RowStep
<1>13. /\ DOMAIN pending.rows \subseteq DOMAIN pending'.rows
       /\ \A n \in DOMAIN pending'.rows :
            n \in DOMAIN pending.rows \/ n = pm.next_file
       /\ \A n \in DOMAIN pending'.rows : n <= pm.next_file
       /\ pm.next_file \in DOMAIN pending'.rows
  <2>1. media.next_file <= pm.next_file
    BY DEF GroupInv, GroupLayout, Contiguous
  <2> QED
    BY <1>2, <1>12, <2>1
<1>14. /\ pending'.media.protected = end /\ pending'.media.total = pm.total
       /\ pending'.media.uncovered = m.uncovered
       /\ media' = media /\ finalization' = finalization
       /\ open_session' = open_session /\ seal_due' = seal_due
  BY <1>1, <1>8, <1>10 DEF RowEffect, summary
<1>15. GroupUncovered'
  <2> DEFINE D == DOMAIN pm.uncovered
             D2 == {o \in D : o >= end}
  <2>1. /\ media.protected <= pm.protected /\ media.total <= pm.total
        /\ D \subseteq Larger(pm.protected, media.total)..(pm.total - 1)
        /\ \A o \in D : o..(pm.total - 1) \subseteq D
        /\ \A o \in D : Placed(pending.rows, pm.uncovered[o], o)
    BY DEF GroupInv, GroupUncovered
  <2>2. /\ D2 \subseteq Larger(end, media.total)..(pm.total - 1)
        /\ \A o \in D2 : o..(pm.total - 1) \subseteq D2
    <3>1. D2 = {o \in D : o >= end}
      OBVIOUS
    <3> DEFINE W == pm.protected
               T == media.total
               Tp == pm.total
    <3> HIDE DEF D, D2, W, T, Tp
    <3>2. /\ W \in Nat /\ T \in Nat /\ Tp \in Nat
          /\ D \subseteq Larger(W, T)..(Tp - 1)
          /\ \A o \in D : o..(Tp - 1) \subseteq D
      BY <1>2, <2>1 DEF W, T, Tp
    <3>3. ASSUME NEW o \in D
          PROVE  o \in Int /\ o >= T /\ o <= Tp - 1
      BY <3>2 DEF Larger
    <3>4. ASSUME NEW o \in D2
          PROVE  o \in Larger(end, T)..(Tp - 1)
      BY <1>3, <3>1, <3>2, <3>3 DEF Larger
    <3>5. ASSUME NEW o \in D2, NEW x \in o..(Tp - 1)
          PROVE  x \in D2
      <4>1. o \in D /\ o \in Int /\ o >= end /\ x \in D
        BY <3>1, <3>2, <3>3
      <4>2. x >= end
        BY <1>3, <3>2, <4>1
      <4> QED
        BY <3>1, <4>1, <4>2
    <3> QED
      BY <3>4, <3>5 DEF T, Tp
  <2>3. \A o \in D2 : Placed(pending'.rows, m.uncovered[o], o)
    BY <1>9, <1>12, <1>13, <2>1, PlacedKept
  <2>4. media.protected <= end
    BY <1>2, <1>3, <1>5, <2>1
  <2>5. DOMAIN m.uncovered = D2
    BY <1>9
  <2> HIDE DEF D2, pm
  <2> QED
    BY <1>5, <1>14, <2>1, <2>2, <2>3, <2>4, <2>5 DEF GroupUncovered
<1>16. GroupCovers'
  <2>1. Covers(pending'.rows, media.protected, end)
    BY <1>4, <1>12, <1>13 DEF Covers
  <2>2. NoneOf(pending'.rows, "Object") => NoneOf(pending.rows, "Object")
    BY <1>12, <1>13 DEF NoneOf
  <2> QED
    BY <1>14, <2>1, <2>2 DEF GroupInv, GroupCovers
<1>17. GroupKinds'
  BY <1>4, <1>12, <1>13, <1>14 DEF GroupInv, GroupKinds
<1> QED
  BY <1>1, <1>12, <1>15, <1>16, <1>17 DEF GroupInv

(* A frame that adds no row keeps the group's rows and media. *)
LEMMA GroupKept ==
    ASSUME SummaryInv, GroupInv, UNCHANGED summary,
           DOMAIN pending' = GroupFields, pending'.media = pending.media,
           pending'.rows = pending.rows, pending'.directory \in Nat, TailTyped'
    PROVE  GroupInv'
<1>1. /\ media' = media /\ finalization' = finalization
      /\ open_session' = open_session /\ seal_due' = seal_due
  BY DEF summary
<1>2. GroupTyped' /\ GroupLayout'
  BY <1>1 DEF GroupInv, GroupTyped, GroupLayout, MediaTyped, Contiguous
<1>3. GroupUncovered'
  BY <1>1 DEF GroupInv, GroupUncovered, Placed
<1>4. GroupCovers' /\ GroupKinds'
  BY <1>1 DEF GroupInv, GroupCovers, GroupKinds, Covers, NoneOf
<1> QED
  BY <1>2, <1>3, <1>4 DEF GroupInv

(* The last catalog chunk keeps the group invariant and the summary. *)
LEMMA PushCatalogStep ==
    ASSUME SummaryInv, GroupInv, PushCatalog
    PROVE  GroupInv' /\ UNCHANGED <<summary, poisoned>>
<1>1. UNCHANGED summary /\ UNCHANGED poisoned
  BY DEF PushCatalog, Continuation
<1>2. /\ DOMAIN pending' = GroupFields /\ pending'.media = pending.media
      /\ pending'.rows = pending.rows /\ pending'.tail = pending.tail
      /\ pending'.directory = pending.directory
  BY GroupFacts DEF PushCatalog, GroupFields
<1>3. pending'.directory \in Nat /\ TailTyped'
  BY <1>2 DEF GroupInv, GroupTyped, TailTyped
<1> QED
  BY <1>1, <1>2, <1>3, GroupKept

(* A directory row keeps the group invariant and the summary. *)
LEMMA PushDirectoryStep ==
    ASSUME SummaryInv, GroupInv, PushDirectory
    PROVE  GroupInv' /\ UNCHANGED <<summary, poisoned>>
<1>1. UNCHANGED summary /\ UNCHANGED poisoned
  BY DEF PushDirectory, Continuation
<1>2. /\ DOMAIN pending' = GroupFields /\ pending'.media = pending.media
      /\ pending'.rows = pending.rows /\ pending'.tail = pending.tail
      /\ pending'.directory = pending.directory + 1
  BY GroupFacts DEF PushDirectory, GroupFields
<1>3. pending'.directory \in Nat
  BY <1>2 DEF GroupInv, GroupTyped
<1>4. TailTyped'
  BY <1>2 DEF GroupInv, TailTyped
<1> QED
  BY <1>1, <1>2, <1>3, <1>4, GroupKept

(* An abandoned tail file keeps the synchronized prefix within the possible tail. *)
LEMMA PushTailFileStep ==
    ASSUME SummaryInv, GroupInv,
           NEW known \in TailBlocks, NEW unknown \in TailBlocks, NEW filemark,
           NEW synced \in TailBlocks, NEW synced_mark \in BOOLEAN, NEW torn,
           PushTailFile(known, unknown, filemark, synced, synced_mark, torn)
    PROVE  GroupInv' /\ UNCHANGED <<summary, poisoned>>
<1> DEFINE t == pending.tail
           u == pending'.tail
           mark == IF filemark = "Absent" THEN 0 ELSE 1
<1>1. UNCHANGED summary /\ UNCHANGED poisoned
  BY DEF PushTailFile, Continuation
<1>2. /\ DOMAIN pending' = GroupFields /\ pending'.media = pending.media
      /\ pending'.rows = pending.rows
      /\ pending'.directory = pending.directory
  BY GroupFacts DEF PushTailFile, GroupFields
<1>3. /\ DOMAIN u = {"count", "possible", "synchronized",
                     "unsynchronized", "incomplete", "torn"}
      /\ u.count = t.count + 1
      /\ u.possible = t.possible + known + unknown + mark
      /\ \/ u.synchronized = t.possible + synced + (IF synced_mark THEN 1 ELSE 0)
         \/ u.synchronized = t.synchronized
  BY GroupFacts DEF PushTailFile, GroupFields
<1>4. /\ synced <= known
      /\ synced_mark => filemark = "Present"
  BY DEF PushTailFile, TailFileShape, SyncedIsPrefix
<1>5. /\ t.count \in Nat /\ t.possible \in Nat /\ t.synchronized \in Nat
      /\ t.synchronized <= t.possible
      /\ known \in Nat /\ unknown \in Nat /\ synced \in Nat
  BY ConstantsAssumption DEF GroupInv, TailTyped
<1>6. mark \in 0..1 /\ (synced_mark => mark = 1)
  BY <1>4
<1> HIDE DEF t, u, mark
<1>7. /\ u.count \in Nat /\ u.possible \in Nat /\ u.synchronized \in Nat
      /\ u.synchronized <= u.possible
  <2>1. CASE u.synchronized = t.synchronized
    BY <1>3, <1>5, <1>6, <2>1
  <2>2. CASE u.synchronized = t.possible + synced + (IF synced_mark THEN 1 ELSE 0)
    BY <1>3, <1>4, <1>5, <1>6, <2>2
  <2> QED
    BY <1>3, <2>1, <2>2
<1>8. TailTyped'
  BY <1>3, <1>7 DEF TailTyped, u
<1> QED
  BY <1>1, <1>2, <1>8, GroupKept DEF GroupInv, GroupTyped

(* An Object row places its ordinals where the row puts them; the cut at *)
(* E - 1 drops only ordinals whose group cannot commit. *)
LEMMA PushObjectStep ==
    ASSUME SummaryInv, GroupInv, NEW blocks \in BlockCounts, PushObject(blocks)
    PROVE  GroupInv' /\ UNCHANGED <<summary, poisoned>>
<1> DEFINE pm == pending.media
           m == ObjectMedia(pm, blocks)
           end == pm.total + blocks
           first == IF Parity THEN pm.total ELSE 0
           last == IF Parity THEN end ELSE 0
           row == Row(pending, "Object", blocks, first, last, 0, open_session)
           lower == KeptFrom(pm, end)
           new == Larger(pm.total, lower)..(end - 1)
           D == DOMAIN pm.uncovered
           D2 == DOMAIN m.uncovered
<1>1. UNCHANGED summary /\ UNCHANGED poisoned
  BY DEF PushObject, Continuation
<1>2. /\ DOMAIN pm = MediaFields
      /\ pm.protected \in Nat /\ pm.next_epoch \in Nat /\ pm.total \in Nat
      /\ pm.cursor \in Nat /\ pm.next_file \in Nat
      /\ media.protected \in Nat /\ media.total \in Nat
      /\ media.next_file \in Nat
  BY GroupFacts
<1>3. /\ blocks \in Nat /\ blocks > 0 /\ pm.total + blocks <= MaxTotal
      /\ pm.cursor + blocks + 1 <= MaxLba
      /\ EpochBlocks \in Nat /\ MaxTotal \in Nat /\ "Object" \in Kinds
  BY ConstantsAssumption DEF PushObject, RowAdmissible, Fits, Kinds
<1>4. open_session \in Sessions \cup {None}
  BY DEF SummaryInv, ScalarsTyped
<1>5. first \in Nat /\ last \in Nat
  BY <1>2, <1>3
<1>6. pending' = [PushRow(pending, m, row) EXCEPT !.catalog = TRUE]
  BY DEF PushObject
<1>7. /\ DOMAIN m = MediaFields
      /\ m.protected = pm.protected /\ m.total = end
      /\ m.next_epoch = pm.next_epoch
      /\ m.uncovered = IF Parity THEN Merge(trim(pm.uncovered, lower),
                                            ObjectPlaces(pm, lower, end))
                       ELSE pm.uncovered
  BY <1>2 DEF ObjectMedia, MediaFields
<1>e. end \in Nat /\ end > pm.total
  BY <1>2, <1>3
<1> HIDE DEF m, end, lower
<1>8. ~Parity => m.uncovered = pm.uncovered
  BY <1>7
<1>9. Parity => /\ D2 = {o \in D : o >= lower} \cup new
                /\ \A o \in new : m.uncovered[o] =
                     [file |-> pm.next_file, lba |-> OrdinalLba(pm, lower, o),
                      at |-> 0]
                /\ \A o \in D : o >= lower /\ o \notin new =>
                     m.uncovered[o] = pm.uncovered[o]
  BY <1>7 DEF Merge, trim, ObjectPlaces
<1>10. lower \in Int /\ lower >= pm.protected
  BY <1>2, <1>3, <1>e DEF Larger, KeptFrom, lower
<1> HIDE DEF first, last
<1>11. /\ row \in RowType /\ row.kind = "Object"
       /\ row.lba = pm.cursor /\ row.blocks = blocks
       /\ row.first = first /\ row.end = last
       /\ row.session = open_session /\ row.at = 0
  BY <1>2, <1>3, <1>4, <1>5 DEF Row, RowType
<1> HIDE DEF row
<1>12. RowEffect(m, row)
  BY <1>6, <1>7, <1>11, PushEffect
<1>13. /\ media.protected <= pm.protected /\ media.total <= pm.total
       /\ Parity => pm.protected <= pm.total
       /\ ~Parity => pm.protected = 0 /\ pm.uncovered = EmptyFn
       /\ D \subseteq Larger(pm.protected, media.total)..(pm.total - 1)
       /\ \A o \in D : o..(pm.total - 1) \subseteq D
       /\ \A o \in D : Placed(pending.rows, pm.uncovered[o], o)
       /\ \A o \in D : pm.uncovered[o] \in PlaceType
  BY GroupFacts DEF GroupInv, GroupUncovered
<1>14. \A o \in D : /\ o \in Int /\ o >= pm.protected /\ o >= media.total
                    /\ o <= pm.total - 1 /\ o \notin new
  BY <1>2, <1>e, <1>10, <1>13 DEF Larger
<1>15. \A o \in new : /\ o \in Int /\ o >= pm.total /\ o >= lower
                      /\ o <= end - 1
  BY <1>2, <1>e, <1>10 DEF Larger
<1> HIDE DEF new
<1>16. \A o \in new : /\ pm.cursor + (o - pm.total) \in Nat
                      /\ OrdinalLba(pm, lower, o) = pm.cursor + (o - pm.total)
  BY <1>2, <1>15 DEF OrdinalLba
<1>a. ASSUME Parity, NEW o \in new
      PROVE  /\ m.uncovered[o] \in PlaceType
             /\ m.uncovered[o].file = pm.next_file
             /\ m.uncovered[o].lba = pm.cursor + (o - pm.total)
             /\ m.uncovered[o].at = 0
  <2> DEFINE place == m.uncovered[o]
             lba == pm.cursor + (o - pm.total)
  <2>1. OrdinalLba(pm, lower, o) = lba /\ lba \in Nat
    BY <1>16
  <2>2. place = [file |-> pm.next_file,
                 lba |-> OrdinalLba(pm, lower, o), at |-> 0]
    BY <1>9, <1>a
  <2> HIDE DEF place, lba
  <2>3. place.file = pm.next_file /\ place.lba = lba /\ place.at = 0
        /\ place \in PlaceType
    BY <1>2, <2>1, <2>2 DEF PlaceType
  <2> QED
    BY <2>3 DEF place, lba
<1>17. \A o \in D2 : m.uncovered[o] \in PlaceType
  <2>1. CASE Parity
    <3>1. ASSUME NEW o \in new
          PROVE  m.uncovered[o] \in PlaceType
      BY <1>a, <2>1
    <3>2. ASSUME NEW o \in D, o >= lower
          PROVE  m.uncovered[o] \in PlaceType
      BY <1>9, <1>13, <1>14, <2>1, <3>2
    <3> QED
      BY <1>9, <2>1, <3>1, <3>2
  <2>2. CASE ~Parity
    BY <1>8, <1>13, <2>2
  <2> QED
    BY <2>1, <2>2
<1>18. m.protected \in Nat /\ m.next_epoch \in Nat /\ m.total \in 0..MaxTotal
  <2>1. m.protected \in Nat /\ m.next_epoch \in Nat
    BY <1>2, <1>7
  <2>2. end \in Nat /\ end <= MaxTotal
    BY <1>2, <1>3 DEF end
  <2>3. end \in 0..MaxTotal
    BY <1>3, <2>2
  <2> QED
    BY <1>7, <2>1, <2>3
<1>19. /\ GroupTyped' /\ TailTyped' /\ GroupLayout'
       /\ DOMAIN pending.rows = media.next_file..(pm.next_file - 1)
       /\ DOMAIN pending'.rows = media.next_file..pm.next_file
       /\ pending'.rows[pm.next_file] = row
       /\ \A n \in DOMAIN pending.rows : pending'.rows[n] = pending.rows[n]
  BY <1>1, <1>3, <1>11, <1>12, <1>17, <1>18, RowStep
<1>20. /\ DOMAIN pending.rows \subseteq DOMAIN pending'.rows
       /\ \A n \in DOMAIN pending'.rows :
            n \in DOMAIN pending.rows \/ n = pm.next_file
       /\ pm.next_file \in DOMAIN pending'.rows
  <2>1. media.next_file <= pm.next_file
    BY DEF GroupInv, GroupLayout, Contiguous
  <2> QED
    BY <1>2, <1>19, <2>1
<1>21. /\ pending'.media.protected = pm.protected
       /\ pending'.media.total = end
       /\ pending'.media.uncovered = m.uncovered
       /\ media' = media /\ finalization' = finalization
       /\ open_session' = open_session /\ seal_due' = seal_due
  BY <1>1, <1>7, <1>12 DEF RowEffect, summary
<1>22. GroupUncovered'
  <2>1. CASE Parity
    <3>1. D2 = {o \in D : o >= lower} \cup new
      BY <1>9, <2>1
    <3>2. ASSUME NEW o \in D2
          PROVE  o \in Larger(pm.protected, media.total)..(end - 1)
      BY <1>2, <1>e, <1>10, <1>13, <1>14, <1>15, <3>1 DEF Larger
    <3>3. ASSUME NEW o \in D2, NEW x \in o..(end - 1)
          PROVE  x \in D2
      <4>1. o \in Int /\ o >= lower /\ x \in Int /\ x >= lower
            /\ x <= end - 1
        BY <1>2, <1>e, <1>10, <1>14, <1>15, <3>1
      <4>2. CASE x >= pm.total
        <5>1. x \in new
          BY <1>2, <1>e, <1>10, <4>1, <4>2 DEF Larger, new
        <5> QED
          BY <3>1, <5>1
      <4>3. CASE x < pm.total
        <5>1. o < pm.total /\ x \in o..(pm.total - 1)
          BY <1>2, <4>1, <4>3
        <5>2. o \in D
          BY <1>2, <1>15, <3>1, <5>1
        <5>3. x \in D
          BY <1>13, <5>1, <5>2
        <5> QED
          BY <3>1, <4>1, <5>3
      <4> QED
        BY <1>2, <4>1, <4>2, <4>3
    <3>4. ASSUME NEW o \in new
          PROVE  Placed(pending'.rows, m.uncovered[o], o)
      <4>1. /\ m.uncovered[o].file = pm.next_file
            /\ m.uncovered[o].lba = pm.cursor + (o - pm.total)
            /\ m.uncovered[o].at = 0
        BY <1>a, <2>1
      <4>2. first = pm.total /\ last = end
        BY <2>1 DEF first, last
      <4>3. first <= o /\ o < last
        BY <1>2, <1>e, <1>15, <4>2
      <4> QED
        BY <1>11, <1>19, <1>20, <4>1, <4>2, <4>3 DEF Placed
    <3>5. ASSUME NEW o \in D, o >= lower
          PROVE  Placed(pending'.rows, m.uncovered[o], o)
      <4>1. m.uncovered[o] = pm.uncovered[o]
        BY <1>9, <1>14, <2>1, <3>5
      <4>2. Placed(pending.rows, pm.uncovered[o], o)
        BY <1>13
      <4> QED
        BY <1>19, <1>20, <4>1, <4>2, PlacedKept
    <3>6. pm.protected <= end /\ media.total <= end
      BY <1>2, <1>e, <1>13, <2>1
    <3> HIDE DEF D, D2, pm
    <3>7. \A o \in D2 : Placed(pending'.rows, m.uncovered[o], o)
      BY <3>1, <3>4, <3>5
    <3>8. /\ D2 \subseteq
               Larger(pm.protected, media.total)..(end - 1)
          /\ \A o \in D2 : o..(end - 1) \subseteq D2
      BY <3>2, <3>3
    <3>9. DOMAIN pending'.media.uncovered = D2
      BY <1>21 DEF D2
    <3>10. media.protected <= pm.protected
      BY <1>13
    <3> QED
      BY <1>21, <2>1, <3>6, <3>7, <3>8, <3>9, <3>10 DEF GroupUncovered
  <2>2. CASE ~Parity
    <3>1. m.uncovered = EmptyFn /\ pm.protected = 0
      BY <1>8, <1>13, <2>2
    <3>2. media.total <= end
      BY <1>2, <1>e, <1>13
    <3> HIDE DEF pm
    <3> QED
      BY <1>13, <1>21, <2>2, <3>1, <3>2, EmptyFnDomain DEF GroupUncovered
  <2> QED
    BY <2>1, <2>2
<1>23. GroupCovers'
  <2>1. Covers(pending'.rows, media.protected, pm.protected)
    <3>1. Covers(pending.rows, media.protected, pm.protected)
      BY DEF GroupInv, GroupCovers
    <3>2. pending'.rows[pm.next_file].kind # "ParitySidecar"
      BY <1>11, <1>19
    <3>3. /\ DOMAIN pending.rows = media.next_file..(pm.next_file - 1)
          /\ DOMAIN pending'.rows = media.next_file..pm.next_file
          /\ \A n \in DOMAIN pending.rows : pending'.rows[n] = pending.rows[n]
          /\ media.next_file \in Nat /\ pm.next_file \in Nat
      BY <1>2, <1>19
    <3> QED
      BY <3>1, <3>2, <3>3, CoversKept
  <2>2. ~NoneOf(pending'.rows, "Object")
    BY <1>11, <1>19, <1>20 DEF NoneOf
  <2> QED
    BY <1>21, <2>1, <2>2 DEF GroupCovers
<1>24. GroupKinds'
  <2>1. seal_due = None
    BY DEF PushObject
  <2> QED
    BY <1>11, <1>19, <1>20, <1>21, <2>1 DEF GroupInv, GroupKinds
<1> QED
  BY <1>1, <1>19, <1>22, <1>23, <1>24 DEF GroupInv

--------------------------------------------------------------------------------
(* Closing records that publish nothing *)

(* What a closing record leaves alone it keeps consistent. *)
LEMMA MetadataStep ==
    ASSUME SummaryInv, Closer, MetadataOnly, ScalarsTyped', FinalizationTyped',
           OwnerInv', PlanInv', SealInv'
    PROVE  IndInv'
<1>1. /\ media' = media /\ files' = files /\ provenance' = provenance
      /\ initialized' = TRUE
  BY DEF Closer, MetadataOnly
<1>2. MediaTyped(media)' /\ FilesInv'
  BY <1>1 DEF SummaryInv, MediaTyped, FilesInv, Contiguous
<1>3. UncoveredInv' /\ DebtInv'
  BY <1>1 DEF SummaryInv, UncoveredInv, DebtInv, Placed
<1>4. GroupInv'
  <2>1. media'.protected <= media'.total \/ ~Parity
    BY <1>1 DEF SummaryInv, UncoveredInv
  <2>2. ~Parity => media'.protected = 0
    BY <1>1 DEF SummaryInv, UncoveredInv
  <2>3. pending' = NewGroup(media')
    BY <1>1 DEF MetadataOnly
  <2> QED
    BY <1>2, <2>1, <2>2, <2>3, NewGroupInv
<1>5. FreshInv'
  BY <1>1 DEF FreshInv
<1> QED
  BY <1>2, <1>3, <1>4, <1>5 DEF IndInv, SummaryInv

(* Types of the scalars no closing record but the session's touches. *)
LEMMA CloserScalars ==
    ASSUME SummaryInv, Closer, seal_due' \in Triggers \cup {None},
           provenance' \in {"Empty", "OriginalWrite"}, sealed' \in BOOLEAN,
           open_session' \in Sessions \cup {None}, EndTyped(last_session_end')
    PROVE  ScalarsTyped'
<1>1. closed' \in 0..MaxClosed
  BY ConstantsAssumption DEF Closer, SummaryInv, ScalarsTyped
<1>2. initialized' \in BOOLEAN /\ poisoned' \in BOOLEAN
  BY DEF Closer, SummaryInv, ScalarsTyped
<1> QED
  BY <1>1, <1>2 DEF ScalarsTyped

(* No ended session is a legal session end. *)
LEMMA NoEndTyped == EndTyped(NoEnd)
BY DEF EndTyped, NoEnd

(* SessionOpened: no session opens over another's uncovered range. *)
LEMMA SessionOpenedStep ==
    ASSUME IndInv, NEW s \in Sessions, SessionOpened(s)
    PROVE  IndInv'
<1>1. SummaryInv /\ Closer /\ MetadataOnly
  BY DEF IndInv, SessionOpened
<1>2. /\ open_session' = s /\ last_session_end' = NoEnd
      /\ sealed' = sealed /\ finalization' = finalization
      /\ seal_due' = seal_due /\ provenance' = provenance
      /\ media' = media /\ files' = files
  BY DEF SessionOpened, MetadataOnly
<1>3. ScalarsTyped'
  BY <1>1, <1>2, NoEndTyped, CloserScalars DEF SummaryInv, ScalarsTyped
<1>4. FinalizationTyped' /\ PlanInv' /\ SealInv'
  BY <1>1, <1>2 DEF SummaryInv, FinalizationTyped, PlanInv, PrefixPlanned,
                    TailStarted, SealInv
<1>5. OwnerInv'
  <2>1. DOMAIN media.uncovered = {}
    <3>1. CASE Parity
      <4>1. media.protected = media.total
        BY <3>1 DEF SessionOpened, NoDebt
      <4>2. media.total \in Nat
        BY <1>1, ConstantsAssumption DEF SummaryInv, MediaTyped
      <4>3. DOMAIN media.uncovered = media.protected..(media.total - 1)
        BY <1>1, <3>1 DEF SummaryInv, UncoveredInv
      <4> QED
        BY <4>1, <4>2, <4>3
    <3>2. CASE ~Parity
      BY <1>1, <3>2 DEF SummaryInv, UncoveredInv
    <3> QED
      BY <3>1, <3>2
  <2> QED
    BY <1>2, <2>1 DEF OwnerInv
<1> QED
  BY <1>1, <1>3, <1>4, <1>5, MetadataStep

(* SessionEnded without a proved EOD keeps the tail window it records. *)
LEMMA SessionEndedStep ==
    ASSUME IndInv, NEW crash_recovered, SessionEnded(crash_recovered)
    PROVE  IndInv'
<1>1. SummaryInv /\ Closer /\ MetadataOnly
  BY DEF IndInv, SessionEnded
<1>2. /\ open_session # None /\ open_session' = None
      /\ last_session_end'.session = open_session
      /\ sealed' = sealed /\ finalization' = finalization
      /\ seal_due' = seal_due /\ provenance' = provenance
      /\ media' = media /\ files' = files
  BY DEF SessionEnded, MetadataOnly
<1>3. ScalarsTyped'
  <2>1. EndTyped(last_session_end')
    <3>1. /\ DOMAIN last_session_end' = {"session", "base", "lba", "file",
                                         "synchronized", "possible", "eod"}
          /\ last_session_end'.lba = media.cursor
          /\ last_session_end'.synchronized = pending.tail.synchronized
          /\ last_session_end'.possible = pending.tail.possible
          /\ last_session_end'.eod = -1
      BY DEF SessionEnded
    <3>2. media.cursor \in Nat
      BY <1>1, ConstantsAssumption DEF SummaryInv, MediaTyped
    <3> QED
      BY <3>1, <3>2 DEF EndTyped, IndInv, GroupInv, TailTyped
  <2> QED
    BY <1>1, <1>2, <2>1, CloserScalars DEF SummaryInv, ScalarsTyped
<1>4. FinalizationTyped' /\ PlanInv' /\ SealInv'
  BY <1>1, <1>2 DEF SummaryInv, FinalizationTyped, PlanInv, PrefixPlanned,
                    TailStarted, SealInv
<1>5. OwnerInv'
  BY <1>1, <1>2 DEF SummaryInv, OwnerInv, responsible
<1> QED
  BY <1>1, <1>3, <1>4, <1>5, MetadataStep

(* SessionEnded with a proved EOD keeps it inside the recorded window. *)
LEMMA SessionTailEodStep ==
    ASSUME IndInv, NEW eod \in 0..MaxLba, SessionTailEod(eod)
    PROVE  IndInv'
<1>1. SummaryInv /\ Closer /\ MetadataOnly
  BY DEF IndInv, SessionTailEod
<1>2. /\ open_session' = open_session
      /\ last_session_end' = [last_session_end EXCEPT !.eod = eod]
      /\ sealed' = sealed /\ finalization' = finalization
      /\ seal_due' = seal_due /\ provenance' = provenance
      /\ media' = media /\ files' = files
  BY DEF SessionTailEod, MetadataOnly
<1>3. /\ DOMAIN last_session_end' = DOMAIN last_session_end
      /\ last_session_end'.session = last_session_end.session
      /\ last_session_end'.lba = last_session_end.lba
      /\ last_session_end'.synchronized = last_session_end.synchronized
      /\ last_session_end'.possible = last_session_end.possible
      /\ last_session_end'.eod = eod
  BY <1>1, <1>2 DEF SummaryInv, ScalarsTyped, EndTyped
<1>4. ScalarsTyped'
  <2>1. /\ last_session_end.lba + last_session_end.synchronized <= eod
        /\ eod <= last_session_end.lba + last_session_end.possible
    BY <1>1 DEF SessionTailEod, SummaryInv, ScalarsTyped, EndTyped
  <2>2. EndTyped(last_session_end')
    BY <1>1, <1>3, <2>1 DEF SummaryInv, ScalarsTyped, EndTyped
  <2> QED
    BY <1>1, <1>2, <2>2, CloserScalars DEF SummaryInv, ScalarsTyped
<1>5. FinalizationTyped' /\ PlanInv' /\ SealInv'
  BY <1>1, <1>2 DEF SummaryInv, FinalizationTyped, PlanInv, PrefixPlanned,
                    TailStarted, SealInv
<1>6. OwnerInv'
  BY <1>1, <1>2, <1>3 DEF SummaryInv, OwnerInv, responsible
<1> QED
  BY <1>1, <1>4, <1>5, <1>6, MetadataStep

(* A plan's record changes only what the plan says. *)
LEMMA FinalizationStep ==
    ASSUME SummaryInv, Closer, MetadataOnly, UNCHANGED <<open_session, last_session_end>>,
           sealed' \in BOOLEAN, FinalizationTyped', PlanInv', SealInv'
    PROVE  IndInv'
<1>1. /\ seal_due' = seal_due /\ provenance' = provenance
      /\ media' = media /\ files' = files
  BY DEF MetadataOnly
<1>2. ScalarsTyped'
  BY <1>1, CloserScalars DEF SummaryInv, ScalarsTyped
<1>3. OwnerInv'
  BY <1>1 DEF SummaryInv, OwnerInv, responsible
<1> QED
  BY <1>2, <1>3, MetadataStep

(* FinalizationDecided and FinalizationPrepared: validate_plan places the plan *)
(* at the boundary its prefix ends at. *)
LEMMA PlanStep ==
    ASSUME IndInv, NEW prepared \in BOOLEAN, NEW trigger, NEW edition,
           NEW replica \in RecordCounts, NEW separation \in RecordCounts,
           Plan(prepared, PlanOf(trigger, edition, replica, separation))
    PROVE  IndInv'
<1> DEFINE plan == PlanOf(trigger, edition, replica, separation)
           pm == pending.media
           f == finalization'
<1>1. SummaryInv /\ GroupInv /\ Closer /\ MetadataOnly
  BY DEF IndInv, Plan
<1>2. /\ DOMAIN f = {"phase", "plan", "prefix_written", "components_written",
                     "recovery_required"}
      /\ f.phase \in {"prepared", "accepted"} /\ f.plan = plan
      /\ f.prefix_written = (RowCount(pending) = 0)
      /\ f.components_written = 0
  BY DEF Plan
<1>3. /\ plan.file = pm.next_file /\ plan.lba = pm.cursor
      /\ plan.replica = replica /\ plan.separation = separation
      /\ plan.rows = pending.rows
  BY DEF PlanOf
<1>4. /\ media' = media /\ files' = files /\ sealed' = FALSE
  BY DEF Plan, MetadataOnly, Closer
<1>5. /\ NoneOf(pending.rows, "Object")
      /\ Parity => pm.protected = pm.total
  BY DEF Plan, validate_plan, HasKind, NoneOf
<1>6. /\ pm.next_file \in Nat /\ pm.cursor \in Nat /\ media.next_file \in Nat
      /\ media.cursor \in Nat /\ media.total \in Nat
  BY <1>1, GroupFacts
<1>7. /\ Contiguous(pending.rows, media.next_file, pm.next_file,
                    media.cursor, pm.cursor)
      /\ Covers(pending.rows, media.protected, pm.protected)
      /\ pm.total = media.total
  BY <1>1, <1>5 DEF GroupInv, GroupLayout, GroupCovers
<1>8. replica \in Nat /\ separation \in Nat
  BY ConstantsAssumption
<1> HIDE DEF plan, pm, f
<1>9. f.prefix_written \in BOOLEAN
  BY <1>2
<1>10. FinalizationTyped'
  BY <1>2, <1>3, <1>6, <1>8, <1>9 DEF FinalizationTyped, f
<1>11. ASSUME RowCount(pending) = 0 PROVE PlanInv'
  <2>1. media.next_file = pm.next_file
    BY <1>6, <1>11 DEF RowCount, pm
  <2>2. media.cursor = pm.cursor /\ DOMAIN pending.rows = {}
    BY <1>6, <1>7, <2>1 DEF Contiguous
  <2>3. Parity => media.protected = media.total
    BY <1>5, <1>7, <2>2 DEF Covers, NoneOf
  <2>4. ComponentStart(plan, 0) = plan.lba
    BY <1>3, <1>6 DEF ComponentStart
  <2>5. plan.file + 0 = plan.file
    BY <1>3, <1>6
  <2>6. TailStarted'
    BY <1>2, <1>3, <1>4, <2>1, <2>2, <2>3, <2>4, <2>5 DEF TailStarted, f
  <2>7. f.prefix_written = TRUE
    BY <1>2, <1>11
  <2> QED
    BY <2>6, <2>7 DEF PlanInv, f
<1>12. ASSUME RowCount(pending) # 0 PROVE PlanInv'
  <2>1. media.next_file < pm.next_file
    BY <1>6, <1>7, <1>12 DEF RowCount, pm, Contiguous
  <2>2. Parity => Covers(pending.rows, media.protected, media.total)
    BY <1>5, <1>7
  <2>3. PrefixPlanned'
    BY <1>2, <1>3, <1>4, <1>5, <1>7, <2>1, <2>2 DEF PrefixPlanned, f
  <2>4. f.prefix_written = FALSE
    BY <1>2, <1>12
  <2> QED
    BY <2>3, <2>4 DEF PlanInv, f
<1>13. PlanInv'
  BY <1>11, <1>12
<1>14. SealInv'
  BY <1>4 DEF SealInv
<1>15. UNCHANGED <<open_session, last_session_end>> /\ sealed' \in BOOLEAN
  BY <1>4 DEF Plan
<1> QED
  BY <1>1, <1>10, <1>13, <1>14, <1>15, FinalizationStep

(* Flagging a plan changes neither the plan nor its progress. *)
LEMMA FlagStep ==
    ASSUME SummaryInv, media' = media, files' = files, NEW flag \in BOOLEAN,
           finalization' = [finalization EXCEPT !.recovery_required = flag]
    PROVE  /\ FinalizationTyped' /\ PlanInv'
           /\ finalization'.phase = finalization.phase
           /\ finalization'.prefix_written = finalization.prefix_written
           /\ finalization'.components_written = finalization.components_written
<1>1. /\ DOMAIN finalization' = DOMAIN finalization
      /\ finalization'.phase = finalization.phase
      /\ finalization'.plan = finalization.plan
      /\ finalization'.prefix_written = finalization.prefix_written
      /\ finalization'.components_written = finalization.components_written
  BY DEF SummaryInv, FinalizationTyped
<1>2. FinalizationTyped'
  BY <1>1 DEF SummaryInv, FinalizationTyped
<1>3. PlanInv'
  BY <1>1 DEF SummaryInv, PlanInv, PrefixPlanned, TailStarted
<1> QED
  BY <1>1, <1>2, <1>3

(* Sealed: the fifth component is the last thing on the tape. *)
LEMMA SealedStep ==
    ASSUME IndInv, Sealed
    PROVE  IndInv'
<1>1. /\ SummaryInv /\ Closer /\ MetadataOnly
      /\ UNCHANGED <<open_session, last_session_end>>
      /\ sealed' \in BOOLEAN
  BY DEF IndInv, Sealed
<1>2. /\ media' = media /\ files' = files
      /\ finalization' = [finalization EXCEPT !.recovery_required = FALSE]
      /\ finalization.phase = "accepted" /\ finalization.components_written = 5
  BY DEF Sealed, MetadataOnly, AcceptedPlan
<1>3. /\ FinalizationTyped' /\ PlanInv'
      /\ finalization'.phase = finalization.phase
      /\ finalization'.prefix_written = finalization.prefix_written
      /\ finalization'.components_written = finalization.components_written
  BY <1>1, <1>2, FlagStep
<1>4. finalization.prefix_written
  BY <1>1, <1>2 DEF SummaryInv, PlanInv, PrefixPlanned
<1>5. SealInv'
  BY <1>2, <1>3, <1>4 DEF SealInv
<1> QED
  BY <1>1, <1>3, <1>5, FinalizationStep

(* FinalizationPreparationRetired leaves no plan behind. *)
LEMMA RetiredStep ==
    ASSUME IndInv, FinalizationPreparationRetired
    PROVE  IndInv'
<1>1. /\ SummaryInv /\ Closer /\ MetadataOnly
      /\ UNCHANGED <<open_session, last_session_end>>
      /\ sealed' = FALSE /\ finalization' = NoFinalization
  BY DEF IndInv, FinalizationPreparationRetired, Closer
<1>2. FinalizationTyped'
  BY <1>1 DEF FinalizationTyped, NoFinalization, NoPlan
<1>3. PlanInv' /\ SealInv'
  BY <1>1 DEF PlanInv, SealInv, NoFinalization
<1> QED
  BY <1>1, <1>2, <1>3, FinalizationStep

(* FinalizationRecoveryRequired changes the recovery flag only. *)
LEMMA RecoveryRequiredStep ==
    ASSUME IndInv, FinalizationRecoveryRequired
    PROVE  IndInv'
<1>1. /\ SummaryInv /\ Closer /\ MetadataOnly
      /\ UNCHANGED <<open_session, last_session_end>>
      /\ sealed' = FALSE
  BY DEF IndInv, FinalizationRecoveryRequired, Closer
<1>2. /\ media' = media /\ files' = files
      /\ finalization' = [finalization EXCEPT !.recovery_required = TRUE]
  BY DEF FinalizationRecoveryRequired, MetadataOnly
<1>3. FinalizationTyped' /\ PlanInv'
  BY <1>1, <1>2, FlagStep
<1>4. SealInv'
  BY <1>1 DEF SealInv
<1> QED
  BY <1>1, <1>3, <1>4, FinalizationStep

--------------------------------------------------------------------------------
(* Closing records that publish the group *)

(* The published boundary is the group's; the extents are merged. *)
LEMMA PublishedMedia ==
    ASSUME SummaryInv, GroupInv, publish_media
    PROVE  /\ DOMAIN media' = MediaFields
           /\ media'.cursor = pending.media.cursor
           /\ media'.protected = pending.media.protected
           /\ media'.total = pending.media.total
           /\ media'.next_epoch = pending.media.next_epoch
           /\ media'.next_file = pending.media.next_file
           /\ media'.uncovered = Merge(trim(media.uncovered, pending.media.protected),
                                       Stamped(pending.media.uncovered))
BY GroupFacts DEF publish_media, MediaFields

(* Published rows stay, and the group's follow them. *)
LEMMA PublishedFiles ==
    ASSUME SummaryInv, GroupInv, publish_media
    PROVE  /\ \A n \in DOMAIN files : n \in DOMAIN files' /\ files'[n] = files[n]
           /\ \A n \in DOMAIN pending.rows :
                /\ n \in DOMAIN files'
                /\ files'[n] \in RowType
                /\ files'[n].kind = pending.rows[n].kind
                /\ files'[n].blocks = pending.rows[n].blocks
                /\ files'[n].lba = pending.rows[n].lba
                /\ files'[n].first = pending.rows[n].first
                /\ files'[n].end = pending.rows[n].end
                /\ files'[n].session = pending.rows[n].session
                /\ files'[n].at = closed + 1
           /\ FilesInv'
<1> DEFINE new == Stamped(pending.rows)
<1>1. closed \in Nat
  BY ConstantsAssumption DEF SummaryInv, ScalarsTyped
<1>2. /\ \A n \in DOMAIN pending.rows : pending.rows[n] \in RowType
      /\ \A n \in DOMAIN files : files[n] \in RowType
  BY DEF SummaryInv, FilesInv, GroupInv, GroupTyped
<1>3. /\ media.next_file \in Nat /\ pending.media.next_file \in Nat
  BY GroupFacts
<1>4. /\ Contiguous(files, 0, media.next_file, 0, media.cursor)
      /\ Contiguous(pending.rows, media.next_file, pending.media.next_file,
                    media.cursor, pending.media.cursor)
  BY DEF SummaryInv, FilesInv, GroupInv, GroupLayout
<1>5. /\ DOMAIN new = DOMAIN pending.rows
      /\ \A n \in DOMAIN pending.rows :
           /\ new[n] \in RowType
           /\ new[n].kind = pending.rows[n].kind
           /\ new[n].blocks = pending.rows[n].blocks
           /\ new[n].lba = pending.rows[n].lba
           /\ new[n].first = pending.rows[n].first
           /\ new[n].end = pending.rows[n].end
           /\ new[n].session = pending.rows[n].session
           /\ new[n].at = closed + 1
  BY <1>1, <1>2, StampedFields
<1>6. Contiguous(new, media.next_file, pending.media.next_file,
                 media.cursor, pending.media.cursor)
  BY <1>1, <1>2, <1>3, <1>4, ContiguousStamped
<1>7. files' = Merge(files, new)
  BY DEF publish_media
<1> HIDE DEF new
<1>8. /\ DOMAIN files' = DOMAIN files \cup DOMAIN new
      /\ \A n \in DOMAIN new : files'[n] = new[n]
      /\ \A n \in DOMAIN files : n \notin DOMAIN new => files'[n] = files[n]
  BY <1>7 DEF Merge
<1>9. DOMAIN files = 0..(media.next_file - 1)
      /\ DOMAIN new = media.next_file..(pending.media.next_file - 1)
  BY <1>4, <1>6 DEF Contiguous
<1>10. \A n \in DOMAIN files : n \notin DOMAIN new
  BY <1>3, <1>9
<1>11. Contiguous(files', 0, pending.media.next_file, 0, pending.media.cursor)
  BY <1>3, <1>4, <1>6, <1>7, ContiguousMerge
<1>12. \A n \in DOMAIN files' : files'[n] \in RowType
  BY <1>2, <1>5, <1>8
<1>13. FilesInv'
  BY <1>11, <1>12, PublishedMedia DEF FilesInv
<1> QED
  BY <1>5, <1>8, <1>10, <1>13

(* The extents of [W, T) after a commit: what is left of the old ones, and  *)
(* the group's own where it moved T.                                        *)
LEMMA PublishedDomain ==
    ASSUME SummaryInv, GroupInv, publish_media, Parity,
           \/ pending.media.total = media.total
           \/ NewExtentsPresent(pending.media)
    PROVE  /\ DOMAIN media'.uncovered
                = pending.media.protected..(pending.media.total - 1)
           /\ media'.protected <= media'.total
<1> DEFINE D == DOMAIN pending.media.uncovered
           W == media.protected
           T == media.total
           Wp == pending.media.protected
           Tp == pending.media.total
           front == Larger(Wp, T)
           old == {o \in W..(T - 1) : o >= Wp}
<1>1. /\ W \in Nat /\ T \in Nat /\ Wp \in Nat /\ Tp \in Nat
  BY GroupFacts
<1>2. /\ W <= Wp /\ T <= Tp /\ Wp <= Tp
      /\ D \subseteq front..(Tp - 1)
      /\ \A o \in D : o..(Tp - 1) \subseteq D
  BY DEF GroupInv, GroupUncovered
<1>3. DOMAIN media.uncovered = W..(T - 1) /\ W <= T
  BY DEF SummaryInv, UncoveredInv
<1>4. DOMAIN media'.uncovered = old \cup D
  <2>1. media'.uncovered = Merge(trim(media.uncovered, Wp),
                                 Stamped(pending.media.uncovered))
    BY PublishedMedia
  <2> QED
    BY <1>3, <2>1 DEF Merge, trim, Stamped
<1>5. front \in Nat /\ front >= Wp /\ front >= T /\ (front = Wp \/ front = T)
  BY <1>1 DEF Larger
<1>6. Tp > Wp /\ Tp > T => front \in D
  <2>1. ASSUME Tp > Wp, Tp > T
        PROVE  front \in DOMAIN trim(pending.media.uncovered, Wp)
    BY <1>1, <2>1 DEF NewExtentsPresent
  <2> QED
    BY <2>1 DEF trim
<1>7. media'.protected = Wp /\ media'.total = Tp
  BY PublishedMedia
<1> HIDE DEF D, W, T, Wp, Tp, front
<1>8. ASSUME NEW o \in old \cup D
      PROVE  o \in Wp..(Tp - 1)
  BY <1>1, <1>2, <1>5
<1>9. ASSUME NEW o \in Wp..(Tp - 1)
      PROVE  o \in old \cup D
  <2>1. o \in Int /\ o >= Wp /\ o <= Tp - 1 /\ Tp > Wp
    BY <1>1
  <2>2. CASE o < T
    <3>1. o \in W..(T - 1)
      BY <1>1, <1>2, <2>1, <2>2
    <3> QED
      BY <2>1, <3>1
  <2>3. CASE o >= T
    <3>1. Tp > T /\ o \in front..(Tp - 1)
      BY <1>1, <1>5, <2>1, <2>3
    <3>2. front \in D
      BY <1>6, <2>1, <3>1
    <3> QED
      BY <1>2, <3>1, <3>2
  <2> QED
    BY <1>1, <2>1, <2>2, <2>3
<1>10. DOMAIN media'.uncovered = Wp..(Tp - 1)
  BY <1>4, <1>8, <1>9
<1> QED
  BY <1>2, <1>7, <1>10 DEF Wp, Tp

(* Where a published extent comes from. *)
LEMMA PublishedPlaces ==
    ASSUME SummaryInv, GroupInv, publish_media,
           NEW o \in DOMAIN media'.uncovered
    PROVE  \/ /\ o \in DOMAIN media.uncovered
              /\ media'.uncovered[o] = media.uncovered[o]
           \/ /\ o \in DOMAIN pending.media.uncovered
              /\ media'.uncovered[o] \in PlaceType
              /\ media'.uncovered[o].file = pending.media.uncovered[o].file
              /\ media'.uncovered[o].lba = pending.media.uncovered[o].lba
              /\ media'.uncovered[o].at = closed + 1
<1> DEFINE new == Stamped(pending.media.uncovered)
           old == trim(media.uncovered, pending.media.protected)
<1>1. closed \in Nat
  BY ConstantsAssumption DEF SummaryInv, ScalarsTyped
<1>2. /\ DOMAIN new = DOMAIN pending.media.uncovered
      /\ \A x \in DOMAIN new :
           /\ new[x] \in PlaceType
           /\ new[x].file = pending.media.uncovered[x].file
           /\ new[x].lba = pending.media.uncovered[x].lba
           /\ new[x].at = closed + 1
  BY <1>1, GroupFacts, StampedPlaces
<1>3. /\ DOMAIN old \subseteq DOMAIN media.uncovered
      /\ \A x \in DOMAIN old : old[x] = media.uncovered[x]
  BY DEF trim
<1>4. media'.uncovered = Merge(old, new)
  BY PublishedMedia
<1> HIDE DEF new, old
<1>5. \/ o \in DOMAIN new /\ media'.uncovered[o] = new[o]
      \/ o \in DOMAIN old /\ media'.uncovered[o] = old[o]
  BY <1>4 DEF Merge
<1> QED
  BY <1>2, <1>3, <1>5

(* Publishing keeps the summary's media part consistent. *)
LEMMA PublishStep ==
    ASSUME SummaryInv, GroupInv, Closer, publish_media,
           Parity => pending.media.total - pending.media.protected < EpochBlocks,
           \/ pending.media.total = media.total
           \/ NewExtentsPresent(pending.media)
    PROVE  /\ MediaTyped(media)' /\ FilesInv' /\ UncoveredInv' /\ FreshInv'
           /\ GroupInv'
           /\ \A o \in DOMAIN media'.uncovered : media'.uncovered[o].at > 0
<1>1. closed \in Nat
  BY ConstantsAssumption DEF SummaryInv, ScalarsTyped
<1>2. \A o \in DOMAIN media'.uncovered :
        media'.uncovered[o] \in PlaceType /\ media'.uncovered[o].at > 0
  <2> SUFFICES ASSUME NEW o \in DOMAIN media'.uncovered
               PROVE  media'.uncovered[o] \in PlaceType /\ media'.uncovered[o].at > 0
    OBVIOUS
  <2>1. CASE o \in DOMAIN media.uncovered /\ media'.uncovered[o] = media.uncovered[o]
    BY <2>1 DEF SummaryInv, MediaTyped, DebtInv
  <2>2. CASE media'.uncovered[o] \in PlaceType /\ media'.uncovered[o].at = closed + 1
    BY <1>1, <2>2
  <2> QED
    BY <2>1, <2>2, PublishedPlaces
<1>3. MediaTyped(media)'
  <2>1. MediaTyped(pending.media)
    BY DEF GroupInv, GroupTyped
  <2> QED
    BY <1>2, <2>1, PublishedMedia DEF MediaTyped
<1>4. FilesInv'
  BY PublishedFiles
<1>5. \A o \in DOMAIN media'.uncovered : Placed(files', media'.uncovered[o], o)
  <2> SUFFICES ASSUME NEW o \in DOMAIN media'.uncovered
               PROVE  Placed(files', media'.uncovered[o], o)
    OBVIOUS
  <2>1. CASE o \in DOMAIN media.uncovered /\ media'.uncovered[o] = media.uncovered[o]
    <3>1. Placed(files, media.uncovered[o], o)
      BY <2>1 DEF SummaryInv, UncoveredInv
    <3>2. \A n \in DOMAIN files : n \in DOMAIN files' /\ files'[n] = files[n]
      BY PublishedFiles
    <3>3. Placed(files', media.uncovered[o], o)
      BY <3>1, <3>2, PlacedKept
    <3> QED
      BY <2>1, <3>3
  <2>2. CASE /\ o \in DOMAIN pending.media.uncovered
             /\ media'.uncovered[o].file = pending.media.uncovered[o].file
             /\ media'.uncovered[o].lba = pending.media.uncovered[o].lba
             /\ media'.uncovered[o].at = closed + 1
    <3>1. Placed(pending.rows, pending.media.uncovered[o], o)
      BY <2>2 DEF GroupInv, GroupUncovered
    <3> DEFINE n == pending.media.uncovered[o].file
    <3>2. /\ n \in DOMAIN pending.rows /\ n \in DOMAIN files'
          /\ files'[n].kind = pending.rows[n].kind
          /\ files'[n].lba = pending.rows[n].lba
          /\ files'[n].first = pending.rows[n].first
          /\ files'[n].end = pending.rows[n].end
          /\ files'[n].at = closed + 1
      BY <3>1, PublishedFiles DEF Placed
    <3> QED
      BY <2>2, <3>1, <3>2 DEF Placed
  <2> QED
    BY <2>1, <2>2, PublishedPlaces
<1>6. UncoveredInv'
  <2>1. CASE Parity
    <3>1. /\ DOMAIN media'.uncovered = media'.protected..(media'.total - 1)
          /\ media'.protected <= media'.total
      BY <2>1, PublishedDomain, PublishedMedia
    <3>2. media'.total - media'.protected < EpochBlocks
      BY <2>1, PublishedMedia
    <3> QED
      BY <1>5, <2>1, <3>1, <3>2 DEF UncoveredInv
  <2>2. CASE ~Parity
    <3>1. /\ DOMAIN media.uncovered = {} /\ pending.media.protected = 0
          /\ pending.media.uncovered = EmptyFn
      BY <2>2 DEF SummaryInv, UncoveredInv, GroupInv, GroupUncovered
    <3>2. DOMAIN media'.uncovered = {}
      BY <3>1, EmptyFnDomain, PublishedPlaces
    <3>3. media'.protected = 0
      BY <3>1, PublishedMedia
    <3> QED
      BY <1>5, <2>2, <3>2, <3>3 DEF UncoveredInv
  <2> QED
    BY <2>1, <2>2
<1>7. FreshInv'
  BY DEF Closer, FreshInv
<1>8. GroupInv'
  <2>1. media'.protected <= media'.total \/ ~Parity
    BY <1>6 DEF UncoveredInv
  <2>2. ~Parity => media'.protected = 0
    BY <1>6 DEF UncoveredInv
  <2>3. pending' = NewGroup(media')
    BY DEF publish_media
  <2> QED
    BY <1>3, <2>1, <2>2, <2>3, NewGroupInv
<1> QED
  BY <1>2, <1>3, <1>4, <1>6, <1>7, <1>8

(* An extent that is published without a new Object was published before. *)
LEMMA NoNewExtents ==
    ASSUME SummaryInv, GroupInv, publish_media, NoneOf(pending.rows, "Object")
    PROVE  /\ pending.media.total = media.total
           /\ \A o \in DOMAIN media'.uncovered :
                /\ o \in DOMAIN media.uncovered
                /\ media'.uncovered[o] = media.uncovered[o]
<1>1. \A o \in DOMAIN pending.media.uncovered :
        Placed(pending.rows, pending.media.uncovered[o], o)
  BY DEF GroupInv, GroupUncovered
<1>2. DOMAIN pending.media.uncovered = {}
  BY <1>1 DEF Placed, NoneOf
<1>3. pending.media.total = media.total
  BY DEF GroupInv, GroupCovers
<1> QED
  BY <1>2, <1>3, PublishedPlaces

(* The owner of the debt does not change when no session opens or ends. *)
LEMMA OwnerKept ==
    ASSUME SummaryInv, GroupInv, publish_media, NoneOf(pending.rows, "Object"),
           UNCHANGED <<open_session, last_session_end>>
    PROVE  OwnerInv'
<1>1. responsible' = responsible
  BY DEF responsible
<1>2. ASSUME NEW o \in DOMAIN media'.uncovered
      PROVE  /\ responsible' # None
             /\ files'[media'.uncovered[o].file].session = responsible'
  <2>1. o \in DOMAIN media.uncovered /\ media'.uncovered[o] = media.uncovered[o]
    BY NoNewExtents
  <2>2. media.uncovered[o].file \in DOMAIN files
    BY <2>1 DEF SummaryInv, UncoveredInv, Placed
  <2>3. files'[media.uncovered[o].file] = files[media.uncovered[o].file]
    BY <2>2, PublishedFiles
  <2> QED
    BY <1>1, <2>1, <2>3 DEF SummaryInv, OwnerInv
<1> QED
  BY <1>2 DEF OwnerInv

(* What check_commit leaves of the check. *)
LEMMA CheckedDebt ==
    ASSUME SummaryInv, GroupInv, publish_media, NEW due, check_commit(due),
           \A o \in DOMAIN media'.uncovered : media'.uncovered[o].at > 0
    PROVE  DebtInv' /\ provenance' \in {"Empty", "OriginalWrite"}
<1>1. /\ media'.protected = pending.media.protected
      /\ media'.total = pending.media.total
      /\ pending.media.protected \in Nat /\ pending.media.total \in Nat
  BY PublishedMedia, GroupFacts
<1>2. provenance' = IF Parity /\ pending.media.total > pending.media.protected
                      THEN "OriginalWrite" ELSE "Empty"
  BY DEF check_commit
<1>3. pending.media.total > pending.media.protected
        <=> media'.protected < media'.total
  BY <1>1
<1>4. provenance' = "OriginalWrite" <=> Parity /\ media'.protected < media'.total
  BY <1>2, <1>3
<1> QED
  BY <1>2, <1>4 DEF DebtInv

(* What check_commit establishes of the group it accepts. *)
LEMMA CheckedCommit ==
    ASSUME NEW due, check_commit(due)
    PROVE  /\ Parity => pending.media.total - pending.media.protected < EpochBlocks
           /\ NewExtentsPresent(pending.media)
           /\ seal_due' = due
BY DEF check_commit, UncoveredWithinEpoch

(* Committed: an ordinary commit publishes the group and keeps its owner. *)
LEMMA CommittedStep ==
    ASSUME IndInv, NEW due \in Triggers \cup {None}, Committed(due)
    PROVE  IndInv'
<1>1. /\ SummaryInv /\ GroupInv /\ Closer /\ publish_media /\ check_commit(due)
  BY DEF IndInv, Committed
<1>2. /\ MediaTyped(media)' /\ FilesInv' /\ UncoveredInv' /\ FreshInv'
      /\ GroupInv'
      /\ \A o \in DOMAIN media'.uncovered : media'.uncovered[o].at > 0
  BY <1>1, CheckedCommit, PublishStep
<1>3. DebtInv' /\ provenance' \in {"Empty", "OriginalWrite"}
  BY <1>1, <1>2, CheckedDebt
<1>4. /\ sealed' = FALSE /\ open_session' = open_session
      /\ last_session_end' = last_session_end /\ finalization' = finalization
      /\ finalization.phase = "none" /\ seal_due' = due
      /\ (\E n \in DOMAIN pending.rows : pending.rows[n].kind = "Object")
           => open_session # None
  BY <1>1, CheckedCommit DEF Committed, NoFinalizationYet, HasKind, Closer
<1>5. ScalarsTyped'
  BY <1>1, <1>3, <1>4, CloserScalars DEF SummaryInv, ScalarsTyped
<1>6. FinalizationTyped'
  BY <1>1, <1>4 DEF SummaryInv, FinalizationTyped
<1>7. PlanInv' /\ SealInv'
  BY <1>4 DEF PlanInv, SealInv
<1>8. OwnerInv'
  <2>1. responsible' = responsible
    BY <1>4 DEF responsible
  <2>2. ASSUME NEW o \in DOMAIN media'.uncovered
        PROVE  /\ responsible' # None
               /\ files'[media'.uncovered[o].file].session = responsible'
    <3>1. CASE o \in DOMAIN media.uncovered /\ media'.uncovered[o] = media.uncovered[o]
      <4>1. media.uncovered[o].file \in DOMAIN files
        BY <1>1, <3>1 DEF SummaryInv, UncoveredInv, Placed
      <4>2. files'[media.uncovered[o].file] = files[media.uncovered[o].file]
        BY <1>1, <4>1, PublishedFiles
      <4> QED
        BY <1>1, <2>1, <3>1, <4>2 DEF SummaryInv, OwnerInv
    <3>2. CASE /\ o \in DOMAIN pending.media.uncovered
               /\ media'.uncovered[o].file = pending.media.uncovered[o].file
      <4> DEFINE n == pending.media.uncovered[o].file
      <4>1. n \in DOMAIN pending.rows /\ pending.rows[n].kind = "Object"
        BY <1>1, <3>2 DEF GroupInv, GroupUncovered, Placed
      <4>2. pending.rows[n].session = open_session /\ open_session # None
        BY <1>1, <1>4, <4>1 DEF GroupInv, GroupKinds
      <4>3. files'[n].session = pending.rows[n].session
        BY <1>1, <4>1, PublishedFiles
      <4>4. responsible = open_session
        BY <4>2 DEF responsible
      <4> QED
        BY <2>1, <3>2, <4>2, <4>3, <4>4
    <3> QED
      BY <1>1, <3>1, <3>2, PublishedPlaces
  <2> QED
    BY <2>2 DEF OwnerInv
<1> QED
  BY <1>2, <1>3, <1>5, <1>6, <1>7, <1>8 DEF IndInv, SummaryInv

(* ClosedOut: a closeout leaves no ordinal uncovered. *)
LEMMA ClosedOutStep ==
    ASSUME IndInv, ClosedOut
    PROVE  IndInv'
<1>1. /\ SummaryInv /\ GroupInv /\ Closer /\ publish_media
  BY DEF IndInv, ClosedOut
<1>2. /\ Parity /\ pending.media.protected = media.total
      /\ pending.media.total = media.total
      /\ sealed' = FALSE /\ open_session' = open_session
      /\ last_session_end' = NoEnd /\ finalization' = finalization
      /\ finalization.phase = "none" /\ seal_due' = seal_due
      /\ provenance' = "Empty"
  BY DEF ClosedOut, NoFinalizationYet, Closer
<1>3. media.total \in Nat /\ EpochBlocks \in Nat /\ EpochBlocks > 0
  BY <1>1, <1>2, GroupFacts, ConstantsAssumption DEF Parity
<1>4. pending.media.total - pending.media.protected < EpochBlocks
  BY <1>2, <1>3
<1>5. /\ MediaTyped(media)' /\ FilesInv' /\ UncoveredInv' /\ FreshInv'
      /\ GroupInv'
      /\ \A o \in DOMAIN media'.uncovered : media'.uncovered[o].at > 0
  BY <1>1, <1>2, <1>4, PublishStep
<1>6. media'.protected = media.total /\ media'.total = media.total
  BY <1>1, <1>2, PublishedMedia
<1>7. DOMAIN media'.uncovered = {}
  BY <1>2, <1>3, <1>5, <1>6 DEF UncoveredInv
<1>8. DebtInv'
  <2>1. ~(media'.protected < media'.total)
    BY <1>3, <1>6
  <2>2. ~(provenance' = "OriginalWrite")
    BY <1>2
  <2> QED
    BY <1>5, <2>1, <2>2 DEF DebtInv
<1>9. OwnerInv'
  BY <1>7 DEF OwnerInv
<1>10. ScalarsTyped'
  BY <1>1, <1>2, NoEndTyped, CloserScalars DEF SummaryInv, ScalarsTyped
<1>11. FinalizationTyped'
  BY <1>1, <1>2 DEF SummaryInv, FinalizationTyped
<1>12. PlanInv' /\ SealInv'
  BY <1>2 DEF PlanInv, SealInv
<1> QED
  BY <1>5, <1>8, <1>9, <1>10, <1>11, <1>12 DEF IndInv, SummaryInv

(* A group's rows determine where they leave W. *)
LEMMA CoversUnique ==
    ASSUME NEW rows, NEW lo \in Nat, NEW hi \in Nat, DOMAIN rows = lo..(hi - 1),
           NEW from, NEW a, NEW b, Covers(rows, from, a), Covers(rows, from, b)
    PROVE  a = b
<1>1. CASE NoneOf(rows, "ParitySidecar")
  BY <1>1 DEF Covers, NoneOf
<1>2. CASE ~NoneOf(rows, "ParitySidecar")
  <2>1. PICK n \in DOMAIN rows :
          /\ rows[n].kind = "ParitySidecar" /\ rows[n].end = a
          /\ \A k \in DOMAIN rows : rows[k].kind = "ParitySidecar" => k <= n
    BY <1>2 DEF Covers
  <2>2. PICK m \in DOMAIN rows :
          /\ rows[m].kind = "ParitySidecar" /\ rows[m].end = b
          /\ \A k \in DOMAIN rows : rows[k].kind = "ParitySidecar" => k <= m
    BY <1>2 DEF Covers
  <2>3. n <= m /\ m <= n /\ n \in Int /\ m \in Int
    BY <2>1, <2>2
  <2>4. n = m
    BY <2>3
  <2> QED
    BY <2>1, <2>2, <2>4
<1> QED
  BY <1>1, <1>2

(* TerminalPrefix: the planned rows end where the plan's layout starts. *)
LEMMA TerminalPrefixStep ==
    ASSUME IndInv, NEW due \in Triggers \cup {None}, TerminalPrefix(due)
    PROVE  IndInv'
<1> DEFINE plan == finalization.plan
           pm == pending.media
<1>1. /\ SummaryInv /\ GroupInv /\ Closer /\ publish_media /\ check_commit(due)
  BY DEF IndInv, TerminalPrefix
<1>2. /\ sealed' = FALSE /\ open_session' = open_session
      /\ last_session_end' = last_session_end
      /\ finalization.phase = "accepted" /\ ~finalization.prefix_written
      /\ finalization.components_written = 0
      /\ pending.rows = plan.rows
      /\ pm.cursor = ComponentStart(plan, 0)
      /\ seal_due' = due
      /\ finalization' = [finalization EXCEPT !.prefix_written = TRUE]
  BY <1>1, CheckedCommit DEF TerminalPrefix, AcceptedPlan, Closer
<1>3. PrefixPlanned
  BY <1>1, <1>2 DEF SummaryInv, PlanInv
<1>4. NoneOf(pending.rows, "Object")
  BY <1>2, <1>3 DEF PrefixPlanned
<1>5. /\ MediaTyped(media)' /\ FilesInv' /\ UncoveredInv' /\ FreshInv'
      /\ GroupInv'
      /\ \A o \in DOMAIN media'.uncovered : media'.uncovered[o].at > 0
  BY <1>1, CheckedCommit, PublishStep
<1>6. DebtInv' /\ provenance' \in {"Empty", "OriginalWrite"}
  BY <1>1, <1>5, CheckedDebt
<1>7. OwnerInv'
  BY <1>1, <1>2, <1>4, OwnerKept
<1>8. ScalarsTyped'
  BY <1>1, <1>2, <1>6, CloserScalars DEF SummaryInv, ScalarsTyped
<1>9. /\ DOMAIN finalization' = DOMAIN finalization
      /\ finalization'.phase = finalization.phase
      /\ finalization'.plan = plan
      /\ finalization'.prefix_written = TRUE
      /\ finalization'.components_written = 0
  BY <1>1, <1>2 DEF SummaryInv, FinalizationTyped
<1>10. FinalizationTyped'
  <2>1. finalization'.prefix_written \in BOOLEAN
    BY <1>9
  <2>2. finalization'.components_written \in 0..5
    BY <1>9
  <2>3. FinalizationTyped
    BY <1>1 DEF SummaryInv
  <2> QED
    BY <1>9, <2>1, <2>2, <2>3 DEF FinalizationTyped
<1>11. TailStarted'
  <2>1. /\ media'.cursor = pm.cursor /\ media'.next_file = pm.next_file
        /\ media'.protected = pm.protected /\ media'.total = pm.total
    BY <1>1, PublishedMedia
  <2>2. /\ media.next_file \in Nat /\ pm.next_file \in Nat /\ plan.file \in Nat
    BY <1>1, GroupFacts DEF SummaryInv, FinalizationTyped
  <2>3. /\ DOMAIN pending.rows = media.next_file..(pm.next_file - 1)
        /\ DOMAIN pending.rows = media.next_file..(plan.file - 1)
        /\ media.next_file < plan.file /\ media.next_file <= pm.next_file
    BY <1>1, <1>2, <1>3 DEF GroupInv, GroupLayout, PrefixPlanned, Contiguous
  <2>4. pm.next_file = plan.file
    <3>1. /\ (plan.file - 1) \in media.next_file..(plan.file - 1)
          /\ pm.next_file > media.next_file =>
               (pm.next_file - 1) \in media.next_file..(pm.next_file - 1)
      BY <2>2, <2>3
    <3> HIDE DEF plan, pm
    <3> QED
      BY <2>2, <2>3, <3>1
  <2>5. Parity => pm.protected = pm.total
    <3>1. /\ Parity => Covers(pending.rows, media.protected, media.total)
          /\ Covers(pending.rows, media.protected, pm.protected)
          /\ pm.total = media.total
      BY <1>1, <1>2, <1>3, <1>4 DEF PrefixPlanned, GroupInv, GroupCovers
    <3> QED
      BY <2>2, <2>3, <3>1, CoversUnique
  <2>6. plan.file + 0 = plan.file
    BY <2>2
  <2> HIDE DEF plan, pm
  <2> QED
    BY <1>2, <1>9, <2>1, <2>4, <2>5, <2>6 DEF TailStarted
<1>12. PlanInv' /\ SealInv'
  BY <1>2, <1>9, <1>11 DEF PlanInv, SealInv
<1> QED
  BY <1>5, <1>6, <1>7, <1>8, <1>10, <1>12 DEF IndInv, SummaryInv

(* A component ends where the next one starts. *)
LEMMA NextComponent ==
    ASSUME NEW plan, plan.lba \in Nat, plan.replica \in Nat,
           plan.separation \in Nat, NEW k \in 0..4
    PROVE  ComponentStart(plan, k + 1)
             = ComponentStart(plan, k) + ComponentRecords(plan, k) + 1
<1>1. CASE k = 0
  BY <1>1 DEF ComponentStart, ComponentRecords
<1>2. CASE k = 1
  BY <1>2 DEF ComponentStart, ComponentRecords
<1>3. CASE k = 2
  BY <1>3 DEF ComponentStart, ComponentRecords
<1>4. CASE k = 3
  BY <1>4 DEF ComponentStart, ComponentRecords
<1>5. CASE k = 4
  BY <1>5 DEF ComponentStart, ComponentRecords
<1> QED
  BY <1>1, <1>2, <1>3, <1>4, <1>5

(* ComponentWritten: the next component lands where the plan put it. *)
LEMMA ComponentWrittenStep ==
    ASSUME IndInv, NEW due \in Triggers \cup {None}, ComponentWritten(due)
    PROVE  IndInv'
<1> DEFINE plan == finalization.plan
           k == finalization.components_written
           pm == pending.media
           n0 == media.next_file
<1>1. /\ SummaryInv /\ GroupInv /\ Closer /\ publish_media /\ check_commit(due)
  BY DEF IndInv, ComponentWritten
<1>2. /\ sealed' = FALSE /\ open_session' = open_session
      /\ last_session_end' = last_session_end
      /\ finalization.phase = "accepted" /\ finalization.prefix_written
      /\ k < 5 /\ RowCount(pending) = 1 /\ HasComponent(pending)
      /\ n0 = plan.file + k
      /\ pm.cursor = ComponentStart(plan, k) + ComponentRecords(plan, k) + 1
      /\ seal_due' = due
      /\ finalization' = [finalization EXCEPT !.components_written = k + 1,
                                              !.recovery_required = FALSE]
  BY <1>1, CheckedCommit DEF ComponentWritten, AcceptedPlan, Closer
<1>3. TailStarted
  BY <1>1, <1>2 DEF SummaryInv, PlanInv
<1>4. /\ n0 \in Nat /\ pm.next_file \in Nat /\ plan.file \in Nat
      /\ k \in 0..5 /\ plan.lba \in Nat /\ plan.replica \in Nat
      /\ plan.separation \in Nat
  BY <1>1, GroupFacts DEF SummaryInv, FinalizationTyped
<1>5. pm.next_file = n0 + 1
  BY <1>2, <1>4 DEF RowCount
<1>6. DOMAIN pending.rows = {n0}
  <2>1. DOMAIN pending.rows = n0..(pm.next_file - 1)
    BY <1>1 DEF GroupInv, GroupLayout, Contiguous
  <2> HIDE DEF n0, pm
  <2> QED
    BY <1>4, <1>5, <2>1
<1>7. /\ pending.rows[n0].kind \in {"TapeIndexReplica", "IndexSeparationExtent"}
      /\ pending.rows[n0].kind = ComponentKind(k)
      /\ pending.rows[n0].blocks = ComponentRecords(plan, k)
  BY <1>1, <1>2, <1>6 DEF HasComponent, HasKind, GroupInv, GroupKinds
<1>8. /\ NoneOf(pending.rows, "Object") /\ NoneOf(pending.rows, "ParitySidecar")
  BY <1>6, <1>7 DEF NoneOf
<1>9. /\ pm.total = media.total /\ pm.protected = media.protected
  BY <1>1, <1>8 DEF GroupInv, GroupCovers, Covers, NoneOf
<1>10. /\ MediaTyped(media)' /\ FilesInv' /\ UncoveredInv' /\ FreshInv'
       /\ GroupInv'
       /\ \A o \in DOMAIN media'.uncovered : media'.uncovered[o].at > 0
  BY <1>1, CheckedCommit, PublishStep
<1>11. DebtInv' /\ provenance' \in {"Empty", "OriginalWrite"}
  BY <1>1, <1>10, CheckedDebt
<1>12. OwnerInv'
  BY <1>1, <1>2, <1>8, OwnerKept
<1>13. ScalarsTyped'
  BY <1>1, <1>2, <1>11, CloserScalars DEF SummaryInv, ScalarsTyped
<1>14. /\ DOMAIN finalization' = DOMAIN finalization
       /\ finalization'.phase = finalization.phase
       /\ finalization'.plan = plan
       /\ finalization'.prefix_written = finalization.prefix_written
       /\ finalization'.components_written = k + 1
  BY <1>1, <1>2 DEF SummaryInv, FinalizationTyped
<1>15. FinalizationTyped'
  <2>1. finalization'.components_written \in 0..5
    BY <1>2, <1>4, <1>14
  <2>2. FinalizationTyped
    BY <1>1 DEF SummaryInv
  <2> QED
    BY <1>14, <2>1, <2>2 DEF FinalizationTyped
<1>16. TailStarted'
  <2>1. /\ media'.cursor = pm.cursor /\ media'.next_file = pm.next_file
        /\ media'.protected = pm.protected /\ media'.total = pm.total
    BY <1>1, PublishedMedia
  <2>2. k \in 0..4 /\ k + 1 - 1 = k
    BY <1>2, <1>4
  <2>3. media'.cursor = ComponentStart(plan, k + 1)
    BY <1>2, <1>4, <2>1, <2>2, NextComponent
  <2>4. media'.next_file = plan.file + (k + 1)
    BY <1>2, <1>4, <1>5, <2>1
  <2>5. Parity => media'.protected = media'.total
    BY <1>3, <1>9, <2>1 DEF TailStarted
  <2>6. ASSUME NEW j \in 0..k
        PROVE  /\ files'[plan.file + j].kind = ComponentKind(j)
               /\ files'[plan.file + j].blocks = ComponentRecords(plan, j)
    <3>1. CASE j = k
      <4>1. /\ files'[n0].kind = pending.rows[n0].kind
            /\ files'[n0].blocks = pending.rows[n0].blocks
        BY <1>1, <1>6, PublishedFiles
      <4> QED
        BY <1>2, <1>7, <3>1, <4>1
    <3>2. CASE j # k
      <4>1. j \in 0..(k - 1) /\ plan.file + j \in 0..(n0 - 1)
        BY <1>2, <1>4, <3>2
      <4>2. DOMAIN files = 0..(n0 - 1)
        BY <1>1 DEF SummaryInv, FilesInv, Contiguous
      <4>3. files'[plan.file + j] = files[plan.file + j]
        BY <1>1, <4>1, <4>2, PublishedFiles
      <4> QED
        BY <1>3, <4>1, <4>3 DEF TailStarted
    <3> QED
      BY <3>1, <3>2
  <2> DEFINE next == finalization'.components_written
  <2> HIDE DEF plan, pm, k
  <2>7. 0..(next - 1) = 0..k
    <3>1. next = k + 1
      BY <1>14
    <3> HIDE DEF next
    <3> QED
      BY <2>2, <3>1
  <2>9. \A j \in 0..(next - 1) :
          /\ files'[plan.file + j].kind = ComponentKind(j)
          /\ files'[plan.file + j].blocks = ComponentRecords(plan, j)
    <3> HIDE DEF next
    <3> QED
      BY <2>6, <2>7
  <2>10. /\ media'.cursor = ComponentStart(plan, next)
         /\ media'.next_file = plan.file + next
    BY <1>14, <2>3, <2>4
  <2>11. plan = finalization'.plan
    BY <1>14
  <2> QED
    BY <2>5, <2>9, <2>10, <2>11 DEF TailStarted
<1>17. PlanInv'
  BY <1>2, <1>14, <1>16 DEF PlanInv
<1>18. SealInv'
  BY <1>2 DEF SealInv
<1> QED
  BY <1>10, <1>11, <1>12, <1>13, <1>15, <1>17, <1>18 DEF IndInv, SummaryInv

--------------------------------------------------------------------------------
(* The invariant *)

(* Initialized: the bootstrap is the first file, alone and published. *)
LEMMA InitializedStep ==
    ASSUME IndInv, Initialized
    PROVE  IndInv'
<1> DEFINE row == [kind |-> "Bootstrap", blocks |-> 1, lba |-> 0, first |-> 0,
                   end |-> 0, epoch |-> 0, session |-> None, at |-> 1]
<1> USE ConstantsAssumption
<1>1. SummaryInv /\ FreshInv /\ ~initialized
  BY DEF IndInv, Initialized
<1>2. /\ media.protected = 0 /\ media.total = 0 /\ media.uncovered = EmptyFn
      /\ provenance = "Empty" /\ finalization.phase = "none" /\ ~sealed
      /\ DOMAIN media = MediaFields /\ media.next_epoch \in Nat
  BY <1>1 DEF FreshInv, SummaryInv, MediaTyped
<1>3. media' = [media EXCEPT !.cursor = 2, !.next_file = 1]
  BY DEF Initialized
<1>4. /\ DOMAIN media' = MediaFields
      /\ media'.cursor = 2 /\ media'.next_file = 1
      /\ media'.protected = 0 /\ media'.total = 0
      /\ media'.next_epoch = media.next_epoch
      /\ media'.uncovered = EmptyFn
  BY <1>2, <1>3 DEF MediaFields
<1>5. /\ provenance' = provenance /\ seal_due' = seal_due /\ sealed' = sealed
      /\ open_session' = open_session /\ last_session_end' = last_session_end
      /\ finalization' = finalization /\ poisoned' = poisoned
      /\ initialized' = TRUE /\ closed' = 1 /\ MaxClosed >= 1 /\ MaxLba >= 2
      /\ pending' = NewGroup(media')
  BY DEF Initialized
<1>6. MediaTyped(media)'
  <2>1. 2 \in 0..MaxLba /\ 0 \in 0..MaxTotal
    BY <1>5
  <2> QED
    BY <1>2, <1>4, <2>1, EmptyFnDomain DEF MediaTyped
<1>7. ScalarsTyped'
  <2>1. closed' \in 0..MaxClosed
    BY <1>5
  <2>2. ScalarsTyped
    BY <1>1 DEF SummaryInv
  <2> QED
    BY <1>5, <2>1, <2>2 DEF ScalarsTyped
<1>8. FinalizationTyped'
  BY <1>1, <1>5 DEF SummaryInv, FinalizationTyped
<1>9. FilesInv'
  <2>1. files' = [n \in {0} |-> row]
    BY DEF Initialized
  <2>2. row \in RowType
    BY DEF RowType, Kinds
  <2>3. row.lba = 0 /\ row.blocks = 1
    OBVIOUS
  <2> HIDE DEF row
  <2>4. DOMAIN files' = {0} /\ files'[0] = row
    BY <2>1
  <2>5. {0} = 0..(1 - 1)
    OBVIOUS
  <2>6. Contiguous(files', 0, 1, 0, 2)
    BY <2>3, <2>4, <2>5 DEF Contiguous
  <2> QED
    BY <1>4, <2>2, <2>4, <2>6 DEF FilesInv
<1>10. UncoveredInv'
  <2>1. 0..(0 - 1) = {}
    OBVIOUS
  <2> QED
    BY <1>4, <2>1, EmptyFnDomain DEF UncoveredInv, Parity
<1>11. DebtInv'
  <2>1. ~(media'.protected < media'.total)
    BY <1>4
  <2>2. ~(provenance' = "OriginalWrite")
    BY <1>2, <1>5
  <2> QED
    BY <1>4, <2>1, <2>2, EmptyFnDomain DEF DebtInv
<1>12. OwnerInv'
  BY <1>4, EmptyFnDomain DEF OwnerInv
<1>13. PlanInv' /\ SealInv'
  BY <1>2, <1>5 DEF PlanInv, SealInv
<1>14. GroupInv'
  BY <1>4, <1>5, <1>6, NewGroupInv
<1>15. FreshInv'
  BY <1>5 DEF FreshInv
<1> QED
  BY <1>6, <1>7, <1>8, <1>9, <1>10, <1>11, <1>12, <1>13, <1>14, <1>15
  DEF IndInv, SummaryInv

(* A group that is dropped leaves the summary as it was. *)
LEMMA DroppedStep ==
    ASSUME IndInv, UNCHANGED summary, pending' = NewGroup(media),
           poisoned' \in BOOLEAN
    PROVE  IndInv'
<1>1. SummaryInv'
  BY SummaryKept DEF IndInv
<1>2. media' = media /\ initialized' = initialized
      /\ finalization' = finalization /\ provenance' = provenance
      /\ sealed' = sealed
  BY DEF summary
<1>3. /\ MediaTyped(media)'
      /\ media'.protected <= media'.total \/ ~Parity
      /\ ~Parity => media'.protected = 0
  BY <1>1 DEF SummaryInv, UncoveredInv
<1>4. GroupInv' /\ ~pending'.begun
  BY <1>2, <1>3, NewGroupInv
<1>5. FreshInv'
  BY <1>2, <1>4 DEF IndInv, FreshInv
<1> QED
  BY <1>1, <1>4, <1>5 DEF IndInv

(* Continuation frames need an initialized tape. *)
LEMMA ContinuationStep ==
    ASSUME IndInv, Continuation, GroupInv'
    PROVE  IndInv'
<1>1. UNCHANGED summary /\ poisoned' = poisoned /\ initialized
  BY DEF Continuation
<1>2. SummaryInv'
  BY <1>1, SummaryKept DEF IndInv, SummaryInv, ScalarsTyped
<1>3. FreshInv'
  BY <1>1 DEF FreshInv, summary
<1> QED
  BY <1>2, <1>3 DEF IndInv

(* Every frame, accepted or refused, keeps the invariant. *)
THEOREM NextInv ==
    ASSUME IndInv, [Next]_vars
    PROVE  IndInv'
<1>0. SummaryInv /\ GroupInv
  BY DEF IndInv
<1>1. CASE PushFrame
  <2>1. ASSUME NEW b \in BlockCounts, PushObject(b) PROVE IndInv'
    BY <1>0, <2>1, PushObjectStep, ContinuationStep DEF PushObject
  <2>2. ASSUME NEW b \in BlockCounts, PushMap(b) PROVE IndInv'
    BY <1>0, <2>2, PushMapStep, ContinuationStep DEF PushMap
  <2>3. ASSUME NEW b \in BlockCounts, NEW end \in 1..MaxLba, PushSidecar(b, end)
        PROVE  IndInv'
    BY <1>0, <2>3, PushSidecarStep, ContinuationStep DEF PushSidecar
  <2>4. ASSUME PushCatalog PROVE IndInv'
    BY <1>0, <2>4, PushCatalogStep, ContinuationStep DEF PushCatalog
  <2>5. ASSUME PushComponent PROVE IndInv'
    BY <1>0, <2>5, PushComponentStep, ContinuationStep DEF PushComponent
  <2>6. ASSUME PushDirectory PROVE IndInv'
    BY <1>0, <2>6, PushDirectoryStep, ContinuationStep DEF PushDirectory
  <2>7. ASSUME NEW known \in TailBlocks, NEW unknown \in TailBlocks,
               NEW synced \in TailBlocks,
               NEW filemark \in {"Present", "Absent", "Unknown"},
               NEW synced_mark \in BOOLEAN, NEW torn \in BOOLEAN,
               PushTailFile(known, unknown, filemark, synced, synced_mark, torn)
        PROVE  IndInv'
    BY <1>0, <2>7, PushTailFileStep, ContinuationStep DEF PushTailFile
  <2> QED
    BY <1>1, <2>1, <2>2, <2>3, <2>4, <2>5, <2>6, <2>7 DEF PushFrame
<1>2. CASE CloseSession
  BY <1>2, SessionOpenedStep, SessionEndedStep, SessionTailEodStep DEF CloseSession
<1>3. CASE CloseMedia
  BY <1>3, ClosedOutStep, CommittedStep, TerminalPrefixStep, ComponentWrittenStep
  DEF CloseMedia
<1>4. CASE CloseFinalization
  BY <1>4, PlanStep, SealedStep, RetiredStep, RecoveryRequiredStep
  DEF CloseFinalization
<1>5. CASE Initialized
  BY <1>5, InitializedStep
<1>6. CASE Refuse
  BY <1>6, DroppedStep DEF Refuse
<1>7. CASE TornTail
  <2>1. poisoned' \in BOOLEAN
    BY <1>0, <1>7 DEF TornTail, SummaryInv, ScalarsTyped
  <2> QED
    BY <1>7, <2>1, DroppedStep DEF TornTail
<1>8. CASE UNCHANGED vars
  <2>1. /\ UNCHANGED summary /\ poisoned' = poisoned /\ pending' = pending
        /\ media' = media
        /\ finalization' = finalization /\ open_session' = open_session
    BY <1>8 DEF vars, summary
  <2>2. SummaryInv'
    BY <1>0, <2>1, SummaryKept DEF SummaryInv, ScalarsTyped
  <2>3. TailTyped' /\ DOMAIN pending' = GroupFields /\ pending'.directory \in Nat
    BY <1>0, <2>1 DEF GroupInv, GroupTyped, TailTyped
  <2>4. GroupInv'
    BY <1>0, <2>1, <2>3, GroupKept
  <2>5. FreshInv'
    BY <2>1 DEF IndInv, FreshInv, summary
  <2> QED
    BY <2>2, <2>4, <2>5 DEF IndInv
<1> QED
  BY <1>1, <1>2, <1>3, <1>4, <1>5, <1>6, <1>7, <1>8 DEF Next

(* The published history and the group being built stay consistent in       *)
(* every run of the fold.                                                   *)
THEOREM Invariance == Spec => []IndInv
<1>1. Init => IndInv
  BY InitInv
<1>2. IndInv /\ [Next]_vars => IndInv'
  BY NextInv
<1> QED
  BY <1>1, <1>2, PTL DEF Spec

--------------------------------------------------------------------------------
(* What the invariant says of the fold *)

(* The retained extents are exactly the uncovered range, at the addresses   *)
(* of the Objects that own it (trim, the E - 1 cut, publish_media).         *)
THEOREM UncoveredExact == Spec => []UncoveredIsExact
<1>1. IndInv => UncoveredIsExact
  BY DEF IndInv, SummaryInv, UncoveredInv, UncoveredIsExact, Placed
<1> QED
  BY <1>1, Invariance, PTL

(* Files are dense and contiguous up to the cursor (apply_row).             *)
THEOREM Dense == Spec => []DenseLayout
<1>1. ASSUME IndInv PROVE DenseLayout
  <2>1. /\ DOMAIN files = 0..(media.next_file - 1)
        /\ \A n \in 0..(media.next_file - 1) :
             files[n].lba + files[n].blocks + 1
               = IF n + 1 < media.next_file THEN files[n + 1].lba ELSE media.cursor
    BY <1>1 DEF IndInv, SummaryInv, FilesInv, Contiguous
  <2>2. media.next_file \in Nat
    BY <1>1 DEF IndInv, SummaryInv, MediaTyped
  <2>3. \A n \in DOMAIN files : n + 1 \in DOMAIN files <=> n + 1 < media.next_file
    BY <2>1, <2>2
  <2> QED
    BY <2>1, <2>3 DEF DenseLayout, FilesBelow
<1> QED
  BY <1>1, Invariance, PTL

(* One session owns all unprotected data, the one a closeout may name.      *)
THEOREM OneOwner == Spec => []DebtHasOneOwner
<1>1. IndInv => DebtHasOneOwner
  BY DEF IndInv, SummaryInv, OwnerInv, DebtHasOneOwner
<1> QED
  BY <1>1, Invariance, PTL

(* Unprotected data can always be closed out and has an age.                *)
THEOREM Closable == Spec => []DebtIsClosable
<1>1. ASSUME IndInv PROVE DebtIsClosable
  <2>1. provenance = "OriginalWrite" <=> Parity /\ media.protected < media.total
    BY <1>1 DEF IndInv, SummaryInv, DebtInv
  <2>2. ASSUME closeout_due PROVE unprotected_since > 0
    <3>1. Parity /\ media.protected < media.total
      BY <2>2 DEF closeout_due
    <3>2. media.protected \in Nat /\ media.total \in Nat
      BY <1>1, ConstantsAssumption DEF IndInv, SummaryInv, MediaTyped
    <3>3. DOMAIN media.uncovered = media.protected..(media.total - 1)
      BY <1>1, <3>1 DEF IndInv, SummaryInv, UncoveredInv
    <3>4. media.protected \in DOMAIN media.uncovered
      BY <3>1, <3>2, <3>3
    <3> QED
      BY <1>1, <3>4 DEF unprotected_since, IndInv, SummaryInv, DebtInv
  <2> QED
    BY <2>1, <2>2 DEF DebtIsClosable
<1> QED
  BY <1>1, Invariance, PTL

(* A plan stays where it was made, and the tape ends where its next         *)
(* component starts.                                                        *)
THEOREM PlanPlaced == Spec => []PlanInPlace
<1>1. ASSUME IndInv PROVE PlanInPlace
  <2>1. ASSUME finalization.phase # "none", finalization.prefix_written
        PROVE  TailStarted
    BY <1>1, <2>1 DEF IndInv, SummaryInv, PlanInv
  <2>2. ASSUME finalization.phase # "none", ~finalization.prefix_written
        PROVE  PrefixPlanned
    BY <1>1, <2>2 DEF IndInv, SummaryInv, PlanInv
  <2> QED
    BY <2>1, <2>2 DEF PlanInPlace, TailStarted, PrefixPlanned, Contiguous
<1> QED
  BY <1>1, Invariance, PTL

(* A sealed tape has its five components in place and nothing unprotected.  *)
THEOREM SealedComplete == Spec => []SealedTail
<1>1. ASSUME IndInv PROVE SealedTail
  <2> SUFFICES ASSUME sealed PROVE SealedTail
    BY DEF SealedTail
  <2>1. /\ finalization.phase = "accepted" /\ finalization.prefix_written
        /\ finalization.components_written = 5
    BY <1>1 DEF IndInv, SummaryInv, SealInv
  <2>2. TailStarted
    BY <1>1, <2>1 DEF IndInv, SummaryInv, PlanInv
  <2>3. \A j \in {0, 1, 2, 3, 4} :
          /\ files[finalization.plan.file + j].kind = ComponentKind(j)
          /\ files[finalization.plan.file + j].blocks
               = ComponentRecords(finalization.plan, j)
    BY <2>1, <2>2 DEF TailStarted
  <2>4. \A k \in {0, 2, 4} : /\ ComponentKind(k) = "TapeIndexReplica"
                             /\ ComponentRecords(finalization.plan, k)
                                  = finalization.plan.replica
    BY DEF ComponentKind, ComponentRecords
  <2>5. \A k \in {1, 3} : /\ ComponentKind(k) = "IndexSeparationExtent"
                          /\ ComponentRecords(finalization.plan, k)
                               = finalization.plan.separation
    BY DEF ComponentKind, ComponentRecords
  <2>6. /\ media.cursor = ComponentStart(finalization.plan, 5)
        /\ media.next_file = finalization.plan.file + 5
        /\ Parity => media.protected = media.total
    BY <2>1, <2>2 DEF TailStarted
  <2> QED
    BY <2>1, <2>3, <2>4, <2>5, <2>6 DEF SealedTail
<1> QED
  BY <1>1, Invariance, PTL

(* The evidence of an ended session stays a window (TailFile, SessionEnded). *)
THEOREM TailWindowKept == Spec => []TailWindow
<1>1. IndInv => TailWindow
  BY DEF IndInv, SummaryInv, GroupInv, ScalarsTyped, EndTyped, TailTyped, TailWindow
<1> QED
  BY <1>1, Invariance, PTL

(* Every position, count and phase stays in its range. *)
THEOREM TypeCorrect == Spec => []TypeOK
<1>1. ASSUME IndInv PROVE TypeOK
  <2>1. /\ initialized \in BOOLEAN /\ sealed \in BOOLEAN /\ poisoned \in BOOLEAN
        /\ provenance \in {"Empty", "OriginalWrite"}
        /\ seal_due \in Triggers \cup {None}
        /\ open_session \in Sessions \cup {None}
        /\ closed \in 0..MaxClosed
    BY <1>1 DEF IndInv, SummaryInv, ScalarsTyped
  <2>2. /\ media.cursor \in 0..MaxLba /\ media.next_file \in Nat
        /\ media.next_file <= media.cursor
        /\ media.protected \in Nat /\ media.total \in 0..MaxTotal
        /\ media.next_epoch \in Nat
    BY <1>1 DEF IndInv, SummaryInv, MediaTyped
  <2>3. media.next_file \in 0..MaxLba
    BY <2>2, ConstantsAssumption
  <2>4. /\ \A n \in DOMAIN files : files[n] \in RowType
        /\ finalization.phase \in {"none", "prepared", "accepted"}
        /\ finalization.components_written \in 0..5
    BY <1>1 DEF IndInv, SummaryInv, FilesInv, FinalizationTyped
  <2> QED
    BY <2>1, <2>2, <2>3, <2>4 DEF TypeOK
<1> QED
  BY <1>1, Invariance, PTL

--------------------------------------------------------------------------------
(* What a step may never do *)

(* Every continuation frame leaves the summary alone. *)
LEMMA FrameContinues ==
    ASSUME PushFrame
    PROVE  Continuation
<1>1. ASSUME NEW b, PushObject(b) PROVE Continuation
  BY <1>1 DEF PushObject
<1>2. ASSUME NEW b, PushMap(b) PROVE Continuation
  BY <1>2 DEF PushMap
<1>3. ASSUME NEW b, NEW end, PushSidecar(b, end) PROVE Continuation
  BY <1>3 DEF PushSidecar
<1>4. ASSUME PushCatalog \/ PushComponent \/ PushDirectory PROVE Continuation
  BY <1>4 DEF PushCatalog, PushComponent, PushDirectory
<1>5. ASSUME NEW known, NEW unknown, NEW filemark, NEW synced, NEW synced_mark,
             NEW torn,
             PushTailFile(known, unknown, filemark, synced, synced_mark, torn)
      PROVE  Continuation
  BY <1>5 DEF PushTailFile
<1> QED
  BY <1>1, <1>2, <1>3, <1>4, <1>5 DEF PushFrame

(* A step either publishes the pending group or leaves files and media. *)
LEMMA PublishOrKeep ==
    ASSUME IndInv, [Next]_vars
    PROVE  \/ Initialized
           \/ UNCHANGED <<files, media>>
           \/ publish_media
<1> USE DEF MetadataOnly
<1>1. CASE PushFrame
  BY <1>1, FrameContinues DEF Continuation, summary
<1>2. CASE CloseSession
  BY <1>2 DEF CloseSession, SessionOpened, SessionEnded, SessionTailEod
<1>3. CASE CloseMedia
  BY <1>3 DEF CloseMedia, ClosedOut, Committed, TerminalPrefix, ComponentWritten
<1>4. CASE CloseFinalization
  BY <1>4 DEF CloseFinalization, Plan, Sealed, FinalizationPreparationRetired,
     FinalizationRecoveryRequired
<1>5. CASE Refuse \/ TornTail
  BY <1>5 DEF Refuse, TornTail, summary
<1>6. CASE UNCHANGED vars
  BY <1>6 DEF vars, summary
<1> QED
  BY <1>1, <1>2, <1>3, <1>4, <1>5, <1>6 DEF Next

(* The log is append-only: no step changes or drops a published row, and    *)
(* neither W, T nor the cursor goes back.                                   *)
THEOREM AppendsOnly == Spec => AppendOnly
<1>1. ASSUME IndInv, [Next]_vars PROVE Appends
  <2>0. SummaryInv /\ GroupInv
    BY <1>1 DEF IndInv
  <2>1. /\ media.protected \in Nat /\ media.total \in Nat /\ media.cursor \in Nat
        /\ pending.media.protected \in Nat /\ pending.media.total \in Nat
        /\ pending.media.cursor \in Nat
    BY <2>0, GroupFacts
  <2>2. CASE Initialized
    <3>1. /\ media.next_file = 0 /\ media.cursor = 0
          /\ DOMAIN media = MediaFields
          /\ DOMAIN files = 0..(media.next_file - 1)
      BY <1>1, <2>2 DEF Initialized, IndInv, FreshInv, SummaryInv, MediaTyped,
                        FilesInv, Contiguous
    <3>2. media' = [media EXCEPT !.cursor = 2, !.next_file = 1]
      BY <2>2 DEF Initialized
    <3>3. /\ media'.protected = media.protected /\ media'.total = media.total
          /\ media'.cursor = 2
      BY <3>1, <3>2 DEF MediaFields
    <3>4. DOMAIN files = {}
      BY <3>1
    <3> QED
      BY <2>1, <3>1, <3>3, <3>4 DEF Appends
  <2>3. CASE UNCHANGED <<files, media>>
    BY <2>1, <2>3 DEF Appends
  <2>4. CASE publish_media
    <3>1. /\ media.protected <= pending.media.protected
          /\ media.total <= pending.media.total
          /\ media.cursor <= pending.media.cursor
      BY <2>0 DEF GroupInv, GroupUncovered, GroupLayout
    <3>2. /\ media'.protected = pending.media.protected
          /\ media'.total = pending.media.total
          /\ media'.cursor = pending.media.cursor
      BY <2>0, <2>4, PublishedMedia
    <3>3. \A n \in DOMAIN files : n \in DOMAIN files' /\ files'[n] = files[n]
      BY <2>0, <2>4, PublishedFiles
    <3> QED
      BY <2>1, <3>1, <3>2, <3>3 DEF Appends
  <2> QED
    BY <1>1, <2>2, <2>3, <2>4, PublishOrKeep
<1> QED
  BY <1>1, Invariance, PTL DEF Spec, AppendOnly

(* A publishing step without a new Object keeps T. *)
LEMMA TotalKept ==
    ASSUME SummaryInv, GroupInv, publish_media, NoneOf(pending.rows, "Object")
    PROVE  media'.total = media.total
BY NoNewExtents, PublishedMedia

(* A seal obligation is neither lost nor exchanged by any record, and no    *)
(* Object is published while it stands.                                     *)
THEOREM SealDueSticky == Spec => SealDueIsSticky
<1>1. ASSUME IndInv, [Next]_vars PROVE KeepsSealDue
  <2> SUFFICES ASSUME seal_due # None
               PROVE  seal_due' = seal_due /\ media'.total = media.total
    BY DEF KeepsSealDue
  <2>0. SummaryInv /\ GroupInv
    BY <1>1 DEF IndInv
  <2>1. NoneOf(pending.rows, "Object")
    BY <2>0 DEF GroupInv, GroupKinds, NoneOf
  <2>2. seal_due' = seal_due
    <3> USE DEF MetadataOnly
    <3>1. CASE PushFrame
      BY <3>1, FrameContinues DEF Continuation, summary
    <3>2. CASE CloseSession
      BY <3>2 DEF CloseSession, SessionOpened, SessionEnded, SessionTailEod
    <3>3. CASE ClosedOut
      BY <3>3 DEF ClosedOut
    <3>4. ASSUME NEW due, check_commit(due) PROVE seal_due' = seal_due
      BY <3>4 DEF check_commit, SealKept
    <3>5. CASE CloseMedia
      BY <3>3, <3>4, <3>5 DEF CloseMedia, Committed, TerminalPrefix, ComponentWritten
    <3>6. CASE CloseFinalization
      BY <3>6 DEF CloseFinalization, Plan, Sealed, FinalizationPreparationRetired,
         FinalizationRecoveryRequired
    <3>7. CASE Initialized \/ Refuse \/ TornTail \/ UNCHANGED vars
      BY <3>7 DEF Initialized, Refuse, TornTail, vars, summary
    <3> QED
      BY <1>1, <3>1, <3>2, <3>5, <3>6, <3>7 DEF Next
  <2>3. media'.total = media.total
    <3>1. CASE Initialized
      BY <2>0, <3>1 DEF Initialized, SummaryInv, MediaTyped, MediaFields
    <3>2. CASE UNCHANGED <<files, media>>
      BY <3>2
    <3>3. CASE publish_media
      BY <2>0, <2>1, <3>3, TotalKept
    <3> QED
      BY <1>1, <3>1, <3>2, <3>3, PublishOrKeep
  <2> QED
    BY <2>2, <2>3
<1> QED
  BY <1>1, Invariance, PTL DEF Spec, SealDueIsSticky

(* An accepted plan is final: never replaced or withdrawn, its progress     *)
(* never goes back, and no Object is published under it.                    *)
THEOREM PlanFinal == Spec => PlanIsFinal
<1>1. ASSUME IndInv, [Next]_vars PROVE KeepsPlan
  <2> SUFFICES ASSUME finalization.phase = "accepted" PROVE KeepsPlan
    BY DEF KeepsPlan
  <2> DEFINE k == finalization.components_written
  <2>0. SummaryInv /\ GroupInv /\ k \in Int
    BY <1>1 DEF IndInv, SummaryInv, FinalizationTyped
  <2>1. ASSUME UNCHANGED <<finalization, media>> PROVE KeepsPlan
    BY <2>0, <2>1 DEF KeepsPlan
  <2>2. CASE PushFrame \/ Refuse \/ TornTail
    BY <2>1, <2>2, FrameContinues DEF Continuation, Refuse, TornTail, summary
  <2>3. CASE CloseSession
    BY <2>1, <2>3 DEF CloseSession, SessionOpened, SessionEnded, SessionTailEod,
                      MetadataOnly
  <2>4. CASE UNCHANGED vars
    BY <2>1, <2>4 DEF vars, summary
  <2>5. CASE Initialized
    BY <1>1, <2>5 DEF Initialized, IndInv, FreshInv
  <2>6. CASE CloseMedia
    <3>1. CASE ClosedOut
      BY <3>1 DEF ClosedOut, NoFinalizationYet
    <3>2. ASSUME NEW due, Committed(due) PROVE KeepsPlan
      BY <3>2 DEF Committed, NoFinalizationYet
    <3>3. ASSUME NEW due, TerminalPrefix(due) PROVE KeepsPlan
      <4>1. NoneOf(pending.rows, "Object") /\ publish_media
        BY <2>0, <3>3 DEF TerminalPrefix, SummaryInv, PlanInv, PrefixPlanned
      <4>2. media'.total = media.total
        BY <2>0, <4>1, TotalKept
      <4>3. finalization' = [finalization EXCEPT !.prefix_written = TRUE]
        BY <3>3 DEF TerminalPrefix
      <4>4. /\ finalization'.phase = finalization.phase
            /\ finalization'.plan = finalization.plan
            /\ finalization'.prefix_written = TRUE
            /\ finalization'.components_written = k
        BY <2>0, <4>3 DEF SummaryInv, FinalizationTyped
      <4>5. finalization'.components_written >= k
        BY <2>0, <4>4
      <4> QED
        BY <4>2, <4>4, <4>5 DEF KeepsPlan
    <3>4. ASSUME NEW due, ComponentWritten(due) PROVE KeepsPlan
      <4>1. /\ publish_media /\ RowCount(pending) = 1 /\ HasComponent(pending)
            /\ finalization' = [finalization EXCEPT !.components_written = k + 1,
                                                    !.recovery_required = FALSE]
        BY <3>4 DEF ComponentWritten
      <4>2. NoneOf(pending.rows, "Object")
        <5>1. /\ DOMAIN pending.rows
                   = media.next_file..(pending.media.next_file - 1)
              /\ media.next_file \in Nat /\ pending.media.next_file \in Nat
          BY <2>0, GroupFacts DEF GroupInv, GroupLayout, Contiguous
        <5>2. \A n, m \in DOMAIN pending.rows : n = m
          BY <4>1, <5>1 DEF RowCount
        <5> QED
          BY <4>1, <5>2 DEF HasComponent, HasKind, NoneOf
      <4>3. media'.total = media.total
        BY <2>0, <4>1, <4>2, TotalKept
      <4>4. /\ finalization'.phase = finalization.phase
            /\ finalization'.plan = finalization.plan
            /\ finalization'.prefix_written = finalization.prefix_written
            /\ finalization'.components_written = k + 1
        BY <2>0, <4>1 DEF SummaryInv, FinalizationTyped
      <4>5. finalization'.components_written >= k
        BY <2>0, <4>4
      <4> QED
        BY <4>3, <4>4, <4>5 DEF KeepsPlan
    <3> QED
      BY <2>6, <3>1, <3>2, <3>3, <3>4 DEF CloseMedia
  <2>7. CASE CloseFinalization
    <3>1. ASSUME NEW prepared, NEW plan, Plan(prepared, plan) PROVE KeepsPlan
      BY <3>1 DEF Plan, Supersedes
    <3>2. ASSUME NEW flag,
                 finalization' = [finalization EXCEPT !.recovery_required = flag],
                 media' = media
          PROVE  KeepsPlan
      <4>1. /\ finalization'.phase = finalization.phase
            /\ finalization'.plan = finalization.plan
            /\ finalization'.prefix_written = finalization.prefix_written
            /\ finalization'.components_written = k
        BY <2>0, <3>2 DEF SummaryInv, FinalizationTyped
      <4>2. finalization'.components_written >= k
        BY <2>0, <4>1
      <4> QED
        BY <3>2, <4>1, <4>2 DEF KeepsPlan
    <3>3. CASE Sealed
      BY <3>2, <3>3 DEF Sealed, MetadataOnly
    <3>4. CASE FinalizationPreparationRetired
      BY <3>4 DEF FinalizationPreparationRetired
    <3>5. CASE FinalizationRecoveryRequired
      BY <3>2, <3>5 DEF FinalizationRecoveryRequired, MetadataOnly
    <3> QED
      BY <2>7, <3>1, <3>3, <3>4, <3>5 DEF CloseFinalization
  <2> QED
    BY <1>1, <2>2, <2>3, <2>4, <2>5, <2>6, <2>7 DEF Next
<1> QED
  BY <1>1, Invariance, PTL DEF Spec, PlanIsFinal

(* A preparation is retired or becomes exactly the plan it states.          *)
THEOREM PreparationBinds == Spec => PreparationIsBinding
<1>1. ASSUME IndInv, [Next]_vars PROVE BindsPreparation
  <2> SUFFICES ASSUME finalization.phase = "prepared" PROVE BindsPreparation
    BY DEF BindsPreparation
  <2>1. ASSUME finalization' = finalization PROVE BindsPreparation
    BY <2>1 DEF BindsPreparation
  <2>2. CASE PushFrame \/ Refuse \/ TornTail
    BY <2>1, <2>2, FrameContinues DEF Continuation, Refuse, TornTail, summary
  <2>3. CASE CloseSession
    BY <2>1, <2>3 DEF CloseSession, SessionOpened, SessionEnded, SessionTailEod
  <2>4. CASE UNCHANGED vars
    BY <2>1, <2>4 DEF vars, summary
  <2>5. CASE Initialized
    BY <2>1, <2>5 DEF Initialized
  <2>6. CASE CloseMedia
    BY <2>6 DEF CloseMedia, ClosedOut, Committed, TerminalPrefix,
                ComponentWritten, NoFinalizationYet, AcceptedPlan
  <2>7. CASE CloseFinalization
    <3>1. ASSUME NEW prepared, NEW plan, Plan(prepared, plan) PROVE BindsPreparation
      BY <3>1 DEF Plan, Supersedes, BindsPreparation
    <3>2. CASE FinalizationPreparationRetired
      BY <3>2 DEF FinalizationPreparationRetired, NoFinalization, BindsPreparation
    <3>3. ASSUME NEW flag,
                 finalization' = [finalization EXCEPT !.recovery_required = flag]
          PROVE  BindsPreparation
      BY <1>1, <3>3 DEF BindsPreparation, IndInv, SummaryInv, FinalizationTyped
    <3>4. CASE Sealed
      BY <3>4 DEF Sealed, AcceptedPlan
    <3>5. CASE FinalizationRecoveryRequired
      BY <3>3, <3>5 DEF FinalizationRecoveryRequired
    <3> QED
      BY <2>7, <3>1, <3>2, <3>4, <3>5 DEF CloseFinalization
  <2> QED
    BY <1>1, <2>2, <2>3, <2>4, <2>5, <2>6, <2>7 DEF Next
<1> QED
  BY <1>1, Invariance, PTL DEF Spec, PreparationIsBinding

--------------------------------------------------------------------------------
(* The append base *)

(* The report is the boundary until a file of an accepted plan is published: *)
(* a preparation whose prefix is empty may still be retired.                 *)
ReportInv ==
    \/ finalization.phase # "accepted"
    \/ ~finalization.prefix_written /\ finalization.components_written = 0
    => latest_report = Boundary(media)

LEMMA ReportInit == Init => ReportInv
BY DEF Init, ReportInv, latest_report

LEMMA ReportStep == IndInv /\ ReportInv /\ [Next]_vars => ReportInv'
<1> SUFFICES ASSUME IndInv, ReportInv, [Next]_vars PROVE ReportInv'
  OBVIOUS
<1>1. SummaryInv /\ GroupInv
  BY DEF IndInv
<1>2. DOMAIN finalization = {"phase", "plan", "prefix_written", "components_written",
                             "recovery_required"}
  BY <1>1 DEF SummaryInv, FinalizationTyped
<1>3. ASSUME UNCHANGED <<media, last_ordinary, last_closeout>>,
             \/ finalization.phase # "accepted"
             \/ /\ finalization'.phase = finalization.phase
                /\ finalization'.prefix_written = finalization.prefix_written
                /\ finalization'.components_written = finalization.components_written
      PROVE  ReportInv'
  BY <1>3 DEF ReportInv, latest_report, Boundary
<1>4. ASSUME publish_media
      PROVE  Boundary(media)' = Boundary(pending.media)
  BY <1>1, <1>4, PublishedMedia DEF Boundary
<1>5. CASE Initialized
  <2>1. UNCHANGED <<last_ordinary, last_closeout, finalization>>
    BY <1>5 DEF Initialized
  <2>2. Boundary(media) = NoBoundary /\ finalization.phase = "none"
    BY <1>5 DEF Initialized, IndInv, FreshInv, Boundary, NoBoundary
  <2>3. last_ordinary = NoBoundary
    BY <2>2 DEF ReportInv, latest_report
  <2> QED BY <2>1, <2>3 DEF ReportInv, latest_report
<1>6. CASE PushFrame
  BY <1>3, <1>6, FrameContinues DEF Continuation, summary
<1>7. CASE CloseSession
  BY <1>3, <1>7 DEF CloseSession, SessionOpened, SessionEnded, SessionTailEod, MetadataOnly
<1>8. CASE CloseMedia
  <2>1. ASSUME ClosedOut PROVE ReportInv'
    <3>1. last_closeout' = Boundary(media)' /\ last_ordinary' = last_ordinary
      BY <1>4, <2>1 DEF ClosedOut
    <3>2. Boundary(media)'.file # 0
      <4>1. pending.media.next_file = media.next_file + 1 /\ media.next_file \in Nat
        BY <1>1, <2>1, GroupFacts DEF ClosedOut, RowCount
      <4> QED BY <1>4, <2>1, <4>1 DEF ClosedOut, Boundary
    <3>3. Boundary(media)' # NoBoundary
      BY <3>2 DEF NoBoundary
    <3> QED BY <3>1, <3>3 DEF ReportInv, latest_report
  <2>2. ASSUME NEW due, Committed(due) PROVE ReportInv'
    <3>1. last_ordinary' = Boundary(media)' /\ last_closeout' = NoBoundary
      BY <1>4, <2>2 DEF Committed, ReportCommit
    <3> QED BY <3>1 DEF ReportInv, latest_report
  <2>3. ASSUME NEW due, TerminalPrefix(due) PROVE ReportInv'
    BY <1>2, <2>3 DEF TerminalPrefix, AcceptedPlan, ReportInv
  <2>4. ASSUME NEW due, ComponentWritten(due) PROVE ReportInv'
    BY <1>2, <2>4 DEF ComponentWritten, AcceptedPlan, ReportInv
  <2> QED BY <1>8, <2>1, <2>2, <2>3, <2>4 DEF CloseMedia
<1>9. CASE CloseFinalization
  <2>1. ASSUME NEW prepared, NEW plan, Plan(prepared, plan) PROVE ReportInv'
    BY <1>3, <2>1 DEF Plan, Supersedes, MetadataOnly
  <2>2. ASSUME Sealed \/ FinalizationPreparationRetired \/ FinalizationRecoveryRequired
        PROVE  ReportInv'
    BY <1>2, <1>3, <2>2 DEF Sealed, FinalizationPreparationRetired,
       FinalizationRecoveryRequired, MetadataOnly
  <2> QED BY <1>9, <2>1, <2>2 DEF CloseFinalization
<1>10. CASE Refuse \/ TornTail \/ UNCHANGED vars
  BY <1>3, <1>10 DEF Refuse, TornTail, vars, summary
<1> QED BY <1>5, <1>6, <1>7, <1>8, <1>9, <1>10 DEF Next

(* The base that recovery appends from is the tape's real boundary until    *)
(* the first file of a plan is published, through closeouts, commits after  *)
(* them and plans that are retired (latest_report).                         *)
THEOREM ReportTrue == Spec => []ReportIsBoundary
<1>1. ReportInv => ReportIsBoundary
  BY DEF ReportInv, ReportIsBoundary
<1>2. Spec => []ReportInv
  BY ReportInit, ReportStep, Invariance, PTL DEF Spec
<1> QED BY <1>1, <1>2, PTL

--------------------------------------------------------------------------------
(* The partition of the ordinals *)

(* The files of a kind among the first h tile the ordinals below to, in     *)
(* file order.                                                              *)
Tiles(rows, h, kind, to) ==
    /\ \A o \in 0..(to - 1) : \E n \in 0..(h - 1) :
         rows[n].kind = kind /\ rows[n].first <= o /\ o < rows[n].end
    /\ \A n \in 0..(h - 1) : rows[n].kind = kind => rows[n].end <= to
    /\ \A n, k \in 0..(h - 1) :
         rows[n].kind = kind /\ rows[k].kind = kind /\ n < k
           => rows[n].end <= rows[k].first

(* The sidecars among the first h files are numbered from 0 in file order,  *)
(* and epoch is the next number.                                            *)
SidecarsBefore(rows, n) == {k \in 0..(n - 1) : rows[k].kind = "ParitySidecar"}
Numbered(rows, h, epoch) ==
    /\ \A n \in 0..(h - 1) : rows[n].kind = "ParitySidecar" =>
         rows[n].epoch = Cardinality(SidecarsBefore(rows, n))
    /\ epoch = Cardinality(SidecarsBefore(rows, h))

Partitioned(rows, m) ==
    Parity => /\ Tiles(rows, m.next_file, "Object", m.total)
              /\ Tiles(rows, m.next_file, "ParitySidecar", m.protected)
              /\ Numbered(rows, m.next_file, m.next_epoch)

(* The published files partition the ordinals, and so do they with the      *)
(* pending group's.                                                         *)
PartitionInv == /\ Partitioned(files, media)
                /\ Partitioned(Merge(files, pending.rows), pending.media)

(* The partition depends on the kind, the range and the epoch of a row. *)
SameRow(r, q) == /\ r.kind = q.kind /\ r.first = q.first
                 /\ r.end = q.end /\ r.epoch = q.epoch
SameRows(r, q, h) == \A n \in 0..(h - 1) : SameRow(r[n], q[n])
SameCounts(m, q) == /\ m.next_file = q.next_file /\ m.total = q.total
                    /\ m.protected = q.protected /\ m.next_epoch = q.next_epoch

(* Files that agree up to n have the same sidecars before n. *)
LEMMA SidecarsSame ==
    ASSUME NEW r, NEW q, NEW h \in Nat, SameRows(r, q, h),
           NEW n \in 0..h
    PROVE  SidecarsBefore(r, n) = SidecarsBefore(q, n)
BY DEF SidecarsBefore, SameRows, SameRow

(* Stamping rows or dropping a group leaves a partition as it was. *)
LEMMA PartitionSame ==
    ASSUME NEW r, NEW q, NEW m, NEW m2, m.next_file \in Nat,
           SameRows(r, q, m.next_file), SameCounts(m, m2), Partitioned(r, m)
    PROVE  Partitioned(q, m2)
<1> DEFINE h == m.next_file
<1> SUFFICES ASSUME Parity PROVE Partitioned(q, m2)
  BY DEF Partitioned
<1>1. ASSUME NEW kind, NEW to, Tiles(r, h, kind, to)
      PROVE  Tiles(q, h, kind, to)
  <2>1. \A n \in 0..(h - 1) : /\ r[n].kind = q[n].kind /\ r[n].first = q[n].first
                              /\ r[n].end = q[n].end
    BY DEF SameRows, SameRow
  <2> QED BY <1>1, <2>1 DEF Tiles
<1>2. ASSUME NEW epoch, Numbered(r, h, epoch) PROVE Numbered(q, h, epoch)
  <2>1. ASSUME NEW n \in 0..(h - 1), q[n].kind = "ParitySidecar"
        PROVE  q[n].epoch = Cardinality(SidecarsBefore(q, n))
    <3>1. r[n].kind = "ParitySidecar" /\ r[n].epoch = q[n].epoch
      BY <2>1 DEF SameRows, SameRow
    <3>2. SidecarsBefore(r, n) = SidecarsBefore(q, n)
      BY SidecarsSame
    <3> QED BY <1>2, <3>1, <3>2 DEF Numbered
  <2>2. SidecarsBefore(r, h) = SidecarsBefore(q, h)
    BY SidecarsSame
  <2> QED BY <1>2, <2>1, <2>2 DEF Numbered
<1> QED BY <1>1, <1>2 DEF Partitioned, SameCounts

(* The next file extends the tiling of its kind by its own range. *)
LEMMA TilesPush ==
    ASSUME NEW r, NEW q, NEW h \in Nat, NEW kind, NEW to \in Nat, NEW end \in Nat,
           \A n \in 0..(h - 1) : q[n] = r[n],
           \A n \in 0..(h - 1) : r[n].first \in Nat /\ r[n].end \in Nat,
           Tiles(r, h, kind, to),
           \/ q[h].kind # kind /\ end = to
           \/ q[h].kind = kind /\ q[h].first = to /\ q[h].end = end /\ to <= end
    PROVE  Tiles(q, h + 1, kind, end)
<1>1. \A n \in 0..(h + 1 - 1) : n \in 0..(h - 1) \/ n = h
  OBVIOUS
<1>2. to <= end
  OBVIOUS
<1>3. ASSUME NEW o \in 0..(end - 1)
      PROVE  \E n \in 0..(h + 1 - 1) :
               q[n].kind = kind /\ q[n].first <= o /\ o < q[n].end
  <2>1. CASE o < to
    <3>1. PICK n \in 0..(h - 1) :
            r[n].kind = kind /\ r[n].first <= o /\ o < r[n].end
      BY <2>1 DEF Tiles
    <3> QED BY <3>1
  <2>2. CASE ~(o < to)
    <3>1. q[h].kind = kind /\ q[h].first = to /\ q[h].end = end
      BY <2>2
    <3> QED BY <2>2, <3>1
  <2> QED BY <2>1, <2>2
<1>4. ASSUME NEW n \in 0..(h + 1 - 1), q[n].kind = kind PROVE q[n].end <= end
  <2>1. CASE n = h
    BY <1>4, <2>1
  <2>2. CASE n \in 0..(h - 1)
    <3>1. r[n].end <= to /\ r[n].end \in Nat
      BY <1>4, <2>2 DEF Tiles
    <3> QED BY <1>2, <2>2, <3>1
  <2> QED BY <1>1, <2>1, <2>2
<1>5. ASSUME NEW n \in 0..(h + 1 - 1), NEW k \in 0..(h + 1 - 1),
             q[n].kind = kind, q[k].kind = kind, n < k
      PROVE  q[n].end <= q[k].first
  <2>1. n \in 0..(h - 1)
    BY <1>5
  <2>2. CASE k = h
    BY <1>5, <2>1, <2>2 DEF Tiles
  <2>3. CASE k \in 0..(h - 1)
    BY <1>5, <2>1, <2>3 DEF Tiles
  <2> QED BY <1>1, <2>2, <2>3
<1> QED BY <1>3, <1>4, <1>5 DEF Tiles

(* Finitely many sidecars precede a file. *)
LEMMA SidecarsFinite ==
    ASSUME NEW r, NEW n \in Nat
    PROVE  /\ IsFiniteSet(SidecarsBefore(r, n))
           /\ Cardinality(SidecarsBefore(r, n)) \in Nat
<1>1. IsFiniteSet(0..(n - 1))
  BY FS_Interval
<1>2. SidecarsBefore(r, n) \subseteq 0..(n - 1)
  BY DEF SidecarsBefore
<1>3. IsFiniteSet(SidecarsBefore(r, n))
  BY <1>1, <1>2, FS_Subset
<1> QED BY <1>3, FS_CardinalityType

(* A sidecar takes the next number; another file takes none. *)
LEMMA NumberedPush ==
    ASSUME NEW r, NEW q, NEW h \in Nat, NEW epoch, NEW next,
           \A n \in 0..(h - 1) : q[n] = r[n],
           Numbered(r, h, epoch),
           \/ q[h].kind # "ParitySidecar" /\ next = epoch
           \/ q[h].kind = "ParitySidecar" /\ q[h].epoch = epoch /\ next = epoch + 1
    PROVE  Numbered(q, h + 1, next)
<1>1. SameRows(r, q, h)
  BY DEF SameRows, SameRow
<1>2. \A n \in 0..h : SidecarsBefore(q, n) = SidecarsBefore(r, n)
  BY <1>1, SidecarsSame
<1>3. ASSUME NEW n \in 0..(h + 1 - 1), q[n].kind = "ParitySidecar"
      PROVE  q[n].epoch = Cardinality(SidecarsBefore(q, n))
  <2>1. CASE n = h
    BY <1>2, <1>3, <2>1 DEF Numbered
  <2>2. CASE n \in 0..(h - 1)
    BY <1>2, <1>3, <2>2 DEF Numbered
  <2> QED BY <2>1, <2>2
<1>4. next = Cardinality(SidecarsBefore(q, h + 1))
  <2>1. CASE q[h].kind # "ParitySidecar"
    <3>1. SidecarsBefore(q, h + 1) = SidecarsBefore(q, h)
      BY <2>1 DEF SidecarsBefore
    <3>2. next = epoch
      BY <2>1
    <3> QED BY <1>2, <3>1, <3>2 DEF Numbered
  <2>2. CASE q[h].kind = "ParitySidecar"
    <3>1. SidecarsBefore(q, h + 1) = SidecarsBefore(q, h) \cup {h}
      BY <2>2 DEF SidecarsBefore
    <3>2. h \notin SidecarsBefore(q, h)
      BY DEF SidecarsBefore
    <3>3. Cardinality(SidecarsBefore(q, h) \cup {h})
            = Cardinality(SidecarsBefore(q, h)) + 1
      BY <3>2, SidecarsFinite, FS_AddElement
    <3>4. next = epoch + 1
      BY <2>2
    <3> QED BY <1>2, <3>1, <3>3, <3>4 DEF Numbered
  <2> QED BY <2>1, <2>2
<1> QED BY <1>3, <1>4 DEF Numbered

(* The files of the summary and of the group, one after the other. *)
LEMMA GroupRows ==
    ASSUME SummaryInv, GroupInv
    PROVE  LET all == Merge(files, pending.rows)
               h == pending.media.next_file
           IN /\ h \in Nat /\ media.next_file \in Nat
              /\ DOMAIN files = 0..(media.next_file - 1)
              /\ DOMAIN pending.rows = media.next_file..(h - 1)
              /\ media.next_file <= h
              /\ \A n \in 0..(h - 1) : all[n] \in RowType
              /\ \A n \in DOMAIN files : all[n] = files[n]
              /\ \A n \in DOMAIN pending.rows : all[n] = pending.rows[n]
<1>1. /\ pending.media.next_file \in Nat /\ media.next_file \in Nat
  BY GroupFacts
<1>2. /\ DOMAIN files = 0..(media.next_file - 1)
      /\ DOMAIN pending.rows = media.next_file..(pending.media.next_file - 1)
      /\ media.next_file <= pending.media.next_file
      /\ \A n \in DOMAIN files : files[n] \in RowType
      /\ \A n \in DOMAIN pending.rows : pending.rows[n] \in RowType
  BY DEF SummaryInv, FilesInv, Contiguous, GroupInv, GroupLayout, GroupTyped
<1>3. /\ \A n \in DOMAIN pending.rows : Merge(files, pending.rows)[n] = pending.rows[n]
      /\ \A n \in DOMAIN files : n \notin DOMAIN pending.rows
           => Merge(files, pending.rows)[n] = files[n]
  BY DEF Merge
<1>4. \A n \in 0..(pending.media.next_file - 1) :
        n \in DOMAIN files \/ n \in DOMAIN pending.rows
  BY <1>1, <1>2
<1>5. \A n \in DOMAIN files : n \notin DOMAIN pending.rows
  BY <1>1, <1>2
<1>6. /\ \A n \in DOMAIN files : Merge(files, pending.rows)[n] = files[n]
      /\ \A n \in 0..(pending.media.next_file - 1) :
           Merge(files, pending.rows)[n] \in RowType
  BY <1>2, <1>3, <1>4, <1>5
<1> QED BY <1>1, <1>2, <1>3, <1>6

(* A row pushed to the group (apply_row) keeps the partition when an Object *)
(* starts at T and a sidecar at W with the next epoch.                      *)
LEMMA PartitionPush ==
    ASSUME SummaryInv, GroupInv, PartitionInv, UNCHANGED <<files, media>>,
           NEW m, NEW row, row \in RowType, RowEffect(m, row), Parity,
           m.total \in Nat, m.protected \in Nat,
           \/ /\ row.kind = "Object"
              /\ row.first = pending.media.total /\ row.end = m.total
              /\ pending.media.total <= m.total
           \/ row.kind # "Object" /\ m.total = pending.media.total,
           \/ /\ row.kind = "ParitySidecar" /\ row.epoch = pending.media.next_epoch
              /\ row.first = pending.media.protected /\ row.end = m.protected
              /\ pending.media.protected <= m.protected
              /\ m.next_epoch = pending.media.next_epoch + 1
           \/ /\ row.kind # "ParitySidecar"
              /\ m.protected = pending.media.protected
              /\ m.next_epoch = pending.media.next_epoch
    PROVE  PartitionInv'
<1> DEFINE r == Merge(files, pending.rows)
           q == Merge(files, pending'.rows)
           h == pending.media.next_file
           one == [n \in {h} |-> row]
<1>1. /\ h \in Nat /\ media.next_file \in Nat
      /\ DOMAIN files = 0..(media.next_file - 1)
      /\ DOMAIN pending.rows = media.next_file..(h - 1)
      /\ media.next_file <= h
      /\ \A n \in 0..(h - 1) : r[n] \in RowType
      /\ \A n \in DOMAIN files : r[n] = files[n]
      /\ \A n \in DOMAIN pending.rows : r[n] = pending.rows[n]
  BY GroupRows
<1>2. pending.media.total \in Nat /\ pending.media.protected \in Nat
  BY GroupFacts
<1>3. /\ DOMAIN pending'.rows = DOMAIN pending.rows \cup {h}
      /\ pending'.rows[h] = row
      /\ \A n \in DOMAIN pending.rows : n # h => pending'.rows[n] = pending.rows[n]
  BY DEF Merge, RowEffect
<1>4. /\ \A n \in DOMAIN pending'.rows : q[n] = pending'.rows[n]
      /\ \A n \in DOMAIN files : n \notin DOMAIN pending'.rows => q[n] = files[n]
  BY DEF Merge
<1> HIDE DEF r, q
<1>5. q[h] = row
  BY <1>3, <1>4
<1>6. ASSUME NEW n \in 0..(h - 1) PROVE q[n] = r[n]
  <2>1. CASE n \in DOMAIN files
    <3>1. n \notin DOMAIN pending'.rows
      BY <1>1, <1>3, <2>1
    <3> QED BY <1>1, <1>4, <2>1, <3>1
  <2>2. CASE n \in DOMAIN pending.rows
    <3>1. n # h
      BY <1>1
    <3> QED BY <1>1, <1>3, <1>4, <2>2, <3>1
  <2> QED BY <1>1, <2>1, <2>2
<1>7. \A n \in 0..(h - 1) : r[n].first \in Nat /\ r[n].end \in Nat
  BY <1>1 DEF RowType
<1>8. /\ Tiles(r, h, "Object", pending.media.total)
      /\ Tiles(r, h, "ParitySidecar", pending.media.protected)
      /\ Numbered(r, h, pending.media.next_epoch)
  BY DEF PartitionInv, Partitioned, r
<1>9. Tiles(q, h + 1, "Object", m.total)
  BY <1>1, <1>2, <1>5, <1>6, <1>7, <1>8, TilesPush
<1>10. Tiles(q, h + 1, "ParitySidecar", m.protected)
  BY <1>1, <1>2, <1>5, <1>6, <1>7, <1>8, TilesPush
<1>11. Numbered(q, h + 1, m.next_epoch)
  BY <1>1, <1>5, <1>6, <1>8, NumberedPush
<1>12. /\ pending'.media.next_file = h + 1 /\ pending'.media.total = m.total
       /\ pending'.media.protected = m.protected
       /\ pending'.media.next_epoch = m.next_epoch
  BY DEF RowEffect
<1>13. Partitioned(q, pending'.media)
  BY <1>9, <1>10, <1>11, <1>12 DEF Partitioned
<1> QED BY <1>13 DEF PartitionInv, q, Partitioned

(* Without parity there is nothing to partition. *)
LEMMA NoParity == ~Parity => PartitionInv'
BY DEF PartitionInv, Partitioned

(* An Object takes the ordinals from T. *)
LEMMA PushObjectPartition ==
    ASSUME SummaryInv, GroupInv, PartitionInv,
           NEW blocks \in BlockCounts, PushObject(blocks)
    PROVE  PartitionInv'
<1> DEFINE pm == pending.media
           m == ObjectMedia(pm, blocks)
           end == pm.total + blocks
           row == Row(pending, "Object", blocks, pm.total, end, 0, open_session)
<1> SUFFICES ASSUME Parity PROVE PartitionInv'
  BY NoParity
<1>1. UNCHANGED <<files, media>>
  BY DEF PushObject, Continuation, summary
<1>2. /\ DOMAIN pm = MediaFields /\ pm.total \in Nat /\ pm.protected \in Nat
      /\ pm.cursor \in Nat
  BY GroupFacts
<1>3. blocks \in Nat
  BY ConstantsAssumption
<1>4. open_session \in Sessions \cup {None} /\ "Object" \in Kinds
  BY DEF SummaryInv, ScalarsTyped, Kinds
<1>5. /\ row \in RowType /\ row.kind = "Object"
      /\ row.first = pm.total /\ row.end = end
  BY <1>2, <1>3, <1>4 DEF Row, RowType
<1>6. pending' = [PushRow(pending, m, row) EXCEPT !.catalog = TRUE]
  BY DEF PushObject
<1>7. /\ DOMAIN m = MediaFields
      /\ m.protected = pm.protected /\ m.total = end
      /\ m.next_epoch = pm.next_epoch
  BY <1>2 DEF ObjectMedia, MediaFields
<1>8. end \in Nat /\ pm.total <= end
  BY <1>2, <1>3
<1> HIDE DEF m, end, row
<1>9. RowEffect(m, row)
  BY <1>5, <1>6, <1>7, PushEffect
<1> QED BY <1>1, <1>2, <1>5, <1>7, <1>8, <1>9, PartitionPush

(* A sidecar covers the ordinals from W as the next epoch. *)
LEMMA PushSidecarPartition ==
    ASSUME SummaryInv, GroupInv, PartitionInv,
           NEW blocks \in BlockCounts, NEW end \in 1..MaxLba,
           PushSidecar(blocks, end)
    PROVE  PartitionInv'
<1> DEFINE pm == pending.media
           m == SidecarMedia(pm, end)
           row == Row(pending, "ParitySidecar", blocks, pm.protected, end,
                      pm.next_epoch, None)
<1>1. UNCHANGED <<files, media>>
  BY DEF PushSidecar, Continuation, summary
<1>2. /\ DOMAIN pm = MediaFields /\ pm.total \in Nat /\ pm.protected \in Nat
      /\ pm.cursor \in Nat /\ pm.next_epoch \in Nat
  BY GroupFacts
<1>3. blocks \in Nat /\ end \in Nat
  BY ConstantsAssumption
<1>4. "ParitySidecar" \in Kinds /\ None \in Sessions \cup {None}
  BY DEF Kinds
<1>5. /\ row \in RowType /\ row.kind = "ParitySidecar"
      /\ row.first = pm.protected /\ row.end = end
      /\ row.epoch = pm.next_epoch
  BY <1>2, <1>3, <1>4 DEF Row, RowType
<1>6. pending' = PushRow(pending, m, row)
  BY DEF PushSidecar
<1>7. /\ DOMAIN m = MediaFields
      /\ m.protected = end /\ m.total = pm.total
      /\ m.next_epoch = pm.next_epoch + 1
  BY <1>2, SidecarMediaFields
<1>8. Parity /\ pm.protected <= end
  BY <1>2, <1>3 DEF PushSidecar, SidecarCovers
<1> HIDE DEF m, row
<1>9. RowEffect(m, row)
  BY <1>5, <1>6, <1>7, PushEffect
<1> QED BY <1>1, <1>2, <1>3, <1>5, <1>7, <1>8, <1>9, PartitionPush

(* A map or a terminal component owns no ordinal. *)
LEMMA PlainPartition ==
    ASSUME SummaryInv, GroupInv, PartitionInv, UNCHANGED <<files, media>>,
           NEW kind \in Kinds \ {"Object", "ParitySidecar"}, NEW blocks \in Nat,
           pending' = PushRow(pending, pending.media,
                              Row(pending, kind, blocks, 0, 0, 0, None))
    PROVE  PartitionInv'
<1> DEFINE row == Row(pending, kind, blocks, 0, 0, 0, None)
<1> SUFFICES ASSUME Parity PROVE PartitionInv'
  BY NoParity
<1>1. /\ DOMAIN pending.media = MediaFields /\ pending.media.total \in Nat
      /\ pending.media.protected \in Nat /\ pending.media.cursor \in Nat
  BY GroupFacts
<1>2. row \in RowType /\ row.kind = kind
  BY <1>1 DEF Row, RowType
<1> HIDE DEF row
<1>3. RowEffect(pending.media, row)
  BY <1>1, <1>2, PushEffect DEF row
<1> QED BY <1>1, <1>2, <1>3, PartitionPush

(* A frame that pushes no row leaves the partition. *)
LEMMA RowlessPartition ==
    ASSUME PartitionInv, UNCHANGED <<files, media>>,
           pending'.rows = pending.rows, pending'.media = pending.media
    PROVE  PartitionInv'
BY DEF PartitionInv, Partitioned

(* Every continuation frame keeps the partition. *)
LEMMA FramePartition ==
    ASSUME IndInv, PartitionInv, PushFrame
    PROVE  PartitionInv'
<1>1. SummaryInv /\ GroupInv
  BY DEF IndInv
<1>2. UNCHANGED <<files, media>>
  BY FrameContinues DEF Continuation, summary
<1>3. DOMAIN pending = GroupFields
  BY <1>1, GroupFacts
<1>4. ASSUME NEW b \in BlockCounts, PushObject(b) PROVE PartitionInv'
  BY <1>1, <1>4, PushObjectPartition
<1>5. ASSUME NEW b \in BlockCounts, PushMap(b) PROVE PartitionInv'
  <2>1. b \in Nat /\ "ParityMap" \in Kinds \ {"Object", "ParitySidecar"}
    BY ConstantsAssumption DEF Kinds
  <2> QED BY <1>1, <1>2, <1>5, <2>1, PlainPartition DEF PushMap
<1>6. ASSUME NEW b \in BlockCounts, NEW end \in 1..MaxLba, PushSidecar(b, end)
      PROVE  PartitionInv'
  BY <1>1, <1>6, PushSidecarPartition
<1>7. ASSUME PushComponent PROVE PartitionInv'
  <2> DEFINE k == finalization.components_written
             records == ComponentRecords(finalization.plan, k)
  <2>1. records \in Nat
    BY <1>1 DEF SummaryInv, FinalizationTyped, ComponentRecords
  <2>2. ComponentKind(k) \in Kinds \ {"Object", "ParitySidecar"}
    BY DEF ComponentKind, Kinds
  <2>3. pending' = PushRow(pending, pending.media,
                           Row(pending, ComponentKind(k), records, 0, 0, 0, None))
    BY <1>7 DEF PushComponent
  <2> HIDE DEF k, records
  <2> QED BY <1>1, <1>2, <2>1, <2>2, <2>3, PlainPartition
<1>8. ASSUME PushCatalog \/ PushDirectory PROVE PartitionInv'
  <2>1. pending'.rows = pending.rows /\ pending'.media = pending.media
    BY <1>3, <1>8 DEF PushCatalog, PushDirectory, GroupFields
  <2> QED BY <1>2, <2>1, RowlessPartition
<1>9. ASSUME NEW known, NEW unknown, NEW filemark, NEW synced, NEW synced_mark,
             NEW torn,
             PushTailFile(known, unknown, filemark, synced, synced_mark, torn)
      PROVE  PartitionInv'
  <2>1. pending'.rows = pending.rows /\ pending'.media = pending.media
    BY <1>3, <1>9 DEF PushTailFile, GroupFields
  <2> QED BY <1>2, <2>1, RowlessPartition
<1> QED BY <1>4, <1>5, <1>6, <1>7, <1>8, <1>9 DEF PushFrame

(* A new group extends the published partition by nothing. *)
LEMMA FreshPartition ==
    ASSUME NEW f, NEW m, DOMAIN m = MediaFields, m.next_file \in Nat,
           DOMAIN f = 0..(m.next_file - 1), Partitioned(f, m)
    PROVE  Partitioned(Merge(f, NewGroup(m).rows), NewGroup(m).media)
<1>1. SameCounts(m, NewGroup(m).media) /\ NewGroup(m).rows = EmptyFn
  BY NewGroupFields DEF SameCounts
<1>2. \A n \in DOMAIN f : Merge(f, EmptyFn)[n] = f[n]
  BY DEF Merge, EmptyFn
<1>3. SameRows(f, Merge(f, EmptyFn), m.next_file)
  BY <1>2 DEF SameRows, SameRow
<1> QED BY <1>1, <1>3, PartitionSame

(* The published rows are the group's, stamped (publish_media). *)
LEMMA PublishedPartition ==
    ASSUME SummaryInv, GroupInv, PartitionInv, publish_media
    PROVE  Partitioned(files', media')
<1> DEFINE r == Merge(files, pending.rows)
           h == pending.media.next_file
<1>1. /\ h \in Nat /\ media.next_file \in Nat
      /\ DOMAIN files = 0..(media.next_file - 1)
      /\ DOMAIN pending.rows = media.next_file..(h - 1)
      /\ \A n \in DOMAIN files : r[n] = files[n]
      /\ \A n \in DOMAIN pending.rows : r[n] = pending.rows[n]
  BY GroupRows
<1>2. \A n \in DOMAIN pending.rows : pending.rows[n] \in RowType
  BY DEF GroupInv, GroupTyped
<1>3. /\ \A n \in DOMAIN files : files'[n] = files[n]
      /\ \A n \in DOMAIN pending.rows :
           /\ files'[n].kind = pending.rows[n].kind
           /\ files'[n].first = pending.rows[n].first
           /\ files'[n].end = pending.rows[n].end
  BY PublishedFiles
<1>4. ASSUME NEW n \in DOMAIN pending.rows
      PROVE  files'[n].epoch = pending.rows[n].epoch
  <2>1. files'[n] = [pending.rows[n] EXCEPT !.at = closed + 1]
    BY DEF publish_media, Merge, Stamped
  <2> QED BY <1>2, <2>1 DEF RowType
<1> HIDE DEF r
<1>5. ASSUME NEW n \in 0..(h - 1) PROVE SameRow(r[n], files'[n])
  <2>1. n \in DOMAIN files \/ n \in DOMAIN pending.rows
    BY <1>1
  <2> QED BY <1>1, <1>3, <1>4, <2>1 DEF SameRow
<1>6. SameRows(r, files', h)
  BY <1>5 DEF SameRows
<1>7. SameCounts(pending.media, media')
  BY PublishedMedia DEF SameCounts
<1>8. Partitioned(r, pending.media)
  BY DEF PartitionInv, r
<1> QED BY <1>1, <1>6, <1>7, <1>8, PartitionSame

(* The bootstrap is the first file and owns no ordinal. *)
LEMMA InitializedPartition ==
    ASSUME IndInv, PartitionInv, Initialized
    PROVE  Partitioned(files', media')
<1> SUFFICES ASSUME Parity PROVE Partitioned(files', media')
  BY DEF Partitioned
<1>1. /\ media.next_file = 0 /\ media.total = 0 /\ media.protected = 0
      /\ DOMAIN media = MediaFields
  BY DEF Initialized, IndInv, FreshInv, SummaryInv, MediaTyped
<1>2. media' = [media EXCEPT !.cursor = 2, !.next_file = 1]
  BY DEF Initialized
<1>3. /\ media'.next_file = 1 /\ media'.total = 0 /\ media'.protected = 0
      /\ media'.next_epoch = media.next_epoch
  BY <1>1, <1>2 DEF MediaFields
<1>4. files'[0].kind = "Bootstrap"
  BY DEF Initialized
<1>5. Numbered(files, 0, media.next_epoch)
  BY <1>1 DEF PartitionInv, Partitioned
<1>6. Numbered(files', 0 + 1, media.next_epoch)
  BY <1>4, <1>5, NumberedPush
<1>7. Tiles(files', 1, "Object", 0) /\ Tiles(files', 1, "ParitySidecar", 0)
  BY <1>4 DEF Tiles
<1> QED BY <1>3, <1>6, <1>7 DEF Partitioned

(* A step that is not a continuation frame starts a new group. *)
LEMMA GroupRestarts ==
    ASSUME [Next]_vars
    PROVE  PushFrame \/ UNCHANGED vars \/ pending' = NewGroup(media')
<1> USE DEF MetadataOnly, publish_media
<1>1. CASE CloseSession
  BY <1>1 DEF CloseSession, SessionOpened, SessionEnded, SessionTailEod
<1>2. CASE CloseMedia
  BY <1>2 DEF CloseMedia, ClosedOut, Committed, TerminalPrefix, ComponentWritten
<1>3. CASE CloseFinalization
  BY <1>3 DEF CloseFinalization, Plan, Sealed, FinalizationPreparationRetired,
     FinalizationRecoveryRequired
<1>4. CASE Refuse \/ TornTail \/ Initialized
  BY <1>4 DEF Refuse, TornTail, Initialized, summary
<1> QED BY <1>1, <1>2, <1>3, <1>4 DEF Next

(* Every frame keeps the partition. *)
LEMMA PartitionStep ==
    ASSUME IndInv, PartitionInv, [Next]_vars
    PROVE  PartitionInv'
<1>1. SummaryInv /\ GroupInv /\ SummaryInv'
  BY NextInv DEF IndInv
<1>2. Partitioned(files', media')
  <2>1. CASE Initialized
    BY <2>1, InitializedPartition
  <2>2. CASE UNCHANGED <<files, media>>
    BY <2>2 DEF PartitionInv
  <2>3. CASE publish_media
    BY <1>1, <2>3, PublishedPartition
  <2> QED BY <2>1, <2>2, <2>3, PublishOrKeep
<1>3. CASE pending' = NewGroup(media')
  <2>1. /\ DOMAIN media' = MediaFields /\ media'.next_file \in Nat
        /\ DOMAIN files' = 0..(media'.next_file - 1)
    BY <1>1 DEF SummaryInv, MediaTyped, FilesInv, Contiguous
  <2> QED BY <1>2, <1>3, <2>1, FreshPartition DEF PartitionInv
<1>4. CASE UNCHANGED vars
  BY <1>4, RowlessPartition DEF vars, summary
<1> QED BY <1>3, <1>4, FramePartition, GroupRestarts

(* An empty tape has nothing to partition. *)
LEMMA PartitionInit == Init => PartitionInv
<1> SUFFICES ASSUME Init PROVE PartitionInv
  OBVIOUS
<1>1. /\ DOMAIN media = MediaFields /\ media.next_file = 0 /\ media.total = 0
      /\ media.protected = 0 /\ media.next_epoch = 0
  BY DEF Init, MediaFields
<1>2. DOMAIN files = 0..(media.next_file - 1)
  BY <1>1 DEF Init, EmptyFn
<1>3. SidecarsBefore(files, 0) = {}
  BY DEF SidecarsBefore
<1>4. Numbered(files, 0, 0)
  BY <1>3, FS_EmptySet DEF Numbered
<1>5. Tiles(files, 0, "Object", 0) /\ Tiles(files, 0, "ParitySidecar", 0)
  BY DEF Tiles
<1>6. Partitioned(files, media)
  BY <1>1, <1>4, <1>5 DEF Partitioned
<1>7. pending = NewGroup(media)
  BY DEF Init
<1> QED BY <1>1, <1>2, <1>6, <1>7, FreshPartition DEF PartitionInv

(* Of a tiling exactly one file owns an ordinal below its end, and none one *)
(* at or above it.                                                          *)
LEMMA TilesOwn ==
    ASSUME SummaryInv, NEW kind, NEW to \in Nat, NEW o \in Nat,
           Tiles(files, media.next_file, kind, to)
    PROVE  Cardinality(Owners(kind, o)) = IF o < to THEN 1 ELSE 0
<1>1. /\ media.next_file \in Nat /\ DOMAIN files = 0..(media.next_file - 1)
      /\ \A n \in DOMAIN files : files[n].first \in Nat /\ files[n].end \in Nat
  BY DEF SummaryInv, MediaTyped, FilesInv, Contiguous, RowType
<1>2. CASE o < to
  <2>1. PICK n \in DOMAIN files :
          files[n].kind = kind /\ files[n].first <= o /\ o < files[n].end
    BY <1>1, <1>2 DEF Tiles
  <2>2. ASSUME NEW k \in Owners(kind, o) PROVE k = n
    <3>1. /\ k \in DOMAIN files /\ files[k].kind = kind
          /\ files[k].first <= o /\ o < files[k].end
      BY <2>2 DEF Owners
    <3>2. ~(n < k)
      BY <1>1, <2>1, <3>1 DEF Tiles
    <3>3. ~(k < n)
      BY <1>1, <2>1, <3>1 DEF Tiles
    <3> QED BY <1>1, <3>1, <3>2, <3>3
  <2>3. Owners(kind, o) = {n}
    BY <2>1, <2>2 DEF Owners
  <2> QED BY <1>2, <2>3, FS_Singleton
<1>3. CASE ~(o < to)
  <2>1. Owners(kind, o) = {}
    BY <1>1, <1>3 DEF Owners, Tiles
  <2> QED BY <1>3, <2>1, FS_EmptySet
<1> QED BY <1>2, <1>3

(* Every ordinal below T belongs to exactly one Object, every ordinal below *)
(* W to exactly one sidecar and no other to any, and sidecars number their  *)
(* epochs in file order, through every group, closeout and terminal prefix  *)
(* (apply_row, publish_media).                                              *)
THEOREM OrdinalsPartitioned == Spec => []SidecarsPartition
<1>1. ASSUME IndInv, PartitionInv PROVE SidecarsPartition
  <2> SUFFICES ASSUME Parity PROVE SidecarsPartition
    BY DEF SidecarsPartition
  <2>1. SummaryInv
    BY <1>1 DEF IndInv
  <2>2. /\ media.total \in Nat /\ media.protected \in Nat
        /\ DOMAIN files = 0..(media.next_file - 1)
    BY <2>1 DEF SummaryInv, MediaTyped, FilesInv, Contiguous
  <2>3. /\ Tiles(files, media.next_file, "Object", media.total)
        /\ Tiles(files, media.next_file, "ParitySidecar", media.protected)
        /\ Numbered(files, media.next_file, media.next_epoch)
    BY <1>1 DEF PartitionInv, Partitioned
  <2>4. ASSUME NEW o \in 0..(media.total - 1)
        PROVE  /\ Cardinality(Owners("Object", o)) = 1
               /\ Cardinality(Owners("ParitySidecar", o))
                    = IF o < media.protected THEN 1 ELSE 0
    <3>1. o \in Nat /\ o < media.total
      BY <2>2
    <3> QED BY <2>1, <2>2, <2>3, <3>1, TilesOwn
  <2>5. \A n \in DOMAIN files : files[n].kind = "ParitySidecar" =>
          files[n].epoch = Cardinality({k \in 0..(n - 1) :
                                          files[k].kind = "ParitySidecar"})
    BY <2>2, <2>3 DEF Numbered, SidecarsBefore
  <2> QED BY <2>4, <2>5 DEF SidecarsPartition
<1>2. Init => PartitionInv
  BY PartitionInit
<1>3. IndInv /\ PartitionInv /\ [Next]_vars => PartitionInv'
  BY PartitionStep
<1>4. Spec => []PartitionInv
  BY <1>2, <1>3, Invariance, PTL DEF Spec
<1> QED BY <1>1, <1>4, Invariance, PTL

================================================================================
