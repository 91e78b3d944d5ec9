-------------------------- MODULE TapeLogStoreProofs --------------------------
(***************************************************************************)
(* Proofs about TapeLogStore, for every number of inodes, groups and       *)
(* faults: what an owner folds is what its log holds, no operation removes *)
(* a closed group, and nothing is published under a fence.                 *)
(***************************************************************************)
EXTENDS TapeLogStore, TLAPS, SequenceTheorems, WellFoundedInduction

(* Stages of a publication, in which the owner is fenced. *)
Publishing == {"open", "copied", "staged", "closing", "linked"}
(* An owner replaces the log by the prefix it knows to be closed. *)
Replacing == op.at \in {"replace", "replaced"} /\ lease.state # "none"

(* Who is at work in each stage, and what fences stand meanwhile. *)
ControlInv ==
    /\ lease.state = "ready" => op.at \in {"none", "reconciled"}
    /\ op.at \in Publishing => lease.state = "fenced" /\ op.why = "stage"
    /\ Replacing => lease.state = "fenced" /\ op.why \in {"stage", "rollback", "cancel"}
    /\ op.at \in {"replace", "replaced"} /\ lease.state = "none" =>
          op.why \in {"clear", "repair", "rebuild"}
    /\ op.at \in {"unmark", "unmarked", "recorded", "project"} => lease.state = "none"
    /\ op.at = "recorded" => op.why \in {"repair", "rebuild"}
    /\ op.at = "reconciled" => lease.state = "ready" /\ dir.repair = NoRecord
    /\ lease.state = "ready" \/ op.at \in Publishing \/ Replacing =>
          ~process_fence /\ ~dir.ambiguous
    /\ lease.state = "ready" /\ dir.repair # NoRecord => lease.repair
    /\ op.at \in Publishing \/ Replacing => dir.repair = NoRecord
    /\ op.at \in {"copied", "linked"} => op.out = dir.log
    /\ op.at \in {"copied", "staged", "closing", "linked"} =>
          /\ op.out \in Inodes
          /\ op.out # dir.log => dir.log = None /\ lease.closed = <<>>

(* A file that is whole, up to its last frame. *)
Sound(file) == file.damage = 0 /\ ~file.short

(* What an owner folds is what its log holds: always when it may publish,   *)
(* and in each stage of a publication up to the frames it has added.        *)
FoldInv ==
    /\ ClosedPrefix(lease.closed) = lease.closed
    /\ lease.torn => lease.closed # <<>>
    /\ lease.state = "ready" =>
          /\ Log.damage = 0 /\ ClosedPrefix(Log.frames) = lease.closed
          /\ ~lease.torn => Log.frames = lease.closed /\ ~Log.short
          /\ dir.log # None <=> lease.closed # <<>>
    /\ op.at = "open" => /\ Sound(Log) /\ Log.frames = lease.closed
                         /\ dir.log # None <=> lease.closed # <<>>
    /\ op.at \in {"copied", "staged"} =>
          /\ Sound(inode[op.out])
          /\ ClosedPrefix(inode[op.out].frames) = lease.closed
          /\ op.out = dir.log => lease.closed # <<>>
    /\ op.at \in {"closing", "linked"} =>
          /\ Sound(inode[op.out])
          /\ ClosedPrefix(inode[op.out].frames) = inode[op.out].frames
          /\ inode[op.out].frames # <<>>
          /\ IsPrefix(lease.closed, inode[op.out].frames)
    /\ Replacing => lease.closed # <<>>
    /\ Replacing /\ op.at = "replaced" =>
          Sound(Log) /\ Log.frames = lease.closed /\ dir.log # None
    /\ Replacing /\ op.at = "replace" =>
          Log.damage = 0 /\ IsPrefix(ClosedPrefix(Log.frames), lease.closed)

(* What is closed of the content a repair record binds. *)
ClosedContent(c) ==
    ClosedPrefix(IF c[3] = 0 THEN c[1] ELSE SubSeq(c[1], 1, c[3] - 1))

(* A repair keeps what is closed of the log it has recorded, and a log it   *)
(* has cut is fenced in every directory that power loss may leave.          *)
RecordInv ==
    \A d \in Directories :
        /\ d.repair.kept = ClosedContent(d.repair.original)
        /\ ClosedPrefix(d.repair.kept) = d.repair.kept
        /\ File(d.log).cut => d.repair # NoRecord
RepairInv ==
    /\ RecordInv
    /\ op.at \in {"recorded", "replace"} /\ op.why \in {"repair", "rebuild"} =>
          dir.repair # NoRecord /\ dir.repair.kept = Closed(Log)
    /\ op.at \in {"staged", "closing"} /\ op.out # dir.log => ~inode[op.out].cut

StoreInv == TypeOK /\ ControlInv /\ FoldInv /\ RepairInv

--------------------------------------------------------------------------------
(* Sequences of frames. *)

(* A set of numbers has a least one, and a bounded set a greatest one. *)
LEMMA NatMin ==
    ASSUME NEW T \in SUBSET Nat, T # {}
    PROVE  \E x \in T : \A y \in T : x <= y
<1> DEFINE R == OpToRel(<, Nat)
<1>1. IsWellFoundedOn(R, Nat)
  BY NatLessThanWellFounded
<1>2. \A x, y \in Nat : y < x => <<y, x>> \in R
  BY DEF OpToRel
<1> HIDE DEF R
<1>3. PICK x \in T : \A y \in T : ~(<<y, x>> \in R)
  BY <1>1, WFMin
<1>4. \A y \in T : x \in Nat /\ y \in Nat
  OBVIOUS
<1>5. \A y \in T : ~(y < x)
  BY <1>2, <1>3, <1>4
<1> QED BY <1>4, <1>5

LEMMA NatMax ==
    ASSUME NEW n \in Nat, NEW S \in SUBSET (1..n), S # {}
    PROVE  \E x \in S : \A y \in S : y <= x
<1> DEFINE T == {n - x : x \in S}
<1>1. \A x \in S : n - x \in Nat
  OBVIOUS
<1>2. T \in SUBSET Nat
  BY <1>1
<1>3. T # {}
  OBVIOUS
<1>4. PICK k \in T : \A y \in T : k <= y
  BY <1>2, <1>3, NatMin
<1>5. PICK x \in S : k = n - x
  BY <1>4
<1>6. \A y \in S : n - y \in T
  OBVIOUS
<1> HIDE DEF T
<1> QED BY <1>4, <1>5, <1>6

(* IsPrefix, element by element. *)
LEMMA PrefixElements ==
    ASSUME NEW s \in Seq(Frames), NEW t \in Seq(Frames)
    PROVE  IsPrefix(s, t) <=> /\ Len(s) <= Len(t)
                              /\ \A i \in 1..Len(s) : s[i] = t[i]
<1>1. ASSUME Len(s) <= Len(t), \A i \in 1..Len(s) : s[i] = t[i]
      PROVE  IsPrefix(s, t)
  BY <1>1 DEF IsPrefix
<1>2. ASSUME IsPrefix(s, t), NEW i \in 1..Len(s)
      PROVE  s[i] = t[i]
  <2>1. SubSeq(s, 1, Len(s))[i] = s[i]
    OBVIOUS
  <2>2. SubSeq(t, 1, Len(s))[i] = t[i]
    BY <1>2 DEF IsPrefix
  <2> QED BY <1>2, <2>1, <2>2 DEF IsPrefix
<1> QED BY <1>1, <1>2 DEF IsPrefix

LEMMA PrefixReflexive == ASSUME NEW s \in Seq(Frames) PROVE IsPrefix(s, s)
BY PrefixElements

LEMMA PrefixEmpty == ASSUME NEW s \in Seq(Frames) PROVE IsPrefix(<<>>, s)
<1> DEFINE e == <<>>
<1>1. e \in Seq(Frames) /\ Len(e) = 0 /\ Len(s) \in Nat
  OBVIOUS
<1> HIDE DEF e
<1>2. Len(e) <= Len(s) /\ \A i \in 1..Len(e) : e[i] = s[i]
  BY <1>1
<1>3. IsPrefix(e, s)
  BY <1>1, <1>2, PrefixElements
<1> QED BY <1>3 DEF e

LEMMA PrefixTransitive ==
    ASSUME NEW s \in Seq(Frames), NEW t \in Seq(Frames), NEW u \in Seq(Frames),
           IsPrefix(s, t), IsPrefix(t, u)
    PROVE  IsPrefix(s, u)
BY PrefixElements

(* Two prefixes of a sequence compare by their lengths. *)
LEMMA PrefixesCompare ==
    ASSUME NEW s \in Seq(Frames), NEW t \in Seq(Frames), NEW u \in Seq(Frames),
           IsPrefix(s, u), IsPrefix(t, u), Len(s) <= Len(t)
    PROVE  IsPrefix(s, t)
BY PrefixElements

LEMMA PrefixSameLength ==
    ASSUME NEW s \in Seq(Frames), NEW t \in Seq(Frames),
           IsPrefix(s, t), Len(t) <= Len(s)
    PROVE  s = t
BY PrefixElements, SeqEqual

LEMMA SubSeqPrefix ==
    ASSUME NEW s \in Seq(Frames), NEW n \in 0..Len(s)
    PROVE  /\ SubSeq(s, 1, n) \in Seq(Frames) /\ Len(SubSeq(s, 1, n)) = n
           /\ \A i \in 1..n : SubSeq(s, 1, n)[i] = s[i]
           /\ IsPrefix(SubSeq(s, 1, n), s)
<1>1. /\ SubSeq(s, 1, n) \in Seq(Frames) /\ Len(SubSeq(s, 1, n)) = n
      /\ \A i \in 1..n : SubSeq(s, 1, n)[i] = s[i]
  OBVIOUS
<1> DEFINE t == SubSeq(s, 1, n)
<1>2. Len(t) <= Len(s) /\ \A i \in 1..Len(t) : t[i] = s[i]
  BY <1>1
<1> HIDE DEF t
<1> QED BY <1>1, <1>2, PrefixElements DEF t

LEMMA AppendPrefix ==
    ASSUME NEW s \in Seq(Frames), NEW f \in Frames
    PROVE  /\ Append(s, f) \in Seq(Frames) /\ Len(Append(s, f)) = Len(s) + 1
           /\ \A i \in 1..Len(s) : Append(s, f)[i] = s[i]
           /\ Append(s, f)[Len(s) + 1] = f
           /\ IsPrefix(s, Append(s, f))
<1>1. /\ Append(s, f) \in Seq(Frames) /\ Len(Append(s, f)) = Len(s) + 1
      /\ \A i \in 1..Len(s) : Append(s, f)[i] = s[i]
      /\ Append(s, f)[Len(s) + 1] = f
  OBVIOUS
<1> DEFINE t == Append(s, f)
<1>2. Len(s) <= Len(t) /\ \A i \in 1..Len(s) : s[i] = t[i]
  BY <1>1
<1> HIDE DEF t
<1> QED BY <1>1, <1>2, PrefixElements DEF t

(* n is the number of frames up to the last that closes a group. *)
Ends(s, n) ==
    /\ n \in 0..Len(s)
    /\ n > 0 => s[n].closes
    /\ \A k \in (n + 1)..Len(s) : ~s[k].closes

LEMMA EndExists == ASSUME NEW s \in Seq(Frames) PROVE \E n : Ends(s, n)
<1> DEFINE ends == {n \in 1..Len(s) : s[n].closes}
<1>1. CASE ends = {}
  <2>1. \A k \in 1..Len(s) : ~s[k].closes
    BY <1>1
  <2>2. Ends(s, 0)
    BY <2>1 DEF Ends
  <2> QED BY <2>2
<1>2. CASE ends # {}
  <2>1. ends \in SUBSET (1..Len(s)) /\ Len(s) \in Nat
    OBVIOUS
  <2>2. PICK n \in ends : \A m \in ends : m <= n
    BY <1>2, <2>1, NatMax
  <2>3. n \in 1..Len(s) /\ s[n].closes
    BY <2>2
  <2>4. \A k \in (n + 1)..Len(s) : ~s[k].closes
    BY <2>2, <2>3
  <2> QED BY <2>3, <2>4 DEF Ends
<1> QED BY <1>1, <1>2

LEMMA EndPrefix ==
    ASSUME NEW s \in Seq(Frames), NEW n, Ends(s, n)
    PROVE  ClosedPrefix(s) = SubSeq(s, 1, n)
<1> DEFINE ends == {m \in DOMAIN s : s[m].closes}
<1>1. CASE n = 0
  <2>1. ends = {}
    BY <1>1 DEF Ends
  <2> QED BY <1>1, <2>1 DEF ClosedPrefix
<1>2. CASE n > 0
  <2>1. n \in ends /\ \A m \in ends : m <= n
    BY <1>2 DEF Ends
  <2>2. \A m \in ends : m \in Int
    OBVIOUS
  <2> HIDE DEF ends
  <2>3. (CHOOSE k \in ends : \A m \in ends : m <= k) = n
    BY <2>1, <2>2
  <2> QED BY <2>1, <2>3 DEF ClosedPrefix, ends
<1> QED BY <1>1, <1>2 DEF Ends

(* The closed prefix is a prefix, and closed. *)
LEMMA ClosedPrefixType ==
    ASSUME NEW s \in Seq(Frames)
    PROVE  /\ ClosedPrefix(s) \in Seq(Frames) /\ IsPrefix(ClosedPrefix(s), s)
           /\ ClosedPrefix(ClosedPrefix(s)) = ClosedPrefix(s)
<1>1. PICK n : Ends(s, n)
  BY EndExists
<1>2. n \in 0..Len(s) /\ ClosedPrefix(s) = SubSeq(s, 1, n)
  BY <1>1, EndPrefix DEF Ends
<1> DEFINE t == SubSeq(s, 1, n)
<1>3. /\ t \in Seq(Frames) /\ Len(t) = n /\ \A i \in 1..n : t[i] = s[i]
      /\ IsPrefix(t, s)
  BY <1>2, SubSeqPrefix
<1> HIDE DEF t
<1>4. Ends(t, n)
  BY <1>1, <1>3 DEF Ends
<1>5. ClosedPrefix(t) = SubSeq(t, 1, n)
  BY <1>3, <1>4, EndPrefix
<1>6. SubSeq(t, 1, n) = t
  BY <1>3, SubSeqFull
<1> QED BY <1>2, <1>3, <1>5, <1>6 DEF t

LEMMA ClosedPrefixEmpty == ClosedPrefix(<<>>) = <<>>
BY DEF ClosedPrefix

(* A closing frame closes all, another nothing. *)
LEMMA AppendCloser ==
    ASSUME NEW s \in Seq(Frames), NEW f \in Frames, f.closes
    PROVE  ClosedPrefix(Append(s, f)) = Append(s, f)
<1> DEFINE t == Append(s, f)
<1>1. t \in Seq(Frames) /\ Len(t) = Len(s) + 1 /\ t[Len(s) + 1] = f
  BY AppendPrefix
<1> HIDE DEF t
<1>2. Ends(t, Len(t))
  BY <1>1 DEF Ends
<1> QED BY <1>1, <1>2, EndPrefix, SubSeqFull DEF t

LEMMA AppendProvisional ==
    ASSUME NEW s \in Seq(Frames), NEW f \in Frames, ~f.closes
    PROVE  ClosedPrefix(Append(s, f)) = ClosedPrefix(s)
<1> DEFINE t == Append(s, f)
<1>1. /\ t \in Seq(Frames) /\ Len(t) = Len(s) + 1 /\ t[Len(s) + 1] = f
      /\ \A i \in 1..Len(s) : t[i] = s[i]
  BY AppendPrefix
<1> HIDE DEF t
<1>2. PICK n : Ends(s, n)
  BY EndExists
<1>3. Ends(t, n)
  BY <1>1, <1>2 DEF Ends
<1>4. n \in 0..Len(s) /\ n \in 0..Len(t)
  BY <1>2, <1>3 DEF Ends
<1>5. SubSeq(t, 1, n) = SubSeq(s, 1, n)
  BY <1>1, <1>4, SubSeqPrefix, SeqEqual
<1> QED BY <1>1, <1>2, <1>3, <1>5, EndPrefix DEF t

(* What is closed of a prefix is closed of the whole. *)
LEMMA ClosedMonotone ==
    ASSUME NEW s \in Seq(Frames), NEW t \in Seq(Frames), IsPrefix(s, t)
    PROVE  IsPrefix(ClosedPrefix(s), ClosedPrefix(t))
<1>1. PICK n : Ends(s, n)
  BY EndExists
<1>2. PICK m : Ends(t, m)
  BY EndExists
<1>3. Len(s) <= Len(t) /\ \A i \in 1..Len(s) : s[i] = t[i]
  BY PrefixElements
<1>4. n \in 0..Len(s) /\ m \in 0..Len(t)
  BY <1>1, <1>2 DEF Ends
<1>5. n <= m
  BY <1>1, <1>2, <1>3, <1>4 DEF Ends
<1>6. /\ SubSeq(s, 1, n) \in Seq(Frames) /\ SubSeq(t, 1, m) \in Seq(Frames)
      /\ IsPrefix(SubSeq(s, 1, n), s) /\ IsPrefix(SubSeq(t, 1, m), t)
      /\ Len(SubSeq(s, 1, n)) = n /\ Len(SubSeq(t, 1, m)) = m
  BY <1>4, SubSeqPrefix
<1>7. ClosedPrefix(s) = SubSeq(s, 1, n) /\ ClosedPrefix(t) = SubSeq(t, 1, m)
  BY <1>1, <1>2, EndPrefix
<1>8. IsPrefix(SubSeq(s, 1, n), t)
  BY <1>6, PrefixTransitive
<1> QED BY <1>4, <1>5, <1>6, <1>7, <1>8, PrefixesCompare

--------------------------------------------------------------------------------
(* Files. *)
USE StoreAssumption DEF None

FileOK(f) == f \in FileStates /\ f.synced <= Len(f.frames) /\ f.damage <= Len(f.frames)

LEMMA EmptyFileOK == FileOK(EmptyFile)
BY DEF FileOK, FileStates, EmptyFile

LEMMA EmptyFields ==
    /\ EmptyFile.frames = <<>> /\ EmptyFile.damage = 0 /\ ~EmptyFile.short
    /\ ~EmptyFile.cut /\ EmptyFile.synced = 0
BY DEF EmptyFile

LEMMA FrameOK ==
    ASSUME attempts \in 0..MaxGroups
    PROVE  /\ Frame(TRUE) \in Frames /\ Frame(TRUE).closes
           /\ Frame(FALSE) \in Frames /\ ~Frame(FALSE).closes
BY DEF Frames, Frame

LEMMA AppendedOK ==
    ASSUME NEW f, FileOK(f), NEW x \in Frames, NEW g, g = Appended(f, x)
    PROVE  /\ FileOK(g) /\ g.damage = f.damage /\ g.short = f.short /\ g.cut = f.cut
           /\ g.synced = f.synced /\ IsPrefix(f.frames, g.frames) /\ g.frames # <<>>
           /\ x.closes => ClosedPrefix(g.frames) = g.frames
           /\ ~x.closes => ClosedPrefix(g.frames) = ClosedPrefix(f.frames)
<1>1. f.frames \in Seq(Frames) /\ f.synced \in Nat /\ f.damage \in Nat
  BY DEF FileOK, FileStates
<1> DEFINE t == Append(f.frames, x)
<1>2. t \in Seq(Frames) /\ Len(t) = Len(f.frames) + 1 /\ IsPrefix(f.frames, t)
  BY <1>1, AppendPrefix
<1>3. /\ x.closes => ClosedPrefix(t) = t
      /\ ~x.closes => ClosedPrefix(t) = ClosedPrefix(f.frames)
  BY <1>1, AppendCloser, AppendProvisional
<1>4. g = [f EXCEPT !.frames = t]
  BY DEF Appended
<1> HIDE DEF t
<1>5. t # <<>>
  BY <1>1, <1>2
<1>6. /\ g \in FileStates /\ g.frames = t /\ g.damage = f.damage
      /\ g.short = f.short /\ g.cut = f.cut /\ g.synced = f.synced
  BY <1>2, <1>4 DEF FileOK, FileStates
<1>7. g.synced <= Len(t) /\ g.damage <= Len(t)
  BY <1>1, <1>2, <1>6 DEF FileOK
<1> QED BY <1>2, <1>3, <1>5, <1>6, <1>7 DEF FileOK

LEMMA ShortWriteOK ==
    ASSUME NEW f, FileOK(f), NEW g, g = ShortWrite(f)
    PROVE  /\ FileOK(g) /\ g.frames = f.frames /\ g.damage = f.damage
           /\ g.cut = f.cut /\ g.synced = f.synced
BY DEF FileOK, FileStates, ShortWrite

LEMMA SyncedOK ==
    ASSUME NEW f, FileOK(f), NEW g, g = Synced(f)
    PROVE  /\ FileOK(g) /\ g.frames = f.frames /\ g.damage = f.damage
           /\ g.short = f.short /\ g.cut = f.cut /\ g.suspect = f.suspect
           /\ g.synced = IF f.suspect THEN f.synced ELSE Len(f.frames)
<1> DEFINE n == Len(f.frames)
<1>1. n \in Nat /\ f.damage <= n
  BY DEF FileOK, FileStates
<1>2. g = f \/ g = [f EXCEPT !.synced = n]
  BY DEF Synced
<1>3. f.suspect => g = f
  BY DEF Synced
<1>4. ~f.suspect => g = [f EXCEPT !.synced = n]
  BY DEF Synced
<1> HIDE DEF n
<1>5. /\ g \in FileStates /\ g.frames = f.frames /\ g.damage = f.damage
      /\ g.short = f.short /\ g.cut = f.cut /\ g.suspect = f.suspect
      /\ g.synced = IF f.suspect THEN f.synced ELSE n
  BY <1>1, <1>2, <1>3, <1>4 DEF FileOK, FileStates
<1> QED BY <1>1, <1>5 DEF FileOK, n

(* A failed sync leaves the frames or the synced ones of them. *)
LEMMA SyncFailsOK ==
    ASSUME NEW f, FileOK(f), f.damage = 0, NEW g \in SyncFails(f)
    PROVE  /\ FileOK(g) /\ g.damage = 0 /\ g.cut = f.cut /\ g.synced = f.synced
           /\ IsPrefix(g.frames, f.frames)
           /\ IsPrefix(ClosedPrefix(g.frames), ClosedPrefix(f.frames))
<1> DEFINE t == SubSeq(f.frames, 1, f.synced)
<1>1. f.frames \in Seq(Frames) /\ f.synced \in 0..Len(f.frames)
  BY DEF FileOK, FileStates
<1>2. t \in Seq(Frames) /\ Len(t) = f.synced /\ IsPrefix(t, f.frames)
  BY <1>1, SubSeqPrefix
<1>3. \/ g = [f EXCEPT !.suspect = TRUE]
      \/ g = [f EXCEPT !.frames = t, !.short = FALSE]
  BY DEF SyncFails
<1> HIDE DEF t
<1>4. /\ g \in FileStates /\ g.frames \in {f.frames, t} /\ g.damage = f.damage
      /\ g.cut = f.cut /\ g.synced = f.synced
  BY <1>2, <1>3 DEF FileOK, FileStates
<1>5. IsPrefix(g.frames, f.frames) /\ g.frames \in Seq(Frames)
  BY <1>1, <1>2, <1>4, PrefixReflexive
<1>6. FileOK(g)
  BY <1>1, <1>2, <1>4 DEF FileOK
<1> QED BY <1>1, <1>4, <1>5, <1>6, ClosedMonotone

LEMMA ReplacementOK ==
    ASSUME Kept \in Seq(Frames), NEW c \in BOOLEAN, NEW g, g = Replacement(c)
    PROVE  /\ FileOK(g) /\ g.frames = Kept /\ Sound(g) /\ g.cut = c
           /\ g.synced = Len(Kept) /\ ~g.suspect
<1> DEFINE k == Kept
           n == Len(k)
<1>1. n \in Nat /\ k \in Seq(Frames)
  OBVIOUS
<1>2. g = [EmptyFile EXCEPT !.frames = k, !.synced = n, !.cut = c]
  BY DEF Replacement
<1> HIDE DEF k, n
<1> DEFINE e == EmptyFile
<1>e. e \in FileStates /\ e.damage = 0 /\ ~e.short /\ ~e.suspect
  BY DEF EmptyFile, FileStates
<1> HIDE DEF e
<1>3. /\ g \in FileStates /\ g.frames = k /\ g.synced = n /\ g.cut = c
      /\ g.damage = 0 /\ ~g.short /\ ~g.suspect
  BY <1>1, <1>2, <1>e DEF FileStates, e
<1> QED BY <1>1, <1>3 DEF FileOK, Sound, k, n

LEMMA SurvivesOK ==
    ASSUME NEW f, FileOK(f), NEW n \in f.synced..Len(f.frames), NEW b \in BOOLEAN,
           NEW g, g = Survives(f, n, b)
    PROVE  /\ FileOK(g) /\ g.cut = f.cut /\ g.synced = n /\ Len(g.frames) = n
           /\ g.frames = SubSeq(f.frames, 1, n)
<1> DEFINE t == SubSeq(f.frames, 1, n)
           m == IF f.damage > n THEN 0 ELSE f.damage
<1>1. f.frames \in Seq(Frames) /\ n \in 0..Len(f.frames) /\ n \in Nat
  BY DEF FileOK, FileStates
<1>2. t \in Seq(Frames) /\ Len(t) = n
  BY <1>1, SubSeqPrefix
<1>3. m \in Nat /\ m <= n
  BY <1>1 DEF FileOK, FileStates
<1>4. g = [f EXCEPT !.frames = t, !.synced = n, !.suspect = FALSE, !.short = b,
                    !.damage = m]
  BY DEF Survives
<1> HIDE DEF t, m
<1>5. /\ g \in FileStates /\ g.frames = t /\ g.synced = n /\ g.damage = m
      /\ g.cut = f.cut
  BY <1>1, <1>2, <1>3, <1>4 DEF FileOK, FileStates
<1> QED BY <1>1, <1>2, <1>3, <1>5 DEF FileOK, t

(* The type invariant, in two parts. *)
FilesOK == inode \in [Inodes -> FileStates] /\ \A i \in Inodes : FileOK(inode[i])
StateOK ==
    /\ dir \in Entries /\ durable_dir \in Entries
    /\ process_fence \in BOOLEAN
    /\ lease \in Leases
    /\ op \in Operations
    /\ snap \in Snapshots
    /\ projected \in Seq(Frames) /\ acked \in Seq(Frames)
    /\ attempts \in 0..MaxGroups
    /\ faults \in 0..MaxFaults

LEMMA TypeParts == (TypeOK <=> FilesOK /\ StateOK) /\ (TypeOK' <=> FilesOK' /\ StateOK')
BY DEF TypeOK, FilesOK, StateOK, FileOK

LEMMA OneFile ==
    ASSUME FilesOK, NEW i \in Inodes, NEW g, FileOK(g), inode' = [inode EXCEPT ![i] = g]
    PROVE  FilesOK' /\ inode'[i] = g /\ \A j \in Inodes \ {i} : inode'[j] = inode[j]
BY DEF FilesOK, FileOK

LEMMA LogOK ==
    ASSUME TypeOK
    PROVE  /\ FileOK(Log) /\ Log.frames \in Seq(Frames)
           /\ Closed(Log) \in Seq(Frames) /\ ClosedPrefix(Closed(Log)) = Closed(Log)
           /\ Log.damage = 0 => Closed(Log) = ClosedPrefix(Log.frames)
           /\ dir.log = None => Log = EmptyFile
           /\ dir.log # None => dir.log \in Inodes /\ Log = inode[dir.log]
<1>1. FileOK(Log)
  BY EmptyFileOK, TypeParts DEF Log, File, FilesOK, StateOK, Entries
<1>2. Log.frames \in Seq(Frames) /\ Log.damage \in 0..Len(Log.frames)
  BY <1>1 DEF FileOK, FileStates
<1>3. Readable(Log) \in Seq(Frames)
  BY <1>2, SubSeqPrefix DEF Readable
<1>4. Log.damage = 0 => Readable(Log) = Log.frames
  BY DEF Readable
<1>5. /\ dir.log = None => Log = EmptyFile
      /\ dir.log # None => dir.log \in Inodes /\ Log = inode[dir.log]
  BY TypeParts DEF Log, File, StateOK, Entries
<1> QED BY <1>1, <1>2, <1>3, <1>4, <1>5, ClosedPrefixType DEF Closed

LEMMA FreshInode ==
    ASSUME SomeInode
    PROVE  /\ NewInode \in Inodes /\ NewInode # dir.log /\ NewInode # durable_dir.log
           /\ NewInode # snap.inode
BY DEF SomeInode, NewInode, Referenced

--------------------------------------------------------------------------------
(* An operation that is over, or that has no owner, leaves nothing to show  *)
(* but that its owner is not taken for usable.                              *)
LEMMA Quiet ==
    ASSUME lease'.state # "ready", ClosedPrefix(lease'.closed) = lease'.closed,
           lease'.torn => lease'.closed # <<>>,
           \/ op'.at \in {"none", "uncertain"}
           \/ op'.at \in {"unmark", "unmarked", "project"} /\ lease'.state = "none"
    PROVE  ControlInv' /\ FoldInv'
BY DEF ControlInv, FoldInv, Replacing, Publishing

(* Directories as they were, but for the marker, and no file cut. *)
LEMMA RecordsKept ==
    ASSUME StoreInv,
           \A d \in {dir', durable_dir'} : \E e \in {dir, durable_dir} :
               d.log = e.log /\ d.repair = e.repair,
           \A i \in Inodes : inode'[i].cut => inode[i].cut
    PROVE  RecordInv'
<1>1. \A d \in {dir', durable_dir'} : d.log \in Inodes \cup {None}
  BY TypeParts DEF StoreInv, StateOK, Entries
<1> SUFFICES ASSUME NEW d \in {dir', durable_dir'}
             PROVE  /\ d.repair.kept = ClosedContent(d.repair.original)
                    /\ ClosedPrefix(d.repair.kept) = d.repair.kept
                    /\ File(d.log)'.cut => d.repair # NoRecord
  BY DEF RecordInv, Directories
<1>2. PICK e \in {dir, durable_dir} : d.log = e.log /\ d.repair = e.repair
  OBVIOUS
<1>3. /\ e.repair.kept = ClosedContent(e.repair.original)
      /\ ClosedPrefix(e.repair.kept) = e.repair.kept
      /\ File(e.log).cut => e.repair # NoRecord
  BY <1>2 DEF StoreInv, RepairInv, RecordInv, Directories
<1>4. File(d.log)'.cut => File(e.log).cut
  BY <1>1, <1>2 DEF File, EmptyFile
<1> QED BY <1>2, <1>3, <1>4

LEMMA RepairQuiet ==
    ASSUME RecordInv', op'.at \notin {"recorded", "replace", "staged", "closing"}
    PROVE  RepairInv'
BY DEF RepairInv

--------------------------------------------------------------------------------
(* The owner, one lemma for each action. *)
USE DEF Fault, NoFault, SetEntry, SyncDirectory, files

(* What happens to the fields of an operation and of a lease. *)
LEMMA OpIdle == NoOp \in Operations /\ NoOp.at = "none"
BY DEF NoOp, Operations

LEMMA OpMarks ==
    ASSUME NEW r, r = [NoOp EXCEPT !.at = "uncertain"]
    PROVE  r \in Operations /\ r.at = "uncertain"
BY OpIdle DEF Operations

LEMMA LeaseNone ==
    /\ NoLease \in Leases /\ NoLease.state = "none" /\ ~NoLease.torn
    /\ ClosedPrefix(NoLease.closed) = NoLease.closed
BY ClosedPrefixEmpty DEF NoLease, Leases

LEMMA SnapNone == NoSnap \in Snapshots
BY DEF Snapshots

(* An owner is taken on where no fence stands, of the log as it is read. *)
LEMMA AcquireStep ==
    ASSUME StoreInv, NEW fresh \in BOOLEAN, NEW recovery \in BOOLEAN,
           acquire(fresh, recovery)
    PROVE  StoreInv'
<1> DEFINE c == Closed(Log)
           b == ~Complete(Log)
           r == RepairRequired
           n == Len(projected)
<1>1. b \in BOOLEAN /\ r \in BOOLEAN
  BY Zenon DEF RepairRequired
<1>2. /\ c \in Seq(Frames) /\ ClosedPrefix(c) = c /\ n \in Nat
  BY LogOK, TypeParts DEF StoreInv, StateOK
<1>3. /\ lease' = [state |-> "ready", closed |-> c, torn |-> b, repair |-> r, floor |-> n]
      /\ UNCHANGED <<inode, dir, durable_dir, process_fence, op, snap, projected,
                     attempts, acked, faults>>
      /\ ~process_fence /\ ~dir.ambiguous /\ (dir.repair # NoRecord => r) /\ op.at = "none"
  BY DEF acquire, Unlocked, has_ambiguity, RepairRequired, NoOp
<1>4. /\ Log.damage = 0 /\ c = ClosedPrefix(Log.frames)
      /\ ~b => Log.frames = c /\ ~Log.short
      /\ dir.log # None => c # <<>>
  BY LogOK DEF StoreInv, acquire, Validates, Complete
<1>5. dir.log = None => c = <<>> /\ ~b
  BY <1>4, LogOK, ClosedPrefixEmpty DEF StoreInv, EmptyFile, Complete
<1> HIDE DEF c, b, r, n
<1>6. /\ lease' \in Leases /\ lease'.state = "ready" /\ lease'.closed = c
      /\ lease'.torn = b /\ lease'.repair = r
  BY <1>1, <1>2, <1>3 DEF Leases
<1>7. TypeOK'
  BY <1>3, <1>6, TypeParts DEF StoreInv, FilesOK, StateOK, FileOK
<1>8. ControlInv'
  BY <1>3, <1>6 DEF ControlInv, Replacing, Publishing
<1>9. FoldInv'
  BY <1>2, <1>3, <1>4, <1>5, <1>6 DEF FoldInv, Replacing, Log, File
<1>10. RepairInv'
  BY <1>3, RecordsKept, RepairQuiet
<1> QED BY <1>7, <1>8, <1>9, <1>10 DEF StoreInv

(* Leases that differ in their floor. *)
LEMMA SetProjectionFloorStep ==
    ASSUME StoreInv, set_projection_floor PROVE StoreInv'
<1> DEFINE n == Len(projected)
<1>1. n \in Nat /\ lease \in Leases
  BY TypeParts DEF StoreInv, StateOK
<1>2. /\ lease' = [lease EXCEPT !.floor = n]
      /\ UNCHANGED <<inode, dir, durable_dir, process_fence, op, snap, projected,
                     attempts, acked, faults>>
  BY DEF set_projection_floor
<1> HIDE DEF n
<1>3. /\ lease' \in Leases /\ lease'.state = lease.state /\ lease'.closed = lease.closed
      /\ lease'.torn = lease.torn /\ lease'.repair = lease.repair
  BY <1>1, <1>2 DEF Leases
<1>4. TypeOK'
  BY <1>2, <1>3, TypeParts DEF StoreInv, FilesOK, StateOK, FileOK
<1>5. ControlInv'
  BY <1>2, <1>3 DEF StoreInv, ControlInv, Replacing
<1>6. FoldInv'
  BY <1>2, <1>3 DEF StoreInv, FoldInv, Replacing, Log, File
<1>7. RepairInv'
  BY <1>2 DEF StoreInv, RepairInv, RecordInv, Directories, Log, File
<1> QED BY <1>4, <1>5, <1>6, <1>7 DEF StoreInv

LEMMA ReleaseStep == ASSUME StoreInv, Release PROVE StoreInv'
<1>1. /\ lease' = NoLease /\ op' = NoOp
      /\ UNCHANGED <<inode, dir, durable_dir, process_fence, snap, projected,
                     attempts, acked, faults>>
  BY DEF Release
<1>2. TypeOK'
  BY <1>1, LeaseNone, OpIdle, TypeParts DEF StoreInv, FilesOK, StateOK, FileOK
<1>3. ControlInv' /\ FoldInv'
  BY <1>1, LeaseNone, OpIdle, Quiet
<1>4. RepairInv'
  BY <1>1, OpIdle, RecordsKept, RepairQuiet
<1> QED BY <1>2, <1>3, <1>4 DEF StoreInv

LEMMA StageStep ==
    ASSUME StoreInv, NEW rows \in {0, 1}, NEW sync \in BOOLEAN, stage(rows, sync)
    PROVE  StoreInv'
<1> DEFINE a == IF lease.torn THEN "replace" ELSE "open"
<1>1. /\ lease.state = "ready" /\ ~lease.repair /\ op.at = "none"
      /\ lease' = [lease EXCEPT !.state = "fenced"]
      /\ op' = [NoOp EXCEPT !.at = a, !.why = "stage", !.rows = rows, !.sync = sync]
      /\ attempts' = attempts + 1 /\ attempts < MaxGroups
      /\ UNCHANGED <<inode, dir, durable_dir, process_fence, snap, projected,
                     acked, faults>>
  BY DEF stage, Reconciled, NoOp
<1>2. a \in {"replace", "open"} /\ (a = "replace" <=> lease.torn)
  OBVIOUS
<1> HIDE DEF a
<1>a. rows \in 0..2
  OBVIOUS
<1>3. op' \in Operations /\ op'.at = a /\ op'.why = "stage"
  BY <1>1, <1>2, <1>a, OpIdle DEF Operations
<1>4. /\ lease' \in Leases /\ lease'.state = "fenced" /\ lease'.closed = lease.closed
  BY <1>1, TypeParts DEF StoreInv, StateOK, Leases
<1>5. TypeOK'
  BY <1>1, <1>3, <1>4, TypeParts DEF StoreInv, FilesOK, StateOK, FileOK
<1>6. ControlInv'
  BY <1>1, <1>2, <1>3, <1>4 DEF StoreInv, ControlInv, Replacing, Publishing
<1>7. IsPrefix(lease.closed, lease.closed)
  BY PrefixReflexive, TypeParts DEF StoreInv, StateOK, Leases
<1>8. FoldInv'
  BY <1>1, <1>2, <1>3, <1>4, <1>7 DEF StoreInv, FoldInv, Replacing, Log, File, Sound
<1>9. RepairInv'
  BY <1>1, <1>2, <1>3, RecordsKept DEF RepairInv
<1> QED BY <1>5, <1>6, <1>8, <1>9 DEF StoreInv

LEMMA DropStagedStep == ASSUME StoreInv, DropStaged PROVE StoreInv'
<1>1. /\ lease' = lease /\ op' = NoOp /\ op.at = "staged"
      /\ UNCHANGED <<inode, dir, durable_dir, process_fence, snap, projected,
                     attempts, acked, faults>>
  BY DEF DropStaged, Dropped
<1>2. TypeOK'
  BY <1>1, OpIdle, TypeParts DEF StoreInv, FilesOK, StateOK, FileOK
<1>3. ControlInv' /\ FoldInv'
  BY <1>1, OpIdle, Quiet DEF StoreInv, ControlInv, FoldInv, Publishing
<1>4. RepairInv'
  BY <1>1, OpIdle, RecordsKept, RepairQuiet
<1> QED BY <1>2, <1>3, <1>4 DEF StoreInv

(* No closing frame was written: the log still is what the owner folds, but *)
(* for provisional frames that a replacement drops.                         *)
LEMMA CancelDetachedStep == ASSUME StoreInv, cancel_detached PROVE StoreInv'
<1>0. faults + 1 # faults
  BY TypeParts DEF StoreInv, StateOK
<1>1. CASE op.out # dir.log /\ NoFault
  <2>1. /\ op.at = "staged" /\ ~process_fence /\ ~dir.ambiguous
        /\ durable_dir' = dir /\ op' = NoOp
        /\ lease' = [lease EXCEPT !.state = "ready"]
        /\ UNCHANGED <<inode, dir, process_fence, snap, projected, attempts, acked, faults>>
    BY <1>0, <1>1 DEF cancel_detached, has_ambiguity
  <2>2. /\ lease' \in Leases /\ lease'.state = "ready" /\ lease'.closed = lease.closed
        /\ lease'.torn = lease.torn /\ lease'.repair = lease.repair
    BY <2>1, TypeParts DEF StoreInv, StateOK, Leases
  <2>3. dir.log = None /\ lease.closed = <<>> /\ dir.repair = NoRecord /\ Log = EmptyFile
    BY <1>1, <2>1, LogOK DEF StoreInv, ControlInv, Publishing
  <2>4. TypeOK'
    BY <2>1, <2>2, OpIdle, TypeParts DEF StoreInv, FilesOK, StateOK, FileOK
  <2>5. ControlInv'
    BY <2>1, <2>2, <2>3, OpIdle DEF StoreInv, ControlInv, Replacing, Publishing
  <2>6. FoldInv'
    <3>1. Log' = EmptyFile
      BY <2>1, <2>3 DEF Log, File
    <3>2. ClosedPrefix(Log'.frames) = lease.closed /\ Log'.frames = lease.closed
      BY <2>3, <3>1, EmptyFields, ClosedPrefixEmpty
    <3> QED BY <2>1, <2>2, <2>3, <3>1, <3>2, OpIdle, EmptyFields
            DEF StoreInv, FoldInv, Replacing
  <2>7. RepairInv'
    BY <2>1, OpIdle, RecordsKept, RepairQuiet
  <2> QED BY <2>4, <2>5, <2>6, <2>7 DEF StoreInv
<1>2. CASE op.out = dir.log
  <2>1. /\ op.at = "staged" /\ ~process_fence /\ ~dir.ambiguous
        /\ op' = [NoOp EXCEPT !.at = "replace", !.why = "cancel"]
        /\ UNCHANGED <<inode, dir, durable_dir, lease, process_fence, snap, projected,
                       attempts, acked, faults>>
    BY <1>2 DEF cancel_detached, has_ambiguity
  <2>2. op' \in Operations /\ op'.at = "replace" /\ op'.why = "cancel"
    BY <2>1, OpIdle DEF Operations
  <2>3. TypeOK'
    BY <2>1, <2>2, TypeParts DEF StoreInv, FilesOK, StateOK, FileOK
  <2>4. ControlInv'
    BY <2>1, <2>2 DEF StoreInv, ControlInv, Replacing, Publishing
  <2>5. IsPrefix(lease.closed, lease.closed)
    BY PrefixReflexive, TypeParts DEF StoreInv, StateOK, Leases
  <2>6. Log = inode[op.out] /\ Log' = Log
    BY <1>2, <2>1, LogOK DEF StoreInv, ControlInv, Log, File
  <2>7. FoldInv'
    BY <1>2, <2>1, <2>2, <2>5, <2>6 DEF StoreInv, ControlInv, FoldInv, Replacing,
       Publishing, Sound
  <2>8. RepairInv'
    BY <2>1, <2>2, RecordsKept DEF RepairInv
  <2> QED BY <2>3, <2>4, <2>7, <2>8 DEF StoreInv
<1>3. CASE op.out # dir.log /\ Fault("dirsync")
  <2>1. /\ lease' = lease /\ op' = NoOp /\ op.at = "staged"
        /\ UNCHANGED <<inode, dir, durable_dir, process_fence, snap, projected,
                       attempts, acked>>
    BY <1>0, <1>3 DEF cancel_detached
  <2>2. TypeOK'
    BY <1>3, <2>1, OpIdle, TypeParts DEF StoreInv, FilesOK, StateOK, FileOK
  <2>3. ControlInv' /\ FoldInv'
    BY <2>1, OpIdle, Quiet DEF StoreInv, ControlInv, FoldInv, Publishing
  <2>4. RepairInv'
    BY <2>1, OpIdle, RecordsKept, RepairQuiet
  <2> QED BY <2>2, <2>3, <2>4 DEF StoreInv
<1> QED BY <1>1, <1>2, <1>3 DEF cancel_detached

(* A failure leaves an owner fenced, or nobody, and no operation behind. *)
LEMMA QuietStep ==
    ASSUME StoreInv, TypeOK',
           lease'.state # "ready", lease'.closed = lease.closed, lease'.torn = lease.torn,
           op'.at \in {"none", "uncertain"},
           \A d \in {dir', durable_dir'} : \E e \in {dir, durable_dir} :
               d.log = e.log /\ d.repair = e.repair,
           \A i \in Inodes : inode'[i].cut => inode[i].cut
    PROVE  StoreInv'
<1>1. ControlInv' /\ FoldInv'
  BY Quiet DEF StoreInv, FoldInv
<1>2. RepairInv'
  BY RecordsKept, RepairQuiet
<1> QED BY <1>1, <1>2 DEF StoreInv

LEMMA AmbiguousLeaves ==
    ASSUME StoreInv, Ambiguous
    PROVE  /\ lease' \in Leases /\ lease'.state # "ready"
           /\ lease'.closed = lease.closed /\ lease'.torn = lease.torn
           /\ process_fence' = TRUE /\ op' \in Operations /\ op'.at = "uncertain"
<1>1. lease \in Leases
  BY TypeParts DEF StoreInv, StateOK
<1>2. /\ lease' \in Leases /\ lease'.state # "ready"
      /\ lease'.closed = lease.closed /\ lease'.torn = lease.torn
  BY <1>1 DEF Ambiguous, Leases
<1> QED BY <1>2, OpMarks DEF Ambiguous

(* A file changes, and its cut with none. *)
LEMMA CutKept ==
    ASSUME FilesOK, NEW i \in Inodes, NEW g, FileOK(g), inode' = [inode EXCEPT ![i] = g],
           g.cut => inode[i].cut
    PROVE  FilesOK' /\ \A j \in Inodes : inode'[j].cut => inode[j].cut
BY OneFile

(* A write that fails, and is ambiguous. *)
LEMMA WriteFails ==
    ASSUME StoreInv, Ambiguous, NEW i \in Inodes, NEW g, FileOK(g), g.cut => inode[i].cut,
           inode' = [inode EXCEPT ![i] = g], faults' \in 0..MaxFaults,
           UNCHANGED <<dir, durable_dir, snap, projected, attempts, acked>>
    PROVE  StoreInv'
<1>1. FilesOK' /\ \A j \in Inodes : inode'[j].cut => inode[j].cut
  BY CutKept, TypeParts DEF StoreInv
<1>2. TypeOK'
  BY <1>1, AmbiguousLeaves, TypeParts DEF StoreInv, StateOK
<1> QED BY <1>1, <1>2, AmbiguousLeaves, QuietStep

LEMMA StageWritesStep == ASSUME StoreInv, StageWrites PROVE StoreInv'
<1>1. CASE lease.closed = <<>>
  <2> DEFINE i == NewInode
  <2>1. /\ op.at = "open" /\ SomeInode
        /\ op' = [op EXCEPT !.at = "staged", !.out = i]
        /\ inode' = [inode EXCEPT ![i] = EmptyFile]
        /\ UNCHANGED <<dir, durable_dir, process_fence, lease, snap, projected,
                       attempts, acked, faults>>
    BY <1>1 DEF StageWrites
  <2>2. /\ i \in Inodes /\ i # dir.log /\ i # durable_dir.log
    BY <2>1, FreshInode
  <2> HIDE DEF i
  <2>3. op' \in Operations /\ op'.at = "staged" /\ op'.out = i /\ op'.why = op.why
    BY <2>1, <2>2, TypeParts DEF StoreInv, StateOK, Operations
  <2>4. /\ FilesOK' /\ inode'[i] = EmptyFile
        /\ \A j \in Inodes : inode'[j].cut => inode[j].cut
    BY <2>1, <2>2, EmptyFileOK, EmptyFields, OneFile, CutKept, TypeParts DEF StoreInv
  <2>5. TypeOK'
    BY <2>1, <2>3, <2>4, TypeParts DEF StoreInv, StateOK
  <2>6. dir.log = None
    BY <1>1, <2>1 DEF StoreInv, FoldInv
  <2>7. ControlInv'
    BY <1>1, <2>1, <2>2, <2>3, <2>6 DEF StoreInv, ControlInv, Replacing, Publishing
  <2>8. Sound(inode'[i]) /\ ClosedPrefix(inode'[i].frames) = lease.closed
    BY <1>1, <2>4, EmptyFields, ClosedPrefixEmpty DEF Sound
  <2>9. FoldInv'
    BY <2>1, <2>2, <2>3, <2>6, <2>8 DEF StoreInv, ControlInv, Publishing, FoldInv, Replacing
  <2>10. RepairInv'
    BY <2>1, <2>3, <2>4, EmptyFields, RecordsKept DEF RepairInv
  <2> QED BY <2>5, <2>7, <2>9, <2>10 DEF StoreInv
<1>2. CASE lease.closed # <<>>
  <2> DEFINE a == IF op.rows > 0 /\ op.sync THEN "copied" ELSE "staged"
             i == dir.log
             x == Frame(FALSE)
             g == Appended(inode[i], x)
  <2>1. /\ op.at = "open" /\ op' = [op EXCEPT !.at = a, !.out = i]
        /\ inode' = inode \/ inode' = [inode EXCEPT ![i] = g]
        /\ UNCHANGED <<dir, durable_dir, process_fence, lease, snap, projected,
                       attempts, acked, faults>>
    BY <1>2 DEF StageWrites
  <2>2. a \in {"copied", "staged"}
    OBVIOUS
  <2>3. dir.log # None /\ Sound(Log) /\ Log.frames = lease.closed
    BY <1>2, <2>1 DEF StoreInv, FoldInv
  <2>4. i \in Inodes /\ Log = inode[i] /\ FileOK(inode[i])
    BY <2>3, LogOK DEF StoreInv
  <2>5. /\ FileOK(g) /\ g.cut = inode[i].cut /\ Sound(g)
        /\ ClosedPrefix(g.frames) = ClosedPrefix(inode[i].frames)
    <3>1. x \in Frames /\ ~x.closes
      BY FrameOK, TypeParts DEF StoreInv, StateOK
    <3> HIDE DEF x
    <3> QED BY <2>3, <2>4, <3>1, AppendedOK DEF Sound
  <2> HIDE DEF a, g
  <2>6. op' \in Operations /\ op'.at = a /\ op'.out = i /\ op'.why = op.why
    BY <2>1, <2>2, <2>4, TypeParts DEF StoreInv, StateOK, Operations
  <2>7. /\ FilesOK' /\ \A j \in Inodes : inode'[j].cut => inode[j].cut
        /\ inode'[i] = inode[i] \/ inode'[i] = g
    BY <2>1, <2>4, <2>5, OneFile, CutKept, TypeParts DEF StoreInv, FilesOK, FileOK
  <2>8. TypeOK'
    BY <2>1, <2>6, <2>7, TypeParts DEF StoreInv, StateOK
  <2>9. ControlInv'
    BY <2>1, <2>2, <2>4, <2>6 DEF StoreInv, ControlInv, Replacing, Publishing
  <2>10. Sound(inode'[i]) /\ ClosedPrefix(inode'[i].frames) = lease.closed
    BY <2>3, <2>4, <2>5, <2>7 DEF StoreInv, FoldInv
  <2>11. FoldInv'
    BY <1>2, <2>1, <2>2, <2>6, <2>10
    DEF StoreInv, ControlInv, Publishing, FoldInv, Replacing
  <2>12. RepairInv'
    BY <2>1, <2>2, <2>6, <2>7, RecordsKept DEF RepairInv
  <2> QED BY <2>8, <2>9, <2>11, <2>12 DEF StoreInv
<1> QED BY <1>1, <1>2

LEMMA StageWriteFailsStep == ASSUME StoreInv, StageWriteFails PROVE StoreInv'
<1> DEFINE g == ShortWrite(inode[dir.log])
<1>1. /\ Ambiguous /\ inode' = [inode EXCEPT ![dir.log] = g]
      /\ faults' \in 0..MaxFaults
      /\ UNCHANGED <<dir, durable_dir, snap, projected, attempts, acked>>
  BY TypeParts DEF StoreInv, StateOK, StageWriteFails
<1>2. CASE dir.log # None
  <2>1. dir.log \in Inodes /\ FileOK(inode[dir.log])
    BY <1>2, LogOK DEF StoreInv
  <2>2. FileOK(g) /\ g.cut = inode[dir.log].cut
    BY <2>1, ShortWriteOK
  <2> QED BY <1>1, <2>1, <2>2, WriteFails
<1>3. CASE dir.log = None
  <2>1. inode' = inode
    BY <1>1, <1>3, TypeParts DEF StoreInv, FilesOK
  <2>2. TypeOK'
    BY <1>1, <2>1, AmbiguousLeaves, TypeParts DEF StoreInv, StateOK, FilesOK, FileOK
  <2> QED BY <1>1, <2>1, <2>2, AmbiguousLeaves, QuietStep
<1> QED BY <1>2, <1>3

LEMMA StageSyncsStep == ASSUME StoreInv, StageSyncs PROVE StoreInv'
<1> DEFINE i == op.out
           f == inode[i]
<1>1. /\ op.at = "copied"
      /\ UNCHANGED <<dir, durable_dir, process_fence, lease, snap, projected,
                     attempts, acked>>
  BY DEF StageSyncs
<1>2. /\ i = dir.log /\ i \in Inodes /\ Sound(f) /\ lease.closed # <<>>
      /\ ClosedPrefix(f.frames) = lease.closed /\ lease.state = "fenced"
      /\ op.why = "stage"
  BY <1>1 DEF StoreInv, ControlInv, FoldInv, Publishing
<1>3. FileOK(f) /\ i # None
  BY <1>2, TypeParts DEF StoreInv, FilesOK
<1>4. ASSUME NoFault, inode' = [inode EXCEPT ![i] = Synced(f)],
             op' = [op EXCEPT !.at = "staged"]
      PROVE  StoreInv'
  <2> DEFINE g == Synced(f)
  <2>1. /\ FileOK(g) /\ g.frames = f.frames /\ g.damage = f.damage
        /\ g.short = f.short /\ g.cut = f.cut
    BY <1>3, SyncedOK
  <2> HIDE DEF g
  <2>2. op' \in Operations /\ op'.at = "staged" /\ op'.out = i /\ op'.why = op.why
    BY <1>4, TypeParts DEF StoreInv, StateOK, Operations
  <2>3. /\ FilesOK' /\ \A j \in Inodes : inode'[j].cut => inode[j].cut
        /\ inode'[i] = g
    BY <1>2, <1>4, <2>1, OneFile, CutKept, TypeParts DEF StoreInv, g
  <2>4. TypeOK'
    BY <1>1, <1>4, <2>2, <2>3, TypeParts DEF StoreInv, StateOK
  <2>5. ControlInv'
    BY <1>1, <1>2, <2>2 DEF StoreInv, ControlInv, Replacing, Publishing
  <2>6. FoldInv'
    BY <1>1, <1>2, <2>1, <2>2, <2>3 DEF StoreInv, FoldInv, Replacing, Sound
  <2>7. RepairInv'
    BY <1>1, <1>2, <2>2, <2>3, RecordsKept DEF RepairInv
  <2> QED BY <2>4, <2>5, <2>6, <2>7 DEF StoreInv
<1>5. ASSUME Fault("sync"), NEW g \in SyncFails(f), inode' = [inode EXCEPT ![i] = g],
             op' = [NoOp EXCEPT !.at = "replace", !.why = "rollback"]
      PROVE  StoreInv'
  <2>1. /\ FileOK(g) /\ g.damage = 0 /\ g.cut = f.cut
        /\ IsPrefix(ClosedPrefix(g.frames), lease.closed)
    BY <1>2, <1>3, <1>5, SyncFailsOK DEF Sound
  <2>2. op' \in Operations /\ op'.at = "replace" /\ op'.why = "rollback"
    BY <1>5, OpIdle DEF Operations
  <2>3. /\ FilesOK' /\ \A j \in Inodes : inode'[j].cut => inode[j].cut
        /\ inode'[i] = g
    BY <1>2, <1>5, <2>1, OneFile, CutKept, TypeParts DEF StoreInv
  <2>4. TypeOK'
    BY <1>1, <1>5, <2>2, <2>3, TypeParts DEF StoreInv, StateOK
  <2>5. ControlInv'
    BY <1>1, <1>2, <2>2 DEF StoreInv, ControlInv, Replacing, Publishing
  <2>6. Log' = g
    BY <1>1, <1>2, <1>3, <2>3 DEF Log, File
  <2>7. FoldInv'
    BY <1>1, <1>2, <2>1, <2>2, <2>6 DEF StoreInv, FoldInv, Replacing
  <2>8. RepairInv'
    BY <1>1, <2>2, <2>3, RecordsKept DEF RepairInv
  <2> QED BY <2>4, <2>5, <2>7, <2>8 DEF StoreInv
<1> QED BY <1>4, <1>5 DEF StageSyncs

LEMMA PushFileRowStep == ASSUME StoreInv, push_file_row PROVE StoreInv'
<1> DEFINE i == op.out
           f == inode[i]
           x == Frame(FALSE)
           g == Appended(f, x)
           h == ShortWrite(f)
<1>1. /\ op.at = "staged"
      /\ UNCHANGED <<dir, durable_dir, process_fence, lease, snap, projected,
                     attempts, acked>>
  BY DEF push_file_row
<1>2. /\ i \in Inodes /\ Sound(f) /\ ClosedPrefix(f.frames) = lease.closed
      /\ i = dir.log => lease.closed # <<>>
      /\ lease.state = "fenced" /\ op.why = "stage" /\ FileOK(f)
  BY <1>1, TypeParts DEF StoreInv, ControlInv, FoldInv, Publishing, FilesOK
<1>3. x \in Frames /\ ~x.closes
  BY FrameOK, TypeParts DEF StoreInv, StateOK
<1>4. \/ NoFault /\ inode' = [inode EXCEPT ![i] = g] /\ op' = [op EXCEPT !.rows = 2]
      \/ Fault("write") /\ inode' = [inode EXCEPT ![i] = h] /\ op' = NoOp
  BY DEF push_file_row
<1> HIDE DEF x
<1>5. /\ FileOK(g) /\ g.cut = f.cut /\ Sound(g) /\ ClosedPrefix(g.frames) = lease.closed
  BY <1>2, <1>3, AppendedOK DEF Sound
<1>6. FileOK(h) /\ h.cut = f.cut
  BY <1>2, ShortWriteOK
<1> HIDE DEF g, h
<1>7. CASE NoFault /\ inode' = [inode EXCEPT ![i] = g] /\ op' = [op EXCEPT !.rows = 2]
  <2>1. op' \in Operations /\ op'.at = "staged" /\ op'.out = i /\ op'.why = op.why
    BY <1>1, <1>7, TypeParts DEF StoreInv, StateOK, Operations
  <2>2. /\ FilesOK' /\ \A j \in Inodes : inode'[j].cut => inode[j].cut
        /\ inode'[i] = g
    BY <1>2, <1>5, <1>7, OneFile, CutKept, TypeParts DEF StoreInv
  <2>3. TypeOK'
    BY <1>1, <1>7, <2>1, <2>2, TypeParts DEF StoreInv, StateOK
  <2>4. ControlInv'
    BY <1>1, <2>1 DEF StoreInv, ControlInv, Replacing, Publishing
  <2>5. FoldInv'
    BY <1>1, <1>2, <1>5, <2>1, <2>2 DEF StoreInv, FoldInv, Replacing
  <2>6. RepairInv'
    BY <1>1, <1>5, <2>1, <2>2, RecordsKept DEF StoreInv, RepairInv
  <2> QED BY <2>3, <2>4, <2>5, <2>6 DEF StoreInv
<1>8. CASE Fault("write") /\ inode' = [inode EXCEPT ![i] = h] /\ op' = NoOp
  <2>1. FilesOK' /\ \A j \in Inodes : inode'[j].cut => inode[j].cut
    BY <1>2, <1>6, <1>8, CutKept, TypeParts DEF StoreInv
  <2>2. TypeOK'
    BY <1>1, <1>8, <2>1, OpIdle, TypeParts DEF StoreInv, StateOK
  <2> QED BY <1>1, <1>2, <1>8, <2>1, <2>2, OpIdle, QuietStep
<1> QED BY <1>4, <1>7, <1>8

(* The closing frame closes all that is in the file. *)
LEMMA CompleteStep == ASSUME StoreInv, complete PROVE StoreInv'
<1> DEFINE i == op.out
           f == inode[i]
           x == Frame(TRUE)
           g == Appended(f, x)
           h == ShortWrite(f)
<1>1. /\ op.at = "staged"
      /\ UNCHANGED <<dir, durable_dir, snap, projected, attempts, acked>>
  BY DEF complete
<1>2. /\ i \in Inodes /\ Sound(f) /\ ClosedPrefix(f.frames) = lease.closed
      /\ lease.state = "fenced" /\ op.why = "stage" /\ FileOK(f)
      /\ f.frames \in Seq(Frames) /\ lease.closed \in Seq(Frames)
  BY <1>1, TypeParts DEF StoreInv, ControlInv, FoldInv, Publishing, FilesOK, FileOK,
     FileStates, StateOK, Leases
<1>3. x \in Frames /\ x.closes
  BY FrameOK, TypeParts DEF StoreInv, StateOK
<1>4. \/ /\ NoFault /\ inode' = [inode EXCEPT ![i] = g] /\ op' = [op EXCEPT !.at = "closing"]
         /\ UNCHANGED <<process_fence, lease>>
      \/ Fault("write") /\ inode' = [inode EXCEPT ![i] = h] /\ Ambiguous
  BY DEF complete
<1> HIDE DEF x
<1>5. /\ FileOK(g) /\ g.cut = f.cut /\ Sound(g) /\ ClosedPrefix(g.frames) = g.frames
      /\ g.frames # <<>> /\ IsPrefix(f.frames, g.frames)
  BY <1>2, <1>3, AppendedOK DEF Sound
<1>6. FileOK(h) /\ h.cut = f.cut
  BY <1>2, ShortWriteOK
<1>7. IsPrefix(lease.closed, g.frames)
  <2>1. IsPrefix(lease.closed, f.frames)
    BY <1>2, ClosedPrefixType
  <2>2. g.frames \in Seq(Frames)
    BY <1>5 DEF FileOK, FileStates
  <2> QED BY <1>2, <1>5, <2>1, <2>2, PrefixTransitive
<1> HIDE DEF g, h
<1>8. CASE /\ NoFault /\ inode' = [inode EXCEPT ![i] = g]
           /\ op' = [op EXCEPT !.at = "closing"] /\ UNCHANGED <<process_fence, lease>>
  <2>1. op' \in Operations /\ op'.at = "closing" /\ op'.out = i /\ op'.why = op.why
    BY <1>1, <1>8, TypeParts DEF StoreInv, StateOK, Operations
  <2>2. /\ FilesOK' /\ \A j \in Inodes : inode'[j].cut => inode[j].cut
        /\ inode'[i] = g
    BY <1>2, <1>5, <1>8, OneFile, CutKept, TypeParts DEF StoreInv
  <2>3. TypeOK'
    BY <1>1, <1>8, <2>1, <2>2, TypeParts DEF StoreInv, StateOK
  <2>4. ControlInv'
    BY <1>1, <1>8, <2>1 DEF StoreInv, ControlInv, Replacing, Publishing
  <2>5. FoldInv'
    BY <1>1, <1>2, <1>5, <1>7, <1>8, <2>1, <2>2 DEF StoreInv, FoldInv, Replacing
  <2>6. RepairInv'
    BY <1>1, <1>5, <2>1, <2>2, RecordsKept DEF StoreInv, RepairInv
  <2> QED BY <2>3, <2>4, <2>5, <2>6 DEF StoreInv
<1>9. CASE Fault("write") /\ inode' = [inode EXCEPT ![i] = h] /\ Ambiguous
  <2>1. faults' \in 0..MaxFaults
    BY <1>9, TypeParts DEF StoreInv, StateOK
  <2> QED BY <1>1, <1>2, <1>6, <1>9, <2>1, WriteFails
<1> QED BY <1>4, <1>8, <1>9

(* A publication that is durable: the owner folds the file it has written. *)
LEMMA PublishStep ==
    ASSUME StoreInv, Publish, op.at \in {"closing", "linked"}, FilesOK',
           inode'[op.out].frames = inode[op.out].frames, Sound(inode'[op.out]),
           \A j \in Inodes : inode'[j].cut => inode[j].cut,
           op.out = dir.log, dir' = dir, durable_dir' \in {dir, durable_dir},
           UNCHANGED <<snap, projected, attempts>>
    PROVE  StoreInv'
<1> DEFINE s == inode[op.out].frames
<1>1. /\ op.out \in Inodes /\ op.out # None /\ s # <<>> /\ ClosedPrefix(s) = s
      /\ lease.state = "fenced" /\ ~process_fence /\ ~dir.ambiguous /\ dir.repair = NoRecord
  BY DEF StoreInv, ControlInv, FoldInv, Publishing
<1>2. s \in Seq(Frames) /\ lease \in Leases
  BY <1>1, TypeParts DEF StoreInv, FilesOK, StateOK, FileOK, FileStates
<1>3. /\ acked' = s /\ op' = NoOp /\ process_fence' = process_fence
      /\ \/ NoFault /\ lease' = [lease EXCEPT !.state = "ready", !.closed = s]
         \/ Fault("observer") /\ lease' = lease
  BY DEF Publish
<1> HIDE DEF s
<1>4. faults' \in 0..MaxFaults
  BY <1>3, TypeParts DEF StoreInv, StateOK
<1>5. /\ lease' \in Leases /\ lease'.torn = lease.torn
      /\ \/ lease'.state = "ready" /\ lease'.closed = s
         \/ lease' = lease
  BY <1>2, <1>3 DEF Leases
<1>6. TypeOK'
  BY <1>2, <1>3, <1>4, <1>5, OpIdle, TypeParts DEF StoreInv, StateOK
<1>7. ControlInv'
  BY <1>1, <1>3, <1>5, OpIdle DEF StoreInv, ControlInv, Replacing, Publishing
<1>8. Log' = inode'[op.out] /\ Log'.frames = s
  BY <1>1 DEF Log, File, s
<1>9. FoldInv'
  BY <1>1, <1>3, <1>5, <1>8, OpIdle DEF StoreInv, FoldInv, Replacing, Sound
<1>10. RepairInv'
  BY <1>3, OpIdle, RecordsKept, RepairQuiet
<1> QED BY <1>6, <1>7, <1>9, <1>10 DEF StoreInv

LEMMA CloserSyncsStep == ASSUME StoreInv, CloserSyncs PROVE StoreInv'
<1> DEFINE i == op.out
           f == inode[i]
           g == SyncedClose(f)
<1>1. op.at = "closing" /\ UNCHANGED <<snap, projected, attempts>>
  BY DEF CloserSyncs
<1>2. /\ i \in Inodes /\ i # None /\ Sound(f) /\ ClosedPrefix(f.frames) = f.frames
      /\ f.frames # <<>> /\ IsPrefix(lease.closed, f.frames)
      /\ lease.state = "fenced" /\ op.why = "stage" /\ FileOK(f)
      /\ i # dir.log => dir.log = None /\ ~f.cut
      /\ ~process_fence /\ ~dir.ambiguous /\ dir.repair = NoRecord
  BY <1>1, TypeParts DEF StoreInv, ControlInv, FoldInv, RepairInv, Publishing, FilesOK
<1>3. /\ FileOK(g) /\ g.frames = f.frames /\ g.cut = f.cut /\ Sound(g)
  BY <1>2, SyncedOK DEF SyncedClose, Sound
<1>4. CASE /\ inode' = [inode EXCEPT ![i] = g] /\ i = dir.log
           /\ Publish /\ UNCHANGED <<dir, durable_dir>>
  <2>1. FilesOK' /\ inode'[i] = g /\ \A j \in Inodes : inode'[j].cut => inode[j].cut
    BY <1>2, <1>3, <1>4, OneFile, CutKept, TypeParts DEF StoreInv
  <2> QED BY <1>1, <1>3, <1>4, <2>1, PublishStep
<1>5. CASE /\ inode' = [inode EXCEPT ![i] = g] /\ i # dir.log
           /\ SetEntry("log", i) /\ op' = [op EXCEPT !.at = "linked"]
           /\ NoFault /\ UNCHANGED <<process_fence, lease, acked>>
  <2> HIDE DEF g
  <2>1. /\ FilesOK' /\ inode'[i] = g
        /\ \A j \in Inodes : inode'[j].cut => inode[j].cut
    BY <1>2, <1>3, <1>5, OneFile, CutKept, TypeParts DEF StoreInv
  <2>2. op' \in Operations /\ op'.at = "linked" /\ op'.out = i /\ op'.why = "stage"
    BY <1>2, <1>5, TypeParts DEF StoreInv, StateOK, Operations
  <2>3. /\ dir' \in Entries /\ dir'.log = i /\ dir'.ambiguous = dir.ambiguous
        /\ dir'.repair = dir.repair /\ durable_dir' = durable_dir
    BY <1>2, <1>5, TypeParts DEF StoreInv, StateOK, Entries
  <2>4. TypeOK'
    BY <1>1, <1>5, <2>1, <2>2, <2>3, TypeParts DEF StoreInv, StateOK
  <2>5. ControlInv'
    BY <1>1, <1>2, <1>5, <2>2, <2>3 DEF StoreInv, ControlInv, Replacing, Publishing
  <2>6. FoldInv'
    BY <1>1, <1>2, <1>3, <1>5, <2>1, <2>2, <2>3 DEF StoreInv, FoldInv, Replacing
  <2>7. RecordInv'
    <3>1. ~inode'[dir'.log].cut /\ dir'.log # None
      BY <1>2, <1>3, <1>5, <2>1, <2>3
    <3>2. durable_dir.log # None /\ inode'[durable_dir.log].cut =>
              inode[durable_dir.log].cut
      BY <2>1, TypeParts DEF StoreInv, StateOK, Entries
    <3>3. RecordInv
      BY DEF StoreInv, RepairInv
    <3> QED BY <2>3, <3>1, <3>2, <3>3 DEF RecordInv, Directories, File
  <2>8. RepairInv'
    BY <2>2, <2>7, RepairQuiet
  <2> QED BY <2>4, <2>5, <2>6, <2>8 DEF StoreInv
<1>6. ASSUME Fault("sync"), NEW h \in SyncFails(f), inode' = [inode EXCEPT ![i] = h],
             Ambiguous, UNCHANGED <<dir, durable_dir, acked>>
      PROVE  StoreInv'
  <2>1. FileOK(h) /\ h.cut = f.cut
    BY <1>2, <1>6, SyncFailsOK DEF Sound
  <2>2. faults' \in 0..MaxFaults
    BY <1>6, TypeParts DEF StoreInv, StateOK
  <2> QED BY <1>1, <1>2, <1>6, <2>1, <2>2, WriteFails
<1> QED BY <1>4, <1>5, <1>6 DEF CloserSyncs

(* A directory sync that fails, and is ambiguous. *)
LEMMA SyncAmbiguous ==
    ASSUME StoreInv, Ambiguous, faults' \in 0..MaxFaults,
           UNCHANGED <<inode, dir, durable_dir, snap, projected, attempts, acked>>
    PROVE  StoreInv'
<1>1. TypeOK'
  BY AmbiguousLeaves, TypeParts DEF StoreInv, StateOK, FilesOK, FileOK
<1> QED BY <1>1, AmbiguousLeaves, QuietStep

LEMMA LinkSyncsStep == ASSUME StoreInv, LinkSyncs PROVE StoreInv'
<1>1. op.at = "linked" /\ UNCHANGED <<snap, projected, attempts>>
  BY DEF LinkSyncs
<1>2. CASE SyncDirectory /\ Publish
  <2>1. op.out = dir.log /\ Sound(inode[op.out])
    BY <1>1 DEF StoreInv, ControlInv, FoldInv
  <2>2. FilesOK'
    BY <1>2, TypeParts DEF StoreInv, FilesOK, FileOK
  <2> QED BY <1>1, <1>2, <2>1, <2>2, PublishStep
<1>3. CASE Fault("dirsync") /\ Ambiguous /\ UNCHANGED <<files, acked>>
  <2>1. faults' \in 0..MaxFaults
    BY <1>3, TypeParts DEF StoreInv, StateOK
  <2> QED BY <1>1, <1>3, <2>1, SyncAmbiguous
<1> QED BY <1>2, <1>3 DEF LinkSyncs

LEMMA NoRecordOK ==
    /\ NoRecord \in [kept : Seq(Frames), original : Seq(Frames) \X BOOLEAN \X Nat]
    /\ NoRecord.kept = ClosedContent(NoRecord.original) /\ NoRecord.kept = <<>>
    /\ ClosedPrefix(NoRecord.kept) = NoRecord.kept
<1>1. NoRecord.kept = <<>> /\ NoRecord.original = << <<>>, FALSE, 0 >>
  BY DEF NoRecord, Content, EmptyFile
<1>2. ClosedContent(NoRecord.original) = <<>> /\ ClosedPrefix(NoRecord.kept) = <<>>
  BY <1>1, ClosedPrefixEmpty DEF ClosedContent
<1> DEFINE e == <<>>
           r == << e, FALSE, 0 >>
<1>3. e \in Seq(Frames) /\ NoRecord = [kept |-> e, original |-> r]
  BY DEF NoRecord, Content, EmptyFile
<1> HIDE DEF e
<1>5. r \in Seq(Frames) \X BOOLEAN \X Nat
  BY <1>3
<1> HIDE DEF r
<1>4. NoRecord \in [kept : Seq(Frames), original : Seq(Frames) \X BOOLEAN \X Nat]
  BY <1>3, <1>5
<1> QED BY <1>1, <1>2, <1>4

(* The tail is reconciled: the log is no longer a cut one. *)
LEMMA RemoveRepairFenceStep ==
    ASSUME StoreInv, reconcile_repaired_tail, RemoveRepairFence PROVE StoreInv'
<1> DEFINE i == dir.log
           g == [inode[i] EXCEPT !.cut = FALSE]
<1>1. /\ lease.state = "ready" /\ op.at = "none" /\ durable_dir' = dir
      /\ dir' = [dir EXCEPT !.repair = NoRecord]
      /\ inode' = [inode EXCEPT ![i] = g]
      /\ op' = [NoOp EXCEPT !.at = "reconciled"]
      /\ UNCHANGED <<process_fence, lease, snap, projected, attempts, acked, faults>>
  BY DEF reconcile_repaired_tail, RemoveRepairFence, NoOp
<1>2. /\ dir' \in Entries /\ dir'.log = dir.log /\ dir'.ambiguous = dir.ambiguous
      /\ dir'.repair = NoRecord
  BY <1>1, NoRecordOK, TypeParts DEF StoreInv, StateOK, Entries
<1>3. op' \in Operations /\ op'.at = "reconciled"
  BY <1>1, OpIdle DEF Operations
<1>4. i # None => FileOK(g) /\ ~g.cut /\ g.frames = Log.frames /\ g.damage = Log.damage
                  /\ g.short = Log.short /\ i \in Inodes
  BY LogOK DEF StoreInv, FileOK, FileStates
<1> HIDE DEF g
<1>5. i = None => inode' = inode
  BY <1>1, TypeParts DEF StoreInv, FilesOK
<1>6. /\ FilesOK' /\ (i # None => inode'[i] = g)
      /\ \A j \in Inodes : inode'[j].cut => inode[j].cut
  <2>1. CASE i = None
    BY <1>5, <2>1, TypeParts DEF StoreInv, FilesOK, FileOK
  <2>2. CASE i # None
    BY <1>1, <1>4, <2>2, OneFile, CutKept, TypeParts DEF StoreInv
  <2> QED BY <2>1, <2>2
<1>7. TypeOK'
  BY <1>1, <1>2, <1>3, <1>6, TypeParts DEF StoreInv, StateOK
<1>8. ControlInv'
  BY <1>1, <1>2, <1>3 DEF StoreInv, ControlInv, Replacing, Publishing
<1>9. Log'.frames = Log.frames /\ Log'.damage = Log.damage /\ Log'.short = Log.short
  BY <1>2, <1>4, <1>6 DEF Log, File
<1>10. FoldInv'
  BY <1>1, <1>2, <1>3, <1>9 DEF StoreInv, FoldInv, Replacing
<1>11. RecordInv'
  <2>1. /\ dir.repair.kept = ClosedContent(dir.repair.original)
        /\ ClosedPrefix(dir.repair.kept) = dir.repair.kept
    BY DEF StoreInv, RepairInv, RecordInv, Directories
  <2>2. i # None => ~inode'[i].cut
    BY <1>4, <1>6
  <2> QED BY <1>1, <1>2, <2>1, <2>2, NoRecordOK, EmptyFields
          DEF RecordInv, Directories, File
<1>12. RepairInv'
  BY <1>3, <1>11, RepairQuiet
<1> QED BY <1>7, <1>8, <1>10, <1>12 DEF StoreInv

LEMMA ReconcileStep == ASSUME StoreInv, reconcile_repaired_tail PROVE StoreInv'
<1>1. UNCHANGED <<snap, projected, attempts, acked>>
  BY DEF reconcile_repaired_tail
<1>2. CASE /\ \E kind \in {"write", "sync", "dirsync"} : Fault(kind)
           /\ Ambiguous /\ UNCHANGED files
  <2>1. faults' \in 0..MaxFaults
    BY <1>2, TypeParts DEF StoreInv, StateOK
  <2> QED BY <1>1, <1>2, <2>1, SyncAmbiguous
<1> QED BY <1>2, RemoveRepairFenceStep DEF reconcile_repaired_tail

LEMMA ReconcileSyncsStep == ASSUME StoreInv, ReconcileSyncs PROVE StoreInv'
<1>1. op.at = "reconciled" /\ UNCHANGED <<snap, projected, attempts, acked>>
  BY DEF ReconcileSyncs
<1>2. CASE /\ NoFault /\ SyncDirectory /\ lease' = [lease EXCEPT !.repair = FALSE]
           /\ op' = NoOp /\ UNCHANGED process_fence
  <2>1. /\ lease' \in Leases /\ lease'.state = lease.state /\ lease'.closed = lease.closed
        /\ lease'.torn = lease.torn /\ lease.state = "ready"
    BY <1>1, <1>2, TypeParts DEF StoreInv, StateOK, Leases, ControlInv
  <2>2. TypeOK'
    BY <1>1, <1>2, <2>1, OpIdle, TypeParts DEF StoreInv, StateOK, FilesOK, FileOK
  <2>3. dir.repair = NoRecord
    BY <1>1 DEF StoreInv, ControlInv
  <2>4. ControlInv'
    BY <1>1, <1>2, <2>1, <2>3, OpIdle DEF StoreInv, ControlInv, Replacing, Publishing
  <2>5. FoldInv'
    BY <1>2, <2>1, OpIdle DEF StoreInv, FoldInv, Replacing, Log, File
  <2>6. RepairInv'
    BY <1>2, OpIdle, RecordsKept, RepairQuiet
  <2> QED BY <2>2, <2>4, <2>5, <2>6 DEF StoreInv
<1>3. CASE Fault("dirsync") /\ Ambiguous /\ UNCHANGED files
  <2>1. faults' \in 0..MaxFaults
    BY <1>3, TypeParts DEF StoreInv, StateOK
  <2> QED BY <1>1, <1>3, <2>1, SyncAmbiguous
<1> QED BY <1>2, <1>3 DEF ReconcileSyncs

--------------------------------------------------------------------------------
(* Replacement of the log, and the fences. *)

LEMMA KeptOK == ASSUME StoreInv PROVE Kept \in Seq(Frames)
<1>1. dir.repair.kept \in Seq(Frames) /\ lease.closed \in Seq(Frames)
  BY TypeParts DEF StoreInv, StateOK, Entries, Leases
<1> QED BY <1>1, LogOK DEF StoreInv, Kept

LEMMA ReplacePrefixStep == ASSUME StoreInv, replace_prefix PROVE StoreInv'
<1> DEFINE i == NewInode
           c == (op.why \in {"repair", "rebuild"} \/ Log.cut)
           g == Replacement(c)
<1>1. c \in BOOLEAN
  OBVIOUS
<1>2. /\ op.at = "replace" /\ SomeInode /\ durable_dir' = durable_dir
      /\ inode' = [inode EXCEPT ![i] = g] /\ dir' = [dir EXCEPT !.log = i]
      /\ op' = [op EXCEPT !.at = "replaced"]
      /\ UNCHANGED <<process_fence, lease, snap, projected, attempts, acked, faults>>
  BY DEF replace_prefix
<1>3. c => dir.repair # NoRecord
  BY <1>2 DEF StoreInv, RepairInv, RecordInv, Directories, Log
<1> HIDE DEF c
<1>4. i \in Inodes /\ i # None /\ i # dir.log /\ i # durable_dir.log
  BY <1>2, FreshInode
<1>5. FileOK(g) /\ g.frames = Kept /\ Sound(g) /\ g.cut = c
  BY <1>1, KeptOK, ReplacementOK
<1> HIDE DEF g, i
<1>6. FilesOK' /\ inode'[i] = g /\ \A j \in Inodes \ {i} : inode'[j] = inode[j]
  BY <1>2, <1>4, <1>5, OneFile, TypeParts DEF StoreInv
<1>7. /\ dir' \in Entries /\ dir'.log = i /\ dir'.ambiguous = dir.ambiguous
      /\ dir'.repair = dir.repair
  BY <1>2, <1>4, TypeParts DEF StoreInv, StateOK, Entries
<1>8. op' \in Operations /\ op'.at = "replaced" /\ op'.why = op.why
  BY <1>2, TypeParts DEF StoreInv, StateOK, Operations
<1>9. TypeOK'
  BY <1>2, <1>6, <1>7, <1>8, TypeParts DEF StoreInv, StateOK
<1>10. ControlInv'
  BY <1>2, <1>7, <1>8 DEF StoreInv, ControlInv, Replacing, Publishing
<1>11. FoldInv'
  <2>1. Log' = g
    BY <1>4, <1>6, <1>7 DEF Log, File
  <2>2. lease.state # "none" => Kept = lease.closed
    BY <1>2 DEF StoreInv, ControlInv, Replacing, Kept
  <2> QED BY <1>2, <1>4, <1>5, <1>7, <1>8, <2>1, <2>2
          DEF StoreInv, ControlInv, FoldInv, Replacing, Publishing
<1>12. RecordInv'
  <2>1. durable_dir.log # None => inode'[durable_dir.log] = inode[durable_dir.log]
    BY <1>4, <1>6, TypeParts DEF StoreInv, StateOK, Entries
  <2>2. RecordInv
    BY DEF StoreInv, RepairInv
  <2>3. /\ dir.repair.kept = ClosedContent(dir.repair.original)
        /\ ClosedPrefix(dir.repair.kept) = dir.repair.kept
        /\ durable_dir.repair.kept = ClosedContent(durable_dir.repair.original)
        /\ ClosedPrefix(durable_dir.repair.kept) = durable_dir.repair.kept
        /\ durable_dir.log # None /\ inode[durable_dir.log].cut =>
              durable_dir.repair # NoRecord
    BY <2>2 DEF RecordInv, Directories, File
  <2>4. dir'.log # None /\ (inode'[dir'.log].cut => dir'.repair # NoRecord)
    BY <1>3, <1>4, <1>5, <1>6, <1>7
  <2>5. ASSUME NEW d \in {dir', durable_dir'}
        PROVE  /\ d.repair.kept = ClosedContent(d.repair.original)
               /\ ClosedPrefix(d.repair.kept) = d.repair.kept
               /\ (IF d.log = None THEN EmptyFile ELSE inode'[d.log]).cut =>
                     d.repair # NoRecord
    BY <1>2, <1>7, <2>1, <2>3, <2>4, EmptyFields
  <2> QED BY <2>5 DEF RecordInv, Directories, File
<1>13. RepairInv'
  BY <1>8, <1>12, RepairQuiet
<1> QED BY <1>9, <1>10, <1>11, <1>13 DEF StoreInv

LEMMA ReplaceSyncedStep == ASSUME StoreInv, ReplaceSynced PROVE StoreInv'
<1>1. /\ op.at = "replaced" /\ op' = AfterReplace /\ durable_dir' = dir
      /\ UNCHANGED <<inode, dir, process_fence, snap, projected, attempts, acked, faults>>
  BY DEF ReplaceSynced
<1>2. /\ op' \in Operations
      /\ op.why = "stage" => op'.at = "open" /\ op'.why = "stage"
      /\ op.why = "clear" => op'.at = "unmark"
      /\ op.why = "rebuild" => op'.at = "project"
      /\ op.why \notin {"stage", "clear", "rebuild"} => op'.at = "none"
  <2>1. op \in Operations
    BY TypeParts DEF StoreInv, StateOK
  <2>2. CASE op.why = "stage"
    <3>1. op' = [op EXCEPT !.at = "open"]
      BY <1>1, <2>2 DEF AfterReplace
    <3> QED BY <2>1, <2>2, <3>1 DEF Operations
  <2>3. CASE op.why = "clear"
    <3>1. op' = [op EXCEPT !.at = "unmark"]
      BY <1>1, <2>3 DEF AfterReplace
    <3> QED BY <2>1, <2>3, <3>1 DEF Operations
  <2>4. CASE op.why = "rebuild"
    <3>1. op' = [op EXCEPT !.at = "project"]
      BY <1>1, <2>4 DEF AfterReplace
    <3> QED BY <2>1, <2>4, <3>1 DEF Operations
  <2>5. CASE op.why \notin {"stage", "clear", "rebuild"}
    <3>1. op' = NoOp
      BY <1>1, <2>5 DEF AfterReplace
    <3> QED BY <2>5, <3>1, OpIdle
  <2> QED BY <2>2, <2>3, <2>4, <2>5
<1>3. CASE lease.state = "none"
  <2>1. lease' = lease /\ op.why \in {"clear", "repair", "rebuild"}
    BY <1>1, <1>3 DEF ReplaceSynced, StoreInv, ControlInv
  <2>2. TypeOK'
    BY <1>1, <1>2, <2>1, TypeParts DEF StoreInv, StateOK, FilesOK, FileOK
  <2>3. ControlInv' /\ FoldInv'
    BY <1>2, <1>3, <2>1, Quiet DEF StoreInv, FoldInv
  <2>4. RepairInv'
    BY <1>1, <1>2, <2>1, RecordsKept, RepairQuiet
  <2> QED BY <2>2, <2>3, <2>4 DEF StoreInv
<1>4. CASE lease.state # "none"
  <2> DEFINE a == IF op.why = "stage" THEN "fenced" ELSE "ready"
  <2>1. lease' = [lease EXCEPT !.torn = FALSE, !.state = a]
    BY <1>4 DEF ReplaceSynced
  <2>2. a \in {"fenced", "ready"} /\ (a = "fenced" <=> op.why = "stage")
    OBVIOUS
  <2> HIDE DEF a
  <2>3. lease' \in Leases /\ lease'.state = a /\ lease'.closed = lease.closed /\ ~lease'.torn
    BY <2>1, <2>2, TypeParts DEF StoreInv, StateOK, Leases
  <2>4. /\ op.why \in {"stage", "rollback", "cancel"} /\ ~process_fence /\ ~dir.ambiguous
        /\ dir.repair = NoRecord
    BY <1>1, <1>4 DEF StoreInv, ControlInv, Replacing
  <2>5. TypeOK'
    BY <1>1, <1>2, <2>3, TypeParts DEF StoreInv, StateOK, FilesOK, FileOK
  <2>6. ControlInv'
    BY <1>1, <1>2, <2>2, <2>3, <2>4 DEF ControlInv, Replacing, Publishing
  <2>7. FoldInv'
    BY <1>1, <1>2, <1>4, <2>2, <2>3, <2>4
    DEF StoreInv, FoldInv, Replacing, Log, File, Sound
  <2>8. RepairInv'
    BY <1>1, <1>2, <2>4, RecordsKept, RepairQuiet
  <2> QED BY <2>5, <2>6, <2>7, <2>8 DEF StoreInv
<1> QED BY <1>3, <1>4

LEMMA ReplaceFailsStep == ASSUME StoreInv, ReplaceFails PROVE StoreInv'
<1> DEFINE p == (process_fence \/ op.why = "clear")
<1>1. /\ op.at \in {"replace", "replaced"} /\ process_fence' = p
      /\ op' = NoOp \/ op' = [op EXCEPT !.at = "uncertain"]
      /\ UNCHANGED <<inode, dir, durable_dir, lease, snap, projected, attempts, acked>>
  BY DEF ReplaceFails
<1>2. p \in BOOLEAN
  OBVIOUS
<1> HIDE DEF p
<1>3. op' \in Operations /\ op'.at \in {"none", "uncertain"}
  BY <1>1, OpIdle, TypeParts DEF StoreInv, StateOK, Operations
<1>4. faults' \in 0..MaxFaults
  BY TypeParts DEF ReplaceFails, StoreInv, StateOK
<1>5. TypeOK'
  BY <1>1, <1>2, <1>3, <1>4, TypeParts DEF StoreInv, StateOK, FilesOK, FileOK
<1>6. lease.state # "ready"
  BY <1>1 DEF StoreInv, ControlInv
<1> QED BY <1>1, <1>3, <1>5, <1>6, QuietStep

LEMMA FenceAmbiguityStep == ASSUME StoreInv, fence_ambiguity PROVE StoreInv'
<1> DEFINE d == [dir EXCEPT !.ambiguous = TRUE]
<1>1. /\ op.at = "uncertain" /\ op' = NoOp
      /\ dir' \in {d, dir} /\ durable_dir' \in {d, dir, durable_dir}
      /\ UNCHANGED <<inode, process_fence, lease, snap, projected, attempts, acked>>
  BY DEF fence_ambiguity
<1>2. d \in Entries /\ d.log = dir.log /\ d.repair = dir.repair
  BY TypeParts DEF StoreInv, StateOK, Entries
<1> HIDE DEF d
<1>3. faults' \in 0..MaxFaults
  BY TypeParts DEF fence_ambiguity, StoreInv, StateOK
<1>4. TypeOK'
  BY <1>1, <1>2, <1>3, OpIdle, TypeParts DEF StoreInv, StateOK, FilesOK, FileOK
<1>5. lease.state # "ready"
  BY <1>1 DEF StoreInv, ControlInv
<1>6. \A x \in {dir', durable_dir'} : \E e \in {dir, durable_dir} :
          x.log = e.log /\ x.repair = e.repair
  BY <1>1, <1>2
<1> QED BY <1>1, <1>4, <1>5, <1>6, OpIdle, QuietStep

LEMMA ClearAmbiguityStep == ASSUME StoreInv, clear_ambiguity PROVE StoreInv'
<1> DEFINE a == IF dir.log = None THEN "unmark" ELSE "replace"
<1>1. /\ lease = NoLease /\ durable_dir' \in {dir, durable_dir}
      /\ UNCHANGED <<inode, dir, lease, snap, projected, attempts, acked>>
      /\ \/ op' = [NoOp EXCEPT !.at = a, !.why = "clear"] /\ process_fence' = process_fence
         \/ op' = [NoOp EXCEPT !.at = "uncertain"] /\ process_fence' = TRUE
      /\ faults' \in 0..MaxFaults
  BY TypeParts DEF StoreInv, StateOK, clear_ambiguity, Unlocked
<1>2. a \in {"unmark", "replace"}
  OBVIOUS
<1> HIDE DEF a
<1>3. /\ op' \in Operations /\ op'.at \in {"unmark", "replace", "uncertain"}
      /\ op'.at = "replace" => op'.why = "clear"
  BY <1>1, <1>2, OpIdle, OpMarks DEF Operations
<1>4. TypeOK'
  BY <1>1, <1>3, TypeParts DEF StoreInv, StateOK, FilesOK, FileOK
<1>5. lease'.state = "none" /\ ClosedPrefix(lease'.closed) = lease'.closed /\ ~lease'.torn
  BY <1>1, LeaseNone
<1>6. ControlInv' /\ FoldInv'
  BY <1>3, <1>5 DEF ControlInv, FoldInv, Replacing, Publishing
<1>7. RecordInv'
  BY <1>1, RecordsKept
<1>8. RepairInv'
  BY <1>3, <1>7 DEF RepairInv
<1> QED BY <1>4, <1>6, <1>8 DEF StoreInv

LEMMA RemoveMarkerStep == ASSUME StoreInv, RemoveMarker PROVE StoreInv'
<1>1. /\ op.at = "unmark" /\ dir' = [dir EXCEPT !.ambiguous = FALSE]
      /\ op' = [op EXCEPT !.at = "unmarked"]
      /\ UNCHANGED <<inode, durable_dir, process_fence, lease, snap, projected,
                     attempts, acked, faults>>
  BY DEF RemoveMarker
<1>2. dir' \in Entries /\ dir'.log = dir.log /\ dir'.repair = dir.repair
  BY <1>1, TypeParts DEF StoreInv, StateOK, Entries
<1>3. op' \in Operations /\ op'.at = "unmarked"
  BY <1>1, TypeParts DEF StoreInv, StateOK, Operations
<1>4. TypeOK'
  BY <1>1, <1>2, <1>3, TypeParts DEF StoreInv, StateOK, FilesOK, FileOK
<1>5. ControlInv' /\ FoldInv'
  BY <1>1, <1>3, Quiet DEF StoreInv, ControlInv, FoldInv
<1>6. RepairInv'
  BY <1>1, <1>2, <1>3, RecordsKept, RepairQuiet
<1> QED BY <1>4, <1>5, <1>6 DEF StoreInv

LEMMA MarkerRemovedStep == ASSUME StoreInv, MarkerRemoved PROVE StoreInv'
<1>1. op.at = "unmarked" /\ UNCHANGED <<snap, projected, attempts, acked>>
  BY DEF MarkerRemoved
<1>2. CASE /\ NoFault /\ SyncDirectory /\ process_fence' = FALSE /\ op' = NoOp
           /\ UNCHANGED lease
  <2>1. TypeOK'
    BY <1>1, <1>2, OpIdle, TypeParts DEF StoreInv, StateOK, FilesOK, FileOK
  <2>2. lease.state = "none"
    BY <1>1 DEF StoreInv, ControlInv
  <2> QED BY <1>2, <2>1, <2>2, OpIdle, QuietStep
<1>3. CASE Fault("dirsync") /\ Ambiguous /\ UNCHANGED files
  <2>1. faults' \in 0..MaxFaults
    BY <1>3, TypeParts DEF StoreInv, StateOK
  <2> QED BY <1>1, <1>3, <2>1, SyncAmbiguous
<1> QED BY <1>2, <1>3 DEF MarkerRemoved

--------------------------------------------------------------------------------
(* Explicit repair. *)

(* A record binds what it keeps to the log it was made of. *)
LEMMA RecordOK ==
    ASSUME StoreInv, NEW b \in BOOLEAN, NEW r, r = RepairRecord(b)
    PROVE  /\ r \in [kept : Seq(Frames), original : Seq(Frames) \X BOOLEAN \X Nat]
           /\ r.kept = Closed(Log) /\ r.kept = ClosedContent(r.original)
           /\ ClosedPrefix(r.kept) = r.kept
<1> DEFINE k == Closed(Log)
           o == Content(Log)
           s == Log.frames
           h == Log.short
           n == Log.damage
<1>1. k \in Seq(Frames) /\ ClosedPrefix(k) = k /\ s \in Seq(Frames) /\ h \in BOOLEAN /\ n \in Nat
  BY LogOK DEF StoreInv, FileOK, FileStates
<1>2. o = <<s, h, n>>
  BY DEF Content
<1>3. k = ClosedContent(o)
  BY <1>2 DEF Closed, Readable, ClosedContent
<1> HIDE DEF s, h, n
<1>4. o \in Seq(Frames) \X BOOLEAN \X Nat
  BY <1>1, <1>2
<1>5. r = [kept |-> k, original |-> o]
  BY DEF RepairRecord
<1> HIDE DEF k, o
<1>6. /\ r \in [kept : Seq(Frames), original : Seq(Frames) \X BOOLEAN \X Nat]
      /\ r.kept = k /\ r.original = o
  BY <1>1, <1>4, <1>5
<1> QED BY <1>1, <1>3, <1>6 DEF k

LEMMA RepairTailStep ==
    ASSUME StoreInv, NEW rebuild \in BOOLEAN, repair_tail(rebuild) PROVE StoreInv'
<1> DEFINE r == RepairRecord(rebuild)
           w == IF rebuild THEN "rebuild" ELSE "repair"
<1>1. /\ lease = NoLease /\ dir' = [dir EXCEPT !.repair = r]
      /\ op' = [NoOp EXCEPT !.at = "recorded", !.why = w] /\ Closed(Log) # <<>>
      /\ UNCHANGED <<inode, durable_dir, process_fence, lease, snap, projected,
                     attempts, acked, faults>>
  BY DEF repair_tail, Offline, Unlocked
<1>2. w \in {"repair", "rebuild"}
  OBVIOUS
<1>3. /\ r \in [kept : Seq(Frames), original : Seq(Frames) \X BOOLEAN \X Nat]
      /\ r.kept = Closed(Log) /\ r.kept = ClosedContent(r.original)
      /\ ClosedPrefix(r.kept) = r.kept
  BY RecordOK
<1>4. r # NoRecord
  BY <1>1, <1>3, NoRecordOK
<1> HIDE DEF r, w
<1>5. dir' \in Entries /\ dir'.log = dir.log /\ dir'.repair = r
  BY <1>1, <1>3, TypeParts DEF StoreInv, StateOK, Entries
<1>6. op' \in Operations /\ op'.at = "recorded" /\ op'.why = w
  BY <1>1, <1>2, OpIdle DEF Operations
<1>7. TypeOK'
  BY <1>1, <1>5, <1>6, TypeParts DEF StoreInv, StateOK, FilesOK, FileOK
<1>8. lease'.state = "none" /\ ClosedPrefix(lease'.closed) = lease'.closed /\ ~lease'.torn
  BY <1>1, LeaseNone
<1>9. ControlInv' /\ FoldInv'
  BY <1>2, <1>6, <1>8 DEF ControlInv, FoldInv, Replacing, Publishing
<1>10. Log' = Log
  BY <1>1, <1>5 DEF Log, File
<1>11. RecordInv'
  <2>1. RecordInv
    BY DEF StoreInv, RepairInv
  <2> QED BY <1>1, <1>3, <1>4, <1>5, <2>1 DEF RecordInv, Directories, File
<1>12. Closed(Log)' = Closed(Log)
  BY <1>10 DEF Closed, Readable
<1>13. RepairInv'
  BY <1>3, <1>4, <1>5, <1>6, <1>11, <1>12 DEF RepairInv
<1> QED BY <1>7, <1>9, <1>13 DEF StoreInv

LEMMA RecordSyncsStep == ASSUME StoreInv, RecordSyncs PROVE StoreInv'
<1>1. /\ op.at = "recorded"
      /\ UNCHANGED <<inode, dir, process_fence, lease, snap, projected, attempts, acked>>
  BY DEF RecordSyncs
<1>2. lease.state = "none" /\ op.why \in {"repair", "rebuild"}
  BY <1>1 DEF StoreInv, ControlInv
<1>3. CASE NoFault /\ durable_dir' = dir /\ op' = [op EXCEPT !.at = "replace"]
  <2>1. op' \in Operations /\ op'.at = "replace" /\ op'.why = op.why
    BY <1>3, TypeParts DEF StoreInv, StateOK, Operations
  <2>2. TypeOK'
    BY <1>1, <1>3, <2>1, TypeParts DEF StoreInv, StateOK, FilesOK, FileOK
  <2>3. ControlInv' /\ FoldInv'
    BY <1>1, <1>2, <2>1 DEF StoreInv, ControlInv, FoldInv, Replacing, Publishing
  <2>4. RecordInv'
    BY <1>1, <1>3, RecordsKept
  <2>5. Closed(Log)' = Closed(Log)
    BY <1>1 DEF Closed, Readable, Log, File
  <2>6. RepairInv'
    BY <1>1, <1>2, <2>1, <2>4, <2>5 DEF StoreInv, RepairInv
  <2> QED BY <2>2, <2>3, <2>6 DEF StoreInv
<1>4. CASE Fault("dirsync") /\ op' = NoOp /\ UNCHANGED durable_dir
  <2>1. TypeOK'
    BY <1>1, <1>4, OpIdle, TypeParts DEF StoreInv, StateOK, FilesOK, FileOK
  <2> QED BY <1>1, <1>2, <1>4, <2>1, OpIdle, QuietStep
<1> QED BY <1>3, <1>4 DEF RecordSyncs

(* Whether the log is the original or the copy, what it has closed is kept. *)
LEMMA ResumeRepairStep ==
    ASSUME StoreInv, NEW rebuild \in BOOLEAN, resume_repair(rebuild) PROVE StoreInv'
<1> DEFINE w == IF rebuild THEN "rebuild" ELSE "repair"
           k == dir.repair.kept
<1>1. /\ lease = NoLease /\ dir.repair # NoRecord
      /\ Content(Log) = dir.repair.original \/ Content(Log) = <<k, FALSE, 0>>
      /\ op' = [NoOp EXCEPT !.at = "replace", !.why = w]
      /\ UNCHANGED <<inode, dir, durable_dir, process_fence, lease, snap, projected,
                     attempts, acked, faults>>
  BY DEF resume_repair, Offline, Unlocked, RepairRequired
<1>2. w \in {"repair", "rebuild"}
  OBVIOUS
<1> HIDE DEF w
<1>3. Closed(Log) = ClosedContent(Content(Log))
  BY DEF Closed, Readable, ClosedContent, Content
<1>4. k = ClosedContent(dir.repair.original) /\ ClosedPrefix(k) = k
  BY DEF StoreInv, RepairInv, RecordInv, Directories
<1>6. Closed(Log) = k
  <2>1. CASE Content(Log) = dir.repair.original
    BY <1>3, <1>4, <2>1
  <2>2. CASE Content(Log) = <<k, FALSE, 0>>
    BY <1>3, <1>4, <2>2 DEF ClosedContent
  <2> QED BY <1>1, <2>1, <2>2
<1>7. op' \in Operations /\ op'.at = "replace" /\ op'.why = w
  BY <1>1, <1>2, OpIdle DEF Operations
<1>8. TypeOK'
  BY <1>1, <1>7, TypeParts DEF StoreInv, StateOK, FilesOK, FileOK
<1>9. lease'.state = "none" /\ ClosedPrefix(lease'.closed) = lease'.closed /\ ~lease'.torn
  BY <1>1, LeaseNone
<1>10. ControlInv' /\ FoldInv'
  BY <1>2, <1>7, <1>9 DEF ControlInv, FoldInv, Replacing, Publishing
<1>11. RecordInv'
  BY <1>1, RecordsKept
<1>12. Closed(Log)' = Closed(Log)
  BY <1>1 DEF Closed, Readable, Log, File
<1>13. RepairInv'
  BY <1>1, <1>6, <1>7, <1>11, <1>12 DEF RepairInv
<1> QED BY <1>8, <1>10, <1>13 DEF StoreInv

--------------------------------------------------------------------------------
(* The catalog and the host. *)

(* Neither the log nor its owner takes part. *)
LEMMA BystanderStep ==
    ASSUME StoreInv, TypeOK',
           UNCHANGED <<inode, dir, durable_dir, process_fence, lease, op>>
    PROVE  StoreInv'
<1>1. ControlInv'
  BY DEF StoreInv, ControlInv, Replacing
<1>2. FoldInv'
  BY DEF StoreInv, FoldInv, Replacing, Log, File
<1>3. RepairInv'
  BY DEF StoreInv, RepairInv, RecordInv, Directories, Log, File, Closed, Readable
<1> QED BY <1>1, <1>2, <1>3 DEF StoreInv

LEMMA RebuildProjectionStep == ASSUME StoreInv, RebuildProjection PROVE StoreInv'
<1>1. /\ op.at = "project" /\ op' = NoOp /\ projected' \in {projected, Closed(Log)}
      /\ UNCHANGED <<inode, dir, durable_dir, process_fence, lease, snap, attempts,
                     acked, faults>>
  BY DEF RebuildProjection
<1>2. projected' \in Seq(Frames)
  BY <1>1, LogOK, TypeParts DEF StoreInv, StateOK
<1>3. TypeOK'
  BY <1>1, <1>2, OpIdle, TypeParts DEF StoreInv, StateOK, FilesOK, FileOK
<1>4. lease.state = "none"
  BY <1>1 DEF StoreInv, ControlInv
<1> QED BY <1>1, <1>3, <1>4, OpIdle, QuietStep

LEMMA SnapshotStep == ASSUME StoreInv, snapshot PROVE StoreInv'
<1> DEFINE n == SnapshotEnd(Log)
<1>1. /\ snap' = [inode |-> dir.log, end |-> n] /\ dir.log # None
      /\ UNCHANGED <<inode, dir, durable_dir, process_fence, lease, op, projected,
                     attempts, acked, faults>>
  BY DEF snapshot
<1>2. n \in Nat /\ dir.log \in Inodes
  BY <1>1, LogOK DEF StoreInv, SnapshotEnd
<1> HIDE DEF n
<1>3. snap' \in Snapshots
  BY <1>1, <1>2 DEF Snapshots
<1>4. TypeOK'
  BY <1>1, <1>3, TypeParts DEF StoreInv, StateOK, FilesOK, FileOK
<1> QED BY <1>1, <1>4, BystanderStep

(* A closing frame is in the closed prefix. *)
LEMMA CloserIsClosed ==
    ASSUME NEW s \in Seq(Frames), NEW n \in 1..Len(s), s[n].closes
    PROVE  n <= Len(ClosedPrefix(s))
<1>1. PICK m : Ends(s, m)
  BY EndExists
<1>2. m \in 0..Len(s) /\ n <= m
  BY <1>1 DEF Ends
<1> QED BY <1>1, <1>2, EndPrefix, SubSeqPrefix

(* What a projection reads is appended to what the catalog has. *)
LEMMA ProjectOK ==
    ASSUME projected \in Seq(Frames), NEW frames \in Seq(Frames), Project(frames)
    PROVE  /\ projected' \in Seq(Frames)
           /\ Comparable(projected, ClosedPrefix(frames)) => projected' = ClosedPrefix(frames)
<1> DEFINE c == ClosedPrefix(frames)
           n == Len(projected)
           t == SubSeq(c, n + 1, Len(c))
<1>1. c \in Seq(Frames) /\ n \in Nat
  BY ClosedPrefixType
<1>2. n <= Len(c)
  <2>1. CASE projected = <<>>
    BY <1>1, <2>1
  <2>2. CASE projected # <<>>
    <3>1. n \in 1..Len(frames) /\ frames[n].closes
      BY <2>2 DEF Project
    <3> QED BY <3>1, CloserIsClosed
  <2> QED BY <2>1, <2>2
<1>3. projected' = projected \o t
  BY DEF Project
<1> HIDE DEF c
<1>4. t \in Seq(Frames) /\ Len(t) = Len(c) - n /\ \A i \in 1..Len(t) : t[i] = c[n + i]
  BY <1>1, <1>2
<1> HIDE DEF t
<1>5. /\ projected' \in Seq(Frames) /\ Len(projected') = Len(c)
      /\ \A i \in 1..Len(c) : projected'[i] = IF i <= n THEN projected[i] ELSE t[i - n]
  BY <1>1, <1>2, <1>3, <1>4
<1>6. ASSUME IsPrefix(projected, c) PROVE projected' = c
  <2>1. \A i \in 1..n : projected[i] = c[i]
    BY <1>1, <1>6, PrefixElements
  <2>2. \A i \in 1..Len(c) : projected'[i] = c[i]
    BY <1>1, <1>2, <1>4, <1>5, <2>1
  <2> QED BY <1>1, <1>5, <2>2, SeqEqual
<1>7. ASSUME IsPrefix(c, projected) PROVE projected' = c
  <2>1. c = projected
    BY <1>1, <1>2, <1>7, PrefixSameLength
  <2> QED BY <1>1, <1>6, <2>1, PrefixReflexive
<1> QED BY <1>5, <1>6, <1>7 DEF Comparable, c

LEMMA SnapshotFramesOK ==
    ASSUME TypeOK, snap # NoSnap
    PROVE  /\ snap.inode \in Inodes /\ SnapshotFrames \in Seq(Frames)
           /\ IsPrefix(SnapshotFrames, inode[snap.inode].frames)
<1> DEFINE s == inode[snap.inode].frames
           n == IF snap.end < Len(s) THEN snap.end ELSE Len(s)
<1>1. snap.inode \in Inodes /\ snap.end \in Nat
  BY TypeParts DEF StateOK, Snapshots
<1>2. s \in Seq(Frames)
  BY <1>1, TypeParts DEF FilesOK, FileOK, FileStates
<1>3. n \in 0..Len(s)
  BY <1>1, <1>2
<1>4. SnapshotFrames = SubSeq(s, 1, n)
  BY DEF SnapshotFrames
<1> HIDE DEF s, n
<1> QED BY <1>1, <1>2, <1>3, <1>4, SubSeqPrefix DEF s

LEMMA ProjectSnapshotStep == ASSUME StoreInv, ProjectSnapshot PROVE StoreInv'
<1>1. /\ snap # NoSnap /\ Project(SnapshotFrames) /\ snap' = NoSnap
      /\ UNCHANGED <<inode, dir, durable_dir, process_fence, lease, op,
                     attempts, acked, faults>>
  BY DEF ProjectSnapshot
<1>2. projected' \in Seq(Frames)
  BY <1>1, SnapshotFramesOK, ProjectOK, TypeParts DEF StoreInv, StateOK
<1>3. TypeOK'
  BY <1>1, <1>2, SnapNone, TypeParts DEF StoreInv, StateOK, FilesOK, FileOK
<1> QED BY <1>1, <1>3, BystanderStep

LEMMA ProjectOwnedStep == ASSUME StoreInv, ProjectOwned PROVE StoreInv'
<1>1. /\ Project(lease.closed)
      /\ UNCHANGED <<inode, dir, durable_dir, process_fence, lease, op, snap,
                     attempts, acked, faults>>
  BY DEF ProjectOwned, memory
<1>2. lease.closed \in Seq(Frames)
  BY TypeParts DEF StoreInv, StateOK, Leases
<1>3. projected' \in Seq(Frames)
  BY <1>1, <1>2, ProjectOK, TypeParts DEF StoreInv, StateOK
<1>4. TypeOK'
  BY <1>1, <1>3, TypeParts DEF StoreInv, StateOK, FilesOK, FileOK
<1> QED BY <1>1, <1>4, BystanderStep

(* The process stops: nobody owns the log, and the files are as they were. *)
LEMMA EndStep ==
    ASSUME StoreInv, ProcessEnds, faults' \in 0..MaxFaults,
           UNCHANGED <<inode, dir, durable_dir, projected, attempts, acked>>
    PROVE  StoreInv'
<1>1. /\ process_fence' = FALSE /\ lease' = NoLease /\ op' = NoOp /\ snap' = NoSnap
  BY DEF ProcessEnds
<1>2. TypeOK'
  BY <1>1, LeaseNone, OpIdle, SnapNone, TypeParts DEF StoreInv, StateOK, FilesOK, FileOK
<1>3. ControlInv' /\ FoldInv'
  BY <1>1, LeaseNone, OpIdle, Quiet
<1>4. RepairInv'
  BY <1>1, OpIdle, RecordsKept, RepairQuiet
<1> QED BY <1>2, <1>3, <1>4 DEF StoreInv

(* Power loss leaves one directory and one file of it. *)
LEMMA PowerLossStep == ASSUME StoreInv, PowerLoss PROVE StoreInv'
<1>1. PICK d \in Directories :
        \E n \in File(d.log).synced..Len(File(d.log).frames), b \in BOOLEAN :
          /\ dir' = d /\ durable_dir' = d
          /\ inode' = [i \in Inodes |-> IF i = d.log THEN Survives(File(d.log), n, b)
                                                     ELSE EmptyFile]
  BY DEF PowerLoss
<1> DEFINE f == File(d.log)
<1>2. PICK n \in f.synced..Len(f.frames), b \in BOOLEAN :
          /\ dir' = d /\ durable_dir' = d
          /\ inode' = [i \in Inodes |-> IF i = d.log THEN Survives(f, n, b)
                                                     ELSE EmptyFile]
  BY <1>1
<1> DEFINE g == Survives(f, n, b)
<1>3. /\ d \in Entries /\ d.repair.kept = ClosedContent(d.repair.original)
      /\ ClosedPrefix(d.repair.kept) = d.repair.kept
      /\ f.cut => d.repair # NoRecord
  BY TypeParts DEF StoreInv, StateOK, RepairInv, RecordInv, Directories
<1>4. FileOK(f)
  BY <1>3, EmptyFileOK, TypeParts DEF StoreInv, FilesOK, File, Entries
<1>5. FileOK(g) /\ g.cut = f.cut
  BY <1>2, <1>4, SurvivesOK
<1> HIDE DEF f, g
<1>6. \A i \in Inodes : inode'[i] = (IF i = d.log THEN g ELSE EmptyFile)
  BY <1>2 DEF g
<1>7. FilesOK'
  <2>1. \A i \in Inodes : FileOK(inode'[i])
    BY <1>5, <1>6, EmptyFileOK
  <2>2. inode' = [i \in Inodes |-> inode'[i]]
    BY <1>2
  <2>3. inode' \in [Inodes -> FileStates]
    BY <2>1, <2>2 DEF FileOK
  <2> QED BY <2>1, <2>3 DEF FilesOK, FileOK
<1>8. /\ process_fence' = FALSE /\ lease' = NoLease /\ op' = NoOp /\ snap' = NoSnap
      /\ UNCHANGED <<projected, attempts, acked>> /\ faults' \in 0..MaxFaults
  BY TypeParts DEF StoreInv, StateOK, PowerLoss, ProcessEnds
<1>9. TypeOK'
  BY <1>2, <1>3, <1>7, <1>8, LeaseNone, OpIdle, SnapNone, TypeParts DEF StoreInv, StateOK
<1>10. ControlInv' /\ FoldInv'
  BY <1>8, LeaseNone, OpIdle, Quiet
<1>11. RecordInv'
  <2>1. d.log # None => inode'[d.log] = g
    BY <1>3, <1>6 DEF Entries
  <2> QED BY <1>2, <1>3, <1>5, <2>1, EmptyFields DEF RecordInv, Directories, File
<1>12. RepairInv'
  BY <1>8, <1>11, OpIdle, RepairQuiet
<1> QED BY <1>9, <1>10, <1>12 DEF StoreInv

LEMMA CorruptStep == ASSUME StoreInv, Corrupt PROVE StoreInv'
<1>1. /\ dir.log # None /\ lease = NoLease /\ op = NoOp
      /\ UNCHANGED <<dir, durable_dir, process_fence, lease, op, snap, projected,
                     attempts, acked>>
  BY DEF Corrupt, Unlocked, memory
<1>2. PICK n \in 1..Len(Log.frames) :
          inode' = [inode EXCEPT ![dir.log] = [inode[dir.log] EXCEPT !.damage = n]]
  BY DEF Corrupt
<1> DEFINE i == dir.log
           g == [inode[i] EXCEPT !.damage = n]
<1>3. i \in Inodes /\ Log = inode[i] /\ FileOK(inode[i])
  BY <1>1, LogOK DEF StoreInv
<1>4. FileOK(g) /\ g.cut = inode[i].cut
  BY <1>2, <1>3 DEF FileOK, FileStates
<1> HIDE DEF g
<1>5. FilesOK' /\ \A j \in Inodes : inode'[j].cut => inode[j].cut
  BY <1>2, <1>3, <1>4, CutKept, TypeParts DEF StoreInv, g
<1>6. faults' \in 0..MaxFaults
  BY TypeParts DEF Corrupt, StoreInv, StateOK
<1>7. TypeOK'
  BY <1>1, <1>5, <1>6, TypeParts DEF StoreInv, StateOK
<1> QED BY <1>1, <1>5, <1>7, OpIdle, LeaseNone, QuietStep

--------------------------------------------------------------------------------
LEMMA StoreInit == Init => StoreInv
<1> SUFFICES ASSUME Init PROVE StoreInv
  OBVIOUS
<1>1. /\ inode = [i \in Inodes |-> EmptyFile]
      /\ dir = [log |-> None, ambiguous |-> FALSE, repair |-> NoRecord]
      /\ durable_dir = dir /\ process_fence = FALSE /\ lease = NoLease /\ op = NoOp
      /\ snap = NoSnap /\ projected = <<>> /\ attempts = 0 /\ faults = 0 /\ acked = <<>>
  BY DEF Init
<1>2. FilesOK
  BY <1>1, EmptyFileOK DEF FilesOK, FileOK
<1>3. dir \in Entries /\ dir.log = None /\ dir.repair = NoRecord
  BY <1>1, NoRecordOK DEF Entries
<1>a. projected \in Seq(Frames) /\ acked \in Seq(Frames)
  BY <1>1
<1>b. attempts \in 0..MaxGroups /\ faults \in 0..MaxFaults
  <2>1. attempts = 0 /\ faults = 0 /\ MaxGroups \in Nat /\ MaxFaults \in Nat
    BY StoreAssumption DEF Init
  <2> QED BY <2>1
<1>c. process_fence \in BOOLEAN
  BY <1>1
<1>4. StateOK
  BY <1>1, <1>3, <1>a, <1>b, <1>c, LeaseNone, OpIdle, SnapNone DEF StateOK
<1>5. ControlInv /\ FoldInv
  BY <1>1, LeaseNone, OpIdle DEF ControlInv, FoldInv, Replacing, Publishing
<1>6. RecordInv
  BY <1>1, <1>3, NoRecordOK, EmptyFields DEF RecordInv, Directories, File
<1>7. RepairInv
  BY <1>1, <1>6, OpIdle DEF RepairInv
<1> QED BY <1>2, <1>4, <1>5, <1>7, TypeParts DEF StoreInv

LEMMA StoreNext == StoreInv /\ [Next]_vars => StoreInv'
<1> SUFFICES ASSUME StoreInv, [Next]_vars PROVE StoreInv'
  OBVIOUS
<1>1. CASE Own
  BY <1>1, AcquireStep, SetProjectionFloorStep, ReleaseStep, StageStep, StageWritesStep,
     StageWriteFailsStep, StageSyncsStep, PushFileRowStep, DropStagedStep,
     CancelDetachedStep, CompleteStep, CloserSyncsStep, LinkSyncsStep, ReconcileStep,
     ReconcileSyncsStep DEF Own
<1>2. CASE Recover
  BY <1>2, ReplacePrefixStep, ReplaceSyncedStep, ReplaceFailsStep, FenceAmbiguityStep,
     ClearAmbiguityStep, RemoveMarkerStep, MarkerRemovedStep, RepairTailStep,
     ResumeRepairStep, RecordSyncsStep, RebuildProjectionStep DEF Recover
<1>3. CASE Read
  BY <1>3, SnapshotStep, ProjectSnapshotStep, ProjectOwnedStep DEF Read
<1>4. CASE Host
  <2>1. CASE Restart \/ Kill
    <3>1. ProcessEnds /\ UNCHANGED <<inode, dir, durable_dir, projected, attempts, acked>>
      BY <2>1 DEF Restart, Kill
    <3>2. faults' \in 0..MaxFaults
      BY <2>1, TypeParts DEF Restart, Kill, StoreInv, StateOK
    <3> QED BY <3>1, <3>2, EndStep
  <2> QED BY <1>4, <2>1, PowerLossStep, CorruptStep DEF Host
<1>5. CASE UNCHANGED vars
  <2>1. TypeOK'
    BY <1>5, TypeParts DEF vars, memory, StoreInv, FilesOK, StateOK, FileOK
  <2> QED BY <1>5, <2>1, BystanderStep DEF vars, memory
<1> QED BY <1>1, <1>2, <1>3, <1>4, <1>5 DEF Next

(* For every number of inodes, groups and faults, and whatever faults       *)
(* happen: the four parts hold in every reachable state.                    *)
THEOREM StoreInvariance == Spec => []StoreInv
<1>1. Init => StoreInv
  BY StoreInit
<1>2. StoreInv /\ [Next]_vars => StoreInv'
  BY StoreNext
<1> QED BY <1>1, <1>2, PTL DEF Spec

(* Every variable keeps its type, and no file has more synced frames than   *)
(* frames.                                                                  *)
THEOREM StoreTypeCorrect == Spec => []TypeOK
<1>1. StoreInv => TypeOK
  BY DEF StoreInv
<1> QED BY <1>1, StoreInvariance, PTL

(* What a usable owner folds is the closed prefix of the file it appends to *)
(* (Lease::stage_inner never lands behind frames it does not know of).      *)
THEOREM OwnerFoldsTheLog == Spec => []FoldMatchesLog
<1>1. ASSUME StoreInv PROVE FoldMatchesLog
  <2> SUFFICES ASSUME lease.state = "ready"
               PROVE  lease.closed = Closed(Log) /\ (~lease.torn => Complete(Log))
    BY DEF FoldMatchesLog
  <2>1. /\ Log.damage = 0 /\ ClosedPrefix(Log.frames) = lease.closed
        /\ ~lease.torn => Log.frames = lease.closed /\ ~Log.short
    BY <1>1 DEF StoreInv, FoldInv
  <2>2. Closed(Log) = lease.closed
    BY <1>1, <2>1, LogOK DEF StoreInv
  <2> QED BY <2>1, <2>2 DEF Complete
<1> QED BY <1>1, StoreInvariance, PTL

(* A log that repair_tail has cut keeps its repair record in every          *)
(* directory that power loss may leave, until it is reconciled.             *)
THEOREM CutIsFenced == Spec => []RepairFenced
<1>1. StoreInv => RepairFenced
  BY DEF StoreInv, RepairInv, RecordInv, RepairFenced
<1> QED BY <1>1, StoreInvariance, PTL

--------------------------------------------------------------------------------
(* Only a publication writes a closing frame or reports a commit. *)
LEMMA OnlyPublication ==
    ASSUME StoreInv, [Next]_vars
    PROVE  op.at \in Publishing \/ (acked' = acked /\ op'.at # "closing")
<1> USE OpIdle
<1>1. op \in Operations
  BY TypeParts DEF StoreInv, StateOK
<1>a. \A a, w : LET r == [NoOp EXCEPT !.at = a, !.why = w] IN r.at = a
  BY DEF Operations
<1>b. \A a : LET r == [NoOp EXCEPT !.at = a] IN r.at = a
  BY DEF Operations
<1>c. \A a : LET r == [op EXCEPT !.at = a] IN r.at = a
  BY <1>1 DEF Operations
<1>2. CASE Own
  <2>1. CASE \E fresh, recovery \in BOOLEAN : acquire(fresh, recovery)
    BY <2>1 DEF acquire, Publishing
  <2>2. CASE set_projection_floor \/ Release
    BY <2>2 DEF set_projection_floor, Release, Publishing
  <2>3. CASE \E rows \in {0, 1}, sync \in BOOLEAN : stage(rows, sync)
    <3>1. PICK rows \in {0, 1}, sync \in BOOLEAN : stage(rows, sync)
      BY <2>3
    <3> DEFINE a == IF lease.torn THEN "replace" ELSE "open"
    <3>2. op' = [NoOp EXCEPT !.at = a, !.why = "stage", !.rows = rows, !.sync = sync]
      BY <3>1 DEF stage
    <3>3. a # "closing"
      OBVIOUS
    <3> HIDE DEF a
    <3>4. op'.at = a
      BY <3>2 DEF Operations
    <3> QED BY <3>1, <3>3, <3>4 DEF stage
  <2>4. CASE \/ StageWrites \/ StageWriteFails \/ StageSyncs \/ push_file_row
             \/ DropStaged \/ cancel_detached \/ complete \/ CloserSyncs \/ LinkSyncs
    BY <2>4 DEF StageWrites, StageWriteFails, StageSyncs, push_file_row, DropStaged,
       cancel_detached, complete, CloserSyncs, LinkSyncs, Publishing
  <2>5. CASE reconcile_repaired_tail \/ ReconcileSyncs
    BY <1>b, <2>5 DEF reconcile_repaired_tail, RemoveRepairFence, ReconcileSyncs, Ambiguous
  <2> QED BY <1>2, <2>1, <2>2, <2>3, <2>4, <2>5 DEF Own
<1>3. CASE Recover
  <2>1. CASE replace_prefix \/ ReplaceFails
    BY <1>c, <2>1 DEF replace_prefix, ReplaceFails
  <2>2. CASE ReplaceSynced
    BY <1>c, <2>2 DEF ReplaceSynced, AfterReplace
  <2>3. CASE fence_ambiguity \/ RemoveMarker \/ MarkerRemoved
    BY <1>b, <1>c, <2>3 DEF fence_ambiguity, RemoveMarker, MarkerRemoved, Ambiguous
  <2>4. CASE clear_ambiguity
    BY <1>a, <1>b, <2>4 DEF clear_ambiguity
  <2>5. CASE \E rebuild \in BOOLEAN : repair_tail(rebuild) \/ resume_repair(rebuild)
    BY <1>a, <2>5 DEF repair_tail, resume_repair
  <2>6. CASE RecordSyncs \/ RebuildProjection
    BY <1>c, <2>6 DEF RecordSyncs, RebuildProjection
  <2> QED BY <1>3, <2>1, <2>2, <2>3, <2>4, <2>5, <2>6 DEF Recover
<1>4. CASE Read \/ Host \/ UNCHANGED vars
  BY <1>4 DEF Read, Host, snapshot, ProjectSnapshot, ProjectOwned, Restart, Kill,
     PowerLoss, Corrupt, ProcessEnds, memory, vars, Publishing
<1> QED BY <1>2, <1>3, <1>4 DEF Next

(* No closing frame is written, and no commit reported, while an ambiguity  *)
(* or an unreconciled repair stands: the fences are those the process, the  *)
(* marker and the repair record hold.                                       *)
THEOREM NothingPublishedFenced == Spec => FencedIsSilent
<1>1. ASSUME StoreInv, [Next]_vars PROVE [PublishesUnfenced]_vars
  <2>1. CASE op.at \in Publishing
    BY <1>1, <2>1 DEF StoreInv, ControlInv, PublishesUnfenced
  <2>2. CASE acked' = acked /\ op'.at # "closing"
    <3>1. Len(acked) \in Nat
      BY <1>1, TypeParts DEF StoreInv, StateOK
    <3> QED BY <2>2, <3>1 DEF PublishesUnfenced
  <2> QED BY <1>1, <2>1, <2>2, OnlyPublication
<1> QED BY <1>1, StoreInvariance, PTL DEF Spec, FencedIsSilent

--------------------------------------------------------------------------------
(* No operation removes a closed group. *)

LEMMA FileClosed ==
    ASSUME NEW f, FileOK(f)
    PROVE  /\ f.frames \in Seq(Frames) /\ Closed(f) \in Seq(Frames)
           /\ f.damage = 0 => Closed(f) = ClosedPrefix(f.frames)
<1>1. f.frames \in Seq(Frames) /\ f.damage \in 0..Len(f.frames)
  BY DEF FileOK, FileStates
<1>2. Readable(f) \in Seq(Frames)
  BY <1>1, SubSeqPrefix DEF Readable
<1> QED BY <1>1, <1>2, ClosedPrefixType DEF Closed, Readable

LEMMA SameLog ==
    ASSUME StoreInv, inode' = inode, dir'.log = dir.log
    PROVE  IsPrefix(Closed(Log), Closed(Log)')
<1>1. Log' = Log
  BY DEF Log, File
<1> QED BY <1>1, LogOK, PrefixReflexive DEF StoreInv, Closed, Readable

(* A log that grows keeps its closed groups. *)
LEMMA LogGrows ==
    ASSUME StoreInv, NEW g, FileOK(g), Log' = g, Log.damage = 0, g.damage = 0,
           IsPrefix(Log.frames, g.frames)
    PROVE  IsPrefix(Closed(Log), Closed(Log)')
<1>1. Closed(Log)' = Closed(g)
  BY DEF Closed, Readable
<1>2. FileOK(Log)
  BY LogOK DEF StoreInv
<1> QED BY <1>1, <1>2, FileClosed, ClosedMonotone

(* An owner's write to the file of its publication. *)
LEMMA WriteGrows ==
    ASSUME StoreInv, op.at \in {"copied", "staged", "closing"}, NEW g, FileOK(g),
           Sound(g), IsPrefix(inode[op.out].frames, g.frames),
           inode' = [inode EXCEPT ![op.out] = g], dir' = dir
    PROVE  IsPrefix(Closed(Log), Closed(Log)')
<1>1. op.out \in Inodes /\ op.out # None
  BY DEF StoreInv, ControlInv
<1>2. Sound(inode[op.out])
  BY DEF StoreInv, FoldInv
<1>3. inode'[op.out] = g
  BY <1>1, OneFile, TypeParts DEF StoreInv
<1>4. CASE op.out = dir.log
  <2>1. Log = inode[op.out] /\ Log' = g
    BY <1>1, <1>3, <1>4 DEF Log, File
  <2> QED BY <1>2, <2>1, LogGrows DEF Sound
<1>5. CASE op.out # dir.log
  <2>1. dir.log = None
    BY <1>5 DEF StoreInv, ControlInv
  <2>2. Log' = EmptyFile /\ Log = EmptyFile
    BY <2>1 DEF Log, File
  <2> QED BY <2>2, LogOK, PrefixReflexive DEF StoreInv, Closed, Readable
<1> QED BY <1>4, <1>5

LEMMA OwnerKeeps ==
    ASSUME StoreInv, Own, faults' = faults
    PROVE  IsPrefix(Closed(Log), Closed(Log)')
<1> DEFINE i == op.out
           f == inode[i]
           p == Frame(FALSE)
           c == Frame(TRUE)
<1>0. faults + 1 # faults /\ faults \in Nat /\ dir \in Entries
  BY TypeParts DEF StoreInv, StateOK
<1>f. p \in Frames /\ ~p.closes /\ c \in Frames /\ c.closes
  BY FrameOK, TypeParts DEF StoreInv, StateOK
<1>1. CASE \/ \E fresh, recovery \in BOOLEAN : acquire(fresh, recovery)
           \/ set_projection_floor \/ Release \/ DropStaged \/ cancel_detached
           \/ \E rows \in {0, 1}, sync \in BOOLEAN : stage(rows, sync)
           \/ LinkSyncs \/ ReconcileSyncs
  <2>1. inode' = inode /\ dir' = dir
    BY <1>1 DEF acquire, set_projection_floor, Release, DropStaged, cancel_detached, stage,
       LinkSyncs, ReconcileSyncs
  <2> QED BY <2>1, SameLog
<1>2. CASE StageWrites
  <2>1. op.at = "open" /\ dir' = dir
    BY <1>2 DEF StageWrites
  <2>2. CASE lease.closed = <<>>
    <3>1. SomeInode /\ inode' = [inode EXCEPT ![NewInode] = EmptyFile]
      BY <1>2, <2>2 DEF StageWrites
    <3>2. dir.log = None
      BY <2>1, <2>2 DEF StoreInv, FoldInv
    <3>3. Log' = EmptyFile /\ Log = EmptyFile
      BY <2>1, <3>2 DEF Log, File
    <3> QED BY <3>3, LogOK, PrefixReflexive DEF StoreInv, Closed, Readable
  <2>3. CASE lease.closed # <<>>
    <3> DEFINE g == Appended(Log, p)
    <3>1. dir.log # None /\ Sound(Log)
      BY <2>1, <2>3 DEF StoreInv, FoldInv
    <3>2. dir.log \in Inodes /\ Log = inode[dir.log] /\ FileOK(Log)
      BY <3>1, LogOK DEF StoreInv
    <3>3. inode' = inode \/ inode' = [inode EXCEPT ![dir.log] = g]
      BY <1>2, <2>3, <3>2 DEF StageWrites
    <3>4. FileOK(g) /\ g.damage = 0 /\ IsPrefix(Log.frames, g.frames)
      <4> HIDE DEF p
      <4> QED BY <1>f, <3>1, <3>2, AppendedOK DEF Sound
    <3> HIDE DEF g
    <3>5. CASE inode' = inode
      BY <2>1, <3>5, SameLog
    <3>6. CASE inode' = [inode EXCEPT ![dir.log] = g]
      <4>1. inode'[dir.log] = g
        BY <3>2, <3>4, <3>6, OneFile, TypeParts DEF StoreInv
      <4>2. Log' = g
        BY <2>1, <3>1, <4>1 DEF Log, File
      <4> QED BY <3>1, <3>4, <4>2, LogGrows DEF Sound
    <3> QED BY <3>3, <3>5, <3>6
  <2> QED BY <2>2, <2>3
<1>3. CASE StageWriteFails
  BY <1>0, <1>3 DEF StageWriteFails
<1> DEFINE At(a) == op.at = a /\ dir' = dir /\ i \in Inodes /\ FileOK(f) /\ Sound(f)
<1>i. ASSUME NEW a \in {"copied", "staged", "closing"}, op.at = a, dir' = dir PROVE At(a)
  BY <1>i, TypeParts DEF StoreInv, ControlInv, FoldInv, FilesOK
<1>4. CASE StageSyncs
  <2> DEFINE g == Synced(f)
  <2>1. At("copied") /\ inode' = [inode EXCEPT ![i] = g]
    BY <1>0, <1>4, <1>i DEF StageSyncs
  <2>2. FileOK(g) /\ Sound(g) /\ IsPrefix(f.frames, g.frames)
    BY <2>1, SyncedOK, PrefixReflexive, FileClosed DEF Sound
  <2> QED BY <2>1, <2>2, WriteGrows
<1>5. CASE push_file_row
  <2> DEFINE g == Appended(f, p)
  <2>1. At("staged") /\ inode' = [inode EXCEPT ![i] = g]
    BY <1>0, <1>5, <1>i DEF push_file_row
  <2> HIDE DEF p
  <2>2. FileOK(g) /\ Sound(g) /\ IsPrefix(f.frames, g.frames)
    BY <1>f, <2>1, AppendedOK DEF Sound
  <2> QED BY <2>1, <2>2, WriteGrows
<1>6. CASE complete
  <2> DEFINE g == Appended(f, c)
  <2>1. At("staged") /\ inode' = [inode EXCEPT ![i] = g]
    BY <1>0, <1>6, <1>i DEF complete
  <2> HIDE DEF c
  <2>2. FileOK(g) /\ Sound(g) /\ IsPrefix(f.frames, g.frames)
    BY <1>f, <2>1, AppendedOK DEF Sound
  <2> QED BY <2>1, <2>2, WriteGrows
<1>7. CASE CloserSyncs
  <2> DEFINE g == SyncedClose(f)
  <2>1. op.at = "closing" /\ inode' = [inode EXCEPT ![i] = g]
    BY <1>0, <1>7 DEF CloserSyncs
  <2>2. CASE i = dir.log
    <3>1. At("closing")
      BY <1>0, <1>7, <2>1, <2>2, <1>i DEF CloserSyncs
    <3>2. FileOK(g) /\ Sound(g) /\ IsPrefix(f.frames, g.frames)
      BY <3>1, SyncedOK, PrefixReflexive, FileClosed DEF Sound, SyncedClose
    <3> QED BY <2>1, <3>1, <3>2, WriteGrows
  <2>3. CASE i # dir.log
    <3>1. dir.log = None /\ i \in Inodes /\ FileOK(f) /\ Sound(f)
      BY <2>1, <2>3, TypeParts DEF StoreInv, ControlInv, FoldInv, FilesOK
    <3>2. FileOK(g) /\ Sound(g) /\ g.frames \in Seq(Frames)
      BY <3>1, SyncedOK, FileClosed DEF Sound, SyncedClose
    <3>3. dir' = [dir EXCEPT !.log = i]
      BY <1>0, <1>7, <2>3 DEF CloserSyncs
    <3>4. dir'.log = i
      BY <1>0, <3>3 DEF Entries
    <3> HIDE DEF g
    <3>5. Log = EmptyFile /\ Log' = g
      BY <2>1, <3>1, <3>2, <3>4, OneFile, TypeParts DEF Log, File, StoreInv
    <3>6. IsPrefix(Log.frames, g.frames)
      BY <3>2, <3>5, EmptyFields, PrefixEmpty
    <3> QED BY <3>2, <3>5, <3>6, EmptyFields, LogGrows DEF Sound
  <2> QED BY <2>2, <2>3
<1>8. CASE reconcile_repaired_tail /\ RemoveRepairFence
  <2> DEFINE g == [inode[dir.log] EXCEPT !.cut = FALSE]
  <2>1. /\ inode' = [inode EXCEPT ![dir.log] = g] /\ dir' = [dir EXCEPT !.repair = NoRecord]
        /\ lease.state = "ready"
    BY <1>8 DEF reconcile_repaired_tail, RemoveRepairFence
  <2>2. dir'.log = dir.log /\ Log.damage = 0
    BY <1>0, <2>1 DEF Entries, StoreInv, FoldInv
  <2>3. CASE dir.log = None
    <3>1. Log' = EmptyFile /\ Log = EmptyFile
      BY <2>2, <2>3 DEF Log, File
    <3> QED BY <3>1, LogOK, PrefixReflexive DEF StoreInv, Closed, Readable
  <2>4. CASE dir.log # None
    <3>1. FileOK(g) /\ g.frames = Log.frames /\ g.damage = Log.damage /\ dir.log \in Inodes
      BY <2>4, LogOK DEF StoreInv, FileOK, FileStates
    <3> HIDE DEF g
    <3>4. inode'[dir.log] = g
      BY <2>1, <3>1, OneFile, TypeParts DEF StoreInv
    <3>2. Log' = g
      BY <2>2, <2>4, <3>4 DEF Log, File
    <3>3. IsPrefix(Log.frames, g.frames)
      BY <3>1, LogOK, PrefixReflexive DEF StoreInv
    <3> QED BY <2>2, <3>1, <3>2, <3>3, LogGrows
  <2> QED BY <2>3, <2>4
<1>9. CASE reconcile_repaired_tail /\ ~RemoveRepairFence
  <2>1. inode' = inode /\ dir' = dir
    BY <1>9 DEF reconcile_repaired_tail
  <2> QED BY <2>1, SameLog
<1> QED BY <1>1, <1>2, <1>3, <1>4, <1>5, <1>6, <1>7, <1>8, <1>9 DEF Own

(* A replacement keeps what is closed of the file it replaces. *)
LEMMA ReplacementKeeps ==
    ASSUME StoreInv, replace_prefix
    PROVE  IsPrefix(Closed(Log), Closed(Log)')
<1> DEFINE i == NewInode
           c == (op.why \in {"repair", "rebuild"} \/ Log.cut)
           g == Replacement(c)
<1>1. c \in BOOLEAN
  OBVIOUS
<1>2. /\ op.at = "replace" /\ SomeInode /\ inode' = [inode EXCEPT ![i] = g]
      /\ dir' = [dir EXCEPT !.log = i]
  BY DEF replace_prefix
<1> HIDE DEF c
<1>3. i \in Inodes /\ i # None
  BY <1>2, FreshInode
<1>4. FileOK(g) /\ g.frames = Kept /\ Sound(g)
  BY <1>1, KeptOK, ReplacementOK
<1> HIDE DEF g, i
<1>5. dir'.log = i
  BY <1>2, TypeParts DEF StoreInv, StateOK, Entries
<1>6. Log' = g
  BY <1>2, <1>3, <1>4, <1>5, OneFile, TypeParts DEF Log, File, StoreInv
<1>7. Closed(Log)' = ClosedPrefix(Kept)
  BY <1>4, <1>6 DEF Closed, Readable, Sound
<1>8. Closed(Log) \in Seq(Frames) /\ ClosedPrefix(Closed(Log)) = Closed(Log)
  BY LogOK DEF StoreInv
<1>9. CASE lease.state # "none"
  <2>1. /\ Kept = lease.closed /\ ClosedPrefix(Kept) = Kept /\ Log.damage = 0
        /\ IsPrefix(ClosedPrefix(Log.frames), lease.closed)
    BY <1>2, <1>9 DEF StoreInv, ControlInv, FoldInv, Replacing, Kept
  <2> QED BY <1>7, <2>1, LogOK DEF StoreInv
<1>10. CASE lease.state = "none"
  <2>1. Kept = Closed(Log)
    BY <1>2, <1>10 DEF StoreInv, RepairInv, Kept
  <2> QED BY <1>7, <1>8, <2>1, PrefixReflexive
<1> QED BY <1>9, <1>10

LEMMA StepKeeps ==
    ASSUME StoreInv, [Next]_vars, faults' = faults
    PROVE  IsPrefix(Closed(Log), Closed(Log)')
<1>0. faults + 1 # faults /\ dir \in Entries
  BY TypeParts DEF StoreInv, StateOK
<1>1. CASE replace_prefix
  BY <1>1, ReplacementKeeps
<1>2. CASE \/ ReplaceSynced \/ ReplaceFails \/ clear_ambiguity \/ MarkerRemoved
           \/ \E rebuild \in BOOLEAN : resume_repair(rebuild)
           \/ RecordSyncs \/ RebuildProjection \/ Read \/ Restart \/ UNCHANGED vars
  <2>1. inode' = inode /\ dir' = dir
    BY <1>2 DEF ReplaceSynced, ReplaceFails, clear_ambiguity, MarkerRemoved, resume_repair,
       RecordSyncs, RebuildProjection, Read, snapshot, ProjectSnapshot, ProjectOwned,
       Restart, vars
  <2> QED BY <2>1, SameLog
<1>3. CASE fence_ambiguity \/ RemoveMarker
  <2>1. /\ inode' = inode
        /\ \/ dir' = dir \/ dir' = [dir EXCEPT !.ambiguous = TRUE]
           \/ dir' = [dir EXCEPT !.ambiguous = FALSE]
    BY <1>3 DEF fence_ambiguity, RemoveMarker
  <2>2. dir'.log = dir.log
    BY <1>0, <2>1 DEF Entries
  <2> QED BY <2>1, <2>2, SameLog
<1>4. CASE \E rebuild \in BOOLEAN : repair_tail(rebuild)
  <2>1. PICK rebuild \in BOOLEAN :
            inode' = inode /\ dir' = [dir EXCEPT !.repair = RepairRecord(rebuild)]
    BY <1>4 DEF repair_tail
  <2>2. dir'.log = dir.log
    BY <1>0, <2>1 DEF Entries
  <2> QED BY <2>1, <2>2, SameLog
<1>5. CASE Kill \/ PowerLoss \/ Corrupt
  BY <1>0, <1>5 DEF Kill, PowerLoss, Corrupt
<1> QED BY <1>1, <1>2, <1>3, <1>4, <1>5, OwnerKeeps DEF Next, Recover, Host

(* No step without a fault removes a closed group from the log: a torn      *)
(* tail that is replaced, a rollback, a cancellation, a cleared ambiguity   *)
(* and a repair remove provisional frames only.                             *)
THEOREM NoClosedGroupRemoved == Spec => ClosedKept
<1>1. ASSUME StoreInv, [Next]_vars PROVE [KeepsClosed]_vars
  BY <1>1, StepKeeps DEF KeepsClosed
<1> QED BY <1>1, StoreInvariance, PTL DEF Spec, ClosedKept
================================================================================
