------------------------ MODULE TerminalFinalizeProofs ------------------------
(***************************************************************************)
(* Proofs about TerminalFinalize, for every number of components and of    *)
(* faults: the order of tape, log and catalog, and that finalization with  *)
(* its failures implements FinalizeAbs.                                    *)
(***************************************************************************)
EXTENDS TerminalFinalize, TLAPS

(* An attempt at a component, or at the record of its failure. *)
Working == {"verify", "reconcile", "write", "writing", "barrier", "record",
            "mark", "mark_catalog"}
(* An attempt that writes at the end of the tape. *)
Writing == {"write", "writing", "barrier", "record"}

(* Every step of acceptance and of an attempt has its plan. *)
PlanInv ==
    /\ log.plan # "decided" => log.written = 0 /\ ~log.recovery /\ ~log.sealed
    /\ log.plan = "prepared" => tape.manual
    /\ log.sealed => log.written = Files
    /\ pc \in {"prepared", "accept"} => log.plan = "prepared"
    /\ pc \in {"publish", "end_session"} =>
          log.plan = "decided" /\ ~tape.manual /\ log.written = 0
    /\ pc \in Working => log.plan = "decided" /\ log.written < Files
    /\ pc = "project" => log.plan = "decided" /\ log.written > 0
    /\ pc = "seal" => log.plan = "decided" /\ log.written = Files
    /\ pc = "finish" => log.sealed
    /\ pc = "mark_catalog" => log.recovery
    /\ discard = "leased" => pc = "idle" /\ log.plan = "none"

(* Tape and log: a file is written behind the recorded ones only, and one   *)
(* that is not recorded is the last.                                        *)
MediaInv ==
    /\ log.written <= media.synced /\ media.synced <= media.whole
    /\ media.whole <= log.written + 1
    /\ media.whole > log.written => media.after = "eod" /\ log.written < Files
    /\ log.written = Files => media.after = "eod"
    /\ media.after \in {"foreign", "tail"} => media.whole = 0
    /\ admitted => ~log.open /\ media.after # "foreign"
    /\ pc \in Writing => admitted
    /\ pc \in {"write", "writing"} => media.whole = log.written
    /\ pc \in {"barrier", "record"} => media.whole = log.written + 1
    /\ pc = "record" => media.synced = media.whole
    /\ pc \in {"project", "seal"} => media.whole = log.written
    /\ log.written > 0 => ~log.open

(* Log and catalog: the row is behind by at most a component, and by none   *)
(* while an attempt is at work; it is in recovery only with the log.        *)
CatalogInv ==
    /\ cat.row <= progress
    /\ cat.row # NoRow /\ ~log.sealed => progress <= cat.row + 1
    /\ pc \in Working => cat.row = progress
    /\ tape.manual => (cat.scope <=> cat.row # NoRow)
    /\ ~tape.manual => ~cat.scope
    /\ log.plan = "none" \/ pc \in {"prepared", "publish"} => cat.row = NoRow
    /\ tape.manual /\ (log.plan = "decided" \/ pc = "accept") => cat.row # NoRow
    /\ cat.outcome = "finalized" => log.sealed
    /\ cat.outcome = "recovery" /\ cat.row = progress => log.recovery \/ log.sealed

FinalizeInv == TypeOK /\ PlanInv /\ MediaInv /\ CatalogInv

--------------------------------------------------------------------------------
USE FinalizeAssumption DEF Step, Fault, Local, Rest

(* Plans have a prefix or not, and progress counts components only. *)
LEMMA Ranges ==
    ASSUME TypeOK
    PROVE  /\ Prefix \in {0, 1} /\ Files \in Nat /\ Files = Prefix + Components
           /\ progress \in 0..Components
           /\ log.written = Files => progress = Components
           /\ log.written = 0 => progress = 0
BY DEF TypeOK, Logs, Prefix, Files, progress, Progress

(* What the catalog's row becomes. *)
LEMMA Projected ==
    ASSUME NEW c \in Rows, NEW p \in 0..Components,
           NEW o \in {"in_progress", "recovery", "finalized"}
    PROVE  LET r == project_terminal_finalization(c, p, o)
           IN  r \in Rows /\ r.row = p /\ r.outcome = o /\ r.scope = c.scope
<1>1. p \in NoRow..Components
  BY DEF NoRow
<1> QED BY <1>1 DEF Rows, project_terminal_finalization

(* A projected log leaves a row of its progress, or the row it found. *)
LEMMA ProjectedLog == ASSUME TypeOK PROVE project_tape_log(cat) \in Rows
<1> DEFINE r == project_terminal_finalization(cat, progress, Outcome)
           s == [r EXCEPT !.scope = tape.manual]
<1>1. r \in Rows
  BY Ranges, Projected DEF TypeOK, Outcome
<1> HIDE DEF r
<1>2. s \in Rows
  BY <1>1 DEF Rows, TypeOK
<1> QED BY <1>2 DEF project_tape_log, r, TypeOK

(* A record that is advanced is one component, or the prefix, further. *)
LEMMA Advanced ==
    ASSUME FinalizeInv, pc = "record", Files' = Files
    PROVE  /\ advanced \in Logs /\ advanced \in Logs'
           /\ advanced.written = log.written + 1
           /\ advanced.plan = log.plan /\ advanced.sealed = log.sealed
           /\ advanced.open = log.open
           /\ advanced.recovery => log.recovery /\ log.written < Prefix
           /\ log.recovery /\ log.written < Prefix => advanced.recovery
<1> DEFINE r == log.recovery /\ log.written < Prefix
<1>1. log.written + 1 \in 0..Files
  BY Ranges DEF FinalizeInv, TypeOK, Logs, PlanInv, Working
<1>2. r \in BOOLEAN
  OBVIOUS
<1>3. advanced = [log EXCEPT !.written = log.written + 1, !.recovery = r]
  BY DEF advanced
<1> HIDE DEF r
<1>4. /\ advanced \in Logs /\ advanced.written = log.written + 1
      /\ advanced.recovery = r
      /\ advanced.plan = log.plan /\ advanced.sealed = log.sealed
      /\ advanced.open = log.open
  BY <1>1, <1>2, <1>3 DEF FinalizeInv, TypeOK, Logs
<1> QED BY <1>4 DEF r, Logs

USE DEF Files, Prefix, progress, Progress, NoRow

(* The plan is prepared in the log, inside the transaction. *)
LEMMA PrepareStep == ASSUME FinalizeInv, Prepare PROVE FinalizeInv'
<1>1. TypeOK'
  BY DEF Prepare, FinalizeInv, TypeOK, Logs, Tails, Rows, PlanInv, MediaInv, Working
<1>2. PlanInv'
  BY DEF Prepare, FinalizeInv, TypeOK, Logs, PlanInv, Working
<1>3. MediaInv'
  BY DEF Prepare, FinalizeInv, TypeOK, Logs, Tails, PlanInv, MediaInv, Working,
     Writing
<1>4. CatalogInv'
  BY DEF Prepare, FinalizeInv, TypeOK, Logs, Rows, PlanInv, CatalogInv, Working
<1> QED BY <1>1, <1>2, <1>3, <1>4 DEF FinalizeInv

(* The request is dropped. *)
LEMMA DropStep == ASSUME FinalizeInv, Drop PROVE FinalizeInv'
<1>1. TypeOK'
  BY DEF Drop, FinalizeInv, TypeOK, Logs, Tails, Rows, PlanInv, MediaInv, Working
<1>2. PlanInv'
  BY DEF Drop, FinalizeInv, TypeOK, Logs, PlanInv, Working
<1>3. MediaInv'
  BY DEF Drop, FinalizeInv, TypeOK, Logs, Tails, PlanInv, MediaInv, Working, Writing
<1>4. CatalogInv'
  BY DEF Drop, FinalizeInv, TypeOK, Logs, Rows, PlanInv, CatalogInv, Working
<1> QED BY <1>1, <1>2, <1>3, <1>4 DEF FinalizeInv

(* The preparation is retired; no transaction has committed. *)
LEMMA CancelStep == ASSUME FinalizeInv, Cancel PROVE FinalizeInv'
<1>1. TypeOK'
  BY DEF Cancel, FinalizeInv, TypeOK, Logs, Tails, Rows, PlanInv, MediaInv, Working
<1>2. PlanInv'
  BY DEF Cancel, FinalizeInv, TypeOK, Logs, PlanInv, Working
<1>3. MediaInv'
  BY DEF Cancel, FinalizeInv, TypeOK, Logs, Tails, PlanInv, MediaInv, Working,
     Writing
<1>4. CatalogInv'
  BY DEF Cancel, FinalizeInv, TypeOK, Logs, Rows, PlanInv, CatalogInv, Working
<1> QED BY <1>1, <1>2, <1>3, <1>4 DEF FinalizeInv

(* The row and the scope commit together. *)
LEMMA CommitStep == ASSUME FinalizeInv, Commit PROVE FinalizeInv'
<1>1. TypeOK'
  BY DEF Commit, FinalizeInv, TypeOK, Logs, Tails, Rows, PlanInv, MediaInv, Working
<1>2. PlanInv'
  BY DEF Commit, FinalizeInv, TypeOK, Logs, PlanInv, Working
<1>3. MediaInv'
  BY DEF Commit, FinalizeInv, TypeOK, Logs, Tails, PlanInv, MediaInv, Working,
     Writing
<1>4. CatalogInv'
  BY DEF Commit, FinalizeInv, TypeOK, Logs, Rows, PlanInv, CatalogInv, Working
<1> QED BY <1>1, <1>2, <1>3, <1>4 DEF FinalizeInv

(* The log decides what the catalog has accepted. *)
LEMMA AcceptStep == ASSUME FinalizeInv, Accept PROVE FinalizeInv'
<1>1. TypeOK'
  BY DEF Accept, FinalizeInv, TypeOK, Logs, Tails, Rows, PlanInv, MediaInv, Working
<1>2. PlanInv'
  BY DEF Accept, FinalizeInv, TypeOK, Logs, PlanInv, Working
<1>3. MediaInv'
  BY DEF Accept, FinalizeInv, TypeOK, Logs, Tails, PlanInv, MediaInv, Working,
     Writing
<1>4. CatalogInv'
  BY DEF Accept, FinalizeInv, TypeOK, Logs, Rows, PlanInv, CatalogInv, Working
<1> QED BY <1>1, <1>2, <1>3, <1>4 DEF FinalizeInv

(* The log decides on its own. *)
LEMMA DecideStep == ASSUME FinalizeInv, Decide PROVE FinalizeInv'
<1>1. TypeOK'
  BY DEF Decide, FinalizeInv, TypeOK, Logs, Tails, Rows, PlanInv, MediaInv, Working
<1>2. PlanInv'
  BY DEF Decide, FinalizeInv, TypeOK, Logs, PlanInv, Working
<1>3. MediaInv'
  BY DEF Decide, FinalizeInv, TypeOK, Logs, Tails, PlanInv, MediaInv, Working,
     Writing
<1>4. CatalogInv'
  BY DEF Decide, FinalizeInv, TypeOK, Logs, Rows, PlanInv, CatalogInv, Working
<1> QED BY <1>1, <1>2, <1>3, <1>4 DEF FinalizeInv

(* The row of a decided plan follows. *)
LEMMA PublishStep == ASSUME FinalizeInv, Publish PROVE FinalizeInv'
<1>1. TypeOK'
  <2>1. (log \in Logs)'
    BY DEF Publish, FinalizeInv, TypeOK, Logs
  <2>2. (media \in Tails)'
    BY DEF Publish, FinalizeInv, TypeOK, Tails
  <2>3. (cat \in Rows)'
    BY Projected DEF Publish, FinalizeInv, TypeOK
  <2>4. (/\ {fence, admitted, dropped} \subseteq BOOLEAN
         /\ faults \in 0..MaxFaults)'
    BY DEF Publish, FinalizeInv, TypeOK
  <2> QED BY <2>1, <2>2, <2>3, <2>4 DEF Publish, FinalizeInv, TypeOK
<1>2. PlanInv'
  BY DEF Publish, FinalizeInv, TypeOK, Logs, PlanInv, Working
<1>3. MediaInv'
  BY DEF Publish, FinalizeInv, TypeOK, Logs, Tails, PlanInv, MediaInv, Working,
     Writing
<1>4. CatalogInv'
  BY DEF Publish, FinalizeInv, TypeOK, Logs, Rows, PlanInv, CatalogInv, Working,
     project_terminal_finalization
<1> QED BY <1>1, <1>2, <1>3, <1>4 DEF FinalizeInv

(* The session ends. *)
LEMMA EndSessionStep == ASSUME FinalizeInv, EndSession PROVE FinalizeInv'
<1>1. TypeOK'
  BY DEF EndSession, FinalizeInv, TypeOK, Logs, Tails, Rows, PlanInv, MediaInv,
     Working
<1>2. PlanInv'
  BY DEF EndSession, FinalizeInv, TypeOK, Logs, PlanInv, Working
<1>3. MediaInv'
  BY DEF EndSession, FinalizeInv, TypeOK, Logs, Tails, PlanInv, MediaInv, Working,
     Writing
<1>4. CatalogInv'
  BY DEF EndSession, FinalizeInv, TypeOK, Logs, Rows, PlanInv, CatalogInv, Working
<1> QED BY <1>1, <1>2, <1>3, <1>4 DEF FinalizeInv

(* An attempt projects the log before it starts. *)
LEMMA ResumeStep == ASSUME FinalizeInv, Resume PROVE FinalizeInv'
<1>1. TypeOK'
  <2>1. (log \in Logs)'
    BY DEF Resume, FinalizeInv, TypeOK, Logs, reconcile_manual_terminal_acceptance
  <2>2. (media \in Tails)'
    BY DEF Resume, FinalizeInv, TypeOK, Tails, reconcile_manual_terminal_acceptance
  <2>3. (cat \in Rows)'
    <3>1. project_tape_log(cat) \in Rows
      BY ProjectedLog DEF FinalizeInv
    <3>2. project_terminal_finalization(project_tape_log(cat), progress, Outcome) \in Rows
      BY <3>1, Ranges, Projected DEF FinalizeInv, Outcome
    <3> QED BY <3>1, <3>2 DEF Resume
  <2>4. (/\ {fence, admitted, dropped} \subseteq BOOLEAN
         /\ faults \in 0..MaxFaults)'
    BY DEF Resume, FinalizeInv, TypeOK, reconcile_manual_terminal_acceptance
  <2> QED BY <2>1, <2>2, <2>3, <2>4 DEF Resume, FinalizeInv, TypeOK,
     reconcile_manual_terminal_acceptance
<1>2. PlanInv'
  BY DEF Resume, FinalizeInv, TypeOK, Logs, PlanInv, Working,
     reconcile_manual_terminal_acceptance
<1>3. MediaInv'
  BY DEF Resume, FinalizeInv, TypeOK, Logs, Tails, PlanInv, MediaInv, Working,
     Writing, reconcile_manual_terminal_acceptance
<1>4. CatalogInv'
  BY DEF Resume, FinalizeInv, TypeOK, Logs, Rows, PlanInv, CatalogInv, Working,
     reconcile_manual_terminal_acceptance, project_tape_log,
     project_terminal_finalization, Keeps, Refused, Outcome, ProjectionRefused
<1> QED BY <1>1, <1>2, <1>3, <1>4 DEF FinalizeInv

(* The prefix is found, or the attempt gives up. *)
LEMMA VerifyPrefixStep == ASSUME FinalizeInv, VerifyPrefix PROVE FinalizeInv'
<1>1. TypeOK'
  BY DEF VerifyPrefix, FinalizeInv, TypeOK, Logs, Tails, Rows, PlanInv, MediaInv,
     Working
<1>2. PlanInv'
  BY DEF VerifyPrefix, FinalizeInv, TypeOK, Logs, PlanInv, Working
<1>3. MediaInv'
  BY DEF VerifyPrefix, FinalizeInv, TypeOK, Logs, Tails, PlanInv, MediaInv, Working,
     Writing
<1>4. CatalogInv'
  BY DEF VerifyPrefix, FinalizeInv, TypeOK, Logs, Rows, PlanInv, CatalogInv, Working
<1> QED BY <1>1, <1>2, <1>3, <1>4 DEF FinalizeInv

(* What the tape holds is admitted before anything is written. *)
LEMMA ReconcileStep == ASSUME FinalizeInv, Reconcile PROVE FinalizeInv'
<1>1. /\ pc = "reconcile" /\ UNCHANGED <<tape, media, cat, fence, dropped, discard>>
      /\ faults' \in 0..MaxFaults
  BY DEF Reconcile, FinalizeInv, TypeOK
<1>2. /\ evidence' \in {"complete", "absent", "torn_worm", "torn_rewritable", "unproved"}
      /\ pc' \in {"idle", "barrier", "write", "mark"}
  BY DEF Reconcile, Evidence
<1>3. /\ admitted' \in BOOLEAN
      /\ admitted => admitted'
      /\ admitted' => admitted \/ admit_terminal_write
      /\ pc' \in {"write", "barrier"} => admitted'
  <2>1. admitted \in BOOLEAN
    BY DEF FinalizeInv, TypeOK
  <2>2. CASE admitted' = (admitted \/ admit_terminal_write)
    BY <2>1, <2>2, Zenon DEF Reconcile
  <2>3. CASE admitted' = admitted /\ pc' = "mark"
    BY <2>1, <2>3
  <2> QED BY <2>2, <2>3 DEF Reconcile
<1>4. /\ log' = IF admitted' /\ ~admitted THEN [log EXCEPT !.open = FALSE] ELSE log
      /\ log' \in Logs
  BY <1>3 DEF Reconcile, FinalizeInv, TypeOK, Logs
<1>5. /\ pc' = "barrier" => media.whole > log.written
      /\ pc' = "write" => ~(media.whole > log.written)
  BY DEF Reconcile, Evidence
<1>6. TypeOK'
  BY <1>1, <1>2, <1>3, <1>4 DEF FinalizeInv, TypeOK, Logs, Tails, Rows
<1>7. PlanInv'
  BY <1>1, <1>2, <1>4 DEF FinalizeInv, TypeOK, Logs, PlanInv, Working
<1>8. MediaInv'
  BY <1>1, <1>2, <1>3, <1>4, <1>5 DEF FinalizeInv, TypeOK, Logs, Tails, PlanInv,
     MediaInv, Working, Writing, admit_terminal_write
<1>9. CatalogInv'
  BY <1>1, <1>2, <1>4 DEF FinalizeInv, TypeOK, Logs, Rows, PlanInv, CatalogInv,
     Working
<1> QED BY <1>6, <1>7, <1>8, <1>9 DEF FinalizeInv

(* A file is begun behind the recorded ones. *)
LEMMA StartWriteStep == ASSUME FinalizeInv, StartWrite PROVE FinalizeInv'
<1>1. TypeOK'
  BY DEF StartWrite, FinalizeInv, TypeOK, Logs, Tails, Rows, PlanInv, MediaInv,
     Working
<1>2. PlanInv'
  BY DEF StartWrite, FinalizeInv, TypeOK, Logs, PlanInv, Working
<1>3. MediaInv'
  BY DEF StartWrite, FinalizeInv, TypeOK, Logs, Tails, PlanInv, MediaInv, Working,
     Writing
<1>4. CatalogInv'
  BY DEF StartWrite, FinalizeInv, TypeOK, Logs, Rows, PlanInv, CatalogInv, Working
<1> QED BY <1>1, <1>2, <1>3, <1>4 DEF FinalizeInv

(* The file is complete. *)
LEMMA EndWriteStep == ASSUME FinalizeInv, EndWrite PROVE FinalizeInv'
<1>1. TypeOK'
  <2>1. (log \in Logs)'
    BY DEF EndWrite, FinalizeInv, TypeOK, Logs
  <2>2. (media \in Tails)'
    <3>1. /\ media = [whole |-> media.whole, synced |-> media.synced, after |-> media.after]
          /\ media.synced \in 0..Files /\ log.written \in Nat /\ Files \in Nat
      BY Ranges DEF FinalizeInv, TypeOK, Logs, Tails
    <3>2. media.whole = log.written /\ log.written < Files
      BY DEF EndWrite, FinalizeInv, PlanInv, MediaInv, Working
    <3>3. media' = [whole |-> media.whole + 1, synced |-> media.synced, after |-> "eod"]
      BY <3>1 DEF EndWrite
    <3>4. media.whole + 1 \in 0..Files /\ Files' = Files
      BY <3>1, <3>2 DEF EndWrite
    <3> QED BY <3>1, <3>3, <3>4 DEF Tails
  <2>3. (cat \in Rows)'
    BY DEF EndWrite, FinalizeInv, TypeOK, Rows
  <2>4. (/\ {fence, admitted, dropped} \subseteq BOOLEAN
         /\ faults \in 0..MaxFaults)'
    BY DEF EndWrite, FinalizeInv, TypeOK
  <2> QED BY <2>1, <2>2, <2>3, <2>4 DEF EndWrite, FinalizeInv, TypeOK
<1>2. PlanInv'
  BY DEF EndWrite, FinalizeInv, TypeOK, Logs, PlanInv, Working
<1>3. MediaInv'
  BY DEF EndWrite, FinalizeInv, TypeOK, Logs, Tails, PlanInv, MediaInv, Working,
     Writing
<1>4. CatalogInv'
  BY DEF EndWrite, FinalizeInv, TypeOK, Logs, Rows, PlanInv, CatalogInv, Working
<1> QED BY <1>1, <1>2, <1>3, <1>4 DEF FinalizeInv

(* The barrier synchronizes it. *)
LEMMA BarrierStep == ASSUME FinalizeInv, Barrier PROVE FinalizeInv'
<1>1. TypeOK'
  BY DEF Barrier, FinalizeInv, TypeOK, Logs, Tails, Rows, PlanInv, MediaInv,
     Working, synchronized
<1>2. PlanInv'
  BY DEF Barrier, FinalizeInv, TypeOK, Logs, PlanInv, Working, synchronized
<1>3. MediaInv'
  BY DEF Barrier, FinalizeInv, TypeOK, Logs, Tails, PlanInv, MediaInv, Working,
     Writing, synchronized
<1>4. CatalogInv'
  BY DEF Barrier, FinalizeInv, TypeOK, Logs, Rows, PlanInv, CatalogInv, Working,
     synchronized
<1> QED BY <1>1, <1>2, <1>3, <1>4 DEF FinalizeInv

(* It is recorded. *)
LEMMA RecordFileStep == ASSUME FinalizeInv, RecordFile PROVE FinalizeInv'
<1>1. TypeOK'
  <2>1. (log \in Logs)'
    BY Advanced DEF RecordFile
  <2>2. (media \in Tails)'
    BY DEF RecordFile, FinalizeInv, TypeOK, Tails, advanced
  <2>3. (cat \in Rows)'
    BY DEF RecordFile, FinalizeInv, TypeOK, Rows, advanced
  <2>4. (/\ {fence, admitted, dropped} \subseteq BOOLEAN
         /\ faults \in 0..MaxFaults)'
    BY DEF RecordFile, FinalizeInv, TypeOK, advanced
  <2> QED BY <2>1, <2>2, <2>3, <2>4 DEF RecordFile, FinalizeInv, TypeOK, advanced
<1>2. PlanInv'
  BY DEF RecordFile, FinalizeInv, TypeOK, Logs, PlanInv, Working, advanced
<1>3. MediaInv'
  BY DEF RecordFile, FinalizeInv, TypeOK, Logs, Tails, PlanInv, MediaInv, Working,
     Writing, advanced
<1>4. CatalogInv'
  BY DEF RecordFile, FinalizeInv, TypeOK, Logs, Rows, PlanInv, CatalogInv, Working,
     advanced
<1> QED BY <1>1, <1>2, <1>3, <1>4 DEF FinalizeInv

(* Its record fails, in one of three ways. *)
LEMMA RecordFailsStep == ASSUME FinalizeInv, RecordFails PROVE FinalizeInv'
<1>1. /\ fence' \in BOOLEAN /\ pc = "record" /\ faults' \in 0..MaxFaults
      /\ UNCHANGED <<tape, media, cat, admitted, dropped, evidence, discard>>
  <2>1. fence' \in BOOLEAN
    BY Zenon DEF RecordFails, FinalizeInv, TypeOK
  <2> QED BY <2>1 DEF RecordFails, FinalizeInv, TypeOK
<1>2. CASE log' = advanced /\ pc' = "idle"
  <2>1. (log \in Logs)' /\ Files' = Files
    BY <1>1, <1>2, Advanced
  <2>2. TypeOK'
    BY <1>1, <1>2, <2>1 DEF FinalizeInv, TypeOK, Tails, Rows
  <2>3. PlanInv'
    BY <1>1, <1>2, Advanced DEF FinalizeInv, TypeOK, Logs, PlanInv, Working
  <2>4. MediaInv'
    BY <1>1, <1>2, Advanced DEF FinalizeInv, TypeOK, Logs, Tails, PlanInv, MediaInv,
       Working, Writing
  <2>5. CatalogInv'
    BY <1>1, <1>2, Advanced DEF FinalizeInv, TypeOK, Logs, Rows, PlanInv,
       CatalogInv, Working
  <2> QED BY <2>2, <2>3, <2>4, <2>5 DEF FinalizeInv
<1>3. CASE log' = log /\ pc' = "mark"
  <2>1. TypeOK'
    BY <1>1, <1>3 DEF FinalizeInv, TypeOK, Logs, Tails, Rows
  <2>2. PlanInv'
    BY <1>1, <1>3 DEF FinalizeInv, TypeOK, Logs, PlanInv, Working
  <2>3. MediaInv'
    BY <1>1, <1>3 DEF FinalizeInv, TypeOK, Logs, Tails, PlanInv, MediaInv, Working,
       Writing
  <2>4. CatalogInv'
    BY <1>1, <1>3 DEF FinalizeInv, TypeOK, Logs, Rows, PlanInv, CatalogInv, Working
  <2> QED BY <2>1, <2>2, <2>3, <2>4 DEF FinalizeInv
<1> QED BY <1>2, <1>3 DEF RecordFails

(* The record is projected. *)
LEMMA ProjectStep == ASSUME FinalizeInv, Project PROVE FinalizeInv'
<1>1. TypeOK'
  <2>1. (log \in Logs)'
    BY DEF Project, FinalizeInv, TypeOK, Logs
  <2>2. (media \in Tails)'
    BY DEF Project, FinalizeInv, TypeOK, Tails
  <2>3. (cat \in Rows)'
    BY ProjectedLog DEF Project, FinalizeInv
  <2>4. (/\ {fence, admitted, dropped} \subseteq BOOLEAN
         /\ faults \in 0..MaxFaults)'
    BY DEF Project, FinalizeInv, TypeOK
  <2> QED BY <2>1, <2>2, <2>3, <2>4 DEF Project, FinalizeInv, TypeOK
<1>2. PlanInv'
  BY DEF Project, FinalizeInv, TypeOK, Logs, PlanInv, Working
<1>3. MediaInv'
  BY DEF Project, FinalizeInv, TypeOK, Logs, Tails, PlanInv, MediaInv, Working,
     Writing
<1>4. CatalogInv'
  BY DEF Project, FinalizeInv, TypeOK, Logs, Rows, PlanInv, CatalogInv, Working,
     project_tape_log, project_terminal_finalization, Keeps, Refused, Outcome,
     ProjectionRefused
<1> QED BY <1>1, <1>2, <1>3, <1>4 DEF FinalizeInv

(* A command of the drive fails. *)
LEMMA WriteFailsStep == ASSUME FinalizeInv, WriteFails PROVE FinalizeInv'
<1>1. TypeOK'
  BY DEF WriteFails, FinalizeInv, TypeOK, Logs, Tails, Rows, PlanInv, MediaInv,
     Working
<1>2. PlanInv'
  BY DEF WriteFails, FinalizeInv, TypeOK, Logs, PlanInv, Working
<1>3. MediaInv'
  BY DEF WriteFails, FinalizeInv, TypeOK, Logs, Tails, PlanInv, MediaInv, Working,
     Writing
<1>4. CatalogInv'
  BY DEF WriteFails, FinalizeInv, TypeOK, Logs, Rows, PlanInv, CatalogInv, Working
<1> QED BY <1>1, <1>2, <1>3, <1>4 DEF FinalizeInv

(* The log asks for recovery, *)
LEMMA MarkLogStep == ASSUME FinalizeInv, MarkLog PROVE FinalizeInv'
<1>1. TypeOK'
  BY DEF MarkLog, FinalizeInv, TypeOK, Logs, Tails, Rows, PlanInv, MediaInv, Working
<1>2. PlanInv'
  BY DEF MarkLog, FinalizeInv, TypeOK, Logs, PlanInv, Working
<1>3. MediaInv'
  BY DEF MarkLog, FinalizeInv, TypeOK, Logs, Tails, PlanInv, MediaInv, Working,
     Writing
<1>4. CatalogInv'
  BY DEF MarkLog, FinalizeInv, TypeOK, Logs, Rows, PlanInv, CatalogInv, Working
<1> QED BY <1>1, <1>2, <1>3, <1>4 DEF FinalizeInv

(* and the catalog follows. *)
LEMMA MarkCatalogStep == ASSUME FinalizeInv, MarkCatalog PROVE FinalizeInv'
<1>1. TypeOK'
  <2>1. (log \in Logs)'
    BY DEF MarkCatalog, FinalizeInv, TypeOK, Logs
  <2>2. (media \in Tails)'
    BY DEF MarkCatalog, FinalizeInv, TypeOK, Tails
  <2>3. (cat \in Rows)'
    <3>1. progress \in 0..Components /\ cat \in Rows
      BY Ranges DEF FinalizeInv, TypeOK
    <3> QED BY <3>1, Projected DEF MarkCatalog
  <2>4. (/\ {fence, admitted, dropped} \subseteq BOOLEAN
         /\ faults \in 0..MaxFaults)'
    BY DEF MarkCatalog, FinalizeInv, TypeOK
  <2> QED BY <2>1, <2>2, <2>3, <2>4 DEF MarkCatalog, FinalizeInv, TypeOK
<1>2. PlanInv'
  BY DEF MarkCatalog, FinalizeInv, TypeOK, Logs, PlanInv, Working
<1>3. MediaInv'
  BY DEF MarkCatalog, FinalizeInv, TypeOK, Logs, Tails, PlanInv, MediaInv, Working,
     Writing
<1>4. CatalogInv'
  BY DEF MarkCatalog, FinalizeInv, TypeOK, Logs, Rows, PlanInv, CatalogInv, Working,
     project_terminal_finalization, Refused
<1> QED BY <1>1, <1>2, <1>3, <1>4 DEF FinalizeInv

(* The log is sealed behind the last component, *)
LEMMA SealStep == ASSUME FinalizeInv, Seal PROVE FinalizeInv'
<1>1. TypeOK'
  <2>1. (log \in Logs)'
    BY DEF Seal, FinalizeInv, TypeOK, Logs
  <2>2. (media \in Tails)'
    BY DEF Seal, FinalizeInv, TypeOK, Tails
  <2>3. (cat \in Rows)'
    BY DEF Seal, FinalizeInv, TypeOK, Rows
  <2>4. (/\ {fence, admitted, dropped} \subseteq BOOLEAN
         /\ faults \in 0..MaxFaults)'
    BY DEF Seal, FinalizeInv, TypeOK
  <2> QED BY <2>1, <2>2, <2>3, <2>4 DEF Seal, FinalizeInv, TypeOK
<1>2. PlanInv'
  BY DEF Seal, FinalizeInv, TypeOK, Logs, PlanInv, Working
<1>3. MediaInv'
  BY DEF Seal, FinalizeInv, TypeOK, Logs, Tails, PlanInv, MediaInv, Working, Writing
<1>4. CatalogInv'
  BY DEF Seal, FinalizeInv, TypeOK, Logs, Rows, PlanInv, CatalogInv, Working
<1> QED BY <1>1, <1>2, <1>3, <1>4 DEF FinalizeInv

(* and projected. *)
LEMMA FinishStep == ASSUME FinalizeInv, Finish PROVE FinalizeInv'
<1>1. TypeOK'
  <2>1. (log \in Logs)'
    BY DEF Finish, FinalizeInv, TypeOK, Logs
  <2>2. (media \in Tails)'
    BY DEF Finish, FinalizeInv, TypeOK, Tails
  <2>3. (cat \in Rows)'
    BY ProjectedLog DEF Finish, FinalizeInv
  <2>4. (/\ {fence, admitted, dropped} \subseteq BOOLEAN
         /\ faults \in 0..MaxFaults)'
    BY DEF Finish, FinalizeInv, TypeOK
  <2> QED BY <2>1, <2>2, <2>3, <2>4 DEF Finish, FinalizeInv, TypeOK
<1>2. PlanInv'
  BY DEF Finish, FinalizeInv, TypeOK, Logs, PlanInv, Working
<1>3. MediaInv'
  BY DEF Finish, FinalizeInv, TypeOK, Logs, Tails, PlanInv, MediaInv, Working,
     Writing
<1>4. CatalogInv'
  BY DEF Finish, FinalizeInv, TypeOK, Logs, Rows, PlanInv, CatalogInv, Working,
     project_tape_log, project_terminal_finalization, Keeps, Refused, Outcome,
     ProjectionRefused
<1> QED BY <1>1, <1>2, <1>3, <1>4 DEF FinalizeInv

(* A crash leaves log, tape and catalog. *)
LEMMA CrashStep == ASSUME FinalizeInv, Crash PROVE FinalizeInv'
<1>1. TypeOK'
  BY DEF Crash, FinalizeInv, TypeOK, Logs, Tails, Rows, PlanInv, MediaInv, Working
<1>2. PlanInv'
  BY DEF Crash, FinalizeInv, TypeOK, Logs, PlanInv, Working
<1>3. MediaInv'
  BY DEF Crash, FinalizeInv, TypeOK, Logs, Tails, PlanInv, MediaInv, Working,
     Writing
<1>4. CatalogInv'
  BY DEF Crash, FinalizeInv, TypeOK, Logs, Rows, PlanInv, CatalogInv, Working
<1> QED BY <1>1, <1>2, <1>3, <1>4 DEF FinalizeInv

(* A power loss keeps what is synchronized. *)
LEMMA PowerLossStep == ASSUME FinalizeInv, PowerLoss PROVE FinalizeInv'
<1>1. TypeOK'
  BY DEF PowerLoss, FinalizeInv, TypeOK, Logs, Tails, Rows, PlanInv, MediaInv,
     Working, Remains
<1>2. PlanInv'
  BY DEF PowerLoss, FinalizeInv, TypeOK, Logs, PlanInv, Working, Remains
<1>3. MediaInv'
  BY DEF PowerLoss, FinalizeInv, TypeOK, Logs, Tails, PlanInv, MediaInv, Working,
     Writing, Remains
<1>4. CatalogInv'
  BY DEF PowerLoss, FinalizeInv, TypeOK, Logs, Rows, PlanInv, CatalogInv, Working,
     Remains
<1> QED BY <1>1, <1>2, <1>3, <1>4 DEF FinalizeInv

(* A fence is released. *)
LEMMA ReleaseFenceStep == ASSUME FinalizeInv, ReleaseFence PROVE FinalizeInv'
<1>1. TypeOK'
  <2>1. (log \in Logs)'
    BY DEF ReleaseFence, FinalizeInv, TypeOK, Logs
  <2>2. (media \in Tails)'
    BY DEF ReleaseFence, FinalizeInv, TypeOK, Tails
  <2>3. (cat \in Rows)'
    BY DEF ReleaseFence, FinalizeInv, TypeOK, Rows
  <2>4. (/\ {fence, admitted, dropped} \subseteq BOOLEAN
         /\ faults \in 0..MaxFaults)'
    BY DEF ReleaseFence, FinalizeInv, TypeOK
  <2> QED BY <2>1, <2>2, <2>3, <2>4 DEF ReleaseFence, FinalizeInv, TypeOK
<1>2. PlanInv'
  BY DEF ReleaseFence, FinalizeInv, TypeOK, Logs, PlanInv, Working
<1>3. MediaInv'
  BY DEF ReleaseFence, FinalizeInv, TypeOK, Logs, Tails, PlanInv, MediaInv, Working,
     Writing
<1>4. CatalogInv'
  BY DEF ReleaseFence, FinalizeInv, TypeOK, Logs, Rows, PlanInv, CatalogInv, Working
<1> QED BY <1>1, <1>2, <1>3, <1>4 DEF FinalizeInv

(* A tail is discarded while there is no plan. *)
LEMMA SupersedeTailStep == ASSUME FinalizeInv, SupersedeTail PROVE FinalizeInv'
<1>1. TypeOK'
  <2>1. (log \in Logs)'
    BY DEF SupersedeTail, FinalizeInv, TypeOK, Logs, Discardable, recheck
  <2>2. (media \in Tails)'
    BY DEF SupersedeTail, FinalizeInv, TypeOK, Tails, Discardable, recheck
  <2>3. (cat \in Rows)'
    BY DEF SupersedeTail, FinalizeInv, TypeOK, Rows, Discardable, recheck
  <2>4. (/\ {fence, admitted, dropped} \subseteq BOOLEAN
         /\ faults \in 0..MaxFaults)'
    BY DEF SupersedeTail, FinalizeInv, TypeOK, Discardable, recheck
  <2> QED BY <2>1, <2>2, <2>3, <2>4 DEF SupersedeTail, FinalizeInv, TypeOK,
     Discardable, recheck
<1>2. PlanInv'
  BY DEF SupersedeTail, FinalizeInv, TypeOK, Logs, PlanInv, Working, Discardable,
     recheck
<1>3. MediaInv'
  BY DEF SupersedeTail, FinalizeInv, TypeOK, Logs, Tails, PlanInv, MediaInv,
     Working, Writing, Discardable, recheck
<1>4. CatalogInv'
  BY DEF SupersedeTail, FinalizeInv, TypeOK, Logs, Rows, PlanInv, CatalogInv,
     Working, Discardable, recheck
<1> QED BY <1>1, <1>2, <1>3, <1>4 DEF FinalizeInv
--------------------------------------------------------------------------------
(* The invariant holds before a plan is made. *)
LEMMA InitInv == Init => FinalizeInv
<1> SUFFICES ASSUME Init PROVE FinalizeInv
  OBVIOUS
<1>1. TypeOK
  <2>1. log \in Logs
    <3>1. 0 \in 0..Files
      BY DEF Init
    <3> HIDE DEF Files
    <3> QED BY <3>1 DEF Init, Logs
  <2>2. media \in Tails
    BY DEF Init, Tails
  <2>3. cat \in Rows
    BY DEF Init, Rows
  <2>4. {fence, admitted, dropped} \subseteq BOOLEAN
    BY Zenon DEF Init
  <2>5. faults \in 0..MaxFaults
    BY DEF Init
  <2> QED BY <2>1, <2>2, <2>3, <2>4, <2>5 DEF Init, TypeOK
<1>2. PlanInv
  BY DEF Init, PlanInv, Working
<1>3. MediaInv
  BY DEF Init, MediaInv, Writing
<1>4. CatalogInv
  BY DEF Init, CatalogInv, Working
<1> QED BY <1>1, <1>2, <1>3, <1>4 DEF FinalizeInv

(* Every step keeps it. *)
LEMMA NextInv == FinalizeInv /\ [Next]_vars => FinalizeInv'
<1> SUFFICES ASSUME FinalizeInv, [Next]_vars PROVE FinalizeInv'
  OBVIOUS
<1>1. CASE UNCHANGED vars
  BY <1>1 DEF vars, FinalizeInv, TypeOK, Logs, Tails, Rows, PlanInv, MediaInv,
     CatalogInv
<1> QED
  BY <1>1, PrepareStep, DropStep, CancelStep, CommitStep, AcceptStep, DecideStep,
     PublishStep, EndSessionStep, ResumeStep, VerifyPrefixStep, ReconcileStep,
     StartWriteStep, EndWriteStep, BarrierStep, RecordFileStep, RecordFailsStep,
     ProjectStep, WriteFailsStep, MarkLogStep, MarkCatalogStep, SealStep,
     FinishStep, CrashStep, PowerLossStep, ReleaseFenceStep, SupersedeTailStep DEF
     Next, Acceptance, Attempt

(* Tape, log and catalog keep their order through every crash, power loss,  *)
(* failed append and resumption (write_terminal_tail_step,                  *)
(* publish_terminal_intent).                                                *)
THEOREM FinalizeInvariance == Spec => []FinalizeInv
<1>1. Init => FinalizeInv
  BY InitInv
<1>2. FinalizeInv /\ [Next]_vars => FinalizeInv'
  BY NextInv
<1> QED BY <1>1, <1>2, PTL DEF Spec

(* Every variable keeps its type. *)
THEOREM FinalizeTypeCorrect == Spec => []TypeOK
<1>1. FinalizeInv => TypeOK
  BY DEF FinalizeInv
<1> QED BY <1>1, FinalizeInvariance, PTL

(* A record in the log has its synchronized file on the tape, and a sealed  *)
(* tape ends behind its last component (finish_terminal_tail).              *)
THEOREM RecordsHaveFiles == Spec => []RecordedOnMedia
<1>1. FinalizeInv => RecordedOnMedia
  BY DEF FinalizeInv, TypeOK, Logs, Tails, PlanInv, MediaInv, RecordedOnMedia
<1> QED BY <1>1, FinalizeInvariance, PTL

(* The catalog never refuses what the log says next                         *)
(* (project_terminal_finalization_tx).                                      *)
THEOREM CatalogNeverRefuses == Spec => []CatalogFollows
<1>1. ASSUME FinalizeInv PROVE CatalogFollows
  <2>1. cat.row <= progress /\ (cat.row # NoRow => log.plan # "none" /\ cat.scope = tape.manual)
    BY <1>1 DEF FinalizeInv, TypeOK, Rows, CatalogInv
  <2>2. ~ProjectionRefused(cat)
    BY <1>1 DEF FinalizeInv, TypeOK, Logs, Rows, PlanInv, CatalogInv,
       ProjectionRefused, Keeps, Refused, Outcome
  <2>3. log.plan = "decided" => ~Refused(project_tape_log(cat), progress, Outcome)
    BY <1>1 DEF FinalizeInv, TypeOK, Logs, Rows, PlanInv, CatalogInv, Keeps,
       Refused, Outcome, project_tape_log, project_terminal_finalization
  <2> QED BY <2>1, <2>2, <2>3 DEF CatalogFollows
<1> QED BY <1>1, FinalizeInvariance, PTL

--------------------------------------------------------------------------------
(* The refinement.  Phase is what the mapping of Abs makes of the plan. *)
Phase ==
    IF log.sealed THEN "sealed"
    ELSE IF log.plan = "decided" \/ (log.plan = "prepared" /\ cat.row # NoRow)
    THEN "accepted" ELSE "open"
Foreign == media.after = "foreign"

(* A step that keeps the plan's phase, its records and the foreign data is  *)
(* a stutter of the abstract finalization.                                  *)
LEMMA Stutters ==
    ASSUME Phase' = Phase, progress' = progress, Foreign' = Foreign
    PROVE  UNCHANGED Abs!vars
BY DEF Abs!vars, Phase, Foreign

(* Acceptance: only the commit of the catalog's transaction, or the log's   *)
(* own decision, accepts; only what no transaction has committed is retired.*)
LEMMA AcceptanceRefines ==
    ASSUME FinalizeInv, Acceptance
    PROVE  Abs!Accept \/ UNCHANGED Abs!vars
<1>1. CASE Commit
  BY <1>1 DEF Commit, FinalizeInv, PlanInv, CatalogInv, Abs!Accept
<1>2. CASE Decide
  BY <1>2 DEF Decide, FinalizeInv, TypeOK, Logs, PlanInv, CatalogInv, Abs!Accept
<1>3. ASSUME Prepare \/ Drop \/ Cancel \/ Accept \/ Publish \/ EndSession
      PROVE  Phase' = Phase /\ progress' = progress /\ Foreign' = Foreign
  BY <1>3 DEF Prepare, Drop, Cancel, Accept, Publish, EndSession, FinalizeInv,
     TypeOK, Logs, Rows, PlanInv, CatalogInv, Phase, Foreign,
     project_terminal_finalization
<1> QED BY <1>1, <1>2, <1>3, Stutters DEF Acceptance

(* An attempt records and seals in order, and never over foreign data. *)
LEMMA AttemptRefines ==
    ASSUME FinalizeInv, Attempt
    PROVE  Abs!Record \/ Abs!Seal \/ UNCHANGED Abs!vars
<1>1. ASSUME RecordFile \/ RecordFails
      PROVE  Abs!Record \/ UNCHANGED Abs!vars
  <2>1. /\ pc = "record" /\ log.plan = "decided" /\ ~log.sealed
        /\ log.written < Files /\ ~Foreign
        /\ log.written \in Nat /\ Components \in Nat
    BY <1>1 DEF RecordFile, RecordFails, FinalizeInv, TypeOK, Logs, PlanInv,
       MediaInv, Working, Writing, Foreign
  <2>2. UNCHANGED <<tape, media, cat>> /\ log' \in {log, advanced}
    BY <1>1 DEF RecordFile, RecordFails
  <2>3. CASE log' = log
    <3>1. Phase' = Phase /\ progress' = progress /\ Foreign' = Foreign
      BY <2>2, <2>3 DEF Phase, Foreign
    <3> QED BY <3>1, Stutters
  <2>4. CASE log' = advanced
    <3>1. /\ log'.written = log.written + 1 /\ log'.plan = "decided" /\ ~log'.sealed
          /\ Foreign' = Foreign
      BY <2>1, <2>2, <2>4, Advanced DEF Foreign
    <3>2. Phase' = "accepted" /\ Phase = "accepted"
      BY <2>1, <3>1 DEF Phase
    <3>3. \/ progress' = progress
          \/ progress < Components /\ progress' = progress + 1
      BY <2>1, <2>2, <3>1
    <3>4. CASE progress' = progress
      BY <3>1, <3>2, <3>4, Stutters
    <3>5. CASE progress < Components /\ progress' = progress + 1
      BY <2>1, <2>2, <3>1, <3>2, <3>5 DEF Abs!Record, Phase, Foreign
    <3> QED BY <3>3, <3>4, <3>5
  <2> QED BY <2>2, <2>3, <2>4
<1>2. CASE Seal
  BY <1>2, Ranges DEF Seal, FinalizeInv, TypeOK, Logs, PlanInv, Abs!Seal, Abs!vars
<1>3. ASSUME Resume
      PROVE  Phase' = Phase /\ progress' = progress /\ Foreign' = Foreign
  <2>1. /\ log' = [log EXCEPT !.plan = reconcile_manual_terminal_acceptance]
        /\ UNCHANGED <<media, tape>>
    BY <1>3 DEF Resume
  <2>2. /\ log'.written = log.written /\ log'.sealed = log.sealed
        /\ log'.plan = reconcile_manual_terminal_acceptance
    BY <2>1 DEF FinalizeInv, TypeOK, Logs
  <2>3. progress' = progress /\ Foreign' = Foreign
    BY <2>1, <2>2 DEF Foreign
  <2>4. CASE log.plan = "decided"
    <3>1. log'.plan = "decided"
      BY <2>2, <2>4 DEF reconcile_manual_terminal_acceptance
    <3> QED BY <2>2, <2>3, <2>4, <3>1 DEF Phase
  <2>5. CASE log.plan # "decided"
    <3>1. cat' = cat
      BY <1>3, <2>5 DEF Resume, project_tape_log
    <3> QED BY <2>2, <2>3, <2>5, <3>1 DEF reconcile_manual_terminal_acceptance,
       Phase, FinalizeInv, PlanInv, CatalogInv
  <2> QED BY <2>3, <2>4, <2>5
<1>4. ASSUME StartWrite \/ EndWrite \/ Barrier
      PROVE  Phase' = Phase /\ progress' = progress /\ Foreign' = Foreign
  BY <1>4 DEF StartWrite, EndWrite, Barrier, synchronized, FinalizeInv, TypeOK,
     Tails, MediaInv, Writing, Phase, Foreign
<1>5. ASSUME VerifyPrefix \/ Reconcile \/ WriteFails \/ MarkLog
      PROVE  Phase' = Phase /\ progress' = progress /\ Foreign' = Foreign
  BY <1>5 DEF VerifyPrefix, Reconcile, WriteFails, MarkLog, FinalizeInv, TypeOK,
     Logs, Phase, Foreign
<1>6. ASSUME Project \/ MarkCatalog \/ Finish
      PROVE  Phase' = Phase /\ progress' = progress /\ Foreign' = Foreign
  BY <1>6 DEF Project, MarkCatalog, Finish, FinalizeInv, PlanInv, Working, Phase,
     Foreign
<1> QED BY <1>1, <1>2, <1>3, <1>4, <1>5, <1>6, Stutters DEF Attempt

(* Faults change nothing that is promised; a tail is discarded only while   *)
(* no plan is accepted.                                                     *)
LEMMA OthersRefine ==
    ASSUME FinalizeInv, Crash \/ PowerLoss \/ ReleaseFence \/ SupersedeTail
    PROVE  Abs!Discard \/ UNCHANGED Abs!vars
<1>1. ASSUME Crash \/ ReleaseFence
      PROVE  Phase' = Phase /\ progress' = progress /\ Foreign' = Foreign
  BY <1>1 DEF Crash, ReleaseFence, Phase, Foreign
<1>2. ASSUME PowerLoss
      PROVE  Phase' = Phase /\ progress' = progress /\ Foreign' = Foreign
  BY <1>2 DEF PowerLoss, Remains, FinalizeInv, TypeOK, Tails, MediaInv, Phase,
     Foreign
<1>3. CASE SupersedeTail
  BY <1>3 DEF SupersedeTail, Discardable, recheck, FinalizeInv, TypeOK, Logs, Tails,
     PlanInv, CatalogInv, Abs!Discard, Abs!vars
<1> QED BY <1>1, <1>2, <1>3, Stutters

(* Finalization with its crashes, failed writes, uncertain appends and tail *)
(* discards implements the abstract one: what the catalog accepted is never *)
(* retired, components are recorded in order, the seal comes last, and data *)
(* the log does not know is neither overwritten nor discarded under a plan. *)
THEOREM FinalizeRefines == Spec => ImplementsFinalize
<1>1. Init => Abs!Init
  <2> SUFFICES ASSUME Init PROVE Abs!Init
    OBVIOUS
  <2>1. ~log.sealed /\ log.plan = "none" /\ log.written = 0 /\ FinalizeInv
    BY InitInv DEF Init
  <2>2. Phase = "open"
    BY <2>1 DEF Phase
  <2>3. progress = 0
    BY <2>1, Ranges DEF FinalizeInv
  <2>4. (media.after = "foreign") \in BOOLEAN
    BY Zenon
  <2> HIDE DEF progress
  <2> QED BY <2>2, <2>3, <2>4, Zenon DEF Abs!Init, Phase
<1>2. FinalizeInv /\ [Next]_vars => [Abs!Next]_(Abs!vars)
  <2> SUFFICES ASSUME FinalizeInv, [Next]_vars PROVE Abs!Next \/ UNCHANGED Abs!vars
    OBVIOUS
  <2>1. CASE UNCHANGED vars
    BY <2>1, Stutters DEF vars, Phase, Foreign
  <2> QED BY <2>1, AcceptanceRefines, AttemptRefines, OthersRefine DEF Next,
     Abs!Next
<1> QED BY <1>1, <1>2, FinalizeInvariance, PTL DEF Spec, ImplementsFinalize,
   Abs!Spec

================================================================================
