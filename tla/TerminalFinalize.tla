--------------------------- MODULE TerminalFinalize ---------------------------
(***************************************************************************)
(* Finalizing one tape (crates/remanence-api/src/write_owner/              *)
(* terminal_finalize.rs and terminal_types.rs, and write_terminal_tail_step*)
(* of crates/remanence-parity/src/terminal_writer.rs): the plan is         *)
(* accepted by the log and the catalog, the parity prefix and the terminal *)
(* components are written in turn, each behind a barrier and before its    *)
(* log record, and the log is sealed.  Processes die, writes and log       *)
(* appends fail, drives lose what is buffered; an attempt that is taken up *)
(* again reads the tape to find out what the one before left there.        *)
(*                                                                         *)
(* The log is the record of the plan's progress, the tape its files, the   *)
(* catalog its projection.  Sizes, digests, identities, capacity checks    *)
(* and audit records are left out.  One owner at a time holds the lease of *)
(* the log; what it holds in memory dies with it.                          *)
(***************************************************************************)
EXTENDS Integers, FiniteSets

CONSTANTS
    Components,  \* A, gap, B, gap, C: five in the code
    MaxFaults    \* bound: crashes, failures and unreadable tapes

ASSUME FinalizeAssumption == Components \in Nat \ {0} /\ MaxFaults \in Nat

VARIABLES
    tape,        \* what the tape is: manual, parity, worm
    log,         \* the durable log
    media,       \* the files of the plan on the tape
    cat,         \* catalog: terminal finalization row and idempotency scope
    fence,       \* tape-I/O fence
    pc,          \* the attempt that holds the lease
    evidence,    \* what it read of the next file
    admitted,    \* it has admitted its writes
    dropped,     \* the FinalizeTape request was dropped
    discard,     \* supersede-tail
    faults       \* counts up to MaxFaults

vars == <<tape, log, media, cat, fence, pc, evidence, admitted, dropped,
          discard, faults>>

(* Files of the plan: the prefix, of a tape with parity, and components.    *)
Prefix == IF tape.parity THEN 1 ELSE 0
Files == Prefix + Components
Progress(written) == IF written > Prefix THEN written - Prefix ELSE 0
progress == Progress(log.written)

NoRow == 0 - 1

Init ==
    /\ tape \in [manual : BOOLEAN, parity : BOOLEAN, worm : BOOLEAN]
    /\ log \in [plan : {"none"}, written : {0}, recovery : {FALSE},
                sealed : {FALSE}, open : BOOLEAN]
    /\ log.open = ~tape.manual  \* a sealing session decides for itself
    /\ media \in [whole : {0}, synced : {0}, after : {"eod", "tail", "foreign"}]
    /\ media.after = "tail" => tape.manual /\ ~tape.worm
    /\ media.after = "foreign" => tape.manual
    /\ cat = [row |-> NoRow, outcome |-> "none", scope |-> FALSE]
    /\ pc = "idle" /\ evidence = "none" /\ admitted = FALSE
    /\ fence = FALSE /\ dropped = FALSE /\ discard = "idle" /\ faults = 0

Fault == faults < MaxFaults /\ faults' = faults + 1
Local == <<evidence, admitted>>
Rest == <<tape, dropped, discard>>
Step(from, to) == pc = from /\ pc' = to

--------------------------------------------------------------------------------
(* Mutant: a row is not confirmed, only advanced. *)
RefusesRepeat(c, p, outcome) ==
    /\ c.row # NoRow
    /\ ~(p = c.row + 1 \/ outcome = "finalized")
(* The catalog's row moves by a component at most, keeps a final outcome,   *)
(* and leaves recovery only with progress.                                  *)
Refused(c, p, outcome) ==
    /\ c.row # NoRow
    /\ \/ ~(p \in {c.row, c.row + 1} \/ outcome = "finalized")
       \/ c.outcome = "finalized" /\ outcome # "finalized"
       \/ c.outcome = "recovery" /\ outcome = "in_progress" /\ p = c.row
project_terminal_finalization(c, p, outcome) ==
    [c EXCEPT !.row = p, !.outcome = outcome]

Outcome == IF log.sealed THEN "finalized" ELSE IF log.recovery THEN "recovery"
           ELSE "in_progress"

(* Projecting the log keeps a row that is further, or says more; a plan     *)
(* that is only prepared is not projected.                                  *)
Keeps(c) == \/ c.row > progress
            \/ c.row = progress /\ Outcome = "in_progress"
                                /\ c.outcome \in {"recovery", "finalized"}
project_tape_log(c) ==
    IF log.plan # "decided" \/ Keeps(c) THEN c
    ELSE [project_terminal_finalization(c, progress, Outcome)
          EXCEPT !.scope = tape.manual]
ProjectionRefused(c) ==
    log.plan = "decided" /\ ~Keeps(c) /\ Refused(c, progress, Outcome)

(* Mutant: a preparation never survives a restart. *)
RetirePrepared == IF log.plan = "prepared" THEN "none" ELSE log.plan
(* A preparation whose catalog transaction committed is accepted, one whose *)
(* transaction did not is retired.                                          *)
reconcile_manual_terminal_acceptance ==
    IF log.plan # "prepared" THEN log.plan
    ELSE IF cat.row = NoRow /\ ~cat.scope THEN "none" ELSE "decided"

--------------------------------------------------------------------------------
(* Acceptance. *)

(* preflight_manual_finalize: inside the catalog's transaction the plan is  *)
(* prepared in the log.                                                     *)
Prepare ==
    /\ tape.manual /\ log.plan = "none" /\ ~fence /\ discard # "leased"
    /\ Step("idle", "prepared")
    /\ log' = [log EXCEPT !.plan = "prepared"]
    /\ dropped' = FALSE
    /\ UNCHANGED <<tape, media, cat, fence, Local, discard, faults>>

(* The caller goes away; seen before the transaction commits, the plan is   *)
(* retired.                                                                 *)
Drop ==
    /\ pc = "prepared" /\ ~dropped /\ dropped' = TRUE
    /\ UNCHANGED <<tape, log, media, cat, fence, pc, Local, discard, faults>>
Cancel ==
    /\ dropped
    /\ Step("prepared", "idle")
    /\ log' = [log EXCEPT !.plan = "none"]
    /\ UNCHANGED <<media, cat, fence, Local, Rest, faults>>

(* The row and the idempotency scope commit together, then the log decides. *)
Commit ==
    /\ ~dropped
    /\ Step("prepared", "accept")
    /\ cat' = [row |-> 0, outcome |-> "in_progress", scope |-> TRUE]
    /\ UNCHANGED <<log, media, fence, Local, Rest, faults>>
Accept ==
    /\ Step("accept", "idle")
    /\ log' = [log EXCEPT !.plan = "decided"]
    /\ UNCHANGED <<media, cat, fence, Local, Rest, faults>>

(* decide_live_finalization and publish_terminal_intent: the log decides at *)
(* once and the row follows; the session that sealed the tape ends.         *)
Decide ==
    /\ ~tape.manual /\ log.plan = "none" /\ ~fence /\ discard # "leased"
    /\ Step("idle", "publish")
    /\ log' = [log EXCEPT !.plan = "decided"]
    /\ UNCHANGED <<media, cat, fence, Local, Rest, faults>>
Publish ==
    /\ Step("publish", "end_session")
    /\ cat' = project_terminal_finalization(cat, 0, "in_progress")
    /\ UNCHANGED <<log, media, fence, Local, Rest, faults>>
EndSession ==
    /\ Step("end_session", "idle")
    /\ log' = [log EXCEPT !.open = FALSE]
    /\ UNCHANGED <<media, cat, fence, Local, Rest, faults>>

--------------------------------------------------------------------------------
(* Attempts. *)

(* Startup, the closeout worker or a repeated FinalizeTape take the plan    *)
(* up: acceptance is reconciled, the log is projected, and then its         *)
(* progress once more (reconcile_terminal_component_host_authority).  The   *)
(* attempt goes on unless the plan is retired or the tape is fenced; what   *)
(* only the host has left to do is done for a manual plan all the same.     *)
Resume ==
    LET plan == reconcile_manual_terminal_acceptance
        c == project_tape_log(cat)
        next == IF log.sealed \/ plan # "decided" THEN "idle"
                ELSE IF log.written = Files
                     THEN IF fence /\ ~tape.manual THEN "idle" ELSE "seal"
                ELSE IF fence THEN "idle"
                ELSE IF tape.parity /\ log.written > 0 THEN "verify"
                ELSE "reconcile"
    IN  /\ log.plan # "none" /\ discard # "leased"
        /\ log.sealed => cat.outcome # "finalized"
        /\ Step("idle", next)
        /\ ~ProjectionRefused(cat)
        /\ log.plan = "decided" => ~Refused(c, progress, Outcome)
        /\ cat' = IF log.plan = "decided"
                  THEN project_terminal_finalization(c, progress, Outcome) ELSE c
        /\ log' = [log EXCEPT !.plan = plan]
        /\ evidence' = "none" /\ admitted' = FALSE
        /\ UNCHANGED <<media, fence, Rest, faults>>

(* A recorded prefix must still be found on the tape. *)
VerifyPrefix ==
    /\ \/ media.whole > 0 /\ Step("verify", "reconcile") /\ UNCHANGED faults
       \/ Step("verify", "mark") /\ Fault
    /\ UNCHANGED <<log, media, cat, fence, Local, Rest>>

(* Mutant: what is complete on the tape is not recognized. *)
NeverComplete ==
    IF media.after = "eod" THEN "absent"
    ELSE IF tape.worm THEN "torn_worm" ELSE "torn_rewritable"
(* reconcile_terminal_prefix, reconcile_terminal_tail_next, and a named     *)
(* tail, which is replaced whatever it holds.                               *)
Evidence ==
    IF media.whole > log.written THEN "complete"
    ELSE IF media.after = "eod" THEN "absent"
    ELSE IF tape.worm THEN "torn_worm" ELSE "torn_rewritable"

(* Mutant: the suffix is not searched for what the log does not know. *)
AdmitAll == TRUE
(* The whole suffix holds nothing complete that the plan did not write. *)
admit_terminal_write == media.after # "foreign"

Reconcile ==
    \/ /\ Evidence \in {"complete", "absent", "torn_rewritable"}
       /\ Step("reconcile", IF ~admitted /\ ~admit_terminal_write THEN "idle"
                            ELSE IF Evidence = "complete" THEN "barrier" ELSE "write")
       /\ evidence' = Evidence
       /\ admitted' = (admitted \/ admit_terminal_write)
       /\ log' = IF ~admitted /\ admit_terminal_write
                 THEN [log EXCEPT !.open = FALSE] ELSE log
       /\ UNCHANGED <<media, cat, fence, Rest, faults>>
    \/ /\ Step("reconcile", "mark")
       /\ \/ Evidence = "torn_worm" /\ evidence' = Evidence /\ UNCHANGED faults
          \/ evidence' = "unproved" /\ Fault
       /\ UNCHANGED <<log, media, cat, fence, admitted, Rest>>

(* The file is written over what is torn, then its filemark. *)
StartWrite ==
    /\ Step("write", "writing")
    /\ media' = [media EXCEPT !.after = "torn"]
    /\ UNCHANGED <<log, cat, fence, Local, Rest, faults>>
EndWrite ==
    /\ Step("writing", "barrier")
    /\ media' = [media EXCEPT !.whole = @ + 1, !.after = "eod"]
    /\ UNCHANGED <<log, cat, fence, Local, Rest, faults>>

(* Mutant: a file found complete needs no barrier. *)
BarrierOnce == IF evidence = "complete" THEN media ELSE [media EXCEPT !.synced = media.whole]
(* The zero-count filemark write synchronizes all that precedes it. *)
synchronized == [media EXCEPT !.synced = media.whole]
Barrier ==
    /\ Step("barrier", "record")
    /\ media' = synchronized
    /\ UNCHANGED <<log, cat, fence, Local, Rest, faults>>

(* Mutant: the prefix record clears the recovery flag too. *)
RecordClears == [log EXCEPT !.written = @ + 1, !.recovery = FALSE]
(* publish_terminal_prefix, or advance_finalization by one component. *)
advanced == [log EXCEPT !.written = @ + 1, !.recovery = @ /\ log.written < Prefix]
RecordFile ==
    /\ Step("record", "project")
    /\ log' = advanced
    /\ UNCHANGED <<media, cat, fence, Local, Rest, faults>>

(* An append that is known to be durable in spite of its error is left to   *)
(* the next attempt.  Any other counts as a failed write: the append failed *)
(* or, unknown to the attempt, did not, and then nothing more can be        *)
(* appended.                                                                *)
RecordFails ==
    /\ Fault
    /\ \/ Step("record", "idle") /\ log' = advanced /\ UNCHANGED fence
       \/ Step("record", "mark") /\ fence' = TRUE /\ UNCHANGED log
       \/ Step("record", "idle") /\ log' = advanced /\ fence' = TRUE
    /\ UNCHANGED <<media, cat, Local, Rest>>

(* The prefix takes its admission with it. *)
Project ==
    /\ Step("project", IF log.written = Files THEN "seal" ELSE "reconcile")
    /\ ~ProjectionRefused(cat)
    /\ cat' = project_tape_log(cat)
    /\ admitted' = (admitted /\ log.written > Prefix)
    /\ UNCHANGED <<log, media, fence, evidence, Rest, faults>>

(* A command fails: before it reached the drive, or after, and then the     *)
(* tape is fenced before anything else is tried.                            *)
WriteFails ==
    /\ Fault /\ pc \in {"write", "writing", "barrier"}
    /\ pc' = "mark"
    /\ fence' = (fence \/ pc # "write")
    /\ UNCHANGED <<log, media, cat, Local, Rest>>

(* persist_terminal_recovery_required: the log, then the catalog. *)
MarkLog ==
    /\ Step("mark", "mark_catalog")
    /\ log' = [log EXCEPT !.recovery = TRUE]
    /\ UNCHANGED <<media, cat, fence, Local, Rest, faults>>
MarkCatalog ==
    /\ Step("mark_catalog", "idle")
    /\ cat' = IF Refused(cat, progress, "recovery") THEN cat
              ELSE project_terminal_finalization(cat, progress, "recovery")
    /\ UNCHANGED <<log, media, fence, Local, Rest, faults>>

(* complete_terminal_finalization_host_only. *)
Seal ==
    /\ Step("seal", "finish")
    /\ log' = [log EXCEPT !.sealed = TRUE, !.recovery = FALSE, !.open = FALSE]
    /\ UNCHANGED <<media, cat, fence, Local, Rest, faults>>
Finish ==
    /\ Step("finish", "idle")
    /\ ~ProjectionRefused(cat)
    /\ cat' = project_tape_log(cat)
    /\ UNCHANGED <<log, media, fence, Local, Rest, faults>>

--------------------------------------------------------------------------------
(* Faults and operators. *)

(* The process dies, or an error ends the attempt without further ado.      *)
Crash ==
    /\ Fault /\ (pc # "idle" \/ discard # "idle")
    /\ pc' = "idle" /\ discard' = "idle"
    /\ UNCHANGED <<tape, log, media, cat, fence, Local, dropped>>

(* Power is lost, and with it what the drive had not synchronized. *)
Remains ==
    {media} \cup {m \in [whole : media.synced..media.whole, synced : {media.synced},
                         after : {"eod", "torn"}] :
                     m.whole < media.whole \/ media.after = "torn"}
PowerLoss ==
    /\ Fault
    /\ media' \in Remains
    /\ pc' = "idle" /\ discard' = "idle"
    /\ UNCHANGED <<tape, log, cat, fence, Local, dropped>>

ReleaseFence ==
    /\ fence /\ fence' = FALSE
    /\ UNCHANGED <<log, media, cat, pc, Local, Rest, faults>>

(* supersede-tail looks for a plan before it takes the lease, and again     *)
(* under the lease.                                                         *)
Discardable == log.plan = "none" /\ ~log.sealed
(* Mutant: the answer given before the lease is relied on. *)
StillDiscardable == TRUE
(* What supersede_tail asks again under the lease. *)
recheck == Discardable
SupersedeTail ==
    /\ media.after = "foreign"
    /\ \/ discard = "idle" /\ Discardable /\ discard' = "checked" /\ UNCHANGED <<media, log>>
       \/ /\ discard = "checked" /\ pc = "idle"
          /\ discard' = IF recheck THEN "leased" ELSE "idle"
          /\ UNCHANGED <<media, log>>
       \/ /\ discard = "leased" /\ discard' = "idle"
          /\ media' = [media EXCEPT !.after = "eod"]
          /\ log' = [log EXCEPT !.open = FALSE]
    /\ UNCHANGED <<tape, cat, fence, pc, Local, dropped, faults>>

Attempt ==
    \/ Resume \/ VerifyPrefix \/ Reconcile \/ StartWrite \/ EndWrite \/ Barrier
    \/ RecordFile \/ RecordFails \/ Project \/ WriteFails \/ MarkLog \/ MarkCatalog
    \/ Seal \/ Finish
Acceptance == Prepare \/ Drop \/ Cancel \/ Commit \/ Accept \/ Decide \/ Publish \/ EndSession
Next == Acceptance \/ Attempt \/ Crash \/ PowerLoss \/ ReleaseFence \/ SupersedeTail

Spec == Init /\ [][Next]_vars

(***************************************************************************)
(* A running attempt goes on, the closeout worker takes a pending plan up  *)
(* again (CloseoutWork), and operators release fences in the end.          *)
(***************************************************************************)
Fairness ==
    /\ WF_vars(Attempt \/ Cancel \/ Commit \/ Accept \/ Publish \/ EndSession)
    /\ WF_vars(ReleaseFence) /\ WF_vars(discard = "leased" /\ SupersedeTail)
    /\ SF_vars(Resume)
FairSpec == Spec /\ Fairness

--------------------------------------------------------------------------------
Logs == [plan : {"none", "prepared", "decided"}, written : 0..Files,
         recovery : BOOLEAN, sealed : BOOLEAN, open : BOOLEAN]
Tails == [whole : 0..Files, synced : 0..Files,
          after : {"eod", "torn", "tail", "foreign"}]
Rows == [row : NoRow..Components, scope : BOOLEAN,
         outcome : {"none", "in_progress", "recovery", "finalized"}]

(* Every variable keeps its type. *)
TypeOK ==
    /\ tape \in [manual : BOOLEAN, parity : BOOLEAN, worm : BOOLEAN]
    /\ log \in Logs /\ media \in Tails /\ cat \in Rows
    /\ {fence, admitted, dropped} \subseteq BOOLEAN
    /\ evidence \in {"none", "complete", "absent", "torn_worm", "torn_rewritable",
                     "unproved"}
    /\ discard \in {"idle", "checked", "leased"}
    /\ pc \in {"idle", "prepared", "accept", "publish", "end_session", "verify",
              "reconcile", "write", "writing", "barrier", "record", "project",
              "mark", "mark_catalog", "seal", "finish"}
    /\ faults \in 0..MaxFaults

(* A file of the plan is recorded in the log only when it is complete and   *)
(* synchronized on the tape and the session that decided the plan is over;  *)
(* a sealed tape ends behind replica C.  So no crash, power loss or adopted *)
(* file leaves a record without its file (write_terminal_tail_step).        *)
RecordedOnMedia ==
    /\ log.written <= media.synced
    /\ log.written > 0 => log.plan = "decided" /\ ~log.open
    /\ media.whole <= log.written + 1
    /\ log.sealed => media.whole = Files /\ media.after = "eod"

(* The catalog never knows more of a plan than the log, and what the log    *)
(* says next is never refused by the catalog's own rules: no failure        *)
(* between a record and its projection leaves a tape that every restart and *)
(* retry refuses (publish_terminal_intent, project_terminal_finalization).  *)
CatalogFollows ==
    /\ cat.row <= progress
    /\ cat.row # NoRow => log.plan # "none" /\ cat.scope = tape.manual
    /\ ~ProjectionRefused(cat)
    /\ log.plan = "decided" => ~Refused(project_tape_log(cat), progress, Outcome)

Abs == INSTANCE FinalizeAbs WITH
    phase <- IF log.sealed THEN "sealed"
             ELSE IF log.plan = "decided" \/ (log.plan = "prepared" /\ cat.row # NoRow)
             THEN "accepted" ELSE "open",
    recorded <- progress,
    foreign <- media.after = "foreign"

(* Acceptance, attempts, faults and tail discards implement the abstract    *)
(* finalization: once the catalog's transaction commits a plan is never     *)
(* retired, components are recorded in order, and data the log does not     *)
(* know is never overwritten by a plan nor discarded under one.             *)
ImplementsFinalize == Abs!Spec

(* An accepted plan is sealed, after however many failures and resumptions, *)
(* unless the tape cannot be rewritten or holds data the log does not know. *)
AcceptedIsSealed ==
    log.plan = "decided" ~> log.sealed \/ tape.worm \/ media.after = "foreign"
================================================================================
