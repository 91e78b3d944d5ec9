----------------------------- MODULE WriteSession -----------------------------
(***************************************************************************)
(* Write sessions of several drives (crates/remanence-api/src/write_owner/ *)
(* write_session.rs and checkpoint.rs), with the identity admissions they  *)
(* share (write_admission.rs), their timers (timers.rs), the dispatch      *)
(* evidence of each (session_tail.rs), the proof of a tape's tail before   *)
(* it is appended to again (append_admission.rs) and the operator's        *)
(* discarding of a tail (tail_recovery.rs).                                *)
(*                                                                         *)
(* A session appends objects to its tape, which makes them WRITTEN, and    *)
(* commits a batch of them by a media barrier, a record of the tape's log  *)
(* and its projection into the catalog, which makes them CHECKPOINTED.  An *)
(* object may be sent to any session, and again after a failure.           *)
(*                                                                         *)
(* Every tape here is initialized.  A tape and its log are sequences of    *)
(* files: objects, and the sidecar a closeout writes.  A log is what its   *)
(* durable records say; an append to it that leaves its outcome open is    *)
(* decided at random.  The finalization of a tape that is full is in       *)
(* TerminalFinalize: here a plan for it only stops the tape's sessions.    *)
(***************************************************************************)
EXTENDS Integers, Sequences, FiniteSets, SequencesExt

CONSTANTS
    Tapes, Objects,
    Parity,      \* the tapes whose commits leave a closeout due
    Mountable,   \* tapes in a drive that a command may mount for itself
    MaxBatch,    \* checkpoint_max_objects
    Watermark,   \* files on a tape at which its seal is due
    MaxEvents,   \* bound: what clients and operators do
    MaxFaults    \* bound: what fails

ASSUME SessionAssumption ==
    /\ IsFiniteSet(Tapes) /\ IsFiniteSet(Objects) /\ Parity \subseteq Tapes
    /\ Mountable \subseteq Tapes
    /\ {"sidecar", "half", "torn", "none"} \cap Objects = {}
    /\ {MaxBatch, Watermark} \subseteq Nat \ {0}
    /\ {MaxEvents, MaxFaults} \subseteq Nat

VARIABLES
    log,         \* each tape's log
    media,       \* each tape as its drive presents it
    catalog,     \* objects with a committed copy, as projected
    admissions,  \* WriteAdmissionState: objects awaiting a checkpoint
    session,     \* the drive actor's session on each tape
    timers,      \* commands its timers have yet to deliver
    fence,       \* tapes with a tape-I/O fence
    told,        \* the last answer of a tape's session on an object
    promised,    \* objects some answer called checkpointed
    unread,      \* history: tapes whose log a startup did not project
    mounted,     \* the tape of a mounted invocation; none in the daemon
    unaudited,   \* audit_error: mounted drives with an event that was not recorded
    events, faults

vars == <<log, media, catalog, admissions, session, timers, fence, told, promised,
          unread, mounted, unaudited, events, faults>>

Cut(seq, n) == SubSeq(seq, 1, n)
Behind(seq, n) == SubSeq(seq, n + 1, Len(seq))
Committed(t) == Len(log[t].files)
ObjectsOf(seq) == ToSet(seq) \cap Objects
seal_due(t) == Committed(t) >= Watermark
Torn(file) == IF file \in {"sidecar", "half"} THEN "half" ELSE "torn"

(* SessionTail: the files dispatched since the last commit, in order, how   *)
(* many of them a barrier has synchronized, and whether the drive failed.   *)
NoEvidence == [names |-> <<>>, synced |-> 0, stopped |-> FALSE]

Closed == [pc |-> "closed", after |-> "closed", trigger |-> "none", obj |-> "none",
           batch |-> <<>>, number |-> 0, waiting |-> 0, receipts |-> {},
           poisoned |-> FALSE, sealed |-> FALSE,
           reason |-> "ClientDisconnected", tail |-> NoEvidence]

(* What may hold the state's lock: the daemon, or a mounted invocation. *)
Process == {{}} \cup {{t} : t \in Mountable}

Init ==
    /\ log = [t \in Tapes |-> [files |-> <<>>, open |-> FALSE, due |-> FALSE,
                               plan |-> FALSE, tail |-> <<>>, synced |-> 0,
                               doubt |-> FALSE]]
    /\ media = [t \in Tapes |-> [files |-> <<>>, synced |-> 0, under |-> <<>>,
                                 stale |-> FALSE]]
    /\ catalog = {} /\ admissions = {} /\ fence = {} /\ promised = {} /\ unread = {}
    /\ session = [t \in Tapes |-> Closed]
    /\ timers = [t \in Tapes |-> {}]
    /\ told = [t \in Tapes |-> [o \in Objects |-> "none"]]
    /\ mounted \in Process /\ unaudited = {} /\ events = 0 /\ faults = 0

Event == /\ events < MaxEvents /\ events' = events + 1
         /\ UNCHANGED <<unread, mounted, unaudited, faults>>
Fault == /\ faults < MaxFaults /\ faults' = faults + 1
         /\ UNCHANGED <<unread, mounted, unaudited, events>>
Quiet == UNCHANGED <<unread, mounted, unaudited, events, faults>>
At(t, pc) == session[t].pc = pc
Become(t, s) == session' = [session EXCEPT ![t] = s]
Go(t, pc) == Become(t, [session[t] EXCEPT !.pc = pc])
Answered(t, objects, answer) ==
    [told EXCEPT ![t] = [o \in Objects |-> IF o \in objects THEN answer ELSE told[t][o]]]
Answer(t, objects, answer) ==
    /\ told' = Answered(t, objects, answer)
    /\ promised' = IF answer = "checkpointed" THEN promised \cup objects ELSE promised

(* The tape (external).  A write replaces whatever lies behind it; until a  *)
(* barrier, or a motion, writes it out, a drive that fails or loses power   *)
(* keeps some of the new files, or none and so the old ones under them.     *)
(* `stale`, for the properties only, says that the files behind the log are *)
(* not those of the last session.                                           *)
Synced(m) == [m EXCEPT !.synced = Len(m.files), !.under = <<>>]
Overwritten(m, at, file) ==
    [m EXCEPT !.files = Append(Cut(m.files, at), file), !.stale = FALSE,
              !.synced = IF at < m.synced THEN at ELSE m.synced,
              !.under = IF at < m.synced THEN SubSeq(m.files, at + 1, m.synced) ELSE @]
Remains(m) ==
    LET Kept(files, stale) ==
            [files |-> files, synced |-> Len(files), under |-> <<>>, stale |-> stale]
        next == m.files[m.synced + 1]
    IN  IF m.synced = Len(m.files) THEN {m}
        ELSE {Kept(Cut(m.files, m.synced) \o m.under,
                   m.under # <<>> /\ next \notin {"sidecar", "half"})}
             \cup {Kept(Cut(m.files, n), FALSE) : n \in m.synced + 1..Len(m.files)}
             \cup {Kept(Append(Cut(m.files, n - 1), Torn(m.files[n])), FALSE) :
                       n \in m.synced + 1..Len(m.files)}

(* The process that holds the state's lock is the daemon, which serves all  *)
(* tapes, or the invocation of a command on the one it has mounted.         *)
Serves(t) == mounted \subseteq {t}

(* A mounted drive records what it does in the audit log of its process.    *)
(* When that fails, its actor begins nothing more that writes.              *)
mounted_audit_ready(t) == t \notin unaudited

--------------------------------------------------------------------------------
(* Opening: handle_drive_open_write and admit_append_boundary. *)

Suffix(t) == Behind(media[t].files, Committed(t))

(* The tape ends in the committed range's own sidecar, whole or in part. *)
own_closeout(t) == log[t].due /\ Suffix(t) \in {<<"sidecar">>, <<"half">>}

(* A session that a crash left open must not have left a whole object. *)
crash_tail(t) == ObjectsOf(Suffix(t)) = {}

(* The tail of an ended one is what the ending names, no shorter than what  *)
(* it calls synchronized; only the last file may have been cut short.       *)
named_tail(t) ==
    LET suffix == Suffix(t)  named == log[t].tail
    IN  /\ Len(suffix) \in log[t].synced..Len(named)
        /\ \A i \in 1..Len(suffix) :
              \/ suffix[i] = named[i]
              \/ i = Len(suffix) /\ i > log[t].synced /\ suffix[i] = Torn(named[i])

Admitted(t) ==
    own_closeout(t) \/ IF log[t].open THEN crash_tail(t) ELSE named_tail(t)

(* Recovery of what the tape holds: a crashed session is ended with it, and *)
(* the end of an ended one refined to it.  The proof moves the tape.        *)
Recovered(t) == [log EXCEPT ![t].open = FALSE, ![t].tail = Suffix(t),
                            ![t].synced = Len(Suffix(t))]

(* The tail is proved and recovered before the closeout or the session.     *)
Prove(t) ==
    /\ At(t, "closed") /\ Serves(t) /\ t \notin fence /\ ~log[t].doubt /\ ~log[t].plan
    /\ mounted_audit_ready(t) /\ Admitted(t)
    /\ Event
    /\ media' = [media EXCEPT ![t] = [Synced(@) EXCEPT !.stale = Suffix(t) # <<>>]]
    /\ log' = Recovered(t)
    /\ UNCHANGED <<admissions, timers, fence, told, promised>>

Open(t) ==
    /\ ~seal_due(t) /\ Prove(t)
    /\ catalog' = catalog \cup ObjectsOf(log[t].files)
    /\ Become(t, [Closed EXCEPT !.pc = IF log[t].due THEN "closeout" ELSE "opening",
                                !.after = "opening"])

(* A closeout at rest, by the work list or an operator. *)
Closeout(t) ==
    /\ log[t].due /\ Prove(t)
    /\ Become(t, [Closed EXCEPT !.pc = "closeout"])
    /\ UNCHANGED catalog

(* A suffix that contradicts its ending is fenced. *)
OpenContradicted(t) ==
    /\ At(t, "closed") /\ Serves(t) /\ t \notin fence /\ ~log[t].doubt /\ ~log[t].plan /\ ~seal_due(t)
    /\ mounted_audit_ready(t) /\ ~log[t].open /\ ~Admitted(t)
    /\ Event
    /\ catalog' = catalog \cup ObjectsOf(log[t].files)
    /\ media' = [media EXCEPT ![t] = Synced(@)]
    /\ fence' = fence \cup {t}
    /\ UNCHANGED <<log, admissions, session, timers, told, promised>>

Opening(t) ==
    /\ At(t, "opening")
    /\ log' = [log EXCEPT ![t].open = TRUE, ![t].tail = <<>>, ![t].synced = 0]
    /\ Go(t, "ready")
    /\ Answer(t, Objects, "none")
    /\ UNCHANGED <<media, catalog, admissions, timers, fence>> /\ Quiet

(* The log is not used again until a startup has read it. *)
InDoubt(t, l) == [l EXCEPT ![t].doubt = TRUE]

(* supersede_tail: the operator gives up the whole objects a crash left.    *)
(* Whatever fails after the proof, before or after the ending is recorded,  *)
(* fences the tape.                                                         *)
supersede_tail(t) ==
    /\ At(t, "closed") /\ Serves(t) /\ t \notin fence /\ ~log[t].doubt /\ ~log[t].plan
    /\ mounted_audit_ready(t) /\ log[t].open /\ ~crash_tail(t)
    /\ \/ Event /\ log' = Recovered(t) /\ UNCHANGED fence
       \/ /\ Fault /\ fence' = fence \cup {t}
          /\ log' \in {log, Recovered(t), InDoubt(t, log), InDoubt(t, Recovered(t))}
    /\ media' = [media EXCEPT ![t] = Synced(@)]
    /\ UNCHANGED <<catalog, admissions, session, timers, told, promised>>

--------------------------------------------------------------------------------
(* Appending: handle_append_finish. *)

(* Mutant: only the session's own batch is looked at. *)
NotHere(t, o) == o \in ToSet(session[t].batch)
(* WriteAdmissionCoordinator::reserve: some session has the object pending. *)
awaiting_checkpoint(t, o) == o \in admissions

(* An object of the pending batch is answered from it; any other must be    *)
(* admitted, which an object awaiting a checkpoint elsewhere is not.  A     *)
(* drive that cannot audit refuses it and says nothing of the object.       *)
reserve(t, o) ==
    LET s == [session[t] EXCEPT !.waiting = 0]
    IN  /\ At(t, "ready") /\ mounted_audit_ready(t)
        /\ Event
        /\ IF o \in ToSet(s.batch)
           THEN Become(t, s) /\ Answer(t, {o}, "written") /\ UNCHANGED admissions
           ELSE IF awaiting_checkpoint(t, o)
           THEN Become(t, s) /\ Answer(t, {o}, "busy") /\ UNCHANGED admissions
           ELSE /\ Become(t, [s EXCEPT !.pc = "admitted", !.obj = o])
                /\ admissions' = admissions \cup {o}
                /\ Answer(t, {o}, "none")
        /\ UNCHANGED <<log, media, catalog, timers, fence>>

(* An object the catalog holds is answered from it. *)
maybe_replay_pool_write(t) ==
    LET o == session[t].obj
    IN  /\ At(t, "admitted")
        /\ IF o \in catalog
           THEN /\ Become(t, [session[t] EXCEPT !.pc = "ready", !.obj = "none",
                                                !.receipts = @ \cup {o}])
                /\ Answer(t, {o}, "checkpointed")
                /\ admissions' = admissions \ {o}
           ELSE Go(t, "write") /\ UNCHANGED <<admissions, told, promised>>
        /\ UNCHANGED <<log, media, catalog, timers, fence>> /\ Quiet

should_checkpoint(batch) == Len(batch) >= MaxBatch

(* Mutant: the timer is armed for a batch that is there already. *)
ArmsLate(t) ==
    LET s == session[t]
    IN  IF s.batch # <<>> THEN timers[t] \cup {[kind |-> "age", batch |-> s.number]}
        ELSE timers[t]
(* arm_checkpoint_timer, when the append opens a batch. *)
arm_checkpoint_timer(t) ==
    LET s == session[t]
    IN  IF s.batch = <<>> THEN timers[t] \cup {[kind |-> "age", batch |-> s.number + 1]}
        ELSE timers[t]

(* Mutant: a file counts as synchronized as soon as it is written. *)
SyncedAtOnce(tail, file) ==
    [tail EXCEPT !.names = Append(@, file), !.synced = Len(tail.names) + 1]
(* A file is dispatched, and its filemark, which does not wait, settled. *)
dispatched(tail, file) == [tail EXCEPT !.names = Append(@, file)]

Place(t, file) ==
    media' = [media EXCEPT ![t] =
                 Overwritten(@, Committed(t) + Len(session[t].tail.names), file)]

(* The object joins the batch; its append asks for a barrier when the batch *)
(* is full, or when no timer can be started for a new one.                  *)
Write(t) ==
    LET s == session[t]
        joined == [s EXCEPT !.batch = Append(@, s.obj),
                            !.number = IF s.batch = <<>> THEN @ + 1 ELSE @,
                            !.tail = dispatched(@, s.obj)]
    IN  /\ At(t, "write")
        /\ Place(t, s.obj)
        /\ \/ /\ timers' = [timers EXCEPT ![t] = arm_checkpoint_timer(t)]
              /\ IF should_checkpoint(joined.batch)
                 THEN /\ Become(t, [joined EXCEPT !.pc = "sync", !.trigger = "append"])
                      /\ UNCHANGED <<told, promised>>
                 ELSE /\ Become(t, [joined EXCEPT !.pc = "ready", !.obj = "none"])
                      /\ Answer(t, {s.obj}, "written")
              /\ Quiet
           \/ /\ Fault /\ s.batch = <<>>
              /\ Become(t, [joined EXCEPT !.pc = "sync", !.trigger = "append"])
              /\ UNCHANGED <<timers, told, promised>>
        /\ UNCHANGED <<log, catalog, admissions, fence>>

(* Nothing reached the tape: the append is refused and the session goes on. *)
WriteRefused(t) ==
    LET o == session[t].obj
    IN  /\ At(t, "write") /\ Fault
        /\ Become(t, [session[t] EXCEPT !.pc = "ready", !.obj = "none"])
        /\ Answer(t, {o}, "failed")
        /\ admissions' = admissions \ {o}
        /\ UNCHANGED <<log, media, catalog, timers, fence>>

(* A plan is published, unless that fails: before it is durable, after it   *)
(* (its projection fails), or with the log's state unknown.                 *)
Planned(t) == [log EXCEPT ![t].plan = TRUE]
Unplanned(t) == {log, Planned(t), InDoubt(t, log), InDoubt(t, Planned(t))}

(* No object of this size fits any more: the seal of the tape, unless it is *)
(* a fresh one, is decided, and the session ends.                           *)
Rollover(t) ==
    LET s == session[t]
        ending == [s EXCEPT !.pc = "finish", !.obj = "none"]
    IN  /\ At(t, "write") /\ s.batch = <<>> /\ log[t].files # <<>> /\ Fault
        /\ \/ /\ log' = Planned(t)
              /\ Become(t, [ending EXCEPT !.sealed = TRUE, !.reason = "CleanClose"])
           \/ /\ log' \in Unplanned(t)
              /\ Become(t, [ending EXCEPT !.poisoned = TRUE, !.reason = "FailedAppend"])
        /\ Answer(t, {s.obj}, "failed")
        /\ admissions' = admissions \ {s.obj}
        /\ UNCHANGED <<media, catalog, timers, fence>>

(* The tape moved, or is taken to have moved: the batch is lost, and what   *)
(* reached the tape, if anything did, is named by the evidence.             *)
WriteFails(t) ==
    LET s == session[t]
        lost == ToSet(s.batch) \cup {s.obj}
        Lost(tail) == [s EXCEPT !.pc = "finish", !.obj = "none", !.batch = <<>>,
                                !.poisoned = TRUE, !.reason = "FailedAppend",
                                !.tail = tail]
    IN  /\ At(t, "write") /\ Fault
        /\ \/ /\ \E file \in {"torn", s.obj} : Place(t, file)
              /\ \E stopped \in BOOLEAN :
                    Become(t, Lost([dispatched(s.tail, s.obj) EXCEPT !.stopped = stopped]))
           \/ UNCHANGED media /\ Become(t, Lost(s.tail))
        /\ Answer(t, lost, "failed")
        /\ admissions' = admissions \ lost
        /\ UNCHANGED <<log, catalog, timers, fence>>

--------------------------------------------------------------------------------
(* The barrier: perform_checkpoint_barrier, step by step. *)

Barrier(t, trigger) ==
    Become(t, [session[t] EXCEPT !.pc = "sync", !.trigger = trigger])

(* Mutant: the identities of a commit that is durable but not projected are *)
(* released.                                                                *)
OnlyUncertain(kind) == kind = "uncertain"
requires_identity_quarantine(kind) == kind \in {"uncertain", "unprojected"}

(* Whom the barrier answers: an append for its object, a client that calls  *)
(* for the whole batch and the receipts kept for it.  A timer answers       *)
(* nobody, and a client that has gone away is not reached: the receipts are *)
(* kept (send_checkpoint_actor_reply).                                      *)
Unheard(s) == s.trigger \in {"timer", "lost"}
Asked(s) == IF s.trigger = "append" THEN {s.obj}
            ELSE IF Unheard(s) THEN {} ELSE ToSet(s.batch) \cup s.receipts
Claimed(s) == IF s.trigger \in {"explicit", "close"} THEN {}
              ELSE s.receipts \cup ToSet(s.batch)

Settled(s) == [s EXCEPT !.batch = <<>>, !.obj = "none", !.trigger = "none"]

(* retain_checkpoint_outcome, and the rest of a handler whose barrier       *)
(* succeeded.  It may fail to clear the evidence (whose files are committed *)
(* all the same) or to prepare the next append, or to start the idle timer. *)
BarrierDone(t) ==
    LET s == session[t]
        ends == s.trigger = "close" \/ s.sealed
        done == [Settled(s) EXCEPT !.receipts = Claimed(s), !.tail = NoEvidence,
                                   !.pc = IF ends THEN "finish" ELSE "ready",
                                   !.reason = IF ends THEN "CleanClose" ELSE @,
                                   !.waiting = IF s.trigger = "timer" THEN s.number ELSE @]
    IN  /\ At(t, "done")
        /\ \/ /\ Become(t, done) /\ Quiet
              /\ timers' = IF s.trigger = "timer"
                           THEN [timers EXCEPT ![t] = @ \cup {[kind |-> "idle", batch |-> s.number]}]
                           ELSE timers
           \/ /\ Fault
              /\ Become(t, [done EXCEPT !.pc = "finish", !.poisoned = TRUE,
                                        !.reason = "FailedAppend"])
              /\ UNCHANGED timers
           \/ s.trigger = "timer" /\ Fault /\ Become(t, done) /\ UNCHANGED timers
        /\ Answer(t, Asked(s), "checkpointed")
        /\ admissions' = admissions \ ToSet(s.batch)
        /\ UNCHANGED <<log, media, catalog, fence>>

(* A barrier that failed, with the session s that the failing step leaves.  *)
(* A commit that is durable is answered as such whatever failed after it.   *)
BarrierFails(t, kind, s) ==
    LET durable == kind \in {"unprojected", "projected"}
        lost == ToSet(s.batch) \cup ({s.obj} \cap Objects)
    IN  /\ Become(t, [Settled(s) EXCEPT
                         !.pc = "finish", !.poisoned = TRUE, !.reason = "FailedAppend",
                         !.receipts = IF durable THEN Claimed(s) ELSE @,
                         !.tail = IF durable THEN NoEvidence ELSE @])
        /\ admissions' = IF requires_identity_quarantine(kind) THEN admissions
                         ELSE admissions \ lost
        /\ IF durable THEN Answer(t, Asked(s), "checkpointed")
           ELSE IF Unheard(s) THEN UNCHANGED <<told, promised>>
           ELSE Answer(t, lost, IF kind = "uncertain" THEN "uncertain" ELSE "failed")
        /\ UNCHANGED <<timers, fence>>

(* The barrier synchronizes the drive, which may fail; so may what precedes *)
(* it, the report that is staged in the log, with the drive still sound.    *)
Synchronize(t) ==
    LET s == session[t]
    IN  /\ At(t, "sync")
        /\ \/ /\ Become(t, [s EXCEPT !.pc = "commit", !.tail.synced = Len(s.tail.names)])
              /\ media' = [media EXCEPT ![t] = Synced(@)]
              /\ Quiet /\ UNCHANGED <<admissions, timers, told, promised, fence>>
           \/ /\ Fault
              /\ \E m \in Remains(media[t]) : media' = [media EXCEPT ![t] = m]
              /\ BarrierFails(t, "before", [s EXCEPT !.tail.stopped = TRUE])
           \/ Fault /\ UNCHANGED media /\ BarrierFails(t, "before", s)
        /\ UNCHANGED <<log, catalog>>

(* complete_report: the append to the log succeeds, fails having written    *)
(* nothing (as a failed position check does), fails after it is durable, or *)
(* leaves its outcome unknown.                                              *)
complete_report(t) ==
    LET s == session[t]
        committed == [log EXCEPT ![t].files = @ \o s.batch, ![t].due = t \in Parity]
    IN  /\ At(t, "commit")
        /\ \/ /\ log' = committed /\ Go(t, "project")
              /\ Quiet /\ UNCHANGED <<admissions, timers, told, promised, fence>>
           \/ Fault /\ UNCHANGED log /\ BarrierFails(t, "before", s)
           \/ Fault /\ log' = committed /\ BarrierFails(t, "unprojected", s)
           \/ Fault /\ log' \in {InDoubt(t, log), InDoubt(t, committed)}
              /\ BarrierFails(t, "uncertain", s)
        /\ UNCHANGED <<media, catalog>>

project_tape_log(t) ==
    LET s == session[t]
    IN  /\ At(t, "project")
        /\ \/ /\ catalog' = catalog \cup ObjectsOf(log[t].files)
              /\ Go(t, IF seal_due(t) THEN "decide" ELSE "done")
              /\ Quiet /\ UNCHANGED <<admissions, timers, told, promised, fence>>
           \/ Fault /\ UNCHANGED catalog /\ BarrierFails(t, "unprojected", s)
        /\ UNCHANGED <<log, media>>

(* A tape past its watermark has its seal decided before any receipt. *)
decide_live_finalization(t) ==
    LET s == session[t]
    IN  /\ At(t, "decide")
        /\ \/ /\ log' = Planned(t)
              /\ Become(t, [s EXCEPT !.pc = "done", !.sealed = TRUE])
              /\ Quiet /\ UNCHANGED <<admissions, timers, told, promised, fence>>
           \/ /\ Fault /\ log' \in Unplanned(t)
              /\ BarrierFails(t, "projected", [s EXCEPT !.sealed = TRUE])
        /\ UNCHANGED <<media, catalog>>

--------------------------------------------------------------------------------
(* Commands and timers. *)

(* handle_checkpoint for a client: receipts only, or a barrier first, which *)
(* a drive that cannot audit refuses.                                       *)
handle_checkpoint(t) ==
    LET s == session[t]
    IN  /\ At(t, "ready") /\ Event
        /\ s.batch = <<>> \/ mounted_audit_ready(t)
        /\ IF s.batch = <<>>
           THEN /\ Become(t, [s EXCEPT !.receipts = {}])
                /\ Answer(t, s.receipts, "checkpointed")
           ELSE /\ \E trigger \in {"explicit", "lost"} : Barrier(t, trigger)
                /\ UNCHANGED <<told, promised>>
        /\ UNCHANGED <<log, media, catalog, admissions, timers, fence>>

handle_close(t) ==
    LET s == session[t]
    IN  /\ At(t, "ready") /\ mounted_audit_ready(t) /\ Event
        /\ IF s.batch = <<>>
           THEN /\ Become(t, [s EXCEPT !.pc = "finish", !.reason = "CleanClose"])
                /\ Answer(t, s.receipts, "checkpointed")
           ELSE Barrier(t, "close") /\ UNCHANGED <<told, promised>>
        /\ UNCHANGED <<log, media, catalog, admissions, timers, fence>>

(* An abort, a stalled append's abort, or a disconnect: the batch is given  *)
(* up, and its client knows.                                                *)
handle_abort(t) ==
    LET s == session[t]
    IN  /\ At(t, "ready") /\ Event
        /\ \E reason \in {"Abort", "ClientStall", "ClientDisconnected"} :
              Become(t, [s EXCEPT !.pc = "finish", !.batch = <<>>, !.reason = reason])
        /\ told' = [Answered(t, s.receipts, "checkpointed") EXCEPT ![t] =
                       [o \in Objects |-> IF o \in ToSet(s.batch) THEN "none" ELSE @[o]]]
        /\ promised' = promised \cup s.receipts
        /\ admissions' = admissions \ ToSet(s.batch)
        /\ UNCHANGED <<log, media, catalog, timers, fence>>

(* FinishMountedInvocation closes the session as handle_close does; when    *)
(* the audit refuses that, the session ends without the batch, no receipt   *)
(* is handed out, and the process ends with its failure.                    *)
FinishMountedInvocation(t) ==
    LET s == session[t]
    IN  /\ t \in unaudited
        /\ events < MaxEvents /\ events' = events + 1
        /\ unaudited' = unaudited \ {t}
        /\ \/ /\ At(t, "ready")
              /\ Become(t, [s EXCEPT !.pc = "finish", !.batch = <<>>])
              /\ Answer(t, ToSet(s.batch), "none")
              /\ admissions' = admissions \ ToSet(s.batch)
           \/ At(t, "closed") /\ UNCHANGED <<session, admissions, told, promised>>
        /\ UNCHANGED <<log, media, catalog, timers, fence, unread, mounted, faults>>

(* An event of the drive is not recorded, in whatever handler it is. *)
AuditFails(t) ==
    /\ t \in mounted /\ session[t].pc \notin {"closed", "ready"}
    /\ faults < MaxFaults /\ faults' = faults + 1
    /\ unaudited' = unaudited \cup {t}
    /\ UNCHANGED <<log, media, catalog, admissions, session, timers, fence, told,
                   promised, unread, mounted, events>>

(* The age of a batch asks for its barrier, if it is still the batch.  The  *)
(* drive that cannot audit drops the command, and with it the batch's only  *)
(* timer.                                                                   *)
TimerCheckpoint(t, timer) ==
    LET s == session[t]
    IN  /\ At(t, "ready") /\ timer \in timers[t] /\ timer.kind = "age"
        /\ timers' = [timers EXCEPT ![t] = @ \ {timer}]
        /\ IF s.batch # <<>> /\ mounted_audit_ready(t) /\ timer.batch = s.number
           THEN Barrier(t, "timer") ELSE UNCHANGED session
        /\ UNCHANGED <<log, media, catalog, admissions, fence, told, promised>> /\ Quiet

(* Mutant: activity after the timer's checkpoint does not stop it. *)
AnyIdle(s, batch) == s.waiting = batch \/ s.number > batch
still_idle(s, batch) == s.waiting = batch /\ s.batch = <<>>

(* The session is closed if nothing came after the timer's checkpoint. *)
handle_timer_idle_close(t, timer) ==
    /\ At(t, "ready") /\ timer \in timers[t] /\ timer.kind = "idle"
    /\ timers' = [timers EXCEPT ![t] = @ \ {timer}]
    /\ IF still_idle(session[t], timer.batch)
       THEN Become(t, [session[t] EXCEPT !.pc = "finish", !.batch = <<>>,
                                         !.reason = "ClientStall"])
       ELSE UNCHANGED session
    /\ UNCHANGED <<log, media, catalog, admissions, fence, told, promised>> /\ Quiet

--------------------------------------------------------------------------------
(* Ending: finish_session_inner, and the closeout before or after the end. *)

Reason(s) == IF s.tail.stopped THEN "DriveError" ELSE s.reason
Clean(s) ==
    /\ ~s.poisoned /\ s.tail.names = <<>>
    /\ Reason(s) \in {"CleanClose", "ClientStall", "GracefulShutdown"}

(* A clean ending writes the closeout that is due before the session ends. *)
Finish(t) ==
    LET s == session[t]
    IN  /\ At(t, "finish")
        /\ Become(t, [s EXCEPT !.reason = Reason(s), !.after = "end",
                               !.pc = IF Clean(s) /\ log[t].due /\ ~log[t].plan
                                      THEN "closeout" ELSE "end"])
        /\ timers' = [timers EXCEPT ![t] = {}]
        /\ UNCHANGED <<log, media, catalog, admissions, fence, told, promised>> /\ Quiet

(* The record of an ending names the session's tail. *)
end_session(t) ==
    LET tail == session[t].tail
    IN  [log EXCEPT ![t].open = FALSE, ![t].tail = tail.names, ![t].synced = tail.synced]

(* The session ends in the log; when that fails, or the log's own state is  *)
(* unknown, the tape is fenced.  An unclean ending is followed by the       *)
(* closeout that is due, unless the drive failed.                           *)
End(t) ==
    LET s == session[t]
        owed == /\ log[t].due /\ ~log[t].plan /\ ~Clean(s)
                /\ s.reason \notin {"DriveError", "CloseoutFailed"}
    IN  /\ At(t, "end")
        /\ \/ /\ ~log[t].doubt /\ Quiet
              /\ log' = end_session(t)
              /\ Become(t, IF owed THEN [Closed EXCEPT !.pc = "closeout"] ELSE Closed)
              /\ UNCHANGED fence
           \/ /\ IF log[t].doubt THEN Quiet ELSE Fault
              /\ fence' = fence \cup {t} /\ Become(t, Closed) /\ UNCHANGED log
        /\ UNCHANGED <<media, catalog, admissions, timers, told, promised>>

(* Where a closeout goes that failed. *)
Refused(s) == IF s.after = "opening" THEN Closed
              ELSE [s EXCEPT !.pc = s.after, !.reason = "CloseoutFailed"]

(* write_closeout, at the committed end of the tape: the drive is moved     *)
(* there, which writes out what it holds.  The session's evidence has the   *)
(* sidecar while the session is open.                                       *)
write_closeout(t) ==
    LET s == session[t]
        seen == IF s.after = "end" THEN [s EXCEPT !.tail = dispatched(@, "sidecar")] ELSE s
        Replaced(file) == [media EXCEPT ![t] = Overwritten(Synced(@), Committed(t), file)]
    IN  /\ At(t, "closeout")
        /\ \/ /\ media' = Replaced("sidecar") /\ Quiet
              /\ Become(t, [seen EXCEPT !.pc = "publish"])
           \/ Fault /\ Become(t, Refused(s)) /\ UNCHANGED media
           \/ Fault /\ Become(t, Refused(seen)) /\ media' = Replaced("half")
        /\ UNCHANGED <<log, catalog, admissions, timers, fence, told, promised>>

(* Its barrier and publication.  What is published ends the tail, of the    *)
(* session or of its ending; a publication in doubt fences the tape.        *)
publish_closed_out(t) ==
    LET s == session[t]
        closed_out == [log EXCEPT ![t].files = Append(@, "sidecar"), ![t].due = FALSE,
                                  ![t].tail = <<>>, ![t].synced = 0]
        cleared == [s EXCEPT !.tail = NoEvidence]
        synced == [media EXCEPT ![t] = Synced(@)]
    IN  /\ At(t, "publish")
        /\ \/ /\ log' = closed_out /\ media' = synced /\ Quiet /\ UNCHANGED fence
              /\ catalog' = catalog \cup ObjectsOf(log[t].files)
              /\ Become(t, IF s.after = "closed" THEN Closed ELSE [cleared EXCEPT !.pc = s.after])
           \/ /\ Fault /\ UNCHANGED <<log, catalog, fence>> /\ Become(t, Refused(s))
              /\ \E m \in Remains(media[t]) \cup {Synced(media[t])} :
                    media' = [media EXCEPT ![t] = m]
           \/ /\ Fault /\ log' = closed_out /\ media' = synced /\ UNCHANGED <<catalog, fence>>
              /\ Become(t, Refused(cleared))
           \/ /\ Fault /\ media' = synced
              /\ log' \in {InDoubt(t, log), InDoubt(t, closed_out)}
              /\ fence' = fence \cup {t} /\ Become(t, Closed) /\ UNCHANGED catalog
        /\ UNCHANGED <<admissions, timers, told, promised>>

--------------------------------------------------------------------------------
(* The host restarts, and the power of a drive may fail with it. *)

(* Startup reads the log of every tape that is not fenced and projects it;  *)
(* a projection that fails is put off when the tape owes a closeout or a    *)
(* seal, and then the closeout scan comes back to it.                       *)
Restart ==
    \E deferred \in SUBSET {t \in Tapes \ fence : log[t].due \/ log[t].plan \/ seal_due(t)} :
    /\ faults' = faults + 1 + Cardinality(deferred) /\ faults' <= MaxFaults
    /\ UNCHANGED events
    /\ log' = [t \in Tapes |-> IF t \in fence THEN log[t] ELSE [log[t] EXCEPT !.doubt = FALSE]]
    /\ catalog' = catalog \cup
                     UNION {ObjectsOf(log[t].files) : t \in Tapes \ (fence \cup deferred)}
    /\ unread' = unread \cup {t \in Tapes : ~(ObjectsOf(log[t].files) \subseteq catalog')}
    /\ mounted' \in Process /\ unaudited' = {}
    /\ session' = [t \in Tapes |-> Closed]
    /\ timers' = [t \in Tapes |-> {}]
    /\ told' = [t \in Tapes |-> [o \in Objects |-> "none"]]
    /\ admissions' = {}
    /\ UNCHANGED <<fence, promised>>

(* scan: the closeout scan projects a log that the catalog is behind. *)
scan(t) ==
    /\ mounted = {} /\ ~log[t].doubt /\ ~(ObjectsOf(log[t].files) \subseteq catalog)
    /\ catalog' = catalog \cup ObjectsOf(log[t].files)
    /\ UNCHANGED <<log, media, admissions, session, timers, fence, told, promised>> /\ Quiet

Crash == Restart /\ UNCHANGED media

PowerLoss(t) ==
    Restart /\ \E m \in Remains(media[t]) : media' = [media EXCEPT ![t] = m]

ReleaseFence(t) ==
    /\ t \in fence /\ Event
    /\ fence' = fence \ {t}
    /\ UNCHANGED <<log, media, catalog, admissions, session, timers, told, promised>>

--------------------------------------------------------------------------------
Actor(t) ==
    \/ Opening(t) \/ maybe_replay_pool_write(t)
    \/ Write(t) \/ WriteRefused(t) \/ Rollover(t) \/ WriteFails(t)
    \/ Synchronize(t) \/ complete_report(t) \/ project_tape_log(t)
    \/ decide_live_finalization(t) \/ BarrierDone(t)
    \/ Finish(t) \/ End(t) \/ write_closeout(t) \/ publish_closed_out(t)

Timer(t) ==
    \E timer \in timers[t] : TimerCheckpoint(t, timer) \/ handle_timer_idle_close(t, timer)

Next ==
    \/ \E t \in Tapes :
          \/ Open(t) \/ Closeout(t) \/ OpenContradicted(t) \/ supersede_tail(t) \/ ReleaseFence(t)
          \/ \E o \in Objects : reserve(t, o)
          \/ handle_checkpoint(t) \/ handle_close(t) \/ handle_abort(t)
          \/ FinishMountedInvocation(t) \/ AuditFails(t)
          \/ Actor(t) \/ Timer(t) \/ scan(t) \/ PowerLoss(t)
    \/ Crash

(* A drive actor's thread runs its handler to the end, and a timer's thread *)
(* delivers its command.                                                    *)
Spec == /\ Init /\ [][Next]_vars
        /\ \A t \in Tapes : WF_vars(Actor(t)) /\ WF_vars(Timer(t))

--------------------------------------------------------------------------------
Files == Objects \cup {"sidecar", "half", "torn"}

(* Types.  A batch never exceeds checkpoint_max_objects, and an object is   *)
(* in one batch of one session at a time (should_checkpoint, reserve).      *)
TypeOK ==
    /\ \A t \in Tapes :
          /\ log[t].files \in Seq(Objects \cup {"sidecar"})
          /\ media[t].files \in Seq(Files)
          /\ log[t].synced \in 0..Len(log[t].tail)
          /\ media[t].synced \in 0..Len(media[t].files)
          /\ Len(session[t].batch) <= MaxBatch
          /\ ToSet(session[t].batch) \subseteq admissions
          /\ timers[t] \subseteq [kind : {"age", "idle"}, batch : Nat]
    /\ catalog \cup admissions \cup promised \subseteq Objects
    /\ fence \subseteq Tapes /\ unaudited \subseteq mounted
    /\ \A t, u \in Tapes : t # u =>
          ToSet(session[t].batch) \cap ToSet(session[u].batch) = {}

Twice(t, u) ==
    \E i \in 1..Committed(t), j \in 1..Committed(u) :
        <<t, i>> # <<u, j>> /\ log[t].files[i] = log[u].files[j] /\ log[t].files[i] \in Objects

(* An object is committed once: whatever sessions it was sent to, whichever *)
(* barriers failed and however, no two files of the logs hold it, unless a  *)
(* startup left one of the logs out of the catalog                          *)
(* (WriteAdmissionCoordinator, the quarantine of identities, the replay).   *)
CommittedOnce == \A t, u \in Tapes : Twice(t, u) => {t, u} \cap unread # {}

(* The same whatever a startup left out.  Docs: a repeat of the same object *)
(* "returns the matching committed copy and does not write a second time"   *)
(* (docs/architecture-overview.md).                                         *)
RetryReplayed == \A t, u \in Tapes : ~Twice(t, u)

(* What a client was told holds.  A checkpointed object is in a log, and on *)
(* a tape, behind a barrier; one that failed is not in that tape's log, so  *)
(* it may be sent again; one written is in its batch or log as long as its  *)
(* session is sound; and a receipt that was kept is of a committed object.  *)
AnswersHold ==
    /\ \A o \in promised : \E t \in Tapes : o \in ToSet(log[t].files)
    /\ \A t \in Tapes :
          /\ media[t].synced >= Committed(t)
          /\ Cut(media[t].files, Committed(t)) = log[t].files
          /\ session[t].receipts \subseteq promised \cup ToSet(log[t].files)
          /\ \A o \in Objects :
                /\ told[t][o] = "failed" => o \notin ToSet(log[t].files)
                /\ /\ told[t][o] = "written"
                   /\ log[t].open /\ ~session[t].poisoned /\ ~At(t, "closed")
                   => o \in ToSet(session[t].batch \o log[t].files)

(* A session that ended in the log leaves a tape that can be opened again:  *)
(* whatever its drive has kept of what the session wrote is within what the *)
(* ending names, so no operator is needed (SessionTail, end_session,        *)
(* admit_append_boundary).                                                  *)
Readmitted ==
    \A t \in Tapes :
        At(t, "closed") /\ ~log[t].open /\ ~media[t].stale => Admitted(t)

(* The same of every session that ended in the log, also one that was       *)
(* opened over the tail of an earlier one and wrote nothing.  Docs:         *)
(* "A durable live ending needs no operator acknowledgement and raises no   *)
(* automatic tape-I/O fence" (docs/architecture-overview.md).               *)
LiveEndingAdmitted ==
    \A t \in Tapes : At(t, "closed") /\ ~log[t].open => Admitted(t)

(* A batch does not stay pending: its timer, a threshold or its client ends *)
(* it, or the session does (arm_checkpoint_timer).  Only a mounted drive    *)
(* whose audit failed may keep it until its operator acts, since nothing    *)
(* arms its timer again (mounted_audit_ready in handle_checkpoint).         *)
BatchEnds ==
    \A t \in Tapes :
        session[t].batch # <<>> ~> session[t].batch = <<>> \/ t \in unaudited
================================================================================
