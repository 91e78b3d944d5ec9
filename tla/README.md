# Remanence: a TLA+ verification project

Remanence is archival software for LTO tape libraries.  A daemon accepts write
sessions over gRPC, streams objects to tape with optional parity sidecars, and
keeps for every tape an *authority log*: the append-only file that says which
objects the tape holds and what may be done to it next.  This directory holds
TLA+ models of the parts on which the durability of archived objects rests,
TLC configurations that check them on small instances, and TLAPS proofs for
every value of the constants where proofs are within reach.

All paths below are relative to the repository (`src/` here).

## 1. Inventory

| Component | State | Operations | What is hard | What makes it correct |
|---|---|---|---|---|
| tape-log fold (`remanence-state/src/tape_log/fold.rs`, `authority.rs`) | file rows, media boundary (cursor, protected and total ordinals, retained extents), seal obligation, open session, terminal plan, pending group | one per frame: rows, catalogs, plan directory, tail files, ten closing records, refusal, torn tail | long legal sequences; epoch boundaries inside objects; which of three boundaries is reported | the bounded summary is exactly what the whole history implies |
| tape-log store (`tape_log/store.rs`, `snapshot.rs`) | the log's inode, directory entries (log, ambiguity marker, repair record), process fence, lease, snapshots | acquire, stage, complete, cancel, fence and clear an ambiguity, repair, resume, reconcile, snapshot | process death and power loss between any two system calls; failures while handling failures | an acknowledged group is durable; an uncertain one is fenced until examined |
| catalog projection (`tape_log/projection.rs`) | SQLite rows and a mark per tape | project, rebuild | a mark ahead of, or beside, the log | the catalog is a prefix of the log |
| append receive ring (`remanence-api/src/append_ring.rs`, `pool_write/overlap.rs`) | slabs, slot semaphore, channel, occupancy, finished and failed flags | push, finish, abort, read, prefill, pause, resume | three concurrent parties; a mark that gates both directions | no lost slot, exact occupancy, no unverified object, no wait without end |
| append ingress (`write_session_ingress.rs`) | receive task, its drop guard, the RPC | receive, verify, join, abort | client disappears at any point | every append is answered |
| write session and checkpoint (`write_owner/write_session.rs`, `checkpoint.rs`, `session_tail.rs`, `timers.rs`, `write_admission.rs`, `append_admission.rs`) | pending batch, receipts, timers, dispatch evidence, append gate; process-wide identity claims | open, append, checkpoint, close, abort, age and idle timers, end, closeout | several drives; each step of a barrier can fail, or leave its outcome unknown; timers race commands | an object is committed once, answers hold, an ended session's tape opens again, no batch stays pending |
| tail recovery (`tail_recovery.rs`, `append_admission/session_suffix.rs`) | proved end of data | prove, refine, end a crashed session, discard | physical tail differs from the logged one | an end of data is accepted only inside the logged window, and never under a plan |
| terminal finalization (`terminal_finalize.rs`, `remanence-parity/src/terminal_writer.rs`) | plan, prefix, five components, catalog row | prepare, accept, write each file, record, project, seal, resume | crash between barrier, log and catalog; torn files; a dropped request | an accepted plan is sealed, exactly once, and no record is ahead of the tape |
| closeout work list (`closeout_obligation.rs`, `write_owner/closeout.rs`) | entries, claims, libraries in use, wakes | scan, claim, attempt, fail, park, finish, wake | a wake during an attempt; a scan that read old facts | one attempt per library, no wake lost, due work is served |
| shared I/O memory (`io_memory.rs`) | reserved bytes | reserve, release | compare-exchange races | never above the ceiling, all bytes return |
| drive pool, actors, operations (`drive_pool.rs`, `write_owner/actor_*.rs`, `operations.rs`) | drive reservations, mounted tape, actor mailboxes | reserve, mount, route, idle unload | unload racing a new session | one owner per drive and tape |
| readiness and robotics (`readiness_wait.rs`, `write_owner/robotics.rs`) | readiness fences, robot | move, wait, fence | robot moves serialized behind fences | no move while an outcome is unknown |
| media-write gate (`remanence-library/.../media_gate.rs`, `remanence-state/src/calibration.rs`) | write epoch per tape | advance before first modifying command | order of durable epoch and command | a stale map is never served |
| parity, terminal writer, tape index (`remanence-parity`) | encoder state, layouts | encode, map, scan, recover | arithmetic at epoch edges | ordinal mapping is a bijection |
| formats and encryption (`remanence-format`, `-aead`, `-stream`) | none | encode, decode | byte layout | out of scope here |
| read sessions and order (`read_core.rs`, `remanence-order`) | read cursor | plan, read | order optimality | every requested file read once |
| catalog, audit (`remanence-state/src/index.rs`, `audit.rs`) | SQLite | queries | | out of scope here |
| SCSI, daemon, CLI, `rem-recover` | | device I/O, start-up | | out of scope here |

How they interact.  The ingress RPC fills the ring and hands its read end to
the drive's actor, which writes blocks.  A checkpoint stages its provisional
rows in the log (synced), puts a media barrier after the blocks and then a
closing record into the log through the store's lease (synced).  Only a durable
closer makes rows authoritative; then the catalog is projected and receipts are
issued.  Identity claims, shared by all actors, bridge the time between a
catalog lookup and that projection.  Whoever opens the log again folds it from
the first frame.  Before a tape is appended to again, the files behind the log's
end are proved against what the last session's ending names.  A tape that owes a
closeout is found by the work list and closed out at rest, at the next open or
at the session's end; a tape that is full has a plan accepted, which the same
work list resumes until the tape is sealed.

`PROJECT.json` lists every component with its status, and under `hazards` each
place where an ordinary test hardly reaches.

## 2. Modules

| Module | Role |
|---|---|
| `TapeLogFold` | the fold: one action per accepted frame, `Refuse`, `TornTail` |
| `TapeLogFoldInv` | its inductive invariant `IndInv` |
| `TapeLogFoldProofs` | TLAPS proofs |
| `MCTapeLogFold` | instance for TLC: sidecar sizes, symmetry |
| `TapeLogStore` | the log's file, owner, fences, repair, snapshots and catalog mark, over a crashing host |
| `TapeLogStoreProofs` | its inductive invariant `StoreInv` and TLAPS proofs |
| `CatalogAgreesProofs` | extends them by `AgreeInv`: the proof that log and catalog never disagree |
| `DurabilityProofs` | extends them by `DurableInv`: the proof that what was acknowledged or projected survives power loss |
| `AppendRing` | one overlap append: receive task, object writer, RPC handler |
| `AppendRingProofs` | its inductive invariant `RingInv` and TLAPS proofs |
| `WriteSession` | the sessions of several tapes: batches, barriers, timers, claims, tails, closeouts, restarts |
| `WriteSessionProofs` | its inductive invariants `SessionInv` and `TailsInv`, and TLAPS proofs |
| `CloseoutWork` | the work list, its dispatcher, its attempts, and the clients and operators that cross them |
| `CloseoutWorkProofs` | its inductive invariant `WorkInv` and TLAPS proofs |
| `TerminalFinalize` | one tape's finalization: log, tape and catalog through every failure and resumption |
| `TerminalFinalizeProofs` | its inductive invariant `FinalizeInv`, TLAPS proofs, and the refinement step by step |
| `FinalizeAbs` | what a finalization promises; `TerminalFinalize` implements it |

Definitions carry the source's names where the language permits
(`publish_media`, `check_commit`, `replace_prefix`, `fence_ambiguity`,
`send_held`, `should_pause`).  The definition and the lines it models are paired
in `PROJECT.json` under `map`.  A definition whose comment starts with
*Mutant:* is no part of a model: it is the form a plausible mistake would give
the definition after it, kept to show that a property would notice.

### TapeLogFold

State is `TapeSummary` plus the pending group.  A field that a frame must repeat
(a sequence number, the boundary before it) is not a parameter: any other value
is `Refuse`.  Digests are modelled by what they bind.  `files`, the rows of all
closed groups, is history: the code keeps only the summary, and the properties
say that the summary agrees with that history.  Positions are bounded by
`MaxLba` and `MaxTotal`, which stand for the limit of checked 64-bit addition: a
row that would pass it is refused.  `MaxClosed` bounds closing records,
`MaxTailFiles` the files that one ending names.

### TapeLogStore

Each system call whose failure the code handles, or after which a crash leaves
something new on disk, is a step of `op`.  Frames carry only their group and
whether they close it.  The host follows the repository's own crash model
(`remanence-chaos/src/file_model.rs`): a kill keeps the page cache; power loss
keeps a prefix of every file that includes its synced frames, and either the
current directory or the one of the last directory sync; a failed sync may drop
the dirty bytes now or later.  Repair runs offline, so no snapshot of a serving
process outlives it.  A projection reads through a snapshot: it keeps the inode
it captured and reads that file as it is by then, reads the closing frame at the
catalog's mark again before it trusts the mark, and takes groups up to the last
closing frame it can read.

### AppendRing

Bytes are counted, not stored.  Three processes: the receive task (`producer`),
the object writer on the drive's thread (`consumer`), and the RPC (`handler`).
`declared` and `gated` are chosen at the start.  A tape without parity writes
through `OverlapBlockSink`, which waits for the high mark before its first block
and pauses at the low mark; a parity session writes without that gate.  The
object writer starts with a header block and ends with a trailer block, reads
exactly the declared size and never the completion message.  What the session's
actor says of the object is `receipt`: an object that is only written is
checkpointed by the handler, and without a durable receipt after that the receive
task is aborted and the RPC fails.  Whether the barrier of that checkpoint
succeeds is a choice here; `WriteSession` models it.

### WriteSession

One drive actor per tape (`session[t]`, `pc` is the step of the handler it is
in), the claims they share (`admissions`), the catalog, and per tape its log, its
medium, its timers and whether it is fenced.  A tape and its log are sequences
of files: objects, sidecars, and files cut short.  The commands a client sends
(`reserve`, `handle_checkpoint`, `handle_close`, `handle_abort`) are accepted
only between handlers, as the actor's mailbox does it; the steps of a handler
(`maybe_replay_pool_write`, `Write`, `Synchronize`, `complete_report`,
`project_tape_log`, `decide_live_finalization`, `BarrierDone`, `Finish`, `End`,
`write_closeout`, `publish_closed_out`) interleave with the other tapes.
`BarrierFails` is the handling of every class of `CheckpointBarrierFailure`:
before the log record, after it, after its projection, or with the record's fate
unknown (`InDoubt`: the log is not used again before a startup reads it).  A plan
(`Unplanned`) and a superseded tail can fail at the same points: before the record,
after it with its projection missing, or in doubt.
`told` and `promised` record the answers clients got.  `Admitted` is the proof of
a tail: the log's own sidecar, the remains of a crashed session, or a file list
within what the last ending names.  `Restart` projects the logs a startup
projects, `scan` is the host-only projection of the closeout scan.

The process is the daemon, which serves every tape, or a command's invocation on
the one tape it has mounted (`mounted`, chosen at each start of a process from the
tapes of `Mountable`; the state's lock admits one process, hence `Serves`).  Both
replay the logs before they write.  A mounted drive records what it does in the
audit log, and a record that fails is kept in memory (`unaudited`, the code's
`audit_error`) until the process ends: `mounted_audit_ready` then refuses an open,
an append, a barrier and a close, while receipts of committed batches can still be
claimed.  A batch's age timer is consumed by that refusal.  The invocation ends the
session without the batch (`FinishMountedInvocation`).  The fence that
`settle_audit` (`mounted_commands.rs:69`) raises for an invocation that left a
session without a durable close is the one that `End` raises when the ending is not
recorded.

Tapes are initialized.  The medium (external) keeps what was synchronized; any
motion writes out the drive's buffer; a failing barrier or a power loss keeps
some of the rest, the last file possibly in part, or what lay under it.  The
sidecars that the parity encoder writes inside a batch belong to it.  Left out:
positions and bytes, the shutdown deadline, a mailbox full of commands, which of
its four reasons a failed append records, the overflow of a position that would
fail the next append's context (`write_session.rs:1103-1117`), and what a plan does
once it is accepted (`TerminalFinalize`).

### CloseoutWork

A log is reduced to whether work is due on it, and what stands in the way of a
tape's work to one `obstacle` (a fence, missing media, readiness).  The
dispatcher's turn is its several steps (inventory comparison, readiness wakes,
scan, claim); a scan reads a tape and applies what it read later; an attempt
reads, reserves its library, works, drops its guard, rereads and refreshes.  The
work may find the shutdown that began after its admission, or fail in a way that
will pass, before the debt is paid or after it (its closing audit record is not
written).  Passing failures are counted by `MaxEvents`: `DebtServed` says that the
debt is served when they stop.  Backoff times are left out: an entry may be claimed
at once.

### TerminalFinalize and FinalizeAbs

One owner of the log's lease at a time; `pc` is its step, and the rest of its
memory (`evidence`, `admitted`) is lost with it.  The log, the tape and the
catalog row are separate, so that every order of "written", "synchronized",
"recorded" and "projected" that a crash can leave is a state.  An attempt that
resumes reads the tape and adopts a complete file, rewrites a torn one on a
rewritable tape, or asks for recovery.  All four kinds of tape (with parity or
not, WORM or not), both triggers (an operator's request, a session's decision)
and a tail or foreign data behind the log are initial states.

`FinalizeAbs` has three variables: the phase, the number of components recorded,
and whether unknown data lies behind the log.  The mapping takes a plan as
accepted when the log has decided it, or has prepared it and the catalog's
transaction has committed: that is the moment the request is answered.  It is the
moment after which the code may not retire the plan, and the refinement fails if
it is put earlier or later.

## 3. Runs

| Run | Checks | Shows |
|---|---|---|
| `sessions` | `TypeOK UncoveredIsExact DenseLayout SidecarsPartition DebtIsClosable DebtHasOneOwner ReportIsBoundary TailWindow` | two sessions, objects within and across an epoch, close-outs, abandoned tails, seal obligation |
| `finalize` | `PlanInPlace SealedTail PlanIsFinal` | two editions, both kinds of trigger, preparation, retirement, acceptance, five components, seal |
| `faults` | `TypeOK FoldMatchesLog CatalogAgrees RepairFenced ClosedKept FencedIsSilent` | any two faults of all eight kinds |
| `power` | `AckedDurable ProjectedDurable` | three faults: power loss, failing writes, syncs and callbacks |
| `restart` (violation) | `ProjectedDurable` | finding 1 |
| `flow` | `TypeOK OccupancyExact SlotsConserved FinalSlabWithheld DurableIsAnswered PauseEnds AppendEnds` | objects of one slab, of nearly the ring, and of twice the ring; with and without the gate |
| `high_mark` (violation) | `PauseEnds` | finding 2 |
| `batches` | `TypeOK CommittedOnce AnswersHold Readmitted BatchEnds` | two tapes, one with parity, are sent the same two objects by the daemon, or one of them by a mounted invocation; two faults |
| `empty` (violation) | `LiveEndingAdmitted` | finding 3 |
| `twice` (violation) | `RetryReplayed` | finding 4 |
| `debt` | `TypeOK AttemptsExclusive WakeHonoured DebtServed` | two tapes, two libraries; obstacles, moves, wakes, retirement, shutdown |
| `seal` | `TypeOK RecordedOnMedia CatalogFollows ImplementsFinalize AcceptedIsSealed` | every kind of tape, five components, four faults |

**Bounds.**  *Fold*: an epoch of 2 with objects of 1 and 2 blocks reaches
objects that end on, short of and beyond an epoch boundary; seven closing
records are enough for two sessions with a close-out between them, and three tail
files for a synchronized, a written and a possibly written one.  A terminal
plan needs records for the session, the plan, its prefix, five components and
the seal: eleven.  Editions and sessions only occur in equality tests, so they
are symmetric.  Tapes without parity (`EpochBlocks = 0`) are covered by the
theorems.  *Store*: three groups are the first record and
two later ones, so that a fault can hit a log that has something to lose and
leave something to do; five inodes are never exhausted by the log, its durable
name, a temporary and a snapshot.  Two faults are the interrupted operation and
the failure of what handles it; the same properties hold with three.
*Ring*: slabs of 3 bytes and blocks of 2 make reads end inside slabs and blocks
inside reads; the pause is first exercised by objects of about twice the ring,
hence 18.
*Sessions*: two tapes and two objects are what a double commit and a full batch
of two need; five client or operator events reach a session, a failure, a second
session and its end, or an object sent to both tapes; two faults are a failure
and the failure of what handles it, or a crash and a deferred projection.  One
tape, that with parity, may be mounted, before or after any restart.
*Work list*: the second tape is the competitor for the library; it is not
touched itself.  `MediaLimit` is 2 instead of 3, the least that has a failure
that does not park.  *Finalization*: five components as in the code; four faults
are enough for a torn file, its torn rewrite, and a failing mark of either.

**Deadlock** is checked in the runs of the fold, the store and the ring; a finished
append stutters (`Stopped`).  The other systems really stop: clients may send
nothing more, a daemon may be shut down, a tape is sealed.

**Fairness.**  In `AppendRing`, `Receive` is fair because the runtime polls a
spawned task and the ingress deadline fires for a silent client; `Write` because
the drive's thread runs; `Handle` because the runtime polls the RPC.  In
`WriteSession`, an actor's thread runs the handler it is in, and a timer's thread
delivers its command; clients, crashes and operators have no fairness.  In
`CloseoutWork`, the dispatcher and the spawned attempts run; its turn with a due
scan, and the claim of an entry, are strongly fair, because the dispatcher comes
back each second, a scan each minute, and a backoff ends; sessions end; a fence
may stay for ever, but one that is being released is released.  In
`TerminalFinalize`, an attempt goes on, a discard that holds the lease ends,
operators release fences, and the work list resumes a pending plan again and
again: strong fairness of `Resume`, which is what `DebtServed` shows of the work
list.  Each is fairness of a whole process, never of one of its branches, and
faults have none.

**Scope of the durability properties.**  `AckedDurable` and `ProjectedDurable`
are checked without killed processes, failing directory syncs or lost markers;
finding 1 and the observation on it say why a kill breaks them.  `ClosedKept`
speaks of operations: what a fault itself destroys is exempt.

**Scope of the other properties.**  `CommittedOnce` exempts a log that some startup
left out of the catalog (finding 4), `Readmitted` a tape whose files behind the log
are older than its last session (finding 3, and an observation below).
`BatchEnds` excuses a mounted drive whose audit failed: the batch's timer asks once,
the refusal arms no other, and the batch stays pending until the invocation ends.
`DebtServed` excuses a tape that an obstacle holds and one whose media failed
`MediaLimit` times, `AcceptedIsSealed` a tape that cannot be rewritten and one that
holds data the log does not know: in each case an operator is asked.

## 4. Findings

Each is a statement of the repository that the code does not keep; the run shows
a shortest behaviour.

1. `restart`: a process killed between giving a new log its name and syncing the
   directory (`store.rs:1101-1102`) leaves a synced file under a name that is not
   durable.  Its successor accepts the group and projects it without syncing the
   directory; power loss then leaves the catalog's mark without a log.  A kill
   between writing a closing record to an existing log and syncing it
   (`store.rs:1095-1099`) ends the same way, by a longer behaviour of the same run.
2. `high_mark`: a paused writer keeps its drained slab until its next read, so an
   occupancy near 100 percent cannot be reached and both sides wait for ever.
   `append_ring_high_pct = 100` is accepted by the configuration.
3. `empty`: a session opened over the named tail of an earlier one (left by an
   abort, say) starts without evidence of it, and opening it clears the earlier
   ending.  If it writes nothing and closes, its own ending names no file, while
   the old ones are still there; the next open fences the tape.  The repository's
   test of this path (`write_owner/b6c_tests.rs:254`) reopens once, not twice.
4. `twice`: a startup leaves out the log of a fenced tape, and defers a projection
   that fails on a tape that owes a closeout or a seal.  The claims that kept the
   objects of that log from being written again ended with the old process, so a
   retry writes and commits them on another tape.

Observations without a run of their own.

* The name that finding 1 leaves is not made durable by later commits to that log
  either, so `AckedDurable` fails with a `"kill"` fault as well.
* On a tape finalized before any ordinary commit, `latest_report` follows the
  terminal components (`authority.rs:1337-1355`), where the comment at
  `authority.rs:1358` says the plan's base is kept.
* `OccupancyExact` is limited to a living consumer because a dropped one returns
  its slots but not its occupancy, so that the assertion at `append_ring.rs:85`
  can fail.
* `DurableIsAnswered` is limited to gated appends because a parity session's
  writer can end before the receive task has sent its completion, and the RPC then
  reports a closed ring for an object that is durable.
* A drive that loses buffered writes placed over an older tail still has the older
  tail, which contradicts the new ending; `docs/guide-troubleshooting.md:636` says
  lost buffered data needs no acknowledgement.
* A work-list entry learns its tape's library only from a scan while it is not
  running, so a wake of a library can miss a parked tape that was carried there
  (`docs/guide-troubleshooting.md:593-595`).

## 5. Proofs

`TapeLogFoldProofs` proves, for every epoch size (0 included), set of sessions,
triggers and editions, every bound and every sequence of frames:

* type correctness (`TypeCorrect`);
* the invariants `UncoveredIsExact`, `DenseLayout`, `DebtHasOneOwner`,
  `DebtIsClosable`, `PlanInPlace`, `SealedTail`, `TailWindow`, `ReportIsBoundary`,
  `SidecarsPartition`;
* the action properties `AppendOnly`, `SealDueIsSticky`, `PlanIsFinal`,
  `PreparationIsBinding` (of these only `PlanIsFinal` has a run as well).

The only assumption is `ConstantsAssumption` of `TapeLogFold`, which TLC
evaluates in every fold run.

**The argument.**  None of the invariants is inductive, because a closing record
publishes what earlier frames built.  `IndInv` therefore has two halves.
`SummaryInv` speaks of the closed groups: rows are contiguous, retained extents
are the unprotected ordinals at their rows' addresses, all of one session, and an
accepted plan still fits (`PrefixPlanned` before its prefix is written,
`TailStarted` after).  `GroupInv` says how the pending group extends them: its
rows start at the published boundary, its extents are a final segment of its own
ordinals (the code cuts them to one epoch), its protected mark is the end of its
last sidecar (`Covers`), and it names the open session.  The heart is
`PublishStep`: merging what is left of the old extents with the group's own gives
exactly the new unprotected range.  It needs `check_commit`'s test of the first
and last new extent, together with the final-segment fact, to exclude a gap.
`TerminalPrefixStep` needs `CoversUnique`: rows equal to the planned ones leave the
planned protected mark.  There is one lemma per action (`PushObjectStep`,
`CommittedStep`, ...); `NextInv` combines them, `Invariance` is the temporal
statement, and the action properties follow from it.

Two properties need an invariant of their own on top of `IndInv`.  `ReportInv`
states the append base until a file of an *accepted* plan is published, not only
until the prefix is written: a preparation whose prefix is empty counts as written
and may still be retired.  `PartitionInv` says that the files of a kind tile the
ordinals from 0 in file order and that the next epoch is the number of sidecars,
once of the published files and once of those followed by the pending group's, so
that publishing a group only carries the second statement over to the first.  That
one file owns an ordinal, which `SidecarsPartition` counts, follows from the order.
No induction over files is needed: each frame adds one file at the end
(`TilesPush`, `NumberedPush`).

`AppendRingProofs` proves, for every size of object, slab, ring, block and chunk
and every admissible pair of marks (`RingAssumption`), with and without the gate:
`TypeOK`, `SlotsConserved`, `OccupancyExact`, `FinalSlabWithheld` and
`DurableIsAnswered`.

**The argument.**  `RingInv` orders the counters (read, taken, sent, pushed,
declared) and says where each byte of a living ring is: in the open slab, in one
of the queued slabs, or in the slab being read, each of which holds a slot.  With
slot conservation that bounds the occupancy by the capacity.  The withheld slab
follows from one inequality: an unverified producer sends only with data in hand,
so what it has sent stays below the declared size.  `DurableIsAnswered` rests on
the gate: when the last block is due everything declared has been read, so the
occupancy is zero, which is at or below the low mark and below the high one; hence
the block is written only behind a finished producer, and the join succeeds.
Its premise is carried from the actor's answer to the join by `HandlerInv`: a
durable receipt belongs to a closed writer, and one that is joined was written by
this append and not replayed.

`TerminalFinalizeProofs` proves, for every number of components and faults
(`FinalizeAssumption`) and every kind of tape: `TypeOK`, `RecordedOnMedia`,
`CatalogFollows`, and `ImplementsFinalize`, the refinement of `FinalizeAbs`
(`FinalizeAbs` states no fairness, so the refinement is a safety statement).

**The argument.**  `FinalizeInv` has three parts.  `PlanInv` says which plan each
step of an attempt works on.  `MediaInv` orders tape and log: the recorded files
are synchronized, at most one file lies behind them and it is the last.
`CatalogInv` bounds the catalog row: behind the log by at most one component, and
by none while an attempt is at work.  Neither property is inductive alone: a
resumption may adopt a file only because nothing but that file lies behind the
record, and a projection is refused unless the row is one step behind.  Each action then
maps to a step of `FinalizeAbs` or to a stutter; retiring a prepared plan needs that the
catalog has not committed it, which is `CatalogInv` again.

`CloseoutWorkProofs` proves `TypeOK` and `AttemptsExclusive` for every set of tapes
and libraries and every limit of media failures (`WorkAssumption`).  `WorkInv` adds
that an attempt keeps its entry present and running until it lets go of it,
whatever scans, wakes and retirements do meanwhile (`EntryInv`), and that a working
attempt owns its tape and holds the library its cartridge is in (`OwnerInv`), which
is why a second attempt finds the library taken.

`TapeLogStoreProofs` proves, for every number of inodes, groups and faults of every
kind (`StoreAssumption`): `TypeOK`, `FoldMatchesLog`, `RepairFenced`, and the action
properties `FencedIsSilent` and `ClosedKept`.

**The argument.**  `StoreInv` has a part on control (`ControlInv`: which owner is
at work in each stage and which fences stand), one on content (`FoldInv`: what the
owner has folded is what its log holds, and in each stage of a publication up to
the frames it has added itself), and one on repair (`RepairInv`: a record keeps
what was closed of the log it binds, in every directory that power loss may bring
back).  `FoldMatchesLog` fails to be inductive because a failed publication is
rolled back to the prefix the owner remembers: that this prefix is still in the
file is `FoldInv`'s statement about each stage.  What a log's closed prefix is
rests on its last closing frame; that there is a last one is `NatMax`, proved from
the well-foundedness of the natural numbers.

`CatalogAgreesProofs` proves `CatalogAgrees` under the same assumption.  `AgreeInv`
compares the catalog with the closed groups of every file that may still become
the log or be read: the current name, the name power loss may bring back, and the
file a snapshot holds.  A file that was the log has no group the log can lose,
because a replacement is synchronized before it takes the name (`Stable`); only a
repair that is not reconciled may have cut groups the old name has.  An earlier
form of `Project`, which trusted the mark without reading its closing frame again,
did not admit this proof, and was not what the code does.

`DurabilityProofs` proves `AckedDurable` and `ProjectedDurable` for every number of
inodes, groups and faults, under the hypothesis `Survivable`: the faults are among
power loss, failing writes, failing file syncs and failing callbacks.  The
hypothesis is needed: TLC refutes both properties when kills, failing directory
syncs, markers that are not created, or damage are added to the faults of the run
`power`, each of them alone.

**The argument.**  `Promised` is what each directory that power loss may leave is
sure to have: the closed groups of its synced frames.  `DurableInv` says that
everything acknowledged, projected, or captured by a snapshot still to be projected
lies under it (`PromiseInv`), and two things that keep it so.  `SettledInv`: unless
a marker stands or is about to be written, or a closing frame awaits its sync, all
closed groups that can be read are durable, which is why an owner, a snapshot or a
rebuild may trust what it reads; a file that no later sync writes ends in
provisional frames, so that its next owner replaces it before publishing.
`StageInv`: current and durable name differ only inside a replacement, whose
file is already synced, and at the first link of a log.  The heart is `PromiseKept`
(a file that grows, or loses unsynced frames to a failing sync, keeps what was
promised of it, and a snapshot of it reads the same frames) and `KeptDurable` (what
a replacement copies holds all that is durable).  The invariant was first checked
by TLC on the bounds of the run `power`.

`WriteSessionProofs` proves, for every set of tapes and objects, with or without a
mounted drive, for every batch limit, watermark, and number of events and faults
(`SessionAssumption`): `TypeOK` (together with `AuditInv`: only a mounted drive can
have failed to audit), `CommittedOnce`, `AnswersHold` and `Readmitted`.

**The argument.**  `SessionInv` says of each tape where an object and its batch are
in each step of a handler (`StageInv`), that the tape holds its log behind a barrier
and then the batch (`TapeInv`), that a session has projected its own log before it
appends, so that its batch is new to it (`OwnInv`), and what its client was told
(`ToldInv`).  Two parts relate tapes.  `ClaimInv`: a pending object is claimed and
is pending in one session; an object of a log that startups have read is in the
catalog or still claimed; and a pending object in another tape's log is one about
to be answered from the catalog.  `LoggedInv`: what the catalog or an answer calls
committed is in some log.  `CommittedOnce` is a consequence that is far from
inductive: a commit keeps it only because the batch was claimed from the lookup in
the catalog until its projection, and a barrier that fails after its record must
keep the claim (`requires_identity_quarantine`).  `AnswersHold` needs `TapeInv`
through the barrier and `ToldInv` through a failure, where a batch that is answered
as failed must not be in the log.  There is one lemma per action; most reduce to
`Step` (a step that claims nothing and logs no object), `CommitsStep` (a batch
enters the log) or `RestsStep` (the session is left between batches), and
`RestartStep` treats all tapes at once.  The invariant was first checked by TLC on
the bounds of the run `batches`.

`Readmitted` needs a second invariant, `TailsInv`, on top of `SessionInv`.  The
record of an ending names the files behind the log and how many of them a barrier
covered, but a drive that fails may keep any number of the others, cut the last one
short, or present again the files that unsynchronized ones were written over.
`Accounted` lists what the tape may then hold behind its log: the named files, all
of the synchronized ones and any number of the rest (`Named`); those, written over
a tail that the admission proved and that may come back (`OverProved`); the
closeout that is due, whole or in half, over the named files or over an earlier
closeout (`ClosingOut`); or the proved tail, untouched (`Proved`).  `TailInv` says
that this holds of the log's record once the session has ended, and of the
session's own evidence from the moment it is about to end, and which position and
barrier each earlier step has, so that the evidence is right when a failure makes
it the ending.  `RemainsAccounted` shows that `Accounted` survives any loss the
drive may cause, `SyncedAccounted` a barrier, `CloseoutAccounted` a closeout
written over it, and `AccountedAdmitted` that the admission accepts each of the
four.  No disjunct can be left out; for one, an admission that proves a tail and writes
over it without a barrier may meet the old tail at the next opening.  TLC checked
`TailsInv` first, on one tape with three objects, eight events and four faults,
with parity and without.

**Only model-checked.**
* Liveness: `WakeHonoured`, `DebtServed`, `AcceptedIsSealed`, `BatchEnds`,
  `PauseEnds`, `AppendEnds`.  Liveness under fairness is outside this prover, as are
  induction over data and recursive operators.
* The four runs that show findings.

## 6. Plan

Every safety invariant, action property and refinement that the passing runs check
is also a theorem; liveness stays with TLC.  What could be added next is the
media-write gate of section 7, once it is related to the state that `WriteSession`
keeps of a load.

## 7. Not modelled

* *Shared I/O memory*: one counter behind a compare-exchange loop; a model would
  restate it.
* *Drive pool, mounting, readiness and robotics*: `CloseoutWork` has their
  reservations as far as the work list meets them.  The rest is dominated by
  device behaviour (SCSI sense data, changer inventories) that the repository
  does not fix, so a model would check assumptions about hardware.
* *Media-write gate*: a durable epoch before the first modifying command of a
  load; its calibration data has no other relation to the modelled state.
* *Parity encoding and recovery, pool selection, read order*: arithmetic and
  search over data.  The layout that the log must account for is in
  `TapeLogFold`.
* *Byte formats, cryptography, SQLite rows and queries, audit records, SCSI
  transport, the command line and the recovery tool*: I/O, encodings or rendering.
  They are the bulk of the repository's lines, which is why the mapped share of
  it is small.
