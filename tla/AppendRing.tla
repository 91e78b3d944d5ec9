------------------------------- MODULE AppendRing -------------------------------
(***************************************************************************)
(* One overlap append: a client's stream is received into a bounded ring of *)
(* slabs (crates/remanence-api/src/append_ring.rs) by an asynchronous task  *)
(* (receive_overlap_messages, write_session_ingress.rs) while the drive's   *)
(* thread reads it and writes tape blocks behind a high/low-water gate      *)
(* (pool_write/overlap.rs).  The RPC handler (append_object_overlap) starts *)
(* both and joins them.                                                     *)
(*                                                                         *)
(* Bytes are counted, not stored.  A slab enters the channel only when it   *)
(* is full or is the last one, so a channel of queued slabs that holds b    *)
(* bytes delivers Min(b, slab) bytes next.                                  *)
(***************************************************************************)
EXTENDS Integers

CONSTANTS
    APPEND_RING_SLAB_BYTES,
    AppendRingBytes,   \* daemon.append_ring_bytes
    HighPct, LowPct,   \* daemon.append_ring_high_pct, append_ring_low_pct
    Sizes,             \* declared sizes of the objects a client may send
    Gates,             \* kinds of tape: TRUE without parity, FALSE with it
    Block,             \* tape block (chunk_size) of the object writer
    MaxChunk           \* largest chunk of the client's stream

(* What config.rs validates, and overlap_append_eligible. *)
ASSUME RingAssumption ==
    /\ APPEND_RING_SLAB_BYTES \in Nat \ {0}
    /\ AppendRingBytes \in Nat \ {0}
    /\ LowPct \in Nat \ {0} /\ HighPct \in Nat
    /\ LowPct < HighPct /\ HighPct <= 100
    /\ Sizes \subseteq Nat \ {0}
    /\ Gates \subseteq BOOLEAN
    /\ Block \in Nat \ {0}
    /\ MaxChunk \in Nat \ {0}

Least(a, b) == IF a <= b THEN a ELSE b
Most(a, b) == IF a >= b THEN a ELSE b

VARIABLES
    declared,   \* declared_size_bytes of the object
    gated,      \* its blocks pass OverlapBlockSink: a tape without parity
    data,       \* producer: bytes of the received chunk not yet in a slab
    pushed,     \* bytes put into slabs
    held,       \* bytes in the producer's open slab; 0 when it has none
    sent,       \* bytes sent into the channel
    queued,     \* slabs in the channel
    last,       \* the message behind them: none, complete, error
    slots,      \* free permits of the slot semaphore
    loaded,     \* the consumer has a current slab
    taken,      \* bytes taken out of the channel
    consumed,   \* bytes read
    occupancy,  \* RingState.occupancy_bytes
    finished,   \* RingState.producer_finished
    failure,    \* RingState.failure is set
    verified,   \* length, shape and digest of the stream have passed
    buffer,     \* bytes the object writer holds for its next block
    started,    \* OverlapBlockSink.write_started
    producer,   \* the receive task
    consumer,   \* the object writer on the drive's thread
    receipt,    \* what the handler has of the object: none, written, durable, error
    handler     \* the RPC

(* create_append_ring: the ring is no larger than the object, in slabs. *)
Rounded == ((declared + APPEND_RING_SLAB_BYTES - 1) \div APPEND_RING_SLAB_BYTES)
             * APPEND_RING_SLAB_BYTES
Reserved == Least(AppendRingBytes, Rounded)
slab_bytes == Least(Reserved, APPEND_RING_SLAB_BYTES)
slab_count == Reserved \div slab_bytes
capacity_bytes == slab_count * slab_bytes
high_bytes == Most(1, Least((capacity_bytes * HighPct) \div 100, declared))
low_bytes == Least((capacity_bytes * LowPct) \div 100, high_bytes - 1)

object == <<declared, gated>>
control == <<occupancy, finished, failure>>
channel == <<sent, queued, last, slots>>
rpc == <<receipt, handler>>
vars == <<object, data, pushed, held, channel, loaded, taken, consumed, control,
          verified, buffer, started, producer, consumer, rpc>>

(* The object writer has written nothing yet; its first block is a header   *)
(* block, because payload starts on a block boundary.                       *)
Init ==
    /\ declared \in Sizes /\ gated \in Gates
    /\ data = 0 /\ pushed = 0 /\ held = 0
    /\ sent = 0 /\ queued = 0 /\ last = "none" /\ slots = slab_count
    /\ loaded = FALSE /\ taken = 0 /\ consumed = 0
    /\ occupancy = 0 /\ finished = FALSE /\ failure = FALSE
    /\ verified = FALSE
    /\ buffer = Block /\ started = FALSE
    /\ producer = "receiving"
    /\ consumer = "waiting"
    /\ receipt = "none" /\ handler = "prefill"

(* The receiver half of the channel is gone. *)
Closed == consumer \in {"done", "failed", "replayed"}

(* The sender half of the channel is gone. *)
Hungup == producer \in {"finished", "aborted"}

(* tx.send waits for one of slab_count places. *)
Room == queued + (IF last = "none" THEN 0 ELSE 1) < slab_count

--------------------------------------------------------------------------------
(* The receive task: AppendRingProducer under receive_overlap_messages. *)

(* A chunk of the stream arrives; one beyond the declared size is refused   *)
(* by Invalid.                                                              *)
ReceiveChunk(n) ==
    /\ producer = "receiving" /\ data = 0
    /\ pushed + n <= declared
    /\ data' = n
    /\ UNCHANGED <<object, pushed, held, channel, loaded, taken, consumed,
                   control, verified, buffer, started, producer, consumer,
                   rpc>>

(* Mutant: a full slab is sent at once. *)
SendsAtOnce == producer = "receiving" /\ held = slab_bytes
(* push sends a full slab only when there is more to put into the next. *)
SendsHeld == producer = "receiving" /\ held = slab_bytes /\ data > 0

(* A send to a closed channel drops the slab and ends the receive.          *)
send_held ==
    /\ SendsHeld \/ (producer = "finishing" /\ held > 0)
    /\ \/ /\ ~Closed /\ Room
          /\ sent' = sent + held
          /\ queued' = queued + 1
          /\ UNCHANGED <<slots, producer>>
       \/ /\ Closed
          /\ slots' = slots + 1
          /\ producer' = IF producer = "finishing" THEN "aborted" ELSE "refused"
          /\ UNCHANGED <<sent, queued>>
    /\ held' = 0
    /\ UNCHANGED <<object, data, pushed, last, loaded, taken, consumed, control,
                   verified, buffer, started, consumer, rpc>>

add_occupancy(bytes) == occupancy + bytes

(* Mutant: bytes that are read stay counted. *)
ConsumeNothing(bytes) == occupancy
consume(bytes) == occupancy - bytes

(* Mutant: a chunk goes into one slab, whatever its size. *)
WholeChunk == data
Available == Least(slab_bytes - held, data)

(* push: fill the open slab, after empty_slab has waited for a slot. *)
push ==
    /\ producer = "receiving" /\ data > 0
    /\ held < slab_bytes
    /\ held = 0 => slots > 0
    /\ held' = held + Available
    /\ pushed' = pushed + Available
    /\ data' = data - Available
    /\ occupancy' = add_occupancy(Available)
    /\ slots' = IF held = 0 THEN slots - 1 ELSE slots
    /\ UNCHANGED <<object, sent, queued, last, loaded, taken, consumed,
                   finished, failure, verified, buffer, started, producer,
                   consumer, rpc>>

(* The stream ends with a Finish; count, shape and digests agree. *)
StreamVerified ==
    /\ producer = "receiving" /\ data = 0
    /\ pushed = declared
    /\ verified' = TRUE
    /\ producer' = "finishing"
    /\ UNCHANGED <<object, data, pushed, held, channel, loaded, taken, consumed,
                   control, buffer, started, consumer, rpc>>

(* Anything else the client sends or fails to send: a bad length, shape or  *)
(* digest, a broken stream, or silence until the ingress deadline.          *)
StreamInvalid ==
    /\ producer = "receiving" /\ data = 0
    /\ producer' = "refused"
    /\ UNCHANGED <<object, data, pushed, held, channel, loaded, taken, consumed,
                   control, verified, buffer, started, consumer, rpc>>

(* finish: the withheld slab is sent by send_held, then Complete. *)
SendComplete ==
    /\ producer = "finishing" /\ held = 0
    /\ \/ /\ ~Closed /\ Room
          /\ last' = "complete"
          /\ producer' = "completing"
       \/ /\ Closed
          /\ producer' = "aborted"
          /\ UNCHANGED last
    /\ UNCHANGED <<object, data, pushed, held, sent, queued, slots, loaded,
                   taken, consumed, control, verified, buffer, started,
                   consumer, rpc>>

finish_producer ==
    /\ producer = "completing"
    /\ finished' = TRUE
    /\ producer' = "finished"
    /\ UNCHANGED <<object, data, pushed, held, channel, loaded, taken, consumed,
                   occupancy, failure, verified, buffer, started, consumer,
                   rpc>>

(* abort: the failure first, then the withheld slab, then the message. *)
AbortFails ==
    /\ producer = "refused"
    /\ failure' = TRUE
    /\ producer' = "failing"
    /\ UNCHANGED <<object, data, pushed, held, channel, loaded, taken, consumed,
                   occupancy, finished, verified, buffer, started, consumer,
                   rpc>>

AbortDrops ==
    /\ producer = "failing" /\ held > 0
    /\ occupancy' = consume(held)
    /\ held' = 0
    /\ slots' = slots + 1
    /\ UNCHANGED <<object, data, pushed, sent, queued, last, loaded, taken,
                   consumed, finished, failure, verified, buffer, started,
                   producer, consumer, rpc>>

SendError ==
    /\ producer = "failing" /\ held = 0
    /\ Closed \/ Room
    /\ last' = IF Closed THEN last ELSE "error"
    /\ producer' = "aborted"
    /\ UNCHANGED <<object, data, pushed, held, sent, queued, slots, loaded,
                   taken, consumed, control, verified, buffer, started,
                   consumer, rpc>>

Receive ==
    \/ \E n \in 1..MaxChunk : ReceiveChunk(n)
    \/ send_held \/ push
    \/ StreamVerified \/ StreamInvalid
    \/ SendComplete \/ finish_producer
    \/ AbortFails \/ AbortDrops \/ SendError

--------------------------------------------------------------------------------
(* The object writer: AppendRingConsumer::read, and blocks through          *)
(* OverlapBlockSink::write_block.  A parity session writes its blocks       *)
(* without that gate.                                                       *)

WantsPayload == consumer = "writing" /\ buffer < Block /\ consumed < declared
WantsBlock == consumer = "writing" /\ ~WantsPayload

(* The consumer is dropped: its slab and the queued ones return their slots. *)
DropConsumer(how) ==
    /\ consumer' = how
    /\ slots' = slots + queued + (IF loaded THEN 1 ELSE 0)
    /\ queued' = 0
    /\ loaded' = FALSE
    /\ last' = "none"
    /\ UNCHANGED sent

(* stream_file_payload asks for a block at a time; read gives what is left  *)
(* of the current slab.                                                     *)
ReadCurrent ==
    /\ WantsPayload
    /\ loaded /\ taken > consumed
    /\ LET take == Least(Least(Block, declared - consumed), taken - consumed)
       IN /\ consumed' = consumed + take
          /\ occupancy' = consume(take)
          /\ buffer' = buffer + take
    /\ UNCHANGED <<object, data, pushed, held, channel, loaded, taken, finished,
                   failure, verified, started, producer, consumer, rpc>>

(* Mutant: the drained slab keeps its slot. *)
RecycledSlotLeaks == slots
RecycledSlot == slots + 1

(* A drained slab is recycled by the read that follows it. *)
Recycle ==
    /\ WantsPayload
    /\ loaded /\ taken = consumed
    /\ loaded' = FALSE
    /\ slots' = RecycledSlot
    /\ UNCHANGED <<object, data, pushed, held, sent, queued, last, taken,
                   consumed, control, verified, buffer, started, producer,
                   consumer, rpc>>

TakeSlab ==
    /\ WantsPayload
    /\ ~loaded /\ queued > 0
    /\ loaded' = TRUE
    /\ taken' = taken + Least(slab_bytes, sent - taken)
    /\ queued' = queued - 1
    /\ UNCHANGED <<object, data, pushed, held, sent, last, slots, consumed,
                   control, verified, buffer, started, producer, consumer,
                   rpc>>

(* The channel holds the error, or only a hung-up sender. *)
ReadFails ==
    /\ WantsPayload
    /\ ~loaded /\ queued = 0
    /\ last = "error" \/ (last = "none" /\ Hungup)
    /\ DropConsumer("failed")
    /\ UNCHANGED <<object, data, pushed, held, taken, consumed, control,
                   verified, buffer, started, producer, rpc>>

prefill_satisfied == ~failure /\ (occupancy >= high_bytes \/ finished)

(* Mutant: no pause once every byte has arrived. *)
PausesForBytes ==
    pushed < declared /\ ~finished /\ ~failure /\ occupancy <= low_bytes
should_pause == ~finished /\ ~failure /\ occupancy <= low_bytes

(* The block goes to the drive.  The last one (file padding, manifest, tar  *)
(* end) follows the payload, and ends the writer.                           *)
BlockWritten ==
    /\ started' = TRUE
    /\ IF buffer >= Block
         THEN /\ buffer' = buffer - Block
              /\ consumer' = "writing"
              /\ UNCHANGED <<channel, loaded>>
         ELSE /\ UNCHANGED buffer
              /\ DropConsumer("done")
    /\ UNCHANGED <<object, data, pushed, held, taken, consumed, control,
                   verified, producer, rpc>>

write_block ==
    /\ WantsBlock
    /\ gated => IF started THEN ~failure /\ ~should_pause ELSE prefill_satisfied
    /\ BlockWritten

(* The first-block gate or a failed source refuses the block before it      *)
(* reaches the drive; so does a failure that ends the pause.                *)
BlockRefused ==
    /\ gated
    /\ \/ WantsBlock /\ (failure \/ (~started /\ ~prefill_satisfied))
       \/ consumer = "paused" /\ failure
    /\ DropConsumer("failed")
    /\ UNCHANGED <<object, data, pushed, held, taken, consumed, control,
                   verified, buffer, started, producer, rpc>>

pause_if_low ==
    /\ WantsBlock
    /\ gated /\ started /\ should_pause
    /\ consumer' = "paused"
    /\ UNCHANGED <<object, data, pushed, held, channel, loaded, taken, consumed,
                   control, verified, buffer, started, producer, rpc>>

(* Mutant: a finished producer does not end the pause. *)
ResumesWhenHigh == occupancy >= high_bytes
Resumes == occupancy >= high_bytes \/ finished

wait_for_resume ==
    /\ consumer = "paused"
    /\ ~failure /\ Resumes
    /\ BlockWritten

(* The drive refuses a command (external). *)
TapeFails ==
    /\ consumer = "writing"
    /\ DropConsumer("failed")
    /\ UNCHANGED <<object, data, pushed, held, taken, consumed, control,
                   verified, buffer, started, producer, rpc>>

Write ==
    \/ ReadCurrent \/ Recycle \/ TakeSlab \/ ReadFails
    \/ write_block \/ BlockRefused \/ pause_if_low \/ wait_for_resume

--------------------------------------------------------------------------------
(* The handler. *)

(* The receive task is dropped, and its open slab with it. *)
AbortTask ==
    /\ producer' = IF Hungup THEN producer ELSE "aborted"
    /\ held' = 0
    /\ UNCHANGED data

(* wait_for_prefill succeeds: the source goes to the drive's actor. *)
PrefillDone ==
    /\ handler = "prefill" /\ consumer = "waiting"
    /\ prefill_satisfied
    /\ handler' = "append"
    /\ consumer' = "writing"
    /\ UNCHANGED <<object, data, pushed, held, channel, loaded, taken, consumed,
                   control, verified, buffer, started, producer, receipt>>

(* wait_for_prefill fails: the handler joins the receive task, holding a    *)
(* consumer that nobody reads, and drops it when it returns.                *)
PrefillFailed ==
    /\ handler = "prefill"
    /\ failure
    /\ handler' = "joining"
    /\ UNCHANGED <<object, data, pushed, held, channel, loaded, taken, consumed,
                   control, verified, buffer, started, producer, consumer, receipt>>

(* The actor has the object already, in its batch or in the catalog: it     *)
(* drops the source unread.                                                 *)
Replayed ==
    /\ handler = "append" /\ consumer = "writing" /\ ~started
    /\ DropConsumer("replayed")
    /\ UNCHANGED <<object, data, pushed, held, taken, consumed, control,
                   verified, buffer, started, producer, rpc>>

(* A durable object that was written here is answered when its receive task *)
(* has ended, and so is an error that the task may explain; otherwise the   *)
(* task is aborted.                                                         *)
Joins(r) == IF r = "durable" THEN consumer = "done" ELSE Hungup \/ failure

Conclude(r, joins) ==
    /\ receipt' = r
    /\ IF joins
         THEN /\ handler' = "joining"
              /\ UNCHANGED <<data, held, slots, producer>>
         ELSE /\ handler' = IF r = "durable" THEN "ok" ELSE "failed"
              /\ AbortTask
              /\ slots' = slots + (IF held > 0 THEN 1 ELSE 0)
    /\ UNCHANGED <<object, pushed, sent, queued, last, loaded, taken, consumed,
                   control, verified, buffer, started, consumer>>

(* What the actor may say of an object: of one it wrote also that the       *)
(* barrier its batch needed, or the next append's context, failed.          *)
Outcomes == CASE consumer = "done" -> {"written", "durable", "error"}
              [] consumer = "replayed" -> {"written", "durable"}
              [] OTHER -> {"error"}

(* The actor has answered; an object that is only written is checkpointed.  *)
AppendDone ==
    /\ handler = "append" /\ Closed
    /\ \E r \in Outcomes :
          IF r = "written"
            THEN /\ receipt' = r /\ handler' = "checkpoint"
                 /\ UNCHANGED <<object, data, pushed, held, channel, loaded, taken,
                                consumed, control, verified, buffer, started,
                                producer, consumer>>
            ELSE Conclude(r, Joins(r))

(* checkpoint_write_session has returned, and a barrier has left a receipt  *)
(* of the object, or none has: then the task is aborted at once.            *)
CheckpointDone ==
    /\ handler = "checkpoint"
    /\ \E r \in {"durable", "error"} : Conclude(r, r = "durable" /\ Joins(r))

Joined ==
    /\ handler = "joining" /\ Hungup
    /\ handler' = IF receipt = "durable" /\ producer = "finished" THEN "ok" ELSE "failed"
    /\ IF consumer = "waiting" THEN DropConsumer("failed")
       ELSE UNCHANGED <<channel, loaded, consumer>>
    /\ UNCHANGED <<object, data, pushed, held, taken, consumed, control,
                   verified, buffer, started, producer, receipt>>

Handle == PrefillDone \/ PrefillFailed \/ AppendDone \/ CheckpointDone \/ Joined

(* The client goes away: the handler is dropped, and OverlapReceiveGuard    *)
(* fails the ring before it aborts the receive task.                        *)
Disconnect ==
    /\ handler \in {"prefill", "append", "checkpoint", "joining"}
    /\ handler' = "gone"
    /\ failure' = TRUE
    /\ AbortTask
    /\ IF consumer = "waiting"
         THEN /\ consumer' = "failed"
              /\ slots' = slots + queued + (IF held > 0 THEN 1 ELSE 0)
              /\ queued' = 0 /\ last' = "none"
         ELSE /\ slots' = slots + (IF held > 0 THEN 1 ELSE 0)
              /\ UNCHANGED <<consumer, queued, last>>
    /\ UNCHANGED <<object, pushed, sent, loaded, taken, consumed, occupancy,
                   finished, verified, buffer, started, receipt>>

(* Both halves and the handler have ended. *)
Ended == handler \in {"ok", "failed", "gone"} /\ Closed /\ Hungup
Stopped == Ended /\ UNCHANGED vars

Next == Receive \/ Write \/ Handle \/ TapeFails \/ Replayed \/ Disconnect \/ Stopped

Spec == Init /\ [][Next]_vars

(* The runtime polls the receive task and the handler, and the drive's      *)
(* thread runs.  Receive includes the ingress deadline, so a silent client  *)
(* does not stop it.  Nothing makes a client disconnect or a tape fail.     *)
Fairness == WF_vars(Receive) /\ WF_vars(Write) /\ WF_vars(Handle)
FairSpec == Spec /\ Fairness

--------------------------------------------------------------------------------
(* Properties *)

(* Counters stay in their ranges: no slab overflows, nothing is read before *)
(* it is sent or sent before it is pushed.                                  *)
TypeOK ==
    /\ declared \in Sizes /\ gated \in Gates
    /\ data \in 0..MaxChunk /\ pushed \in 0..declared
    /\ held \in 0..slab_bytes
    /\ queued \in 0..slab_count /\ slots \in 0..slab_count
    /\ consumed \in 0..taken /\ taken \in 0..sent /\ sent \in 0..pushed
    /\ last \in {"none", "complete", "error"}
    /\ {loaded, finished, failure, verified, started} \subseteq BOOLEAN
    /\ buffer \in 0..(2 * Block)
    /\ producer \in {"receiving", "finishing", "completing", "finished", "refused",
                     "failing", "aborted"}
    /\ consumer \in {"waiting", "writing", "paused", "done", "failed", "replayed"}
    /\ receipt \in {"none", "written", "durable", "error"}
    /\ handler \in {"prefill", "append", "checkpoint", "joining", "ok", "failed", "gone"}

(* While both halves of the ring live, the occupancy is what was pushed and *)
(* not yet read, within the capacity the memory reservation paid for; the   *)
(* high and low marks are compared with this number.  (A dropped consumer   *)
(* leaves the bytes it had queued counted.)                                 *)
OccupancyExact ==
    ~failure /\ ~Closed => /\ occupancy = pushed - consumed
                           /\ occupancy \in 0..capacity_bytes

(* Every slot of the semaphore is free, or in exactly one place: the open   *)
(* slab, the channel, or the consumer's current slab.  A lost one shrinks   *)
(* the ring for good.                                                       *)
SlotsConserved ==
    slots + queued + (IF held > 0 THEN 1 ELSE 0) + (IF loaded THEN 1 ELSE 0)
      = slab_count

(* "The final slab is withheld until the exact byte count, stream shape,    *)
(* receiver digest, and Finish digest pass" (write_session_ingress.rs): the *)
(* object writer never completes an unverified object, or even sees its     *)
(* last byte.                                                               *)
FinalSlabWithheld ==
    /\ taken = declared => verified
    /\ consumer = "done" => verified /\ consumed = declared

(* "A closed ring is a consequence of the consumer failure"                 *)
(* (write_session_ingress.rs): an object of which the handler has a durable *)
(* receipt is not answered with the receive task's complaint that its ring  *)
(* is closed.  The gate sees to this: its low-water pause keeps the writer  *)
(* from ending before the receive task has finished.  A parity session has  *)
(* no such pause.                                                           *)
DurableIsAnswered == gated /\ receipt = "durable" => handler # "failed"

(* A pause ends: the ring refills to the high-water mark, the producer      *)
(* finishes, or the source fails                                            *)
(* (docs/reference-configuration.md, append_ring_high_pct).                 *)
PauseEnds == consumer = "paused" ~> consumer # "paused"

(* Every append is answered, and leaves neither half of its ring behind,    *)
(* whatever the client sends and wherever the tape fails.                   *)
AppendEnds == <>Ended

================================================================================
