--------------------------- MODULE AppendRingProofs ---------------------------
(***************************************************************************)
(* Proofs about AppendRing: the safety of one overlap append for every     *)
(* size of object, slab, ring, block and chunk, and every pair of marks.   *)
(***************************************************************************)
EXTENDS AppendRing, TLAPS

One(b) == IF b THEN 1 ELSE 0

(* Counters never pass one another: read, taken, sent, pushed, declared. *)
CountersInv ==
    /\ declared \in Nat \ {0} /\ declared \in Sizes
    /\ data \in 0..MaxChunk
    /\ pushed \in Nat /\ held \in Nat /\ sent \in Nat
    /\ taken \in Nat /\ consumed \in Nat /\ occupancy \in Int
    /\ buffer \in 0..(2 * Block)
    /\ pushed + data <= declared
    /\ sent + held <= pushed
    /\ taken <= sent /\ consumed <= taken
    /\ held <= slab_bytes

FlagsInv ==
    /\ gated \in BOOLEAN /\ gated \in Gates
    /\ loaded \in BOOLEAN /\ finished \in BOOLEAN /\ failure \in BOOLEAN
    /\ verified \in BOOLEAN /\ started \in BOOLEAN
    /\ last \in {"none", "complete", "error"}
    /\ producer \in {"receiving", "finishing", "completing", "finished", "refused",
                     "failing", "aborted"}
    /\ consumer \in {"waiting", "writing", "paused", "done", "failed", "replayed"}
    /\ receipt \in {"none", "written", "durable", "error"}
    /\ handler \in {"prefill", "append", "checkpoint", "joining", "ok", "failed", "gone"}

SlotsInv ==
    /\ queued \in Nat /\ slots \in Nat
    /\ SlotsConserved

(* A consumer that has not written a block has taken nothing, and its first *)
(* block is ready; one that waits to write has a block or is at the end.    *)
WriterInv ==
    /\ consumer = "waiting" => ~started
    /\ ~started /\ ~Closed => consumer # "paused" /\ ~loaded /\ buffer = Block
    /\ consumer = "paused" => gated /\ (buffer >= Block \/ consumed = declared)

(* Nothing the channel delivers completes an unverified object. *)
VerifiedInv ==
    /\ ~verified => sent < declared
    /\ producer \in {"finishing", "completing", "finished"} => verified
    /\ finished => producer = "finished"
    /\ producer = "failing" => failure
    /\ consumer = "done" => verified /\ consumed = declared
    /\ consumer = "done" /\ gated => finished

(* While the ring lives, every byte is counted, and lies in the open slab,  *)
(* in one of the queued slabs, or in the slab being read.                   *)
LiveInv ==
    ~Closed =>
      /\ ~failure => occupancy = pushed - consumed /\ pushed = sent + held
      /\ sent - taken <= queued * slab_bytes
      /\ taken - consumed <= One(loaded) * slab_bytes

(* The handler joins only an idle or a closed consumer, and checkpoints a   *)
(* written one; a durable receipt it joins on was written here.             *)
HandlerInv ==
    /\ handler = "prefill" => consumer = "waiting"
    /\ handler \in {"joining", "ok", "failed"} => Closed \/ consumer = "waiting"
    /\ handler \in {"ok", "failed"} => Closed
    /\ handler = "checkpoint" => consumer \in {"done", "replayed"}
    /\ receipt = "durable" => consumer \in {"done", "replayed"}
    /\ receipt = "durable" /\ handler = "joining" => consumer = "done"
    /\ DurableIsAnswered

RingInv == /\ CountersInv /\ FlagsInv /\ SlotsInv /\ WriterInv /\ VerifiedInv
           /\ LiveInv /\ HandlerInv

--------------------------------------------------------------------------------

(* A ring has at least one slab of at least one byte; its low mark is       *)
(* below its high mark, and neither is negative (create_append_ring,        *)
(* AppendRingControl::new).                                                 *)
LEMMA RingShape ==
    ASSUME declared \in Nat \ {0}
    PROVE  /\ slab_bytes \in Nat \ {0}
           /\ slab_count \in Nat
           /\ capacity_bytes = slab_count * slab_bytes
           /\ high_bytes \in Nat \ {0}
           /\ low_bytes \in Nat
<1>1. Rounded \in Nat \ {0}
  <2> DEFINE q == (declared + APPEND_RING_SLAB_BYTES - 1) \div APPEND_RING_SLAB_BYTES
  <2>1. q \in Nat /\ q >= 1
    BY RingAssumption
  <2>2. Rounded = q * APPEND_RING_SLAB_BYTES
    BY DEF Rounded
  <2> HIDE DEF q
  <2> QED BY <2>1, <2>2, RingAssumption
<1>2. Reserved \in Nat \ {0}
  BY <1>1, RingAssumption DEF Reserved, Least
<1>3. slab_bytes \in Nat \ {0}
  BY <1>2, RingAssumption DEF slab_bytes, Least
<1>4. slab_count \in Nat
  BY <1>2, <1>3 DEF slab_count
<1>5. capacity_bytes \in Nat
  BY <1>3, <1>4 DEF capacity_bytes
<1>6. high_bytes \in Nat \ {0}
  BY <1>5, RingAssumption DEF high_bytes, Least, Most
<1>7. low_bytes \in Nat
  BY <1>5, <1>6, RingAssumption DEF low_bytes, Least
<1> QED BY <1>3, <1>4, <1>6, <1>7 DEF capacity_bytes

(* The object, and with it the shape of its ring, is fixed. *)
LEMMA ShapeKept ==
    ASSUME UNCHANGED object
    PROVE  /\ declared' = declared /\ gated' = gated
           /\ slab_bytes' = slab_bytes /\ slab_count' = slab_count
BY DEF object, slab_bytes, slab_count, Reserved, Rounded, Least

(* What every step needs of the shape. *)
LEMMA Shape ==
    ASSUME RingInv, UNCHANGED object
    PROVE  /\ declared' = declared /\ gated' = gated
           /\ slab_bytes' = slab_bytes /\ slab_count' = slab_count
           /\ slab_bytes \in Nat \ {0} /\ slab_count \in Nat
           /\ low_bytes \in Nat /\ high_bytes \in Nat \ {0}
BY ShapeKept, RingShape DEF RingInv, CountersInv

(* The invariant holds when create_append_ring returns. *)
LEMMA InitInv == Init => RingInv
<1> SUFFICES ASSUME Init PROVE RingInv
  OBVIOUS
<1>1. declared \in Nat \ {0}
  BY RingAssumption DEF Init
<1>2. slab_bytes \in Nat \ {0} /\ slab_count \in Nat
  BY <1>1, RingShape
<1>3. CountersInv
  BY <1>1, <1>2, RingAssumption DEF Init, CountersInv
<1>4. FlagsInv
  BY RingAssumption DEF Init, FlagsInv
<1>5. SlotsInv
  BY <1>2 DEF Init, SlotsInv, SlotsConserved
<1>6. WriterInv /\ VerifiedInv /\ HandlerInv
  BY <1>1 DEF Init, WriterInv, VerifiedInv, HandlerInv, Closed, DurableIsAnswered
<1>7. LiveInv
  BY <1>2 DEF Init, LiveInv, One
<1> QED BY <1>3, <1>4, <1>5, <1>6, <1>7 DEF RingInv

(* A received chunk fits what is left of the declared size                  *)
(* (receive_overlap_messages).                                              *)
LEMMA ReceiveChunkStep ==
    ASSUME RingInv, NEW n \in 1..MaxChunk, ReceiveChunk(n)
    PROVE  RingInv'
<1>1. UNCHANGED object
  BY DEF ReceiveChunk
<1>2. CountersInv' /\ FlagsInv' /\ SlotsInv' /\ WriterInv' /\ VerifiedInv'
      /\ LiveInv' /\ HandlerInv'
  BY <1>1, Shape DEF RingInv, CountersInv, FlagsInv, SlotsInv, SlotsConserved,
       WriterInv, VerifiedInv, LiveInv, One, HandlerInv, DurableIsAnswered,
       Closed, ReceiveChunk, channel, control, object, rpc
<1> QED
  BY <1>2 DEF RingInv

(* A sent slab leaves the open place for the channel, and one byte of the   *)
(* object stays behind (send_held).                                         *)
LEMMA SendHeldStep ==
    ASSUME RingInv, send_held
    PROVE  RingInv'
<1>1. UNCHANGED object
  BY DEF send_held
<1>2. SlotsInv'
  BY <1>1, Shape DEF RingInv, SlotsInv, SlotsConserved, send_held, SendsHeld
<1>3. VerifiedInv'
  BY <1>1 DEF RingInv, CountersInv, VerifiedInv, send_held, SendsHeld,
       control, object
<1>4. LiveInv'
  BY <1>1, Shape DEF RingInv, CountersInv, SlotsInv, SlotsConserved, LiveInv,
       One, Closed, send_held, control
<1>5. CountersInv' /\ FlagsInv' /\ WriterInv' /\ HandlerInv'
  BY <1>1, Shape DEF RingInv, CountersInv, FlagsInv, WriterInv, HandlerInv,
       DurableIsAnswered, Closed, send_held, control, object, rpc
<1> QED
  BY <1>2, <1>3, <1>4, <1>5 DEF RingInv

(* Bytes go into the open slab and into the occupancy alike; a new slab     *)
(* costs a slot (push).                                                     *)
LEMMA PushStep ==
    ASSUME RingInv, push
    PROVE  RingInv'
<1>1. UNCHANGED object
  BY DEF push
<1>2. CountersInv'
  BY <1>1, Shape, RingAssumption DEF RingInv, CountersInv, push, Available,
       add_occupancy, Least
<1>3. SlotsInv'
  BY <1>1, Shape DEF RingInv, CountersInv, SlotsInv, SlotsConserved, push,
       Available, Least
<1>4. LiveInv'
  BY <1>1, Shape DEF RingInv, CountersInv, LiveInv, One, Closed, push,
       Available, add_occupancy, Least
<1>5. FlagsInv' /\ WriterInv' /\ VerifiedInv' /\ HandlerInv'
  BY <1>1, Shape DEF RingInv, FlagsInv, WriterInv, VerifiedInv, HandlerInv,
       DurableIsAnswered, Closed, push, object, rpc
<1> QED
  BY <1>2, <1>3, <1>4, <1>5 DEF RingInv

(* The stream is verified before finish may send the rest                   *)
(* (receive_overlap_messages).                                              *)
LEMMA StreamVerifiedStep ==
    ASSUME RingInv, StreamVerified
    PROVE  RingInv'
<1>1. UNCHANGED object
  BY DEF StreamVerified
<1>2. CountersInv' /\ FlagsInv' /\ SlotsInv' /\ WriterInv' /\ VerifiedInv'
      /\ LiveInv' /\ HandlerInv'
  BY <1>1, Shape DEF RingInv, CountersInv, FlagsInv, SlotsInv, SlotsConserved,
       WriterInv, VerifiedInv, LiveInv, One, HandlerInv, DurableIsAnswered,
       Closed, StreamVerified, channel, control, object, rpc
<1> QED
  BY <1>2 DEF RingInv

(* A refused stream sends nothing more (next_append_message).               *)
LEMMA StreamInvalidStep ==
    ASSUME RingInv, StreamInvalid
    PROVE  RingInv'
<1>1. UNCHANGED object
  BY DEF StreamInvalid
<1>2. CountersInv' /\ FlagsInv' /\ SlotsInv' /\ WriterInv' /\ VerifiedInv'
      /\ LiveInv' /\ HandlerInv'
  BY <1>1, Shape DEF RingInv, CountersInv, FlagsInv, SlotsInv, SlotsConserved,
       WriterInv, VerifiedInv, LiveInv, One, HandlerInv, DurableIsAnswered,
       Closed, StreamInvalid, channel, control, object, rpc
<1> QED
  BY <1>2 DEF RingInv

(* Complete follows the withheld slab (finish).                             *)
LEMMA SendCompleteStep ==
    ASSUME RingInv, SendComplete
    PROVE  RingInv'
<1>1. UNCHANGED object
  BY DEF SendComplete
<1>2. CountersInv' /\ FlagsInv' /\ SlotsInv' /\ WriterInv' /\ VerifiedInv'
      /\ LiveInv' /\ HandlerInv'
  BY <1>1, Shape DEF RingInv, CountersInv, FlagsInv, SlotsInv, SlotsConserved,
       WriterInv, VerifiedInv, LiveInv, One, HandlerInv, DurableIsAnswered,
       Closed, SendComplete, control, object, rpc
<1> QED
  BY <1>2 DEF RingInv

(* The flag is raised by a producer that has sent everything                *)
(* (finish_producer).                                                       *)
LEMMA FinishProducerStep ==
    ASSUME RingInv, finish_producer
    PROVE  RingInv'
<1>1. UNCHANGED object
  BY DEF finish_producer
<1>2. CountersInv' /\ FlagsInv' /\ SlotsInv' /\ WriterInv' /\ VerifiedInv'
      /\ LiveInv' /\ HandlerInv'
  BY <1>1, Shape DEF RingInv, CountersInv, FlagsInv, SlotsInv, SlotsConserved,
       WriterInv, VerifiedInv, LiveInv, One, HandlerInv, DurableIsAnswered,
       Closed, finish_producer, channel, object, rpc
<1> QED
  BY <1>2 DEF RingInv

(* A failure ends the accounting (fail).                                    *)
LEMMA AbortFailsStep ==
    ASSUME RingInv, AbortFails
    PROVE  RingInv'
<1>1. UNCHANGED object
  BY DEF AbortFails
<1>2. CountersInv' /\ FlagsInv' /\ SlotsInv' /\ WriterInv' /\ VerifiedInv'
      /\ LiveInv' /\ HandlerInv'
  BY <1>1, Shape DEF RingInv, CountersInv, FlagsInv, SlotsInv, SlotsConserved,
       WriterInv, VerifiedInv, LiveInv, One, HandlerInv, DurableIsAnswered,
       Closed, AbortFails, channel, object, rpc
<1> QED
  BY <1>2 DEF RingInv

(* An aborted slab returns its slot (abort).                                *)
LEMMA AbortDropsStep ==
    ASSUME RingInv, AbortDrops
    PROVE  RingInv'
<1>1. UNCHANGED object
  BY DEF AbortDrops
<1>2. CountersInv'
  BY <1>1, Shape DEF RingInv, CountersInv, AbortDrops, consume
<1>3. LiveInv'
  BY <1>1, Shape DEF RingInv, VerifiedInv, LiveInv, One, Closed, AbortDrops
<1>4. FlagsInv' /\ SlotsInv' /\ WriterInv' /\ VerifiedInv' /\ HandlerInv'
  BY <1>1, Shape DEF RingInv, FlagsInv, SlotsInv, SlotsConserved, WriterInv,
       VerifiedInv, HandlerInv, DurableIsAnswered, Closed, AbortDrops, object, rpc
<1> QED
  BY <1>2, <1>3, <1>4 DEF RingInv

(* The error message moves no bytes (abort).                                *)
LEMMA SendErrorStep ==
    ASSUME RingInv, SendError
    PROVE  RingInv'
<1>1. UNCHANGED object
  BY DEF SendError
<1>2. CountersInv' /\ FlagsInv' /\ SlotsInv' /\ WriterInv' /\ VerifiedInv'
      /\ LiveInv' /\ HandlerInv'
  BY <1>1, Shape DEF RingInv, CountersInv, FlagsInv, SlotsInv, SlotsConserved,
       WriterInv, VerifiedInv, LiveInv, One, HandlerInv, DurableIsAnswered,
       Closed, SendError, control, object, rpc
<1> QED
  BY <1>2 DEF RingInv

(* What is read leaves the slab and the occupancy                           *)
(* (AppendRingConsumer::read).                                              *)
LEMMA ReadCurrentStep ==
    ASSUME RingInv, ReadCurrent
    PROVE  RingInv'
<1>1. UNCHANGED object
  BY DEF ReadCurrent
<1>2. CountersInv'
  BY <1>1, Shape, RingAssumption DEF RingInv, CountersInv, ReadCurrent,
       WantsPayload, consume, Least, channel
<1>3. WriterInv'
  BY <1>1 DEF RingInv, WriterInv, Closed, ReadCurrent, WantsPayload
<1>4. VerifiedInv'
  BY <1>1 DEF RingInv, VerifiedInv, ReadCurrent, WantsPayload, channel, object
<1>5. LiveInv'
  BY <1>1, Shape, RingAssumption DEF RingInv, CountersInv, LiveInv, One,
       Closed, ReadCurrent, consume, Least, channel
<1>6. HandlerInv'
  BY <1>1 DEF RingInv, HandlerInv, DurableIsAnswered, Closed, ReadCurrent,
       WantsPayload, rpc
<1>7. FlagsInv' /\ SlotsInv'
  BY <1>1, Shape DEF RingInv, FlagsInv, SlotsInv, SlotsConserved, ReadCurrent,
       channel, object, rpc
<1> QED
  BY <1>2, <1>3, <1>4, <1>5, <1>6, <1>7 DEF RingInv

(* A drained slab returns its slot (AppendRingConsumer::read).              *)
LEMMA RecycleStep ==
    ASSUME RingInv, Recycle
    PROVE  RingInv'
<1>1. UNCHANGED object
  BY DEF Recycle
<1>2. CountersInv'
  BY <1>1, Shape DEF RingInv, CountersInv, Recycle, control
<1>3. FlagsInv'
  <2>1. UNCHANGED <<declared, gated, finished, failure, verified, started, last,
                    producer, consumer, receipt, handler>> /\ loaded' = FALSE
    BY <1>1 DEF Recycle, control, object, rpc
  <2>2. loaded' \in BOOLEAN
    BY <2>1, Zenon
  <2> QED BY <2>1, <2>2 DEF RingInv, FlagsInv
<1>4. SlotsInv'
  BY <1>1, Shape DEF RingInv, SlotsInv, SlotsConserved, Recycle, RecycledSlot
<1>5. WriterInv'
  BY <1>1 DEF RingInv, WriterInv, Closed, Recycle, WantsPayload
<1>6. VerifiedInv'
  BY <1>1 DEF RingInv, VerifiedInv, Recycle, control, object
<1>7. LiveInv'
  BY <1>1, Shape DEF RingInv, CountersInv, LiveInv, One, Closed, Recycle,
       control
<1>8. HandlerInv'
  BY <1>1 DEF RingInv, HandlerInv, DurableIsAnswered, Closed, Recycle,
       WantsPayload, rpc
<1> QED
  BY <1>2, <1>3, <1>4, <1>5, <1>6, <1>7, <1>8 DEF RingInv

(* The next slab holds at most slab_bytes of what was sent                  *)
(* (AppendRingConsumer::read).                                              *)
LEMMA TakeSlabStep ==
    ASSUME RingInv, TakeSlab
    PROVE  RingInv'
<1>1. UNCHANGED object
  BY DEF TakeSlab
<1>2. CountersInv'
  BY <1>1, Shape DEF RingInv, CountersInv, TakeSlab, Least, control
<1>3. WriterInv'
  BY <1>1, RingAssumption DEF RingInv, WriterInv, Closed, TakeSlab,
       WantsPayload
<1>4. LiveInv'
  BY <1>1, Shape DEF RingInv, CountersInv, SlotsInv, SlotsConserved, LiveInv,
       One, Closed, TakeSlab, Least, control
<1>5. HandlerInv'
  BY <1>1 DEF RingInv, HandlerInv, DurableIsAnswered, Closed, TakeSlab,
       WantsPayload, rpc
<1>6. FlagsInv' /\ SlotsInv' /\ VerifiedInv'
  BY <1>1, Shape DEF RingInv, FlagsInv, SlotsInv, SlotsConserved, VerifiedInv,
       TakeSlab, control, object, rpc
<1> QED
  BY <1>2, <1>3, <1>4, <1>5, <1>6 DEF RingInv

(* A failed read drops the consumer with its slabs                          *)
(* (AppendRingConsumer::read).                                              *)
LEMMA ReadFailsStep ==
    ASSUME RingInv, ReadFails
    PROVE  RingInv'
<1>1. UNCHANGED object
  BY DEF ReadFails
<1>2. CountersInv'
  BY <1>1, Shape DEF RingInv, CountersInv, ReadFails, DropConsumer, control
<1>3. FlagsInv'
  BY <1>1 DEF RingInv, FlagsInv, ReadFails, DropConsumer, control, object, rpc
<1>4. SlotsInv'
  BY <1>1, Shape DEF RingInv, SlotsInv, SlotsConserved, ReadFails,
       DropConsumer
<1>5. WriterInv'
  BY <1>1 DEF RingInv, WriterInv, Closed, ReadFails, DropConsumer
<1>6. VerifiedInv'
  BY <1>1 DEF RingInv, VerifiedInv, ReadFails, DropConsumer, control, object
<1>7. LiveInv'
  BY <1>1 DEF RingInv, LiveInv, One, Closed, ReadFails, DropConsumer
<1>8. HandlerInv'
  BY <1>1 DEF RingInv, HandlerInv, DurableIsAnswered, Closed, ReadFails,
       WantsPayload, rpc
<1> QED
  BY <1>2, <1>3, <1>4, <1>5, <1>6, <1>7, <1>8 DEF RingInv

(* The last block passes the gate only when the producer has finished, for  *)
(* the ring is empty then (write_block).                                    *)
LEMMA WriteBlockStep ==
    ASSUME RingInv, write_block
    PROVE  RingInv'
<1>1. UNCHANGED object
  BY DEF write_block, BlockWritten
<1>2. CountersInv'
  BY <1>1, Shape, RingAssumption DEF RingInv, CountersInv, write_block,
       BlockWritten, DropConsumer, channel, control
<1>3. FlagsInv'
  BY <1>1 DEF RingInv, FlagsInv, write_block, BlockWritten, DropConsumer,
       channel, control, object, rpc
<1>4. SlotsInv'
  BY <1>1, Shape DEF RingInv, SlotsInv, SlotsConserved, write_block,
       BlockWritten, DropConsumer, channel
<1>5. WriterInv'
  BY <1>1 DEF RingInv, WriterInv, write_block, BlockWritten, DropConsumer
<1>6. VerifiedInv'
  BY <1>1, Shape, RingAssumption DEF RingInv, CountersInv, VerifiedInv,
       LiveInv, One, Closed, write_block, WantsBlock, WantsPayload,
       BlockWritten, should_pause, prefill_satisfied, channel, control
<1>7. LiveInv'
  BY <1>1, Shape DEF RingInv, LiveInv, One, Closed, write_block, WantsBlock,
       BlockWritten, DropConsumer, channel, control
<1>8. HandlerInv'
  BY <1>1 DEF RingInv, HandlerInv, DurableIsAnswered, Closed, write_block,
       WantsBlock, BlockWritten, rpc
<1> QED
  BY <1>2, <1>3, <1>4, <1>5, <1>6, <1>7, <1>8 DEF RingInv

(* A refused block ends the writer unfinished (ensure_prefill,              *)
(* pause_if_low).                                                           *)
LEMMA BlockRefusedStep ==
    ASSUME RingInv, BlockRefused
    PROVE  RingInv'
<1>1. UNCHANGED object
  BY DEF BlockRefused
<1>2. CountersInv'
  BY <1>1, Shape DEF RingInv, CountersInv, BlockRefused, DropConsumer, control
<1>3. FlagsInv'
  BY <1>1 DEF RingInv, FlagsInv, BlockRefused, DropConsumer, control, object, rpc
<1>4. SlotsInv'
  BY <1>1, Shape DEF RingInv, SlotsInv, SlotsConserved, BlockRefused,
       DropConsumer
<1>5. WriterInv'
  BY <1>1 DEF RingInv, WriterInv, Closed, BlockRefused, DropConsumer
<1>6. VerifiedInv'
  BY <1>1 DEF RingInv, VerifiedInv, BlockRefused, DropConsumer, control,
       object
<1>7. LiveInv'
  BY <1>1 DEF RingInv, LiveInv, One, Closed, BlockRefused, DropConsumer
<1>8. HandlerInv'
  BY <1>1 DEF RingInv, HandlerInv, DurableIsAnswered, Closed, BlockRefused,
       WantsBlock, rpc
<1> QED
  BY <1>2, <1>3, <1>4, <1>5, <1>6, <1>7, <1>8 DEF RingInv

(* A writer pauses with a block to write (pause_if_low).                    *)
LEMMA PauseIfLowStep ==
    ASSUME RingInv, pause_if_low
    PROVE  RingInv'
<1>1. UNCHANGED object
  BY DEF pause_if_low
<1>2. FlagsInv'
  <2>1. UNCHANGED <<declared, gated, loaded, finished, failure, verified, started,
                    last, producer, receipt, handler>> /\ consumer' = "paused"
    BY <1>1 DEF pause_if_low, channel, control, object, rpc
  <2> QED BY <2>1 DEF RingInv, FlagsInv
<1>3. WriterInv'
  BY <1>1, RingAssumption DEF RingInv, CountersInv, WriterInv, pause_if_low,
       WantsBlock, WantsPayload, object
<1>4. VerifiedInv'
  BY <1>1 DEF RingInv, VerifiedInv, pause_if_low, channel, control, object
<1>5. LiveInv'
  BY <1>1, Shape DEF RingInv, LiveInv, One, Closed, pause_if_low, WantsBlock,
       channel, control
<1>6. HandlerInv'
  BY <1>1 DEF RingInv, HandlerInv, DurableIsAnswered, Closed, pause_if_low,
       WantsBlock, rpc
<1>7. CountersInv' /\ SlotsInv'
  BY <1>1, Shape DEF RingInv, CountersInv, SlotsInv, SlotsConserved,
       pause_if_low, channel, control
<1> QED
  BY <1>2, <1>3, <1>4, <1>5, <1>6, <1>7 DEF RingInv

(* An empty ring is below the high mark, so a last block resumes only       *)
(* behind a finished producer (wait_for_resume).                            *)
LEMMA WaitForResumeStep ==
    ASSUME RingInv, wait_for_resume
    PROVE  RingInv'
<1>1. UNCHANGED object
  BY DEF wait_for_resume, BlockWritten
<1>2. CountersInv'
  BY <1>1, Shape, RingAssumption DEF RingInv, CountersInv, wait_for_resume,
       BlockWritten, DropConsumer, channel, control
<1>3. FlagsInv'
  BY <1>1 DEF RingInv, FlagsInv, wait_for_resume, BlockWritten, DropConsumer,
       channel, control, object, rpc
<1>4. SlotsInv'
  BY <1>1, Shape DEF RingInv, SlotsInv, SlotsConserved, wait_for_resume,
       BlockWritten, DropConsumer, channel
<1>5. WriterInv'
  BY <1>1 DEF RingInv, WriterInv, wait_for_resume, BlockWritten, DropConsumer
<1>6. VerifiedInv'
  <2>1. declared' = declared /\ gated' = gated /\ high_bytes \in Nat \ {0}
    BY <1>1, Shape
  <2> QED BY <1>1, <2>1 DEF RingInv, CountersInv, WriterInv, VerifiedInv, LiveInv,
       One, Closed, wait_for_resume, BlockWritten, Resumes, channel, control
<1>7. LiveInv'
  BY <1>1, Shape DEF RingInv, LiveInv, One, Closed, wait_for_resume,
       BlockWritten, DropConsumer, channel, control
<1>8. HandlerInv'
  BY <1>1 DEF RingInv, HandlerInv, DurableIsAnswered, Closed, wait_for_resume,
       BlockWritten, rpc
<1> QED
  BY <1>2, <1>3, <1>4, <1>5, <1>6, <1>7, <1>8 DEF RingInv

(* A failed command drops the consumer with its slabs (external).           *)
LEMMA TapeFailsStep ==
    ASSUME RingInv, TapeFails
    PROVE  RingInv'
<1>1. UNCHANGED object
  BY DEF TapeFails
<1>2. CountersInv'
  BY <1>1, Shape DEF RingInv, CountersInv, TapeFails, DropConsumer, control
<1>3. FlagsInv'
  BY <1>1 DEF RingInv, FlagsInv, TapeFails, DropConsumer, control, object, rpc
<1>4. SlotsInv'
  BY <1>1, Shape DEF RingInv, SlotsInv, SlotsConserved, TapeFails,
       DropConsumer
<1>5. WriterInv'
  BY <1>1 DEF RingInv, WriterInv, Closed, TapeFails, DropConsumer
<1>6. VerifiedInv'
  BY <1>1 DEF RingInv, VerifiedInv, TapeFails, DropConsumer, control, object
<1>7. LiveInv'
  BY <1>1 DEF RingInv, LiveInv, One, Closed, TapeFails, DropConsumer
<1>8. HandlerInv'
  BY <1>1 DEF RingInv, HandlerInv, DurableIsAnswered, Closed, TapeFails, rpc
<1> QED
  BY <1>2, <1>3, <1>4, <1>5, <1>6, <1>7, <1>8 DEF RingInv

(* The consumer goes to the drive unread (wait_for_prefill).                *)
LEMMA PrefillDoneStep ==
    ASSUME RingInv, PrefillDone
    PROVE  RingInv'
<1>1. UNCHANGED object
  BY DEF PrefillDone
<1>2. CountersInv' /\ FlagsInv' /\ SlotsInv' /\ WriterInv' /\ VerifiedInv'
      /\ LiveInv' /\ HandlerInv'
  BY <1>1, Shape DEF RingInv, CountersInv, FlagsInv, SlotsInv, SlotsConserved,
       WriterInv, VerifiedInv, LiveInv, One, HandlerInv, DurableIsAnswered,
       Closed, PrefillDone, channel, control, object, rpc
<1> QED
  BY <1>2 DEF RingInv

(* The handler joins with an idle consumer (append_object_overlap).         *)
LEMMA PrefillFailedStep ==
    ASSUME RingInv, PrefillFailed
    PROVE  RingInv'
<1>1. UNCHANGED object
  BY DEF PrefillFailed
<1>2. CountersInv' /\ FlagsInv' /\ SlotsInv' /\ WriterInv' /\ VerifiedInv'
      /\ LiveInv' /\ HandlerInv'
  BY <1>1, Shape DEF RingInv, CountersInv, FlagsInv, SlotsInv, SlotsConserved,
       WriterInv, VerifiedInv, LiveInv, One, HandlerInv, DurableIsAnswered,
       Closed, PrefillFailed, channel, control, object, rpc
<1> QED
  BY <1>2 DEF RingInv

(* A replayed append drops its consumer unread (handle_append_finish_inner). *)
LEMMA ReplayedStep ==
    ASSUME RingInv, Replayed
    PROVE  RingInv'
<1>1. UNCHANGED object
  BY DEF Replayed
<1>2. CountersInv'
  BY <1>1, Shape DEF RingInv, CountersInv, Replayed, DropConsumer, control
<1>3. FlagsInv'
  BY <1>1 DEF RingInv, FlagsInv, Replayed, DropConsumer, control, object, rpc
<1>4. SlotsInv'
  BY <1>1, Shape DEF RingInv, SlotsInv, SlotsConserved, Replayed, DropConsumer
<1>5. VerifiedInv'
  BY <1>1 DEF RingInv, VerifiedInv, Replayed, DropConsumer, control, object
<1>6. WriterInv' /\ LiveInv' /\ HandlerInv'
  BY <1>1, Shape DEF RingInv, WriterInv, LiveInv, One, HandlerInv,
       DurableIsAnswered, Closed, Replayed, DropConsumer, object, rpc
<1> QED
  BY <1>2, <1>3, <1>4, <1>5, <1>6 DEF RingInv

(* An aborted task returns the slot of its open slab; a durable receipt     *)
(* that is not joined is answered at once (append_object_overlap).          *)
LEMMA ConcludeStep ==
    ASSUME RingInv, Closed, NEW r \in {"durable", "error"}, NEW joins \in BOOLEAN,
           Conclude(r, joins),
           r = "durable" => consumer \in {"done", "replayed"},
           r = "durable" => (joins <=> consumer = "done")
    PROVE  RingInv'
<1>1. UNCHANGED object
  BY DEF Conclude
<1>2. CountersInv'
  BY <1>1, Shape DEF RingInv, CountersInv, Conclude, AbortTask, control
<1>3. FlagsInv'
  BY <1>1 DEF RingInv, FlagsInv, Conclude, AbortTask, control, object
<1>4. SlotsInv'
  BY <1>1, Shape DEF RingInv, SlotsInv, SlotsConserved, Conclude, AbortTask
<1>5. VerifiedInv'
  BY <1>1 DEF RingInv, VerifiedInv, Conclude, AbortTask, Hungup, control, object
<1>6. WriterInv' /\ LiveInv' /\ HandlerInv'
  BY <1>1, Shape DEF RingInv, WriterInv, LiveInv, One, HandlerInv,
       DurableIsAnswered, Closed, Conclude, object
<1> QED
  BY <1>2, <1>3, <1>4, <1>5, <1>6 DEF RingInv

(* An object that is only written waits for its checkpoint                  *)
(* (append_object_overlap).                                                 *)
LEMMA AppendDoneStep ==
    ASSUME RingInv, AppendDone
    PROVE  RingInv'
<1>1. PICK r \in Outcomes :
        IF r = "written"
          THEN /\ receipt' = r /\ handler' = "checkpoint"
               /\ UNCHANGED <<object, data, pushed, held, channel, loaded, taken,
                              consumed, control, verified, buffer, started,
                              producer, consumer>>
          ELSE Conclude(r, Joins(r))
  BY DEF AppendDone
<1>2. Closed
  BY DEF AppendDone
<1>3. r \in {"written", "durable", "error"}
      /\ (r # "error" => consumer \in {"done", "replayed"})
  BY DEF Outcomes
<1>4. CASE r = "written"
  <2>1. UNCHANGED object
    BY <1>1, <1>4
  <2>2. CountersInv' /\ FlagsInv' /\ SlotsInv' /\ WriterInv' /\ VerifiedInv'
        /\ LiveInv' /\ HandlerInv'
    BY <1>1, <1>2, <1>3, <1>4, <2>1, Shape DEF RingInv, CountersInv, FlagsInv,
       SlotsInv, SlotsConserved, WriterInv, VerifiedInv, LiveInv, One,
       HandlerInv, DurableIsAnswered, Closed, channel, control, object
  <2> QED BY <2>2 DEF RingInv
<1>5. CASE r # "written"
  <2>1. Conclude(r, Joins(r)) /\ r \in {"durable", "error"}
    BY <1>1, <1>3, <1>5
  <2>2. r = "durable" => (Joins(r) <=> consumer = "done")
    BY DEF Joins
  <2>3. failure \in BOOLEAN
    BY DEF RingInv, FlagsInv
  <2>4. Joins(r) \in BOOLEAN
    BY <2>3, Zenon DEF Joins, Hungup
  <2> QED BY <1>2, <1>3, <2>1, <2>2, <2>4, ConcludeStep
<1> QED BY <1>4, <1>5

(* Without a receipt the checkpointed object is answered with an error      *)
(* (append_object_overlap).                                                 *)
LEMMA CheckpointDoneStep ==
    ASSUME RingInv, CheckpointDone
    PROVE  RingInv'
<1>1. PICK r \in {"durable", "error"} : Conclude(r, r = "durable" /\ Joins(r))
  BY DEF CheckpointDone
<1>2. consumer \in {"done", "replayed"} /\ Closed
  BY DEF CheckpointDone, RingInv, HandlerInv, Closed
<1>3. (r = "durable" /\ Joins(r)) \in BOOLEAN
      /\ (r = "durable" => ((r = "durable" /\ Joins(r)) <=> consumer = "done"))
  BY DEF Joins
<1> QED BY <1>1, <1>2, <1>3, ConcludeStep

(* A durable object whose producer finished is answered                     *)
(* (append_object_overlap).                                                 *)
LEMMA JoinedStep ==
    ASSUME RingInv, Joined
    PROVE  RingInv'
<1>1. UNCHANGED object
  BY DEF Joined
<1>2. CountersInv'
  BY <1>1, Shape DEF RingInv, CountersInv, Joined, DropConsumer, channel,
       control
<1>3. FlagsInv'
  <2>1. UNCHANGED <<declared, gated, finished, failure, verified, started,
                    producer, receipt>> /\ handler' \in {"ok", "failed"}
    BY <1>1 DEF Joined, control, object
  <2>2. last' \in {last, "none"} /\ consumer' \in {consumer, "failed"}
    BY DEF Joined, DropConsumer, channel
  <2>3. loaded \in BOOLEAN
    BY DEF RingInv, FlagsInv
  <2>4. loaded' \in BOOLEAN
    BY <2>3 DEF Joined, DropConsumer
  <2> QED BY <2>1, <2>2, <2>4 DEF RingInv, FlagsInv
<1>4. SlotsInv'
  BY <1>1, Shape DEF RingInv, SlotsInv, SlotsConserved, Joined, DropConsumer,
       channel
<1>5. WriterInv'
  BY <1>1 DEF RingInv, WriterInv, Closed, Joined, DropConsumer, object
<1>6. VerifiedInv'
  BY <1>1 DEF RingInv, VerifiedInv, Joined, DropConsumer, channel, control,
       object
<1>7. LiveInv'
  BY <1>1, Shape DEF RingInv, LiveInv, One, Closed, Joined, DropConsumer,
       channel, control
<1>8. HandlerInv'
  BY <1>1 DEF RingInv, VerifiedInv, HandlerInv, DurableIsAnswered, Closed,
       Joined, DropConsumer, object, rpc
<1> QED
  BY <1>2, <1>3, <1>4, <1>5, <1>6, <1>7, <1>8 DEF RingInv

(* The guard fails the ring first, so the accounting ends before the task   *)
(* is dropped (OverlapReceiveGuard).                                        *)
LEMMA DisconnectStep ==
    ASSUME RingInv, Disconnect
    PROVE  RingInv'
<1>1. UNCHANGED object
  BY DEF Disconnect
<1>2. CountersInv'
  BY <1>1, Shape DEF RingInv, CountersInv, Disconnect, AbortTask
<1>3. FlagsInv'
  BY <1>1 DEF RingInv, FlagsInv, Disconnect, AbortTask, object, rpc
<1>4. SlotsInv'
  BY <1>1, Shape DEF RingInv, SlotsInv, SlotsConserved, Disconnect, AbortTask
<1>5. VerifiedInv'
  BY <1>1 DEF RingInv, VerifiedInv, Disconnect, AbortTask, Hungup, object
<1>6. WriterInv' /\ LiveInv' /\ HandlerInv'
  BY <1>1, Shape DEF RingInv, WriterInv, LiveInv, One, HandlerInv,
       DurableIsAnswered, Closed, Disconnect, object, rpc
<1> QED
  BY <1>2, <1>3, <1>4, <1>5, <1>6 DEF RingInv

(* Every step of the three parties and of their surroundings keeps the      *)
(* invariant.                                                               *)
LEMMA NextInv == RingInv /\ [Next]_vars => RingInv'
<1> SUFFICES ASSUME RingInv, [Next]_vars PROVE RingInv'
  OBVIOUS
<1>1. CASE Receive
  BY <1>1, ReceiveChunkStep, SendHeldStep, PushStep, StreamVerifiedStep,
     StreamInvalidStep, SendCompleteStep, FinishProducerStep, AbortFailsStep,
     AbortDropsStep, SendErrorStep DEF Receive
<1>2. CASE Write
  BY <1>2, ReadCurrentStep, RecycleStep, TakeSlabStep, ReadFailsStep,
     WriteBlockStep, BlockRefusedStep, PauseIfLowStep, WaitForResumeStep DEF
     Write
<1>3. CASE Handle
  BY <1>3, PrefillDoneStep, PrefillFailedStep, AppendDoneStep, CheckpointDoneStep,
     JoinedStep DEF Handle
<1>4. CASE TapeFails \/ Replayed \/ Disconnect
  BY <1>4, TapeFailsStep, ReplayedStep, DisconnectStep
<1>5. CASE UNCHANGED vars
  <2>1. UNCHANGED object
    BY <1>5 DEF vars
  <2>2. /\ declared' = declared /\ gated' = gated
        /\ slab_bytes' = slab_bytes /\ slab_count' = slab_count
    BY <2>1, Shape
  <2> QED BY <1>5, <2>2 DEF vars, object, channel, control, RingInv, CountersInv,
        FlagsInv, SlotsInv, SlotsConserved, WriterInv, VerifiedInv, LiveInv, One,
        HandlerInv, DurableIsAnswered, Closed, rpc
<1> QED BY <1>1, <1>2, <1>3, <1>4, <1>5 DEF Next, Stopped

--------------------------------------------------------------------------------
(* Results. *)

(* RingInv holds throughout every overlap append. *)
THEOREM RingInvariance == Spec => []RingInv
<1>1. Init => RingInv
  BY InitInv
<1>2. RingInv /\ [Next]_vars => RingInv'
  BY NextInv
<1> QED BY <1>1, <1>2, PTL DEF Spec

(* No slot of the semaphore is lost or returned twice, on any path by which *)
(* a slab is dropped.                                                       *)
THEOREM SlotsKept == Spec => []SlotsConserved
<1>1. RingInv => SlotsConserved
  BY DEF RingInv, SlotsInv
<1> QED BY <1>1, RingInvariance, PTL

(* The object writer neither completes an unverified object nor is handed   *)
(* its last byte.                                                           *)
THEOREM LastSlabWithheld == Spec => []FinalSlabWithheld
<1>1. RingInv => FinalSlabWithheld
  BY DEF RingInv, CountersInv, FlagsInv, VerifiedInv, FinalSlabWithheld, rpc
<1> QED BY <1>1, RingInvariance, PTL

(* The high and low marks are compared with the exact number of unread      *)
(* bytes, which never exceeds the memory reserved for the ring: every byte  *)
(* is in the open slab, a queued slab or the slab being read, and each of   *)
(* these holds a slot.                                                      *)
THEOREM OccupancyIsExact == Spec => []OccupancyExact
<1>1. ASSUME RingInv, ~failure, ~Closed
      PROVE  occupancy = pushed - consumed /\ occupancy \in 0..capacity_bytes
  <2>1. /\ occupancy = pushed - consumed
        /\ pushed = sent + held
        /\ sent - taken <= queued * slab_bytes
        /\ taken - consumed <= One(loaded) * slab_bytes
    BY <1>1 DEF RingInv, LiveInv
  <2>2. /\ slab_bytes \in Nat \ {0} /\ slab_count \in Nat
        /\ capacity_bytes = slab_count * slab_bytes
    BY <1>1, RingShape DEF RingInv, CountersInv
  <2>3. /\ pushed \in Nat /\ held \in Nat /\ sent \in Nat
        /\ taken \in Nat /\ consumed \in Nat
        /\ consumed <= taken /\ taken <= sent /\ sent + held <= pushed
        /\ held <= slab_bytes
    BY <1>1 DEF RingInv, CountersInv
  <2> DEFINE h == One(held > 0)
             l == One(loaded)
  <2>4. /\ queued \in Nat /\ slots \in Nat
        /\ h \in 0..1 /\ l \in 0..1
        /\ slots + queued + h + l = slab_count
    BY <1>1 DEF RingInv, SlotsInv, SlotsConserved, One
  <2>5. held <= h * slab_bytes
    BY <2>2, <2>3 DEF One
  <2> HIDE DEF h, l
  <2>6. (queued + h + l) * slab_bytes
          = queued * slab_bytes + h * slab_bytes + l * slab_bytes
    BY <2>2, <2>4
  <2>7. (queued + h + l) * slab_bytes <= slab_count * slab_bytes
    <3>1. slab_count = (queued + h + l) + slots
      BY <2>2, <2>4
    <3>2. slab_count * slab_bytes
            = (queued + h + l) * slab_bytes + slots * slab_bytes
      BY <3>1, <2>2, <2>4
    <3>3. slots * slab_bytes >= 0
      BY <2>2, <2>4
    <3> QED BY <3>2, <3>3, <2>2, <2>4
  <2>8. pushed - consumed <= capacity_bytes
    <3>1. taken - consumed <= l * slab_bytes
      BY <2>1 DEF l
    <3> QED BY <3>1, <2>1, <2>2, <2>3, <2>4, <2>5, <2>6, <2>7
  <2> QED BY <2>1, <2>2, <2>3, <2>8
<1>2. RingInv => OccupancyExact
  BY <1>1 DEF OccupancyExact
<1> QED BY <1>2, RingInvariance, PTL

(* Counters, flags and phases keep their types and ranges. *)
THEOREM RingTypeCorrect == Spec => []TypeOK
<1>1. ASSUME RingInv PROVE TypeOK
  <2>1. slab_bytes \in Nat /\ slab_count \in Nat
    BY <1>1, RingShape DEF RingInv, CountersInv
  <2>2. queued \in 0..slab_count /\ slots \in 0..slab_count
    BY <1>1, <2>1 DEF RingInv, SlotsInv, SlotsConserved
  <2>3. /\ declared \in Sizes
        /\ data \in 0..MaxChunk /\ pushed \in 0..declared
        /\ held \in 0..slab_bytes
        /\ consumed \in 0..taken /\ taken \in 0..sent /\ sent \in 0..pushed
        /\ buffer \in 0..(2 * Block)
    BY <1>1, <2>1, RingAssumption DEF RingInv, CountersInv
  <2>4. gated \in Gates
    BY <1>1 DEF RingInv, FlagsInv, rpc
  <2>5. {loaded, finished, failure, verified, started} \subseteq BOOLEAN
    BY <1>1 DEF RingInv, FlagsInv, rpc
  <2>6. /\ last \in {"none", "complete", "error"}
        /\ producer \in {"receiving", "finishing", "completing", "finished",
                         "refused", "failing", "aborted"}
        /\ consumer \in {"waiting", "writing", "paused", "done", "failed", "replayed"}
        /\ receipt \in {"none", "written", "durable", "error"}
        /\ handler \in {"prefill", "append", "checkpoint", "joining", "ok", "failed", "gone"}
    BY <1>1 DEF RingInv, FlagsInv, rpc
  <2> QED BY <2>2, <2>3, <2>4, <2>5, <2>6 DEF TypeOK
<1> QED BY <1>1, RingInvariance, PTL

(* A gated append of which the handler has a durable receipt is never       *)
(* answered with a failure: its last block waited for the producer to       *)
(* finish, so the join succeeds.                                            *)
THEOREM DurableAnswered == Spec => []DurableIsAnswered
<1>1. RingInv => DurableIsAnswered
  BY DEF RingInv, HandlerInv
<1> QED BY <1>1, RingInvariance, PTL

================================================================================
