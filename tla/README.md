# A verification project for virtio2

`src/virtio2` is the RTL of a virtio offload: it serves the virtqueues of net and
block devices for a driver on the host. This directory models it in TLA+, checks
the models with TLC and proves theorems about them with TLAPS. The models are
written from the SystemVerilog. The simulation under `src/sim` is modelled too: it
holds the repository's drivers, its models of memory and buses, and the benches that
decide whether the RTL is right, written as coroutines that meet devices, timers and
resets in every order.

## Inventory

The path of a buffer, and what each part keeps:

| part | source | state | operations | what makes it correct |
|---|---|---|---|---|
| round-robin arbiter | `rr_sch.sv` | mask of the last grant | grant | grants who asks; bounded bypass |
| queue scheduler | `virtio2/common/virtio_sch.sv` | request FIFO, 2-bit word per queue, hot and cold FIFO, two FSMs | request, commit request, commit answer, offer, take | one token per queue, no overflow, every kick followed by a service |
| doorbell scheduler | `virtio2/common/virtio_db_sch.sv` | FSM, one request register | arbitrate, load, hand over | loses no request, starves no source |
| index engine | `virtio2/virtio_idx_engine` | one operation at a time, three response FIFOs, in-flight counters, per-queue context words | kick, flags-write response, flags-read response, index response | no lost kick, notifications come back, counters right, FIFOs fit |
| context | `virtio2/virtio_ctx.sv` | status, pointers, ring addresses, MSI-X words per queue; CSR, error and stop FSMs | register read and write, SOC_NOTIFY, start, stop, resume, error stop | a queue is IDLE only when nothing of it is open; the first fatal error wins |
| avail ring engine | `virtio2/virtio_avail_ring` | ring-id RAM, ordering FIFO, ui/pi/ci pointers | read ring ids, hand ids out | ids in order, none lost or overwritten |
| net descriptor engine | `virtio2/virtio_desc_engine` | slots, order FIFO, linked descriptor buffer | allocate, fetch, follow chain, release | slots and buffer lines neither leak nor double; packets in order per queue |
| block descriptor engine | `virtio2/virtio_blk_desc_engine` | slot ids, resume state | allocate, resume, fetch, release | the same |
| net transmit, net receive | `virtio2/virtio_nettx`, `virtio_netrx` | slot control, data control | QoS query, allocate, move, complete | a slot asked for is used or given back |
| receive buffer | `virtio2/virtio_rx_buf` | linked packet list per queue, drop counters | store, drop, send | lists stay lists; the cells come back |
| block data path | `virtio2/virtio_blk_downstream`, `virtio_blk_upstream` | stream state | move payload | requests and data stay paired |
| used ring | `virtio2/virtio_used` | used pointers, error info, MSI-X mask and pending, merge FIFOs | write element, write index, interrupt, mask, unmask | elements before index before interrupt; no interrupt lost under mask |
| interrupt merging | `virtio2/virtio_irq_merge_core` | per-queue enable, time and count | count, scan | fires by threshold or timeout, once |
| wiring | `virtio2/virtio_top.sv` | - | - | the parts' assumptions about each other |
| generated registers, IP, scripts | `*_dfx.sv`, `ip/`, `AXI.v`, `script/` | - | - | generated or vendored |

The simulation, whose parts are Python coroutines on cocotb:

| part | source under `sim/` | state | operations | what makes it correct |
|---|---|---|---|---|
| queue drivers | `common/vqpmd/{vqblk,vqnet,vq}.py` | ring indices, free ids, requests under way, flags of the test | send, receive, reclaim, interrupt, stop, restart, check | ids are kept; a test ends when everything was compared; no false alarm |
| top level bench | `virtio2/test_virtio` | queue life, reference lists, ids, regions, error records | start, stop, restart, post, consume, clean, compare | references match what the device still does; nothing freed twice |
| network bench | `virtio2/test_virtio_net` | the same, with a pipeline of receive stages | the same, several defects | the same |
| block downstream bench | `virtio2/test_virtio_blk_downstream` | queues, pending lists, QoS and slot answers | create, grant, send, compare, stop, delete | a queue is freed last; each answer finds its entry |
| burst engine transmit bench | `test_beq_txq` | descriptor ring, local descriptors, schedule bitmap, contexts | post, read, schedule, report an error, recover | references follow the chains; no queue is forgotten |
| bus models | `common/stream_bus.py`, `backpressure_bus.py`, `drivers/`, `monitors/` | queues, samples of the wires, events, counts of open operations | send, receive, pause, reset, read, write | a queue for its users; idle means drained; reads see writes |
| memory model | `common/address_space.py`, `buddy_allocator.py` | free lists, regions, faults | allocate, free, read, write, inject | blocks neither overlap nor leak; faults hit |
| segmentation bench | `test_tso_csum` | packets and references | build, cut, compare | every piece is compared, nothing wrong passes unseen |
| other benches | `test_emu`, `test_qos`, `test_sgdma`, ... | - | - | for RTL that is not in the repository (beq, emu, qos, sgdma, tso_csum, tlp_adaptor, pcie_switch, dirty_log), sequential or stateless |

The parts talk through valid/ready registers. Every engine has the same shape: a
scheduler offers a queue, the engine samples the queue's context, acts, and answers
the scheduler with *done* (forget the queue until it is kicked) or *not done* (come
back). The hard behaviours follow from that: a kick that arrives while its queue
is being served or answered; a context sampled several clocks before it is acted on
while software changes it; DMA whose responses come late, fail or overtake; FIFOs
written without looking at full because a count elsewhere is supposed to suffice;
and queues that are stopped and restarted with requests under way. `PROJECT.json`
lists them, each at its line, under `hazards`.

## Modules

| module | models | notes |
|---|---|---|
| `RrSch` | `rr_sch` as operators | mask = set of preferred lines |
| `VirtioSch` | `virtio_sch` | one action per FSM step; no environment |
| `VirtioSchSys` | the scheduler with a free producer and engine | properties, refinement mapping |
| `QueueService` | what a scheduler promises | `want`, `serving`; abstract specification |
| `DbSch` | `virtio_db_sch` | |
| `IdxEngine` | `virtio_idx_engine_top` | an operation is `Select..` (IDLE to RD_CTX) and `Complete` (EXEC, WR_CTX) |
| `NotifyPath` | driver, DMA, `DbSch`, `QueueService`, `IdxEngine`, the part of `virtio_ctx` that starts and stops queues, the consumption of the index by `virtio_ring_id_engine` | the composition |
| `AvailRing` | `virtio_ring_id_engine`, `virtio_desc_req_ctrl` and their words of `virtio_ctx` | entries from the index to the descriptor engine |
| `IrqMerge` | `virtio_irq_merge_core`, clock by clock | shown to implement `IrqPredict` |
| `IrqPredict` | what merging promises: the predictor of its bench | abstract specification |
| `QueueOrder` | the order in which queues of several groups are handed out | used by both |
| `DescReqPorts` | the three state machines of `virtio_desc_req_ctrl` on their shared ports | clock by clock |
| `IdxBench` | the index engine with scheduler and DMA only | many queues, for the FIFO limits |
| `VqBlk`, `VqNet`, `VqTest` | the three queue drivers of `common/vqpmd` with their test cases and checkers | on an external device |
| `PmdLife` | the life of a queue in the top level bench | worker, control registers, virtqueue, error service |
| `NetTxPmd`, `NetRxPmd`, `BlkPmd` | what a transmit, receive and block queue add to it | EXTEND `PmdLife` |
| `VnetLife`, `VnetTx`, `VnetRx` | the network bench where it differs from the top level one | use `PmdLife` for what is the same |
| `QsMgr` | the block downstream bench | |
| `BeqTxq` | driver, descriptor engine and contexts of the burst engine bench | on an external unit under test |
| `FifoLink` | what a bus promises: a queue | abstract specification |
| `StreamLink`, `SavLink` | the valid/ready and the back pressure bus, edge by edge | shown to implement `FifoLink` |
| `BeatPipe` | packets cut into beats and put together again | shown to implement `FifoLink` |
| `MliteLoop`, `DmaLoop` | register bus and DMA bus, master against memory | on `StreamLink` and `SavLink` |
| `MemPool` | pool, regions, faults, buddy allocator | |
| `TsoBench` | the segmentation bench | |
| `Links` | `StreamLink`, `SavLink`, `BeatPipe`, `DmaLoop` and `BeqTxq` side by side, and what is proved of them | its sizes are constants |
| `SimBench` | EXTENDS `Links` by the other twelve instances, and asks its questions of all | a behaviour is one of one bench |
| `UnderLoad` | `IdxBench`, `DescReqPorts` and `IrqMerge` side by side | a behaviour is one of one of them |
| `MCAvailRing`, `MCUnderLoad` | values of the constants for TLC | |
| `VirtioSch_proofs` (with the arbiter), `NotifyPath_proofs`, `AvailRing_proofs`, `IrqMerge_proofs`, `UnderLoad_proofs`, `Links_proofs`, `SimBench_proofs` | theorems about the module of that name | |
| `EngineLemmas` | lemmas: remainders within one turn; how many entries of a FIFO belong to a set; quotients; `InOrder`; queues in a row; packets in beats (`InBeats`) | |

How the state corresponds. `VirtioSch`: `bitmap` is the RAM `u_bitmap`, `hotFf`
and `coldFf` are the FIFOs, `reqStat` and `schStat` the two FSMs; READ_BITMAP and
WRITE_BITMAP are one step because nothing else writes the RAM between them.
`wrr_sch` is not in the repository: either side may be picked, and both are in
the long run. `IdxEngine`: `ctx[q].dmaOut` is the difference of `dma_req_num` and
`dma_rsp_num` (7 bits each), since everybody compares the two; the `*_inflight_cnt`
are what is on its way plus what waits in the FIFO (`Inflight`), and `ready` are the
three `dma_*_inflight_ready` registers, which an operation may see as they were
before the previous operation. The operation's context sample is kept in `op`, so
a status that software changes meanwhile is used stale, as in the code.
`NotifyPath`: the scheduler is used through `QueueService`, which `virtio_sch`
implements (checked and proved below); the hot and cold preference is abstracted
away there. `landing` holds flag writes that are acknowledged and not in host
memory yet (PCIe posted writes, in order); a read waits for the writes of its queue
before it. A failed read returns any data.

`AvailRing`: `rd` is the read state machine with its context sample (at most one
operation), `ask[t]` the hand-out state machine of a type with its sample; `rdReq`
are DMA reads under way, `orderFf` and `rspFf` the two FIFOs, `ram` the three ring id
RAMs. `ui`, `pi`, `ci`, `used` and `idx` are the context's pointers. An operation is
three actions (sample and take, judge and write ui, answer and issue), since software
and the other engine act between them; writing the ids of one response is a single
action, since pi shows them only afterwards. A ring entry is the index it was posted
for, so that handing out a stale, a skipped or a doubled entry shows. `got` is a
history variable. The scheduler is `QueueService`, the index engine `Post`, and the
consumer asks for any queue of its type at any time. `AvailRing` takes sample and
`avail_ci` of the hand-out machines as atomic; `DescReqPorts` shows that their
shared ports allow it.

`IrqMerge`: one step is one clock. `s1`, `s2`, `s3` are the registers between the
stages, `s3` also what the write port of the RAM (`info`) shows; `rsp` is what the RAM
answers, `Sees` the forwarding of stage 2. The time map of a queue that does not wait
is kept 0. `age` is a history variable. The refinement mapping to `IrqPredict` takes
the RAM with the write on its way for the predictor's table, and what is still to be
handed out - in `s3`, `eng_out` and its FIFO - in order, for the predictor's queue
(`Promised`). `eng_out_ff` is a sequence
without a depth: an interrupt asked for looks at its limit, the scan does not
(`virtio_irq_merge_core_top.sv:115`), so a burst of timeouts may overflow the 64 places
when nobody takes the interrupts. `mux_nto1` is not in the repository; it is taken to
hand out the lowest lane first. Clocks per tick must leave the scan time for every
group (2 clocks each; 100 for 32 groups in the code, where the scan of 64 clocks
fits), which 6 clocks for two groups keep.

The simulation. Code between two awaits of a coroutine is one step; an action is
named for the function it runs, and a coroutine that can be found at several awaits has
a program counter (`at`, `pc`). A sleep is an await that may last any number of steps of
the others, except where the code's own delays order two of them; those places are
named at the action. What the RTL or the PCIe side does is marked external, and is
right but free: it takes its time, orders what may be reordered, and makes the faults a
bench injects. Descriptor ids are interchangeable, so the lowest free one stands for a
random one; packets and requests are serial numbers, so a lost, doubled or swapped one
shows. In the bus models one rising edge of the clock is one step in which every
coroutine waiting for it runs; a coroutine that is killed by a reset is off, and
what it held in local variables is gone. References (`refs`, `check` lists) are kept as
the lists the code keeps, since their order is what can go wrong.

Definitions named as mutants are used by no specification: each is the
plausible bug that shows a property can fail.

## Runs

| run | bounds | shows |
|---|---|---|
| `virtio_sch` | 2 queues, request FIFO of 2 | `OneToken`, `NoOverflow`; refinement of `QueueService` with liveness; the scheduler drains |
| `notify_stop` | 1 queue, indices mod 3, ring of 2, threshold 0, 1 doorbell and 2 flag writes under way | whole life cycle with stop, forced stop, resume, restart and DMA errors, `no_change` unconnected: `NoLostKick`, `RingIsAwake`, `IdleIsQuiet`, `DmaCounted`, `IdxFollowsDriver` |
| `notify_limit` | 1 queue, indices mod 4, ring of 3, threshold 1, in-flight limit 1, `no_change` connected | `NoLostKick` while every operation races the stale ready registers and the engine may stand still (finding 2) |
| `notify_live` | 1 queue, threshold 1, `no_change` connected | `EveryPostArrives`, `NotificationsComeBack`, `FlagsOnWhenForgotten`, `NoSpuriousError` |
| `under_load` | index engine: 4 queues, FIFO of 3, limit 2; request machines: any requests and any delays of the descriptor engines; interrupt merging: two groups of two queues, two of which ask, one with a threshold of 2 and one with time only, 6 clocks per tick, time modulo 8, output FIFO at its limit from 1 | `RespFifosFit`; `SampleIsOwn`, `CiWritten`, `EveryAskAnswered`; `PredictorAgrees` (a refinement), `InTolerance` |
| `avail_ring` | 1 TX queue, ring and RAM of 4, indices mod 8, 2 entries per request, order FIFO gate at 2 | stop, resume and restart at any time: `HandsOutInOrder`, `PointersInOrder`, `RingNotForgotten`, `IdleIsQuiet` |
| `avail_live` | 1 block queue, ring and RAM of 2, indices mod 4 | `EveryEntryHandedOut`, with the block rule for the room in the RAM |
| `sim_bench` | seventeen benches, bounds below | `NoFalseAlarm`, `IdsKept`, `RefsKept`, `QueuesBounded`, `IdleIsIdle`, `ReadsRight`, `EndsLast`, `TestsChecked`; the refinements `WiresAreFifos` and `PacketsAreFifos` |
| `sim_live` | ten benches in small instances, with fairness | `TestsEnd`, `AllAnswered` |
| `rd_flags_fifo` | 5 queues, FIFO of 4, limit 3 | violation of `RdFlagsFifoFits` |
| `wr_gate` | 2 queues, limit 2 | violation of `EveryPostArrives` |
| `no_change` | 1 queue, `no_change` unconnected | violation of `NotificationsComeBack` |

Why the bounds are enough. Two queues make the scheduler's FIFOs interleave and fill,
and a request FIFO of 2 makes a producer wait. The notification protocol is per
queue: queues meet only in the schedulers (covered by the refinement) and in the
in-flight limits (covered by `under_load` with more queues than FIFO places, and by
`notify_limit` end to end). Indices
modulo 3 with a ring of 2 wrap within every behaviour, have an empty and a full ring,
and thresholds 0 and 1 put the index difference on both sides. FIFO_DEPTH and Margin
(32 and 4 in the code) are scaled; what matters is that there are more queues than
places and that the limit is below the depth by at least the one operation that the
ready registers lag behind. Where the limits are not the subject (`notify_stop`,
`notify_live`) the limit is above the number of queues.

The avail ring engine is as much per queue as the notification protocol: pointers, RAM
places and ring of a queue are its own, and other queues delay it at the scheduler,
the single read operation and the FIFOs, which the interleaving of one queue's steps
includes. A RAM of 4 in a ring of 4 has reads that are cut at the end of the ring
and at half of the RAM, several of them under way, an order FIFO at its gate, and RAM
addresses and indices that wrap at different places; the RAM of 2 for the
block queue grants all the room that is left.

In `AvailRing` a register access cannot fall between RD_CTX and the write of `avail_ui`
(`NotStale`): RD_CTX is left after one clock because `avail_addr_rd_req_rdy` is always
set, and the three clocks are fewer than an access takes. Responses of the DMA come
in the order of the requests, which the order FIFO demands (FATAL_ERR repeats for
ever). Software restarts a queue with AVAIL_IDX at the used index. The marks of an
oversized or unreadable id travel with it and change nothing in this engine.

`LandDepth` bounds the posted writes through `sav` of the DMA, which the engine does
look at; `DbDepth` bounds the doorbells, the driver waiting when it is reached.
Software is assumed to stop a queue it has never notified by force, because a queue
that is resumed is not kicked; and a register access is assumed to take longer than
one operation of the engine (5 clocks), so `NotStale` guards changes of the status.
With `no_change` connected, a queue stopped during a kick and resumed can lose a
kick: the engine turns `no_notify` in the context without writing the flags
(`virtio_idx_engine_top.sv:465`). `notify_stop` shows it when `NoChangeWired` is set
to TRUE; it is no finding because nothing in the repository connects it so.
An unconnected input is taken as 0, as synthesis does.

`SimBench` asks the same question of every bench it makes sense for, so that a
property reads as what all benches promise, and defines it per bench in the bench's own
module. The sizes of `Links` are in the configurations, those of the other benches in
their instances. They have one queue (the benches start a worker per queue that shares
nothing with the others but the ports of the device), rings of 1, 2, 4 or 8
descriptors, chains of one or two, and batches of one or two, so that a ring is full,
empty and partly reclaimed within a test; bus queues of one place, so that pausing,
blocking and resetting meet in every order, with the resets that follow each other;
two tasks on the register bus; three transfers, one reset and one faulty address on the
DMA bus; a pool of four blocks with three live regions and two faults. The packets of
`TsoBench` are all those at most two parameters away from a segmented one and those at
the limit of 32 Kbyte. `Live` chooses smaller instances, which still have every
coroutine and every test case that can hang. Tests end, so deadlock is not checked in
these two runs; `TestsEnd` and `AllAnswered` say that nothing stops before.

What is assumed of the simulation, and the cases in which a bench does misjudge a right
device, which the properties name as exceptions:

- `pmdTx.late`: `worker_clean` counts what is outstanding, sleeps, and drops that many
  references. A packet that is posted during the sleep (in the network bench also one
  whose comparison waits then) is compared with the wrong reference. `NetTxPmd` and
  `VnetTx` promise references and silence only until then.
- `pmdBe.lag`: the backend of a block queue still holds descriptors of a queue that is
  taken down, and answers into memory that was given back. The behaviours of `BlkPmd`
  go no further than what follows at once.
- `pmdQ.stale`: in the network bench the error service may still read the error of a life
  when the next start forgets it. The top level bench waits for it (`PmdLife`).
- `vqWk.early`: `checkResult` sets the exit of a test between the reset of its counters
  and its first packet; the test then ends with descriptors that were not compared.
- `btqWk.early`: `wait_finish` looks at the pointer only, so that a test may end with
  the error of its last descriptor unseen.
- `~Clean` in `VqNet`: an error or restart test leaves switches and checkers behind, so
  that a transmit or receive test after it may wait for ever. `NetOver` leaves out
  the lists of tests that do this.
- `BeqTxq`: the unit under test reports an error only after the chain it is in has been
  read, with the used pointer behind the descriptor in error, and writes its ring index
  no later than its used pointer; a life is shorter than 65,536 descriptors.
- QoS is enabled in `NetTxPmd`, `VnetTx`, `VnetRx`; without it nothing is queued for it.
- The comparison of a segmented packet (`network_packet_processing.py:939-966`) returns
  0 for equal packets and for a difference in the first chunk of 32 bytes alike, so that
  its caller (line 608) takes both for a match. `TestsChecked` says
  exactly how far this goes for `TsoBench`: nothing else is overlooked.

Fairness. Clocked state machines make their steps while they are enabled, so they
have weak fairness. On the notification path strong fairness is used in three places: `wrr_sch` with two
positive weights, the engine's answer in `VirtioSchSys` (its one answer register is
shared by its queues), and the turn of a queue at the index engine
(`EngineKick`), where responses have precedence; the scheduler itself gives the turn
(`ServesEveryKick`). `AvailRing` has strong fairness for the
turn of a queue (`RdCtx`, given by the scheduler) and for the request of the descriptor
engine (`AskCtx`, whose own scheduler goes round its queues); `DescReqPorts` has weak
fairness of the clock, and of a descriptor engine that takes its response.
The DMA answers. The driver reads the flags after moving the
index, but nobody has to post, start, stop or resume.
`UnderLoad` has the fairness of `DescReqPorts`. `SimBench` has weak fairness for every
coroutine and device that waits for a timer or an edge (`Turn1` to `Turn7`): cocotb wakes
each. It has strong fairness (`Timed1` to `Timed7`) where a step is interrupted by the
polling of another one, but time passes for it whatever the others do: the device of
`VqTest` and the coroutines of the transmit queue. Pauses and resets of the buses are free
to come for ever, except that `AllAnswered` asks only for answers once they are over.

## Findings

1. `rd_flags_fifo`. The IDLE gate (`virtio_idx_engine_top.sv:259`) lets a write
   response start a flags read without `dma_rd_flags_inflight_ready`, so more reads
   can be open than `u_rd_rsp_ff` has places; its overflow is a bit of `dfx_err`,
   asserted never to be set (lines 562, 612-618). The same run with 6 queues, a FIFO
   of 5 and limit 4 ends the same way.
2. `wr_gate`. The same gate takes a write response only while
   `dma_wr_inflight_ready`, which falls when 28 flag writes are open and which only a
   taken write response can restore: the engine stops for ever.
3. `no_change`. `virtio_top` connects `idx_engine_ctx_wr_no_change` neither at the
   engine nor at the context. The engine polls an idle queue for ever and never
   switches notifications on. No post is lost (`notify_stop`), since the engine
   never stops looking.

## Proofs

The arbiter (`VirtioSch_proofs`, last part): `GrantAsks`, and `BoundedBypass`, for any
number of request lines: while a line asks, each grant to another one brings its own
strictly nearer in the round-robin order.

The scheduler (`VirtioSch_proofs`), for every finite set of queues and every FIFO depth. `OneToken`
is not inductive alone: a commit reads the head of a FIFO or the answer register, so
`SchInv` adds the types and `StatInv` (an FSM that left IDLE has the request it left
it for). `SchInvariant` proves `Init => SchInv` and one lemma per action.
`TypeCorrect` and `OneTokenPerQueue` follow; `FifosNeverOverflow` follows because a
sequence without duplicates is no longer than the set of its elements.
`SchedulerRefinesService` uses the invariant to map each step to a step of
`QueueService` or a stutter, with `want` the queues in the three FIFOs and those with
the engine whose word is MORE. The only assumption is `VirtioSchAssumption`.
`BoundedBypass` is also what shows that no line of an arbiter starves.

`NotifyPath_proofs`, for every set of queues, width of the indices, ring, threshold and
FIFO depth, under `IdxEngineAssumption` and `NotifyPathAssumption`. In the code the
indices have 16 bits and a ring at most 2^15 entries, which is the `QSize < IdxMod` the
proofs need: distances between indices are then unambiguous. The invariant
comes in two halves. `BaseInv` holds for every environment and wiring (`Inductive`):

- `RegInv`, the registers hold one value, and the engine does not start an operation
  before its last answers are taken;
- `OpInv`, where an operation comes from (`Origin`: its response is still the head of
  its FIFO) and how old its sample of the context may be (`Aged`: one change of the
  status, no more, and the context word itself is unchanged unless the queue was IDLE);
  without it nothing can be said of the steps that use the stale sample;
- `CtxInv`, what a start leaves in the context; `ServeInv`, a queue is served exactly as
  long as one DMA of it is open or its answer is not taken: `DmaCounted` is not inductive
  without it, since only the scheduler keeps a second operation of the queue out;
- `AwakeInv`, `RingIsAwake` for a stopping queue too, which a resume makes a running one;
- `OrderInv`, the avail ring's pointer, the mirrored index, an index on its way and the
  driver's lie in this order round the ring; `ErrInv`, no error without a failed read.

`TypeCorrect`, `DmaIsCounted`, `RingStaysAwake`, `IdleQueueIsQuiet`, `NoErrorWithoutCause`
and the action property `IndexFollows` follow.

`KickInv` is the second half, and with it `NoKickIsLost`, `NotForgottenInSilence` and
`OneQueueLosesNoKick`. The argument: flags the engine has switched on are on in the host
or the last write on its way to it (`FlagsOn`); a response is opened with the flags on
only after an index stood still; a read follows the writes of its queue, so when it is
answered they have landed (`Landed`), and an index that is then older than the driver's
has a post behind it whose doorbell the driver must still ring or has rung (`Kicked`).
A queue is given up (`GivenUp`) only in this state. Two hypotheses are stated, and TLC
refutes `NoLostKick` without either; both are hazards of the list:

- `NoChangeWired => "resume" \notin Env`: an operation of a stopping queue turns
  `no_notify` in the context and writes no flags (`virtio_idx_engine_top.sv:465`). It holds
  for the code as it is, whose `no_change` is not connected.
- `KicksAccepted`: the SOC_NOTIFY that starts a queue finds the request register free or
  holding the same queue (`virtio_ctx.sv:1667` drops it otherwise). It is a statement about
  software's steps, not about the engine's. With one queue it is proved
  (`OneQueueLosesNoKick`), which is the configuration of the runs.

`AvailRing_proofs`, for every set of queues, every size of rings and RAMs and every width
of the indices. `AvailRingAssumption` asks that the sizes divide the modulus (all are
powers of two up to 2^15; the RAMs have 32, 32 and 8 places) and `QDepth + Nid < IdxMod`
(`nid` has 4 bits). `IInv` says where every entry is between `used`, `got`, `ci`,
`pi`, `ui` and `idx`: `FlightInv` and `FifoInv` tie `ui - pi` to the reads under way and
their responses in order, `PtrInv` orders the pointers, `AskInv` lets one hand-out
machine own `ci` of its queue, `RamInv` and `RspInv` say what the ring id RAM and the
responses hold. `SampleInv` is what makes it inductive: the reading machine
judges the room with a sampled `ci` and the work with a sampled `idx`, both late
but on the safe side. From it: `TypeCorrect`, `PointersStayInOrder`,
`NoQueueForgotten`, `IdleQueueIsQuiet` and the action property `HandedOutInOrder`.

`IrqMerge_proofs`, for every number of groups and lanes, every threshold, unit of time and
set of queues that ask. `Sizes` says that the sizes are positive; that 2^`Time[q]` is a
natural number is part of it because the provers know nothing of powers. Three results:

- `TypeCorrect`, the types of the pipeline.
- `PredictorHolds`, the refinement of `IrqPredict`. `PipeInv` says what the pipeline
  holds between two clocks: stage 2 has the RAM's word of its group, the write on its way
  carries the lanes it does not change as the RAM has them, a stage has one lane for an
  interrupt and all or none for the scan, and stage 2 sees the time of at most one tick
  ago. From it, `Sees` is what the RAM will hold (`SeesWaits`), and each clock is one of the predictor's
  (`RefinesStep`): an interrupt that is counted, one that is signalled, a group that
  is scanned, or none. What is handed out is a sequence built from sets, so it rests on the
  lemmas about `InOrder` (in `EngineLemmas`): it enumerates a finite set of pairs once, lowest first,
  commutes with maps that keep the order, and grows at its end. Their proofs go
  by the least counterexample (`WellFoundedInduction`), not by induction over data.
- `ToleranceHolds`, `InTolerance` as an action property. Its hypothesis `Timing` is that
  a scan of all groups takes fewer clocks than a tick and that the time stamp goes round
  after a whole number of four units; the code has 32 groups, 100 clocks, 16 bits and
  units of at most 2^7 ticks. `ClockInv` ties the scan to the clock counter: it is never behind and is
  over when the tick comes. `AgeInv` says that for an interrupt that waits, what it has
  waited and what is left add up to more than two units and at most three; when nothing
  is left, a unit has just begun and the scan has not reached its group.

`UnderLoad_proofs`, for every size in `LoadAssumption`, which TLC evaluates in the
`under_load` run, states every safety property of that run as a theorem:

- `SamplesItsOwnQueue` and `CiReachesContext`, the request machines: at most one starts
  and at most one updates in a clock, since receive and transmit do so on different
  values of `mark` and the block machine only when neither does; with the types this
  makes both inductive.
- `OpenIsLimited` and, from it, `ResponsesFit`, the index engine. `RoomIInv` says that an
  operation that may issue was let in by a ready register that still stands (`GateInv`),
  and that a register that says there is room leaves room for one operation (`RoomInv`):
  it is reloaded with the counts from before the operation that has just issued, so
  at most one request passes the limit. A depth and a margin of at least one are
  assumed; the code has 32 and 4. Requests are a set in the model, which counts them
  right because a queue has one DMA open (`DmaIsCounted`). For the flags responses
  the same is false (finding 1).
- `MergesAsPredicted` and `SignalledInTime`, carried over from `IrqMerge_proofs` by
  showing that its machine and the instance in `UnderLoad` are the same.

`Links_proofs`, for every limit of the queues, length of a pause and of a packet, number of
senders, every bound of the DMA bus and every ring of the transmit bench
(`LinksAssumption` asks for natural numbers and a pause that lets at least one item
through). Each bus has an inductive invariant of its own:

- the valid/ready bus (`StrInv`): its coroutines are killed by the reset and by nothing
  else, nobody sleeps through a transfer, and `rdy` promises a place. The last is what
  bounds the sink's queue; that the monitor misses nothing needs the second;
- the back pressure bus (`SavInv`): source and sink count the same items of a pause, and
  `sav` promises a place besides those the pause lets through;
- the packet bus (`PipInv`): the count of operations is what is queued, waits or is being
  sent, except for a debt of a reset, and the slave's count likewise. `PipCarried` adds
  what is on the way: there are packets of which the beats in the queues are the beats
  (`InBeats`), but for those of the first one that the slave already has; that is what
  makes its checks pass, and it is why a reset may empty all four queues at once and
  nothing less;
- the DMA bus (`DmaInv`): the count of reads is what lies in its queues and on its wires
  (`DmaIdleIsIdle` with the types is inductive). `DmaCarried` says where the commands that
  wait for a response are: of the writes, the oldest ones are the numbers on their way
  back, in order, and the others are on their way beat by beat; of the reads, the oldest
  ones are on their way back beat by beat, then those in memory, then those not there yet.
  A response has no other name than its place, so this is what its check needs. It
  ends with a reset that hits a write (`hit`), after which the code's check does fail;
- the transmit bench (`BtqInv`): the chains counted are the ends of chains in the
  local buffer, one that is read has been asked for, and a queue that is told it is empty
  while it has a chain is about to be scheduled again.

From these `QueuesStayBounded`, `IdleStaysIdle` and `BusAlarmsAreReal`. `WiresCarry` is the refinement of
`FifoLink`, with what lies in the two queues and on the wires as its channel: an edge of
the clock moves items along and leaves the channel as it is, a send appends, a receive
takes the head, and a reset loses at most the item on the wires. `PacketsCarry` is the
same for the transactors: the channel of a packet that has been cut is given by where its
last beat is (`Ended`), which is what moves from one queue to the next. Two lemmas carry
both invariants: `BeatsMore`, a packet more behind, and `BeatsLess`, a beat less in
front. `SimBench_proofs` shows that the other benches leave the buses alone
(`BenchesAreLinks`), so that `BenchQueuesBounded`, `BenchIdleIsIdle`,
`BenchBusAlarmsAreReal`, `BenchWiresCarry` and `BenchPacketsCarry` hold of `SimBench` as the
run checks it.

`EngineLemmas` has what is needed of `%` (the SMT backend knows little of it when the
modulus is a constant): one turn up, one turn down, sums, distances and the uniqueness
of quotient and remainder. `Count` counts the entries of a sequence that belong to a
set, with how a push and a pop change that. `InOrder` has its lemmas there too, since the
predictor of the interrupts and the packets on a bus are both put in order with it.

TLC checked every strengthening as an invariant of the small instances before it was
proved.

Only model-checked: liveness and everything that needs fairness or ENABLED, which is out
of the prover's reach; and of the simulation `IdsKept`, `RefsKept`, `EndsLast`,
`TestsChecked`, `ReadsRight`, and `NoFalseAlarm` but for its part `NoBusAlarm`, which is
`BenchBusAlarmsAreReal`. They ask a question of up to twelve drivers at once, and most of
those add up or look through their lists with `FoldLeft`, `FoldSet` and `SelectSeq`: what a
fold computes for every list needs induction over data.

## Plan

1. (done) Scheduler, doorbell scheduler, index engine and their composition.
2. (done) `AvailRing` and `DescReqPorts`. Left: who takes the notifies of nettx and
   blk (with item 4), and the block queue's forced stop (with item 6).
3. `IrqMerge` (done) and `UsedRing`: order of element, index and interrupt; mask and
   pending; the FIFOs between the two.
4. `DescEngine` and `BlkDesc`: slot allocation and release; the linked buffer as a
   free list.
5. `RxBuf`: the linked packet list.
6. `Ctx`: CSR, error and stop FSMs with all pointers; the IDLE condition against all
   engines.
7. Theorems: the scheduler, the notification path, the avail ring engine and its ports,
   the interrupt merging and its predictor, the buses of the simulation (done). Left: the
   drivers of the simulation bench by bench; the free lists of item 4.
8. (done) The simulation: `SimBench` and its benches. Left: several queues of one
   device, with the QoS bench they share.

## Not modelled

Payload, checksums, segmentation and their data paths; DFX counters; parity and ECC;
clock-exact latencies, except where a register is used stale; reset, which only
occurs at the start (of the RTL; the simulation's buses are reset at any time). The parts
marked `not_modelled` in `PROJECT.json`. Of the simulation: checksums and the bytes of
packets, the PCIe enumeration of the benches, windows and address spaces (which translate
addresses), the accessors of tables (`emu`, `qos`, `sgdma`, `pcie_switch`, `dirty_log`) and
the register scripts (`script/dfx`), which are straight-line code; the bypass bus, which has the
shape of the DMA bus; `test_beq_rxq`, whose driver shares its parts with
`test_beq_txq`; `nettx_data_vq.py`, which no bench uses.
