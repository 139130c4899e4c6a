# TLA+ specifications of NVSHMEM

NVSHMEM gives GPU kernels one-sided access to the memory of other GPUs (PEs).
This directory models the parts of the library in which several actors share
state (GPU threads, the host proxy thread, the network, other PEs), checks the
models with TLC on small instances, and proves the central ones with TLAPS for
every instance.

`PROJECT.json` lists components, runs, the source lines each definition models,
the hazards of the code and which property watches each of them.

To repeat a check: `tlc -config ProxyChannel.cfg MCProxyChannel` (the config and
module of each run are in the tables below), and `tlapm` on each
module of kind proofs.

## 1. The system

Paths are relative to `src/src/`.

| part | state | operations |
|---|---|---|
| proxy channel, device side (`include/non_abi/device/pt-to-pt/proxy_device.cuh`) | `issue`, `complete_local`, ring of 8-byte entries, g buffer | reserve with atomicAdd, flow control, store of entries with a pass flag, quiet, qp quiet, fence, qp fence, g, fetching atomics, consistency call, global exit |
| proxy thread (`host/proxy/proxy.cpp`) | `processed`, `complete`, `last_sync`, `quiet_issue/ack`, `cst_issue/ack`, `issued_get`, `stop` | `progress`: global exit, quiet, cst, channels, transports |
| device barrier (`include/non_abi/device/coll/barrier.cuh`) | `sync_counter`, two copies of pSync per team | dissemination with radix k, power-of-two and general variants |
| device collectives (`include/non_abi/device/coll/`) | pSync, pWrk | broadcast, fcollect, reduce, alltoall, reducescatter |
| IBGDA (`include/non_abi/device/pt-to-pt/ibgda_device.cuh`, `modules/transport/ibgda/`) | `resv_head`, `ready_head`, `prod_idx`, `cons_idx` of a shared queue pair | reserve, publish in order, ring the doorbell, poll the CQ, quiet |
| host transports (`modules/transport/`: ibrc, ibdevx, libfabric, ucx, common) | head and tail of operations per endpoint, pools of atomics | rma, amo, fence, quiet, progress |
| teams (`host/team/`) | pool of team indices, pSync pool | split, agree on an index, destroy |
| init and finalize (`host/init/init.cu`) | init counter, status, device states | init, finalize, global exit, status |
| bootstrap (`modules/bootstrap/`, `host/bootstrap/`) | ring of sockets, queue of unexpected connections | allgather, alltoall, barrier, send, recv |
| symmetric heap (`host/mem/`) | heap chunks, handles, maps of free and used ranges | malloc, free, growth, registration |
| host calls, on-stream calls, topology, utilities | | argument preparation, launches, I/O |

How they interact. A GPU thread that cannot reach a peer by load and store puts
a request into the proxy channel; the proxy thread hands it to a host transport;
values come back through the g buffer. Quiet travels the same way: the device
publishes how far it issued, the proxy drains channel and transports, flushes
what arrived, and acknowledges. A barrier is a quiet, a dissemination over
signals, and a consistency call. Finalize and global exit stop the proxy thread.

What makes it hard: threads reserve in one order and store in another; counters
are read from stale copies; one flag bit separates two passes over the ring;
the host publishes progress late on purpose; signals of successive barrier
rounds overtake each other; the exit is carried out by the thread it stops.

What correctness means here:

- no entry of the ring is overwritten before it is consumed, and none is taken
  for an entry of another pass;
- requests reach the transport once, whole, in issue order (all but the PE of a qp
  fence, section 6);
- quiet and qp quiet return only when what they cover is complete and visible,
  and they do return;
- a value comes back to the call that asked for it, and an element of the
  g buffer serves one call at a time;
- nobody leaves a barrier that somebody has not entered, and everybody leaves;
- an exit is carried out once, with the winner's code, and, when the bootstrap has
  a global_exit to end the process with, without using freed state.

## 2. Modules

| module | models | kind |
|---|---|---|
| `ProxyChannel` | ring, flow control, flags, progress of channels, quiet, qp quiet | specification |
| `ProxyChannelTypes` | facts about its operators, type correctness | proofs |
| `ProxyChannelRing` | the invariant of the ring, reservation | proofs |
| `ProxyChannelDevice` | the steps of the GPU threads preserve it | proofs |
| `ProxyChannelHost` | the steps of the proxy preserve it; safety of the ring | proofs |
| `ProxyChannelQuiet` | order of the requests, what quiet promises | proofs |
| `MCProxyChannel` | instances for TLC | model |
| `ProxyCst` | consistency at the target | specification |
| `GBuf`, `MCGBuf` | g buffer and fetching atomics | specification, model |
| `ProxyExit` | global exit, finalize, end of the proxy thread | specification |
| `Barrier` | what a barrier promises | abstract specification |
| `DissemBarrier`, `MCDissemBarrier` | the dissemination barrier, shown to implement `Barrier` | specification, model |

A definition introduced by the comment "Mutation:" is not part of the
specification. It is the following definition with a plausible mistake; replacing
one by the other must make the property that `PROJECT.json` names fail.

### ProxyChannel

All counters of the code are bytes and multiples of the entry size 8; here they
count entries. `BufSize` is `proxy_channel_buf_size / 8`, `SyncEvery` the
1024 bytes of `proxy_update_processed`, `BatchMax` is `PROXY_REQUEST_BATCH_MAX`.
A request is a record with its op, its target PE, its queue pair handles and `pos`,
the index its atomicAdd returned, which stands for the other operands and makes
requests distinct. `Endpoints` are the pairs of a PE and a queue pair that requests
name; a qp fence or qp quiet names a PE and a list, one of the `SyncArgs`. A transport
completes and drains each pair by itself: `Drained(pe, qps)` says nothing is left in
flight to this PE on these queue pairs.

| code | model |
|---|---|
| `transfer_dma`, `transfer_inline`, `amo`, `nvshmemi_proxy_put_signal_nbi`, `proxy_fence`, `proxy_fence_qp`, `proxy_qp_quiet` | `IssueDma` ... `IssueQpQuiet` (the atomicAdd), then `CheckLocal`, `WaitComplete`, `UpdateLocal` (`check_channel_availability`), `StoreEntry` per entry in any order, `Stored` |
| the wait at the end of `proxy_qp_quiet` | `QpQuietReturn` |
| `proxy_quiet` | `QuietLoad`, `QuietMax`, `QuietReturn` |
| `progress_quiet` | `QuietCheck`, `QuietStart` (the two reads of `quiet_issue`), `QuietTest`, `QuietDrain`, `QuietAck` |
| `progress_channels` | `Poll`, `Gather` (the spin on every flag), `Process...` by op code, `UpdateProcessed` |
| `process_channel_qp_quiet` | `ProcessQpQuiet`, with the forced update of `complete` |
| the network | `NicComplete`: any request in flight completes; gets and fetching atomics then wait in `landed` for a flush |

`Decode` reads the entries as the processing functions do; entries that do not
belong together decode to a request nobody issued. `Unpacked` is what the host's
structs make of the fields the device packed: the same, except for a qp fence, whose
entries have the op code at the bits where the host looks for the PE (PEs are one
byte here; above 255 the fields also overlap). `DevEntries` is the size the
device reserves, `HostEntries` the size the host consumes; they come from
different code and their agreement is a consequence, not an assumption. `hist`
is a history variable.

Left out: the other bytes of an entry (planned as a module of its own), channels other
than the first (the device uses one), the group size (always 1), the diagnostic
timeout, error returns of transports (the code exits).

### ProxyCst

`ConditionMet` is the end of a wait or test, `LoadTicket`, `PublishTicket` and
`Return` are `nvshmemi_proxy_enforce_consistency_at_target`; `CstCheck`,
`CstTake`, `EnforceCst` and `CstAck` are `progress_cst`. The ticket is the value
of `issue`. `arrived` and `flushed` count writes of other PEs. The platform is one
on which `enforce_cst` matters: the GPU does not order GPUDirect RDMA writes by
itself (`proxy.cpp` line 699) and `BYPASS_FLUSH` is not set (line 696). The flush is
`cuFlushGPUDirectRDMAWrites`, or without that API the read or event that lines
714-734 use in its place.

### GBuf

A call takes a ticket (`TakeTicket`), waits for its element (`Request`), waits for
its value (`Arrived`: a qp quiet, or the flag of an atomic's response), reads and
releases. `on_quiet` is `atomics_complete_on_quiet`, fixed for a job. The request
channel is abstracted to what `QpQuietComplete` says of it. A warp-wide g (`G_WARP`)
is one actor: lane 0 does everything but the read, and the warp is synchronised
around it.

### ProxyExit

GPU threads (`CasInit`, `StoreCode`, `CasRequested`), the proxy thread's loop
(`ProgressExit` ... `ProgressLoop`) and the main thread (`FinalizeStop`,
`GlobalExitStop`, `Join`, `MainBootExit`). On the proxy thread `pthread_join` of itself
fails at once (EDEADLK). Of the teardown only the frees of the connection state
that the proxy uses are counted; the later frees of channels and exit state, and the
early return that skips them, are left out. `MainCalls` are the calls of the main
thread: both in run global_exit, none in global_exit_no_boot, where the question is
what the proxy thread does with a request. `global_exit_request_state` starts at zero, what a
fresh pinned page holds; the host never stores it (see the hazard).

### DissemBarrier

One team, and a job (`job`, constant in a behaviour) that fixes the radix, whether
GPUs are P2P-connected, how signals travel, and the bound on rounds. `Enter`, `Notify` (signals of a
phase), `Deliver` (a signal becomes visible, any order), `EndPhase`. `Selector`,
`Pow2` and `K` are the choice in `nvshmemi_sync_algo_threadgroup`, with its lower bound
of 2 on the radix; the general variants read the radix again without that bound, and
`BarrierAssumption` excludes the jobs in which they would divide by 0 or 1 (a
P2P-connected block with such a radix; see the hazard). `Shift` is the
neighbour distance of the variant chosen. The threads of a group divide the
neighbours of a phase and meet at its end; the phase is therefore one wait for all
of them. `Synchronizes` says the module implements `Barrier` under the mapping
`entered = rounds begun`, `left = rounds finished`. With `direct` the stores of one
phase are one step: exact for radix 2, where there is one; run barrier_radix4 uses
it to find a counterexample, for which fewer interleavings are no loss.

## 3. Runs

| run | config | question and bounds |
|---|---|---|
| channel | `ProxyChannel.cfg` | two threads, two PEs, one reached on the default queue pair and one on another, ring of 4; puts (3 or 4 entries), gets (4), qp quiets (2) of the second PE, and quiets; 9 entries issued: more than two passes, so both flag values are reused |
| channel_ops | `ProxyChannelOps.cfg` | all other operations from one thread, to one PE, with a ring of 8 (the largest request has 6 entries) and 9 entries issued, so that each kind of several entries straddles the end of the ring; fetching atomics complete on quiet |
| channel_live | `ProxyChannelLive.cfg` | inline puts, quiets and qp quiets of two threads return, although quiets wait for puts in flight; 7 entries issued, `complete` published every second entry and a ring of 4, the least that works for requests of 3 |
| cst | `ProxyCst.cfg` | two callers, three requests, three arrivals: a new ticket buys a flush, and every call returns |
| g_buf | `GBuf.cfg` | three threads, two elements, three rounds, two queue pairs, both ways of completing atomics; safety and termination of calls |
| global_exit | `ProxyExit.cfg` | three requesters, finalize and exit on the host, a bootstrap with a global_exit |
| barrier | `DissemBarrier.cfg` | 5 PEs (no power of two): radix 2 over the network for 3 rounds, so that each copy of pSync is used again; radix 3, with several neighbours per phase; P2P-connected blocks with plain stores; a configured radix of 1 |
| cst_shared_ticket, barrier_radix4, g_buf_qp, global_exit_no_boot, fence_qp | | expected violations, section 6 |

Why the bounds are enough. The channel's protocol depends on differences of
counters less than a ring apart and on one flag bit, so two passes and a bit show
all of its cases; the proofs remove the bound for safety. `MaxIssue`, `MaxHead`,
`rounds`, `MaxArrive` bound counters that are 64 bits wide and never wrap in the
life of a job (the code's own argument, `proxy_device.cuh` line 222). Symmetry over threads
is used only in runs without liveness.

Deadlock is checked in the channel runs: the proxy never stops polling, and a
thread that cannot go on is caught by `OperationsReturn`. In the other modules the
system may stop once the bound is reached or the process has ended.

## 4. Fairness

- `WF(Continue(t))`: a GPU thread that started an operation is resident and keeps
  running. Nobody is obliged to start one.
- `WF(Host)` / `WF(Proxy)`: the proxy is a host thread in a `while (!stop)` loop.
- `WF(NicComplete)`, `WF(Complete)`, `WF(Deliver)`: a reliable network completes what it was
  given (RC queue pairs). `NicComplete` need not pick a given request, but the
  number in flight is bounded, so all of them complete.
- In `DissemBarrier` a PE also has to enter the next round: the barrier is a collective,
  every PE has to call it.
- In `ProxyExit` the main thread is only obliged to go on with an exit it has begun.

All are weak: no action is assumed to happen that is not continuously possible.

With `BufSize >= SyncEvery + (largest request) - 1` the channel is live. The code
has 524288 entries, 128 and 6, except that a qp fence or qp quiet over n queue
pairs takes n + 1; below the bound all threads may wait for room that has been free
for long.

## 5. Proofs

The five modules `ProxyChannelTypes`, `ProxyChannelRing`, `ProxyChannelDevice`,
`ProxyChannelHost` and `ProxyChannelQuiet`, each extending the one before, prove for
every ring size, update interval, batch size, set of threads, set of endpoints and
set of operations:

| theorem | module | states |
|---|---|---|
| `TypeCorrect` | `ProxyChannelTypes` | `TypeOK` |
| `ChannelInvariant` | `ProxyChannelHost` | the inductive invariant `ChannelInv` |
| `NoOverwrite` | `ProxyChannelHost` | `EntriesIntact` |
| `NoStaleEntry` | `ProxyChannelHost` | `FlagsFresh` |
| `IssueOrder` | `ProxyChannelQuiet` | `PostedInIssueOrder` |
| `QuietIsComplete` | `ProxyChannelQuiet` | `QuietComplete` |
| `QpQuietIsComplete` | `ProxyChannelQuiet` | `QpQuietComplete` |

The only assumption is `ConstantsAssumption` (positive sizes, the default queue
pair is one of the queue pairs, PEs fit one byte, lists are sequences of queue
pairs). The ring size
need not be a power of two in the proofs; it is in the code.

The argument. `EntriesIntact` and `FlagsFresh` are not inductive: whether a store
destroys an entry depends on what its thread concluded from an old `complete`.
`ChannelInv` adds

- `Counters`: `complete_local <= complete <= processed <= issue`, so an old value of
  `complete` errs on the safe side;
- `History`: the index range is partitioned into requests;
- `Threads`: a writing thread owns its range alone, and once it stores, the end of
  its range is at most one ring past `complete`;
- `Window`: the same for everything already stored;
- `Frame` and `Gathering`: the proxy stands at the start of a request, everything
  before is stored, and what it has gathered is stored and belongs together.

Two indices less than a ring apart have different slots (`SlotInjective`), and one ring
further on the flag is the other one (`NextPass`); with `Window` this gives the two
safety properties. That the device and the host agree on sizes is the lemma
`SizesAgree`. With it `DecodeGathered` shows that the host decodes exactly the fields
the issuer packed (`Unpacked` of the request issued), and `IssueOrder` follows: once, in
order, op and queue pairs those of the issuer, and the PE too for every op but the qp
fence.

For quiet, `Outstanding` says that what is in flight or waiting for a flush was
consumed, and that `issued_get` is set whenever something needs a flush; `Acked` that
everything below `quiet_ack` is done; `QpAcked` that a consumed qp quiet leaves
nothing open before it to its PE on its queue pairs.

Only model-checked: all liveness properties (the prover does not handle fairness
with ENABLED), `ProxyCst`, `GBuf`, `ProxyExit`, `DissemBarrier` and the refinement of
`Barrier`.

## 6. Where code and text disagree

- **Consistency calls share tickets** (`cst_shared_ticket`, `proxy_device.cuh` line 151). The
  ticket is `issue`, which does not move when a thread only waits. A second wait with
  no request in between returns without a flush, although the put_signal tests read the
  data right after the wait (`test/device/pt-to-pt/put_signal.cu` lines 58 and 64), and
  dropping the flush of a wait is an option that is off by default (`env_defs.h` line
  327). What holds is `FreshTicketFlushes`.
- **Radix above 2 in the power-of-two barrier** (`barrier_radix4`, `barrier.cuh` line 45).
  Distances are `j << phase_num` where the radix needs `j << (phase_num * logk)`. With
  radix 4 and 11 PEs a PE leaves before another has entered. The default radix, 2, is
  not affected.
- **A single-thread g on its own queue pair** (`g_buf_qp`, `proxy_device.cuh` line 461). The get
  is posted on the default queue pair and the quiet waits for the caller's.
- **Global exit with a bootstrap that has none** (`global_exit_no_boot`, `init.cu` line 1343).
  `nvshmem_global_exit` on the proxy thread then returns, the thread finishes its
  iteration on the transport it has freed and ends, and the requesting GPU thread spins
  for ever. `TornDownOnce` is therefore only claimed for bootstraps that have one.
- **The PE of a qp fence** (`fence_qp`, `proxy_device.cuh` line 790). `proxy_fence_qp` packs
  op and pe in the opposite order from the layout in its comment (line 783) and from
  `qp_sync_request_0_t`. The host reads the op code, 106, as the PE (`proxy.cpp` line 952):
  the PE named is not fenced, and with 106 PEs or fewer the index is past the array.

## 7. Plan

In this order; each module gets its runs and, where the argument is inductive, its
theorems.

1. `ProxyRequest`: the layout of entries, packing on the device against decoding on
   the host, for every field of every request.
2. `IbgdaQp`: reservation, ordered publication, doorbell by the last of a batch, 16-bit
   completion counter against 64-bit indices, quiet. Abstract specification: a FIFO of
   work requests. Theorems: no slot reused before completion, nothing published is left
   without a doorbell.
3. `IbTransport`: endpoints per PE and queue pair, round-robin over default queue pairs,
   fence as quiet, waits for room in a send queue; then the pools of IBRC atomics and
   the counters of libfabric. Composition with `ProxyChannel`: its `Drained` is what this
   module promises.
4. `Team`: agreement on an index by AND reduction, split with overlapping parents,
   destroy, reuse of pSync.
5. `InitFinalize`: counted init and finalize, registration of device states.
6. `UidBootstrap`: root thread, ring, unexpected connections, allgather and barrier.
7. Collectives: broadcast, fcollect, ring and recursive-exchange reduction, alltoall,
   with pSync reuse between successive calls.
8. `SymmetricHeap`: collective allocation, growth, `custom_malloc`'s maps of free and
   used ranges against a reference allocator.
9. Composition of barrier, quiet and consistency call: data put before a barrier is
   visible after it. Abstract FIFO queue implemented by `ProxyChannel`.
10. Theorems for `GBuf` (`OneHolder`, `ReturnsOwnValue`), `ProxyCst` (`FreshTicketFlushes`),
    `ProxyExit` (`TornDownOnce`, `CodeBeforeExit`) and the signals of `DissemBarrier`
    (`SlotsGrow`).

## 8. Not modelled

dlmalloc, NVTX, the PMI client and the mlx5 headers are imported or generated code.
Topology detection, logging, parsing of environment variables and loading of plugins
are I/O and formatting. MPI, SHMEM, PMI and PMIx bootstraps, UCX and NCCL calls
forward to libraries. Python bindings, examples, benchmarks and tile-granular APIs are
users of the parts above.
