--------------------------- MODULE ProxyChannel ---------------------------
(***************************************************************************)
(* The request channel between GPU threads and the host proxy thread.      *)
(*                                                                         *)
(* GPU threads reserve room in a ring of 8-byte entries with an atomicAdd  *)
(* on `issue', wait for flow control, and store their entries, each with a *)
(* flag that says which pass over the ring it belongs to.  One host thread *)
(* (progress in proxy.cpp) polls the flags, hands every request to a       *)
(* transport, publishes `complete' now and then, and serves quiet.         *)
(*                                                                         *)
(* All counters of the code are byte counts that are multiples of the      *)
(* entry size; here they count entries.  BufSize stands for                *)
(* channel_bufsize / 8 and SyncEvery for the 1024 bytes of                 *)
(* proxy_update_processed / 8.  What a request means to the transport is   *)
(* its record: the op, the target PE, the queue pairs, and `pos', the      *)
(* index its issuer got from atomicAdd, which stands for the other         *)
(* operands and makes every request different.  A transport keeps one      *)
(* endpoint for every pair of a PE and a queue pair.                       *)
(***************************************************************************)
EXTENDS Integers, Sequences

CONSTANTS Thread,        \* GPU threads that use the channel
          BufSize,       \* entries in the ring (proxy_channel_buf_size / 8)
          SyncEvery,     \* entries processed between two updates of complete
          BatchMax,      \* PROXY_REQUEST_BATCH_MAX
          QP,            \* queue pair handles
          QpDefault,     \* NVSHMEMX_QP_DEFAULT
          Endpoints,     \* pairs of a PE and a queue pair that requests name
          SyncArgs,      \* pairs of a PE and a qp_handle array passed to qp
                         \* fence and quiet
          Ops,           \* operations the threads issue, a subset of AllOps
          FetchOnQuiet,  \* nvshmemi_device_state.atomics_complete_on_quiet
          MaxIssue       \* bound: no request is issued past this entry

DmaOps == {"PUT", "GET", "G"}
SyncOps == {"FENCE_QP", "QUIET_QP"}
RequestOps == DmaOps \cup SyncOps \cup {"P", "AMO", "FETCH", "PUT_SIGNAL", "FENCE"}
AllOps == RequestOps \cup {"QUIET"}
\* NVSHMEMI_OP_FENCE_QP.
FenceQpCode == 106

ASSUME ConstantsAssumption ==
    /\ BufSize \in Nat \ {0}
    /\ SyncEvery \in Nat \ {0}
    /\ BatchMax \in Nat \ {0}
    /\ MaxIssue \in Nat
    /\ QpDefault \in QP
    /\ Endpoints \subseteq (0 .. 255) \X QP     \* one byte of PE: see Unpacked
    /\ SyncArgs \subseteq (0 .. 255) \X Seq(QP)
    /\ Ops \subseteq AllOps
    /\ FetchOnQuiet \in BOOLEAN

VARIABLES
    (* device memory *)
    issue,           \* proxy_channels_issue, the next free index
    complete_local,  \* proxy_channels_complete_local_ptr
    pc, req, wrote,  \* of each thread: control state, current request,
                     \* offsets of it already stored
    tgt,             \* of each thread: value its quiet waits for, or the
                     \* value of complete it is about to fold into the cache
    (* pinned host memory, shared by GPU and host *)
    buf, complete, quiet_issue, quiet_ack,
    (* the proxy thread *)
    hpc, processed, last_sync, last_quiet_issue, quiet_active, issued_get,
    gathered,        \* entries of the current request seen so far
    nbatch,          \* iterations done in progress_channels
    (* the transports *)
    posted,          \* requests handed to the transport, in order
    inflight,        \* ... not complete yet
    landed,          \* ... complete, their data not flushed to the GPU yet
    (* history *)
    hist             \* index |-> the request atomicAdd assigned it to

dvars == <<issue, complete_local, pc, req, wrote, tgt, hist>>
hvars == <<hpc, processed, last_sync, last_quiet_issue, quiet_active,
           issued_get, gathered, nbatch>>
svars == <<buf, complete, quiet_issue, quiet_ack>>
tvars == <<posted, inflight, landed>>
vars == <<dvars, svars, hvars, tvars>>

-----------------------------------------------------------------------------
(* Requests and entries *)

\* A request that no thread issued: what a cleared entry decodes to.
Blank == [pos |-> 0, op |-> "NONE", pe |-> 0, qps |-> <<>>]
Request == [pos : Nat, op : RequestOps \cup {"NONE"}, pe : Nat, qps : Seq(QP)]

Slot(p) == p % BufSize
\* Mutations: the pass number is not reduced to one bit, or not used at all.
FlagNoMask(p) == 1 - (p \div BufSize)
FlagConstant(p) == 1
Flag(p) == 1 - ((p \div BufSize) % 2)

IsQp(r) == r.qps # <<QpDefault>>
One(b) == IF b THEN 1 ELSE 0

\* Entries a GPU thread reserves for a request.
DevEntries(r) ==
    IF r.op \in SyncOps THEN Len(r.qps) + 1
    ELSE IF r.op \in DmaOps THEN 4
    ELSE IF r.op = "PUT_SIGNAL" THEN 6
    ELSE IF r.op = "P" THEN 3 + One(IsQp(r))
    ELSE IF r.op \in {"AMO", "FETCH"} THEN 5 + One(IsQp(r))
    ELSE 1

\* Mutation: the _QP op codes dispatched like the plain ones.
HostEntriesNoQp(r) ==
    IF r.op = "P" THEN 3
    ELSE IF r.op \in {"AMO", "FETCH"} THEN 5
    ELSE IF r.op \in DmaOps THEN 4
    ELSE IF r.op = "PUT_SIGNAL" THEN 6
    ELSE IF r.op \in SyncOps THEN Len(r.qps) + 1
    ELSE 1

\* Entries the proxy consumes for a request: progress_channels chooses the
\* processing function by the op code, which has a _QP variant or not.
HostEntries(r) ==
    IF r.op = "P" THEN IF IsQp(r) THEN 4 ELSE 3
    ELSE IF r.op \in {"AMO", "FETCH"} THEN IF IsQp(r) THEN 6 ELSE 5
    ELSE IF r.op \in DmaOps THEN 4
    ELSE IF r.op = "PUT_SIGNAL" THEN 6
    ELSE IF r.op \in SyncOps THEN Len(r.qps) + 1
    ELSE 1

\* The PE and the qp handles an operation may name; proxy_fence names neither.
Args(op) ==
    IF op \in SyncOps THEN SyncArgs
    ELSE IF op = "FENCE" THEN {<<0, <<>>>>}
    ELSE {<<e[1], <<e[2]>>>> : e \in Endpoints}

\* Operations whose completion writes to this GPU's memory.
Inbound(r) ==
    \/ r.op \in {"GET", "G"}
    \/ r.op = "FETCH" /\ FetchOnQuiet

Max2(a, b) == IF a >= b THEN a ELSE b

-----------------------------------------------------------------------------
(* The GPU threads *)

\* atomicAdd on proxy_channels_issue, at the start of every request function.
Reserve(t, op, pe, qps) ==
    LET r == [pos |-> issue, op |-> op, pe |-> pe, qps |-> qps]
        n == DevEntries(r)
    IN  /\ pc[t] = "idle"
        /\ issue + n <= MaxIssue
        /\ issue' = issue + n
        /\ req' = [req EXCEPT ![t] = r]
        /\ pc' = [pc EXCEPT ![t] = "avail"]
        /\ hist' = [p \in 0 .. issue' - 1 |->
                      IF p < issue THEN hist[p] ELSE r]
        /\ UNCHANGED <<complete_local, wrote, tgt, svars, hvars, tvars>>

\* Mutation: room is checked for the first entry only.
CheckLocalHead(t) ==
    /\ pc[t] = "avail"
    /\ pc' = [pc EXCEPT ![t] =
                IF complete_local + BufSize < req[t].pos + 1
                THEN "wait_complete" ELSE "write"]
    /\ UNCHANGED <<issue, complete_local, req, wrote, tgt, hist,
                   svars, hvars, tvars>>

\* check_channel_availability, the test on the cached counter.
CheckLocal(t) ==
    /\ pc[t] = "avail"
    /\ pc' = [pc EXCEPT ![t] =
                IF complete_local + BufSize < req[t].pos + DevEntries(req[t])
                THEN "wait_complete" ELSE "write"]
    /\ UNCHANGED <<issue, complete_local, req, wrote, tgt, hist,
                   svars, hvars, tvars>>

\* check_channel_availability, the spin on the host's counter.  The code loads
\* complete once more for the atomicMax; complete only grows, so a later load
\* is a later step of this action.
WaitComplete(t) ==
    /\ pc[t] = "wait_complete"
    /\ complete + BufSize >= req[t].pos + DevEntries(req[t])
    /\ tgt' = [tgt EXCEPT ![t] = complete]
    /\ pc' = [pc EXCEPT ![t] = "atomic_max"]
    /\ UNCHANGED <<issue, complete_local, req, wrote, hist,
                   svars, hvars, tvars>>

UpdateLocal(t) ==
    /\ pc[t] = "atomic_max"
    /\ complete_local' = Max2(complete_local, tgt[t])
    /\ tgt' = [tgt EXCEPT ![t] = 0]
    /\ pc' = [pc EXCEPT ![t] = "write"]
    /\ UNCHANGED <<issue, req, wrote, hist, svars, hvars, tvars>>

\* The store of one entry becomes visible to the host.  Nothing orders the
\* stores of one request among themselves.
StoreEntry(t) ==
    /\ pc[t] = "write"
    /\ \E k \in (0 .. DevEntries(req[t]) - 1) \ wrote[t] :
         LET p == req[t].pos + k
         IN  /\ buf' = [buf EXCEPT ![Slot(p)] =
                          [flag |-> Flag(p), req |-> req[t], off |-> k]]
             /\ wrote' = [wrote EXCEPT ![t] = @ \cup {k}]
    /\ UNCHANGED <<issue, complete_local, pc, req, tgt, hist, complete,
                   quiet_issue, quiet_ack, hvars, tvars>>

\* All entries stored: the call returns, except a qp quiet, which waits.
Stored(t) ==
    /\ pc[t] = "write"
    /\ wrote[t] = 0 .. DevEntries(req[t]) - 1
    /\ pc' = [pc EXCEPT ![t] =
                IF req[t].op = "QUIET_QP" THEN "qp_quiet" ELSE "idle"]
    /\ wrote' = [wrote EXCEPT ![t] = {}]
    /\ UNCHANGED <<issue, complete_local, req, tgt, hist,
                   svars, hvars, tvars>>

QpQuietReturn(t) ==
    /\ pc[t] = "qp_quiet"
    /\ complete >= req[t].pos + DevEntries(req[t])
    /\ pc' = [pc EXCEPT ![t] = "idle"]
    /\ UNCHANGED <<issue, complete_local, req, wrote, tgt, hist,
                   svars, hvars, tvars>>

\* proxy_quiet: load issue, atomicMax into quiet_issue, spin on quiet_ack.
QuietLoad(t) ==
    /\ "QUIET" \in Ops
    /\ pc[t] = "idle"
    /\ tgt' = [tgt EXCEPT ![t] = issue]
    /\ pc' = [pc EXCEPT ![t] = "quiet_max"]
    /\ UNCHANGED <<issue, complete_local, req, wrote, hist,
                   svars, hvars, tvars>>

\* Mutation: a plain store instead of atomicMax.
QuietStore(t) ==
    /\ pc[t] = "quiet_max"
    /\ quiet_issue' = tgt[t]
    /\ pc' = [pc EXCEPT ![t] = "quiet_wait"]
    /\ UNCHANGED <<issue, complete_local, req, wrote, tgt, hist,
                   buf, complete, quiet_ack, hvars, tvars>>

QuietMax(t) ==
    /\ pc[t] = "quiet_max"
    /\ quiet_issue' = Max2(quiet_issue, tgt[t])
    /\ pc' = [pc EXCEPT ![t] = "quiet_wait"]
    /\ UNCHANGED <<issue, complete_local, req, wrote, tgt, hist,
                   buf, complete, quiet_ack, hvars, tvars>>

QuietReturn(t) ==
    /\ pc[t] = "quiet_wait"
    /\ quiet_ack >= tgt[t]
    /\ tgt' = [tgt EXCEPT ![t] = 0]
    /\ pc' = [pc EXCEPT ![t] = "idle"]
    /\ UNCHANGED <<issue, complete_local, req, wrote, hist,
                   svars, hvars, tvars>>

\* The request functions: each starts with its atomicAdd.
IssueOne(t, ops) ==
    \E op \in Ops \cap ops : \E a \in Args(op) : Reserve(t, op, a[1], a[2])

IssueDma(t) == IssueOne(t, DmaOps)
IssueInline(t) == IssueOne(t, {"P"})
IssueAmo(t) == IssueOne(t, {"AMO", "FETCH"})
IssuePutSignal(t) == IssueOne(t, {"PUT_SIGNAL"})
IssueFence(t) == IssueOne(t, {"FENCE"})
IssueQpFence(t) == IssueOne(t, {"FENCE_QP"})
IssueQpQuiet(t) == IssueOne(t, {"QUIET_QP"})

Issue(t) ==
    \/ IssueDma(t) \/ IssueInline(t) \/ IssueAmo(t) \/ IssuePutSignal(t)
    \/ IssueFence(t) \/ IssueQpFence(t) \/ IssueQpQuiet(t)

Device(t) ==
    \/ Issue(t) \/ CheckLocal(t) \/ WaitComplete(t) \/ UpdateLocal(t)
    \/ StoreEntry(t) \/ Stored(t) \/ QpQuietReturn(t)
    \/ QuietLoad(t) \/ QuietMax(t) \/ QuietReturn(t)

-----------------------------------------------------------------------------
(* The proxy thread: progress calls progress_quiet, then progress_channels. *)

Seen(p) == buf[Slot(p)].flag = Flag(p)

\* progress_quiet with no quiet in progress: the first read of quiet_issue.
QuietCheck ==
    /\ hpc = "quiet" /\ ~quiet_active
    /\ hpc' = IF quiet_issue > last_quiet_issue THEN "quiet_load" ELSE "poll"
    /\ UNCHANGED <<processed, last_sync, last_quiet_issue, quiet_active,
                   issued_get, gathered, nbatch, dvars, svars, tvars>>

\* The second read of quiet_issue; PROXY_QUIET_STATUS_CHANNELS_IN_PROGRESS.
QuietStart ==
    /\ hpc = "quiet_load"
    /\ last_quiet_issue' = quiet_issue
    /\ quiet_active' = TRUE
    /\ hpc' = "quiet"
    /\ UNCHANGED <<processed, last_sync, issued_get, gathered, nbatch,
                   dvars, svars, tvars>>

\* Mutation: the transports are drained before the channel is.
QuietTestSkipped ==
    /\ hpc = "quiet" /\ quiet_active
    /\ hpc' = "quiet_drain"
    /\ UNCHANGED <<processed, last_sync, last_quiet_issue, quiet_active,
                   issued_get, gathered, nbatch, dvars, svars, tvars>>

\* quiet_channels_test; PROXY_QUIET_STATUS_CHANNELS_DONE when it succeeds.
QuietTest ==
    /\ hpc = "quiet" /\ quiet_active
    /\ hpc' = IF processed >= last_quiet_issue THEN "quiet_drain" ELSE "poll"
    /\ UNCHANGED <<processed, last_sync, last_quiet_issue, quiet_active,
                   issued_get, gathered, nbatch, dvars, svars, tvars>>

\* host_ops.quiet on every peer has returned; enforce_cst if a get was issued.
QuietDrain ==
    /\ hpc = "quiet_drain"
    /\ inflight = {}
    /\ landed' = IF issued_get THEN {} ELSE landed
    /\ issued_get' = FALSE
    /\ hpc' = "quiet_ack"
    /\ UNCHANGED <<processed, last_sync, last_quiet_issue, quiet_active,
                   gathered, nbatch, dvars, svars, posted, inflight>>

QuietAck ==
    /\ hpc = "quiet_ack"
    /\ quiet_ack' = last_quiet_issue
    /\ quiet_active' = FALSE
    /\ hpc' = "poll"
    /\ UNCHANGED <<processed, last_sync, last_quiet_issue, issued_get, gathered,
                   nbatch, dvars, buf, complete, quiet_issue, tvars>>

\* progress_channels: look for a new request, at most BatchMax times.
Poll ==
    /\ hpc = "poll"
    /\ IF nbatch < BatchMax /\ Seen(processed)
       THEN hpc' = "gather" /\ nbatch' = nbatch + 1
       ELSE hpc' = "quiet" /\ nbatch' = 0
    /\ gathered' = 1
    /\ UNCHANGED <<processed, last_sync, last_quiet_issue, quiet_active,
                   issued_get, dvars, svars, tvars>>

\* The first entry of the request at `processed', which has the op code.
First == buf[Slot(processed)].req

\* What the host's structs make of the fields the issuer packed.  They agree
\* except for the entries of a qp fence: proxy_fence_qp packs op << 16 and
\* pe << 8, and qp_sync_request_0_t has op at bit 8 and pe at bit 16, so the host
\* finds the op code where it looks for the PE (and, of a PE above 255, the high
\* byte as well).  The op code of the first entry is where both expect it.
Unpacked(r) ==
    IF r.op = "FENCE_QP"
    THEN [pos |-> r.pos, op |-> r.op, pe |-> FenceQpCode, qps |-> r.qps]
    ELSE r

\* The request at `processed', as the processing functions read it.  Entries
\* that do not belong together decode to a request nobody issued.
Decode ==
    IF \A k \in 0 .. HostEntries(First) - 1 :
         LET e == buf[Slot(processed + k)] IN e.req = First /\ e.off = k
    THEN Unpacked(First) ELSE Blank

\* The spin on the flag of the next entry of the current request.
Gather ==
    /\ hpc = "gather"
    /\ gathered < HostEntries(First)
    /\ Seen(processed + gathered)
    /\ gathered' = gathered + 1
    /\ UNCHANGED <<hpc, processed, last_sync, last_quiet_issue, quiet_active,
                   issued_get, nbatch, dvars, svars, tvars>>

\* proxy_update_processed.
UpdateProcessed(n, force) ==
    /\ processed' = processed + n
    /\ IF processed' - last_sync >= SyncEvery \/ force
       THEN complete' = processed' /\ last_sync' = processed'
       ELSE UNCHANGED <<complete, last_sync>>

\* Mutation: issued_get is set by gets and not by fetching atomics.
PostGetsOnly ==
    /\ hpc = "gather"
    /\ gathered = HostEntries(First)
    /\ posted' = Append(posted, Decode)
    /\ inflight' = IF Decode.op \in {"FENCE", "FENCE_QP"} THEN inflight
                   ELSE inflight \cup {Decode}
    /\ issued_get' = (issued_get \/ Decode.op \in {"GET", "G"})
    /\ UpdateProcessed(HostEntries(Decode), FALSE)
    /\ hpc' = "poll"
    /\ UNCHANGED <<last_quiet_issue, quiet_active, gathered, nbatch, dvars,
                   buf, quiet_issue, quiet_ack, landed>>

\* What the processing functions share: all entries are there; the request goes
\* to the transport.
Post ==
    /\ hpc = "gather"
    /\ gathered = HostEntries(First)
    /\ posted' = Append(posted, Decode)
    /\ inflight' = IF Decode.op \in {"FENCE", "FENCE_QP"} THEN inflight
                   ELSE inflight \cup {Decode}
    /\ issued_get' = (issued_get \/ Inbound(Decode))
    /\ UpdateProcessed(HostEntries(Decode), FALSE)
    /\ hpc' = "poll"
    /\ UNCHANGED <<last_quiet_issue, quiet_active, gathered, nbatch, dvars,
                   buf, quiet_issue, quiet_ack, landed>>

\* progress_channels chooses the function by the op code of the first entry.
ProcessDma == First.op \in DmaOps /\ Post
ProcessInline == First.op = "P" /\ Post
ProcessAmo == First.op \in {"AMO", "FETCH"} /\ Post
ProcessPutSignal == First.op = "PUT_SIGNAL" /\ Post
ProcessFence == First.op = "FENCE" /\ Post
\* The PE decoded indexes proxy_state->transport.  With fewer PEs than the op
\* code that is a read past the array; what is recorded is the index used.
ProcessQpFence == First.op = "FENCE_QP" /\ Post

Process ==
    \/ ProcessDma \/ ProcessInline \/ ProcessAmo \/ ProcessPutSignal
    \/ ProcessFence \/ ProcessQpFence

\* Mutation: the PE of the request is ignored.
DrainedAtZero(pe, qps) ==
    \A r \in inflight : \A i \in 1 .. Len(qps) : ~(r.pe = 0 /\ r.qps = <<qps[i]>>)

\* The transport's quiet on the endpoints of one PE, those of the named queue
\* pairs, has nothing to wait for.
Drained(pe, qps) ==
    \A r \in inflight : \A i \in 1 .. Len(qps) : ~(r.pe = pe /\ r.qps = <<qps[i]>>)

\* process_channel_qp_quiet.
ProcessQpQuiet ==
    /\ hpc = "gather"
    /\ gathered = HostEntries(First)
    /\ First.op = "QUIET_QP"
    /\ Drained(Decode.pe, Decode.qps)
    /\ landed' = IF issued_get THEN {} ELSE landed
    /\ posted' = Append(posted, Decode)
    /\ UpdateProcessed(HostEntries(Decode), TRUE)
    /\ hpc' = "poll"
    /\ UNCHANGED <<last_quiet_issue, quiet_active, issued_get, gathered, nbatch,
                   dvars, buf, quiet_issue, quiet_ack, inflight>>

Host ==
    \/ QuietCheck \/ QuietStart \/ QuietTest \/ QuietDrain \/ QuietAck
    \/ Poll \/ Gather \/ Process \/ ProcessQpQuiet

\* The network completes a request; requests complete in any order.
NicComplete ==
    /\ \E r \in inflight :
         /\ inflight' = inflight \ {r}
         /\ landed' = IF Inbound(r) THEN landed \cup {r} ELSE landed
    /\ UNCHANGED <<posted, dvars, svars, hvars>>

-----------------------------------------------------------------------------
Init ==
    /\ issue = 0 /\ complete_local = 0
    /\ pc = [t \in Thread |-> "idle"]
    /\ req = [t \in Thread |-> Blank]
    /\ wrote = [t \in Thread |-> {}]
    /\ tgt = [t \in Thread |-> 0]
    /\ buf = [s \in 0 .. BufSize - 1 |->
                [flag |-> 0, req |-> Blank, off |-> 0]]
    /\ complete = 0 /\ quiet_issue = 0 /\ quiet_ack = 0
    /\ hpc = "quiet" /\ processed = 0 /\ last_sync = 0
    /\ last_quiet_issue = 0 /\ quiet_active = FALSE /\ issued_get = FALSE
    /\ gathered = 1 /\ nbatch = 0
    /\ posted = <<>> /\ inflight = {} /\ landed = {}
    /\ hist = [p \in {} |-> Blank]

Next == (\E t \in Thread : Device(t)) \/ Host \/ NicComplete

\* The steps of a thread that has started an operation.
Continue(t) ==
    \/ CheckLocal(t) \/ WaitComplete(t) \/ UpdateLocal(t) \/ StoreEntry(t)
    \/ Stored(t) \/ QpQuietReturn(t) \/ QuietMax(t) \/ QuietReturn(t)

\* Resident GPU threads and the proxy thread keep being scheduled, and the
\* network completes what was handed to it.  Nobody has to start an operation.
Fairness ==
    /\ \A t \in Thread : WF_vars(Continue(t))
    /\ WF_vars(Host)
    /\ WF_vars(NicComplete)

Spec == Init /\ [][Next]_vars
FairSpec == Spec /\ Fairness

-----------------------------------------------------------------------------
(* Properties *)

Entry == [flag : {0, 1}, req : Request, off : Nat]

\* Every variable has its type; the rest of the properties say what matters.
TypeOK ==
    /\ issue \in Nat /\ complete_local \in Nat
    /\ pc \in [Thread -> {"idle", "avail", "wait_complete", "atomic_max",
                          "write", "qp_quiet", "quiet_max", "quiet_wait"}]
    /\ req \in [Thread -> Request]
    /\ wrote \in [Thread -> SUBSET Nat]
    /\ tgt \in [Thread -> Nat]
    /\ buf \in [0 .. BufSize - 1 -> Entry]
    /\ complete \in Nat /\ quiet_issue \in Nat /\ quiet_ack \in Nat
    /\ hpc \in {"quiet", "quiet_load", "quiet_drain", "quiet_ack",
                "poll", "gather"}
    /\ processed \in Nat /\ last_sync \in Nat /\ last_quiet_issue \in Nat
    /\ quiet_active \in BOOLEAN /\ issued_get \in BOOLEAN
    /\ gathered \in Nat /\ nbatch \in Nat
    /\ posted \in Seq(Request)
    /\ inflight \subseteq Request /\ landed \subseteq Request
    /\ hist \in [0 .. issue - 1 -> Request]

\* The thread has reserved room and not stored every entry yet.
Writing(t) == pc[t] \in {"avail", "wait_complete", "atomic_max", "write"}

\* Index p is reserved and its entry not stored yet.
Pending(p) ==
    \E t \in Thread :
        /\ Writing(t)
        /\ req[t].pos <= p /\ p < req[t].pos + DevEntries(req[t])
        /\ p - req[t].pos \notin wrote[t]

\* Flow control: a stored entry stays in the ring, as its issuer stored it,
\* until the proxy has consumed it, although other threads keep storing one
\* pass ahead and decide from a stale copy of complete.
EntriesIntact ==
    \A p \in processed .. issue - 1 :
        ~Pending(p) => buf[Slot(p)] = [flag |-> Flag(p), req |-> hist[p],
                                       off |-> p - hist[p].pos]

\* The flag protocol: when the proxy looks ahead of `processed' and finds the
\* flag of this pass, the entry was stored for this very index and not by the
\* previous pass over the ring.
FlagsFresh ==
    \A p \in processed .. processed + BufSize - 1 :
        Seen(p) => p < issue /\ ~Pending(p)

\* Requests reach the transport exactly once, in the order of the atomicAdds,
\* whole and unmixed: device and host agree on where every request ends and on
\* what its entries say.  Of a qp fence everything but its PE survives the trip;
\* see FenceAtNamedPe.
PostedInIssueOrder ==
    /\ \A i \in 1 .. Len(posted) :
         /\ posted[i].pos < processed
         /\ LET r == posted[i]
                h == hist[r.pos]
            IN  /\ r.pos = h.pos /\ r.op = h.op /\ r.qps = h.qps
                /\ r.op # "FENCE_QP" => r = h
         /\ LET next == posted[i].pos + DevEntries(posted[i])
            IN  IF i < Len(posted) THEN posted[i + 1].pos = next
                                   ELSE processed = next
    /\ IF posted = <<>> THEN processed = 0 ELSE posted[1].pos = 0

\* The host fences the PE that the caller of proxy_fence_qp named, as the layout in
\* the comment of that function ("qp_index | pe | op | flag") would have it.
FenceAtNamedPe ==
    \A i \in 1 .. Len(posted) :
        posted[i].op = "FENCE_QP" => posted[i].pe = hist[posted[i].pos].pe

\* The request at index p is complete and its data visible to the GPU.
Done(p) == p < processed /\ hist[p] \notin inflight /\ hist[p] \notin landed

\* When proxy_quiet stops waiting, every request issued by any thread before
\* it read `issue' is complete, and what gets and fetching atomics brought back
\* has been flushed to the GPU.
QuietComplete ==
    \A t \in Thread :
        pc[t] = "quiet_wait" /\ quiet_ack >= tgt[t]
            => \A p \in 0 .. tgt[t] - 1 : Done(p)

\* When proxy_qp_quiet stops waiting, every request issued before it to its PE on
\* one of its queue pairs is complete and its data flushed.  Requests to another
\* PE are other endpoints, which it does not wait for.
QpQuietComplete ==
    \A t \in Thread :
        pc[t] = "qp_quiet" /\ complete >= req[t].pos + DevEntries(req[t])
            => \A p \in 0 .. req[t].pos - 1 :
                 \A i \in 1 .. Len(req[t].qps) :
                    hist[p].pe = req[t].pe /\ hist[p].qps = <<req[t].qps[i]>>
                        => Done(p)

\* Every operation a thread has started returns: no thread waits for ever for
\* room in the ring although complete is published only now and then, a qp
\* quiet is not left waiting for a late update, and of two quiets published in
\* the wrong order neither is forgotten.
OperationsReturn == \A t \in Thread : pc[t] # "idle" ~> pc[t] = "idle"

=============================================================================
