------------------------------ MODULE ProxyCst ------------------------------
(***************************************************************************)
(* Consistency at the target, as served by the proxy thread.               *)
(*                                                                         *)
(* A write of another PE reaches this GPU through the NIC and may stay     *)
(* behind the flag that announces it until GPUDirect RDMA writes are       *)
(* flushed.  After a wait or test succeeded, the GPU thread calls          *)
(* nvshmemi_proxy_enforce_consistency_at_target: it takes the current      *)
(* `issue' of the request channel as its ticket, publishes it in cst_issue *)
(* and spins until cst_ack reaches it.  progress_cst flushes when          *)
(* cst_issue has grown.  A flush a quiet causes is left out: none of the   *)
(* properties below may depend on one.                                     *)
(***************************************************************************)
EXTENDS Naturals

CONSTANTS Thread,      \* GPU threads that wait for data of other PEs
          MaxIssue,    \* bound: requests put into the channel
          MaxArrive    \* bound: writes of other PEs

ASSUME CstAssumption == MaxIssue \in Nat /\ MaxArrive \in Nat

VARIABLES issue,           \* proxy_channels_issue, as in ProxyChannel
          cst_issue, cst_ack,
          pc, tgt,         \* of each thread: control state and ticket
          seen,            \* ... writes announced to it when it stopped waiting
          fresh,           \* ... the ticket was new to the proxy when published
          hpc, last_cst_issue,
          arrived,         \* writes of other PEs that reached the GPU
          flushed          \* ... of which this many are flushed

dvars == <<issue, pc, tgt, seen, fresh>>
hvars == <<hpc, last_cst_issue>>
vars == <<dvars, cst_issue, cst_ack, hvars, arrived, flushed>>

\* Any thread puts a request into the channel.
IssueRequest ==
    /\ issue < MaxIssue
    /\ issue' = issue + 1
    /\ UNCHANGED <<pc, tgt, seen, fresh, cst_issue, cst_ack, hvars, arrived, flushed>>

\* Data of another PE arrives, and after it the flag a thread waits for.
Arrive ==
    /\ arrived < MaxArrive
    /\ arrived' = arrived + 1
    /\ UNCHANGED <<dvars, cst_issue, cst_ack, hvars, flushed>>

\* nvshmemi_transfer_syncapi_update_mem: the condition of a wait or test holds.
ConditionMet(t) ==
    /\ pc[t] = "idle"
    /\ arrived > 0
    /\ seen' = [seen EXCEPT ![t] = arrived]
    /\ pc' = [pc EXCEPT ![t] = "load"]
    /\ UNCHANGED <<issue, tgt, fresh, cst_issue, cst_ack, hvars, arrived, flushed>>

LoadTicket(t) ==
    /\ pc[t] = "load"
    /\ tgt' = [tgt EXCEPT ![t] = issue]
    /\ pc' = [pc EXCEPT ![t] = "max"]
    /\ UNCHANGED <<issue, seen, fresh, cst_issue, cst_ack, hvars, arrived, flushed>>

\* Mutation: a plain store instead of atomicMax.
StoreTicket(t) ==
    /\ pc[t] = "max"
    /\ cst_issue' = tgt[t]
    /\ fresh' = [fresh EXCEPT ![t] = tgt[t] > last_cst_issue]
    /\ pc' = [pc EXCEPT ![t] = "wait"]
    /\ UNCHANGED <<issue, tgt, seen, cst_ack, hvars, arrived, flushed>>

PublishTicket(t) ==
    /\ pc[t] = "max"
    /\ cst_issue' = IF tgt[t] > cst_issue THEN tgt[t] ELSE cst_issue
    /\ fresh' = [fresh EXCEPT ![t] = tgt[t] > last_cst_issue]
    /\ pc' = [pc EXCEPT ![t] = "wait"]
    /\ UNCHANGED <<issue, tgt, seen, cst_ack, hvars, arrived, flushed>>

Return(t) ==
    /\ pc[t] = "wait"
    /\ cst_ack >= tgt[t]
    /\ pc' = [pc EXCEPT ![t] = "idle"]
    /\ tgt' = [tgt EXCEPT ![t] = 0]
    /\ seen' = [seen EXCEPT ![t] = 0]
    /\ fresh' = [fresh EXCEPT ![t] = FALSE]
    /\ UNCHANGED <<issue, cst_issue, cst_ack, hvars, arrived, flushed>>

\* cst_channels_check: the comparison, then a second load of cst_issue.
CstCheck ==
    /\ hpc = "check"
    /\ cst_issue > last_cst_issue
    /\ hpc' = "take"
    /\ UNCHANGED <<last_cst_issue, dvars, cst_issue, cst_ack, arrived, flushed>>

CstTake ==
    /\ hpc = "take"
    /\ last_cst_issue' = cst_issue
    /\ hpc' = "flush"
    /\ UNCHANGED <<dvars, cst_issue, cst_ack, arrived, flushed>>

\* enforce_cst: whatever has arrived becomes visible.  The platform is one that
\* needs the flush: the GPU does not order GPUDirect RDMA writes by itself, and
\* BYPASS_FLUSH is not set.  A platform that orders them has nothing to flush.
EnforceCst ==
    /\ hpc = "flush"
    /\ flushed' = arrived
    /\ hpc' = "ack"
    /\ UNCHANGED <<last_cst_issue, dvars, cst_issue, cst_ack, arrived>>

\* Mutation: the value acknowledged is read again, after the flush.
CstAckCurrent ==
    /\ hpc = "ack"
    /\ cst_ack' = cst_issue
    /\ hpc' = "check"
    /\ UNCHANGED <<last_cst_issue, dvars, cst_issue, arrived, flushed>>

\* Mutation: off by one.
CstAckNext ==
    /\ hpc = "ack"
    /\ cst_ack' = last_cst_issue + 1
    /\ hpc' = "check"
    /\ UNCHANGED <<last_cst_issue, dvars, cst_issue, arrived, flushed>>

\* cst_ack_channels.
CstAck ==
    /\ hpc = "ack"
    /\ cst_ack' = last_cst_issue
    /\ hpc' = "check"
    /\ UNCHANGED <<last_cst_issue, dvars, cst_issue, arrived, flushed>>

Proxy == CstCheck \/ CstTake \/ EnforceCst \/ CstAck

Continue(t) == LoadTicket(t) \/ PublishTicket(t) \/ Return(t)

Init ==
    /\ issue = 0 /\ cst_issue = 0 /\ cst_ack = 0
    /\ pc = [t \in Thread |-> "idle"]
    /\ tgt = [t \in Thread |-> 0]
    /\ seen = [t \in Thread |-> 0]
    /\ fresh = [t \in Thread |-> FALSE]
    /\ hpc = "check" /\ last_cst_issue = 0
    /\ arrived = 0 /\ flushed = 0

Next ==
    \/ IssueRequest \/ Arrive
    \/ \E t \in Thread : ConditionMet(t) \/ Continue(t)
    \/ Proxy

\* Resident GPU threads and the proxy thread keep being scheduled.
Fairness == WF_vars(Proxy) /\ \A t \in Thread : WF_vars(Continue(t))

Spec == Init /\ [][Next]_vars
FairSpec == Spec /\ Fairness

-----------------------------------------------------------------------------
\* The states of threads and proxy, and the counters in their order: the proxy
\* acknowledges what it took, and takes what was published.
TypeOK ==
    /\ issue \in 0 .. MaxIssue /\ cst_issue \in 0 .. issue
    /\ last_cst_issue \in 0 .. cst_issue /\ cst_ack \in 0 .. last_cst_issue
    /\ arrived \in 0 .. MaxArrive /\ flushed \in 0 .. arrived
    /\ pc \in [Thread -> {"idle", "load", "max", "wait"}]
    /\ tgt \in [Thread -> Nat] /\ seen \in [Thread -> Nat]
    /\ fresh \in [Thread -> BOOLEAN]
    /\ hpc \in {"check", "take", "flush", "ack"}

\* The thread's wait for cst_ack is over.
Acked(t) == pc[t] = "wait" /\ cst_ack >= tgt[t]

\* A ticket that was new to the proxy when it was published buys a flush: when
\* its call returns, everything announced to the thread is visible, although
\* the proxy read cst_issue twice and may have been in the middle of serving
\* an older ticket.
FreshTicketFlushes == \A t \in Thread : Acked(t) /\ fresh[t] => flushed >= seen[t]

\* A consistency call returns.
ConsistencyReturns == \A t \in Thread : pc[t] # "idle" ~> pc[t] = "idle"

\* After a wait, the data its flag announces is visible, for every caller: the
\* put_signal tests compare the target with the source right after
\* nvshmem_uint64_wait_until has seen the signal.  The wait ends with
\* nvshmemi_proxy_enforce_consistency_at_target, whose ticket is the number of
\* requests issued so far, so two calls with no request between them share a
\* ticket, and the second one returns on the first one's flush.
ConsistencyAtTarget == \A t \in Thread : Acked(t) => flushed >= seen[t]

=============================================================================
