-------------------------------- MODULE GBuf --------------------------------
(***************************************************************************)
(* The g buffer of the proxy path: where values come back to GPU threads.  *)
(*                                                                         *)
(* A thread that needs a value from another PE takes a ticket with an      *)
(* atomicAdd on the head counter.  The ticket selects an element and a     *)
(* round.  The flag of the element says how far it is: 2 * round when free *)
(* for that round, one more when an atomic's value has arrived, two more   *)
(* when its reader has released it.  The element's number also selects the *)
(* part of the coalescing buffer a warp-wide g uses.                       *)
(*                                                                         *)
(* The request channel is abstracted to its promise (QpQuietComplete in    *)
(* ProxyChannel): a qp quiet returns when the caller's earlier requests on *)
(* that queue pair are complete and their data visible.                    *)
(***************************************************************************)
EXTENDS Integers

CONSTANTS Thread,        \* GPU threads, or warps for a coalesced g
          Elems,         \* elements in the buffer
          QP, QpDefault,
          Calls,         \* the calls made: pairs of operation and queue pair
          MaxHead        \* bound: tickets

ASSUME GBufAssumption ==
    /\ Elems \in Nat \ {0} /\ MaxHead \in Nat
    /\ QpDefault \in QP
    /\ Calls \subseteq {"G", "G_WARP", "FETCH"} \X QP

VARIABLES on_quiet,      \* atomics_complete_on_quiet, fixed by the transport
          head,          \* *proxy_channel_g_buf_head_ptr
          flag,          \* elem->flag
          data,          \* elem->data: the ticket its value was fetched for
          cdata,         \* the same for the coalescing buffer
          pc, call,      \* of each thread: control state, current call
          val,           \* ... the value it has read
          inflight       \* requests not complete

vars == <<on_quiet, head, flag, data, cdata, pc, call, val, inflight>>

None == -1
Slot(c) == c % Elems
Round(c) == c \div Elems

Call == [ctr : Nat, op : {"G", "G_WARP", "FETCH"}, qp : QP]
NoCall == [ctr |-> 0, op |-> "G", qp |-> QpDefault]

\* atomicAdd on the head counter.
TakeTicket(t) ==
    /\ pc[t] = "idle" /\ head < MaxHead
    /\ head' = head + 1
    /\ \E c \in Calls :
         call' = [call EXCEPT ![t] = [ctr |-> head, op |-> c[1], qp |-> c[2]]]
    /\ pc' = [pc EXCEPT ![t] = "element"]
    /\ UNCHANGED <<on_quiet, flag, data, cdata, val, inflight>>

\* Mutation: the first test of the flag does not look at the round.
FreeAnyRound(c) == TRUE

\* "wait until element can be used".
Free(c) == flag[Slot(c)] >= 2 * Round(c)

\* The queue pair a request is posted on: the g of a single thread does not
\* hand qp_index to nvshmemi_proxy_rma_nbi.
PostedOn(c) == IF c.op = "G" THEN QpDefault ELSE c.qp

\* The wait is over and the request goes into the channel.
Request(t) ==
    /\ pc[t] = "element"
    /\ Free(call[t].ctr)
    /\ inflight' = inflight \cup {[ctr |-> call[t].ctr, op |-> call[t].op,
                                   qp |-> PostedOn(call[t])]}
    /\ pc' = [pc EXCEPT ![t] = "value"]
    /\ UNCHANGED <<on_quiet, head, flag, data, cdata, call, val>>

\* Mutation: the flag of the response is off by two.
RetFlagLow(c) == 2 * Round(c) - 1

\* memdesc.retflag of process_channel_amo.
RetFlag(c) == 2 * Round(c) + 1

\* A request completes.  The response to an atomic is an element, flag included,
\* unless the NIC's own atomics are used.
Complete(r) ==
    /\ inflight' = inflight \ {r}
    /\ IF r.op = "G_WARP"
       THEN /\ cdata' = [cdata EXCEPT ![Slot(r.ctr)] = r.ctr]
            /\ UNCHANGED <<data, flag>>
       ELSE /\ data' = [data EXCEPT ![Slot(r.ctr)] = r.ctr]
            /\ flag' = IF r.op = "FETCH" /\ ~on_quiet
                       THEN [flag EXCEPT ![Slot(r.ctr)] = RetFlag(r.ctr)] ELSE flag
            /\ UNCHANGED cdata
    /\ UNCHANGED <<on_quiet, head, pc, call, val>>

\* nvshmemi_proxy_quiet(false, pe, &qp_index, 1) returns.
QpQuiet(c) == \A r \in inflight : r.ctr = c.ctr => r.qp # c.qp

\* Mutation: no quiet after a fetching atomic.
ArrivedUnchecked(t) ==
    LET c == call[t] IN
    /\ pc[t] = "value"
    /\ IF c.op = "FETCH"
       THEN IF on_quiet
            THEN flag' = [flag EXCEPT ![Slot(c.ctr)] = @ + 1]
            ELSE flag[Slot(c.ctr)] >= 2 * Round(c.ctr) + 1 /\ UNCHANGED flag
       ELSE QpQuiet(c) /\ UNCHANGED flag
    /\ pc' = [pc EXCEPT ![t] = "read"]
    /\ UNCHANGED <<on_quiet, head, data, cdata, call, val, inflight>>

\* The value has arrived: quiet, or the flag of the response.
Arrived(t) ==
    LET c == call[t] IN
    /\ pc[t] = "value"
    /\ IF c.op = "FETCH" /\ ~on_quiet
       THEN flag[Slot(c.ctr)] >= 2 * Round(c.ctr) + 1 /\ UNCHANGED flag
       ELSE /\ QpQuiet(c)
            /\ flag' = IF c.op = "FETCH" THEN [flag EXCEPT ![Slot(c.ctr)] = @ + 1]
                       ELSE flag
    /\ pc' = [pc EXCEPT ![t] = "read"]
    /\ UNCHANGED <<on_quiet, head, data, cdata, call, val, inflight>>

Read(t) ==
    /\ pc[t] = "read"
    /\ val' = [val EXCEPT ![t] = IF call[t].op = "G_WARP" THEN cdata[Slot(call[t].ctr)]
                                 ELSE data[Slot(call[t].ctr)]]
    /\ pc' = [pc EXCEPT ![t] = "release"]
    /\ UNCHANGED <<on_quiet, head, flag, data, cdata, call, inflight>>

\* Mutation: g releases the element as an atomic does.
ReleaseByOne(t) ==
    /\ pc[t] = "release"
    /\ flag' = [flag EXCEPT ![Slot(call[t].ctr)] = @ + 1]
    /\ pc' = [pc EXCEPT ![t] = "idle"]
    /\ call' = [call EXCEPT ![t] = NoCall]
    /\ val' = [val EXCEPT ![t] = None]
    /\ UNCHANGED <<on_quiet, head, data, cdata, inflight>>

\* "release the element for the next thread".
Release(t) ==
    /\ pc[t] = "release"
    /\ flag' = [flag EXCEPT ![Slot(call[t].ctr)] =
                  @ + (IF call[t].op = "FETCH" THEN 1 ELSE 2)]
    /\ pc' = [pc EXCEPT ![t] = "idle"]
    /\ call' = [call EXCEPT ![t] = NoCall]
    /\ val' = [val EXCEPT ![t] = None]
    /\ UNCHANGED <<on_quiet, head, data, cdata, inflight>>

Init ==
    /\ on_quiet \in BOOLEAN
    /\ head = 0
    /\ flag = [s \in 0 .. Elems - 1 |-> 0]
    /\ data = [s \in 0 .. Elems - 1 |-> None]
    /\ cdata = [s \in 0 .. Elems - 1 |-> None]
    /\ pc = [t \in Thread |-> "idle"]
    /\ call = [t \in Thread |-> NoCall]
    /\ val = [t \in Thread |-> None]
    /\ inflight = {}

Continue(t) == Request(t) \/ Arrived(t) \/ Read(t) \/ Release(t)

Next ==
    \/ \E t \in Thread : TakeTicket(t) \/ Continue(t)
    \/ \E r \in inflight : Complete(r)

\* Resident threads keep running and the network completes what it was given.
Fairness ==
    /\ \A t \in Thread : WF_vars(Continue(t))
    /\ WF_vars(\E r \in inflight : Complete(r))

Spec == Init /\ [][Next]_vars
FairSpec == Spec /\ Fairness

-----------------------------------------------------------------------------
\* The variables have their types.
TypeOK ==
    /\ on_quiet \in BOOLEAN /\ head \in Nat
    /\ flag \in [0 .. Elems - 1 -> Nat]
    /\ data \in [0 .. Elems - 1 -> Nat \cup {None}]
    /\ cdata \in [0 .. Elems - 1 -> Nat \cup {None}]
    /\ pc \in [Thread -> {"idle", "element", "value", "read", "release"}]
    /\ call \in [Thread -> Call]
    /\ val \in [Thread -> Nat \cup {None}]
    /\ inflight \subseteq Call

Holds(t) == pc[t] \in {"value", "read", "release"}

\* An element serves one call at a time, although tickets one round apart share
\* it and the flag is advanced by the reader, by the response of an atomic and
\* by plain, not atomic, increments.
OneHolder ==
    \A t, u \in Thread :
        t # u /\ Holds(t) /\ Holds(u) => Slot(call[t].ctr) # Slot(call[u].ctr)

\* A call returns the value that was fetched for it, and not the value of the
\* call that used the element in the round before.
ReturnsOwnValue == \A t \in Thread : pc[t] = "release" => val[t] = call[t].ctr

\* Every call returns: a thread waiting for an element is not overtaken for ever,
\* and a release is never lost.
CallsReturn == \A t \in Thread : pc[t] # "idle" ~> pc[t] = "idle"

=============================================================================
