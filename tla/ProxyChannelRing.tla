------------------------- MODULE ProxyChannelRing -------------------------
(***************************************************************************)
(* The invariant of the ring, and its preservation by the reservation of   *)
(* indices.                                                                *)
(*                                                                         *)
(* The safety properties are not inductive: that a stored entry survives   *)
(* depends on what threads concluded from old values of complete, and that *)
(* a flag is fresh depends on what the previous pass left in the slot.     *)
(* ChannelInv is the strengthening: it ties counters, history, threads,    *)
(* ring and the proxy's position together.                                 *)
(***************************************************************************)
EXTENDS ProxyChannelTypes

USE DEF First

End(r) == r.pos + DevEntries(r)

\* complete trails processed, the cached copy trails complete, and nothing is
\* consumed that was not issued.
Counters ==
    /\ last_sync = complete
    /\ complete_local <= complete
    /\ complete <= processed
    /\ processed <= issue

\* hist splits 0 .. issue - 1 into the index ranges of whole requests.
History ==
    \A p \in 0 .. issue - 1 :
        /\ hist[p].op # "NONE"
        /\ hist[p].pos <= p /\ p < End(hist[p]) /\ End(hist[p]) <= issue
        /\ \A q \in hist[p].pos .. End(hist[p]) - 1 : hist[q] = hist[p]

\* A thread in an operation holds a request of the history, no two writing
\* threads the same, and one that stores has seen enough room.
Threads ==
    \A t \in Thread :
        /\ Writing(t) \/ pc[t] = "qp_quiet" =>
             req[t].pos < issue /\ hist[req[t].pos] = req[t]
        /\ Writing(t) => wrote[t] \subseteq 0 .. DevEntries(req[t]) - 1
        /\ pc[t] # "write" => wrote[t] = {}
        /\ pc[t] = "qp_quiet" => req[t].op = "QUIET_QP"
        /\ pc[t] = "atomic_max" => tgt[t] <= complete
        /\ pc[t] \in {"atomic_max", "write"} =>
             End(req[t]) <= complete + BufSize
        /\ \A u \in Thread :
             Writing(t) /\ Writing(u) /\ t # u => req[t].pos # req[u].pos

\* A request of which anything was stored lies within one ring of complete.
Window ==
    \A p \in 0 .. issue - 1 :
        ~Pending(p) => End(hist[p]) <= complete + BufSize

\* The proxy stands at the start of a request and everything before is stored.
Frame ==
    /\ processed < issue => hist[processed].pos = processed
    /\ \A p \in 0 .. processed - 1 :
         ~Pending(p) /\ End(hist[p]) <= processed

\* The entries the proxy has gathered are stored ones of the current request.
Gathering ==
    hpc = "gather" =>
        /\ processed < issue
        /\ 1 <= gathered /\ gathered <= DevEntries(hist[processed])
        /\ \A k \in 0 .. gathered - 1 : ~Pending(processed + k)

ChannelInv ==
    /\ TypeOK /\ Counters /\ History /\ Threads /\ Window /\ EntriesIntact
    /\ FlagsFresh /\ Frame /\ Gathering

-----------------------------------------------------------------------------
(* The ring protocol *)

\* The initial state satisfies the invariant.
LEMMA InitChannel == Init => ChannelInv
<1> SUFFICES ASSUME Init PROVE ChannelInv
  OBVIOUS
<1>1. TypeOK
  BY InitType
<1>2. 0 .. issue - 1 = {} /\ 0 .. processed - 1 = {} /\ processed .. issue - 1 = {}
  BY SMT DEF Init
<1>3. /\ Counters /\ History /\ Window /\ EntriesIntact /\ Frame
      /\ Gathering
  <2>1. Counters /\ processed = issue
    BY DEF Init, Counters
  <2>2. History /\ Window
    BY <1>2 DEF History, Window
  <2>3. EntriesIntact
    BY <1>2 DEF EntriesIntact
  <2>4. Frame
    BY <1>2, <2>1 DEF Init, Frame
  <2>5. Gathering
    BY DEF Init, Gathering
  <2>6. QED
    BY <2>1, <2>2, <2>3, <2>4, <2>5
<1>4. Threads
  <2>1. \A t \in Thread : pc[t] = "idle" /\ wrote[t] = {}
    BY DEF Init
  <2>2. QED
    BY <2>1 DEF Threads, Writing
<1>5. FlagsFresh
  <2> SUFFICES ASSUME NEW p \in processed .. processed + BufSize - 1, Seen(p)
               PROVE  FALSE
    BY DEF FlagsFresh
  <2>1. p \in 0 .. BufSize - 1 /\ p \in Nat
    BY ConstantsAssumption, SMT DEF Init
  <2>2. p \div BufSize = 0
    BY <2>1, ConstantsAssumption, SMT
  <2>3. Flag(p) = 1
    BY <2>2, SMT DEF Flag
  <2>4. buf[Slot(p)].flag = 0
    BY <2>1, SlotFlagType DEF Init
  <2>5. QED
    BY <2>3, <2>4 DEF Seen
<1>6. QED
  BY <1>1, <1>3, <1>4, <1>5 DEF ChannelInv

\* The request a writing thread holds, as the history has it.
LEMMA WritingReq ==
    ASSUME TypeOK, History, Threads, NEW t \in Thread, Writing(t)
    PROVE  /\ req[t] \in Request /\ req[t].pos \in 0 .. issue - 1
           /\ DevEntries(req[t]) \in Nat /\ End(req[t]) <= issue
           /\ \A p \in req[t].pos .. End(req[t]) - 1 : hist[p] = req[t]
<1>1. req[t] \in Request /\ req[t].pos \in Nat
  BY DEF TypeOK, Request
<1>2. req[t].pos \in 0 .. issue - 1 /\ hist[req[t].pos] = req[t]
  BY <1>1, SMT DEF TypeOK, Threads
<1>3. DevEntries(req[t]) \in Nat
  BY <1>1, DevEntriesType
<1>4. QED
  BY <1>1, <1>2, <1>3 DEF History

\* A pending index belongs to exactly one writing thread.
LEMMA OneWriter ==
    ASSUME TypeOK, History, Threads, NEW t \in Thread, NEW u \in Thread,
           Writing(t), Writing(u), NEW p \in Nat,
           req[t].pos <= p, p < End(req[t]), req[u].pos <= p, p < End(req[u])
    PROVE  t = u
<1>1. hist[p] = req[t] /\ hist[p] = req[u]
  BY WritingReq, SMT DEF Request, End
<1>2. QED
  BY <1>1, Zenon DEF Threads

\* A step that changes neither the ring, the counters nor what is pending.
LEMMA PendingSame ==
    ASSUME ChannelInv, TypeOK', Counters', Threads', Gathering',
           UNCHANGED <<issue, hist, buf, processed, complete>>,
           \A p \in Nat : Pending(p)' <=> Pending(p)
    PROVE  ChannelInv'
<1>1. History'
  BY DEF ChannelInv, History, End
<1>2. \A p : p \in 0 .. issue - 1 => p \in Nat
  BY DEF ChannelInv, TypeOK
<1>3. Window'
  BY <1>2 DEF ChannelInv, Window
<1>4. EntriesIntact'
  <2>1. \A p : p \in processed .. issue - 1 => p \in Nat
    BY DEF ChannelInv, TypeOK
  <2>2. QED
    BY <2>1 DEF ChannelInv, EntriesIntact
<1>5. FlagsFresh'
  <2>1. \A p : p \in processed .. processed + BufSize - 1 => p \in Nat
    BY ConstantsAssumption DEF ChannelInv, TypeOK
  <2>2. QED
    BY <2>1 DEF ChannelInv, FlagsFresh, Seen
<1>6. Frame'
  <2>1. \A p : p \in 0 .. processed - 1 => p \in Nat
    BY DEF ChannelInv, TypeOK
  <2>2. QED
    BY <2>1 DEF ChannelInv, Frame
<1>7. QED
  BY <1>1, <1>3, <1>4, <1>5, <1>6 DEF ChannelInv

\* A thread that is not writing, before and after its step, disturbs nothing.
LEMMA IdleStep ==
    ASSUME ChannelInv, TypeOK', Threads', Gathering', NEW t \in Thread,
           ~Writing(t), ~Writing(t)',
           \A u \in Thread \ {t} : pc'[u] = pc[u],
           UNCHANGED <<issue, hist, req, wrote, buf, processed, complete,
                       complete_local, last_sync>>
    PROVE  ChannelInv'
<1>1. \A u \in Thread : Writing(u)' <=> Writing(u)
  BY DEF Writing
<1>2. \A p \in Nat : Pending(p)' <=> Pending(p)
  BY <1>1 DEF Pending
<1>3. Counters'
  BY DEF ChannelInv, Counters
<1>4. QED
  BY <1>2, <1>3, PendingSame

\* A new reservation: room behind everything that exists.
LEMMA ReserveChannel ==
    ASSUME ChannelInv, TypeOK', NEW t \in Thread,
           NEW op \in Ops \ {"QUIET"}, NEW a \in Args(op),
           Reserve(t, op, a[1], a[2])
    PROVE  ChannelInv'
<1> DEFINE r == [pos |-> issue, op |-> op, pe |-> a[1], qps |-> a[2]]
<1>1. r \in Request /\ r.op # "NONE" /\ r.pos = issue
  BY ReserveType, Zenon DEF ChannelInv, TypeOK
<1>2. DevEntries(r) \in Nat /\ DevEntries(r) >= 1
  BY <1>1, DevEntriesType
<1>3. /\ issue' = issue + DevEntries(r)
      /\ hist' = [p \in 0 .. issue' - 1 |-> IF p < issue THEN hist[p] ELSE r]
      /\ req' = [req EXCEPT ![t] = r]
      /\ pc' = [pc EXCEPT ![t] = "avail"]
      /\ pc[t] = "idle"
      /\ UNCHANGED <<complete_local, wrote, tgt, svars, hvars, tvars>>
  BY Zenon DEF Reserve
<1> HIDE DEF r
<1>4. UNCHANGED <<complete_local, wrote, tgt, buf, complete, processed,
                  last_sync, hpc, gathered>>
  BY <1>3 DEF svars, hvars
<1> DEFINE top == issue + DevEntries(r)
<1>5. issue \in Nat /\ top \in Nat /\ issue < top /\ issue' = top
  <2>1. issue \in Nat
    BY DEF ChannelInv, TypeOK
  <2>2. QED
    BY <2>1, <1>2, <1>3
<1> HIDE DEF top
<1>6. \A p \in 0 .. issue - 1 : hist'[p] = hist[p]
  BY <1>3, <1>5
<1>7. \A p \in issue .. issue' - 1 : hist'[p] = r
  BY <1>3, <1>5
<1>8. /\ \A u \in Thread \ {t} : req'[u] = req[u] /\ (Writing(u)' <=> Writing(u))
      /\ req'[t] = r /\ Writing(t)' /\ ~Writing(t) /\ wrote[t] = {}
  BY <1>3, Zenon DEF ChannelInv, TypeOK, Threads, Writing
<1>9. \A p \in 0 .. issue - 1 : Pending(p)' <=> Pending(p)
  BY <1>1, <1>4, <1>5, <1>8 DEF Pending
<1>10. \A p \in issue .. issue' - 1 : Pending(p)'
  BY <1>1, <1>2, <1>3, <1>4, <1>5, <1>8 DEF Pending
<1>11. End(r) = issue'
  BY <1>1, <1>3 DEF End
<1>12. Counters'
  BY <1>4, <1>5 DEF ChannelInv, Counters, TypeOK
<1>13. History'
  <2> SUFFICES ASSUME NEW p \in 0 .. issue' - 1
               PROVE  /\ hist'[p].op # "NONE"
                      /\ hist'[p].pos <= p /\ p < End(hist'[p])
                      /\ End(hist'[p]) <= issue'
                      /\ \A q \in hist'[p].pos .. End(hist'[p]) - 1 :
                            hist'[q] = hist'[p]
    BY DEF History, End
  <2>1. CASE p < issue
    <3>0. hist \in [0 .. issue - 1 -> Request]
      BY DEF ChannelInv, TypeOK
    <3>1. p \in 0 .. issue - 1 /\ hist'[p] = hist[p] /\ hist[p] \in Request
      BY <2>1, <3>0, <1>5, <1>6
    <3>2. hist[p].pos \in Nat /\ DevEntries(hist[p]) \in Nat
      BY <3>1, DevEntriesType DEF Request
    <3>3. /\ hist[p].op # "NONE" /\ hist[p].pos <= p /\ p < End(hist[p])
          /\ End(hist[p]) <= issue
          /\ \A q \in hist[p].pos .. End(hist[p]) - 1 : hist[q] = hist[p]
      BY <3>1 DEF ChannelInv, History
    <3>4. QED
      BY <3>1, <3>2, <3>3, <1>5, <1>6 DEF End
  <2>2. CASE p >= issue
    BY <2>2, <1>1, <1>5, <1>7, <1>11
  <2>3. QED
    BY <2>1, <2>2, <1>5
<1>14. Threads'
  <2>1. \A u \in Thread : Writing(u) \/ pc[u] = "qp_quiet" =>
          req[u].pos \in 0 .. issue - 1 /\ hist[req[u].pos] = req[u]
    <3>1. \A u \in Thread : req[u].pos \in Nat
      BY Zenon DEF ChannelInv, TypeOK, Request
    <3>2. QED
      BY <3>1, <1>5 DEF ChannelInv, Threads
  <2>2. ASSUME NEW u \in Thread, u # t
        PROVE  /\ (Writing(u) \/ pc[u] = "qp_quiet")' =>
                    req'[u].pos < issue' /\ hist'[req'[u].pos] = req'[u]
               /\ Writing(u)' => wrote'[u] \subseteq 0 .. DevEntries(req'[u]) - 1
               /\ pc'[u] # "write" => wrote'[u] = {}
               /\ pc'[u] = "qp_quiet" => req'[u].op = "QUIET_QP"
               /\ pc'[u] = "atomic_max" => tgt'[u] <= complete'
               /\ pc'[u] \in {"atomic_max", "write"} =>
                    End(req'[u]) <= complete' + BufSize
    <3>1. pc'[u] = pc[u] /\ req'[u] = req[u] /\ (Writing(u)' <=> Writing(u))
      BY <2>2, <1>3, <1>8
    <3>2. Writing(u) \/ pc[u] = "qp_quiet" =>
            req[u].pos < issue' /\ hist'[req[u].pos] = req[u]
      BY <2>1, <1>5, <1>6
    <3>3. QED
      BY <3>1, <3>2, <1>4 DEF ChannelInv, Threads
  <2>3. /\ req'[t].pos < issue' /\ hist'[req'[t].pos] = req'[t]
        /\ wrote'[t] = {} /\ pc'[t] = "avail"
    BY <1>1, <1>3, <1>4, <1>5, <1>7, <1>8 DEF ChannelInv, TypeOK
  <2>4. ASSUME NEW u \in Thread, NEW v \in Thread, Writing(u)', Writing(v)', u # v
        PROVE  req'[u].pos # req'[v].pos
    BY <2>1, <2>4, <1>1, <1>5, <1>8 DEF ChannelInv, Threads
  <2>5. QED
    BY <2>2, <2>3, <2>4 DEF Threads, End
<1>15. Window'
  <2> SUFFICES ASSUME NEW p \in 0 .. issue' - 1, ~Pending(p)'
               PROVE  End(hist'[p]) <= complete' + BufSize
    BY DEF Window, End
  <2>1. p \in 0 .. issue - 1
    BY <1>5, <1>10
  <2>2. QED
    BY <2>1, <1>4, <1>6, <1>9 DEF ChannelInv, Window
<1>16. EntriesIntact'
  <2> SUFFICES ASSUME NEW p \in processed .. issue' - 1, ~Pending(p)'
               PROVE  buf[Slot(p)] = [flag |-> Flag(p), req |-> hist'[p],
                                      off |-> p - hist'[p].pos]
    BY <1>4 DEF EntriesIntact
  <2>1. processed \in Nat
    BY DEF ChannelInv, TypeOK
  <2>2. p \in processed .. issue - 1 /\ p \in 0 .. issue - 1
    BY <2>1, <1>5, <1>10
  <2>3. QED
    BY <2>2, <1>6, <1>9 DEF ChannelInv, EntriesIntact
<1>17. FlagsFresh'
  <2>1. \A p \in processed .. processed + BufSize - 1 :
          p < issue => p \in 0 .. issue - 1
    BY <1>5 DEF ChannelInv, TypeOK
  <2>2. \A p \in processed .. processed + BufSize - 1 :
          Seen(p) => p < issue' /\ ~Pending(p)'
    <3>1. processed \in Nat
      BY DEF ChannelInv, TypeOK
    <3>2. QED
      BY <2>1, <3>1, <1>5, <1>9, ConstantsAssumption DEF ChannelInv,
         FlagsFresh
  <2>3. QED
    BY <2>2, <1>4 DEF FlagsFresh, Seen
<1>18. Frame'
  <2>1. processed \in Nat /\ processed <= issue
    BY DEF ChannelInv, TypeOK, Counters
  <2>2. hist'[processed].pos = processed
    BY <2>1, <1>1, <1>5, <1>6, <1>7 DEF ChannelInv, Frame
  <2>3. \A p \in 0 .. processed - 1 : p \in 0 .. issue - 1
    BY <2>1, <1>5
  <2>4. \A p \in 0 .. processed - 1 : ~Pending(p)' /\ End(hist'[p]) <= processed
    BY <2>3, <1>6, <1>9 DEF ChannelInv, Frame
  <2>5. QED
    BY <2>2, <2>4, <1>4 DEF Frame, End
<1>19. Gathering'
  <2> SUFFICES ASSUME hpc = "gather"
               PROVE  /\ processed < issue'
                      /\ 1 <= gathered /\ gathered <= DevEntries(hist'[processed])
                      /\ \A k \in 0 .. gathered - 1 : ~Pending(processed + k)'
    BY <1>4 DEF Gathering
  <2>1. /\ processed \in 0 .. issue - 1 /\ gathered \in Nat
        /\ gathered <= DevEntries(hist[processed])
    BY DEF ChannelInv, Gathering, TypeOK
  <2>2. hist[processed] \in Request /\ hist[processed].pos = processed
        /\ End(hist[processed]) <= issue
    BY <2>1 DEF ChannelInv, Frame, History, TypeOK
  <2>3. \A k \in 0 .. gathered - 1 : processed + k \in 0 .. issue - 1
    BY <2>1, <2>2, <1>5, DevEntriesType DEF End
  <2>4. \A k \in 0 .. gathered - 1 : ~Pending(processed + k)'
    <3>1. \A k \in 0 .. gathered - 1 : ~Pending(processed + k)
      BY DEF ChannelInv, Gathering
    <3>2. QED
      BY <2>3, <3>1, <1>4, <1>9
  <2>5. QED
    BY <2>1, <2>4, <1>5, <1>6 DEF ChannelInv, Gathering
<1>20. QED
  BY <1>12, <1>13, <1>14, <1>15, <1>16, <1>17, <1>18, <1>19 DEF ChannelInv

\* What the proxy has gathered stays gathered while threads store more.
LEMMA GatheringKept ==
    ASSUME ChannelInv, UNCHANGED <<issue, hist, processed, hpc, gathered>>,
           \A p \in Nat : Pending(p)' => Pending(p)
    PROVE  Gathering'
<1> SUFFICES ASSUME hpc = "gather"
             PROVE  \A k \in 0 .. gathered - 1 : ~Pending(processed + k)'
  BY DEF ChannelInv, Gathering
<1>1. \A k \in 0 .. gathered - 1 : ~Pending(processed + k)
  BY DEF ChannelInv, Gathering
<1>2. processed \in Nat /\ gathered \in Nat
  BY DEF ChannelInv, TypeOK
<1>3. \A k \in 0 .. gathered - 1 : processed + k \in Nat
  BY <1>2
<1>4. QED
  BY <1>1, <1>3

=============================================================================
