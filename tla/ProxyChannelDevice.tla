------------------------ MODULE ProxyChannelDevice ------------------------
(***************************************************************************)
(* The steps of a GPU thread preserve the invariant of the ring: the wait  *)
(* for room, the stores of the entries, and all of them together.          *)
(***************************************************************************)
EXTENDS ProxyChannelRing

USE DEF First

\* Steps of quiet and of the wait for a queue pair's quiet touch neither the
\* ring nor the thread's place in it.
LEMMA QuietStepChannel ==
    ASSUME ChannelInv, TypeOK', NEW t \in Thread,
           QpQuietReturn(t) \/ QuietLoad(t) \/ QuietMax(t) \/ QuietReturn(t)
    PROVE  ChannelInv'
<1>1. /\ UNCHANGED <<issue, hist, req, wrote, buf, processed, complete,
                     complete_local, last_sync, hpc, gathered>>
      /\ \A u \in Thread \ {t} : pc'[u] = pc[u] /\ tgt'[u] = tgt[u]
      /\ pc[t] \in {"idle", "qp_quiet", "quiet_max", "quiet_wait"}
      /\ pc'[t] \in {"idle", "quiet_max", "quiet_wait"}
  BY Zenon DEF QpQuietReturn, QuietLoad, QuietMax, QuietReturn,
     svars, hvars, ChannelInv, TypeOK
<1>2. /\ ~Writing(t) /\ ~Writing(t)' /\ wrote[t] = {}
      /\ \A u \in Thread : Writing(u)' <=> Writing(u)
  BY <1>1, Zenon DEF Writing, ChannelInv, Threads
<1>3. Threads'
  <2>1. Threads
    BY DEF ChannelInv
  <2>2. ASSUME NEW u \in Thread
        PROVE  /\ (Writing(u) \/ pc[u] = "qp_quiet")' =>
                    req'[u].pos < issue' /\ hist'[req'[u].pos] = req'[u]
               /\ Writing(u)' => wrote'[u] \subseteq 0 .. DevEntries(req'[u]) - 1
               /\ pc'[u] # "write" => wrote'[u] = {}
               /\ pc'[u] = "qp_quiet" => req'[u].op = "QUIET_QP"
               /\ pc'[u] = "atomic_max" => tgt'[u] <= complete'
               /\ pc'[u] \in {"atomic_max", "write"} =>
                    End(req'[u]) <= complete' + BufSize
    BY <2>1, <1>1, <1>2 DEF Threads
  <2>3. ASSUME NEW u \in Thread, NEW v \in Thread
        PROVE  Writing(u)' /\ Writing(v)' /\ u # v => req'[u].pos # req'[v].pos
    BY <2>1, <1>1, <1>2 DEF Threads
  <2>4. QED
    BY <2>2, <2>3 DEF Threads, End
<1>4. Gathering'
  <2>1. \A p \in Nat : Pending(p)' => Pending(p)
    BY <1>1, <1>2 DEF Pending
  <2>2. QED
    BY <2>1, <1>1, GatheringKept
<1>5. QED
  BY <1>1, <1>2, <1>3, <1>4, IdleStep

\* Steps of check_channel_availability: a thread goes on only when the room it
\* needs has been freed, and the cached counter never passes complete.
LEMMA AvailabilityChannel ==
    ASSUME ChannelInv, TypeOK', NEW t \in Thread,
           CheckLocal(t) \/ WaitComplete(t) \/ UpdateLocal(t)
    PROVE  ChannelInv'
<1>1. /\ UNCHANGED <<issue, req, wrote, hist, buf, complete, processed,
                     last_sync, hpc, gathered>>
      /\ \A u \in Thread \ {t} : pc'[u] = pc[u] /\ tgt'[u] = tgt[u]
      /\ \A u \in Thread : Writing(u)' <=> Writing(u)
  BY Zenon DEF CheckLocal, WaitComplete, UpdateLocal, svars, hvars, Writing,
     ChannelInv, TypeOK
<1>2. \A p \in Nat : Pending(p)' <=> Pending(p)
  BY <1>1 DEF Pending
<1>3. /\ complete \in Nat /\ complete_local \in Nat /\ tgt[t] \in Nat
      /\ complete_local <= complete
      /\ End(req[t]) \in Nat
  <2>1. req[t] \in Request
    BY DEF ChannelInv, TypeOK
  <2>2. End(req[t]) \in Nat
    BY <2>1, DevEntriesType DEF End, Request
  <2>3. QED
    BY <2>2 DEF ChannelInv, TypeOK, Counters
<1>4. pc[t] = "atomic_max" => tgt[t] <= complete
  BY DEF ChannelInv, Threads
<1>5. Counters'
  <2>1. complete_local' <= complete
    BY <1>3, <1>4 DEF CheckLocal, WaitComplete, UpdateLocal, Max2
  <2>2. QED
    BY <2>1, <1>1 DEF ChannelInv, Counters
<1>6. pc'[t] = "atomic_max" => tgt'[t] <= complete
  BY <1>3 DEF CheckLocal, WaitComplete, UpdateLocal, ChannelInv, TypeOK
<1>7. pc'[t] \in {"atomic_max", "write"} => End(req[t]) <= complete + BufSize
  <2>1. CASE CheckLocal(t)
    <3>1. pc'[t] = IF complete_local + BufSize < End(req[t])
                   THEN "wait_complete" ELSE "write"
      BY <2>1 DEF CheckLocal, ChannelInv, TypeOK, End
    <3>2. QED
      BY <3>1, <1>3, ConstantsAssumption
  <2>2. CASE WaitComplete(t)
    BY <2>2, <1>3, ConstantsAssumption DEF WaitComplete, End
  <2>3. CASE UpdateLocal(t)
    BY <2>3 DEF UpdateLocal, ChannelInv, Threads
  <2>4. QED
    BY <2>1, <2>2, <2>3
<1>8. wrote[t] = {} /\ pc'[t] # "qp_quiet"
  BY Zenon DEF CheckLocal, WaitComplete, UpdateLocal, ChannelInv, TypeOK,
     Threads
<1>9. Threads'
  <2>1. Threads
    BY DEF ChannelInv
  <2>2. ASSUME NEW u \in Thread
        PROVE  /\ (Writing(u) \/ pc[u] = "qp_quiet")' =>
                    req'[u].pos < issue' /\ hist'[req'[u].pos] = req'[u]
               /\ Writing(u)' => wrote'[u] \subseteq 0 .. DevEntries(req'[u]) - 1
               /\ pc'[u] # "write" => wrote'[u] = {}
               /\ pc'[u] = "qp_quiet" => req'[u].op = "QUIET_QP"
               /\ pc'[u] = "atomic_max" => tgt'[u] <= complete'
               /\ pc'[u] \in {"atomic_max", "write"} =>
                    End(req'[u]) <= complete' + BufSize
    <3>1. CASE u = t
      BY <3>1, <2>1, <1>1, <1>6, <1>7, <1>8 DEF Threads
    <3>2. CASE u # t
      BY <3>2, <2>1, <1>1 DEF Threads
    <3>3. QED
      BY <3>1, <3>2
  <2>3. ASSUME NEW u \in Thread, NEW v \in Thread
        PROVE  Writing(u)' /\ Writing(v)' /\ u # v => req'[u].pos # req'[v].pos
    BY <2>1, <1>1 DEF Threads
  <2>4. QED
    BY <2>2, <2>3 DEF Threads, End
<1>10. Gathering'
  BY <1>1, <1>2, GatheringKept
<1>11. QED
  BY <1>1, <1>2, <1>5, <1>9, <1>10, PendingSame

\* The last entry of a request is visible; the thread stops writing.
LEMMA StoredChannel ==
    ASSUME ChannelInv, TypeOK', NEW t \in Thread, Stored(t)
    PROVE  ChannelInv'
<1>1. /\ UNCHANGED <<issue, req, tgt, hist, buf, complete, complete_local,
                     processed, last_sync, hpc, gathered>>
      /\ \A u \in Thread \ {t} : pc'[u] = pc[u] /\ wrote'[u] = wrote[u]
      /\ wrote[t] = 0 .. DevEntries(req[t]) - 1
      /\ wrote'[t] = {} /\ pc[t] = "write"
      /\ pc'[t] = IF req[t].op = "QUIET_QP" THEN "qp_quiet" ELSE "idle"
  BY DEF Stored, svars, hvars, ChannelInv, TypeOK
<1>2. /\ \A u \in Thread \ {t} : Writing(u)' <=> Writing(u)
      /\ Writing(t) /\ ~Writing(t)'
  BY <1>1 DEF Writing
<1>3. \A p \in Nat : Pending(p)' <=> Pending(p)
  <2>1. req[t].pos \in Nat /\ DevEntries(req[t]) \in Nat
    BY <1>2, WritingReq DEF ChannelInv, Request
  <2>2. ASSUME NEW p \in Nat, req[t].pos <= p, p < req[t].pos + DevEntries(req[t])
        PROVE  p - req[t].pos \in wrote[t]
    BY <2>1, <2>2, <1>1
  <2>3. QED
    BY <2>2, <1>1, <1>2, Zenon DEF Pending
<1>4. Threads'
  <2>1. Threads
    BY DEF ChannelInv
  <2>2. ASSUME NEW u \in Thread
        PROVE  /\ (Writing(u) \/ pc[u] = "qp_quiet")' =>
                    req'[u].pos < issue' /\ hist'[req'[u].pos] = req'[u]
               /\ Writing(u)' => wrote'[u] \subseteq 0 .. DevEntries(req'[u]) - 1
               /\ pc'[u] # "write" => wrote'[u] = {}
               /\ pc'[u] = "qp_quiet" => req'[u].op = "QUIET_QP"
               /\ pc'[u] = "atomic_max" => tgt'[u] <= complete'
               /\ pc'[u] \in {"atomic_max", "write"} =>
                    End(req'[u]) <= complete' + BufSize
    <3>1. CASE u = t
      BY <3>1, <2>1, <1>1, <1>2 DEF Threads
    <3>2. CASE u # t
      BY <3>2, <2>1, <1>1, <1>2 DEF Threads
    <3>3. QED
      BY <3>1, <3>2
  <2>3. ASSUME NEW u \in Thread, NEW v \in Thread
        PROVE  Writing(u)' /\ Writing(v)' /\ u # v => req'[u].pos # req'[v].pos
    BY <2>1, <1>1, <1>2 DEF Threads
  <2>4. QED
    BY <2>2, <2>3 DEF Threads, End
<1>5. Counters' /\ Gathering'
  BY <1>1, <1>3, GatheringKept DEF ChannelInv, Counters
<1>6. QED
  BY <1>1, <1>3, <1>4, <1>5, PendingSame

\* One more entry becomes visible.  Its slot is free: every stored entry that
\* the proxy still needs lies within one ring of it.
LEMMA StoreEntryChannel ==
    ASSUME ChannelInv, TypeOK', NEW t \in Thread, StoreEntry(t)
    PROVE  ChannelInv'
<1>1. PICK k \in (0 .. DevEntries(req[t]) - 1) \ wrote[t] :
        /\ buf' = [buf EXCEPT ![Slot(req[t].pos + k)] =
                     [flag |-> Flag(req[t].pos + k), req |-> req[t], off |-> k]]
        /\ wrote' = [wrote EXCEPT ![t] = @ \cup {k}]
  BY Zenon DEF StoreEntry
<1>2. /\ UNCHANGED <<issue, complete_local, pc, req, tgt, hist, complete,
                     processed, last_sync, hpc, gathered>>
      /\ pc[t] = "write" /\ Writing(t)
  BY DEF StoreEntry, hvars, Writing
<1>3. TypeOK /\ Counters /\ History /\ Threads /\ Window /\ EntriesIntact
      /\ FlagsFresh /\ Frame /\ Gathering
  BY DEF ChannelInv
<1>4. /\ req[t] \in Request /\ req[t].pos \in Nat /\ DevEntries(req[t]) \in Nat
      /\ End(req[t]) <= issue
      /\ \A p \in req[t].pos .. End(req[t]) - 1 : hist[p] = req[t]
  BY <1>2, <1>3, WritingReq DEF Request
<1>5. /\ issue \in Nat /\ processed \in Nat /\ complete \in Nat
      /\ complete <= processed /\ processed <= issue
      /\ buf \in [0 .. BufSize - 1 -> Entry]
  BY <1>3 DEF TypeOK, Counters
<1> DEFINE new == req[t].pos + k
<1>6. /\ new \in Nat /\ req[t].pos <= new /\ new < End(req[t])
      /\ hist[new] = req[t] /\ new < issue /\ new - req[t].pos = k
  BY <1>1, <1>4, <1>5 DEF End
<1>7. End(req[t]) <= complete + BufSize
  BY <1>2, <1>3 DEF Threads
<1>8. Pending(new)
  BY <1>1, <1>2, <1>6 DEF Pending, End
<1>9. processed <= new /\ new < processed + BufSize
  <2>1. new \notin 0 .. processed - 1
    BY <1>3, <1>8 DEF Frame
  <2>2. End(req[t]) \in Nat
    BY <1>4 DEF End
  <2>3. QED
    BY <2>1, <2>2, <1>5, <1>6, <1>7, ConstantsAssumption, SMTT(30)
<1>10. /\ \A u \in Thread \ {t} : wrote'[u] = wrote[u]
       /\ wrote'[t] = wrote[t] \cup {k}
       /\ \A u \in Thread : Writing(u)' <=> Writing(u)
  BY <1>1, <1>2, <1>3 DEF TypeOK, Writing
<1>11. \A p \in Nat : Pending(p)' => Pending(p)
  BY <1>2, <1>10 DEF Pending
<1>12. \A p \in Nat : ~Pending(p)' /\ p # new => ~Pending(p)
  <2> SUFFICES ASSUME NEW p \in Nat, p # new, Pending(p)
               PROVE  Pending(p)'
    OBVIOUS
  <2>1. PICK u \in Thread :
          /\ Writing(u) /\ req[u].pos <= p
          /\ p < req[u].pos + DevEntries(req[u])
          /\ p - req[u].pos \notin wrote[u]
    BY DEF Pending
  <2>2. u = t => p - req[u].pos # k
    BY <1>4, <1>6
  <2>3. p - req[u].pos \notin wrote'[u]
    BY <2>1, <2>2, <1>10
  <2>4. QED
    BY <2>1, <2>3, <1>2, <1>10 DEF Pending
<1>13. \A p \in Nat : p = new => ~Pending(p)'
  <2> SUFFICES ASSUME NEW p \in Nat, p = new, Pending(p)'
               PROVE  FALSE
    OBVIOUS
  <2>1. PICK u \in Thread :
          /\ Writing(u) /\ req[u].pos <= p
          /\ p < req[u].pos + DevEntries(req[u])
          /\ p - req[u].pos \notin wrote'[u]
    BY <1>2, <1>10 DEF Pending
  <2>2. u = t
    BY <2>1, <1>2, <1>3, <1>6, OneWriter DEF End
  <2>3. QED
    BY <2>1, <2>2, <1>6, <1>10
<1>14. \A p \in processed .. processed + BufSize - 1 :
         p # new => buf'[Slot(p)] = buf[Slot(p)]
  <2> SUFFICES ASSUME NEW p \in processed .. processed + BufSize - 1, p # new
               PROVE  buf'[Slot(p)] = buf[Slot(p)]
    OBVIOUS
  <2>1. p \in Nat
    BY <1>5, ConstantsAssumption
  <2>2. Slot(p) # Slot(new)
    <3>1. CASE p < new
      BY <3>1, <2>1, <1>5, <1>6, <1>9, SlotInjective, ConstantsAssumption,
         SMTT(30)
    <3>2. CASE new < p
      BY <3>2, <2>1, <1>5, <1>6, <1>9, SlotInjective, ConstantsAssumption
    <3>3. QED
      BY <3>1, <3>2, <2>1, <1>6
  <2>3. Slot(p) \in 0 .. BufSize - 1
    BY <2>1, SlotFlagType
  <2>4. QED
    BY <2>2, <2>3, <1>1, <1>5
<1>15. buf'[Slot(new)] = [flag |-> Flag(new), req |-> req[t], off |-> k]
  BY <1>1, <1>5, <1>6, SlotFlagType, Zenon
<1> HIDE DEF new
<1>16. Counters' /\ History'
  BY <1>2, <1>3 DEF Counters, History, End
<1>17. Threads'
  <2>1. ASSUME NEW u \in Thread
        PROVE  /\ (Writing(u) \/ pc[u] = "qp_quiet")' =>
                    req'[u].pos < issue' /\ hist'[req'[u].pos] = req'[u]
               /\ Writing(u)' => wrote'[u] \subseteq 0 .. DevEntries(req'[u]) - 1
               /\ pc'[u] # "write" => wrote'[u] = {}
               /\ pc'[u] = "qp_quiet" => req'[u].op = "QUIET_QP"
               /\ pc'[u] = "atomic_max" => tgt'[u] <= complete'
               /\ pc'[u] \in {"atomic_max", "write"} =>
                    End(req'[u]) <= complete' + BufSize
    BY <1>1, <1>2, <1>3, <1>10 DEF Threads
  <2>2. ASSUME NEW u \in Thread, NEW v \in Thread
        PROVE  Writing(u)' /\ Writing(v)' /\ u # v => req'[u].pos # req'[v].pos
    BY <1>2, <1>3, <1>10 DEF Threads
  <2>3. QED
    BY <2>1, <2>2 DEF Threads, End
<1>18. Window'
  <2> SUFFICES ASSUME NEW p \in 0 .. issue - 1, ~Pending(p)'
               PROVE  End(hist[p]) <= complete + BufSize
    BY <1>2 DEF Window, End
  <2>1. p \in Nat
    BY <1>5
  <2>2. CASE p = new
    BY <2>2, <1>6, <1>7
  <2>3. CASE p # new
    BY <2>1, <2>3, <1>3, <1>12 DEF Window
  <2>4. QED
    BY <2>2, <2>3
<1>19. EntriesIntact'
  <2> SUFFICES ASSUME NEW p \in processed .. issue - 1, ~Pending(p)'
               PROVE  buf'[Slot(p)] = [flag |-> Flag(p), req |-> hist[p],
                                       off |-> p - hist[p].pos]
    BY <1>2 DEF EntriesIntact
  <2>1. p \in Nat /\ p \in 0 .. issue - 1
    BY <1>5
  <2>2. CASE p = new
    BY <2>2, <1>6, <1>15
  <2>3. CASE p # new
    <3>1. ~Pending(p)
      BY <2>1, <2>3, <1>12
    <3>2. hist[p] \in Request /\ p < End(hist[p])
      BY <2>1, <1>3 DEF History, TypeOK
    <3>3. End(hist[p]) \in Nat
      BY <3>2, DevEntriesType DEF End, Request
    <3>4. End(hist[p]) <= complete + BufSize
      BY <2>1, <3>1, <1>3 DEF Window
    <3>5. p \in processed .. processed + BufSize - 1
      BY <2>1, <3>2, <3>3, <3>4, <1>5, ConstantsAssumption
    <3>6. buf[Slot(p)] = [flag |-> Flag(p), req |-> hist[p],
                          off |-> p - hist[p].pos]
      BY <3>1, <1>3 DEF EntriesIntact
    <3>7. QED
      BY <2>3, <3>5, <3>6, <1>14
  <2>4. QED
    BY <2>2, <2>3
<1>20. FlagsFresh'
  <2> SUFFICES ASSUME NEW p \in processed .. processed + BufSize - 1,
                      buf'[Slot(p)].flag = Flag(p)
               PROVE  p < issue /\ ~Pending(p)'
    BY <1>2 DEF FlagsFresh, Seen
  <2>1. p \in Nat
    BY <1>5, ConstantsAssumption
  <2>2. CASE p = new
    BY <2>1, <2>2, <1>6, <1>13
  <2>3. CASE p # new
    <3>1. Seen(p)
      BY <2>3, <1>14 DEF Seen
    <3>2. QED
      BY <2>1, <3>1, <1>3, <1>11 DEF FlagsFresh
  <2>4. QED
    BY <2>2, <2>3
<1>21. Frame'
  <2>1. \A p \in 0 .. processed - 1 : p \in Nat
    BY <1>5
  <2>2. QED
    BY <2>1, <1>2, <1>3, <1>11 DEF Frame, End
<1>22. Gathering'
  BY <1>2, <1>11, GatheringKept
<1>23. QED
  BY <1>16, <1>17, <1>18, <1>19, <1>20, <1>21, <1>22 DEF ChannelInv

\* A step of a GPU thread preserves the invariant.
LEMMA DeviceChannel ==
    ASSUME ChannelInv, NEW t \in Thread, Device(t)
    PROVE  ChannelInv'
<1>1. TypeOK'
  BY DeviceType DEF ChannelInv
<1>2. CASE Issue(t)
  BY <1>1, <1>2, ReserveChannel, IssueReserves
<1>3. CASE CheckLocal(t) \/ WaitComplete(t) \/ UpdateLocal(t)
  BY <1>1, <1>3, AvailabilityChannel
<1>4. CASE StoreEntry(t)
  BY <1>1, <1>4, StoreEntryChannel
<1>5. CASE Stored(t)
  BY <1>1, <1>5, StoredChannel
<1>6. CASE QpQuietReturn(t) \/ QuietLoad(t) \/ QuietMax(t) \/ QuietReturn(t)
  BY <1>1, <1>6, QuietStepChannel
<1>7. QED
  BY <1>2, <1>3, <1>4, <1>5, <1>6 DEF Device

=============================================================================
