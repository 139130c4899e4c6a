------------------------- MODULE ProxyChannelHost -------------------------
(***************************************************************************)
(* The proxy's steps preserve the invariant of the ring; with the device's *)
(* steps this makes ChannelInv an invariant, and the ring safe.            *)
(***************************************************************************)
EXTENDS ProxyChannelDevice

USE DEF First

\* The first entry the proxy sees is the first entry of the next request.
LEMMA FirstEntry ==
    ASSUME ChannelInv, hpc = "gather"
    PROVE  /\ processed \in 0 .. issue - 1 /\ processed \in Nat /\ issue \in Nat
           /\ hist[processed] \in Request /\ hist[processed].pos = processed
           /\ DevEntries(hist[processed]) \in Nat
           /\ DevEntries(hist[processed]) >= 1
           /\ processed + DevEntries(hist[processed]) <= issue
           /\ processed + DevEntries(hist[processed]) <= complete + BufSize
           /\ gathered \in Nat
           /\ HostEntries(First) = DevEntries(hist[processed])
<1>1. processed \in Nat /\ issue \in Nat /\ gathered \in Nat
      /\ hist \in [0 .. issue - 1 -> Request]
  BY DEF ChannelInv, TypeOK
<1>2. processed < issue /\ 1 <= gathered
      /\ \A k \in 0 .. gathered - 1 : ~Pending(processed + k)
  BY DEF ChannelInv, Gathering
<1>3. processed \in 0 .. issue - 1 /\ processed \in processed .. issue - 1
  BY <1>1, <1>2
<1>4. /\ hist[processed] \in Request /\ hist[processed].pos = processed
      /\ End(hist[processed]) <= issue
  BY <1>1, <1>2, <1>3 DEF ChannelInv, Frame, History
<1>5. DevEntries(hist[processed]) \in Nat /\ DevEntries(hist[processed]) >= 1
  BY <1>4, DevEntriesType
<1>6. ~Pending(processed)
  <2>1. 0 \in 0 .. gathered - 1 /\ processed + 0 = processed
    BY <1>1, <1>2
  <2>2. QED
    BY <2>1, <1>2
<1>7. buf[Slot(processed)].req = hist[processed]
  <2>1. buf[Slot(processed)] = [flag |-> Flag(processed), req |-> hist[processed],
                                off |-> processed - hist[processed].pos]
    BY <1>3, <1>6 DEF ChannelInv, EntriesIntact
  <2>2. QED
    BY <2>1
<1>8. End(hist[processed]) <= complete + BufSize
  BY <1>3, <1>6 DEF ChannelInv, Window
<1>9. QED
  BY <1>1, <1>3, <1>4, <1>5, <1>7, <1>8, SizesAgree DEF End

\* Once all entries are gathered, what the proxy decodes is the request that
\* was issued at this index, as the host's structs read it.
LEMMA DecodeGathered ==
    ASSUME ChannelInv, hpc = "gather",
           gathered = HostEntries(First)
    PROVE  /\ Decode = Unpacked(hist[processed])
           /\ HostEntries(Decode) = DevEntries(hist[processed])
           /\ \A k \in 0 .. DevEntries(hist[processed]) - 1 :
                /\ ~Pending(processed + k)
                /\ hist[processed + k] = hist[processed]
                /\ buf[Slot(processed + k)].flag = Flag(processed + k)
<1> DEFINE h == hist[processed]
           n == DevEntries(h)
<1>1. /\ processed \in Nat /\ issue \in Nat /\ processed \in 0 .. issue - 1
      /\ h \in Request /\ h.pos = processed
      /\ n \in Nat /\ n >= 1 /\ processed + n <= issue
      /\ gathered = n
  BY FirstEntry
<1>2. ASSUME NEW k \in 0 .. n - 1
      PROVE  /\ ~Pending(processed + k) /\ hist[processed + k] = h
             /\ buf[Slot(processed + k)].flag = Flag(processed + k)
             /\ buf[Slot(processed + k)].req = h
             /\ buf[Slot(processed + k)].off = k
  <2>1. ~Pending(processed + k)
    BY <1>1 DEF ChannelInv, Gathering
  <2>2. processed + k \in processed .. issue - 1 /\ (processed + k) - processed = k
    BY <1>1
  <2>3. hist[processed + k] = h
    <3>1. \A q \in h.pos .. End(h) - 1 : hist[q] = h
      BY <1>1 DEF ChannelInv, History
    <3>2. processed + k \in h.pos .. End(h) - 1
      BY <1>1 DEF End
    <3>3. QED
      BY <3>1, <3>2
  <2>4. buf[Slot(processed + k)] =
          [flag |-> Flag(processed + k), req |-> h, off |-> k]
    BY <2>1, <2>2, <2>3, <1>1 DEF ChannelInv, EntriesIntact
  <2>5. QED
    BY <2>1, <2>3, <2>4
<1> HIDE DEF h, n
<1>3. HostEntries(h) = n
  BY <1>1, SizesAgree DEF n
<1>4. buf[Slot(processed)].req = h
  <2>1. 0 \in 0 .. n - 1 /\ processed + 0 = processed
    BY <1>1
  <2>2. buf[Slot(processed + 0)].req = h
    BY <2>1, <1>2
  <2>3. QED
    BY <2>1, <2>2
<1>5. Decode = Unpacked(h)
  <2>1. ASSUME NEW k \in 0 .. n - 1
        PROVE  buf[Slot(processed + k)].req = h /\ buf[Slot(processed + k)].off = k
    BY <1>2
  <2>2. QED
    BY <2>1, <1>3, <1>4 DEF Decode
<1>6. ASSUME NEW k \in 0 .. n - 1
      PROVE  /\ ~Pending(processed + k) /\ hist[processed + k] = h
             /\ buf[Slot(processed + k)].flag = Flag(processed + k)
  BY <1>2
<1>7. HostEntries(Decode) = n
  BY <1>1, <1>5, UnpackedFields, SizesAgree DEF n
<1>8. QED
  BY <1>5, <1>6, <1>7 DEF h, n

\* The proxy moves past the current request.  Every slot it leaves behind
\* holds the flag of this pass, which the next pass does not take for its own.
LEMMA ConsumeChannel ==
    ASSUME ChannelInv, TypeOK', hpc = "gather", hpc' = "poll",
           gathered = HostEntries(First),
           UpdateProcessed(HostEntries(Decode), FALSE)
             \/ UpdateProcessed(HostEntries(Decode), TRUE),
           UNCHANGED <<dvars, buf>>
    PROVE  ChannelInv'
<1> DEFINE h == hist[processed]
           n == DevEntries(h)
           nxt == processed + n
<1>1. /\ processed \in Nat /\ issue \in Nat /\ processed \in 0 .. issue - 1
      /\ h \in Request /\ h.pos = processed
      /\ n \in Nat /\ n >= 1 /\ nxt <= issue
  BY FirstEntry
<1>2. /\ HostEntries(Decode) = n
      /\ \A k \in 0 .. n - 1 :
           /\ ~Pending(processed + k) /\ hist[processed + k] = h
           /\ buf[Slot(processed + k)].flag = Flag(processed + k)
  BY DecodeGathered
<1>3. nxt \in Nat /\ processed < nxt /\ processed' = nxt
  BY <1>1, <1>2 DEF UpdateProcessed
<1>4. UNCHANGED <<issue, complete_local, pc, req, wrote, tgt, hist, buf>>
  BY DEF dvars
<1>5. /\ TypeOK /\ Counters /\ History /\ Threads /\ Window /\ EntriesIntact
      /\ FlagsFresh /\ Frame
  BY DEF ChannelInv
<1>6. /\ complete \in Nat /\ complete <= processed /\ last_sync = complete
      /\ complete_local \in Nat /\ complete_local <= complete
  BY <1>5 DEF TypeOK, Counters
<1> DEFINE cmp == IF complete' = nxt THEN nxt ELSE complete
<1>7. /\ cmp \in Nat /\ complete' = cmp /\ last_sync' = cmp
      /\ complete <= cmp /\ cmp <= nxt
  <2>1. \/ complete' = nxt /\ last_sync' = nxt
        \/ complete' = complete /\ last_sync' = last_sync
    BY <1>3 DEF UpdateProcessed
  <2>2. QED
    BY <2>1, <1>1, <1>3, <1>6
<1>8. End(h) = nxt
  BY <1>1 DEF End
<1>9. \A p \in processed .. nxt - 1 :
        /\ ~Pending(p) /\ hist[p] = h /\ buf[Slot(p)].flag = Flag(p)
  <2> SUFFICES ASSUME NEW p \in processed .. nxt - 1
               PROVE  ~Pending(p) /\ hist[p] = h /\ buf[Slot(p)].flag = Flag(p)
    OBVIOUS
  <2>1. p - processed \in 0 .. n - 1 /\ processed + (p - processed) = p
    BY <1>1
  <2>2. QED
    BY <2>1, <1>2
<1> HIDE DEF n, nxt, h, cmp
<1>10. \A p : Pending(p)' <=> Pending(p)
  BY <1>4 DEF Pending, Writing
<1>11. Counters'
  BY <1>1, <1>3, <1>4, <1>6, <1>7 DEF Counters
<1>12. History'
  BY <1>4, <1>5 DEF History, End
<1>13. Threads'
  <2>1. \A u \in Thread : /\ Writing(u)' <=> Writing(u)
                          /\ tgt[u] \in Nat /\ End(req[u]) \in Nat
    <3>1. \A u \in Thread : req[u] \in Request /\ tgt[u] \in Nat
      BY <1>5 DEF TypeOK
    <3>2. \A u \in Thread : End(req[u]) \in Nat
      BY <3>1, DevEntriesType DEF End, Request
    <3>3. QED
      BY <3>1, <3>2, <1>4 DEF Writing
  <2>2. \A u \in Thread : /\ pc[u] = "atomic_max" => tgt[u] <= cmp
                          /\ pc[u] \in {"atomic_max", "write"} =>
                               End(req[u]) <= cmp + BufSize
    BY <2>1, <1>5, <1>6, <1>7, ConstantsAssumption DEF Threads
  <2>3. QED
    BY <2>1, <2>2, <1>4, <1>5, <1>7 DEF Threads, End
<1>14. Window'
  <2> SUFFICES ASSUME NEW p \in 0 .. issue - 1, ~Pending(p)
               PROVE  End(hist[p]) <= cmp + BufSize
    BY <1>4, <1>7, <1>10 DEF Window, End
  <2>1. hist[p] \in Request /\ End(hist[p]) <= complete + BufSize
    BY <1>5 DEF Window, TypeOK
  <2>2. End(hist[p]) \in Nat
    BY <2>1, DevEntriesType DEF End, Request
  <2>3. QED
    BY <2>1, <2>2, <1>6, <1>7, ConstantsAssumption
<1>15. EntriesIntact'
  <2>1. \A p \in nxt .. issue - 1 : p \in processed .. issue - 1
    BY <1>1, <1>3
  <2>2. QED
    BY <2>1, <1>3, <1>4, <1>5, <1>10 DEF EntriesIntact
<1>16. FlagsFresh'
  <2> SUFFICES ASSUME NEW p \in nxt .. nxt + BufSize - 1, Seen(p)
               PROVE  p < issue /\ ~Pending(p)
    BY <1>3, <1>4, <1>10 DEF FlagsFresh, Seen
  <2>1. CASE p < processed + BufSize
    <3>1. p \in processed .. processed + BufSize - 1
      BY <2>1, <1>1, <1>3, ConstantsAssumption
    <3>2. QED
      BY <3>1, <1>5 DEF FlagsFresh
  <2>2. CASE p >= processed + BufSize
    <3> DEFINE q == p - BufSize
    <3>1. q \in processed .. nxt - 1 /\ q \in Nat /\ q + BufSize = p
      BY <2>2, <1>1, <1>3, ConstantsAssumption
    <3> HIDE DEF q
    <3>2. buf[Slot(q)].flag = Flag(q)
      BY <3>1, <1>9
    <3>3. Slot(p) = Slot(q) /\ Flag(p) # Flag(q)
      BY <3>1, NextPass
    <3>4. QED
      BY <3>2, <3>3 DEF Seen
  <2>3. QED
    BY <2>1, <2>2, <1>1, <1>3, ConstantsAssumption
<1>17. Frame'
  <2>1. ASSUME nxt < issue
        PROVE  hist[nxt].pos = nxt
    <3> DEFINE g == hist[nxt]
    <3>1. /\ g \in Request /\ g.pos \in Nat /\ g.pos <= nxt /\ nxt < End(g)
          /\ \A q \in g.pos .. End(g) - 1 : hist[q] = g
      <4>1. nxt \in 0 .. issue - 1
        BY <2>1, <1>1, <1>3
      <4>2. QED
        BY <4>1, <1>5, Zenon DEF History, TypeOK, Request
    <3>2. End(g) \in Nat
      BY <3>1, DevEntriesType DEF End
    <3>3. SUFFICES ASSUME g.pos < nxt PROVE FALSE
      BY <3>1, <1>3
    <3>4. nxt - 1 \in g.pos .. End(g) - 1 /\ nxt - 1 \in processed .. nxt - 1
      BY <3>1, <3>2, <3>3, <1>1, <1>3
    <3>5. g = h
      BY <3>1, <3>4, <1>9
    <3>6. QED
      BY <3>1, <3>2, <3>5, <1>3, <1>8
  <2>2. ASSUME NEW p \in 0 .. nxt - 1
        PROVE  ~Pending(p) /\ End(hist[p]) <= nxt
    <3>1. CASE p < processed
      <4>1. p \in 0 .. processed - 1 /\ p \in 0 .. issue - 1
        BY <3>1, <1>1, <1>3
      <4>2. ~Pending(p) /\ End(hist[p]) <= processed
        BY <4>1, <1>5 DEF Frame
      <4>3. hist[p] \in Request
        BY <4>1, <1>5 DEF TypeOK
      <4>4. End(hist[p]) \in Nat
        BY <4>3, DevEntriesType DEF End, Request
      <4>5. QED
        BY <4>2, <4>4, <1>1, <1>3
    <3>2. CASE p >= processed
      <4>1. p \in processed .. nxt - 1
        BY <3>2, <1>1, <1>3
      <4>2. QED
        BY <4>1, <1>3, <1>8, <1>9
    <3>3. QED
      BY <3>1, <3>2, <1>1, <1>3
  <2>3. QED
    BY <2>1, <2>2, <1>3, <1>4, <1>10 DEF Frame, End
<1>18. Gathering'
  BY DEF Gathering
<1>19. QED
  BY <1>11, <1>12, <1>13, <1>14, <1>15, <1>16, <1>17, <1>18 DEF ChannelInv

\* A step that leaves threads, ring and counters alone.
LEMMA RingUnchanged ==
    ASSUME ChannelInv, TypeOK', Gathering',
           UNCHANGED <<dvars, buf, complete, processed, last_sync>>
    PROVE  ChannelInv'
<1>1. \A p \in Nat : Pending(p)' <=> Pending(p)
  BY DEF dvars, Pending, Writing
<1>2. Counters'
  BY DEF ChannelInv, Counters, dvars
<1>3. Threads'
  BY DEF ChannelInv, Threads, dvars, Writing, End
<1>4. QED
  BY <1>1, <1>2, <1>3, PendingSame DEF dvars

\* A step of the proxy thread preserves the invariant.
LEMMA HostChannel ==
    ASSUME ChannelInv, Host
    PROVE  ChannelInv'
<1>1. TypeOK'
  BY HostType DEF ChannelInv
<1>2. CASE QuietCheck \/ QuietStart \/ QuietTest \/ QuietDrain \/ QuietAck
  <2>1. /\ UNCHANGED <<dvars, buf, complete, processed, last_sync>>
        /\ hpc' # "gather"
    BY <1>2 DEF QuietCheck, QuietStart, QuietTest, QuietDrain, QuietAck,
       svars
  <2>2. QED
    BY <1>1, <2>1, RingUnchanged DEF Gathering
<1>3. CASE Poll
  <2>1. /\ UNCHANGED <<dvars, buf, complete, processed, last_sync>>
        /\ gathered' = 1 /\ (hpc' = "gather" => Seen(processed))
    BY <1>3 DEF Poll, svars
  <2>2. Gathering'
    <3> SUFFICES ASSUME Seen(processed)
                 PROVE  /\ processed < issue
                        /\ 1 <= DevEntries(hist[processed])
                        /\ \A k \in 0 .. 0 : ~Pending(processed + k)
      BY <2>1 DEF Gathering, dvars, Pending, Writing
    <3>1. /\ processed \in Nat /\ issue \in Nat
          /\ hist \in [0 .. issue - 1 -> Request]
      BY DEF ChannelInv, TypeOK
    <3>2. processed \in processed .. processed + BufSize - 1
      BY <3>1, ConstantsAssumption
    <3>3. processed < issue /\ ~Pending(processed)
      BY <3>2 DEF ChannelInv, FlagsFresh
    <3>4. hist[processed] \in Request
      BY <3>1, <3>3
    <3>5. \A k \in 0 .. 0 : processed + k = processed
      BY <3>1
    <3>6. QED
      BY <3>3, <3>4, <3>5, DevEntriesType
  <2>3. QED
    BY <1>1, <2>1, <2>2, RingUnchanged
<1>4. CASE Gather
  <2>1. /\ UNCHANGED <<dvars, buf, complete, processed, last_sync, hpc>>
        /\ hpc = "gather" /\ gathered' = gathered + 1
        /\ gathered < HostEntries(First)
        /\ Seen(processed + gathered)
    BY <1>4 DEF Gather, svars
  <2> DEFINE n == DevEntries(hist[processed])
  <2>2. /\ processed \in Nat /\ issue \in Nat /\ gathered \in Nat /\ n \in Nat
        /\ processed < issue /\ gathered < n
        /\ processed + n <= issue /\ processed + n <= complete + BufSize
    BY <2>1, FirstEntry
  <2>3. complete \in Nat /\ complete <= processed
    BY DEF ChannelInv, TypeOK, Counters
  <2> HIDE DEF n
  <2>4. processed + gathered \in processed .. processed + BufSize - 1
    BY <2>2, <2>3, ConstantsAssumption
  <2>5. ~Pending(processed + gathered)
    BY <2>1, <2>4 DEF ChannelInv, FlagsFresh
  <2>6. 1 <= gathered /\ \A k \in 0 .. gathered - 1 : ~Pending(processed + k)
    BY <2>1 DEF ChannelInv, Gathering
  <2>7. ASSUME NEW k \in 0 .. gathered
        PROVE  ~Pending(processed + k)
    <3>1. k = gathered \/ k \in 0 .. gathered - 1
      BY <2>2
    <3>2. QED
      BY <3>1, <2>5, <2>6
  <2>8. Gathering'
    <3>1. \A p : Pending(p)' <=> Pending(p)
      BY <2>1 DEF dvars, Pending, Writing
    <3>2. gathered' - 1 = gathered /\ 1 <= gathered' /\ gathered' <= n
      BY <2>1, <2>2, <2>6
    <3>3. QED
      BY <2>1, <2>2, <2>7, <3>1, <3>2 DEF Gathering, n, dvars
  <2>9. QED
    BY <1>1, <2>1, <2>8, RingUnchanged
<1>5. CASE Process
  <2>1. /\ hpc = "gather" /\ hpc' = "poll" /\ UNCHANGED <<dvars, buf>>
        /\ gathered = HostEntries(First)
        /\ UpdateProcessed(HostEntries(Decode), FALSE)
    BY <1>5, ProcessPosts, Zenon DEF Post
  <2>2. QED
    BY <1>1, <2>1, ConsumeChannel
<1>6. CASE ProcessQpQuiet
  <2>1. /\ hpc = "gather" /\ hpc' = "poll" /\ UNCHANGED <<dvars, buf>>
        /\ gathered = HostEntries(First)
        /\ UpdateProcessed(HostEntries(Decode), TRUE)
    BY <1>6, Zenon DEF ProcessQpQuiet
  <2>2. QED
    BY <1>1, <2>1, ConsumeChannel
<1>7. QED
  BY <1>2, <1>3, <1>4, <1>5, <1>6 DEF Host

\* Every step preserves the invariant.
LEMMA NextChannel == ChannelInv /\ [Next]_vars => ChannelInv'
<1> SUFFICES ASSUME ChannelInv, [Next]_vars PROVE ChannelInv'
  OBVIOUS
<1>1. TypeOK'
  BY NextType DEF ChannelInv
<1>2. CASE \E t \in Thread : Device(t)
  BY <1>2, DeviceChannel
<1>3. CASE Host
  BY <1>3, HostChannel
<1>4. CASE NicComplete \/ UNCHANGED vars
  <2>1. UNCHANGED <<dvars, buf, complete, processed, last_sync, hpc, gathered>>
    BY <1>4 DEF NicComplete, vars, svars, hvars
  <2>2. \A p \in Nat : Pending(p)' => Pending(p)
    BY <2>1 DEF dvars, Pending, Writing
  <2>3. Gathering'
    BY <2>1, <2>2, GatheringKept DEF dvars
  <2>4. QED
    BY <1>1, <2>1, <2>3, RingUnchanged
<1>5. QED
  BY <1>2, <1>3, <1>4 DEF Next

\* The ring invariant holds of every behaviour of the channel.
THEOREM ChannelInvariant == Spec => []ChannelInv
  BY InitChannel, NextChannel, PTL DEF Spec

\* Flow control: no GPU thread ever overwrites an entry the proxy has not
\* consumed, for every ring size, update interval and number of threads.
THEOREM NoOverwrite == Spec => []EntriesIntact
<1>1. ChannelInv => EntriesIntact
  BY DEF ChannelInv
<1>2. QED
  BY <1>1, ChannelInvariant, PTL

\* The flag protocol: the proxy never takes an entry of the previous pass over
\* the ring for a new one.
THEOREM NoStaleEntry == Spec => []FlagsFresh
<1>1. ChannelInv => FlagsFresh
  BY DEF ChannelInv
<1>2. QED
  BY <1>1, ChannelInvariant, PTL

=============================================================================
