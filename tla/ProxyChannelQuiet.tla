------------------------ MODULE ProxyChannelQuiet -------------------------
(***************************************************************************)
(* What reaches the transport, and what quiet promises: requests are posted*)
(* in issue order, and a quiet that returns has covered everything issued  *)
(* before it.                                                              *)
(***************************************************************************)
EXTENDS ProxyChannelHost

USE DEF First

\* What the transport holds was posted, and while nothing is owed a flush
\* issued_get is the witness.
Outstanding ==
    /\ \A r \in inflight \cup landed : r.pos < processed /\ hist[r.pos] = r
    /\ ~issued_get => landed = {} /\ \A r \in inflight : ~Inbound(r)

\* What the proxy has acknowledged, or is about to, is done.
Acked ==
    /\ \A p \in 0 .. quiet_ack - 1 : Done(p)
    /\ hpc = "quiet_drain" => last_quiet_issue <= processed
    /\ hpc = "quiet_ack" => \A p \in 0 .. last_quiet_issue - 1 : Done(p)

\* A consumed qp quiet leaves nothing open before it on its endpoints.
QpAcked ==
    \A p \in 0 .. processed - 1 :
        hist[p].op = "QUIET_QP" =>
            \A q \in 0 .. hist[p].pos - 1 :
                \A i \in 1 .. Len(hist[p].qps) :
                    hist[q].pe = hist[p].pe /\ hist[q].qps = <<hist[p].qps[i]>>
                        => Done(q)

QuietInv == Outstanding /\ Acked /\ QpAcked

-----------------------------------------------------------------------------
(* What reaches the transport, and what quiet promises *)

\* Reserving appends to the history and nothing else changes it.
LEMMA HistKept ==
    ASSUME ChannelInv, [Next]_vars
    PROVE  \A p \in 0 .. issue - 1 : hist'[p] = hist[p]
<1>1. CASE UNCHANGED hist
  BY <1>1
<1>2. ASSUME NEW t \in Thread, NEW op \in Ops \ {"QUIET"},
             NEW a \in Args(op), Reserve(t, op, a[1], a[2])
      PROVE  \A p \in 0 .. issue - 1 : hist'[p] = hist[p]
  <2> DEFINE r == [pos |-> issue, op |-> op, pe |-> a[1], qps |-> a[2]]
             top == issue + DevEntries(r)
  <2>1. issue \in Nat
    BY DEF ChannelInv, TypeOK
  <2>2. r \in Request
    BY <2>1, ReserveType
  <2>3. DevEntries(r) \in Nat
    BY <2>2, DevEntriesType
  <2>4. issue' = top
    BY <1>2 DEF Reserve
  <2>5. hist' = [p \in 0 .. issue' - 1 |-> IF p < issue THEN hist[p] ELSE r]
    BY <1>2, Zenon DEF Reserve
  <2>6. top \in Nat /\ issue <= top
    BY <2>1, <2>3
  <2> HIDE DEF r, top
  <2>7. \A p \in 0 .. issue - 1 : p \in 0 .. issue' - 1
    BY <2>1, <2>4, <2>6
  <2>8. QED
    BY <2>1, <2>5, <2>7
<1>3. UNCHANGED hist \/ \E t \in Thread : Issue(t)
  BY ProcessPosts, Zenon DEF Next, Device, CheckLocal, WaitComplete,
     UpdateLocal, StoreEntry, Stored, QpQuietReturn, QuietLoad, QuietMax,
     QuietReturn, Host, QuietCheck, QuietStart, QuietTest, QuietDrain,
     QuietAck, Poll, Gather, Post, ProcessQpQuiet, NicComplete, vars, dvars
<1>4. QED
  BY <1>1, <1>2, <1>3, IssueReserves

\* What one step of the proxy hands to the transport.
LEMMA Consumed ==
    ASSUME ChannelInv, Process \/ ProcessQpQuiet
    PROVE  /\ Decode = Unpacked(hist[processed]) /\ hist[processed] \in Request
           /\ hist[processed].pos = processed
           /\ processed \in Nat
           /\ DevEntries(hist[processed]) \in Nat
           /\ DevEntries(hist[processed]) >= 1
           /\ processed' = processed + DevEntries(hist[processed])
           /\ processed' <= issue
           /\ \A p \in processed .. processed' - 1 : hist[p] = hist[processed]
           /\ posted' = Append(posted, Decode)
           /\ hist' = hist /\ issue' = issue
<1>1. /\ hpc = "gather"
      /\ gathered = HostEntries(First)
      /\ processed' = processed + HostEntries(Decode)
      /\ posted' = Append(posted, Decode)
      /\ hist' = hist /\ issue' = issue
  BY ProcessPosts DEF Post, ProcessQpQuiet, UpdateProcessed, dvars
<1> DEFINE h == hist[processed]
           n == DevEntries(h)
<1>2. /\ processed \in Nat /\ issue \in Nat /\ h \in Request /\ h.pos = processed
      /\ n \in Nat /\ n >= 1 /\ processed + n <= issue
  BY <1>1, FirstEntry
<1>3. /\ Decode = Unpacked(h) /\ HostEntries(Decode) = n
      /\ \A k \in 0 .. n - 1 : hist[processed + k] = h
  BY <1>1, DecodeGathered
<1> HIDE DEF h, n
<1>4. ASSUME NEW p \in processed .. processed' - 1
      PROVE  hist[p] = h
  <2>1. p - processed \in 0 .. n - 1 /\ processed + (p - processed) = p
    BY <1>1, <1>2, <1>3
  <2>2. QED
    BY <2>1, <1>3
<1>5. QED
  BY <1>1, <1>2, <1>3, <1>4 DEF h, n

\* Every other step leaves the transport's history alone.
LEMMA NotConsumed ==
    ASSUME [Next]_vars, ~Process, ~ProcessQpQuiet
    PROVE  UNCHANGED <<posted, processed>>
  BY IssueReserves, Zenon DEF Next, Device, Reserve, CheckLocal,
     WaitComplete, UpdateLocal, StoreEntry, Stored, QpQuietReturn, QuietLoad,
     QuietMax, QuietReturn, Host, QuietCheck, QuietStart, QuietTest,
     QuietDrain, QuietAck, Poll, Gather, NicComplete, vars, hvars, tvars

\* Every step keeps the requests handed over in issue order.
LEMMA NextPosted ==
    ASSUME ChannelInv, PostedInIssueOrder, [Next]_vars
    PROVE  PostedInIssueOrder'
<1>1. /\ processed \in Nat /\ issue \in Nat /\ processed <= issue
      /\ posted \in Seq(Request)
  BY DEF ChannelInv, TypeOK, Counters
<1>2. \A i \in 1 .. Len(posted) : posted[i].pos \in Nat
  <2>1. \A i \in 1 .. Len(posted) : posted[i] \in Request
    BY <1>1
  <2>2. QED
    BY <2>1 DEF Request
<1> DEFINE Same(r, g) == /\ r.pos = g.pos /\ r.op = g.op /\ r.qps = g.qps
                         /\ r.op # "FENCE_QP" => r = g
<1>3. \A i \in 1 .. Len(posted) :
        posted[i].pos < processed /\ Same(posted[i], hist'[posted[i].pos])
  BY <1>1, <1>2, HistKept DEF PostedInIssueOrder
<1>4. CASE ~Process /\ ~ProcessQpQuiet
  BY <1>3, <1>4, NotConsumed DEF PostedInIssueOrder
<1>5. CASE Process \/ ProcessQpQuiet
  <2> DEFINE h == hist[processed]
             n == DevEntries(h)
             nxt == processed + n
             L == Len(posted)
             u == Unpacked(h)
  <2>0. /\ h \in Request /\ h.pos = processed /\ n \in Nat /\ n >= 1
        /\ processed' = nxt /\ posted' = Append(posted, u) /\ hist' = hist
    BY <1>5, Consumed
  <2>1. /\ h \in Request /\ h.pos = processed /\ n \in Nat /\ n >= 1
        /\ processed' = nxt /\ posted' = Append(posted, u) /\ hist' = hist
        /\ u \in Request /\ DevEntries(u) = n /\ Same(u, h) /\ u.pos = processed
    BY <2>0, UnpackedFields
  <2>2. nxt \in Nat /\ processed < nxt
    BY <1>1, <2>1
  <2>3. /\ L \in Nat /\ Len(posted') = L + 1 /\ posted'[L + 1] = u
        /\ \A i \in 1 .. L : posted'[i] = posted[i]
        /\ posted' # <<>>
    BY <1>1, <2>1
  <2>4. IF L = 0 THEN processed = 0 ELSE posted[1].pos = 0
    BY <1>1 DEF PostedInIssueOrder
  <2>5. \A i \in 1 .. L :
          LET next == posted[i].pos + DevEntries(posted[i])
          IN  IF i < L THEN posted[i + 1].pos = next ELSE processed = next
    BY DEF PostedInIssueOrder
  <2> HIDE DEF h, n, nxt, L, u
  <2>6. posted'[1].pos = 0
    <3>1. CASE L = 0
      BY <3>1, <2>1, <2>3, <2>4
    <3>2. CASE L # 0
      BY <3>2, <2>3, <2>4
    <3>3. QED
      BY <3>1, <3>2
  <2>7. ASSUME NEW i \in 1 .. L + 1
        PROVE  /\ posted'[i].pos < nxt
               /\ Same(posted'[i], hist[posted'[i].pos])
               /\ IF i < L + 1
                  THEN posted'[i + 1].pos = posted'[i].pos + DevEntries(posted'[i])
                  ELSE nxt = posted'[i].pos + DevEntries(posted'[i])
    <3>1. CASE i = L + 1
      BY <3>1, <2>1, <2>2, <2>3 DEF h, n, nxt
    <3>2. CASE i \in 1 .. L
      <4>1. posted'[i] = posted[i] /\ posted[i].pos < nxt
            /\ Same(posted[i], hist[posted[i].pos])
        BY <3>2, <1>1, <1>2, <1>3, <2>1, <2>2, <2>3 DEF L
      <4>2. CASE i < L
        <5>1. i + 1 \in 1 .. L /\ posted'[i + 1] = posted[i + 1]
          BY <4>2, <3>2, <2>3
        <5>2. QED
          BY <4>1, <4>2, <5>1, <3>2, <2>3, <2>5
      <4>3. CASE i = L
        BY <4>1, <4>3, <3>2, <2>1, <2>3, <2>5
      <4>4. QED
        BY <4>2, <4>3, <3>2, <2>3
    <3>3. QED
      BY <3>1, <3>2, <2>3
  <2>8. QED
    BY <2>1, <2>3, <2>6, <2>7 DEF PostedInIssueOrder
<1>6. QED
  BY <1>4, <1>5

\* Exactly once and in order: the sequence of requests the proxy hands to the
\* transport is the sequence of requests the GPU threads issued, each of them
\* whole, but for the PE of a qp fence.
THEOREM IssueOrder == Spec => []PostedInIssueOrder
<1>1. Init => PostedInIssueOrder
  BY DEF Init, PostedInIssueOrder
<1>2. ChannelInv /\ PostedInIssueOrder /\ [Next]_vars => PostedInIssueOrder'
  BY NextPosted
<1>3. QED
  BY <1>1, <1>2, ChannelInvariant, PTL DEF Spec

\* Nothing that is done comes back: a request is in the transport once.
LEMMA DoneKept ==
    ASSUME ChannelInv, Outstanding, [Next]_vars, NEW p \in Nat, Done(p)
    PROVE  Done(p)'
<1>1. /\ processed \in Nat /\ issue \in Nat /\ processed <= issue
      /\ hist \in [0 .. issue - 1 -> Request]
  BY DEF ChannelInv, TypeOK, Counters
<1>2. p < processed /\ p \in 0 .. issue - 1
  BY <1>1 DEF Done
<1>3. hist'[p] = hist[p] /\ hist[p].pos \in Nat /\ hist[p].pos <= p
  BY <1>1, <1>2, HistKept DEF ChannelInv, History, Request
<1>4. p < processed'
  <2>1. CASE Process \/ ProcessQpQuiet
    BY <2>1, <1>2, Consumed
  <2>2. CASE ~Process /\ ~ProcessQpQuiet
    BY <2>2, <1>2, NotConsumed
  <2>3. QED
    BY <2>1, <2>2
<1>5. CASE Process \/ ProcessQpQuiet
  <2>1. hist[processed].pos = processed /\ Decode.pos = processed
    BY <1>5, Consumed, UnpackedFields
  <2>2. Decode # hist[p]
    BY <2>1, <1>1, <1>2, <1>3
  <2>3. inflight' \subseteq inflight \cup {Decode} /\ landed' \subseteq landed
    BY <1>5, ProcessPosts, Zenon DEF Post, ProcessQpQuiet
  <2>4. QED
    BY <2>2, <2>3, <1>3, <1>4 DEF Done
<1>6. CASE NicComplete
  <2>1. inflight' \subseteq inflight /\ landed' \subseteq landed \cup inflight
    BY <1>6 DEF NicComplete
  <2>2. QED
    BY <2>1, <1>3, <1>4 DEF Done
<1>7. CASE ~Process /\ ~ProcessQpQuiet /\ ~NicComplete
  <2>1. inflight' = inflight /\ landed' \subseteq landed
    BY <1>7, IssueReserves, ProcessPosts, ZenonT(20) DEF Next, Device,
       Reserve, CheckLocal, WaitComplete, UpdateLocal, StoreEntry, Stored,
       QpQuietReturn, QuietLoad, QuietMax, QuietReturn, Host, QuietCheck,
       QuietStart, QuietTest, QuietDrain, QuietAck, Poll, Gather, vars, tvars
  <2>2. QED
    BY <2>1, <1>3, <1>4 DEF Done
<1>8. QED
  BY <1>5, <1>6, <1>7

\* Every step keeps what the transport holds within what was posted, and
\* issued_get set while inbound data has not been flushed.
LEMMA NextOutstanding ==
    ASSUME ChannelInv, Outstanding, [Next]_vars
    PROVE  Outstanding'
<1>1. /\ processed \in Nat /\ issue \in Nat /\ processed <= issue
      /\ inflight \cup landed \subseteq Request
      /\ issued_get \in BOOLEAN
  BY DEF ChannelInv, TypeOK, Counters
<1>2. \A r \in inflight \cup landed : r.pos < processed /\ hist'[r.pos] = r
  <2>1. \A r \in inflight \cup landed : r.pos \in Nat
    BY <1>1 DEF Request
  <2>2. \A r \in inflight \cup landed : r.pos \in 0 .. issue - 1
    BY <2>1, <1>1 DEF Outstanding
  <2>3. QED
    BY <2>2, HistKept DEF Outstanding
<1>3. ~issued_get => landed = {} /\ \A r \in inflight : ~Inbound(r)
  BY DEF Outstanding
<1>4. CASE Process \/ ProcessQpQuiet
  <2> DEFINE h == hist[processed]
             nxt == processed + DevEntries(h)
  <2>0. h \in Request /\ Decode = Unpacked(h)
    BY <1>4, Consumed
  <2>1. /\ h.pos = processed /\ hist'[processed] = h
        /\ processed' = nxt /\ nxt \in Nat /\ processed < nxt
        /\ Decode.op = h.op /\ (h.op # "FENCE_QP" => Decode = h)
    BY <1>1, <1>4, <2>0, Consumed, UnpackedFields
  <2> HIDE DEF h, nxt
  <2>2. inflight' \cup landed' \subseteq inflight \cup landed \cup {h}
    BY <1>4, <2>1, ProcessPosts, Zenon DEF Post, ProcessQpQuiet
  <2>3. ASSUME NEW r \in inflight' \cup landed'
        PROVE  r.pos < processed' /\ hist'[r.pos] = r
    <3>1. CASE r = h
      BY <3>1, <2>1
    <3>2. CASE r \in inflight \cup landed
      <4>1. r.pos \in Nat
        BY <3>2, <1>1 DEF Request
      <4>2. QED
        BY <4>1, <3>2, <2>1, <1>1, <1>2
    <3>3. QED
      BY <3>1, <3>2, <2>2
  <2>4. ASSUME ~issued_get'
        PROVE  landed' = {} /\ \A r \in inflight' : ~Inbound(r)
    <3>1. CASE Process
      <4>1. ~issued_get /\ ~Inbound(Decode)
        BY <2>4, <3>1, ProcessPosts, Zenon DEF Post
      <4>2. landed' = landed /\ inflight' \subseteq inflight \cup {Decode}
        BY <3>1, ProcessPosts DEF Post
      <4>3. QED
        BY <4>1, <4>2, <1>3
    <3>2. CASE ProcessQpQuiet
      <4>1. ~issued_get /\ landed' = landed /\ inflight' = inflight
        BY <2>4, <3>2 DEF ProcessQpQuiet
      <4>2. QED
        BY <4>1, <1>3
    <3>3. QED
      BY <3>1, <3>2, <1>4
  <2>5. QED
    BY <2>3, <2>4 DEF Outstanding, Inbound
<1>5. CASE NicComplete
  <2>1. PICK r \in inflight :
          /\ inflight' = inflight \ {r}
          /\ landed' = IF Inbound(r) THEN landed \cup {r} ELSE landed
    BY <1>5 DEF NicComplete
  <2>2. processed' = processed /\ issued_get' = issued_get
    BY <1>5 DEF NicComplete, hvars
  <2>3. \A q \in inflight' \cup landed' : q.pos < processed /\ hist'[q.pos] = q
    BY <2>1, <1>2
  <2>4. ~issued_get => landed' = {} /\ \A q \in inflight' : ~Inbound(q)
    BY <2>1, <1>3
  <2>5. QED
    BY <2>2, <2>3, <2>4 DEF Outstanding, Inbound
<1>6. CASE QuietDrain
  <2>1. /\ inflight' = {} /\ landed' = {} /\ processed' = processed
    BY <1>3, <1>6 DEF QuietDrain
  <2>2. QED
    BY <2>1 DEF Outstanding
<1>7. CASE ~Process /\ ~ProcessQpQuiet /\ ~NicComplete /\ ~QuietDrain
  <2>1. UNCHANGED <<inflight, landed, processed, issued_get>>
    BY <1>7, IssueReserves, ProcessPosts, ZenonT(20) DEF Next, Device,
       Reserve, CheckLocal, WaitComplete, UpdateLocal, StoreEntry, Stored,
       QpQuietReturn, QuietLoad, QuietMax, QuietReturn, Host, QuietCheck,
       QuietStart, QuietTest, QuietAck, Poll, Gather, vars, tvars, hvars
  <2>2. QED
    BY <2>1, <1>2, <1>3 DEF Outstanding, Inbound
<1>8. QED
  BY <1>4, <1>5, <1>6, <1>7

\* Every step keeps acknowledged requests done.
LEMMA NextAcked ==
    ASSUME ChannelInv, Outstanding, Acked, [Next]_vars
    PROVE  Acked'
<1>1. /\ processed \in Nat /\ quiet_ack \in Nat /\ last_quiet_issue \in Nat
      /\ issue \in Nat /\ processed <= issue
  BY DEF ChannelInv, TypeOK, Counters
<1>2. \A p \in 0 .. quiet_ack - 1 : Done(p)'
  BY <1>1, DoneKept DEF Acked
<1>3. hpc = "quiet_ack" => \A p \in 0 .. last_quiet_issue - 1 : Done(p)'
  BY <1>1, DoneKept DEF Acked
<1>4. CASE QuietTest
  BY <1>1, <1>2, <1>4 DEF QuietTest, Acked, svars
<1>5. CASE QuietDrain
  <2>1. /\ UNCHANGED <<quiet_ack, last_quiet_issue, processed, hist>>
        /\ inflight' = {} /\ landed' = {} /\ hpc' = "quiet_ack"
        /\ last_quiet_issue <= processed
    BY <1>5 DEF QuietDrain, Outstanding, Acked, svars, dvars
  <2>2. \A p \in 0 .. last_quiet_issue - 1 : Done(p)'
    BY <2>1, <1>1 DEF Done
  <2>3. QED
    BY <2>1, <2>2, <1>2 DEF Acked
<1>6. CASE QuietAck
  <2>1. /\ hpc = "quiet_ack" /\ hpc' = "poll" /\ quiet_ack' = last_quiet_issue
        /\ last_quiet_issue' = last_quiet_issue
    BY <1>6 DEF QuietAck
  <2>2. QED
    BY <2>1, <1>3 DEF Acked
<1>7. CASE ~QuietTest /\ ~QuietDrain /\ ~QuietAck
  <2>1. /\ quiet_ack' = quiet_ack
        /\ \/ hpc' \notin {"quiet_drain", "quiet_ack"}
           \/ UNCHANGED <<hpc, processed, last_quiet_issue>>
    BY <1>7, IssueReserves, ProcessPosts, ZenonT(20) DEF Next, Device,
       Reserve, CheckLocal, WaitComplete, UpdateLocal, StoreEntry, Stored,
       QpQuietReturn, QuietLoad, QuietMax, QuietReturn, Host, QuietCheck,
       QuietStart, Poll, Gather, Post, ProcessQpQuiet, NicComplete, vars,
       svars, hvars
  <2>2. QED
    BY <2>1, <1>2, <1>3 DEF Acked
<1>8. QED
  BY <1>4, <1>5, <1>6, <1>7

\* Every step keeps the queue pairs of consumed qp quiets clean up to there.
LEMMA NextQpAcked ==
    ASSUME ChannelInv, Outstanding, QpAcked, [Next]_vars
    PROVE  QpAcked'
<1>1. /\ processed \in Nat /\ issue \in Nat /\ processed <= issue
      /\ hist \in [0 .. issue - 1 -> Request]
  BY DEF ChannelInv, TypeOK, Counters
<1>2. \A p \in 0 .. processed - 1 : /\ p \in 0 .. issue - 1 /\ hist'[p] = hist[p]
                                    /\ hist[p].pos \in Nat /\ hist[p].pos <= p
  <2>1. \A p \in 0 .. processed - 1 : p \in 0 .. issue - 1
    BY <1>1
  <2>2. QED
    BY <2>1, <1>1, HistKept DEF ChannelInv, History, Request
<1>3. ASSUME NEW p \in 0 .. processed - 1, hist[p].op = "QUIET_QP",
             NEW q \in 0 .. hist[p].pos - 1, NEW i \in 1 .. Len(hist[p].qps),
             hist'[q].pe = hist[p].pe, hist'[q].qps = <<hist[p].qps[i]>>
      PROVE  Done(q)'
  <2>1. q \in 0 .. processed - 1 /\ q \in Nat
    BY <1>1, <1>2
  <2>2. hist[q].pe = hist[p].pe /\ hist[q].qps = <<hist[p].qps[i]>>
    BY <2>1, <1>2, <1>3
  <2>3. Done(q)
    BY <2>2, <1>3 DEF QpAcked
  <2>4. QED
    BY <2>1, <2>3, DoneKept
<1>4. CASE ~Process /\ ~ProcessQpQuiet
  <2>1. processed' = processed
    BY <1>4, NotConsumed
  <2>2. QED
    BY <2>1, <1>2, <1>3 DEF QpAcked
<1>5. CASE Process \/ ProcessQpQuiet
  <2> DEFINE h == hist[processed]
             nxt == processed + DevEntries(h)
  <2>0. h \in Request /\ Decode = Unpacked(h)
    BY <1>5, Consumed
  <2>1. /\ h.pos = processed /\ hist' = hist
        /\ processed' = nxt /\ nxt \in Nat /\ processed < nxt
        /\ \A p \in processed .. nxt - 1 : hist[p] = h
        /\ h.op # "FENCE_QP" => Decode = h
    BY <1>1, <1>5, <2>0, Consumed, UnpackedFields
  <2> HIDE DEF h, nxt
  <2>2. ASSUME h.op = "QUIET_QP", NEW q \in 0 .. processed - 1,
               NEW i \in 1 .. Len(h.qps), hist[q].pe = h.pe,
               hist[q].qps = <<h.qps[i]>>
        PROVE  Done(q)'
    <3>1. ProcessQpQuiet
      BY <2>1, <2>2, <1>5, ProcessPosts
    <3>2. /\ Drained(h.pe, h.qps) /\ inflight' = inflight
          /\ landed' = IF issued_get THEN {} ELSE landed
      BY <3>1, <2>1, <2>2 DEF ProcessQpQuiet
    <3>3. landed' = {}
      BY <3>2 DEF Outstanding
    <3>4. hist[q] \notin inflight
      BY <2>2, <3>2 DEF Drained
    <3>5. QED
      BY <2>1, <3>2, <3>3, <3>4, <1>1 DEF Done
  <2>3. ASSUME NEW p \in 0 .. nxt - 1, hist[p].op = "QUIET_QP",
               NEW q \in 0 .. hist[p].pos - 1, NEW i \in 1 .. Len(hist[p].qps),
               hist[q].pe = hist[p].pe, hist[q].qps = <<hist[p].qps[i]>>
        PROVE  Done(q)'
    <3>1. CASE p < processed
      <4>1. p \in 0 .. processed - 1
        BY <3>1, <1>1, <2>1
      <4>2. QED
        BY <4>1, <2>1, <2>3, <1>3
    <3>2. CASE p >= processed
      <4>1. hist[p] = h
        BY <3>2, <2>1, <1>1
      <4>2. QED
        BY <4>1, <2>1, <2>2, <2>3
    <3>3. QED
      BY <3>1, <3>2, <1>1, <2>1
  <2>4. QED
    BY <2>1, <2>3 DEF QpAcked
<1>6. QED
  BY <1>4, <1>5

\* The quiet invariant holds of every behaviour.
LEMMA QuietInvariant == Spec => []QuietInv
<1>1. Init => QuietInv
  BY SMT DEF Init, QuietInv, Outstanding, Acked, QpAcked
<1>2. ChannelInv /\ QuietInv /\ [Next]_vars => QuietInv'
  BY NextOutstanding, NextAcked, NextQpAcked DEF QuietInv
<1>3. QED
  BY <1>1, <1>2, ChannelInvariant, PTL DEF Spec

\* proxy_quiet: when it stops waiting, all requests issued by any thread before
\* it read issue are complete and their inbound data is flushed to the GPU.
THEOREM QuietIsComplete == Spec => []QuietComplete
<1>1. ChannelInv /\ QuietInv => QuietComplete
  <2> SUFFICES ASSUME ChannelInv, QuietInv, NEW t \in Thread, quiet_ack >= tgt[t],
                      NEW p \in 0 .. tgt[t] - 1
               PROVE  Done(p)
    BY DEF QuietComplete
  <2>1. tgt[t] \in Nat /\ quiet_ack \in Nat
    BY DEF ChannelInv, TypeOK
  <2>2. p \in 0 .. quiet_ack - 1
    BY <2>1
  <2>3. QED
    BY <2>2 DEF QuietInv, Acked
<1>2. QED
  BY <1>1, ChannelInvariant, QuietInvariant, PTL

\* proxy_qp_quiet: when it stops waiting, all requests issued before it to its PE
\* on its queue pairs are complete and their inbound data is flushed to the GPU.
THEOREM QpQuietIsComplete == Spec => []QpQuietComplete
<1>1. ChannelInv /\ QuietInv => QpQuietComplete
  <2> SUFFICES ASSUME ChannelInv, QuietInv, NEW t \in Thread, pc[t] = "qp_quiet",
                      complete >= req[t].pos + DevEntries(req[t]),
                      NEW p \in 0 .. req[t].pos - 1,
                      NEW i \in 1 .. Len(req[t].qps),
                      hist[p].pe = req[t].pe, hist[p].qps = <<req[t].qps[i]>>
               PROVE  Done(p)
    BY DEF QpQuietComplete
  <2>1. /\ req[t] \in Request /\ complete \in Nat /\ processed \in Nat
        /\ complete <= processed
    BY DEF ChannelInv, TypeOK, Counters
  <2>2. req[t].pos \in 0 .. processed - 1
    BY <2>1, DevEntriesType DEF Request
  <2>3. hist[req[t].pos] = req[t] /\ req[t].op = "QUIET_QP"
    BY DEF ChannelInv, Threads
  <2>4. QED
    BY <2>2, <2>3 DEF QuietInv, QpAcked
<1>2. QED
  BY <1>1, ChannelInvariant, QuietInvariant, PTL

=============================================================================
