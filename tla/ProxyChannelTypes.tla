------------------------ MODULE ProxyChannelTypes -------------------------
(***************************************************************************)
(* The first layer of the proofs about ProxyChannel, for every ring size,  *)
(* update interval, set of threads and set of operations: the operators the*)
(* model is built from, and type correctness.                              *)
(***************************************************************************)
EXTENDS ProxyChannel, TLAPS

USE DEF First

-----------------------------------------------------------------------------
(* Facts about the operators *)

\* The position of an index in the ring, and its flag, are in range.
LEMMA SlotFlagType ==
    ASSUME NEW p \in Nat
    PROVE  Slot(p) \in 0 .. BufSize - 1 /\ Flag(p) \in {0, 1}
  BY ConstantsAssumption, SMT DEF Slot, Flag

\* Quotient and remainder by the ring size.
LEMMA DivMod ==
    ASSUME NEW p \in Nat
    PROVE  /\ p = (BufSize * (p \div BufSize)) + (p % BufSize)
           /\ p \div BufSize \in Nat
           /\ p % BufSize \in Nat
  BY ConstantsAssumption, SMT

\* Two indices less than one ring apart never share a slot.
LEMMA SlotInjective ==
    ASSUME NEW p \in Nat, NEW q \in Nat, p < q, q < p + BufSize
    PROVE  Slot(p) # Slot(q)
<1>1. SUFFICES ASSUME p % BufSize = q % BufSize PROVE FALSE
  BY DEF Slot
<1>2. q - p = BufSize * ((q \div BufSize) - (p \div BufSize))
  BY <1>1, DivMod, ConstantsAssumption, SMT
<1>3. QED
  BY <1>2, DivMod, ConstantsAssumption, SMT

\* One ring further on the slot is the same and the flag the other one.
LEMMA NextPass ==
    ASSUME NEW p \in Nat
    PROVE  Slot(p + BufSize) = Slot(p) /\ Flag(p + BufSize) # Flag(p)
<1>1. BufSize \in Nat \ {0}
  BY ConstantsAssumption
<1>2. /\ (p + BufSize) % BufSize = p % BufSize
      /\ (p + BufSize) \div BufSize = (p \div BufSize) + 1
  BY <1>1, SMT
<1>3. QED
  BY <1>2, DivMod, SMT DEF Slot, Flag

\* A request takes at least one entry.
LEMMA DevEntriesType ==
    ASSUME NEW r \in Request
    PROVE  DevEntries(r) \in Nat /\ DevEntries(r) >= 1
  BY SMT DEF DevEntries, Request, RequestOps, DmaOps, SyncOps, One, IsQp

\* The proxy consumes as many entries for a request as its issuer reserved.
LEMMA SizesAgree ==
    ASSUME NEW r \in Request
    PROVE  HostEntries(r) = DevEntries(r)
  BY SMT DEF DevEntries, HostEntries, Request, RequestOps, DmaOps, SyncOps,
     One, IsQp

\* A cleared entry holds a request record.
LEMMA BlankType == Blank \in Request
  BY DEF Blank, Request

\* A request function reserves room for one request of its kind.
LEMMA IssueReserves ==
    ASSUME NEW t \in Thread, Issue(t)
    PROVE  \E op \in Ops \ {"QUIET"} : \E a \in Args(op) : Reserve(t, op, a[1], a[2])
<1>1. PICK ops : IssueOne(t, ops) /\ "QUIET" \notin ops
  BY DEF Issue, IssueDma, IssueInline, IssueAmo, IssuePutSignal, IssueFence,
     IssueQpFence, IssueQpQuiet, DmaOps
<1>2. QED
  BY <1>1 DEF IssueOne

\* What the host makes of a request: the same request, but for the PE of a qp
\* fence, and of the same length.
LEMMA UnpackedFields ==
    ASSUME NEW r \in Request
    PROVE  LET u == Unpacked(r)
           IN  /\ u \in Request /\ DevEntries(u) = DevEntries(r)
               /\ u.pos = r.pos /\ u.op = r.op /\ u.qps = r.qps
               /\ r.op # "FENCE_QP" => u = r
<1>1. CASE r.op # "FENCE_QP"
  BY <1>1 DEF Unpacked
<1>2. CASE r.op = "FENCE_QP"
  <2>1. /\ Unpacked(r).pos = r.pos /\ Unpacked(r).op = r.op
        /\ Unpacked(r).qps = r.qps
    BY <1>2 DEF Unpacked
  <2>2. Unpacked(r) \in Request
    BY <1>2 DEF Unpacked, Request, FenceQpCode
  <2>3. DevEntries(Unpacked(r)) = DevEntries(r)
    BY <1>2, <2>1 DEF DevEntries, SyncOps
  <2>4. QED
    BY <1>2, <2>1, <2>2, <2>3
<1>3. QED
  BY <1>1, <1>2

\* A processing function other than the one of qp quiet posts its request.
LEMMA ProcessPosts == Process => Post /\ Decode.op # "QUIET_QP"
  BY DEF Process, ProcessDma, ProcessInline, ProcessAmo, ProcessPutSignal,
     ProcessFence, ProcessQpFence, DmaOps, Decode, Unpacked, Blank

\* What the proxy decodes is a request record.
LEMMA DecodeType ==
    ASSUME TypeOK
    PROVE  Decode \in Request
<1>1. First \in Request
  BY SlotFlagType, Zenon DEF First, TypeOK, Entry
<1>2. QED
  BY <1>1, UnpackedFields, BlankType, Zenon DEF Decode

\* A thread that issues a request builds a request record.
LEMMA ReserveType ==
    ASSUME NEW op \in Ops \ {"QUIET"}, NEW a \in Args(op), NEW n \in Nat
    PROVE  /\ [pos |-> n, op |-> op, pe |-> a[1], qps |-> a[2]] \in Request
           /\ op # "NONE"
<1>0. ASSUME NEW e \in Endpoints
      PROVE  e[1] \in Nat /\ e[2] \in QP
  <2>1. e \in (0 .. 255) \X QP
    BY ConstantsAssumption, Zenon
  <2>2. e[1] \in 0 .. 255 /\ e[2] \in QP
    BY <2>1
  <2>3. QED
    BY <2>2
<1>1. a[1] \in Nat /\ a[2] \in Seq(QP)
  <2>1. CASE op \in SyncOps
    <3>1. a \in SyncArgs
      BY <2>1 DEF Args
    <3>2. a \in (0 .. 255) \X Seq(QP)
      BY <3>1, ConstantsAssumption, Zenon
    <3>3. a[1] \in 0 .. 255 /\ a[2] \in Seq(QP)
      BY <3>2, Zenon
    <3>4. ASSUME NEW n1 \in 0 .. 255 PROVE n1 \in Nat
      OBVIOUS
    <3>5. QED
      BY <3>3, <3>4, Zenon
  <2>2. CASE op = "FENCE"
    <3>1. a = <<0, <<>>>>
      BY <2>2 DEF Args, SyncOps
    <3>2. QED
      BY <3>1
  <2>3. CASE op \notin SyncOps /\ op # "FENCE"
    <3>1. PICK e \in Endpoints : a = <<e[1], <<e[2]>>>>
      BY <2>3 DEF Args
    <3>2. e[1] \in Nat /\ e[2] \in QP
      BY <1>0
    <3>3. QED
      BY <3>1, <3>2
  <2>4. QED
    BY <2>1, <2>2, <2>3
<1>2. op \in RequestOps /\ op # "NONE"
  BY ConstantsAssumption DEF AllOps, RequestOps, DmaOps, SyncOps
<1>3. QED
  BY <1>1, <1>2 DEF Request

-----------------------------------------------------------------------------
(* Type correctness *)

\* The initial state is well typed.
LEMMA InitType == Init => TypeOK
<1> SUFFICES ASSUME Init PROVE TypeOK
  OBVIOUS
<1>2. buf \in [0 .. BufSize - 1 -> Entry]
  BY BlankType DEF Init, Entry
<1>3. hist \in [0 .. issue - 1 -> Request]
  BY SMT DEF Init
<1>4. posted \in Seq(Request) /\ req \in [Thread -> Request]
  BY BlankType DEF Init
<1>5. QED
  BY <1>2, <1>3, <1>4, Zenon DEF Init, TypeOK

\* A device step preserves the types.
LEMMA DeviceType ==
    ASSUME TypeOK, NEW t \in Thread, Device(t)
    PROVE  TypeOK'
<1> USE DEF TypeOK, dvars, svars, hvars, tvars
<1>1. CASE Issue(t)
  <2>0. PICK op \in Ops \ {"QUIET"} :
          \E a \in Args(op) : Reserve(t, op, a[1], a[2])
    BY <1>1, IssueReserves
  <2>1. PICK a \in Args(op) : Reserve(t, op, a[1], a[2])
    BY <2>0
  <2> DEFINE r == [pos |-> issue, op |-> op, pe |-> a[1], qps |-> a[2]]
  <2>2. r \in Request
    BY ReserveType
  <2>3. DevEntries(r) \in Nat
    BY <2>2, DevEntriesType
  <2>4. issue' \in Nat /\ issue' = issue + DevEntries(r)
    BY <2>1, <2>3 DEF Reserve
  <2>5. hist' \in [0 .. issue' - 1 -> Request]
    <3>1. hist' = [p \in 0 .. issue' - 1 |-> IF p < issue THEN hist[p] ELSE r]
      BY <2>1, Zenon DEF Reserve
    <3> HIDE DEF r
    <3>2. ASSUME NEW p \in 0 .. issue' - 1
          PROVE  (IF p < issue THEN hist[p] ELSE r) \in Request
      BY <2>2, <2>4 DEF TypeOK
    <3>3. QED
      BY <3>1, <3>2
  <2>6. QED
    BY <2>1, <2>2, <2>4, <2>5 DEF Reserve
<1>2. CASE CheckLocal(t)
  BY <1>2 DEF CheckLocal
<1>3. CASE WaitComplete(t)
  BY <1>3 DEF WaitComplete
<1>4. CASE UpdateLocal(t)
  BY <1>4 DEF UpdateLocal, Max2
<1>5. CASE StoreEntry(t)
  <2>1. PICK k \in (0 .. DevEntries(req[t]) - 1) \ wrote[t] :
          /\ buf' = [buf EXCEPT ![Slot(req[t].pos + k)] =
                       [flag |-> Flag(req[t].pos + k), req |-> req[t], off |-> k]]
          /\ wrote' = [wrote EXCEPT ![t] = @ \cup {k}]
    BY <1>5, Zenon DEF StoreEntry
  <2>2. k \in Nat /\ req[t].pos + k \in Nat
    BY DevEntriesType DEF Request
  <2>3. [flag |-> Flag(req[t].pos + k), req |-> req[t], off |-> k] \in Entry
    BY <2>2, SlotFlagType, Zenon DEF Entry
  <2>4. QED
    BY <1>5, <2>1, <2>2, <2>3, Zenon DEF StoreEntry
<1>6. CASE Stored(t)
  BY <1>6 DEF Stored
<1>7. CASE QpQuietReturn(t)
  BY <1>7 DEF QpQuietReturn
<1>8. CASE QuietLoad(t)
  BY <1>8 DEF QuietLoad
<1>9. CASE QuietMax(t)
  BY <1>9 DEF QuietMax, Max2
<1>10. CASE QuietReturn(t)
  BY <1>10 DEF QuietReturn
<1>11. QED
  BY <1>1, <1>2, <1>3, <1>4, <1>5, <1>6, <1>7, <1>8, <1>9, <1>10, Zenon DEF
     Device

\* A step of the proxy thread preserves the types.
LEMMA HostType ==
    ASSUME TypeOK, Host
    PROVE  TypeOK'
<1> USE DEF TypeOK, dvars, svars, hvars, tvars
<1>1. CASE QuietCheck
  BY <1>1 DEF QuietCheck
<1>2. CASE QuietStart
  BY <1>2 DEF QuietStart
<1>3. CASE QuietTest
  BY <1>3 DEF QuietTest
<1>4. CASE QuietDrain
  BY <1>4, Zenon DEF QuietDrain
<1>5. CASE QuietAck
  BY <1>5, Zenon DEF QuietAck
<1>6. CASE Poll
  BY <1>6 DEF Poll
<1>7. CASE Gather
  BY <1>7 DEF Gather
<1>8. Decode \in Request /\ HostEntries(Decode) \in Nat
  BY DecodeType, SizesAgree, DevEntriesType
<1>9. Append(posted, Decode) \in Seq(Request)
  BY <1>8
<1>10. CASE Process
  <2>1. issued_get' \in BOOLEAN
    BY <1>10, ProcessPosts, Zenon DEF Post, Inbound
  <2>2. inflight' \subseteq Request /\ posted' \in Seq(Request)
    BY <1>8, <1>9, <1>10, ProcessPosts, Zenon DEF Post
  <2>3. processed' \in Nat /\ complete' \in Nat /\ last_sync' \in Nat
    <3>1. UpdateProcessed(HostEntries(Decode), FALSE)
      BY <1>10, ProcessPosts, Zenon DEF Post
    <3>2. QED
      BY <1>8, <3>1 DEF UpdateProcessed
  <2>4. QED
    BY <1>10, <2>1, <2>2, <2>3, ProcessPosts, Zenon DEF Post
<1>11. CASE ProcessQpQuiet
  BY <1>8, <1>9, <1>11 DEF ProcessQpQuiet, UpdateProcessed
<1>12. QED
  BY <1>1, <1>2, <1>3, <1>4, <1>5, <1>6, <1>7, <1>10, <1>11, Zenon DEF Host

\* Every step preserves the types.
LEMMA NextType == TypeOK /\ [Next]_vars => TypeOK'
<1> SUFFICES ASSUME TypeOK, [Next]_vars PROVE TypeOK'
  OBVIOUS
<1>2. CASE \E t \in Thread : Device(t)
  BY <1>2, DeviceType
<1>3. CASE Host
  BY <1>3, HostType
<1>4. CASE NicComplete
  BY <1>4 DEF NicComplete, TypeOK, dvars, svars, hvars
<1>5. CASE UNCHANGED vars
  BY <1>5 DEF TypeOK, vars, dvars, svars, hvars, tvars
<1>6. QED
  BY <1>2, <1>3, <1>4, <1>5 DEF Next

\* Type correctness: the counters, the ring, the threads' and the proxy's
\* states keep their types, whatever the constants.
THEOREM TypeCorrect == Spec => []TypeOK
  BY InitType, NextType, PTL DEF Spec

=============================================================================
