--------------------------- MODULE DissemBarrier ---------------------------
(***************************************************************************)
(* The dissemination barrier of barrier.cuh, one team, rounds one after    *)
(* the other.                                                              *)
(*                                                                         *)
(* In phase i a PE signals the PEs j * k^i further on, j = 1 .. k - 1, and *)
(* waits for the PEs as far behind it.  A signal is a store of the round   *)
(* number into the receiver's pSync, at the sender's index, in one of two  *)
(* copies chosen by the parity of the round.  Signals are remote stores or *)
(* NIC atomics: they become visible one by one and in any order.           *)
(*                                                                         *)
(* The threads of a group share the neighbours of a phase among them and   *)
(* meet at its end, so the order of their waits does not matter: a phase   *)
(* ends when all of its signals are out and all of the expected ones seen. *)
(***************************************************************************)
EXTENDS Integers

CONSTANTS N,         \* team size
          Jobs       \* the jobs looked at

\* What is fixed for a job:
\*   kval    barrier_tg_dissem_kval
\*   p2p     are_gpus_p2p_connected, and a block-scoped call
\*   direct  job_connectivity <= GPU_LDST: a signal is a plain store
\*   rounds  bound: rounds a PE enters
JobType == [kval : Nat, p2p : BOOLEAN, direct : BOOLEAN, rounds : Nat]

\* With kval 0 or 1 a P2P-connected block whose size is not one of the cases of
\* the switch divides by it in the general variant: by 0, or without end.
ASSUME BarrierAssumption ==
    /\ N \in Nat \ {0, 1}
    /\ Jobs \subseteq {j \in JobType : j.p2p => j.kval >= 2}

AtMost(a, b) == IF a < b THEN a ELSE b
AtLeast(a, b) == IF a < b THEN b ELSE a

PE == 0 .. N - 1

VARIABLES job,       \* the job at hand
          counter,   \* sync_counter[0] of each PE
          inside,    \* the PE is in the barrier
          phase,     \* completed phases
          notified,  \* the signals of this phase are out
          psync,     \* psync[p][b][q]: copy b of slot q in p's pSync
          net        \* signals not visible yet

vars == <<job, counter, inside, phase, notified, psync, net>>

\* nvshmemi_sync_algo_threadgroup: the value it switches on, the choice between
\* sync_dissem_pow2_threadgroup and the general variants, and the radix these
\* use, which is the environment's again, here without the lower bound of 2.
Selector == IF job.p2p THEN N ELSE AtLeast(AtMost(job.kval, N), 2)
Pow2 == Selector \in {2, 4, 8, 16, 32}
K == IF Pow2 THEN Selector ELSE AtMost(job.kval, N)

\* Iterations of while (temp) { ...; temp /= k; } from a value of temp.
Phases[k \in 2 .. N, temp \in 0 .. N - 1] ==
    IF temp = 0 THEN 0 ELSE 1 + Phases[k, temp \div k]

\* Mutation: one phase too few.
FewerPhases == Phases[K, (N - 1) \div K]

\* The loop starts from size - 1.
NumPhases == Phases[K, N - 1]

\* Distance of the j-th neighbour: j << phase_num, or j * pow_k.
Shift(j, i) == IF Pow2 THEN j * 2 ^ i ELSE j * K ^ i

\* The neighbours of phase i; the loop breaks at the first one out of range.
Distances(i) == {d \in {Shift(j, i) : j \in 1 .. K - 1} : d < N}

\* Mutation: one copy for all rounds.
OneCopy(c) == 0
Copy(c) == c % 2

\* Mutation: the neighbour's index does not wrap around the team.
SignalsNoWrap(p) ==
    {[src |-> p, dst |-> p + d, copy |-> Copy(counter[p]),
      val |-> counter[p], phase |-> phase[p]] : d \in Distances(phase[p])}

Signals(p) ==
    {[src |-> p, dst |-> (p + d) % N, copy |-> Copy(counter[p]),
      val |-> counter[p], phase |-> phase[p]] : d \in Distances(phase[p])}

Enter(p) ==
    /\ ~inside[p] /\ counter[p] <= job.rounds
    /\ inside' = [inside EXCEPT ![p] = TRUE]
    /\ UNCHANGED <<job, counter, phase, notified, psync, net>>

\* psync after the stores of a set of signals to different PEs.
Stored(sigs) ==
    [q \in PE |->
        LET mine == {m \in sigs : m.dst = q}
            m == CHOOSE m \in mine : TRUE
        IN  IF mine = {} THEN psync[q]
                         ELSE [psync[q] EXCEPT ![m.copy][m.src] = m.val]]

\* "notify neighbors", nvshmemi_signal_for_barrier.  With direct the stores of a
\* phase are one step, which is exact for radix 2 (one store) and leaves
\* interleavings out otherwise.
Notify(p) ==
    /\ inside[p] /\ ~notified[p]
    /\ notified' = [notified EXCEPT ![p] = TRUE]
    /\ IF job.direct THEN psync' = Stored(Signals(p)) /\ UNCHANGED net
                 ELSE net' = net \cup Signals(p) /\ UNCHANGED psync
    /\ UNCHANGED <<job, counter, inside, phase>>

\* A signal becomes visible.
Deliver ==
    \E m \in net :
        /\ psync' = Stored({m})
        /\ net' = net \ {m}
        /\ UNCHANGED <<job, counter, inside, phase, notified>>

\* Mutation: the wait looks the wrong way round the ring.
HeardAhead(p) ==
    \A d \in Distances(phase[p]) :
        psync[p][Copy(counter[p])][(p + d) % N] >= counter[p]

\* "wait for neighbors notification" is over for every neighbour.
Heard(p) ==
    \A d \in Distances(phase[p]) :
        psync[p][Copy(counter[p])][(p - d) % N] >= counter[p]

\* The end of a phase; the end of the last one is the end of the barrier.
EndPhase(p) ==
    /\ inside[p] /\ notified[p] /\ Heard(p)
    /\ notified' = [notified EXCEPT ![p] = FALSE]
    /\ IF phase[p] + 1 = NumPhases
       THEN /\ phase' = [phase EXCEPT ![p] = 0]
            /\ counter' = [counter EXCEPT ![p] = @ + 1]
            /\ inside' = [inside EXCEPT ![p] = FALSE]
       ELSE /\ phase' = [phase EXCEPT ![p] = @ + 1]
            /\ UNCHANGED <<counter, inside>>
    /\ UNCHANGED <<job, psync, net>>

\* sync counters start at 1 and pSync at 0 (nvshmemi_team_init).
Init ==
    /\ job \in Jobs
    /\ counter = [p \in PE |-> 1]
    /\ inside = [p \in PE |-> FALSE]
    /\ phase = [p \in PE |-> 0]
    /\ notified = [p \in PE |-> FALSE]
    /\ psync = [p \in PE |-> [b \in 0 .. 1 |-> [q \in PE |-> 0]]]
    /\ net = {}

Next == (\E p \in PE : Enter(p) \/ Notify(p) \/ EndPhase(p)) \/ Deliver

\* GPUs run, signals arrive, and everybody calls the collective again.
Fairness ==
    /\ \A p \in PE : WF_vars(Enter(p) \/ Notify(p) \/ EndPhase(p))
    /\ WF_vars(Deliver)

Spec == Init /\ [][Next]_vars
FairSpec == Spec /\ Fairness

-----------------------------------------------------------------------------
\* The variables have their types.
TypeOK ==
    /\ job \in Jobs
    /\ counter \in [PE -> 1 .. job.rounds + 1]
    /\ inside \in [PE -> BOOLEAN] /\ notified \in [PE -> BOOLEAN]
    /\ phase \in [PE -> 0 .. NumPhases - 1]
    /\ psync \in [PE -> [0 .. 1 -> [PE -> 0 .. job.rounds]]]
    /\ net \subseteq [src : PE, dst : PE, copy : 0 .. 1, val : 1 .. job.rounds,
                      phase : 0 .. NumPhases - 1]

\* The dissemination barrier is a barrier: a PE that has heard from a handful
\* of neighbours leaves only when all PEs have entered.
Abstract == INSTANCE Barrier WITH
    entered <- [p \in PE |-> IF inside[p] THEN counter[p] ELSE counter[p] - 1],
    left <- [p \in PE |-> counter[p] - 1]
Synchronizes == Abstract!Spec

\* The two copies of pSync are enough: although signals of successive rounds
\* overtake each other, a slot never goes back to an older round, so a PE
\* cannot miss a signal it waits for.
SlotsGrow ==
    [][\A p, q \in PE, b \in 0 .. 1 : psync'[p][b][q] >= psync[p][b][q]]_vars

\* The same promise as a state predicate: nobody has left a round that somebody
\* has not entered.  test/device/coll/barrier.cu validates data after every
\* nvshmem_barrier on the strength of it.
LeftAfterAllEntered ==
    \A p, q \in PE : counter[p] - 1 <= (IF inside[q] THEN counter[q] ELSE counter[q] - 1)

\* Every PE gets through all rounds.
EverybodyLeaves == <>(\A p \in PE : counter[p] = job.rounds + 1)

=============================================================================
