-------------------------- MODULE MCDissemBarrier --------------------------
(* Instances of DissemBarrier for TLC. *)
EXTENDS DissemBarrier

Job(kval, p2p, direct, rounds) ==
    [kval |-> kval, p2p |-> p2p, direct |-> direct, rounds |-> rounds]

\* The default radix over the network, the general variant with radix 3, blocks
\* of P2P-connected GPUs, which signal with plain stores, and a radix of 1, which
\* is raised to 2.
MCJobs == {Job(2, FALSE, FALSE, 3), Job(3, FALSE, FALSE, 1), Job(2, TRUE, TRUE, 3),
           Job(1, FALSE, TRUE, 2)}
MCJobsRadix4 == {Job(4, FALSE, TRUE, 1)}

=============================================================================
