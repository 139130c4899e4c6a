------------------------------- MODULE MCGBuf -------------------------------
(* Instances of GBuf for TLC. *)
EXTENDS GBuf

CONSTANTS qd, q1

\* All calls but the g of a single thread on a queue pair of its own.
MCCalls == {<<"G", qd>>, <<"G_WARP", q1>>, <<"FETCH", q1>>}
MCCallsG == {<<"G", qd>>, <<"G", q1>>}

=============================================================================
