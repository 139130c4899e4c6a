-------------------------- MODULE MCProxyChannel --------------------------
(* Instances of ProxyChannel for TLC. *)
EXTENDS ProxyChannel, TLC

CONSTANTS t1, t2, qd, q1

MCEndpoints == {<<0, qd>>, <<1, q1>>}
MCEndpointsOnePe == {<<0, qd>>, <<0, q1>>}
MCEndpointDefault == {<<0, qd>>}
MCSync == {<<1, <<q1>>>>}
MCSyncTwo == {<<0, <<q1>>>>, <<0, <<qd, q1>>>>}
MCSyncDefault == {<<0, <<qd>>>>}
Symmetry == Permutations(Thread)

=============================================================================
