----------------------------- MODULE MCRpcOwner -----------------------------
\* Two callers and an endpoint of one peer, which also connects by itself.
EXTENDS RpcOwner, TLC

CONSTANTS p1
OnePeer(e) == p1
Symmetry == Permutations(Caller) \cup Permutations(Link)
=============================================================================
