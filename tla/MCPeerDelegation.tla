-------------------------- MODULE MCPeerDelegation --------------------------
(***************************************************************************)
(* PeerDelegation on small instances.                                      *)
(***************************************************************************)
EXTENDS PeerDelegation, TLC

\* Calls of a turn are interchangeable: nothing in the code orders them.
CallSymmetry == Permutations(Call)
=============================================================================
