---------------------------- MODULE MCProxyCache ----------------------------
(* ProxyCache with its clients, which are all alike, as a symmetry set. *)
EXTENDS ProxyCache, TLC

Symmetry == Permutations(Clients)
=============================================================================
