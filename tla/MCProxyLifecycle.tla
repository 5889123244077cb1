-------------------------- MODULE MCProxyLifecycle --------------------------
(* A small instance of ProxyLifecycle. *)
EXTENDS ProxyLifecycle, TLC

\* TorClient objects are interchangeable.
ClientSymmetry == Permutations(Clients)
=============================================================================
