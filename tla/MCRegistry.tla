----------------------------- MODULE MCRegistry -----------------------------
(* Registry on small sets of sockets, nicks and addresses. *)
EXTENDS Registry, TLC

RegistrySymmetry == Permutations(Socks) \cup Permutations(Nicks) \cup Permutations(Objs)
=============================================================================
