---------------------------- MODULE MCLoopClients ----------------------------
(***************************************************************************)
(* Asynchronous calls on three loops, or closes beside calls of each kind. *)
(***************************************************************************)
EXTENDS LoopClientsProps, TLC

CONSTANTS a1, a2, a3, s1, s2, l1, l2, l3, k1, k2

MCCasts == {{a1, a2, a3}, {a1, a2, k1, k2}, {a1, s1, k1}, {s1, s2, k1}}

MCSymmetry ==
  Permutations({a1, a2, a3}) \cup Permutations({s1, s2}) \cup Permutations({l2, l3})
  \cup Permutations({k1, k2})

=============================================================================
