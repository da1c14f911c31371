------------------------------ MODULE Measures ------------------------------
(***************************************************************************)
(* What a program has left to do, as a tuple of naturals of one length: of *)
(* two tuples the lower is the one with the smaller number at the first    *)
(* place where they differ. No sequence of tuples goes down for ever, so a *)
(* program that lowers its tuple with every step comes to an end.          *)
(***************************************************************************)
EXTENDS Naturals, Sequences

Below(a, b) ==
  \E i \in DOMAIN a : a[i] < b[i] /\ \A k \in 1..(i - 1) : a[k] = b[k]
=============================================================================
