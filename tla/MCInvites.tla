------------------------------ MODULE MCInvites ------------------------------
(* Invites with one invite of each type, one phone and two gates, for TLC. *)
EXTENDS Invites, TLC

CONSTANTS single, group, phone, gate1, gate2

Symmetry == Permutations(Gates)
=============================================================================
