---------------------------- MODULE MCManagement ----------------------------
(* Management with two request slots and a few Operation IDs. *)
EXTENDS Management, TLC

IDsAndSlots == Permutations(Operations) \cup Permutations(Slots)
=============================================================================
