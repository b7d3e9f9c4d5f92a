---------------------------- MODULE MCInboxWake ----------------------------
(* Instances of InboxWake for TLC. *)
EXTENDS InboxWake, TLC

Symmetry == Permutations(Notifiers) \cup Permutations(Readers)
=============================================================================
