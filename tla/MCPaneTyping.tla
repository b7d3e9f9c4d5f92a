---------------------------- MODULE MCPaneTyping ----------------------------
(* Instances of PaneTyping for TLC. *)
EXTENDS PaneTyping, TLC
=============================================================================
