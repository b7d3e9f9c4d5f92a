------------------------------ MODULE MCIngest ------------------------------
(* Instances of Ingest for TLC.                                             *)
EXTENDS Ingest, TLC

CONSTANTS b1, b2, k1, k2, k3

Owners == (k1 :> b1) @@ (k2 :> b1) @@ (k3 :> b1)
OwnersOfTwo == (k1 :> b1) @@ (k2 :> b1) @@ (k3 :> b2)

Setup(multi, senders, kinds, keys, bounds) ==
  [multi |-> multi, senders |-> senders, kinds |-> kinds, keys |-> keys,
   updates |-> bounds[1], crashes |-> bounds[2], configs |-> bounds[3], faults |-> bounds[4],
   ticks |-> bounds[5], runs |-> bounds[6], deaths |-> bounds[7]]

(* Two bots through crashes and changes of the configuration; one bot and   *)
(* the words that kill a session; one bot and rejected events.              *)
Cursors == Setup(FALSE, {b1, b2}, {"plain"}, {}, <<3, 2, 3, 0, 0, 0, 0>>)
Disk == Setup(TRUE, {b1, b2}, {"plain"}, {}, <<2, 1, 2, 1, 0, 0, 0>>)
Killing == Setup(FALSE, {b1}, {"kill", "yes", "plain", "voice"}, {}, <<3, 1, 0, 1, 2, 0, 0>>)
Obeying == Setup(FALSE, {b1}, {"kill", "status", "command", "interrupt", "yes", "plain"}, {}, <<2, 0, 0, 1, 0, 1, 1>>)
Rejects == Setup(FALSE, {b1}, {}, {k1, k2, k3}, <<4, 0, 0, 0, 2, 0, 0>>)
AllSetups == {Cursors, Disk, Killing, Obeying, Rejects}

KillingOnly == {Setup(FALSE, {b1}, {"kill", "yes", "status", "voice"}, {}, <<3, 0, 0, 0, 0, 0, 0>>)}
TwoPollers == {Setup(TRUE, {b1, b2}, {}, {k1, k2, k3}, <<5, 0, 0, 0, 0, 0, 0>>)}
=============================================================================
