--------------------------- MODULE MCReopenQuestion ---------------------------
(* Instances of ReopenQuestion for TLC.                                     *)
EXTENDS ReopenQuestion, TLC

Setup(kind, preset, updates_, rebinds, cfs, launches, sends, saves, crashes, others) ==
  [kind |-> kind, preset |-> preset, updates |-> updates_, rebinds |-> rebinds, cf |-> cfs,
   launches |-> launches, sends |-> sends, saves |-> saves, crashes |-> crashes,
   others |-> others]

(* Failing revives and sends; a crash and a failing write; another session  *)
(* in the topic and a carry-forward; the other topic's writes; the compact  *)
(* answer preset. A fresh question with each of them.                       *)
Failing == Setup("resume", FALSE, 2, 0, 0, 1, 1, 0, 0, 0)
Crashing == Setup("resume", FALSE, 1, 0, 0, 1, 0, 1, 1, 0)
Overtaken == Setup("resume", FALSE, 1, 1, 1, 1, 0, 0, 0, 0)
Shared == Setup("resume", FALSE, 1, 0, 0, 1, 0, 0, 0, 2)
Preset == Setup("resume", TRUE, 2, 0, 0, 1, 0, 0, 0, 0)
Fresh == {Setup("fresh", FALSE, 3, 0, 0, 1, 1, 0, 0, 0), Setup("fresh", FALSE, 2, 0, 0, 1, 0, 1, 1, 0)}
AllSetups == {Failing, Crashing, Overtaken, Shared, Preset} \cup Fresh

(* Two taps and a failing revive; an early answer, another session in the   *)
(* topic, and a tap.                                                        *)
TapSetups == {Setup("resume", FALSE, 3, 0, 0, 1, 0, 0, 0, 0), Setup("resume", FALSE, 2, 1, 0, 1, 0, 0, 0, 0)}
=============================================================================
