---------------------------- MODULE MCCarryForward ----------------------------
(* Instances of CarryForward for TLC.                                       *)
EXTENDS CarryForward, TLC

Setup(cycle, autocf, switch, refuses, faults, term, maxruns) ==
  [cycle |-> cycle, autocf |-> autocf, switch |-> switch, refuses |-> refuses,
   withheld |-> faults[1], raises |-> faults[2], crashes |-> faults[3], turns |-> faults[4],
   term |-> term, runs |-> maxruns]

(* One run that switches the model, its lines withheld, lost or raised on,  *)
(* or a turn under way; two runs that switch, one halted by the owner; an   *)
(* automatic run, an owner's run and a crash; two runs with the write-up;   *)
(* notices that raise, of an automatic run and of the owner's.              *)
Obstructed == Setup(FALSE, FALSE, TRUE, TRUE, <<1, 0, 0, 1>>, 2, 1)
Raising == Setup(FALSE, FALSE, TRUE, TRUE, <<0, 1, 0, 0>>, 2, 1)
Overtaken == Setup(FALSE, FALSE, TRUE, FALSE, <<0, 0, 0, 0>>, 1, 2)
Automatic == Setup(FALSE, TRUE, FALSE, FALSE, <<0, 0, 1, 0>>, 1, 2)
Written == Setup(TRUE, FALSE, FALSE, TRUE, <<1, 1, 0, 1>>, 2, 2)
Unsent == Setup(FALSE, TRUE, FALSE, TRUE, <<0, 1, 1, 0>>, 1, 1)
Unstarted == Setup(FALSE, FALSE, FALSE, TRUE, <<0, 1, 0, 0>>, 1, 2)
AllSetups == {Obstructed, Raising, Overtaken, Automatic, Written, Unsent, Unstarted}

WithheldOnly == {Obstructed}

(* Smaller ones for the temporal properties.                                *)
LiveSetups == {Setup(FALSE, TRUE, FALSE, TRUE, <<0, 1, 1, 0>>, 1, 1),
               Setup(FALSE, FALSE, TRUE, TRUE, <<1, 1, 0, 0>>, 1, 1),
               Setup(TRUE, FALSE, FALSE, TRUE, <<1, 1, 0, 0>>, 1, 1)}
=============================================================================
