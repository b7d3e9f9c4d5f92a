----------------------------- MODULE MCRevival -----------------------------
(* Instances of Revival: each setup spends its bounds on one question.      *)
EXTENDS Revival

None == [engine |-> "claude", picker |-> FALSE, switch |-> FALSE, began |-> {1},
         choices |-> {"none"}, revives |-> 0, operators |-> 0, faults |-> 0, hands |-> 0,
         deaths |-> 0, crashes |-> 0, reboots |-> 0, turns |-> 0]

(* The restore of a large session, cut short at any point.                  *)
Restoring == [None EXCEPT !.picker = TRUE, !.began = {0, 1, 2}, !.faults = 2, !.crashes = 1]
(* A compaction on the cheaper model, failing at any step; the next launch. *)
Switching == [None EXCEPT !.picker = TRUE, !.switch = TRUE, !.revives = 1, !.faults = 1,
                          !.deaths = 1]
(* A turn in the middle of it.                                              *)
Turning == [None EXCEPT !.picker = TRUE, !.switch = TRUE, !.revives = 1, !.deaths = 1, !.turns = 1]
(* The same, cut short.                                                     *)
Interrupted == [None EXCEPT !.picker = TRUE, !.switch = TRUE, !.faults = 1, !.crashes = 1]
(* The owner's answer to the choice, and a picker answered by hand.         *)
Answering == [None EXCEPT !.picker = TRUE, !.began = {2}, !.choices = {"none", "compact", "full"},
                          !.revives = 1, !.faults = 2, !.hands = 1, !.deaths = 1, !.turns = 1]
(* The operator's revive beside the owner's, each of which may be late.     *)
Racing == [None EXCEPT !.began = {2}, !.choices = {"compact"}, !.revives = 1, !.operators = 1,
                       !.deaths = 1]
(* The operator's revive beside the restore, in the same pane.              *)
Joining == [None EXCEPT !.picker = TRUE, !.operators = 1]
(* A codex session through a restore cut short.                             *)
Codex == [None EXCEPT !.engine = "codex", !.revives = 1, !.operators = 1, !.crashes = 1]
(* The host goes down in the middle of a revive.                            *)
Rebooting == [None EXCEPT !.picker = TRUE, !.faults = 1, !.reboots = 1]
(* A restore cut short after the picker was answered, a failing bind, and a *)
(* revive that finds a pane about to compact.                               *)
Retaken == [None EXCEPT !.picker = TRUE, !.began = {0}, !.choices = {"compact"}, !.revives = 1,
                        !.faults = 1, !.crashes = 1]
(* The operator's revive beside one that switches: two panes, one debt.     *)
Crossing == [None EXCEPT !.switch = TRUE, !.began = {2}, !.choices = {"compact"}, !.revives = 1,
                         !.operators = 1, !.faults = 1]

MCSetups == {Restoring, Switching, Turning, Interrupted, Answering, Racing, Joining, Codex,
             Rebooting, Retaken, Crossing}
=============================================================================
