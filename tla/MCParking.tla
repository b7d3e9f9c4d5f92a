------------------------------ MODULE MCParking ------------------------------
(* Instances of Parking: each setup spends its bounds on one question.      *)
EXTENDS Parking, TLC

None == [b \in Bounded \cup {"messages", "panes"} |-> IF b = "panes" THEN 2 ELSE 0]
Unnamed(sizes, faults, max) == [named |-> FALSE, sizes |-> sizes, faults |-> faults, max |-> max]
Under(sizes, faults, max) == [named |-> TRUE, sizes |-> sizes, faults |-> faults, max |-> max]

(* A park against a message and one failure, and a death of the pane or an  *)
(* authority that is granted.                                               *)
Failing == {"launch", "send", "kill", "append", "read"}
Dying == Unnamed({"large"}, Failing,
  [None EXCEPT !["parks"] = 1, !["messages"] = 1, !["faults"] = 1, !["deaths"] = 1])
Granting == Unnamed({"small"}, Failing,
  [None EXCEPT !["parks"] = 1, !["messages"] = 1, !["faults"] = 1, !["grants"] = 1])
(* Two records race the kill, and the repair may fail.                     *)
Draining == Unnamed({"small"}, {"append"},
  [None EXCEPT !["parks"] = 1, !["messages"] = 2, !["faults"] = 1])
(* A parked session whose revive or question fails, with room to retry.     *)
Retrying == Unnamed({"small", "large", "preset"}, {"launch", "send", "drop"},
  [None EXCEPT !["parks"] = 1, !["messages"] = 1, !["faults"] = 1, !["panes"] = 3])
(* Panes die and are revived, the topic is closed and reopened; a crash.    *)
Closing == Under({"small"}, {"launch", "send"},
  [None EXCEPT !["messages"] = 2, !["faults"] = 1, !["deaths"] = 2, !["moves"] = 1, !["panes"] = 4])
Crashing == Under({"small", "large"}, {"launch", "send"},
  [None EXCEPT !["messages"] = 1, !["faults"] = 1, !["deaths"] = 2, !["moves"] = 1,
               !["crashes"] = 1, !["panes"] = 4])
(* The daemon dies inside a park, its claim on the entry of a live pane.    *)
Claiming == Under({"small", "large"}, {}, [None EXCEPT !["parks"] = 1, !["messages"] = 1, !["crashes"] = 1])

MCSetups == {Dying, Granting, Draining, Retrying, Closing, Crashing, Claiming}

(* Small environments, each for one divergence (README).                    *)
Small(named, sizes, faults, max) ==
  {[named |-> named, sizes |-> sizes, faults |-> faults, max |-> max]}
Parked(messages) == [None EXCEPT !["parks"] = 1, !["messages"] = messages]
MCBareName == Small(FALSE, {"small"}, {}, Parked(1))
MCPark == Small(TRUE, {"small"}, {}, Parked(1))
MCParkTwo == Small(TRUE, {"small"}, {}, Parked(2))
MCDeath == Small(TRUE, {"large"}, {}, [None EXCEPT !["messages"] = 1, !["deaths"] = 1])
MCCrash == Small(TRUE, {"small"}, {},
  [None EXCEPT !["messages"] = 2, !["deaths"] = 1, !["crashes"] = 1, !["panes"] = 3])
=============================================================================
