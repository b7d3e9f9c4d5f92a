----------------------------- MODULE MCTopicMove -----------------------------
(* Instances of TopicMove: each setup spends its bounds on one question.    *)
EXTENDS TopicMove

None == [moves |-> 0, topics |-> 0, faults |-> 0, crashes |-> 0, messages |-> 0, notifies |-> 0,
         sweeps |-> 0, works |-> 0, taps |-> 0, warns |-> 0]

(* Two operators, three requests, a fault: the request file.         *)
Racing == [None EXCEPT !.moves = 3, !.faults = 1]
(* Two moves in a row, interrupted anywhere.                                *)
Interrupted == [None EXCEPT !.moves = 2, !.faults = 1, !.crashes = 1]
(* Messages, notices and the sweep while the folder moves.                  *)
Writing == [None EXCEPT !.moves = 1, !.messages = 2, !.notifies = 1, !.sweeps = 1]
Failing == [None EXCEPT !.moves = 1, !.messages = 1, !.sweeps = 1, !.faults = 1, !.crashes = 1]
(* A question, a revive or a carry-forward in the topic.                    *)
Working == [None EXCEPT !.moves = 1, !.messages = 1, !.works = 1, !.taps = 1]
(* A message or a command in a topic that no session has.                   *)
Straying == [None EXCEPT !.moves = 1, !.messages = 1, !.topics = 1]
(* The warning loop over two moves.                                         *)
Warning == [None EXCEPT !.moves = 2, !.warns = 2]

(* An unfinished carry-forward's record, and what keeps it from following.  *)
Recording == [None EXCEPT !.moves = 1, !.works = 1, !.faults = 1, !.crashes = 1]

MCSetups == {Racing, Interrupted, Writing, Failing, Working, Warning, Recording, Straying}
MCHalting == {Working}
=============================================================================
