------------------------------ MODULE Outbound ------------------------------
(***************************************************************************)
(* What a command that posts a message promises its caller.  The message    *)
(* has parts (chunks of a long text, files); the parts are posted in order, *)
(* each at most once, and the verdict the caller gets is true.  "unknown"   *)
(* means the part in hand may or may not be there; "none" that the command  *)
(* ended without a verdict.                                                 *)
(***************************************************************************)
EXTENDS Integers

CONSTANTS Senders, MaxParts

VARIABLES length, inHand, posted, verdict

vars == <<length, inHand, posted, verdict>>

Init ==
  /\ length = [s \in Senders |-> 0] /\ inHand = [s \in Senders |-> 0]
  /\ posted = [s \in Senders |-> 0] /\ verdict = [s \in Senders |-> "none"]

Begin(s) ==
  /\ verdict[s] = "none" /\ inHand[s] = 0
  /\ \E n \in 1..MaxParts : length' = [length EXCEPT ![s] = n]
  /\ inHand' = [inHand EXCEPT ![s] = 1] /\ posted' = [posted EXCEPT ![s] = 0]
  /\ verdict' = [verdict EXCEPT ![s] = "open"]

Post(s) ==
  /\ verdict[s] = "open" /\ posted[s] = inHand[s] - 1
  /\ posted' = [posted EXCEPT ![s] = inHand[s]]
  /\ UNCHANGED <<length, inHand, verdict>>

TakeNext(s) ==
  /\ verdict[s] = "open" /\ posted[s] = inHand[s] /\ inHand[s] < length[s]
  /\ inHand' = [inHand EXCEPT ![s] = @ + 1]
  /\ UNCHANGED <<length, posted, verdict>>

Holds(s, v) ==
  CASE v = "sent" -> posted[s] = length[s]
    [] v = "failed" -> posted[s] = inHand[s] - 1
    [] OTHER -> TRUE

End(s) ==
  /\ verdict[s] = "open"
  /\ \E v \in {"sent", "failed", "unknown", "none"} :
       Holds(s, v) /\ verdict' = [verdict EXCEPT ![s] = v]
  /\ UNCHANGED <<length, inHand, posted>>

(* The caller has heard the verdict, or the command is gone without one.    *)
Leave(s) ==
  /\ inHand[s] > 0
  /\ length' = [length EXCEPT ![s] = 0] /\ inHand' = [inHand EXCEPT ![s] = 0]
  /\ posted' = [posted EXCEPT ![s] = 0] /\ verdict' = [verdict EXCEPT ![s] = "none"]

Next == \E s \in Senders : Begin(s) \/ Post(s) \/ TakeNext(s) \/ End(s) \/ Leave(s)

Spec == Init /\ [][Next]_vars
=============================================================================
