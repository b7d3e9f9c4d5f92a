--------------------------- MODULE Parking_proofs ---------------------------
(***************************************************************************)
(* Proofs about Parking for any number of panes and any setups: what the    *)
(* registry entry says is true of the session, nothing is launched that     *)
(* nobody asked for, and the newest record a parked session had drained     *)
(* and not handled comes back.                                              *)
(***************************************************************************)
EXTENDS Parking, SequenceTheorems, TLAPS

---------------------------------------------------------------------------
(* The inductive invariant *)

(* No pane but those launched is known to anyone, and none comes back.      *)
Launched == 1..Len(names)
PaneInv ==
  /\ Len(names) \in 1..MaxPanes
  /\ alive \subseteq Launched /\ killed \subseteq Launched /\ alive \cap killed = {}
  /\ entry.pane \in Launched /\ life.pane \in Launched \cup {NoPane}
  /\ reviver.pc \notin {"off", "start"} => reviver.pane \in Launched

(* The parker.  A claim is its own or a dead daemon's; while it stands the  *)
(* entry is as the claim wrote it, on the pane the parker is to kill.       *)
Before == {"off", "screened"}
After == {"look", "append", "ask", "wait", "judged"}
ParkerInv ==
  /\ parker.pc = "off" <=> parker = Off
  /\ parker.token = 0 <=> parker.pc \in Before
  /\ parker.pc # "off" => bounds["parks"] # 0 /\ parker.pane \in Launched
  /\ parker.token # 0 => entry.claim \in {0, parker.token}
  /\ UnderClaim /\ entry.claim = parker.token => entry.pane = parker.pane /\ entry.ended /\ entry.parked
  /\ parker.pc \in {"killed"} \cup After => parker.pane \in killed
  /\ bounds["crashes"] = 0 /\ entry.claim # 0 => UnderClaim
  /\ killed # {} => bounds["parks"] # 0

(* The sweep takes one topic at a time, and what it saw dead stays dead.    *)
LifeInv ==
  /\ life.pc # "off" => life.pane \in Launched /\ asks["lifecycle"].pc = "none"
  /\ life.pc \in {"dead", "marked", "closed"} => life.pane \notin alive
  /\ life.binds <= binds
  /\ life.pc \in {"marked", "closed"} /\ bounds["parks"] = 0 =>
       (entry.pane = life.pane /\ entry.ended) \/ binds > life.binds

(* Nothing but the bridge's own failures happened, and one of those at most. *)
Quiet == ~owned /\ bounds["grants"] = 0 /\ bounds["faults"] <= 1
QuietInv ==
  /\ asks["parker"].pc # "none" => parker.pc = "wait"
  /\ ~owned => \A i \in DOMAIN inbox : inbox[i].kind = "notify"
  /\ bounds["grants"] = 0 => authority = {}
  /\ Quiet =>
       /\ Len(names) = 1 /\ pending = "none" /\ reviver.pc = "off"
       /\ asks["handler"].pc = "none"
       /\ \A c \in Callers : asks[c].pc # "none" => asks[c].pc = "check" /\ bounds["faults"] = 1
       /\ asks["lifecycle"].pc # "none" => entry.parked \/ ~entry.ended
       /\ parker.authorityLost => bounds["faults"] = 1
       /\ UnderClaim => entry.claim = parker.token
       /\ parker.token # 0 => entry.ended /\ entry.parked

(* A large session costs nothing before the owner's answer.                 *)
SpendInv ==
  size = "large" =>
    /\ \A c \in Callers : asks[c].pc \notin {"revive", "preset"}
    /\ ~answered => Len(names) = 1 /\ binds = 0 /\ reviver.pc = "off"

(* The record the repair took is one of the inbox.                          *)
DropInv == parker.pc = "append" => parker.drop \in 1..Len(inbox)

IInv ==
  /\ TypeOK /\ DropInv /\ PaneInv /\ ParkerInv /\ LifeInv /\ QuietInv /\ SpendInv
  /\ EndedMeansDown /\ ParkedMeansKilled /\ CorrectionTrue

(* The newest record, drained by a pane the parker has killed.              *)
NewestLost == inbox # <<>> /\ inbox[Len(inbox)].st = "drained" /\ inbox[Len(inbox)].by \in killed

(* The places of the parker at which such a loss is still to be dealt with. *)
Repairing ==
  \/ parker.pc \in {"killed", "look"}
  \/ parker.pc = "append" /\ parker.drop = Len(inbox)
  \/ parker.pc \in {"ask", "wait", "judged"} /\ parker.appendFailed

OneFailed == bounds["crashes"] = 0 /\ bounds["faults"] <= 1 /\ "drop" \notin setup.faults
ReplayInv ==
  /\ parker.appendFailed => bounds["faults"] # 0
  /\ OneFailed /\ NewestLost => resend \/ Repairing

---------------------------------------------------------------------------
(* Types *)

Strings == {"other", "base", "suffixed"}
GatePcs == {"exempt", "alive", "cf", "unread", "recent", "idle"}

LEMMA GateNames ==
  /\ \A i \in DOMAIN Gates : Gates[i] \in GatePcs /\ NextGate(Gates[i]) \in GatePcs \cup {"final"}
  /\ DOMAIN Gates = 1..6 /\ Gates[1] = "exempt"
<1>1. DOMAIN Gates = 1..6 /\ Len(Gates) = 6
  BY DEF Gates
<1>2. \A i \in 1..6 : Gates[i] \in GatePcs
  BY DEF Gates, GatePcs
<1>3. ASSUME NEW i \in 1..6 PROVE NextGate(Gates[i]) \in GatePcs \cup {"final"}
  <2>1. PICK j \in 1..6 : /\ Gates[j] = Gates[i]
                          /\ NextGate(Gates[i]) = IF j = 6 THEN "final" ELSE Gates[j + 1]
    BY <1>1 DEF NextGate
  <2>2. j # 6 => j + 1 \in 1..6
    OBVIOUS
  <2> QED BY <1>2, <2>1, <2>2
<1> QED BY <1>1, <1>2, <1>3 DEF Gates

ParkerPcs == {"off", "screened", "final", "kill", "killed", "look", "append", "ask", "wait", "judged"}
             \cup GatePcs

LEMMA ParkerType ==
  Parker = [pc : ParkerPcs, pane : Panes \cup {NoPane}, token : Nat,
            drop : Nat, authorityLost : BOOLEAN, appendFailed : BOOLEAN, durable : BOOLEAN]
<1>1. {Gates[i] : i \in DOMAIN Gates} = GatePcs
  <2>1. /\ Gates[1] = "exempt" /\ Gates[2] = "alive" /\ Gates[3] = "cf" /\ Gates[4] = "unread"
        /\ Gates[5] = "recent" /\ Gates[6] = "idle" /\ DOMAIN Gates = 1..6
    BY DEF Gates
  <2> QED BY <2>1 DEF GatePcs
<1> QED BY <1>1 DEF Parker, ParkerPcs

LEMMA Constants ==
  /\ MaxPanes \in Nat \ {0} /\ Setups \subseteq Setup
  /\ \A s \in Setups : s \in Setup /\ s.max["panes"] \in 1..MaxPanes
BY ParkingAssumption DEF ParkingAssumption

LEMMA RestTypes ==
  /\ Off \in Parker /\ LifeOff \in Life /\ ReviverOff \in Reviver /\ Idle \in Asks
  /\ Off.pc = "off" /\ LifeOff.pc = "off" /\ ReviverOff.pc = "off" /\ Idle.pc = "none"
BY ParkerType DEF Off, LifeOff, ReviverOff, Idle, Life, Reviver, Asks, ParkerPcs, Panes, NoPane

LEMMA CountType ==
  ASSUME TypeOK, NEW b \in Bounded, Count(b)
  PROVE  /\ bounds' \in [Bounded -> Nat] /\ bounds'[b] = bounds[b] + 1
         /\ \A c \in Bounded \ {b} : bounds'[c] = bounds[c]
BY DEF Count, TypeOK

LEMMA BoundNames ==
  /\ "faults" \in Bounded /\ "parks" \in Bounded /\ "deaths" \in Bounded
  /\ "moves" \in Bounded /\ "grants" \in Bounded /\ "crashes" \in Bounded
BY DEF Bounded

(* What the types of the variables come to, and the fields of each record.  *)
LEMMA Fields ==
  ASSUME TypeOK
  PROVE  /\ entry.pane \in Panes /\ entry.ended \in BOOLEAN /\ entry.parked \in BOOLEAN /\ entry.claim \in Nat
         /\ parker \in [pc : ParkerPcs, pane : Panes \cup {NoPane}, token : Nat, drop : Nat,
                        authorityLost : BOOLEAN, appendFailed : BOOLEAN, durable : BOOLEAN]
         /\ Panes \subseteq Nat /\ NoPane \notin Panes
BY Constants, ParkerType DEF TypeOK, Entry, Panes, NoPane

(* The record of a caller changes alone.                                    *)
LEMMA CallType ==
  ASSUME TypeOK, NEW c \in Callers, NEW a \in Asks, asks' = [asks EXCEPT ![c] = a]
  PROVE  asks' \in [Callers -> Asks] /\ asks'[c] = a /\ \A d \in Callers \ {c} : asks'[d] = asks[d]
BY DEF TypeOK

LEMMA AskNames ==
  /\ \A pc \in {"none", "check", "reopen", "ask", "asking"} : [Idle EXCEPT !.pc = pc] \in Asks
  /\ \A pc \in {"ask", "preset", "revive"}, p \in Panes : [pc |-> pc, was |-> p] \in Asks
  /\ Decided \in {"ask", "preset", "revive"}
BY DEF Idle, Asks, Decided

LEMMA AskTypes ==
  ASSUME TypeOK, NEW c \in Callers, Ask(c)
  PROVE  TypeOK'
<1>1. CASE Check(c)
  <2>1. PICK a \in Asks : asks' = [asks EXCEPT ![c] = a]
    BY <1>1, AskNames, RestTypes, Fields DEF Check, Returns
  <2>2. bounds' = bounds \/ Count("faults")
    BY <1>1 DEF Check
  <2> QED BY <1>1, <2>1, <2>2, CallType, CountType, BoundNames DEF Check, TypeOK
<1>2. CASE StartRevive(c)
  <2>1. reviver' \in Reviver
    BY <1>2 DEF StartRevive, TypeOK, Reviver, Asks
  <2> QED BY <1>2, <2>1, CallType, RestTypes DEF StartRevive, Returns, TypeOK
<1>3. CASE Offer(c) \/ Offered(c) \/ OfferUndelivered(c)
  <2>1. PICK a \in Asks : asks' = [asks EXCEPT ![c] = a]
    BY <1>3, AskNames, RestTypes DEF Offer, Offered, OfferUndelivered, Returns, Calls
  <2>2. bounds' = bounds \/ Count("faults")
    BY <1>3 DEF Offer, Offered, OfferUndelivered
  <2>3. pending' \in {"none", "prepared", "delivered", "reviving"}
    BY <1>3 DEF Offer, Offered, OfferUndelivered, TypeOK
  <2> QED BY <1>3, <2>1, <2>2, <2>3, CallType, CountType, BoundNames
          DEF Offer, Offered, OfferUndelivered, TypeOK
<1> QED BY <1>1, <1>2, <1>3 DEF Ask

LEMMA ReviveTypes ==
  ASSUME TypeOK, PaneInv, Revive
  PROVE  TypeOK'
<1>0. /\ reviver \in [pc : {"off", "start", "found", "up", "ready", "bound"}, how : {"auto", "choice"},
                      was : Panes \cup {NoPane}, pane : Panes \cup {NoPane}]
      /\ ReviverOff \in Reviver /\ names \in Seq(Strings)
  BY RestTypes DEF TypeOK, Reviver, Strings
<1>1. CASE FindPane
  <2>1. reviver' \in Reviver
    BY <1>0, <1>1 DEF FindPane, TypeOK, Reviver
  <2> QED BY <1>1, <2>1 DEF FindPane, TypeOK
<1>2. CASE LaunchPane
  <2> DEFINE p == Len(names) + 1
  <2>1. p \in Panes
    <3>1. Len(names) \in Nat
      BY <1>0, LenProperties
    <3>2. setup.max["panes"] \in 1..MaxPanes
      BY Constants DEF TypeOK
    <3> QED BY <1>2, <3>1, <3>2, Constants DEF LaunchPane, Panes
  <2>2. reviver' \in Reviver /\ alive' \subseteq Panes
    <3> HIDE DEF p
    <3>1. reviver' = [reviver EXCEPT !.pc = "up", !.pane = p] /\ alive' = alive \cup {p}
      BY <1>2 DEF LaunchPane, p
    <3> QED BY <1>0, <2>1, <3>1 DEF TypeOK, Reviver
  <2>3. names' \in Seq(Strings)
    <3>1. TmuxName \in Strings
      BY DEF TmuxName, Strings
    <3> QED BY <1>0, <1>2, <3>1, AppendProperties DEF LaunchPane
  <2> QED BY <1>2, <2>2, <2>3 DEF LaunchPane, TypeOK, Strings
<1>3. CASE LaunchFails \/ CheckEngine
  <2>1. reviver' \in Reviver /\ pending' \in {"none", "prepared", "delivered", "reviving"}
    BY <1>0, <1>3 DEF LaunchFails, CheckEngine, ReviveFails, TypeOK, Reviver
  <2>2. bounds' = bounds \/ Count("faults")
    BY <1>3 DEF LaunchFails, CheckEngine
  <2> QED BY <1>3, <2>1, <2>2, CountType, BoundNames DEF LaunchFails, CheckEngine, TypeOK
<1>4. CASE ReopenTopic
  <2>1. reviver' \in Reviver /\ topic' \in {"open", "owner", "bridge"}
    BY <1>0, <1>4 DEF ReopenTopic, TypeOK, Reviver
  <2>2. bounds' = bounds \/ Count("faults")
    BY <1>4 DEF ReopenTopic
  <2> QED BY <1>4, <2>1, <2>2, CountType, BoundNames DEF ReopenTopic, TypeOK
<1>5. CASE BindPane
  <2>1. reviver' \in Reviver
    BY <1>0, <1>5 DEF BindPane, Reviver
  <2>2. entry' \in Entry /\ binds' \in Nat
    <3>1. reviver.pane \in Panes
      BY <1>5, Constants DEF BindPane, PaneInv, Launched, Panes
    <3> QED BY <1>5, <3>1 DEF BindPane, Bind, Entry, TypeOK
  <2> QED BY <1>5, <2>1, <2>2 DEF BindPane, TypeOK
<1>6. CASE Revived
  BY <1>0, <1>6 DEF Revived, TypeOK
<1> QED BY <1>1, <1>2, <1>3, <1>4, <1>5, <1>6 DEF Revive

LEMMA LifeTypes ==
  ASSUME TypeOK, Lifecycle
  PROVE  TypeOK'
<1>0. /\ life \in [pc : {"off", "read", "dead", "marked", "closed", "undo"}, pane : Panes \cup {NoPane}, binds : Nat]
      /\ LifeOff \in Life /\ entry.pane \in Panes
  BY RestTypes, Fields DEF TypeOK, Life
<1>1. life' \in Life
  BY ZenonT(60), <1>0 DEF Lifecycle, LifeRead, LifeLook, MarkEnded, CloseTopic, LookAgain, UndoClose, PollParked,
      Life, LifeOff, TypeOK
<1>2. entry' \in Entry
  BY DEF Lifecycle, LifeRead, LifeLook, MarkEnded, CloseTopic, LookAgain, UndoClose, PollParked,
      TypeOK, StampEnded, Entry
<1>3. topic' \in {"open", "owner", "bridge"}
  BY DEF Lifecycle, LifeRead, LifeLook, MarkEnded, CloseTopic, LookAgain, UndoClose, PollParked, TypeOK
<1>4. bounds' \in [Bounded -> Nat]
  <2>1. bounds' = bounds \/ Count("faults")
    BY DEF Lifecycle, LifeRead, LifeLook, MarkEnded, CloseTopic, LookAgain, UndoClose, PollParked
  <2> QED BY <2>1, CountType, BoundNames DEF TypeOK
<1>5. asks' \in [Callers -> Asks]
  <2>1. asks' = asks \/ Calls("lifecycle", "check")
    BY DEF Lifecycle, LifeRead, LifeLook, MarkEnded, CloseTopic, LookAgain, UndoClose, PollParked
  <2>2. "lifecycle" \in Callers
    BY DEF Callers
  <2> QED BY <2>1, <2>2, CallType, AskNames DEF Calls, TypeOK
<1>6. UNCHANGED <<setup, size, alive, names, inbox, authority, pending, parker, reviver, binds, killed, owned,
                  answered, resend>>
  BY DEF Lifecycle, LifeRead, LifeLook, MarkEnded, CloseTopic, LookAgain, UndoClose, PollParked
<1> QED BY <1>1, <1>2, <1>3, <1>4, <1>5, <1>6 DEF TypeOK

(* The parker's steps that touch nothing but its place and the entry.       *)
LEMMA UndoType ==
  ASSUME TypeOK, UndoClaim
  PROVE  parker' \in Parker /\ entry' \in Entry
BY RestTypes DEF UndoClaim, TypeOK, Entry

LEMMA ParkTypes ==
  ASSUME TypeOK, DropInv, Park
  PROVE  TypeOK'
<1>0. /\ parker \in [pc : ParkerPcs, pane : Panes \cup {NoPane}, token : Nat, drop : Nat,
                     authorityLost : BOOLEAN, appendFailed : BOOLEAN, durable : BOOLEAN]
      /\ Off \in Parker /\ entry.pane \in Panes /\ entry \in Entry /\ bounds \in [Bounded -> Nat]
  BY RestTypes, Fields DEF TypeOK
<1>1. CASE Screen
  <2>1. parker' \in Parker
    BY <1>0, <1>1, ParkerType DEF Screen, Off, ParkerPcs
  <2> QED BY <1>1, <2>1, CountType, BoundNames DEF Screen, TypeOK
<1>2. CASE ClaimPark
  <2>1. parker' \in Parker
    <3>1. Gates[1] \in ParkerPcs /\ bounds["parks"] \in Nat
      BY <1>0, GateNames, BoundNames DEF ParkerPcs, GatePcs
    <3> QED BY <1>0, <1>2, <3>1, ParkerType DEF ClaimPark
  <2>2. entry' \in Entry
    <3>1. PICK n \in Nat : n = bounds["parks"]
      BY <1>0, BoundNames
    <3>2. entry' = entry \/ entry' = [entry EXCEPT !.ended = TRUE, !.parked = TRUE, !.claim = n]
      BY <1>2, <3>1 DEF ClaimPark
    <3> QED BY <1>0, <3>1, <3>2 DEF Entry
  <2> QED BY <1>2, <2>1, <2>2 DEF ClaimPark, TypeOK
<1>3. ASSUME NEW i \in DOMAIN Gates, Gate(Gates[i]) PROVE TypeOK'
  <2>1. parker' \in Parker /\ entry' \in Entry
    <3>1. NextGate(Gates[i]) \in ParkerPcs
      BY GateNames DEF ParkerPcs
    <3> QED BY <1>0, <1>3, <3>1, ParkerType, UndoType DEF Gate
  <2> QED BY <1>3, <2>1 DEF Gate, TypeOK
<1>4. CASE FinalLook \/ KillFails
  <2>1. parker' \in Parker /\ entry' \in Entry
    BY <1>0, <1>4, ParkerType, UndoType DEF FinalLook, KillFails, ParkerPcs
  <2>2. bounds' = bounds \/ Count("faults")
    BY <1>4 DEF FinalLook, KillFails
  <2> QED BY <1>4, <2>1, <2>2, CountType, BoundNames DEF FinalLook, KillFails, TypeOK
<1>5. CASE KillPane
  <2>1. parker' \in Parker
    BY <1>0, <1>5, ParkerType DEF KillPane, ParkerPcs
  <2> QED BY <1>5, <2>1 DEF KillPane, TypeOK
<1>6. CASE ReleaseClaim
  <2>1. parker' \in Parker
    BY <1>0, <1>6, ParkerType DEF ReleaseClaim, ParkerPcs
  <2>2. entry' \in Entry
    BY <1>0, <1>6 DEF ReleaseClaim, Entry
  <2> QED BY <1>6, <2>1, <2>2 DEF ReleaseClaim, TypeOK
<1>7. CASE RepairLook
  <2>1. ASSUME NEW d \in Nat, NEW b \in BOOLEAN, Repairs(d, b) PROVE parker' \in Parker
    BY <1>0, <2>1, ParkerType DEF Repairs, ParkerPcs
  <2>2. Len(inbox) \in Nat
    BY LenProperties DEF TypeOK
  <2>3. parker' \in Parker
    BY <1>7, <2>1, <2>2 DEF RepairLook
  <2>4. bounds' = bounds \/ Count("faults")
    BY <1>7 DEF RepairLook
  <2> QED BY <1>7, <2>3, <2>4, CountType, BoundNames DEF RepairLook, TypeOK
<1>8. CASE Redeliver
  <2>1. parker' \in Parker
    BY <1>0, <1>8, ParkerType DEF Redeliver, ParkerPcs
  <2>2. inbox' \in Seq(Record)
    <3> DEFINE d == parker.drop
               n == Len(inbox)
    <3>1. /\ n \in Nat /\ DOMAIN inbox = 1..n /\ \A i \in 1..n : inbox[i] \in Record
          /\ d \in 1..n
      BY <1>8, ElementOfSeq, LenProperties DEF DropInv, Redeliver, TypeOK
    <3>2. [inbox[d] EXCEPT !.st = "unread", !.by = NoPane] \in Record
      BY <3>1 DEF Record
    <3>3. inbox' = Again(d)
      BY <1>8 DEF Redeliver
    <3> HIDE DEF d, n
    <3>4. inbox' \in [1..n -> Record]
      <4>1. ASSUME NEW i \in 1..n, i < n PROVE i + 1 \in 1..n
        BY <3>1, <4>1
      <4> QED BY <3>1, <3>2, <3>3, <4>1 DEF Again, n
    <3> QED BY <3>1, <3>4, SeqDef
  <2> QED BY <1>8, <2>1, <2>2 DEF Redeliver, TypeOK
<1>9. CASE RedeliverFails \/ RepairWait
  <2>1. parker' \in Parker
    BY ZenonT(60), <1>0, <1>9, ParkerType DEF RedeliverFails, RepairWait, ParkerPcs, TypeOK, Entry
  <2>2. bounds' = bounds \/ Count("faults")
    BY <1>9 DEF RedeliverFails, RepairWait
  <2> QED BY <1>9, <2>1, <2>2, CountType, BoundNames DEF RedeliverFails, RepairWait, TypeOK
<1>10. CASE RepairAsk
  <2>1. parker' \in Parker
    BY <1>0, <1>10, ParkerType DEF RepairAsk, ParkerPcs
  <2>2. asks' \in [Callers -> Asks]
    <3>1. asks' = asks \/ asks' = [asks EXCEPT !["parker"].pc = "check"]
      BY <1>10 DEF RepairAsk
    <3> QED BY <3>1 DEF TypeOK, Asks, Callers
  <2>3. bounds' = bounds \/ Count("faults")
    BY <1>10 DEF RepairAsk
  <2> QED BY <1>10, <2>1, <2>2, <2>3, CountType, BoundNames DEF RepairAsk, TypeOK
<1>11. CASE RepairEnd
  <2>1. parker' \in Parker /\ resend' \in BOOLEAN
    BY <1>0, <1>11 DEF RepairEnd, TypeOK
  <2>2. bounds' = bounds \/ Count("faults")
    BY <1>11 DEF RepairEnd
  <2> QED BY <1>11, <2>1, <2>2, CountType, BoundNames DEF RepairEnd, TypeOK
<1> QED BY <1>1, <1>2, <1>3, <1>4, <1>5, <1>6, <1>7, <1>8, <1>9, <1>10, <1>11 DEF Park

LEMMA OwnerTypes ==
  ASSUME TypeOK, Owner
  PROVE  TypeOK'
<1>0. "handler" \in Callers /\ entry.pane \in Panes /\ ReviverOff \in Reviver
  BY Fields, RestTypes DEF Callers
<1>1. CASE OwnerMessage
  <2>1. inbox' \in Seq(Record)
    <3>1. [kind |-> "owner", st |-> "unread", by |-> NoPane] \in Record
      BY DEF Record
    <3> QED BY <1>1, <3>1, AppendProperties DEF OwnerMessage, Append1, TypeOK
  <2>2. asks' \in [Callers -> Asks]
    BY <1>0, <1>1, CallType, AskNames DEF OwnerMessage, Calls
  <2> QED BY <1>1, <2>1, <2>2 DEF OwnerMessage, TypeOK
<1>2. CASE OwnerAnswers
  <2>1. reviver' \in Reviver
    BY <1>0, <1>2 DEF OwnerAnswers, TypeOK, Reviver
  <2> QED BY <1>2, <2>1 DEF OwnerAnswers, TypeOK
<1>3. CASE OwnerCloses
  BY <1>3, CountType, BoundNames DEF OwnerCloses, TypeOK
<1>4. CASE OwnerReopens
  <2>1. asks' \in [Callers -> Asks]
    BY <1>0, <1>4, CallType, AskNames DEF OwnerReopens, Calls
  <2> QED BY <1>4, <2>1, CountType, BoundNames DEF OwnerReopens, TypeOK
<1> QED BY <1>1, <1>2, <1>3, <1>4 DEF Owner

LEMMA WorldTypes ==
  ASSUME TypeOK, World
  PROVE  TypeOK'
<1>1. CASE Notify
  <2>1. [kind |-> "notify", st |-> "unread", by |-> NoPane] \in Record
    BY DEF Record
  <2>2. inbox' \in Seq(Record)
    BY <1>1, <2>1, AppendProperties DEF Notify, Append1, TypeOK
  <2> QED BY <1>1, <2>2 DEF Notify, TypeOK
<1>2. CASE CarryForwardEnds
  BY <1>2 DEF CarryForwardEnds, TypeOK
<1>3. CASE Crash
  <2>1. asks' \in [Callers -> Asks]
    BY <1>3, RestTypes DEF Crash
  <2> QED BY <1>3, <2>1, RestTypes, CountType, BoundNames DEF Crash, TypeOK
<1>4. ASSUME NEW a \in {"exempt", "cf"}, Grant(a) PROVE TypeOK'
  BY <1>4, CountType, BoundNames DEF Grant, TypeOK
<1>5. ASSUME NEW p \in Panes, Drain(p) \/ Handle(p) PROVE TypeOK'
  <2>1. PICK n \in Nat : n = Len(inbox) /\ DOMAIN inbox = 1..n
    BY LenProperties DEF TypeOK
  <2>2. \A i \in 1..n : inbox[i] \in Record
    BY <2>1, ElementOfSeq DEF TypeOK
  <2>3. \E f : inbox' = [i \in 1..n |-> f[i]] /\ \A i \in 1..n : f[i] \in Record
    <3>1. ASSUME NEW i \in 1..n PROVE inbox'[i] \in Record
      <4>1. PICK r \in Record : r = inbox[i]
        BY <2>2
      <4>2. inbox'[i] \in {r, [r EXCEPT !.st = "drained", !.by = p], [r EXCEPT !.st = "handled"]}
        BY <1>5, <2>1, <4>1 DEF Drain, Handle
      <4> QED BY <4>1, <4>2 DEF Record
    <3>2. inbox' = [i \in 1..n |-> inbox'[i]]
      BY <1>5, <2>1 DEF Drain, Handle
    <3> QED BY <3>1, <3>2
  <2>4. inbox' \in Seq(Record)
    BY <2>1, <2>3, SeqDef
  <2> QED BY <1>5, <2>4 DEF Drain, Handle, TypeOK
<1>6. ASSUME NEW p \in Panes, PaneDies(p) PROVE TypeOK'
  BY <1>6, CountType, BoundNames DEF PaneDies, TypeOK
<1> QED BY <1>1, <1>2, <1>3, <1>4, <1>5, <1>6 DEF World

LEMMA TypeNext ==
  ASSUME TypeOK, DropInv, PaneInv, [Next]_vars
  PROVE  TypeOK'
<1>1. CASE UNCHANGED vars
  BY <1>1 DEF vars, TypeOK
<1> QED BY <1>1, AskTypes, ReviveTypes, LifeTypes, ParkTypes, OwnerTypes, WorldTypes DEF Next

---------------------------------------------------------------------------
(* Panes *)

(* What each thread leaves of the panes.                                    *)
LEMMA AskLeaves ==
  ASSUME NEW c \in Callers, Ask(c)
  PROVE  /\ UNCHANGED <<setup, size, entry, alive, names, inbox, authority, topic, parker, life, binds, killed, owned,
                        answered, resend>>
         /\ reviver' = reviver \/ (StartRevive(c) /\ reviver.pc = "off" /\ reviver'.pc = "start")
         /\ bounds' = bounds \/ Count("faults")
<1>1. StartRevive(c) /\ reviver.pc = "off" => reviver'.pc = "start"
  BY DEF StartRevive, Reviving
<1> QED BY <1>1 DEF Ask, Check, StartRevive, Offer, Offered, OfferUndelivered, Reviving

LEMMA LifeLeaves ==
  ASSUME Lifecycle
  PROVE  /\ UNCHANGED <<setup, size, alive, names, inbox, authority, pending, parker, reviver, binds, killed, owned,
                        answered, resend>>
         /\ entry' = entry \/ (MarkEnded /\ StampEnded /\ entry.pane = life.pane)
         /\ asks' = asks \/ (PollParked /\ Calls("lifecycle", "check"))
         /\ bounds' = bounds \/ Count("faults")
BY DEF Lifecycle, LifeRead, LifeLook, MarkEnded, CloseTopic, LookAgain, UndoClose, PollParked

LEMMA ParkLeaves ==
  ASSUME Park
  PROVE  /\ UNCHANGED <<setup, size, names, authority, topic, life, reviver, binds, owned, answered>>
         /\ (alive' = alive /\ killed' = killed) \/ KillPane
         /\ bounds' = bounds \/ Screen \/ Count("faults")
         /\ inbox' = inbox \/ Redeliver
         /\ asks' = asks \/ RepairAsk
         /\ pending' = pending \/ RepairEnd
         /\ resend' = resend \/ RepairEnd
         /\ entry' = entry \/ ClaimPark \/ UndoClaim \/ ReleaseClaim
BY DEF Park, Screen, ClaimPark, Gate, FinalLook, KillPane, KillFails, ReleaseClaim, RepairLook, Redeliver,
   RedeliverFails, RepairAsk, RepairWait, RepairEnd

LEMMA OwnerLeaves ==
  ASSUME Owner
  PROVE  /\ UNCHANGED <<setup, size, entry, alive, names, authority, parker, life, binds, killed, resend>>
         /\ reviver' = reviver \/ (OwnerAnswers /\ answered' = TRUE /\ reviver'.pc = "start")
         /\ bounds' = bounds \/ Count("moves")
         /\ inbox' = inbox \/ OwnerMessage
         /\ asks' = asks \/ OwnerMessage \/ OwnerReopens
         /\ answered' = answered \/ answered' = TRUE
         /\ owned' = TRUE \/ (OwnerCloses /\ UNCHANGED <<owned, pending>>)
BY DEF Owner, OwnerMessage, OwnerAnswers, OwnerCloses, OwnerReopens

LEMMA WorldLeaves ==
  ASSUME World
  PROVE  /\ UNCHANGED <<setup, size, entry, names, topic, binds, killed, owned, answered, resend>>
         /\ alive' = alive \/ \E p \in Panes : PaneDies(p)
         /\ UNCHANGED <<life, reviver, parker, asks, pending>> \/ Crash
         /\ bounds' = bounds \/ Crash \/ Count("deaths") \/ Count("grants")
BY DEF World, Notify, CarryForwardEnds, Crash, Grant, Drain, Handle, PaneDies

LEMMA PaneNext ==
  ASSUME TypeOK, PaneInv, [Next]_vars
  PROVE  PaneInv'
<1>0. PICK n \in 1..MaxPanes : n = Len(names) /\ Launched = 1..n
  BY DEF PaneInv, Launched
<1>1. ASSUME NEW c \in Callers, Ask(c) PROVE PaneInv'
  BY <1>1, AskLeaves DEF PaneInv, Launched
<1>2. CASE FindPane
  <2>1. \E p \in alive : reviver'.pane = p
    BY <1>2 DEF FindPane, TypeOK, Reviver
  <2> QED BY <1>2, <2>1 DEF FindPane, PaneInv, Launched
<1>3. CASE LaunchPane
  <2>1. /\ alive' = alive \cup {n + 1} /\ names' = Append(names, TmuxName) /\ n + 1 <= setup.max["panes"]
        /\ UNCHANGED <<killed, entry, life>> /\ reviver'.pane = n + 1
    BY <1>0, <1>3 DEF LaunchPane, TypeOK, Reviver
  <2>2. Len(names') = n + 1
    <3>1. TmuxName \in Strings /\ names \in Seq(Strings)
      BY DEF TmuxName, Strings, TypeOK
    <3> QED BY <1>0, <2>1, <3>1, AppendProperties
  <2>3. setup.max["panes"] \in 1..MaxPanes /\ MaxPanes \in Nat
    BY Constants DEF TypeOK
  <2>4. n \in Nat /\ n + 1 \in 1..MaxPanes /\ 1..n \subseteq 1..(n + 1) /\ n + 1 \in 1..(n + 1) /\ n + 1 \notin 1..n
    BY <2>1, <2>3
  <2>5. Launched' = 1..(n + 1)
    BY <2>2 DEF Launched
  <2> HIDE <1>3
  <2> QED BY <1>0, <2>1, <2>2, <2>4, <2>5 DEF PaneInv
<1>4. CASE LaunchFails \/ CheckEngine \/ ReopenTopic \/ BindPane \/ Revived
  <2>1. UNCHANGED <<alive, names, killed, life>>
    BY <1>4 DEF LaunchFails, CheckEngine, ReopenTopic, BindPane, Revived
  <2>2. entry'.pane \in Launched
    BY <1>4 DEF LaunchFails, CheckEngine, ReopenTopic, BindPane, Revived, Bind, PaneInv
  <2>3. reviver'.pc \notin {"off", "start"} => reviver'.pane \in Launched
    BY <1>4 DEF LaunchFails, CheckEngine, ReopenTopic, BindPane, Revived, ReviveFails, ReviverOff, PaneInv,
       TypeOK, Reviver
  <2> QED BY <2>1, <2>2, <2>3 DEF PaneInv, Launched
<1>5. CASE Lifecycle
  <2>1. entry'.pane = entry.pane
    BY <1>5, LifeLeaves DEF StampEnded, TypeOK, Entry
  <2>2. life'.pane \in {life.pane, entry.pane, NoPane}
    <3>1. /\ life \in Life /\ LifeOff \in Life /\ LifeOff.pane = NoPane
      BY RestTypes DEF TypeOK, LifeOff
    <3>2. \/ life' \in {life, LifeOff, [LifeOff EXCEPT !.pc = "read", !.pane = entry.pane]}
          \/ \E pc \in {"dead", "closed", "undo"} : life' = [life EXCEPT !.pc = pc]
          \/ life' = [life EXCEPT !.pc = "marked", !.binds = binds]
      BY <1>5 DEF Lifecycle, LifeRead, LifeLook, MarkEnded, CloseTopic, LookAgain, UndoClose, PollParked
    <3> HIDE DEF LifeOff
    <3> QED BY <3>1, <3>2 DEF Life
  <2> QED BY <1>5, <2>1, <2>2, LifeLeaves DEF PaneInv, Launched
<1>6. CASE Park
  <2>1. entry'.pane = entry.pane
    BY <1>6 DEF Park, Screen, ClaimPark, Gate, FinalLook, KillPane, KillFails, ReleaseClaim, RepairLook, Redeliver,
       RedeliverFails, RepairAsk, RepairWait, RepairEnd, UndoClaim, TypeOK, Entry
  <2>2. KillPane => parker.pane \in alive /\ alive' = alive \ {parker.pane} /\ killed' = killed \cup {parker.pane}
    BY DEF KillPane
  <2> QED BY <1>6, <2>1, <2>2, ParkLeaves DEF PaneInv, Launched
<1>7. CASE Owner
  BY <1>7, OwnerLeaves DEF PaneInv, Launched
<1>8. CASE World
  <2>1. alive' \subseteq alive
    BY <1>8, WorldLeaves DEF PaneDies
  <2>2. UNCHANGED <<life, reviver>> \/ (life' = LifeOff /\ reviver' = ReviverOff)
    BY <1>8, WorldLeaves DEF Crash
  <2>3. UNCHANGED <<entry, names, killed>> /\ LifeOff.pane = NoPane /\ ReviverOff.pc = "off"
    BY <1>8, WorldLeaves DEF LifeOff, ReviverOff
  <2> QED BY <2>1, <2>2, <2>3 DEF PaneInv, Launched
<1>9. CASE UNCHANGED vars
  BY <1>9 DEF vars, PaneInv, Launched
<1> QED BY <1>1, <1>2, <1>3, <1>4, <1>5, <1>6, <1>7, <1>8, <1>9 DEF Next, Revive

LEMMA Grows ==
  ASSUME TypeOK, PaneInv, [Next]_vars
  PROVE  Launched \subseteq Launched'
<1>1. names' = names \/ names' = Append(names, TmuxName)
  BY AskLeaves, LifeLeaves, ParkLeaves, OwnerLeaves, WorldLeaves
     DEF Next, Revive, FindPane, LaunchPane, LaunchFails, CheckEngine, ReopenTopic, BindPane, Revived, vars
<1>2. Len(names') \in {Len(names), Len(names) + 1} /\ Len(names) \in Nat
  <2>1. TmuxName \in Strings /\ names \in Seq(Strings)
    BY DEF TmuxName, Strings, TypeOK
  <2> QED BY <1>1, <2>1, AppendProperties, LenProperties
<1> QED BY <1>2 DEF Launched

---------------------------------------------------------------------------
(* The parker and the entry *)

(* Which bounds a step counts.                                              *)
LEMMA Counted ==
  ASSUME TypeOK, [Next]_vars
  PROVE  /\ bounds["parks"]' = bounds["parks"] \/ (Screen /\ bounds["parks"]' = bounds["parks"] + 1)
         /\ bounds["crashes"]' = bounds["crashes"] \/ (Crash /\ bounds["crashes"]' = bounds["crashes"] + 1)
         /\ bounds["grants"]' \in {bounds["grants"], bounds["grants"] + 1}
         /\ bounds["faults"]' = bounds["faults"] \/ (Count("faults") /\ bounds["faults"]' = bounds["faults"] + 1)
         /\ bounds["parks"] \in Nat /\ bounds["crashes"] \in Nat /\ bounds["grants"] \in Nat
         /\ bounds["faults"] \in Nat
<1>1. \/ bounds' = bounds \/ Count("faults") \/ (Screen /\ Count("parks")) \/ Count("moves")
      \/ (Crash /\ Count("crashes")) \/ Count("deaths") \/ Count("grants")
  <2>1. Revive => bounds' = bounds \/ Count("faults")
    BY DEF Revive, FindPane, LaunchPane, LaunchFails, CheckEngine, ReopenTopic, BindPane, Revived
  <2>2. (Screen => Count("parks")) /\ (Crash => Count("crashes"))
    BY DEF Screen, Crash
  <2> QED BY <2>1, <2>2, AskLeaves, LifeLeaves, ParkLeaves, OwnerLeaves, WorldLeaves DEF Next, vars
<1>2. ASSUME NEW b \in Bounded, Count(b)
      PROVE  \A c \in {"parks", "crashes", "grants", "faults"} :
               bounds'[c] = bounds[c] \/ (b = c /\ bounds'[c] = bounds[c] + 1)
  BY <1>2, CountType, BoundNames
<1> QED BY <1>1, <1>2, BoundNames DEF TypeOK

LEMMA OffFields ==
  /\ Off.pc = "off" /\ Off.token = 0 /\ Off.pane = NoPane /\ Off.drop = 0
  /\ Off.appendFailed = FALSE /\ Off.authorityLost = FALSE
  /\ LifeOff.pc = "off" /\ LifeOff.pane = NoPane /\ LifeOff.binds = 0 /\ ReviverOff.pc = "off"
BY DEF Off, LifeOff, ReviverOff

(* The parker's steps: it ends, screens, claims, or goes on with its token. *)
ParkEnds ==
  /\ parker.pc # "off" /\ parker' = Off /\ killed' = killed
  /\ UndoClaim \/ (entry' = entry /\ parker.pc \in {"screened"} \cup After)
Screens ==
  /\ Screen /\ parker.pc = "off" /\ killed' = killed /\ entry' = entry
  /\ bounds' = [bounds EXCEPT !["parks"] = @ + 1]
  /\ parker'.pc = "screened" /\ parker'.token = 0 /\ parker'.pane = entry.pane /\ parker'.authorityLost = FALSE
Claims ==
  /\ ClaimPark /\ parker.pc = "screened" /\ killed' = killed /\ entry.pane = parker.pane /\ entry.claim = 0
  /\ parker'.pc = "exempt" /\ parker'.token = bounds["parks"] /\ parker'.pane = parker.pane
  /\ parker'.authorityLost = parker.authorityLost
  /\ entry'.pane = entry.pane /\ entry'.ended /\ entry'.parked /\ entry'.claim = bounds["parks"]
GoesOn ==
  /\ parker.pc \notin {"off", "screened"} /\ parker'.token = parker.token /\ parker'.pane = parker.pane
  /\ \/ /\ parker.pc \in GatePcs \cup {"final"} /\ parker'.pc \in GatePcs \cup {"final", "kill"}
        /\ entry' = entry /\ killed' = killed /\ parker'.authorityLost = parker.authorityLost
     \/ /\ KillPane /\ parker.pc = "kill" /\ parker'.pc = "killed"
        /\ killed' = killed \cup {parker.pane} /\ entry' = entry /\ parker'.authorityLost = parker.authorityLost
     \/ /\ ReleaseClaim /\ parker.pc = "killed" /\ parker'.pc = "look"
        /\ killed' = killed /\ parker'.authorityLost = parker.authorityLost
     \/ parker.pc \in After /\ parker'.pc \in After \ {"look"} /\ entry' = entry /\ killed' = killed

LEMMA ParkerMoves ==
  ASSUME TypeOK, Park
  PROVE  ParkEnds \/ Screens \/ Claims \/ GoesOn
<1> USE DEF ParkEnds, Screens, Claims, GoesOn
<1>0. parker \in [pc : ParkerPcs, pane : Panes \cup {NoPane}, token : Nat, drop : Nat,
                  authorityLost : BOOLEAN, appendFailed : BOOLEAN, durable : BOOLEAN]
  BY Fields
<1>1. CASE Screen
  <2>1. parker' = [Off EXCEPT !.pc = "screened", !.pane = entry.pane]
    BY <1>1 DEF Screen
  <2>2. parker'.pc = "screened" /\ parker'.token = 0 /\ parker'.pane = entry.pane /\ parker'.authorityLost = FALSE
    BY <2>1 DEF Off
  <2> QED BY <1>1, <2>2 DEF Screen, Count
<1>2. CASE ClaimPark
  <2>1. CASE parker' = Off /\ entry' = entry
    BY <1>2, <2>1 DEF ClaimPark
  <2>2. CASE ~(parker' = Off /\ entry' = entry)
    <3> DEFINE t == bounds["parks"]
    <3>1. /\ entry.pane = parker.pane /\ entry.claim = 0 /\ parker.pc = "screened" /\ killed' = killed
          /\ entry' = [entry EXCEPT !.ended = TRUE, !.parked = TRUE, !.claim = t]
          /\ parker' = [parker EXCEPT !.pc = "exempt", !.token = t]
      BY <1>2, <2>2, GateNames DEF ClaimPark
    <3> HIDE DEF t
    <3>2. /\ entry'.pane = entry.pane /\ entry'.ended /\ entry'.parked /\ entry'.claim = t
      BY <3>1 DEF TypeOK, Entry
    <3>3. /\ parker'.pc = "exempt" /\ parker'.token = t /\ parker'.pane = parker.pane
          /\ parker'.authorityLost = parker.authorityLost
      BY <1>0, <3>1
    <3> QED BY <1>2, <3>1, <3>2, <3>3 DEF t
  <2> QED BY <2>1, <2>2
<1>3. ASSUME NEW i \in DOMAIN Gates, Gate(Gates[i]) PROVE
        \/ UndoClaim
        \/ /\ parker.pc \in GatePcs /\ parker'.pc \in GatePcs \cup {"final"} /\ entry' = entry /\ killed' = killed
           /\ parker'.token = parker.token /\ parker'.pane = parker.pane /\ parker'.authorityLost = parker.authorityLost
  <2>1. parker.pc = Gates[i] /\ Gates[i] \in GatePcs /\ NextGate(Gates[i]) \in GatePcs \cup {"final"}
    BY <1>3, GateNames DEF Gate
  <2>2. UndoClaim \/ (parker' = [parker EXCEPT !.pc = NextGate(Gates[i])] /\ entry' = entry /\ killed' = killed)
    BY <1>3 DEF Gate
  <2> HIDE DEF UndoClaim
  <2> QED BY <1>0, <2>1, <2>2
<1>4. CASE FinalLook
  <2>1. UndoClaim \/ (parker' = [parker EXCEPT !.pc = "kill"] /\ entry' = entry /\ killed' = killed)
    BY <1>4 DEF FinalLook
  <2>2. UndoClaim => parker' = Off
    BY DEF UndoClaim
  <2> HIDE DEF UndoClaim
  <2> QED BY <1>0, <1>4, <2>1, <2>2 DEF FinalLook
<1>5. CASE KillFails
  BY <1>5 DEF KillFails, UndoClaim
<1>6. CASE KillPane
  BY <1>0, <1>6 DEF KillPane, GatePcs
<1>7. CASE ReleaseClaim
  <2>1. parker' = [parker EXCEPT !.pc = "look"] /\ parker.pc = "killed" /\ killed' = killed
    BY <1>7 DEF ReleaseClaim
  <2> QED BY <1>0, <1>7, <2>1
<1>8. CASE RepairLook
  <2>1. PICK d, b : Repairs(d, b)
    BY <1>8 DEF RepairLook
  <2>2. entry' = entry /\ killed' = killed /\ parker.pc = "look"
    BY <1>8 DEF RepairLook
  <2> QED BY <1>0, <2>1, <2>2 DEF Repairs, After
<1>9. CASE Redeliver \/ RedeliverFails \/ RepairWait
  <2>1. /\ entry' = entry /\ killed' = killed /\ parker.pc \in After
        /\ \/ parker' = [parker EXCEPT !.pc = "ask"]
           \/ parker' = [parker EXCEPT !.pc = "ask", !.appendFailed = TRUE]
           \/ parker' = [parker EXCEPT !.pc = "judged", !.durable = ~entry.ended \/ pending = "delivered"]
    BY <1>9 DEF Redeliver, RedeliverFails, RepairWait, After
  <2> QED BY <1>0, <2>1 DEF After
<1>10. CASE RepairAsk
  <2>1. /\ entry' = entry /\ killed' = killed /\ parker.pc \in After
        /\ parker' = Off \/ parker' = [parker EXCEPT !.pc = "wait"]
    BY <1>10 DEF RepairAsk, After
  <2> QED BY <1>0, <2>1 DEF After
<1>11. CASE RepairEnd
  BY <1>11 DEF RepairEnd, After
<1>12. UndoClaim => parker' = Off
  BY DEF UndoClaim
<1>13. ASSUME NEW i \in DOMAIN Gates, Gate(Gates[i])
       PROVE  \/ parker' = Off /\ UndoClaim /\ killed' = killed /\ parker.pc # "off"
              \/ /\ parker.pc \notin {"off", "screened"} /\ parker'.token = parker.token /\ parker'.pane = parker.pane
                 /\ parker.pc \in GatePcs \cup {"final"} /\ parker'.pc \in GatePcs \cup {"final", "kill"}
                 /\ entry' = entry /\ killed' = killed /\ parker'.authorityLost = parker.authorityLost
  BY <1>3, <1>12, <1>13, GateNames DEF GatePcs, Gate
<1> QED BY <1>1, <1>2, <1>13, <1>4, <1>5, <1>6, <1>7, <1>8, <1>9, <1>10, <1>11 DEF Park

(* What the other threads do to the entry.                                  *)
LEMMA EntryMoves ==
  ASSUME TypeOK, [Next]_vars, ~Park
  PROVE  \/ entry' = entry
         \/ MarkEnded /\ entry.pane = life.pane /\ entry' = [entry EXCEPT !.ended = TRUE]
         \/ BindPane /\ entry' = [pane |-> reviver.pane, ended |-> FALSE, parked |-> FALSE, claim |-> 0]
BY AskLeaves, LifeLeaves, OwnerLeaves, WorldLeaves
   DEF Next, Revive, FindPane, LaunchPane, LaunchFails, CheckEngine, ReopenTopic, BindPane, Revived, Bind, StampEnded,
       vars

LEMMA ParkerStays ==
  ASSUME TypeOK, [Next]_vars, ~Park
  PROVE  (parker' = parker /\ killed' = killed) \/ (Crash /\ parker' = Off /\ killed' = killed)
BY AskLeaves, LifeLeaves, OwnerLeaves, WorldLeaves
   DEF Next, Revive, FindPane, LaunchPane, LaunchFails, CheckEngine, ReopenTopic, BindPane, Revived, Crash, vars

LEMMA ParkerNext ==
  ASSUME TypeOK, TypeOK', PaneInv, PaneInv', ParkerInv, [Next]_vars
  PROVE  ParkerInv'
<1>0. /\ Launched \subseteq Launched' /\ entry.claim \in Nat /\ parker.token \in Nat
      /\ entry \in Entry /\ entry' \in Entry
  BY Grows, Fields DEF TypeOK, Parker
<1> USE DEF ParkerInv, UnderClaim, After, Before, GatePcs
<1>1. CASE ~Park
  <2>1. CASE UNCHANGED <<entry, parker>>
    BY <1>0, <1>1, <2>1, ParkerStays, Counted DEF Screen, Park
  <2>2. CASE Crash
    <3>1. bounds["crashes"]' # 0 /\ parker' = Off /\ entry' = entry /\ killed' = killed
          /\ bounds["parks"]' = bounds["parks"]
      BY SMTT(30), <2>2, CountType, BoundNames DEF Crash, TypeOK
    <3> HIDE <2>2
    <3> QED BY <1>0, <3>1, OffFields
  <2>3. CASE parker' = parker /\ MarkEnded /\ entry' = [entry EXCEPT !.ended = TRUE]
    <3>1. entry'.pane = entry.pane /\ entry'.claim = entry.claim /\ entry'.ended /\ entry'.parked = entry.parked
      BY <1>0, <2>3 DEF Entry
    <3> QED BY <1>0, <1>1, <2>3, <3>1, ParkerStays, Counted DEF Park
  <2>4. CASE parker' = parker /\ entry' = [pane |-> reviver.pane, ended |-> FALSE, parked |-> FALSE, claim |-> 0]
    <3>1. entry'.claim = 0
      BY <2>4
    <3> QED BY <1>0, <1>1, <2>4, <3>1, ParkerStays, Counted DEF Park
  <2> QED BY <1>1, <2>1, <2>2, <2>3, <2>4, EntryMoves, ParkerStays
<1>2. CASE Park
  <2>0. bounds["crashes"]' = bounds["crashes"] /\ bounds["parks"]' \in {bounds["parks"], bounds["parks"] + 1}
        /\ bounds["parks"] \in Nat
    <3>1. bounds["crashes"]' = bounds["crashes"]
      BY <1>2, ParkLeaves, CountType, BoundNames DEF Screen
    <3> QED BY <3>1, Counted
  <2>1. CASE ParkEnds
    <3>1. ASSUME bounds["crashes"]' = 0, entry'.claim # 0 PROVE FALSE
      <4>1. entry'.claim = entry.claim => parker.token # 0 /\ parker.pc \notin After /\ entry.claim = parker.token
        BY <2>0, <3>1
      <4>2. UndoClaim => entry'.claim = 0 \/ (entry' = entry /\ entry.claim # parker.token)
        BY <1>0 DEF UndoClaim, HoldsClaim, Entry
      <4> HIDE DEF UndoClaim
      <4> QED BY <2>1, <3>1, <4>1, <4>2 DEF ParkEnds
    <3>2. parker' = Off /\ killed' = killed /\ bounds["parks"]' # 0
      BY <2>0, <2>1 DEF ParkEnds
    <3> HIDE <1>2, <2>1
    <3> QED BY <2>0, <3>1, <3>2, OffFields
  <2>2. CASE Screens
    <3>1. entry.claim = 0 /\ parker' # Off
      BY <2>2, OffFields DEF Screens, Screen
    <3>2. bounds'["parks"] = bounds["parks"] + 1 /\ bounds["parks"] \in Nat
      BY <2>2, BoundNames DEF Screens, TypeOK
    <3>3. bounds["parks"]' # 0
      BY <3>2
    <3> HIDE <1>2
    <3> QED BY <1>0, <2>0, <2>2, <3>1, <3>3 DEF Screens, PaneInv
  <2>3. CASE Claims
    <3>1. bounds' = bounds /\ parker' # Off
      BY <2>3, OffFields DEF Claims, ClaimPark
    <3> HIDE <1>2
    <3> QED BY <1>0, <2>0, <2>3, <3>1 DEF Claims
  <2>4. CASE GoesOn
    <3>1. /\ bounds["parks"]' # 0 /\ parker' # Off /\ parker'.token # 0 /\ parker'.pc \notin Before
          /\ parker'.pane \in Launched'
      BY <1>0, <2>0, <2>4, OffFields DEF GoesOn
    <3>2. parker'.pc \in {"killed"} \cup After => parker'.pane \in killed'
      BY <2>4 DEF GoesOn
    <3>3. CASE parker'.pc \notin After
      <4>1. entry' = entry /\ parker.pc \notin After \cup Before /\ parker'.token = parker.token
            /\ parker'.pane = parker.pane /\ killed \subseteq killed'
        BY <2>4, <3>3 DEF GoesOn
      <4> HIDE <1>2, <2>4
      <4> QED BY <1>0, <2>0, <3>1, <3>2, <3>3, <4>1
    <3>4. CASE parker'.pc \in After
      <4>1. entry'.claim = 0 \/ (bounds["crashes"] # 0 /\ entry' = entry)
        <5>1. CASE ReleaseClaim
          <6>1. entry.claim = parker.token => entry'.claim = 0
            BY <1>0, <5>1 DEF ReleaseClaim, HoldsClaim, Entry
          <6>2. entry.claim # parker.token => entry' = entry /\ entry.claim = 0
            BY <2>4, <5>1 DEF ReleaseClaim, HoldsClaim, GoesOn
          <6> QED BY <6>1, <6>2
        <5>2. CASE parker.pc \in After
          BY <2>4, <5>2 DEF GoesOn
        <5> QED BY <2>4, <3>4, <5>1, <5>2 DEF GoesOn
      <4> HIDE <1>2
      <4> QED BY <1>0, <2>0, <2>4, <3>1, <3>2, <3>4, <4>1 DEF GoesOn
    <3> QED BY <3>3, <3>4
  <2> QED BY <1>2, <2>1, <2>2, <2>3, <2>4, ParkerMoves
<1> QED BY <1>1, <1>2

---------------------------------------------------------------------------
(* The callers of maybe_auto_revive, and the sweep *)

LEMMA CallMoves ==
  ASSUME TypeOK, [Next]_vars, NEW d \in Callers
  PROVE  \/ asks'[d] = asks[d]
         \/ Ask(d)
         \/ Crash /\ asks'[d] = Idle
         \/ d = "lifecycle" /\ PollParked /\ asks'[d].pc = "check"
         \/ d = "parker" /\ RepairAsk /\ asks'[d].pc = "check"
         \/ d = "handler" /\ (OwnerMessage \/ OwnerReopens)
<1>0. \A c \in Callers : asks[c] \in Asks
  BY DEF TypeOK
<1>1. ASSUME NEW c \in Callers, Ask(c), c # d PROVE asks'[d] = asks[d]
  BY <1>1 DEF Ask, Check, StartRevive, Offer, Offered, OfferUndelivered, Calls, Returns, TypeOK
<1>2. CASE PollParked
  <2>1. asks' = [asks EXCEPT !["lifecycle"] = [Idle EXCEPT !.pc = "check"]]
    BY <1>2 DEF PollParked, Calls
  <2>2. [Idle EXCEPT !.pc = "check"].pc = "check"
    BY DEF Idle
  <2> QED BY <1>2, <2>1, <2>2 DEF TypeOK, Callers
<1>3. CASE RepairAsk
  <2>1. asks' = asks \/ asks' = [asks EXCEPT !["parker"].pc = "check"]
    BY <1>3 DEF RepairAsk
  <2> QED BY <1>0, <1>3, <2>1 DEF TypeOK, Callers, Asks
<1>4. CASE OwnerMessage \/ OwnerReopens
  <2>1. \E what : asks' = [asks EXCEPT !["handler"] = [Idle EXCEPT !.pc = what]]
    BY <1>4 DEF OwnerMessage, OwnerReopens, Calls
  <2> QED BY <1>4, <2>1 DEF TypeOK, Callers
<1>5. CASE Crash
  BY <1>5 DEF Crash
<1>6. Revive \/ UNCHANGED vars => asks' = asks
  BY DEF Revive, FindPane, LaunchPane, LaunchFails, CheckEngine, ReopenTopic, BindPane, Revived, vars
<1> QED BY <1>1, <1>2, <1>3, <1>4, <1>5, <1>6, LifeLeaves, ParkLeaves, OwnerLeaves, WorldLeaves DEF Next

(* A round of the sweep.                                                    *)
SweepMoves ==
  \/ life' = LifeOff
  \/ LifeRead /\ life'.pc = "read" /\ life'.pane = entry.pane /\ life'.binds = 0
  \/ /\ life.pc = "read" /\ life'.pc = "dead" /\ life.pane \notin alive
     /\ life'.pane = life.pane /\ life'.binds = life.binds
  \/ /\ life.pc = "dead" /\ life'.pc = "marked" /\ life'.pane = life.pane /\ life'.binds = binds
     /\ entry'.pane = life.pane /\ entry'.ended
  \/ life.pc = "marked" /\ life'.pc = "closed" /\ life'.pane = life.pane /\ life'.binds = life.binds
  \/ /\ life.pc = "closed" /\ life'.pc = "undo" /\ (entry.pane # life.pane \/ ~entry.ended)
     /\ life'.pane = life.pane /\ life'.binds = life.binds
  \/ PollParked /\ life' = life

LEMMA LifeMoves ==
  ASSUME TypeOK, Lifecycle
  PROVE  SweepMoves
<1>0. life \in [pc : {"off", "read", "dead", "marked", "closed", "undo"}, pane : Panes \cup {NoPane}, binds : Nat]
  BY DEF TypeOK, Life
<1>1. CASE LifeRead
  BY <1>1 DEF LifeRead, SweepMoves, LifeOff
<1>2. CASE LifeLook
  <2>1. life.pc = "read" /\ life' \in {LifeOff, [life EXCEPT !.pc = "dead"]}
        /\ (life.pane \in alive => life' = LifeOff)
    BY <1>2 DEF LifeLook
  <2> QED BY <1>0, <2>1 DEF SweepMoves
<1>3. CASE MarkEnded
  <2>1. CASE entry.pane = life.pane
    <3>1. entry'.pane = entry.pane /\ entry'.ended
      BY <1>3, <2>1 DEF MarkEnded, StampEnded, TypeOK, Entry
    <3>2. life.pc = "dead" /\ life' = [life EXCEPT !.pc = "marked", !.binds = binds]
      BY <1>3, <2>1 DEF MarkEnded
    <3> QED BY <1>0, <2>1, <3>1, <3>2 DEF SweepMoves
  <2>2. CASE entry.pane # life.pane
    BY <1>3, <2>2 DEF MarkEnded, SweepMoves
  <2> QED BY <2>1, <2>2
<1>4. CASE CloseTopic
  BY <1>0, <1>4 DEF CloseTopic, SweepMoves
<1>5. CASE LookAgain
  <2>1. /\ life.pc = "closed" /\ life' \in {LifeOff, [life EXCEPT !.pc = "undo"]}
        /\ life' = LifeOff \/ entry.pane # life.pane \/ ~entry.ended
    BY <1>5 DEF LookAgain
  <2> QED BY <1>0, <2>1 DEF SweepMoves
<1>6. CASE UndoClose \/ PollParked
  BY <1>6 DEF UndoClose, PollParked, SweepMoves
<1> QED BY <1>1, <1>2, <1>3, <1>4, <1>5, <1>6 DEF Lifecycle

LEMMA LifeNext ==
  ASSUME TypeOK, TypeOK', PaneInv, ParkerInv, LifeInv, [Next]_vars
  PROVE  LifeInv' /\ (CorrectionTrue => CorrectionTrue')
<1>0. /\ Launched \subseteq Launched' /\ binds \in Nat /\ binds' \in Nat /\ life \in Life /\ life.binds \in Nat
  BY Grows DEF TypeOK, Life
<1>1. life' = life \/ Lifecycle \/ (Crash /\ life' = LifeOff)
  BY AskLeaves, ParkLeaves, OwnerLeaves, WorldLeaves
     DEF Next, Revive, FindPane, LaunchPane, LaunchFails, CheckEngine, ReopenTopic, BindPane, Revived, Crash, vars
<1>2. binds' = binds \/ (BindPane /\ binds' = binds + 1)
  BY AskLeaves, LifeLeaves, ParkLeaves, OwnerLeaves, WorldLeaves
     DEF Next, Revive, FindPane, LaunchPane, LaunchFails, CheckEngine, ReopenTopic, BindPane, Revived, vars
<1>3. \A p \in Launched : p \in alive' => p \in alive
  <2>1. alive' \subseteq alive \/ (LaunchPane /\ alive' = alive \cup {Len(names) + 1})
    BY AskLeaves, LifeLeaves, ParkLeaves, OwnerLeaves, WorldLeaves
     DEF Next, Revive, FindPane, LaunchPane, LaunchFails, CheckEngine, ReopenTopic, BindPane, Revived, KillPane,
         PaneDies, vars
  <2>2. Len(names) + 1 \notin Launched
    BY DEF PaneInv, Launched
  <2> QED BY <2>1, <2>2
<1>4. CASE life' = LifeOff
  BY <1>0, <1>2, <1>4, OffFields DEF LifeInv, CorrectionTrue
<1>5. CASE Lifecycle /\ life' # LifeOff
  <2>1. alive' = alive /\ names' = names /\ binds' = binds /\ bounds'["parks"] = bounds["parks"]
    <3>1. bounds'["parks"] = bounds["parks"]
      BY <1>5, LifeLeaves, CountType, BoundNames
    <3> QED BY <1>5, <3>1, LifeLeaves
  <2>2. life'.pc # "off" => asks["lifecycle"].pc = "none" /\ asks' = asks /\ life'.pane \in Launched
    BY <1>5, LifeMoves, LifeLeaves, OffFields DEF SweepMoves, LifeInv, LifeRead, PollParked, PaneInv
  <2>3. entry' = entry \/ entry' = [entry EXCEPT !.ended = TRUE]
    BY <1>5, LifeLeaves DEF StampEnded
  <2>4. entry'.pane = entry.pane /\ (entry.ended => entry'.ended)
    BY <2>3 DEF TypeOK, Entry
  <2>5. SweepMoves
    BY <1>5, LifeMoves
  <2>6. CorrectionTrue => CorrectionTrue'
    BY <1>5, <2>1, <2>5 DEF SweepMoves, CorrectionTrue, LifeInv, LifeRead, PollParked
  <2>7. LifeInv'
    BY <1>0, <1>5, <2>1, <2>2, <2>4, <2>5 DEF SweepMoves, LifeInv, Launched, PollParked
  <2> QED BY <2>6, <2>7
<1>6. CASE life' = life /\ ~Lifecycle
  <2>1. life.pc # "off" => asks'["lifecycle"].pc = "none"
    BY <1>6, CallMoves, OffFields DEF LifeInv, Ask, Check, StartRevive, Offer, Offered, OfferUndelivered, Callers,
       Idle, Lifecycle
  <2>2. bounds'["parks"] = 0 => bounds["parks"] = 0 /\ ~Park
    <3>1. bounds'["parks"] = 0 => bounds["parks"] = 0 /\ ~Screen
      BY Counted, CountType, BoundNames DEF Screen
    <3>2. Park => parker.pc # "off" \/ Screen
      BY GateNames DEF Park, ClaimPark, Gate, FinalLook, KillPane, KillFails, ReleaseClaim, RepairLook, Redeliver,
         RedeliverFails, RepairAsk, RepairWait, RepairEnd, GatePcs
    <3> QED BY <3>1, <3>2 DEF ParkerInv
  <2>3. ~Park => entry' = entry \/ binds' = binds + 1
    BY <1>2, <1>6, EntryMoves DEF Lifecycle, BindPane
  <2>4. CorrectionTrue => CorrectionTrue'
    BY <1>0, <1>2, <1>6, <2>2 DEF CorrectionTrue
  <2>5. LifeInv'
    BY <1>0, <1>2, <1>3, <1>6, <2>1, <2>2, <2>3 DEF LifeInv
  <2> QED BY <2>4, <2>5
<1> QED BY <1>1, <1>4, <1>5, <1>6

---------------------------------------------------------------------------
(* What the entry says is true *)

LEMMA UndoEntry ==
  ASSUME TypeOK, UndoClaim
  PROVE  \/ ~entry'.ended /\ ~entry'.parked /\ entry'.claim = 0
         \/ entry' = entry /\ entry.claim # parker.token
BY DEF UndoClaim, HoldsClaim, TypeOK, Entry

LEMMA ReleaseEntry ==
  ASSUME TypeOK, ReleaseClaim
  PROVE  \/ /\ entry'.pane = entry.pane /\ entry'.ended = entry.ended /\ entry'.parked = entry.parked
            /\ entry'.claim = 0 /\ entry.claim = parker.token
         \/ entry' = entry /\ entry.claim # parker.token
BY DEF ReleaseClaim, HoldsClaim, TypeOK, Entry

LEMMA EntryNext ==
  ASSUME TypeOK, TypeOK', PaneInv, PaneInv', ParkerInv, ParkerInv', LifeInv,
         EndedMeansDown, ParkedMeansKilled, [Next]_vars
  PROVE  EndedMeansDown' /\ ParkedMeansKilled'
<1>0. /\ \A p \in Launched : p \in alive' => p \in alive
      /\ killed \subseteq killed' /\ entry.pane \in Launched /\ entry'.pane \in Panes
  <2>1. alive' \subseteq alive \/ (LaunchPane /\ alive' = alive \cup {Len(names) + 1})
    BY AskLeaves, LifeLeaves, ParkLeaves, OwnerLeaves, WorldLeaves
     DEF Next, Revive, FindPane, LaunchPane, LaunchFails, CheckEngine, ReopenTopic, BindPane, Revived, KillPane,
         PaneDies, vars
  <2>2. Len(names) + 1 \notin Launched /\ entry.pane \in Launched
    BY DEF PaneInv, Launched
  <2>3. killed \subseteq killed'
    BY ParkerStays, ParkerMoves DEF ParkEnds, Screens, Claims, GoesOn
  <2> QED BY <2>1, <2>2, <2>3 DEF TypeOK, Entry
<1>1. bounds["crashes"]' = 0 => bounds["crashes"] = 0 /\ ~Crash
  BY Counted, CountType, BoundNames DEF Crash
<1>2. CASE ~Park
  <2>1. CASE entry' = entry
    <3>1. ParkedMeansKilled'
      BY <1>0, <2>1 DEF ParkedMeansKilled
    <3>2. EndedMeansDown'
      <4>1. bounds["crashes"]' = 0 => parker' = parker
        BY <1>1, <1>2, ParkerStays
      <4> QED BY <1>0, <1>1, <2>1, <4>1 DEF EndedMeansDown, UnderClaim
    <3> QED BY <3>1, <3>2
  <2>2. CASE MarkEnded /\ entry.pane = life.pane /\ entry' = [entry EXCEPT !.ended = TRUE]
    <3>1. entry'.pane = entry.pane /\ entry'.claim = entry.claim /\ entry'.ended /\ entry'.parked = entry.parked
      BY <2>2 DEF TypeOK, Entry
    <3>2. entry.pane \notin alive /\ alive' = alive
      BY <2>2 DEF MarkEnded, LifeInv
    <3> QED BY <1>0, <3>1, <3>2 DEF EndedMeansDown, ParkedMeansKilled
  <2>3. CASE entry' = [pane |-> reviver.pane, ended |-> FALSE, parked |-> FALSE, claim |-> 0]
    BY <2>3 DEF EndedMeansDown, ParkedMeansKilled
  <2> QED BY <1>2, <2>1, <2>2, <2>3, EntryMoves
<1>3. CASE ParkEnds
  <2>1. CASE entry' = entry
    <3>1. ParkedMeansKilled'
      BY <1>0, <2>1 DEF ParkedMeansKilled
    <3>2. UndoClaim => entry.claim # parker.token \/ ~entry.ended
      BY <2>1, UndoEntry
    <3>3. bounds["crashes"] = 0 => ~(entry.ended /\ entry.pane \in alive)
      BY <1>3, <3>2 DEF EndedMeansDown, UnderClaim, ParkEnds, After, ParkerInv, Before
    <3> QED BY <1>0, <1>1, <2>1, <3>1, <3>3 DEF EndedMeansDown
  <2>2. CASE ~entry'.ended /\ ~entry'.parked
    BY <2>2 DEF EndedMeansDown, ParkedMeansKilled
  <2> QED BY <1>3, <2>1, <2>2, UndoEntry DEF ParkEnds
<1>4. CASE Screens
  <2>1. ~entry.ended /\ entry' = entry
    BY <1>4 DEF Screens, Screen
  <2> QED BY <1>0, <2>1 DEF EndedMeansDown, ParkedMeansKilled
<1>5. CASE Claims
  <2>1. bounds["parks"] # 0
    BY <1>5 DEF Claims, ParkerInv
  <2> QED BY <1>5, <2>1 DEF Claims, EndedMeansDown, ParkedMeansKilled, UnderClaim
<1>6. CASE GoesOn
  <2>1. CASE ReleaseClaim
    <3>1. parker.pane \in killed /\ parker.pc = "killed" /\ alive' = alive /\ killed' = killed /\ parker.token # 0
      BY <1>6, <2>1 DEF GoesOn, ParkerInv, ReleaseClaim, Before
    <3>2. entry.claim = parker.token => entry.pane = parker.pane /\ entry.ended /\ entry.parked
      BY <3>1 DEF ParkerInv, UnderClaim
    <3>3. killed \cap alive = {}
      BY DEF PaneInv
    <3> QED BY <1>1, <2>1, <3>1, <3>2, <3>3, ReleaseEntry DEF EndedMeansDown, ParkedMeansKilled
  <2>2. CASE ~ReleaseClaim
    <3>1. entry' = entry /\ parker'.token = parker.token /\ (parker'.pc \in After => parker.pc \in After)
      BY <1>6, <2>2 DEF GoesOn, After, GatePcs
    <3> QED BY <1>0, <1>1, <3>1 DEF EndedMeansDown, ParkedMeansKilled, UnderClaim, After
  <2> QED BY <2>1, <2>2
<1> QED BY <1>2, <1>3, <1>4, <1>5, <1>6, ParkerMoves

---------------------------------------------------------------------------
(* Nothing is launched that nobody asked for *)

LEMMA OffParker ==
  ASSUME ParkerInv, Park, parker.pc = "off"
  PROVE  Screen
BY GateNames DEF Park, ClaimPark, Gate, FinalLook, KillPane, KillFails, ReleaseClaim, RepairLook, Redeliver,
   RedeliverFails, RepairAsk, RepairWait, RepairEnd, GatePcs

(* A call that asks goes on to ask, to revive, or returns.                  *)
LEMMA AskMoves ==
  ASSUME TypeOK, NEW c \in Callers, Ask(c)
  PROVE  \/ Check(c) /\ asks'[c].pc \in {"none", Decided}
         \/ asks[c].pc \in {"revive", "preset"} /\ asks'[c].pc = "none"
         \/ asks[c].pc = "ask" /\ asks'[c].pc \in {"none", "asking"}
         \/ asks[c].pc = "asking" /\ asks'[c].pc = "none"
<1>0. Idle.pc = "none" /\ [Idle EXCEPT !.pc = "asking"].pc = "asking"
  BY DEF Idle
<1>1. CASE Check(c)
  <2>1. asks' = [asks EXCEPT ![c] = Idle] \/ asks' = [asks EXCEPT ![c] = [pc |-> Decided, was |-> entry.pane]]
    BY <1>1 DEF Check, Returns
  <2> QED BY <1>0, <1>1, <2>1 DEF TypeOK
<1>2. CASE StartRevive(c)
  BY <1>0, <1>2 DEF StartRevive, Returns, TypeOK
<1>3. CASE Offer(c)
  BY <1>0, <1>3 DEF Offer, Returns, Calls, TypeOK
<1>4. CASE Offered(c) \/ OfferUndelivered(c)
  BY <1>0, <1>4 DEF Offered, OfferUndelivered, Returns, TypeOK
<1> QED BY <1>1, <1>2, <1>3, <1>4 DEF Ask

(* The reviver starts for a call or an answer, and then does what it does.  *)
LEMMA ReviverMoves ==
  ASSUME TypeOK, [Next]_vars, reviver.pc = "off"
  PROVE  /\ names' = names /\ binds' = binds
         /\ \/ reviver' = reviver
            \/ \E c \in Callers : StartRevive(c)
            \/ OwnerAnswers /\ answered' = TRUE
            \/ Crash /\ reviver' = ReviverOff
<1>1. ~Revive
  BY DEF Revive, FindPane, LaunchPane, LaunchFails, CheckEngine, ReopenTopic, BindPane, Revived
<1>2. World => reviver' = reviver \/ (Crash /\ reviver' = ReviverOff)
  BY WorldLeaves DEF Crash
<1> QED BY <1>1, <1>2, AskLeaves, LifeLeaves, ParkLeaves, OwnerLeaves, WorldLeaves DEF Next, vars

LEMMA SpendNext ==
  ASSUME TypeOK, TypeOK', SpendInv, [Next]_vars
  PROVE  SpendInv'
<1>1. SUFFICES ASSUME size = "large"
               PROVE  /\ \A c \in Callers : asks'[c].pc \notin {"revive", "preset"}
                      /\ ~answered' => Len(names') = 1 /\ binds' = 0 /\ reviver'.pc = "off"
  <2>1. size' = size
    BY AskLeaves, LifeLeaves, ParkLeaves, OwnerLeaves, WorldLeaves
     DEF Next, Revive, FindPane, LaunchPane, LaunchFails, CheckEngine, ReopenTopic, BindPane, Revived, vars
  <2> QED BY <2>1 DEF SpendInv
<1>2. ASSUME NEW c \in Callers PROVE asks'[c].pc \notin {"revive", "preset"}
  <2>1. Ask(c) => asks'[c].pc \notin {"revive", "preset"}
    BY <1>1, AskMoves DEF Decided, SpendInv
  <2>2. OwnerMessage \/ OwnerReopens => asks'["handler"].pc \in {"none", "check", "reopen", "ask"}
    <3>1. \A pc \in {"none", "check", "reopen", "ask"} : [Idle EXCEPT !.pc = pc].pc = pc
      BY DEF Idle
    <3> QED BY <3>1 DEF OwnerMessage, OwnerReopens, Calls, TypeOK, Callers
  <2> QED BY <1>1, <2>1, <2>2, CallMoves, RestTypes DEF SpendInv
<1>3. ASSUME ~answered' PROVE Len(names') = 1 /\ binds' = 0 /\ reviver'.pc = "off"
  <2>1. ~answered
    BY <1>3, AskLeaves, LifeLeaves, ParkLeaves, OwnerLeaves, WorldLeaves
     DEF Next, Revive, FindPane, LaunchPane, LaunchFails, CheckEngine, ReopenTopic, BindPane, Revived, vars
  <2>2. Len(names) = 1 /\ binds = 0 /\ reviver.pc = "off"
    BY <1>1, <2>1 DEF SpendInv
  <2>3. \A c \in Callers : ~StartRevive(c)
    BY <1>1 DEF SpendInv, StartRevive
  <2> QED BY <1>3, <2>2, <2>3, ReviverMoves, OffFields
<1> QED BY <1>2, <1>3

(* What the parts of QuietInv say, each by its name.                        *)
CallsFit == asks["parker"].pc # "none" => parker.pc = "wait"
PeersOnly == ~owned => \A i \in DOMAIN inbox : inbox[i].kind = "notify"
Ungranted == bounds["grants"] = 0 => authority = {}
Asleep ==
  /\ Len(names) = 1 /\ pending = "none" /\ reviver.pc = "off"
  /\ asks["handler"].pc = "none"
  /\ \A c \in Callers : asks[c].pc # "none" => asks[c].pc = "check" /\ bounds["faults"] = 1
  /\ asks["lifecycle"].pc # "none" => entry.parked \/ ~entry.ended
  /\ parker.authorityLost => bounds["faults"] = 1
  /\ UnderClaim => entry.claim = parker.token
  /\ parker.token # 0 => entry.ended /\ entry.parked

LEMMA QuietParts == QuietInv <=> CallsFit /\ PeersOnly /\ Ungranted /\ (Quiet => Asleep)
BY DEF QuietInv, CallsFit, PeersOnly, Ungranted, Asleep

LEMMA OwnedMoves ==
  ASSUME TypeOK, [Next]_vars, ~owned'
  PROVE  ~owned /\ (Owner => OwnerCloses /\ UNCHANGED <<owned, pending>>)
<1>1. Owner => OwnerCloses /\ UNCHANGED <<owned, pending>>
  BY OwnerLeaves
<1>2. ~Owner => owned' = owned
  BY AskLeaves, LifeLeaves, ParkLeaves, WorldLeaves
     DEF Next, Revive, FindPane, LaunchPane, LaunchFails, CheckEngine, ReopenTopic, BindPane, Revived, vars
<1>3. owned' = owned
  BY <1>1, <1>2
<1> QED BY <1>1, <1>3

LEMMA CallsFitNext ==
  ASSUME TypeOK, TypeOK', ParkerInv, CallsFit, [Next]_vars
  PROVE  CallsFit'
<1>0. "parker" \in Callers /\ Idle.pc = "none"
  BY DEF Callers, Idle
<1>1. CASE Crash
  BY <1>0, <1>1 DEF Crash, CallsFit
<1>2. CASE RepairAsk
  <2>1. parker' = Off => asks' = asks
    <3>1. parker.pc = "ask" /\ [parker EXCEPT !.pc = "wait"].pc = "wait"
      BY <1>2, Fields DEF RepairAsk
    <3> QED BY <1>2, <3>1, OffFields DEF RepairAsk
  <2>2. parker.pc = "ask" /\ (parker' = Off \/ parker'.pc = "wait")
    BY <1>2, Fields DEF RepairAsk
  <2> QED BY <2>1, <2>2 DEF CallsFit
<1>3. CASE Park /\ ~RepairAsk
  <2>1. asks' = asks
    BY <1>3, ParkLeaves
  <2>2. CASE parker.pc = "wait"
    <3>1. RepairWait
      BY <1>3, <2>2, GateNames DEF Park, Screen, ClaimPark, Gate, FinalLook, KillPane, KillFails, ReleaseClaim, RepairLook,
         Redeliver, RedeliverFails, RepairEnd, GatePcs
    <3> QED BY <2>1, <3>1 DEF RepairWait, CallsFit
  <2> QED BY <2>1, <2>2 DEF CallsFit
<1>4. CASE ~Park /\ ~Crash
  <2>1. parker' = parker
    BY <1>4, ParkerStays
  <2>2. asks["parker"].pc = "none" => asks'["parker"].pc = "none"
    <3>1. asks["parker"].pc = "none" => ~Ask("parker")
      BY DEF Ask, Check, StartRevive, Offer, Offered, OfferUndelivered
    <3>2. ~RepairAsk
      BY <1>4 DEF Park
    <3> QED BY <1>0, <1>4, <3>1, <3>2, CallMoves
  <2> QED BY <2>1, <2>2 DEF CallsFit
<1> QED BY <1>1, <1>2, <1>3, <1>4 DEF Park

LEMMA PeersOnlyNext ==
  ASSUME TypeOK, DropInv, TypeOK', PeersOnly, [Next]_vars
  PROVE  PeersOnly'
<1>1. SUFFICES ASSUME ~owned' PROVE \A i \in DOMAIN inbox' : inbox'[i].kind = "notify"
  BY DEF PeersOnly
<1>2. ~owned /\ (Owner => OwnerCloses)
  BY <1>1, OwnedMoves
<1>3. \A i \in DOMAIN inbox : inbox[i].kind = "notify" /\ inbox[i] \in Record
  <2>1. \A i \in DOMAIN inbox : inbox[i] \in Record
    BY ElementOfSeq, LenProperties DEF TypeOK
  <2> QED BY <1>2, <2>1 DEF PeersOnly
<1>4. CASE inbox' = inbox
  BY <1>3, <1>4
<1>5. CASE Notify
  <2> DEFINE r == [kind |-> "notify", st |-> "unread", by |-> NoPane]
  <2>1. inbox' = Append(inbox, r) /\ r \in Record /\ r.kind = "notify"
    BY <1>5 DEF Notify, Append1, Record
  <2>2. PICK n \in Nat : n = Len(inbox) /\ DOMAIN inbox = 1..n
    BY LenProperties DEF TypeOK
  <2> HIDE DEF r
  <2>3. \A i \in DOMAIN inbox' : i \in 1..n + 1 /\ (i \in 1..n => inbox'[i] = inbox[i]) /\ (i = n + 1 => inbox'[i] = r)
    BY <2>1, <2>2, AppendProperties, LenProperties DEF TypeOK
  <2>4. \A i \in 1..n + 1 : i \in 1..n \/ i = n + 1
    BY <2>2
  <2> QED BY <1>3, <2>1, <2>2, <2>3, <2>4
<1>6. ASSUME NEW p \in Panes, Drain(p) \/ Handle(p) PROVE \A i \in DOMAIN inbox' : inbox'[i].kind = "notify"
  <2>1. DOMAIN inbox' = DOMAIN inbox
    BY <1>6 DEF Drain, Handle
  <2>2. ASSUME NEW i \in DOMAIN inbox PROVE inbox'[i].kind = "notify"
    <3>1. PICK r \in Record : r = inbox[i] /\ r.kind = "notify"
      BY <1>3
    <3>2. inbox'[i] \in {r, [r EXCEPT !.st = "drained", !.by = p], [r EXCEPT !.st = "handled"]}
      BY <1>6, <3>1 DEF Drain, Handle
    <3> QED BY <3>1, <3>2 DEF Record
  <2> QED BY <2>1, <2>2
<1>7. CASE Redeliver
  <2>1. inbox' = Again(parker.drop) /\ parker.drop \in DOMAIN inbox
    BY <1>7, LenProperties DEF Redeliver, DropInv, TypeOK
  <2>2. DOMAIN inbox' = DOMAIN inbox /\ DOMAIN inbox = 1..Len(inbox) /\ Len(inbox) \in Nat
    BY <2>1, LenProperties DEF Again, TypeOK
  <2>3. ASSUME NEW i \in DOMAIN inbox PROVE inbox'[i].kind = "notify"
    <3>1. \E j \in DOMAIN inbox : inbox'[i] = inbox[j] \/ inbox'[i] = [inbox[j] EXCEPT !.st = "unread", !.by = NoPane]
      <4>1. i < Len(inbox) => i + 1 \in DOMAIN inbox
        BY <2>2
      <4> QED BY <2>1, <4>1 DEF Again
    <3>2. PICK r \in Record : r.kind = "notify" /\ inbox'[i] \in {r, [r EXCEPT !.st = "unread", !.by = NoPane]}
      BY <1>3, <3>1
    <3> QED BY <3>2 DEF Record
  <2> QED BY <2>2, <2>3
<1> QED BY <1>1, <1>2, <1>4, <1>5, <1>6, <1>7, AskLeaves, LifeLeaves, ParkLeaves
     DEF Next, Revive, FindPane, LaunchPane, LaunchFails, CheckEngine, ReopenTopic, BindPane, Revived, vars,
         OwnerCloses, World, CarryForwardEnds, Crash, Grant, PaneDies

LEMMA UngrantedNext ==
  ASSUME TypeOK, TypeOK', Ungranted, [Next]_vars
  PROVE  Ungranted'
<1>1. bounds'["grants"] = 0 => bounds["grants"] = 0 /\ \A a \in {"exempt", "cf"} : ~Grant(a)
  BY Counted, CountType, BoundNames DEF Grant
<1>2. authority' \subseteq authority \/ \E a \in {"exempt", "cf"} : Grant(a)
  BY AskLeaves, LifeLeaves, ParkLeaves, OwnerLeaves
     DEF Next, Revive, FindPane, LaunchPane, LaunchFails, CheckEngine, ReopenTopic, BindPane, Revived, vars,
         World, CarryForwardEnds, Crash, Notify, Drain, Handle, PaneDies
<1> QED BY <1>1, <1>2 DEF Ungranted

(* While all is quiet a call finds a parked seat without a message of its   *)
(* owner's, or one that is not down, and returns.                           *)
LEMMA QuietCall ==
  ASSUME TypeOK, TypeOK', CallsFit, PeersOnly, Ungranted, Quiet, Quiet', Asleep, ParkerInv, NEW c \in Callers, Ask(c)
  PROVE  asks' = [asks EXCEPT ![c] = Idle] /\ bounds' = bounds /\ pending' = pending
<1>1. asks[c].pc = "check" /\ bounds["faults"] = 1 /\ c # "handler"
  BY DEF Asleep, Ask, Check, StartRevive, Offer, Offered, OfferUndelivered
<1>2. Check(c)
  BY <1>1 DEF Ask, StartRevive, Offer, Offered, OfferUndelivered
<1>3. entry.parked \/ ~entry.ended
  <2>1. c = "parker" => parker.token # 0
    BY <1>1 DEF CallsFit, ParkerInv, Before
  <2> QED BY <1>1, <2>1 DEF Asleep, Callers
<1>4. ~OwnerUnread /\ authority = {}
  BY DEF Quiet, PeersOnly, Ungranted, OwnerUnread
<1>5. ~Count("faults")
  BY <1>1, CountType, BoundNames DEF Quiet
<1> QED BY <1>1, <1>2, <1>3, <1>4, <1>5 DEF Check, PeerOnly, Returns

LEMMA QuietKept ==
  ASSUME TypeOK, TypeOK', [Next]_vars, Quiet'
  PROVE  Quiet /\ (Owner => OwnerCloses /\ pending' = pending) /\ bounds["faults"] <= bounds'["faults"]
<1>1. ~owned /\ (Owner => OwnerCloses /\ pending' = pending)
  BY OwnedMoves DEF Quiet
<1>2. bounds["grants"] = 0 /\ bounds["faults"] <= bounds'["faults"]
  BY Counted DEF Quiet
<1>3. bounds["faults"] \in Nat /\ bounds'["faults"] \in Nat
  BY BoundNames DEF TypeOK
<1> QED BY <1>1, <1>2, <1>3 DEF Quiet

LEMMA QuietNext ==
  ASSUME TypeOK, DropInv, TypeOK', PaneInv, PaneInv', ParkerInv, ParkerInv', LifeInv, QuietInv, [Next]_vars
  PROVE  QuietInv'
<1>1. CallsFit /\ PeersOnly /\ Ungranted /\ (Quiet => Asleep)
  BY QuietParts
<1>2. CallsFit' /\ PeersOnly' /\ Ungranted'
  BY <1>1, CallsFitNext, PeersOnlyNext, UngrantedNext
<1>3. ASSUME Quiet' PROVE Asleep'
  <2>1. Quiet /\ Asleep /\ bounds["faults"] <= bounds'["faults"] /\ bounds'["faults"] \in 0..1
        /\ bounds["faults"] \in 0..1
    <3>1. Quiet /\ bounds["faults"] <= bounds'["faults"]
      BY <1>3, QuietKept
    <3>2. bounds["faults"] \in Nat /\ bounds'["faults"] \in Nat
      BY BoundNames DEF TypeOK
    <3>3. bounds["faults"] <= 1 /\ bounds'["faults"] <= 1
      BY <1>3, <3>1 DEF Quiet
    <3> QED BY <1>1, <3>1, <3>2, <3>3
  <2>2. \A c \in Callers : Ask(c) => asks' = [asks EXCEPT ![c] = Idle] /\ bounds' = bounds /\ pending' = pending
    BY <1>1, <1>3, <2>1, QuietCall
  <2>3. ~OwnerMessage /\ ~OwnerAnswers /\ ~OwnerReopens /\ (Owner => pending' = pending /\ reviver' = reviver)
    BY <1>3, QuietKept, OwnerLeaves DEF OwnerMessage, OwnerAnswers, OwnerReopens, Quiet, OwnerCloses
  <2>4. ~OwnerUnread /\ authority = {}
    BY <1>1, <2>1 DEF Quiet, PeersOnly, Ungranted, OwnerUnread
  <2>5. Len(names') = 1 /\ reviver'.pc = "off" /\ ~BindPane
    <3>1. \A c \in Callers : ~StartRevive(c)
      BY <2>1 DEF StartRevive, Asleep
    <3> QED BY <2>1, <2>3, <3>1, ReviverMoves, OffFields DEF Asleep, BindPane
  <2>6. pending' = "none"
    <3>1. Park \/ World => pending' \in {pending, "none"} \/ (pending # "none")
      BY ParkLeaves, WorldLeaves DEF RepairEnd, Crash
    <3>2. ~Revive
      BY <2>1 DEF Asleep, Revive, FindPane, LaunchPane, LaunchFails, CheckEngine, ReopenTopic, BindPane, Revived
    <3> QED BY <2>1, <2>2, <2>3, <3>1, <3>2, LifeLeaves DEF Asleep, Next, vars
  <2>7. \A c \in Callers : /\ asks'[c].pc # "none" => asks'[c].pc = "check" /\ bounds'["faults"] = 1
                           /\ c = "handler" => asks'[c].pc = "none"
    <3> TAKE c \in Callers
    <3>1. CASE asks'[c] = asks[c] \/ asks'[c].pc = "none"
      BY <2>1, <3>1 DEF Asleep
    <3>2. CASE Ask(c)
      BY <2>2, <3>2, RestTypes DEF TypeOK
    <3>3. CASE c = "lifecycle" /\ PollParked /\ asks'[c].pc = "check"
      <4>1. Count("faults")
        BY <2>4, <3>3 DEF PollParked
      <4>2. bounds'["faults"] = bounds["faults"] + 1
        BY <4>1, CountType, BoundNames
      <4> QED BY <2>1, <3>3, <4>2
    <3>4. CASE c = "parker" /\ RepairAsk /\ asks'[c].pc = "check"
      <4>1. CASE asks' = asks
        BY <2>1, <4>1 DEF Asleep
      <4>2. CASE asks' # asks
        <5>1. Count("faults") \/ (parker.authorityLost /\ bounds' = bounds)
          BY <2>4, <3>4, <4>2 DEF RepairAsk
        <5>2. Count("faults") => bounds'["faults"] = bounds["faults"] + 1
          BY CountType, BoundNames
        <5> QED BY <2>1, <3>4, <5>1, <5>2 DEF Asleep
      <4> QED BY <4>1, <4>2
    <3> QED BY <2>3, <3>1, <3>2, <3>3, <3>4, CallMoves, RestTypes
  <2>8. parker'.token # 0 => entry'.ended /\ entry'.parked /\ (UnderClaim' => entry'.claim = parker'.token)
    <3>1. CASE ~Park
      <4>1. parker' = parker \/ parker' = Off
        BY <3>1, ParkerStays
      <4>2. \/ entry' = entry
            \/ entry'.pane = entry.pane /\ entry'.ended /\ entry'.parked = entry.parked /\ entry'.claim = entry.claim
        BY <2>5, <3>1, EntryMoves DEF TypeOK, Entry
      <4> QED BY <2>1, <4>1, <4>2, OffFields DEF Asleep, UnderClaim
    <3>2. CASE ParkEnds \/ Screens
      BY <3>2, OffFields DEF ParkEnds, Screens
    <3>3. CASE Claims
      BY <3>3 DEF Claims
    <3>4. CASE GoesOn
      <4>1. CASE ReleaseClaim
        <5>1. parker'.pc = "look" /\ parker.token # 0
          BY <3>4, <4>1 DEF GoesOn, ParkerInv, Before, ReleaseClaim
        <5> QED BY <2>1, <4>1, <5>1, ReleaseEntry DEF Asleep, UnderClaim
      <4>2. CASE ~ReleaseClaim
        <5>1. entry' = entry /\ parker'.token = parker.token /\ (parker'.pc \in After => parker.pc \in After)
              /\ (parker.pc \in After => parker'.pc \in After)
          BY <3>4, <4>2 DEF GoesOn, After, GatePcs
        <5> QED BY <2>1, <5>1 DEF Asleep, UnderClaim, After
      <4> QED BY <4>1, <4>2
    <3> QED BY <3>1, <3>2, <3>3, <3>4, ParkerMoves
  <2>9. parker'.authorityLost => bounds'["faults"] = 1
    <3>1. CASE parker'.authorityLost = parker.authorityLost
      BY <2>1, <3>1 DEF Asleep
    <3>2. CASE parker' = Off
      BY <3>2, OffFields
    <3>3. CASE RepairLook
      <4>1. CASE Count("faults")
        <5>1. bounds'["faults"] = bounds["faults"] + 1
          BY <4>1, CountType, BoundNames
        <5> QED BY <2>1, <5>1
      <4>2. ASSUME NEW d, Repairs(d, FALSE) PROVE parker'.authorityLost = FALSE
        BY <4>2, Fields, OffFields DEF Repairs
      <4>3. Count("faults") \/ \E d : Repairs(d, FALSE)
        <5>1. (authority # {}) = FALSE
          BY <2>4
        <5> QED BY <3>3, <5>1 DEF RepairLook
      <4> QED BY <4>1, <4>2, <4>3
    <3>4. CASE Park /\ ~RepairLook
      <4>1. Redeliver \/ RedeliverFails \/ RepairAsk \/ RepairWait => parker' = Off \/ parker'.authorityLost = parker.authorityLost
        BY Fields DEF Redeliver, RedeliverFails, RepairAsk, RepairWait
      <4>2. RepairEnd => parker' = Off
        BY DEF RepairEnd
      <4>3. Screen \/ ClaimPark \/ (\E i \in DOMAIN Gates : Gate(Gates[i])) \/ FinalLook \/ KillPane \/ KillFails \/ ReleaseClaim
            => parker.pc \notin After
        BY GateNames DEF Screen, ClaimPark, Gate, FinalLook, KillPane, KillFails, ReleaseClaim, After, GatePcs
      <4>4. GoesOn => parker.pc \in After \/ parker'.authorityLost = parker.authorityLost
        BY DEF GoesOn
      <4> QED BY <3>1, <3>2, <3>4, <4>1, <4>2, <4>3, <4>4, ParkerMoves DEF Park, ParkEnds, Screens, Claims
    <3> QED BY <3>1, <3>2, <3>3, <3>4, ParkerStays
  <2>10. asks'["lifecycle"].pc # "none" => entry'.parked \/ ~entry'.ended
    <3>1. CASE asks'["lifecycle"].pc # "none" /\ asks'["lifecycle"] = asks["lifecycle"]
      <4>1. entry.parked \/ ~entry.ended
        BY <2>1, <3>1 DEF Asleep
      <4>2. ~MarkEnded
        BY <3>1 DEF MarkEnded, LifeInv
      <4>3. CASE ~Park
        BY <2>5, <4>1, <4>2, <4>3, EntryMoves
      <4>4. CASE Park
        BY <4>1, <4>4, ParkerMoves, UndoEntry, ReleaseEntry DEF ParkEnds, Screens, Claims, GoesOn
      <4> QED BY <4>3, <4>4
    <3>2. PollParked => entry'.parked
      BY DEF PollParked
    <3>3. Ask("lifecycle") => asks'["lifecycle"].pc = "none"
      BY <2>2, RestTypes DEF TypeOK, Callers
    <3> QED BY <3>1, <3>2, <3>3, CallMoves, RestTypes DEF Callers
  <2>11. UnderClaim' => parker'.token # 0
    BY DEF UnderClaim
  <2>12. asks'["handler"].pc = "none"
    BY <2>7 DEF Callers
  <2> HIDE <1>3
  <2> QED BY <2>5, <2>6, <2>7, <2>8, <2>9, <2>10, <2>11, <2>12 DEF Asleep
<1> QED BY <1>2, <1>3 DEF QuietInv, CallsFit, PeersOnly, Ungranted, Asleep

---------------------------------------------------------------------------
(* The inbox *)

(* A step leaves an unread record as the newest, or leaves the records in   *)
(* their places and changes what became of some; only a pane that runs      *)
(* drains.                                                                  *)
NewestUnread == inbox # <<>> /\ inbox[Len(inbox)].st = "unread"
InPlace ==
  /\ Len(inbox') = Len(inbox) /\ ~Redeliver
  /\ \A i \in DOMAIN inbox : inbox'[i] = inbox[i] \/ inbox'[i].st # "drained"
       \/ (inbox'[i].by \in alive /\ killed' = killed)

LEMMA InboxMoves ==
  ASSUME TypeOK, TypeOK', DropInv, [Next]_vars
  PROVE  /\ NewestUnread' \/ InPlace
         /\ Len(inbox) <= Len(inbox')
<1>0. /\ \A i \in DOMAIN inbox : inbox[i] \in Record
      /\ DOMAIN inbox = 1..Len(inbox) /\ inbox \in Seq(Record) /\ Len(inbox) \in Nat
      /\ DOMAIN inbox' = 1..Len(inbox') /\ inbox' \in Seq(Record) /\ Len(inbox') \in Nat
  BY ElementOfSeq, LenProperties DEF TypeOK
<1>a. ASSUME DOMAIN inbox' = DOMAIN inbox PROVE Len(inbox') = Len(inbox)
  <2>1. ASSUME NEW m \in Nat, NEW n \in Nat, 1..m = 1..n PROVE m = n
    <3>1. (m # 0 => m \in 1..n) /\ (n # 0 => n \in 1..m)
      BY <2>1
    <3> QED BY <3>1
  <2> QED BY <1>0, <1>a, <2>1
<1>1. ASSUME NEW kind \in {"owner", "notify"}, Append1(kind)
      PROVE  NewestUnread' /\ Len(inbox) <= Len(inbox')
  <2> DEFINE r == [kind |-> kind, st |-> "unread", by |-> NoPane]
  <2>1. inbox' = Append(inbox, r) /\ r \in Record /\ r.st = "unread"
    BY <1>1 DEF Append1, Record
  <2> HIDE DEF r
  <2>2. Len(inbox') = Len(inbox) + 1 /\ inbox'[Len(inbox) + 1] = r
    BY <1>0, <2>1, AppendProperties
  <2>3. inbox' # <<>>
    BY <1>0, <2>2, EmptySeq
  <2> QED BY <1>0, <2>1, <2>2, <2>3 DEF NewestUnread
<1>2. CASE OwnerMessage \/ Notify
  BY <1>1, <1>2 DEF OwnerMessage, Notify
<1>3. ASSUME NEW p \in Panes, Drain(p) PROVE InPlace /\ Len(inbox) <= Len(inbox')
  <2>1. /\ DOMAIN inbox' = DOMAIN inbox /\ UNCHANGED <<parker, killed>> /\ p \in alive
        /\ \A i \in DOMAIN inbox : inbox'[i] = inbox[i] \/ inbox'[i] = [inbox[i] EXCEPT !.st = "drained", !.by = p]
    BY <1>3 DEF Drain
  <2>2. ~Redeliver
    BY <2>1, Fields DEF Redeliver
  <2>3. \A i \in DOMAIN inbox : inbox'[i] = inbox[i] \/ inbox'[i].by \in alive
    BY <1>0, <2>1 DEF Record
  <2>4. Len(inbox') = Len(inbox) /\ Len(inbox) <= Len(inbox')
    <3>1. DOMAIN inbox' = DOMAIN inbox
      BY <2>1
    <3>2. Len(inbox') = Len(inbox)
      BY <1>a, <3>1
    <3> QED BY <1>0, <3>2
  <2> QED BY <2>1, <2>2, <2>3, <2>4 DEF InPlace
<1>4. ASSUME NEW p \in Panes, Handle(p) PROVE InPlace /\ Len(inbox) <= Len(inbox')
  <2>1. /\ DOMAIN inbox' = DOMAIN inbox /\ UNCHANGED parker
        /\ \A i \in DOMAIN inbox : inbox'[i] = inbox[i] \/ inbox'[i] = [inbox[i] EXCEPT !.st = "handled"]
    BY <1>4 DEF Handle
  <2>2. ~Redeliver
    BY <2>1, Fields DEF Redeliver
  <2>3. \A i \in DOMAIN inbox : inbox'[i] = inbox[i] \/ inbox'[i].st # "drained"
    BY <1>0, <2>1 DEF Record
  <2>4. Len(inbox') = Len(inbox) /\ Len(inbox) <= Len(inbox')
    <3>1. DOMAIN inbox' = DOMAIN inbox
      BY <2>1
    <3>2. Len(inbox') = Len(inbox)
      BY <1>a, <3>1
    <3> QED BY <1>0, <3>2
  <2> QED BY <2>1, <2>2, <2>3, <2>4 DEF InPlace
<1>5. CASE Redeliver
  <2>1. inbox' = Again(parker.drop) /\ parker.drop \in 1..Len(inbox)
    BY <1>5 DEF Redeliver, DropInv
  <2>2. Len(inbox') = Len(inbox) /\ Len(inbox) \in DOMAIN inbox
    <3>1. DOMAIN inbox' = DOMAIN inbox
      BY <2>1 DEF Again
    <3> QED BY <1>0, <1>a, <2>1, <3>1
  <2>3. inbox'[Len(inbox)] = [inbox[parker.drop] EXCEPT !.st = "unread", !.by = NoPane]
    BY <1>0, <2>1, <2>2 DEF Again
  <2>4. inbox'[Len(inbox')].st = "unread"
    BY <1>0, <2>1, <2>2, <2>3 DEF Record
  <2>5. inbox' # <<>>
    BY <1>0, <2>2, EmptySeq
  <2> QED BY <1>0, <2>2, <2>4, <2>5 DEF NewestUnread
<1>6. inbox' = inbox \/ OwnerMessage \/ Notify \/ Redeliver \/ \E p \in Panes : Drain(p) \/ Handle(p)
  <2>1. World => inbox' = inbox \/ Notify \/ \E p \in Panes : Drain(p) \/ Handle(p)
    BY DEF World, CarryForwardEnds, Crash, Grant, PaneDies
  <2>2. Revive => inbox' = inbox
    BY DEF Revive, FindPane, LaunchPane, LaunchFails, CheckEngine, ReopenTopic, BindPane, Revived
  <2> QED BY <2>1, <2>2, AskLeaves, LifeLeaves, ParkLeaves, OwnerLeaves DEF Next, vars
<1>7. CASE inbox' = inbox /\ ~Redeliver
  BY <1>0, <1>7 DEF InPlace
<1> QED BY <1>2, <1>3, <1>4, <1>5, <1>6, <1>7

LEMMA DropNext ==
  ASSUME TypeOK, TypeOK', DropInv, [Next]_vars
  PROVE  DropInv'
<1>0. /\ parker \in [pc : ParkerPcs, pane : Panes \cup {NoPane}, token : Nat, drop : Nat,
                    authorityLost : BOOLEAN, appendFailed : BOOLEAN, durable : BOOLEAN]
      /\ Len(inbox) \in Nat /\ Len(inbox') \in Nat /\ Len(inbox) <= Len(inbox')
  BY Fields, InboxMoves, LenProperties DEF TypeOK
<1>1. CASE parker' = parker
  BY <1>0, <1>1 DEF DropInv
<1>2. CASE parker'.pc # "append"
  BY <1>2 DEF DropInv
<1>3. CASE RepairLook
  <2>0. PICK d \in {0, Len(inbox)} : \E b : Repairs(d, b)
    BY <1>3 DEF RepairLook
  <2>1. PICK b : Repairs(d, b)
    BY <2>0
  <2>2. CASE parker' = Off
    BY <2>2, OffFields DEF DropInv
  <2>3. CASE parker' = [parker EXCEPT !.pc = IF d = 0 THEN "ask" ELSE "append", !.drop = d, !.authorityLost = b]
    <3>1. parker'.drop = d /\ (parker'.pc = "append" => d # 0)
      BY <1>0, <2>3
    <3>2. parker'.pc = "append" => d \in 1..Len(inbox')
      BY <1>0, <2>0, <3>1
    <3> QED BY <3>1, <3>2 DEF DropInv
  <2> QED BY <2>1, <2>2, <2>3 DEF Repairs
<1>4. CASE Park /\ ~RepairLook
  <2>1. parker.pc \notin {"look"} \/ RepairLook
    BY <1>4, GateNames DEF Park, Screen, ClaimPark, Gate, FinalLook, KillPane, KillFails, ReleaseClaim, Redeliver,
       RedeliverFails, RepairAsk, RepairWait, RepairEnd, GatePcs
  <2>2. parker'.pc # "append"
    <3>1. CASE Redeliver \/ RedeliverFails \/ RepairWait
      BY <1>0, <3>1 DEF Redeliver, RedeliverFails, RepairWait
    <3>2. CASE RepairAsk \/ RepairEnd
      BY <1>0, <3>2, OffFields DEF RepairAsk, RepairEnd
    <3>3. CASE ~(Redeliver \/ RedeliverFails \/ RepairWait \/ RepairAsk \/ RepairEnd)
      <4>1. parker.pc \notin After
        BY <1>4, <3>3, GateNames DEF Park, Screen, ClaimPark, Gate, FinalLook, KillPane, KillFails, ReleaseClaim,
           GatePcs, After
      <4> QED BY <1>4, <4>1, ParkerMoves, OffFields DEF ParkEnds, Screens, Claims, GoesOn, GatePcs
    <3> QED BY <3>1, <3>2, <3>3
  <2> QED BY <2>2, <1>2
<1>5. CASE ~Park
  BY <1>1, <1>2, <1>5, ParkerStays, OffFields
<1> QED BY <1>3, <1>4, <1>5

---------------------------------------------------------------------------
(* Theorems *)

LEMMA InitIInv == Init => IInv
<1> SUFFICES ASSUME Init PROVE IInv
  OBVIOUS
<1>1. /\ entry.pane = 1 /\ ~entry.ended /\ ~entry.parked /\ entry.claim = 0 /\ entry \in Entry
  BY Constants DEF Init, Entry, Panes
<1>2. names \in Seq(Strings) /\ Len(names) = 1 /\ inbox \in Seq(Record) /\ DOMAIN inbox = {}
  <2>1. PICK e \in Strings : names = <<e>>
    BY DEF Init, Strings
  <2>2. inbox = <<>>
    BY DEF Init
  <2> QED BY <2>1, <2>2, EmptySeq
<1>3. TypeOK
  <2>1. asks \in [Callers -> Asks] /\ bounds \in [Bounded -> Nat]
    BY RestTypes DEF Init
  <2>2. 1 \in Panes
    BY Constants DEF Panes
  <2> QED BY <1>1, <1>2, <2>1, <2>2, RestTypes DEF Init, TypeOK, Strings
<1>4. PaneInv
  BY <1>1, <1>2, Constants, OffFields DEF Init, PaneInv, Launched
<1>5. ParkerInv
  BY <1>1, OffFields, BoundNames DEF Init, ParkerInv, Before, After, UnderClaim
<1>6. LifeInv
  BY OffFields, <1>1 DEF Init, LifeInv
<1>7. \A c \in Callers : asks[c].pc = "none"
  BY RestTypes DEF Init
<1>8. QuietInv
  BY <1>1, <1>2, <1>7, OffFields DEF Init, QuietInv, UnderClaim, Callers
<1>9. SpendInv
  BY <1>2, <1>7, OffFields DEF Init, SpendInv
<1>11. DropInv
  BY OffFields DEF Init, DropInv
<1>10. EndedMeansDown /\ ParkedMeansKilled /\ CorrectionTrue
  BY <1>1, OffFields DEF Init, EndedMeansDown, ParkedMeansKilled, CorrectionTrue
<1> QED BY <1>3, <1>4, <1>5, <1>6, <1>8, <1>9, <1>10, <1>11 DEF IInv

LEMMA NextIInv == IInv /\ [Next]_vars => IInv'
<1> SUFFICES ASSUME IInv, [Next]_vars PROVE IInv'
  OBVIOUS
<1>1. TypeOK' /\ PaneInv'
  BY TypeNext, PaneNext DEF IInv
<1>2. ParkerInv'
  BY <1>1, ParkerNext DEF IInv
<1>3. LifeInv' /\ CorrectionTrue'
  BY <1>1, LifeNext DEF IInv
<1>4. EndedMeansDown' /\ ParkedMeansKilled'
  BY <1>1, <1>2, EntryNext DEF IInv
<1>5. QuietInv' /\ SpendInv'
  BY <1>1, <1>2, QuietNext, SpendNext DEF IInv
<1>6. DropInv'
  BY <1>1, DropNext DEF IInv
<1> QED BY <1>1, <1>2, <1>3, <1>4, <1>5, <1>6 DEF IInv

LEMMA Invariant == Spec => []IInv
BY InitIInv, NextIInv, PTL DEF Spec

(* The registry entry says what is true of the session: a stamp of the end  *)
(* is no running pane's but under the parker's claim, "parked" is said of   *)
(* panes the parker killed, and the notice that a session is back is true   *)
(* (daemon.py 1777-1985, 1491-1620), for any number of panes and failures.  *)
THEOREM EntryIsHonest == Spec => []EntryHonest
<1>1. IInv => EntryHonest
  BY DEF IInv, EntryHonest
<1> QED BY <1>1, Invariant, PTL

(* Whatever one call fails, a peer's message alone wakes nobody, and a      *)
(* large session is not resumed before its owner answered (daemon.py        *)
(* 4917-4996).                                                              *)
THEOREM NobodyUnasked == Spec => []NothingUnasked
<1>1. IInv => PeersNeverWake
  BY DEF IInv, QuietInv, Quiet, PeersNeverWake
<1>2. IInv => AskedBeforeSpend
  BY DEF IInv, SpendInv, AskedBeforeSpend
<1> QED BY <1>1, <1>2, Invariant, PTL DEF NothingUnasked

---------------------------------------------------------------------------
(* What a parked session had drained                                        *)

(* What the repair does to the parker, while a loss is its to repair.       *)
LEMMA RepairMoves ==
  ASSUME TypeOK, Park, "drop" \notin setup.faults, parker.pc \in {"killed"} \cup After
  PROVE  \/ parker.pc = "killed" /\ parker'.pc = "look"
         \/ parker.pc = "look" /\ Len(inbox) = 0
         \/ parker.pc = "look" /\ parker'.pc = "append" /\ parker'.drop = Len(inbox)
         \/ Redeliver
         \/ parker.pc = "append" /\ parker'.pc = "ask" /\ parker'.appendFailed
         \/ parker.pc = "ask" /\ parker' = Off /\ ~parker.appendFailed
         \/ parker.pc = "ask" /\ parker'.pc = "wait" /\ parker'.appendFailed = parker.appendFailed
         \/ parker.pc = "wait" /\ parker'.pc = "judged" /\ parker'.appendFailed = parker.appendFailed
         \/ /\ parker.pc = "judged"
            /\ resend' = (resend \/ parker.appendFailed) \/ bounds["faults"]' = bounds["faults"] + 1
<1>0. parker \in [pc : ParkerPcs, pane : Panes \cup {NoPane}, token : Nat, drop : Nat,
                  authorityLost : BOOLEAN, appendFailed : BOOLEAN, durable : BOOLEAN]
  BY Fields
<1>1. ReleaseClaim \/ RepairLook \/ Redeliver \/ RedeliverFails \/ RepairAsk \/ RepairWait \/ RepairEnd
  BY GateNames DEF Park, Screen, ClaimPark, Gate, FinalLook, KillPane, KillFails, GatePcs, After
<1>2. CASE ReleaseClaim
  <2>1. parker' = [parker EXCEPT !.pc = "look"] /\ parker.pc = "killed"
    BY <1>2 DEF ReleaseClaim
  <2> QED BY <1>0, <2>1
<1>3. CASE RepairLook
  <2>1. parker.pc = "look"
    BY <1>3 DEF RepairLook
  <2>2. PICK b : Repairs(Len(inbox), b)
    BY <1>3 DEF RepairLook, MayFail
  <2>3. Len(inbox) = 0 \/ parker' = [parker EXCEPT !.pc = "append", !.drop = Len(inbox), !.authorityLost = b]
    BY <2>2 DEF Repairs
  <2> QED BY <1>0, <2>1, <2>3
<1>4. CASE RedeliverFails
  <2>1. parker.pc = "append" /\ parker' = [parker EXCEPT !.pc = "ask", !.appendFailed = TRUE]
    BY <1>4 DEF RedeliverFails
  <2> QED BY <1>0, <2>1
<1>5. CASE RepairAsk
  <2>1. /\ parker.pc = "ask"
        /\ (parker' = Off /\ ~parker.appendFailed) \/ parker' = [parker EXCEPT !.pc = "wait"]
    BY <1>5 DEF RepairAsk
  <2> QED BY <1>0, <2>1
<1>6. CASE RepairWait
  <2>1. /\ parker.pc = "wait"
        /\ parker' = [parker EXCEPT !.pc = "judged", !.durable = ~entry.ended \/ pending = "delivered"]
    BY <1>6 DEF RepairWait
  <2> QED BY <1>0, <2>1
<1>7. CASE RepairEnd
  BY <1>7, CountType, BoundNames DEF RepairEnd
<1> QED BY <1>1, <1>2, <1>3, <1>4, <1>5, <1>6, <1>7

(* A failed append is a failure that is counted.                            *)
LEMMA AppendFails ==
  ASSUME TypeOK, TypeOK', [Next]_vars, parker.appendFailed => bounds["faults"] # 0
  PROVE  parker'.appendFailed => bounds["faults"]' # 0
<1>0. /\ parker \in [pc : ParkerPcs, pane : Panes \cup {NoPane}, token : Nat, drop : Nat,
                    authorityLost : BOOLEAN, appendFailed : BOOLEAN, durable : BOOLEAN]
      /\ bounds["faults"] \in Nat /\ bounds["faults"]' >= bounds["faults"]
  BY Fields, Counted
<1>1. CASE parker'.appendFailed = parker.appendFailed \/ ~parker'.appendFailed
  <2>1. bounds["faults"] # 0 => bounds["faults"]' # 0
    BY <1>0
  <2> QED BY <1>1, <2>1
<1>2. CASE RedeliverFails
  BY <1>0, <1>2, CountType, BoundNames DEF RedeliverFails
<1>3. CASE Park /\ ~RedeliverFails
  <2>1. \/ parker' = Off \/ parker' = [Off EXCEPT !.pc = "screened", !.pane = entry.pane]
        \/ parker'.appendFailed = parker.appendFailed
    <3>1. UndoClaim => parker' = Off
      BY DEF UndoClaim
    <3>2. ASSUME NEW i \in DOMAIN Gates, Gate(Gates[i])
          PROVE  parker' = Off \/ parker'.appendFailed = parker.appendFailed
      BY <1>0, <3>1, <3>2 DEF Gate
    <3>3. RepairLook => parker' = Off \/ parker'.appendFailed = parker.appendFailed
      BY <1>0 DEF RepairLook, Repairs
    <3>4. ClaimPark \/ FinalLook \/ KillPane \/ KillFails => parker' = Off \/ parker'.appendFailed = parker.appendFailed
      BY <1>0, <3>1 DEF ClaimPark, FinalLook, KillPane, KillFails
    <3>5. Screen => parker' = [Off EXCEPT !.pc = "screened", !.pane = entry.pane]
      BY DEF Screen
    <3>6. ReleaseClaim \/ Redeliver \/ RepairAsk \/ RepairWait \/ RepairEnd =>
            parker' = Off \/ parker'.appendFailed = parker.appendFailed
      BY <1>0 DEF ReleaseClaim, Redeliver, RepairAsk, RepairWait, RepairEnd
    <3> QED BY <1>3, <3>2, <3>3, <3>4, <3>5, <3>6 DEF Park
  <2>2. [Off EXCEPT !.pc = "screened", !.pane = entry.pane].appendFailed = FALSE
    BY DEF Off
  <2> QED BY <1>1, <2>1, <2>2, OffFields
<1>4. CASE ~Park
  BY <1>1, <1>4, ParkerStays, OffFields
<1> QED BY <1>2, <1>3, <1>4

LEMMA ReplayNext ==
  ASSUME IInv, IInv', ReplayInv, [Next]_vars
  PROVE  ReplayInv'
<1>0. TypeOK /\ DropInv /\ PaneInv /\ TypeOK' /\ PaneInv'
  BY DEF IInv
<1>1. setup' = setup /\ (resend => resend')
  <2>1. Revive => setup' = setup /\ resend' = resend
    BY DEF Revive, FindPane, LaunchPane, LaunchFails, CheckEngine, ReopenTopic, BindPane, Revived
  <2>2. RepairEnd /\ resend => resend'
    BY DEF RepairEnd
  <2>3. setup' = setup /\ (resend' = resend \/ RepairEnd)
    BY <2>1, AskLeaves, LifeLeaves, ParkLeaves, OwnerLeaves, WorldLeaves DEF Next, vars
  <2> QED BY <2>2, <2>3
<1>2. parker'.appendFailed => bounds["faults"]' # 0
  BY <1>0, AppendFails DEF ReplayInv
<1>3. ASSUME OneFailed', NewestLost', ~resend' PROVE Repairing'
  <2>1. OneFailed /\ ~Crash /\ ~resend
    <3>1. Crash => bounds'["crashes"] = bounds["crashes"] + 1
      BY <1>0, CountType, BoundNames DEF Crash
    <3>2. bounds["crashes"] = 0 /\ ~Crash
      BY <1>0, <1>3, <3>1, Counted DEF OneFailed
    <3>3. bounds["faults"] <= 1
      BY <1>0, <1>3, Counted DEF OneFailed
    <3> QED BY <1>1, <1>3, <3>2, <3>3 DEF OneFailed
  <2>2. Len(inbox') = Len(inbox) /\ ~Redeliver /\ inbox # <<>> /\ inbox'[Len(inbox)] = inbox[Len(inbox)]
    <3>1. ~NewestUnread'
      BY <1>3 DEF NewestUnread, NewestLost
    <3>2. InPlace
      BY <1>0, <3>1, InboxMoves
    <3>3. Len(inbox) \in DOMAIN inbox /\ inbox # <<>>
      <4>1. Len(inbox') \in Nat \ {0} /\ DOMAIN inbox = 1..Len(inbox)
        BY <1>0, <1>3, LenProperties, EmptySeq DEF TypeOK, NewestLost
      <4>2. Len(inbox) \in Nat \ {0}
        BY <3>2, <4>1 DEF InPlace
      <4> QED BY <4>1, <4>2, EmptySeq
    <3>4. inbox'[Len(inbox)].st = "drained" /\ inbox'[Len(inbox)].by \in killed'
      BY <1>3, <3>2 DEF NewestLost, InPlace
    <3>5. ~(inbox'[Len(inbox)].by \in alive /\ killed' = killed)
      BY <1>0, <3>4 DEF PaneInv
    <3> QED BY <3>2, <3>3, <3>4, <3>5 DEF InPlace
  <2>3. CASE inbox[Len(inbox)].by \notin killed
    <3>1. killed' # killed
      BY <1>3, <2>2, <2>3 DEF NewestLost
    <3>2. Park
      BY <1>0, <3>1, ParkerStays
    <3>3. parker'.pc = "killed"
      BY <1>0, <3>1, <3>2, ParkerMoves DEF ParkEnds, Screens, Claims, GoesOn
    <3> QED BY <3>3 DEF Repairing
  <2>4. CASE inbox[Len(inbox)].by \in killed
    <3>1. Repairing
      BY <1>3, <2>1, <2>2, <2>4 DEF ReplayInv, NewestLost
    <3>2. CASE ~Park
      BY <1>0, <2>1, <2>2, <3>1, <3>2, ParkerStays DEF Repairing
    <3>3. CASE Park
      <4>1. parker.pc \in {"killed"} \cup After /\ "drop" \notin setup.faults
        BY <2>1, <3>1 DEF Repairing, After, OneFailed
      <4>2. Len(inbox) # 0
        BY <1>0, <2>2, EmptySeq DEF TypeOK
      <4>3. CASE parker.pc = "judged"
        <5>1. parker.appendFailed /\ bounds["faults"] # 0 /\ bounds["faults"] \in Nat
          BY <1>0, <3>1, <4>3, Counted DEF Repairing, ReplayInv
        <5>2. resend' \/ bounds["faults"]' = bounds["faults"] + 1
          BY <1>0, <3>3, <4>1, <4>3, <2>2, <5>1, RepairMoves
        <5> QED BY <1>3, <5>1, <5>2 DEF OneFailed
      <4>4. CASE parker.pc # "judged"
        BY <1>0, <2>2, <3>1, <3>3, <4>1, <4>2, <4>4, RepairMoves DEF Repairing
      <4> QED BY <4>3, <4>4
    <3> QED BY <3>2, <3>3
  <2> QED BY <2>3, <2>4
<1> QED BY <1>1, <1>2, <1>3 DEF ReplayInv

(* The newest record of the inbox, drained and not handled by a session the *)
(* parker has killed, is unread again once _park_repair is over, or the     *)
(* owner is asked to send it again, whichever one call failed (daemon.py    *)
(* 1873-1990), for any number of records, parks and panes.                  *)
THEOREM NewestComesBack == Spec => []NewestIsReplayed
<1>1. IInv /\ ReplayInv => NewestIsReplayed
  BY DEF ReplayInv, NewestIsReplayed, NewestLost, OneFailed, Repairing
<1>2. Init => ReplayInv
  BY OffFields DEF Init, ReplayInv, NewestLost
<1>3. IInv /\ IInv' /\ ReplayInv /\ [Next]_vars => ReplayInv'
  BY ReplayNext
<1> QED BY <1>1, <1>2, <1>3, Invariant, PTL DEF Spec
=============================================================================
