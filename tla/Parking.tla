------------------------------- MODULE Parking -------------------------------
(***************************************************************************)
(* The life of one topic's session: how a session is parked when idle,      *)
(* found dead, and revived.  Four daemon threads work on one registry entry *)
(* and may interleave at every step:                                        *)
(*   - the parker (idle_park_loop): claim, gates, kill, repair;             *)
(*   - the lifecycle loop: dead panes are stamped and their topic closed;   *)
(*   - the handler of the owner's messages, answers and topic-reopens;      *)
(*   - the reviver, a worker that launches and binds a new pane.            *)
(* The sessions, the owner, the operator and notify processes are           *)
(* environment.  A crash of the daemon leaves panes and files as they are.  *)
(***************************************************************************)
EXTENDS Integers, Sequences, FiniteSets

CONSTANTS
  MaxPanes,      \* bound: panes of every setup, the first one counted
  Setups         \* the bounded environments a behaviour may start in

FaultKinds == {"launch", "send", "kill", "append", "read", "drop"}
Bounded == {"faults", "parks", "deaths", "moves", "grants", "crashes"}

(* named: the first pane runs under the topic's own tmux session name;      *)
(* sizes: "small", "large" (ask first), "preset" (compact); faults: what    *)
(* may fail ("drop": the repair's read of the last record); max: how many   *)
(* failures, park attempts, panes that die by themselves, closes and        *)
(* reopens by the owner, exemptions and carry-forwards, crashes, inbox      *)
(* records, panes launched.                                                 *)
Setup == [named : BOOLEAN, sizes : SUBSET {"small", "large", "preset"},
          faults : SUBSET FaultKinds, max : [Bounded \cup {"messages", "panes"} -> Nat]]

ASSUME ParkingAssumption ==
  /\ MaxPanes \in Nat \ {0} /\ Setups \subseteq Setup
  /\ \A s \in Setups : s.max["panes"] \in 1..MaxPanes

VARIABLES
  setup,     \* the environment of this behaviour
  size,      \* the session's size
  entry,     \* the registry entry
  alive,     \* panes that run
  names,     \* tmux session name of each launched pane
  inbox,     \* records: who wrote it, what became of it
  authority, \* "exempt" and "cf": an exemption, an active carry-forward
  pending,   \* the reopen question
  topic,     \* "open", or who closed it
  parker, life, reviver,
  asks,      \* each caller's maybe_auto_revive, and the pane its entry named
  binds,     \* revives bound so far (history)
  killed,    \* panes the parker killed (history)
  owned,     \* something the owner did: a message, a reopen (history)
  answered,  \* the owner answered the question (history)
  resend,    \* the warning that asks for a resend was posted (history)
  bounds     \* what the bounds count

vars == <<setup, size, entry, alive, names, inbox, authority, pending, topic, parker, life, reviver,
          asks, binds, killed, owned, answered, resend, bounds>>

Panes == 1..MaxPanes
NoPane == 0
Callers == {"handler", "lifecycle", "parker"}
Gates == <<"exempt", "alive", "cf", "unread", "recent", "idle">>

Entry == [pane : Panes, ended : BOOLEAN, parked : BOOLEAN, claim : Nat]
Record == [kind : {"owner", "notify"}, st : {"unread", "drained", "handled"}, by : Panes \cup {NoPane}]
Parker == [pc : {"off", "screened", "final", "kill", "killed", "look", "append", "ask", "wait", "judged"}
                 \cup {Gates[i] : i \in DOMAIN Gates},
           pane : Panes \cup {NoPane}, token : Nat,
           drop : Nat, authorityLost : BOOLEAN, appendFailed : BOOLEAN, durable : BOOLEAN]
Life == [pc : {"off", "read", "dead", "marked", "closed", "undo"},
         pane : Panes \cup {NoPane}, binds : Nat]
Reviver == [pc : {"off", "start", "found", "up", "ready", "bound"}, how : {"auto", "choice"},
            was : Panes \cup {NoPane}, pane : Panes \cup {NoPane}]
Asks == [pc : {"none", "check", "reopen", "revive", "preset", "ask", "asking"}, was : Panes \cup {NoPane}]

Off == [pc |-> "off", pane |-> NoPane, token |-> 0, drop |-> 0,
        authorityLost |-> FALSE, appendFailed |-> FALSE, durable |-> FALSE]
LifeOff == [pc |-> "off", pane |-> NoPane, binds |-> 0]
ReviverOff == [pc |-> "off", how |-> "auto", was |-> NoPane, pane |-> NoPane]
Idle == [pc |-> "none", was |-> NoPane]

Init ==
  /\ setup \in Setups /\ size \in setup.sizes
  /\ entry = [pane |-> 1, ended |-> FALSE, parked |-> FALSE, claim |-> 0]
  /\ alive = {1} /\ names = <<IF setup.named THEN "base" ELSE "other">>
  /\ inbox = <<>> /\ authority = {} /\ pending = "none" /\ topic = "open"
  /\ parker = Off /\ life = LifeOff /\ reviver = ReviverOff
  /\ asks = [c \in Callers |-> Idle]
  /\ binds = 0 /\ killed = {} /\ owned = FALSE /\ answered = FALSE /\ resend = FALSE
  /\ bounds = [b \in Bounded |-> 0]

---------------------------------------------------------------------------
Left(b) == bounds[b] < setup.max[b]
Count(b) == bounds' = [bounds EXCEPT ![b] = @ + 1]
MayFail(f) == f \in setup.faults /\ Left("faults")
Reviving == reviver.pc # "off"             \* _auto_reviving holds the topic
UnreadCount == Cardinality({i \in DOMAIN inbox : inbox[i].st = "unread"})
OwnerUnread == \E i \in DOMAIN inbox : inbox[i].kind = "owner" /\ inbox[i].st = "unread"
Calls(c, what) == asks' = [asks EXCEPT ![c] = [Idle EXCEPT !.pc = what]]
Returns(c) == asks' = [asks EXCEPT ![c] = Idle]
Append1(kind) == inbox' = Append(inbox, [kind |-> kind, st |-> "unread", by |-> NoPane])

(* The registry writers: each is one update_registry.                       *)
StampEnded == entry' = [entry EXCEPT !.ended = TRUE]
Bind(p) == entry' = [pane |-> p, ended |-> FALSE, parked |-> FALSE, claim |-> 0]

---------------------------------------------------------------------------
(* maybe_auto_revive, on behalf of a caller: it decides, then acts.         *)

(* Mutant: a peer's record wakes it as well.                                *)
NeverPeerOnly == FALSE

(* A parked seat wakes only for its owner, or for an authority the park     *)
(* raced past (#364).                                                       *)
PeerOnly == ~OwnerUnread /\ authority = {}

Decided == CASE size = "large" -> "ask" [] size = "preset" -> "preset" [] OTHER -> "revive"

(* An unreadable inbox never blocks the owner's own wake.                   *)
Check(c) ==
  /\ asks[c].pc \in {"check", "reopen"}
  /\ \E readFails \in BOOLEAN :
       /\ IF readFails THEN MayFail("read") /\ Count("faults") ELSE UNCHANGED bounds
       /\ IF \/ pending # "none"
             \/ entry.parked /\ asks[c].pc = "check" /\ ~readFails /\ PeerOnly
             \/ ~entry.ended
            THEN Returns(c)
            ELSE asks' = [asks EXCEPT ![c] = [pc |-> Decided, was |-> entry.pane]]
  /\ UNCHANGED <<setup, size, entry, alive, names, inbox, authority, pending, topic, parker, life, reviver,
                 binds, killed, owned, answered, resend>>

(* The worker gets the entry its caller read.                               *)
StartRevive(c) ==
  /\ asks[c].pc \in {"revive", "preset"}
  /\ Returns(c)
  /\ reviver' = IF Reviving THEN reviver
                ELSE [pc |-> "start", how |-> IF asks[c].pc = "preset" THEN "choice" ELSE "auto",
                      was |-> asks[c].was, pane |-> NoPane]
  /\ UNCHANGED <<setup, size, entry, alive, names, inbox, authority, pending, topic, parker, life,
                 binds, killed, owned, answered, resend, bounds>>

(* offer_reopen_choice: the question is written as prepared, sent, and only *)
(* then armed.                                                              *)
Offer(c) ==
  /\ asks[c].pc = "ask"
  /\ IF pending # "none" \/ Reviving
       THEN Returns(c) /\ UNCHANGED pending
       ELSE Calls(c, "asking") /\ pending' = "prepared"
  /\ UNCHANGED <<setup, size, entry, alive, names, inbox, authority, topic, parker, life, reviver,
                 binds, killed, owned, answered, resend, bounds>>

Offered(c) ==
  /\ asks[c].pc = "asking"
  /\ Returns(c)
  /\ pending' = IF pending = "none" THEN "none" ELSE "delivered"
  /\ UNCHANGED <<setup, size, entry, alive, names, inbox, authority, topic, parker, life, reviver,
                 binds, killed, owned, answered, resend, bounds>>

(* Mutant: a question that cannot be delivered revives unasked.             *)
ReviveUnasked(c) ==
  /\ asks[c].pc = "asking" /\ MayFail("send") /\ Count("faults")
  /\ Calls(c, "revive")
  /\ pending' = "none"
  /\ UNCHANGED <<setup, size, entry, alive, names, inbox, authority, topic, parker, life, reviver,
                 binds, killed, owned, answered, resend>>

OfferUndelivered(c) ==
  /\ asks[c].pc = "asking" /\ MayFail("send") /\ Count("faults")
  /\ Returns(c)
  /\ pending' = "none"
  /\ UNCHANGED <<setup, size, entry, alive, names, inbox, authority, topic, parker, life, reviver,
                 binds, killed, owned, answered, resend>>

---------------------------------------------------------------------------
(* The reviver: revive_one and the worker around it *)

(* _revive_tmux_name: the topic's name, unless a live tmux session of that  *)
(* name does not hold the pane of the entry the worker was given.           *)
TmuxName == IF \E p \in alive : names[p] = "base" /\ p # reviver.was THEN "suffixed" ELSE "base"

(* has-session: its pane is bound again; otherwise a pane is launched.      *)
FindPane ==
  /\ reviver.pc = "start"
  /\ \E p \in alive : names[p] = TmuxName /\ reviver' = [reviver EXCEPT !.pc = "found", !.pane = p]
  /\ UNCHANGED <<setup, size, entry, alive, names, inbox, authority, pending, topic, parker, life,
                 asks, binds, killed, owned, answered, resend, bounds>>

LaunchPane ==
  LET p == Len(names) + 1 IN
  /\ reviver.pc = "start" /\ \A q \in alive : names[q] # TmuxName
  /\ p <= setup.max["panes"]
  /\ alive' = alive \cup {p} /\ names' = Append(names, TmuxName)
  /\ reviver' = [reviver EXCEPT !.pc = "up", !.pane = p]
  /\ UNCHANGED <<setup, size, entry, inbox, authority, pending, topic, parker, life,
                 asks, binds, killed, owned, answered, resend, bounds>>

(* A failed revive gives the answered question back.                        *)
ReviveFails ==
  /\ reviver' = ReviverOff
  /\ pending' = IF reviver.how = "choice" THEN "delivered" ELSE pending

LaunchFails ==
  /\ reviver.pc = "start" /\ \A q \in alive : names[q] # TmuxName
  /\ MayFail("launch") /\ Count("faults")
  /\ ReviveFails
  /\ UNCHANGED <<setup, size, entry, alive, names, inbox, authority, topic, parker, life,
                 asks, binds, killed, owned, answered, resend>>

(* The found pane must run the engine: one that is gone shows none.         *)
CheckEngine ==
  /\ reviver.pc = "found"
  /\ IF reviver.pane \in alive THEN reviver' = [reviver EXCEPT !.pc = "up"] /\ UNCHANGED pending
                               ELSE ReviveFails
  /\ UNCHANGED <<setup, size, entry, alive, names, inbox, authority, topic, parker, life,
                 asks, binds, killed, owned, answered, resend, bounds>>

(* The topic is reopened, except for an answered question (respect_close);  *)
(* a reopen that fails is only told.                                        *)
ReopenTopic ==
  /\ reviver.pc = "up"
  /\ reviver' = [reviver EXCEPT !.pc = "ready"]
  /\ \/ topic' = (IF reviver.how = "choice" THEN topic ELSE "open") /\ UNCHANGED bounds
     \/ reviver.how = "auto" /\ MayFail("send") /\ Count("faults") /\ UNCHANGED topic
  /\ UNCHANGED <<setup, size, entry, alive, names, inbox, authority, pending, parker, life,
                 asks, binds, killed, owned, answered, resend>>

BindPane ==
  /\ reviver.pc = "ready"
  /\ Bind(reviver.pane) /\ binds' = binds + 1
  /\ reviver' = [reviver EXCEPT !.pc = "bound"]
  /\ UNCHANGED <<setup, size, alive, names, inbox, authority, pending, topic, parker, life,
                 asks, killed, owned, answered, resend, bounds>>

(* The briefing is over: the worker forgets the question and lets go.       *)
Revived ==
  /\ reviver.pc = "bound"
  /\ reviver' = ReviverOff
  /\ pending' = IF reviver.how = "choice" THEN "none" ELSE pending
  /\ UNCHANGED <<setup, size, entry, alive, names, inbox, authority, topic, parker, life,
                 asks, binds, killed, owned, answered, resend, bounds>>

---------------------------------------------------------------------------
(* The lifecycle loop *)

LifeRead ==
  /\ life.pc = "off" /\ asks["lifecycle"].pc = "none" /\ ~entry.ended
  /\ life' = [LifeOff EXCEPT !.pc = "read", !.pane = entry.pane]
  /\ UNCHANGED <<setup, size, entry, alive, names, inbox, authority, pending, topic, parker, reviver,
                 asks, binds, killed, owned, answered, resend, bounds>>

LifeLook ==
  /\ life.pc = "read"
  /\ life' = IF life.pane \in alive THEN LifeOff ELSE [life EXCEPT !.pc = "dead"]
  /\ UNCHANGED <<setup, size, entry, alive, names, inbox, authority, pending, topic, parker, reviver,
                 asks, binds, killed, owned, answered, resend, bounds>>

(* mark_ended: only while the topic is bound to the pane seen dead.         *)
MarkEnded ==
  /\ life.pc = "dead"
  /\ IF entry.pane = life.pane
       THEN StampEnded /\ life' = [life EXCEPT !.pc = "marked", !.binds = binds]
       ELSE life' = LifeOff /\ UNCHANGED entry
  /\ UNCHANGED <<setup, size, alive, names, inbox, authority, pending, topic, parker, reviver,
                 asks, binds, killed, owned, answered, resend, bounds>>

(* The notice and closeForumTopic; either may fail, and is only logged.     *)
CloseTopic ==
  /\ life.pc = "marked"
  /\ life' = [life EXCEPT !.pc = "closed"]
  /\ \/ topic' = (IF topic = "open" THEN "bridge" ELSE topic) /\ UNCHANGED bounds
     \/ MayFail("send") /\ Count("faults") /\ UNCHANGED topic
  /\ UNCHANGED <<setup, size, entry, alive, names, inbox, authority, pending, parker, reviver,
                 asks, binds, killed, owned, answered, resend>>

(* Mutant: the correction is posted without a second look.                  *)
AlwaysCorrect ==
  /\ life.pc = "closed"
  /\ life' = [life EXCEPT !.pc = "undo"]
  /\ UNCHANGED <<setup, size, entry, alive, names, inbox, authority, pending, topic, parker, reviver,
                 asks, binds, killed, owned, answered, resend, bounds>>

(* Claimed by a revive in between?                                          *)
LookAgain ==
  /\ life.pc = "closed"
  /\ life' = IF entry.pane # life.pane \/ ~entry.ended THEN [life EXCEPT !.pc = "undo"] ELSE LifeOff
  /\ UNCHANGED <<setup, size, entry, alive, names, inbox, authority, pending, topic, parker, reviver,
                 asks, binds, killed, owned, answered, resend, bounds>>

(* Then the close is undone: "the session was revived ... open and live".   *)
UndoClose ==
  /\ life.pc = "undo"
  /\ life' = LifeOff
  /\ \/ topic' = "open" /\ UNCHANGED bounds
     \/ MayFail("send") /\ Count("faults") /\ UNCHANGED topic
  /\ UNCHANGED <<setup, size, entry, alive, names, inbox, authority, pending, parker, reviver,
                 asks, binds, killed, owned, answered, resend>>

(* Mutant: the sweep leaves parked topics alone.                            *)
NeverPoll == FALSE /\ UNCHANGED vars

(* A parked topic is polled for unread owner records; a failed read counts  *)
(* as one.                                                                  *)
PollParked ==
  /\ life.pc = "off" /\ asks["lifecycle"].pc = "none"
  /\ entry.ended /\ entry.parked /\ pending = "none" /\ ~Reviving
  /\ \/ OwnerUnread /\ UNCHANGED bounds
     \/ MayFail("read") /\ Count("faults")
  /\ Calls("lifecycle", "check")
  /\ UNCHANGED <<setup, size, entry, alive, names, inbox, authority, pending, topic, parker, life, reviver,
                 binds, killed, owned, answered, resend>>

---------------------------------------------------------------------------
(* The parker: idle_park_loop's screen, then _park_one *)

BusyWith(p) == \E i \in DOMAIN inbox : inbox[i].st = "drained" /\ inbox[i].by = p

(* The gates of _park_gates_hold, each a read of its own.  Any record makes *)
(* the inbox recent: the window is longer than a park.                      *)
GateHolds(g, p) ==
  CASE g = "exempt" -> "exempt" \notin authority
    [] g = "alive" -> p \in alive
    [] g = "cf" -> "cf" \notin authority
    [] g = "unread" -> UnreadCount = 0
    [] g = "recent" -> inbox = <<>>
    [] g = "idle" -> ~BusyWith(p)

NextGate(g) ==
  LET i == CHOOSE i \in DOMAIN Gates : Gates[i] = g
  IN IF i = Len(Gates) THEN "final" ELSE Gates[i + 1]

Screen ==
  /\ parker.pc = "off" /\ Left("parks") /\ Count("parks")
  /\ ~entry.ended /\ entry.claim = 0
  /\ \A i \in DOMAIN Gates : GateHolds(Gates[i], entry.pane)
  /\ parker' = [Off EXCEPT !.pc = "screened", !.pane = entry.pane]
  /\ UNCHANGED <<setup, size, entry, alive, names, inbox, authority, pending, topic, life, reviver,
                 asks, binds, killed, owned, answered, resend>>

(* _claim_park: ended, parked and the token land in one write.              *)
ClaimPark ==
  /\ parker.pc = "screened"
  /\ IF entry.pane # parker.pane \/ entry.ended \/ entry.claim # 0
       THEN parker' = Off /\ UNCHANGED entry
       ELSE LET t == bounds["parks"] IN
            /\ entry' = [entry EXCEPT !.ended = TRUE, !.parked = TRUE, !.claim = t]
            /\ parker' = [parker EXCEPT !.pc = Gates[1], !.token = t]
  /\ UNCHANGED <<setup, size, alive, names, inbox, authority, pending, topic, life, reviver,
                 asks, binds, killed, owned, answered, resend, bounds>>

HoldsClaim == entry.claim = parker.token

(* Mutant: the undo forgets the parked flag.                                *)
UndoEndedOnly ==
  /\ parker' = Off
  /\ entry' = IF HoldsClaim THEN [entry EXCEPT !.ended = FALSE, !.claim = 0] ELSE entry

(* The undo of a claim that is still ours.                                  *)
UndoClaim ==
  /\ parker' = Off
  /\ entry' = IF HoldsClaim THEN [entry EXCEPT !.ended = FALSE, !.parked = FALSE, !.claim = 0] ELSE entry

(* A gate refuses also for what the model leaves out: a read that fails,    *)
(* the engine, the occupant, activity, a screen that is busy.               *)
Gate(g) ==
  /\ parker.pc = g
  /\ \/ /\ GateHolds(g, parker.pane) /\ (g = "exempt" => HoldsClaim /\ entry.pane = parker.pane)
        /\ parker' = [parker EXCEPT !.pc = NextGate(g)] /\ UNCHANGED entry
     \/ UndoClaim
  /\ UNCHANGED <<setup, size, alive, names, inbox, authority, pending, topic, life, reviver,
                 asks, binds, killed, owned, answered, resend, bounds>>

FinalLook ==
  /\ parker.pc = "final"
  /\ IF HoldsClaim /\ entry.pane = parker.pane
       THEN parker' = [parker EXCEPT !.pc = "kill"] /\ UNCHANGED entry
       ELSE UndoClaim
  /\ UNCHANGED <<setup, size, alive, names, inbox, authority, pending, topic, life, reviver,
                 asks, binds, killed, owned, answered, resend, bounds>>

KillPane ==
  /\ parker.pc = "kill" /\ parker.pane \in alive
  /\ alive' = alive \ {parker.pane} /\ killed' = killed \cup {parker.pane}
  /\ parker' = [parker EXCEPT !.pc = "killed"]
  /\ UNCHANGED <<setup, size, entry, names, inbox, authority, pending, topic, life, reviver,
                 asks, binds, owned, answered, resend, bounds>>

(* kill-pane fails, on a pane that died just before for one.                *)
KillFails ==
  /\ parker.pc = "kill"
  /\ \/ parker.pane \notin alive /\ UNCHANGED bounds
     \/ MayFail("kill") /\ Count("faults")
  /\ UndoClaim
  /\ UNCHANGED <<setup, size, alive, names, inbox, authority, pending, topic, life, reviver,
                 asks, binds, killed, owned, answered, resend>>

(* The claim is released; the parked notice.                                *)
ReleaseClaim ==
  /\ parker.pc = "killed"
  /\ parker' = [parker EXCEPT !.pc = "look"]
  /\ entry' = IF HoldsClaim THEN [entry EXCEPT !.claim = 0] ELSE entry
  /\ UNCHANGED <<setup, size, alive, names, inbox, authority, pending, topic, life, reviver,
                 asks, binds, killed, owned, answered, resend, bounds>>

(* Mutant: the repair sees what is unread only.                             *)
RepairUnreadOnly ==
  /\ parker.pc = "look"
  /\ IF UnreadCount = 0 /\ authority = {} THEN parker' = Off
     ELSE parker' = [parker EXCEPT !.pc = "ask", !.authorityLost = authority # {}]
  /\ UNCHANGED <<setup, size, entry, alive, names, inbox, authority, pending, topic, life, reviver,
                 asks, binds, killed, owned, answered, resend, bounds>>

(* _park_repair: what was lost to the race with the kill?  An authority     *)
(* that cannot be read is lost; a last record that cannot be read is none.  *)
Repairs(drop, authorityLost) ==
  parker' = IF drop = 0 /\ UnreadCount = 0 /\ ~authorityLost THEN Off
            ELSE [parker EXCEPT !.pc = IF drop = 0 THEN "ask" ELSE "append",
                                !.drop = drop, !.authorityLost = authorityLost]

RepairLook ==
  /\ parker.pc = "look"
  /\ \/ Repairs(Len(inbox), authority # {}) /\ UNCHANGED bounds
     \/ Repairs(Len(inbox), TRUE) /\ MayFail("read") /\ Count("faults")
     \/ Repairs(0, authority # {}) /\ MayFail("drop") /\ Count("faults")
  /\ UNCHANGED <<setup, size, entry, alive, names, inbox, authority, pending, topic, life, reviver,
                 asks, binds, killed, owned, answered, resend>>

(* The record is appended again at the end, unread; what stays of it behind *)
(* the cursor nobody reads.                                                 *)
Again(j) ==
  [i \in DOMAIN inbox |->
     IF i < j THEN inbox[i]
     ELSE IF i < Len(inbox) THEN inbox[i + 1]
     ELSE [inbox[j] EXCEPT !.st = "unread", !.by = NoPane]]

Redeliver ==
  /\ parker.pc = "append"
  /\ parker' = [parker EXCEPT !.pc = "ask"]
  /\inbox' = Again(parker.drop)
  /\ UNCHANGED <<setup, size, entry, alive, names, authority, pending, topic, life, reviver,
                 asks, binds, killed, owned, answered, resend, bounds>>

RedeliverFails ==
  /\ parker.pc = "append" /\ MayFail("append") /\ Count("faults")
  /\ parker' = [parker EXCEPT !.pc = "ask", !.appendFailed = TRUE]
  /\ UNCHANGED <<setup, size, entry, alive, names, inbox, authority, pending, topic, life, reviver,
                 asks, binds, killed, owned, answered, resend>>

RepairAsk ==
  /\ parker.pc = "ask"
  /\ \E readFails \in BOOLEAN :
       /\ IF readFails THEN MayFail("read") /\ Count("faults") ELSE UNCHANGED bounds
       /\ LET waiting == readFails \/ OwnerUnread
          IN IF ~(waiting \/ parker.authorityLost \/ parker.appendFailed)
               THEN parker' = Off /\ UNCHANGED asks
               ELSE /\ parker' = [parker EXCEPT !.pc = "wait"]
                    /\ asks' = IF waiting \/ parker.authorityLost
                                 THEN [asks EXCEPT !["parker"].pc = "check"] ELSE asks
  /\ UNCHANGED <<setup, size, entry, alive, names, inbox, authority, pending, topic, life, reviver,
                 binds, killed, owned, answered, resend>>

(* Bounded wait for an outcome that survives the thread.                    *)
RepairWait ==
  /\ parker.pc = "wait" /\ asks["parker"].pc = "none"
  /\ parker' = [parker EXCEPT !.pc = "judged", !.durable = ~entry.ended \/ pending = "delivered"]
  /\ UNCHANGED <<setup, size, entry, alive, names, inbox, authority, pending, topic, life, reviver,
                 asks, binds, killed, owned, answered, resend, bounds>>

(* No outcome: a question nobody got is dropped, and the warning is posted, *)
(* or its own failure only logged.                                          *)
RepairEnd ==
  /\ parker.pc = "judged"
  /\ parker' = Off
  /\ pending' = IF ~parker.durable /\ pending = "prepared" THEN "none" ELSE pending
  /\ \/ resend' = (resend \/ parker.appendFailed) /\ UNCHANGED bounds
     \/ /\ parker.appendFailed \/ ~parker.durable
        /\ MayFail("send") /\ Count("faults") /\ UNCHANGED resend
  /\ UNCHANGED <<setup, size, entry, alive, names, inbox, authority, topic, life, reviver,
                 asks, binds, killed, owned, answered>>

---------------------------------------------------------------------------
(* The owner, through the message handler *)

HandlerFree == asks["handler"].pc = "none"

(* A message that is no answer drops a question about a session that is     *)
(* back, and always goes to the inbox.                                      *)
OwnerMessage ==
  /\ HandlerFree /\ Len(inbox) < setup.max["messages"]
  /\ Append1("owner") /\ owned' = TRUE
  /\ Calls("handler", "check")
  /\ pending' = IF pending = "delivered" /\ ~entry.ended THEN "none" ELSE pending
  /\ UNCHANGED <<setup, size, entry, alive, names, authority, topic, parker, life, reviver,
                 binds, killed, answered, resend, bounds>>

(* check_pending_reopen, and the answer given before the question (#373):   *)
(* the registry is looked at again, then the worker owns the question.      *)
OwnerAnswers ==
  /\ HandlerFree
  /\ pending = "delivered" \/ (pending = "none" /\ entry.ended /\ ~Reviving)
  /\ IF ~entry.ended THEN pending' = "none" /\ UNCHANGED <<reviver, answered>>
     ELSE IF Reviving THEN pending' = "delivered" /\ UNCHANGED <<reviver, answered>>
     ELSE /\ pending' = "reviving" /\ answered' = TRUE
          /\ reviver' = [pc |-> "start", how |-> "choice", was |-> entry.pane, pane |-> NoPane]
  /\ owned' = TRUE
  /\ UNCHANGED <<setup, size, entry, alive, names, inbox, authority, topic, parker, life,
                 asks, binds, killed, resend, bounds>>

OwnerCloses ==
  /\ topic = "open" /\ Left("moves") /\ Count("moves")
  /\ topic' = "owner"
  /\ UNCHANGED <<setup, size, entry, alive, names, inbox, authority, pending, parker, life, reviver,
                 asks, binds, killed, owned, answered, resend>>

OwnerReopens ==
  /\ HandlerFree /\ topic # "open" /\ Left("moves") /\ Count("moves")
  /\ topic' = "open" /\ owned' = TRUE
  /\ Calls("handler", IF ~entry.ended THEN "none" ELSE IF size = "small" THEN "reopen" ELSE "ask")
  /\ UNCHANGED <<setup, size, entry, alive, names, inbox, authority, pending, parker, life, reviver,
                 binds, killed, answered, resend>>

---------------------------------------------------------------------------
(* Environment: notify, the sessions, the operator, a daemon crash *)

(* notify looked at the entry before it appends.                            *)
Notify ==
  /\ Len(inbox) < setup.max["messages"] /\ Append1("notify")
  /\ UNCHANGED <<setup, size, entry, alive, names, authority, pending, topic, parker, life, reviver,
                 asks, binds, killed, owned, answered, resend, bounds>>

(* A session drains its inbox; later it has handled what it drained.        *)
Drain(p) ==
  /\ p \in alive /\ UnreadCount > 0
  /\ inbox' = [i \in DOMAIN inbox |-> IF inbox[i].st = "unread"
                 THEN [inbox[i] EXCEPT !.st = "drained", !.by = p] ELSE inbox[i]]
  /\ UNCHANGED <<setup, size, entry, alive, names, authority, pending, topic, parker, life, reviver,
                 asks, binds, killed, owned, answered, resend, bounds>>

Handle(p) ==
  /\ p \in alive /\ BusyWith(p)
  /\ inbox' = [i \in DOMAIN inbox |-> IF inbox[i].st = "drained" /\ inbox[i].by = p
                 THEN [inbox[i] EXCEPT !.st = "handled"] ELSE inbox[i]]
  /\ UNCHANGED <<setup, size, entry, alive, names, authority, pending, topic, parker, life, reviver,
                 asks, binds, killed, owned, answered, resend, bounds>>

PaneDies(p) ==
  /\ p \in alive /\ Left("deaths") /\ Count("deaths")
  /\ alive' = alive \ {p}
  /\ UNCHANGED <<setup, size, entry, names, inbox, authority, pending, topic, parker, life, reviver,
                 asks, binds, killed, owned, answered, resend>>

Grant(a) ==
  /\ a \notin authority /\ Left("grants") /\ Count("grants")
  /\ a = "cf" => entry.pane \in alive
  /\ authority' = authority \cup {a}
  /\ UNCHANGED <<setup, size, entry, alive, names, inbox, pending, topic, parker, life, reviver,
                 asks, binds, killed, owned, answered, resend>>

CarryForwardEnds ==
  /\ "cf" \in authority
  /\ authority' = authority \ {"cf"}
  /\ UNCHANGED <<setup, size, entry, alive, names, inbox, pending, topic, parker, life, reviver,
                 asks, binds, killed, owned, answered, resend, bounds>>

(* The daemon dies and starts again: a question not known to be delivered   *)
(* is asked again, unless the session is not down any more.                 *)
Crash ==
  /\ Left("crashes") /\ Count("crashes")
  /\ parker' = Off /\ life' = LifeOff /\ reviver' = ReviverOff
  /\ asks' = [c \in Callers |-> Idle]
  /\ pending' = IF pending \in {"none", "delivered"} THEN pending
                ELSE IF entry.ended THEN "delivered" ELSE "none"
  /\ authority' = authority \ {"cf"}
  /\ UNCHANGED <<setup, size, entry, alive, names, inbox, topic, binds, killed, owned, answered, resend>>

---------------------------------------------------------------------------
Ask(c) == Check(c) \/ StartRevive(c) \/ Offer(c) \/ Offered(c) \/ OfferUndelivered(c)
Revive ==
  FindPane \/ LaunchPane \/ LaunchFails \/ CheckEngine \/ ReopenTopic \/ BindPane \/ Revived
Lifecycle ==
  LifeRead \/ LifeLook \/ MarkEnded \/ CloseTopic \/ LookAgain \/ UndoClose \/ PollParked
Park ==
  \/ Screen \/ ClaimPark \/ (\E i \in DOMAIN Gates : Gate(Gates[i])) \/ FinalLook
  \/ KillPane \/ KillFails \/ ReleaseClaim \/ RepairLook \/ Redeliver \/ RedeliverFails
  \/ RepairAsk \/ RepairWait \/ RepairEnd
Owner == OwnerMessage \/ OwnerAnswers \/ OwnerCloses \/ OwnerReopens
World ==
  \/ Notify \/ CarryForwardEnds \/ Crash
  \/ \E a \in {"exempt", "cf"} : Grant(a)
  \/ \E p \in Panes : Drain(p) \/ Handle(p) \/ PaneDies(p)

Next == (\E c \in Callers : Ask(c)) \/ Revive \/ Lifecycle \/ Park \/ Owner \/ World

Spec == Init /\ [][Next]_vars

(* The daemon's threads run; the owner, the sessions and the operator need  *)
(* do nothing.                                                              *)
FairSpec ==
  /\ Spec
  /\ WF_vars(Revive) /\ WF_vars(Park)
  /\ WF_vars(LifeLook \/ MarkEnded \/ CloseTopic \/ LookAgain \/ UndoClose) /\ WF_vars(PollParked)
  /\ \A c \in Callers : WF_vars(Ask(c))

---------------------------------------------------------------------------
TypeOK ==
  /\ setup \in Setups /\ size \in setup.sizes /\ entry \in Entry /\ alive \subseteq Panes
  /\ names \in Seq({"other", "base", "suffixed"}) /\ inbox \in Seq(Record)
  /\ authority \subseteq {"exempt", "cf"}
  /\ pending \in {"none", "prepared", "delivered", "reviving"} /\ topic \in {"open", "owner", "bridge"}
  /\ parker \in Parker /\ life \in Life /\ reviver \in Reviver
  /\ asks \in [Callers -> Asks]
  /\ binds \in Nat /\ killed \subseteq Panes
  /\ {owned, answered, resend} \subseteq BOOLEAN /\ bounds \in [Bounded -> Nat]

UnderClaim == parker.token # 0 /\ parker.pc \notin {"look", "append", "ask", "wait", "judged"}

(* A topic whose bound pane runs is stamped ended only while the parker     *)
(* holds its claim: no stale look of the lifecycle loop (#237), no refused  *)
(* park leaves a live session marked dead.  A daemon crash inside a claim   *)
(* is the exception.                                                        *)
EndedMeansDown ==
  entry.ended /\ entry.pane \in alive /\ bounds["crashes"] = 0 =>
    UnderClaim /\ entry.claim = parker.token

(* An entry says "parked" with no claim on it only if the parker did kill   *)
(* the pane it names: the revive tells the session why it restarted.        *)
ParkedMeansKilled ==
  entry.parked => entry.ended /\ (entry.claim = 0 => entry.pane \in killed)

(* The newest record of the inbox, drained by the parked pane but not       *)
(* handled, is unread again once the repair is over, or a resend is asked   *)
(* for, whichever one call failed.  Older records are not taken back (see   *)
(* DrainedIsReplayed), nor is one the repair cannot read, which it takes    *)
(* for none; a failed append whose warning fails too is the second failure. *)
NewestIsReplayed ==
  /\ parker.pc = "off" /\ bounds["crashes"] = 0 /\ bounds["faults"] <= 1
  /\ "drop" \notin setup.faults
  /\ inbox # <<>> /\ inbox[Len(inbox)].st = "drained" /\ inbox[Len(inbox)].by \in killed
  => resend

(* Records of peers alone never wake a session or ask its owner anything    *)
(* (#364), whichever one read fails: in the sweep, in the repair, or in the *)
(* check they share.  Two failures may.                                     *)
PeersNeverWake ==
  ~owned /\ bounds["grants"] = 0 /\ bounds["faults"] <= 1 => Len(names) = 1 /\ pending = "none"

(* A large session is resumed only after its owner answered (A3), on every  *)
(* error path.                                                              *)
AskedBeforeSpend == size = "large" /\ ~answered => Len(names) = 1 /\ binds = 0

(* No session is launched that nobody asked for.                            *)
NothingUnasked == PeersNeverWake /\ AskedBeforeSpend

(* "The session was revived while this topic was being closed" is said only *)
(* when a revive did bind the topic since the stamp.  Excepted is a park,   *)
(* whose undo takes the stamp back as well.                                 *)
CorrectionTrue == life.pc = "undo" /\ bounds["parks"] = 0 => binds > life.binds

(* The registry entry is well formed and says what is true of the session,  *)
(* and so does the notice that corrects it.                                 *)
EntryHonest == TypeOK /\ EndedMeansDown /\ ParkedMeansKilled /\ CorrectionTrue

(* The owner's message to a parked session gets the session back or a       *)
(* question to answer, or a session still running reads it; the sweep       *)
(* retries a revive that failed.  A behaviour that has used up its panes is *)
(* excepted.                                                                *)
OwnerWakesParked ==
  (entry.ended /\ entry.parked /\ OwnerUnread) ~>
    (~entry.ended \/ pending = "delivered" \/ ~OwnerUnread \/ Len(names) = setup.max["panes"])

(* revive_one: "Idempotent ... rebind instead of duplicating": once the     *)
(* park and the revive are over, no two panes run one topic's session.  *)
OneSession == parker.pc = "off" /\ reviver.pc = "off" => Cardinality(alive) <= 1

(* _park_repair: "A drained message ... is re-appended to the inbox", said  *)
(* of any; with two drained records it is not so.                           *)
DrainedIsReplayed ==
  parker.pc = "off" /\ bounds["crashes"] = 0 /\ "drop" \notin setup.faults =>
    \A i \in DOMAIN inbox :
      inbox[i].kind = "owner" /\ inbox[i].st = "drained" /\ inbox[i].by \in killed => resend

(* idle_park_loop: "leave the topic OPEN".                                  *)
ParkedTopicOpen == entry.parked /\ entry.claim = 0 => topic # "bridge"

(* _park_repair: "Durable means an OUTCOME ... the entry back alive ... or  *)
(* a DELIVERED reopen question".                                            *)
DurableIsOutcome ==
  parker.pc = "judged" /\ parker.durable => entry.pane \in alive \/ pending = "delivered"

(* revive_one: on the reopen-choice path the topic "is open because the     *)
(* owner opened it, or shut because they shut it again", not by a sweep that *)
(* has finished with it.                                                    *)
ChoiceTopicOwners ==
  reviver.pc = "bound" /\ reviver.how = "choice" /\ life.pc = "off" => topic # "bridge"
=============================================================================
