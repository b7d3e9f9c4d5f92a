------------------------------ MODULE TopicMove ------------------------------
(***************************************************************************)
(* A session moves to another group: the operator's request file, the      *)
(* lifecycle loop that executes it, and the locks that keep every other    *)
(* operation off the folder and the registry while they change             *)
(* (daemon.py 1093-1316, common.py 212-285, cli.py 278-342).               *)
(*                                                                         *)
(*   creation   _topic_creation_lock: a message in an unregistered topic   *)
(*              and the move exclude each other                            *)
(*   topic      topic-locks/<key>.lock: shared by every operation on a     *)
(*              topic, exclusive for its move                              *)
(*   pending    _pending_reopen_lock                                       *)
(*                                                                         *)
(* There is one session. Its topic is number 1, and createForumTopic hands *)
(* out the next number. A crash loses the daemon's threads and what they   *)
(* hold in memory; files, links and the operators' commands outlive it.    *)
(***************************************************************************)
EXTENDS Naturals, Sequences, FiniteSets

CONSTANTS
  Groups,       \* Telegram groups, each polled by a thread of its own
  Home,         \* the group the session starts in
  Operators,    \* processes that run `tg-bridge move`
  MaxKey,       \* topics ever created
  Setups        \* the bounded environments a behaviour may start in

VARIABLES
  setup,     \* what is left of each bound
  reg,       \* registry.json, per topic key
  dir,       \* topics/<key>: a folder, a link to a later one, or nothing
  req,       \* topics/<key>.move.json
  grp,       \* the group of each topic that exists in Telegram
  made,      \* topics created so far
  thread,    \* every thread and command: where it is, on which key, its locks
  busy,      \* in memory: the question, revive or carry-forward of a topic
  boot,      \* the daemon starts: interrupted moves are not yet reported
  rec,       \* cf-unfinished/<key>
  fired,     \* the warning loop's table: auto carry-forward has fired
  accepted,  \* history: messages put into the session's inbox
  calls,     \* history: createForumTopic calls for the request of each key
  fires,     \* history: auto carry-forwards that no unfinished record called for
  harm       \* history: what a crash, a failure or a race left behind

files == <<reg, dir, req, rec>>
history == <<accepted, calls, fires, harm>>
vars == <<setup, files, grp, made, thread, busy, boot, fired, history>>

Keys == 1..MaxKey
Workers == {"life", "tap", "timer", "warn", "flow", "halt", "cli"}
Threads == Workers \cup Groups \cup Operators
OutsideDaemon == Operators \cup {"cli"}
Bounds == {"moves", "topics", "faults", "crashes", "messages", "notifies", "sweeps", "works", "taps", "warns"}

(* Threads and groups have names of their own; "-" is the group of a topic  *)
(* that is not there.                                                       *)
ASSUME MoveAssumption ==
  /\ Home \in Groups /\ MaxKey \in Nat \ {0} /\ Setups \subseteq [Bounds -> Nat]
  /\ "-" \notin Groups
  /\ Groups \cap (Workers \cup Operators) = {} /\ Workers \cap Operators = {}

NoEntry == [is |-> "none", to |-> 0, owed |-> FALSE]
NoDir == [is |-> "none", to |-> 0, box |-> {}]
Folder(box) == [is |-> "real", to |-> 0, box |-> box]
Link(k) == [is |-> "link", to |-> k, box |-> {}]
NoReq == [state |-> "none", to |-> Home, res |-> 0]
Idle == [pc |-> "idle", key |-> 0, has |-> {}, to |-> Home, n |-> 0]

Init ==
  /\ setup \in Setups
  /\ reg = [k \in Keys |-> IF k = 1 THEN [NoEntry EXCEPT !.is = "session"] ELSE NoEntry]
  /\ dir = [k \in Keys |-> IF k = 1 THEN Folder({}) ELSE NoDir]
  /\ req = [k \in Keys |-> NoReq] /\ rec = {}
  /\ grp = [k \in Keys |-> IF k = 1 THEN Home ELSE "-"] /\ made = 1
  /\ thread = [t \in Threads |-> Idle] /\ busy = {} /\ boot = FALSE /\ fired = {}
  /\ accepted = {} /\ calls = [k \in Keys |-> 0] /\ fires = 0 /\ harm = {}

-----------------------------------------------------------------------------
(* What the handlers ask of the state.                                      *)
Spend(b) == setup[b] > 0 /\ setup' = [setup EXCEPT ![b] = @ - 1]
Up(t) == t \in OutsideDaemon \/ ~boot
At(t, pc) == thread[t].pc = pc /\ Up(t)
Goes(t, pc) == thread' = [thread EXCEPT ![t].pc = pc]
Leaves(t) == thread' = [thread EXCEPT ![t] = Idle]
Enters(t, pc, k) == thread' = [thread EXCEPT ![t] = [Idle EXCEPT !.pc = pc, !.key = k]]

(* Where the links of a table lead from k, at most MaxKey of them.          *)
Follow(next, k) ==
  LET step[n \in 0..MaxKey] ==
        IF n = 0 THEN k
        ELSE LET j == step[n - 1] IN IF next[j] = 0 THEN j ELSE next[j]
  IN step[MaxKey]

ResolveMoved(k) == Follow([j \in Keys |-> reg[j].to], k)
Real(k) == Follow([j \in Keys |-> dir[j].to], k)
Moved(k) == reg[k].is = "moved"
Session(k) == reg[k].is = "session"
BusyKinds == {"question", "reviving", "carryforward"}

(* The registry's own lock: the move holds it from its first look at the    *)
(* registry to the rename of the file.                                      *)
RegistryFree == thread["life"].pc \notin {"alias", "save"}

-----------------------------------------------------------------------------
(* Locks. A thread takes those of its pc one by one, in this order.         *)

(* Mutant: the move fences the topic before it asks for the creation lock.  *)
OrderTopicFirst(pc) ==
  CASE pc = "moving" -> <<"topic", "creation">> [] pc = "unknown" -> <<"creation", "topic">>
    [] pc = "tapping" -> <<"topic", "pending">> [] OTHER -> <<"topic">>
Order(pc) ==
  CASE pc \in {"moving", "unknown"} -> <<"creation", "topic">>
    [] pc = "tapping" -> <<"topic", "pending">>
    [] OTHER -> <<"topic">>

Holds(t, l) == l \in thread[t].has
Fenced(k) == Holds("life", "topic") /\ thread["life"].key = k

Free(t, l) ==
  IF l # "topic" THEN \A u \in Threads : ~Holds(u, l)
  ELSE IF t = "life" THEN \A u \in Threads \ {t} : Holds(u, l) => thread[u].key # thread[t].key
  ELSE ~Fenced(thread[t].key)

Locking == {"moving", "unknown", "known", "tapping"}
Missing(t) ==
  LET o == Order(thread[t].pc)
  IN o[CHOOSE i \in DOMAIN o : ~Holds(t, o[i]) /\ \A j \in 1..(i - 1) : Holds(t, o[j])]

Locks(t) ==
  /\ thread[t].pc \in Locking /\ Up(t) /\ Free(t, Missing(t))
  /\ LET has == thread[t].has \cup {Missing(t)}
         all == \A i \in DOMAIN Order(thread[t].pc) : Order(thread[t].pc)[i] \in has
     IN thread' = [thread EXCEPT ![t].has = has, ![t].pc = IF all THEN "in" ELSE @]
  /\ UNCHANGED <<setup, files, grp, made, busy, boot, fired, history>>

-----------------------------------------------------------------------------
(* Commands follow the pointers, and look again once they hold the lock.    *)

(* Mutant: the key resolved before the lock is the one that is used.        *)
PinsStale(t, k) == IF t = "cli" THEN "act" ELSE "look"
(* Another key, the command's own group, or where the command goes on.      *)
Pins(t, k) ==
  IF ResolveMoved(k) # k THEN "known"
  ELSE IF t = "cli" THEN "act" ELSE IF grp[k] = thread[t].to THEN "idle" ELSE "look"

Pinned(t) ==
  /\ t \in OutsideDaemon /\ At(t, "in")
  /\ LET k == thread[t].key pc == Pins(t, k) IN
     thread' = [thread EXCEPT ![t] =
       CASE pc = "idle" -> Idle
         [] pc = "known" -> [@ EXCEPT !.pc = pc, !.key = ResolveMoved(k), !.has = {}]
         [] OTHER -> [@ EXCEPT !.pc = pc]]
  /\ UNCHANGED <<setup, files, grp, made, busy, boot, fired, history>>

(* `tg-bridge move`: publish a request, then wait for its result.           *)
OperatorAsks(o) ==
  /\ At(o, "idle") /\ Spend("moves")
  /\ \E k \in Keys, g \in Groups :
       /\ reg[k] # NoEntry /\ grp[ResolveMoved(k)] # g
       /\ thread' = [thread EXCEPT ![o] =
            [Idle EXCEPT !.pc = "known", !.key = ResolveMoved(k), !.to = g]]
  /\ UNCHANGED <<files, grp, made, busy, boot, fired, history>>

Waits(o) == thread' = [thread EXCEPT ![o].pc = "wait", ![o].has = {}]

OperatorLooks(o) ==
  /\ At(o, "look")
  /\ LET r == req[thread[o].key] IN
     CASE r.state = "none" -> Goes(o, "link")
       [] r.state = "done" -> Goes(o, "clear")
       [] OTHER -> IF r.to = thread[o].to THEN Waits(o) ELSE Leaves(o)
  /\ UNCHANGED <<setup, files, grp, made, busy, boot, fired, history>>

(* Only a finished request was seen here, but the file is not looked at     *)
(* again: another operator's new request goes as well.                      *)
OperatorClears(o) ==
  /\ At(o, "clear")
  /\ LET k == thread[o].key IN
     IF req[k] = NoReq THEN Leaves(o) /\ UNCHANGED req
     ELSE req' = [req EXCEPT ![k] = NoReq] /\ Goes(o, "link")
  /\ UNCHANGED <<setup, reg, dir, rec, grp, made, busy, boot, fired, history>>

(* The link is exclusive. A request that appeared before the second look is *)
(* waited for, one that appeared after it refuses the command.              *)
OperatorLinks(o) ==
  /\ At(o, "link")
  /\ LET k == thread[o].key IN
     \/ /\ req[k] = NoReq /\ Waits(o)
        /\ req' = [req EXCEPT ![k] = [state |-> "pending", to |-> thread[o].to, res |-> 0]]
        /\ calls' = [calls EXCEPT ![k] = 0]
     \/ req[k] # NoReq /\ (Waits(o) \/ Leaves(o)) /\ UNCHANGED <<req, calls>>
  /\ UNCHANGED <<setup, reg, dir, rec, grp, made, busy, boot, fired, accepted, fires, harm>>

(* Mutant: whatever is done in the file is taken for the answer.            *)
AnswersAny(o, r) == r.state = "done" /\ r.res # 0
Answers(o, r) == r.to = thread[o].to /\ r.state = "done" /\ r.res # 0

OperatorSees(o) ==
  /\ At(o, "wait")
  /\ LET r == req[thread[o].key] IN
     \/ Answers(o, r) /\ thread' = [thread EXCEPT ![o].pc = "told", ![o].n = r.res]
     \/ ~Answers(o, r) /\ (r = NoReq \/ r.to # thread[o].to \/ r.state = "done") /\ Leaves(o)
  /\ UNCHANGED <<setup, files, grp, made, busy, boot, fired, history>>

(* The deadline passed, or the new key was printed.                         *)
OperatorEnds(o) ==
  /\ thread[o].pc \in {"wait", "told"} /\ Leaves(o)
  /\ UNCHANGED <<setup, files, grp, made, busy, boot, fired, history>>

-----------------------------------------------------------------------------
(* The lifecycle loop executes a request.                                   *)
life == thread["life"]
Fault == Spend("faults")

PickRequest(k) ==
  /\ At("life", "idle") /\ req[k].state = "pending" /\ reg[k] # NoEntry
  /\ thread' = [thread EXCEPT !["life"] =
       [Idle EXCEPT !.pc = "picked", !.key = k, !.to = req[k].to]]
  /\ UNCHANGED <<setup, files, grp, made, busy, boot, fired, history>>

(* Whatever is in the file by now is replaced. A request that was put in    *)
(* the place of the one that moved the session is executed on the pointer.  *)
StartRequest ==
  /\ At("life", "picked")
  /\ \/ /\ req' = [req EXCEPT ![life.key] = [state |-> "running", to |-> life.to, res |-> 0]]
        /\ harm' = IF Moved(life.key) THEN harm \cup {"pointer"} ELSE harm
        /\ Goes("life", "moving") /\ UNCHANGED setup
     \/ Fault /\ Leaves("life") /\ UNCHANGED <<req, harm>>
  /\ UNCHANGED <<reg, dir, rec, grp, made, busy, boot, fired, accepted, calls, fires>>

Refuse == thread' = [thread EXCEPT !["life"].pc = "result", !["life"].has = {}, !["life"].n = 0]

InFlight ==
  /\ At("life", "moving") /\ Missing("life") = "topic" /\ ~Free("life", "topic") /\ Refuse
  /\ UNCHANGED <<setup, files, grp, made, busy, boot, fired, history>>

Movable(k) == Session(k) /\ \A b \in busy : b.key # k

CheckMove ==
  /\ At("life", "in") /\ \A t \in Threads : ~Holds(t, "pending")
  /\ IF Movable(life.key) /\ grp[life.key] # life.to THEN Goes("life", "create") ELSE Refuse
  /\ UNCHANGED <<setup, files, grp, made, busy, boot, fired, history>>

(* The call may fail, and a topic may exist all the same. It is counted for *)
(* the request that is executed, unless another one has taken its place.    *)
Creates == made' = made + 1 /\ grp' = [grp EXCEPT ![made + 1] = life.to]
CreateTopic ==
  /\ At("life", "create") /\ made < MaxKey
  /\ calls' = IF req[life.key].state = "running" THEN [calls EXCEPT ![life.key] = @ + 1] ELSE calls
  /\ \/ /\ Creates /\ UNCHANGED setup
        /\ thread' = [thread EXCEPT !["life"].pc = "transfer", !["life"].n = made + 1]
     \/ Fault /\ Refuse /\ (Creates \/ UNCHANGED <<grp, made>>)
  /\ UNCHANGED <<files, busy, boot, fired, accepted, fires, harm>>

(* Under the registry's lock: the folder, its alias, the two entries.       *)
Fresh(k) == reg[k] = NoEntry /\ dir[k] = NoDir

RenameFolder ==
  /\ At("life", "transfer")
  /\ \/ /\ Session(life.key) /\ Fresh(life.n) /\ UNCHANGED setup
        /\ dir' = [dir EXCEPT ![life.n] = IF dir[life.key] = NoDir THEN Folder({}) ELSE dir[life.key],
                              ![life.key] = NoDir]
        /\ Goes("life", "alias")
     \/ /\ IF Session(life.key) /\ Fresh(life.n) THEN Fault ELSE UNCHANGED setup
        /\ Goes("life", "delete") /\ UNCHANGED dir
  /\ UNCHANGED <<reg, req, rec, grp, made, busy, boot, fired, history>>

AliasFolder ==
  /\ At("life", "alias")
  /\ \/ /\ dir[life.key] = NoDir /\ UNCHANGED setup
        /\ dir' = [dir EXCEPT ![life.key] = Link(life.n)] /\ Goes("life", "save")
     \/ dir[life.key] # NoDir /\ Goes("life", "putback") /\ UNCHANGED <<dir, setup>>
     \/ Fault /\ Goes("life", "putback") /\ UNCHANGED dir
  /\ UNCHANGED <<reg, req, rec, grp, made, busy, boot, fired, history>>

(* Mutant: the old entry stays as it was.                                   *)
TombstoneForgotten(k) == reg[life.key]
Tombstone(k) == [is |-> "moved", to |-> k, owed |-> FALSE]

SaveRegistry ==
  /\ At("life", "save")
  /\ \/ /\ reg' = [reg EXCEPT ![life.n] = reg[life.key], ![life.key] = Tombstone(life.n)]
        /\ Goes("life", "record") /\ UNCHANGED setup
     \/ Fault /\ Goes("life", "unalias") /\ UNCHANGED reg
  /\ UNCHANGED <<dir, req, rec, grp, made, busy, boot, fired, history>>

(* Undoing what was done, then the topic that was made for nothing.  The    *)
(* rollback's own unlink and rename (1165-1167) do not fail here: this      *)
(* would be a second failure.                                               *)
UnlinkAlias ==
  /\ At("life", "unalias") /\ Goes("life", "putback")
  /\ dir' = [dir EXCEPT ![life.key] = NoDir]
  /\ UNCHANGED <<setup, reg, req, rec, grp, made, busy, boot, fired, history>>

(* A rename replaces an empty folder that appeared meanwhile.               *)
(* Mutant: only the alias is undone.                                        *)
PutBackNothing ==
  /\ At("life", "putback") /\ Goes("life", "delete")
  /\ UNCHANGED <<setup, files, grp, made, busy, boot, fired, history>>
PutBack ==
  /\ At("life", "putback") /\ Goes("life", "delete")
  /\ dir' = IF dir[life.key].box # {} THEN dir
            ELSE [dir EXCEPT ![life.key] = dir[life.n], ![life.n] = NoDir]
  /\ UNCHANGED <<setup, reg, req, rec, grp, made, busy, boot, fired, history>>

DeleteTopic ==
  /\ At("life", "delete") /\ Refuse
  /\ \/ grp' = [grp EXCEPT ![life.n] = "-"] /\ UNCHANGED setup
     \/ Fault /\ UNCHANGED grp
  /\ UNCHANGED <<files, made, busy, boot, fired, history>>

(* After the cutover nothing is undone: what fails is a warning.            *)
MoveRecord ==
  /\ At("life", "record") /\ Goes("life", "notices")
  /\ \/ /\ rec' = IF life.key \in rec THEN (rec \ {life.key}) \cup {life.n} ELSE rec
        /\ UNCHANGED <<setup, harm>>
     \/ life.key \in rec /\ Fault /\ harm' = harm \cup {"left"} /\ UNCHANGED rec
  /\ UNCHANGED <<reg, dir, req, grp, made, busy, boot, fired, accepted, calls, fires>>

(* The notices in both topics and the close of the old one may all fail.    *)
Notices ==
  /\ At("life", "notices")
  /\ thread' = [thread EXCEPT !["life"].pc = "result", !["life"].has = {}]
  /\ UNCHANGED <<setup, files, grp, made, busy, boot, fired, history>>

WriteResult ==
  /\ At("life", "result") /\ Leaves("life")
  /\ \/ /\ req' = [req EXCEPT ![life.key] = [state |-> "done", to |-> life.to, res |-> life.n]]
        /\ UNCHANGED <<setup, harm>>
     \/ Fault /\ harm' = harm \cup {"stuck"} /\ UNCHANGED req
  /\ UNCHANGED <<reg, dir, rec, grp, made, busy, boot, fired, accepted, calls, fires>>

MoveSteps ==
  \/ \E k \in Keys : PickRequest(k)
  \/ StartRequest \/ InFlight \/ CheckMove \/ CreateTopic
  \/ RenameFolder \/ AliasFolder \/ SaveRegistry
  \/ UnlinkAlias \/ PutBack \/ DeleteTopic
  \/ MoveRecord \/ Notices \/ WriteResult

-----------------------------------------------------------------------------
(* A crash, and the report on moves that were running.                      *)
Crash ==
  /\ ~boot /\ Spend("crashes") /\ boot' = TRUE
  /\ harm' = harm \cup (IF life.pc \in {"alias", "putback"} THEN {"torn"} ELSE {})
                  \cup (IF life.pc = "record" /\ life.key \in rec THEN {"left"} ELSE {})
  /\ thread' = [t \in Threads |-> IF t \in OutsideDaemon THEN thread[t] ELSE Idle]
  /\ busy' = {b \in busy : b.kind = "question"}
  /\ UNCHANGED <<files, grp, made, fired, accepted, calls, fires>>

(* Mutant: an interrupted move is tried again.                              *)
ReportedAgain(k) == [req[k] EXCEPT !.state = "pending"]
Reported(k) == [req[k] EXCEPT !.state = "done", !.res = reg[k].to]

Restart ==
  /\ boot /\ boot' = FALSE
  /\ LET running == {k \in Keys : req[k].state = "running"} IN
     \/ /\ req' = [k \in Keys |-> IF k \in running THEN Reported(k) ELSE req[k]]
        /\ harm' = harm \ {"stuck"} /\ UNCHANGED setup
     \/ /\ running # {} /\ Fault /\ harm' = harm \cup {"stuck"} /\ UNCHANGED req
  /\ UNCHANGED <<reg, dir, rec, grp, made, thread, busy, fired, accepted, calls, fires>>

-----------------------------------------------------------------------------
(* The operations the move is fenced from.                                  *)
Busy(kind, k) == [kind |-> kind, key |-> k]
Enqueue(k, m) ==
  /\ dir' = [dir EXCEPT ![Real(k)] = Folder(@.box \cup {m})]
  /\ accepted' = accepted \cup {m}

(* The owner writes in a topic, the old one included.                       *)
PollerTakes(p) ==
  /\ At(p, "idle") /\ Spend("messages")
  /\ \E k \in Keys :
       /\ grp[k] = p
       /\ thread' = [thread EXCEPT ![p] =
            [Idle EXCEPT !.pc = IF reg[k] = NoEntry THEN "unknown" ELSE "known",
                         !.key = k, !.n = setup["messages"]]]
  /\ UNCHANGED <<files, grp, made, busy, boot, fired, history>>

(* A message in the old topic gets a pointer, and nothing else happens.     *)
PollerLooks(p) ==
  /\ p \in Groups /\ At(p, "in")
  /\ CASE Moved(thread[p].key) -> Leaves(p)
       [] Session(thread[p].key) -> Goes(p, "act")
       [] OTHER -> Goes(p, "stray") \/ Goes(p, "command")
  /\ UNCHANGED <<setup, files, grp, made, busy, boot, fired, history>>

(* Into the inbox, or against a carry-forward, which it halts.              *)
PollerActs(p) ==
  /\ p \in Groups /\ At(p, "act")
  /\ LET k == thread[p].key cf == Busy("carryforward", k) IN
     IF cf \in busy
     THEN /\ busy' = busy \ {cf}
          /\ thread' = [thread EXCEPT ![p] = Idle,
               !["halt"] = IF @ = Idle /\ thread["flow"].pc = "act" THEN [Idle EXCEPT !.pc = "act", !.key = k] ELSE @]
          /\ UNCHANGED <<dir, accepted>>
     ELSE /\ Enqueue(k, thread[p].n) /\ UNCHANGED busy
          /\ thread' = [thread EXCEPT ![p] = Idle,
               !["timer"] = IF @ = Idle THEN [Idle EXCEPT !.pc = "known", !.key = k] ELSE @]
  /\ UNCHANGED <<setup, reg, req, rec, grp, made, boot, fired, calls, fires, harm>>

(* An unregistered topic: the message is kept as a dead letter, or is a     *)
(* command that works on the session's topic, under that topic's lock.      *)
PollerStrays(p) ==
  /\ p \in Groups /\ At(p, "stray") /\ Leaves(p)
  /\ LET r == Real(thread[p].key)
     IN dir' = [dir EXCEPT ![r] = Folder(@.box \cup {thread[p].n})]
  /\ UNCHANGED <<setup, reg, req, rec, grp, made, busy, boot, fired, history>>

PollerCommands(p) ==
  /\ p \in Groups /\ At(p, "command") /\ Leaves(p)
  /\ \A k \in Keys : Session(k) => ~Fenced(k)
  /\ UNCHANGED <<setup, files, grp, made, busy, boot, fired, history>>

(* The owner makes a topic by hand.                                         *)
OwnerCreates ==
  /\ Spend("topics") /\ made < MaxKey /\ made' = made + 1
  /\ \E g \in Groups : grp' = [grp EXCEPT ![made + 1] = g]
  /\ UNCHANGED <<files, thread, busy, boot, fired, history>>

(* A decorated operation: the binding it was started for, or nothing.       *)
WorkerLooks(t) ==
  /\ t \in {"timer", "warn", "flow"} /\ At(t, "in")
  /\ IF Moved(thread[t].key)
     THEN /\ UNCHANGED rec
          /\ thread' = [thread EXCEPT ![t] =
               IF t = "warn" THEN [@ EXCEPT !.pc = "publish", !.has = {}] ELSE Idle]
          /\ busy' = IF t = "flow" THEN busy \ {Busy("reviving", thread[t].key)} ELSE busy
     ELSE /\ Goes(t, "act") /\ UNCHANGED busy
          /\ rec' = IF t = "flow" /\ thread[t].n = 1 THEN rec \cup {thread[t].key} ELSE rec
  /\ UNCHANGED <<setup, reg, dir, req, grp, made, boot, fired, history>>

NudgeActs ==
  /\ At("timer", "act") /\ Leaves("timer")
  /\ UNCHANGED <<setup, files, grp, made, busy, boot, fired, history>>

(* `tg-bridge notify`: the record goes into the inbox it pinned.            *)
NotifyAsks ==
  /\ At("cli", "idle") /\ Spend("notifies")
  /\ \E k \in Keys : reg[k] # NoEntry /\ Enters("cli", "known", ResolveMoved(k))
  /\ UNCHANGED <<files, grp, made, busy, boot, fired, history>>
NotifyActs ==
  /\ At("cli", "act") /\ Leaves("cli") /\ Enqueue(thread["cli"].key, 100 + setup["notifies"])
  /\ UNCHANGED <<setup, reg, req, rec, grp, made, busy, boot, fired, calls, fires, harm>>

(* The idle sweep counts a backlog without the lock; the path it asks for   *)
(* is made if it is not there.                                              *)
SweepCounts(k) ==
  /\ ~boot /\ Session(k) /\ dir[k] = NoDir /\ Spend("sweeps")
  /\ dir' = [dir EXCEPT ![k] = Folder({})]
  /\ UNCHANGED <<reg, req, rec, grp, made, thread, busy, boot, fired, history>>

(* A question, a revive or a carry-forward begins, under the lock; its own  *)
(* thread takes the lock again.                                             *)
Launch(kind, k) ==
  /\ busy = {} /\ thread["flow"] = Idle
  /\ busy' = {Busy(kind, k)}
StartWork(kind, k) ==
  /\ ~boot /\ Session(k) /\ ~Fenced(k) /\ Spend("works") /\ Launch(kind, k)
  /\ IF kind = "question" THEN UNCHANGED thread
     ELSE thread' = [thread EXCEPT !["flow"] =
            [Idle EXCEPT !.pc = "known", !.key = k, !.n = IF kind = "reviving" THEN 0 ELSE 1]]
  /\ UNCHANGED <<files, grp, made, boot, fired, history>>

(* A carry-forward compacts, or leaves its record for a retry.              *)
WorkEnds ==
  /\ At("flow", "act") /\ Leaves("flow")
  /\ busy' = {b \in busy : b.key # thread["flow"].key \/ b.kind = "question"}
  /\ rec' \in (IF thread["flow"].n = 1 THEN {rec, rec \ {thread["flow"].key}} ELSE {rec})
  /\ UNCHANGED <<setup, reg, dir, req, grp, made, boot, fired, history>>

(* After a halt the session goes back to its own model, or a debt is left   *)
(* on the registry entry. No lock, and the run's flag is already gone.      *)
HaltEnds ==
  /\ At("halt", "act") /\ Leaves("halt")
  /\ \/ UNCHANGED reg
     \/ RegistryFree /\ reg' = [reg EXCEPT ![thread["halt"].key].owed = TRUE]
  /\ UNCHANGED <<setup, dir, req, rec, grp, made, busy, boot, fired, history>>

(* A tap on the question's buttons.                                         *)
TapTakes ==
  /\ At("tap", "idle") /\ Spend("taps")
  /\ \E k \in Keys : grp[k] \in Groups /\ Enters("tap", "tapping", k)
  /\ UNCHANGED <<files, grp, made, busy, boot, fired, history>>
TapActs ==
  /\ At("tap", "in")
  /\ LET k == thread["tap"].key IN
     IF Busy("question", k) \in busy /\ thread["flow"] = Idle
     THEN /\ busy' = {Busy("reviving", k)}
          /\ thread' = [thread EXCEPT !["tap"] = Idle, !["flow"] = [Idle EXCEPT !.pc = "known", !.key = k]]
     ELSE Leaves("tap") /\ UNCHANGED busy
  /\ UNCHANGED <<setup, files, grp, made, boot, fired, history>>

-----------------------------------------------------------------------------
(* The warning loop: its table follows the session, at the start of a tick  *)
(* and before the table is saved.                                           *)

(* Mutant: the table keeps the retired key.                                 *)
StayedTable == fired
FollowedTable == {ResolveMoved(k) : k \in fired}

WarnReads ==
  /\ At("warn", "idle") /\ Spend("warns")
  /\ \E k \in Keys : Session(k) /\ Enters("warn", "known", k)
  /\ fired' = FollowedTable
  /\ UNCHANGED <<files, grp, made, busy, boot, history>>

(* At the threshold: once, and again when a run never got to its end and    *)
(* its record is old enough; a younger one holds the topic armed.           *)
WarnActs ==
  /\ At("warn", "act")
  /\ LET k == thread["warn"].key active == Busy("carryforward", k) \in busy IN
     \E retry \in {FALSE, (k \in rec /\ ~active)} :
       LET armed == ~retry /\ k \in fired \cup rec IN
       IF active \/ armed \/ busy # {} \/ thread["flow"] # Idle
       THEN /\ thread' = [thread EXCEPT !["warn"].pc = "publish", !["warn"].has = {}]
            /\ fired' = IF armed /\ ~active THEN fired \cup {k} ELSE fired
            /\ UNCHANGED <<rec, busy, fires>>
       ELSE /\ Launch("carryforward", k)
            /\ rec' = rec \ {k} /\ fired' = fired \cup {k}
            /\ fires' = IF retry THEN fires ELSE fires + 1
            /\ thread' = [thread EXCEPT !["warn"].pc = "publish", !["warn"].has = {},
                 !["flow"] = [Idle EXCEPT !.pc = "known", !.key = k, !.n = 1]]
  /\ UNCHANGED <<setup, reg, dir, req, grp, made, boot, accepted, calls, harm>>

WarnPublishes ==
  /\ At("warn", "publish") /\ Leaves("warn") /\ fired' = FollowedTable
  /\ UNCHANGED <<setup, files, grp, made, busy, boot, history>>

-----------------------------------------------------------------------------
OperatorContinues(o) ==
  \/ OperatorLooks(o) \/ OperatorClears(o) \/ OperatorLinks(o) \/ OperatorSees(o) \/ OperatorEnds(o)
PollerContinues(p) == PollerLooks(p) \/ PollerActs(p) \/ PollerStrays(p) \/ PollerCommands(p)

(* What a thread does once it was begun.                                    *)
Continues(t) ==
  \/ Locks(t) \/ Pinned(t) \/ WorkerLooks(t)
  \/ t \in Operators /\ OperatorContinues(t)
  \/ t \in Groups /\ PollerContinues(t)
  \/ t = "life" /\ MoveSteps
  \/ t = "tap" /\ TapActs
  \/ t = "timer" /\ NudgeActs
  \/ t = "warn" /\ (WarnActs \/ WarnPublishes)
  \/ t = "flow" /\ WorkEnds
  \/ t = "halt" /\ HaltEnds
  \/ t = "cli" /\ NotifyActs

Next ==
  \/ \E t \in Threads : Continues(t)
  \/ \E o \in Operators : OperatorAsks(o)
  \/ \E p \in Groups : PollerTakes(p)
  \/ OwnerCreates \/ NotifyAsks \/ TapTakes \/ WarnReads \/ Crash \/ Restart
  \/ \E k \in Keys : SweepCounts(k)
  \/ \E kind \in BusyKinds, k \in Keys : StartWork(kind, k)

Spec == Init /\ [][Next]_vars

(* What is begun goes on: a thread that is not waiting for a lock runs, and *)
(* a lock that is free is given to who waits. Nobody has to ask.            *)
Fairness == WF_vars(Restart) /\ \A t \in Threads : WF_vars(Continues(t))
FairSpec == Spec /\ Fairness

-----------------------------------------------------------------------------
(* Properties.                                                              *)

(* The types, and that a lock has one holder or only readers: the fence of  *)
(* daemon.py 1104 and common.py 234.                                        *)
TypeOK ==
  /\ reg \in [Keys -> [is : {"none", "session", "moved"}, to : 0..MaxKey, owed : BOOLEAN]]
  /\ dir \in [Keys -> [is : {"none", "real", "link"}, to : 0..MaxKey, box : SUBSET Nat]]
  /\ req \in [Keys -> [state : {"none", "pending", "running", "done"}, to : Groups, res : 0..MaxKey]]
  /\ grp \in [Keys -> Groups \cup {"-"}] /\ made \in Keys
  /\ \A t \in Threads : /\ thread[t].key \in 0..MaxKey /\ thread[t].to \in Groups
                        /\ thread[t].n \in Nat /\ DOMAIN thread[t] = DOMAIN Idle
  /\ busy \subseteq [kind : BusyKinds, key : Keys] /\ boot \in BOOLEAN
  /\ rec \subseteq Keys /\ fired \subseteq Keys /\ harm \subseteq {"torn", "stuck", "left", "pointer"}
  /\ \A l \in {"creation", "pending"} : Cardinality({t \in Threads : Holds(t, l)}) <= 1

(* The session has one home, and every key it ever had leads there through  *)
(* the pointers (1170-1172, resolve_moved_topic), whatever fails or crashes.*)
OneHome ==
  \E k \in Keys : /\ \A j \in Keys : Session(j) <=> j = k
                  /\ \A j \in Keys : Moved(j) => ResolveMoved(j) = k
(* What was put into the inbox is in the folder that the home's key names,  *)
(* and the folder's earlier names still lead to it (1160-1186). Excepted is *)
(* a daemon that dies between two system calls of the rename and its alias. *)
DataFollows ==
  ("torn" \notin harm /\ life.pc \notin {"alias", "putback"}) =>
    \A k \in Keys : Session(k) =>
      /\ accepted \subseteq dir[Real(k)].box
      /\ \A j \in Keys : Moved(j) => Real(j) = Real(k)

(* The session has one home and its data is there.                          *)
HomeKept == TypeOK /\ OneHome /\ DataFollows

(* No operation is at work on a topic that the session has left: not the    *)
(* command that resolved its key before the move, not the worker, timer or  *)
(* message that waited for the lock (4506, common.py 255 and 280).  The     *)
(* thread of a halt is excepted: it takes no topic lock and may still be at *)
(* work on the key it was given (9226; see MCTopicMove_Tombstones).         *)
OperationsAtHome ==
  \A t \in Threads \ {"halt"} :
    thread[t].pc \in {"act", "look", "clear", "link"} => Session(thread[t].key)

(* A question, revive or carry-forward that stands refuses the move (1118-  *)
(* 1129): it is never left behind on the old key.                           *)
WorkStaysHome == \A b \in busy : Session(b.key)

(* The owner's messages in the topic being created wait for the cutover and *)
(* never take its folder (4497-4506, 1157).                                 *)
DestinationFresh == life.pc = "transfer" => Fresh(life.n)

(* The locks keep a move apart from everything else done in either topic,   *)
(* the thread of a halt apart.                                              *)
KeptApart == OperationsAtHome /\ WorkStaysHome /\ DestinationFresh

(* The result on file is what the registry says, after an interrupted move  *)
(* as well (1234-1258, 1294-1315). Excepted, here and below, is a request   *)
(* that was put in the place of the one that moved the session, and whose   *)
(* turn comes when that one's result was not written: it is executed on the *)
(* pointer, and refused or, after a restart, reported as moved.             *)
ReportTrue ==
  "pointer" \notin harm =>
    \A k \in Keys : req[k].state = "done" => req[k].res = reg[k].to

(* A new key is printed only to the operator whose target it is in (cli.py  *)
(* 326-334), though another command replaced the request meanwhile.         *)
ToldTruth ==
  "pointer" \notin harm =>
    \A o \in Operators : thread[o].pc = "told" =>
      reg[thread[o].key].to = thread[o].n /\ grp[thread[o].n] = thread[o].to

(* A request is executed once: it never makes a second topic, whatever      *)
(* interrupted it (1230, 1280).                                             *)
ExecutedOnce == \A k \in Keys : calls[k] <= 1

(* What the operators are told of a move is what became of it, once.        *)
ResultsTrue == ReportTrue /\ ToldTruth /\ ExecutedOnce

(* One episode fires one automatic carry-forward across moves, and the      *)
(* record of an unfinished run is at the session's key (3873, 1188-1194).   *)
EpisodeFollows ==
  /\ fires <= 1
  /\ ("left" \notin harm /\ life.pc # "record") => \A k \in rec : Session(k)

(* Once the bounds are spent, every thread has got through its locks and    *)
(* every request is answered (1104, 4502, 4816), unless its result could    *)
(* not be written.                                                          *)
Settled ==
  /\ \A t \in Threads : thread[t].pc = "idle"
  /\ \A k \in Keys : req[k].state \in {"none", "done"} \/ "stuck" \in harm
EverythingSettles == []<>Settled

(* SPECIFICATION.md 161: a moved source entry contains only `name` and      *)
(* `moved_to`. Violated by the thread of a halted carry-forward.            *)
TombstonesArePointers == \A k \in Keys : Moved(k) => ~reg[k].owed
=============================================================================
