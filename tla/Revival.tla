------------------------------ MODULE Revival ------------------------------
(***************************************************************************)
(* Bringing a dead session back, from the launch of its engine to the      *)
(* briefing that tells it so (daemon.py 6432-7422), for one topic.         *)
(*                                                                         *)
(* A revive is started by the restore when the daemon starts after a       *)
(* reboot, by the owner's message or answer, or by the operator's          *)
(* restore_cli, which is a process of its own.  It launches the engine,    *)
(* answers claude's resume picker or runs /compact in its place, binds the *)
(* topic to the pane, and briefs it: an attempt waits for the pane, types, *)
(* and stamps the entry, or ends in a timer for the next attempt, and the  *)
(* last one in a report to the owner.  What type_line does with a line is  *)
(* in PaneTyping, and how a model switch is typed in CarryForward: here a  *)
(* line is taken or not.  Parking has the races for the topic itself.      *)
(***************************************************************************)
EXTENDS Naturals, FiniteSets

CONSTANTS
  Setups,      \* the engine, what a session may do, and the bounds
  Attempts,    \* BRIEFING_MAX_ATTEMPTS
  MaxRevives,  \* bound: revives
  MaxBoot      \* bound: the number of the last boot

Choices == {"none", "compact", "full"}
Setup ==
  [engine : {"claude", "codex"}, picker : BOOLEAN, switch : BOOLEAN, began : SUBSET (0..2),
   choices : SUBSET Choices, revives : Nat, operators : Nat, faults : Nat, hands : Nat,
   deaths : Nat, crashes : Nat, reboots : Nat, turns : Nat]

ASSUME RevivalAssumption ==
  /\ {Attempts, MaxRevives} \subseteq Nat \ {0} /\ MaxBoot \in Nat \ {0, 1}
  /\ Setups \subseteq Setup

VARIABLES
  setup,     \* what is left of each bound
  boot,      \* the kernel's boot id, and the one in boot.json
  daemon,    \* down, restoring (before any loop), or up
  entry,     \* the registry entry: pane, end, stamp of the briefing, debt of the model
  pane,      \* the panes, the first of which had the session before
  said,      \* the model of the transcript's newest reply
  listening, \* the pane whose session runs `tg-bridge recv`
  rev,       \* the revives, each with its briefing
  told,      \* what the owner was told of which pane (history)
  heard,     \* the panes whose session has listened (history)
  lapse      \* what went wrong that nothing here makes good (history)

vars == <<setup, boot, daemon, entry, pane, said, listening, rev, told, heard, lapse>>

Revs == 1..MaxRevives
NoPane == 0
Panes == 1..(MaxRevives + 1)
Up == {"loading", "picker", "idle", "gap", "compacting", "busy"}
Pane == [st : Up \cup {"none", "dead"}, name : {"base", "suffix", "other"}, cheap : BOOLEAN,
         briefed : BOOLEAN, did : SUBSET {"compact", "full"}]
Ahead == {"find", "engine", "launch", "gate", "live", "answer", "key", "quiet", "switch",
          "unswitch", "inject", "start?", "unwind", "report", "bind"}
Briefing == {"brief", "restore", "look", "wait", "type", "stamp", "giveup"}
Revive ==
  [by : {"boot", "owner", "cli"}, at : {"off", "over", "bound", "timer"} \cup Ahead \cup Briefing,
   snap : Panes, stamped : BOOLEAN, owing : BOOLEAN, name : {"base", "suffix"},
   pane : {NoPane} \cup Panes, spawned : BOOLEAN, choice : Choices, auto : BOOLEAN,
   outcome : {"none", "absent", "answered", "failed", "injected", "refused", "unable"},
   plan : {"none", "made", "undone", "due"}, await : BOOLEAN, try : 1..Attempts,
   ready : BOOLEAN, notice : Choices, back : BOOLEAN]
NoRevive ==
  [by |-> "cli", at |-> "off", snap |-> 1, stamped |-> FALSE, owing |-> FALSE,
   name |-> "base", pane |-> NoPane, spawned |-> FALSE, choice |-> "none", auto |-> FALSE,
   outcome |-> "none", plan |-> "none",
   await |-> FALSE, try |-> 1, ready |-> FALSE, notice |-> "none", back |-> FALSE]
Things == {"choice", "unanswered", "model", "blocked", "failed"}
(* A report that could not be sent; a briefing cut short by a crash after   *)
(* the boot id is saved, or one the next restore does not repeat; one ended *)
(* by a call that raises; a plan lost with the memory or the revive that    *)
(* held it; a picker answered at the terminal; a revive that takes over the *)
(* pane another is at work on, or has just asked to compact; a pane taken   *)
(* over under another's stamp; a briefing left out because a session in     *)
(* another pane listens; a launch on the model of a reply that came in the  *)
(* middle of a switch; a debt of the topic paid for one pane while another  *)
(* is on the cheaper model.                                                 *)
Lapses == {"unsaid", "cut", "raised", "unplanned", "hand", "joined", "inherited", "elsewhere",
           "carried", "crossed"}

NewPane(st, name) == [st |-> st, name |-> name, cheap |-> FALSE, briefed |-> FALSE, did |-> {}]

(* Boot 2 runs.  The session's pane is dead, or alive where nothing but the *)
(* daemon has started anew; boot.json names this boot, the one before, or   *)
(* none.                                                                    *)
Init ==
  /\ setup \in Setups
  /\ boot \in [now : {2}, stored : setup.began]
  /\ daemon = "down"
  /\ entry = [pane |-> 1, ended |-> FALSE, briefed |-> 0, owed |-> FALSE]
  /\ \E st \in {"idle", "dead"} :
       /\ boot.stored = 1 => st = "dead"
       /\ pane = [p \in Panes |-> IF p = 1 THEN NewPane(st, "other") ELSE NewPane("none", "other")]
  /\ said = "own" /\ listening = NoPane
  /\ rev = [r \in Revs |-> NoRevive]
  /\ told = {} /\ heard = {} /\ lapse = {}

---------------------------------------------------------------------------
Spend(b) == setup[b] > 0 /\ setup' = [setup EXCEPT ![b] = @ - 1]
Fault == Spend("faults")
Claude == setup.engine = "claude"
Mine(r) == pane[rev[r].pane]
Alive(p) == pane[p].st \in Up
Shows(r, st) == Mine(r).st = st
Go(r, place) == rev' = [rev EXCEPT ![r].at = place]
Ends(r) == Go(r, "over")
Decides(r, outcome, place) == rev' = [rev EXCEPT ![r].outcome = outcome, ![r].at = place]
Becomes(p, st) == pane' = [pane EXCEPT ![p].st = st]
Tell(r, what) == told' = told \cup {<<rev[r].pane, what>>}

(* reply(): the owner is told; or the topic is closed, or Telegram fails.   *)
Tells(r, what) ==
  \/ Tell(r, what) /\ UNCHANGED <<setup, lapse>>
  \/ Fault /\ lapse' = lapse \cup {"unsaid"} /\ UNCHANGED told

(* type_line as seen from here: a session at its prompt takes the line,     *)
(* unless the call is withheld; a modal or a screen that loads never does.  *)
Takes(r) == Shows(r, "idle") \/ Shows(r, "gap")
Refuses(r) == IF Takes(r) THEN Fault ELSE UNCHANGED setup

(* Which tmux session this revive will look for and launch (4907-4932).     *)
Holder(name) == {p \in Panes : Alive(p) /\ pane[p].name = name}
ReviveName(snap) == IF Holder("base") \subseteq {snap} THEN "base" ELSE "suffix"

---------------------------------------------------------------------------
(* Who starts a revive.                                                     *)
Fresh(by, choice) ==
  [NoRevive EXCEPT !.by = by, !.at = "find", !.snap = entry.pane, !.choice = choice,
                   !.stamped = (entry.briefed = boot.now), !.owing = entry.owed,
                   !.name = ReviveName(entry.pane),
                   !.ready = choice # "none"]
Begin(by, choice) ==
  \E r \in Revs : /\ rev[r].at = "off" /\ \A q \in 1..(r - 1) : rev[q].at # "off"
                  /\ rev' = [rev EXCEPT ![r] = Fresh(by, choice)]

(* _auto_reviving: one at a time, until revive_one and the attempt inside   *)
(* it return.                                                               *)
AutoReviving == \E r \in Revs : /\ rev[r].by = "owner" /\ rev[r].try = 1
                                /\ rev[r].at \in Ahead \cup Briefing
OwnerRevives ==
  /\ daemon = "up" /\ entry.ended /\ ~AutoReviving
  /\ Spend("revives")
  /\ \E choice \in IF Claude THEN setup.choices ELSE {"none"} : Begin("owner", choice)
  /\ UNCHANGED <<boot, daemon, entry, pane, said, listening, told, heard, lapse>>

(* restore_cli, for a session whose pane is gone.                           *)
OperatorRevives ==
  /\ ~Alive(entry.pane) /\ Spend("operators") /\ Begin("cli", "none")
  /\ UNCHANGED <<boot, daemon, entry, pane, said, listening, told, heard, lapse>>

(* restore_on_boot: what the two boot ids say has happened.                 *)
Target == ~entry.ended
RestoreDue == /\ Target
              /\ boot.stored # boot.now
              /\ boot.stored = 0 => ~Alive(entry.pane)
Start ==
  /\ daemon = "down"
  /\ IF RestoreDue
       THEN Begin("boot", "none") /\ daemon' = "restoring" /\ UNCHANGED boot
       ELSE boot' = [boot EXCEPT !.stored = boot.now] /\ daemon' = "up" /\ UNCHANGED rev
  /\ UNCHANGED <<setup, entry, pane, said, listening, told, heard, lapse>>

(* The boot id is saved when the sessions are up, before they are briefed   *)
(* on threads of their own; the summary names those that are not up.        *)
Restored == {r \in Revs : rev[r].by = "boot" /\ rev[r].at \notin {"off", "over"}}
NeedsBrief(r) == rev[r].spawned \/ Claude \/ ~rev[r].stamped
SaveBoot ==
  /\ daemon = "restoring" /\ \A r \in Restored : rev[r].at = "bound"
  /\ boot' = [boot EXCEPT !.stored = boot.now] /\ daemon' = "up"
  /\ rev' = [r \in Revs |-> IF r \in Restored
                              THEN [rev[r] EXCEPT !.at = IF NeedsBrief(r) THEN "brief" ELSE "over"]
                              ELSE rev[r]]
  /\ IF Restored = {}
       THEN \/ told' = told \cup {<<entry.pane, "failed">>} /\ UNCHANGED <<setup, lapse>>
            \/ Fault /\ lapse' = lapse \cup {"unsaid"} /\ UNCHANGED told
       ELSE UNCHANGED <<setup, told, lapse>>
  /\ UNCHANGED <<entry, pane, said, listening, heard>>

---------------------------------------------------------------------------
(* revive_one: the pane.  A live tmux session of the topic's name is taken  *)
(* over once its engine is seen in it.                                      *)
Find(r) ==
  /\ rev[r].at = "find"
  /\ IF Holder(rev[r].name) = {} THEN Go(r, "launch")
     ELSE \E p \in Holder(rev[r].name) : rev' = [rev EXCEPT ![r].pane = p, ![r].at = "engine"]
  /\ UNCHANGED <<setup, boot, daemon, entry, pane, said, listening, told, heard, lapse>>

CheckEngine(r) ==
  /\ rev[r].at = "engine"
  /\ \/ /\ Alive(rev[r].pane) /\ Go(r, "bind") /\ UNCHANGED setup
        /\ lapse' = IF \/ \E q \in Revs \ {r} : rev[q].pane = rev[r].pane /\ rev[q].at # "over"
                       \/ Shows(r, "gap")
                      THEN lapse \cup {"joined"} ELSE lapse
     \/ (IF Alive(rev[r].pane) THEN Fault ELSE UNCHANGED setup) /\ Ends(r) /\ UNCHANGED lapse
  /\ UNCHANGED <<boot, daemon, entry, pane, said, listening, told, heard>>

(* The model: the pair the topic was owed, until the transcript shows it    *)
(* was paid; else what the newest reply ran on, the cheaper model included. *)
Pays(p) == IF entry.owed /\ \E q \in Panes \ {p} : Alive(q) /\ pane[q].cheap
             THEN {"crossed"} ELSE {}
Paid(r) == rev[r].owing /\ said = "own"
CarriesOn(r) == Claude /\ said = "cheap" /\ ~rev[r].owing
Launch(r) ==
  /\ rev[r].at = "launch"
  /\ \/ /\ Holder(rev[r].name) = {} /\ UNCHANGED setup
        /\ \E p \in Panes :
             /\ pane[p].st = "none" /\ \A q \in 1..(p - 1) : pane[q].st # "none"
             /\ pane' = [pane EXCEPT ![p] =
                          [NewPane("loading", rev[r].name) EXCEPT !.cheap = CarriesOn(r)]]
             /\ rev' = [rev EXCEPT ![r].pane = p, ![r].spawned = TRUE,
                                   ![r].at = IF Claude THEN "gate" ELSE "bind"]
             /\ lapse' = lapse \cup (IF CarriesOn(r) THEN {"carried"} ELSE {})
                               \cup (IF Paid(r) THEN Pays(p) ELSE {})
        /\ entry' = [entry EXCEPT !.owed = @ /\ ~Paid(r)]
     \/ /\ IF Holder(rev[r].name) = {} THEN Fault ELSE UNCHANGED setup
        /\ Ends(r) /\ UNCHANGED <<entry, pane, lapse>>
  /\ UNCHANGED <<boot, daemon, said, listening, told, heard>>

---------------------------------------------------------------------------
(* revive_one: the resume picker.                                           *)

(* A restore chooses `compact` for a large session while its budget lasts,  *)
(* which may be over before the first look; without a choice the screen is  *)
(* watched for a while, and a picker that does come up is answered          *)
(* `compact`.                                                               *)
Gate(r) ==
  /\ rev[r].at = "gate"
  /\ \/ /\ rev[r].by = "boot" /\ setup.picker
        /\ \E at \in {"answer", "quiet"} :
             rev' = [rev EXCEPT ![r].choice = "compact", ![r].auto = TRUE, ![r].at = at,
                                ![r].outcome = IF at = "quiet" THEN "absent" ELSE "none"]
     \/ Go(r, IF rev[r].choice = "none" THEN "live" ELSE "answer")
  /\ UNCHANGED <<setup, boot, daemon, entry, pane, said, listening, told, heard, lapse>>

LivePicker(r) ==
  /\ rev[r].at = "live"
  /\ \/ /\ Shows(r, "picker")
        /\ rev' = [rev EXCEPT ![r].choice = "compact", ![r].auto = TRUE, ![r].at = "answer"]
     \/ ~Shows(r, "picker") /\ Decides(r, "absent", "bind")
  /\ UNCHANGED <<setup, boot, daemon, entry, pane, said, listening, told, heard, lapse>>

(* answer_resume_picker: the picker is seen once more under the pane's      *)
(* lock; or claude's prompt, or no picker until the deadline.               *)
Answer(r) ==
  /\ rev[r].at = "answer"
  /\ \/ Shows(r, "picker") /\ Go(r, "key") /\ UNCHANGED setup
     \/ /\ ~Shows(r, "picker") /\ UNCHANGED setup
        /\ Decides(r, "absent", IF rev[r].choice = "compact" THEN "quiet" ELSE "bind")
     \/ Fault /\ Decides(r, "failed", "report")
  /\ UNCHANGED <<boot, daemon, entry, pane, said, listening, told, heard, lapse>>

(* The row's key and Enter.  What the picker does with them; a picker that  *)
(* was answered by hand meanwhile leaves them to the session's prompt.      *)
Chosen(p, choice) == [pane EXCEPT ![p].st = IF choice = "compact" THEN "gap" ELSE "idle",
                                  ![p].did = @ \cup {choice}]
Key(r) ==
  /\ rev[r].at = "key"
  /\ \/ /\ Decides(r, "answered", "bind") /\ UNCHANGED setup
        /\ IF Shows(r, "picker") THEN pane' = Chosen(rev[r].pane, rev[r].choice)
           ELSE IF Takes(r) THEN Becomes(rev[r].pane, "busy") ELSE UNCHANGED pane
        /\ lapse' = IF Shows(r, "picker") THEN lapse ELSE lapse \cup {"hand"}
     \/ /\ IF Alive(rev[r].pane) THEN Fault ELSE UNCHANGED setup
        /\ Decides(r, "failed", "report") /\ UNCHANGED <<pane, lapse>>
  /\ UNCHANGED <<boot, daemon, entry, said, listening, told, heard>>

---------------------------------------------------------------------------
(* _compact_after_absent_picker: /compact in place of the picker, on a      *)
(* quiet pane; a plan moves the session to the cheaper model first.         *)
Quiet(r) ==
  /\ rev[r].at = "quiet"
  /\ \/ /\ Mine(r).st \in {"loading", "picker", "idle", "gap"}
        /\ \/ Go(r, "inject")
           \/ /\ setup.switch /\ ~Mine(r).cheap
              /\ rev' = [rev EXCEPT ![r].plan = "made", ![r].at = "switch"]
     \/ Mine(r).st \in {"busy", "compacting", "dead"} /\ Decides(r, "unable", "report")
  /\ UNCHANGED <<setup, boot, daemon, entry, pane, said, listening, told, heard, lapse>>

(* A failed line may have been taken all the same.                          *)
Switch(r) ==
  /\ rev[r].at = "switch"
  /\ \/ /\ Takes(r) /\ Go(r, "inject") /\ UNCHANGED setup
        /\ pane' = [pane EXCEPT ![rev[r].pane].cheap = TRUE]
     \/ /\ Refuses(r) /\ Go(r, "unswitch")
        /\ \E cheap \in {FALSE, Takes(r)} : pane' = [pane EXCEPT ![rev[r].pane].cheap = cheap]
  /\ UNCHANGED <<boot, daemon, entry, said, listening, told, heard, lapse>>

(* restore_after_compaction, in its three outcomes: a confirmed switch back *)
(* pays the debt, a failed one records it, and one that loses its pane does *)
(* neither.                                                                 *)
SwitchedBack(r) ==
  /\ Takes(r)
  /\ pane' = [pane EXCEPT ![rev[r].pane].cheap = FALSE]
  /\ entry' = [entry EXCEPT !.owed = FALSE]
  /\ lapse' = lapse \cup Pays(rev[r].pane)
  /\ UNCHANGED setup
(* Mutant: the switch back fails and the debt is not recorded.              *)
NotOwed(r) ==
  /\ Refuses(r)
  /\ \E cheap \in {Mine(r).cheap, Mine(r).cheap /\ ~Takes(r)} :
       pane' = [pane EXCEPT ![rev[r].pane].cheap = cheap]
  /\ UNCHANGED <<entry, lapse>>
NotSwitchedBack(r) ==
  /\ Refuses(r)
  /\ \E cheap \in {Mine(r).cheap, Mine(r).cheap /\ ~Takes(r)} :
       pane' = [pane EXCEPT ![rev[r].pane].cheap = cheap]
  /\ entry' = [entry EXCEPT !.owed = TRUE]
  /\ UNCHANGED lapse
PaneLost(r) == Shows(r, "dead") /\ UNCHANGED <<setup, entry, pane, lapse>>

(* Not confirmed: back to the session's own pair, and no compaction unless  *)
(* that is confirmed.                                                       *)
Unswitch(r) ==
  /\ rev[r].at = "unswitch"
  /\ \/ SwitchedBack(r) /\ rev' = [rev EXCEPT ![r].plan = "undone", ![r].at = "inject"]
     \/ /\ NotSwitchedBack(r) \/ PaneLost(r)
        /\ rev' = [rev EXCEPT ![r].plan = "none", ![r].outcome = "unable", ![r].at = "report"]
  /\ UNCHANGED <<boot, daemon, said, listening, told, heard>>

NotCompacting(r, outcome) ==
  Decides(r, outcome, IF rev[r].plan = "made" THEN "unwind" ELSE "report")

(* _inject_compact.                                                         *)
Inject(r) ==
  /\ rev[r].at = "inject"
  /\ \/ Takes(r) /\ Go(r, "start?") /\ UNCHANGED setup /\ Becomes(rev[r].pane, "gap")
     \/ Refuses(r) /\ NotCompacting(r, "unable") /\ UNCHANGED pane
  /\ UNCHANGED <<boot, daemon, entry, said, listening, told, heard, lapse>>

(* Compacting by the pane, refused by a hook, or neither in time.           *)
AwaitStart(r) ==
  /\ rev[r].at = "start?"
  /\ \/ Shows(r, "compacting") /\ Decides(r, "injected", "report") /\ UNCHANGED pane
     \/ Shows(r, "gap") /\ NotCompacting(r, "refused") /\ Becomes(rev[r].pane, "idle")
     \/ ~(Mine(r).st \in {"gap", "compacting"}) /\ NotCompacting(r, "unable") /\ UNCHANGED pane
  /\ UNCHANGED <<setup, boot, daemon, entry, said, listening, told, heard, lapse>>

Unwind(r) ==
  /\ rev[r].at = "unwind"
  /\ SwitchedBack(r) \/ NotSwitchedBack(r) \/ PaneLost(r)
  /\ rev' = [rev EXCEPT ![r].plan = "none", ![r].at = "report"]
  /\ UNCHANGED <<boot, daemon, said, listening, told, heard>>

---------------------------------------------------------------------------
(* revive_one: what the owner is told of the choice, and the bind.          *)
Warning(r) ==
  LET picker == Shows(r, "picker") IN
  CASE rev[r].outcome = "refused" -> "choice"
    [] rev[r].outcome = "unable" -> IF picker THEN "unanswered" ELSE "choice"
    [] rev[r].outcome = "failed" /\ ~rev[r].auto -> "choice"
    [] rev[r].outcome = "failed" /\ picker -> "unanswered"
    [] OTHER -> "none"

(* A reply that raises ends revive_one: the session is up and not bound,    *)
(* and a plan is lost with it.                                              *)
Forfeits(r) == IF rev[r].plan # "none" THEN lapse \cup {"unplanned"} ELSE lapse
Report(r) ==
  /\ rev[r].at = "report"
  /\ \/ /\ Go(r, "bind")
        /\ IF Warning(r) = "none" THEN UNCHANGED <<setup, told, lapse>> ELSE Tells(r, Warning(r))
     \/ /\ Warning(r) # "none" \/ (rev[r].outcome = "injected" /\ ~rev[r].ready)
        /\ Fault /\ Ends(r) /\ lapse' = Forfeits(r) /\ UNCHANGED told
  /\ UNCHANGED <<boot, daemon, entry, pane, said, listening, heard>>

(* The choice that was applied, for the notice, the batch line and the      *)
(* briefing's wait.                                                         *)
(* Mutant: the choice that was asked for.                                   *)
Requested(r) == rev[r].choice
Applied(r) == IF rev[r].outcome \in {"answered", "injected"} THEN rev[r].choice ELSE "none"

(* _bind.  The stamp belongs to a pane: a new one has none, and one that is *)
(* taken over keeps whatever stamp the topic has.                           *)
Bound(r) == [entry EXCEPT !.pane = rev[r].pane, !.ended = FALSE,
                          !.briefed = IF rev[r].spawned THEN 0 ELSE @]
Bind(r) ==
  /\ rev[r].at = "bind"
  /\ \/ /\ entry' = Bound(r) /\ UNCHANGED setup
        /\ lapse' = IF ~rev[r].spawned /\ rev[r].pane # entry.pane /\ entry.briefed = boot.now
                      THEN lapse \cup {"inherited"} ELSE lapse
        /\ rev' = [rev EXCEPT
             ![r].notice = Applied(r), ![r].await = Applied(r) = "compact",
             ![r].plan = IF rev[r].outcome = "injected" /\ @ # "none" THEN "due" ELSE "none",
             ![r].at = IF rev[r].by = "boot" THEN "bound"
                       ELSE IF NeedsBrief(r) THEN "brief" ELSE "over"]
     \/ Fault /\ Ends(r) /\ lapse' = Forfeits(r) /\ UNCHANGED entry
  /\ UNCHANGED <<boot, daemon, pane, said, listening, told, heard>>

---------------------------------------------------------------------------
(* deliver_briefing.                                                        *)

(* _briefing_still_ours: the topic is still at this pane; a codex session   *)
(* is not briefed twice in a boot, a claude session that listens not at all.*)
StillOurs(r) == /\ entry.pane = rev[r].pane
                /\ IF Claude THEN listening = NoPane ELSE entry.briefed # boot.now

(* Nothing more to do; a session that listens is back all the same.         *)
Abandon(r) ==
  rev' = [rev EXCEPT ![r].at = "over",
    ![r].back = /\ rev[r].ready /\ Claude /\ listening # NoPane
                /\ Alive(rev[r].pane) /\ entry.pane = rev[r].pane]
  /\ lapse' = IF Claude /\ entry.pane = rev[r].pane /\ listening # rev[r].pane
                THEN lapse \cup {"elsewhere"} ELSE lapse

(* _briefing_exhausted: nobody to brief; another attempt later; or, after   *)
(* the last, a report.  What the next attempt has to wait for, and to       *)
(* switch back, goes with it.  Early reports of a pane that swallows what   *)
(* is typed are left out: they are limited in rate and may not come.        *)
(* Mutant: the last attempt ends with nothing said (#172).                  *)
ExhaustedSilently(r, waits) ==
  rev' = [rev EXCEPT ![r].at = IF ~Shows(r, "dead") /\ rev[r].try < Attempts
                                 THEN "timer" ELSE "over",
                     ![r].await = waits]
Exhausted(r, waits) ==
  rev' = [rev EXCEPT ![r].at = IF Shows(r, "dead") THEN "over"
                               ELSE IF rev[r].try < Attempts THEN "timer" ELSE "giveup",
                     ![r].await = waits]

GiveUp(r) ==
  /\ rev[r].at = "giveup"
  /\ Ends(r) /\ Tells(r, "blocked")
  /\ UNCHANGED <<boot, daemon, entry, pane, said, listening, heard>>

Retry(r) ==
  /\ rev[r].at = "timer"
  /\ rev' = [rev EXCEPT ![r].at = "brief", ![r].try = @ + 1]
  /\ UNCHANGED <<setup, boot, daemon, entry, pane, said, listening, told, heard, lapse>>

(* _compaction_settled, after a choice of `compact`: nothing is compacting, *)
(* or it still is when the window is over.  The owner hears where a chain   *)
(* that ends here leaves the session.                                       *)
Waits(r) == Claude /\ (rev[r].await \/ rev[r].plan = "due")
Settle(r) ==
  /\ rev[r].at = "brief"
  /\ \/ /\ Waits(r) => Mine(r).st \in {"loading", "picker", "idle", "busy"}
        /\ Go(r, IF rev[r].plan = "due" THEN "restore" ELSE "look")
        /\ UNCHANGED <<setup, told, lapse>>
     \/ /\ Waits(r) /\ Mine(r).st \in {"compacting", "busy", "dead"}
        /\ Exhausted(r, TRUE)
        /\ IF rev[r].plan = "due" /\ rev[r].try = Attempts
             THEN Tells(r, "model") ELSE UNCHANGED <<setup, told, lapse>>
  /\ UNCHANGED <<boot, daemon, entry, pane, said, listening, heard>>

Restore(r) ==
  /\ rev[r].at = "restore"
  /\ \/ /\ SwitchedBack(r)
        /\ rev' = [rev EXCEPT ![r].plan = "none", ![r].at = "look"]
     \/ /\ NotSwitchedBack(r) \/ PaneLost(r)
        /\ rev' = [rev EXCEPT ![r].plan = "none", ![r].at = "look", ![r].ready = FALSE]
  /\ UNCHANGED <<boot, daemon, said, listening, told, heard>>

(* A later attempt asks first whether it still has a topic to brief, a      *)
(* first one only whether the session listens already.                      *)
Look(r) ==
  /\ rev[r].at = "look"
  /\ IF IF rev[r].try > 1 THEN StillOurs(r) ELSE ~(Claude /\ listening # NoPane)
       THEN Go(r, "wait") /\ UNCHANGED lapse ELSE Abandon(r)
  /\ UNCHANGED <<setup, boot, daemon, entry, pane, said, listening, told, heard>>

(* Claude is waited for, within RESTORE_SETTLE.                             *)
Working(r) == Mine(r).st \in {"busy", "compacting"}
Wait(r) ==
  /\ rev[r].at = "wait"
  /\ \/ Shows(r, "dead") /\ Ends(r)
     \/ Alive(rev[r].pane) /\ (Claude => ~Working(r)) /\ Go(r, "type")
     \/ Claude /\ Working(r) /\ Exhausted(r, FALSE)
  /\ UNCHANGED <<setup, boot, daemon, entry, pane, said, listening, told, heard, lapse>>

(* The check, and the line: a turn of the session begins with it, or it     *)
(* waits for the end of one; it is lost in a compaction about to begin or   *)
(* under way (#200); or it is withheld.                                     *)
Type(r) ==
  /\ rev[r].at = "type"
  /\ \/ ~StillOurs(r) /\ Abandon(r) /\ UNCHANGED <<setup, pane>>
     \/ /\ StillOurs(r) /\ Mine(r).st \in {"idle", "busy", "gap", "compacting"}
        /\ Go(r, "stamp") /\ UNCHANGED <<setup, lapse>>
        /\ pane' = IF Mine(r).st \in {"idle", "busy"}
                     THEN [pane EXCEPT ![rev[r].pane].st = "busy", ![rev[r].pane].briefed = TRUE]
                     ELSE pane
     \/ StillOurs(r) /\ Refuses(r) /\ Exhausted(r, FALSE) /\ UNCHANGED <<pane, lapse>>
  /\ UNCHANGED <<boot, daemon, entry, said, listening, told, heard>>

(* Stamped only where the topic still is at the pane that was typed into.   *)
(* Mutant: the topic, wherever it is.                                       *)
StampedAnywhere(r) == [entry EXCEPT !.briefed = boot.now]
Stamped(r) == IF entry.pane = rev[r].pane THEN [entry EXCEPT !.briefed = boot.now] ELSE entry
Stamp(r) ==
  /\ rev[r].at = "stamp"
  /\ entry' = Stamped(r)
  /\ rev' = [rev EXCEPT ![r].at = "over", ![r].back = rev[r].ready]
  /\ UNCHANGED <<setup, boot, daemon, pane, said, listening, told, heard, lapse>>

(* A call outside any try raises: tmux times out (294), a file or a thread  *)
(* fails; around the typing and the stamp it is caught and only logged      *)
(* (6904).  A revive ends with its session up and not bound, a briefing     *)
(* with no further attempt and no report; an owner who chose reads that the *)
(* session is still down (6208), which is not so.  A line of a switch under *)
(* way may have been taken.                                                 *)
Unguarded == {"quiet", "switch", "unswitch", "inject", "start?", "unwind"}
MayBeCheap(r) ==
  {Mine(r).cheap} \cup
    IF ~Takes(r) THEN {}
    ELSE IF rev[r].at = "switch" THEN {TRUE}
    ELSE IF rev[r].at \in {"unswitch", "unwind", "restore"} THEN {FALSE} ELSE {}
Raises(r) ==
  /\ rev[r].at \in Unguarded \cup Briefing \cup {"timer"}
  /\ Fault /\ Ends(r)
  /\ \E cheap \in MayBeCheap(r) : pane' = [pane EXCEPT ![rev[r].pane].cheap = cheap]
  /\ lapse' = Forfeits(r) \cup IF rev[r].at \in Unguarded THEN {} ELSE {"raised"}
  /\ UNCHANGED <<boot, daemon, entry, said, listening, told, heard>>

---------------------------------------------------------------------------
(* The sessions, the owner at the terminal, the daemon and the host.        *)
Renders(p) ==
  /\ pane[p].st = "loading"
  /\ \/ setup.picker /\ Becomes(p, "picker")
     \/ Becomes(p, "idle")
  /\ UNCHANGED <<setup, boot, daemon, entry, said, listening, rev, told, heard, lapse>>

CompactionStarts(p) ==
  /\ pane[p].st = "gap"
  /\ pane' = [pane EXCEPT ![p].st = "compacting", ![p].did = @ \cup {"compact"}]
  /\ UNCHANGED <<setup, boot, daemon, entry, said, listening, rev, told, heard, lapse>>

(* A turn, or a compaction, comes to its end; or never does.                *)
Finishes(p) ==
  /\ pane[p].st \in {"busy", "compacting"} /\ Becomes(p, "idle")
  /\ said' = IF pane[p].st = "busy" THEN IF pane[p].cheap THEN "cheap" ELSE "own" ELSE said
  /\ UNCHANGED <<setup, boot, daemon, entry, listening, rev, told, heard, lapse>>

Turn(p) ==
  /\ pane[p].st = "idle" /\ Spend("turns") /\ Becomes(p, "busy")
  /\ UNCHANGED <<boot, daemon, entry, said, listening, rev, told, heard, lapse>>

Listens(p) ==
  /\ Claude /\ pane[p].st \in {"idle", "busy"} /\ listening = NoPane
  /\ pane[p].briefed \/ p = 1
  /\ listening' = p /\ heard' = heard \cup {p}
  /\ UNCHANGED <<setup, boot, daemon, entry, pane, said, rev, told, lapse>>

(* The picker is answered at the terminal.                                  *)
AnsweredByHand(p) ==
  /\ pane[p].st = "picker" /\ Spend("hands")
  /\ \E choice \in {"compact", "full"} : pane' = Chosen(p, choice)
  /\ lapse' = lapse \cup {"hand"}
  /\ UNCHANGED <<boot, daemon, entry, said, listening, rev, told, heard>>

Dies(p) ==
  /\ Alive(p) /\ Spend("deaths") /\ Becomes(p, "dead")
  /\ listening' = IF listening = p THEN NoPane ELSE listening
  /\ UNCHANGED <<boot, daemon, entry, said, rev, told, heard, lapse>>

(* The lifecycle sweep (Parking has its races).                             *)
MarkEnded ==
  /\ daemon = "up" /\ ~entry.ended /\ ~Alive(entry.pane)
  /\ entry' = [entry EXCEPT !.ended = TRUE]
  /\ UNCHANGED <<setup, boot, daemon, pane, said, listening, rev, told, heard, lapse>>

(* The daemon's threads and timers are gone.  A restore whose boot id is    *)
(* not saved is done again, where there was an id before or nothing came up *)
(* yet; a briefing after that is not.                                       *)
Gone(r, by) == rev[r].by \in by /\ rev[r].at \notin {"off", "over"}
CutShort(by) ==
  LET gone == {r \in Revs : Gone(r, by)} IN
  /\ rev' = [r \in Revs |-> IF r \in gone THEN [rev[r] EXCEPT !.at = "over"] ELSE rev[r]]
  /\ lapse' = lapse
       \cup (IF \E r \in gone : \/ rev[r].at \in Briefing \cup {"timer"}
                                \/ rev[r].at = "bound" /\ boot.stored = 0
             THEN {"cut"} ELSE {})
       \cup (IF \E r \in gone : rev[r].plan # "none" THEN {"unplanned"} ELSE {})

(* A restart takes longer than a compaction needs to begin.                 *)
Crash ==
  /\ daemon # "down" /\ Spend("crashes")
  /\ daemon' = "down" /\ CutShort({"boot", "owner"})
  /\ pane' = [p \in Panes |->
       IF pane[p].st = "gap"
         THEN [pane[p] EXCEPT !.st = "compacting", !.did = @ \cup {"compact"}] ELSE pane[p]]
  /\ UNCHANGED <<boot, entry, said, listening, told, heard>>

Reboot ==
  /\ boot.now < MaxBoot /\ Spend("reboots")
  /\ boot' = [boot EXCEPT !.now = @ + 1]
  /\ daemon' = "down" /\ CutShort({"boot", "owner", "cli"})
  /\ pane' = [p \in Panes |-> [pane[p] EXCEPT !.st = IF @ = "none" THEN "none" ELSE "dead"]]
  /\ listening' = NoPane
  /\ UNCHANGED <<entry, said, told, heard>>

Step(r) ==
  \/ Find(r) \/ CheckEngine(r) \/ Launch(r)
  \/ Gate(r) \/ LivePicker(r) \/ Answer(r) \/ Key(r)
  \/ Quiet(r) \/ Switch(r) \/ Unswitch(r) \/ Inject(r) \/ AwaitStart(r) \/ Unwind(r)
  \/ Report(r) \/ Bind(r)
  \/ Settle(r) \/ Restore(r) \/ Look(r) \/ Wait(r) \/ Type(r) \/ Stamp(r) \/ Retry(r) \/ GiveUp(r)

World ==
  \E p \in Panes : \/ Turn(p) \/ Finishes(p) \/ Listens(p) \/ AnsweredByHand(p) \/ Dies(p)
Starts == \E p \in Panes : Renders(p) \/ CompactionStarts(p)

Next == \/ OwnerRevives \/ OperatorRevives \/ Start \/ SaveBoot \/ MarkEnded
        \/ (\E r \in Revs : Step(r) \/ Raises(r)) \/ World \/ Starts \/ Crash \/ Reboot

Spec == Init /\ [][Next]_vars

(* Every thread and timer runs, the service manager starts the daemon, and  *)
(* a compaction asked for begins.  Turns and compactions need not end.      *)
FairSpec ==
  /\ Spec /\ WF_vars(Start) /\ WF_vars(SaveBoot) /\ WF_vars(Starts)
  /\ \A r \in Revs : WF_vars(Step(r))

---------------------------------------------------------------------------
TypeOK ==
  /\ setup \in Setup
  /\ boot \in [now : 1..MaxBoot, stored : 0..MaxBoot]
  /\ daemon \in {"down", "restoring", "up"}
  /\ entry \in [pane : Panes, ended : BOOLEAN, briefed : 0..MaxBoot, owed : BOOLEAN]
  /\ pane \in [Panes -> Pane] /\ said \in {"own", "cheap"}
  /\ listening \in {NoPane} \cup Panes /\ rev \in [Revs -> Revive]
  /\ told \subseteq Panes \X Things /\ heard \subseteq Panes /\ lapse \subseteq Lapses

(* The stamp says that the pane the topic is bound to has its briefing in   *)
(* this boot (6544, 6892, 7168): never a pane that another revive bound     *)
(* meanwhile, nor one whose compaction swallowed the line.  Excepted are a  *)
(* picker answered at the terminal, which starts a compaction unseen, two   *)
(* revives of one pane, and a pane found up under the stamp of another.     *)
StampTrue ==
  /\ TypeOK
  /\ entry.briefed = boot.now /\ {"hand", "joined", "inherited"} \cap lapse = {} =>
       pane[entry.pane].briefed

(* What the owner reads of the choice is so (7199, 7118): the notice names  *)
(* one that was applied, one that was not is said to be not, and "is back"  *)
(* comes after the briefing or from a session that listens (6775).  A       *)
(* session found up is not asked, and nothing says so.                      *)
ChoiceTrue ==
  \A r \in Revs : LET p == rev[r].pane IN
    /\ rev[r].notice # "none" /\ "hand" \notin lapse =>
         rev[r].notice \in pane[p].did
    /\ rev[r].back =>
         pane[p].briefed \/ p \in heard \/ {"hand", "joined", "elsewhere"} \cap lapse # {}
    /\ rev[r].by = "owner" /\ rev[r].spawned /\ ~rev[r].auto /\ rev[r].at \in Briefing
         /\ "unsaid" \notin lapse /\ rev[r].choice # "none"
         /\ rev[r].outcome \notin {"answered", "injected", "absent"} =>
         \E what \in {"choice", "unanswered"} : <<p, what>> \in told

(* A session that a revive moved to the compaction model is moved back, or  *)
(* its debt is on record and the next launch honours it, or the owner was   *)
(* told (6788, 7892).  Excepted are a revive that is cut short, fails, or   *)
(* loses its pane with the plan in memory, a session launched on the model   *)
(* of a reply that came in the middle of the switch, and a debt that was    *)
(* paid for another pane: it is the topic's (7867).                         *)
PairKept ==
  LET p == entry.pane IN
    Alive(p) /\ pane[p].cheap /\ {"unplanned", "unsaid", "carried", "crossed"} \cap lapse = {} =>
      \/ entry.owed \/ <<p, "model">> \in told
      \/ \E r \in Revs : rev[r].pane = p /\ rev[r].plan # "none" /\ rev[r].at # "over"

(* The session a topic is bound to hears of its revival, or listens, or its *)
(* owner was told that it does not (#172, #133), whatever swallows the line *)
(* or keeps the session busy.  The exceptions are those of Lapses, a call   *)
(* that raises among them; a lost plan and a model carried on do not excuse.*)
Lit(p) == \/ p = 1 \/ ~Alive(p) \/ pane[p].briefed \/ p \in heard
          \/ {<<p, "blocked">>, <<p, "failed">>} \cap told # {}
          \/ (lapse \ {"unplanned", "carried", "crossed"}) # {}
Settled == daemon = "up" /\ Lit(entry.pane) /\ \A r \in Revs : rev[r].at \in {"off", "over"}
NeverLeftDark == []<>Settled
=============================================================================
