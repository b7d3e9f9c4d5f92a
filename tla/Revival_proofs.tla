--------------------------- MODULE Revival_proofs ---------------------------
(***************************************************************************)
(* Proofs about Revival, from RevivalAssumption only: for any setups, any   *)
(* number of revives, attempts and boots.  IInv says of each revive what it *)
(* knows, owes and did at each of its places (Own); that a pane has one     *)
(* revive at work unless one joined (Apart); and what the entry's stamp, a  *)
(* word to the owner and a pane on the compaction model stand for.  From it *)
(* follow StampTrue, ChoiceTrue and PairKept.  An action has a lemma for    *)
(* the types and one for IInv; the latter says what the step does to its    *)
(* own record, and leaves the rest to the frame lemmas (StepKeeps and its   *)
(* parts for a revive's step, WorldKeeps for all that is none).             *)
(***************************************************************************)
EXTENDS Revival, TLAPS

(* Where a revive is: at the first places it has no pane; at those of the   *)
(* picker it has a claude pane it launched itself.                          *)
Paneless == {"off", "find", "launch"}
Unpicked == {"gate", "live", "answer", "key", "quiet"}
Compacting == {"switch", "unswitch", "inject", "start?", "unwind"}
Picking == Unpicked \cup Compacting \cup {"report"}
Typing == {"look", "wait", "type", "stamp"}
Chained == {"bound", "brief", "timer", "restore", "giveup"}
Applying == {"answered", "injected"}

(* What a revive knows of itself at each place.                             *)
Control(r) ==
  /\ rev[r].at \in Paneless => rev[r].pane = NoPane
  /\ rev[r].at \notin Paneless \cup {"over"} => rev[r].pane # NoPane
  /\ rev[r].at \in Picking => rev[r].spawned /\ Claude
  /\ rev[r].at = "engine" => ~rev[r].spawned
  /\ rev[r].spawned => rev[r].pane # NoPane
  /\ ~rev[r].spawned => rev[r].outcome = "none"
  /\ rev[r].at \in {"gate", "live"} => rev[r].outcome = "none"
  /\ rev[r].at \in {"answer", "key"} => rev[r].choice # "none"
  /\ rev[r].at \in {"unwind", "report"} => rev[r].outcome # "none"
  /\ ~Claude => rev[r].choice = "none"
  /\ rev[r].at \in Compacting \cup {"quiet"} \/ rev[r].outcome = "injected" =>
       rev[r].choice = "compact"
  /\ rev[r].at = "timer" => rev[r].try < Attempts

(* The plan of a switch, from the switch to the switch back.                *)
Planned(r) ==
  /\ rev[r].plan # "none" => rev[r].spawned /\ Claude
  /\ rev[r].at \in {"switch", "unswitch", "unwind"} => rev[r].plan = "made"
  /\ rev[r].at \in Paneless \cup Unpicked \cup Typing \cup {"engine"} =>
       rev[r].plan = "none"
  /\ rev[r].at \in {"inject", "start?"} => rev[r].plan # "due"
  /\ rev[r].at \in {"report", "bind"} =>
       rev[r].plan # "due" /\ (rev[r].plan = "made" => rev[r].outcome = "injected")
  /\ rev[r].at \in Chained => rev[r].plan \in {"none", "due"}
  /\ rev[r].at = "restore" => rev[r].plan = "due"

(* The notice names what was applied.                                       *)
Noticed(r) ==
  /\ rev[r].notice \in {"none", Applied(r)}
  /\ rev[r].at \in Paneless \cup Picking \cup {"engine", "bind"} =>
       rev[r].notice = "none" /\ ~rev[r].back

(* What it did to its pane.                                                 *)
Screen(r) ==
  LET p == rev[r].pane IN
    /\ p # NoPane => pane[p].st # "none"
    /\ rev[r].outcome = "answered" /\ "hand" \notin lapse => rev[r].choice \in pane[p].did
    /\ rev[r].outcome = "injected" => "compact" \in pane[p].did
    /\ rev[r].plan = "undone" /\ rev[r].at # "over" => ~pane[p].cheap

(* What its owner was told by then.                                         *)
ChoiceDue(r) ==
  /\ rev[r].by = "owner" /\ rev[r].spawned /\ ~rev[r].auto /\ rev[r].choice # "none"
  /\ rev[r].outcome \notin Applying \cup {"absent"} /\ "unsaid" \notin lapse
Said(r) ==
  /\ rev[r].at \in {"bind"} \cup Chained \cup Typing /\ ChoiceDue(r) =>
       \E what \in {"choice", "unanswered"} : <<rev[r].pane, what>> \in told
  /\ rev[r].at = "giveup" /\ rev[r].plan = "due" =>
       <<rev[r].pane, "model">> \in told \/ "unsaid" \in lapse

(* A revive types its briefing into no compaction, one that is about to     *)
(* begin included; a picker answered by hand is excepted, and a shared pane.*)
Fair == {"hand", "joined"} \cap lapse = {}
Awaits(r) == rev[r].await \/ rev[r].plan = "due"
Undisturbed(r) ==
  LET st == pane[rev[r].pane].st IN
    /\ rev[r].at \in Unpicked \cup {"switch", "unswitch", "inject", "unwind", "type"} =>
         st \notin {"gap", "compacting"}
    /\ rev[r].at \in {"report", "bind"} /\ st \in {"gap", "compacting"} =>
         IF rev[r].spawned THEN rev[r].outcome \in Applying /\ rev[r].choice = "compact"
                           ELSE st # "gap"
    /\ rev[r].at \in {"bound", "brief", "timer"} /\ st \in {"gap", "compacting"} =>
         IF rev[r].spawned THEN Awaits(r) ELSE st # "gap"
    /\ rev[r].at \in {"restore", "look", "wait"} =>
         st # "gap" /\ (rev[r].spawned => st # "compacting")
    /\ rev[r].at = "stamp" => pane[rev[r].pane].briefed

Own(r) == /\ Control(r) /\ Planned(r) /\ Noticed(r) /\ Screen(r) /\ Said(r)
          /\ Fair => Undisturbed(r)
RevInv == \A r \in Revs : Own(r)

(* A pane has one launcher, and one revive at work unless one joined.       *)
AtWork(r) == rev[r].at \notin Paneless \cup {"engine", "over"}
Apart ==
  \A q, r \in Revs : q # r /\ rev[q].pane = rev[r].pane =>
    /\ ~(rev[q].spawned /\ rev[r].spawned)
    /\ "joined" \notin lapse => ~(AtWork(q) /\ AtWork(r))

(* A topic's pane was launched; a compaction goes on where one was asked   *)
(* for, and, unless somebody typed by hand, under claude only.              *)
PaneInv ==
  /\ pane[entry.pane].st # "none"
  /\ listening # NoPane => listening \in heard
  /\ \A p \in Panes : pane[p].st = "compacting" => "compact" \in pane[p].did
  /\ ~Claude /\ "hand" \notin lapse => \A p \in Panes : pane[p].st \notin {"gap", "compacting"}

(* What the stamp stands for, and what "is back" stands for.                *)
StampInv ==
  /\ entry.briefed <= boot.now
  /\ entry.briefed = boot.now /\ {"hand", "joined", "inherited"} \cap lapse = {} =>
       pane[entry.pane].briefed
BackInv ==
  \A r \in Revs : rev[r].back =>
    \/ rev[r].pane # NoPane /\ pane[rev[r].pane].briefed
    \/ rev[r].pane \in heard \/ {"hand", "joined", "elsewhere"} \cap lapse # {}

(* Any session on the compaction model has somebody who answers for it.     *)
Answers(p) ==
  \/ entry.owed \/ <<p, "model">> \in told
  \/ \E r \in Revs : rev[r].pane = p /\ rev[r].plan # "none" /\ rev[r].at # "over"
PairInv ==
  {"unplanned", "unsaid", "carried", "crossed"} \cap lapse = {} =>
    \A p \in Panes : Alive(p) /\ pane[p].cheap => Answers(p)

IInv == TypeOK /\ RevInv /\ Apart /\ PaneInv /\ StampInv /\ BackInv /\ PairInv

---------------------------------------------------------------------------
LEMMA Bounds ==
  /\ Attempts \in Nat \ {0} /\ MaxRevives \in Nat \ {0} /\ MaxBoot \in Nat \ {0, 1}
  /\ NoPane \notin Panes /\ Panes \subseteq Nat /\ 1 \in Panes /\ Revs \subseteq Nat
  BY RevivalAssumption DEF RevivalAssumption, NoPane, Panes, Revs

LEMMA NoReviveType == NoRevive \in Revive
  BY Bounds DEF NoRevive, Revive, Panes, Choices, NoPane

LEMMA InitType == Init => TypeOK
<1> SUFFICES ASSUME Init PROVE TypeOK
  OBVIOUS
<1>1. setup \in Setup /\ boot \in [now : 1..MaxBoot, stored : 0..MaxBoot]
  BY RevivalAssumption, Bounds DEF Init, RevivalAssumption, Setup
<1>2. pane \in [Panes -> Pane]
  BY DEF Init, NewPane, Pane, Up
<1>3. entry \in [pane : Panes, ended : BOOLEAN, briefed : 0..MaxBoot, owed : BOOLEAN]
  BY Bounds DEF Init
<1> QED BY <1>1, <1>2, <1>3, NoReviveType DEF Init, TypeOK

LEMMA SpendType ==
  ASSUME TypeOK, NEW b \in {"revives", "operators", "faults", "hands", "deaths", "crashes",
                            "reboots", "turns"},
         Spend(b)
  PROVE  setup' \in Setup /\ setup'.engine = setup.engine
  BY DEF TypeOK, Spend, Setup
LEMMA FaultType ==
  ASSUME TypeOK, Fault \/ UNCHANGED setup
  PROVE  setup' \in Setup /\ setup'.engine = setup.engine
  BY SpendType DEF TypeOK, Fault

(* A record of a revive with one field changed is a record of a revive.     *)
Places == {"off", "over", "bound", "timer"} \cup Ahead \cup Briefing
Outcomes == {"none", "absent", "answered", "failed", "injected", "refused", "unable"}
Plans == {"none", "made", "undone", "due"}
LEMMA SetAt ==
  ASSUME NEW e \in Revive, NEW x \in Places PROVE [e EXCEPT !.at = x] \in Revive
  BY DEF Revive, Places
LEMMA SetPane ==
  ASSUME NEW e \in Revive, NEW x \in {NoPane} \cup Panes PROVE [e EXCEPT !.pane = x] \in Revive
  BY DEF Revive
LEMMA SetSpawned ==
  ASSUME NEW e \in Revive, NEW x \in BOOLEAN PROVE [e EXCEPT !.spawned = x] \in Revive
  BY DEF Revive
LEMMA SetChoice ==
  ASSUME NEW e \in Revive, NEW x \in Choices PROVE [e EXCEPT !.choice = x] \in Revive
  BY DEF Revive
LEMMA SetAuto ==
  ASSUME NEW e \in Revive, NEW x \in BOOLEAN PROVE [e EXCEPT !.auto = x] \in Revive
  BY DEF Revive
LEMMA SetOutcome ==
  ASSUME NEW e \in Revive, NEW x \in Outcomes PROVE [e EXCEPT !.outcome = x] \in Revive
  BY DEF Revive, Outcomes
LEMMA SetPlan ==
  ASSUME NEW e \in Revive, NEW x \in Plans PROVE [e EXCEPT !.plan = x] \in Revive
  BY DEF Revive, Plans
LEMMA SetAwait ==
  ASSUME NEW e \in Revive, NEW x \in BOOLEAN PROVE [e EXCEPT !.await = x] \in Revive
  BY DEF Revive
LEMMA SetTry ==
  ASSUME NEW e \in Revive, NEW x \in 1..Attempts PROVE [e EXCEPT !.try = x] \in Revive
  BY DEF Revive
LEMMA SetReady ==
  ASSUME NEW e \in Revive, NEW x \in BOOLEAN PROVE [e EXCEPT !.ready = x] \in Revive
  BY DEF Revive
LEMMA SetNotice ==
  ASSUME NEW e \in Revive, NEW x \in Choices PROVE [e EXCEPT !.notice = x] \in Revive
  BY DEF Revive
LEMMA SetBack ==
  ASSUME NEW e \in Revive, NEW x \in BOOLEAN PROVE [e EXCEPT !.back = x] \in Revive
  BY DEF Revive
LEMMA SetBy ==
  ASSUME NEW e \in Revive, NEW x \in {"boot", "owner", "cli"} PROVE [e EXCEPT !.by = x] \in Revive
  BY DEF Revive
LEMMA SetSnap ==
  ASSUME NEW e \in Revive, NEW x \in Panes PROVE [e EXCEPT !.snap = x] \in Revive
  BY DEF Revive
LEMMA SetStamped ==
  ASSUME NEW e \in Revive, NEW x \in BOOLEAN PROVE [e EXCEPT !.stamped = x] \in Revive
  BY DEF Revive
LEMMA SetOwing ==
  ASSUME NEW e \in Revive, NEW x \in BOOLEAN PROVE [e EXCEPT !.owing = x] \in Revive
  BY DEF Revive
LEMMA SetName ==
  ASSUME NEW e \in Revive, NEW x \in {"base", "suffix"} PROVE [e EXCEPT !.name = x] \in Revive
  BY DEF Revive
LEMMA Put ==
  ASSUME rev \in [Revs -> Revive], NEW r \in Revs, NEW e \in Revive, rev' = [rev EXCEPT ![r] = e]
  PROVE  rev' \in [Revs -> Revive]
  OBVIOUS
LEMMA Reading == TypeOK => rev \in [Revs -> Revive] /\ \A r \in Revs : rev[r] \in Revive
  BY DEF TypeOK

LEMMA GoType ==
  ASSUME TypeOK, NEW r \in Revs, NEW place \in Places, Go(r, place)
  PROVE  rev' \in [Revs -> Revive]
<1>1. rev' = [rev EXCEPT ![r] = [rev[r] EXCEPT !.at = place]]
  BY Reading DEF Go
<1> QED BY <1>1, Reading, SetAt, Put
LEMMA EndsType == ASSUME TypeOK, NEW r \in Revs, Ends(r) PROVE rev' \in [Revs -> Revive]
  BY GoType DEF Ends, Places
LEMMA DecidesType ==
  ASSUME TypeOK, NEW r \in Revs, NEW outcome \in Outcomes, NEW place \in Places,
         Decides(r, outcome, place)
  PROVE  rev' \in [Revs -> Revive]
<1>1. rev' = [rev EXCEPT ![r] = [rev[r] EXCEPT !.outcome = outcome, !.at = place]]
  BY Reading DEF Decides
<1> QED BY <1>1, Reading, SetAt, SetOutcome, Put
LEMMA AbandonType ==
  ASSUME TypeOK, NEW r \in Revs, Abandon(r)
  PROVE  rev' \in [Revs -> Revive] /\ lapse' \subseteq Lapses
<1> DEFINE back == /\ rev[r].ready /\ Claude /\ listening # NoPane
                   /\ Alive(rev[r].pane) /\ entry.pane = rev[r].pane
<1>1. rev' = [rev EXCEPT ![r] = [rev[r] EXCEPT !.at = "over", !.back = back]]
  BY Reading DEF Abandon
<1>2. back \in BOOLEAN /\ "over" \in Places
  BY DEF Places, Revive, Reading
<1> HIDE DEF back
<1>3. lapse' \subseteq Lapses
  BY DEF Abandon, TypeOK, Lapses
<1> QED BY <1>1, <1>2, <1>3, Reading, SetAt, SetBack, Put
LEMMA ExhaustedType ==
  ASSUME TypeOK, NEW r \in Revs, NEW waits \in BOOLEAN, Exhausted(r, waits)
  PROVE  rev' \in [Revs -> Revive]
<1> DEFINE place == IF Shows(r, "dead") THEN "over"
                    ELSE IF rev[r].try < Attempts THEN "timer" ELSE "giveup"
<1>1. rev' = [rev EXCEPT ![r] = [rev[r] EXCEPT !.at = place, !.await = waits]]
  BY Reading DEF Exhausted
<1>2. place \in Places
  BY DEF Places, Briefing
<1> HIDE DEF place
<1> QED BY <1>1, <1>2, Reading, SetAt, SetAwait, Put

(* A pane of which some fields change.                                      *)
LEMMA BecomesType ==
  ASSUME TypeOK, NEW p \in Panes, NEW st \in Up \cup {"none", "dead"}, Becomes(p, st)
  PROVE  pane' \in [Panes -> Pane]
  BY DEF TypeOK, Becomes, Pane


(* What is left of the type once the record of the revive keeps its own.    *)
LEMMA CarriesType ==
  ASSUME TypeOK, rev' \in [Revs -> Revive], pane' \in [Panes -> Pane], Fault \/ UNCHANGED setup,
         entry' \in [pane : Panes, ended : BOOLEAN, briefed : 0..MaxBoot, owed : BOOLEAN],
         lapse' \subseteq Lapses, told' \subseteq Panes \X Things,
         UNCHANGED <<boot, daemon, said, listening, heard>>
  PROVE  TypeOK'
  BY FaultType DEF TypeOK

LEMMA FindType == ASSUME TypeOK, NEW r \in Revs, Find(r) PROVE TypeOK'
<1>1. rev' \in [Revs -> Revive]
  <2>1. CASE Go(r, "launch")
    BY <2>1, GoType DEF Places, Ahead
  <2>2. ASSUME NEW p \in Panes, rev' = [rev EXCEPT ![r].pane = p, ![r].at = "engine"]
        PROVE  rev' \in [Revs -> Revive]
    <3>1. rev' = [rev EXCEPT ![r] = [rev[r] EXCEPT !.pane = p, !.at = "engine"]]
      BY <2>2, Reading
    <3> QED BY <3>1, Reading, SetAt, SetPane, Put DEF Places, Ahead
  <2> QED BY <2>1, <2>2 DEF Find, Holder
<1> QED BY <1>1, CarriesType DEF Find, TypeOK

LEMMA CheckEngineType == ASSUME TypeOK, NEW r \in Revs, CheckEngine(r) PROVE TypeOK'
<1>1. rev' \in [Revs -> Revive]
  BY GoType, EndsType DEF CheckEngine, Places, Ahead
<1>2. lapse' \subseteq Lapses
  BY DEF CheckEngine, TypeOK, Lapses
<1> QED BY <1>1, <1>2, CarriesType DEF CheckEngine, TypeOK

LEMMA LaunchType == ASSUME TypeOK, NEW r \in Revs, Launch(r) PROVE TypeOK'
<1>1. CASE Ends(r) /\ UNCHANGED <<entry, pane, lapse>>
  BY <1>1, EndsType, CarriesType DEF Launch, TypeOK
<1>2. ASSUME NEW p \in Panes,
             pane' = [pane EXCEPT ![p] =
                        [NewPane("loading", rev[r].name) EXCEPT !.cheap = CarriesOn(r)]],
             rev' = [rev EXCEPT ![r].pane = p, ![r].spawned = TRUE,
                                ![r].at = IF Claude THEN "gate" ELSE "bind"]
      PROVE  rev' \in [Revs -> Revive] /\ pane' \in [Panes -> Pane]
  <2> DEFINE place == IF Claude THEN "gate" ELSE "bind"
  <2>1. rev' = [rev EXCEPT ![r] = [rev[r] EXCEPT !.pane = p, !.spawned = TRUE, !.at = place]]
    BY <1>2, Reading
  <2>2. place \in Places
    BY DEF Places, Ahead
  <2> HIDE DEF place
  <2>3. rev' \in [Revs -> Revive]
    BY <2>1, <2>2, Reading, SetAt, SetSpawned, SetPane, Put
  <2>4. rev[r].name \in {"base", "suffix"}
    BY Reading DEF Revive
  <2>5. CarriesOn(r) \in BOOLEAN
    BY Reading DEF CarriesOn, Claude, Revive
  <2>6. [NewPane("loading", rev[r].name) EXCEPT !.cheap = CarriesOn(r)] \in Pane
    BY <2>4, <2>5 DEF NewPane, Pane, Up
  <2> QED BY <1>2, <2>3, <2>6 DEF TypeOK
<1>3. CASE /\ \E p \in Panes :
                /\ pane' = [pane EXCEPT ![p] =
                              [NewPane("loading", rev[r].name) EXCEPT !.cheap = CarriesOn(r)]]
                /\ rev' = [rev EXCEPT ![r].pane = p, ![r].spawned = TRUE,
                                      ![r].at = IF Claude THEN "gate" ELSE "bind"]
                /\ lapse' = lapse \cup (IF CarriesOn(r) THEN {"carried"} ELSE {})
                                  \cup (IF Paid(r) THEN Pays(p) ELSE {})
           /\ entry' = [entry EXCEPT !.owed = @ /\ ~Paid(r)] /\ UNCHANGED setup
  <2>1. rev' \in [Revs -> Revive] /\ pane' \in [Panes -> Pane]
    BY <1>2, <1>3
  <2>2. lapse' \subseteq Lapses
    BY <1>3 DEF TypeOK, Lapses, Pays
  <2>3. entry' \in [pane : Panes, ended : BOOLEAN, briefed : 0..MaxBoot, owed : BOOLEAN]
    BY <1>3 DEF TypeOK, Paid
  <2> QED BY <1>3, <2>1, <2>2, <2>3, CarriesType DEF Launch, TypeOK
<1> QED BY <1>1, <1>3 DEF Launch

LEMMA GateType == ASSUME TypeOK, NEW r \in Revs, Gate(r) PROVE TypeOK'
<1>1. ASSUME NEW at \in {"answer", "quiet"},
             rev' = [rev EXCEPT ![r].choice = "compact", ![r].auto = TRUE, ![r].at = at,
                                ![r].outcome = IF at = "quiet" THEN "absent" ELSE "none"]
      PROVE  rev' \in [Revs -> Revive]
  <2> DEFINE outcome == IF at = "quiet" THEN "absent" ELSE "none"
  <2>1. rev' = [rev EXCEPT ![r] = [rev[r] EXCEPT !.choice = "compact", !.auto = TRUE, !.at = at,
                                                 !.outcome = outcome]]
    BY <1>1, Reading
  <2>2. at \in Places /\ outcome \in Outcomes /\ "compact" \in Choices
    BY DEF Places, Ahead, Outcomes, Choices
  <2> HIDE DEF outcome
  <2>3. [rev[r] EXCEPT !.choice = "compact", !.auto = TRUE] \in Revive
    BY <2>2, Reading, SetChoice, SetAuto
  <2>4. [rev[r] EXCEPT !.choice = "compact", !.auto = TRUE, !.at = at, !.outcome = outcome] \in Revive
    BY <2>2, <2>3, SetAt, SetOutcome
  <2> QED BY <2>1, <2>4, Reading, Put
<1>2. rev' \in [Revs -> Revive]
  BY <1>1, GoType DEF Gate, Places, Ahead
<1> QED BY <1>2, CarriesType DEF Gate, TypeOK

LEMMA LivePickerType == ASSUME TypeOK, NEW r \in Revs, LivePicker(r) PROVE TypeOK'
<1>1. ASSUME rev' = [rev EXCEPT ![r].choice = "compact", ![r].auto = TRUE, ![r].at = "answer"]
      PROVE  rev' \in [Revs -> Revive]
  <2>1. rev' = [rev EXCEPT ![r] = [rev[r] EXCEPT !.choice = "compact", !.auto = TRUE,
                                                 !.at = "answer"]]
    BY <1>1, Reading
  <2> QED BY <2>1, Reading, SetChoice, SetAuto, SetAt, Put DEF Places, Ahead, Choices
<1>2. rev' \in [Revs -> Revive]
  BY <1>1, DecidesType DEF LivePicker, Places, Ahead, Outcomes
<1> QED BY <1>2, CarriesType DEF LivePicker, TypeOK

LEMMA AnswerType == ASSUME TypeOK, NEW r \in Revs, Answer(r) PROVE TypeOK'
<1>1. rev' \in [Revs -> Revive]
  BY GoType, DecidesType DEF Answer, Places, Ahead, Outcomes
<1> QED BY <1>1, CarriesType DEF Answer, TypeOK

LEMMA ChosenType ==
  ASSUME TypeOK, NEW p \in Panes, NEW choice \in Choices \ {"none"}, pane' = Chosen(p, choice)
  PROVE  pane' \in [Panes -> Pane]
<1> DEFINE st == IF choice = "compact" THEN "gap" ELSE "idle"
           did == pane[p].did \cup {choice}
<1>1. pane' = [pane EXCEPT ![p] = [pane[p] EXCEPT !.st = st, !.did = did]]
  BY DEF Chosen, TypeOK
<1>2. st \in Up /\ did \subseteq {"compact", "full"} /\ pane[p] \in Pane
  BY DEF Up, Choices, TypeOK, Pane
<1> HIDE DEF st, did
<1>3. [pane[p] EXCEPT !.st = st, !.did = did] \in Pane
  BY <1>2 DEF Pane
<1> QED BY <1>1, <1>3 DEF TypeOK

LEMMA KeyType ==
  ASSUME TypeOK, NEW r \in Revs, rev[r].pane \in Panes, rev[r].choice # "none", Key(r)
  PROVE  TypeOK'
<1>1. rev' \in [Revs -> Revive]
  BY DecidesType DEF Key, Places, Ahead, Outcomes
<1>2. pane' \in [Panes -> Pane]
  <2>1. rev[r].choice \in Choices \ {"none"}
    BY Reading DEF Revive
  <2> QED BY <2>1, ChosenType, BecomesType DEF Key, TypeOK, Up
<1>3. lapse' \subseteq Lapses
  BY DEF Key, TypeOK, Lapses
<1> QED BY <1>1, <1>2, <1>3, CarriesType DEF Key, TypeOK

LEMMA QuietType == ASSUME TypeOK, NEW r \in Revs, Quiet(r) PROVE TypeOK'
<1>1. ASSUME rev' = [rev EXCEPT ![r].plan = "made", ![r].at = "switch"]
      PROVE  rev' \in [Revs -> Revive]
  <2>1. rev' = [rev EXCEPT ![r] = [rev[r] EXCEPT !.plan = "made", !.at = "switch"]]
    BY <1>1, Reading
  <2> QED BY <2>1, Reading, SetPlan, SetAt, Put DEF Places, Ahead, Plans
<1>2. rev' \in [Revs -> Revive]
  BY <1>1, GoType, DecidesType DEF Quiet, Places, Ahead, Outcomes
<1> QED BY <1>2, CarriesType DEF Quiet, TypeOK

LEMMA CheapType ==
  ASSUME TypeOK, NEW p \in Panes, NEW cheap \in BOOLEAN, pane' = [pane EXCEPT ![p].cheap = cheap]
  PROVE  pane' \in [Panes -> Pane]
  BY DEF TypeOK, Pane

LEMMA SwitchType ==
  ASSUME TypeOK, NEW r \in Revs, rev[r].pane \in Panes, Switch(r) PROVE TypeOK'
<1>1. rev' \in [Revs -> Revive]
  BY GoType DEF Switch, Places, Ahead
<1>2. pane' \in [Panes -> Pane]
  BY CheapType DEF Switch, Takes
<1> QED BY <1>1, <1>2, CarriesType DEF Switch, TypeOK, Refuses

(* The switch back, in its three outcomes.                                  *)
LEMMA BackType ==
  ASSUME TypeOK, NEW r \in Revs, rev[r].pane \in Panes, rev' \in [Revs -> Revive],
         SwitchedBack(r) \/ NotSwitchedBack(r) \/ PaneLost(r),
         UNCHANGED <<boot, daemon, said, listening, told, heard>>
  PROVE  TypeOK'
<1>1. pane' \in [Panes -> Pane]
  <2>1. Mine(r).cheap \in BOOLEAN
    BY DEF TypeOK, Pane, Mine
  <2> QED BY <2>1, CheapType DEF SwitchedBack, NotSwitchedBack, PaneLost, TypeOK, Takes
<1>2. entry' \in [pane : Panes, ended : BOOLEAN, briefed : 0..MaxBoot, owed : BOOLEAN]
  BY DEF SwitchedBack, NotSwitchedBack, PaneLost, TypeOK
<1>3. lapse' \subseteq Lapses
  BY DEF SwitchedBack, NotSwitchedBack, PaneLost, TypeOK, Lapses, Pays
<1>4. Fault \/ UNCHANGED setup
  BY DEF SwitchedBack, NotSwitchedBack, PaneLost, Refuses
<1> QED BY <1>1, <1>2, <1>3, <1>4, CarriesType DEF TypeOK

LEMMA UnswitchType ==
  ASSUME TypeOK, NEW r \in Revs, rev[r].pane \in Panes, Unswitch(r) PROVE TypeOK'
<1>1. ASSUME rev' = [rev EXCEPT ![r].plan = "undone", ![r].at = "inject"]
      PROVE  rev' \in [Revs -> Revive]
  <2>1. rev' = [rev EXCEPT ![r] = [rev[r] EXCEPT !.plan = "undone", !.at = "inject"]]
    BY <1>1, Reading
  <2> QED BY <2>1, Reading, SetPlan, SetAt, Put DEF Places, Ahead, Plans
<1>2. ASSUME rev' = [rev EXCEPT ![r].plan = "none", ![r].outcome = "unable", ![r].at = "report"]
      PROVE  rev' \in [Revs -> Revive]
  <2>1. rev' = [rev EXCEPT ![r] = [rev[r] EXCEPT !.plan = "none", !.outcome = "unable",
                                                 !.at = "report"]]
    BY <1>2, Reading
  <2> QED BY <2>1, Reading, SetPlan, SetOutcome, SetAt, Put DEF Places, Ahead, Plans, Outcomes
<1> QED BY <1>1, <1>2, BackType DEF Unswitch

LEMMA NotCompactingType ==
  ASSUME TypeOK, NEW r \in Revs, NEW outcome \in Outcomes, NotCompacting(r, outcome)
  PROVE  rev' \in [Revs -> Revive]
  BY DecidesType DEF NotCompacting, Places, Ahead

LEMMA InjectType ==
  ASSUME TypeOK, NEW r \in Revs, rev[r].pane \in Panes, Inject(r) PROVE TypeOK'
<1>1. rev' \in [Revs -> Revive]
  BY GoType, NotCompactingType DEF Inject, Places, Ahead, Outcomes
<1>2. pane' \in [Panes -> Pane]
  BY BecomesType DEF Inject, TypeOK, Up
<1> QED BY <1>1, <1>2, CarriesType DEF Inject, TypeOK, Refuses

LEMMA AwaitStartType ==
  ASSUME TypeOK, NEW r \in Revs, rev[r].pane \in Panes, AwaitStart(r) PROVE TypeOK'
<1>1. rev' \in [Revs -> Revive]
  BY DecidesType, NotCompactingType DEF AwaitStart, Places, Ahead, Outcomes
<1>2. pane' \in [Panes -> Pane]
  BY BecomesType DEF AwaitStart, TypeOK, Up
<1> QED BY <1>1, <1>2, CarriesType DEF AwaitStart, TypeOK

LEMMA UnwindType ==
  ASSUME TypeOK, NEW r \in Revs, rev[r].pane \in Panes, Unwind(r) PROVE TypeOK'
<1>1. rev' = [rev EXCEPT ![r] = [rev[r] EXCEPT !.plan = "none", !.at = "report"]]
  BY Reading DEF Unwind
<1>2. rev' \in [Revs -> Revive]
  BY <1>1, Reading, SetPlan, SetAt, Put DEF Places, Ahead, Plans
<1> QED BY <1>2, BackType DEF Unwind

(* What the owner is told is told of a pane.                                *)
LEMMA TellsType ==
  ASSUME TypeOK, NEW r \in Revs, rev[r].pane \in Panes, NEW what \in Things, Tells(r, what)
  PROVE  /\ Fault \/ UNCHANGED setup
         /\ lapse' \subseteq Lapses /\ told' \subseteq Panes \X Things
<1>1. CASE Tell(r, what) /\ UNCHANGED <<setup, lapse>>
  <2>1. <<rev[r].pane, what>> \in Panes \X Things
    OBVIOUS
  <2>2. told' = told \cup {<<rev[r].pane, what>>} /\ told \subseteq Panes \X Things
    BY <1>1 DEF Tell, TypeOK
  <2>3. told' \subseteq Panes \X Things
    BY <2>1, <2>2
  <2> QED BY <1>1, <2>3 DEF TypeOK
<1>2. CASE Fault /\ lapse' = lapse \cup {"unsaid"} /\ UNCHANGED told
  BY <1>2 DEF TypeOK, Lapses
<1> QED BY <1>1, <1>2 DEF Tells

LEMMA ReportType ==
  ASSUME TypeOK, NEW r \in Revs, rev[r].pane \in Panes, Report(r) PROVE TypeOK'
<1>1. rev' \in [Revs -> Revive]
  BY GoType, EndsType DEF Report, Places, Ahead
<1>2. Warning(r) \in Things \cup {"none"}
  BY DEF Warning, Things
<1>3. /\ Fault \/ UNCHANGED setup
      /\ lapse' \subseteq Lapses /\ told' \subseteq Panes \X Things
  <2>1. CASE /\ Warning(r) # "none" \/ (rev[r].outcome = "injected" /\ ~rev[r].ready)
             /\ Fault /\ Ends(r) /\ lapse' = Forfeits(r) /\ UNCHANGED told
    BY <2>1 DEF Forfeits, TypeOK, Lapses
  <2>2. CASE Warning(r) = "none" /\ UNCHANGED <<setup, told, lapse>>
    BY <2>2 DEF TypeOK
  <2>3. CASE Warning(r) # "none" /\ Tells(r, Warning(r))
    BY <1>2, <2>3, TellsType
  <2> QED BY <2>1, <2>2, <2>3 DEF Report
<1> QED BY <1>1, <1>3, CarriesType DEF Report, TypeOK

LEMMA BindType ==
  ASSUME TypeOK, NEW r \in Revs, rev[r].pane \in Panes, Bind(r) PROVE TypeOK'
<1>1. CASE Ends(r) /\ lapse' = Forfeits(r) /\ UNCHANGED entry
  <2>1. lapse' \subseteq Lapses
    BY <1>1 DEF Forfeits, TypeOK, Lapses
  <2> QED BY <1>1, <2>1, EndsType, CarriesType DEF Bind, TypeOK
<1>2. CASE ~(Ends(r) /\ lapse' = Forfeits(r) /\ UNCHANGED entry)
  <2> DEFINE plan == IF rev[r].outcome = "injected" /\ rev[r].plan # "none" THEN "due" ELSE "none"
             place == IF rev[r].by = "boot" THEN "bound" ELSE IF NeedsBrief(r) THEN "brief" ELSE "over"
             notice == Applied(r)
             await == (Applied(r) = "compact")
  <2>1. rev' = [rev EXCEPT ![r] = [rev[r] EXCEPT !.notice = notice, !.await = await,
                                                 !.plan = plan, !.at = place]]
    BY <1>2, Reading DEF Bind
  <2>2. /\ place \in Places /\ plan \in Plans /\ await \in BOOLEAN /\ notice \in Choices
    BY Reading DEF Places, Plans, Applied, Choices, Briefing, Revive
  <2> HIDE DEF plan, place, notice, await
  <2>3. [rev[r] EXCEPT !.notice = notice, !.await = await] \in Revive
    BY <2>2, Reading, SetNotice, SetAwait
  <2>4. [rev[r] EXCEPT !.notice = notice, !.await = await, !.plan = plan, !.at = place] \in Revive
    BY <2>2, <2>3, SetPlan, SetAt
  <2>5. rev' \in [Revs -> Revive]
    BY <2>1, <2>4, Put, Reading
  <2>6. entry' \in [pane : Panes, ended : BOOLEAN, briefed : 0..MaxBoot, owed : BOOLEAN]
    <3> DEFINE briefed == IF rev[r].spawned THEN 0 ELSE entry.briefed
    <3>1. entry' = [entry EXCEPT !.pane = rev[r].pane, !.ended = FALSE, !.briefed = briefed]
      BY <1>2 DEF Bind, Bound, TypeOK
    <3>2. briefed \in 0..MaxBoot
      BY Bounds DEF TypeOK
    <3> HIDE DEF briefed
    <3> QED BY <3>1, <3>2 DEF TypeOK
  <2>7. lapse' \subseteq Lapses
    BY <1>2 DEF Bind, TypeOK, Lapses
  <2> QED BY <1>2, <2>5, <2>6, <2>7, CarriesType DEF Bind, TypeOK
<1> QED BY <1>1, <1>2

LEMMA SettleType ==
  ASSUME TypeOK, NEW r \in Revs, rev[r].pane \in Panes, Settle(r) PROVE TypeOK'
<1>1. rev' \in [Revs -> Revive]
  BY GoType, ExhaustedType DEF Settle, Places, Briefing
<1>2. /\ Fault \/ UNCHANGED setup
      /\ lapse' \subseteq Lapses /\ told' \subseteq Panes \X Things
  <2>1. CASE UNCHANGED <<setup, told, lapse>>
    BY <2>1 DEF TypeOK
  <2>2. CASE Tells(r, "model")
    BY <2>2, TellsType DEF Things
  <2> QED BY <2>1, <2>2 DEF Settle
<1> QED BY <1>1, <1>2, CarriesType DEF Settle, TypeOK

LEMMA RestoreType ==
  ASSUME TypeOK, NEW r \in Revs, rev[r].pane \in Panes, Restore(r) PROVE TypeOK'
<1>1. ASSUME rev' = [rev EXCEPT ![r].plan = "none", ![r].at = "look"]
      PROVE  rev' \in [Revs -> Revive]
  <2>1. rev' = [rev EXCEPT ![r] = [rev[r] EXCEPT !.plan = "none", !.at = "look"]]
    BY <1>1, Reading
  <2> QED BY <2>1, Reading, SetPlan, SetAt, Put DEF Places, Briefing, Plans
<1>2. ASSUME rev' = [rev EXCEPT ![r].plan = "none", ![r].at = "look", ![r].ready = FALSE]
      PROVE  rev' \in [Revs -> Revive]
  <2>1. rev' = [rev EXCEPT ![r] = [rev[r] EXCEPT !.plan = "none", !.at = "look", !.ready = FALSE]]
    BY <1>2, Reading
  <2> QED BY <2>1, Reading, SetPlan, SetAt, SetReady, Put DEF Places, Briefing, Plans
<1> QED BY <1>1, <1>2, BackType DEF Restore

LEMMA LookType == ASSUME TypeOK, NEW r \in Revs, Look(r) PROVE TypeOK'
<1>1. CASE Go(r, "wait") /\ UNCHANGED lapse
  BY <1>1, GoType, CarriesType DEF Look, TypeOK, Places, Briefing
<1>2. CASE Abandon(r)
  BY <1>2, AbandonType, CarriesType DEF Look, TypeOK
<1> QED BY <1>1, <1>2 DEF Look

LEMMA WaitType == ASSUME TypeOK, NEW r \in Revs, Wait(r) PROVE TypeOK'
<1>1. rev' \in [Revs -> Revive]
  BY GoType, EndsType, ExhaustedType DEF Wait, Places, Briefing
<1> QED BY <1>1, CarriesType DEF Wait, TypeOK

LEMMA TypeType ==
  ASSUME TypeOK, NEW r \in Revs, rev[r].pane \in Panes, Type(r) PROVE TypeOK'
<1>1. CASE Abandon(r) /\ UNCHANGED <<setup, pane>>
  BY <1>1, AbandonType, CarriesType DEF Type, TypeOK
<1>2. CASE Refuses(r) /\ Exhausted(r, FALSE) /\ UNCHANGED <<pane, lapse>>
  BY <1>2, ExhaustedType, CarriesType DEF Type, TypeOK, Refuses
<1>3. CASE /\ Go(r, "stamp") /\ UNCHANGED <<setup, lapse>>
           /\ pane' = IF Mine(r).st \in {"idle", "busy"}
                        THEN [pane EXCEPT ![rev[r].pane].st = "busy", ![rev[r].pane].briefed = TRUE]
                        ELSE pane
  <2>1. pane' \in [Panes -> Pane]
    <3>1. ASSUME pane' = [pane EXCEPT ![rev[r].pane].st = "busy", ![rev[r].pane].briefed = TRUE]
          PROVE  pane' \in [Panes -> Pane]
      <4>1. pane' = [pane EXCEPT ![rev[r].pane] = [pane[rev[r].pane] EXCEPT !.st = "busy",
                                                                           !.briefed = TRUE]]
        BY <3>1 DEF TypeOK
      <4>2. [pane[rev[r].pane] EXCEPT !.st = "busy", !.briefed = TRUE] \in Pane
        <5>1. pane[rev[r].pane] \in Pane
          BY DEF TypeOK
        <5> QED BY <5>1 DEF Pane, Up
      <4> QED BY <4>1, <4>2 DEF TypeOK
    <3> QED BY <1>3, <3>1 DEF TypeOK
  <2> QED BY <1>3, <2>1, GoType, CarriesType DEF Type, TypeOK, Places, Briefing
<1> QED BY <1>1, <1>2, <1>3 DEF Type

LEMMA StampType == ASSUME TypeOK, NEW r \in Revs, Stamp(r) PROVE TypeOK'
<1>1. rev' = [rev EXCEPT ![r] = [rev[r] EXCEPT !.at = "over", !.back = rev[r].ready]]
  BY Reading DEF Stamp
<1>2. rev[r].ready \in BOOLEAN
  BY Reading DEF Revive
<1>3. rev' \in [Revs -> Revive]
  BY <1>1, <1>2, Reading, SetAt, SetBack, Put DEF Places
<1>4. entry' \in [pane : Panes, ended : BOOLEAN, briefed : 0..MaxBoot, owed : BOOLEAN]
  BY Bounds DEF Stamp, Stamped, TypeOK
<1> QED BY <1>3, <1>4, CarriesType DEF Stamp, TypeOK

LEMMA RetryType ==
  ASSUME TypeOK, NEW r \in Revs, rev[r].try < Attempts, Retry(r) PROVE TypeOK'
<1>1. rev' = [rev EXCEPT ![r] = [rev[r] EXCEPT !.at = "brief", !.try = rev[r].try + 1]]
  BY Reading DEF Retry
<1>2. rev[r].try \in 1..Attempts
  BY Reading DEF Revive
<1>3. rev[r].try + 1 \in 1..Attempts
  BY <1>2, Bounds
<1>4. rev' \in [Revs -> Revive]
  BY <1>1, <1>3, Reading, SetAt, SetTry, Put DEF Places, Briefing
<1> QED BY <1>4, CarriesType DEF Retry, TypeOK

LEMMA GiveUpType ==
  ASSUME TypeOK, NEW r \in Revs, rev[r].pane \in Panes, GiveUp(r) PROVE TypeOK'
  BY EndsType, TellsType, CarriesType DEF GiveUp, TypeOK, Things

---------------------------------------------------------------------------
(* A step of a revive changes its own record, and one pane: the one it has  *)
(* or one that it takes into use.                                           *)
Mutable == {"by", "pane", "spawned", "choice", "auto", "outcome", "plan", "await", "try",
            "ready", "notice", "back"}
Same(r, F) == \A f \in Mutable \ F : rev'[r][f] = rev[r][f]
Others(r) == \A q \in Revs \ {r} : rev'[q] = rev[q]
Stays(p) == pane'[p] = pane[p]
Gentle(r, p) ==
  /\ pane'[p].st \in Up \cup {"dead"}
  /\ pane'[p].st = "compacting" => pane[p].st = "compacting"
  /\ pane'[p].st = "gap" => pane[p].st = "gap" \/ Claude
  /\ \/ pane[p].st = "none"
     \/ /\ AtWork(r) /\ rev[r].pane = p
        /\ pane[p].did \subseteq pane'[p].did /\ (pane[p].briefed => pane'[p].briefed)
        /\ pane'[p].cheap = pane[p].cheap \/ rev[r].spawned
Keeps(r) ==
  /\ Others(r) /\ setup'.engine = setup.engine
  /\ UNCHANGED <<boot, listening, heard>>
  /\ lapse \subseteq lapse' /\ told \subseteq told'
  /\ entry'.pane = entry.pane \/ (AtWork(r) /\ entry'.pane = rev[r].pane)
  /\ \A p \in Panes : Stays(p) \/ (p = rev'[r].pane /\ Gentle(r, p))
OwnPlace(r) == /\ rev'[r].pane = rev[r].pane /\ rev'[r].spawned = rev[r].spawned
               /\ AtWork(r)' => AtWork(r)

LEMMA HasPane ==
  ASSUME TypeOK, NEW r \in Revs, Control(r), rev[r].pane # NoPane
  PROVE  rev[r].pane \in Panes
  BY Reading DEF Revive

LEMMA OthersKeep ==
  ASSUME IInv, TypeOK', NEW r \in Revs, Keeps(r), NEW q \in Revs \ {r}
  PROVE  Own(q)'
<1> DEFINE p == rev[q].pane
<1>1. Own(q) /\ TypeOK /\ Own(r) /\ rev'[q] = rev[q]
  BY DEF IInv, RevInv, Keeps, Others
<1>2. p # NoPane => p \in Panes
  BY <1>1, HasPane DEF Own
<1>3. Claude' = Claude /\ (Fair' => Fair)
  BY DEF Keeps, Claude, Fair
<1>4. p # NoPane => pane[p].st # "none"
  BY <1>1 DEF Own, Screen
<1>5. p # NoPane => \/ Stays(p)
                    \/ /\ Gentle(r, p) /\ AtWork(r) /\ rev[r].pane = p
                       /\ pane[p].did \subseteq pane'[p].did
                       /\ pane'[p].cheap = pane[p].cheap \/ rev[r].spawned
  BY <1>2, <1>4 DEF Keeps, Gentle
<1>6. Control(q)' /\ Planned(q)' /\ Noticed(q)'
  BY <1>1, <1>3 DEF Own, Control, Planned, Noticed, Applied
<1>7. Screen(q)'
  <2>1. p # NoPane => pane'[p].st # "none" /\ pane[p].did \subseteq pane'[p].did
    BY <1>4, <1>5 DEF Gentle, Up, Stays
  <2>2. rev[q].plan = "undone" /\ rev[q].at # "over" => ~pane'[p].cheap
    <3> SUFFICES ASSUME rev[q].plan = "undone" /\ rev[q].at # "over" PROVE ~pane'[p].cheap
      OBVIOUS
    <3>1. rev[q].spawned /\ p # NoPane /\ ~pane[p].cheap
      BY <1>1 DEF Own, Planned, Control, Screen
    <3>2. rev[r].pane = p => ~rev[r].spawned
      BY <3>1 DEF IInv, Apart
    <3> QED BY <1>5, <3>1, <3>2 DEF Stays
  <2>3. rev[q].outcome \in {"answered", "injected"} => p # NoPane
    BY <1>1 DEF Own, Control
  <2>4. "hand" \notin lapse' => "hand" \notin lapse
    BY DEF Keeps
  <2> QED BY <1>1, <2>1, <2>2, <2>3, <2>4 DEF Own, Screen
<1>8. Said(q)'
  BY <1>1 DEF Own, Said, ChoiceDue, Keeps
<1>9. Fair' => Undisturbed(q)'
  <2> SUFFICES ASSUME Fair, "joined" \notin lapse PROVE Undisturbed(q)'
    BY <1>3 DEF Fair, Keeps
  <2>1. Undisturbed(q)
    BY <1>1 DEF Own
  <2>2. CASE AtWork(q)
    <3>1. p # NoPane
      BY <1>1, <2>2 DEF Own, Control, AtWork
    <3>2. ~(AtWork(r) /\ rev[r].pane = p)
      BY <2>2 DEF IInv, Apart
    <3>3. Stays(p)
      BY <1>5, <3>1, <3>2
    <3> QED BY <1>1, <2>1, <3>3 DEF Undisturbed, Stays, Awaits
  <2>3. CASE ~AtWork(q)
    BY <1>1, <2>3 DEF Undisturbed, AtWork, Paneless, Unpicked
  <2> QED BY <2>2, <2>3
<1> QED BY <1>6, <1>7, <1>8, <1>9 DEF Own

LEMMA RevKeep ==
  ASSUME IInv, TypeOK', NEW r \in Revs, Keeps(r), Own(r)'
  PROVE  RevInv'
  BY OthersKeep DEF RevInv

LEMMA ApartKeep ==
  ASSUME IInv, NEW r \in Revs, Keeps(r), OwnPlace(r)
  PROVE  Apart'
<1> SUFFICES ASSUME NEW a \in Revs, NEW b \in Revs, a # b, rev'[a].pane = rev'[b].pane
             PROVE  /\ ~(rev'[a].spawned /\ rev'[b].spawned)
                    /\ "joined" \notin lapse' => ~(AtWork(a)' /\ AtWork(b)')
  BY DEF Apart
<1>1. \A q \in Revs : /\ rev'[q].pane = rev[q].pane /\ rev'[q].spawned = rev[q].spawned
                      /\ AtWork(q)' => AtWork(q)
  BY DEF Keeps, Others, OwnPlace, AtWork
<1>2. "joined" \notin lapse' => "joined" \notin lapse
  BY DEF Keeps
<1> QED BY <1>1, <1>2 DEF IInv, Apart

LEMMA PaneKeep ==
  ASSUME IInv, TypeOK', NEW r \in Revs, Keeps(r)
  PROVE  PaneInv'
<1>1. TypeOK /\ PaneInv /\ Own(r) /\ Claude' = Claude
  BY DEF IInv, RevInv, Keeps, Claude
<1>2. \A p \in Panes : pane[p].st # "none" => pane'[p].st # "none"
  BY DEF Keeps, Stays, Gentle, Up
<1>3. pane'[entry'.pane].st # "none"
  <2>1. entry.pane \in Panes /\ pane[entry.pane].st # "none"
    BY <1>1 DEF TypeOK, PaneInv
  <2>2. AtWork(r) => rev[r].pane \in Panes /\ pane[rev[r].pane].st # "none"
    BY <1>1, HasPane DEF Own, Control, AtWork, Screen
  <2> QED BY <1>2, <2>1, <2>2 DEF Keeps
<1>4. \A p \in Panes : pane'[p].st = "compacting" => "compact" \in pane'[p].did
  BY <1>1 DEF Keeps, Stays, Gentle, PaneInv
<1>5. ASSUME ~Claude, "hand" \notin lapse', NEW p \in Panes
      PROVE  pane'[p].st \notin {"gap", "compacting"}
  BY <1>1, <1>5 DEF Keeps, Stays, Gentle, PaneInv
<1> QED BY <1>1, <1>3, <1>4, <1>5 DEF PaneInv, Keeps

LEMMA StampKeep ==
  ASSUME IInv, NEW r \in Revs, Keeps(r), entry'.pane = entry.pane, entry'.briefed = entry.briefed
  PROVE  StampInv'
<1>1. TypeOK /\ StampInv /\ pane[entry.pane].st # "none" /\ entry.pane \in Panes
  BY DEF IInv, PaneInv, TypeOK
<1>2. pane[entry.pane].briefed => pane'[entry.pane].briefed
  BY <1>1 DEF Keeps, Stays, Gentle
<1> QED BY <1>1, <1>2 DEF StampInv, Keeps

LEMMA BackKeep ==
  ASSUME IInv, NEW r \in Revs, Keeps(r),
         rev'[r].back => rev[r].back /\ rev'[r].pane = rev[r].pane
  PROVE  BackInv'
<1> SUFFICES ASSUME NEW q \in Revs, rev'[q].back
             PROVE  \/ rev'[q].pane # NoPane /\ pane'[rev'[q].pane].briefed
                    \/ rev'[q].pane \in heard' \/ {"hand", "joined", "elsewhere"} \cap lapse' # {}
  BY DEF BackInv
<1>1. rev[q].back /\ rev'[q].pane = rev[q].pane
  BY DEF Keeps, Others
<1>2. TypeOK /\ Own(q) /\ BackInv
  BY DEF IInv, RevInv
<1>3. rev[q].pane # NoPane => rev[q].pane \in Panes /\ pane[rev[q].pane].st # "none"
  BY <1>2, HasPane DEF Own, Screen
<1>4. rev[q].pane # NoPane /\ pane[rev[q].pane].briefed => pane'[rev[q].pane].briefed
  BY <1>3 DEF Keeps, Stays, Gentle
<1> QED BY <1>1, <1>2, <1>4 DEF BackInv, Keeps

(* Who answers for a session on the compaction model goes on answering.     *)
Excused == {"unplanned", "unsaid", "carried", "crossed"} \cap lapse # {}
LEMMA PairKeep ==
  ASSUME IInv, NEW r \in Revs, Keeps(r), rev'[r].pane = rev[r].pane,
         entry.owed => entry'.owed,
         ~Excused' /\ rev[r].pane \in Panes /\ Alive(rev[r].pane)' /\ pane'[rev[r].pane].cheap =>
           Answers(rev[r].pane)'
  PROVE  PairInv'
<1> SUFFICES ASSUME ~Excused', NEW p \in Panes, Alive(p)', pane'[p].cheap PROVE Answers(p)'
  BY DEF PairInv, Excused
<1>1. CASE p = rev[r].pane
  BY <1>1
<1>2. CASE p # rev[r].pane
  <2>1. Alive(p) /\ pane[p].cheap /\ ~Excused
    BY <1>2 DEF Keeps, Stays, Alive, Excused
  <2>2. Answers(p)
    BY <2>1 DEF IInv, PairInv, Excused
  <2> QED BY <1>2, <2>2 DEF Answers, Keeps, Others
<1> QED BY <1>1, <1>2

(* The debt is the topic's: paid for one pane, it is paid for all.          *)
LEMMA PairPaid ==
  ASSUME IInv, NEW r \in Revs, Keeps(r), NEW p \in Panes, rev'[r].pane = p,
         \A q \in Panes \ {p} : Stays(q),
         Pays(p) \subseteq lapse', rev[r].pane \in {NoPane, p},
         ~Excused' => ~(Alive(p)' /\ pane'[p].cheap)
  PROVE  PairInv'
<1> SUFFICES ASSUME ~Excused', NEW o \in Panes, Alive(o)', pane'[o].cheap PROVE Answers(o)'
  BY DEF PairInv, Excused
<1>1. o # p
  OBVIOUS
<1>2. Alive(o) /\ pane[o].cheap /\ ~Excused
  BY <1>1 DEF Keeps, Stays, Alive, Excused
<1>3. ~entry.owed
  <2>1. "crossed" \notin Pays(p)
    BY DEF Excused
  <2> QED BY <1>1, <1>2, <2>1 DEF Pays
<1>4. Answers(o)
  BY <1>2 DEF IInv, PairInv, Excused
<1>5. rev[r].pane # o
  BY <1>1, Bounds
<1> QED BY <1>3, <1>4, <1>5 DEF Answers, Keeps, Others

(* A step after which no session is on that model that was not before, and  *)
(* the revive answers for its own as it did.                                *)
LEMMA PairSame ==
  ASSUME IInv, NEW r \in Revs, Others(r), lapse \subseteq lapse', told \subseteq told',
         entry.owed => entry'.owed,
         \A p \in Panes : Alive(p)' /\ pane'[p].cheap => Alive(p) /\ pane[p].cheap,
         \/ rev'[r].plan # "none" /\ rev'[r].at # "over" /\ rev'[r].pane = rev[r].pane
         \/ rev[r].plan = "none" \/ rev[r].at = "over"
         \/ Excused' \/ <<rev[r].pane, "model">> \in told'
         \/ pane[rev[r].pane].st = "dead" \/ ~pane[rev[r].pane].cheap
  PROVE  PairInv'
<1> SUFFICES ASSUME ~Excused', NEW p \in Panes, Alive(p)', pane'[p].cheap PROVE Answers(p)'
  BY DEF PairInv, Excused
<1>1. Alive(p) /\ pane[p].cheap /\ ~Excused
  BY DEF Excused
<1>2. Answers(p)
  BY <1>1 DEF IInv, PairInv, Excused
<1>3. rev[r].pane = p => pane[rev[r].pane].st # "dead" /\ pane[rev[r].pane].cheap
  BY <1>1 DEF Alive, Up
<1> QED BY <1>2, <1>3 DEF Answers, Others

(* All of it for a step that keeps its place, and the stamp.                *)
LEMMA StepKeeps ==
  ASSUME IInv, TypeOK', NEW r \in Revs, Keeps(r), OwnPlace(r), Own(r)',
         entry'.pane = entry.pane, entry'.briefed = entry.briefed,
         rev'[r].back => rev[r].back, PairInv'
  PROVE  IInv'
  BY RevKeep, ApartKeep, PaneKeep, StampKeep, BackKeep DEF IInv, OwnPlace

---------------------------------------------------------------------------
(* One step at a time.                                                      *)
LEMMA Parts ==
  ASSUME IInv, NEW r \in Revs
  PROVE  /\ TypeOK /\ Own(r) /\ Control(r) /\ Planned(r) /\ Noticed(r) /\ Screen(r) /\ Said(r)
         /\ Fair => Undisturbed(r)
         /\ PaneInv /\ StampInv /\ BackInv /\ PairInv
         /\ rev[r] \in Revive /\ (rev[r].pane # NoPane => rev[r].pane \in Panes)
  BY HasPane, Reading DEF IInv, RevInv, Own

(* Nothing changes but the record, which ends or goes on in the same state. *)
LEMMA RecordOnly ==
  ASSUME IInv, TypeOK', NEW r \in Revs, Others(r), setup'.engine = setup.engine,
         UNCHANGED <<boot, daemon, entry, pane, said, listening, heard>>,
         lapse \subseteq lapse', told \subseteq told',
         OwnPlace(r), Own(r)', rev'[r].back => rev[r].back,
         \/ rev'[r].plan # "none" /\ rev'[r].at # "over"
         \/ rev[r].plan = "none" \/ rev[r].at = "over"
         \/ Excused' \/ <<rev[r].pane, "model">> \in told' \/ pane[rev[r].pane].st = "dead"
  PROVE  IInv'
<1>1. Keeps(r)
  BY DEF Keeps, Stays
<1>2. PairInv'
  BY PairSame DEF OwnPlace, Alive
<1> QED BY <1>1, <1>2, StepKeeps

LEMMA GateStep == ASSUME IInv, NEW r \in Revs, Gate(r) PROVE IInv'
<1> USE Parts
<1>1. /\ Same(r, {"choice", "auto", "outcome"}) /\ Others(r) /\ rev[r].at = "gate"
      /\ \/ rev'[r].at = "answer" /\ rev'[r].outcome = "none" /\ rev'[r].choice = "compact"
         \/ rev'[r].at = "quiet" /\ rev'[r].outcome = "absent" /\ rev'[r].choice = "compact"
         \/ /\ rev'[r].at = IF rev[r].choice = "none" THEN "live" ELSE "answer"
            /\ Same(r, {})
  BY DEF Gate, Revive, TypeOK, Same, Mutable, Others, Go
<1>2. UNCHANGED <<boot, daemon, entry, pane, said, listening, told, heard, lapse>>
  BY DEF Gate
<1>3. TypeOK' /\ setup'.engine = setup.engine
  <2>1. rev[r].pane # NoPane
    BY <1>1 DEF Control, Paneless
  <2>2. TypeOK'
    BY <1>1, <2>1, GateType DEF Control
  <2>3. setup'.engine = setup.engine
    BY FaultType DEF Gate
  <2> QED BY <2>2, <2>3
<1>4. Control(r)' /\ Planned(r)' /\ Noticed(r)'
  BY <1>1, <1>2, <1>3 DEF Control, Planned, Noticed, Applied, Claude, Same, Mutable, Paneless,
     Picking, Unpicked, Compacting, Typing, Chained
<1>5. Screen(r)'
  BY <1>1, <1>2 DEF Control, Screen, Same, Mutable, Planned, Paneless, Picking, Unpicked,
     Compacting, Typing, Chained
<1>6. Said(r)'
  BY <1>1, <1>2, <1>3, Bounds DEF Control, Planned, Said, ChoiceDue, Applying, Claude, Same,
     Mutable, Paneless, Picking, Unpicked, Compacting, Typing, Chained
<1>7. (Fair => Undisturbed(r))'
  BY <1>1, <1>2, <1>3 DEF Control, Undisturbed, Fair, Awaits, PaneInv, Applying, Planned, Claude,
     Same, Mutable, Paneless, Picking, Unpicked, Compacting, Typing, Chained
<1>8. OwnPlace(r) /\ (rev'[r].back => rev[r].back)
  BY <1>1 DEF OwnPlace, AtWork, Same, Mutable, Paneless
<1>9. \/ rev'[r].plan # "none" /\ rev'[r].at # "over"
      \/ rev[r].plan = "none" \/ rev[r].at = "over"
      \/ Excused' \/ <<rev[r].pane, "model">> \in told' \/ pane[rev[r].pane].st = "dead"
  BY <1>1, <1>2 DEF Same, Mutable, Planned, Excused, Said, Alive, Up, Paneless, Picking, Unpicked,
     Compacting, Typing, Chained
<1>10. lapse \subseteq lapse' /\ told \subseteq told'
  BY <1>1, <1>2
<1> QED BY <1>1, <1>2, <1>3, <1>4, <1>5, <1>6, <1>7, <1>8, <1>9, <1>10, RecordOnly DEF Own

LEMMA LivePickerStep == ASSUME IInv, NEW r \in Revs, LivePicker(r) PROVE IInv'
<1> USE Parts
<1>1. /\ Same(r, {"choice", "auto", "outcome"}) /\ Others(r) /\ rev[r].at = "live"
      /\ \/ /\ rev'[r].at = "answer" /\ rev'[r].outcome = rev[r].outcome
            /\ rev'[r].choice = "compact"
         \/ rev'[r].at = "bind" /\ rev'[r].outcome = "absent" /\ rev'[r].choice = rev[r].choice
  BY DEF LivePicker, Revive, TypeOK, Same, Mutable, Others, Decides
<1>2. UNCHANGED <<boot, daemon, entry, pane, said, listening, told, heard, lapse>>
  BY DEF LivePicker
<1>3. TypeOK' /\ setup'.engine = setup.engine
  <2>1. rev[r].pane # NoPane
    BY <1>1 DEF Control, Paneless
  <2>2. TypeOK'
    BY <1>1, <2>1, LivePickerType DEF Control
  <2>3. setup'.engine = setup.engine
    BY FaultType DEF LivePicker
  <2> QED BY <2>2, <2>3
<1>4. Control(r)' /\ Planned(r)' /\ Noticed(r)'
  BY <1>1, <1>2, <1>3 DEF Control, Planned, Noticed, Applied, Claude, Same, Mutable, Paneless,
     Picking, Unpicked, Compacting, Typing, Chained
<1>5. Screen(r)'
  BY <1>1, <1>2 DEF Control, Screen, Same, Mutable, Planned, Paneless, Picking, Unpicked,
     Compacting, Typing, Chained
<1>6. Said(r)'
  BY <1>1, <1>2, <1>3, Bounds DEF Control, Planned, Said, ChoiceDue, Applying, Claude, Same,
     Mutable, Paneless, Picking, Unpicked, Compacting, Typing, Chained
<1>7. (Fair => Undisturbed(r))'
  BY <1>1, <1>2, <1>3 DEF Control, Undisturbed, Fair, Awaits, PaneInv, Applying, Planned, Claude,
     Same, Mutable, Paneless, Picking, Unpicked, Compacting, Typing, Chained
<1>8. OwnPlace(r) /\ (rev'[r].back => rev[r].back)
  BY <1>1 DEF OwnPlace, AtWork, Same, Mutable, Paneless
<1>9. \/ rev'[r].plan # "none" /\ rev'[r].at # "over"
      \/ rev[r].plan = "none" \/ rev[r].at = "over"
      \/ Excused' \/ <<rev[r].pane, "model">> \in told' \/ pane[rev[r].pane].st = "dead"
  BY <1>1, <1>2 DEF Same, Mutable, Planned, Excused, Said, Alive, Up, Paneless, Picking, Unpicked,
     Compacting, Typing, Chained
<1>10. lapse \subseteq lapse' /\ told \subseteq told'
  BY <1>1, <1>2
<1> QED BY <1>1, <1>2, <1>3, <1>4, <1>5, <1>6, <1>7, <1>8, <1>9, <1>10, RecordOnly DEF Own

LEMMA AnswerStep == ASSUME IInv, NEW r \in Revs, Answer(r) PROVE IInv'
<1> USE Parts
<1>1. /\ Same(r, {"outcome"}) /\ Others(r) /\ rev[r].at = "answer"
      /\ \/ rev'[r].at = "key" /\ rev'[r].outcome = rev[r].outcome
         \/ /\ rev'[r].outcome = "absent"
            /\ rev'[r].at = IF rev[r].choice = "compact" THEN "quiet" ELSE "bind"
         \/ rev'[r].at = "report" /\ rev'[r].outcome = "failed"
  BY DEF Answer, Revive, TypeOK, Same, Mutable, Others, Go, Decides
<1>2. UNCHANGED <<boot, daemon, entry, pane, said, listening, told, heard, lapse>>
  BY DEF Answer
<1>3. TypeOK' /\ setup'.engine = setup.engine
  <2>1. rev[r].pane # NoPane
    BY <1>1 DEF Control, Paneless
  <2>2. TypeOK'
    BY <1>1, <2>1, AnswerType DEF Control
  <2>3. setup'.engine = setup.engine
    BY FaultType DEF Answer
  <2> QED BY <2>2, <2>3
<1>4. Control(r)' /\ Planned(r)' /\ Noticed(r)'
  BY <1>1, <1>2, <1>3 DEF Control, Planned, Noticed, Applied, Claude, Same, Mutable, Paneless,
     Picking, Unpicked, Compacting, Typing, Chained
<1>5. Screen(r)'
  BY <1>1, <1>2 DEF Control, Screen, Same, Mutable, Planned, Paneless, Picking, Unpicked,
     Compacting, Typing, Chained
<1>6. Said(r)'
  BY <1>1, <1>2, <1>3, Bounds DEF Control, Planned, Said, ChoiceDue, Applying, Claude, Same,
     Mutable, Paneless, Picking, Unpicked, Compacting, Typing, Chained
<1>7. (Fair => Undisturbed(r))'
  BY <1>1, <1>2, <1>3 DEF Control, Undisturbed, Fair, Awaits, PaneInv, Applying, Planned, Claude,
     Same, Mutable, Paneless, Picking, Unpicked, Compacting, Typing, Chained
<1>8. OwnPlace(r) /\ (rev'[r].back => rev[r].back)
  BY <1>1 DEF OwnPlace, AtWork, Same, Mutable, Paneless
<1>9. \/ rev'[r].plan # "none" /\ rev'[r].at # "over"
      \/ rev[r].plan = "none" \/ rev[r].at = "over"
      \/ Excused' \/ <<rev[r].pane, "model">> \in told' \/ pane[rev[r].pane].st = "dead"
  BY <1>1, <1>2 DEF Same, Mutable, Planned, Excused, Said, Alive, Up, Paneless, Picking, Unpicked,
     Compacting, Typing, Chained
<1>10. lapse \subseteq lapse' /\ told \subseteq told'
  BY <1>1, <1>2
<1> QED BY <1>1, <1>2, <1>3, <1>4, <1>5, <1>6, <1>7, <1>8, <1>9, <1>10, RecordOnly DEF Own

LEMMA QuietStep == ASSUME IInv, NEW r \in Revs, Quiet(r) PROVE IInv'
<1> USE Parts
<1>1. /\ Same(r, {"outcome", "plan"}) /\ Others(r) /\ rev[r].at = "quiet"
      /\ \/ Same(r, {}) /\ rev'[r].at = "inject"
         \/ Same(r, {"plan"}) /\ rev'[r].at = "switch" /\ rev'[r].plan = "made"
         \/ Same(r, {"outcome"}) /\ rev'[r].at = "report" /\ rev'[r].outcome = "unable"
  BY DEF Quiet, Revive, TypeOK, Same, Mutable, Others, Go, Decides
<1>2. UNCHANGED <<boot, daemon, entry, pane, said, listening, told, heard, lapse>>
  BY DEF Quiet
<1>3. TypeOK' /\ setup'.engine = setup.engine
  <2>1. rev[r].pane # NoPane
    BY <1>1 DEF Control, Paneless
  <2>2. TypeOK'
    BY <1>1, <2>1, QuietType DEF Control
  <2>3. setup'.engine = setup.engine
    BY FaultType DEF Quiet
  <2> QED BY <2>2, <2>3
<1>4. Control(r)' /\ Planned(r)' /\ Noticed(r)'
  BY <1>1, <1>2, <1>3 DEF Control, Planned, Noticed, Applied, Claude, Same, Mutable, Paneless,
     Picking, Unpicked, Compacting, Typing, Chained
<1>5. Screen(r)'
  BY <1>1, <1>2 DEF Control, Screen, Same, Mutable, Planned, Paneless, Picking, Unpicked,
     Compacting, Typing, Chained
<1>6. Said(r)'
  BY <1>1, <1>2, <1>3, Bounds DEF Control, Planned, Said, ChoiceDue, Applying, Claude, Same,
     Mutable, Paneless, Picking, Unpicked, Compacting, Typing, Chained
<1>7. (Fair => Undisturbed(r))'
  BY <1>1, <1>2, <1>3 DEF Control, Undisturbed, Fair, Awaits, PaneInv, Applying, Planned, Claude,
     Same, Mutable, Paneless, Picking, Unpicked, Compacting, Typing, Chained
<1>8. OwnPlace(r) /\ (rev'[r].back => rev[r].back)
  BY <1>1 DEF OwnPlace, AtWork, Same, Mutable, Paneless
<1>9. \/ rev'[r].plan # "none" /\ rev'[r].at # "over"
      \/ rev[r].plan = "none" \/ rev[r].at = "over"
      \/ Excused' \/ <<rev[r].pane, "model">> \in told' \/ pane[rev[r].pane].st = "dead"
  BY <1>1, <1>2 DEF Same, Mutable, Planned, Excused, Said, Alive, Up, Paneless, Picking, Unpicked,
     Compacting, Typing, Chained
<1>10. lapse \subseteq lapse' /\ told \subseteq told'
  BY <1>1, <1>2
<1> QED BY <1>1, <1>2, <1>3, <1>4, <1>5, <1>6, <1>7, <1>8, <1>9, <1>10, RecordOnly DEF Own

LEMMA ReportStep == ASSUME IInv, NEW r \in Revs, Report(r) PROVE IInv'
<1> USE Parts
<1>1. /\ Same(r, {}) /\ Others(r) /\ rev[r].at = "report"
      /\ lapse \subseteq lapse' /\ told \subseteq told'
      /\ \/ /\ rev'[r].at = "bind" /\ lapse' \subseteq lapse \cup {"unsaid"}
            /\ \/ Warning(r) = "none" \/ "unsaid" \in lapse'
               \/ <<rev[r].pane, Warning(r)>> \in told'
         \/ /\ rev'[r].at = "over"
            /\ lapse' = IF rev[r].plan # "none" THEN lapse \cup {"unplanned"} ELSE lapse
  BY DEF Report, Revive, TypeOK, Same, Mutable, Others, Go, Ends, Tells, Tell, Forfeits
<1>2. UNCHANGED <<boot, daemon, entry, pane, said, listening, heard>>
  BY DEF Report
<1>3. TypeOK' /\ setup'.engine = setup.engine
  <2>1. rev[r].pane # NoPane
    BY <1>1 DEF Control, Paneless
  <2>2. TypeOK'
    BY <1>1, <2>1, ReportType DEF Control
  <2>3. setup'.engine = setup.engine
    BY FaultType DEF Report, Tells
  <2> QED BY <2>2, <2>3
<1>4. Control(r)' /\ Planned(r)' /\ Noticed(r)'
  BY <1>1, <1>2, <1>3 DEF Control, Planned, Noticed, Applied, Claude, Same, Mutable, Paneless,
     Picking, Unpicked, Compacting, Typing, Chained
<1>5. Screen(r)'
  BY <1>1, <1>2 DEF Control, Screen, Same, Mutable, Planned, Paneless, Picking, Unpicked,
     Compacting, Typing, Chained
<1>6. Said(r)'
  BY <1>1, <1>2, <1>3, Bounds DEF Control, Planned, Said, ChoiceDue, Applying, Claude, Same,
     Mutable, Paneless, Picking, Unpicked, Compacting, Typing, Chained, Warning, Revive
<1>7. (Fair => Undisturbed(r))'
  BY <1>1, <1>2, <1>3 DEF Control, Undisturbed, Fair, Awaits, PaneInv, Applying, Planned, Claude,
     Same, Mutable, Paneless, Picking, Unpicked, Compacting, Typing, Chained, Warning, Revive
<1>8. OwnPlace(r) /\ (rev'[r].back => rev[r].back)
  BY <1>1 DEF OwnPlace, AtWork, Same, Mutable, Paneless
<1>9. \/ rev'[r].plan # "none" /\ rev'[r].at # "over"
      \/ rev[r].plan = "none" \/ rev[r].at = "over"
      \/ Excused' \/ <<rev[r].pane, "model">> \in told' \/ pane[rev[r].pane].st = "dead"
  BY <1>1, <1>2 DEF Same, Mutable, Planned, Excused, Said, Alive, Up, Paneless, Picking, Unpicked,
     Compacting, Typing, Chained
<1>10. lapse \subseteq lapse' /\ told \subseteq told'
  BY <1>1, <1>2
<1> QED BY <1>1, <1>2, <1>3, <1>4, <1>5, <1>6, <1>7, <1>8, <1>9, <1>10, RecordOnly DEF Own

LEMMA SettleStep == ASSUME IInv, NEW r \in Revs, Settle(r) PROVE IInv'
<1> USE Parts
<1>1. /\ Same(r, {"await"}) /\ Others(r) /\ rev[r].at = "brief"
      /\ lapse \subseteq lapse' /\ told \subseteq told' /\ lapse' \subseteq lapse \cup {"unsaid"}
      /\ \/ /\ Waits(r) => Mine(r).st \in {"loading", "picker", "idle", "busy"}
            /\ rev'[r].at = IF rev[r].plan = "due" THEN "restore" ELSE "look"
            /\ rev'[r].await = rev[r].await
         \/ /\ Mine(r).st \in {"compacting", "busy", "dead"} /\ rev'[r].await
            /\ rev'[r].at = IF Shows(r, "dead") THEN "over"
                            ELSE IF rev[r].try < Attempts THEN "timer" ELSE "giveup"
            /\ rev[r].plan = "due" /\ rev[r].try = Attempts =>
                 <<rev[r].pane, "model">> \in told' \/ "unsaid" \in lapse'
  BY DEF Settle, Revive, TypeOK, Same, Mutable, Others, Go, Exhausted, Tells, Tell
<1>2. UNCHANGED <<boot, daemon, entry, pane, said, listening, heard>>
  BY DEF Settle
<1>3. TypeOK' /\ setup'.engine = setup.engine
  <2>1. rev[r].pane # NoPane
    BY <1>1 DEF Control, Paneless
  <2>2. TypeOK'
    BY <1>1, <2>1, SettleType DEF Control
  <2>3. setup'.engine = setup.engine
    BY FaultType DEF Settle, Tells
  <2> QED BY <2>2, <2>3
<1>4. Control(r)' /\ Planned(r)' /\ Noticed(r)'
  BY <1>1, <1>2, <1>3 DEF Control, Planned, Noticed, Applied, Claude, Same, Mutable, Paneless,
     Picking, Unpicked, Compacting, Typing, Chained
<1>5. Screen(r)'
  BY <1>1, <1>2 DEF Control, Screen, Same, Mutable, Planned, Paneless, Picking, Unpicked,
     Compacting, Typing, Chained
<1>6. Said(r)'
  <2>1. ChoiceDue(r)' => ChoiceDue(r)
    BY <1>1 DEF ChoiceDue, Same, Mutable
  <2>2. rev[r].pane = rev'[r].pane /\ rev[r].plan = rev'[r].plan
    BY <1>1 DEF Same, Mutable
  <2>3. rev'[r].at = "giveup" => rev[r].try = Attempts
    <3>1. rev[r].try \in 1..Attempts
      BY DEF Revive
    <3> QED BY <1>1, <3>1, Bounds
  <2> QED BY <1>1, <2>1, <2>2, <2>3 DEF Said, Chained, Typing
<1>7. (Fair => Undisturbed(r))'
  BY <1>1, <1>2, <1>3 DEF Control, Undisturbed, Fair, Awaits, PaneInv, Applying, Planned, Claude,
     Same,
     Mutable, Paneless, Picking, Unpicked, Compacting, Typing, Chained, Waits, Mine, Shows, Revive
<1>8. OwnPlace(r) /\ (rev'[r].back => rev[r].back)
  BY <1>1 DEF OwnPlace, AtWork, Same, Mutable, Paneless
<1>9. \/ rev'[r].plan # "none" /\ rev'[r].at # "over"
      \/ rev[r].plan = "none" \/ rev[r].at = "over"
      \/ Excused' \/ <<rev[r].pane, "model">> \in told' \/ pane[rev[r].pane].st = "dead"
  BY <1>1, <1>2 DEF Same, Mutable, Planned, Excused, Said, Alive, Up, Paneless, Picking, Unpicked,
     Compacting, Typing, Chained, Shows, Mine
<1>10. lapse \subseteq lapse' /\ told \subseteq told'
  BY <1>1, <1>2
<1> QED BY <1>1, <1>2, <1>3, <1>4, <1>5, <1>6, <1>7, <1>8, <1>9, <1>10, RecordOnly DEF Own

LEMMA WaitStep == ASSUME IInv, NEW r \in Revs, Wait(r) PROVE IInv'
<1> USE Parts
<1>1. /\ Same(r, {"await"}) /\ Others(r) /\ rev[r].at = "wait"
      /\ \/ rev'[r].at = "over"
         \/ Alive(rev[r].pane) /\ (Claude => ~Working(r)) /\ rev'[r].at = "type"
         \/ Claude /\ rev'[r].at = IF Shows(r, "dead") THEN "over"
                                  ELSE IF rev[r].try < Attempts THEN "timer" ELSE "giveup"
  BY DEF Wait, Revive, TypeOK, Same, Mutable, Others, Go, Ends, Exhausted
<1>2. UNCHANGED <<boot, daemon, entry, pane, said, listening, told, heard, lapse>>
  BY DEF Wait
<1>3. TypeOK' /\ setup'.engine = setup.engine
  <2>1. rev[r].pane # NoPane
    BY <1>1 DEF Control, Paneless
  <2>2. TypeOK'
    BY <1>1, <2>1, WaitType DEF Control
  <2>3. setup'.engine = setup.engine
    BY FaultType DEF Wait
  <2> QED BY <2>2, <2>3
<1>4. Control(r)' /\ Planned(r)' /\ Noticed(r)'
  BY <1>1, <1>2, <1>3 DEF Control, Planned, Noticed, Applied, Claude, Same, Mutable, Paneless,
     Picking, Unpicked, Compacting, Typing, Chained
<1>5. Screen(r)'
  BY <1>1, <1>2 DEF Control, Screen, Same, Mutable, Planned, Paneless, Picking, Unpicked,
     Compacting, Typing, Chained
<1>6. Said(r)'
  BY <1>1, <1>2, <1>3, Bounds DEF Control, Planned, Said, ChoiceDue, Applying, Claude, Same,
     Mutable, Paneless, Picking, Unpicked, Compacting, Typing, Chained, Working, Mine
<1>7. (Fair => Undisturbed(r))'
  BY <1>1, <1>2, <1>3 DEF Control, Undisturbed, Fair, Awaits, PaneInv, Applying, Planned, Claude,
     Same, Mutable, Paneless, Picking, Unpicked, Compacting, Typing, Chained, Working, Mine
<1>8. OwnPlace(r) /\ (rev'[r].back => rev[r].back)
  BY <1>1 DEF OwnPlace, AtWork, Same, Mutable, Paneless
<1>9. \/ rev'[r].plan # "none" /\ rev'[r].at # "over"
      \/ rev[r].plan = "none" \/ rev[r].at = "over"
      \/ Excused' \/ <<rev[r].pane, "model">> \in told' \/ pane[rev[r].pane].st = "dead"
  BY <1>1, <1>2 DEF Same, Mutable, Planned, Excused, Said, Alive, Up, Paneless, Picking, Unpicked,
     Compacting, Typing, Chained
<1>10. lapse \subseteq lapse' /\ told \subseteq told'
  BY <1>1, <1>2
<1> QED BY <1>1, <1>2, <1>3, <1>4, <1>5, <1>6, <1>7, <1>8, <1>9, <1>10, RecordOnly DEF Own

LEMMA RetryStep == ASSUME IInv, NEW r \in Revs, Retry(r) PROVE IInv'
<1> USE Parts
<1>1. /\ Same(r, {"try"}) /\ Others(r) /\ rev[r].at = "timer" /\ rev'[r].at = "brief"
  BY DEF Retry, Revive, TypeOK, Same, Mutable, Others
<1>2. UNCHANGED <<boot, daemon, entry, pane, said, listening, told, heard, lapse>>
  BY DEF Retry
<1>3. TypeOK' /\ setup'.engine = setup.engine
  <2>1. rev[r].pane # NoPane
    BY <1>1 DEF Control, Paneless
  <2>2. TypeOK'
    BY <1>1, <2>1, RetryType DEF Control
  <2>3. setup'.engine = setup.engine
    BY FaultType DEF Retry
  <2> QED BY <2>2, <2>3
<1>4. Control(r)' /\ Planned(r)' /\ Noticed(r)'
  BY <1>1, <1>2, <1>3 DEF Control, Planned, Noticed, Applied, Claude, Same, Mutable, Paneless,
     Picking, Unpicked, Compacting, Typing, Chained
<1>5. Screen(r)'
  BY <1>1, <1>2 DEF Control, Screen, Same, Mutable, Planned, Paneless, Picking, Unpicked,
     Compacting, Typing, Chained
<1>6. Said(r)'
  BY <1>1, <1>2, <1>3, Bounds DEF Control, Planned, Said, ChoiceDue, Applying, Claude, Same,
     Mutable, Paneless, Picking, Unpicked, Compacting, Typing, Chained
<1>7. (Fair => Undisturbed(r))'
  BY <1>1, <1>2, <1>3 DEF Control, Undisturbed, Fair, Awaits, PaneInv, Applying, Planned, Claude,
     Same, Mutable, Paneless, Picking, Unpicked, Compacting, Typing, Chained
<1>8. OwnPlace(r) /\ (rev'[r].back => rev[r].back)
  BY <1>1 DEF OwnPlace, AtWork, Same, Mutable, Paneless
<1>9. \/ rev'[r].plan # "none" /\ rev'[r].at # "over"
      \/ rev[r].plan = "none" \/ rev[r].at = "over"
      \/ Excused' \/ <<rev[r].pane, "model">> \in told' \/ pane[rev[r].pane].st = "dead"
  BY <1>1, <1>2 DEF Same, Mutable, Planned, Excused, Said, Alive, Up, Paneless, Picking, Unpicked,
     Compacting, Typing, Chained
<1>10. lapse \subseteq lapse' /\ told \subseteq told'
  BY <1>1, <1>2
<1> QED BY <1>1, <1>2, <1>3, <1>4, <1>5, <1>6, <1>7, <1>8, <1>9, <1>10, RecordOnly DEF Own

LEMMA GiveUpStep == ASSUME IInv, NEW r \in Revs, GiveUp(r) PROVE IInv'
<1> USE Parts
<1>1. /\ Same(r, {}) /\ Others(r) /\ rev[r].at = "giveup" /\ rev'[r].at = "over"
      /\ lapse \subseteq lapse' /\ told \subseteq told'
  BY DEF GiveUp, Revive, TypeOK, Same, Mutable, Others, Ends, Go, Tells, Tell
<1>2. UNCHANGED <<boot, daemon, entry, pane, said, listening, heard>>
  BY DEF GiveUp
<1>3. TypeOK' /\ setup'.engine = setup.engine
  <2>1. rev[r].pane # NoPane
    BY <1>1 DEF Control, Paneless
  <2>2. TypeOK'
    BY <1>1, <2>1, GiveUpType DEF Control
  <2>3. setup'.engine = setup.engine
    BY FaultType DEF GiveUp, Tells
  <2> QED BY <2>2, <2>3
<1>4. Control(r)' /\ Planned(r)' /\ Noticed(r)'
  BY <1>1, <1>2, <1>3 DEF Control, Planned, Noticed, Applied, Claude, Same, Mutable, Paneless,
     Picking, Unpicked, Compacting, Typing, Chained
<1>5. Screen(r)'
  BY <1>1, <1>2 DEF Control, Screen, Same, Mutable, Planned, Paneless, Picking, Unpicked,
     Compacting, Typing, Chained
<1>6. Said(r)'
  BY <1>1, <1>2, <1>3, Bounds DEF Control, Planned, Said, ChoiceDue, Applying, Claude, Same,
     Mutable, Paneless, Picking, Unpicked, Compacting, Typing, Chained
<1>7. (Fair => Undisturbed(r))'
  BY <1>1, <1>2, <1>3 DEF Control, Undisturbed, Fair, Awaits, PaneInv, Applying, Planned, Claude,
     Same, Mutable, Paneless, Picking, Unpicked, Compacting, Typing, Chained
<1>8. OwnPlace(r) /\ (rev'[r].back => rev[r].back)
  BY <1>1 DEF OwnPlace, AtWork, Same, Mutable, Paneless
<1>9. \/ rev'[r].plan # "none" /\ rev'[r].at # "over"
      \/ rev[r].plan = "none" \/ rev[r].at = "over"
      \/ Excused' \/ <<rev[r].pane, "model">> \in told' \/ pane[rev[r].pane].st = "dead"
  BY <1>1, <1>2 DEF Same, Mutable, Planned, Excused, Said, Alive, Up, Paneless, Picking, Unpicked,
     Compacting, Typing, Chained
<1>10. lapse \subseteq lapse' /\ told \subseteq told'
  BY <1>1, <1>2
<1> QED BY <1>1, <1>2, <1>3, <1>4, <1>5, <1>6, <1>7, <1>8, <1>9, <1>10, RecordOnly DEF Own

(* The steps that type into their pane.                                     *)
LEMMA PaneStep ==
  ASSUME IInv, TypeOK', NEW r \in Revs, Keeps(r), OwnPlace(r), Own(r)', UNCHANGED entry,
         rev'[r].back => rev[r].back, rev[r].pane \in Panes,
         Alive(rev[r].pane)' /\ pane'[rev[r].pane].cheap =>
           Alive(rev[r].pane) /\ pane[rev[r].pane].cheap,
         (rev'[r].plan # "none" /\ rev'[r].at # "over") \/ rev[r].plan = "none"
  PROVE  IInv'
<1>1. ASSUME NEW p \in Panes, Alive(p)', pane'[p].cheap PROVE Alive(p) /\ pane[p].cheap
  <2>1. CASE p = rev[r].pane
    BY <1>1, <2>1 DEF Alive, OwnPlace
  <2>2. CASE p # rev[r].pane
    BY <1>1, <2>2 DEF Keeps, Stays, Alive, OwnPlace
  <2> QED BY <2>1, <2>2
<1>2. PairInv'
  BY <1>1, PairSame DEF Keeps, OwnPlace
<1> QED BY <1>2, StepKeeps

LEMMA KeyStep == ASSUME IInv, NEW r \in Revs, Key(r) PROVE IInv'
<1> DEFINE p == rev[r].pane
<1> USE Parts
<1>1. /\ Same(r, {"outcome"}) /\ Others(r) /\ rev[r].at = "key" /\ rev'[r].pane = p
      /\ \/ rev'[r].outcome = "answered" /\ rev'[r].at = "bind"
         \/ rev'[r].outcome = "failed" /\ rev'[r].at = "report"
  BY DEF Key, Decides, Revive, TypeOK, Same, Mutable, Others
<1>2. UNCHANGED <<boot, daemon, entry, said, listening, told, heard>>
  BY DEF Key
<1>3. p \in Panes /\ Claude /\ rev[r].choice # "none" /\ AtWork(r)
  BY <1>1 DEF Control, Paneless, Picking, Unpicked, AtWork
<1>4. TypeOK' /\ setup'.engine = setup.engine /\ lapse \subseteq lapse'
  BY <1>3, KeyType, FaultType DEF Key
<1>5. /\ \A o \in Panes \ {p} : Stays(o)
      /\ pane'[p].cheap = pane[p].cheap /\ pane'[p].briefed = pane[p].briefed
      /\ pane[p].did \subseteq pane'[p].did
      /\ \/ Stays(p) /\ (rev'[r].outcome = "answered" => "hand" \in lapse')
         \/ Takes(r) /\ pane'[p].st = "busy" /\ "hand" \in lapse'
         \/ /\ pane[p].st = "picker" /\ rev[r].choice \in pane'[p].did
            /\ pane'[p].st = IF rev[r].choice = "compact" THEN "gap" ELSE "idle"
            /\ rev'[r].outcome = "answered"
  <2>1. CASE UNCHANGED pane /\ rev'[r].outcome = "failed"
    BY <2>1 DEF Stays
  <2>2. CASE UNCHANGED pane /\ lapse' = lapse \cup {"hand"}
    BY <2>2 DEF Stays
  <2>3. CASE Takes(r) /\ Becomes(p, "busy") /\ lapse' = lapse \cup {"hand"}
    BY <1>3, <2>3 DEF Stays, Becomes, TypeOK, Pane
  <2>4. CASE Shows(r, "picker") /\ pane' = Chosen(p, rev[r].choice) /\ rev'[r].outcome = "answered"
    BY <1>3, <2>4 DEF Stays, Chosen, TypeOK, Pane, Shows, Mine
  <2> QED BY <1>1, <2>1, <2>2, <2>3, <2>4 DEF Key, Decides, Revive, TypeOK
<1>6. Gentle(r, p) \/ Stays(p)
  BY <1>3, <1>5 DEF Gentle, Up
<1>7. Keeps(r)
  BY <1>1, <1>2, <1>4, <1>5, <1>6 DEF Keeps
<1>8. Control(r)' /\ Planned(r)' /\ Noticed(r)'
  BY <1>1, <1>4 DEF Control, Planned, Noticed, Applied, Claude, Same, Mutable, Paneless, Picking,
     Unpicked, Compacting, Typing, Chained
<1>9. Screen(r)'
  <2>1. pane[p].st # "none" => pane'[p].st # "none"
    BY <1>5 DEF Stays
  <2> QED BY <1>1, <1>3, <1>4, <1>5, <2>1 DEF Screen, Same, Mutable, Stays, Planned, Unpicked
<1>10. Said(r)'
  BY <1>1, <1>4 DEF Said, ChoiceDue, Applying, Same, Mutable, Chained, Typing, Control, Picking,
     Unpicked
<1>11. (Fair => Undisturbed(r))'
  <2> SUFFICES ASSUME "hand" \notin lapse', Fair PROVE Undisturbed(r)'
    BY <1>4 DEF Fair
  <2>1. pane[p].st \notin {"gap", "compacting"}
    BY <1>1 DEF Undisturbed, Unpicked
  <2>2. pane'[p].st \in {"gap", "compacting"} =>
          rev'[r].outcome = "answered" /\ rev[r].choice = "compact"
    BY <1>5, <2>1 DEF Stays
  <2>3. rev'[r].choice = rev[r].choice /\ rev'[r].at \in {"bind", "report"}
    BY <1>1 DEF Same, Mutable
  <2>4. rev'[r].spawned
    BY <1>1 DEF Same, Mutable, Control, Picking, Unpicked
  <2> QED BY <1>1, <2>2, <2>3, <2>4 DEF Undisturbed, Unpicked, Applying
<1>12. OwnPlace(r) /\ (rev'[r].back => rev[r].back) /\ rev[r].plan = "none"
  BY <1>1 DEF OwnPlace, AtWork, Same, Mutable, Paneless, Planned, Unpicked
<1>13. Alive(rev[r].pane)' /\ pane'[rev[r].pane].cheap =>
           Alive(rev[r].pane) /\ pane[rev[r].pane].cheap
  BY <1>1, <1>5 DEF Alive, Stays, Takes, Shows, Mine, Up
<1> QED BY <1>2, <1>3, <1>4, <1>7, <1>8, <1>9, <1>10, <1>11, <1>12, <1>13, PaneStep DEF Own

(* Places at which a session launched here is worked on by claude's own     *)
(* dialogues.                                                               *)
LEMMA PickingFacts ==
  ASSUME IInv, NEW r \in Revs, rev[r].at \in Picking
  PROVE  /\ rev[r].pane \in Panes /\ rev[r].spawned /\ Claude /\ AtWork(r)
         /\ pane[rev[r].pane].st # "none"
<1> USE Parts
<1>1. rev[r].pane # NoPane
  BY DEF Control, Paneless, Picking, Unpicked, Compacting
<1> QED BY <1>1 DEF Control, Screen, AtWork, Paneless, Picking, Unpicked, Compacting

LEMMA SwitchStep == ASSUME IInv, NEW r \in Revs, Switch(r) PROVE IInv'
<1> DEFINE p == rev[r].pane
<1> USE Parts
<1>1. /\ Same(r, {}) /\ Others(r) /\ rev[r].at = "switch" /\ rev'[r].pane = p
      /\ rev'[r].at \in {"inject", "unswitch"}
  BY DEF Switch, Go, Revive, TypeOK, Same, Mutable, Others
<1>2. UNCHANGED <<boot, daemon, entry, said, listening, told, heard, lapse>>
  BY DEF Switch
<1>3. p \in Panes /\ Claude /\ rev[r].spawned /\ AtWork(r) /\ pane[p].st # "none"
  BY <1>1, PickingFacts DEF Picking, Compacting
<1>4. TypeOK' /\ setup'.engine = setup.engine
  BY <1>3, SwitchType, FaultType DEF Switch, Refuses
<1>5. /\ \A o \in Panes \ {p} : Stays(o)
      /\ pane'[p].briefed = pane[p].briefed /\ pane'[p].did = pane[p].did
      /\ pane'[p].st = pane[p].st
  <2>1. ASSUME NEW cheap, pane' = [pane EXCEPT ![p].cheap = cheap]
        PROVE  /\ \A o \in Panes \ {p} : Stays(o)
               /\ pane'[p].briefed = pane[p].briefed /\ pane'[p].did = pane[p].did
               /\ pane'[p].st = pane[p].st
    BY <1>3, <2>1 DEF Stays, TypeOK, Pane
  <2> QED BY <2>1 DEF Switch
<1>6. Gentle(r, p)
  BY <1>3, <1>5 DEF Gentle, TypeOK, Pane
<1>7. Keeps(r)
  BY <1>1, <1>2, <1>4, <1>5, <1>6 DEF Keeps
<1>8. rev[r].plan = "made" /\ rev'[r].plan = "made"
  BY <1>1 DEF Planned, Same, Mutable
<1>9. Control(r)' /\ Planned(r)' /\ Noticed(r)'
  BY <1>1, <1>3, <1>4, <1>8 DEF Control, Planned, Noticed, Applied, Claude, Same, Mutable, Paneless,
     Picking, Unpicked, Compacting, Typing, Chained
<1>10. Screen(r)'
  BY <1>1, <1>2, <1>3, <1>5, <1>8 DEF Screen, Same, Mutable
<1>11. Said(r)'
  BY <1>1 DEF Said, Chained, Typing
<1>12. (Fair => Undisturbed(r))'
  BY <1>1, <1>2, <1>5 DEF Fair, Undisturbed, Unpicked
<1>13. OwnPlace(r) /\ (rev'[r].back => rev[r].back)
  BY <1>1, <1>3 DEF OwnPlace, Same, Mutable
<1>14. PairInv'
  <2>1. Answers(p)'
    BY <1>1, <1>8 DEF Answers
  <2> QED BY <1>1, <1>2, <1>7, <2>1, PairKeep
<1> QED BY <1>2, <1>4, <1>7, <1>9, <1>10, <1>11, <1>12, <1>13, <1>14, StepKeeps DEF Own

LEMMA BecomesDoes ==
  ASSUME TypeOK, NEW p \in Panes, NEW st, Becomes(p, st)
  PROVE  /\ \A o \in Panes \ {p} : Stays(o)
         /\ pane'[p].st = st /\ pane'[p].cheap = pane[p].cheap
         /\ pane'[p].briefed = pane[p].briefed /\ pane'[p].did = pane[p].did
  BY DEF Becomes, Stays, TypeOK, Pane

LEMMA InjectStep == ASSUME IInv, NEW r \in Revs, Inject(r) PROVE IInv'
<1> DEFINE p == rev[r].pane
<1> USE Parts
<1>1. /\ Same(r, {"outcome"}) /\ Others(r) /\ rev[r].at = "inject" /\ rev'[r].pane = p
      /\ \/ rev'[r].at = "start?" /\ rev'[r].outcome = rev[r].outcome
         \/ /\ rev'[r].at = IF rev[r].plan = "made" THEN "unwind" ELSE "report"
            /\ rev'[r].outcome = "unable" /\ UNCHANGED pane
  BY DEF Inject, Go, NotCompacting, Decides, Revive, TypeOK, Same, Mutable, Others
<1>2. UNCHANGED <<boot, daemon, entry, said, listening, told, heard, lapse>>
  BY DEF Inject
<1>3. p \in Panes /\ Claude /\ rev[r].spawned /\ AtWork(r) /\ pane[p].st # "none"
  BY <1>1, PickingFacts DEF Picking, Compacting
<1>4. TypeOK' /\ setup'.engine = setup.engine
  BY <1>3, InjectType, FaultType DEF Inject, Refuses
<1>5. /\ \A o \in Panes \ {p} : Stays(o)
      /\ pane'[p].briefed = pane[p].briefed /\ pane'[p].did = pane[p].did
      /\ pane'[p].cheap = pane[p].cheap
      /\ Stays(p) \/ (pane[p].st \in Up /\ pane'[p].st = "gap")
  BY <1>3, BecomesDoes DEF Inject, Stays, Takes, Shows, Mine, Up
<1>6. Stays(p) \/ Gentle(r, p)
  BY <1>3, <1>5 DEF Gentle, Up
<1>7. Keeps(r)
  BY <1>1, <1>2, <1>4, <1>5, <1>6 DEF Keeps
<1>8. Control(r)' /\ Planned(r)' /\ Noticed(r)'
  BY <1>1, <1>3, <1>4 DEF Control, Planned, Noticed, Applied, Claude, Same, Mutable, Paneless,
     Picking, Unpicked, Compacting, Typing, Chained
<1>9. Screen(r)'
  <2>1. rev'[r].outcome \notin Applying \/ rev'[r].outcome = rev[r].outcome
    BY <1>1 DEF Applying
  <2> QED BY <1>1, <1>2, <1>3, <1>5, <2>1 DEF Screen, Same, Mutable, Stays, Applying
<1>10. Said(r)'
  BY <1>1 DEF Said, Chained, Typing
<1>11. (Fair => Undisturbed(r))'
  BY <1>1, <1>2 DEF Fair, Undisturbed, Unpicked
<1>12. OwnPlace(r) /\ (rev'[r].back => rev[r].back)
  BY <1>1, <1>3 DEF OwnPlace, Same, Mutable
<1>13. Alive(rev[r].pane)' /\ pane'[rev[r].pane].cheap =>
           Alive(rev[r].pane) /\ pane[rev[r].pane].cheap
  BY <1>1, <1>5 DEF Alive, Stays, Up
<1>14. (rev'[r].plan # "none" /\ rev'[r].at # "over") \/ rev[r].plan = "none"
  BY <1>1 DEF Same, Mutable
<1> QED BY <1>2, <1>3, <1>4, <1>7, <1>8, <1>9, <1>10, <1>11, <1>12, <1>13, <1>14, PaneStep DEF Own

LEMMA AwaitStartStep == ASSUME IInv, NEW r \in Revs, AwaitStart(r) PROVE IInv'
<1> DEFINE p == rev[r].pane
<1> USE Parts
<1>1. /\ Same(r, {"outcome"}) /\ Others(r) /\ rev[r].at = "start?" /\ rev'[r].pane = p
      /\ \/ /\ pane[p].st = "compacting" /\ UNCHANGED pane
            /\ rev'[r].at = "report" /\ rev'[r].outcome = "injected"
         \/ /\ rev'[r].at = IF rev[r].plan = "made" THEN "unwind" ELSE "report"
            /\ rev'[r].outcome \in {"refused", "unable"}
            /\ \/ pane[p].st \notin {"gap", "compacting"} /\ UNCHANGED pane
               \/ pane[p].st = "gap" /\ Becomes(p, "idle")
  BY DEF AwaitStart, NotCompacting, Decides, Revive, TypeOK, Same, Mutable, Others, Shows, Mine
<1>2. UNCHANGED <<setup, boot, daemon, entry, said, listening, told, heard, lapse>>
  BY DEF AwaitStart
<1>3. p \in Panes /\ Claude /\ rev[r].spawned /\ AtWork(r) /\ pane[p].st # "none"
  BY <1>1, PickingFacts DEF Picking, Compacting
<1>4. TypeOK'
  BY <1>3, AwaitStartType
<1>5. /\ \A o \in Panes \ {p} : Stays(o)
      /\ pane'[p].briefed = pane[p].briefed /\ pane'[p].did = pane[p].did
      /\ pane'[p].cheap = pane[p].cheap
      /\ \/ Stays(p) /\ pane[p].st = "compacting" /\ rev'[r].outcome = "injected"
         \/ Stays(p) /\ pane[p].st \notin {"gap", "compacting"} /\ rev'[r].outcome \notin Applying
         \/ pane[p].st = "gap" /\ pane'[p].st = "idle" /\ rev'[r].outcome \notin Applying
  BY <1>1, <1>3, BecomesDoes DEF Stays, Applying
<1>6. Stays(p) \/ Gentle(r, p)
  BY <1>3, <1>5 DEF Gentle, Up
<1>7. Keeps(r)
  BY <1>1, <1>2, <1>5, <1>6 DEF Keeps
<1>8. Control(r)' /\ Planned(r)' /\ Noticed(r)'
  BY <1>1, <1>2, <1>3 DEF Control, Planned, Noticed, Applied, Claude, Same, Mutable, Paneless,
     Picking, Unpicked, Compacting, Typing, Chained
<1>9. Screen(r)'
  BY <1>1, <1>2, <1>3, <1>5 DEF Screen, Same, Mutable, Stays, Applying, PaneInv
<1>10. Said(r)'
  BY <1>1 DEF Said, Chained, Typing
<1>11. (Fair => Undisturbed(r))'
  <2>1. rev'[r].choice = "compact" /\ rev'[r].spawned
    BY <1>1, <1>3 DEF Control, Compacting, Same, Mutable
  <2> QED BY <1>1, <1>2, <1>5, <2>1 DEF Fair, Undisturbed, Unpicked, Stays, Applying
<1>12. OwnPlace(r) /\ (rev'[r].back => rev[r].back)
  BY <1>1, <1>3 DEF OwnPlace, Same, Mutable
<1>13. Alive(rev[r].pane)' /\ pane'[rev[r].pane].cheap =>
           Alive(rev[r].pane) /\ pane[rev[r].pane].cheap
  BY <1>1, <1>5 DEF Alive, Stays, Up
<1>14. (rev'[r].plan # "none" /\ rev'[r].at # "over") \/ rev[r].plan = "none"
  BY <1>1 DEF Same, Mutable
<1> QED BY <1>2, <1>3, <1>4, <1>7, <1>8, <1>9, <1>10, <1>11, <1>12, <1>13, <1>14, PaneStep DEF Own

(* The switch back: its pane is off the compaction model, or the debt is on *)
(* record, or the pane is lost.                                             *)
LEMMA BackDoes ==
  ASSUME IInv, NEW r \in Revs, rev[r].spawned, AtWork(r), Others(r), rev'[r].pane = rev[r].pane,
         SwitchedBack(r) \/ NotSwitchedBack(r) \/ PaneLost(r),
         UNCHANGED <<boot, daemon, said, listening, told, heard>>
  PROVE  /\ Keeps(r) /\ PairInv' /\ lapse' \subseteq lapse \cup {"crossed"}
         /\ entry'.pane = entry.pane /\ entry'.briefed = entry.briefed
         /\ pane'[rev[r].pane].st = pane[rev[r].pane].st
         /\ pane'[rev[r].pane].did = pane[rev[r].pane].did
         /\ SwitchedBack(r) => ~pane'[rev[r].pane].cheap
<1> DEFINE p == rev[r].pane
<1> USE Parts
<1>1. p \in Panes /\ pane[p].st # "none"
  BY DEF Control, Screen
<1>2. /\ \A o \in Panes \ {p} : Stays(o)
      /\ pane'[p].briefed = pane[p].briefed /\ pane'[p].did = pane[p].did
      /\ pane'[p].st = pane[p].st
      /\ SwitchedBack(r) => ~pane'[p].cheap
  <2>1. ASSUME NEW cheap, pane' = [pane EXCEPT ![p].cheap = cheap]
        PROVE  /\ \A o \in Panes \ {p} : Stays(o)
               /\ pane'[p].briefed = pane[p].briefed /\ pane'[p].did = pane[p].did
               /\ pane'[p].st = pane[p].st /\ pane'[p].cheap = cheap
    BY <1>1, <2>1 DEF Stays, TypeOK, Pane
  <2>2. CASE SwitchedBack(r)
    BY <2>1, <2>2 DEF SwitchedBack
  <2>3. CASE NotSwitchedBack(r) /\ ~SwitchedBack(r)
    <3>1. PICK cheap : pane' = [pane EXCEPT ![p].cheap = cheap]
      BY <2>3 DEF NotSwitchedBack
    <3> QED BY <2>1, <2>3, <3>1
  <2>4. CASE PaneLost(r) /\ ~SwitchedBack(r)
    BY <2>4 DEF PaneLost, Stays
  <2> QED BY <2>2, <2>3, <2>4
<1>3. Gentle(r, p)
  BY <1>1, <1>2 DEF Gentle, TypeOK, Pane
<1>4. /\ setup'.engine = setup.engine /\ lapse \subseteq lapse'
      /\ lapse' \subseteq lapse \cup {"crossed"}
      /\ entry'.pane = entry.pane /\ entry'.briefed = entry.briefed
  BY FaultType DEF SwitchedBack, NotSwitchedBack, PaneLost, Refuses, TypeOK, Pays
<1>5. Keeps(r)
  BY <1>2, <1>3, <1>4 DEF Keeps
<1>6. CASE SwitchedBack(r)
  <2>1. Pays(p) \subseteq lapse' /\ ~pane'[p].cheap
    BY <1>2, <1>6 DEF SwitchedBack
  <2>2. PairInv'
    BY <1>1, <1>2, <1>5, <2>1, PairPaid
  <2> QED BY <1>2, <1>4, <1>5, <2>2
<1>7. CASE NotSwitchedBack(r)
  <2>1. entry'.owed
    BY <1>7 DEF NotSwitchedBack, TypeOK
  <2>2. PairInv'
    BY <2>1 DEF PairInv, Answers
  <2> QED BY <1>2, <1>4, <1>5, <2>2
<1>8. CASE PaneLost(r)
  <2>1. ~Alive(rev[r].pane)' /\ entry' = entry
    BY <1>2, <1>8 DEF PaneLost, Alive, Shows, Mine, Up
  <2>2. PairInv'
    BY <1>5, <2>1, PairKeep
  <2> QED BY <1>2, <1>4, <1>5, <2>2
<1> QED BY <1>6, <1>7, <1>8

LEMMA UnswitchStep == ASSUME IInv, NEW r \in Revs, Unswitch(r) PROVE IInv'
<1> DEFINE p == rev[r].pane
<1> USE Parts
<1>1. /\ Same(r, {"plan", "outcome"}) /\ Others(r) /\ rev[r].at = "unswitch" /\ rev'[r].pane = p
      /\ \/ /\ SwitchedBack(r) /\ rev'[r].at = "inject" /\ rev'[r].plan = "undone"
            /\ rev'[r].outcome = rev[r].outcome
         \/ rev'[r].at = "report" /\ rev'[r].plan = "none" /\ rev'[r].outcome = "unable"
      /\ SwitchedBack(r) \/ NotSwitchedBack(r) \/ PaneLost(r)
  BY DEF Unswitch, Revive, TypeOK, Same, Mutable, Others
<1>2. UNCHANGED <<boot, daemon, said, listening, told, heard>>
  BY DEF Unswitch
<1>3. p \in Panes /\ Claude /\ rev[r].spawned /\ AtWork(r) /\ pane[p].st # "none"
  BY <1>1, PickingFacts DEF Picking, Compacting
<1>4. TypeOK'
  BY <1>3, UnswitchType
<1>5. /\ Keeps(r) /\ PairInv' /\ lapse' \subseteq lapse \cup {"crossed"}
      /\ entry'.pane = entry.pane /\ entry'.briefed = entry.briefed
      /\ pane'[p].st = pane[p].st /\ pane'[p].did = pane[p].did
      /\ SwitchedBack(r) => ~pane'[p].cheap
  BY <1>1, <1>2, <1>3, BackDoes
<1>6. Control(r)' /\ Planned(r)' /\ Noticed(r)'
  BY <1>1, <1>3, <1>5 DEF Control, Planned, Noticed, Applied, Claude, Same, Mutable, Paneless,
     Picking, Unpicked, Compacting, Typing, Chained, Keeps
<1>7. Screen(r)'
  <2>1. rev'[r].outcome \notin Applying \/ rev'[r].outcome = rev[r].outcome
    BY <1>1 DEF Applying
  <2> QED BY <1>1, <1>3, <1>5, <2>1 DEF Screen, Same, Mutable, Keeps, Applying
<1>8. Said(r)'
  BY <1>1 DEF Said, Chained, Typing
<1>9. (Fair => Undisturbed(r))'
  BY <1>1, <1>5 DEF Fair, Undisturbed, Unpicked, Keeps
<1>10. OwnPlace(r) /\ (rev'[r].back => rev[r].back)
  BY <1>1, <1>3 DEF OwnPlace, Same, Mutable
<1> QED BY <1>4, <1>5, <1>6, <1>7, <1>8, <1>9, <1>10, StepKeeps DEF Own

LEMMA UnwindStep == ASSUME IInv, NEW r \in Revs, Unwind(r) PROVE IInv'
<1> DEFINE p == rev[r].pane
<1> USE Parts
<1>1. /\ Same(r, {"plan"}) /\ Others(r) /\ rev[r].at = "unwind" /\ rev'[r].pane = p
      /\ rev'[r].at = "report" /\ rev'[r].plan = "none"
      /\ SwitchedBack(r) \/ NotSwitchedBack(r) \/ PaneLost(r)
  BY DEF Unwind, Revive, TypeOK, Same, Mutable, Others
<1>2. UNCHANGED <<boot, daemon, said, listening, told, heard>>
  BY DEF Unwind
<1>3. p \in Panes /\ Claude /\ rev[r].spawned /\ AtWork(r) /\ pane[p].st # "none"
  BY <1>1, PickingFacts DEF Picking, Compacting
<1>4. TypeOK'
  BY <1>3, UnwindType
<1>5. /\ Keeps(r) /\ PairInv' /\ lapse' \subseteq lapse \cup {"crossed"}
      /\ entry'.pane = entry.pane /\ entry'.briefed = entry.briefed
      /\ pane'[p].st = pane[p].st /\ pane'[p].did = pane[p].did
  BY <1>1, <1>2, <1>3, BackDoes
<1>6. Control(r)' /\ Planned(r)' /\ Noticed(r)'
  BY <1>1, <1>3, <1>5 DEF Control, Planned, Noticed, Applied, Claude, Same, Mutable, Paneless,
     Picking, Unpicked, Compacting, Typing, Chained, Keeps
<1>7. Screen(r)'
  BY <1>1, <1>3, <1>5 DEF Screen, Same, Mutable, Keeps, Applying
<1>8. Said(r)'
  BY <1>1 DEF Said, Chained, Typing
<1>9. (Fair => Undisturbed(r))'
  BY <1>1, <1>5 DEF Fair, Undisturbed, Unpicked, Keeps
<1>10. OwnPlace(r) /\ (rev'[r].back => rev[r].back)
  BY <1>1, <1>3 DEF OwnPlace, Same, Mutable
<1> QED BY <1>4, <1>5, <1>6, <1>7, <1>8, <1>9, <1>10, StepKeeps DEF Own

LEMMA RestoreStep == ASSUME IInv, NEW r \in Revs, Restore(r) PROVE IInv'
<1> DEFINE p == rev[r].pane
<1> USE Parts
<1>1. /\ Same(r, {"plan", "ready"}) /\ Others(r) /\ rev[r].at = "restore" /\ rev'[r].pane = p
      /\ rev'[r].at = "look" /\ rev'[r].plan = "none"
      /\ SwitchedBack(r) \/ NotSwitchedBack(r) \/ PaneLost(r)
  BY DEF Restore, Revive, TypeOK, Same, Mutable, Others
<1>2. UNCHANGED <<boot, daemon, said, listening, told, heard>>
  BY DEF Restore
<1>3. p \in Panes /\ rev[r].spawned /\ AtWork(r) /\ pane[p].st # "none"
  BY <1>1 DEF Control, Planned, AtWork, Paneless, Screen
<1>4. TypeOK'
  BY <1>3, RestoreType
<1>5. /\ Keeps(r) /\ PairInv' /\ lapse' \subseteq lapse \cup {"crossed"}
      /\ entry'.pane = entry.pane /\ entry'.briefed = entry.briefed
      /\ pane'[p].st = pane[p].st /\ pane'[p].did = pane[p].did
  BY <1>1, <1>2, <1>3, BackDoes
<1>6. Control(r)' /\ Planned(r)' /\ Noticed(r)'
  BY <1>1, <1>3, <1>5 DEF Control, Planned, Noticed, Applied, Claude, Same, Mutable, Paneless,
     Picking, Unpicked, Compacting, Typing, Chained, Keeps
<1>7. Screen(r)'
  BY <1>1, <1>3, <1>5 DEF Screen, Same, Mutable, Keeps, Applying
<1>8. Said(r)'
  BY <1>1, <1>2, <1>5 DEF Said, ChoiceDue, Same, Mutable, Chained, Typing, Keeps
<1>9. (Fair => Undisturbed(r))'
  BY <1>1, <1>3, <1>5 DEF Fair, Undisturbed, Unpicked, Keeps
<1>10. OwnPlace(r) /\ (rev'[r].back => rev[r].back)
  BY <1>1, <1>3 DEF OwnPlace, Same, Mutable
<1> QED BY <1>4, <1>5, <1>6, <1>7, <1>8, <1>9, <1>10, StepKeeps DEF Own

(* A call that raises: the revive ends, and what it had in hand is lost.    *)
LEMMA RaisesStep == ASSUME IInv, NEW r \in Revs, Raises(r) PROVE IInv'
<1> DEFINE p == rev[r].pane
<1> USE Parts
<1>1. /\ Same(r, {}) /\ Others(r) /\ rev'[r].at = "over" /\ rev'[r].pane = p
      /\ rev[r].at \in Compacting \cup Briefing \cup {"quiet", "timer"}
  <2>1. rev' = [rev EXCEPT ![r].at = "over"]
    BY DEF Raises, Ends, Go
  <2>2. rev[r].at \in Compacting \cup Briefing \cup {"quiet", "timer"}
    <3>1. rev[r].at \in Unguarded \cup Briefing \cup {"timer"}
      BY DEF Raises
    <3>2. Unguarded = Compacting \cup {"quiet"}
      BY DEF Unguarded, Compacting
    <3> QED BY <3>1, <3>2
  <2>3. rev'[r] = [rev[r] EXCEPT !.at = "over"] /\ Others(r)
    BY <2>1 DEF TypeOK, Others
  <2>4. Same(r, {}) /\ rev'[r].at = "over" /\ rev'[r].pane = p
    BY <2>3 DEF Revive, Same, Mutable
  <2> QED BY <2>2, <2>3, <2>4
<1>2. UNCHANGED <<boot, daemon, entry, said, listening, told, heard>>
  BY DEF Raises
<1>3. p \in Panes /\ AtWork(r) /\ pane[p].st # "none" /\ pane[p] \in Pane
  BY <1>1 DEF Control, AtWork, Paneless, Compacting, Briefing, Screen, TypeOK
<1>4. /\ lapse \subseteq lapse' /\ lapse' \subseteq lapse \cup {"raised", "unplanned"}
      /\ rev[r].plan # "none" => Excused'
  BY DEF Raises, Forfeits, Excused
<1>5. PICK cheap \in MayBeCheap(r) : pane' = [pane EXCEPT ![p].cheap = cheap]
  BY DEF Raises
<1>6. cheap \in BOOLEAN
  BY <1>3, <1>5 DEF MayBeCheap, Mine, Pane
<1>7. cheap = pane[p].cheap \/ (rev[r].plan # "none" /\ rev[r].spawned)
  BY <1>5 DEF MayBeCheap, Mine, Planned
<1>8. /\ pane'[p].cheap = cheap /\ \A q \in Panes \ {p} : Stays(q)
      /\ pane'[p].st = pane[p].st /\ pane'[p].did = pane[p].did
      /\ pane'[p].briefed = pane[p].briefed /\ pane'[p].name = pane[p].name
  BY <1>3, <1>5 DEF TypeOK, Stays, Pane
<1>9. TypeOK' /\ setup'.engine = setup.engine
  <2>1. pane' = [pane EXCEPT ![p] = [pane[p] EXCEPT !.cheap = cheap]]
    BY <1>5 DEF TypeOK
  <2>2. [pane[p] EXCEPT !.cheap = cheap] \in Pane
    BY <1>3, <1>6 DEF Pane
  <2>3. pane' \in [Panes -> Pane]
    BY <2>1, <2>2 DEF TypeOK
  <2>4. rev' \in [Revs -> Revive]
    BY EndsType DEF Raises
  <2>5. Fault
    BY DEF Raises
  <2>6. entry' \in [pane : Panes, ended : BOOLEAN, briefed : 0..MaxBoot, owed : BOOLEAN]
    BY <1>2 DEF TypeOK
  <2>7. lapse' \subseteq Lapses /\ told' \subseteq Panes \X Things
    BY <1>2, <1>4 DEF TypeOK, Lapses
  <2> QED BY <1>2, <2>3, <2>4, <2>5, <2>6, <2>7, CarriesType, FaultType
<1>10. Keeps(r)
  <2>1. Gentle(r, p)
    BY <1>3, <1>7, <1>8 DEF Gentle, Pane
  <2> QED BY <1>1, <1>2, <1>4, <1>8, <1>9, <2>1 DEF Keeps
<1>11. PairInv'
  <2>1. ASSUME ~Excused', Alive(p)', pane'[p].cheap PROVE Answers(p)'
    <3>1. rev[r].plan = "none" /\ ~Excused
      BY <1>4, <2>1 DEF Excused
    <3>2. pane[p].cheap /\ Alive(p)
      BY <1>1, <1>7, <1>8, <2>1, <3>1 DEF Alive
    <3>3. Answers(p)
      BY <1>3, <3>1, <3>2 DEF PairInv, Excused
    <3> QED BY <1>1, <1>2, <3>1, <3>3 DEF Answers, Others
  <2> QED BY <1>1, <1>2, <1>10, <2>1, PairKeep
<1>12. Control(r)' /\ Planned(r)' /\ Noticed(r)'
  BY <1>1, <1>9 DEF Control, Planned, Noticed, Applied, Claude, Same, Mutable, Paneless, Picking,
     Unpicked, Compacting, Typing, Chained
<1>13. Screen(r)'
  BY <1>1, <1>3, <1>4, <1>8 DEF Screen, Same, Mutable
<1>14. Said(r)' /\ (Fair => Undisturbed(r))'
  BY <1>1 DEF Said, Undisturbed, Chained, Typing, Unpicked
<1>15. OwnPlace(r) /\ (rev'[r].back => rev[r].back)
  BY <1>1, <1>3 DEF OwnPlace, Same, Mutable
<1> QED BY <1>2, <1>9, <1>10, <1>11, <1>12, <1>13, <1>14, <1>15, StepKeeps DEF Own

(* A bind moves the topic to the pane; its stamp is a new pane's, or is     *)
(* another's.                                                               *)
LEMMA BindStep == ASSUME IInv, NEW r \in Revs, Bind(r) PROVE IInv'
<1> DEFINE p == rev[r].pane
<1> USE Parts
<1>1. /\ Same(r, {"notice", "await", "plan"}) /\ Others(r) /\ rev[r].at = "bind" /\ rev'[r].pane = p
      /\ \/ /\ Same(r, {}) /\ rev'[r].at = "over" /\ UNCHANGED entry
            /\ lapse' = IF rev[r].plan # "none" THEN lapse \cup {"unplanned"} ELSE lapse
         \/ /\ rev'[r].notice = Applied(r) /\ rev'[r].await = (Applied(r) = "compact")
            /\ rev'[r].plan = IF rev[r].outcome = "injected" /\ rev[r].plan # "none"
                                THEN "due" ELSE "none"
            /\ rev'[r].at \in {"bound", "brief", "over"}
            /\ rev'[r].at = "over" => ~rev[r].spawned
            /\ entry'.pane = p /\ entry'.owed = entry.owed
            /\ entry'.briefed = IF rev[r].spawned THEN 0 ELSE entry.briefed
            /\ lapse' = IF ~rev[r].spawned /\ p # entry.pane /\ entry.briefed = boot.now
                          THEN lapse \cup {"inherited"} ELSE lapse
  BY DEF Bind, Ends, Go, Revive, TypeOK, Same, Mutable, Others, Forfeits, Bound, NeedsBrief
<1>2. UNCHANGED <<boot, daemon, pane, said, listening, told, heard>>
  BY DEF Bind
<1>3. p \in Panes /\ AtWork(r) /\ pane[p].st # "none"
  BY <1>1 DEF Control, AtWork, Paneless, Screen
<1>4. TypeOK' /\ setup'.engine = setup.engine /\ lapse \subseteq lapse'
  BY <1>1, <1>3, BindType, FaultType DEF Bind
<1>5. Keeps(r)
  BY <1>1, <1>2, <1>3, <1>4 DEF Keeps, Stays
<1>6. Control(r)'
  BY <1>1, <1>4 DEF Control, Claude, Same, Mutable, Paneless, Picking, Unpicked, Compacting
<1>7. Planned(r)'
  BY <1>1, <1>4 DEF Planned, Claude, Same, Mutable, Paneless, Unpicked, Typing, Chained
<1>8. Noticed(r)'
  <2>1. rev'[r].outcome = rev[r].outcome /\ rev'[r].choice = rev[r].choice
    BY <1>1 DEF Same, Mutable
  <2>2. rev[r].notice = "none" /\ (Same(r, {}) => rev'[r].notice = "none")
    BY <1>1 DEF Noticed, Same, Mutable
  <2>3. Applied(r)' = Applied(r)
    BY <2>1 DEF Applied
  <2> QED BY <1>1, <2>2, <2>3 DEF Noticed, Paneless, Picking, Unpicked, Compacting
<1>9. Screen(r)'
  BY <1>1, <1>2, <1>3, <1>4 DEF Screen, Same, Mutable, Applying, Planned
<1>10. Said(r)'
  BY <1>1, <1>2, <1>4 DEF Said, ChoiceDue, Same, Mutable, Chained, Typing
<1>11. (Fair => Undisturbed(r))'
  <2> SUFFICES ASSUME Fair PROVE Undisturbed(r)'
    BY <1>4 DEF Fair
  <2>1. /\ rev'[r].spawned = rev[r].spawned /\ rev'[r].at \in {"bound", "brief", "over"}
    BY <1>1 DEF Same, Mutable
  <2>2. pane[p].st \in {"gap", "compacting"} =>
          IF rev[r].spawned THEN rev[r].outcome \in Applying /\ rev[r].choice = "compact"
                            ELSE pane[p].st # "gap"
    BY <1>1 DEF Undisturbed
  <2>3. rev[r].outcome \in Applying /\ rev[r].choice = "compact" => Applied(r) = "compact"
    BY DEF Applied, Applying
  <2> QED BY <1>1, <1>2, <2>1, <2>2, <2>3 DEF Undisturbed, Unpicked, Awaits
<1>12. OwnPlace(r) /\ (rev'[r].back => rev[r].back)
  BY <1>1, <1>3 DEF OwnPlace, Same, Mutable
<1>13. PairInv'
  <2>1. \/ rev'[r].plan # "none" /\ rev'[r].at # "over"
        \/ rev[r].plan = "none" \/ Excused' \/ ~pane[p].cheap
    BY <1>1, <1>3 DEF Planned, Excused, Screen, Plans, Revive
  <2> QED BY <1>1, <1>2, <1>4, <2>1, PairSame DEF Alive
<1>14. StampInv'
  <2>1. CASE UNCHANGED entry
    BY <1>2, <1>4, <2>1 DEF StampInv
  <2>2. CASE entry'.pane = p /\ entry'.briefed = IF rev[r].spawned THEN 0 ELSE entry.briefed
    <3>1. 0 < boot.now
      BY DEF TypeOK
    <3>2. entry'.briefed = boot.now => ~rev[r].spawned /\ entry.briefed = boot.now
      BY <2>2, <3>1
    <3>3. entry'.briefed = boot.now /\ "inherited" \notin lapse' => p = entry.pane
      BY <1>1, <2>2, <3>2
    <3> QED BY <1>2, <1>4, <2>2, <3>1, <3>2, <3>3, Bounds DEF StampInv, TypeOK
  <2> QED BY <1>1, <2>1, <2>2
<1> QED BY <1>4, <1>5, <1>6, <1>7, <1>8, <1>9, <1>10, <1>11, <1>12, <1>13, <1>14, RevKeep,
   ApartKeep, PaneKeep, BackKeep DEF Own, IInv, OwnPlace

LEMMA OverDoes ==
  ASSUME TypeOK, NEW r \in Revs, NEW back,
         rev' = [rev EXCEPT ![r].at = "over", ![r].back = back]
  PROVE  Same(r, {"back"}) /\ Others(r) /\ rev'[r].at = "over" /\ rev'[r].back = back
<1> DEFINE e == [rev[r] EXCEPT !.at = "over", !.back = back]
<1>1. rev' = [rev EXCEPT ![r] = e]
  BY Reading
<1>2. e.at = "over" /\ e.back = back /\ \A f \in Mutable \ {"back"} : e[f] = rev[r][f]
  <2>1. rev[r] \in Revive
    BY Reading
  <2> QED BY <2>1 DEF Revive, Mutable
<1> HIDE DEF e
<1> QED BY <1>1, <1>2, Reading DEF Same, Others
LEMMA AwaitDoes ==
  ASSUME TypeOK, NEW r \in Revs, NEW place, NEW waits,
         rev' = [rev EXCEPT ![r].at = place, ![r].await = waits]
  PROVE  Same(r, {"await"}) /\ Others(r) /\ rev'[r].at = place /\ rev'[r].await = waits
<1> DEFINE e == [rev[r] EXCEPT !.at = place, !.await = waits]
<1>1. rev' = [rev EXCEPT ![r] = e]
  BY Reading
<1>2. e.at = place /\ e.await = waits /\ \A f \in Mutable \ {"await"} : e[f] = rev[r][f]
  <2>1. rev[r] \in Revive
    BY Reading
  <2> QED BY <2>1 DEF Revive, Mutable
<1> HIDE DEF e
<1> QED BY <1>1, <1>2, Reading DEF Same, Others

(* A briefing left: what is said of a session that listens is so.           *)
LEMMA AbandonStep ==
  ASSUME IInv, TypeOK', NEW r \in Revs, rev[r].at \in {"look", "type"}, Abandon(r),
         UNCHANGED <<setup, boot, daemon, entry, pane, said, listening, told, heard>>
  PROVE  IInv'
<1> DEFINE p == rev[r].pane
<1> USE Parts
<1>1. /\ Same(r, {"back"}) /\ Others(r) /\ rev'[r].pane = p /\ rev'[r].at = "over"
      /\ rev'[r].back => Claude /\ listening # NoPane /\ Alive(p) /\ entry.pane = p
      /\ lapse' = IF Claude /\ entry.pane = p /\ listening # p THEN lapse \cup {"elsewhere"} ELSE lapse
  <2> DEFINE back == /\ rev[r].ready /\ Claude /\ listening # NoPane
                     /\ Alive(p) /\ entry.pane = p
  <2>1. rev' = [rev EXCEPT ![r].at = "over", ![r].back = back]
    BY DEF Abandon
  <2>2. back => Claude /\ listening # NoPane /\ Alive(p) /\ entry.pane = p
    OBVIOUS
  <2> HIDE DEF back
  <2>3. Same(r, {"back"}) /\ Others(r) /\ rev'[r].at = "over" /\ rev'[r].back = back
    BY <2>1, OverDoes
  <2> QED BY <2>2, <2>3 DEF Abandon, Same, Mutable
<1>2. p \in Panes /\ AtWork(r) /\ pane[p].st # "none" /\ rev[r].plan = "none"
  BY DEF Control, AtWork, Paneless, Screen, Planned, Typing
<1>3. Keeps(r)
  BY <1>1 DEF Keeps, Stays
<1>4. Control(r)' /\ Planned(r)' /\ Noticed(r)'
  BY <1>1, <1>2 DEF Control, Planned, Noticed, Applied, Claude, Same, Mutable, Paneless, Picking,
     Unpicked, Compacting, Typing, Chained
<1>5. Screen(r)' /\ Said(r)' /\ (Fair => Undisturbed(r))'
  BY <1>1, <1>2 DEF Screen, Said, Undisturbed, Same, Mutable, Chained, Typing, Unpicked
<1>6. OwnPlace(r)
  BY <1>1, <1>2 DEF OwnPlace, Same, Mutable
<1>7. PairInv'
  BY <1>1, <1>2, PairSame DEF Alive
<1>8. BackInv'
  <2> SUFFICES ASSUME NEW q \in Revs, rev'[q].back
               PROVE  \/ rev'[q].pane # NoPane /\ pane'[rev'[q].pane].briefed
                      \/ rev'[q].pane \in heard' \/ {"hand", "joined", "elsewhere"} \cap lapse' # {}
    BY DEF BackInv
  <2>1. CASE q = r
    BY <1>1, <2>1 DEF PaneInv
  <2>2. CASE q # r
    BY <1>1, <2>2 DEF BackInv, Others
  <2> QED BY <2>1, <2>2
<1> QED BY <1>3, <1>4, <1>5, <1>6, <1>7, <1>8, RevKeep, ApartKeep, PaneKeep, StampKeep DEF Own, IInv

LEMMA LookStep == ASSUME IInv, NEW r \in Revs, Look(r) PROVE IInv'
<1> USE Parts
<1>1. TypeOK' /\ rev[r].at = "look"
  BY LookType DEF Look
<1>2. CASE Abandon(r)
  BY <1>1, <1>2, AbandonStep DEF Look
<1>3. CASE Go(r, "wait") /\ UNCHANGED lapse
  <2>1. Same(r, {}) /\ Others(r) /\ rev'[r].at = "wait"
    BY <1>3 DEF Go, Revive, TypeOK, Same, Mutable, Others
  <2>2. UNCHANGED <<setup, boot, daemon, entry, pane, said, listening, told, heard, lapse>>
    BY <1>3 DEF Look
  <2>3. Control(r)' /\ Planned(r)' /\ Noticed(r)'
    BY <1>1, <2>1, <2>2 DEF Control, Planned, Noticed, Applied, Claude, Same, Mutable, Paneless,
       Picking, Unpicked, Compacting, Typing, Chained
  <2>4. Screen(r)' /\ Said(r)'
    BY <1>1, <2>1, <2>2 DEF Screen, Said, ChoiceDue, Same, Mutable, Chained, Typing
  <2>5. (Fair => Undisturbed(r))'
    BY <1>1, <2>1, <2>2 DEF Fair, Undisturbed, Same, Mutable, Unpicked
  <2>6. OwnPlace(r) /\ (rev'[r].back => rev[r].back) /\ rev[r].plan = "none"
    BY <1>1, <2>1 DEF OwnPlace, AtWork, Paneless, Same, Mutable, Planned, Typing
  <2> QED BY <1>1, <2>1, <2>2, <2>3, <2>4, <2>5, <2>6, RecordOnly DEF Own
<1> QED BY <1>2, <1>3 DEF Look

(* A line taken by a session that compacts, or is about to, is not the      *)
(* briefing's: Undisturbed.                                                 *)
LEMMA TypeStep == ASSUME IInv, NEW r \in Revs, Type(r) PROVE IInv'
<1> DEFINE p == rev[r].pane
<1> USE Parts
<1>1. rev[r].at = "type" /\ p \in Panes /\ AtWork(r) /\ pane[p].st # "none" /\ rev[r].plan = "none"
  BY DEF Type, Control, Screen, AtWork, Paneless, Planned, Typing
<1>2. TypeOK' /\ setup'.engine = setup.engine
  BY <1>1, TypeType, FaultType DEF Type, Refuses
<1>3. UNCHANGED <<boot, daemon, entry, said, listening, told, heard>>
  BY DEF Type
<1>4. CASE Abandon(r) /\ UNCHANGED <<setup, pane>>
  BY <1>1, <1>2, <1>3, <1>4, AbandonStep
<1>5. CASE Exhausted(r, FALSE) /\ UNCHANGED <<pane, lapse>>
  <2>1. /\ Same(r, {"await"}) /\ Others(r) /\ rev'[r].pane = p
        /\ \/ rev'[r].at \in {"over", "giveup"}
           \/ rev'[r].at = "timer" /\ rev[r].try < Attempts
    <3>1. PICK place : /\ rev' = [rev EXCEPT ![r].at = place, ![r].await = FALSE]
                       /\ \/ place \in {"over", "giveup"}
                          \/ place = "timer" /\ rev[r].try < Attempts
      BY <1>5 DEF Exhausted
    <3>2. Same(r, {"await"}) /\ Others(r) /\ rev'[r].at = place
      BY <3>1, AwaitDoes
    <3> QED BY <3>1, <3>2 DEF Same, Mutable
  <2>2. Control(r)' /\ Planned(r)' /\ Noticed(r)'
    BY <1>1, <1>2, <2>1 DEF Control, Planned, Noticed, Applied, Claude, Same, Mutable, Paneless,
       Picking, Unpicked, Compacting, Typing, Chained
  <2>3. Screen(r)' /\ Said(r)'
    BY <1>1, <1>3, <1>5, <2>1 DEF Screen, Said, ChoiceDue, Same, Mutable, Chained, Typing
  <2>4. (Fair => Undisturbed(r))'
    BY <1>1, <1>5, <2>1 DEF Fair, Undisturbed, Unpicked
  <2>5. OwnPlace(r) /\ (rev'[r].back => rev[r].back)
    BY <1>1, <2>1 DEF OwnPlace, Same, Mutable
  <2> QED BY <1>1, <1>2, <1>3, <1>5, <2>1, <2>2, <2>3, <2>4, <2>5, RecordOnly DEF Own
<1>6. CASE /\ Go(r, "stamp") /\ UNCHANGED <<setup, lapse>>
           /\ pane' = IF Mine(r).st \in {"idle", "busy"}
                        THEN [pane EXCEPT ![p].st = "busy", ![p].briefed = TRUE]
                        ELSE pane
           /\ Mine(r).st \in {"idle", "busy", "gap", "compacting"}
  <2>1. Same(r, {}) /\ Others(r) /\ rev'[r].pane = p /\ rev'[r].at = "stamp"
    BY <1>6 DEF Go, Revive, TypeOK, Same, Mutable, Others
  <2>2. /\ \A o \in Panes \ {p} : Stays(o)
        /\ pane'[p].did = pane[p].did /\ pane'[p].cheap = pane[p].cheap
        /\ \/ Stays(p) /\ pane[p].st \in {"gap", "compacting"}
           \/ pane'[p].briefed /\ pane[p].st \in {"idle", "busy"} /\ pane'[p].st = "busy"
    <3>1. CASE Mine(r).st \in {"idle", "busy"}
      BY <1>1, <1>6, <3>1 DEF Mine, Stays, TypeOK, Pane
    <3>2. CASE Mine(r).st \notin {"idle", "busy"}
      BY <1>6, <3>2 DEF Mine, Stays
    <3> QED BY <3>1, <3>2
  <2>3. Stays(p) \/ Gentle(r, p)
    BY <1>1, <2>2 DEF Gentle, Up
  <2>4. Keeps(r)
    BY <1>2, <1>3, <1>6, <2>1, <2>2, <2>3 DEF Keeps
  <2>5. Control(r)' /\ Planned(r)' /\ Noticed(r)'
    BY <1>1, <1>2, <2>1 DEF Control, Planned, Noticed, Applied, Claude, Same, Mutable, Paneless,
       Picking, Unpicked, Compacting, Typing, Chained
  <2>6. Screen(r)'
    BY <1>1, <1>6, <2>1, <2>2 DEF Screen, Same, Mutable, Stays
  <2>7. Said(r)'
    BY <1>1, <1>3, <1>6, <2>1 DEF Said, ChoiceDue, Same, Mutable, Chained, Typing
  <2>8. (Fair => Undisturbed(r))'
    BY <1>1, <1>6, <2>1, <2>2 DEF Fair, Undisturbed, Unpicked
  <2>9. OwnPlace(r) /\ (rev'[r].back => rev[r].back)
    BY <1>1, <2>1 DEF OwnPlace, Same, Mutable
  <2>10. Alive(rev[r].pane)' /\ pane'[rev[r].pane].cheap =>
            Alive(rev[r].pane) /\ pane[rev[r].pane].cheap
    BY <2>1, <2>2 DEF Alive, Stays, Up
  <2> QED BY <1>1, <1>2, <1>3, <2>4, <2>5, <2>6, <2>7, <2>8, <2>9, <2>10, PaneStep DEF Own
<1> QED BY <1>4, <1>5, <1>6 DEF Type

LEMMA StampStep == ASSUME IInv, NEW r \in Revs, Stamp(r) PROVE IInv'
<1> DEFINE p == rev[r].pane
<1> USE Parts
<1>1. /\ Same(r, {"back"}) /\ Others(r) /\ rev[r].at = "stamp" /\ rev'[r].pane = p
      /\ rev'[r].at = "over"
  BY OverDoes DEF Stamp, Same, Mutable
<1>2. UNCHANGED <<setup, boot, daemon, pane, said, listening, told, heard, lapse>>
  BY DEF Stamp
<1>3. p \in Panes /\ AtWork(r) /\ rev[r].plan = "none"
  BY <1>1 DEF Control, AtWork, Paneless, Planned, Typing
<1>4. /\ TypeOK' /\ entry'.pane = entry.pane /\ entry'.owed = entry.owed
      /\ entry' = entry \/ (entry.pane = p /\ entry'.briefed = boot.now)
  BY StampType DEF Stamp, Stamped, TypeOK
<1>5. Fair => pane[p].briefed
  BY <1>1 DEF Undisturbed
<1>6. Keeps(r)
  BY <1>1, <1>2, <1>3, <1>4 DEF Keeps, Stays
<1>7. Control(r)' /\ Planned(r)' /\ Noticed(r)'
  BY <1>1, <1>2, <1>3 DEF Control, Planned, Noticed, Applied, Claude, Same, Mutable, Paneless,
     Picking, Unpicked, Compacting, Typing, Chained
<1>8. Screen(r)' /\ Said(r)' /\ (Fair => Undisturbed(r))'
  BY <1>1, <1>2, <1>3 DEF Screen, Said, Undisturbed, Same, Mutable, Chained, Typing, Unpicked
<1>9. OwnPlace(r)
  BY <1>1, <1>3 DEF OwnPlace, Same, Mutable
<1>10. PairInv'
  BY <1>1, <1>2, <1>3, <1>4, PairSame DEF Alive
<1>11. StampInv'
  BY <1>2, <1>4, <1>5, Bounds DEF StampInv, Fair, TypeOK
<1>12. BackInv'
  <2> SUFFICES ASSUME NEW q \in Revs, rev'[q].back
               PROVE  \/ rev'[q].pane # NoPane /\ pane'[rev'[q].pane].briefed
                      \/ rev'[q].pane \in heard' \/ {"hand", "joined", "elsewhere"} \cap lapse' # {}
    BY DEF BackInv
  <2>1. CASE q = r
    BY <1>1, <1>2, <1>3, <1>5, <2>1, Bounds DEF Fair
  <2>2. CASE q # r
    BY <1>1, <1>2, <2>2 DEF BackInv, Others
  <2> QED BY <2>1, <2>2
<1> QED BY <1>4, <1>6, <1>7, <1>8, <1>9, <1>10, <1>11, <1>12, RevKeep, ApartKeep, PaneKeep
     DEF Own, IInv

(* The steps by which a revive comes to a pane.                             *)
LEMMA FindStep == ASSUME IInv, NEW r \in Revs, Find(r) PROVE IInv'
<1> USE Parts
<1>1. /\ Same(r, {"pane"}) /\ Others(r) /\ rev[r].at = "find"
      /\ \/ rev'[r].at = "launch" /\ rev'[r].pane = rev[r].pane
         \/ rev'[r].at = "engine" /\ rev'[r].pane \in Panes /\ Alive(rev'[r].pane)
  <2>1. CASE Go(r, "launch")
    BY <2>1 DEF Find, Go, Revive, TypeOK, Same, Mutable, Others
  <2>2. ASSUME NEW p \in Panes, Alive(p), rev' = [rev EXCEPT ![r].pane = p, ![r].at = "engine"]
        PROVE  /\ Same(r, {"pane"}) /\ Others(r)
               /\ rev'[r].at = "engine" /\ rev'[r].pane = p
    <3> DEFINE e == [rev[r] EXCEPT !.pane = p, !.at = "engine"]
    <3>1. rev' = [rev EXCEPT ![r] = e]
      BY <2>2, Reading
    <3>2. e.at = "engine" /\ e.pane = p /\ \A f \in Mutable \ {"pane"} : e[f] = rev[r][f]
      BY DEF Revive, Mutable
    <3> HIDE DEF e
    <3> QED BY <3>1, <3>2, Reading DEF Same, Others
  <2> QED BY <2>1, <2>2 DEF Find, Holder
<1>2. UNCHANGED <<setup, boot, daemon, entry, pane, said, listening, told, heard, lapse>>
  BY DEF Find
<1>3. TypeOK'
  BY FindType
<1>4. /\ rev[r].pane = NoPane /\ ~rev[r].spawned /\ rev[r].plan = "none" /\ ~rev[r].back
      /\ rev[r].outcome = "none" /\ rev[r].notice = "none"
  BY <1>1 DEF Control, Planned, Noticed, Paneless
<1>5. Keeps(r)
  BY <1>1, <1>2 DEF Keeps, Stays
<1>6. Control(r)' /\ Planned(r)' /\ Noticed(r)'
  BY <1>1, <1>2, <1>4, Bounds DEF Control, Planned, Noticed, Applied, Claude, Same, Mutable,
     Paneless, Picking, Unpicked, Compacting, Typing, Chained
<1>7. Screen(r)' /\ Said(r)' /\ (Fair => Undisturbed(r))'
  BY <1>1, <1>2, <1>4 DEF Screen, Said, Undisturbed, Same, Mutable, Chained, Typing, Unpicked,
     Alive, Up
<1>8. PairInv'
  BY <1>1, <1>2, <1>4, PairSame DEF Alive
<1>9. Apart'
  <2> SUFFICES ASSUME NEW a \in Revs, NEW b \in Revs, a # b, rev'[a].pane = rev'[b].pane
               PROVE  /\ ~(rev'[a].spawned /\ rev'[b].spawned)
                      /\ "joined" \notin lapse' => ~(AtWork(a)' /\ AtWork(b)')
    BY DEF Apart
  <2>1. ~rev'[r].spawned /\ ~AtWork(r)'
    BY <1>1, <1>4 DEF Same, Mutable, AtWork, Paneless
  <2>2. CASE a = r \/ b = r
    BY <2>1, <2>2
  <2>3. CASE a # r /\ b # r
    BY <1>1, <1>2, <2>3 DEF IInv, Apart, AtWork, Others
  <2> QED BY <2>2, <2>3
<1>10. ~rev'[r].back
  BY <1>1, <1>4 DEF Same, Mutable
<1> QED BY <1>2, <1>3, <1>5, <1>6, <1>7, <1>8, <1>9, <1>10, RevKeep, PaneKeep, StampKeep, BackKeep
     DEF Own, IInv

LEMMA CheckEngineStep == ASSUME IInv, NEW r \in Revs, CheckEngine(r) PROVE IInv'
<1> DEFINE p == rev[r].pane
<1> USE Parts
<1>1. /\ Same(r, {}) /\ Others(r) /\ rev[r].at = "engine" /\ rev'[r].pane = p
      /\ lapse \subseteq lapse'
      /\ \/ rev'[r].at = "over"
         \/ /\ rev'[r].at = "bind"
            /\ \/ "joined" \in lapse'
               \/ pane[p].st # "gap" /\ \A q \in Revs \ {r} : rev[q].pane = p => rev[q].at = "over"
  BY DEF CheckEngine, Ends, Go, Revive, TypeOK, Same, Mutable, Others, Shows, Mine
<1>2. UNCHANGED <<boot, daemon, entry, pane, said, listening, told, heard>>
  BY DEF CheckEngine
<1>3. TypeOK' /\ setup'.engine = setup.engine
  BY CheckEngineType, FaultType DEF CheckEngine
<1>4. /\ p \in Panes /\ ~rev[r].spawned /\ rev[r].plan = "none" /\ ~rev[r].back
      /\ rev[r].outcome = "none" /\ rev[r].notice = "none"
  BY <1>1 DEF Control, Planned, Noticed, Paneless
<1>5. Keeps(r)
  BY <1>1, <1>2, <1>3 DEF Keeps, Stays
<1>6. Control(r)' /\ Planned(r)' /\ Noticed(r)'
  BY <1>1, <1>2, <1>3, <1>4 DEF Control, Planned, Noticed, Applied, Claude, Same, Mutable, Paneless,
     Picking, Unpicked, Compacting, Typing, Chained
<1>7. Screen(r)' /\ Said(r)'
  BY <1>1, <1>2, <1>4 DEF Screen, Said, ChoiceDue, Same, Mutable, Chained, Typing
<1>8. (Fair => Undisturbed(r))'
  BY <1>1, <1>2, <1>4 DEF Fair, Undisturbed, Same, Mutable, Unpicked
<1>9. PairInv'
  BY <1>1, <1>2, <1>4, PairSame DEF Alive
<1>10. Apart'
  <2> SUFFICES ASSUME NEW a \in Revs, NEW b \in Revs, a # b, rev'[a].pane = rev'[b].pane
               PROVE  /\ ~(rev'[a].spawned /\ rev'[b].spawned)
                      /\ "joined" \notin lapse' => ~(AtWork(a)' /\ AtWork(b)')
    BY DEF Apart
  <2>1. ~rev'[r].spawned
    BY <1>1, <1>4 DEF Same, Mutable
  <2>2. ASSUME NEW q \in Revs \ {r}, rev'[q].pane = rev'[r].pane, "joined" \notin lapse'
        PROVE  ~(AtWork(q)' /\ AtWork(r)')
    BY <1>1, <2>2 DEF AtWork, Others
  <2>3. CASE a = r \/ b = r
    BY <2>1, <2>2, <2>3
  <2>4. CASE a # r /\ b # r
    BY <1>1, <2>4 DEF IInv, Apart, AtWork, Others
  <2> QED BY <2>3, <2>4
<1>11. ~rev'[r].back
  BY <1>1, <1>4 DEF Same, Mutable
<1> QED BY <1>2, <1>3, <1>5, <1>6, <1>7, <1>8, <1>9, <1>10, <1>11, RevKeep, PaneKeep, StampKeep,
     BackKeep DEF Own, IInv

LEMMA LaunchDoes ==
  ASSUME TypeOK, NEW r \in Revs, NEW p \in Panes, NEW place,
         rev' = [rev EXCEPT ![r].pane = p, ![r].spawned = TRUE, ![r].at = place]
  PROVE  /\ Same(r, {"pane", "spawned"}) /\ Others(r) /\ rev'[r].pane = p /\ rev'[r].spawned
         /\ rev'[r].at = place
<1> DEFINE e == [rev[r] EXCEPT !.pane = p, !.spawned = TRUE, !.at = place]
<1>1. rev' = [rev EXCEPT ![r] = e]
  BY Reading
<1>2. /\ e.pane = p /\ e.spawned /\ e.at = place
      /\ \A f \in Mutable \ {"pane", "spawned"} : e[f] = rev[r][f]
  <2>1. rev[r] \in Revive
    BY Reading
  <2> QED BY <2>1 DEF Revive, Mutable
<1> HIDE DEF e
<1> QED BY <1>1, <1>2, Reading DEF Same, Others

LEMMA LaunchStep == ASSUME IInv, NEW r \in Revs, Launch(r) PROVE IInv'
<1> USE Parts
<1>1. TypeOK' /\ setup'.engine = setup.engine /\ rev[r].at = "launch"
  BY LaunchType, FaultType DEF Launch
<1>2. UNCHANGED <<boot, daemon, said, listening, told, heard>>
  BY DEF Launch
<1>3. /\ rev[r].pane = NoPane /\ ~rev[r].spawned /\ rev[r].plan = "none" /\ ~rev[r].back
      /\ rev[r].outcome = "none" /\ rev[r].notice = "none"
  BY <1>1 DEF Control, Planned, Noticed, Paneless
<1>4. CASE Ends(r) /\ UNCHANGED <<entry, pane, lapse>>
  <2>1. Same(r, {}) /\ Others(r) /\ rev'[r].at = "over"
    BY <1>4 DEF Ends, Go, Revive, TypeOK, Same, Mutable, Others
  <2>2. Control(r)' /\ Planned(r)' /\ Noticed(r)'
    BY <1>1, <1>3, <2>1 DEF Control, Planned, Noticed, Applied, Claude, Same, Mutable, Paneless,
       Picking, Unpicked, Compacting, Typing, Chained
  <2>3. Screen(r)' /\ Said(r)' /\ (Fair => Undisturbed(r))'
    BY <1>3, <1>4, <2>1 DEF Screen, Said, Undisturbed, Same, Mutable, Chained, Typing, Unpicked
  <2>4. OwnPlace(r) /\ (rev'[r].back => rev[r].back)
    BY <1>3, <2>1 DEF OwnPlace, Same, Mutable, AtWork
  <2> QED BY <1>1, <1>2, <1>3, <1>4, <2>1, <2>2, <2>3, <2>4, RecordOnly DEF Own
<1>5. ASSUME NEW p \in Panes, pane[p].st = "none",
             pane' = [pane EXCEPT ![p] =
                        [NewPane("loading", rev[r].name) EXCEPT !.cheap = CarriesOn(r)]],
             rev' = [rev EXCEPT ![r].pane = p, ![r].spawned = TRUE,
                                ![r].at = IF Claude THEN "gate" ELSE "bind"],
             lapse' = lapse \cup (IF CarriesOn(r) THEN {"carried"} ELSE {})
                            \cup (IF Paid(r) THEN Pays(p) ELSE {}),
             entry' = [entry EXCEPT !.owed = @ /\ ~Paid(r)]
      PROVE  IInv'
  <2>1. /\ Same(r, {"pane", "spawned"}) /\ Others(r) /\ rev'[r].pane = p /\ rev'[r].spawned
        /\ rev'[r].at = IF Claude THEN "gate" ELSE "bind"
    BY <1>5, LaunchDoes
  <2>2. /\ \A o \in Panes \ {p} : Stays(o)
        /\ pane'[p].st = "loading" /\ (pane'[p].cheap => "carried" \in lapse')
    BY <1>5 DEF Stays, NewPane, TypeOK
  <2>3. /\ lapse \subseteq lapse' /\ entry'.pane = entry.pane /\ entry'.briefed = entry.briefed
        /\ Paid(r) => Pays(p) \subseteq lapse'
        /\ ~Paid(r) => (entry.owed => entry'.owed)
    BY <1>5 DEF TypeOK
  <2>4. Keeps(r)
    BY <1>1, <1>2, <1>5, <2>1, <2>2, <2>3 DEF Keeps, Gentle, Up
  <2>5. Control(r)' /\ Planned(r)' /\ Noticed(r)'
    BY <1>1, <1>3, <2>1, Bounds DEF Control, Planned, Noticed, Applied, Claude, Same, Mutable,
       Paneless, Picking, Unpicked, Compacting, Typing, Chained
  <2>6. Screen(r)' /\ (Fair => Undisturbed(r))'
    BY <1>3, <2>1, <2>2 DEF Screen, Undisturbed, Same, Mutable, Unpicked
  <2>7. Said(r)'
    BY <1>1, <1>3, <2>1 DEF Said, ChoiceDue, Claude, Control, Same, Mutable, Chained, Typing
  <2>8. PairInv'
    <3>1. ~Excused' => ~pane'[p].cheap
      BY <2>2 DEF Excused
    <3>2. CASE Paid(r)
      BY <1>3, <2>1, <2>2, <2>3, <2>4, <3>1, <3>2, PairPaid
    <3>3. CASE ~Paid(r)
      <4> SUFFICES ASSUME ~Excused', NEW o \in Panes, Alive(o)', pane'[o].cheap PROVE Answers(o)'
        BY DEF PairInv, Excused
      <4>1. o # p
        BY <3>1
      <4>2. Alive(o) /\ pane[o].cheap /\ ~Excused
        BY <2>2, <2>3, <4>1 DEF Stays, Alive, Excused
      <4>3. Answers(o)
        BY <4>2 DEF IInv, PairInv, Excused
      <4> QED BY <1>2, <1>3, <2>1, <2>3, <3>3, <4>3 DEF Answers, Others
    <3> QED BY <3>2, <3>3
  <2>9. Apart'
    <3> SUFFICES ASSUME NEW a \in Revs, NEW b \in Revs, a # b, rev'[a].pane = rev'[b].pane
                 PROVE  /\ ~(rev'[a].spawned /\ rev'[b].spawned)
                        /\ "joined" \notin lapse' => ~(AtWork(a)' /\ AtWork(b)')
      BY DEF Apart
    <3>1. ASSUME NEW q \in Revs \ {r} PROVE rev'[q].pane # p
      <4>1. Screen(q) /\ rev'[q] = rev[q] /\ TypeOK /\ Control(q)
        BY <2>1, Parts DEF Others
      <4> QED BY <1>5, <4>1, Bounds DEF Screen
    <3>2. CASE a = r \/ b = r
      BY <2>1, <3>1, <3>2
    <3>3. CASE a # r /\ b # r
      BY <2>1, <2>3, <3>3 DEF IInv, Apart, AtWork, Others
    <3> QED BY <3>2, <3>3
  <2>10. ~rev'[r].back
    BY <1>3, <2>1 DEF Same, Mutable
  <2> QED BY <1>1, <2>3, <2>4, <2>5, <2>6, <2>7, <2>8, <2>9, <2>10, RevKeep, PaneKeep, StampKeep,
       BackKeep DEF Own, IInv
<1> QED BY <1>4, <1>5 DEF Launch

---------------------------------------------------------------------------
(* What is not a step of a revive: it may end one, or send one that is      *)
(* bound on its way, and no pane is asked to compact but by hand.           *)
Resting(r) ==
  \/ rev'[r] = rev[r]
  \/ /\ Same(r, {})
     /\ \/ rev[r].at = "bound" /\ rev'[r].at = "brief"
        \/ rev'[r].at = "over" /\ (rev[r].plan = "none" \/ Excused')
Natural(p) ==
  /\ pane'[p].st = "none" <=> pane[p].st = "none"
  /\ Alive(p)' => Alive(p)
  /\ pane[p].did \subseteq pane'[p].did
  /\ pane'[p].briefed = pane[p].briefed /\ pane'[p].cheap = pane[p].cheap
  /\ pane'[p].st = "compacting" => pane[p].st = "compacting" \/ "compact" \in pane'[p].did
  /\ "hand" \notin lapse' =>
       /\ pane'[p].st = "gap" => pane[p].st = "gap"
       /\ pane'[p].st = "compacting" => pane[p].st \in {"gap", "compacting"}
WorldStep ==
  /\ \A r \in Revs : Resting(r)
  /\ \A p \in Panes : Natural(p)
  /\ setup'.engine = setup.engine
  /\ lapse \subseteq lapse' /\ told \subseteq told' /\ heard \subseteq heard'
  /\ listening' # NoPane => listening' \in heard'
  /\ entry'.pane = entry.pane /\ entry'.briefed = entry.briefed /\ entry'.owed = entry.owed
  /\ boot'.now = boot.now \/ boot'.now = boot.now + 1

LEMMA WorldOwn == ASSUME IInv, TypeOK', WorldStep, NEW r \in Revs PROVE Own(r)'
<1> DEFINE p == rev[r].pane
<1> USE Parts
<1>1. /\ Same(r, {}) /\ rev'[r].pane = p
      /\ \/ rev'[r].at = rev[r].at
         \/ rev[r].at = "bound" /\ rev'[r].at = "brief"
         \/ rev'[r].at = "over"
  BY DEF WorldStep, Resting, Same, Mutable
<1>2. setup'.engine = setup.engine /\ lapse \subseteq lapse' /\ told \subseteq told'
  BY DEF WorldStep
<1>3. p # NoPane => Natural(p)
  BY DEF WorldStep
<1>4. Control(r)'
  BY <1>1, <1>2 DEF Control, Claude, Same, Mutable, Paneless, Picking, Unpicked, Compacting
<1>5. Planned(r)' /\ Noticed(r)'
  BY <1>1, <1>2 DEF Planned, Noticed, Applied, Claude, Same, Mutable, Paneless, Picking,
     Unpicked, Compacting, Typing, Chained
<1>6. Screen(r)'
  <2>1. rev[r].outcome \in Applying \/ rev[r].plan # "none" => p # NoPane
    BY DEF Control, Planned, Applying
  <2> QED BY <1>1, <1>2, <1>3, <2>1 DEF Screen, Same, Mutable, Natural, Applying
<1>7. Said(r)'
  BY <1>1, <1>2 DEF Said, ChoiceDue, Same, Mutable, Chained, Typing
<1>8. (Fair => Undisturbed(r))'
  <2> SUFFICES ASSUME Fair, "hand" \notin lapse' PROVE Undisturbed(r)'
    BY <1>2 DEF Fair
  <2>1. CASE rev'[r].at \in Paneless \cup {"over", "engine"}
    BY <2>1 DEF Undisturbed, Paneless, Unpicked
  <2>2. CASE rev'[r].at \notin Paneless \cup {"over", "engine"}
    <3>1. p # NoPane
      BY <1>1, <1>4, <2>2 DEF Control
    <3>2. /\ pane'[p].st = "gap" => pane[p].st = "gap"
          /\ pane'[p].st = "compacting" => pane[p].st \in {"gap", "compacting"}
          /\ pane'[p].briefed = pane[p].briefed
      BY <1>3, <3>1 DEF Natural
    <3>3. rev'[r].at \notin {"bound", "brief"} => rev'[r].at = rev[r].at
      BY <1>1, <2>2
    <3> QED BY <1>1, <2>2, <3>2, <3>3 DEF Undisturbed, Same, Mutable, Awaits, Unpicked
  <2> QED BY <2>1, <2>2
<1> QED BY <1>4, <1>5, <1>6, <1>7, <1>8 DEF Own

LEMMA WorldKeeps == ASSUME IInv, TypeOK', WorldStep PROVE IInv'
<1>1. RevInv'
  BY WorldOwn DEF RevInv
<1>2. \A r \in Revs : /\ rev'[r].pane = rev[r].pane /\ rev'[r].spawned = rev[r].spawned
                      /\ rev'[r].back = rev[r].back /\ rev'[r].plan = rev[r].plan
                      /\ AtWork(r)' => AtWork(r)
                      /\ \/ rev'[r].at = "over" => rev[r].at = "over"
                         \/ rev[r].plan = "none" \/ Excused'
  BY DEF WorldStep, Resting, Same, Mutable, AtWork, Paneless
<1>3. "joined" \notin lapse' => "joined" \notin lapse
  BY DEF WorldStep
<1>4. Apart'
  <2> SUFFICES ASSUME NEW a \in Revs, NEW b \in Revs, a # b, rev'[a].pane = rev'[b].pane
               PROVE  /\ ~(rev'[a].spawned /\ rev'[b].spawned)
                      /\ "joined" \notin lapse' => ~(AtWork(a)' /\ AtWork(b)')
    BY DEF Apart
  <2> QED BY <1>2, <1>3 DEF IInv, Apart
<1>5. TypeOK /\ PaneInv /\ StampInv /\ BackInv /\ PairInv /\ entry.pane \in Panes
  BY DEF IInv, TypeOK
<1>6. PaneInv'
  <2>1. pane'[entry'.pane].st # "none"
    BY <1>5 DEF WorldStep, Natural, PaneInv
  <2>2. \A p \in Panes : pane'[p].st = "compacting" => "compact" \in pane'[p].did
    BY <1>5 DEF WorldStep, Natural, PaneInv
  <2>3. Claude' = Claude /\ ("hand" \notin lapse' => "hand" \notin lapse)
    BY DEF WorldStep, Claude
  <2>4. ASSUME ~Claude, "hand" \notin lapse', NEW p \in Panes
        PROVE  pane'[p].st \notin {"gap", "compacting"}
    BY <1>5, <2>3, <2>4 DEF WorldStep, Natural, PaneInv
  <2> QED BY <2>1, <2>2, <2>3, <2>4 DEF PaneInv, WorldStep
<1>7. StampInv'
  <2>1. pane'[entry.pane].briefed = pane[entry.pane].briefed
    BY <1>5 DEF WorldStep, Natural
  <2>2. entry.briefed <= boot.now /\ entry.briefed \in Nat /\ boot.now \in Nat
    BY <1>5, Bounds DEF StampInv, TypeOK
  <2>3. entry'.briefed <= boot'.now /\ (entry'.briefed = boot'.now => boot'.now = boot.now)
    BY <2>2 DEF WorldStep
  <2> QED BY <1>5, <2>1, <2>3 DEF StampInv, WorldStep
<1>8. BackInv'
  <2> SUFFICES ASSUME NEW q \in Revs, rev'[q].back
               PROVE  \/ rev'[q].pane # NoPane /\ pane'[rev'[q].pane].briefed
                      \/ rev'[q].pane \in heard' \/ {"hand", "joined", "elsewhere"} \cap lapse' # {}
    BY DEF BackInv
  <2>1. rev[q].pane # NoPane => Natural(rev[q].pane)
    BY Parts DEF WorldStep
  <2> QED BY <1>2, <1>5, <2>1 DEF BackInv, Natural, WorldStep
<1>9. PairInv'
  <2> SUFFICES ASSUME ~Excused', NEW p \in Panes, Alive(p)', pane'[p].cheap PROVE Answers(p)'
    BY DEF PairInv, Excused
  <2>1. Alive(p) /\ pane[p].cheap /\ ~Excused
    BY DEF WorldStep, Natural, Excused
  <2>2. Answers(p)
    BY <1>5, <2>1 DEF PairInv, Excused
  <2> QED BY <1>2, <2>2 DEF Answers, WorldStep
<1> QED BY <1>1, <1>4, <1>6, <1>7, <1>8, <1>9 DEF IInv

(* The sessions, and what happens to them.                                  *)
LEMMA PanesAlone ==
  ASSUME IInv, UNCHANGED <<boot, entry, rev, told>>, TypeOK', setup'.engine = setup.engine,
         lapse \subseteq lapse', heard \subseteq heard',
         listening' # NoPane => listening' \in heard', \A p \in Panes : Natural(p)
  PROVE  IInv'
<1>1. WorldStep
  BY DEF WorldStep, Resting
<1> QED BY <1>1, WorldKeeps

LEMMA Unmoved == ASSUME NEW p, Stays(p), pane[p].st = "compacting" => "compact" \in pane[p].did
                 PROVE  Natural(p)
  BY DEF Stays, Natural, Alive

LEMMA PaneStory ==
  ASSUME IInv, UNCHANGED <<boot, daemon, entry, rev, told, heard>>, setup' \in Setup,
         setup'.engine = setup.engine, said' \in {"own", "cheap"},
         lapse \subseteq lapse', lapse' \subseteq Lapses, listening' \in {NoPane, listening},
         pane' \in [Panes -> Pane], NEW p \in Panes, \A o \in Panes \ {p} : Stays(o), Natural(p)
  PROVE  IInv'
<1>1. TypeOK /\ PaneInv
  BY DEF IInv
<1>2. TypeOK'
  BY <1>1 DEF TypeOK
<1>3. \A o \in Panes : Natural(o)
  BY <1>1, Unmoved DEF PaneInv
<1>4. listening' # NoPane => listening' \in heard'
  BY <1>1 DEF PaneInv
<1> QED BY <1>2, <1>3, <1>4, PanesAlone

LEMMA StartsStep == ASSUME IInv, Starts PROVE IInv'
<1>1. TypeOK
  BY DEF IInv
<1>2. ASSUME NEW p \in Panes, Renders(p) PROVE IInv'
  <2>1. PICK st \in {"picker", "idle"} : Becomes(p, st)
    BY <1>2 DEF Renders
  <2>2. pane' \in [Panes -> Pane]
    BY <1>1, <2>1, BecomesType DEF Up
  <2>3. \A o \in Panes \ {p} : Stays(o)
    BY <1>1, <2>1, BecomesDoes
  <2>4. Natural(p)
    BY <1>1, <1>2, <2>1, BecomesDoes DEF Renders, Natural, Alive, Up
  <2> QED BY <1>1, <1>2, <2>2, <2>3, <2>4, PaneStory DEF Renders, TypeOK
<1>3. ASSUME NEW p \in Panes, CompactionStarts(p) PROVE IInv'
  <2> DEFINE e == [pane[p] EXCEPT !.st = "compacting", !.did = pane[p].did \cup {"compact"}]
  <2>1. pane' = [pane EXCEPT ![p] = e] /\ pane[p].st = "gap" /\ pane[p] \in Pane
    BY <1>1, <1>3 DEF CompactionStarts, TypeOK
  <2>2. /\ e.st = "compacting" /\ e.did = pane[p].did \cup {"compact"} /\ e.cheap = pane[p].cheap
        /\ e.briefed = pane[p].briefed /\ e \in Pane
    BY <2>1 DEF Pane, Up
  <2> HIDE DEF e
  <2>3. pane' \in [Panes -> Pane] /\ pane'[p] = e /\ \A o \in Panes \ {p} : Stays(o)
    BY <1>1, <2>1, <2>2 DEF TypeOK, Stays
  <2>4. Natural(p)
    BY <2>1, <2>2, <2>3 DEF Natural, Alive, Up
  <2> QED BY <1>1, <1>3, <2>3, <2>4, PaneStory DEF CompactionStarts, TypeOK
<1> QED BY <1>2, <1>3 DEF Starts

LEMMA WorldActs == ASSUME IInv, World PROVE IInv'
<1>1. TypeOK /\ PaneInv
  BY DEF IInv
<1>2. ASSUME NEW p \in Panes, Turn(p) PROVE IInv'
  <2>1. setup' \in Setup /\ setup'.engine = setup.engine
    BY <1>1, <1>2, SpendType DEF Turn
  <2>2. pane' \in [Panes -> Pane] /\ \A o \in Panes \ {p} : Stays(o)
    BY <1>1, <1>2, BecomesType, BecomesDoes DEF Turn, Up
  <2>3. Natural(p)
    BY <1>1, <1>2, BecomesDoes DEF Turn, Natural, Alive, Up
  <2> QED BY <1>1, <1>2, <2>1, <2>2, <2>3, PaneStory DEF Turn, TypeOK
<1>3. ASSUME NEW p \in Panes, Finishes(p) PROVE IInv'
  <2>2. pane' \in [Panes -> Pane] /\ \A o \in Panes \ {p} : Stays(o)
    BY <1>1, <1>3, BecomesType, BecomesDoes DEF Finishes, Up
  <2>3. Natural(p)
    BY <1>1, <1>3, BecomesDoes DEF Finishes, Natural, Alive, Up
  <2> QED BY <1>1, <1>3, <2>2, <2>3, PaneStory DEF Finishes, TypeOK
<1>4. ASSUME NEW p \in Panes, Listens(p) PROVE IInv'
  <2>1. \A o \in Panes : Natural(o)
    BY <1>1, <1>4, Unmoved DEF Listens, PaneInv, Stays
  <2>2. TypeOK'
    BY <1>1, <1>4 DEF Listens, TypeOK
  <2> QED BY <1>4, <2>1, <2>2, PanesAlone DEF Listens
<1>5. ASSUME NEW p \in Panes, AnsweredByHand(p) PROVE IInv'
  <2>1. setup' \in Setup /\ setup'.engine = setup.engine
    BY <1>1, <1>5, SpendType DEF AnsweredByHand
  <2>2. PICK choice \in {"compact", "full"} : pane' = Chosen(p, choice)
    BY <1>5 DEF AnsweredByHand
  <2>3. pane' \in [Panes -> Pane]
    BY <1>1, <2>2, ChosenType DEF Choices
  <2>4. /\ \A o \in Panes \ {p} : Stays(o)
        /\ pane'[p].st \in {"gap", "idle"} /\ pane[p].did \subseteq pane'[p].did
        /\ pane'[p].cheap = pane[p].cheap /\ pane'[p].briefed = pane[p].briefed
    BY <1>1, <2>2 DEF Chosen, Stays, TypeOK, Pane
  <2>5. Natural(p) /\ lapse' = lapse \cup {"hand"}
    BY <1>5, <2>4 DEF AnsweredByHand, Natural, Alive, Up
  <2>6. lapse' \subseteq Lapses
    BY <1>1, <2>5 DEF TypeOK, Lapses
  <2> QED BY <1>1, <1>5, <2>1, <2>3, <2>4, <2>5, <2>6, PaneStory DEF AnsweredByHand, TypeOK
<1>6. ASSUME NEW p \in Panes, Dies(p) PROVE IInv'
  <2>1. setup' \in Setup /\ setup'.engine = setup.engine
    BY <1>1, <1>6, SpendType DEF Dies
  <2>2. pane' \in [Panes -> Pane] /\ \A o \in Panes \ {p} : Stays(o)
    BY <1>1, <1>6, BecomesType, BecomesDoes DEF Dies
  <2>3. Natural(p)
    BY <1>1, <1>6, BecomesDoes DEF Dies, Natural, Alive, Up
  <2> QED BY <1>1, <1>6, <2>1, <2>2, <2>3, PaneStory DEF Dies, TypeOK
<1> QED BY <1>2, <1>3, <1>4, <1>5, <1>6 DEF World

LEMMA MarkEndedStep == ASSUME IInv, MarkEnded PROVE IInv'
<1>1. TypeOK /\ PaneInv
  BY DEF IInv
<1>2. TypeOK' /\ entry'.pane = entry.pane /\ entry'.briefed = entry.briefed /\ entry'.owed = entry.owed
  BY <1>1 DEF MarkEnded, TypeOK
<1>3. \A p \in Panes : Natural(p)
  BY <1>1, Unmoved DEF MarkEnded, PaneInv, Stays
<1>4. WorldStep
  BY <1>1, <1>2, <1>3 DEF WorldStep, Resting, MarkEnded, PaneInv
<1> QED BY <1>2, <1>4, WorldKeeps

LEMMA StutterStep == ASSUME IInv, UNCHANGED vars PROVE IInv'
<1>1. TypeOK /\ PaneInv
  BY DEF IInv
<1>2. TypeOK'
  BY <1>1 DEF vars, TypeOK
<1>3. \A p \in Panes : Natural(p)
  BY <1>1, Unmoved DEF vars, PaneInv, Stays
<1>4. WorldStep
  BY <1>1, <1>3 DEF WorldStep, Resting, vars, PaneInv
<1> QED BY <1>2, <1>4, WorldKeeps

(* A new revive.                                                            *)
LEMMA BeginKeeps ==
  ASSUME IInv, NEW by \in {"boot", "owner", "cli"}, NEW choice \in Choices, Begin(by, choice),
         ~Claude => choice = "none",
         setup' \in Setup, setup'.engine = setup.engine, daemon' \in {"down", "restoring", "up"},
         UNCHANGED <<boot, entry, pane, said, listening, told, heard, lapse>>
  PROVE  IInv'
<1> DEFINE e == Fresh(by, choice)
<1> USE Parts
<1>1. TypeOK
  BY DEF IInv
<1>2. PICK r \in Revs : rev[r].at = "off" /\ rev' = [rev EXCEPT ![r] = e]
  BY DEF Begin
<1>3. e \in Revive
  <2>1. ReviveName(entry.pane) \in {"base", "suffix"} /\ entry.pane \in Panes /\ entry.owed \in BOOLEAN
    BY <1>1 DEF ReviveName, TypeOK
  <2> DEFINE stamped == (entry.briefed = boot.now)
             ready == (choice # "none")
             name == ReviveName(entry.pane)
             e1 == [NoRevive EXCEPT !.by = by]
             e2 == [e1 EXCEPT !.at = "find"]
             e3 == [e2 EXCEPT !.snap = entry.pane]
             e4 == [e3 EXCEPT !.choice = choice]
             e5 == [e4 EXCEPT !.stamped = stamped]
             e6 == [e5 EXCEPT !.owing = entry.owed]
             e7 == [e6 EXCEPT !.name = name]
  <2>2. e1 \in Revive
    BY NoReviveType, SetBy
  <2>3. e2 \in Revive
    BY <2>2, SetAt DEF Places, Ahead
  <2>4. e3 \in Revive
    BY <2>1, <2>3, SetSnap
  <2>5. e4 \in Revive
    BY <2>4, SetChoice
  <2>6. e5 \in Revive
    BY <2>5, SetStamped
  <2>7. e6 \in Revive
    BY <2>1, <2>6, SetOwing
  <2>8. e7 \in Revive
    BY <2>1, <2>7, SetName
  <2>9. [e7 EXCEPT !.ready = ready] \in Revive
    BY <2>8, SetReady
  <2>10. e = [e7 EXCEPT !.ready = ready]
    BY DEF Fresh
  <2> QED BY <2>9, <2>10
<1>4. /\ e.at = "find" /\ e.choice = choice /\ e.pane = NoPane /\ e.spawned = FALSE /\ e.outcome = "none"
      /\ e.plan = "none" /\ e.notice = "none" /\ ~e.back
  BY DEF Fresh, NoRevive
<1> HIDE DEF e
<1>5. TypeOK' /\ rev'[r] = e /\ Others(r)
  BY <1>1, <1>2, <1>3, Reading DEF TypeOK, Others
<1>6. Keeps(r)
  BY <1>5 DEF Keeps, Stays
<1>7. Control(r)' /\ Planned(r)' /\ Noticed(r)'
  BY <1>4, <1>5 DEF Control, Planned, Noticed, Claude, Paneless, Picking, Unpicked, Compacting,
     Typing, Chained
<1>8. Screen(r)' /\ Said(r)' /\ (Fair => Undisturbed(r))'
  BY <1>4, <1>5 DEF Screen, Said, Undisturbed, Chained, Typing, Unpicked
<1>9. rev[r].pane = NoPane /\ rev[r].spawned = FALSE /\ rev[r].plan = "none"
  BY <1>2 DEF Control, Planned, Paneless, Revive
<1>10. OwnPlace(r)
  BY <1>4, <1>5, <1>9 DEF OwnPlace, AtWork, Paneless
<1>11. PairInv'
  BY <1>5, <1>9, PairSame DEF Alive
<1> QED BY <1>4, <1>5, <1>6, <1>7, <1>8, <1>10, <1>11, StepKeeps DEF Own

LEMMA OwnerRevivesStep == ASSUME IInv, OwnerRevives PROVE IInv'
<1>1. TypeOK
  BY DEF IInv
<1>2. setup' \in Setup /\ setup'.engine = setup.engine
  BY <1>1, SpendType DEF OwnerRevives
<1>3. PICK choice \in IF Claude THEN setup.choices ELSE {"none"} : Begin("owner", choice)
  BY DEF OwnerRevives
<1>4. choice \in Choices /\ (~Claude => choice = "none")
  BY <1>1, <1>3 DEF TypeOK, Setup, Choices
<1> QED BY <1>1, <1>2, <1>3, <1>4, BeginKeeps DEF OwnerRevives, TypeOK

LEMMA OperatorRevivesStep == ASSUME IInv, OperatorRevives PROVE IInv'
<1>1. TypeOK /\ "none" \in Choices
  BY DEF IInv, Choices
<1>2. setup' \in Setup /\ setup'.engine = setup.engine
  BY <1>1, SpendType DEF OperatorRevives
<1> QED BY <1>1, <1>2, BeginKeeps DEF OperatorRevives, TypeOK

LEMMA StartStep == ASSUME IInv, Start PROVE IInv'
<1>1. TypeOK /\ PaneInv /\ "none" \in Choices
  BY DEF IInv, Choices
<1>2. CASE Begin("boot", "none") /\ daemon' = "restoring" /\ UNCHANGED boot
  BY <1>1, <1>2, BeginKeeps DEF Start, TypeOK
<1>3. CASE boot' = [boot EXCEPT !.stored = boot.now] /\ daemon' = "up" /\ UNCHANGED rev
  <2>1. TypeOK' /\ boot'.now = boot.now
    BY <1>1, <1>3, Bounds DEF Start, TypeOK
  <2>2. \A p \in Panes : Natural(p)
    BY <1>1, Unmoved DEF Start, PaneInv, Stays
  <2>3. WorldStep
    BY <1>1, <1>3, <2>1, <2>2 DEF WorldStep, Resting, Start, PaneInv
  <2> QED BY <2>1, <2>3, WorldKeeps
<1> QED BY <1>2, <1>3 DEF Start

LEMMA SaveBootStep == ASSUME IInv, SaveBoot PROVE IInv'
<1>1. TypeOK /\ PaneInv
  BY DEF IInv
<1>2. ASSUME NEW r \in Revs
      PROVE  rev'[r] \in Revive /\ Resting(r)
  <2> USE Parts
  <2>1. CASE r \notin Restored
    BY <1>1, <2>1 DEF SaveBoot, Resting
  <2>2. CASE r \in Restored
    <3> DEFINE place == IF NeedsBrief(r) THEN "brief" ELSE "over"
    <3>1. rev'[r] = [rev[r] EXCEPT !.at = place] /\ rev[r].at = "bound"
      BY <2>2 DEF SaveBoot
    <3>2. place \in {"brief", "over"} /\ (place = "over" => ~rev[r].spawned)
      BY DEF NeedsBrief
    <3> HIDE DEF place
    <3>3. rev'[r] \in Revive
      BY <3>1, <3>2, SetAt DEF Places, Briefing
    <3>4. Same(r, {}) /\ rev'[r].at = place
      BY <3>1 DEF Same, Mutable, Revive
    <3>5. place = "over" => rev[r].plan = "none"
      BY <3>2 DEF Planned
    <3> QED BY <3>1, <3>2, <3>3, <3>4, <3>5 DEF Resting
  <2> QED BY <2>1, <2>2
<1>3. rev' \in [Revs -> Revive]
  BY <1>2 DEF SaveBoot
<1>4. /\ setup' \in Setup /\ setup'.engine = setup.engine
      /\ lapse \subseteq lapse' /\ lapse' \subseteq Lapses
      /\ told \subseteq told' /\ told' \subseteq Panes \X Things
  <2>1. CASE UNCHANGED <<setup, told, lapse>>
    BY <1>1, <2>1 DEF TypeOK
  <2>2. CASE told' = told \cup {<<entry.pane, "failed">>} /\ UNCHANGED <<setup, lapse>>
    <3>1. <<entry.pane, "failed">> \in Panes \X Things
      BY <1>1 DEF TypeOK, Things
    <3> QED BY <1>1, <2>2, <3>1 DEF TypeOK
  <2>3. CASE Fault /\ lapse' = lapse \cup {"unsaid"} /\ UNCHANGED told
    BY <1>1, <2>3, FaultType DEF TypeOK, Lapses
  <2> QED BY <2>1, <2>2, <2>3 DEF SaveBoot
<1>5. TypeOK' /\ boot'.now = boot.now
  <2>1. boot' = [boot EXCEPT !.stored = boot.now] /\ daemon' = "up"
    BY DEF SaveBoot
  <2>2. boot' \in [now : 1..MaxBoot, stored : 0..MaxBoot] /\ boot'.now = boot.now
    BY <1>1, <2>1, Bounds DEF TypeOK
  <2> QED BY <1>1, <1>3, <1>4, <2>1, <2>2 DEF SaveBoot, TypeOK
<1>6. \A p \in Panes : Natural(p)
  BY <1>1, Unmoved DEF SaveBoot, PaneInv, Stays
<1>7. WorldStep
  BY <1>1, <1>2, <1>4, <1>5, <1>6 DEF WorldStep, SaveBoot, PaneInv
<1> QED BY <1>5, <1>7, WorldKeeps

(* The revives of a process that is gone, and what they had in hand.        *)
LEMMA CutShortDoes ==
  ASSUME IInv, NEW by, CutShort(by)
  PROVE  /\ rev' \in [Revs -> Revive] /\ lapse \subseteq lapse' /\ lapse' \subseteq Lapses
         /\ \A r \in Revs : Resting(r)
<1> DEFINE gone == {r \in Revs : Gone(r, by)}
<1>1. TypeOK
  BY DEF IInv
<1>2. rev' = [r \in Revs |-> IF r \in gone THEN [rev[r] EXCEPT !.at = "over"] ELSE rev[r]]
  BY DEF CutShort
<1>3. /\ lapse \subseteq lapse' /\ lapse' \subseteq lapse \cup {"cut", "unplanned"}
      /\ (\E r \in gone : rev[r].plan # "none") => "unplanned" \in lapse'
  BY DEF CutShort
<1>4. ASSUME NEW r \in Revs PROVE rev'[r] \in Revive /\ Resting(r)
  <2>1. rev[r] \in Revive
    BY <1>1, Reading
  <2>2. CASE r \notin gone
    BY <1>2, <2>1, <2>2 DEF Resting
  <2>3. CASE r \in gone
    <3>1. rev'[r] = [rev[r] EXCEPT !.at = "over"]
      BY <1>2, <2>3
    <3>2. Same(r, {}) /\ rev'[r].at = "over" /\ rev'[r] \in Revive
      BY <2>1, <3>1, SetAt DEF Same, Mutable, Revive, Places
    <3>3. rev[r].plan = "none" \/ Excused'
      BY <1>3, <2>3 DEF Excused
    <3> QED BY <3>2, <3>3 DEF Resting
  <2> QED BY <2>2, <2>3
<1>5. rev' \in [Revs -> Revive]
  BY <1>2, <1>4
<1> QED BY <1>1, <1>3, <1>4, <1>5 DEF TypeOK, Lapses

LEMMA CrashStep == ASSUME IInv, Crash PROVE IInv'
<1>1. TypeOK /\ PaneInv
  BY DEF IInv
<1>2. setup' \in Setup /\ setup'.engine = setup.engine
  BY <1>1, SpendType DEF Crash
<1>3. /\ rev' \in [Revs -> Revive] /\ lapse \subseteq lapse' /\ lapse' \subseteq Lapses
      /\ \A r \in Revs : Resting(r)
  BY CutShortDoes DEF Crash
<1>4. ASSUME NEW p \in Panes PROVE pane'[p] \in Pane /\ Natural(p)
  <2> DEFINE e == [pane[p] EXCEPT !.st = "compacting", !.did = pane[p].did \cup {"compact"}]
  <2>1. pane[p] \in Pane
    BY <1>1 DEF TypeOK
  <2>2. pane'[p] = IF pane[p].st = "gap" THEN e ELSE pane[p]
    BY DEF Crash
  <2>3. /\ e.st = "compacting" /\ e.did = pane[p].did \cup {"compact"} /\ e.cheap = pane[p].cheap
        /\ e.briefed = pane[p].briefed /\ e \in Pane
    BY <2>1 DEF Pane, Up
  <2> HIDE DEF e
  <2>4. CASE pane[p].st = "gap"
    BY <2>2, <2>3, <2>4 DEF Natural, Alive, Up
  <2>5. CASE pane[p].st # "gap"
    BY <1>1, <2>1, <2>2, <2>5, Unmoved DEF Stays, PaneInv
  <2> QED BY <2>4, <2>5
<1>5. pane' \in [Panes -> Pane]
  BY <1>4 DEF Crash
<1>6. TypeOK'
  BY <1>1, <1>2, <1>3, <1>5 DEF Crash, TypeOK
<1>7. WorldStep
  BY <1>1, <1>2, <1>3, <1>4 DEF WorldStep, Crash, PaneInv
<1> QED BY <1>6, <1>7, WorldKeeps

LEMMA RebootStep == ASSUME IInv, Reboot PROVE IInv'
<1>1. TypeOK /\ PaneInv
  BY DEF IInv
<1>2. setup' \in Setup /\ setup'.engine = setup.engine
  BY <1>1, SpendType DEF Reboot
<1>3. /\ rev' \in [Revs -> Revive] /\ lapse \subseteq lapse' /\ lapse' \subseteq Lapses
      /\ \A r \in Revs : Resting(r)
  BY CutShortDoes DEF Reboot
<1>4. ASSUME NEW p \in Panes PROVE pane'[p] \in Pane /\ Natural(p)
  <2> DEFINE st == IF pane[p].st = "none" THEN "none" ELSE "dead"
             e == [pane[p] EXCEPT !.st = st]
  <2>1. pane[p] \in Pane
    BY <1>1 DEF TypeOK
  <2>2. pane'[p] = e
    BY DEF Reboot
  <2>3. e.st = st /\ e.did = pane[p].did /\ e.cheap = pane[p].cheap /\ e.briefed = pane[p].briefed
    BY <2>1 DEF Pane
  <2>4. st \in {"none", "dead"} /\ (st = "none" <=> pane[p].st = "none")
    OBVIOUS
  <2> HIDE DEF st
  <2>5. e \in Pane
    BY <2>1, <2>4 DEF Pane
  <2> HIDE DEF e
  <2> QED BY <2>2, <2>3, <2>4, <2>5 DEF Natural, Alive, Up
<1>5. pane' \in [Panes -> Pane]
  BY <1>4 DEF Reboot
<1>6. boot' \in [now : 1..MaxBoot, stored : 0..MaxBoot] /\ boot'.now = boot.now + 1
  BY <1>1, Bounds DEF Reboot, TypeOK
<1>7. TypeOK'
  BY <1>1, <1>2, <1>3, <1>5, <1>6 DEF Reboot, TypeOK
<1>8. WorldStep
  BY <1>1, <1>2, <1>3, <1>4, <1>6 DEF WorldStep, Reboot, PaneInv
<1> QED BY <1>7, <1>8, WorldKeeps

---------------------------------------------------------------------------
LEMMA InitInv == Init => IInv
<1> SUFFICES ASSUME Init PROVE IInv
  OBVIOUS
<1>1. TypeOK
  BY InitType
<1>2. /\ \A r \in Revs : rev[r] = NoRevive
      /\ \A p \in Panes : pane[p].st \in {"idle", "dead", "none"} /\ ~pane[p].cheap
      /\ pane[1].st # "none" /\ entry.pane = 1 /\ entry.briefed = 0 /\ boot.now = 2
      /\ listening = NoPane
  <2>1. PICK st \in {"idle", "dead"} :
          pane = [p \in Panes |-> IF p = 1 THEN NewPane(st, "other") ELSE NewPane("none", "other")]
    BY DEF Init
  <2>2. \A p \in Panes : pane[p].st \in {"idle", "dead", "none"} /\ ~pane[p].cheap
    BY <2>1 DEF NewPane
  <2>3. pane[1].st # "none"
    BY <2>1, Bounds DEF NewPane
  <2> QED BY <2>2, <2>3 DEF Init
<1>3. RevInv
  BY <1>2 DEF RevInv, Own, Control, Planned, Noticed, Screen, Said, ChoiceDue, Undisturbed,
     NoRevive, Paneless, Picking, Unpicked, Compacting, Typing, Chained, Applied
<1>4. Apart
  BY <1>2 DEF Apart, NoRevive, AtWork, Paneless
<1>5. PaneInv /\ StampInv /\ BackInv /\ PairInv
  BY <1>2 DEF PaneInv, StampInv, BackInv, PairInv, NoRevive
<1> QED BY <1>1, <1>3, <1>4, <1>5 DEF IInv

LEMMA NextInv == ASSUME IInv, [Next]_vars PROVE IInv'
<1>1. ASSUME NEW r \in Revs, Step(r) PROVE IInv'
  BY <1>1, FindStep, CheckEngineStep, LaunchStep, GateStep, LivePickerStep, AnswerStep, KeyStep,
     QuietStep, SwitchStep, UnswitchStep, InjectStep, AwaitStartStep, UnwindStep, ReportStep,
     BindStep, SettleStep, RestoreStep, LookStep, WaitStep, TypeStep, StampStep, RetryStep,
     GiveUpStep DEF Step
<1> QED BY <1>1, RaisesStep, OwnerRevivesStep, OperatorRevivesStep, StartStep, SaveBootStep, MarkEndedStep,
     WorldActs, StartsStep, CrashStep, RebootStep, StutterStep DEF Next

(* The invariant of the revives, their panes and the topic's entry.         *)
THEOREM RevivalInvariant == Spec => []IInv
<1> QED BY InitInv, NextInv, PTL DEF Spec

(* Every variable keeps its type.                                           *)
THEOREM TypeCorrect == Spec => []TypeOK
<1>1. IInv => TypeOK
  BY DEF IInv
<1> QED BY <1>1, RevivalInvariant, PTL

(* The stamp says that the pane the topic is bound to has its briefing in   *)
(* this boot, and no compaction swallowed it.                               *)
THEOREM StampIsTrue == Spec => []StampTrue
<1>1. IInv => StampTrue
  BY DEF IInv, StampInv, StampTrue
<1> QED BY <1>1, RevivalInvariant, PTL

(* What the owner reads of the choice is so.                                *)
THEOREM ChoiceIsTrue == Spec => []ChoiceTrue
<1>1. ASSUME IInv PROVE ChoiceTrue
  <2> SUFFICES ASSUME NEW r \in Revs
               PROVE  /\ rev[r].notice # "none" /\ "hand" \notin lapse =>
                           rev[r].notice \in pane[rev[r].pane].did
                      /\ rev[r].back =>
                           \/ pane[rev[r].pane].briefed \/ rev[r].pane \in heard
                           \/ {"hand", "joined", "elsewhere"} \cap lapse # {}
                      /\ (/\ rev[r].by = "owner" /\ rev[r].spawned /\ ~rev[r].auto
                          /\ rev[r].at \in Briefing /\ "unsaid" \notin lapse
                          /\ rev[r].choice # "none"
                          /\ rev[r].outcome \notin {"answered", "injected", "absent"})
                         => \E what \in {"choice", "unanswered"} : <<rev[r].pane, what>> \in told
    BY DEF ChoiceTrue
  <2> USE <1>1, Parts
  <2>1. rev[r].notice # "none" /\ "hand" \notin lapse => rev[r].notice \in pane[rev[r].pane].did
    BY DEF Noticed, Applied, Screen, Control
  <2>2. rev[r].back => \/ pane[rev[r].pane].briefed \/ rev[r].pane \in heard
                       \/ {"hand", "joined", "elsewhere"} \cap lapse # {}
    BY DEF BackInv
  <2>3. rev[r].at \in Briefing => rev[r].at \in Chained \cup Typing
    BY DEF Briefing, Chained, Typing
  <2>4. ASSUME rev[r].by = "owner" /\ rev[r].spawned /\ ~rev[r].auto,
               rev[r].at \in Briefing /\ "unsaid" \notin lapse /\ rev[r].choice # "none",
               rev[r].outcome \notin {"answered", "injected", "absent"}
        PROVE  \E what \in {"choice", "unanswered"} : <<rev[r].pane, what>> \in told
    BY <2>3, <2>4 DEF Said, ChoiceDue, Applying
  <2> QED BY <2>1, <2>2, <2>4
<1> QED BY <1>1, RevivalInvariant, PTL

(* A session that a revive moved to the compaction model is moved back, or  *)
(* its debt is on record, or the owner was told, or a revive has it in hand.*)
THEOREM PairIsKept == Spec => []PairKept
<1>1. IInv => PairKept
  BY DEF IInv, PairInv, PairKept, Answers, TypeOK
<1> QED BY <1>1, RevivalInvariant, PTL
=============================================================================
