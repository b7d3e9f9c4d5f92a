---------------------------- MODULE CarryForward ----------------------------
(***************************************************************************)
(* The compaction of one claude session, driven by the daemon.  For each    *)
(* run: the thread that starts it (the owner's command or the warning       *)
(* loop), its worker (write, switch the model, /compact, switch back,       *)
(* resume), and what the owner's message does to it: the kill-switch pops   *)
(* the flow, and a thread of its own switches a moved session back.         *)
(*                                                                          *)
(* A worker types only while its run owns the topic (flow), checked and     *)
(* typed under _cf_lock; one action here is one hold of that lock.  The     *)
(* waits answer what the pane or the transcript shows at that moment, or    *)
(* run out.  A crash of the daemon leaves the session and the disk.         *)
(***************************************************************************)
EXTENDS Integers, Sequences, FiniteSets

CONSTANTS
  Setups,      \* the configurations, with how many faults of each kind happen in them
  Readable,    \* may the transcript answer: {TRUE}, {FALSE} or both
  Tries,       \* CF_COMPACT_TRIES
  MaxRuns,     \* bound: runs started
  MaxTerm      \* bound: lines typed and not yet taken by the session

ASSUME CarryForwardAssumption ==
  /\ Setups \subseteq [cycle : BOOLEAN, autocf : BOOLEAN, switch : BOOLEAN, refuses : BOOLEAN,
                        withheld : Nat, raises : Nat, crashes : Nat, turns : Nat,
                        runs : 1..MaxRuns, term : 1..MaxTerm]
  /\ Readable \subseteq BOOLEAN
  /\ {Tries, MaxRuns, MaxTerm} \subseteq Nat \ {0}

VARIABLES
  setup,   \* CARRY_FORWARD: a write-up comes first; AUTOCF_THRESHOLD: the loop may
           \* start runs; whether compactions come late enough after a reply to switch;
           \* whether the session may lose or refuse a line, or die; the bounds:
           \* lines type_line may withhold, calls that may raise, crashes,
           \* turns of the session that nothing here started, and the two maxima
  flow,    \* _pending_cf: the run that owns the topic
  runs,    \* runs started
  at, hat, \* where each run's worker, and the handling of its halt, are
  run,     \* what the threads of a run keep, its plan included
  disk,    \* the unfinished-run record, autocf.json, the registry's debt
  armed,   \* autocf_fired
  loop,    \* the warning loop: where it is, the context it measured
  sess,    \* the session and its terminal
  seen,    \* what the transcript gained since each run's cursor
  told,    \* the owner was told which model the session is left on
  lapse,   \* the first fault behind which the model may be left switched (history)
  resumed, \* runs whose resume line was submitted (history)
  auto,    \* age of the last automatic run that did not compact (history)
  bounds   \* what the bounds count

vars == <<setup, flow, runs, at, hat, run, disk, armed, loop, sess, seen, told, lapse,
          resumed, auto, bounds>>

Runs == 1..MaxRuns
NoRun == 0
Own == [model |-> "own", effort |-> "own"]
Cheap == [model |-> "cheap", effort |-> "cheap"]
Pairs == [{"model", "effort"} -> {"own", "cheap"}]
NoPair == [model |-> "none", effort |-> "none"]
(* A line typed into the terminal: what it sets and to what, for which run, *)
(* and whether the halt's thread typed it.                                  *)
Line(k, v, r) == [k |-> k, v |-> v, r |-> r, h |-> FALSE]
NoLine == Line("none", "none", NoRun)
Lines == [k : {"none", "model", "effort", "write", "compact", "resume", "notice"},
          v : {"none", "own", "cheap"}, r : {NoRun} \cup Runs, h : BOOLEAN]
Event(e) == Line(e, "none", NoRun)
Events == {Event(e) : e \in {"submitted", "completed", "refused"}}

ModelSteps == {"swmodel", "sweffort", "rsmodel", "rseffort"}
ModelWaits == {"swmodel?", "sweffort?", "rsmodel?", "rseffort?"}
Uncompacted == {"settle", "write", "done?", "issue", "plan", "idle?", "swmodel", "sweffort",
                "swmodel?", "sweffort?", "compact", "modal", "start?", "compacted?"}
Places == {"no", "over", "close", "resume", "start", "escape"} \cup ModelSteps \cup ModelWaits
            \cup Uncompacted
Halts == {"no", "popped", "wait", "final", "over"} \cup ModelSteps \cup ModelWaits

Run == [via : {"owner", "auto"}, plan : Pairs \cup {NoPair}, now : Pairs \cup {NoPair},
        sent : Lines, mode : {"fresh", "switched", "settled"}, tries : 0..(Tries - 1),
        why : {"none", "unswitched", "giveup", "resume"},
        end : {"none", "busy", "stopped", "error", "done"}]
NewRun(via) == [via |-> via, plan |-> NoPair, now |-> NoPair, sent |-> NoLine, mode |-> "fresh",
                tries |-> 0, why |-> "none", end |-> "none"]

Init ==
  /\ setup \in Setups
  /\ flow = NoRun /\ runs = 0
  /\ at = [r \in Runs |-> "no"] /\ hat = [r \in Runs |-> "no"]
  /\ run = [r \in Runs |-> NewRun("owner")]
  /\ disk = [record |-> NoRun, age |-> "fresh", armed |-> FALSE, owed |-> NoPair]
  /\ armed = FALSE /\ loop = [pc |-> "idle", pct |-> "low"]
  /\ sess = [st |-> "idle", term |-> <<>>, pair |-> Own, said |-> Own, ctx |-> "high",
             marker |-> {}]
  /\ seen = [r \in Runs |-> {}] /\ told = FALSE /\ lapse = "none" /\ resumed = {} /\ auto = "none"
  /\ bounds = [withheld |-> 0, raises |-> 0, crashes |-> 0, turns |-> 0]

---------------------------------------------------------------------------
(* What a thread knows and does.                                            *)
Owns(r) == flow = r
Alive == sess.st # "dead"
Quiet == sess.st = "idle"                    \* sustained: _cf_wait_idle
Go(r, place) == at' = [at EXCEPT ![r] = place]
Goes(r, place) == hat' = [hat EXCEPT ![r] = place]
Keep(r, f, x) == run' = [run EXCEPT ![r][f] = x]

Release(r) == flow' = IF Owns(r) THEN NoRun ELSE flow
(* A run is over with its last thread, and what they kept is gone.         *)
Forgets(r) == run' = [run EXCEPT ![r] = NewRun("owner")]
Ends(r) == /\ Release(r) /\ Go(r, "over")
           /\ IF hat[r] \in {"no", "over"} THEN Forgets(r) ELSE UNCHANGED run
Lapses(x) == IF lapse = "none" THEN x ELSE lapse
Counts(b) == bounds' = [bounds EXCEPT ![b] = @ + 1]

(* type_line: the line is submitted, or not.                                *)
Submits(line) == /\ sess.st \notin {"dead", "modal"} /\ Len(sess.term) < setup.term
                 /\ sess' = [sess EXCEPT !.term = Append(@, line)]
                 /\ UNCHANGED bounds
Withheld == bounds["withheld"] < setup.withheld /\ Counts("withheld")
Withholds == /\ UNCHANGED sess
             /\ IF sess.st \in {"dead", "modal"} \/ Len(sess.term) = setup.term
                  THEN UNCHANGED bounds ELSE Withheld

(* Escape: the turn or the compaction stops, what was queued is not run.    *)
Escaped == IF sess.st \in {"turn", "compacting", "modal"}
             THEN [sess EXCEPT !.st = "idle", !.term = <<>>] ELSE sess

(* _set_model_owed.                                                         *)
Owes(pair) == disk' = [disk EXCEPT !.owed = pair]

(* _cf_clear_unfinished of a run.                                           *)
(* Mutant: without the token.                                               *)
CloseAny(r) == [disk EXCEPT !.record = NoRun]
CloseRecord(r) == IF disk.record = r THEN [disk EXCEPT !.record = NoRun] ELSE disk

---------------------------------------------------------------------------
(* Starting a run: handle_carry_forward, on the thread that called it.      *)
PollFree == \A r \in Runs : /\ hat[r] # "popped"
                            /\ ~ (at[r] = "start" /\ run[r].via = "owner")

Finished(r) == at[r] \in {"no", "over"} /\ hat[r] \in {"no", "over"}
Claim(via) ==
  /\ flow = NoRun /\ runs < setup.runs /\ Alive
  /\ runs' = runs + 1 /\ flow' = runs + 1
  /\ Go(runs + 1, "start")
  /\ run' = [r \in Runs |-> IF r = runs + 1 THEN NewRun(via)
                              ELSE IF Finished(r) THEN NewRun("owner") ELSE run[r]]

OwnerStarts ==
  /\ PollFree /\ Claim("owner")
  /\ UNCHANGED <<setup, hat, disk, armed, loop, sess, seen, told, lapse, resumed, auto, bounds>>

(* What the caller does with the answer; the owner's command ignores it.    *)
Returns(r, started) ==
  IF run[r].via = "auto"
    THEN armed' = started /\ loop' = [loop EXCEPT !.pc = "save"]
    ELSE UNCHANGED <<armed, loop>>

(* reply() raises whatever is not a closed topic: the tick of the loop ends *)
(* with the flag as it was decided, unsaved and with no run behind it.      *)
SendRaises == bounds["raises"] < setup.raises /\ Counts("raises")
Lost == IF auto = "none" THEN "none" ELSE "lost"
Propagates(r) ==
  /\ SendRaises /\ UNCHANGED armed
  /\ IF run[r].via = "auto" THEN loop' = [loop EXCEPT !.pc = "idle"] ELSE UNCHANGED loop

(* A run its owner cannot see or stop must not begin (#161).  The record is *)
(* opened before the worker exists; no record, no run.                      *)
OpenRecord(r) ==
  /\ at[r] = "start"
  /\ \/ /\ disk' = [disk EXCEPT !.record = r, !.age = "fresh"]
        /\ Go(r, IF setup.cycle THEN "settle" ELSE "plan")
        /\ Returns(r, TRUE) /\ UNCHANGED <<flow, run, bounds>>
        /\ auto' = IF run[r].via = "auto" THEN "fresh" ELSE "none"
     \/ /\ Ends(r) /\ Returns(r, FALSE) /\ UNCHANGED bounds
        /\ \/ UNCHANGED <<disk, auto>>             \* no notice, or an unwritable directory
           \/ /\ disk' = [disk EXCEPT !.record = NoRun]  \* the thread would not start
              /\ auto' = "none"
     \/ /\ Propagates(r) /\ Ends(r)                \* what says so raises
        /\ \/ UNCHANGED disk /\ auto' = IF run[r].via = "auto" THEN Lost ELSE auto
           \/ /\ disk' = [disk EXCEPT !.record = NoRun]
              /\ auto' = IF run[r].via = "auto" THEN Lost ELSE "none"
     \/ /\ Propagates(r)                          \* the start notice raises: nobody releases
        /\ Go(r, "over") /\ Forgets(r) /\ UNCHANGED <<flow, disk>>
        /\ auto' = IF run[r].via = "auto" THEN Lost ELSE auto
  /\ UNCHANGED <<setup, runs, hat, sess, seen, told, lapse, resumed>>

(* The flow of a run whose start notice raised: it has no worker.           *)
Orphaned(r) == Owns(r) /\ at[r] = "over"

---------------------------------------------------------------------------
(* The worker: the write-up, when the cycle is on.                          *)
Settle(r) ==
  /\ at[r] = "settle"
  /\ \/ Owns(r) /\ Quiet /\ Go(r, "write") /\ UNCHANGED <<flow, run>>
     \/ Ends(r)                                    \* halted, dead, or still mid-turn
  /\ UNCHANGED <<setup, runs, hat, disk, armed, loop, sess, seen, told, lapse, resumed, auto, bounds>>

(* _cf_inject_owned of the prompt.                                          *)
Write(r) ==
  /\ at[r] = "write"
  /\ \/ Owns(r) /\ Submits(Line("write", "none", r)) /\ Go(r, "done?") /\ UNCHANGED <<flow, run>>
     \/ Owns(r) /\ Withholds /\ Ends(r)
     \/ ~Owns(r) /\ Ends(r) /\ UNCHANGED <<sess, bounds>>
  /\ UNCHANGED <<setup, runs, hat, disk, armed, loop, seen, told, lapse, resumed, auto>>

(* The session writes the marker as its last action, then is idle.          *)
AwaitWritten(r) ==
  /\ at[r] = "done?"
  /\ \/ ~(Owns(r) /\ Alive) /\ Ends(r)
     \/ Owns(r) /\ r \in sess.marker /\ Quiet /\ Go(r, "issue") /\ UNCHANGED <<flow, run>>
     \/ Owns(r) /\ Release(r) /\ Go(r, "escape") /\ UNCHANGED run   \* no marker in time
  /\ UNCHANGED <<setup, runs, hat, disk, armed, loop, sess, seen, told, lapse, resumed, auto, bounds>>

(* The prompt a stuck session may have opened is dismissed.                 *)
Dismiss(r) ==
  /\ at[r] = "escape"
  /\ Ends(r) /\ sess' = Escaped
  /\ UNCHANGED <<setup, runs, hat, disk, armed, loop, seen, told, lapse, resumed, auto, bounds>>

(* The issue is the session's or the daemon's, or the file alone is left:   *)
(* the run goes on in each case.                                            *)
RecordIssue(r) ==
  /\ at[r] = "issue"
  /\ IF Owns(r) THEN Go(r, "plan") /\ UNCHANGED <<flow, run>> ELSE Ends(r)
  /\ UNCHANGED <<setup, runs, hat, disk, armed, loop, sess, seen, told, lapse, resumed, auto, bounds>>

---------------------------------------------------------------------------
(* The pair the session goes back to: a debt first, else what its own       *)
(* record names; none when that is the compaction pair, when the record is  *)
(* unknown, or when its prompt cache is still warm.                         *)
PlannedPair ==
  LET pair == IF disk.owed # NoPair THEN disk.owed ELSE sess.said
  IN IF pair = Cheap THEN NoPair ELSE pair

MakePlan(r) ==
  /\ at[r] = "plan"
  /\ LET pair == IF setup.switch THEN PlannedPair ELSE NoPair
     IN /\ run' = [run EXCEPT ![r].plan = pair, ![r].now = pair]
        /\ lapse' = IF pair \in {Own, NoPair} THEN lapse ELSE Lapses("stale")
  /\ Go(r, "idle?")
  /\ UNCHANGED <<setup, flow, runs, hat, disk, armed, loop, sess, seen, told, resumed, auto, bounds>>

(* restore_model, then what that exit does next: an owed restore runs once. *)
Restore(r, why) ==
  IF run[r].mode = "switched"
    THEN /\ Go(r, "rsmodel") /\ UNCHANGED flow
         /\ run' = [run EXCEPT ![r].mode = "settled", ![r].why = why]
    ELSE IF why = "resume" THEN Go(r, "resume") /\ UNCHANGED <<flow, run>> ELSE Ends(r)

(* Another attempt, or the run gives up and switches back.                  *)
Retry(r) ==
  IF run[r].tries + 1 < Tries
    THEN Keep(r, "tries", run[r].tries + 1) /\ Go(r, "idle?") /\ UNCHANGED flow
    ELSE Restore(r, "giveup")

(* /compact must land on an idle pane, and the switch comes before it, once.*)
(* A restore is owed from its first keystroke on.                           *)
AwaitIdle(r) ==
  /\ at[r] = "idle?"
  /\ \/ ~(Owns(r) /\ Alive) /\ Ends(r)
     \/ Owns(r) /\ Alive /\ Retry(r)               \* still busy
     \/ /\ Owns(r) /\ Quiet /\ UNCHANGED flow
        /\ IF run[r].plan # NoPair /\ run[r].mode = "fresh"
             THEN /\ Keep(r, "mode", "switched")
                  /\ Go(r, IF run[r].now["model"] = "cheap" THEN "sweffort" ELSE "swmodel")
             ELSE Go(r, "compact") /\ UNCHANGED run
  /\ UNCHANGED <<setup, runs, hat, disk, armed, loop, sess, seen, told, lapse, resumed, auto, bounds>>

---------------------------------------------------------------------------
(* One /model or /effort line: typed under the guard, then awaited.  The    *)
(* worker's guard is its run, the halt's is that no new flow took the topic.*)
LineOf(place, r, h) ==
  LET pair == IF place \in {"swmodel", "swmodel?", "sweffort", "sweffort?"} THEN Cheap ELSE run[r].plan
      k == IF place \in {"swmodel", "swmodel?", "rsmodel", "rsmodel?"} THEN "model" ELSE "effort"
  IN [k |-> k, v |-> pair[k], r |-> r, h |-> h]
Waiting(place) == CASE place = "swmodel" -> "swmodel?" [] place = "sweffort" -> "sweffort?"
                    [] place = "rsmodel" -> "rsmodel?" [] OTHER -> "rseffort?"
(* The client's own record: any "Set model to", the effort by its level.    *)
Answers(line) == {l \in Lines : l.k = line.k /\ (line.k = "effort" => l.v = line.v)}

WorkerMay(r) == Owns(r)
HalterMay(r) == flow = NoRun /\ Alive
(* _settings_lock is held across the lines of one switch or restore.        *)
Switching == {r \in Runs : at[r] \in {"swmodel?", "sweffort", "sweffort?", "rsmodel?",
                                      "rseffort", "rseffort?"}}
Backing == {r \in Runs : hat[r] \in {"rsmodel?", "rseffort", "rseffort?"}}
SettingsFree(place) == place \in {"sweffort", "rseffort"} \/ (Switching = {} /\ Backing = {})

(* Submitted: the plan says so before any other thread can look.            *)
TypeLine(r, place, h) ==
  /\ Submits(LineOf(place, r, h))
  /\ Keep(r, "sent", LineOf(place, r, h))
  /\ seen' = [seen EXCEPT ![r] = {}]

Answered(r, place, h) ==
  /\ Answers(LineOf(place, r, h)) \cap seen[r] # {}
  /\ lapse' = IF LineOf(place, r, h) \in seen[r] THEN lapse ELSE Lapses("mistaken")
Noted(r, place) ==
  [run EXCEPT ![r].now[LineOf(place, r, FALSE).k] = LineOf(place, r, FALSE).v, ![r].sent = NoLine]

(* After the last line of a restore: a confirmed one pays the debt, a       *)
(* failed one records it and tells the owner.                               *)
Settled(r, outcome) ==
  CASE outcome = "ok" -> Owes(NoPair) /\ told' = FALSE
    [] outcome = "failed" -> Owes(run[r].plan) /\ told' = TRUE
    [] OTHER -> UNCHANGED <<disk, told>>

(* Where the worker goes after its restore, with what it then keeps.        *)
AfterRestore(r, outcome, kept) ==
  CASE run[r].why = "resume" -> Go(r, "resume") /\ run' = kept /\ UNCHANGED flow
    [] run[r].why = "unswitched" /\ outcome = "ok" /\ Owns(r) ->
         Go(r, "compact") /\ run' = kept /\ UNCHANGED flow
    [] OTHER -> Ends(r)

(* An unconfirmed switch is undone before anything is compacted.            *)
AfterFailure(r) ==
  IF at[r] \in {"swmodel", "swmodel?", "sweffort", "sweffort?"}
    THEN /\ Go(r, "rsmodel") /\ UNCHANGED <<flow, disk, told>>
         /\ run' = [run EXCEPT ![r].mode = "settled", ![r].why = "unswitched"]
    ELSE Settled(r, "failed") /\ AfterRestore(r, "failed", run)

(* Halted, or the pane died: a switch ends the run, a restore moves on.     *)
AfterAbort(r) ==
  /\ UNCHANGED <<disk, told>>
  /\ IF at[r] \in {"rsmodel", "rsmodel?", "rseffort", "rseffort?"}
       THEN AfterRestore(r, "aborted", run) ELSE Ends(r)

WorkerTypes(r) ==
  /\ at[r] \in ModelSteps /\ SettingsFree(at[r])
  /\ \/ /\ WorkerMay(r) /\ TypeLine(r, at[r], FALSE) /\ Go(r, Waiting(at[r]))
        /\ UNCHANGED <<flow, disk, told>>
     \/ WorkerMay(r) /\ Withholds /\ AfterFailure(r) /\ UNCHANGED seen
     \/ ~WorkerMay(r) /\ AfterAbort(r) /\ UNCHANGED <<sess, seen, bounds>>
  /\ UNCHANGED <<setup, runs, hat, armed, loop, lapse, resumed, auto>>

WorkerAwaits(r) ==
  /\ at[r] \in ModelWaits
  /\ \/ ~(WorkerMay(r) /\ Alive) /\ AfterAbort(r) /\ UNCHANGED lapse
     \/ /\ WorkerMay(r) /\ Alive /\ Answered(r, at[r], FALSE)
        /\ IF at[r] = "rseffort?"
             THEN Settled(r, "ok") /\ AfterRestore(r, "ok", Noted(r, at[r]))
             ELSE /\ run' = Noted(r, at[r]) /\ UNCHANGED <<flow, disk, told>>
                  /\ Go(r, CASE at[r] = "swmodel?" -> "sweffort" [] at[r] = "sweffort?" -> "compact"
                              [] OTHER -> "rseffort")
     \/ WorkerMay(r) /\ Alive /\ AfterFailure(r) /\ UNCHANGED lapse  \* MODEL_CMD_WAIT ran out
  /\ UNCHANGED <<setup, runs, hat, armed, loop, sess, seen, resumed, auto, bounds>>

---------------------------------------------------------------------------
(* The worker: the compaction.                                              *)

(* The cursor is taken, then /compact is typed while the run owns the topic.*)
(* A line that is withheld ends the run: no restore, no debt.               *)
InjectCompact(r) ==
  /\ at[r] = "compact"
  /\ \/ /\ Owns(r) /\ Submits(Line("compact", "none", r))
        /\ Go(r, "modal") /\ seen' = [seen EXCEPT ![r] = {}]
        /\ UNCHANGED <<flow, run, lapse>>
     \/ /\ Owns(r) /\ Withholds /\ Ends(r) /\ UNCHANGED seen
        /\ lapse' = IF run[r].mode = "switched" THEN Lapses("withheld") ELSE lapse
     \/ ~Owns(r) /\ Ends(r) /\ UNCHANGED <<sess, seen, bounds, lapse>>
  /\ UNCHANGED <<setup, runs, hat, disk, armed, loop, told, resumed, auto>>

(* A modal is answered only on a row that is safe to answer.                *)
Cleared(r) == {sess} \cup (IF Owns(r) /\ sess.st = "modal"
                             THEN {[sess EXCEPT !.st = "compacting"], [sess EXCEPT !.st = "idle"]}
                             ELSE {})
ClearModal(r) ==
  /\ at[r] = "modal"
  /\ sess' \in Cleared(r) /\ Go(r, "start?")
  /\ UNCHANGED <<setup, flow, runs, hat, run, disk, armed, loop, seen, told, lapse, resumed, auto, bounds>>

(* Submitted or completed by the transcript, or compacting by the pane.     *)
Started(r, readable) == \/ sess.st = "compacting"
                        \/ readable /\ {Event("submitted"), Event("completed")} \cap seen[r] # {}
AwaitStart(r) ==
  /\ at[r] = "start?"
  /\ \/ ~(Owns(r) /\ Alive) /\ Ends(r) /\ UNCHANGED sess
     \/ /\ Owns(r) /\ Alive
        /\ \/ Event("refused") \in seen[r] /\ Restore(r, "giveup") /\ UNCHANGED sess
           \/ /\ \E readable \in Readable : Started(r, readable)
              /\ Go(r, "compacted?") /\ UNCHANGED <<flow, run, sess>>
           \/ sess' \in Cleared(r) /\ Retry(r)     \* nothing started in time
  /\ UNCHANGED <<setup, runs, hat, disk, armed, loop, seen, told, lapse, resumed, auto, bounds>>

(* Compacted: the client's record and a quiet pane, or the quiet pane alone *)
(* where the transcript cannot answer.                                      *)
Compacted(r, readable) == Quiet /\ (readable => Event("completed") \in seen[r])
AwaitCompacted(r) ==
  /\ at[r] = "compacted?"
  /\ \/ ~(Owns(r) /\ Alive) /\ Ends(r)
     \/ /\ Owns(r) /\ Alive
        /\ \/ /\ \E readable \in Readable : Compacted(r, readable)
              /\ Go(r, "close") /\ UNCHANGED <<flow, run>>
           \/ Restore(r, "giveup")                \* refused, or not settled in time
  /\ UNCHANGED <<setup, runs, hat, disk, armed, loop, sess, seen, told, lapse, resumed, auto, bounds>>

(* The record is closed where the fact is known, owned or not: the token    *)
(* keeps a run the owner has since started on record (#240).                *)
Close(r) ==
  /\ at[r] = "close"
  /\ disk' = CloseRecord(r) /\ auto' = (IF disk.record = r THEN "none" ELSE auto)
  /\ Restore(r, "resume")
  /\ UNCHANGED <<setup, runs, hat, armed, loop, sess, seen, told, lapse, resumed, bounds>>

(* The resume line and the release are one hold of the lock (#88).          *)
(* Mutant: released before the line is typed, in a step of its own.         *)
ResumeUnlocked(r) ==
  /\ at[r] = "resume"
  /\ \/ Submits(Line("resume", "none", r)) /\ resumed' = resumed \cup {r} /\ Ends(r)
     \/ Withholds /\ Ends(r) /\ UNCHANGED resumed
  /\ UNCHANGED <<setup, runs, hat, disk, armed, loop, seen, told, lapse, auto>>
Resume(r) ==
  /\ at[r] = "resume"
  /\ \/ Owns(r) /\ Submits(Line("resume", "none", r)) /\ resumed' = resumed \cup {r} /\ Ends(r)
     \/ Owns(r) /\ Withholds /\ Ends(r) /\ UNCHANGED resumed
     \/ ~Owns(r) /\ Ends(r) /\ UNCHANGED <<sess, bounds, resumed>>
  /\ UNCHANGED <<setup, runs, hat, disk, armed, loop, seen, told, lapse, auto>>

(* A tmux call of the worker times out: one owed restore is tried, and a    *)
(* restore that raises is only logged.                                      *)
WorkerRaises(r) ==
  /\ at[r] \in Uncompacted \cup {"close"} \cup ModelSteps \cup ModelWaits \cup {"resume"}
  /\ bounds["raises"] < setup.raises /\ Counts("raises")
  /\ Restore(r, "giveup")
  /\ lapse' = IF at[r] \in {"rsmodel", "rsmodel?", "rseffort", "rseffort?"}
                THEN Lapses("raised") ELSE lapse
  /\ UNCHANGED <<setup, runs, hat, disk, armed, loop, sess, seen, told, resumed, auto>>

---------------------------------------------------------------------------
(* The session was moved, or a command whose effect is unknown was sent.    *)
(* Mutant: only what was confirmed counts.                                  *)
NeedsConfirmed(r) == run[r].plan # NoPair /\ run[r].now # run[r].plan
NeedsSwitchBack(r) ==
  run[r].plan # NoPair /\ (run[r].sent # NoLine \/ run[r].now # run[r].plan)

(* The kill-switch: the flow is popped, then the pane interrupted.          *)
Halt(r) ==
  /\ PollFree /\ Owns(r)
  /\ flow' = NoRun /\ Goes(r, "popped")
  /\ lapse' = IF at[r] = "rseffort" /\ ~NeedsSwitchBack(r)
                THEN Lapses("forgotten") ELSE lapse
  /\ UNCHANGED <<setup, runs, at, run, disk, armed, loop, sess, seen, told, resumed, auto, bounds>>

(* The pane is interrupted.  A moved session is switched back first, on a   *)
(* thread of its own; else the session is told now.                         *)
HaltTells(r) ==
  /\ hat[r] = "popped"
  /\ IF NeedsSwitchBack(r)
       THEN Goes(r, "wait") /\ sess' = Escaped /\ UNCHANGED bounds
       ELSE /\ Goes(r, "over")
            /\ \/ /\ Alive /\ Len(Escaped.term) < setup.term /\ UNCHANGED bounds
                  /\ sess' = [Escaped EXCEPT !.term = Append(@, Line("notice", "none", r))]
               \/ /\ sess' = Escaped
                  /\ IF Alive /\ Len(Escaped.term) < setup.term THEN Withheld ELSE UNCHANGED bounds
  /\ UNCHANGED <<setup, flow, runs, at, run, disk, armed, loop, seen, told, lapse, resumed, auto>>

(* _after_halt: wait for the pane, switch back, then decide under the lock. *)
HalterWaits(r) ==
  /\ hat[r] = "wait"
  /\ \/ ~HalterMay(r) /\ Goes(r, "final") /\ Keep(r, "end", "stopped")
     \/ HalterMay(r) /\ Quiet /\ Goes(r, "rsmodel") /\ UNCHANGED run
     \/ HalterMay(r) /\ Goes(r, "final") /\ Keep(r, "end", "busy")
  /\ UNCHANGED <<setup, flow, runs, at, disk, armed, loop, sess, seen, told, lapse, resumed, auto, bounds>>

Finishes(r, outcome) ==
  /\ Goes(r, "final") /\ Settled(r, outcome)
  /\ run' = [run EXCEPT ![r].end = IF outcome = "aborted" THEN "stopped" ELSE "done"]

HalterTypes(r) ==
  /\ hat[r] \in {"rsmodel", "rseffort"} /\ SettingsFree(hat[r])
  /\ \/ /\ HalterMay(r) /\ TypeLine(r, hat[r], TRUE) /\ Goes(r, Waiting(hat[r]))
        /\ UNCHANGED <<disk, told>>
     \/ HalterMay(r) /\ Withholds /\ Finishes(r, "failed") /\ UNCHANGED seen
     \/ ~HalterMay(r) /\ Finishes(r, "aborted") /\ UNCHANGED <<sess, seen, bounds>>
  /\ UNCHANGED <<setup, flow, runs, at, armed, loop, lapse, resumed, auto>>

HalterAwaits(r) ==
  /\ hat[r] \in {"rsmodel?", "rseffort?"}
  /\ \/ ~HalterMay(r) /\ Finishes(r, "aborted") /\ UNCHANGED lapse
     \/ HalterMay(r) /\ Finishes(r, "failed") /\ UNCHANGED lapse
     \/ /\ HalterMay(r) /\ hat[r] = "rsmodel?" /\ Answered(r, "rsmodel?", TRUE) /\ run' = Noted(r, "rsmodel?")
        /\ Goes(r, "rseffort") /\ UNCHANGED <<disk, told>>
     \/ /\ HalterMay(r) /\ hat[r] = "rseffort?" /\ Answered(r, "rseffort?", TRUE)
        /\ Goes(r, "final") /\ Settled(r, "ok")
        /\ run' = [run EXCEPT ![r].now = run[r].plan, ![r].sent = NoLine, ![r].end = "done"]
  /\ UNCHANGED <<setup, flow, runs, at, armed, loop, sess, seen, resumed, auto, bounds>>

HalterRaises(r) ==
  /\ hat[r] \in {"wait", "rsmodel", "rsmodel?", "rseffort", "rseffort?"}
  /\ bounds["raises"] < setup.raises /\ Counts("raises")
  /\ Goes(r, "final") /\ Keep(r, "end", "error")
  /\ UNCHANGED <<setup, flow, runs, at, disk, armed, loop, sess, seen, told, lapse, resumed, auto>>

(* A new flow is left alone, with the debt on the registry; else the        *)
(* session is told under the lock, and the owner what was not switched back.*)
HalterDecides(r) ==
  /\ hat[r] = "final" /\ Goes(r, "over")
  /\ IF at[r] = "over" THEN Forgets(r) ELSE UNCHANGED run
  /\ IF flow # NoRun
       THEN /\ UNCHANGED <<sess, bounds, told>>
            /\ IF run[r].end # "done" /\ NeedsSwitchBack(r)
                 THEN Owes(run[r].plan) /\ UNCHANGED lapse
                 ELSE /\ UNCHANGED disk
                      /\ lapse' = IF run[r].end # "done" THEN Lapses("forgotten") ELSE lapse
       ELSE /\ Submits(Line("notice", "none", r)) \/ Withholds
            /\ IF run[r].end # "done" THEN Owes(run[r].plan) /\ told' = TRUE
               ELSE UNCHANGED <<disk, told>>
            /\ UNCHANGED lapse
  /\ UNCHANGED <<setup, flow, runs, at, armed, loop, seen, resumed, auto>>

---------------------------------------------------------------------------
(* The warning loop's automatic run: _process_autocf of one topic.  The     *)
(* context is measured first, and may be old when it is used.               *)
LoopLook ==
  /\ setup.autocf /\ loop.pc = "idle" /\ Alive
  /\ loop' = [pc |-> "look", pct |-> sess.ctx]
  /\ UNCHANGED <<setup, flow, runs, at, hat, run, disk, armed, sess, seen, told, lapse, resumed, auto, bounds>>

(* A run that never compacted re-arms the topic, once per cooldown; one     *)
(* that is recent holds it, whatever the flag says.                         *)
(* Mutants: the flag alone decides; the record is never consumed.           *)
NeverStale == FALSE
Stale == flow = NoRun /\ disk.record # NoRun /\ disk.age = "old"
HoldByFlag == armed
Held == armed \/ (flow = NoRun /\ disk.record # NoRun /\ disk.age = "fresh")

(* _autocf_decide; when nothing is to be started the flag is saved.         *)
Decides(flag, record) ==
  LET fire == loop.pct = "high" /\ ~flag /\ flow = NoRun
      keep == loop.pct = "high" /\ flag
  IN /\ armed' = (fire \/ keep)
     /\ loop' = [loop EXCEPT !.pc = IF fire THEN "fire" ELSE "idle"]
     /\ disk' = [disk EXCEPT !.record = record, !.armed = IF fire THEN @ ELSE keep]

LoopRecord ==
  /\ loop.pc = "look"
  /\ IF Stale THEN loop' = [loop EXCEPT !.pc = "stale"] /\ UNCHANGED <<armed, disk>>
     ELSE Decides(Held, disk.record)
  /\ UNCHANGED <<setup, flow, runs, at, hat, run, sess, seen, told, lapse, resumed, auto, bounds>>

LoopRearm ==
  /\ loop.pc = "stale" /\ Decides(FALSE, NoRun)
  /\ UNCHANGED <<setup, flow, runs, at, hat, run, sess, seen, told, lapse, resumed, auto, bounds>>

(* The notice may be undeliverable or raise, a run may already be there, or *)
(* the run starts and its answer is awaited.                                *)
LoopFire ==
  /\ loop.pc = "fire"
  /\ \/ /\ loop' = [loop EXCEPT !.pc = "save"] /\ armed' = FALSE
        /\ UNCHANGED <<flow, runs, at, run, auto, bounds>>
     \/ /\ SendRaises /\ loop' = [loop EXCEPT !.pc = "idle"] /\ auto' = Lost
        /\ UNCHANGED <<flow, runs, at, run, armed>>
     \/ /\ Claim("auto") /\ loop' = [loop EXCEPT !.pc = "call"]
        /\ UNCHANGED <<armed, auto, bounds>>
  /\ UNCHANGED <<setup, hat, disk, sess, seen, told, lapse, resumed>>

(* Exempt, closed in Telegram, or codex now: its state is dropped.          *)
LoopDrop ==
  /\ setup.autocf /\ loop.pc = "idle"
  /\ armed' = FALSE /\ disk' = [disk EXCEPT !.record = NoRun, !.armed = FALSE] /\ auto' = "none"
  /\ UNCHANGED <<setup, flow, runs, at, hat, run, loop, sess, seen, told, lapse, resumed, bounds>>

LoopSave ==
  /\ loop.pc = "save"
  /\ disk' = [disk EXCEPT !.armed = armed] /\ loop' = [loop EXCEPT !.pc = "idle"]
  /\ UNCHANGED <<setup, flow, runs, at, hat, run, armed, sess, seen, told, lapse, resumed, auto, bounds>>

(* AUTOCF_RETRY_COOLDOWN passes.                                            *)
Cools ==
  /\ setup.autocf /\ disk.age = "fresh" /\ disk.record # NoRun
  /\ disk' = [disk EXCEPT !.age = "old"] /\ auto' = IF auto = "fresh" THEN "old" ELSE auto
  /\ UNCHANGED <<setup, flow, runs, at, hat, run, armed, loop, sess, seen, told, lapse, resumed, bounds>>

(* The daemon dies and starts again: threads and tables are gone.           *)
Crash ==
  /\ bounds["crashes"] < setup.crashes /\ Counts("crashes")
  /\ flow' = NoRun
  /\ at' = [r \in Runs |-> IF at[r] = "no" THEN "no" ELSE "over"]
  /\ hat' = [r \in Runs |-> IF hat[r] = "no" THEN "no" ELSE "over"]
  /\ armed' = disk.armed /\ loop' = [pc |-> "idle", pct |-> "low"]
  /\ lapse' = Lapses("crash")
  /\ auto' = IF auto = "old" /\ disk.record = NoRun THEN "lost" ELSE auto
  /\ UNCHANGED <<setup, runs, run, disk, sess, seen, told, resumed>>

---------------------------------------------------------------------------
(* The session.                                                             *)
Reads(r) == at[r] \in ModelWaits \cup {"modal", "start?", "compacted?"} \/ hat[r] \in ModelWaits
Logs(lines) == seen' = [r \in Runs |-> IF Reads(r) THEN seen[r] \cup lines ELSE {}]
SessionOnly == UNCHANGED <<setup, flow, runs, at, hat, run, disk, armed, loop, told, lapse, resumed, auto>>

(* The next line is run: a command takes effect or is lost to a dialog, a   *)
(* /compact starts, is refused by a hook or opens a modal, a prompt is a    *)
(* turn, and the write-up leaves its marker or does not.                    *)
TakeLine ==
  /\ Quiet /\ sess.term # <<>>
  /\ LET line == Head(sess.term)
         next == [sess EXCEPT !.term = Tail(@)]
     IN \/ /\ line.k \in {"model", "effort"}
           /\ sess' = [next EXCEPT !.pair[line.k] = line.v] /\ Logs({line})
        \/ /\ line.k \in {"model", "effort", "compact"} /\ setup.refuses
           /\ sess' = next /\ Logs({})
        \/ line.k = "compact" /\ sess' = [next EXCEPT !.st = "compacting"] /\ Logs({})
        \/ /\ line.k = "compact" /\ setup.refuses
           /\ \/ sess' = [next EXCEPT !.st = "modal"] /\ Logs({})
              \/ sess' = next /\ Logs({Event("refused")})
        \/ /\ line.k \in {"write", "resume", "notice"}
           /\ sess' = [next EXCEPT !.st = "turn"] /\ Logs({})
        \/ /\ line.k = "write"
           /\ sess' = [next EXCEPT !.st = "turn", !.marker = @ \cup {line.r}] /\ Logs({})
  /\ UNCHANGED bounds /\ SessionOnly

StartTurn ==
  /\ Quiet /\ sess.term = <<>>
  /\ bounds["turns"] < setup.turns /\ Counts("turns")
  /\ sess' = [sess EXCEPT !.st = "turn"] /\ UNCHANGED seen /\ SessionOnly

(* The turn's record names the model it ran on; the context may have grown. *)
EndTurn ==
  /\ sess.st = "turn"
  /\ \E c \in {sess.ctx, "high"} : sess' = [sess EXCEPT !.st = "idle", !.said = sess.pair, !.ctx = c]
  /\ UNCHANGED <<seen, bounds>> /\ SessionOnly

(* Only the loop reads the context: without it the size is not kept.        *)
FinishCompact ==
  /\ sess.st = "compacting"
  /\ sess' = [sess EXCEPT !.st = "idle", !.ctx = IF setup.autocf THEN "low" ELSE @]
  /\ Logs({Event("submitted"), Event("completed")}) /\ UNCHANGED bounds /\ SessionOnly

PaneDies ==
  /\ Alive /\ setup.refuses /\ sess' = [sess EXCEPT !.st = "dead", !.term = <<>>]
  /\ UNCHANGED <<seen, bounds>> /\ SessionOnly

---------------------------------------------------------------------------
Worker(r) ==
  \/ OpenRecord(r) \/ Settle(r) \/ Write(r) \/ AwaitWritten(r) \/ Dismiss(r)
  \/ RecordIssue(r) \/ MakePlan(r) \/ AwaitIdle(r) \/ WorkerTypes(r) \/ WorkerAwaits(r)
  \/ InjectCompact(r) \/ ClearModal(r) \/ AwaitStart(r) \/ AwaitCompacted(r) \/ Close(r)
  \/ Resume(r)
Halter(r) ==
  \/ HaltTells(r) \/ HalterWaits(r) \/ HalterTypes(r) \/ HalterAwaits(r)
  \/ HalterDecides(r)
Loop == LoopLook \/ LoopRecord \/ LoopRearm \/ LoopFire \/ LoopSave
Session == TakeLine \/ StartTurn \/ EndTurn \/ FinishCompact \/ PaneDies

Next ==
  \/ OwnerStarts \/ Loop \/ LoopDrop \/ Cools \/ Crash \/ Session
  \/ \E r \in Runs : Worker(r) \/ Halter(r) \/ WorkerRaises(r) \/ Halt(r) \/ HalterRaises(r)

Spec == Init /\ [][Next]_vars

(* Threads of a running daemon keep running, and time passes.               *)
Fairness == /\ \A r \in Runs : WF_vars(Worker(r)) /\ WF_vars(Halter(r))
            /\ WF_vars(Loop) /\ WF_vars(Cools)
FairSpec == Spec /\ Fairness

---------------------------------------------------------------------------
TypeOK ==
  /\ setup \in Setups /\ flow \in {NoRun} \cup Runs /\ runs \in 0..MaxRuns
  /\ at \in [Runs -> Places] /\ hat \in [Runs -> Halts] /\ run \in [Runs -> Run]
  /\ disk \in [record : {NoRun} \cup Runs, age : {"fresh", "old"}, armed : BOOLEAN,
               owed : Pairs \cup {NoPair}]
  /\ armed \in BOOLEAN
  /\ loop \in [pc : {"idle", "look", "stale", "fire", "call", "save"}, pct : {"low", "high"}]
  /\ sess \in [st : {"idle", "turn", "compacting", "modal", "dead"}, term : Seq(Lines),
               pair : Pairs, said : Pairs, ctx : {"low", "high"}, marker : SUBSET Runs]
  /\ Len(sess.term) <= MaxTerm
  /\ seen \in [Runs -> SUBSET (Lines \cup Events)]
  /\ told \in BOOLEAN /\ lapse \in {"none", "withheld", "raised", "stale", "mistaken", "forgotten", "crash"}
  /\ resumed \subseteq Runs /\ auto \in {"none", "fresh", "old", "lost"}
  /\ bounds \in [{"withheld", "raises", "crashes", "turns"} -> Nat]

(* A run the owner halted never resumes the session: a message either wins  *)
(* the lock before the resume line is sent, or finds no flow to halt (#88). *)
HaltedNeverResumes == \A r \in resumed : hat[r] = "no"

(* No exit leaves the session on the compaction model silently: when no     *)
(* thread still owes a switch back, it is on its own pair, or the registry  *)
(* owes it one, or the owner was told.  The faults that do leave it so are  *)
(* named in lapse.                                                          *)
SwitchBackDue == \E r \in Runs : \/ run[r].mode = "switched" /\ at[r] # "over"
                                 \/ at[r] \in {"rsmodel", "rsmodel?", "rseffort", "rseffort?"}
                                 \/ hat[r] \notin {"no", "over"}
SilentlyCheap == /\ Alive /\ ~SwitchBackDue
                 /\ sess.pair # Own /\ disk.owed = NoPair /\ ~told
NeverSilentlyCheap == lapse = "none" => ~SilentlyCheap

(* The promise without the exceptions.                                      *)
NoExitSilent == lapse # "crash" => ~SilentlyCheap

(* An automatic run stays on record until it has compacted: no older worker *)
(* that is still unwinding, and no tick of the loop, closes its record.     *)
AutoRunOnRecord ==
  \A r \in Runs : Owns(r) /\ run[r].via = "auto" /\ at[r] \in Uncompacted /\ auto # "none"
                    => disk.record = r
RunsOnRecord == TypeOK /\ AutoRunOnRecord

(* The loop never starts a run while the last one it started and that did   *)
(* not compact is younger than the cooldown, a crash in between included.   *)
CooldownHonoured == [][loop.pc # "fire" /\ loop'.pc = "fire" => auto # "fresh"]_vars

(* A run with a worker ends: its kill-switch does not stay armed.  Excepted *)
(* is the flow of a run whose start notice raised (8780-8795, 2075-2077):   *)
(* nothing but the owner's next message releases it.                        *)
FlowEnds == \A r \in Runs : Owns(r) ~> ~Owns(r) \/ Orphaned(r)

(* An automatic run that never compacted is not the last one: the loop      *)
(* tries again while the context is full (#239).  Excepted are an orphaned  *)
(* flow, which blocks the loop, and "lost": the daemon dies after the loop  *)
(* consumed the record and before the next one is opened, or a message of   *)
(* the loop raises there, which leaves the topic armed with no run.         *)
Retried == auto = "none" \/ loop.pc = "fire" \/ sess.ctx = "low" \/ ~Alive
UnfinishedIsRetried ==
  auto \in {"fresh", "old"} ~> Retried \/ auto = "lost" \/ \E r \in Runs : Orphaned(r)

(* What is started is brought to an end, the exceptions above apart: the    *)
(* run, and the compaction.                                                 *)
RunsConclude == FlowEnds /\ UnfinishedIsRetried

(* The promise without these exceptions.                                    *)
AlwaysRetried == auto # "none" ~> Retried
=============================================================================
