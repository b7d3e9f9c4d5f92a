------------------------ MODULE CarryForward_proofs ------------------------
(***************************************************************************)
(* Proofs about CarryForward for any configurations, numbers of runs and    *)
(* tries: a halted run never resumes the session, an automatic run stays on *)
(* record until it compacted, the cooldown between two is honoured, and no  *)
(* exit leaves the session silently on the compaction model.                *)
(***************************************************************************)
EXTENDS CarryForward, SequenceTheorems, TLAPS

(* What the constants and the places are.                                   *)
LEMMA Pairing == Own \in Pairs /\ Cheap \in Pairs /\ NoPair \notin Pairs
  BY DEF Own, Cheap, NoPair, Pairs

LEMMA NewRunType == \A via \in {"owner", "auto"} : NewRun(via) \in Run
<1> SUFFICES ASSUME NEW via \in {"owner", "auto"} PROVE NewRun(via) \in Run
  OBVIOUS
<1>1. NoLine \in Lines
  BY DEF NoLine, Line, Lines, Runs, NoRun
<1>2. 0 \in 0..(Tries - 1)
  BY CarryForwardAssumption DEF CarryForwardAssumption
<1> QED BY <1>1, <1>2 DEF NewRun, Run

LEMMA RunNumbers == NoRun \notin Runs /\ Runs \subseteq Nat
  BY DEF NoRun, Runs

Restoring == {"rsmodel", "rsmodel?", "rseffort", "rseffort?"}
Early == {"no", "start", "settle", "write", "done?", "issue", "plan", "escape"}

LEMMA PlaceNames ==
  /\ ModelSteps \subseteq Places /\ ModelWaits \subseteq Places /\ Uncompacted \subseteq Places
  /\ Restoring \subseteq ModelSteps \cup ModelWaits /\ Early \subseteq Places
  /\ {"over", "close", "resume", "start", "escape"} \subseteq Places
  BY DEF Places, ModelSteps, ModelWaits, Uncompacted, Restoring, Early

---------------------------------------------------------------------------
(* The plan of a run.  It is made once, before the first switch, and a      *)
(* thread that types a model line has one.                                  *)
PlanOf(r) ==
  /\ run[r].plan = NoPair <=> run[r].now = NoPair
  /\ at[r] \in ModelSteps \cup ModelWaits \/ run[r].mode # "fresh" \/ hat[r] \in {"wait"} \cup Restoring
       => run[r].plan # NoPair
  /\ at[r] \in Early => run[r].plan = NoPair

PlanInv == \A r \in Runs : PlanOf(r)

(* A run that has not compacted: it is on its way there, or it undoes a     *)
(* switch that was not confirmed.                                           *)
NotYet(r) == at[r] \in Uncompacted \/ (at[r] \in Restoring /\ run[r].why = "unswitched")

(* What a step of its worker does to a run.                                 *)
WorkStep(r) ==
  /\ at' \in [Runs -> Places] /\ run' \in [Runs -> Run]
  /\ \A q \in Runs \ {r} : at'[q] = at[q] /\ run'[q] = run[q]
  /\ flow' \in {flow, NoRun} /\ (flow' = NoRun => flow \in {NoRun, r})
  /\ PlanOf(r)'
  /\ at'[r] \notin {"no", "start"}
  /\ run'[r].via \in {run[r].via, "owner"}
  /\ NotYet(r)' => NotYet(r) \/ at[r] = "start"

(* A worker moves on and keeps what it kept.                                *)
LEMMA MoveStep ==
  ASSUME TypeOK, PlanInv, NEW r \in Runs, hat' = hat, run' = run, NEW place \in Places,
         Go(r, place), flow' \in {flow, NoRun}, flow' = NoRun => flow \in {NoRun, r},
         place \notin {"no", "start"},
         place \in ModelSteps \cup ModelWaits => run[r].plan # NoPair,
         place \in Early => at[r] \in Early,
         place \in Uncompacted => NotYet(r) \/ at[r] = "start",
         place \in Restoring => at[r] \in Restoring
  PROVE  WorkStep(r)
<1>1. /\ at' \in [Runs -> Places] /\ at'[r] = place /\ run' \in [Runs -> Run]
      /\ \A q \in Runs \ {r} : at'[q] = at[q] /\ run'[q] = run[q]
  BY DEF Go, TypeOK
<1>2. PlanOf(r)'
  BY <1>1 DEF PlanInv, PlanOf, ModelSteps, ModelWaits, Restoring, Early, NoPair
<1>3. NotYet(r)' => NotYet(r) \/ at[r] = "start"
  BY <1>1 DEF NotYet, Uncompacted, ModelSteps, ModelWaits, Restoring
<1> QED BY <1>1, <1>2, <1>3 DEF WorkStep

LEMMA EndStep ==
  ASSUME TypeOK, PlanInv, NEW r \in Runs, hat' = hat, Ends(r)
  PROVE  WorkStep(r) /\ at'[r] = "over"
<1>1. /\ at' \in [Runs -> Places] /\ at'[r] = "over"
      /\ \A q \in Runs \ {r} : at'[q] = at[q]
  BY PlaceNames DEF Ends, Go, TypeOK
<1>2. flow' \in {flow, NoRun} /\ (flow' = NoRun => flow \in {NoRun, r})
  BY DEF Ends, Release, Owns
<1>3. ~NotYet(r)'
  BY <1>1 DEF NotYet, Uncompacted, ModelSteps, ModelWaits, Restoring
<1>4. CASE hat[r] \in {"no", "over"}
  <2>1. run' = [run EXCEPT ![r] = NewRun("owner")]
    BY <1>4 DEF Ends, Forgets
  <2>2. /\ run' \in [Runs -> Run] /\ run'[r] = NewRun("owner")
        /\ \A q \in Runs \ {r} : run'[q] = run[q]
    BY <2>1, NewRunType DEF TypeOK
  <2>3. PlanOf(r)'
    BY <1>1, <1>4, <2>2 DEF PlanOf, NewRun, ModelSteps, ModelWaits, Restoring, Early, NoPair
  <2> QED BY <1>1, <1>2, <1>3, <2>2, <2>3 DEF WorkStep, NewRun
<1>5. CASE hat[r] \notin {"no", "over"}
  <2>1. run' = run
    BY <1>5 DEF Ends
  <2>2. PlanOf(r)'
    BY <1>1, <2>1 DEF PlanInv, PlanOf, ModelSteps, ModelWaits, Restoring, Early, NoPair
  <2> QED BY <1>1, <1>2, <1>3, <2>1, <2>2 DEF WorkStep, TypeOK
<1> QED BY <1>4, <1>5

(* The run whose start notice raised is over; its flow is left.             *)
LEMMA OrphanStep ==
  ASSUME TypeOK, PlanInv, NEW r \in Runs, hat' = hat, at[r] = "start", Go(r, "over"), Forgets(r),
         UNCHANGED flow
  PROVE  WorkStep(r) /\ at'[r] = "over"
<1>1. /\ at' \in [Runs -> Places] /\ at'[r] = "over"
      /\ \A q \in Runs \ {r} : at'[q] = at[q]
  BY PlaceNames DEF Go, TypeOK
<1>2. /\ run' \in [Runs -> Run] /\ run'[r] = NewRun("owner")
      /\ \A q \in Runs \ {r} : run'[q] = run[q]
  BY NewRunType DEF Forgets, TypeOK
<1>3. flow' = flow /\ flow \in {NoRun} \cup Runs /\ (flow' = NoRun => flow \in {NoRun, r})
  BY DEF TypeOK
<1>4. ~NotYet(r)'
  BY <1>1 DEF NotYet, Uncompacted, ModelSteps, ModelWaits, Restoring
<1>5. hat[r] \notin {"wait"} \cup Restoring
  BY DEF PlanInv, PlanOf, Early, NoPair
<1>6. PlanOf(r)'
  BY <1>1, <1>2, <1>5 DEF PlanOf, NewRun, ModelSteps, ModelWaits, Restoring, Early, NoPair
<1> QED BY <1>1, <1>2, <1>3, <1>4, <1>6 DEF WorkStep, NewRun

(* The entries of a run that a step writes.                                 *)
LEMMA SettleRun ==
  ASSUME TypeOK, NEW r \in Runs, NEW why \in {"unswitched", "giveup", "resume"},
         run' = [run EXCEPT ![r].mode = "settled", ![r].why = why]
  PROVE  /\ run' \in [Runs -> Run] /\ \A q \in Runs \ {r} : run'[q] = run[q]
         /\ run'[r].plan = run[r].plan /\ run'[r].now = run[r].now /\ run'[r].via = run[r].via
         /\ run'[r].mode = "settled" /\ run'[r].why = why
         /\ run'[r].sent = run[r].sent /\ run'[r].end = run[r].end
<1> DEFINE m == [run[r] EXCEPT !.mode = "settled"]
           n == [m EXCEPT !.why = why]
<1>1. run \in [Runs -> Run] /\ run[r] \in Run
  BY DEF TypeOK
<1>2. run' = [run EXCEPT ![r] = n]
  OBVIOUS
<1>3. /\ m \in Run /\ m.plan = run[r].plan /\ m.now = run[r].now /\ m.via = run[r].via /\ m.mode = "settled"
      /\ m.sent = run[r].sent /\ m.end = run[r].end
  BY <1>1 DEF Run
<1> HIDE DEF m
<1>4. /\ n \in Run /\ n.plan = run[r].plan /\ n.now = run[r].now /\ n.via = run[r].via /\ n.mode = "settled"
      /\ n.why = why /\ n.sent = run[r].sent /\ n.end = run[r].end
  BY <1>3 DEF Run
<1> HIDE DEF n
<1> QED BY <1>1, <1>2, <1>4

LEMMA KeepRun ==
  ASSUME TypeOK, NEW r \in Runs, NEW f \in {"mode", "tries", "sent", "end"}, NEW x, Keep(r, f, x),
         f = "mode" => x \in {"fresh", "switched", "settled"},
         f = "tries" => x \in 0..(Tries - 1),
         f = "sent" => x \in Lines,
         f = "end" => x \in {"none", "busy", "stopped", "error", "done"}
  PROVE  /\ run' \in [Runs -> Run] /\ \A q \in Runs \ {r} : run'[q] = run[q]
         /\ run'[r].plan = run[r].plan /\ run'[r].now = run[r].now /\ run'[r].via = run[r].via
         /\ run'[r].why = run[r].why /\ run'[r][f] = x
         /\ f # "mode" => run'[r].mode = run[r].mode
         /\ f # "sent" => run'[r].sent = run[r].sent
         /\ f # "end" => run'[r].end = run[r].end
<1>1. run \in [Runs -> Run] /\ run[r] \in Run
  BY DEF TypeOK
<1>2. run' = [run EXCEPT ![r] = [run[r] EXCEPT ![f] = x]]
  BY DEF Keep
<1>3. CASE f = "mode"
  BY <1>1, <1>2, <1>3 DEF Run
<1>4. CASE f = "tries"
  BY <1>1, <1>2, <1>4 DEF Run
<1>5. CASE f = "sent"
  BY <1>1, <1>2, <1>5 DEF Run
<1>6. CASE f = "end"
  BY <1>1, <1>2, <1>6 DEF Run
<1> QED BY <1>3, <1>4, <1>5, <1>6

LEMMA RestoreStep ==
  ASSUME TypeOK, PlanInv, NEW r \in Runs, hat' = hat, NEW why \in {"giveup", "resume"}, Restore(r, why)
  PROVE  WorkStep(r)
<1>1. CASE run[r].mode = "switched"
  <2>1. /\ run' \in [Runs -> Run] /\ \A q \in Runs \ {r} : run'[q] = run[q]
        /\ run'[r].plan = run[r].plan /\ run'[r].now = run[r].now /\ run'[r].via = run[r].via
        /\ run'[r].why = why
    BY <1>1, SettleRun DEF Restore
  <2>2. /\ at' \in [Runs -> Places] /\ at'[r] = "rsmodel" /\ flow' = flow
        /\ \A q \in Runs \ {r} : at'[q] = at[q]
    BY SMTT(30), <1>1, PlaceNames DEF Restore, Go, TypeOK, ModelSteps
  <2>3. run[r].plan # NoPair
    BY <1>1 DEF PlanInv, PlanOf
  <2>4. PlanOf(r)'
    BY <2>1, <2>2, <2>3 DEF PlanInv, PlanOf, Early, NoPair
  <2>5. ~NotYet(r)'
    BY <2>1, <2>2 DEF NotYet, Uncompacted
  <2> QED BY <2>1, <2>2, <2>4, <2>5 DEF WorkStep
<1>2. CASE run[r].mode # "switched" /\ why = "resume"
  <2>1. Go(r, "resume") /\ flow' = flow /\ run' = run /\ "resume" \in Places
    BY <1>2, PlaceNames DEF Restore
  <2> QED BY <2>1, MoveStep DEF ModelSteps, ModelWaits, Early, Uncompacted, Restoring
<1>3. CASE run[r].mode # "switched" /\ why # "resume"
  <2>1. Ends(r)
    BY <1>3 DEF Restore
  <2> QED BY <2>1, EndStep
<1> QED BY <1>1, <1>2, <1>3

LEMMA RetryStep ==
  ASSUME TypeOK, PlanInv, NEW r \in Runs, hat' = hat, Retry(r), NotYet(r)
  PROVE  WorkStep(r)
<1>1. CASE run[r].tries + 1 < Tries
  <2>1. run[r].tries + 1 \in 0..(Tries - 1)
    <3>1. run[r] \in Run
      BY DEF TypeOK
    <3>2. PICK n \in Nat : n = run[r].tries
      BY <3>1 DEF Run
    <3>3. Tries \in Nat
      BY CarryForwardAssumption DEF CarryForwardAssumption
    <3> QED BY <1>1, <3>2, <3>3
  <2>2. Keep(r, "tries", run[r].tries + 1) /\ Go(r, "idle?") /\ flow' = flow
    BY <1>1 DEF Retry
  <2>3. /\ run' \in [Runs -> Run] /\ \A q \in Runs \ {r} : run'[q] = run[q]
        /\ run'[r].plan = run[r].plan /\ run'[r].now = run[r].now /\ run'[r].via = run[r].via
        /\ run'[r].mode = run[r].mode
    BY <2>1, <2>2, KeepRun
  <2>4. at' \in [Runs -> Places] /\ at'[r] = "idle?" /\ \A q \in Runs \ {r} : at'[q] = at[q]
    BY <2>2, PlaceNames DEF Go, TypeOK, Uncompacted
  <2>5. PlanOf(r)'
    BY <2>3, <2>4 DEF PlanInv, PlanOf, Early, ModelSteps, ModelWaits, NoPair, Restoring
  <2> QED BY <2>2, <2>3, <2>4, <2>5 DEF WorkStep
<1>2. CASE ~(run[r].tries + 1 < Tries)
  <2>1. Restore(r, "giveup")
    BY <1>2 DEF Retry
  <2> QED BY <2>1, RestoreStep
<1> QED BY <1>1, <1>2

---------------------------------------------------------------------------
(* The lines a run types.                                                   *)
LEMMA LineType ==
  ASSUME NEW r \in Runs, NEW place \in ModelSteps \cup ModelWaits, NEW h \in BOOLEAN,
         run[r].plan \in Pairs
  PROVE  /\ LineOf(place, r, h) \in Lines
         /\ LineOf(place, r, h).k \in {"model", "effort"} /\ LineOf(place, r, h).v \in {"own", "cheap"}
         /\ LineOf(place, r, h).r = r /\ LineOf(place, r, h).h = h
<1>1. \A k \in {"model", "effort"}, v \in {"own", "cheap"} :
        LET l == [k |-> k, v |-> v, r |-> r, h |-> h] IN l \in Lines /\ l.k = k /\ l.v = v
  BY DEF Lines
<1>2. \A k \in {"model", "effort"} : Cheap[k] \in {"own", "cheap"} /\ run[r].plan[k] \in {"own", "cheap"}
  BY Pairing DEF Pairs
<1>3. PICK k \in {"model", "effort"}, v \in {"own", "cheap"} :
        LineOf(place, r, h) = [k |-> k, v |-> v, r |-> r, h |-> h]
  BY <1>2 DEF LineOf
<1> QED BY <1>1, <1>3

LEMMA PlanType ==
  ASSUME TypeOK, PlanInv, NEW r \in Runs,
         at[r] \in ModelSteps \cup ModelWaits \/ hat[r] \in {"wait"} \cup Restoring
  PROVE  run[r].plan \in Pairs /\ run[r].now \in Pairs
  BY DEF TypeOK, PlanInv, PlanOf, Run

LEMMA NotedRun ==
  ASSUME TypeOK, PlanInv, NEW r \in Runs, NEW place \in ModelSteps \cup ModelWaits,
         run[r].plan \in Pairs, run[r].now \in Pairs
  PROVE  /\ Noted(r, place) \in [Runs -> Run]
         /\ \A q \in Runs \ {r} : Noted(r, place)[q] = run[q]
         /\ Noted(r, place)[r].plan = run[r].plan /\ Noted(r, place)[r].now \in Pairs
         /\ Noted(r, place)[r].via = run[r].via /\ Noted(r, place)[r].mode = run[r].mode
         /\ Noted(r, place)[r].why = run[r].why /\ Noted(r, place)[r].end = run[r].end
         /\ Noted(r, place)[r].sent = NoLine
         /\ Noted(r, place)[r].now[LineOf(place, r, FALSE).k] = LineOf(place, r, FALSE).v
<1> DEFINE k == LineOf(place, r, FALSE).k
           v == LineOf(place, r, FALSE).v
           p == [run[r].now EXCEPT ![k] = v]
           m == [run[r] EXCEPT !.now = p]
           n == [m EXCEPT !.sent = NoLine]
<1>1. run \in [Runs -> Run] /\ run[r] \in Run /\ NoLine \in Lines
  BY DEF TypeOK, NoLine, Lines, Line, NoRun
<1>2. k \in {"model", "effort"} /\ v \in {"own", "cheap"}
  BY LineType
<1>3. Noted(r, place) = [run EXCEPT ![r] = n]
  BY DEF Noted
<1> HIDE DEF k, v
<1>4. p \in Pairs /\ p[k] = v
  BY <1>2 DEF Pairs
<1> HIDE DEF p
<1>5. /\ m \in Run /\ m.now = p /\ m.plan = run[r].plan /\ m.via = run[r].via /\ m.mode = run[r].mode
      /\ m.why = run[r].why /\ m.end = run[r].end
  BY <1>1, <1>4 DEF Run
<1> HIDE DEF m
<1>6. /\ n \in Run /\ n.now = p /\ n.plan = run[r].plan /\ n.via = run[r].via /\ n.mode = run[r].mode
      /\ n.why = run[r].why /\ n.end = run[r].end /\ n.sent = NoLine
  BY <1>1, <1>5 DEF Run
<1> HIDE DEF n
<1>7. /\ Noted(r, place) \in [Runs -> Run] /\ Noted(r, place)[r] = n
      /\ \A q \in Runs \ {r} : Noted(r, place)[q] = run[q]
  BY <1>1, <1>3, <1>6
<1> QED BY <1>4, <1>6, <1>7 DEF k, v

(* A worker that has noted what a line did, or noted nothing, moves on.     *)
LEMMA NoteStep ==
  ASSUME TypeOK, PlanInv, NEW r \in Runs, hat' = hat, flow' = flow,
         at[r] \in ModelSteps \cup ModelWaits, NEW place \in ModelSteps \cup ModelWaits,
         run' \in {run, Noted(r, place)}, NEW next \in Places \ (Early \cup {"no", "start"}), Go(r, next),
         next \in Uncompacted => NotYet(r),
         next \in Restoring => at[r] \in Restoring
  PROVE  WorkStep(r)
<1>1. run[r].plan \in Pairs /\ run[r].now \in Pairs
  BY PlanType
<1>2. /\ run' \in [Runs -> Run] /\ \A q \in Runs \ {r} : run'[q] = run[q]
      /\ run'[r].plan = run[r].plan /\ run'[r].now \in Pairs
      /\ run'[r].via = run[r].via /\ run'[r].why = run[r].why
  <2>1. CASE run' = run
    BY <1>1, <2>1 DEF TypeOK
  <2>2. CASE run' = Noted(r, place)
    BY <1>1, <2>2, NotedRun
  <2> QED BY <2>1, <2>2
<1>3. at' \in [Runs -> Places] /\ at'[r] = next /\ \A q \in Runs \ {r} : at'[q] = at[q]
  BY DEF Go, TypeOK
<1>4. PlanOf(r)'
  <2>1. run'[r].plan # NoPair /\ run'[r].now # NoPair /\ at'[r] \notin Early
    BY <1>1, <1>2, <1>3, Pairing
  <2> QED BY <2>1 DEF PlanOf, NoPair, Early
<1>5. NotYet(r)' => NotYet(r)
  BY <1>2, <1>3 DEF NotYet, Uncompacted, ModelSteps, ModelWaits, Restoring
<1> QED BY <1>2, <1>3, <1>4, <1>5 DEF WorkStep

LEMMA AfterRestoreStep ==
  ASSUME TypeOK, PlanInv, NEW r \in Runs, hat' = hat, at[r] \in Restoring,
         NEW outcome \in {"ok", "failed", "aborted"}, NEW kept,
         kept = run \/ kept = Noted(r, at[r]), AfterRestore(r, outcome, kept)
  PROVE  WorkStep(r)
<1>0. at[r] \in ModelSteps \cup ModelWaits
  BY PlaceNames
<1>1. CASE run[r].why = "resume"
  <2>1. Go(r, "resume") /\ run' = kept /\ flow' = flow
    BY <1>1 DEF AfterRestore
  <2>2. "resume" \in Places \ (Early \cup {"no", "start"})
    BY PlaceNames DEF Early
  <2> QED BY <1>0, <2>1, <2>2, NoteStep DEF Uncompacted, Restoring
<1>2. CASE run[r].why = "unswitched" /\ outcome = "ok" /\ Owns(r)
  <2>1. Go(r, "compact") /\ run' = kept /\ flow' = flow
    BY <1>2 DEF AfterRestore
  <2>2. "compact" \in Places \ (Early \cup {"no", "start"})
    BY PlaceNames DEF Early, Uncompacted
  <2>3. NotYet(r)
    BY <1>2 DEF NotYet
  <2> QED BY <1>0, <2>1, <2>2, <2>3, NoteStep DEF Restoring
<1>3. CASE run[r].why # "resume" /\ ~(run[r].why = "unswitched" /\ outcome = "ok" /\ Owns(r))
  <2>1. Ends(r)
    BY <1>3 DEF AfterRestore
  <2> QED BY <2>1, EndStep
<1> QED BY <1>1, <1>2, <1>3

LEMMA AfterFailureStep ==
  ASSUME TypeOK, PlanInv, NEW r \in Runs, hat' = hat, at[r] \in ModelSteps \cup ModelWaits, AfterFailure(r)
  PROVE  WorkStep(r)
<1>1. CASE at[r] \in {"swmodel", "swmodel?", "sweffort", "sweffort?"}
  <2>1. /\ run' \in [Runs -> Run] /\ \A q \in Runs \ {r} : run'[q] = run[q]
        /\ run'[r].plan = run[r].plan /\ run'[r].now = run[r].now /\ run'[r].via = run[r].via
    BY <1>1, SettleRun DEF AfterFailure
  <2>2. /\ at' \in [Runs -> Places] /\ at'[r] = "rsmodel" /\ flow' = flow
        /\ \A q \in Runs \ {r} : at'[q] = at[q]
    BY <1>1, PlaceNames DEF AfterFailure, Go, TypeOK, ModelSteps
  <2>3. run[r].plan # NoPair
    BY DEF PlanInv, PlanOf
  <2>4. PlanOf(r)'
    BY <2>1, <2>2, <2>3 DEF PlanInv, PlanOf, Early, NoPair
  <2>5. NotYet(r)
    BY <1>1 DEF NotYet, Uncompacted
  <2> QED BY <2>1, <2>2, <2>4, <2>5 DEF WorkStep
<1>2. CASE at[r] \notin {"swmodel", "swmodel?", "sweffort", "sweffort?"}
  <2>1. at[r] \in Restoring
    BY <1>2 DEF Restoring, ModelSteps, ModelWaits
  <2>2. AfterRestore(r, "failed", run)
    BY <1>2 DEF AfterFailure
  <2> QED BY <2>1, <2>2, AfterRestoreStep
<1> QED BY <1>1, <1>2

LEMMA AfterAbortStep ==
  ASSUME TypeOK, PlanInv, NEW r \in Runs, hat' = hat, AfterAbort(r)
  PROVE  WorkStep(r)
<1>1. CASE at[r] \in Restoring
  <2>1. AfterRestore(r, "aborted", run)
    BY <1>1 DEF AfterAbort, Restoring
  <2> QED BY <1>1, <2>1, AfterRestoreStep
<1>2. CASE at[r] \notin Restoring
  <2>1. Ends(r)
    BY <1>2 DEF AfterAbort, Restoring
  <2> QED BY <2>1, EndStep
<1> QED BY <1>1, <1>2

(* Every step of a worker is one.                                           *)
LEMMA WorkerStep ==
  ASSUME TypeOK, PlanInv, NEW r \in Runs, Worker(r) \/ WorkerRaises(r)
  PROVE  WorkStep(r)
<1>0. hat' = hat
  BY DEF Worker, WorkerRaises, OpenRecord, Settle, Write, AwaitWritten, Dismiss, RecordIssue, MakePlan,
         AwaitIdle, WorkerTypes, WorkerAwaits, InjectCompact, ClearModal, AwaitStart, AwaitCompacted,
         Close, Resume
<1>1. CASE OpenRecord(r)
  <2>1. CASE Ends(r)
    BY <1>0, <2>1, EndStep
  <2>2. CASE Go(r, "over") /\ Forgets(r) /\ UNCHANGED flow
    BY <1>0, <1>1, <2>2, OrphanStep DEF OpenRecord
  <2>3. CASE ~Go(r, "over")
    <3>1. /\ at[r] = "start" /\ run' = run /\ flow' = flow
          /\ Go(r, IF setup.cycle THEN "settle" ELSE "plan")
      BY <1>1, <2>3 DEF OpenRecord, Ends
    <3>2. PICK place \in {"settle", "plan"} : Go(r, place)
      BY <3>1
    <3>3. place \in Places
      BY PlaceNames DEF Uncompacted
    <3> QED BY <1>0, <3>1, <3>2, <3>3, MoveStep DEF Early, ModelSteps, ModelWaits, Restoring
  <2>4. Go(r, "over") => ~Go(r, "settle") /\ ~Go(r, "plan")
    BY DEF Go, TypeOK
  <2> QED BY <1>1, <2>1, <2>2, <2>3, <2>4 DEF OpenRecord
<1>2. CASE Settle(r)
  <2>1. CASE Ends(r)
    BY <1>0, <2>1, EndStep
  <2>2. CASE ~Ends(r)
    <3>1. at[r] = "settle" /\ run' = run /\ flow' = flow /\ Go(r, "write") /\ "write" \in Places
      BY <1>2, <2>2, PlaceNames DEF Settle, Uncompacted
    <3> QED BY <1>0, <3>1, MoveStep DEF Early, ModelSteps, ModelWaits, Restoring, NotYet, Uncompacted
  <2> QED BY <2>1, <2>2
<1>3. CASE Write(r)
  <2>1. CASE Ends(r)
    BY <1>0, <2>1, EndStep
  <2>2. CASE ~Ends(r)
    <3>1. at[r] = "write" /\ run' = run /\ flow' = flow /\ Go(r, "done?") /\ "done?" \in Places
      BY <1>3, <2>2, PlaceNames DEF Write, Uncompacted
    <3> QED BY <1>0, <3>1, MoveStep DEF Early, ModelSteps, ModelWaits, Restoring, NotYet, Uncompacted
  <2> QED BY <2>1, <2>2
<1>4. CASE AwaitWritten(r)
  <2>1. CASE Ends(r)
    BY <1>0, <2>1, EndStep
  <2>2. CASE ~Ends(r)
    <3>1. /\ at[r] = "done?" /\ run' = run
          /\ \/ flow' = flow /\ Go(r, "issue")
             \/ Owns(r) /\ flow' = NoRun /\ Go(r, "escape")
      BY <1>4, <2>2 DEF AwaitWritten, Release
    <3>2. PICK place \in {"issue", "escape"} : Go(r, place)
      BY <3>1
    <3>3. place \in Places
      BY PlaceNames DEF Uncompacted
    <3>4. flow' \in {flow, NoRun} /\ (flow' = NoRun => flow \in {NoRun, r})
      BY <3>1 DEF Owns
    <3> QED BY <1>0, <3>1, <3>2, <3>3, <3>4, MoveStep
            DEF Early, ModelSteps, ModelWaits, Restoring, NotYet, Uncompacted
  <2> QED BY <2>1, <2>2
<1>5. CASE Dismiss(r)
  BY <1>0, <1>5, EndStep DEF Dismiss
<1>6. CASE RecordIssue(r)
  <2>1. CASE Ends(r)
    BY <1>0, <2>1, EndStep
  <2>2. CASE ~Ends(r)
    <3>1. at[r] = "issue" /\ run' = run /\ flow' = flow /\ Go(r, "plan") /\ "plan" \in Places
      BY <1>6, <2>2, PlaceNames DEF RecordIssue, Uncompacted
    <3> QED BY <1>0, <3>1, MoveStep DEF Early, ModelSteps, ModelWaits, Restoring, NotYet, Uncompacted
  <2> QED BY <2>1, <2>2
<1>7. CASE MakePlan(r)
  <2>1. PICK pair \in Pairs \cup {NoPair} : run' = [run EXCEPT ![r].plan = pair, ![r].now = pair]
    <3>1. PlannedPair \in Pairs \cup {NoPair}
      BY DEF PlannedPair, TypeOK
    <3> QED BY <1>7, <3>1 DEF MakePlan
  <2>2. /\ run' \in [Runs -> Run] /\ \A q \in Runs \ {r} : run'[q] = run[q]
        /\ run'[r].plan = pair /\ run'[r].now = pair /\ run'[r].via = run[r].via
        /\ run'[r].mode = run[r].mode
    <3> DEFINE m == [run[r] EXCEPT !.plan = pair]
               n == [m EXCEPT !.now = pair]
    <3>1. run \in [Runs -> Run] /\ run[r] \in Run /\ run' = [run EXCEPT ![r] = n]
      BY <2>1 DEF TypeOK
    <3>2. m \in Run /\ m.plan = pair /\ m.via = run[r].via /\ m.mode = run[r].mode
      BY <3>1 DEF Run
    <3> HIDE DEF m
    <3>3. n \in Run /\ n.plan = pair /\ n.now = pair /\ n.via = run[r].via /\ n.mode = run[r].mode
      BY <3>2 DEF Run
    <3> HIDE DEF n
    <3> QED BY <3>1, <3>3
  <2>3. /\ at[r] = "plan" /\ at' \in [Runs -> Places] /\ at'[r] = "idle?" /\ flow' = flow
        /\ \A q \in Runs \ {r} : at'[q] = at[q]
    BY <1>7, PlaceNames DEF MakePlan, Go, TypeOK, Uncompacted
  <2>4. run[r].mode = "fresh" /\ hat[r] \notin {"wait"} \cup Restoring
    BY <2>3 DEF PlanInv, PlanOf, Early
  <2>5. PlanOf(r)'
    BY <1>0, <2>2, <2>3, <2>4 DEF PlanOf, ModelSteps, ModelWaits, Restoring, Early, NoPair
  <2>6. NotYet(r)
    BY <2>3 DEF NotYet, Uncompacted
  <2> QED BY <2>2, <2>3, <2>5, <2>6 DEF WorkStep
<1>8. CASE AwaitIdle(r)
  <2>0. at[r] = "idle?" /\ NotYet(r)
    BY <1>8 DEF AwaitIdle, NotYet, Uncompacted
  <2>1. CASE Ends(r)
    BY <1>0, <2>1, EndStep
  <2>2. CASE Retry(r)
    BY <1>0, <2>0, <2>2, RetryStep
  <2>3. CASE flow' = flow /\ run' = run /\ Go(r, "compact")
    <3>1. "compact" \in Places
      BY PlaceNames DEF Uncompacted
    <3> QED BY <1>0, <2>0, <2>3, <3>1, MoveStep DEF Early, ModelSteps, ModelWaits, Restoring
  <2>4. CASE /\ flow' = flow /\ run[r].plan # NoPair /\ Keep(r, "mode", "switched")
             /\ Go(r, IF run[r].now["model"] = "cheap" THEN "sweffort" ELSE "swmodel")
    <3>1. PICK place \in {"swmodel", "sweffort"} : Go(r, place)
      BY <2>4
    <3>2. /\ run' \in [Runs -> Run] /\ \A q \in Runs \ {r} : run'[q] = run[q]
          /\ run'[r].plan = run[r].plan /\ run'[r].now = run[r].now /\ run'[r].via = run[r].via
      BY <2>4, KeepRun
    <3>3. at' \in [Runs -> Places] /\ at'[r] = place /\ \A q \in Runs \ {r} : at'[q] = at[q]
      BY <3>1, PlaceNames DEF Go, TypeOK, ModelSteps
    <3>4. PlanOf(r)'
      BY <2>4, <3>2, <3>3 DEF PlanInv, PlanOf, Early, NoPair
    <3> QED BY <2>0, <2>4, <3>2, <3>3, <3>4 DEF WorkStep
  <2> QED BY <1>8, <2>1, <2>2, <2>3, <2>4 DEF AwaitIdle
<1>9. CASE WorkerTypes(r)
  <2>0. at[r] \in ModelSteps
    BY <1>9 DEF WorkerTypes
  <2>1. CASE AfterFailure(r)
    BY <1>0, <2>0, <2>1, AfterFailureStep
  <2>2. CASE AfterAbort(r)
    BY <1>0, <2>2, AfterAbortStep
  <2>3. CASE TypeLine(r, at[r], FALSE) /\ Go(r, Waiting(at[r])) /\ flow' = flow
    <3>1. run[r].plan \in Pairs
      BY <2>0, PlanType
    <3>2. /\ run' \in [Runs -> Run] /\ \A q \in Runs \ {r} : run'[q] = run[q]
          /\ run'[r].plan = run[r].plan /\ run'[r].now = run[r].now /\ run'[r].via = run[r].via
          /\ run'[r].why = run[r].why
      <4>1. Keep(r, "sent", LineOf(at[r], r, FALSE)) /\ LineOf(at[r], r, FALSE) \in Lines
        BY <2>0, <2>3, <3>1, LineType DEF TypeLine
      <4> QED BY <4>1, KeepRun
    <3>3. /\ at' \in [Runs -> Places] /\ at'[r] = Waiting(at[r]) /\ Waiting(at[r]) \in ModelWaits
          /\ \A q \in Runs \ {r} : at'[q] = at[q]
      BY <2>0, <2>3, PlaceNames DEF Go, TypeOK, Waiting, ModelSteps, ModelWaits
    <3>4. PlanOf(r)'
      BY <2>0, <3>1, <3>2, <3>3, Pairing DEF PlanInv, PlanOf, Early, NoPair, ModelWaits
    <3>5. NotYet(r)' => NotYet(r)
      BY <2>0, <3>2, <3>3 DEF NotYet, Waiting, Uncompacted, Restoring, ModelSteps
    <3> QED BY <2>3, <3>2, <3>3, <3>4, <3>5 DEF WorkStep, ModelWaits
  <2> QED BY <1>9, <2>1, <2>2, <2>3 DEF WorkerTypes
<1>10. CASE WorkerAwaits(r)
  <2>0. at[r] \in ModelWaits /\ at[r] \in ModelSteps \cup ModelWaits
    BY <1>10 DEF WorkerAwaits
  <2>1. CASE AfterFailure(r)
    BY <1>0, <2>0, <2>1, AfterFailureStep
  <2>2. CASE AfterAbort(r)
    BY <1>0, <2>2, AfterAbortStep
  <2>3. CASE at[r] = "rseffort?" /\ AfterRestore(r, "ok", Noted(r, at[r]))
    BY <1>0, <2>3, AfterRestoreStep DEF Restoring
  <2>4. CASE /\ at[r] # "rseffort?" /\ run' = Noted(r, at[r]) /\ flow' = flow
             /\ Go(r, CASE at[r] = "swmodel?" -> "sweffort" [] at[r] = "sweffort?" -> "compact"
                        [] OTHER -> "rseffort")
    <3>1. PICK place \in {"sweffort", "compact", "rseffort"} :
            /\ Go(r, place)
            /\ place \in {"sweffort", "compact"} => at[r] \in {"swmodel?", "sweffort?"}
            /\ place = "rseffort" => at[r] = "rsmodel?"
      BY <2>0, <2>4 DEF ModelWaits
    <3>2. place \in Places \ (Early \cup {"no", "start"})
      BY PlaceNames DEF Early, Uncompacted, ModelSteps
    <3>3. place \in Uncompacted => NotYet(r)
      BY <3>1 DEF NotYet, Uncompacted
    <3>4. place \in Restoring => at[r] \in Restoring
      BY <3>1 DEF Restoring
    <3> QED BY <1>0, <2>0, <2>4, <3>1, <3>2, <3>3, <3>4, NoteStep
  <2> QED BY <1>10, <2>1, <2>2, <2>3, <2>4 DEF WorkerAwaits
<1>11. CASE InjectCompact(r)
  <2>1. CASE Ends(r)
    BY <1>0, <2>1, EndStep
  <2>2. CASE ~Ends(r)
    <3>1. at[r] = "compact" /\ run' = run /\ flow' = flow /\ Go(r, "modal") /\ "modal" \in Places
      BY <1>11, <2>2, PlaceNames DEF InjectCompact, Uncompacted
    <3> QED BY <1>0, <3>1, MoveStep DEF Early, ModelSteps, ModelWaits, Restoring, NotYet, Uncompacted
  <2> QED BY <2>1, <2>2
<1>12. CASE ClearModal(r)
  <2>1. at[r] = "modal" /\ run' = run /\ flow' = flow /\ Go(r, "start?") /\ "start?" \in Places
    BY <1>12, PlaceNames DEF ClearModal, Uncompacted
  <2> QED BY <1>0, <2>1, MoveStep DEF Early, ModelSteps, ModelWaits, Restoring, NotYet, Uncompacted
<1>13. CASE AwaitStart(r)
  <2>0. at[r] = "start?" /\ NotYet(r)
    BY <1>13 DEF AwaitStart, NotYet, Uncompacted
  <2>1. CASE Ends(r)
    BY <1>0, <2>1, EndStep
  <2>2. CASE Retry(r)
    BY <1>0, <2>0, <2>2, RetryStep
  <2>3. CASE Restore(r, "giveup")
    BY <1>0, <2>3, RestoreStep
  <2>4. CASE run' = run /\ flow' = flow /\ Go(r, "compacted?")
    <3>1. "compacted?" \in Places
      BY PlaceNames DEF Uncompacted
    <3> QED BY <1>0, <2>0, <2>4, <3>1, MoveStep DEF Early, ModelSteps, ModelWaits, Restoring
  <2> QED BY <1>13, <2>1, <2>2, <2>3, <2>4 DEF AwaitStart
<1>14. CASE AwaitCompacted(r)
  <2>0. at[r] = "compacted?"
    BY <1>14 DEF AwaitCompacted
  <2>1. CASE Ends(r)
    BY <1>0, <2>1, EndStep
  <2>2. CASE Restore(r, "giveup")
    BY <1>0, <2>2, RestoreStep
  <2>3. CASE run' = run /\ flow' = flow /\ Go(r, "close")
    <3>1. "close" \in Places
      BY PlaceNames
    <3> QED BY <1>0, <2>3, <3>1, MoveStep DEF Early, ModelSteps, ModelWaits, Restoring, Uncompacted
  <2> QED BY <1>14, <2>1, <2>2, <2>3 DEF AwaitCompacted
<1>15. CASE Close(r)
  BY <1>0, <1>15, RestoreStep DEF Close
<1>16. CASE Resume(r)
  BY <1>0, <1>16, EndStep DEF Resume
<1>17. CASE WorkerRaises(r)
  BY <1>0, <1>17, RestoreStep DEF WorkerRaises
<1> QED BY <1>1, <1>2, <1>3, <1>4, <1>5, <1>6, <1>7, <1>8, <1>9, <1>10, <1>11, <1>12, <1>13, <1>14,
          <1>15, <1>16, <1>17 DEF Worker

---------------------------------------------------------------------------
(* What a step of the thread that handles a halt does.                      *)
HaltStep(r) ==
  /\ hat' \in [Runs -> Halts] /\ run' \in [Runs -> Run] /\ at' = at /\ flow' = flow
  /\ \A q \in Runs \ {r} : hat'[q] = hat[q] /\ run'[q] = run[q]
  /\ PlanOf(r)'
  /\ hat[r] # "no" /\ hat'[r] # "no"
  /\ \/ run'[r].via = run[r].via /\ run'[r].why = run[r].why
     \/ run'[r].via = "owner" /\ at[r] = "over"

(* The halt moves on, and leaves the plan as it is.                         *)
LEMMA HaltMoves ==
  ASSUME TypeOK, PlanInv, NEW r \in Runs, at' = at, flow' = flow, hat[r] # "no",
         NEW place \in Halts \ {"no"}, Goes(r, place),
         run' \in [Runs -> Run], \A q \in Runs \ {r} : run'[q] = run[q],
         run'[r].plan = run[r].plan, run'[r].now = NoPair <=> run[r].now = NoPair,
         run'[r].mode = run[r].mode, run'[r].via = run[r].via, run'[r].why = run[r].why,
         place \in {"wait"} \cup Restoring => run[r].plan # NoPair
  PROVE  HaltStep(r)
<1>1. hat' \in [Runs -> Halts] /\ hat'[r] = place /\ \A q \in Runs \ {r} : hat'[q] = hat[q]
  BY DEF Goes, TypeOK
<1>2. PlanOf(r)'
  BY <1>1 DEF PlanInv, PlanOf, NoPair, ModelSteps, ModelWaits, Restoring, Early
<1> QED BY <1>1, <1>2 DEF HaltStep

LEMMA HaltNames ==
  {"popped", "wait", "final", "over", "rsmodel", "rseffort", "rsmodel?", "rseffort?"} \subseteq Halts \ {"no"}
  BY DEF Halts, ModelSteps, ModelWaits

LEMMA FinishStep ==
  ASSUME TypeOK, PlanInv, NEW r \in Runs, at' = at, flow' = flow, hat[r] # "no",
         NEW end \in {"busy", "stopped", "error", "done"},
         Goes(r, "final"), Keep(r, "end", end)
  PROVE  HaltStep(r)
<1>1. /\ run' \in [Runs -> Run] /\ \A q \in Runs \ {r} : run'[q] = run[q]
      /\ run'[r].plan = run[r].plan /\ run'[r].now = run[r].now /\ run'[r].via = run[r].via
      /\ run'[r].why = run[r].why /\ run'[r].mode = run[r].mode
  BY KeepRun
<1> QED BY <1>1, HaltNames, HaltMoves DEF Restoring

LEMMA HalterStep ==
  ASSUME TypeOK, PlanInv, NEW r \in Runs, Halter(r) \/ HalterRaises(r)
  PROVE  HaltStep(r)
<1>0. /\ at' = at /\ flow' = flow /\ hat[r] # "no"
  BY DEF Halter, HaltTells, HalterWaits, HalterTypes, HalterAwaits, HalterDecides, HalterRaises
<1>1. CASE HaltTells(r)
  <2>1. run' = run /\ (Goes(r, "over") \/ (Goes(r, "wait") /\ run[r].plan # NoPair))
    BY <1>1 DEF HaltTells, NeedsSwitchBack
  <2>2. run' \in [Runs -> Run]
    BY <2>1 DEF TypeOK
  <2>3. CASE Goes(r, "over")
    BY <1>0, <2>1, <2>2, <2>3, HaltNames, HaltMoves DEF Restoring
  <2>4. CASE Goes(r, "wait") /\ run[r].plan # NoPair
    BY <1>0, <2>1, <2>2, <2>4, HaltNames, HaltMoves DEF Restoring
  <2> QED BY <2>1, <2>3, <2>4
<1>2. CASE HalterWaits(r)
  <2>1. CASE Goes(r, "rsmodel") /\ run' = run
    <3>1. run[r].plan # NoPair /\ run' \in [Runs -> Run]
      BY <1>2, <2>1 DEF HalterWaits, PlanInv, PlanOf, TypeOK
    <3> QED BY <1>0, <2>1, <3>1, HaltNames, HaltMoves DEF Restoring
  <2>2. CASE Goes(r, "final") /\ Keep(r, "end", "stopped")
    BY <1>0, <2>2, FinishStep
  <2>3. CASE Goes(r, "final") /\ Keep(r, "end", "busy")
    BY <1>0, <2>3, FinishStep
  <2> QED BY <1>2, <2>1, <2>2, <2>3 DEF HalterWaits
<1>3. ASSUME NEW outcome \in {"failed", "aborted"}, Finishes(r, outcome) PROVE HaltStep(r)
  <2>1. /\ Goes(r, "final")
        /\ \/ Keep(r, "end", "stopped")
           \/ Keep(r, "end", "done")
    BY <1>3 DEF Finishes, Keep
  <2> QED BY <1>0, <2>1, FinishStep
<1>4. CASE HalterTypes(r)
  <2>1. CASE Finishes(r, "failed") \/ Finishes(r, "aborted")
    BY <1>3, <2>1
  <2>2. CASE TypeLine(r, hat[r], TRUE) /\ Goes(r, Waiting(hat[r]))
    <3>1. hat[r] \in {"rsmodel", "rseffort"} /\ hat[r] \in ModelSteps \cup ModelWaits
      BY <1>4 DEF HalterTypes, ModelSteps
    <3>2. run[r].plan \in Pairs
      BY <3>1, PlanType DEF Restoring
    <3>3. Keep(r, "sent", LineOf(hat[r], r, TRUE)) /\ LineOf(hat[r], r, TRUE) \in Lines
      BY <2>2, <3>1, <3>2, LineType DEF TypeLine
    <3>4. /\ run' \in [Runs -> Run] /\ \A q \in Runs \ {r} : run'[q] = run[q]
          /\ run'[r].plan = run[r].plan /\ run'[r].now = run[r].now /\ run'[r].via = run[r].via
          /\ run'[r].why = run[r].why /\ run'[r].mode = run[r].mode
      BY <3>3, KeepRun
    <3>5. PICK place \in {"rsmodel?", "rseffort?"} : Goes(r, place)
      BY <2>2, <3>1 DEF Waiting
    <3> QED BY <1>0, <3>2, <3>4, <3>5, HaltNames, HaltMoves, Pairing
  <2> QED BY <1>4, <2>1, <2>2 DEF HalterTypes
<1>5. CASE HalterAwaits(r)
  <2>0. hat[r] \in {"rsmodel?", "rseffort?"} /\ run[r].plan \in Pairs /\ run[r].now \in Pairs
    BY <1>5, PlanType DEF HalterAwaits, Restoring
  <2>1. CASE Finishes(r, "failed") \/ Finishes(r, "aborted")
    BY <1>3, <2>1
  <2>2. CASE run' = Noted(r, "rsmodel?") /\ Goes(r, "rseffort")
    <3>1. /\ run' \in [Runs -> Run] /\ \A q \in Runs \ {r} : run'[q] = run[q]
          /\ run'[r].plan = run[r].plan /\ run'[r].now \in Pairs /\ run'[r].via = run[r].via
          /\ run'[r].why = run[r].why /\ run'[r].mode = run[r].mode
      BY <2>0, <2>2, NotedRun DEF ModelWaits
    <3> QED BY <1>0, <2>0, <2>2, <3>1, HaltNames, HaltMoves, Pairing
  <2>3. CASE /\ Goes(r, "final")
             /\ run' = [run EXCEPT ![r].now = run[r].plan, ![r].sent = NoLine, ![r].end = "done"]
    <3> DEFINE m == [run[r] EXCEPT !.now = run[r].plan]
               n == [m EXCEPT !.sent = NoLine]
               o == [n EXCEPT !.end = "done"]
    <3>1. run \in [Runs -> Run] /\ run[r] \in Run /\ run' = [run EXCEPT ![r] = o] /\ NoLine \in Lines
      BY <2>3 DEF TypeOK, NoLine, Line, Lines, NoRun
    <3>2. /\ m \in Run /\ m.plan = run[r].plan /\ m.now = run[r].plan /\ m.via = run[r].via
          /\ m.mode = run[r].mode /\ m.why = run[r].why
      BY <2>0, <3>1 DEF Run
    <3> HIDE DEF m
    <3>3. /\ n \in Run /\ n.plan = run[r].plan /\ n.now = run[r].plan /\ n.via = run[r].via
          /\ n.mode = run[r].mode /\ n.why = run[r].why
      BY <3>1, <3>2 DEF Run
    <3> HIDE DEF n
    <3>4. /\ o \in Run /\ o.plan = run[r].plan /\ o.now = run[r].plan /\ o.via = run[r].via
          /\ o.mode = run[r].mode /\ o.why = run[r].why
      BY <3>3 DEF Run
    <3> HIDE DEF o
    <3>5. /\ run' \in [Runs -> Run] /\ \A q \in Runs \ {r} : run'[q] = run[q]
          /\ run'[r].plan = run[r].plan /\ run'[r].now \in Pairs /\ run'[r].via = run[r].via
          /\ run'[r].why = run[r].why /\ run'[r].mode = run[r].mode
      BY <2>0, <3>1, <3>4
    <3> QED BY <1>0, <2>0, <2>3, <3>5, HaltNames, HaltMoves, Pairing DEF Restoring
  <2> QED BY <1>5, <2>1, <2>2, <2>3 DEF HalterAwaits
<1>6. CASE HalterDecides(r)
  <2>1. hat' \in [Runs -> Halts] /\ hat'[r] = "over" /\ \A q \in Runs \ {r} : hat'[q] = hat[q]
    BY <1>6, HaltNames DEF HalterDecides, Goes, TypeOK
  <2>2. CASE at[r] = "over"
    <3>1. /\ run' \in [Runs -> Run] /\ run'[r] = NewRun("owner")
          /\ \A q \in Runs \ {r} : run'[q] = run[q]
      BY <1>6, <2>2, NewRunType DEF HalterDecides, Forgets, TypeOK
    <3>2. PlanOf(r)'
      BY <1>0, <2>1, <2>2, <3>1 DEF PlanOf, NewRun, ModelSteps, ModelWaits, Restoring, Early, NoPair
    <3> QED BY <1>0, <2>1, <2>2, <3>1, <3>2 DEF HaltStep, NewRun
  <2>3. CASE at[r] # "over"
    <3>1. run' = run /\ run' \in [Runs -> Run] /\ Goes(r, "over")
      BY <1>6, <2>3 DEF HalterDecides, TypeOK
    <3> QED BY <1>0, <3>1, HaltNames, HaltMoves DEF Restoring
  <2> QED BY <2>2, <2>3
<1>7. CASE HalterRaises(r)
  BY <1>0, <1>7, FinishStep DEF HalterRaises
<1> QED BY <1>1, <1>2, <1>4, <1>5, <1>6, <1>7 DEF Halter

---------------------------------------------------------------------------
(* Who owns the topic.  A run that resumed the session was never halted,    *)
(* and cannot be: it does not own the topic any more.                       *)
FlowInv ==
  /\ flow \in {NoRun} \cup 1..runs
  /\ \A r \in Runs :
       /\ r > runs => at[r] = "no" /\ hat[r] = "no"
       /\ Owns(r) => hat[r] = "no"
       /\ r \in resumed => r <= runs /\ ~Owns(r) /\ hat[r] = "no"

LEMMA WorkerFacts ==
  ASSUME NEW r \in Runs, Worker(r) \/ WorkerRaises(r)
  PROVE  /\ at[r] \notin {"no", "over"}
         /\ hat' = hat /\ runs' = runs /\ setup' = setup
         /\ resumed' = resumed \/ (Resume(r) /\ Owns(r) /\ resumed' = resumed \cup {r})
         /\ loop' = loop \/ OpenRecord(r)
<1>1. at[r] \notin {"no", "over"}
  BY DEF Worker, WorkerRaises, OpenRecord, Settle, Write, AwaitWritten, Dismiss, RecordIssue, MakePlan,
         AwaitIdle, WorkerTypes, WorkerAwaits, InjectCompact, ClearModal, AwaitStart, AwaitCompacted,
         Close, Resume, Uncompacted, ModelSteps, ModelWaits
<1>2. hat' = hat /\ runs' = runs /\ setup' = setup
  BY DEF Worker, WorkerRaises, OpenRecord, Settle, Write, AwaitWritten, Dismiss, RecordIssue, MakePlan,
         AwaitIdle, WorkerTypes, WorkerAwaits, InjectCompact, ClearModal, AwaitStart, AwaitCompacted,
         Close, Resume
<1>3. resumed' = resumed \/ (Resume(r) /\ Owns(r) /\ resumed' = resumed \cup {r})
  BY DEF Worker, WorkerRaises, OpenRecord, Settle, Write, AwaitWritten, Dismiss, RecordIssue, MakePlan,
         AwaitIdle, WorkerTypes, WorkerAwaits, InjectCompact, ClearModal, AwaitStart, AwaitCompacted,
         Close, Resume
<1>4. loop' = loop \/ OpenRecord(r)
  BY DEF Worker, WorkerRaises, Settle, Write, AwaitWritten, Dismiss, RecordIssue, MakePlan,
         AwaitIdle, WorkerTypes, WorkerAwaits, InjectCompact, ClearModal, AwaitStart, AwaitCompacted,
         Close, Resume
<1> QED BY <1>1, <1>2, <1>3, <1>4

LEMMA HalterFacts ==
  ASSUME NEW r \in Runs, Halter(r) \/ HalterRaises(r)
  PROVE  UNCHANGED <<setup, runs, armed, loop, resumed, auto>>
  BY DEF Halter, HaltTells, HalterWaits, HalterTypes, HalterAwaits, HalterDecides, HalterRaises

(* A run is claimed: on the topic that nobody owns, under a number of its   *)
(* own.                                                                     *)
LEMMA ClaimStep ==
  ASSUME TypeOK, PlanInv, FlowInv, NEW via \in {"owner", "auto"}, Claim(via), hat' = hat, resumed' = resumed
  PROVE  /\ runs' = runs + 1 /\ flow' = runs' /\ runs' \in Runs /\ runs' <= MaxRuns /\ flow = NoRun
         /\ at' \in [Runs -> Places] /\ run' \in [Runs -> Run]
         /\ at'[runs'] = "start" /\ run'[runs'] = NewRun(via)
         /\ \A q \in Runs \ {runs'} :
              /\ at'[q] = at[q]
              /\ IF Finished(q) THEN run'[q] = NewRun("owner") ELSE run'[q] = run[q]
         /\ PlanInv' /\ FlowInv'
<1>1. runs \in Nat /\ runs + 1 \in Runs /\ runs + 1 <= MaxRuns
  BY CarryForwardAssumption DEF CarryForwardAssumption, Claim, TypeOK, Runs
<1>2. runs' = runs + 1 /\ flow' = runs + 1 /\ flow = NoRun
  BY DEF Claim
<1>3. at' \in [Runs -> Places] /\ at'[runs + 1] = "start" /\ \A q \in Runs \ {runs + 1} : at'[q] = at[q]
  BY <1>1, PlaceNames DEF Claim, Go, TypeOK
<1>4. run' \in [Runs -> Run]
  BY <1>1, NewRunType DEF Claim, TypeOK
<1>5. run'[runs + 1] = NewRun(via)
  BY <1>1 DEF Claim
<1>6. \A q \in Runs \ {runs + 1} :
        IF Finished(q) THEN run'[q] = NewRun("owner") ELSE run'[q] = run[q]
  BY DEF Claim
<1>7. PlanInv'
  <2> SUFFICES ASSUME NEW q \in Runs PROVE PlanOf(q)'
    BY DEF PlanInv
  <2>1. CASE q = runs + 1
    <3>1. hat'[q] = "no"
      BY <1>1, <2>1 DEF FlowInv
    <3> QED BY <1>3, <1>5, <2>1, <3>1 DEF PlanOf, NewRun, ModelSteps, ModelWaits, Restoring, Early, NoPair
  <2>2. CASE q # runs + 1 /\ Finished(q)
    BY <1>3, <1>6, <2>2 DEF PlanOf, Finished, NewRun, ModelSteps, ModelWaits, Restoring, Early, NoPair
  <2>3. CASE q # runs + 1 /\ ~Finished(q)
    BY <1>3, <1>6, <2>3 DEF PlanInv, PlanOf, ModelSteps, ModelWaits, Restoring, Early, NoPair
  <2> QED BY <2>1, <2>2, <2>3
<1>8. FlowInv'
  BY <1>1, <1>2, <1>3, RunNumbers DEF FlowInv, Owns, Runs, NoRun
<1> QED BY <1>1, <1>2, <1>3, <1>4, <1>5, <1>6, <1>7, <1>8

---------------------------------------------------------------------------
(* Runs that are being started.  The owner's still owns the topic, because  *)
(* the thread that starts it is the one that would halt it.  The loop waits *)
(* for the one it starts, so that there is one of those at most, and no     *)
(* other automatic run.                                                     *)
StartInv ==
  /\ \A r \in Runs : at[r] = "start" /\ run[r].via = "owner" => Owns(r)
  /\ \A r \in Runs : at[r] = "start" /\ run[r].via = "auto" =>
       loop.pc = "call" /\ (flow \in {NoRun, r} \/ run[flow].via = "owner")
  /\ \A q, r \in Runs :
       at[q] = "start" /\ at[r] = "start" /\ run[q].via = "auto" /\ run[r].via = "auto" => q = r
  /\ loop.pc = "stale" /\ flow # NoRun => run[flow].via = "owner"

ControlOK ==
  /\ setup \in Setups /\ flow \in {NoRun} \cup Runs /\ runs \in 0..MaxRuns
  /\ at \in [Runs -> Places] /\ hat \in [Runs -> Halts] /\ run \in [Runs -> Run]

ControlInv == ControlOK /\ PlanInv /\ FlowInv /\ StartInv

LEMMA WorkerControl ==
  ASSUME TypeOK, ControlInv, NEW r \in Runs, Worker(r) \/ WorkerRaises(r)
  PROVE  ControlInv'
<1>0. /\ TypeOK /\ PlanInv /\ FlowInv /\ StartInv /\ WorkStep(r)
  BY WorkerStep DEF ControlInv
<1>1. /\ at[r] \notin {"no", "over"} /\ hat' = hat /\ runs' = runs /\ setup' = setup
      /\ resumed' = resumed \/ (Resume(r) /\ Owns(r) /\ resumed' = resumed \cup {r})
      /\ loop' = loop \/ OpenRecord(r)
  BY WorkerFacts
<1>2. /\ flow' \in {flow, NoRun} /\ (flow' = NoRun => flow \in {NoRun, r})
      /\ at' \in [Runs -> Places] /\ run' \in [Runs -> Run] /\ at'[r] \notin {"no", "start"}
      /\ \A q \in Runs \ {r} : at'[q] = at[q] /\ run'[q] = run[q]
      /\ run'[r].via \in {run[r].via, "owner"}
  BY <1>0 DEF WorkStep
<1>3. ControlOK'
  BY <1>1, <1>2 DEF ControlOK, TypeOK
<1>4. PlanInv'
  <2> SUFFICES ASSUME NEW q \in Runs PROVE PlanOf(q)'
    BY DEF PlanInv
  <2>1. CASE q = r
    BY <1>0, <2>1 DEF WorkStep
  <2>2. CASE q # r
    BY <1>0, <1>1, <1>2, <2>2 DEF PlanInv, PlanOf, NoPair, ModelSteps, ModelWaits, Restoring, Early
  <2> QED BY <2>1, <2>2
<1>5. FlowInv'
  <2>1. r <= runs
    BY <1>0, <1>1, RunNumbers DEF FlowInv, TypeOK, Runs
  <2>2. flow' \in {NoRun} \cup 1..runs' /\ (\A q \in Runs : q > runs' => at'[q] = "no" /\ hat'[q] = "no")
    BY <1>0, <1>1, <1>2, <2>1, RunNumbers DEF FlowInv
  <2>3. \A q \in Runs : flow' = q => hat'[q] = "no"
    BY <1>0, <1>1, <1>2, RunNumbers DEF FlowInv, Owns
  <2>4. Resume(r) /\ Owns(r) => flow' = NoRun
    BY DEF Resume, Ends, Release, Owns
  <2>5. \A q \in Runs : q \in resumed' => q <= runs' /\ flow' # q /\ hat'[q] = "no"
    BY <1>0, <1>1, <1>2, <2>1, <2>4, RunNumbers DEF FlowInv, Owns
  <2> QED BY <2>2, <2>3, <2>5 DEF FlowInv, Owns
<1>6. StartInv'
  <2>1. \A q \in Runs : at'[q] = "start" => q # r /\ at[q] = "start" /\ run'[q] = run[q]
    BY <1>2
  <2>2. \A q \in Runs : flow' = q => run'[q].via = run[q].via \/ run'[q].via = "owner"
    BY <1>2
  <2>3. \A q \in Runs : at'[q] = "start" /\ run'[q].via = "auto" => loop' = loop
    <3> SUFFICES ASSUME NEW q \in Runs, at'[q] = "start", run'[q].via = "auto", OpenRecord(r)
                 PROVE  loop' = loop
      BY <1>1
    <3>1. at[r] = "start" /\ run[r].via # "auto"
      BY <1>0, <2>1 DEF OpenRecord, StartInv
    <3> QED BY <3>1 DEF OpenRecord, Returns, Propagates
  <2>4. loop'.pc = "stale" => loop' = loop
    <3> SUFFICES ASSUME OpenRecord(r), loop' # loop PROVE loop'.pc # "stale"
      BY <1>1
    <3>1. loop' = [loop EXCEPT !.pc = "save"] \/ loop' = [loop EXCEPT !.pc = "idle"]
      BY DEF OpenRecord, Returns, Propagates
    <3> QED BY <3>1 DEF TypeOK
  <2>5. \A q \in Runs : at'[q] = "start" /\ run'[q].via = "owner" => flow' = q
    BY <1>0, <1>2, <2>1, RunNumbers DEF StartInv, Owns
  <2>6. \A q \in Runs : at'[q] = "start" /\ run'[q].via = "auto" =>
          loop'.pc = "call" /\ (flow' \in {NoRun, q} \/ run'[flow'].via = "owner")
    BY <1>0, <1>2, <2>1, <2>2, <2>3 DEF StartInv, TypeOK
  <2>7. \A p, q \in Runs : at'[p] = "start" /\ at'[q] = "start" /\ run'[p].via = "auto" /\ run'[q].via = "auto"
          => p = q
    BY <1>0, <2>1 DEF StartInv
  <2>8. loop'.pc = "stale" /\ flow' # NoRun => run'[flow'].via = "owner"
    BY <1>0, <1>2, <2>2, <2>4 DEF StartInv, TypeOK
  <2> QED BY <2>5, <2>6, <2>7, <2>8 DEF StartInv, Owns
<1> QED BY <1>3, <1>4, <1>5, <1>6 DEF ControlInv

LEMMA HalterControl ==
  ASSUME TypeOK, ControlInv, NEW r \in Runs, Halter(r) \/ HalterRaises(r)
  PROVE  ControlInv'
<1>0. /\ TypeOK /\ PlanInv /\ FlowInv /\ StartInv /\ HaltStep(r)
  BY HalterStep DEF ControlInv
<1>1. UNCHANGED <<setup, runs, loop, resumed>>
  BY HalterFacts
<1>2. /\ hat' \in [Runs -> Halts] /\ run' \in [Runs -> Run] /\ at' = at /\ flow' = flow
      /\ \A q \in Runs \ {r} : hat'[q] = hat[q] /\ run'[q] = run[q]
      /\ hat[r] # "no"
      /\ \/ run'[r].via = run[r].via
         \/ run'[r].via = "owner" /\ at[r] = "over"
  BY <1>0 DEF HaltStep
<1>3. ControlOK'
  BY <1>1, <1>2 DEF ControlOK, TypeOK
<1>4. PlanInv'
  <2> SUFFICES ASSUME NEW q \in Runs PROVE PlanOf(q)'
    BY DEF PlanInv
  <2>1. CASE q = r
    BY <1>0, <2>1 DEF HaltStep
  <2>2. CASE q # r
    BY <1>0, <1>1, <1>2, <2>2 DEF PlanInv, PlanOf, NoPair, ModelSteps, ModelWaits, Restoring, Early
  <2> QED BY <2>1, <2>2
<1>5. FlowInv'
  <2>1. r <= runs /\ ~Owns(r) /\ r \notin resumed
    BY <1>0, <1>2, RunNumbers DEF FlowInv, TypeOK, Runs
  <2> QED BY <1>0, <1>1, <1>2, <2>1, RunNumbers DEF FlowInv, Owns
<1>6. StartInv'
  BY <1>0, <1>1, <1>2 DEF StartInv, Owns, TypeOK
<1> QED BY <1>3, <1>4, <1>5, <1>6 DEF ControlInv

LEMMA PoppedControl ==
  ASSUME TypeOK, ControlInv, NEW r \in Runs, Halt(r)
  PROVE  ControlInv'
<1>0. PlanInv /\ FlowInv /\ StartInv
  BY DEF ControlInv
<1>1. /\ flow = r /\ flow' = NoRun /\ PollFree
      /\ UNCHANGED <<setup, runs, at, run, loop, resumed>>
  BY DEF Halt, Owns
<1>2. hat' \in [Runs -> Halts] /\ hat'[r] = "popped" /\ \A q \in Runs \ {r} : hat'[q] = hat[q]
  BY HaltNames DEF Halt, Goes, TypeOK
<1>3. ControlOK'
  BY <1>1, <1>2 DEF ControlOK, TypeOK
<1>4. PlanInv'
  BY <1>0, <1>1, <1>2 DEF PlanInv, PlanOf, NoPair, ModelSteps, ModelWaits, Restoring, Early
<1>5. FlowInv'
  <2>1. r \in 1..runs /\ r # NoRun /\ r \notin resumed
    BY <1>0, <1>1, RunNumbers DEF FlowInv, Owns
  <2>2. ASSUME NEW q \in Runs
        PROVE  /\ q > runs => at'[q] = "no" /\ hat'[q] = "no"
               /\ flow' # q
               /\ q \in resumed => q <= runs /\ hat'[q] = "no"
    <3>1. CASE q = r
      BY <1>1, <2>1, <3>1, RunNumbers DEF TypeOK
    <3>2. CASE q # r
      BY <1>0, <1>1, <1>2, <3>2, RunNumbers DEF FlowInv
    <3> QED BY <3>1, <3>2
  <2> QED BY <1>1, <2>2 DEF FlowInv, Owns
<1>6. StartInv'
  BY <1>0, <1>1 DEF StartInv, Owns, PollFree
<1> QED BY <1>3, <1>4, <1>5, <1>6 DEF ControlInv

LEMMA ClaimControl ==
  ASSUME TypeOK, ControlInv, NEW via \in {"owner", "auto"}, Claim(via), hat' = hat, resumed' = resumed,
         setup' = setup,
         via = "owner" => PollFree /\ loop' = loop,
         via = "auto" => loop.pc = "fire" /\ loop' = [loop EXCEPT !.pc = "call"]
  PROVE  ControlInv'
<1>0. PlanInv /\ FlowInv /\ StartInv
  BY DEF ControlInv
<1>1. /\ runs' = runs + 1 /\ flow' = runs' /\ runs' \in Runs /\ runs' <= MaxRuns /\ flow = NoRun
      /\ at' \in [Runs -> Places] /\ run' \in [Runs -> Run]
      /\ at'[runs'] = "start" /\ run'[runs'] = NewRun(via)
      /\ \A q \in Runs \ {runs'} :
           /\ at'[q] = at[q]
           /\ IF Finished(q) THEN run'[q] = NewRun("owner") ELSE run'[q] = run[q]
      /\ PlanInv' /\ FlowInv'
  BY <1>0, ClaimStep
<1>2. ControlOK'
  <2>1. runs' \in 0..MaxRuns
    BY <1>1, RunNumbers, CarryForwardAssumption DEF CarryForwardAssumption
  <2> QED BY <1>1, <2>1 DEF ControlOK, TypeOK
<1>3. \A q \in Runs \ {runs'} : at'[q] = "start" => at[q] = "start" /\ run'[q] = run[q]
  BY <1>1 DEF Finished
<1>4. run'[runs'].via = via /\ runs' # NoRun
  BY <1>1, RunNumbers DEF NewRun
<1>5. CASE via = "owner"
  <2>1. \A q \in Runs \ {runs'} : at'[q] = "start" => run'[q].via # "owner"
    BY <1>3, <1>5 DEF PollFree
  <2>2. \A q \in Runs : at'[q] = "start" /\ run'[q].via = "auto" => q # runs' /\ run'[flow'].via = "owner"
    BY <1>1, <1>4, <1>5
  <2>3. StartInv'
    BY <1>0, <1>1, <1>3, <1>4, <1>5, <2>1, <2>2 DEF StartInv, Owns
  <2> QED BY <1>1, <1>2, <2>3 DEF ControlInv
<1>6. CASE via = "auto"
  <2>1. loop.pc = "fire" /\ loop'.pc = "call"
    BY <1>6 DEF TypeOK
  <2>2. \A q \in Runs \ {runs'} : at'[q] # "start"
    <3> SUFFICES ASSUME NEW q \in Runs \ {runs'}, at'[q] = "start" PROVE FALSE
      OBVIOUS
    <3>1. at[q] = "start" /\ run[q].via \in {"owner", "auto"}
      BY <1>3 DEF TypeOK, Run
    <3>2. flow # q
      BY <1>1, RunNumbers
    <3> QED BY <1>0, <2>1, <3>1, <3>2 DEF StartInv, Owns
  <2>3. StartInv'
    BY <1>1, <1>4, <1>6, <2>1, <2>2 DEF StartInv, Owns
  <2> QED BY <1>1, <1>2, <2>3 DEF ControlInv
<1> QED BY <1>5, <1>6

(* The rest leaves the runs alone; the loop only looks at them.             *)
LEMMA OtherControl ==
  ASSUME TypeOK, ControlInv, UNCHANGED <<setup, flow, runs, at, hat, run, resumed>>,
         \/ loop' = loop
         \/ loop.pc # "call" /\ (loop'.pc = "stale" => flow = NoRun)
  PROVE  ControlInv'
<1>1. ControlOK' /\ PlanInv' /\ FlowInv'
  BY DEF ControlInv, ControlOK, PlanInv, PlanOf, FlowInv, Owns, NoPair, ModelSteps, ModelWaits, Restoring, Early
<1>2. StartInv'
  BY DEF ControlInv, StartInv, Owns
<1> QED BY <1>1, <1>2 DEF ControlInv

LEMMA CrashControl ==
  ASSUME TypeOK, ControlInv, Crash
  PROVE  ControlInv'
<1>0. PlanInv /\ FlowInv
  BY DEF ControlInv
<1>1. /\ flow' = NoRun /\ UNCHANGED <<setup, runs, run, resumed>> /\ loop'.pc = "idle"
      /\ at' = [r \in Runs |-> IF at[r] = "no" THEN "no" ELSE "over"]
      /\ hat' = [r \in Runs |-> IF hat[r] = "no" THEN "no" ELSE "over"]
  BY DEF Crash
<1>2. ControlOK'
  BY <1>1, PlaceNames DEF ControlOK, TypeOK, Places, Halts
<1>3. PlanInv'
  <2> SUFFICES ASSUME NEW r \in Runs PROVE PlanOf(r)'
    BY DEF PlanInv
  <2>1. /\ at'[r] \in {"no", "over"} /\ hat'[r] \in {"no", "over"} /\ run'[r] = run[r]
        /\ (at'[r] = "no" => at[r] = "no")
    BY <1>1
  <2> QED BY <1>0, <2>1 DEF PlanInv, PlanOf, NoPair, ModelSteps, ModelWaits, Restoring, Early
<1>4. FlowInv'
  BY <1>0, <1>1, RunNumbers DEF FlowInv, Owns
<1>5. StartInv'
  BY <1>1 DEF StartInv
<1> QED BY <1>2, <1>3, <1>4, <1>5 DEF ControlInv

LEMMA ControlStep ==
  ASSUME TypeOK, ControlInv, [Next]_vars
  PROVE  ControlInv'
<1>1. CASE OwnerStarts
  BY <1>1, ClaimControl DEF OwnerStarts
<1>2. CASE LoopFire
  <2>1. CASE Claim("auto")
    <3>1. /\ loop.pc = "fire" /\ hat' = hat /\ resumed' = resumed /\ setup' = setup
          /\ loop' = [loop EXCEPT !.pc = "call"] \/ UNCHANGED <<flow, runs>>
      BY <1>2 DEF LoopFire
    <3>2. runs' # runs
      BY <2>1 DEF Claim, TypeOK
    <3> QED BY <2>1, <3>1, <3>2, ClaimControl
  <2>2. CASE /\ UNCHANGED <<flow, runs, at, run>>
             /\ loop' = [loop EXCEPT !.pc = "save"] \/ loop' = [loop EXCEPT !.pc = "idle"]
    <3>1. UNCHANGED <<setup, flow, runs, at, hat, run, resumed>> /\ loop.pc # "call" /\ loop'.pc # "stale"
      BY <1>2, <2>2 DEF LoopFire, TypeOK
    <3> QED BY <3>1, OtherControl
  <2> QED BY <1>2, <2>1, <2>2 DEF LoopFire
<1>3. CASE LoopLook \/ LoopRecord \/ LoopRearm \/ LoopSave
  <2>1. UNCHANGED <<setup, flow, runs, at, hat, run, resumed>> /\ loop.pc # "call"
    BY <1>3 DEF LoopLook, LoopRecord, LoopRearm, LoopSave
  <2>2. loop'.pc = "stale" => flow = NoRun
    BY <1>3 DEF LoopLook, LoopRecord, LoopRearm, LoopSave, Decides, Stale, TypeOK
  <2> QED BY <2>1, <2>2, OtherControl
<1>4. CASE LoopDrop \/ Cools \/ Session \/ UNCHANGED vars
  <2>1. UNCHANGED <<setup, flow, runs, at, hat, run, resumed, loop>>
    BY <1>4 DEF LoopDrop, Cools, Session, TakeLine, StartTurn, EndTurn, FinishCompact, PaneDies, SessionOnly,
                vars
  <2> QED BY <2>1, OtherControl
<1>5. CASE Crash
  BY <1>5, CrashControl
<1>6. ASSUME NEW r \in Runs, Worker(r) \/ WorkerRaises(r) PROVE ControlInv'
  BY <1>6, WorkerControl
<1>7. ASSUME NEW r \in Runs, Halter(r) \/ HalterRaises(r) PROVE ControlInv'
  BY <1>7, HalterControl
<1>8. ASSUME NEW r \in Runs, Halt(r) PROVE ControlInv'
  BY <1>8, PoppedControl
<1> QED BY <1>1, <1>2, <1>3, <1>4, <1>5, <1>6, <1>7, <1>8 DEF Next, Loop

---------------------------------------------------------------------------
(* The session and its terminal: a model or effort line that was typed      *)
(* names a model or an effort, a write-up is of a run, and the terminal     *)
(* holds what it may.                                                       *)
Typed == {l \in Lines : /\ l.k \in {"model", "effort"} => l.v \in {"own", "cheap"}
                        /\ l.k = "write" => l.r \in Runs}
SessionType == [st : {"idle", "turn", "compacting", "modal", "dead"}, term : Seq(Typed),
                pair : Pairs, said : Pairs, ctx : {"low", "high"}, marker : SUBSET Runs]
Terminal(s) == s \in SessionType /\ Len(s.term) <= MaxTerm
SessionInv == Terminal(sess)

LEMMA TypedLines ==
  \A r \in Runs, k \in {"write", "compact", "resume", "notice"} : Line(k, "none", r) \in Typed
  BY DEF Line, Lines, Typed

LEMMA TermRoom == ASSUME TypeOK PROVE setup.term \in Nat /\ setup.term <= MaxTerm /\ MaxTerm \in Nat
  BY CarryForwardAssumption DEF CarryForwardAssumption, TypeOK

LEMMA AppendLine ==
  ASSUME NEW s, Terminal(s), NEW line \in Typed, NEW room \in Nat, room <= MaxTerm, MaxTerm \in Nat,
         Len(s.term) < room
  PROVE  Terminal([s EXCEPT !.term = Append(@, line)])
<1> DEFINE t == s.term
           u == Append(t, line)
<1>1. s \in SessionType /\ t \in Seq(Typed) /\ Len(t) \in Nat
  BY LenProperties DEF Terminal, SessionType
<1>2. u \in Seq(Typed) /\ Len(u) = Len(t) + 1
  BY <1>1, AppendProperties
<1>3. Len(u) <= MaxTerm
  BY <1>1, <1>2
<1>4. [s EXCEPT !.term = Append(@, line)] = [s EXCEPT !.term = u]
  OBVIOUS
<1> HIDE DEF u
<1> QED BY <1>1, <1>2, <1>3, <1>4 DEF Terminal, SessionType

LEMMA EmptyTerm ==
  ASSUME NEW s, Terminal(s), NEW st \in {"idle", "dead"}, MaxTerm \in Nat
  PROVE  Terminal([s EXCEPT !.st = st, !.term = <<>>])
<1> DEFINE t == [s EXCEPT !.st = st]
           e == <<>>
<1>1. e \in Seq(Typed) /\ Len(e) = 0
  BY EmptySeq
<1>2. t \in SessionType
  BY DEF Terminal, SessionType
<1>3. [s EXCEPT !.st = st, !.term = <<>>] = [t EXCEPT !.term = e]
  OBVIOUS
<1> HIDE DEF t, e
<1>4. [t EXCEPT !.term = e] \in SessionType /\ [t EXCEPT !.term = e].term = e
  BY <1>1, <1>2 DEF SessionType
<1>5. 0 <= MaxTerm
  OBVIOUS
<1> QED BY <1>1, <1>3, <1>4, <1>5 DEF Terminal

LEMMA OtherState ==
  ASSUME NEW s, Terminal(s), NEW st \in {"idle", "turn", "compacting", "modal", "dead"}
  PROVE  Terminal([s EXCEPT !.st = st])
  BY DEF Terminal, SessionType

LEMMA TakenLine ==
  ASSUME NEW s, Terminal(s), s.term # <<>>, MaxTerm \in Nat
  PROVE  Terminal([s EXCEPT !.term = Tail(@)]) /\ Head(s.term) \in Typed
<1> DEFINE t == s.term
           u == Tail(t)
<1>1. s \in SessionType /\ t \in Seq(Typed) /\ Len(t) \in Nat
  BY LenProperties DEF Terminal, SessionType
<1>2. u \in Seq(Typed) /\ Len(u) = Len(t) - 1 /\ Head(t) \in Typed
  BY <1>1, HeadTailProperties
<1>3. Len(u) <= MaxTerm
  BY <1>1, <1>2 DEF Terminal
<1>4. [s EXCEPT !.term = Tail(@)] = [s EXCEPT !.term = u]
  OBVIOUS
<1> HIDE DEF u
<1> QED BY <1>1, <1>2, <1>3, <1>4 DEF Terminal, SessionType

LEMMA EscapedTerminal == ASSUME TypeOK, SessionInv PROVE Terminal(Escaped)
  BY TermRoom, EmptyTerm DEF Escaped, SessionInv

LEMMA SubmitsTerminal ==
  ASSUME TypeOK, SessionInv, NEW line \in Typed, Submits(line)
  PROVE  SessionInv'
  BY TermRoom, AppendLine DEF Submits, SessionInv

LEMMA ClearedTerminal ==
  ASSUME TypeOK, SessionInv, NEW r \in Runs, sess' \in Cleared(r)
  PROVE  SessionInv'
<1>1. Terminal([sess EXCEPT !.st = "compacting"]) /\ Terminal([sess EXCEPT !.st = "idle"])
  BY OtherState DEF SessionInv
<1> QED BY <1>1 DEF Cleared, SessionInv

LEMMA TypedAs ==
  ASSUME TypeOK, PlanInv, NEW r \in Runs, NEW place \in ModelSteps \cup ModelWaits, NEW h \in BOOLEAN,
         at[r] \in ModelSteps \cup ModelWaits \/ hat[r] \in {"wait"} \cup Restoring
  PROVE  LineOf(place, r, h) \in Typed
  BY PlanType, LineType DEF Typed

LEMMA SessionStep ==
  ASSUME TypeOK, PlanInv, SessionInv, [Next]_vars
  PROVE  SessionInv'
<1>1. ASSUME sess' = sess PROVE SessionInv'
  BY <1>1 DEF SessionInv
<1>2. ASSUME NEW r \in Runs, Worker(r) PROVE SessionInv'
  <2>1. CASE Write(r)
    BY <1>1, <2>1, TypedLines, SubmitsTerminal DEF Write, Withholds
  <2>2. CASE Dismiss(r)
    BY <2>2, EscapedTerminal DEF Dismiss, SessionInv
  <2>3. CASE WorkerTypes(r)
    <3>1. at[r] \in ModelSteps \cup ModelWaits /\ LineOf(at[r], r, FALSE) \in Typed
      BY <2>3, TypedAs DEF WorkerTypes
    <3>2. sess' = sess \/ Submits(LineOf(at[r], r, FALSE))
      BY <2>3 DEF WorkerTypes, TypeLine, Withholds
    <3> QED BY <1>1, <3>1, <3>2, SubmitsTerminal
  <2>4. CASE InjectCompact(r)
    BY <1>1, <2>4, TypedLines, SubmitsTerminal DEF InjectCompact, Withholds
  <2>5. CASE ClearModal(r) \/ AwaitStart(r)
    BY <1>1, <2>5, ClearedTerminal DEF ClearModal, AwaitStart
  <2>6. CASE Resume(r)
    BY <1>1, <2>6, TypedLines, SubmitsTerminal DEF Resume, Withholds
  <2>7. CASE ~(Write(r) \/ Dismiss(r) \/ WorkerTypes(r) \/ InjectCompact(r) \/ ClearModal(r)
               \/ AwaitStart(r) \/ Resume(r))
    <3>1. sess' = sess
      BY <1>2, <2>7 DEF Worker, OpenRecord, Settle, AwaitWritten, RecordIssue, MakePlan, AwaitIdle,
                        WorkerAwaits, AwaitCompacted, Close
    <3> QED BY <1>1, <3>1
  <2> QED BY <2>1, <2>2, <2>3, <2>4, <2>5, <2>6, <2>7
<1>3. ASSUME NEW r \in Runs, Halter(r) PROVE SessionInv'
  <2>1. CASE HaltTells(r)
    <3>1. Terminal(Escaped)
      BY EscapedTerminal
    <3>2. sess' = Escaped => SessionInv'
      BY <3>1 DEF SessionInv
    <3>3. ASSUME Len(Escaped.term) < setup.term,
                 sess' = [Escaped EXCEPT !.term = Append(@, Line("notice", "none", r))]
          PROVE  SessionInv'
      BY <3>1, <3>3, TermRoom, TypedLines, AppendLine DEF SessionInv
    <3> QED BY <2>1, <3>2, <3>3 DEF HaltTells
  <2>2. CASE HalterTypes(r)
    <3>1. hat[r] \in ModelSteps \cup ModelWaits /\ LineOf(hat[r], r, TRUE) \in Typed
      BY <2>2, TypedAs DEF HalterTypes, ModelSteps, Restoring
    <3>2. sess' = sess \/ Submits(LineOf(hat[r], r, TRUE))
      BY <2>2 DEF HalterTypes, TypeLine, Withholds
    <3> QED BY <1>1, <3>1, <3>2, SubmitsTerminal
  <2>3. CASE HalterDecides(r)
    BY <1>1, <2>3, TypedLines, SubmitsTerminal DEF HalterDecides, Withholds
  <2>4. CASE HalterWaits(r) \/ HalterAwaits(r)
    BY <1>1, <2>4 DEF HalterWaits, HalterAwaits
  <2> QED BY <1>3, <2>1, <2>2, <2>3, <2>4 DEF Halter
<1>4. CASE TakeLine
  <2> DEFINE line == Head(sess.term)
             next == [sess EXCEPT !.term = Tail(@)]
  <2>1. Terminal(next) /\ line \in Typed
    BY <1>4, TermRoom, TakenLine DEF TakeLine, SessionInv
  <2>2. CASE line.k \in {"model", "effort"} /\ sess' = [next EXCEPT !.pair[line.k] = line.v]
    <3>1. line.k \in {"model", "effort"} /\ line.v \in {"own", "cheap"}
      BY <2>1, <2>2 DEF Typed
    <3>2. next.pair \in Pairs
      BY <2>1 DEF Terminal, SessionType
    <3> HIDE DEF line, next
    <3> DEFINE p == [next.pair EXCEPT ![line.k] = line.v]
    <3>3. p \in Pairs /\ sess' = [next EXCEPT !.pair = p]
      BY <2>2, <3>1, <3>2 DEF Pairs
    <3> HIDE DEF p
    <3> QED BY <2>1, <3>3 DEF SessionInv, Terminal, SessionType
  <2>3. CASE \E st \in {"compacting", "modal", "turn"} : sess' = [next EXCEPT !.st = st]
    BY ZenonT(60), <2>1, <2>3, OtherState DEF SessionInv
  <2>4. CASE sess' = next
    BY <2>1, <2>4 DEF SessionInv
  <2>5. CASE line.k = "write" /\ sess' = [next EXCEPT !.st = "turn", !.marker = @ \cup {line.r}]
    <3>1. line.r \in Runs
      BY <2>1, <2>5 DEF Typed
    <3> QED BY <2>1, <2>5, <3>1 DEF SessionInv, Terminal, SessionType
  <2> HIDE DEF line, next
  <2>6. \/ line.k \in {"model", "effort"} /\ sess' = [next EXCEPT !.pair[line.k] = line.v]
        \/ \E st \in {"compacting", "modal", "turn"} : sess' = [next EXCEPT !.st = st]
        \/ sess' = next
        \/ line.k = "write" /\ sess' = [next EXCEPT !.st = "turn", !.marker = @ \cup {line.r}]
    BY <1>4 DEF TakeLine, line, next
  <2> QED BY <2>2, <2>3, <2>4, <2>5, <2>6
<1>5. CASE StartTurn
  BY <1>5, OtherState DEF StartTurn, SessionInv
<1>6. CASE EndTurn
  BY <1>6 DEF EndTurn, SessionInv, Terminal, SessionType
<1>7. CASE FinishCompact
  BY <1>7 DEF FinishCompact, SessionInv, Terminal, SessionType
<1>8. CASE PaneDies
  BY <1>8, TermRoom, EmptyTerm DEF PaneDies, SessionInv
<1>9. CASE OwnerStarts \/ Loop \/ LoopDrop \/ Cools \/ Crash \/ UNCHANGED vars
  BY <1>1, <1>9 DEF OwnerStarts, Loop, LoopLook, LoopRecord, LoopRearm, LoopFire, LoopSave, LoopDrop, Cools,
                    Crash, vars
<1>10. ASSUME NEW r \in Runs, WorkerRaises(r) \/ Halt(r) \/ HalterRaises(r) PROVE SessionInv'
  BY <1>1, <1>10 DEF WorkerRaises, Halt, HalterRaises
<1> QED BY <1>2, <1>3, <1>4, <1>5, <1>6, <1>7, <1>8, <1>9, <1>10 DEF Next, Session

---------------------------------------------------------------------------
(* The disk, the loop and what is only recorded.                            *)
DiskType == [record : {NoRun} \cup Runs, age : {"fresh", "old"}, armed : BOOLEAN, owed : Pairs \cup {NoPair}]
LoopType == [pc : {"idle", "look", "stale", "fire", "call", "save"}, pct : {"low", "high"}]
LoopOK == disk \in DiskType /\ armed \in BOOLEAN /\ loop \in LoopType

LEMMA OwesType == ASSUME TypeOK, NEW pair \in Pairs \cup {NoPair}, Owes(pair) PROVE disk' \in DiskType
  BY DEF TypeOK, Owes, DiskType

LEMMA SettledType ==
  ASSUME TypeOK, NEW r \in Runs, NEW outcome, Settled(r, outcome)
  PROVE  disk' \in DiskType /\ told' \in BOOLEAN
<1>1. run[r].plan \in Pairs \cup {NoPair} /\ disk \in DiskType /\ told \in BOOLEAN
  BY DEF TypeOK, Run, DiskType
<1>2. CASE outcome = "ok"
  BY <1>2, OwesType DEF Settled
<1>3. CASE outcome = "failed"
  BY <1>1, <1>3, OwesType DEF Settled
<1>4. CASE outcome \notin {"ok", "failed"}
  BY <1>1, <1>4 DEF Settled
<1> QED BY <1>2, <1>3, <1>4

LEMMA DecidesType ==
  ASSUME TypeOK, NEW flag \in BOOLEAN, NEW record \in {NoRun} \cup Runs, Decides(flag, record)
  PROVE  LoopOK'
<1> DEFINE fire == loop.pct = "high" /\ ~flag /\ flow = NoRun
           keep == loop.pct = "high" /\ flag
           b == IF fire THEN disk.armed ELSE keep
<1>1. fire \in BOOLEAN /\ keep \in BOOLEAN /\ b \in BOOLEAN /\ disk \in DiskType /\ loop \in LoopType
  BY DEF TypeOK, DiskType, LoopType
<1>2. /\ armed' = (fire \/ keep) /\ loop' = [loop EXCEPT !.pc = IF fire THEN "fire" ELSE "idle"]
      /\ disk' = [disk EXCEPT !.record = record, !.armed = b]
  BY DEF Decides
<1>3. armed' \in BOOLEAN
  BY <1>2
<1> HIDE DEF b
<1>4. disk' \in DiskType
  BY <1>1, <1>2 DEF DiskType
<1>5. loop' \in LoopType
  BY <1>1, <1>2 DEF LoopType
<1> QED BY <1>3, <1>4, <1>5 DEF LoopOK

LEMMA LoopTypes ==
  ASSUME TypeOK, [Next]_vars
  PROVE  LoopOK'
<1>0. disk \in DiskType /\ armed \in BOOLEAN /\ loop \in LoopType
  BY DEF TypeOK, DiskType, LoopType
<1>1. ASSUME UNCHANGED <<disk, armed, loop>> PROVE LoopOK'
  BY <1>0, <1>1 DEF LoopOK
<1>2. ASSUME UNCHANGED <<armed, loop>>, disk' \in DiskType PROVE LoopOK'
  BY <1>0, <1>2 DEF LoopOK
<1>3. ASSUME NEW r \in Runs, Worker(r) PROVE LoopOK'
  <2>1. CASE OpenRecord(r)
    <3>1. armed' \in BOOLEAN /\ loop' \in LoopType
      BY <1>0, <2>1 DEF OpenRecord, Returns, Propagates, LoopType
    <3>2. disk' \in DiskType
      BY <1>0, <2>1 DEF OpenRecord, DiskType
    <3> QED BY <3>1, <3>2 DEF LoopOK
  <2>2. CASE WorkerTypes(r) \/ WorkerAwaits(r)
    <3>1. ASSUME AfterFailure(r) \/ AfterAbort(r) PROVE disk' \in DiskType
      BY <1>0, <3>1, SettledType DEF AfterFailure, AfterAbort
    <3>2. disk' = disk \/ AfterFailure(r) \/ AfterAbort(r) \/ Settled(r, "ok")
      BY <2>2 DEF WorkerTypes, WorkerAwaits
    <3>3. disk' \in DiskType
      BY <1>0, <3>1, <3>2, SettledType
    <3> QED BY <1>2, <2>2, <3>3 DEF WorkerTypes, WorkerAwaits
  <2>3. CASE Close(r)
    <3>1. disk' \in DiskType
      BY <1>0, <2>3 DEF Close, CloseRecord, DiskType
    <3> QED BY <1>2, <2>3, <3>1 DEF Close
  <2>4. CASE ~(OpenRecord(r) \/ WorkerTypes(r) \/ WorkerAwaits(r) \/ Close(r))
    <3>1. UNCHANGED <<disk, armed, loop>>
      BY <1>3, <2>4 DEF Worker, Settle, Write, AwaitWritten, Dismiss, RecordIssue, MakePlan, AwaitIdle,
                        InjectCompact, ClearModal, AwaitStart, AwaitCompacted, Resume
    <3> QED BY <1>1, <3>1
  <2> QED BY <2>1, <2>2, <2>3, <2>4
<1>4. ASSUME NEW r \in Runs, Halter(r) PROVE LoopOK'
  <2>1. UNCHANGED <<armed, loop>>
    BY <1>4, HalterFacts DEF Halter, HaltTells, HalterWaits, HalterTypes, HalterAwaits, HalterDecides
  <2>2. run[r].plan \in Pairs \cup {NoPair}
    BY DEF TypeOK, Run
  <2>3. \/ disk' = disk \/ Owes(run[r].plan)
        \/ \E outcome \in {"ok", "failed", "aborted"} : Settled(r, outcome)
    BY <1>4 DEF Halter, HaltTells, HalterWaits, HalterTypes, HalterAwaits, HalterDecides, Finishes
  <2> QED BY <1>0, <1>2, <2>1, <2>2, <2>3, OwesType, SettledType
<1>5. ASSUME NEW r \in Runs, WorkerRaises(r) \/ Halt(r) \/ HalterRaises(r) PROVE LoopOK'
  BY <1>1, <1>5 DEF WorkerRaises, Halt, HalterRaises
<1>6. CASE LoopLook
  <2>1. sess.ctx \in {"low", "high"}
    BY DEF TypeOK
  <2>2. loop' \in LoopType
    BY <1>6, <2>1 DEF LoopLook, LoopType
  <2> QED BY <1>0, <1>6, <2>2 DEF LoopLook, LoopOK
<1>7. CASE LoopRecord
  <2>1. CASE Stale
    BY <1>0, <1>7, <2>1 DEF LoopRecord, LoopOK, LoopType
  <2>2. CASE ~Stale
    <3>1. Held \in BOOLEAN /\ disk.record \in {NoRun} \cup Runs
      BY <1>0 DEF Held, DiskType
    <3> QED BY <1>7, <2>2, <3>1, DecidesType DEF LoopRecord
  <2> QED BY <2>1, <2>2
<1>8. CASE LoopRearm
  BY <1>8, DecidesType DEF LoopRearm
<1>9. CASE LoopFire
  <2>1. disk' = disk /\ armed' \in BOOLEAN
    BY <1>0, <1>9 DEF LoopFire
  <2>2. loop' \in LoopType
    BY <1>0, <1>9 DEF LoopFire, LoopType
  <2> QED BY <1>0, <2>1, <2>2 DEF LoopOK
<1>10. CASE LoopSave
  <2>1. disk' \in DiskType
    BY <1>0, <1>10 DEF LoopSave, DiskType
  <2>2. loop' \in LoopType
    BY <1>0, <1>10 DEF LoopSave, LoopType
  <2> QED BY <1>0, <1>10, <2>1, <2>2 DEF LoopSave, LoopOK
<1>11. CASE LoopDrop
  <2>1. disk' \in DiskType
    BY <1>0, <1>11 DEF LoopDrop, DiskType
  <2> QED BY <1>0, <1>11, <2>1 DEF LoopDrop, LoopOK
<1>12. CASE Cools
  <2>1. disk' \in DiskType
    BY <1>0, <1>12 DEF Cools, DiskType
  <2> QED BY <1>2, <1>12, <2>1 DEF Cools
<1>13. CASE Crash
  <2>1. loop' \in LoopType
    BY <1>13 DEF Crash, LoopType
  <2>2. armed' \in BOOLEAN /\ disk' = disk
    BY <1>0, <1>13 DEF Crash, DiskType
  <2> QED BY <1>0, <2>1, <2>2 DEF LoopOK
<1>14. CASE OwnerStarts \/ Session \/ UNCHANGED vars
  BY <1>1, <1>14 DEF OwnerStarts, Session, TakeLine, StartTurn, EndTurn, FinishCompact, PaneDies, SessionOnly,
                     vars
<1> QED BY <1>3, <1>4, <1>5, <1>6, <1>7, <1>8, <1>9, <1>10, <1>11, <1>12, <1>13, <1>14 DEF Next, Loop

SeenOK == seen \in [Runs -> SUBSET (Lines \cup Events)]

LEMMA LogsType ==
  ASSUME TypeOK, NEW lines \in SUBSET (Lines \cup Events), Logs(lines)
  PROVE  SeenOK'
  BY DEF TypeOK, Logs, SeenOK

LEMMA SeenTypes == ASSUME TypeOK, [Next]_vars PROVE SeenOK'
<1>0. SeenOK
  BY DEF TypeOK, SeenOK
<1>1. ASSUME seen' = seen PROVE SeenOK'
  BY <1>0, <1>1 DEF SeenOK
<1>2. ASSUME NEW r \in Runs, seen' = [seen EXCEPT ![r] = {}] PROVE SeenOK'
  BY <1>0, <1>2 DEF SeenOK
<1>3. ASSUME NEW r \in Runs, Worker(r) \/ WorkerRaises(r) PROVE SeenOK'
  <2>1. seen' = seen \/ seen' = [seen EXCEPT ![r] = {}]
    BY <1>3 DEF Worker, WorkerRaises, OpenRecord, Settle, Write, AwaitWritten, Dismiss, RecordIssue, MakePlan,
         AwaitIdle, WorkerTypes, WorkerAwaits, InjectCompact, ClearModal, AwaitStart, AwaitCompacted,
         Close, Resume, TypeLine
  <2> QED BY <1>1, <1>2, <2>1
<1>4. ASSUME NEW r \in Runs, Halter(r) \/ HalterRaises(r) \/ Halt(r) PROVE SeenOK'
  <2>1. seen' = seen \/ seen' = [seen EXCEPT ![r] = {}]
    BY <1>4 DEF Halter, HalterRaises, Halt, HaltTells, HalterWaits, HalterTypes, HalterAwaits, HalterDecides,
                TypeLine
  <2> QED BY <1>1, <1>2, <2>1
<1>5. CASE TakeLine
  <2>1. Head(sess.term) \in Lines
    BY <1>5, HeadTailProperties DEF TakeLine, TypeOK
  <2>2. {Event("refused")} \in SUBSET (Lines \cup Events)
    BY DEF Events
  <2>3. Logs({Head(sess.term)}) \/ Logs({}) \/ Logs({Event("refused")})
    BY <1>5 DEF TakeLine
  <2> QED BY <2>1, <2>2, <2>3, LogsType
<1>6. CASE FinishCompact
  <2>1. {Event("submitted"), Event("completed")} \in SUBSET (Lines \cup Events)
    BY DEF Events
  <2> QED BY <1>6, <2>1, LogsType DEF FinishCompact
<1>7. CASE OwnerStarts \/ Loop \/ LoopDrop \/ Cools \/ Crash \/ StartTurn \/ EndTurn \/ PaneDies \/ UNCHANGED vars
  BY <1>1, <1>7 DEF OwnerStarts, Loop, LoopLook, LoopRecord, LoopRearm, LoopFire, LoopSave, LoopDrop, Cools,
                    Crash, StartTurn, EndTurn, PaneDies, vars
<1> QED BY <1>3, <1>4, <1>5, <1>6, <1>7 DEF Next, Session

ToldOK == told \in BOOLEAN

LEMMA ToldTypes == ASSUME TypeOK, [Next]_vars PROVE ToldOK'
<1>1. ASSUME told' = told PROVE ToldOK'
  BY <1>1 DEF TypeOK, ToldOK
<1>2. ASSUME NEW r \in Runs, NEW outcome, Settled(r, outcome) PROVE ToldOK'
  BY <1>2, SettledType DEF ToldOK
<1>3. ASSUME NEW r \in Runs, Worker(r) \/ WorkerRaises(r) PROVE ToldOK'
  <2>1. told' = told \/ Settled(r, "failed") \/ Settled(r, "ok")
    BY <1>3 DEF Worker, WorkerRaises, OpenRecord, Settle, Write, AwaitWritten, Dismiss, RecordIssue, MakePlan,
         AwaitIdle, WorkerTypes, WorkerAwaits, InjectCompact, ClearModal, AwaitStart, AwaitCompacted,
         Close, Resume, AfterFailure, AfterAbort
  <2> QED BY <1>1, <1>2, <2>1
<1>4. ASSUME NEW r \in Runs, Halter(r) \/ HalterRaises(r) \/ Halt(r) PROVE ToldOK'
  <2>1. told' = told \/ told' = TRUE \/ \E outcome \in {"ok", "failed", "aborted"} : Settled(r, outcome)
    BY <1>4 DEF Halter, HalterRaises, Halt, HaltTells, HalterWaits, HalterTypes, HalterAwaits, HalterDecides,
                Finishes
  <2>2. ASSUME told' = TRUE PROVE ToldOK'
    BY <2>2 DEF ToldOK
  <2> QED BY <1>1, <1>2, <2>1, <2>2
<1>5. CASE OwnerStarts \/ Loop \/ LoopDrop \/ Cools \/ Crash \/ Session \/ UNCHANGED vars
  BY <1>1, <1>5 DEF OwnerStarts, Loop, LoopLook, LoopRecord, LoopRearm, LoopFire, LoopSave, LoopDrop, Cools,
                    Crash, Session, TakeLine, StartTurn, EndTurn, FinishCompact, PaneDies, SessionOnly, vars
<1> QED BY <1>3, <1>4, <1>5 DEF Next

HistoryOK == /\ lapse \in {"none", "withheld", "raised", "stale", "mistaken", "forgotten", "crash"}
             /\ resumed \subseteq Runs /\ auto \in {"none", "fresh", "old", "lost"}

LEMMA HistoryTypes == ASSUME TypeOK, [Next]_vars PROVE HistoryOK'
<1>1. HistoryOK
  BY DEF TypeOK, HistoryOK
<1>2. ASSUME NEW r \in Runs, Worker(r) \/ WorkerRaises(r) PROVE HistoryOK'
  <2>1. lapse' = lapse \/ \E x \in {"raised", "mistaken", "withheld", "stale"} : lapse' = Lapses(x)
    BY <1>2 DEF Worker, WorkerRaises, OpenRecord, Settle, Write, AwaitWritten, Dismiss, RecordIssue, MakePlan,
         AwaitIdle, WorkerTypes, WorkerAwaits, InjectCompact, ClearModal, AwaitStart, AwaitCompacted,
         Close, Resume, Answered
  <2>2. auto' \in {auto, "fresh", "none", "lost"}
    BY <1>2 DEF Worker, WorkerRaises, OpenRecord, Settle, Write, AwaitWritten, Dismiss, RecordIssue, MakePlan,
         AwaitIdle, WorkerTypes, WorkerAwaits, InjectCompact, ClearModal, AwaitStart, AwaitCompacted,
         Close, Resume, Lost
  <2>3. resumed' \subseteq Runs
    BY <1>1, <1>2, WorkerFacts DEF HistoryOK
  <2> QED BY <1>1, <2>1, <2>2, <2>3 DEF HistoryOK, Lapses
<1>3. ASSUME NEW r \in Runs, Halter(r) \/ HalterRaises(r) \/ Halt(r) PROVE HistoryOK'
  <2>1. lapse' = lapse \/ \E x \in {"mistaken", "forgotten"} : lapse' = Lapses(x)
    BY <1>3 DEF Halter, HalterRaises, Halt, HaltTells, HalterWaits, HalterTypes, HalterAwaits, HalterDecides,
                Answered
  <2>2. resumed' = resumed /\ auto' = auto
    BY <1>3, HalterFacts DEF Halt
  <2> QED BY <1>1, <2>1, <2>2 DEF HistoryOK, Lapses
<1>4. CASE OwnerStarts \/ Loop \/ Session \/ UNCHANGED vars
  BY <1>1, <1>4 DEF HistoryOK, OwnerStarts, Loop, LoopLook, LoopRecord, LoopRearm, LoopFire, LoopSave, Session,
                    TakeLine, StartTurn, EndTurn, FinishCompact, PaneDies, SessionOnly, Lost, vars
<1>5. CASE LoopDrop \/ Cools \/ Crash
  BY <1>1, <1>5 DEF HistoryOK, LoopDrop, Cools, Crash, Lapses
<1> QED BY <1>2, <1>3, <1>4, <1>5 DEF Next

BoundsOK == bounds \in [{"withheld", "raises", "crashes", "turns"} -> Nat]

LEMMA BoundsTypes == ASSUME TypeOK, [Next]_vars PROVE BoundsOK'
<1>1. ASSUME bounds' = bounds PROVE BoundsOK'
  BY <1>1 DEF TypeOK, BoundsOK
<1>2. ASSUME NEW b \in {"withheld", "raises", "crashes", "turns"}, Counts(b) PROVE BoundsOK'
  BY <1>2 DEF TypeOK, BoundsOK, Counts
<1>3. ASSUME NEW r \in Runs, Worker(r) \/ WorkerRaises(r) PROVE BoundsOK'
  <2>1. bounds' = bounds \/ Counts("withheld") \/ Counts("raises")
    BY <1>3 DEF Worker, WorkerRaises, OpenRecord, Settle, Write, AwaitWritten, Dismiss, RecordIssue, MakePlan,
         AwaitIdle, WorkerTypes, WorkerAwaits, InjectCompact, ClearModal, AwaitStart, AwaitCompacted,
         Close, Resume, TypeLine, Submits, Withholds, Withheld, Propagates, SendRaises
  <2> QED BY <1>1, <1>2, <2>1
<1>4. ASSUME NEW r \in Runs, Halter(r) \/ HalterRaises(r) \/ Halt(r) PROVE BoundsOK'
  <2>1. bounds' = bounds \/ Counts("withheld") \/ Counts("raises")
    BY <1>4 DEF Halter, HalterRaises, Halt, HaltTells, HalterWaits, HalterTypes, HalterAwaits, HalterDecides,
                TypeLine, Submits, Withholds, Withheld
  <2> QED BY <1>1, <1>2, <2>1
<1>5. CASE OwnerStarts \/ Loop \/ LoopDrop \/ Cools \/ Session \/ UNCHANGED vars
  <2>1. bounds' = bounds \/ Counts("turns") \/ Counts("raises")
    BY <1>5 DEF SendRaises, OwnerStarts, Loop, LoopLook, LoopRecord, LoopRearm, LoopFire, LoopSave, LoopDrop, Cools,
                Session, TakeLine, StartTurn, EndTurn, FinishCompact, PaneDies, vars
  <2> QED BY <1>1, <1>2, <2>1
<1>6. CASE Crash
  BY <1>2, <1>6 DEF Crash
<1> QED BY <1>3, <1>4, <1>5, <1>6 DEF Next

LEMMA TypeStep ==
  ASSUME TypeOK, ControlInv, SessionInv, [Next]_vars
  PROVE  TypeOK' /\ ControlInv' /\ SessionInv'
<1>1. ControlInv' /\ SessionInv'
  BY ControlStep, SessionStep DEF ControlInv
<1>2. Terminal(sess)'
  BY <1>1 DEF SessionInv
<1>3. /\ sess' \in [st : {"idle", "turn", "compacting", "modal", "dead"}, term : Seq(Lines),
                    pair : Pairs, said : Pairs, ctx : {"low", "high"}, marker : SUBSET Runs]
      /\ Len(sess'.term) <= MaxTerm
  <2>1. sess' \in SessionType /\ Len(sess'.term) <= MaxTerm /\ Typed \subseteq Lines
    BY <1>2 DEF Terminal, Typed
  <2>2. sess'.term \in Seq(Typed)
    BY <2>1 DEF SessionType
  <2>3. sess'.term \in Seq(Lines)
    BY <2>1, <2>2, SeqMonotonic
  <2> HIDE DEF Typed
  <2> QED BY <2>1, <2>3 DEF SessionType
<1>4. ControlOK'
  BY <1>1 DEF ControlInv
<1>5. LoopOK' /\ SeenOK' /\ ToldOK' /\ HistoryOK' /\ BoundsOK'
  BY LoopTypes, SeenTypes, ToldTypes, HistoryTypes, BoundsTypes
<1>6. TypeOK'
  BY <1>3, <1>4, <1>5
     DEF TypeOK, ControlOK, LoopOK, DiskType, LoopType, SeenOK, ToldOK, HistoryOK, BoundsOK
<1> QED BY <1>1, <1>6

---------------------------------------------------------------------------
(* An automatic run that has not compacted and still owns the topic is the  *)
(* one on record.  It is stronger than what is promised of it: undoing an   *)
(* unconfirmed switch comes before another attempt to compact.              *)
RecordInv ==
  \A r \in Runs : Owns(r) /\ run[r].via = "auto" /\ NotYet(r) /\ auto # "none" => disk.record = r

(* A recent automatic run is on record as recent, and the loop that found a *)
(* stale one found no recent one.                                           *)
FreshInv ==
  /\ auto = "fresh" => disk.record # NoRun /\ disk.age = "fresh"
  /\ loop.pc = "stale" => auto # "fresh"

LEMMA SettledRecord ==
  ASSUME TypeOK, NEW r \in Runs, NEW outcome, Settled(r, outcome)
  PROVE  disk'.record = disk.record /\ disk'.age = disk.age
<1>1. disk \in DiskType
  BY DEF TypeOK, DiskType
<1>2. CASE outcome = "ok"
  BY <1>1, <1>2 DEF Settled, Owes, DiskType
<1>3. CASE outcome = "failed"
  BY <1>1, <1>3 DEF Settled, Owes, DiskType
<1>4. CASE outcome \notin {"ok", "failed"}
  BY <1>4 DEF Settled
<1> QED BY <1>2, <1>3, <1>4

(* Only a run's opening and closing touch the record.                       *)
LEMMA WorkerRecord ==
  ASSUME TypeOK, NEW r \in Runs, Worker(r) \/ WorkerRaises(r), ~OpenRecord(r), ~Close(r)
  PROVE  /\ disk'.record = disk.record /\ disk'.age = disk.age /\ auto' = auto /\ loop' = loop
         /\ at[r] # "start"
<1>1. auto' = auto /\ loop' = loop /\ at[r] # "start"
  BY DEF Worker, WorkerRaises, Settle, Write, AwaitWritten, Dismiss, RecordIssue, MakePlan, AwaitIdle,
         WorkerTypes, WorkerAwaits, InjectCompact, ClearModal, AwaitStart, AwaitCompacted, Resume,
         Uncompacted, ModelSteps, ModelWaits
<1>2. disk' = disk \/ Settled(r, "failed") \/ Settled(r, "ok")
  BY DEF Worker, WorkerRaises, Settle, Write, AwaitWritten, Dismiss, RecordIssue, MakePlan, AwaitIdle,
         WorkerTypes, WorkerAwaits, InjectCompact, ClearModal, AwaitStart, AwaitCompacted, Resume,
         AfterFailure, AfterAbort
<1> QED BY <1>1, <1>2, SettledRecord

LEMMA HalterRecord ==
  ASSUME TypeOK, NEW r \in Runs, Halter(r) \/ HalterRaises(r)
  PROVE  disk'.record = disk.record /\ disk'.age = disk.age
<1>1. disk \in DiskType
  BY DEF TypeOK, DiskType
<1>2. \/ disk' = disk \/ Owes(run[r].plan)
      \/ \E outcome \in {"ok", "failed", "aborted"} : Settled(r, outcome)
  BY DEF Halter, HalterRaises, HaltTells, HalterWaits, HalterTypes, HalterAwaits, HalterDecides, Finishes
<1>3. Owes(run[r].plan) => disk'.record = disk.record /\ disk'.age = disk.age
  BY <1>1 DEF Owes, DiskType
<1> QED BY <1>2, <1>3, SettledRecord

LEMMA RecordStep ==
  ASSUME TypeOK, ControlInv, RecordInv, [Next]_vars
  PROVE  RecordInv'
<1>0. PlanInv /\ FlowInv /\ StartInv
  BY DEF ControlInv
<1>1. ASSUME NEW r \in Runs, Worker(r) \/ WorkerRaises(r) PROVE RecordInv'
  <2> SUFFICES ASSUME NEW q \in Runs, Owns(q)', run'[q].via = "auto", NotYet(q)', auto' # "none"
               PROVE  disk'.record = q
    BY DEF RecordInv
  <2>1. WorkStep(r)
    BY <1>0, <1>1, WorkerStep
  <2>2. /\ flow' \in {flow, NoRun} /\ Owns(q) /\ run[q].via = "auto"
        /\ q # r => NotYet(q)
        /\ q = r => NotYet(r) \/ at[r] = "start"
    <3>1. Owns(q)
      BY <2>1, RunNumbers DEF WorkStep, Owns
    <3>2. run[q].via = "auto"
      BY <2>1 DEF WorkStep
    <3>3. q # r => NotYet(q)
      BY <2>1 DEF WorkStep, NotYet, Uncompacted, ModelSteps, ModelWaits, Restoring
    <3> QED BY <2>1, <3>1, <3>2, <3>3 DEF WorkStep
  <2>3. CASE OpenRecord(r)
    <3>1. CASE Go(r, "over")
      <4>1. at'[r] = "over" /\ ~Go(r, "settle") /\ ~Go(r, "plan")
        BY <3>1 DEF Go, TypeOK
      <4>2. q # r /\ NotYet(q)
        BY <2>2, <4>1 DEF NotYet, Uncompacted, ModelSteps, ModelWaits, Restoring
      <4>3. at[r] = "start" /\ ((disk' = disk /\ (auto' # "none" => auto # "none")) \/ run[r].via = "auto")
        BY <2>3, <4>1 DEF OpenRecord, Lost
      <4>4. run[r].via # "auto"
        BY <1>0, <2>2, <4>2, <4>3, RunNumbers DEF StartInv, Owns
      <4> QED BY <2>2, <4>2, <4>3, <4>4 DEF RecordInv
    <3>2. CASE ~Go(r, "over")
      <4>1. /\ at[r] = "start" /\ disk' = [disk EXCEPT !.record = r, !.age = "fresh"]
            /\ run[r].via = "auto"
        BY <2>3, <3>2 DEF OpenRecord, Ends
      <4>2. flow \in {NoRun, r} \/ run[flow].via = "owner"
        BY <1>0, <4>1 DEF StartInv
      <4>3. q = r
        BY <2>2, <4>2, RunNumbers DEF Owns
      <4> QED BY <4>1, <4>3 DEF TypeOK
    <3> QED BY <3>1, <3>2
  <2>4. CASE Close(r)
    <3>1. disk.record # r /\ disk' = disk /\ auto' = auto /\ at[r] # "start"
      BY <2>4 DEF Close, CloseRecord
    <3> QED BY <2>2, <3>1 DEF RecordInv
  <2>5. CASE ~OpenRecord(r) /\ ~Close(r)
    <3>1. disk'.record = disk.record /\ auto' = auto /\ at[r] # "start"
      BY <1>1, <2>5, WorkerRecord
    <3> QED BY <2>2, <3>1 DEF RecordInv
  <2> QED BY <2>3, <2>4, <2>5
<1>2. ASSUME NEW r \in Runs, Halter(r) \/ HalterRaises(r) PROVE RecordInv'
  <2> SUFFICES ASSUME NEW q \in Runs, Owns(q)', run'[q].via = "auto", NotYet(q)', auto' # "none"
               PROVE  disk'.record = q
    BY DEF RecordInv
  <2>1. HaltStep(r)
    BY <1>0, <1>2, HalterStep
  <2>2. Owns(q) /\ run[q].via = "auto" /\ NotYet(q)
    BY <2>1 DEF HaltStep, Owns, NotYet, Uncompacted, ModelSteps, ModelWaits, Restoring
  <2>3. disk'.record = disk.record /\ auto' = auto
    BY <1>2, HalterRecord, HalterFacts
  <2> QED BY <2>2, <2>3 DEF RecordInv
<1>3. CASE Crash \/ \E r \in Runs : Halt(r)
  BY <1>3, RunNumbers DEF Crash, Halt, RecordInv, Owns
<1>4. ASSUME NEW via \in {"owner", "auto"}, Claim(via), hat' = hat, resumed' = resumed PROVE RecordInv'
  <2>1. runs' \in Runs /\ flow' = runs' /\ at'[runs'] = "start"
    BY <1>0, <1>4, ClaimStep
  <2> QED BY <2>1 DEF RecordInv, Owns, NotYet, Uncompacted, ModelSteps, ModelWaits, Restoring
<1>5. ASSUME UNCHANGED <<flow, at, run>>, disk'.record = disk.record, auto' # "none" => auto # "none"
      PROVE  RecordInv'
  BY <1>5 DEF RecordInv, Owns, NotYet, Uncompacted, ModelSteps, ModelWaits, Restoring
<1>6. CASE OwnerStarts
  BY <1>4, <1>6 DEF OwnerStarts
<1>7. CASE LoopFire
  BY <1>4, <1>5, <1>7 DEF LoopFire, Lost
<1>8. CASE LoopRearm
  <2>1. UNCHANGED <<flow, run>> /\ loop.pc = "stale"
    BY <1>8 DEF LoopRearm
  <2> QED BY <1>0, <2>1, RunNumbers DEF StartInv, RecordInv, Owns
<1>9. CASE LoopLook \/ LoopRecord \/ LoopSave \/ Cools \/ Session \/ UNCHANGED vars
  <2>1. UNCHANGED <<flow, at, run>> /\ (auto' # "none" => auto # "none")
    BY <1>9 DEF LoopLook, LoopRecord, LoopSave, Cools, Session, TakeLine, StartTurn, EndTurn,
                FinishCompact, PaneDies, SessionOnly, vars
  <2>2. disk'.record = disk.record
    BY <1>9 DEF LoopLook, LoopRecord, LoopSave, Cools, Session, TakeLine, StartTurn, EndTurn,
                FinishCompact, PaneDies, SessionOnly, vars, Decides, TypeOK
  <2> QED BY <1>5, <2>1, <2>2
<1>10. CASE LoopDrop
  BY <1>10 DEF LoopDrop, RecordInv
<1> QED BY <1>1, <1>2, <1>3, <1>6, <1>7, <1>8, <1>9, <1>10 DEF Next, Loop

LEMMA FreshStep ==
  ASSUME TypeOK, ControlInv, FreshInv, [Next]_vars
  PROVE  FreshInv'
<1>0. disk \in DiskType
  BY DEF TypeOK, DiskType
<1>1. ASSUME disk'.record = disk.record, disk'.age = disk.age, auto' = auto,
             loop'.pc = "stale" => loop.pc = "stale"
      PROVE  FreshInv'
  BY <1>1 DEF FreshInv
<1>2. ASSUME NEW r \in Runs, Worker(r) \/ WorkerRaises(r) PROVE FreshInv'
  <2>1. CASE OpenRecord(r)
    <3>1. loop'.pc = "stale" => loop' = loop /\ run[r].via # "auto"
      BY <2>1 DEF OpenRecord, Returns, Propagates, TypeOK
    <3>2. \/ disk' = [disk EXCEPT !.record = r, !.age = "fresh"] /\ (run[r].via # "auto" => auto' = "none")
          \/ disk' = disk /\ auto' = auto
          \/ auto' # "fresh"
      BY <2>1 DEF OpenRecord, Lost
    <3>3. disk' = [disk EXCEPT !.record = r, !.age = "fresh"] =>
            disk'.record # NoRun /\ disk'.age = "fresh"
      BY <1>0, RunNumbers DEF DiskType
    <3> QED BY <3>1, <3>2, <3>3 DEF FreshInv
  <2>2. CASE Close(r)
    <3>1. loop' = loop /\ (auto' = "none" \/ (disk' = disk /\ auto' = auto))
      BY <2>2 DEF Close, CloseRecord
    <3> QED BY <3>1 DEF FreshInv
  <2>3. CASE ~OpenRecord(r) /\ ~Close(r)
    BY <1>1, <1>2, <2>3, WorkerRecord
  <2> QED BY <2>1, <2>2, <2>3
<1>3. ASSUME NEW r \in Runs, Halter(r) \/ HalterRaises(r) PROVE FreshInv'
  BY <1>1, <1>3, HalterRecord, HalterFacts
<1>4. CASE LoopRecord
  <2>1. CASE Stale
    BY <1>4, <2>1 DEF LoopRecord, Stale, FreshInv
  <2>2. CASE ~Stale
    <3>1. disk'.record = disk.record /\ disk'.age = disk.age /\ loop'.pc # "stale"
      BY <1>0, <1>4, <2>2 DEF LoopRecord, Decides, DiskType, TypeOK
    <3> QED BY <1>1, <1>4, <3>1 DEF LoopRecord
  <2> QED BY <2>1, <2>2
<1>5. CASE LoopRearm
  <2>1. auto # "fresh" /\ auto' = auto
    BY <1>5 DEF LoopRearm, FreshInv
  <2> QED BY <2>1 DEF FreshInv
<1>6. CASE LoopDrop \/ Cools
  BY <1>6 DEF LoopDrop, Cools, FreshInv
<1>7. CASE Crash
  BY <1>7 DEF Crash, FreshInv
<1>8. CASE LoopLook
  BY <1>1, <1>8 DEF LoopLook, TypeOK
<1>11. CASE LoopFire
  <2>1. disk' = disk /\ loop'.pc # "stale" /\ (auto' = auto \/ auto' # "fresh")
    BY <1>11 DEF LoopFire, Lost, TypeOK
  <2> QED BY <2>1 DEF FreshInv
<1>9. CASE LoopSave
  BY <1>0, <1>1, <1>9 DEF LoopSave, DiskType, TypeOK
<1>10. CASE OwnerStarts \/ (\E r \in Runs : Halt(r)) \/ Session \/ UNCHANGED vars
  BY <1>1, <1>10 DEF OwnerStarts, Halt, Session, TakeLine, StartTurn, EndTurn, FinishCompact, PaneDies,
                     SessionOnly, vars
<1> QED BY <1>2, <1>3, <1>4, <1>5, <1>6, <1>7, <1>8, <1>9, <1>10, <1>11 DEF Next, Loop

---------------------------------------------------------------------------
IInv == TypeOK /\ ControlInv /\ SessionInv /\ RecordInv /\ FreshInv

LEMMA InitInvariant == Init => IInv
<1> SUFFICES ASSUME Init PROVE IInv
  OBVIOUS
<1>1. /\ 0 \in 0..MaxRuns /\ MaxTerm \in Nat
      /\ "no" \in Places /\ "no" \in Halts
  BY CarryForwardAssumption DEF CarryForwardAssumption, Places, Halts
<1>2. TypeOK
  <2>1. /\ at \in [Runs -> Places] /\ hat \in [Runs -> Halts] /\ run \in [Runs -> Run]
        /\ seen \in [Runs -> SUBSET (Lines \cup Events)] /\ runs \in 0..MaxRuns
    BY <1>1, NewRunType DEF Init
  <2>2. disk \in DiskType /\ loop \in LoopType
    BY DEF Init, DiskType, LoopType
  <2>3. Terminal(sess) /\ Len(sess.term) <= MaxTerm /\ sess.term \in Seq(Lines)
    BY <1>1, Pairing, EmptySeq DEF Init, Terminal, SessionType
  <2>4. bounds \in [{"withheld", "raises", "crashes", "turns"} -> Nat]
    BY DEF Init
  <2> QED BY <2>1, <2>2, <2>3, <2>4 DEF Init, TypeOK, DiskType, LoopType, Terminal, SessionType
<1>3. SessionInv
  BY <1>1, Pairing, EmptySeq DEF Init, SessionInv, Terminal, SessionType
<1>4. ControlOK
  BY <1>2 DEF TypeOK, ControlOK
<1>5. \A r \in Runs : at[r] = "no" /\ hat[r] = "no" /\ run[r] = NewRun("owner")
  BY DEF Init
<1>6. PlanInv
  BY <1>5 DEF PlanInv, PlanOf, NewRun, ModelSteps, ModelWaits, Restoring, Early, NoPair
<1>7. FlowInv
  BY <1>5 DEF Init, FlowInv
<1>8. StartInv /\ RecordInv /\ FreshInv
  BY <1>5 DEF Init, StartInv, RecordInv, FreshInv
<1> QED BY <1>2, <1>3, <1>4, <1>6, <1>7, <1>8 DEF IInv, ControlInv

LEMMA InductiveStep == IInv /\ [Next]_vars => IInv'
  BY TypeStep, RecordStep, FreshStep DEF IInv

THEOREM Invariant == Spec => []IInv
  BY InitInvariant, InductiveStep, PTL DEF Spec

(* Every variable keeps its type, the terminal its bound.                   *)
THEOREM TypeCorrect == Spec => []TypeOK
<1>1. IInv => TypeOK
  BY DEF IInv
<1> QED BY <1>1, Invariant, PTL

(* A run that the owner halted never resumes the session: the resume line   *)
(* and the release of the flow are one hold of the lock.                    *)
THEOREM HaltIsFinal == Spec => []HaltedNeverResumes
<1>1. IInv => HaltedNeverResumes
  BY DEF IInv, ControlInv, FlowInv, TypeOK, HaltedNeverResumes
<1> QED BY <1>1, Invariant, PTL

(* An automatic run is on record until it compacted, whichever older        *)
(* workers are still unwinding and whatever the loop's tick decides.        *)
THEOREM RecordKept == Spec => []RunsOnRecord
<1>1. IInv => RunsOnRecord
  BY DEF IInv, RecordInv, NotYet, RunsOnRecord, AutoRunOnRecord
<1> QED BY <1>1, Invariant, PTL

(* The loop decides to start a run only when the last one it started and    *)
(* that did not compact is older than the cooldown.                         *)
LEMMA FireStep ==
  ASSUME IInv, [Next]_vars, loop.pc # "fire", loop'.pc = "fire"
  PROVE  auto # "fresh"
<1>0. TypeOK /\ FreshInv
  BY DEF IInv
<1>1. CASE LoopRecord
  <2>1. ~Stale /\ Decides(Held, disk.record)
    BY <1>0, <1>1 DEF LoopRecord, TypeOK
  <2>2. ~Held /\ flow = NoRun
    BY <1>0, <2>1 DEF Decides, TypeOK
  <2> QED BY <1>0, <2>2 DEF Held, FreshInv
<1>2. CASE LoopRearm
  BY <1>0, <1>2 DEF LoopRearm, FreshInv
<1>3. CASE LoopLook \/ LoopFire \/ LoopSave \/ Crash
  BY <1>0, <1>3 DEF LoopLook, LoopFire, LoopSave, Crash, TypeOK
<1>4. CASE OwnerStarts \/ LoopDrop \/ Cools \/ Session \/ UNCHANGED vars
  BY <1>4 DEF OwnerStarts, LoopDrop, Cools, Session, TakeLine, StartTurn, EndTurn, FinishCompact, PaneDies,
              SessionOnly, vars
<1>5. ASSUME NEW r \in Runs, Worker(r) \/ WorkerRaises(r) PROVE FALSE
  BY ZenonT(60), <1>0, <1>5, WorkerFacts DEF OpenRecord, Returns, Propagates, TypeOK
<1>6. ASSUME NEW r \in Runs, Halter(r) \/ HalterRaises(r) \/ Halt(r) PROVE FALSE
  BY <1>6, HalterFacts DEF Halt
<1> QED BY <1>1, <1>2, <1>3, <1>4, <1>5, <1>6 DEF Next, Loop

THEOREM CooldownKept == Spec => CooldownHonoured
<1>1. IInv /\ [Next]_vars => [loop.pc # "fire" /\ loop'.pc = "fire" => auto # "fresh"]_vars
  BY FireStep
<1> QED BY <1>1, Invariant, PTL DEF Spec, CooldownHonoured

---------------------------------------------------------------------------
(* Which model the session is left on.  A run has two threads that may type *)
(* a model line, its worker and the one that handles its halt; h says which.*)
Fields == {"model", "effort"}
Sw == {"swmodel", "swmodel?", "sweffort", "sweffort?"}
Locked == {"swmodel?", "sweffort", "sweffort?", "rsmodel?", "rseffort", "rseffort?"}
Pc(r, h) == IF h THEN hat[r] ELSE at[r]

(* The terminal as a set of lines, and what it may still do to a field.     *)
Spots == 1..Len(sess.term)
Queue == {sess.term[i] : i \in Spots}
OwnLine(k, r, h) == [k |-> k, v |-> "own", r |-> r, h |-> h]
CheapLine(k, r, h) == [k |-> k, v |-> "cheap", r |-> r, h |-> h]
Cheaper(l, f) == l.k = f /\ l.v = "cheap"
Clean(f) == sess.pair[f] = "own" /\ \A l \in Queue : ~Cheaper(l, f)
AllClean == \A f \in Fields : Clean(f)

(* How far a run is, as long as no fault happened: it goes back to the      *)
(* session's own pair, and its worker owns the topic until it is halted.    *)
Stage(r) ==
  /\ run[r].plan \in {NoPair, Own}
  /\ run[r].mode = "fresh" /\ hat[r] = "no" => run[r].now = run[r].plan /\ run[r].sent = NoLine
  /\ at[r] \in Sw => run[r].mode = "switched"
  /\ at[r] \in Restoring => run[r].mode = "settled"
  /\ at[r] = "resume" => run[r].mode # "switched"
  /\ at[r] \notin {"no", "over", "escape"} /\ hat[r] = "no" => Owns(r)
  /\ hat[r] = "final" => run[r].plan # NoPair
  /\ hat[r] \notin Sw
Stages == disk.owed \in {NoPair, Own} /\ \A r \in Runs : Stage(r)

(* _settings_lock has one holder.                                           *)
OneHolder ==
  \A p, q \in Runs, g, h \in BOOLEAN : Pc(p, g) \in Locked /\ Pc(q, h) \in Locked => p = q /\ g = h

(* A thread types each line of a switch back once.                          *)
MayType(k, r, h) ==
  IF h THEN hat[r] \in {"no", "popped", "wait", "rsmodel"}
                         \cup (IF k = "model" THEN {} ELSE {"rsmodel?", "rseffort"})
       ELSE \/ at[r] \in {"rsmodel"} \cup (IF k = "model" THEN {} ELSE {"rsmodel?", "rseffort"})
            \/ run[r].mode # "settled" /\ at[r] # "over"
Once == \A r \in Runs, h \in BOOLEAN, k \in Fields : MayType(k, r, h) => OwnLine(k, r, h) \notin Queue

(* While a thread switches back, nothing that undoes it is typed behind its *)
(* lines: what it awaits, once it is on record, has cleaned the field.      *)
Order(f, l) == \A i, j \in Spots : sess.term[i] = l /\ Cheaper(sess.term[j], f) => j < i
Sealed(f, r, h) == Order(f, OwnLine(f, r, h)) /\ (OwnLine(f, r, h) \in seen[r] => Clean(f))
Seal(r, h) ==
  /\ Pc(r, h) = "rsmodel?" => Sealed("model", r, h)
  /\ Pc(r, h) \in {"rseffort", "rseffort?"} => Clean("model")
  /\ Pc(r, h) = "rseffort?" => Sealed("effort", r, h)
Seals == \A r \in Runs, h \in BOOLEAN : Seal(r, h)

(* Who still answers for a field that is not, or may not stay, the          *)
(* session's own: a run that will switch back, or the debt or the notice.   *)
Debt == disk.owed # NoPair \/ told
WillSwitchBack(r) ==
  \/ NeedsSwitchBack(r) /\ (run[r].mode = "switched" \/ at[r] \in Restoring)
  \/ at[r] = "rseffort"
Resp(r) ==
  \/ hat[r] = "no" /\ at[r] # "over" /\ WillSwitchBack(r)
  \/ hat[r] = "popped" /\ NeedsSwitchBack(r)
  \/ hat[r] \in {"wait"} \cup Restoring
  \/ hat[r] = "final" /\ run[r].end # "done"
Answerable ==
  /\ \A l \in Queue, f \in Fields : Cheaper(l, f) => Debt \/ (l.r \in Runs /\ Resp(l.r))
  /\ \A f \in Fields : sess.pair[f] = "cheap" => Debt \/ \E r \in Runs : Resp(r)

SwitchOK == Stages /\ OneHolder /\ Once /\ Seals /\ Answerable
SwitchInv == lapse = "none" /\ Alive => SwitchOK

---------------------------------------------------------------------------
(* What a line that is typed, taken or dropped leaves of the terminal.      *)
LEMMA LineAppended ==
  ASSUME TypeOK, NEW l \in Lines, sess'.term = Append(sess.term, l)
  PROVE  /\ \A o : o \in Queue' <=> o \in Queue \/ o = l
         /\ \A f, o : Order(f, o) /\ ~Cheaper(l, f) => Order(f, o)'
         /\ \A f : ~Cheaper(l, f) /\ l \notin Queue => Order(f, l)'
<1> DEFINE t == sess.term
           n == Len(t)
<1>1. t \in Seq(Lines) /\ n \in Nat
  BY LenProperties DEF TypeOK
<1>2. /\ sess'.term = Append(t, l) /\ Len(sess'.term) = n + 1
      /\ \A i \in 1..n : sess'.term[i] = t[i]
  BY <1>1, AppendProperties
<1>3. Spots = 1..n /\ Spots' = 1..(n + 1)
  BY <1>2 DEF Spots
<1> HIDE DEF t, n
<1>4. \A i \in 1..n : sess'.term[i] = sess.term[i]
  BY <1>2 DEF t
<1>5. \A i \in Spots' : i \in 1..n \/ i = n + 1
  BY <1>1, <1>3
<1>6. 1..n \subseteq Spots' /\ n + 1 \in Spots'
  BY <1>1, <1>3
<1>7. \A o : o \in Queue' <=> o \in Queue \/ o = l
  BY <1>2, <1>3, <1>4, <1>5, <1>6 DEF Queue
<1>8. ASSUME NEW f, NEW o, Order(f, o), ~Cheaper(l, f) PROVE Order(f, o)'
  <2> SUFFICES ASSUME NEW i \in Spots', NEW j \in Spots', sess'.term[i] = o, Cheaper(sess'.term[j], f)
               PROVE  j < i
    BY DEF Order, Cheaper
  <2>1. j \in 1..n
    BY <1>2, <1>5, <1>8
  <2>2. CASE i = n + 1
    BY <1>1, <2>1, <2>2
  <2>3. CASE i \in 1..n
    BY <1>3, <1>4, <1>8, <2>1, <2>3 DEF Order
  <2> QED BY <1>5, <2>2, <2>3
<1>9. ASSUME NEW f, ~Cheaper(l, f), l \notin Queue PROVE Order(f, l)'
  <2> SUFFICES ASSUME NEW i \in Spots', NEW j \in Spots', sess'.term[i] = l, Cheaper(sess'.term[j], f)
               PROVE  j < i
    BY DEF Order, Cheaper
  <2>1. j \in 1..n
    BY <1>2, <1>5, <1>9
  <2>2. i = n + 1
    BY <1>3, <1>4, <1>5, <1>9 DEF Queue
  <2> QED BY <1>1, <2>1, <2>2
<1> QED BY <1>7, <1>8, <1>9

LEMMA LineTaken ==
  ASSUME TypeOK, sess.term # <<>>, sess'.term = Tail(sess.term)
  PROVE  /\ Head(sess.term) \in Queue /\ Queue' \subseteq Queue
         /\ \A f, o : Order(f, o) => Order(f, o)'
         /\ \A f : Order(f, Head(sess.term)) => \A l \in Queue' : ~Cheaper(l, f)
         /\ \A o \in Queue : o = Head(sess.term) \/ o \in Queue'
<1> DEFINE t == sess.term
           n == Len(t)
<1>1. t \in Seq(Lines) /\ n \in Nat /\ n > 0
  BY LenProperties, EmptySeq DEF TypeOK
<1>2. /\ Head(t) = t[1] /\ Len(sess'.term) = n - 1
      /\ \A i \in 1..(n - 1) : sess'.term[i] = t[i + 1]
  BY <1>1, HeadTailProperties
<1>3. Spots = 1..n /\ Spots' = 1..(n - 1)
  BY <1>2 DEF Spots
<1> HIDE DEF n
<1>4. \A i \in Spots' : i + 1 \in Spots /\ sess'.term[i] = sess.term[i + 1]
  BY <1>1, <1>2, <1>3
<1>5. 1 \in Spots /\ Head(sess.term) = sess.term[1]
  BY <1>1, <1>2, <1>3
<1> HIDE DEF t
<1>6. Head(sess.term) \in Queue /\ Queue' \subseteq Queue
  BY <1>4, <1>5 DEF Queue
<1>7. ASSUME NEW f, NEW o, Order(f, o) PROVE Order(f, o)'
  <2> SUFFICES ASSUME NEW i \in Spots', NEW j \in Spots', sess'.term[i] = o, Cheaper(sess'.term[j], f)
               PROVE  j < i
    BY DEF Order, Cheaper
  <2>1. j + 1 < i + 1
    BY <1>4, <1>7 DEF Order
  <2> QED BY <1>1, <1>3, <2>1
<1>8. ASSUME NEW f, Order(f, Head(sess.term)), NEW l \in Queue', Cheaper(l, f) PROVE FALSE
  <2>1. PICK i \in Spots' : l = sess'.term[i]
    BY DEF Queue
  <2>2. i + 1 < 1
    BY <1>4, <1>5, <1>8, <2>1 DEF Order
  <2> QED BY <1>1, <1>3, <2>2
<1>9. ASSUME NEW o \in Queue, o # Head(sess.term) PROVE o \in Queue'
  <2>1. PICK i \in Spots : o = sess.term[i]
    BY DEF Queue
  <2>2. i # 1
    BY <1>5, <1>9, <2>1
  <2>3. i - 1 \in Spots' /\ (i - 1) + 1 = i
    BY <1>1, <1>3, <2>2
  <2> QED BY <1>4, <2>1, <2>3 DEF Queue
<1> QED BY <1>6, <1>7, <1>8, <1>9

(* What a step of a thread does to the terminal when it types no line that  *)
(* sets a field.                                                            *)
Gentle ==
  /\ sess'.pair = sess.pair
  /\ \/ sess'.term = sess.term
     \/ \A l \in Queue' : l.k \notin Fields
     \/ \E l \in Lines : l.k \notin Fields /\ sess'.term = Append(sess.term, l)
  /\ \A q \in Runs : seen'[q] \in {seen[q], {}}

LEMMA GentleLines ==
  ASSUME TypeOK, Gentle
  PROVE  /\ \A l \in Queue' : l.k \in Fields => l \in Queue
         /\ \A f \in Fields : Clean(f) => Clean(f)'
         /\ \A f \in Fields, r \in Runs, h \in BOOLEAN : Sealed(f, r, h) => Sealed(f, r, h)'
<1>1. /\ \A l \in Queue' : l.k \in Fields => l \in Queue
      /\ \A f \in Fields : \A o : Order(f, o) => Order(f, o)'
  <2>1. CASE sess'.term = sess.term
    BY <2>1 DEF Queue, Spots, Order, Cheaper
  <2>2. CASE \A l \in Queue' : l.k \notin Fields
    BY <2>2 DEF Queue, Order, Cheaper
  <2>3. ASSUME NEW l \in Lines, l.k \notin Fields, sess'.term = Append(sess.term, l)
        PROVE  /\ \A o \in Queue' : o.k \in Fields => o \in Queue
               /\ \A f \in Fields : \A o : Order(f, o) => Order(f, o)'
    <3>1. \A f \in Fields : ~Cheaper(l, f)
      BY <2>3 DEF Cheaper
    <3> QED BY <2>3, <3>1, LineAppended
  <2> QED BY <2>1, <2>2, <2>3 DEF Gentle
<1>2. \A f \in Fields : Clean(f) => Clean(f)'
  BY <1>1 DEF Clean, Cheaper, Gentle
<1>3. ASSUME NEW f \in Fields, NEW r \in Runs, NEW h \in BOOLEAN, Sealed(f, r, h) PROVE Sealed(f, r, h)'
  <2>1. Order(f, OwnLine(f, r, h)) => Order(f, OwnLine(f, r, h))'
    BY <1>1 DEF OwnLine
  <2>2. OwnLine(f, r, h) \in seen'[r] => OwnLine(f, r, h) \in seen[r]
    BY DEF Gentle
  <2> QED BY <1>2, <1>3, <2>1, <2>2 DEF Sealed, OwnLine
<1> QED BY <1>1, <1>2, <1>3

(* A step of one thread, h, of run r.                                       *)
Framed(r, h) ==
  /\ \A q \in Runs \ {r} : /\ at'[q] = at[q] /\ hat'[q] = hat[q] /\ run'[q] = run[q]
                           /\ (Owns(q) => Owns(q)')
  /\ Pc(r, ~h)' = Pc(r, ~h)
Accounted(r) ==
  \/ Debt'
  \/ AllClean'
  \/ disk'.owed = disk.owed /\ told' = told /\ (Resp(r) => Resp(r)')
Steps(r, h) ==
  /\ Framed(r, h)
  /\ Stage(r)' /\ disk'.owed \in {NoPair, Own}
  /\ Pc(r, h)' \in Locked => Pc(r, h) \in Locked \/ \A q \in Runs, g \in BOOLEAN : Pc(q, g) \notin Locked
  /\ \A k \in Fields, g \in BOOLEAN : MayType(k, r, g)' => MayType(k, r, g)
  /\ Seal(r, h)'
  /\ Accounted(r)

LEMMA StepsThreads ==
  ASSUME NEW r \in Runs, NEW h \in BOOLEAN, Framed(r, h)
  PROVE  /\ \A q \in Runs, g \in BOOLEAN : q # r \/ g # h => Pc(q, g)' = Pc(q, g)
         /\ \A q \in Runs \ {r} : Resp(q)' <=> Resp(q)
         /\ \A q \in Runs \ {r}, k \in Fields, g \in BOOLEAN : MayType(k, q, g)' <=> MayType(k, q, g)
<1>1. \A q \in Runs \ {r} : at'[q] = at[q] /\ hat'[q] = hat[q] /\ run'[q] = run[q]
  BY DEF Framed
<1>2. ASSUME NEW q \in Runs, NEW g \in BOOLEAN, q # r \/ g # h PROVE Pc(q, g)' = Pc(q, g)
  BY <1>1, <1>2 DEF Framed, Pc
<1>3. \A q \in Runs \ {r} : Resp(q)' <=> Resp(q)
  BY <1>1 DEF Resp, WillSwitchBack, NeedsSwitchBack, NoPair, NoLine, Line, Restoring
<1>4. \A q \in Runs \ {r}, k \in Fields, g \in BOOLEAN : MayType(k, q, g)' <=> MayType(k, q, g)
  BY <1>1 DEF MayType
<1> QED BY <1>2, <1>3, <1>4

LEMMA StepsControl ==
  ASSUME SwitchOK, NEW r \in Runs, NEW h \in BOOLEAN, Steps(r, h)
  PROVE  Stages' /\ OneHolder'
<1>1. Framed(r, h) /\ \A q \in Runs, g \in BOOLEAN : q # r \/ g # h => Pc(q, g)' = Pc(q, g)
  BY StepsThreads DEF Steps
<1>2. Stages'
  <2>1. ASSUME NEW q \in Runs \ {r} PROVE Stage(q)'
    <3>1. /\ at'[q] = at[q] /\ hat'[q] = hat[q] /\ run'[q] = run[q] /\ (Owns(q) => Owns(q)')
          /\ Stage(q)
      BY <1>1 DEF Framed, SwitchOK, Stages
    <3> QED BY <3>1 DEF Stage, NoPair, Own, NoLine, Line, Sw, Restoring
  <2> QED BY <2>1 DEF Stages, Steps, NoPair, Own
<1>3. OneHolder'
  <2> SUFFICES ASSUME NEW p \in Runs, NEW q \in Runs, NEW g \in BOOLEAN, NEW i \in BOOLEAN,
                      Pc(p, g)' \in Locked, Pc(q, i)' \in Locked
               PROVE  p = q /\ g = i
    BY DEF OneHolder, Locked
  <2>1. \A x \in Runs, y \in BOOLEAN : Pc(x, y)' \in Locked /\ (x # r \/ y # h) => Pc(x, y) \in Locked
    BY <1>1
  <2>2. Pc(r, h)' \in Locked => Pc(r, h) \in Locked \/ \A x \in Runs, y \in BOOLEAN : Pc(x, y) \notin Locked
    BY DEF Steps
  <2> QED BY <2>1, <2>2 DEF SwitchOK, OneHolder
<1> QED BY <1>2, <1>3

LEMMA GentleStep ==
  ASSUME TypeOK, SwitchOK, NEW r \in Runs, NEW h \in BOOLEAN, Steps(r, h), Gentle
  PROVE  SwitchOK'
<1>1. Stages' /\ OneHolder' /\ Framed(r, h)
  BY StepsControl DEF Steps
<1>2. /\ \A q \in Runs, g \in BOOLEAN : q # r \/ g # h => Pc(q, g)' = Pc(q, g)
      /\ \A q \in Runs \ {r} : Resp(q)' <=> Resp(q)
      /\ \A q \in Runs \ {r}, k \in Fields, g \in BOOLEAN : MayType(k, q, g)' <=> MayType(k, q, g)
  BY <1>1, StepsThreads
<1>3. /\ \A l \in Queue' : l.k \in Fields => l \in Queue
      /\ \A f \in Fields : Clean(f) => Clean(f)'
      /\ \A f \in Fields, q \in Runs, g \in BOOLEAN : Sealed(f, q, g) => Sealed(f, q, g)'
  BY GentleLines
<1>4. Once'
  <2> SUFFICES ASSUME NEW q \in Runs, NEW g \in BOOLEAN, NEW k \in Fields, MayType(k, q, g)'
               PROVE  OwnLine(k, q, g) \notin Queue'
    BY DEF Once, OwnLine, Fields
  <2>1. MayType(k, q, g)
    BY <1>2 DEF Steps
  <2>2. OwnLine(k, q, g).k \in Fields
    BY DEF OwnLine
  <2> QED BY <1>3, <2>1, <2>2 DEF SwitchOK, Once
<1>5. Seals'
  <2> SUFFICES ASSUME NEW q \in Runs, NEW g \in BOOLEAN PROVE Seal(q, g)'
    BY DEF Seals
  <2>1. CASE q = r /\ g = h
    BY <2>1 DEF Steps
  <2>2. CASE q # r \/ g # h
    <3>1. Pc(q, g)' = Pc(q, g) /\ Seal(q, g) /\ {"model", "effort"} \subseteq Fields
      BY <1>2, <2>2 DEF SwitchOK, Seals, Fields
    <3> QED BY <1>3, <3>1 DEF Seal
  <2> QED BY <2>1, <2>2
<1>6. Answerable'
  <2>1. CASE Debt'
    BY <2>1 DEF Answerable, Debt
  <2>2. CASE AllClean'
    BY <2>2 DEF Answerable, AllClean, Clean, Fields
  <2>3. CASE disk'.owed = disk.owed /\ told' = told /\ (Resp(r) => Resp(r)')
    <3>1. (Debt' <=> Debt) /\ \A q \in Runs : Resp(q) => Resp(q)'
      BY <1>2, <2>3 DEF Debt, NoPair
    <3>2. ASSUME NEW l \in Queue', NEW f \in Fields, Cheaper(l, f)
          PROVE  Debt' \/ (l.r \in Runs /\ Resp(l.r)')
      <4>1. l \in Queue
        BY <1>3, <3>2 DEF Cheaper
      <4> QED BY <3>1, <3>2, <4>1 DEF SwitchOK, Answerable
    <3>3. ASSUME NEW f \in Fields, sess'.pair[f] = "cheap" PROVE Debt' \/ \E q \in Runs : Resp(q)'
      BY <3>1, <3>3 DEF SwitchOK, Answerable, Gentle
    <3> QED BY <3>2, <3>3 DEF Answerable, Cheaper, Fields
  <2> QED BY <2>1, <2>2, <2>3 DEF Steps, Accounted
<1> QED BY <1>1, <1>4, <1>5, <1>6 DEF SwitchOK

(* A line that sets a field is typed behind what is there.                  *)
Typing(l) ==
  /\ sess'.pair = sess.pair /\ sess'.term = Append(sess.term, l)
  /\ \A q \in Runs : seen'[q] \in {seen[q], {}}

LEMMA OwnTyped ==
  ASSUME TypeOK, SwitchOK, NEW r \in Runs, NEW h \in BOOLEAN, Steps(r, h),
         NEW f \in Fields, OwnLine(f, r, h) \in Lines, Typing(OwnLine(f, r, h)), ~MayType(f, r, h)'
  PROVE  SwitchOK'
<1> DEFINE line == OwnLine(f, r, h)
<1>1. Stages' /\ OneHolder' /\ Framed(r, h)
  BY StepsControl DEF Steps
<1>2. /\ \A q \in Runs, g \in BOOLEAN : q # r \/ g # h => Pc(q, g)' = Pc(q, g)
      /\ \A q \in Runs \ {r} : Resp(q)' <=> Resp(q)
      /\ \A q \in Runs \ {r}, k \in Fields, g \in BOOLEAN : MayType(k, q, g)' <=> MayType(k, q, g)
  BY <1>1, StepsThreads
<1>3. /\ \A k : ~Cheaper(line, k)
      /\ \A o : o \in Queue' <=> o \in Queue \/ o = line
      /\ \A k, o : Order(k, o) => Order(k, o)'
  <2>1. \A k : ~Cheaper(line, k)
    BY DEF Cheaper, OwnLine
  <2> QED BY <2>1, LineAppended DEF Typing
<1>4. \A k \in Fields : Clean(k) => Clean(k)'
  BY <1>3 DEF Clean, Typing
<1>5. \A k \in Fields, q \in Runs, g \in BOOLEAN : Sealed(k, q, g) => Sealed(k, q, g)'
  <2> SUFFICES ASSUME NEW k \in Fields, NEW q \in Runs, NEW g \in BOOLEAN, Sealed(k, q, g)
               PROVE  Sealed(k, q, g)'
    OBVIOUS
  <2>1. Order(k, OwnLine(k, q, g)) => Order(k, OwnLine(k, q, g))'
    BY <1>3 DEF OwnLine
  <2>2. OwnLine(k, q, g) \in seen'[q] => OwnLine(k, q, g) \in seen[q]
    BY DEF Typing
  <2> QED BY <1>4, <2>1, <2>2 DEF Sealed, OwnLine
<1>6. Once'
  <2> SUFFICES ASSUME NEW q \in Runs, NEW g \in BOOLEAN, NEW k \in Fields, MayType(k, q, g)'
               PROVE  OwnLine(k, q, g) \notin Queue'
    BY DEF Once, OwnLine, Fields
  <2>1. MayType(k, q, g)
    BY <1>2 DEF Steps
  <2>2. OwnLine(k, q, g) = line => k = f /\ q = r /\ g = h
    BY DEF OwnLine
  <2>3. OwnLine(k, q, g) # line
    BY <2>2
  <2> QED BY <1>3, <2>1, <2>3 DEF SwitchOK, Once
<1>7. Seals'
  <2> SUFFICES ASSUME NEW q \in Runs, NEW g \in BOOLEAN PROVE Seal(q, g)'
    BY DEF Seals
  <2>1. CASE q = r /\ g = h
    BY <2>1 DEF Steps
  <2>2. CASE q # r \/ g # h
    <3>1. Pc(q, g)' = Pc(q, g) /\ Seal(q, g) /\ {"model", "effort"} \subseteq Fields
      BY <1>2, <2>2 DEF SwitchOK, Seals, Fields
    <3> QED BY <1>4, <1>5, <3>1 DEF Seal
  <2> QED BY <2>1, <2>2
<1>8. Answerable'
  <2>1. CASE Debt'
    BY <2>1 DEF Answerable, Debt
  <2>2. CASE AllClean'
    BY <2>2 DEF Answerable, AllClean, Clean, Fields
  <2>3. CASE disk'.owed = disk.owed /\ told' = told /\ (Resp(r) => Resp(r)')
    <3>1. (Debt' <=> Debt) /\ \A q \in Runs : Resp(q) => Resp(q)'
      BY <1>2, <2>3 DEF Debt, NoPair
    <3>2. ASSUME NEW l \in Queue', NEW k \in Fields, Cheaper(l, k)
          PROVE  Debt' \/ (l.r \in Runs /\ Resp(l.r)')
      <4>1. l \in Queue
        BY <1>3, <3>2
      <4> QED BY <3>1, <3>2, <4>1 DEF SwitchOK, Answerable
    <3>3. ASSUME NEW k \in Fields, sess'.pair[k] = "cheap" PROVE Debt' \/ \E q \in Runs : Resp(q)'
      BY <3>1, <3>3 DEF SwitchOK, Answerable, Typing
    <3> QED BY <3>2, <3>3 DEF Answerable, Cheaper, Fields
  <2> QED BY <2>1, <2>2, <2>3 DEF Steps, Accounted
<1> QED BY <1>1, <1>6, <1>7, <1>8 DEF SwitchOK

(* One that sets it to the compaction model is typed under the lock of the  *)
(* settings, by a run that will switch back.                                *)
LEMMA CheapTyped ==
  ASSUME TypeOK, SwitchOK, NEW r \in Runs, NEW h \in BOOLEAN, Steps(r, h),
         NEW f \in Fields, CheapLine(f, r, h) \in Lines, Typing(CheapLine(f, r, h)),
         Pc(r, h)' \in Locked, Resp(r)'
  PROVE  SwitchOK'
<1> DEFINE line == CheapLine(f, r, h)
<1>1. Stages' /\ OneHolder' /\ Framed(r, h)
  BY StepsControl DEF Steps
<1>2. /\ \A q \in Runs, g \in BOOLEAN : q # r \/ g # h => Pc(q, g)' = Pc(q, g)
      /\ \A q \in Runs \ {r} : Resp(q)' <=> Resp(q)
      /\ \A q \in Runs \ {r}, k \in Fields, g \in BOOLEAN : MayType(k, q, g)' <=> MayType(k, q, g)
  BY <1>1, StepsThreads
<1>3. \A o : o \in Queue' <=> o \in Queue \/ o = line
  BY LineAppended DEF Typing
<1>4. Once'
  <2> SUFFICES ASSUME NEW q \in Runs, NEW g \in BOOLEAN, NEW k \in Fields, MayType(k, q, g)'
               PROVE  OwnLine(k, q, g) \notin Queue'
    BY DEF Once, OwnLine, Fields
  <2>1. MayType(k, q, g)
    BY <1>2 DEF Steps
  <2>2. OwnLine(k, q, g) # line
    BY DEF OwnLine, CheapLine
  <2> QED BY <1>3, <2>1, <2>2 DEF SwitchOK, Once
<1>5. Seals'
  <2> SUFFICES ASSUME NEW q \in Runs, NEW g \in BOOLEAN PROVE Seal(q, g)'
    BY DEF Seals
  <2>1. CASE q = r /\ g = h
    BY <2>1 DEF Steps
  <2>2. CASE q # r \/ g # h
    <3>1. Pc(q, g)' \notin Locked
      BY <1>1, <2>2 DEF OneHolder
    <3> QED BY <3>1 DEF Seal, Locked
  <2> QED BY <2>1, <2>2
<1>6. Answerable'
  <2>1. CASE Debt'
    BY <2>1 DEF Answerable, Debt
  <2>2. CASE AllClean'
    BY <2>2 DEF Answerable, AllClean, Clean, Fields
  <2>3. CASE disk'.owed = disk.owed /\ told' = told /\ (Resp(r) => Resp(r)')
    <3>1. (Debt' <=> Debt) /\ \A q \in Runs : Resp(q) => Resp(q)'
      BY <1>2, <2>3 DEF Debt, NoPair
    <3>2. ASSUME NEW l \in Queue', NEW k \in Fields, Cheaper(l, k)
          PROVE  Debt' \/ (l.r \in Runs /\ Resp(l.r)')
      <4>1. CASE l \in Queue
        BY <3>1, <3>2, <4>1 DEF SwitchOK, Answerable
      <4>2. CASE l = line
        BY <4>2 DEF CheapLine
      <4> QED BY <1>3, <3>2, <4>1, <4>2
    <3>3. ASSUME NEW k \in Fields, sess'.pair[k] = "cheap" PROVE Debt' \/ \E q \in Runs : Resp(q)'
      BY <3>1, <3>3 DEF SwitchOK, Answerable, Typing
    <3> QED BY <3>2, <3>3 DEF Answerable, Cheaper, Fields
  <2> QED BY <2>1, <2>2, <2>3 DEF Steps, Accounted
<1> QED BY <1>1, <1>4, <1>5, <1>6 DEF SwitchOK

(* Where no thread of a run moves.                                          *)
Still == UNCHANGED <<flow, at, hat, run, told>> /\ disk'.owed = disk.owed

LEMMA StillControl ==
  ASSUME SwitchOK, Still
  PROVE  /\ Stages' /\ OneHolder' /\ (Debt' <=> Debt)
         /\ \A r \in Runs : Resp(r)' <=> Resp(r)
         /\ \A r \in Runs, h \in BOOLEAN : Pc(r, h)' = Pc(r, h)
         /\ \A r \in Runs, h \in BOOLEAN, k \in Fields : MayType(k, r, h)' <=> MayType(k, r, h)
<1>1. \A r \in Runs, h \in BOOLEAN : Pc(r, h)' = Pc(r, h)
  BY DEF Still, Pc
<1>2. Stages'
  BY DEF SwitchOK, Stages, Stage, Still, NoPair, Own, NoLine, Line, Sw, Restoring, Owns
<1>3. OneHolder'
  BY <1>1 DEF SwitchOK, OneHolder, Locked
<1>4. \A r \in Runs : Resp(r)' <=> Resp(r)
  BY DEF Still, Resp, WillSwitchBack, NeedsSwitchBack, NoPair, NoLine, Line, Restoring
<1>5. \A r \in Runs, h \in BOOLEAN, k \in Fields : MayType(k, r, h)' <=> MayType(k, r, h)
  BY DEF Still, MayType
<1> QED BY <1>1, <1>2, <1>3, <1>4, <1>5 DEF Still, Debt, NoPair

LEMMA StillStep ==
  ASSUME SwitchOK, Still,
         \A l \in Queue' : l.k \in Fields => l \in Queue,
         \A f \in Fields : Clean(f) => Clean(f)',
         \A f \in Fields, r \in Runs, h \in BOOLEAN : Sealed(f, r, h) => Sealed(f, r, h)',
         \A f \in Fields : sess'.pair[f] = "cheap" =>
           sess.pair[f] = "cheap" \/ \E l \in Queue : Cheaper(l, f)
  PROVE  SwitchOK'
<1>1. /\ Stages' /\ OneHolder' /\ (Debt' <=> Debt)
      /\ \A r \in Runs : Resp(r)' <=> Resp(r)
      /\ \A r \in Runs, h \in BOOLEAN : Pc(r, h)' = Pc(r, h)
      /\ \A r \in Runs, h \in BOOLEAN, k \in Fields : MayType(k, r, h)' <=> MayType(k, r, h)
  BY StillControl
<1>2. Once'
  <2> SUFFICES ASSUME NEW r \in Runs, NEW h \in BOOLEAN, NEW k \in Fields, MayType(k, r, h)'
               PROVE  OwnLine(k, r, h) \notin Queue'
    BY DEF Once, OwnLine, Fields
  <2>1. OwnLine(k, r, h).k \in Fields /\ MayType(k, r, h)
    BY <1>1 DEF OwnLine
  <2> QED BY <2>1 DEF SwitchOK, Once
<1>3. Seals'
  <2> SUFFICES ASSUME NEW r \in Runs, NEW h \in BOOLEAN PROVE Seal(r, h)'
    BY DEF Seals
  <2>1. Pc(r, h)' = Pc(r, h) /\ Seal(r, h) /\ {"model", "effort"} \subseteq Fields
    BY <1>1 DEF SwitchOK, Seals, Fields
  <2> QED BY <2>1 DEF Seal
<1>4. Answerable'
  <2>1. ASSUME NEW l \in Queue', NEW f \in Fields, Cheaper(l, f)
        PROVE  Debt' \/ (l.r \in Runs /\ Resp(l.r)')
    <3>1. l \in Queue
      BY <2>1 DEF Cheaper
    <3> QED BY <1>1, <2>1, <3>1 DEF SwitchOK, Answerable
  <2>2. ASSUME NEW f \in Fields, sess'.pair[f] = "cheap" PROVE Debt' \/ \E r \in Runs : Resp(r)'
    BY <1>1, <2>2 DEF SwitchOK, Answerable
  <2> QED BY <2>1, <2>2 DEF Answerable, Cheaper, Fields
<1> QED BY <1>1, <1>2, <1>3, <1>4 DEF SwitchOK

(* The session: what it takes from the terminal has the effect that those   *)
(* who await it expect, or none.                                            *)
LEMMA LinesLost ==
  ASSUME TypeOK, SwitchOK, Still, sess'.pair = sess.pair,
         sess'.term = sess.term \/ (sess.term # <<>> /\ sess'.term = Tail(sess.term)),
         \A r \in Runs : seen'[r] \subseteq seen[r] \cup Events
  PROVE  SwitchOK'
<1>1. Queue' \subseteq Queue /\ \A f, o : Order(f, o) => Order(f, o)'
  <2>1. CASE sess'.term = sess.term
    BY <2>1 DEF Queue, Spots, Order, Cheaper
  <2>2. CASE sess.term # <<>> /\ sess'.term = Tail(sess.term)
    BY <2>2, LineTaken
  <2> QED BY <2>1, <2>2
<1>2. \A f \in Fields : Clean(f) => Clean(f)'
  BY <1>1 DEF Clean, Cheaper
<1>3. ASSUME NEW f \in Fields, NEW r \in Runs, NEW h \in BOOLEAN, Sealed(f, r, h) PROVE Sealed(f, r, h)'
  <2>1. Order(f, OwnLine(f, r, h)) => Order(f, OwnLine(f, r, h))'
    BY <1>1 DEF OwnLine
  <2>2. OwnLine(f, r, h) \notin Events
    BY DEF OwnLine, Events, Event, Line, Fields
  <2>3. OwnLine(f, r, h) \in seen'[r] => OwnLine(f, r, h) \in seen[r]
    BY <2>2
  <2> QED BY <1>2, <1>3, <2>1, <2>3 DEF Sealed, OwnLine
<1> QED BY <1>1, <1>2, <1>3, StillStep

LEMMA LineRun ==
  ASSUME TypeOK, SessionInv, SwitchOK, Still, sess.term # <<>>, sess'.term = Tail(sess.term),
         NEW line, line = Head(sess.term), line.k \in Fields,
         sess'.pair = [sess.pair EXCEPT ![line.k] = line.v],
         \A r \in Runs : seen'[r] \subseteq seen[r] \cup {line}
  PROVE  SwitchOK'
<1>1. /\ line \in Queue /\ Queue' \subseteq Queue
      /\ \A f, o : Order(f, o) => Order(f, o)'
      /\ \A f : Order(f, line) => \A l \in Queue' : ~Cheaper(l, f)
  BY LineTaken
<1>2. line.v \in {"own", "cheap"}
  BY HeadTailProperties DEF SessionInv, Terminal, SessionType, Typed, Fields
<1>3. \A f \in Fields : sess'.pair[f] = IF f = line.k THEN line.v ELSE sess.pair[f]
  BY DEF TypeOK, Pairs, Fields
<1>4. \A f \in Fields : Clean(f) => Clean(f)'
  <2> SUFFICES ASSUME NEW f \in Fields, Clean(f) PROVE Clean(f)'
    OBVIOUS
  <2>1. sess'.pair[f] = "own"
    BY <1>1, <1>2, <1>3 DEF Clean, Cheaper
  <2> QED BY <1>1, <2>1 DEF Clean, Cheaper
<1>5. ASSUME NEW f \in Fields, NEW r \in Runs, NEW h \in BOOLEAN, Sealed(f, r, h) PROVE Sealed(f, r, h)'
  <2>1. Order(f, OwnLine(f, r, h)) => Order(f, OwnLine(f, r, h))'
    BY <1>1 DEF OwnLine
  <2>2. CASE OwnLine(f, r, h) = line
    <3>1. line.k = f /\ line.v = "own"
      BY <2>2 DEF OwnLine
    <3>2. Order(f, line)
      BY <1>5, <2>2 DEF Sealed
    <3>3. Clean(f)'
      BY <1>1, <1>3, <3>1, <3>2 DEF Clean, Cheaper
    <3> QED BY <1>5, <2>1, <3>3 DEF Sealed, OwnLine
  <2>3. CASE OwnLine(f, r, h) # line
    <3>1. OwnLine(f, r, h) \in seen'[r] => OwnLine(f, r, h) \in seen[r]
      BY <2>3
    <3> QED BY <1>4, <1>5, <2>1, <3>1 DEF Sealed, OwnLine
  <2> QED BY <2>2, <2>3
<1>6. \A f \in Fields : sess'.pair[f] = "cheap" => sess.pair[f] = "cheap" \/ \E l \in Queue : Cheaper(l, f)
  BY <1>1, <1>3 DEF Cheaper
<1> QED BY <1>1, <1>4, <1>5, <1>6, StillStep

LEMMA SessionSwitch ==
  ASSUME TypeOK, SessionInv, SwitchOK, Session, Alive'
  PROVE  SwitchOK'
<1>0. Still /\ ~PaneDies
  BY DEF Session, TakeLine, StartTurn, EndTurn, FinishCompact, PaneDies, SessionOnly, Still, Alive, TypeOK
<1>1. CASE TakeLine
  <2> DEFINE line == Head(sess.term)
             next == [sess EXCEPT !.term = Tail(@)]
  <2>1. /\ sess.term # <<>> /\ next.term = Tail(sess.term) /\ next.pair = sess.pair
        /\ DOMAIN next = {"st", "term", "pair", "said", "ctx", "marker"}
    BY <1>1 DEF TakeLine, TypeOK
  <2>2. \/ /\ line.k \in {"model", "effort"}
           /\ sess' = [next EXCEPT !.pair[line.k] = line.v] /\ Logs({line})
        \/ /\ \/ sess' = next
              \/ \E st \in {"compacting", "modal", "turn"} : sess' = [next EXCEPT !.st = st]
              \/ sess' = [next EXCEPT !.st = "turn", !.marker = @ \cup {line.r}]
           /\ Logs({}) \/ Logs({Event("refused")})
    BY <1>1 DEF TakeLine
  <2> HIDE DEF line, next
  <2>3. CASE /\ line.k \in {"model", "effort"}
             /\ sess' = [next EXCEPT !.pair[line.k] = line.v] /\ Logs({line})
    <3>1. sess'.term = Tail(sess.term) /\ sess'.pair = [sess.pair EXCEPT ![line.k] = line.v]
      BY <2>1, <2>3
    <3>2. \A r \in Runs : seen'[r] \subseteq seen[r] \cup {line}
      BY <2>3 DEF Logs
    <3> QED BY <1>0, <2>1, <2>3, <3>1, <3>2, LineRun DEF line, Fields
  <2>4. CASE /\ \/ sess' = next
                \/ \E st \in {"compacting", "modal", "turn"} : sess' = [next EXCEPT !.st = st]
                \/ sess' = [next EXCEPT !.st = "turn", !.marker = @ \cup {line.r}]
             /\ Logs({}) \/ Logs({Event("refused")})
    <3>1. sess'.term = Tail(sess.term) /\ sess'.pair = sess.pair
      BY <2>1, <2>4
    <3>2. \A r \in Runs : seen'[r] \subseteq seen[r] \cup Events
      BY <2>4 DEF Logs, Events
    <3> QED BY <1>0, <2>1, <3>1, <3>2, LinesLost
  <2> QED BY <2>2, <2>3, <2>4
<1>2. CASE StartTurn \/ EndTurn
  <2>1. sess'.pair = sess.pair /\ sess'.term = sess.term /\ seen' = seen
    BY <1>2 DEF StartTurn, EndTurn, TypeOK
  <2> QED BY <1>0, <2>1, LinesLost
<1>3. CASE FinishCompact
  <2>1. sess'.pair = sess.pair /\ sess'.term = sess.term
    BY <1>3 DEF FinishCompact, TypeOK
  <2>2. \A r \in Runs : seen'[r] \subseteq seen[r] \cup Events
    BY <1>3 DEF FinishCompact, Logs, Events
  <2> QED BY <1>0, <2>1, <2>2, LinesLost
<1> QED BY <1>0, <1>1, <1>2, <1>3 DEF Session

(* A run is claimed while no thread that switches back loses its topic.     *)
LEMMA ClaimSwitch ==
  ASSUME TypeOK, PlanInv, FlowInv, SwitchOK, NEW via \in {"owner", "auto"}, Claim(via), hat' = hat,
         resumed' = resumed, UNCHANGED <<sess, seen, disk, told>>
  PROVE  SwitchOK'
<1>1. /\ flow' = runs' /\ runs' \in Runs /\ flow = NoRun /\ runs' > runs
      /\ at'[runs'] = "start" /\ run'[runs'] = NewRun(via)
      /\ \A q \in Runs \ {runs'} :
           /\ at'[q] = at[q]
           /\ IF Finished(q) THEN run'[q] = NewRun("owner") ELSE run'[q] = run[q]
  BY ClaimStep, RunNumbers DEF TypeOK
<1>2. at[runs'] = "no" /\ hat[runs'] = "no"
  BY <1>1 DEF FlowInv
<1>3. \A v : /\ NewRun(v).plan = NoPair /\ NewRun(v).now = NoPair /\ NewRun(v).sent = NoLine
             /\ NewRun(v).mode = "fresh"
  BY DEF NewRun
<1>4. \A q \in Runs : at[q] = "no" => run[q].plan = NoPair /\ run[q].mode = "fresh"
  BY DEF PlanInv, PlanOf, Early
<1>5. \A q \in Runs : ~Owns(q)
  BY <1>1, RunNumbers DEF Owns
<1>6. \A q \in Runs : Stage(q)'
  <2> SUFFICES ASSUME NEW q \in Runs PROVE Stage(q)'
    OBVIOUS
  <2>1. CASE q = runs'
    BY <1>1, <1>2, <1>3, <2>1 DEF Stage, Owns, Sw, Restoring, NoPair, NoLine, Line
  <2>2. CASE q # runs' /\ Finished(q)
    BY <1>1, <1>3, <2>2 DEF Stage, Finished, Sw, Restoring, NoPair, NoLine, Line
  <2>3. CASE q # runs' /\ ~Finished(q)
    BY <1>1, <1>5, <2>3 DEF SwitchOK, Stages, Stage, Sw, Restoring, NoPair, Own, NoLine, Line, Owns
  <2> QED BY <2>1, <2>2, <2>3
<1>7. Stages'
  BY <1>6 DEF SwitchOK, Stages, NoPair, Own
<1>8. \A q \in Runs, g \in BOOLEAN : Pc(q, g)' = Pc(q, g) \/ Pc(q, g)' = "start"
  BY <1>1 DEF Pc
<1>9. OneHolder'
  BY <1>8 DEF SwitchOK, OneHolder, Locked
<1>10. Once'
  <2> SUFFICES ASSUME NEW q \in Runs, NEW g \in BOOLEAN, NEW k \in Fields, MayType(k, q, g)'
               PROVE  OwnLine(k, q, g) \notin Queue'
    BY DEF Once, OwnLine, Fields
  <2>1. MayType(k, q, g)
    <3>1. CASE g = TRUE
      BY <3>1 DEF MayType
    <3>2. CASE g = FALSE /\ q = runs'
      BY <1>2, <1>4, <3>2 DEF MayType
    <3>3. CASE g = FALSE /\ q # runs' /\ Finished(q)
      BY <1>1, <1>4, <3>3 DEF MayType, Finished
    <3>4. CASE g = FALSE /\ q # runs' /\ ~Finished(q)
      BY <1>1, <3>4 DEF MayType
    <3> QED BY <3>1, <3>2, <3>3, <3>4
  <2> QED BY <2>1 DEF SwitchOK, Once, Queue, Spots, OwnLine
<1>11. \A f : (Clean(f)' <=> Clean(f)) /\ \A o : Order(f, o)' <=> Order(f, o)
  BY DEF Clean, Order, Cheaper, Queue, Spots
<1>12. Seals'
  <2> SUFFICES ASSUME NEW q \in Runs, NEW g \in BOOLEAN PROVE Seal(q, g)'
    BY DEF Seals
  <2>1. Seal(q, g) /\ \A f : Sealed(f, q, g) => Sealed(f, q, g)'
    BY <1>11 DEF SwitchOK, Seals, Sealed, OwnLine
  <2> QED BY <1>8, <1>11, <2>1 DEF Seal
<1>13. \A q \in Runs : Resp(q) => Resp(q)'
  <2> SUFFICES ASSUME NEW q \in Runs, Resp(q) PROVE Resp(q)'
    OBVIOUS
  <2>1. q # runs' /\ ~Finished(q)
    BY <1>2, <1>4 DEF Resp, Finished, WillSwitchBack, NeedsSwitchBack, Restoring
  <2> QED BY <1>1, <2>1 DEF Resp, WillSwitchBack, NeedsSwitchBack, NoPair, NoLine, Line, Restoring
<1>14. Answerable'
  BY <1>13 DEF SwitchOK, Answerable, Debt, Queue, Spots, Cheaper, NoPair, Fields
<1> QED BY <1>7, <1>9, <1>10, <1>12, <1>14 DEF SwitchOK

LEMMA OtherSwitch ==
  ASSUME TypeOK, SwitchOK, UNCHANGED <<flow, at, hat, run, told, sess, seen>>, disk'.owed = disk.owed
  PROVE  SwitchOK'
<1>1. Still
  BY DEF Still
<1> QED BY <1>1, LinesLost

(* The worker.  What it does to its run, and what it then answers for.      *)
SameDebt == disk'.owed = disk.owed /\ told' = told
KeptRun(r) ==
  /\ run'[r].plan = run[r].plan /\ run'[r].now = run[r].now /\ run'[r].sent = run[r].sent
  /\ run'[r].mode = run[r].mode /\ run'[r].end = run[r].end

LEMMA WorkFrame ==
  ASSUME NEW r \in Runs, WorkStep(r), hat' = hat
  PROVE  Framed(r, FALSE)
<1>1. \A q \in Runs \ {r} : Owns(q) => Owns(q)'
  BY RunNumbers DEF WorkStep, Owns
<1> QED BY <1>1 DEF WorkStep, Framed, Pc

LEMMA OwnDebt == ASSUME SwitchOK, SameDebt PROVE disk'.owed \in {NoPair, Own}
  BY DEF SwitchOK, Stages, SameDebt

LEMMA EndSwitch ==
  ASSUME TypeOK, SwitchOK, NEW r \in Runs, WorkStep(r), hat' = hat, Ends(r), at[r] \notin {"no", "over"},
         disk'.owed \in {NoPair, Own},
         Debt' \/ AllClean' \/ (SameDebt /\ (hat[r] = "no" => ~WillSwitchBack(r)))
  PROVE  Steps(r, FALSE)
<1>1. Framed(r, FALSE) /\ at'[r] = "over"
  BY WorkFrame DEF Ends, Go, TypeOK
<1>2. CASE hat[r] \in {"no", "over"}
  <2>1. run'[r] = NewRun("owner")
    BY <1>2 DEF Ends, Forgets, TypeOK
  <2>2. Stage(r)'
    BY <1>1, <1>2, <2>1 DEF Stage, NewRun, Sw, Restoring, NoPair, NoLine, Line
  <2>3. Resp(r) => hat[r] = "no" /\ WillSwitchBack(r)
    BY <1>2 DEF Resp, Restoring
  <2>4. \A k \in Fields, g \in BOOLEAN : MayType(k, r, g)' => MayType(k, r, g)
    BY <1>1 DEF MayType
  <2> QED BY <1>1, <2>2, <2>3, <2>4 DEF Steps, Pc, Locked, Seal, Accounted, SameDebt
<1>3. CASE hat[r] \notin {"no", "over"}
  <2>1. run' = run
    BY <1>3 DEF Ends
  <2>2. Stage(r)'
    BY <1>1, <2>1 DEF SwitchOK, Stages, Stage, Sw, Restoring, NoPair, Own, NoLine, Line
  <2>3. Resp(r) => Resp(r)'
    BY <1>1, <1>3, <2>1 DEF Resp, NeedsSwitchBack, NoPair, NoLine, Line, Restoring
  <2>4. \A k \in Fields, g \in BOOLEAN : MayType(k, r, g)' => MayType(k, r, g)
    BY <1>1 DEF MayType
  <2> QED BY <1>1, <2>2, <2>3, <2>4 DEF Steps, Pc, Locked, Seal, Accounted, SameDebt
<1> QED BY <1>2, <1>3

LEMMA MoveSwitch ==
  ASSUME TypeOK, SwitchOK, NEW r \in Runs, WorkStep(r), hat' = hat, SameDebt, KeptRun(r),
         NEW place \in Places \ (Sw \cup Restoring \cup {"no", "over"}), Go(r, place),
         at[r] \notin Restoring \cup {"no", "over", "escape"},
         place = "resume" => run[r].mode # "switched",
         flow' = flow \/ place = "escape"
  PROVE  Steps(r, FALSE)
<1>1. Framed(r, FALSE) /\ at'[r] = place /\ disk'.owed \in {NoPair, Own}
  BY WorkFrame, OwnDebt DEF Go, TypeOK
<1>2. Stage(r)'
  BY <1>1 DEF SwitchOK, Stages, Stage, KeptRun, Sw, Restoring, NoPair, Own, NoLine, Line, Owns
<1>3. Resp(r) => Resp(r)'
  BY <1>1 DEF Resp, WillSwitchBack, NeedsSwitchBack, KeptRun, NoPair, NoLine, Line, Restoring
<1>4. \A k \in Fields, g \in BOOLEAN : MayType(k, r, g)' => MayType(k, r, g)
  BY <1>1 DEF MayType, KeptRun, Restoring
<1>5. Pc(r, FALSE)' \notin Locked /\ Seal(r, FALSE)'
  BY <1>1 DEF Pc, Locked, Seal, Sw, Restoring
<1> QED BY <1>1, <1>2, <1>3, <1>4, <1>5 DEF Steps, Accounted, SameDebt

(* The switch back begins: from here on the run answers for it.             *)
LEMMA BackSwitch ==
  ASSUME TypeOK, SwitchOK, NEW r \in Runs, WorkStep(r), hat' = hat, SameDebt, flow' = flow,
         run[r].mode = "switched", at[r] \notin {"no", "over", "escape"}, Go(r, "rsmodel"),
         NEW why \in {"unswitched", "giveup", "resume"},
         run' = [run EXCEPT ![r].mode = "settled", ![r].why = why]
  PROVE  Steps(r, FALSE)
<1>1. Framed(r, FALSE) /\ at'[r] = "rsmodel" /\ disk'.owed \in {NoPair, Own}
  BY WorkFrame, OwnDebt DEF Go, TypeOK
<1>2. /\ run'[r].plan = run[r].plan /\ run'[r].now = run[r].now /\ run'[r].sent = run[r].sent
      /\ run'[r].mode = "settled" /\ run'[r].end = run[r].end
  BY SettleRun
<1>3. at[r] \notin Restoring
  BY DEF SwitchOK, Stages, Stage
<1>4. Stage(r)'
  BY <1>1, <1>2 DEF SwitchOK, Stages, Stage, Sw, Restoring, NoPair, Own, NoLine, Line, Owns
<1>5. Resp(r) => Resp(r)'
  BY <1>1, <1>2, <1>3 DEF Resp, WillSwitchBack, NeedsSwitchBack, NoPair, NoLine, Line, Restoring
<1>6. \A k \in Fields, g \in BOOLEAN : MayType(k, r, g)' => MayType(k, r, g)
  BY <1>1, <1>2 DEF MayType
<1>7. Pc(r, FALSE)' \notin Locked /\ Seal(r, FALSE)'
  BY <1>1 DEF Pc, Locked, Seal
<1> QED BY <1>1, <1>4, <1>5, <1>6, <1>7 DEF Steps, Accounted, SameDebt

LEMMA RestoreSwitch ==
  ASSUME TypeOK, SwitchOK, NEW r \in Runs, WorkStep(r), hat' = hat, SameDebt,
         at[r] \notin Restoring \cup {"no", "over", "escape"},
         NEW why \in {"giveup", "resume"}, Restore(r, why)
  PROVE  Steps(r, FALSE)
<1>1. CASE run[r].mode = "switched"
  BY <1>1, BackSwitch DEF Restore
<1>2. CASE run[r].mode # "switched" /\ why = "resume"
  <2>1. Go(r, "resume") /\ flow' = flow /\ KeptRun(r)
    BY <1>2 DEF Restore, KeptRun
  <2>2. "resume" \in Places \ (Sw \cup Restoring \cup {"no", "over"})
    BY PlaceNames DEF Sw, Restoring
  <2> QED BY <1>2, <2>1, <2>2, MoveSwitch
<1>3. CASE run[r].mode # "switched" /\ why # "resume"
  <2>1. Ends(r) /\ disk'.owed \in {NoPair, Own}
    BY <1>3, OwnDebt DEF Restore
  <2>2. ~WillSwitchBack(r)
    BY <1>3 DEF WillSwitchBack, Restoring
  <2> QED BY <2>1, <2>2, EndSwitch
<1> QED BY <1>1, <1>2, <1>3

LEMMA RetrySwitch ==
  ASSUME TypeOK, SwitchOK, NEW r \in Runs, WorkStep(r), hat' = hat, SameDebt, Retry(r),
         at[r] \notin Restoring \cup {"no", "over", "escape"}
  PROVE  Steps(r, FALSE)
<1>1. CASE run[r].tries + 1 < Tries
  <2>1. Keep(r, "tries", run[r].tries + 1) /\ Go(r, "idle?") /\ flow' = flow
    BY <1>1 DEF Retry
  <2>2. "idle?" \in Places \ (Sw \cup Restoring \cup {"no", "over"})
    BY PlaceNames DEF Sw, Restoring, Uncompacted
  <2>3. KeptRun(r)
    BY <2>1 DEF Keep, KeptRun, TypeOK, Run
  <2> QED BY <2>1, <2>2, <2>3, MoveSwitch
<1>2. CASE ~(run[r].tries + 1 < Tries)
  BY <1>2, RestoreSwitch DEF Retry
<1> QED BY <1>1, <1>2

(* A switch back is over: it is paid, recorded, or left to the halt.        *)
LEMMA AfterRestoreSwitch ==
  ASSUME TypeOK, PlanInv, SwitchOK, NEW r \in Runs, WorkStep(r), hat' = hat, at[r] \in Restoring,
         NEW outcome \in {"ok", "failed", "aborted"}, NEW kept, kept = run \/ kept = Noted(r, at[r]),
         AfterRestore(r, outcome, kept), disk'.owed \in {NoPair, Own},
         Debt' \/ AllClean' \/ (SameDebt /\ hat[r] # "no" /\ kept = run)
  PROVE  Steps(r, FALSE)
<1>1. at[r] \notin {"no", "over", "escape"} /\ run[r].mode = "settled" /\ at[r] \in ModelSteps \cup ModelWaits
  BY PlaceNames DEF SwitchOK, Stages, Stage, Restoring
<1>2. ASSUME NEW place \in {"resume", "compact"}, Go(r, place), run' = kept, flow' = flow
      PROVE  Steps(r, FALSE)
  <2>1. Framed(r, FALSE) /\ at'[r] = place
    BY <1>2, WorkFrame DEF Go, TypeOK
  <2>2. run'[r].plan = run[r].plan /\ run'[r].mode = "settled"
    <3>1. run[r].plan \in Pairs /\ run[r].now \in Pairs
      BY <1>1, PlanType
    <3> QED BY <1>1, <1>2, <3>1, NotedRun
  <2>3. Stage(r)'
    BY <1>1, <1>2, <2>1, <2>2 DEF SwitchOK, Stages, Stage, Sw, Restoring, NoPair, Own, NoLine, Line, Owns
  <2>4. \A k \in Fields, g \in BOOLEAN : MayType(k, r, g)' => MayType(k, r, g)
    BY <2>1, <2>2 DEF MayType
  <2>5. Pc(r, FALSE)' \notin Locked /\ Seal(r, FALSE)'
    BY <2>1 DEF Pc, Locked, Seal
  <2>6. SameDebt /\ hat[r] # "no" /\ kept = run => (Resp(r) => Resp(r)')
    BY <1>2, <2>1 DEF Resp, NeedsSwitchBack, NoPair, NoLine, Line, Restoring
  <2> QED BY <2>1, <2>3, <2>4, <2>5, <2>6 DEF Steps, Accounted, SameDebt
<1>3. CASE Ends(r)
  BY <1>1, <1>3, EndSwitch
<1> QED BY <1>2, <1>3 DEF AfterRestore

LEMMA AfterFailureSwitch ==
  ASSUME TypeOK, PlanInv, SwitchOK, NEW r \in Runs, WorkStep(r), hat' = hat,
         at[r] \in ModelSteps \cup ModelWaits, AfterFailure(r)
  PROVE  Steps(r, FALSE)
<1>1. CASE at[r] \in Sw
  <2>1. run[r].mode = "switched" /\ at[r] \notin {"no", "over", "escape"}
    BY <1>1 DEF SwitchOK, Stages, Stage, Sw
  <2> QED BY <1>1, <2>1, BackSwitch DEF AfterFailure, Sw, SameDebt
<1>2. CASE at[r] \notin Sw
  <2>1. at[r] \in Restoring
    BY <1>2 DEF Sw, Restoring, ModelSteps, ModelWaits
  <2>2. Settled(r, "failed") /\ AfterRestore(r, "failed", run)
    BY <1>2 DEF AfterFailure, Sw
  <2>3. disk'.owed = run[r].plan /\ told' = TRUE
    BY <2>2 DEF Settled, Owes, TypeOK
  <2>4. disk'.owed \in {NoPair, Own} /\ Debt'
    BY <2>3 DEF SwitchOK, Stages, Stage, Debt
  <2> QED BY <2>1, <2>2, <2>4, AfterRestoreSwitch
<1> QED BY <1>1, <1>2

LEMMA AfterAbortSwitch ==
  ASSUME TypeOK, PlanInv, SwitchOK, NEW r \in Runs, WorkStep(r), hat' = hat,
         at[r] \in ModelSteps \cup ModelWaits, ~Owns(r), AfterAbort(r)
  PROVE  Steps(r, FALSE)
<1>1. hat[r] # "no" /\ SameDebt /\ disk'.owed \in {NoPair, Own} /\ at[r] \notin {"no", "over", "escape"}
  BY OwnDebt DEF SwitchOK, Stages, Stage, AfterAbort, SameDebt, ModelSteps, ModelWaits
<1>2. CASE at[r] \in Restoring
  <2>1. AfterRestore(r, "aborted", run)
    BY <1>2 DEF AfterAbort, Restoring
  <2> QED BY <1>1, <1>2, <2>1, AfterRestoreSwitch
<1>3. CASE at[r] \notin Restoring
  <2>1. Ends(r)
    BY <1>3 DEF AfterAbort, Restoring
  <2> QED BY <1>1, <2>1, EndSwitch
<1> QED BY <1>2, <1>3

LEMMA StaysGentle == ASSUME sess' = sess, seen' = seen PROVE Gentle
  BY DEF Gentle

LEMMA SubmitsGentle ==
  ASSUME TypeOK, NEW l \in Lines, l.k \notin Fields, Submits(l), \A q \in Runs : seen'[q] \in {seen[q], {}}
  PROVE  Gentle
<1>1. sess'.term = Append(sess.term, l) /\ sess'.pair = sess.pair
  BY DEF Submits, TypeOK
<1> QED BY <1>1 DEF Gentle

LEMMA EscapedTerm ==
  ASSUME TypeOK
  PROVE  Escaped.pair = sess.pair /\ (Escaped.term = sess.term \/ Escaped.term = <<>>)
  BY DEF Escaped, TypeOK

LEMMA EscapedGentle == ASSUME TypeOK, sess' = Escaped, seen' = seen PROVE Gentle
<1>1. sess'.term = <<>> => Queue' = {}
  BY EmptySeq DEF Queue, Spots
<1> QED BY <1>1, EscapedTerm DEF Gentle

LEMMA ClearedGentle == ASSUME TypeOK, NEW r \in Runs, sess' \in Cleared(r), seen' = seen PROVE Gentle
  BY DEF Cleared, TypeOK, Gentle

LEMMA PlainLines ==
  \A r \in Runs, k \in {"write", "compact", "resume", "notice"} :
    Line(k, "none", r) \in Lines /\ Line(k, "none", r).k \notin Fields
  BY DEF Line, Lines, Fields

LEMMA OutOfWay ==
  ASSUME TypeOK, PlanInv, SwitchOK, NEW r \in Runs
  PROVE  /\ at[r] \in Early => ~WillSwitchBack(r)
         /\ at[r] = "resume" => ~WillSwitchBack(r)
         /\ at[r] \notin {"no", "over", "escape"} /\ ~Owns(r) => hat[r] # "no"
  BY DEF SwitchOK, Stages, Stage, PlanInv, PlanOf, Early, WillSwitchBack, NeedsSwitchBack, Restoring

(* The run whose start notice raised has no plan to answer for.             *)
LEMMA OrphanSwitch ==
  ASSUME TypeOK, PlanInv, SwitchOK, NEW r \in Runs, WorkStep(r), hat' = hat, SameDebt, at[r] = "start",
         Go(r, "over"), Forgets(r)
  PROVE  Steps(r, FALSE)
<1>1. Framed(r, FALSE) /\ at'[r] = "over" /\ disk'.owed \in {NoPair, Own}
  BY WorkFrame, OwnDebt DEF Go, TypeOK
<1>2. run'[r] = NewRun("owner")
  BY DEF Forgets, TypeOK
<1>3. /\ run[r].plan = NoPair /\ ~WillSwitchBack(r)
      /\ hat[r] \notin {"wait", "final"} \cup Restoring \cup Sw
  BY OutOfWay DEF PlanInv, PlanOf, SwitchOK, Stages, Stage, Early, NoPair
<1>4. ~Resp(r)
  BY <1>3 DEF Resp, NeedsSwitchBack
<1>5. Stage(r)'
  BY <1>1, <1>2, <1>3 DEF Stage, NewRun, Sw, Restoring, NoPair, NoLine, Line
<1>6. \A k \in Fields, g \in BOOLEAN : MayType(k, r, g)' => MayType(k, r, g)
  BY <1>1 DEF MayType
<1> QED BY <1>1, <1>4, <1>5, <1>6 DEF Steps, Pc, Locked, Seal, Accounted, SameDebt

(* A worker that types no model line.                                       *)
LEMMA WriteUpSwitch ==
  ASSUME TypeOK, PlanInv, SwitchOK, NEW r \in Runs, WorkStep(r), hat' = hat,
         OpenRecord(r) \/ Settle(r) \/ Write(r) \/ AwaitWritten(r) \/ Dismiss(r) \/ RecordIssue(r)
  PROVE  Steps(r, FALSE) /\ Gentle
<1>1. /\ SameDebt /\ disk'.owed \in {NoPair, Own}
  <2>1. SameDebt
    BY DEF SameDebt, OpenRecord, Settle, Write, AwaitWritten, Dismiss, RecordIssue, TypeOK
  <2> QED BY <2>1, OwnDebt
<1>2. Gentle
  <2>1. CASE Write(r)
    <3>1. (sess' = sess \/ Submits(Line("write", "none", r))) /\ seen' = seen
      BY <2>1 DEF Write, Withholds
    <3> QED BY <3>1, StaysGentle, SubmitsGentle, PlainLines
  <2>2. CASE Dismiss(r)
    BY <2>2, EscapedGentle DEF Dismiss
  <2>3. CASE OpenRecord(r) \/ Settle(r) \/ AwaitWritten(r) \/ RecordIssue(r)
    BY <2>3, StaysGentle DEF OpenRecord, Settle, AwaitWritten, RecordIssue
  <2> QED BY <2>1, <2>2, <2>3
<1>3. at[r] \in {"start", "settle", "write", "done?", "escape", "issue"}
  BY DEF OpenRecord, Settle, Write, AwaitWritten, Dismiss, RecordIssue
<1>4. CASE Ends(r)
  <2>1. ~WillSwitchBack(r) /\ at[r] \notin {"no", "over"}
    BY <1>3, OutOfWay DEF Early
  <2>2. Steps(r, FALSE)
    BY <1>1, <1>4, <2>1, EndSwitch
  <2> QED BY <1>2, <2>2
<1>6. CASE at[r] = "start" /\ Go(r, "over") /\ Forgets(r)
  BY <1>1, <1>2, <1>6, OrphanSwitch
<1>5. CASE ~Ends(r) /\ ~(at[r] = "start" /\ Go(r, "over") /\ Forgets(r))
  <2>1. PICK place \in {"settle", "plan", "write", "done?", "issue", "escape"} :
          Go(r, place) /\ (flow' = flow \/ place = "escape")
    BY <1>5 DEF OpenRecord, Settle, Write, AwaitWritten, Dismiss, RecordIssue
  <2>2. run' = run /\ at[r] # "escape"
    BY <1>5 DEF OpenRecord, Settle, Write, AwaitWritten, Dismiss, RecordIssue
  <2>3. place \in Places \ (Sw \cup Restoring \cup {"no", "over"}) /\ place # "resume"
    BY PlaceNames DEF Sw, Restoring, Uncompacted
  <2>4. KeptRun(r) /\ at[r] \notin Restoring \cup {"no", "over", "escape"}
    BY <1>3, <2>2 DEF KeptRun, Restoring
  <2>5. Steps(r, FALSE)
    BY <1>1, <2>1, <2>3, <2>4, MoveSwitch
  <2> QED BY <1>2, <2>5
<1> QED BY <1>4, <1>5, <1>6

LEMMA MakePlanSwitch ==
  ASSUME TypeOK, PlanInv, SwitchOK, NEW r \in Runs, WorkStep(r), hat' = hat, MakePlan(r),
         lapse = "none", lapse' = "none"
  PROVE  Steps(r, FALSE) /\ Gentle
<1>1. PICK pair \in {NoPair, Own} : run' = [run EXCEPT ![r].plan = pair, ![r].now = pair]
  <2> DEFINE p == IF setup.switch THEN PlannedPair ELSE NoPair
  <2>1. /\ run' = [run EXCEPT ![r].plan = p, ![r].now = p]
        /\ lapse' = IF p \in {Own, NoPair} THEN lapse ELSE Lapses("stale")
    BY DEF MakePlan
  <2> HIDE DEF p
  <2>2. p \in {NoPair, Own}
    BY <2>1 DEF Lapses
  <2> QED BY <2>1, <2>2
<1>2. /\ run'[r].plan = pair /\ run'[r].now = pair /\ run'[r].sent = run[r].sent
      /\ run'[r].mode = run[r].mode /\ run'[r].end = run[r].end
  <2> DEFINE m == [run[r] EXCEPT !.plan = pair]
             n == [m EXCEPT !.now = pair]
  <2>1. run \in [Runs -> Run] /\ run[r] \in Run /\ run' = [run EXCEPT ![r] = n]
    BY <1>1 DEF TypeOK
  <2>2. pair \in Pairs \cup {NoPair}
    BY Pairing
  <2>3. m \in Run /\ m.plan = pair /\ m.sent = run[r].sent /\ m.mode = run[r].mode /\ m.end = run[r].end
    BY <2>1, <2>2 DEF Run
  <2> HIDE DEF m
  <2>4. /\ n \in Run /\ n.plan = pair /\ n.now = pair /\ n.sent = run[r].sent /\ n.mode = run[r].mode
        /\ n.end = run[r].end
    BY <2>2, <2>3 DEF Run
  <2> HIDE DEF n
  <2> QED BY <2>1, <2>4
<1>3. at[r] = "plan" /\ at'[r] = "idle?" /\ flow' = flow /\ SameDebt /\ Framed(r, FALSE)
  BY PlaceNames, WorkFrame DEF MakePlan, Go, TypeOK, SameDebt
<1>4. run[r].mode = "fresh" /\ run[r].plan = NoPair /\ hat[r] \notin {"wait", "final"} \cup Restoring
  BY <1>3 DEF PlanInv, PlanOf, SwitchOK, Stages, Stage, Early, TypeOK, Run
<1>5. Stage(r)'
  BY <1>2, <1>3, <1>4 DEF SwitchOK, Stages, Stage, Sw, Restoring, NoPair, Own, NoLine, Line, Owns
<1>6. ~Resp(r)
  BY <1>3, <1>4 DEF Resp, WillSwitchBack, NeedsSwitchBack, Restoring
<1>7. \A k \in Fields, g \in BOOLEAN : MayType(k, r, g)' => MayType(k, r, g)
  BY <1>2, <1>3 DEF MayType
<1>8. Pc(r, FALSE)' \notin Locked /\ Seal(r, FALSE)'
  BY <1>3 DEF Pc, Locked, Seal
<1>9. Gentle
  BY StaysGentle DEF MakePlan
<1> QED BY <1>3, <1>5, <1>6, <1>7, <1>8, <1>9, OwnDebt DEF Steps, Accounted, SameDebt

LEMMA AwaitIdleSwitch ==
  ASSUME TypeOK, PlanInv, FlowInv, SwitchOK, NEW r \in Runs, WorkStep(r), hat' = hat, AwaitIdle(r), Alive
  PROVE  Steps(r, FALSE) /\ Gentle
<1>1. SameDebt /\ disk'.owed \in {NoPair, Own} /\ at[r] = "idle?" /\ Gentle
  BY OwnDebt, StaysGentle DEF AwaitIdle, SameDebt
<1>2. CASE ~Owns(r) /\ Ends(r)
  BY <1>1, <1>2, OutOfWay, EndSwitch
<1>3. CASE Retry(r)
  BY <1>1, <1>3, RetrySwitch DEF Restoring
<1>4. CASE flow' = flow /\ Go(r, "compact") /\ run' = run
  <2>1. "compact" \in Places \ (Sw \cup Restoring \cup {"no", "over"}) /\ KeptRun(r)
    BY <1>4, PlaceNames DEF Sw, Restoring, Uncompacted, KeptRun
  <2> QED BY <1>1, <1>4, <2>1, MoveSwitch DEF Restoring
<1>5. CASE /\ Owns(r) /\ flow' = flow /\ run[r].plan # NoPair /\ run[r].mode = "fresh"
           /\ Keep(r, "mode", "switched")
           /\ Go(r, IF run[r].now["model"] = "cheap" THEN "sweffort" ELSE "swmodel")
  <2>1. run[r].plan = Own /\ run[r].now = Own /\ run[r].sent = NoLine
    <3>1. hat[r] = "no"
      BY <1>5 DEF FlowInv
    <3> QED BY <1>5, <3>1 DEF SwitchOK, Stages, Stage
  <2>2. Framed(r, FALSE) /\ at'[r] = "swmodel"
    <3>1. run[r].now["model"] # "cheap"
      BY <2>1 DEF Own
    <3>2. Go(r, "swmodel")
      BY <1>5, <3>1
    <3> QED BY <3>2, WorkFrame DEF Go, TypeOK
  <2>3. /\ run'[r].plan = run[r].plan /\ run'[r].now = run[r].now /\ run'[r].sent = run[r].sent
        /\ run'[r].mode = "switched" /\ run'[r].end = run[r].end
    BY <1>5, KeepRun
  <2>4. Stage(r)'
    BY <1>1, <1>5, <2>1, <2>2, <2>3 DEF SwitchOK, Stages, Stage, Sw, Restoring, NoPair, Own, NoLine, Line, Owns
  <2>5. ~NeedsSwitchBack(r)
    BY <2>1 DEF NeedsSwitchBack
  <2>6. Resp(r) => Resp(r)'
    BY <1>1, <2>2, <2>3, <2>5 DEF Resp, WillSwitchBack, NeedsSwitchBack, NoPair, NoLine, Line, Restoring
  <2>7. \A k \in Fields, g \in BOOLEAN : MayType(k, r, g)' => MayType(k, r, g)
    BY <1>1, <1>5, <2>2, <2>3 DEF MayType
  <2>8. Pc(r, FALSE)' \notin Locked /\ Seal(r, FALSE)'
    BY <2>2 DEF Pc, Locked, Seal
  <2> QED BY <1>1, <2>2, <2>4, <2>6, <2>7, <2>8 DEF Steps, Accounted, SameDebt
<1> QED BY <1>2, <1>3, <1>4, <1>5 DEF AwaitIdle

LEMMA CompactSwitch ==
  ASSUME TypeOK, PlanInv, SwitchOK, NEW r \in Runs, WorkStep(r), hat' = hat,
         InjectCompact(r) \/ ClearModal(r) \/ AwaitStart(r) \/ AwaitCompacted(r) \/ Close(r) \/ Resume(r),
         Alive, lapse = "none", lapse' = "none"
  PROVE  Steps(r, FALSE) /\ Gentle
<1>1. SameDebt
  BY DEF SameDebt, InjectCompact, ClearModal, AwaitStart, AwaitCompacted, Close, CloseRecord, Resume, TypeOK
<1>2. disk'.owed \in {NoPair, Own}
  BY <1>1, OwnDebt
<1>3. Gentle
  <2>1. CASE InjectCompact(r)
    <3>1. /\ sess' = sess \/ Submits(Line("compact", "none", r))
          /\ seen' = seen \/ seen' = [seen EXCEPT ![r] = {}]
          /\ sess' # sess => Submits(Line("compact", "none", r))
      BY <2>1 DEF InjectCompact, Withholds
    <3>2. \A q \in Runs : seen'[q] \in {seen[q], {}}
      BY <3>1 DEF TypeOK
    <3>3. CASE sess' = sess
      BY <3>2, <3>3 DEF Gentle
    <3> QED BY <3>1, <3>2, <3>3, SubmitsGentle, PlainLines
  <2>2. CASE ClearModal(r) \/ AwaitStart(r)
    BY <2>2, StaysGentle, ClearedGentle DEF ClearModal, AwaitStart
  <2>3. CASE Resume(r)
    <3>1. (sess' = sess \/ Submits(Line("resume", "none", r))) /\ seen' = seen
      BY <2>3 DEF Resume, Withholds
    <3> QED BY <3>1, StaysGentle, SubmitsGentle, PlainLines
  <2>4. CASE AwaitCompacted(r) \/ Close(r)
    BY <2>4, StaysGentle DEF AwaitCompacted, Close
  <2> QED BY <2>1, <2>2, <2>3, <2>4
<1>4. at[r] \in {"compact", "modal", "start?", "compacted?", "close", "resume"}
  BY DEF InjectCompact, ClearModal, AwaitStart, AwaitCompacted, Close, Resume
<1>5. at[r] \notin Restoring \cup {"no", "over", "escape"}
  BY <1>4 DEF Restoring
<1>6. CASE ~Owns(r) /\ Ends(r)
  BY <1>1, <1>2, <1>3, <1>5, <1>6, OutOfWay, EndSwitch
<1>7. CASE run[r].mode # "switched" /\ Ends(r)
  <2>1. ~WillSwitchBack(r)
    BY <1>5, <1>7 DEF WillSwitchBack, Restoring
  <2> QED BY <1>1, <1>2, <1>3, <1>5, <1>7, <2>1, EndSwitch
<1>8. CASE Restore(r, "giveup") \/ Restore(r, "resume")
  BY <1>1, <1>3, <1>5, <1>8, RestoreSwitch
<1>9. CASE Retry(r)
  BY <1>1, <1>3, <1>5, <1>9, RetrySwitch
<1>10. CASE \E place \in {"modal", "start?", "compacted?", "close"} : Go(r, place) /\ run' = run /\ flow' = flow
  <2>1. PICK place \in {"modal", "start?", "compacted?", "close"} : Go(r, place) /\ run' = run /\ flow' = flow
    BY <1>10
  <2>2. place \in Places \ (Sw \cup Restoring \cup {"no", "over"}) /\ KeptRun(r) /\ place # "resume"
    BY <2>1, PlaceNames DEF Sw, Restoring, Uncompacted, KeptRun
  <2> QED BY <1>1, <1>3, <1>5, <2>1, <2>2, MoveSwitch
<1>11. CASE InjectCompact(r)
  <2>1. run[r].mode = "switched" /\ lapse' = Lapses("withheld") => FALSE
    BY DEF Lapses
  <2> QED BY <1>6, <1>7, <1>10, <1>11, <2>1 DEF InjectCompact
<1>12. CASE ClearModal(r)
  BY <1>10, <1>12 DEF ClearModal
<1>13. CASE AwaitStart(r)
  BY <1>6, <1>8, <1>9, <1>10, <1>13 DEF AwaitStart
<1>14. CASE AwaitCompacted(r)
  BY <1>6, <1>8, <1>10, <1>14 DEF AwaitCompacted
<1>15. CASE Close(r)
  BY <1>8, <1>15 DEF Close
<1>16. CASE Resume(r)
  <2>1. Ends(r) /\ run[r].mode # "switched"
    BY <1>16 DEF Resume, SwitchOK, Stages, Stage
  <2> QED BY <1>7, <2>1
<1> QED BY <1>11, <1>12, <1>13, <1>14, <1>15, <1>16

LEMMA RaiseSwitch ==
  ASSUME TypeOK, PlanInv, SwitchOK, NEW r \in Runs, WorkStep(r), hat' = hat, WorkerRaises(r),
         lapse = "none", lapse' = "none"
  PROVE  Steps(r, FALSE) /\ Gentle
<1>1. SameDebt /\ Gentle /\ Restore(r, "giveup")
  BY StaysGentle DEF WorkerRaises, SameDebt
<1>2. at[r] \notin Restoring
  BY DEF WorkerRaises, Lapses, Restoring
<1>3. at[r] \notin {"no", "over", "escape"}
  BY DEF WorkerRaises, Uncompacted, ModelSteps, ModelWaits
<1> QED BY <1>1, <1>2, <1>3, RestoreSwitch

(* The lines as LineOf names them.                                          *)
LEMMA LineNames ==
  ASSUME TypeOK, NEW r \in Runs, NEW h \in BOOLEAN, run[r].plan = Own
  PROVE  /\ LineOf("swmodel", r, h) = CheapLine("model", r, h)
         /\ LineOf("swmodel?", r, h) = CheapLine("model", r, h)
         /\ LineOf("sweffort", r, h) = CheapLine("effort", r, h)
         /\ LineOf("sweffort?", r, h) = CheapLine("effort", r, h)
         /\ LineOf("rsmodel", r, h) = OwnLine("model", r, h)
         /\ LineOf("rsmodel?", r, h) = OwnLine("model", r, h)
         /\ LineOf("rseffort", r, h) = OwnLine("effort", r, h)
         /\ LineOf("rseffort?", r, h) = OwnLine("effort", r, h)
         /\ \A f \in Fields : CheapLine(f, r, h) \in Lines /\ OwnLine(f, r, h) \in Lines
<1>1. Cheap["model"] = "cheap" /\ Cheap["effort"] = "cheap" /\ Own["model"] = "own" /\ Own["effort"] = "own"
  BY DEF Cheap, Own
<1>2. \A f \in Fields : CheapLine(f, r, h) \in Lines /\ OwnLine(f, r, h) \in Lines
  BY DEF CheapLine, OwnLine, Lines, Fields
<1> QED BY <1>1, <1>2 DEF LineOf, CheapLine, OwnLine

LEMMA OwnPlan ==
  ASSUME TypeOK, PlanInv, SwitchOK, NEW r \in Runs,
         at[r] \in ModelSteps \cup ModelWaits \/ hat[r] \in {"wait"} \cup Restoring
  PROVE  run[r].plan = Own /\ run[r].plan # NoPair
<1>1. run[r].plan # NoPair
  BY DEF PlanInv, PlanOf
<1> QED BY <1>1 DEF SwitchOK, Stages, Stage

LEMMA SealTyped ==
  ASSUME TypeOK, SwitchOK, NEW r \in Runs, NEW h \in BOOLEAN, NEW f \in Fields,
         OwnLine(f, r, h) \in Lines, Typing(OwnLine(f, r, h)), MayType(f, r, h), seen'[r] = {}
  PROVE  Sealed(f, r, h)' /\ (Clean("model") => Clean("model")')
<1> DEFINE line == OwnLine(f, r, h)
<1>1. \A k : ~Cheaper(line, k)
  BY DEF Cheaper, OwnLine
<1>2. line \notin Queue
  BY DEF SwitchOK, Once
<1>3. Order(f, line)' /\ \A o : o \in Queue' <=> o \in Queue \/ o = line
  BY <1>1, <1>2, LineAppended DEF Typing
<1>4. Order(f, OwnLine(f, r, h))'
  BY <1>3 DEF OwnLine, Order, Spots, Cheaper
<1>5. Clean("model") => Clean("model")'
  BY <1>1, <1>3 DEF Clean, Typing
<1> QED BY <1>4, <1>5 DEF Sealed, OwnLine

LEMMA TypeLineTypes ==
  ASSUME TypeOK, NEW r \in Runs, NEW place, NEW h \in BOOLEAN, TypeLine(r, place, h)
  PROVE  Typing(LineOf(place, r, h)) /\ seen'[r] = {} /\ \A q \in Runs : seen'[q] \in {seen[q], {}}
<1>1. /\ seen' = [seen EXCEPT ![r] = {}]
      /\ sess' = [sess EXCEPT !.term = Append(@, LineOf(place, r, h))]
  BY DEF TypeLine, Submits
<1>2. sess'.term = Append(sess.term, LineOf(place, r, h)) /\ sess'.pair = sess.pair
  BY <1>1 DEF TypeOK
<1> QED BY <1>1, <1>2 DEF TypeOK, Typing

LEMMA NobodyHolds ==
  ASSUME TypeOK, SwitchOK, Switching = {}, Backing = {}
  PROVE  \A q \in Runs, g \in BOOLEAN : Pc(q, g) \notin Locked
<1> SUFFICES ASSUME NEW q \in Runs, NEW g \in BOOLEAN, Pc(q, g) \in Locked PROVE FALSE
  OBVIOUS
<1>1. CASE g = TRUE
  <2>1. hat[q] \in Locked /\ hat[q] \notin Sw
    BY <1>1 DEF Pc, SwitchOK, Stages, Stage
  <2>2. q \in Backing
    BY <2>1 DEF Backing, Locked, Sw
  <2> QED BY <2>2
<1>2. CASE g = FALSE
  <2>1. q \in Switching
    BY <1>2 DEF Pc, Switching, Locked
  <2> QED BY <2>1
<1> QED BY <1>1, <1>2

(* A line that a worker types.                                              *)
LEMMA WorkerLine ==
  ASSUME TypeOK, PlanInv, FlowInv, SwitchOK, NEW r \in Runs, WorkStep(r), hat' = hat, SameDebt, flow' = flow,
         at[r] \in ModelSteps, SettingsFree(at[r]), Owns(r), TypeLine(r, at[r], FALSE), Go(r, Waiting(at[r]))
  PROVE  SwitchOK'
<1> DEFINE line == LineOf(at[r], r, FALSE)
<1>1. run[r].plan = Own /\ run[r].plan # NoPair
  BY OwnPlan
<1>2. Framed(r, FALSE) /\ at'[r] = Waiting(at[r]) /\ disk'.owed \in {NoPair, Own} /\ hat[r] = "no"
  BY WorkFrame, OwnDebt DEF Go, TypeOK, FlowInv
<1>3. Typing(line) /\ seen'[r] = {} /\ Keep(r, "sent", line) /\ line \in Lines /\ line.k \in {"model", "effort"}
  BY <1>1, Pairing, TypeLineTypes, LineType DEF TypeLine
<1>4. /\ run'[r].plan = Own /\ run'[r].now = run[r].now /\ run'[r].sent = line
      /\ run'[r].mode = run[r].mode /\ run'[r].end = run[r].end
  BY <1>1, <1>3, KeepRun
<1> HIDE DEF line
<1>5. line # NoLine
  BY <1>3 DEF NoLine, Line
<1>6. /\ at[r] = "swmodel" => at'[r] = "swmodel?"
      /\ at[r] = "sweffort" => at'[r] = "sweffort?"
      /\ at[r] = "rsmodel" => at'[r] = "rsmodel?"
      /\ at[r] = "rseffort" => at'[r] = "rseffort?"
      /\ at[r] \in {"swmodel", "sweffort", "rsmodel", "rseffort"}
  BY <1>2 DEF Waiting, ModelSteps
<1>7. /\ at[r] \in Sw => run[r].mode = "switched"
      /\ at[r] \in Restoring => run[r].mode = "settled"
  BY DEF SwitchOK, Stages, Stage
<1>8. Stage(r)'
  BY <1>1, <1>2, <1>4, <1>6, <1>7 DEF SwitchOK, Stages, Stage, Sw, Restoring, NoPair, Own, NoLine, Line, Owns
<1>9. Resp(r)'
  <2>1. run'[r].plan # NoPair /\ run'[r].sent # NoLine
    BY <1>1, <1>4, <1>5
  <2>2. run'[r].mode = "switched" \/ at'[r] \in Restoring
    BY <1>4, <1>6, <1>7 DEF Sw, Restoring
  <2> QED BY <1>2, <1>6, <2>1, <2>2 DEF Resp, WillSwitchBack, NeedsSwitchBack, NoPair, NoLine, Line, Restoring
<1>10. \A k \in Fields, g \in BOOLEAN : MayType(k, r, g)' => MayType(k, r, g)
  BY <1>2, <1>4, <1>6, <1>7 DEF MayType, Sw, Restoring
<1>11. Pc(r, FALSE) \in Locked \/ \A q \in Runs, g \in BOOLEAN : Pc(q, g) \notin Locked
  <2>1. CASE at[r] \in {"sweffort", "rseffort"}
    BY <2>1 DEF Pc, Locked
  <2>2. CASE at[r] \notin {"sweffort", "rseffort"}
    BY <2>2, NobodyHolds DEF SettingsFree
  <2> QED BY <2>1, <2>2
<1>12. CASE at[r] \in {"swmodel", "sweffort"}
  <2>1. PICK f \in Fields : line = CheapLine(f, r, FALSE) /\ CheapLine(f, r, FALSE) \in Lines
    BY <1>1, <1>12, LineNames DEF line, Fields
  <2>2. Pc(r, FALSE)' \in Locked /\ Seal(r, FALSE)'
    BY <1>6, <1>12 DEF Pc, Locked, Seal
  <2>3. Steps(r, FALSE)
    BY <1>2, <1>8, <1>9, <1>10, <1>11, <2>2 DEF Steps, Accounted, SameDebt
  <2> QED BY <1>3, <1>9, <2>1, <2>2, <2>3, CheapTyped
<1>13. CASE at[r] = "rsmodel"
  <2>1. line = OwnLine("model", r, FALSE) /\ OwnLine("model", r, FALSE) \in Lines /\ "model" \in Fields
    BY <1>1, <1>13, LineNames DEF line, Fields
  <2>2. MayType("model", r, FALSE)
    BY <1>13 DEF MayType
  <2>3. Sealed("model", r, FALSE)'
    BY <1>3, <2>1, <2>2, SealTyped
  <2>4. Seal(r, FALSE)'
    BY <1>6, <1>13, <2>3 DEF Seal, Pc
  <2>5. Steps(r, FALSE)
    BY <1>2, <1>8, <1>9, <1>10, <1>11, <2>4 DEF Steps, Accounted, SameDebt
  <2>6. ~MayType("model", r, FALSE)'
    BY <1>4, <1>6, <1>7, <1>13 DEF MayType, Restoring
  <2> QED BY <1>3, <2>1, <2>5, <2>6, OwnTyped
<1>14. CASE at[r] = "rseffort"
  <2>1. line = OwnLine("effort", r, FALSE) /\ OwnLine("effort", r, FALSE) \in Lines /\ "effort" \in Fields
    BY <1>1, <1>14, LineNames DEF line, Fields
  <2>2. MayType("effort", r, FALSE)
    BY <1>14 DEF MayType
  <2>3. Clean("model")
    BY <1>14 DEF SwitchOK, Seals, Seal, Pc
  <2>4. Sealed("effort", r, FALSE)' /\ Clean("model")'
    BY <1>3, <2>1, <2>2, <2>3, SealTyped
  <2>5. Seal(r, FALSE)'
    BY <1>6, <1>14, <2>4 DEF Seal, Pc
  <2>6. Steps(r, FALSE)
    BY <1>2, <1>8, <1>9, <1>10, <1>11, <2>5 DEF Steps, Accounted, SameDebt
  <2>7. ~MayType("effort", r, FALSE)'
    BY <1>4, <1>6, <1>7, <1>14 DEF MayType, Restoring
  <2> QED BY <1>3, <2>1, <2>6, <2>7, OwnTyped
<1> QED BY <1>6, <1>12, <1>13, <1>14

LEMMA WorkerTypesSwitch ==
  ASSUME TypeOK, PlanInv, FlowInv, SwitchOK, NEW r \in Runs, WorkStep(r), hat' = hat, WorkerTypes(r)
  PROVE  SwitchOK'
<1>1. at[r] \in ModelSteps
  BY DEF WorkerTypes
<1>2. CASE WorkerMay(r) /\ TypeLine(r, at[r], FALSE) /\ Go(r, Waiting(at[r])) /\ UNCHANGED <<flow, disk, told>>
  BY <1>1, <1>2, WorkerLine DEF WorkerTypes, WorkerMay, SameDebt
<1>3. CASE WorkerMay(r) /\ Withholds /\ AfterFailure(r) /\ UNCHANGED seen
  BY <1>1, <1>3, AfterFailureSwitch, StaysGentle, GentleStep DEF Withholds
<1>4. CASE ~WorkerMay(r) /\ AfterAbort(r) /\ UNCHANGED <<sess, seen, bounds>>
  BY <1>1, <1>4, AfterAbortSwitch, StaysGentle, GentleStep DEF WorkerMay
<1> QED BY <1>2, <1>3, <1>4 DEF WorkerTypes

(* An answer it was waiting for: the field is what the line says.           *)
LEMMA WorkerAnswer ==
  ASSUME TypeOK, PlanInv, FlowInv, SwitchOK, NEW r \in Runs, WorkStep(r), hat' = hat, sess' = sess,
         at[r] \in ModelWaits, Owns(r), LineOf(at[r], r, FALSE) \in seen[r],
         IF at[r] = "rseffort?"
           THEN Settled(r, "ok") /\ AfterRestore(r, "ok", Noted(r, at[r]))
           ELSE /\ run' = Noted(r, at[r]) /\ UNCHANGED <<flow, disk, told>>
                /\ Go(r, CASE at[r] = "swmodel?" -> "sweffort" [] at[r] = "sweffort?" -> "compact"
                           [] OTHER -> "rseffort")
  PROVE  Steps(r, FALSE)
<1>1. run[r].plan = Own /\ run[r].plan # NoPair /\ run[r].plan \in Pairs /\ run[r].now \in Pairs
  BY OwnPlan, PlanType
<1>2. at[r] \in {"swmodel?", "sweffort?", "rsmodel?", "rseffort?"} /\ hat[r] = "no"
  BY DEF ModelWaits, FlowInv
<1>3. CASE at[r] = "rseffort?"
  <2>1. OwnLine("effort", r, FALSE) \in seen[r]
    BY <1>1, <1>3, LineNames
  <2>2. Clean("model") /\ Sealed("effort", r, FALSE)
    BY <1>3 DEF SwitchOK, Seals, Seal, Pc
  <2>3. AllClean
    BY <2>1, <2>2 DEF Sealed, AllClean, Fields
  <2>4. AllClean'
    BY <2>3 DEF AllClean, Clean, Queue, Spots, Cheaper, Fields
  <2>5. disk'.owed = NoPair
    BY <1>3 DEF Settled, Owes, TypeOK
  <2> QED BY <1>3, <2>4, <2>5, AfterRestoreSwitch DEF Restoring
<1>4. CASE at[r] # "rseffort?"
  <2>1. /\ run' = Noted(r, at[r]) /\ UNCHANGED <<flow, disk, told>>
        /\ Go(r, CASE at[r] = "swmodel?" -> "sweffort" [] at[r] = "sweffort?" -> "compact"
                   [] OTHER -> "rseffort")
    BY <1>4
  <2>2. /\ run'[r].plan = Own /\ run'[r].sent = NoLine /\ run'[r].mode = run[r].mode
        /\ run'[r].now \in Pairs /\ run'[r].now[LineOf(at[r], r, FALSE).k] = LineOf(at[r], r, FALSE).v
    BY <1>1, <2>1, NotedRun
  <2>3. /\ at[r] = "swmodel?" => at'[r] = "sweffort"
        /\ at[r] = "sweffort?" => at'[r] = "compact"
        /\ at[r] = "rsmodel?" => at'[r] = "rseffort"
        /\ at[r] \in {"swmodel?", "sweffort?", "rsmodel?"}
    BY <1>2, <1>4, <2>1 DEF Go, TypeOK
  <2>4. Framed(r, FALSE) /\ SameDebt /\ disk'.owed \in {NoPair, Own}
    BY <2>1, WorkFrame, OwnDebt DEF SameDebt
  <2>5. /\ at[r] \in Sw => run[r].mode = "switched"
        /\ at[r] \in Restoring => run[r].mode = "settled"
    BY DEF SwitchOK, Stages, Stage
  <2>6. Stage(r)'
    BY <1>1, <1>2, <2>1, <2>2, <2>3, <2>5
       DEF SwitchOK, Stages, Stage, Sw, Restoring, NoPair, Own, NoLine, Line, Owns
  <2>7. Resp(r)'
    <3>1. CASE at[r] = "rsmodel?"
      BY <1>2, <2>3, <3>1 DEF Resp, WillSwitchBack
    <3>2. CASE at[r] \in {"swmodel?", "sweffort?"}
      <4>1. PICK f \in Fields : LineOf(at[r], r, FALSE) = CheapLine(f, r, FALSE)
        BY <1>1, <3>2, LineNames DEF Fields
      <4>2. LineOf(at[r], r, FALSE).k = f /\ LineOf(at[r], r, FALSE).v = "cheap"
        <5>1. CheapLine(f, r, FALSE).k = f /\ CheapLine(f, r, FALSE).v = "cheap"
          BY DEF CheapLine
        <5> QED BY <4>1, <5>1
      <4>3. Own[f] = "own"
        BY DEF Own, Fields
      <4>4. run'[r].now[f] = "cheap"
        BY <2>2, <4>2
      <4>5. run'[r].now # run'[r].plan /\ run'[r].plan # NoPair /\ run'[r].mode = "switched"
        BY <1>1, <2>2, <2>5, <3>2, <4>3, <4>4 DEF Sw
      <4> QED BY <1>2, <2>3, <3>2, <4>5
              DEF Resp, WillSwitchBack, NeedsSwitchBack, NoPair, NoLine, Line, Restoring
    <3> QED BY <2>3, <3>1, <3>2
  <2>8. \A k \in Fields, g \in BOOLEAN : MayType(k, r, g)' => MayType(k, r, g)
    BY <1>2, <2>2, <2>3, <2>5 DEF MayType, Sw, Restoring
  <2>9. Seal(r, FALSE)'
    <3>1. CASE at[r] = "rsmodel?"
      <4>1. OwnLine("model", r, FALSE) \in seen[r]
        BY <1>1, <3>1, LineNames
      <4>2. Clean("model")
        BY <3>1, <4>1 DEF SwitchOK, Seals, Seal, Pc, Sealed
      <4>3. Clean("model")'
        BY <4>2 DEF Clean, Queue, Spots, Cheaper
      <4> QED BY <2>3, <3>1, <4>3 DEF Seal, Pc
    <3>2. CASE at[r] # "rsmodel?"
      BY <2>3, <3>2 DEF Seal, Pc
    <3> QED BY <3>1, <3>2
  <2>10. Pc(r, FALSE) \in Locked
    BY <2>3 DEF Pc, Locked
  <2> QED BY <2>4, <2>6, <2>7, <2>8, <2>9, <2>10 DEF Steps, Accounted, SameDebt
<1> QED BY <1>3, <1>4

LEMMA WorkerAwaitsSwitch ==
  ASSUME TypeOK, PlanInv, FlowInv, SwitchOK, NEW r \in Runs, WorkStep(r), hat' = hat, WorkerAwaits(r),
         Alive, lapse = "none", lapse' = "none"
  PROVE  Steps(r, FALSE) /\ Gentle
<1>1. at[r] \in ModelWaits /\ Gentle /\ sess' = sess
  BY StaysGentle DEF WorkerAwaits
<1>2. CASE ~Owns(r) /\ AfterAbort(r)
  BY <1>1, <1>2, AfterAbortSwitch
<1>3. CASE AfterFailure(r)
  BY <1>1, <1>3, AfterFailureSwitch
<1>4. CASE /\ Owns(r) /\ Answered(r, at[r], FALSE)
           /\ IF at[r] = "rseffort?"
                THEN Settled(r, "ok") /\ AfterRestore(r, "ok", Noted(r, at[r]))
                ELSE /\ run' = Noted(r, at[r]) /\ UNCHANGED <<flow, disk, told>>
                     /\ Go(r, CASE at[r] = "swmodel?" -> "sweffort" [] at[r] = "sweffort?" -> "compact"
                                [] OTHER -> "rseffort")
  <2>1. LineOf(at[r], r, FALSE) \in seen[r]
    BY <1>4 DEF Answered, Lapses
  <2> QED BY <1>1, <1>4, <2>1, WorkerAnswer
<1> QED BY <1>2, <1>3, <1>4 DEF WorkerAwaits, WorkerMay

LEMMA WorkerSwitch ==
  ASSUME TypeOK, PlanInv, FlowInv, SwitchOK, NEW r \in Runs, Worker(r) \/ WorkerRaises(r),
         Alive, lapse = "none", lapse' = "none"
  PROVE  SwitchOK'
<1>1. WorkStep(r) /\ hat' = hat
  BY WorkerStep, WorkerFacts
<1>2. CASE WorkerTypes(r)
  BY <1>1, <1>2, WorkerTypesSwitch
<1>3. CASE ~WorkerTypes(r)
  <2>1. Steps(r, FALSE) /\ Gentle
    BY <1>1, <1>3, WriteUpSwitch, MakePlanSwitch, AwaitIdleSwitch, CompactSwitch, RaiseSwitch,
       WorkerAwaitsSwitch DEF Worker
  <2> QED BY <2>1, GentleStep
<1> QED BY <1>2, <1>3

(* The thread that handles a halt.                                          *)
LEMMA HaltFrame == ASSUME NEW r \in Runs, HaltStep(r) PROVE Framed(r, TRUE)
<1>1. \A q \in Runs : Owns(q) => Owns(q)'
  BY DEF HaltStep, Owns
<1> QED BY <1>1 DEF HaltStep, Framed, Pc

LEMMA HaltMove ==
  ASSUME TypeOK, PlanInv, SwitchOK, NEW r \in Runs, Framed(r, TRUE), at' = at,
         NEW place \in {"popped", "wait", "final", "over"} \cup Restoring, Goes(r, place),
         run'[r].plan = run[r].plan, run'[r].mode = run[r].mode,
         place = "final" => run[r].plan # NoPair
  PROVE  Stage(r)' /\ hat'[r] = place
<1>1. hat'[r] = place
  BY HaltNames DEF Goes, TypeOK
<1> QED BY <1>1 DEF SwitchOK, Stages, Stage, Sw, Restoring, NoPair, Own, NoLine, Line

LEMMA HaltSwitch ==
  ASSUME TypeOK, PlanInv, FlowInv, SwitchOK, NEW r \in Runs, Halt(r), lapse = "none", lapse' = "none"
  PROVE  SwitchOK'
<1>1. /\ Owns(r) /\ flow' = NoRun /\ hat[r] = "no" /\ run' = run /\ at' = at /\ SameDebt
      /\ hat' = [hat EXCEPT ![r] = "popped"] /\ Goes(r, "popped")
      /\ ~(at[r] = "rseffort" /\ ~NeedsSwitchBack(r))
  BY DEF Halt, FlowInv, SameDebt, Goes, Lapses
<1>2. Framed(r, TRUE)
  BY <1>1 DEF Framed, Owns, Pc, TypeOK
<1>3. Stage(r)' /\ hat'[r] = "popped"
  BY <1>1, <1>2, HaltMove
<1>4. Resp(r) => Resp(r)'
  BY <1>1, <1>3 DEF Resp, WillSwitchBack, NeedsSwitchBack, NoPair, NoLine, Line, Restoring
<1>5. \A k \in Fields, g \in BOOLEAN : MayType(k, r, g)' => MayType(k, r, g)
  BY <1>1, <1>3 DEF MayType
<1>6. Pc(r, TRUE)' \notin Locked /\ Seal(r, TRUE)'
  BY <1>3 DEF Pc, Locked, Seal
<1>7. Gentle
  BY StaysGentle DEF Halt
<1>8. Steps(r, TRUE)
  BY <1>1, <1>2, <1>3, <1>4, <1>5, <1>6, OwnDebt DEF Steps, Accounted, SameDebt
<1> QED BY <1>7, <1>8, GentleStep

LEMMA HaltTellsSwitch ==
  ASSUME TypeOK, PlanInv, SwitchOK, NEW r \in Runs, HaltStep(r), HaltTells(r)
  PROVE  Steps(r, TRUE) /\ Gentle
<1>1. Framed(r, TRUE) /\ at' = at /\ run' = run /\ SameDebt /\ hat[r] = "popped" /\ seen' = seen
  BY HaltFrame DEF HaltTells, SameDebt
<1>2. Gentle
  <2>1. CASE sess' = Escaped
    BY <1>1, <2>1, EscapedGentle
  <2>2. CASE sess' = [Escaped EXCEPT !.term = Append(@, Line("notice", "none", r))]
    <3> DEFINE l == Line("notice", "none", r)
    <3>1. l \in Lines /\ l.k \notin Fields
      BY PlainLines
    <3> HIDE DEF l
    <3>2. sess'.pair = sess.pair /\ sess'.term = Append(Escaped.term, l)
      <4>1. Escaped = sess \/ Escaped = [sess EXCEPT !.st = "idle", !.term = <<>>]
        BY DEF Escaped
      <4>2. sess' = [Escaped EXCEPT !.term = Append(Escaped.term, l)]
        BY <2>2 DEF l
      <4> QED BY <4>1, <4>2, EscapedTerm DEF TypeOK
    <3>3. CASE Escaped.term = sess.term
      BY <1>1, <3>1, <3>2, <3>3 DEF Gentle
    <3>4. CASE Escaped.term = <<>>
      <4>1. sess'.term = <<l>>
        BY <3>2, <3>4
      <4>2. \A o \in Queue' : o = l
        BY <4>1 DEF Queue, Spots
      <4> QED BY <1>1, <3>1, <3>2, <4>2 DEF Gentle
    <3> QED BY <3>3, <3>4, EscapedTerm
  <2> QED BY <2>1, <2>2 DEF HaltTells
<1>3. PICK place \in {"wait", "over"} : Goes(r, place) /\ (place = "over" => ~NeedsSwitchBack(r))
  BY DEF HaltTells
<1>4. Stage(r)' /\ hat'[r] = place
  BY <1>1, <1>3, HaltMove
<1>5. Resp(r) => Resp(r)'
  BY <1>1, <1>3, <1>4 DEF Resp, Restoring
<1>6. \A k \in Fields, g \in BOOLEAN : MayType(k, r, g)' => MayType(k, r, g)
  BY <1>1, <1>4 DEF MayType
<1>7. Pc(r, TRUE)' \notin Locked /\ Seal(r, TRUE)'
  BY <1>4 DEF Pc, Locked, Seal
<1> QED BY <1>1, <1>2, <1>4, <1>5, <1>6, <1>7, OwnDebt DEF Steps, Accounted, SameDebt

(* It gives up, or its wait runs out: it has yet to decide.                 *)
LEMMA HaltFinal ==
  ASSUME TypeOK, PlanInv, SwitchOK, NEW r \in Runs, HaltStep(r), at' = at,
         hat[r] \in {"wait"} \cup Restoring, Goes(r, "final"),
         NEW end \in {"busy", "stopped", "error", "done"}, Keep(r, "end", end),
         (SameDebt /\ end # "done") \/ (Debt' /\ disk'.owed \in {NoPair, Own})
  PROVE  Steps(r, TRUE)
<1>1. /\ run'[r].plan = run[r].plan /\ run'[r].now = run[r].now /\ run'[r].sent = run[r].sent
      /\ run'[r].mode = run[r].mode /\ run'[r].end = end
  BY KeepRun
<1>2. run[r].plan # NoPair
  BY OwnPlan
<1>3. Stage(r)' /\ hat'[r] = "final" /\ Framed(r, TRUE)
  BY <1>1, <1>2, HaltMove, HaltFrame
<1>4. end # "done" => Resp(r)'
  BY <1>1, <1>3 DEF Resp
<1>5. \A k \in Fields, g \in BOOLEAN : MayType(k, r, g)' => MayType(k, r, g)
  BY <1>1, <1>3 DEF MayType
<1>6. Pc(r, TRUE)' \notin Locked /\ Seal(r, TRUE)'
  BY <1>3 DEF Pc, Locked, Seal
<1> QED BY <1>3, <1>4, <1>5, <1>6, OwnDebt DEF Steps, Accounted, SameDebt

LEMMA FinishSwitch ==
  ASSUME TypeOK, PlanInv, SwitchOK, NEW r \in Runs, HaltStep(r), at' = at,
         hat[r] \in {"wait"} \cup Restoring, NEW outcome \in {"failed", "aborted"}, Finishes(r, outcome)
  PROVE  Steps(r, TRUE)
<1>1. CASE outcome = "failed"
  <2>1. disk'.owed = run[r].plan /\ told' = TRUE /\ Keep(r, "end", "done") /\ Goes(r, "final")
    BY <1>1 DEF Finishes, Settled, Owes, Keep, TypeOK
  <2>2. Debt' /\ disk'.owed \in {NoPair, Own}
    BY <2>1 DEF Debt, SwitchOK, Stages, Stage
  <2> QED BY <2>1, <2>2, HaltFinal
<1>2. CASE outcome = "aborted"
  <2>1. SameDebt /\ Keep(r, "end", "stopped") /\ Goes(r, "final")
    BY <1>2 DEF Finishes, Settled, Keep, SameDebt
  <2>2. "stopped" \in {"busy", "stopped", "error", "done"} /\ "stopped" # "done"
    OBVIOUS
  <2> QED BY <2>1, <2>2, HaltFinal
<1> QED BY <1>1, <1>2

LEMMA HalterWaitsSwitch ==
  ASSUME TypeOK, PlanInv, SwitchOK, NEW r \in Runs, HaltStep(r), HalterWaits(r) \/ HalterRaises(r)
  PROVE  Steps(r, TRUE) /\ Gentle
<1>1. SameDebt /\ at' = at /\ Gentle /\ hat[r] \in {"wait"} \cup Restoring
  BY StaysGentle DEF HalterWaits, HalterRaises, SameDebt, Restoring
<1>2. CASE Goes(r, "final") /\ \E end \in {"busy", "stopped", "error"} : Keep(r, "end", end)
  <2>1. PICK end \in {"busy", "stopped", "error"} : Keep(r, "end", end)
    BY <1>2
  <2>2. end \in {"busy", "stopped", "error", "done"} /\ end # "done"
    OBVIOUS
  <2>3. Steps(r, TRUE)
    BY <1>1, <1>2, <2>1, <2>2, HaltFinal
  <2> QED BY <1>1, <2>3
<1>3. CASE Goes(r, "rsmodel") /\ run' = run /\ hat[r] = "wait"
  <2>1. Stage(r)' /\ hat'[r] = "rsmodel" /\ Framed(r, TRUE)
    BY <1>1, <1>3, HaltMove, HaltFrame DEF Restoring
  <2>2. Resp(r)'
    BY <2>1 DEF Resp, Restoring
  <2>3. \A k \in Fields, g \in BOOLEAN : MayType(k, r, g)' => MayType(k, r, g)
    BY <1>1, <1>3, <2>1 DEF MayType
  <2>4. Pc(r, TRUE)' \notin Locked /\ Seal(r, TRUE)'
    BY <2>1 DEF Pc, Locked, Seal
  <2> QED BY <1>1, <2>1, <2>2, <2>3, <2>4, OwnDebt DEF Steps, Accounted, SameDebt
<1> QED BY <1>1, <1>2, <1>3 DEF HalterWaits, HalterRaises

LEMMA HalterLine ==
  ASSUME TypeOK, PlanInv, SwitchOK, NEW r \in Runs, HaltStep(r), at' = at, SameDebt,
         hat[r] \in {"rsmodel", "rseffort"}, SettingsFree(hat[r]), TypeLine(r, hat[r], TRUE),
         Goes(r, Waiting(hat[r]))
  PROVE  SwitchOK'
<1> DEFINE line == LineOf(hat[r], r, TRUE)
<1>1. run[r].plan = Own /\ run[r].plan # NoPair
  BY OwnPlan DEF Restoring
<1>2. Typing(line) /\ seen'[r] = {} /\ Keep(r, "sent", line) /\ line \in Lines
  BY <1>1, Pairing, TypeLineTypes, LineType DEF TypeLine, ModelSteps
<1>3. run'[r].plan = Own /\ run'[r].mode = run[r].mode
  BY <1>1, <1>2, KeepRun
<1> HIDE DEF line
<1>4. PICK place \in {"rsmodel?", "rseffort?"} :
        /\ Goes(r, place)
        /\ hat[r] = "rsmodel" => place = "rsmodel?"
        /\ hat[r] = "rseffort" => place = "rseffort?"
  BY DEF Waiting
<1>5. Stage(r)' /\ hat'[r] = place /\ Framed(r, TRUE)
  <2>1. Framed(r, TRUE) /\ Goes(r, place) /\ place \in {"popped", "wait", "final", "over"} \cup Restoring
    BY <1>4, HaltFrame DEF Restoring
  <2>2. place # "final" /\ run'[r].plan = run[r].plan /\ run'[r].mode = run[r].mode
    BY <1>1, <1>3
  <2> QED BY <2>1, <2>2, HaltMove
<1>6. Resp(r)'
  BY <1>5 DEF Resp, Restoring
<1>7. \A k \in Fields, g \in BOOLEAN : MayType(k, r, g)' => MayType(k, r, g)
  BY <1>3, <1>4, <1>5 DEF MayType
<1>8. Pc(r, TRUE) \in Locked \/ \A q \in Runs, g \in BOOLEAN : Pc(q, g) \notin Locked
  <2>1. CASE hat[r] = "rseffort"
    BY <2>1 DEF Pc, Locked
  <2>2. CASE hat[r] = "rsmodel"
    BY <2>2, NobodyHolds DEF SettingsFree
  <2> QED BY <2>1, <2>2
<1>9. CASE hat[r] = "rsmodel"
  <2>1. line = OwnLine("model", r, TRUE) /\ OwnLine("model", r, TRUE) \in Lines /\ "model" \in Fields
    BY <1>1, <1>9, LineNames DEF line, Fields
  <2>2. MayType("model", r, TRUE)
    BY <1>9 DEF MayType
  <2>3. Sealed("model", r, TRUE)'
    BY <1>2, <2>1, <2>2, SealTyped
  <2>4. Seal(r, TRUE)'
    <3>1. hat'[r] = "rsmodel?"
      BY <1>4, <1>5, <1>9
    <3> QED BY <2>3, <3>1 DEF Seal, Pc
  <2>5. Steps(r, TRUE)
    BY <1>5, <1>6, <1>7, <1>8, <2>4, OwnDebt DEF Steps, Accounted, SameDebt
  <2>6. ~MayType("model", r, TRUE)'
    BY <1>4, <1>5, <1>9 DEF MayType
  <2> QED BY <1>2, <2>1, <2>5, <2>6, TypeLineTypes, OwnTyped
<1>10. CASE hat[r] = "rseffort"
  <2>1. line = OwnLine("effort", r, TRUE) /\ OwnLine("effort", r, TRUE) \in Lines /\ "effort" \in Fields
    BY <1>1, <1>10, LineNames DEF line, Fields
  <2>2. MayType("effort", r, TRUE) /\ Clean("model")
    BY <1>10 DEF MayType, SwitchOK, Seals, Seal, Pc
  <2>3. Sealed("effort", r, TRUE)' /\ Clean("model")'
    BY <1>2, <2>1, <2>2, SealTyped
  <2>4. Seal(r, TRUE)'
    <3>1. hat'[r] = "rseffort?"
      BY <1>4, <1>5, <1>10
    <3> QED BY <2>3, <3>1 DEF Seal, Pc
  <2>5. Steps(r, TRUE)
    BY <1>5, <1>6, <1>7, <1>8, <2>4, OwnDebt DEF Steps, Accounted, SameDebt
  <2>6. ~MayType("effort", r, TRUE)'
    <3>1. hat'[r] = "rseffort?"
      BY <1>4, <1>5, <1>10
    <3> QED BY <3>1 DEF MayType
  <2> QED BY <1>2, <2>1, <2>5, <2>6, OwnTyped
<1> QED BY <1>9, <1>10

LEMMA HalterTypesSwitch ==
  ASSUME TypeOK, PlanInv, SwitchOK, NEW r \in Runs, HaltStep(r), HalterTypes(r)
  PROVE  SwitchOK'
<1>1. hat[r] \in {"rsmodel", "rseffort"} /\ SettingsFree(hat[r]) /\ at' = at /\ hat[r] \in Restoring
  BY DEF HalterTypes, Restoring
<1>2. CASE TypeLine(r, hat[r], TRUE) /\ Goes(r, Waiting(hat[r])) /\ UNCHANGED <<disk, told>>
  BY <1>1, <1>2, HalterLine DEF SameDebt
<1>3. CASE (Finishes(r, "failed") \/ Finishes(r, "aborted")) /\ sess' = sess /\ seen' = seen
  <2>1. Steps(r, TRUE)
    BY <1>1, <1>3, FinishSwitch
  <2> QED BY <1>3, <2>1, StaysGentle, GentleStep
<1> QED BY <1>2, <1>3 DEF HalterTypes, Withholds

LEMMA HalterAwaitsSwitch ==
  ASSUME TypeOK, PlanInv, SwitchOK, NEW r \in Runs, HaltStep(r), HalterAwaits(r),
         lapse = "none", lapse' = "none"
  PROVE  Steps(r, TRUE) /\ Gentle
<1>1. /\ hat[r] \in {"rsmodel?", "rseffort?"} /\ at' = at /\ hat[r] \in Restoring /\ sess' = sess /\ Gentle
      /\ Framed(r, TRUE)
  BY StaysGentle, HaltFrame DEF HalterAwaits, Restoring
<1>2. run[r].plan = Own /\ run[r].plan # NoPair /\ run[r].plan \in Pairs /\ run[r].now \in Pairs
  BY <1>1, OwnPlan, PlanType
<1>3. CASE Finishes(r, "failed") \/ Finishes(r, "aborted")
  BY <1>1, <1>3, FinishSwitch
<1>4. CASE /\ hat[r] = "rsmodel?" /\ Answered(r, "rsmodel?", TRUE) /\ run' = Noted(r, "rsmodel?")
           /\ Goes(r, "rseffort") /\ UNCHANGED <<disk, told>>
  <2>1. run'[r].plan = run[r].plan /\ run'[r].mode = run[r].mode
    BY <1>2, <1>4, NotedRun DEF ModelWaits
  <2>2. Stage(r)' /\ hat'[r] = "rseffort"
    BY <1>1, <1>4, <2>1, HaltMove DEF Restoring
  <2>3. Resp(r)'
    BY <2>2 DEF Resp, Restoring
  <2>4. \A k \in Fields, g \in BOOLEAN : MayType(k, r, g)' => MayType(k, r, g)
    BY <1>1, <1>4, <2>1, <2>2 DEF MayType
  <2>5. LineOf("rsmodel?", r, TRUE) \in seen[r]
    BY <1>4 DEF Answered, Lapses
  <2>6. Clean("model")
    BY <1>2, <1>4, <2>5, LineNames DEF SwitchOK, Seals, Seal, Pc, Sealed
  <2>7. Clean("model")'
    BY <1>1, <2>6 DEF Clean, Queue, Spots, Cheaper
  <2>8. Seal(r, TRUE)' /\ Pc(r, TRUE) \in Locked
    BY <1>4, <2>2, <2>7 DEF Seal, Pc, Locked
  <2>9. SameDebt
    BY <1>4 DEF SameDebt
  <2> QED BY <1>1, <2>2, <2>3, <2>4, <2>8, <2>9, OwnDebt DEF Steps, Accounted, SameDebt
<1>5. CASE /\ hat[r] = "rseffort?" /\ Answered(r, "rseffort?", TRUE)
           /\ Goes(r, "final") /\ Settled(r, "ok")
           /\ run' = [run EXCEPT ![r].now = run[r].plan, ![r].sent = NoLine, ![r].end = "done"]
  <2>1. run'[r].plan = run[r].plan /\ run'[r].mode = run[r].mode
    <3> DEFINE m == [run[r] EXCEPT !.now = run[r].plan]
               n == [m EXCEPT !.sent = NoLine]
               o == [n EXCEPT !.end = "done"]
    <3>1. run \in [Runs -> Run] /\ run[r] \in Run /\ run' = [run EXCEPT ![r] = o]
      BY <1>5 DEF TypeOK
    <3>2. m.plan = run[r].plan /\ m.mode = run[r].mode /\ DOMAIN m = DOMAIN run[r]
      BY <3>1 DEF Run
    <3> HIDE DEF m
    <3>3. n.plan = run[r].plan /\ n.mode = run[r].mode /\ DOMAIN n = DOMAIN run[r]
      BY <3>1, <3>2 DEF Run
    <3> HIDE DEF n
    <3>4. o.plan = run[r].plan /\ o.mode = run[r].mode
      BY <3>1, <3>3 DEF Run
    <3> HIDE DEF o
    <3> QED BY <3>1, <3>4
  <2>2. Stage(r)' /\ hat'[r] = "final"
    BY <1>1, <1>2, <1>5, <2>1, HaltMove
  <2>3. \A k \in Fields, g \in BOOLEAN : MayType(k, r, g)' => MayType(k, r, g)
    BY <1>1, <2>1, <2>2 DEF MayType
  <2>4. LineOf("rseffort?", r, TRUE) \in seen[r]
    BY <1>5 DEF Answered, Lapses
  <2>5. AllClean
    <3>1. OwnLine("effort", r, TRUE) \in seen[r]
      BY <1>2, <2>4, LineNames
    <3>2. Clean("model") /\ Sealed("effort", r, TRUE)
      BY <1>5 DEF SwitchOK, Seals, Seal, Pc
    <3> QED BY <3>1, <3>2 DEF Sealed, AllClean, Fields
  <2>6. AllClean'
    BY <1>1, <2>5 DEF AllClean, Clean, Queue, Spots, Cheaper, Fields
  <2>7. disk'.owed = NoPair
    BY <1>5 DEF Settled, Owes, TypeOK
  <2>8. Pc(r, TRUE)' \notin Locked /\ Seal(r, TRUE)'
    BY <2>2 DEF Pc, Locked, Seal
  <2> QED BY <1>1, <2>2, <2>3, <2>6, <2>7, <2>8 DEF Steps, Accounted
<1> QED BY <1>1, <1>3, <1>4, <1>5 DEF HalterAwaits

(* It decides last: what was not switched back is owed, and the run is over.*)
LEMMA HalterDecidesSwitch ==
  ASSUME TypeOK, PlanInv, SwitchOK, NEW r \in Runs, HaltStep(r), HalterDecides(r),
         lapse = "none", lapse' = "none"
  PROVE  Steps(r, TRUE) /\ Gentle
<1>1. hat[r] = "final" /\ Goes(r, "over") /\ at' = at /\ seen' = seen /\ Framed(r, TRUE)
  BY HaltFrame DEF HalterDecides
<1>2. Gentle
  <2>1. sess' = sess \/ Submits(Line("notice", "none", r))
    BY DEF HalterDecides, Withholds
  <2> QED BY <1>1, <2>1, StaysGentle, SubmitsGentle, PlainLines
<1>3. run[r].plan # NoPair /\ run[r].plan \in {NoPair, Own}
  BY <1>1 DEF SwitchOK, Stages, Stage
<1>4. hat'[r] = "over"
  BY <1>1, HaltNames DEF Goes, TypeOK
<1>5. Stage(r)' /\ \A k \in Fields, g \in BOOLEAN : MayType(k, r, g)' => MayType(k, r, g)
  <2>1. CASE at[r] = "over"
    <3>1. run'[r] = NewRun("owner")
      BY <2>1 DEF HalterDecides, Forgets, TypeOK
    <3> QED BY <1>1, <1>4, <2>1, <3>1 DEF Stage, MayType, NewRun, Sw, Restoring, NoPair, NoLine, Line
  <2>2. CASE at[r] # "over"
    <3>1. run' = run
      BY <2>2 DEF HalterDecides
    <3>2. Stage(r)'
      BY <1>1, <1>4, <3>1, HaltMove
    <3>3. \A k \in Fields, g \in BOOLEAN : MayType(k, r, g)' => MayType(k, r, g)
      BY <1>1, <1>4, <3>1 DEF MayType
    <3> QED BY <3>2, <3>3
  <2> QED BY <2>1, <2>2
<1>6. Pc(r, TRUE)' \notin Locked /\ Seal(r, TRUE)'
  BY <1>4 DEF Pc, Locked, Seal
<1>7. CASE run[r].end # "done"
  <2>1. Owes(run[r].plan)
    BY <1>7 DEF HalterDecides, Lapses
  <2>2. disk'.owed = run[r].plan
    BY <2>1 DEF Owes, TypeOK
  <2>3. Debt' /\ disk'.owed \in {NoPair, Own}
    BY <1>3, <2>2 DEF Debt, NoPair
  <2> QED BY <1>1, <1>2, <1>5, <1>6, <2>3 DEF Steps, Accounted
<1>8. CASE run[r].end = "done"
  <2>1. SameDebt /\ ~Resp(r)
    BY <1>1, <1>8 DEF HalterDecides, SameDebt, Resp, Restoring
  <2> QED BY <1>1, <1>2, <1>5, <1>6, <2>1, OwnDebt DEF Steps, Accounted, SameDebt
<1> QED BY <1>7, <1>8

LEMMA HalterSwitch ==
  ASSUME TypeOK, PlanInv, SwitchOK, NEW r \in Runs, Halter(r) \/ HalterRaises(r),
         lapse = "none", lapse' = "none"
  PROVE  SwitchOK'
<1>1. HaltStep(r)
  BY HalterStep
<1>2. CASE HalterTypes(r)
  BY <1>1, <1>2, HalterTypesSwitch
<1>3. CASE ~HalterTypes(r)
  <2>1. Steps(r, TRUE) /\ Gentle
    BY <1>1, <1>3, HaltTellsSwitch, HalterWaitsSwitch, HalterAwaitsSwitch, HalterDecidesSwitch DEF Halter
  <2> QED BY <2>1, GentleStep
<1> QED BY <1>2, <1>3

---------------------------------------------------------------------------
(* Every step, as long as no fault happened and the session lives.          *)
LEMMA LapseStays == ASSUME [Next]_vars, lapse' = "none" PROVE lapse = "none"
<1>1. CASE OwnerStarts \/ Loop \/ LoopDrop \/ Cools \/ Session \/ UNCHANGED vars
  BY <1>1 DEF vars, OwnerStarts, Loop, LoopLook, LoopRecord, LoopRearm, LoopFire, LoopSave, LoopDrop, Cools,
              Session, SessionOnly, TakeLine, StartTurn, EndTurn, FinishCompact, PaneDies
<1>2. CASE Crash
  BY <1>2 DEF Crash, Lapses
<1>3. ASSUME NEW r \in Runs, Worker(r) PROVE lapse = "none"
  BY <1>3 DEF Worker, OpenRecord, Settle, Write, AwaitWritten, Dismiss, RecordIssue, MakePlan, AwaitIdle,
              WorkerTypes, WorkerAwaits, Answered, InjectCompact, ClearModal, AwaitStart, AwaitCompacted,
              Close, Resume, Lapses
<1>4. ASSUME NEW r \in Runs, Halter(r) PROVE lapse = "none"
  BY <1>4 DEF Halter, HaltTells, HalterWaits, HalterTypes, HalterAwaits, Answered, HalterDecides, Lapses
<1>5. ASSUME NEW r \in Runs, WorkerRaises(r) \/ Halt(r) \/ HalterRaises(r) PROVE lapse = "none"
  BY <1>5 DEF WorkerRaises, Halt, HalterRaises, Lapses
<1> QED BY <1>1, <1>2, <1>3, <1>4, <1>5 DEF Next

LEMMA AliveStays == ASSUME TypeOK, [Next]_vars, Alive' PROVE Alive
<1> SUFFICES ASSUME sess.st = "dead" PROVE sess'.st = "dead"
  BY DEF Alive
<1>1. CASE OwnerStarts \/ Loop \/ LoopDrop \/ Cools \/ Crash \/ Session \/ UNCHANGED vars
  BY <1>1 DEF vars, OwnerStarts, Loop, LoopLook, LoopRecord, LoopRearm, LoopFire, LoopSave, LoopDrop, Cools,
              Crash, Session, TakeLine, StartTurn, EndTurn, FinishCompact, PaneDies, Quiet, Alive
<1>2. ASSUME NEW r \in Runs, Worker(r) PROVE sess'.st = "dead"
  BY <1>2 DEF Worker, OpenRecord, Settle, Write, AwaitWritten, Dismiss, RecordIssue, MakePlan, AwaitIdle,
              WorkerTypes, WorkerAwaits, InjectCompact, ClearModal, AwaitStart, AwaitCompacted,
              Close, Resume, TypeLine, Submits, Withholds, Escaped, Cleared
<1>3. ASSUME NEW r \in Runs, Halter(r) PROVE sess'.st = "dead"
  BY <1>3 DEF Halter, HaltTells, HalterWaits, HalterTypes, HalterAwaits, HalterDecides, TypeLine, Submits,
              Withholds, Escaped, Alive
<1>4. ASSUME NEW r \in Runs, WorkerRaises(r) \/ Halt(r) \/ HalterRaises(r) PROVE sess'.st = "dead"
  BY <1>4 DEF WorkerRaises, Halt, HalterRaises
<1> QED BY <1>1, <1>2, <1>3, <1>4 DEF Next

LEMMA SwitchStep ==
  ASSUME TypeOK, ControlInv, SessionInv, SwitchInv, [Next]_vars
  PROVE  SwitchInv'
<1> SUFFICES ASSUME lapse' = "none", Alive' PROVE SwitchOK'
  BY DEF SwitchInv
<1>0. lapse = "none" /\ Alive /\ SwitchOK /\ PlanInv /\ FlowInv
  BY LapseStays, AliveStays DEF SwitchInv, ControlInv
<1>1. CASE OwnerStarts
  BY <1>0, <1>1, ClaimSwitch DEF OwnerStarts
<1>2. CASE LoopFire
  <2>1. UNCHANGED <<hat, resumed, sess, seen, disk, told>>
    BY <1>2 DEF LoopFire
  <2>2. CASE Claim("auto")
    BY <1>0, <2>1, <2>2, ClaimSwitch
  <2>3. CASE UNCHANGED <<flow, at, run>>
    BY <1>0, <2>1, <2>3, OtherSwitch
  <2> QED BY <1>2, <2>2, <2>3 DEF LoopFire
<1>3. CASE LoopLook \/ LoopRecord \/ LoopRearm \/ LoopSave \/ LoopDrop \/ Cools \/ UNCHANGED vars
  <2>1. UNCHANGED <<flow, at, hat, run, told, sess, seen>>
    BY <1>3 DEF LoopLook, LoopRecord, LoopRearm, LoopSave, LoopDrop, Cools, vars
  <2>2. disk'.owed = disk.owed
    BY <1>3 DEF LoopLook, LoopRecord, LoopRearm, LoopSave, LoopDrop, Cools, vars, Decides, TypeOK
  <2> QED BY <1>0, <2>1, <2>2, OtherSwitch
<1>4. CASE Crash
  BY <1>0, <1>4 DEF Crash, Lapses
<1>5. CASE Session
  BY <1>0, <1>5, SessionSwitch
<1>6. ASSUME NEW r \in Runs, Worker(r) \/ WorkerRaises(r) PROVE SwitchOK'
  BY <1>0, <1>6, WorkerSwitch
<1>7. ASSUME NEW r \in Runs, Halter(r) \/ HalterRaises(r) PROVE SwitchOK'
  BY <1>0, <1>7, HalterSwitch
<1>8. ASSUME NEW r \in Runs, Halt(r) PROVE SwitchOK'
  BY <1>0, <1>8, HaltSwitch
<1> QED BY <1>1, <1>2, <1>3, <1>4, <1>5, <1>6, <1>7, <1>8 DEF Next, Loop

LEMMA InitSwitch == Init => SwitchInv
<1> SUFFICES ASSUME Init PROVE SwitchOK
  BY DEF SwitchInv
<1>1. /\ \A r \in Runs : at[r] = "no" /\ hat[r] = "no" /\ run[r] = NewRun("owner")
      /\ sess.pair = Own /\ sess.term = <<>> /\ disk.owed = NoPair
  BY DEF Init
<1>2. Queue = {}
  BY <1>1, EmptySeq DEF Queue, Spots
<1>3. Stages
  BY <1>1 DEF Stages, Stage, NewRun, Sw, Restoring
<1>4. OneHolder /\ Seals
  BY <1>1 DEF OneHolder, Seals, Seal, Pc, Locked
<1>5. Once
  BY <1>2 DEF Once
<1>6. Answerable
  BY <1>1, <1>2 DEF Answerable, Own, Fields
<1> QED BY <1>3, <1>4, <1>5, <1>6 DEF SwitchOK

(* As long as no fault of lapse happened and the session lives, the stages  *)
(* of the runs, the lock, the order of the lines in the terminal and who    *)
(* answers for each of them are as above, whatever the owner halts, claims  *)
(* or has restarted.                                                        *)
THEOREM SwitchInvariant == Spec => []SwitchInv
<1>1. IInv /\ SwitchInv /\ [Next]_vars => SwitchInv'
  BY SwitchStep DEF IInv
<1> QED BY <1>1, InitSwitch, Invariant, PTL DEF Spec

(* No exit leaves the session on the compaction model silently, but for the *)
(* faults that lapse names: whoever typed a line that may still move it     *)
(* answers for it until its own line has undone it, or it is on the         *)
(* registry or told.                                                        *)
THEOREM NeverLeftSilently == Spec => []NeverSilentlyCheap
<1>1. ASSUME TypeOK, SwitchInv PROVE NeverSilentlyCheap
  <2> SUFFICES ASSUME lapse = "none", SilentlyCheap PROVE FALSE
    BY DEF NeverSilentlyCheap
  <2>1. SwitchOK /\ ~Debt /\ ~SwitchBackDue
    BY <1>1 DEF SwitchInv, SilentlyCheap, Debt
  <2>2. PICK f \in Fields : sess.pair[f] = "cheap"
    <3> SUFFICES ASSUME \A f \in Fields : sess.pair[f] # "cheap" PROVE sess.pair = Own
      BY DEF SilentlyCheap
    <3>1. /\ sess.pair \in [Fields -> {"own", "cheap"}] /\ Own \in [Fields -> {"own", "cheap"}]
          /\ \A f \in Fields : Own[f] = "own"
      BY <1>1 DEF TypeOK, Pairs, Fields, Own
    <3>2. \A f \in Fields : sess.pair[f] = Own[f]
      BY <3>1
    <3> QED BY <3>1, <3>2
  <2>3. PICK r \in Runs : Resp(r)
    BY <2>1, <2>2 DEF SwitchOK, Answerable
  <2> QED BY <2>1, <2>3 DEF SwitchBackDue, Resp, WillSwitchBack, Restoring
<1>2. IInv => TypeOK
  BY DEF IInv
<1> QED BY <1>1, <1>2, SwitchInvariant, Invariant, PTL
=============================================================================
