-------------------------- MODULE Transport_proofs --------------------------
(***************************************************************************)
(* Proofs about Transport for any processes, messages and bounds: the type  *)
(* invariant, that each command keeps the promise of Outbound, that a       *)
(* notice is mirrored at most once, and that the ledger of a command that   *)
(* ended says what it posted.                                               *)
(***************************************************************************)
EXTENDS Transport, SequenceTheorems, FiniteSetTheorems, TLAPS

---------------------------------------------------------------------------
(* The inductive invariant *)

(* What a run has posted follows from where it is.                          *)
RunInv(r) ==
  /\ r.pc = "idle" => r = Fresh
  /\ r.pc # "idle" => r.at \in 1..Length(r)
  /\ r.pc \in {"request", "accepted"} => r.result = "ok"
  /\ r.pc = "request" => r.posted = r.at - 1
  /\ r.pc = "accepted" => r.posted = r.at
  /\ r.pc = "journal" => r.result # "sent" /\ (r.result = "ok" => r.posted = r.at)
  /\ r.pc \in {"journal", "report"} /\ r.result = "failed" => r.posted = r.at - 1
  /\ r.pc = "report" => r.result # "ok"
  /\ r.pc = "report" /\ r.result = "sent" => r.posted = r.at /\ r.at = Length(r)

Progress == \A s \in Senders : RunInv(run[s])

(* A message has one run at a time.                                         *)
OneRun ==
  \A s, t \in Senders :
    run[s].pc # "idle" /\ run[t].pc # "idle" /\ run[s].msg = run[t].msg => s = t

Posted0(m) == \A i \in Parts : posts[m][i] = 0
Runs(m) == \E s \in Senders : run[s].pc # "idle" /\ run[s].msg = m

(* What may be started has posted nothing: a notice because its key comes   *)
(* first, the others because they are settled or excused once they posted.  *)
KeyFirst == \A m \in Notices \ keyed : Posted0(m) /\ ~Runs(m)
CleanStart == \A m \in Messages \ Notices : told[m] # "settled" /\ m \notin excused /\ ~Runs(m) => Posted0(m)

(* What is posted of a message that has a run was posted by that run.       *)
Watched(m) == m \in Notices \/ m \notin excused
PostedByRun ==
  \A s \in Senders : run[s].pc # "idle" /\ Watched(run[s].msg) =>
    \A i \in Parts : i > run[s].posted => posts[run[s].msg][i] = 0

PostedOnce == \A m \in Messages : Watched(m) => \A i \in Parts : posts[m][i] <= 1

IInv == TypeOK /\ Progress /\ OneRun /\ KeyFirst /\ CleanStart /\ PostedByRun /\ PostedOnce

---------------------------------------------------------------------------
(* Types *)

LEMMA FreshRun == Fresh \in Run /\ RunInv(Fresh)
<1>1. (CHOOSE m \in Messages : TRUE) \in Messages BY TransportAssumption DEF TransportAssumption
<1>2. MaxTexts \in Nat /\ MaxFiles \in Nat /\ MaxRuns \in Nat /\ MaxParts \in Nat
  BY TransportAssumption DEF TransportAssumption, MaxParts
<1>3. <<>> \in Seq(Record) BY EmptySeq
<1>4. Fresh \in Run BY <1>1, <1>2, <1>3 DEF Fresh, Run
<1>5. RunInv(Fresh) BY DEF Fresh, RunInv
<1>6. QED BY <1>4, <1>5

LEMMA Bounds == /\ MaxTexts \in Nat /\ MaxFiles \in Nat /\ MaxRuns \in Nat
                /\ MaxParts = MaxTexts + MaxFiles /\ MaxLedgerFaults \in Nat /\ MaxKills \in Nat
BY TransportAssumption DEF TransportAssumption, MaxParts

(* The records of a part in hand.                                           *)
LEMMA RecordsType ==
  ASSUME NEW r \in Run, r.at \in 1..MaxParts, NEW st \in {"sent", "maybe"}
  PROVE  Records(r, st) \in Seq(Record)
<1>1. \A i \in 1..r.at : Rec(r, i, st) \in Record /\ Rec(r, i, "sent") \in Record
  BY Bounds DEF Run, Record, Rec, Parts
<1>2. CASE r.msg \in Alerts BY <1>2, EmptySeq DEF Records
<1>3. CASE r.msg \notin Alerts /\ IsFile(r)
  <2>1. Rec(r, r.at, st) \in Record BY <1>1, Bounds DEF Run
  <2>2. QED BY <1>3, <2>1 DEF Records
<1>4. CASE r.msg \notin Alerts /\ ~IsFile(r)
  <2>1. \A i \in 1..r.at : Rec(r, i, IF i = r.at THEN st ELSE "sent") \in Record BY <1>1
  <2>2. r.at \in Nat BY Bounds DEF Run
  <2>3. QED BY <1>4, <2>1, <2>2 DEF Records
<1>5. QED BY <1>2, <1>3, <1>4, Zenon

---------------------------------------------------------------------------
(* What a step of process s does to its run *)

Begins(s, m) ==
  /\ run[s].pc = "idle" /\ m \in Messages
  /\ run'[s].pc = "request" /\ run'[s].msg = m /\ run'[s].posted = 0 /\ run'[s].at = 1
  /\ posts' = posts /\ keyed' = keyed \cup ({m} \cap Notices)
  /\ m \in Notices => m \notin keyed
  /\ m \notin Notices => told[m] # "settled" /\ ~Runs(m)
  /\ UNCHANGED <<told, excused>>

Keeps(s) ==
  /\ run[s].pc \notin {"idle", "report"} /\ run'[s].pc # "idle" /\ run'[s].msg = run[s].msg
  /\ run'[s].texts = run[s].texts /\ run'[s].files = run[s].files
  /\ run'[s].at # run[s].at => run'[s].at = run[s].at + 1 /\ run'[s].pc = "request"
  /\ run'[s].posted = run[s].posted /\ posts' = posts /\ keyed' = keyed
  /\ UNCHANGED <<told, excused>>

Posting(s) ==
  /\ run[s].pc = "request" /\ run'[s].pc \in {"accepted", "journal"} /\ run'[s].msg = run[s].msg
  /\ run'[s].texts = run[s].texts /\ run'[s].files = run[s].files /\ run'[s].at = run[s].at
  /\ run'[s].posted = run[s].posted + 1 /\ Posted(s) /\ keyed' = keyed
  /\ UNCHANGED <<told, excused>>

Leaves(s) ==
  /\ run[s].pc # "idle" /\ run'[s] = Fresh /\ posts' = posts /\ keyed' = keyed
  /\ excused \subseteq excused' /\ \A m \in Messages : m # run[s].msg => told'[m] = told[m]
  /\ told'[run[s].msg] = "settled" \/ run[s].msg \in excused' \/ run[s].posted = 0

StepOf(s) ==
  \/ \E m \in Messages : Start(s, m) \/ StartNotice(s, m)
  \/ Accepted(s) \/ Refused(s) \/ LostAnswer(s) \/ Rejected(s) \/ RejectedHtml(s) \/ AnswerBreaks(s)
  \/ PartDone(s) \/ Journal(s) \/ Journaled(s) \/ Report(s) \/ Kill(s)

RunStep(s) ==
  /\ run' = [run EXCEPT ![s] = run'[s]] /\ run'[s] \in Run /\ RunInv(run'[s])
  /\ (\E m \in Messages : Begins(s, m)) \/ Keeps(s) \/ Posting(s) \/ Leaves(s)

LEMMA RequestShape ==
  ASSUME TypeOK, Progress, NEW s \in Senders, run[s].pc # "idle"
  PROVE  /\ run[s] \in Run /\ RunInv(run[s]) /\ run[s].at \in 1..Length(run[s])
         /\ Length(run[s]) \in 1..MaxParts /\ run[s].at \in 1..MaxParts
         /\ Records(run[s], "sent") \in Seq(Record) /\ Records(run[s], "maybe") \in Seq(Record)
<1>1. run[s] \in Run /\ RunInv(run[s]) BY DEF TypeOK, Progress
<1>2. run[s].at \in 1..Length(run[s]) BY <1>1 DEF RunInv
<1>3. Length(run[s]) \in 0..MaxParts BY <1>1, Bounds DEF Run, Length
<1>4. Length(run[s]) \in 1..MaxParts /\ run[s].at \in 1..MaxParts BY <1>2, <1>3, Bounds
<1>5. QED BY <1>1, <1>2, <1>4, RecordsType

LEMMA BeginStep ==
  ASSUME TypeOK, Progress, NEW s \in Senders, NEW m \in Messages, run[s].pc = "idle", Begin(s, m)
  PROVE  /\ run' = [run EXCEPT ![s] = run'[s]] /\ run'[s] \in Run /\ RunInv(run'[s])
         /\ run'[s].pc = "request" /\ run'[s].msg = m /\ run'[s].posted = 0 /\ run'[s].at = 1
         /\ runs' \in [Messages -> 0..MaxRuns] /\ run'[s].result = "ok"
<1>1. PICK sh \in Shapes(m) :
        run' = [run EXCEPT ![s] = [Fresh EXCEPT !.pc = "request", !.msg = m, !.n = runs[m] + 1,
                 !.texts = sh[1], !.files = sh[2], !.at = 1, !.result = "ok"]]
  BY DEF Begin
<1>2. sh[1] \in 0..MaxTexts /\ sh[2] \in 0..MaxFiles /\ sh[1] + sh[2] >= 1
  BY TransportAssumption DEF Shapes, TransportAssumption
<1>3. runs[m] + 1 \in 0..MaxRuns /\ runs' \in [Messages -> 0..MaxRuns]
  BY Bounds DEF Begin, TypeOK
<1>4. 1 \in 0..MaxParts BY TransportAssumption DEF TransportAssumption, MaxParts
<1> DEFINE r == [Fresh EXCEPT !.pc = "request", !.msg = m, !.n = runs[m] + 1,
                 !.texts = sh[1], !.files = sh[2], !.at = 1, !.result = "ok"]
<1>5. r \in Run BY <1>2, <1>3, <1>4, FreshRun DEF Run
<1>6. /\ r.pc = "request" /\ r.msg = m /\ r.posted = 0 /\ r.at = 1 /\ r.result = "ok"
      /\ r.texts = sh[1] /\ r.files = sh[2]
  BY DEF Fresh
<1>7. RunInv(r) BY <1>2, <1>6 DEF RunInv, Length
<1>8. run'[s] = r BY <1>1 DEF TypeOK
<1>9. QED BY <1>1, <1>3, <1>5, <1>6, <1>7, <1>8 DEF TypeOK

(* A run that leaves a request with an outcome.                             *)
LEMMA OutcomeStep ==
  ASSUME TypeOK, Progress, NEW s \in Senders, NEW result \in {"ok", "failed", "unknown"},
         NEW records \in Seq(Record), Outcome(s, result, records), UNCHANGED <<posts, keyed, told, excused>>,
         \/ run[s].pc = "request" /\ result = "failed"
         \/ run[s].pc = "accepted" /\ result = "ok"
  PROVE  RunStep(s)
<1>1. run[s].pc # "idle" OBVIOUS
<1>2. run[s] \in Run /\ RunInv(run[s]) /\ run[s].at \in 1..Length(run[s]) BY <1>1, RequestShape
<1> DEFINE r == [run[s] EXCEPT !.pc = "journal", !.result = result, !.records = records]
<1>3. r \in Run BY <1>2 DEF Run
<1>4. run' = [run EXCEPT ![s] = r] BY DEF Outcome, TypeOK
<1>5. run'[s] = r BY <1>4 DEF TypeOK
<1>6. /\ r.pc = "journal" /\ r.result = result /\ r.at = run[s].at /\ r.posted = run[s].posted
      /\ r.texts = run[s].texts /\ r.files = run[s].files /\ r.msg = run[s].msg
  BY <1>2 DEF Run
<1>7. RunInv(r) BY <1>2, <1>6 DEF RunInv, Length
<1> HIDE DEF r
<1>8. Keeps(s) BY <1>5, <1>6 DEF Keeps
<1>9. QED BY <1>3, <1>4, <1>5, <1>7, <1>8 DEF RunStep

LEMMA NextPartStep ==
  ASSUME TypeOK, Progress, NEW s \in Senders, NextPart(s), UNCHANGED <<posts, keyed, told, excused>>,
         run[s].pc # "idle", run[s].at < Length(run[s]), run[s].posted = run[s].at, run[s].result = "ok"
  PROVE  RunStep(s)
<1>1. run[s] \in Run /\ run[s].at \in 1..MaxParts /\ Length(run[s]) \in 1..MaxParts BY RequestShape
<1> DEFINE next == run[s].at + 1
           r == [run[s] EXCEPT !.pc = "request", !.at = next, !.attempt = 0, !.format = "html"]
<1>2. next \in 0..MaxParts BY <1>1, Bounds
<1>3. r \in Run
  <2>1. 0 \in 0..2 /\ "request" \in {"idle", "request", "accepted", "journal", "report"} /\ "html" \in {"html", "plain"}
    OBVIOUS
  <2> HIDE DEF next
  <2>2. QED BY <1>1, <1>2, <2>1 DEF Run
<1>4. run' = [run EXCEPT ![s] = r] BY DEF NextPart, TypeOK
<1>5. run'[s] = r BY <1>4 DEF TypeOK
<1>6. /\ r.pc = "request" /\ r.result = "ok" /\ r.at = run[s].at + 1 /\ r.posted = run[s].posted
      /\ r.texts = run[s].texts /\ r.files = run[s].files /\ r.msg = run[s].msg
  BY <1>1 DEF Run
<1>7. RunInv(r) BY <1>1, <1>6, Bounds DEF RunInv, Length
<1> HIDE DEF r
<1>8. Keeps(s)
  <2>1. run[s].pc # "report" BY RequestShape DEF RunInv
  <2>2. QED BY <1>5, <1>6, <2>1 DEF Keeps
<1>9. QED BY <1>3, <1>4, <1>5, <1>7, <1>8 DEF RunStep

LEMMA SenderStep ==
  ASSUME TypeOK, Progress, NEW s \in Senders, StepOf(s)
  PROVE  RunStep(s)
<1>1. run[s] \in Run /\ RunInv(run[s]) BY DEF TypeOK, Progress
<1>2. run[s].pc # "idle" =>
        /\ run[s].at \in 1..Length(run[s]) /\ Length(run[s]) \in 1..MaxParts
        /\ Records(run[s], "sent") \in Seq(Record) /\ Records(run[s], "maybe") \in Seq(Record)
  BY RequestShape
<1>3. <<>> \in Seq(Record) BY EmptySeq
<1>4. ASSUME NEW m \in Messages, Start(s, m) PROVE RunStep(s)
  <2>1. m \notin Notices BY <1>4, TransportAssumption DEF Start, SentByHand, TransportAssumption
  <2>2. run[s].pc = "idle" /\ Begin(s, m) /\ posts' = posts /\ keyed' = keyed /\ UNCHANGED <<told, excused>>
    BY <1>4 DEF Start
  <2>3. told[m] # "settled" /\ ~Runs(m) BY <1>4 DEF Start, Runs
  <2>4. Begins(s, m) BY <2>1, <2>2, <2>3, BeginStep DEF Begins
  <2>5. QED BY <2>2, <2>4, BeginStep DEF RunStep
<1>5. ASSUME NEW m \in Messages, StartNotice(s, m) PROVE RunStep(s)
  <2>1. run[s].pc = "idle" /\ Begin(s, m) /\ posts' = posts /\ keyed' = keyed \cup {m}
        /\ m \in Notices /\ m \notin keyed /\ UNCHANGED <<told, excused>>
    BY <1>5 DEF StartNotice, FirstOfKey
  <2>2. Begins(s, m) BY <2>1, BeginStep DEF Begins
  <2>3. QED BY <2>1, <2>2, BeginStep DEF RunStep
<1>6. CASE Accepted(s)
  <2> DEFINE p == run[s].posted + 1
             r == [run[s] EXCEPT !.pc = "accepted", !.posted = p]
  <2>1. r \in Run
    <3>1. run[s].posted \in Nat BY <1>1 DEF Run
    <3>2. p \in Nat BY <3>1
    <3> HIDE DEF p
    <3>3. QED BY <1>1, <3>2 DEF Run
  <2>2. run' = [run EXCEPT ![s] = r] /\ run'[s] = r BY <1>6 DEF Accepted, TypeOK
  <2>3. /\ r.pc = "accepted" /\ r.at = run[s].at /\ r.posted = run[s].posted + 1 /\ r.result = run[s].result
        /\ r.texts = run[s].texts /\ r.files = run[s].files /\ r.msg = run[s].msg
    BY <1>1 DEF Run
  <2>4. RunInv(r) BY <1>1, <1>2, <1>6, <2>3 DEF Accepted, RunInv, Length
  <2>5. Posting(s) BY <1>6, <2>2, <2>3 DEF Posting, Accepted
  <2> HIDE DEF r
  <2>6. QED BY <2>1, <2>2, <2>4, <2>5 DEF RunStep
<1>7. CASE Refused(s)
  <2>1. CASE run[s].attempt < Retries(run[s]) - 1
    <3> DEFINE r == [run[s] EXCEPT !.attempt = @ + 1]
    <3>1. r \in Run BY <1>1, <2>1 DEF Run, Retries
    <3>2. run' = [run EXCEPT ![s] = r] /\ run'[s] = r BY <1>7, <2>1 DEF Refused, TypeOK
    <3>3. /\ r.pc = run[s].pc /\ r.at = run[s].at /\ r.posted = run[s].posted /\ r.result = run[s].result
          /\ r.texts = run[s].texts /\ r.files = run[s].files /\ r.msg = run[s].msg
      BY <1>1 DEF Run
    <3>4. run[s].pc = "request" BY <1>7 DEF Refused
    <3>5. RunInv(r) BY <1>1, <3>3, <3>4 DEF RunInv, Length
    <3> HIDE DEF r
    <3>6. Keeps(s) BY <1>7, <3>2, <3>3, <3>4 DEF Keeps, Refused
    <3>7. QED BY <3>1, <3>2, <3>5, <3>6 DEF RunStep
  <2>2. CASE ~(run[s].attempt < Retries(run[s]) - 1)
    <3>1. Outcome(s, "failed", <<>>) /\ run[s].pc = "request" /\ UNCHANGED <<posts, keyed, told, excused>>
      BY <1>7, <2>2 DEF Refused
    <3>2. QED BY <1>3, <3>1, OutcomeStep
  <2>3. QED BY <2>1, <2>2
<1>8. CASE Rejected(s)
  <2>1. Outcome(s, "failed", <<>>) /\ run[s].pc = "request" /\ UNCHANGED <<posts, keyed, told, excused>>
    BY <1>8 DEF Rejected
  <2>2. QED BY <1>3, <2>1, OutcomeStep
<1>9. CASE LostAnswer(s) \/ AnswerBreaks(s)
  <2>1. PICK carriedOut \in BOOLEAN, records \in Seq(Record), result \in {"unknown", "none"} :
          /\ run' = [run EXCEPT ![s].pc = "journal", ![s].result = result, ![s].records = records,
                                ![s].posted = IF carriedOut THEN @ + 1 ELSE @]
          /\ IF carriedOut THEN Posted(s) ELSE UNCHANGED posts
    <3>1. CASE LostAnswer(s)
      <4>1. Records(run[s], "maybe") \in Seq(Record) BY <1>2, <3>1 DEF LostAnswer
      <4>2. QED BY <3>1, <4>1 DEF LostAnswer
    <3>2. CASE AnswerBreaks(s)
      <4>1. run[s].records \in Seq(Record) BY <1>1 DEF Run
      <4>2. PICK carriedOut \in BOOLEAN :
              /\ run' = [run EXCEPT ![s].pc = "journal", ![s].result = "none",
                                    ![s].posted = IF carriedOut THEN @ + 1 ELSE @]
              /\ IF carriedOut THEN Posted(s) ELSE UNCHANGED posts
        BY <3>2 DEF AnswerBreaks
      <4>3. run' = [run EXCEPT ![s].pc = "journal", ![s].result = "none", ![s].records = run[s].records,
                               ![s].posted = IF carriedOut THEN @ + 1 ELSE @]
        BY ZenonT(60), <4>2, <1>1 DEF TypeOK, Run
      <4>4. QED BY <4>1, <4>2, <4>3
    <3>3. QED BY <1>9, <3>1, <3>2
  <2> DEFINE p == IF carriedOut THEN run[s].posted + 1 ELSE run[s].posted
             r == [run[s] EXCEPT !.pc = "journal", !.result = result, !.records = records, !.posted = p]
  <2>2. r \in Run
    <3>1. run[s].posted \in Nat BY <1>1 DEF Run
    <3>2. p \in Nat BY <3>1
    <3> HIDE DEF p
    <3>3. QED BY <1>1, <3>2 DEF Run
  <2>3. run' = [run EXCEPT ![s] = r] /\ run'[s] = r BY <2>1 DEF TypeOK
  <2>4. /\ r.pc = "journal" /\ r.at = run[s].at /\ r.result = result /\ r.posted = p
        /\ r.texts = run[s].texts /\ r.files = run[s].files /\ r.msg = run[s].msg
    BY <1>1 DEF Run
  <2>5. run[s].pc = "request" /\ keyed' = keyed /\ UNCHANGED <<told, excused>> BY <1>9 DEF LostAnswer, AnswerBreaks
  <2>6. RunInv(r) BY <1>1, <1>2, <2>4, <2>5 DEF RunInv, Length
  <2>7. CASE carriedOut
    <3>1. Posting(s) BY <2>1, <2>3, <2>4, <2>5, <2>7 DEF Posting
    <3> HIDE DEF r
    <3>2. QED BY <2>2, <2>3, <2>6, <3>1 DEF RunStep
  <2>8. CASE ~carriedOut
    <3> HIDE DEF r
    <3>1. Keeps(s) BY <2>1, <2>3, <2>4, <2>5, <2>8 DEF Keeps
    <3>2. QED BY <2>2, <2>3, <2>6, <3>1 DEF RunStep
  <2>9. QED BY <2>7, <2>8
<1>10. CASE RejectedHtml(s)
  <2> DEFINE r == [run[s] EXCEPT !.format = "plain", !.attempt = 0]
  <2>1. r \in Run
    <3>1. 0 \in 0..2 /\ "plain" \in {"html", "plain"} OBVIOUS
    <3>2. QED BY <1>1, <3>1, Zenon DEF Run
  <2>2. run' = [run EXCEPT ![s] = r] /\ run'[s] = r BY <1>10 DEF RejectedHtml, TypeOK
  <2>3. /\ r.pc = run[s].pc /\ r.at = run[s].at /\ r.posted = run[s].posted /\ r.result = run[s].result
        /\ r.texts = run[s].texts /\ r.files = run[s].files /\ r.msg = run[s].msg
    BY <1>1 DEF Run
  <2>4. run[s].pc = "request" /\ posts' = posts /\ keyed' = keyed /\ UNCHANGED <<told, excused>>
    BY <1>10 DEF RejectedHtml
  <2>5. RunInv(r) BY <1>1, <2>3, <2>4 DEF RunInv, Length
  <2> HIDE DEF r
  <2>6. Keeps(s) BY <2>2, <2>3, <2>4 DEF Keeps
  <2>7. QED BY <2>1, <2>2, <2>5, <2>6 DEF RunStep
<1>11. CASE PartDone(s)
  <2>1. run[s].pc = "accepted" /\ UNCHANGED <<posts, keyed, told, excused>> BY <1>11 DEF PartDone
  <2>2. run[s].posted = run[s].at /\ run[s].result = "ok" BY <1>1, <2>1 DEF RunInv
  <2>3. CASE run[s].at < run[s].texts
    <3>1. run[s].at < Length(run[s]) BY <1>1, <2>3, Bounds DEF Run, Length
    <3>2. NextPart(s) BY <1>11, <2>3 DEF PartDone
    <3>3. QED BY <2>1, <2>2, <3>1, <3>2, NextPartStep
  <2>4. CASE ~(run[s].at < run[s].texts)
    <3>1. Outcome(s, "ok", Records(run[s], "sent")) BY <1>11, <2>4 DEF PartDone
    <3>2. QED BY <1>2, <2>1, <3>1, OutcomeStep
  <2>5. QED BY <2>3, <2>4
<1>12. CASE Journal(s)
  <2> DEFINE r == [run[s] EXCEPT !.records = Tail(@)]
  <2>1. run[s].records \in Seq(Record) /\ run[s].records # <<>> BY <1>1, <1>12 DEF Journal, Run
  <2>2. Tail(run[s].records) \in Seq(Record) BY <2>1, HeadTailProperties
  <2>3. r \in Run BY <1>1, <2>2 DEF Run
  <2>4. run' = [run EXCEPT ![s] = r] /\ run'[s] = r BY <1>12 DEF Journal, TypeOK
  <2>5. /\ r.pc = run[s].pc /\ r.at = run[s].at /\ r.posted = run[s].posted /\ r.result = run[s].result
        /\ r.texts = run[s].texts /\ r.files = run[s].files /\ r.msg = run[s].msg
    BY <1>1 DEF Run
  <2>6. run[s].pc = "journal" /\ posts' = posts /\ keyed' = keyed /\ UNCHANGED <<told, excused>>
    BY <1>12 DEF Journal
  <2>7. RunInv(r) BY <1>1, <2>5, <2>6 DEF RunInv, Length
  <2> HIDE DEF r
  <2>8. Keeps(s) BY <2>4, <2>5, <2>6 DEF Keeps
  <2>9. QED BY <2>3, <2>4, <2>7, <2>8 DEF RunStep
<1>13. CASE Journaled(s)
  <2>1. run[s].pc = "journal" /\ UNCHANGED <<posts, keyed, told, excused>> BY <1>13 DEF Journaled
  <2>2. CASE run[s].result = "ok" /\ run[s].at < Length(run[s])
    <3>1. NextPart(s) /\ run[s].posted = run[s].at BY <1>1, <1>13, <2>1, <2>2 DEF Journaled, RunInv
    <3>2. QED BY <2>1, <2>2, <3>1, NextPartStep
  <2>3. CASE ~(run[s].result = "ok" /\ run[s].at < Length(run[s]))
    <3> DEFINE v == IF run[s].result = "ok" THEN "sent" ELSE run[s].result
               r == [run[s] EXCEPT !.pc = "report", !.result = v]
    <3>1. r \in Run
      <4>1. v \in {"ok", "sent", "failed", "unknown", "none"} BY <1>1 DEF Run
      <4>2. "report" \in {"idle", "request", "accepted", "journal", "report"} OBVIOUS
      <4> HIDE DEF v
      <4>3. QED BY <1>1, <4>1, <4>2 DEF Run
    <3>2. run' = [run EXCEPT ![s] = r] /\ run'[s] = r BY <1>13, <2>3 DEF Journaled, TypeOK
    <3>3. /\ r.pc = "report" /\ r.at = run[s].at /\ r.posted = run[s].posted
          /\ r.result = IF run[s].result = "ok" THEN "sent" ELSE run[s].result
          /\ r.texts = run[s].texts /\ r.files = run[s].files /\ r.msg = run[s].msg
      BY <1>1 DEF Run
    <3>4. RunInv(r) BY <1>1, <1>2, <2>1, <2>3, <3>3, Bounds DEF RunInv, Length
    <3> HIDE DEF r
    <3>5. Keeps(s) BY <2>1, <3>2, <3>3 DEF Keeps
    <3>6. QED BY <3>1, <3>2, <3>4, <3>5 DEF RunStep
  <2>4. QED BY <2>2, <2>3
<1>14. CASE Report(s) \/ Kill(s)
  <2>1. run' = [run EXCEPT ![s] = Fresh] /\ run[s].pc # "idle" /\ posts' = posts /\ keyed' = keyed
    BY <1>14 DEF Report, Kill
  <2>2. run'[s] = Fresh BY <2>1 DEF TypeOK
  <2>3. run[s].msg \in Messages BY <1>1 DEF Run
  <2>4. excused \subseteq excused' /\ \A m \in Messages : m # run[s].msg => told'[m] = told[m]
    BY <1>14, <2>3 DEF Report, Kill, TypeOK
  <2>5. told'[run[s].msg] = "settled" \/ run[s].msg \in excused' \/ run[s].posted = 0
    <3>1. CASE Kill(s) BY <3>1 DEF Kill
    <3>2. CASE Report(s)
      <4>1. run[s].pc = "report" /\ run[s].result \in {"sent", "failed", "unknown", "none"} /\ run[s].posted \in Nat
        BY <1>1, <3>2 DEF Report, Run, RunInv
      <4>2. CASE run[s].result \in Settled BY <2>3, <3>2, <4>2 DEF Report, TypeOK
      <4>3. CASE run[s].result = "none" BY <3>2, <4>3 DEF Report
      <4>4. CASE run[s].result = "failed" BY <3>2, <4>1, <4>4 DEF Report
      <4>5. QED BY <4>1, <4>2, <4>3, <4>4 DEF Settled
    <3>3. QED BY <1>14, <3>1, <3>2
  <2>6. Leaves(s) BY <2>1, <2>2, <2>4, <2>5 DEF Leaves
  <2>7. QED BY <2>1, <2>2, <2>6, FreshRun DEF RunStep
<1>15. QED BY <1>4, <1>5, <1>6, <1>7, <1>8, <1>9, <1>10, <1>11, <1>12, <1>13, <1>14 DEF StepOf

LEMMA InitInv == Init => IInv
<1> SUFFICES ASSUME Init PROVE IInv OBVIOUS
<1>1. run \in [Senders -> Run] /\ Progress BY FreshRun DEF Init, Progress
<1>2. ledger \in [Messages -> Seq(Record)] BY EmptySeq DEF Init
<1>3. TypeOK BY <1>1, <1>2, Bounds DEF Init, TypeOK
<1>4. \A s \in Senders : run[s].pc = "idle" BY DEF Init, Fresh
<1>5. OneRun /\ PostedByRun BY <1>4, Zenon DEF OneRun, PostedByRun
<1>6. \A m \in Messages, i \in Parts : posts[m][i] = 0 BY DEF Init
<1>7. KeyFirst /\ CleanStart /\ PostedOnce
  BY <1>4, <1>6 DEF KeyFirst, CleanStart, PostedOnce, Posted0, Runs, Messages
<1>8. QED BY <1>1, <1>3, <1>5, <1>7, Zenon DEF IInv

LEMMA StepType ==
  ASSUME TypeOK, Progress, NEW s \in Senders, StepOf(s)
  PROVE  TypeOK' /\ Progress'
<1>1. RunStep(s) BY SenderStep
<1>2. run' \in [Senders -> Run] BY <1>1 DEF RunStep, TypeOK
<1>3. Progress'
  <2>1. \A t \in Senders : t # s => run'[t] = run[t] BY <1>1 DEF RunStep, TypeOK
  <2>2. QED BY <1>1, <2>1 DEF Progress, RunStep
<1>4. posts' \in [Messages -> [Parts -> Nat]] /\ keyed' \subseteq Notices
  <2>1. ASSUME NEW m \in Messages, Begins(s, m) PROVE posts' = posts /\ keyed' \subseteq Notices
    BY <2>1 DEF Begins, TypeOK
  <2>2. CASE Posting(s)
    <3>1. run[s] \in Run /\ run[s].at \in 1..MaxParts BY <2>2, RequestShape DEF Posting
    <3>2. run[s].msg \in Messages /\ run[s].at \in Parts BY <3>1 DEF Run, Parts
    <3>3. QED BY <2>2, <3>2 DEF Posting, Posted, TypeOK
  <2>3. CASE Keeps(s) \/ Leaves(s) BY <2>3 DEF Keeps, Leaves, TypeOK
  <2>4. QED BY <1>1, <2>1, <2>2, <2>3 DEF RunStep, TypeOK
<1>5. ledger' \in [Messages -> Seq(Record)] /\ ledgerFaults' \in 0..MaxLedgerFaults
  <2>1. CASE Journal(s)
    <3>1. run[s] \in Run BY DEF TypeOK
    <3>2. run[s].msg \in Messages /\ run[s].records \in Seq(Record) /\ run[s].records # <<>>
      BY <2>1, <3>1 DEF Journal, Run
    <3>3. Head(run[s].records) \in Record BY <3>2, HeadTailProperties
    <3>4. Append(ledger[run[s].msg], Head(run[s].records)) \in Seq(Record)
      BY <3>2, <3>3, AppendProperties DEF TypeOK
    <3>5. CASE ledger' = [ledger EXCEPT ![run[s].msg] = Append(@, Head(run[s].records))] /\ UNCHANGED ledgerFaults
      BY <3>2, <3>4, <3>5 DEF TypeOK
    <3>6. CASE ledgerFaults < MaxLedgerFaults /\ ledgerFaults' = ledgerFaults + 1 /\ UNCHANGED ledger
      BY <3>6, Bounds DEF TypeOK
    <3>7. QED BY <2>1, <3>5, <3>6 DEF Journal
  <2>2. CASE ~Journal(s)
    <3>1. UNCHANGED <<ledger, ledgerFaults>>
      BY <2>2 DEF StepOf, Start, StartNotice, Accepted, Refused, LostAnswer, Rejected, RejectedHtml,
                  AnswerBreaks, PartDone, Journaled, Report, Kill
    <3>2. QED BY <3>1 DEF TypeOK
  <2>3. QED BY <2>1, <2>2
<1>6. runs' \in [Messages -> 0..MaxRuns]
  <2>1. ASSUME NEW m \in Messages, Start(s, m) \/ StartNotice(s, m) PROVE runs' \in [Messages -> 0..MaxRuns]
    <3>1. run[s].pc = "idle" /\ Begin(s, m) BY <2>1 DEF Start, StartNotice
    <3>2. QED BY <3>1, BeginStep
  <2>2. CASE ~\E m \in Messages : Start(s, m) \/ StartNotice(s, m)
    <3>1. UNCHANGED runs
      BY <2>2 DEF StepOf, Accepted, Refused, LostAnswer, Rejected, RejectedHtml,
                  AnswerBreaks, PartDone, Journal, Journaled, Report, Kill
    <3>2. QED BY <3>1 DEF TypeOK
  <2>3. QED BY <2>1, <2>2
<1>7. /\ told' \in [Messages -> {"never", "settled", "again"}]
      /\ excused' \subseteq Messages /\ kills' \in 0..MaxKills
  <2>1. run[s].msg \in Messages BY DEF TypeOK, Run
  <2>2. CASE Report(s) BY <2>1, <2>2 DEF Report, TypeOK
  <2>3. CASE Kill(s) BY <2>1, <2>3, Bounds DEF Kill, TypeOK
  <2>4. CASE ~Report(s) /\ ~Kill(s)
    <3>1. UNCHANGED <<told, excused, kills>>
      BY <2>4 DEF StepOf, Start, StartNotice, Accepted, Refused, LostAnswer, Rejected, RejectedHtml,
                  AnswerBreaks, PartDone, Journal, Journaled
    <3>2. QED BY <3>1 DEF TypeOK
  <2>5. QED BY <2>2, <2>3, <2>4
<1>8. TypeOK' BY <1>2, <1>4, <1>5, <1>6, <1>7 DEF TypeOK
<1>9. QED BY <1>3, <1>8

---------------------------------------------------------------------------
(* No part twice *)

(* The step moves one process only.                                         *)
LEMMA OthersStay ==
  ASSUME TypeOK, NEW s \in Senders, RunStep(s)
  PROVE  \A t \in Senders : t # s => run'[t] = run[t]
BY DEF RunStep, TypeOK

(* Nobody runs a message that begins.                                       *)
LEMMA BeginsAlone ==
  ASSUME IInv, NEW s \in Senders, NEW m \in Messages, Begins(s, m)
  PROVE  ~Runs(m)
BY DEF IInv, KeyFirst, Begins

LEMMA OneRunStep ==
  ASSUME IInv, NEW s \in Senders, RunStep(s)
  PROVE  OneRun'
<1>1. SUFFICES ASSUME NEW a \in Senders, NEW b \in Senders,
                      run'[a].pc # "idle", run'[b].pc # "idle", run'[a].msg = run'[b].msg, a # b
               PROVE  FALSE
  BY DEF OneRun
<1>2. \A t \in Senders : t # s => run'[t] = run[t] BY OthersStay DEF IInv
<1>3. CASE Keeps(s) \/ Posting(s)
  <2>1. run[s].pc # "idle" /\ run'[s].msg = run[s].msg BY <1>3 DEF Keeps, Posting
  <2>2. /\ run[a].pc # "idle" /\ run[b].pc # "idle"
        /\ run[a].msg = run'[a].msg /\ run[b].msg = run'[b].msg
    BY <1>1, <1>2, <2>1
  <2>3. QED BY <1>1, <2>2 DEF IInv, OneRun
<1>4. CASE Leaves(s)
  <2>1. a # s /\ b # s BY <1>1, <1>4 DEF Leaves, Fresh
  <2>2. QED BY <1>1, <1>2, <2>1 DEF IInv, OneRun
<1>5. ASSUME NEW m \in Messages, Begins(s, m) PROVE FALSE
  <2>1. run'[s].msg = m /\ ~Runs(m) BY <1>5, BeginsAlone DEF Begins
  <2>2. ASSUME NEW t \in Senders, t # s, run'[t].pc # "idle", run'[t].msg = m PROVE FALSE
    BY <1>2, <2>1, <2>2 DEF Runs
  <2>3. CASE a = s BY <1>1, <2>1, <2>2, <2>3
  <2>4. CASE b = s BY <1>1, <2>1, <2>2, <2>4
  <2>5. CASE a # s /\ b # s BY <1>1, <1>2, <2>5 DEF IInv, OneRun
  <2>6. QED BY <2>3, <2>4, <2>5
<1>6. QED BY <1>3, <1>4, <1>5 DEF RunStep

(* A message that nobody runs after the step, and that did not leave in it, *)
(* had no run before it, and its posts stand.                               *)
LEMMA Untouched ==
  ASSUME IInv, NEW s \in Senders, RunStep(s), NEW m \in Messages, ~Runs(m)',
         ~(Leaves(s) /\ run[s].msg = m)
  PROVE  ~Runs(m) /\ posts'[m] = posts[m]
<1>1. \A t \in Senders : t # s => run'[t] = run[t] BY OthersStay DEF IInv
<1>2. CASE Keeps(s) BY <1>1, <1>2 DEF Runs, Keeps
<1>3. CASE Leaves(s) BY <1>1, <1>3 DEF Runs, Leaves
<1>4. CASE Posting(s)
  <2>1. run[s].msg # m BY <1>4 DEF Posting, Runs
  <2>2. ~Runs(m) BY <1>1, <2>1 DEF Runs
  <2>3. posts \in [Messages -> [Parts -> Nat]] BY DEF IInv, TypeOK
  <2>4. posts' = [posts EXCEPT ![run[s].msg][run[s].at] = @ + 1] BY <1>4 DEF Posting, Posted
  <2>5. QED BY <2>1, <2>2, <2>3, <2>4
<1>5. ASSUME NEW n \in Messages, Begins(s, n) PROVE ~Runs(m) /\ posts'[m] = posts[m]
  <2>1. run[s].pc = "idle" /\ posts' = posts BY <1>5 DEF Begins
  <2>2. QED BY <1>1, <2>1 DEF Runs
<1>6. QED BY <1>2, <1>3, <1>4, <1>5 DEF RunStep

LEMMA StartStep ==
  ASSUME IInv, NEW s \in Senders, RunStep(s)
  PROVE  KeyFirst' /\ CleanStart'
<1>1. \A t \in Senders : t # s => run'[t] = run[t] BY OthersStay DEF IInv
<1>2. KeyFirst'
  <2>1. SUFFICES ASSUME NEW m \in Notices, m \notin keyed' PROVE (Posted0(m) /\ ~Runs(m))'
    BY DEF KeyFirst
  <2>2. keyed \subseteq keyed' BY DEF RunStep, Begins, Keeps, Posting, Leaves
  <2>3. Posted0(m) /\ ~Runs(m) /\ m \in Messages BY <2>1, <2>2 DEF IInv, KeyFirst, Messages
  <2>4. ~Runs(m)'
    <3>1. CASE Keeps(s) \/ Posting(s) BY <1>1, <2>3, <3>1 DEF Runs, Keeps, Posting
    <3>2. CASE Leaves(s) BY <1>1, <2>3, <3>2 DEF Runs, Leaves, Fresh
    <3>3. ASSUME NEW n \in Messages, Begins(s, n) PROVE ~Runs(m)'
      <4>1. n # m BY <2>1, <3>3 DEF Begins
      <4>2. QED BY <1>1, <2>3, <3>3, <4>1 DEF Runs, Begins
    <3>4. QED BY <3>1, <3>2, <3>3 DEF RunStep
  <2>5. ~(Leaves(s) /\ run[s].msg = m) BY <2>3 DEF Leaves, Runs
  <2>6. posts'[m] = posts[m] BY <2>3, <2>4, <2>5, Untouched
  <2>7. QED BY <2>3, <2>4, <2>6 DEF Posted0
<1>3. CleanStart'
  <2>1. SUFFICES ASSUME NEW m \in Messages \ Notices, told'[m] # "settled", m \notin excused', ~Runs(m)'
                 PROVE  Posted0(m)'
    BY DEF CleanStart
  <2>2. excused \subseteq excused' BY DEF RunStep, Begins, Keeps, Posting, Leaves
  <2>3. CASE Leaves(s) /\ run[s].msg = m
    <3>1. run[s].posted = 0 /\ posts' = posts /\ run[s].pc # "idle" BY <2>1, <2>3 DEF Leaves
    <3>2. \A i \in Parts : i > 0 BY DEF Parts
    <3>3. Watched(m) BY <2>1, <2>2 DEF Watched
    <3>4. Posted0(m) BY <2>3, <3>1, <3>2, <3>3 DEF IInv, PostedByRun, Posted0
    <3>5. QED BY <3>1, <3>4 DEF Posted0
  <2>4. CASE ~(Leaves(s) /\ run[s].msg = m)
    <3>1. ~Runs(m) /\ posts'[m] = posts[m] BY <2>1, <2>4, Untouched
    <3>2. told'[m] = told[m] BY <2>1, <2>4 DEF RunStep, Begins, Keeps, Posting, Leaves
    <3>3. Posted0(m) BY <2>1, <2>2, <3>1, <3>2 DEF IInv, CleanStart
    <3>4. QED BY <3>1, <3>3 DEF Posted0
  <2>5. QED BY <2>3, <2>4
<1>4. QED BY <1>2, <1>3

(* A message that has a run has nothing posted beyond what its run counts.  *)
LEMMA PostedStep ==
  ASSUME IInv, NEW s \in Senders, RunStep(s)
  PROVE  PostedByRun' /\ PostedOnce'
<1>1. \A t \in Senders : t # s => run'[t] = run[t] BY OthersStay DEF IInv
<1>2. TypeOK /\ Progress /\ OneRun /\ KeyFirst /\ CleanStart /\ PostedByRun /\ PostedOnce BY DEF IInv
<1>3. excused \subseteq excused' BY DEF RunStep, Begins, Keeps, Posting, Leaves
<1>4. \A m \in Messages : Watched(m)' => Watched(m) BY <1>3 DEF Watched
<1>5. \A t \in Senders : run[t].msg \in Messages /\ run'[t].msg \in Messages
  BY <1>1, <1>2 DEF TypeOK, Run, RunStep
<1>6. ASSUME posts' = posts PROVE PostedOnce' BY <1>2, <1>4, <1>6 DEF PostedOnce
<1>7. CASE Keeps(s)
  <2>1. \A t \in Senders : run'[t].pc # "idle" =>
          run[t].pc # "idle" /\ run'[t].msg = run[t].msg /\ run'[t].posted = run[t].posted
    BY <1>1, <1>7 DEF Keeps
  <2>2. posts' = posts BY <1>7 DEF Keeps
  <2>3. PostedByRun' BY <1>2, <1>4, <1>5, <2>1, <2>2 DEF PostedByRun
  <2>4. QED BY <1>6, <2>2, <2>3
<1>8. CASE Leaves(s)
  <2>1. \A t \in Senders : run'[t].pc # "idle" => run'[t] = run[t] BY <1>1, <1>8 DEF Leaves, Fresh
  <2>2. posts' = posts BY <1>8 DEF Leaves
  <2>3. PostedByRun' BY <1>2, <1>4, <1>5, <2>1, <2>2 DEF PostedByRun
  <2>4. QED BY <1>6, <2>2, <2>3
<1>9. ASSUME NEW m \in Messages, Begins(s, m) PROVE PostedByRun' /\ PostedOnce'
  <2>1. posts' = posts /\ run'[s].msg = m /\ run'[s].posted = 0 BY <1>9 DEF Begins
  <2>2. ~Runs(m) BY <1>9, BeginsAlone
  <2>3. Watched(m) => Posted0(m) BY <1>2, <1>9, <2>2 DEF Begins, KeyFirst, CleanStart, Watched
  <2>4. PostedByRun'
    <3>1. SUFFICES ASSUME NEW t \in Senders, run'[t].pc # "idle", Watched(run[t].msg)',
                          NEW i \in Parts, i > run'[t].posted
                   PROVE  posts'[run'[t].msg][i] = 0
      BY DEF PostedByRun
    <3>2. Watched(run'[t].msg)
      <4>1. run'[t].msg \in Notices \/ run'[t].msg \notin excused' BY <3>1 DEF Watched
      <4>2. QED BY <1>3, <4>1 DEF Watched
    <3>3. CASE t = s BY <2>1, <2>3, <3>2, <3>3 DEF Posted0
    <3>4. CASE t # s
      <4>1. run'[t] = run[t] BY <1>1, <3>4
      <4>2. QED BY <1>2, <2>1, <3>1, <3>2, <4>1 DEF PostedByRun
    <3>5. QED BY <3>3, <3>4
  <2>5. QED BY <1>6, <2>1, <2>4
<1>10. CASE Posting(s)
  <2> DEFINE m == run[s].msg  k == run[s].at
  <2>1. /\ run[s].pc = "request" /\ run'[s].msg = m /\ run'[s].posted = run[s].posted + 1
        /\ posts' = [posts EXCEPT ![m][k] = @ + 1]
    BY <1>10 DEF Posting, Posted
  <2>2. run[s] \in Run /\ k \in 1..MaxParts /\ run[s].posted = k - 1
    BY <1>2, <2>1, RequestShape DEF RunInv
  <2>3. m \in Messages /\ k \in Parts /\ k \in Nat BY <2>2, Bounds DEF Run, Parts
  <2>4. posts \in [Messages -> [Parts -> Nat]] BY <1>2 DEF TypeOK
  <2>5. excused' = excused BY <1>10 DEF Posting
  <2>6. run[s].pc # "idle" /\ run[s].msg = m BY <2>1
  <2> HIDE DEF m, k
  <2>7. /\ \A n \in Messages : n # m => posts'[n] = posts[n]
        /\ \A i \in Parts : i # k => posts'[m][i] = posts[m][i]
        /\ posts'[m][k] = posts[m][k] + 1
    BY <2>1, <2>3, <2>4
  <2>8. ASSUME Watched(m) PROVE posts[m][k] = 0
    <3>1. k > run[s].posted BY <2>2, <2>3
    <3>2. QED BY <1>2, <2>3, <2>6, <2>8, <3>1 DEF PostedByRun
  <2>9. PostedOnce'
    <3>1. SUFFICES ASSUME NEW n \in Messages, Watched(n), NEW i \in Parts PROVE posts'[n][i] <= 1
      BY <1>4 DEF PostedOnce
    <3>2. posts[n][i] <= 1 BY <1>2, <3>1 DEF PostedOnce
    <3>3. CASE n = m /\ i = k BY <2>7, <2>8, <3>1, <3>3
    <3>4. CASE ~(n = m /\ i = k) BY <2>7, <3>2, <3>4
    <3>5. QED BY <3>3, <3>4
  <2>10. PostedByRun'
    <3>1. SUFFICES ASSUME NEW t \in Senders, run'[t].pc # "idle", Watched(run[t].msg)',
                          NEW i \in Parts, i > run'[t].posted
                   PROVE  posts'[run'[t].msg][i] = 0
      BY DEF PostedByRun
    <3>2. Watched(run'[t].msg)
      <4>1. run'[t].msg \in Notices \/ run'[t].msg \notin excused' BY <3>1 DEF Watched
      <4>2. QED BY <2>5, <4>1 DEF Watched
    <3>3. CASE t = s
      <4>1. i # k /\ i > run[s].posted BY <2>1, <2>2, <2>3, <3>1, <3>3 DEF Parts
      <4>2. posts[m][i] = 0 BY <1>2, <2>1, <2>6, <3>2, <3>3, <4>1 DEF PostedByRun
      <4>3. QED BY <2>1, <2>7, <3>3, <4>1, <4>2
    <3>4. CASE t # s
      <4>1. run[t].pc # "idle" /\ run'[t] = run[t] BY <1>1, <3>1, <3>4
      <4>2. run[t].msg # m BY <1>2, <2>6, <3>4, <4>1 DEF OneRun
      <4>3. posts[run[t].msg][i] = 0 BY <1>2, <3>1, <3>2, <4>1 DEF PostedByRun
      <4>4. QED BY <1>5, <2>7, <4>1, <4>2, <4>3
    <3>5. QED BY <3>3, <3>4
  <2>11. QED BY <2>9, <2>10
<1>11. QED BY <1>7, <1>8, <1>9, <1>10 DEF RunStep

LEMMA NextIsStep == Next => \E s \in Senders : StepOf(s)
BY DEF Next, StepOf

LEMMA NextInv == IInv /\ [Next]_vars => IInv'
<1> SUFFICES ASSUME IInv, [Next]_vars PROVE IInv' OBVIOUS
<1>1. CASE Next
  <2>1. PICK s \in Senders : StepOf(s) BY <1>1, NextIsStep
  <2>2. TypeOK /\ Progress BY DEF IInv
  <2>3. RunStep(s) /\ TypeOK' /\ Progress' BY <2>1, <2>2, SenderStep, StepType
  <2>4. OneRun' /\ KeyFirst' /\ CleanStart' /\ PostedByRun' /\ PostedOnce' BY <2>3, OneRunStep, StartStep, PostedStep
  <2>5. QED BY <2>3, <2>4 DEF IInv
<1>2. CASE UNCHANGED vars
  <2>1. UNCHANGED <<run, told, keyed, ledger, posts, runs, excused, ledgerFaults, kills>> BY <1>2 DEF vars
  <2>2. QED BY <2>1 DEF IInv, TypeOK, Progress, OneRun, KeyFirst, CleanStart, PostedByRun, PostedOnce,
                 Posted0, Runs, Watched
<1>3. QED BY <1>1, <1>2

(* The strengthened invariant of Transport holds in every reachable state.  *)
THEOREM Invariant == Spec => []IInv
BY InitInv, NextInv, PTL DEF Spec

(* Every variable of Transport keeps its type, for any bounds.              *)
THEOREM TypeCorrect == Spec => []TypeOK
<1>1. IInv => TypeOK BY DEF IInv
<1>2. QED BY <1>1, Invariant, PTL

(* notify mirrors a notice at most once, however many processes run it and  *)
(* whatever kills them: its key is stored before it posts.                  *)
THEOREM NoticeMirroredOnce == Spec => []MirroredOnce
<1>1. IInv => MirroredOnce BY DEF IInv, PostedOnce, Watched, MirroredOnce, Messages
<1>2. QED BY <1>1, Invariant, PTL

(* No part of a message is posted twice, however often its command is run,  *)
(* unless a run of it was killed, broke on an unclassified error, or failed *)
(* half-way: a lost answer never duplicates.                                *)
THEOREM LostAnswerNeverDuplicates == Spec => []ResentOnlyIfExcused
<1>1. IInv => ResentOnlyIfExcused BY DEF IInv, PostedOnce, Watched, ResentOnlyIfExcused
<1>2. QED BY <1>1, Invariant, PTL

---------------------------------------------------------------------------
(* The promise of Outbound *)

LEMMA MappedInit == Init => Promise!Init
<1> SUFFICES ASSUME Init PROVE Promise!Init OBVIOUS
<1>1. \A s \in Senders : Length(run[s]) = 0 /\ run[s].at = 0 /\ run[s].posted = 0 /\ Verdict(run[s]) = "none"
  BY DEF Init, Fresh, Length, Verdict
<1>2. QED BY <1>1 DEF Promise!Init

LEMMA MappedStep ==
  ASSUME TypeOK, Progress, NEW s \in Senders, RunStep(s)
  PROVE  Promise!Next \/ UNCHANGED Promise!vars
<1> DEFINE length == [t \in Senders |-> Length(run[t])]
           inHand == [t \in Senders |-> run[t].at]
           posted == [t \in Senders |-> run[t].posted]
           verdict == [t \in Senders |-> Verdict(run[t])]
<1>1. run' = [run EXCEPT ![s] = run'[s]] /\ run \in [Senders -> Run] BY DEF RunStep, TypeOK
<1>2. /\ length' = [length EXCEPT ![s] = Length(run'[s])]
      /\ inHand' = [inHand EXCEPT ![s] = run'[s].at]
      /\ posted' = [posted EXCEPT ![s] = run'[s].posted]
      /\ verdict' = [verdict EXCEPT ![s] = Verdict(run'[s])]
  BY <1>1
<1>3. /\ length[s] = Length(run[s]) /\ inHand[s] = run[s].at
      /\ posted[s] = run[s].posted /\ verdict[s] = Verdict(run[s])
  OBVIOUS
<1>4. /\ length = [t \in Senders |-> length[t]] /\ inHand = [t \in Senders |-> inHand[t]]
      /\ posted = [t \in Senders |-> posted[t]] /\ verdict = [t \in Senders |-> verdict[t]]
  OBVIOUS
<1>5. /\ run[s] \in Run /\ RunInv(run[s]) /\ run'[s] \in Run /\ RunInv(run'[s])
      /\ MaxParts \in Nat /\ run[s].at \in Nat /\ run[s].posted \in Nat /\ Length(run[s]) \in Nat
      /\ Length(run'[s]) \in 0..MaxParts
  <2>1. run[s] \in Run /\ RunInv(run[s]) /\ run'[s] \in Run /\ RunInv(run'[s])
    BY DEF RunStep, TypeOK, Progress
  <2>2. \A r \in Run : /\ r.texts \in 0..MaxTexts /\ r.files \in 0..MaxFiles
                        /\ r.at \in 0..MaxParts /\ r.posted \in Nat
    BY DEF Run
  <2>3. QED BY <2>1, <2>2, Bounds DEF Length
<1>6. CASE Leaves(s)
  <2>1. /\ Length(run'[s]) = 0 /\ run'[s].at = 0 /\ run'[s].posted = 0 /\ Verdict(run'[s]) = "none"
    BY <1>6 DEF Leaves, Fresh, Length, Verdict
  <2>2. run[s].at > 0 BY <1>5, <1>6 DEF Leaves, RunInv
  <2> HIDE DEF length, inHand, posted, verdict
  <2>3. Promise!Leave(s) BY <1>2, <1>3, <2>1, <2>2 DEF Promise!Leave, length, inHand, posted, verdict
  <2>4. QED BY <2>3 DEF Promise!Next
<1>7. ASSUME NEW m \in Messages, Begins(s, m) PROVE Promise!Next
  <2>1. run[s] = Fresh BY <1>5, <1>7 DEF Begins, RunInv
  <2>2. /\ run[s].at = 0 /\ Verdict(run[s]) = "none" BY <2>1 DEF Fresh, Verdict
  <2>3. run'[s].pc = "request" /\ run'[s].at = 1 /\ run'[s].posted = 0 BY <1>7 DEF Begins
  <2>4. Verdict(run'[s]) = "open" BY <2>3 DEF Verdict
  <2>5. Length(run'[s]) \in 1..MaxParts BY <1>5, <2>3 DEF RunInv
  <2> HIDE DEF length, inHand, posted, verdict
  <2>6. Promise!Begin(s)
    BY <1>2, <1>3, <2>2, <2>3, <2>4, <2>5 DEF Promise!Begin, length, inHand, posted, verdict
  <2>7. QED BY <2>6 DEF Promise!Next
<1>8. CASE Posting(s)
  <2>1. /\ run[s].posted = run[s].at - 1 /\ run'[s].posted = run[s].at /\ run'[s].at = run[s].at
        /\ Length(run'[s]) = Length(run[s])
    BY <1>5, <1>8 DEF Posting, RunInv, Length
  <2>2. Verdict(run[s]) = "open" /\ Verdict(run'[s]) = "open" BY <1>8 DEF Posting, Verdict
  <2> HIDE DEF length, inHand, posted, verdict
  <2>3. length' = length /\ inHand' = inHand /\ verdict' = verdict
    BY <1>2, <1>3, <1>4, <2>1, <2>2
  <2>4. Promise!Post(s)
    BY <1>2, <1>3, <2>1, <2>2, <2>3 DEF Promise!Post, length, inHand, posted, verdict
  <2>5. QED BY <2>4 DEF Promise!Next
<1>9. CASE Keeps(s)
  <2>1. Verdict(run[s]) = "open" BY <1>9 DEF Keeps, Verdict
  <2>2. Length(run'[s]) = Length(run[s]) /\ run'[s].posted = run[s].posted BY <1>9 DEF Keeps, Length
  <2>3. CASE run'[s].at # run[s].at
    <3>1. run'[s].at = run[s].at + 1 /\ run'[s].pc = "request" BY <1>9, <2>3 DEF Keeps
    <3>2. Verdict(run'[s]) = "open" BY <3>1 DEF Verdict
    <3>3. run[s].posted = run[s].at /\ run[s].at < Length(run[s]) BY <1>5, <2>2, <3>1 DEF RunInv
    <3> HIDE DEF length, inHand, posted, verdict
    <3>4. length' = length /\ posted' = posted /\ verdict' = verdict BY <1>2, <1>3, <1>4, <2>1, <2>2, <3>2
    <3>5. Promise!TakeNext(s)
      BY <1>2, <1>3, <2>1, <3>1, <3>3, <3>4 DEF Promise!TakeNext, length, inHand, posted, verdict
    <3>6. QED BY <3>5 DEF Promise!Next
  <2>4. CASE run'[s].at = run[s].at /\ run'[s].pc = "report"
    <3>1. Verdict(run'[s]) = run'[s].result BY <2>4 DEF Verdict
    <3>2. run'[s].result \in {"sent", "failed", "unknown", "none"} BY <1>5, <2>4 DEF Run, RunInv
    <3>3. /\ run'[s].result = "sent" => run[s].posted = Length(run[s])
          /\ run'[s].result = "failed" => run[s].posted = run[s].at - 1
      BY <1>5, <2>2, <2>4 DEF RunInv
    <3> HIDE DEF length, inHand, posted, verdict
    <3>4. length' = length /\ inHand' = inHand /\ posted' = posted BY <1>2, <1>3, <1>4, <2>2, <2>4
    <3>5. Promise!Holds(s, run'[s].result)
      BY <1>3, <3>2, <3>3 DEF Promise!Holds, length, inHand, posted, verdict
    <3>6. Promise!End(s)
      BY ZenonT(60), <1>2, <1>3, <2>1, <3>1, <3>2, <3>4, <3>5 DEF Promise!End, length, inHand, posted, verdict
    <3>7. QED BY <3>6 DEF Promise!Next
  <2>5. CASE run'[s].at = run[s].at /\ run'[s].pc # "report"
    <3>1. Verdict(run'[s]) = "open" BY <1>9, <2>5 DEF Keeps, Verdict
    <3> HIDE DEF length, inHand, posted, verdict
    <3>2. length' = length /\ inHand' = inHand /\ posted' = posted /\ verdict' = verdict
      BY <1>2, <1>3, <1>4, <2>1, <2>2, <2>5, <3>1
    <3>3. QED BY <3>2 DEF Promise!vars, length, inHand, posted, verdict
  <2>6. QED BY <2>3, <2>4, <2>5
<1>10. QED BY <1>6, <1>7, <1>8, <1>9 DEF RunStep

(* Every command of send, ask, notify and the watchdog implements Outbound:  *)
(* its parts go out in order and each at most once, and what its caller      *)
(* hears of a run that ends is true.                                         *)
THEOREM ImplementsOutbound == Spec => KeepsPromise
<1>1. IInv /\ [Next]_vars => [Promise!Next]_(Promise!vars)
  <2> SUFFICES ASSUME IInv, [Next]_vars PROVE Promise!Next \/ UNCHANGED Promise!vars OBVIOUS
  <2>1. CASE Next
    <3>1. PICK s \in Senders : StepOf(s) BY <2>1, NextIsStep
    <3>2. QED BY <3>1, SenderStep, MappedStep DEF IInv
  <2>2. CASE UNCHANGED vars
    <3>1. run' = run BY <2>2 DEF vars
    <3>2. QED BY <3>1 DEF Promise!vars
  <2>3. QED BY <2>1, <2>2
<1>2. QED BY <1>1, MappedInit, Invariant, PTL DEF Spec, KeepsPromise, Promise!Spec

---------------------------------------------------------------------------
(* The ledger *)

(* The records of a run, by what it tells of each part; how many of them    *)
(* are in hand or written where the run is; and the ledger's entry of its   *)
(* message: older runs first, then this one's, part by part.                *)
Told(r, j) == Rec(r, j, IF j = r.at /\ r.result = "unknown" THEN "maybe" ELSE "sent")
Expected(r) == IF r.pc \in {"request", "accepted"} THEN (IF IsFile(r) THEN r.at - 1 ELSE 0) ELSE r.at
Books(r, led) ==
  \E b \in 0..Len(led) :
    /\ \A k \in 1..b : led[k].run < r.n
    /\ Len(led) + Len(r.records) = b + Expected(r)
    /\ \A k \in b+1..Len(led) : led[k] = Told(r, k - b)
    /\ \A j \in 1..Len(r.records) : r.records[j] = Told(r, Len(led) - b + j)

(* Records in hand are of the run that holds them, and only between parts.  *)
Batch(r) ==
  /\ r.pc # "journal" => r.records = <<>>
  /\ \A j \in 1..Len(r.records) : r.records[j].run = r.n
  /\ r.pc = "journal" /\ r.result = "ok" => r.at >= r.texts

(* A run is the latest of its message, and the ledger holds none later.     *)
Numbered ==
  /\ \A s \in Senders : run[s].pc # "idle" => run[s].n = runs[run[s].msg]
  /\ \A m \in Messages : \A k \in DOMAIN ledger[m] : ledger[m][k].run <= runs[m]

Tracked(r) == r.pc # "idle" /\ r.msg \notin Alerts /\ r.result \in {"ok", "sent", "unknown"}
Booked ==
  \A s \in Senders : /\ Batch(run[s])
                     /\ Tracked(run[s]) /\ ledgerFaults = 0 => Books(run[s], ledger[run[s].msg])

LEMMA RunFields ==
  ASSUME NEW r \in Run
  PROVE  /\ r.at \in Nat /\ r.texts \in Nat /\ r.n \in Nat /\ r.msg \in Messages /\ r.records \in Seq(Record)
         /\ Len(r.records) \in Nat
<1>1. /\ r.at \in Nat /\ r.texts \in Nat /\ r.n \in Nat /\ r.msg \in Messages /\ r.records \in Seq(Record)
  BY Bounds DEF Run
<1> QED BY <1>1, LenProperties

LEMMA BooksOpen ==
  ASSUME NEW q \in Run, NEW led \in Seq(Record), \A k \in DOMAIN led : led[k].run < q.n,
         q.records = <<>>, q.pc = "request", q.at = 1
  PROVE  Books(q, led)
<1>1. Len(led) \in Nat /\ DOMAIN led = 1..Len(led) /\ q.texts \in Nat /\ Len(q.records) = 0
  BY LenProperties, RunFields
<1>2. Expected(q) = 0
  BY <1>1 DEF Expected, IsFile
<1>3. /\ Len(led) \in 0..Len(led) /\ \A k \in 1..Len(led) : led[k].run < q.n
      /\ Len(led) + Len(q.records) = Len(led) + Expected(q)
      /\ \A k \in Len(led)+1..Len(led) : FALSE
      /\ \A j \in 1..Len(q.records) : FALSE
  BY <1>1, <1>2
<1> QED BY <1>3 DEF Books

(* Nothing in hand, and what was told stays as it was.                      *)
LEMMA BooksCarry ==
  ASSUME NEW r \in Run, NEW q \in Run, NEW led \in Seq(Record), Books(r, led), q.n = r.n,
         r.records = <<>>, q.records = <<>>, Expected(q) = Expected(r), Expected(r) \in Nat,
         \A j \in 1..Expected(r) : Told(q, j) = Told(r, j)
  PROVE  Books(q, led)
<1>1. Len(led) \in Nat /\ Len(q.records) = 0 /\ Len(r.records) = 0
  BY LenProperties
<1>2. PICK b \in 0..Len(led) :
        /\ \A k \in 1..b : led[k].run < r.n
        /\ Len(led) + Len(r.records) = b + Expected(r)
        /\ \A k \in b+1..Len(led) : led[k] = Told(r, k - b)
  BY DEF Books
<1>3. Len(led) = b + Expected(r)
  BY <1>1, <1>2
<1>4. \A k \in b+1..Len(led) : led[k] = Told(q, k - b)
  <2> SUFFICES ASSUME NEW k \in b+1..Len(led) PROVE led[k] = Told(q, k - b)
    OBVIOUS
  <2>1. k - b \in 1..Expected(r)
    BY <1>1, <1>3
  <2> QED BY <1>2, <2>1
<1> QED BY SMTT(30), <1>1, <1>2, <1>4 DEF Books

(* A text, or a file, is reported: its records come to hand.                *)
LEMMA BooksFill ==
  ASSUME NEW r \in Run, NEW q \in Run, NEW led \in Seq(Record), Books(r, led), q.n = r.n,
         q.at = r.at, q.at >= 1, r.records = <<>>, r.pc \in {"request", "accepted"}, r.msg \notin Alerts,
         q.pc = "journal", NEW st \in {"sent", "maybe"}, st = "maybe" <=> q.result = "unknown",
         r.result = "ok", q.records = Records(r, st)
  PROVE  Books(q, led)
<1>1. Len(led) \in Nat /\ Len(r.records) = 0 /\ r.at \in Nat /\ Expected(q) = r.at
  BY LenProperties, RunFields DEF Expected
<1>2. PICK b \in 0..Len(led) :
        /\ \A k \in 1..b : led[k].run < r.n
        /\ Len(led) + Len(r.records) = b + Expected(r)
        /\ \A k \in b+1..Len(led) : led[k] = Told(r, k - b)
  BY DEF Books
<1>3. CASE IsFile(r)
  <2>1. q.records = <<Rec(r, r.at, st)>> /\ Len(q.records) = 1 /\ q.records[1] = Rec(r, r.at, st)
    BY <1>3 DEF Records
  <2>2. Len(led) = b + r.at - 1
    BY <1>1, <1>2, <1>3 DEF Expected
  <2>3. \A j \in 1..Len(q.records) : q.records[j] = Told(q, Len(led) - b + j)
    BY <1>1, <2>1, <2>2 DEF Told, Rec
  <2>4. ASSUME NEW k \in b+1..Len(led) PROVE led[k] = Told(q, k - b)
    <3>1. k - b # r.at
      BY <1>1, <2>2
    <3> QED BY <1>2, <3>1 DEF Told, Rec
  <2>5. Len(led) + Len(q.records) = b + Expected(q)
    BY <1>1, <2>1, <2>2
  <2> QED BY <1>2, <2>3, <2>4, <2>5 DEF Books
<1>4. CASE ~IsFile(r)
  <2>1. q.records = [i \in 1..r.at |-> Rec(r, i, IF i = r.at THEN st ELSE "sent")]
    BY <1>4 DEF Records
  <2>2. Len(q.records) = r.at
    BY <1>1, <2>1
  <2>3. Len(led) = b
    BY <1>1, <1>2, <1>4 DEF Expected
  <2>4. ASSUME NEW j \in 1..Len(q.records) PROVE q.records[j] = Told(q, Len(led) - b + j)
    <3>1. Len(led) - b + j = j
      BY <1>1, <2>2, <2>3
    <3>2. q.records[j] = Rec(r, j, IF j = r.at THEN st ELSE "sent")
      BY <2>1, <2>2
    <3> QED BY <3>1, <3>2 DEF Told, Rec
  <2>5. Len(led) + Len(q.records) = b + Expected(q)
    BY <1>1, <2>2, <2>3
  <2>6. \A k \in b+1..Len(led) : FALSE
    BY <1>1, <2>3
  <2> QED BY <1>2, <2>4, <2>5, <2>6 DEF Books
<1> QED BY <1>3, <1>4

(* The first record in hand is written.                                     *)
LEMMA BooksWrite ==
  ASSUME NEW r \in Run, NEW q \in Run, NEW led \in Seq(Record), Books(r, led), q.n = r.n, q.at = r.at,
         r.pc = "journal", q.pc = "journal", q.result = r.result, r.records # <<>>,
         q.records = Tail(r.records)
  PROVE  Books(q, Append(led, Head(r.records)))
<1> DEFINE new == Append(led, Head(r.records))
<1>1. /\ Len(led) \in Nat /\ Len(r.records) \in Nat /\ Len(q.records) = Len(r.records) - 1
      /\ Len(r.records) > 0 /\ r.at \in Nat /\ r.records \in Seq(Record)
      /\ \A j \in 1..Len(q.records) : q.records[j] = r.records[j + 1]
      /\ Head(r.records) = r.records[1] /\ Head(r.records) \in Record
  <2>1. r.records \in Seq(Record) /\ Len(r.records) \in Nat /\ r.at \in Nat /\ Len(led) \in Nat
    BY RunFields, LenProperties
  <2>2. Len(r.records) \in Nat \ {0}
    BY <2>1, EmptySeq
  <2> QED BY <2>1, <2>2, HeadTailProperties
<1>2. PICK b \in 0..Len(led) :
        /\ \A k \in 1..b : led[k].run < r.n
        /\ Len(led) + Len(r.records) = b + Expected(r)
        /\ \A k \in b+1..Len(led) : led[k] = Told(r, k - b)
        /\ \A j \in 1..Len(r.records) : r.records[j] = Told(r, Len(led) - b + j)
  BY DEF Books
<1>3. /\ Len(new) = Len(led) + 1 /\ new[Len(led) + 1] = Head(r.records)
      /\ \A k \in 1..Len(led) : new[k] = led[k]
  BY <1>1, AppendProperties
<1> HIDE DEF new
<1>4. Expected(q) = Expected(r) /\ \A j : Told(q, j) = Told(r, j)
  BY DEF Expected, Told, Rec
<1>5. Len(new) + Len(q.records) = b + Expected(q)
  <2>1. Expected(r) \in Nat
    BY <1>1 DEF Expected
  <2>2. Len(new) = Len(led) + 1 /\ Len(q.records) = Len(r.records) - 1 /\ Len(led) + Len(r.records) = b + Expected(r)
    BY <1>1, <1>2, <1>3
  <2>3. PICK l \in Nat, n \in Nat, e \in Nat : l = Len(led) /\ n = Len(r.records) /\ e = Expected(r)
    BY <1>1, <2>1
  <2>4. l + n = b + e /\ b \in Nat
    BY <1>1, <2>2, <2>3
  <2>5. (l + 1) + (n - 1) = b + e
    BY <2>4
  <2> QED BY <1>4, <2>2, <2>3, <2>5
<1>6. \A k \in 1..b : new[k].run < q.n
  <2> SUFFICES ASSUME NEW k \in 1..b PROVE new[k].run < q.n
    OBVIOUS
  <2>1. k \in 1..Len(led)
    BY <1>1
  <2>2. led[k].run < r.n
    BY <1>2
  <2> QED BY <1>3, <2>1, <2>2
<1>7. ASSUME NEW k \in b+1..Len(new) PROVE new[k] = Told(q, k - b)
  <2>1. CASE k = Len(led) + 1
    <3>1. 1 \in 1..Len(r.records) /\ k - b = Len(led) - b + 1
      BY <1>1, <2>1
    <3> QED BY <1>1, <1>2, <1>3, <1>4, <2>1, <3>1
  <2>2. CASE k # Len(led) + 1
    <3>1. k \in b+1..Len(led) /\ k \in 1..Len(led)
      BY <1>1, <1>3, <2>2
    <3> QED BY <1>2, <1>3, <1>4, <3>1
  <2> QED BY <2>1, <2>2
<1>8. ASSUME NEW j \in 1..Len(q.records) PROVE q.records[j] = Told(q, Len(new) - b + j)
  <2>1. j + 1 \in 1..Len(r.records) /\ Len(new) - b + j = Len(led) - b + (j + 1)
    BY <1>1, <1>3
  <2> QED BY <1>1, <1>2, <1>4, <2>1
<1>9. b \in 0..Len(new)
  BY <1>1, <1>3
<1> QED BY <1>5, <1>6, <1>7, <1>8, <1>9 DEF Books, new

(* What a step does to the records in hand and to the entry of its message: *)
(* a run opens, goes on with nothing in hand, has a part to book, writes or *)
(* loses a record, or is not tracked any more.                              *)
Same(r, q) == q.n = r.n /\ q.msg = r.msg
BooksKept(s) == ledger' = ledger /\ runs' = runs /\ ledgerFaults' = ledgerFaults

Opened(s, m) ==
  /\ run[s].pc = "idle" /\ run'[s].msg = m /\ run'[s].n = runs[m] + 1 /\ runs' = [runs EXCEPT ![m] = @ + 1]
  /\ run'[s].pc = "request" /\ run'[s].at = 1 /\ run'[s].records = <<>>
  /\ ledger' = ledger /\ ledgerFaults' = ledgerFaults /\ ~Runs(m)

Carried(s) ==
  /\ run[s].pc # "idle" /\ run'[s].pc # "idle" /\ Same(run[s], run'[s]) /\ BooksKept(s)
  /\ run[s].records = <<>> /\ run'[s].records = <<>>
  /\ Tracked(run'[s]) => Tracked(run[s])
  /\ Expected(run'[s]) = Expected(run[s])
  /\ Tracked(run'[s]) => \A j \in 1..Expected(run[s]) : Told(run'[s], j) = Told(run[s], j)
  /\ run'[s].pc = "journal" => run'[s].result # "ok"

Filled(s) ==
  /\ run[s].pc \in {"request", "accepted"} /\ run[s].result = "ok" /\ run[s].records = <<>>
  /\ run'[s].pc = "journal" /\ run'[s].at = run[s].at /\ Same(run[s], run'[s]) /\ BooksKept(s)
  /\ run'[s].result = "ok" => run[s].at >= run[s].texts
  /\ run'[s].texts = run[s].texts
  /\ \E st \in {"sent", "maybe"} : /\ st = "maybe" <=> run'[s].result = "unknown"
                                   /\ run'[s].records = Records(run[s], st)

Written(s) ==
  /\ run[s].pc = "journal" /\ run[s].records # <<>> /\ run'[s].pc = "journal" /\ run'[s].records = Tail(run[s].records)
  /\ run'[s].at = run[s].at /\ run'[s].texts = run[s].texts /\ run'[s].result = run[s].result
  /\ Same(run[s], run'[s]) /\ runs' = runs
  /\ \/ /\ ledger' = [ledger EXCEPT ![run[s].msg] = Append(@, Head(run[s].records))]
        /\ ledgerFaults' = ledgerFaults
     \/ ledger' = ledger /\ ledgerFaults' # 0

Dropped(s) ==
  /\ run[s].pc # "idle" /\ run'[s].records = <<>> /\ ~Tracked(run'[s]) /\ BooksKept(s)
  /\ run'[s].pc = "idle" \/ (Same(run[s], run'[s]) /\ run'[s].result # "ok")

BookStep(s) ==
  (\E m \in Messages : Opened(s, m)) \/ Carried(s) \/ Filled(s) \/ Written(s) \/ Dropped(s)

LEMMA BeginBooks ==
  ASSUME TypeOK, NEW s \in Senders, NEW m \in Messages, run[s].pc = "idle", Begin(s, m), ~Runs(m),
         ledger' = ledger, ledgerFaults' = ledgerFaults
  PROVE  Opened(s, m)
<1>1. PICK sh \in Shapes(m) :
        run' = [run EXCEPT ![s] = [Fresh EXCEPT !.pc = "request", !.msg = m, !.n = runs[m] + 1,
                 !.texts = sh[1], !.files = sh[2], !.at = 1, !.result = "ok"]]
  BY DEF Begin
<1> DEFINE r == [Fresh EXCEPT !.pc = "request", !.msg = m, !.n = runs[m] + 1,
                 !.texts = sh[1], !.files = sh[2], !.at = 1, !.result = "ok"]
<1>2. r.pc = "request" /\ r.msg = m /\ r.n = runs[m] + 1 /\ r.at = 1 /\ r.records = <<>>
  BY DEF Fresh
<1>3. run'[s] = r
  BY <1>1 DEF TypeOK
<1>4. runs' = [runs EXCEPT ![m] = @ + 1]
  BY DEF Begin
<1> HIDE DEF r
<1> QED BY <1>2, <1>3, <1>4 DEF Opened

LEMMA NextPartBooks ==
  ASSUME TypeOK, NEW s \in Senders, NextPart(s), BooksKept(s), run[s].pc # "idle",
         run[s].records = <<>>, run[s].result = "ok",
         \/ run[s].pc = "accepted" /\ run[s].at < run[s].texts
         \/ run[s].pc = "journal" /\ run[s].at >= run[s].texts
  PROVE  Carried(s)
<1>1. run[s] \in Run /\ run[s].at \in Nat /\ run[s].texts \in Nat
  BY RunFields DEF TypeOK
<1> DEFINE next == run[s].at + 1
           r == [run[s] EXCEPT !.pc = "request", !.at = next, !.attempt = 0, !.format = "html"]
<1>2. run'[s] = r
  BY DEF NextPart, TypeOK
<1>3. /\ r.pc = "request" /\ r.at = run[s].at + 1 /\ r.texts = run[s].texts /\ r.n = run[s].n /\ r.msg = run[s].msg
      /\ r.result = "ok" /\ r.records = <<>>
  BY <1>1 DEF Run
<1> HIDE DEF r
<1>4. Expected(r) = Expected(run[s])
  BY <1>1, <1>3 DEF Expected, IsFile
<1>5. \A j : Told(r, j) = Told(run[s], j)
  BY <1>3 DEF Told, Rec
<1>6. Tracked(r) => Tracked(run[s])
  BY <1>3 DEF Tracked
<1> QED BY <1>2, <1>3, <1>4, <1>5, <1>6 DEF Carried, Same

LEMMA StepBooks ==
  ASSUME IInv, Booked, NEW s \in Senders, StepOf(s)
  PROVE  BookStep(s)
<1>1. /\ TypeOK /\ run[s] \in Run /\ RunInv(run[s]) /\ Batch(run[s]) /\ run[s].at \in Nat /\ run[s].texts \in Nat
      /\ run[s].records \in Seq(Record) /\ run[s].msg \in Messages
  BY RunFields DEF IInv, TypeOK, Progress, Booked
<1>2. ASSUME NEW m \in Messages, Start(s, m) PROVE BookStep(s)
  <2>1. run[s].pc = "idle" /\ Begin(s, m) /\ ~Runs(m) /\ ledger' = ledger /\ ledgerFaults' = ledgerFaults
    BY <1>2 DEF Start, Runs
  <2> QED BY <1>1, <2>1, BeginBooks DEF BookStep
<1>3. ASSUME NEW m \in Messages, StartNotice(s, m) PROVE BookStep(s)
  <2>1. /\ run[s].pc = "idle" /\ Begin(s, m) /\ ledger' = ledger /\ ledgerFaults' = ledgerFaults
        /\ m \in Notices \ keyed
    BY <1>3 DEF StartNotice, FirstOfKey
  <2>2. ~Runs(m)
    BY <2>1 DEF IInv, KeyFirst
  <2> QED BY <1>1, <2>1, <2>2, BeginBooks DEF BookStep
<1>4. CASE Accepted(s)
  <2> DEFINE p == run[s].posted + 1
             r == [run[s] EXCEPT !.pc = "accepted", !.posted = p]
  <2>1. run' = [run EXCEPT ![s] = r] /\ run'[s] = r
    BY <1>1, <1>4 DEF Accepted, TypeOK
  <2>2. /\ r.pc = "accepted" /\ r.at = run[s].at /\ r.texts = run[s].texts /\ r.result = run[s].result
        /\ r.n = run[s].n /\ r.msg = run[s].msg /\ r.records = run[s].records
    BY <1>1 DEF Run
  <2>3. run[s].pc = "request" /\ BooksKept(s)
    BY <1>4 DEF Accepted, BooksKept
  <2> HIDE DEF r
  <2>4. Expected(r) = Expected(run[s]) /\ \A j : Told(r, j) = Told(run[s], j)
    BY <2>2, <2>3 DEF Expected, IsFile, Told, Rec
  <2>5. Tracked(r) => Tracked(run[s])
    BY <2>2, <2>3 DEF Tracked
  <2>6. run[s].records = <<>>
    BY <1>1, <2>3 DEF Batch
  <2> QED BY <2>1, <2>2, <2>3, <2>4, <2>5, <2>6 DEF BookStep, Carried, Same
<1>5. ASSUME Outcome(s, "failed", <<>>), run[s].pc = "request", BooksKept(s) PROVE Dropped(s)
  <2> DEFINE r == [run[s] EXCEPT !.pc = "journal", !.result = "failed", !.records = <<>>]
  <2>1. run'[s] = r
    BY <1>1, <1>5 DEF Outcome, TypeOK
  <2>2. /\ r.pc = "journal" /\ r.result = "failed" /\ r.records = <<>> /\ r.n = run[s].n /\ r.msg = run[s].msg
    BY <1>1 DEF Run
  <2> HIDE DEF r
  <2> QED BY <1>5, <2>1, <2>2 DEF Dropped, Same, Tracked
<1>6. CASE Rejected(s)
  BY <1>5, <1>6 DEF Rejected, BooksKept, BookStep
<1>7. CASE Refused(s)
  <2>1. run[s].pc = "request" /\ BooksKept(s) /\ run[s].records = <<>>
    BY <1>1, <1>7 DEF Refused, BooksKept, Batch
  <2>2. CASE run[s].attempt < Retries(run[s]) - 1
    <3> DEFINE r == [run[s] EXCEPT !.attempt = @ + 1]
    <3>1. run'[s] = r
      BY <1>1, <1>7, <2>2 DEF Refused, TypeOK
    <3>2. /\ r.pc = run[s].pc /\ r.at = run[s].at /\ r.texts = run[s].texts /\ r.result = run[s].result
          /\ r.n = run[s].n /\ r.msg = run[s].msg /\ r.records = run[s].records
      BY <1>1 DEF Run
    <3> HIDE DEF r
    <3>3. Expected(r) = Expected(run[s]) /\ \A j : Told(r, j) = Told(run[s], j)
      BY <3>2 DEF Expected, IsFile, Told, Rec
    <3>4. Tracked(r) => Tracked(run[s])
      BY <3>2 DEF Tracked
    <3> QED BY <2>1, <3>1, <3>2, <3>3, <3>4 DEF BookStep, Carried, Same
  <2>3. CASE ~(run[s].attempt < Retries(run[s]) - 1)
    BY <1>5, <1>7, <2>1, <2>3 DEF Refused, BookStep
  <2> QED BY <2>2, <2>3
<1>8. CASE RejectedHtml(s)
  <2>1. run[s].pc = "request" /\ BooksKept(s) /\ run[s].records = <<>>
    BY <1>1, <1>8 DEF RejectedHtml, BooksKept, Batch
  <2> DEFINE r == [run[s] EXCEPT !.format = "plain", !.attempt = 0]
  <2>2. run'[s] = r
    BY <1>1, <1>8 DEF RejectedHtml, TypeOK
  <2>3. /\ r.pc = run[s].pc /\ r.at = run[s].at /\ r.texts = run[s].texts /\ r.result = run[s].result
        /\ r.n = run[s].n /\ r.msg = run[s].msg /\ r.records = run[s].records
    BY <1>1 DEF Run
  <2> HIDE DEF r
  <2>4. Expected(r) = Expected(run[s]) /\ \A j : Told(r, j) = Told(run[s], j)
    BY <2>3 DEF Expected, IsFile, Told, Rec
  <2>5. Tracked(r) => Tracked(run[s])
    BY <2>3 DEF Tracked
  <2> QED BY <2>1, <2>2, <2>3, <2>4, <2>5 DEF BookStep, Carried, Same
<1>9. CASE LostAnswer(s)
  <2>1. PICK carriedOut \in BOOLEAN :
          run' = [run EXCEPT ![s].pc = "journal", ![s].result = "unknown", ![s].records = Records(run[s], "maybe"),
                             ![s].posted = IF carriedOut THEN @ + 1 ELSE @]
    BY <1>9 DEF LostAnswer
  <2>2. run[s].pc = "request" /\ run[s].result = "ok" /\ BooksKept(s) /\ run[s].records = <<>>
    BY <1>1, <1>9 DEF LostAnswer, BooksKept, Batch, RunInv
  <2> DEFINE p == IF carriedOut THEN run[s].posted + 1 ELSE run[s].posted
             r == [run[s] EXCEPT !.pc = "journal", !.result = "unknown", !.records = Records(run[s], "maybe"),
                                 !.posted = p]
  <2>3. run'[s] = r
    BY <1>1, <2>1 DEF TypeOK
  <2>4. /\ r.pc = "journal" /\ r.result = "unknown" /\ r.records = Records(run[s], "maybe")
        /\ r.at = run[s].at /\ r.texts = run[s].texts /\ r.n = run[s].n /\ r.msg = run[s].msg
    BY <1>1 DEF Run
  <2> HIDE DEF r
  <2>5. Filled(s)
    BY <2>2, <2>3, <2>4 DEF Filled, Same
  <2> QED BY <2>5 DEF BookStep
<1>10. CASE AnswerBreaks(s)
  <2>1. PICK carriedOut \in BOOLEAN :
          run' = [run EXCEPT ![s].pc = "journal", ![s].result = "none", ![s].posted = IF carriedOut THEN @ + 1 ELSE @]
    BY <1>10 DEF AnswerBreaks
  <2>2. run[s].pc = "request" /\ BooksKept(s) /\ run[s].records = <<>>
    BY <1>1, <1>10 DEF AnswerBreaks, BooksKept, Batch
  <2> DEFINE p == IF carriedOut THEN run[s].posted + 1 ELSE run[s].posted
             r == [run[s] EXCEPT !.pc = "journal", !.result = "none", !.posted = p]
  <2>3. run'[s] = r
    BY <1>1, <2>1 DEF TypeOK
  <2>4. /\ r.pc = "journal" /\ r.result = "none" /\ r.records = run[s].records
        /\ r.n = run[s].n /\ r.msg = run[s].msg
    BY <1>1 DEF Run
  <2> HIDE DEF r
  <2>5. Dropped(s)
    BY <2>2, <2>3, <2>4 DEF Dropped, Same, Tracked
  <2> QED BY <2>5 DEF BookStep
<1>11. CASE PartDone(s)
  <2>1. run[s].pc = "accepted" /\ run[s].result = "ok" /\ BooksKept(s) /\ run[s].records = <<>>
    BY <1>1, <1>11 DEF PartDone, BooksKept, Batch, RunInv
  <2>2. CASE run[s].at < run[s].texts
    <3>1. NextPart(s)
      BY <1>11, <2>2 DEF PartDone
    <3> QED BY <1>1, <2>1, <2>2, <3>1, NextPartBooks DEF BookStep
  <2>3. CASE ~(run[s].at < run[s].texts)
    <3>1. Outcome(s, "ok", Records(run[s], "sent"))
      BY <1>11, <2>3 DEF PartDone
    <3> DEFINE r == [run[s] EXCEPT !.pc = "journal", !.result = "ok", !.records = Records(run[s], "sent")]
    <3>2. run'[s] = r
      BY <1>1, <3>1 DEF Outcome, TypeOK
    <3>3. /\ r.pc = "journal" /\ r.result = "ok" /\ r.records = Records(run[s], "sent")
          /\ r.at = run[s].at /\ r.texts = run[s].texts /\ r.n = run[s].n /\ r.msg = run[s].msg
      BY <1>1 DEF Run
    <3> HIDE DEF r
    <3>4. run[s].at >= run[s].texts
      BY <1>1, <2>3
    <3>5. Filled(s)
      BY <2>1, <3>2, <3>3, <3>4 DEF Filled, Same
    <3> QED BY <3>5 DEF BookStep
  <2> QED BY <2>2, <2>3
<1>12. CASE Journal(s)
  <2> DEFINE r == [run[s] EXCEPT !.records = Tail(@)]
  <2>1. run'[s] = r
    BY <1>1, <1>12 DEF Journal, TypeOK
  <2>2. /\ r.pc = run[s].pc /\ r.result = run[s].result /\ r.records = Tail(run[s].records)
        /\ r.at = run[s].at /\ r.texts = run[s].texts /\ r.n = run[s].n /\ r.msg = run[s].msg
    BY <1>1 DEF Run
  <2> HIDE DEF r
  <2>3. run[s].pc = "journal" /\ run[s].records # <<>> /\ runs' = runs
    BY <1>12 DEF Journal
  <2>4. \/ /\ ledger' = [ledger EXCEPT ![run[s].msg] = Append(@, Head(run[s].records))]
           /\ ledgerFaults' = ledgerFaults
        \/ ledger' = ledger /\ ledgerFaults' # 0
    <3>1. ledgerFaults \in Nat
      BY <1>1, Bounds DEF TypeOK
    <3> QED BY <1>12, <3>1 DEF Journal
  <2>5. Written(s)
    BY <2>1, <2>2, <2>3, <2>4 DEF Written, Same
  <2> QED BY <2>5 DEF BookStep
<1>13. CASE Journaled(s)
  <2>1. run[s].pc = "journal" /\ run[s].records = <<>> /\ BooksKept(s) /\ run[s].result # "sent"
    BY <1>1, <1>13 DEF Journaled, BooksKept, RunInv
  <2>2. CASE run[s].result = "ok" /\ run[s].at < Length(run[s])
    <3>1. NextPart(s) /\ run[s].at >= run[s].texts
      BY <1>1, <1>13, <2>1, <2>2 DEF Journaled, Batch
    <3> QED BY <1>1, <2>1, <2>2, <3>1, NextPartBooks DEF BookStep
  <2>3. CASE ~(run[s].result = "ok" /\ run[s].at < Length(run[s]))
    <3> DEFINE v == IF run[s].result = "ok" THEN "sent" ELSE run[s].result
               r == [run[s] EXCEPT !.pc = "report", !.result = v]
    <3>1. run'[s] = r
      BY <1>1, <1>13, <2>3 DEF Journaled, TypeOK
    <3>2. /\ r.pc = "report" /\ r.at = run[s].at /\ r.n = run[s].n /\ r.msg = run[s].msg /\ r.records = run[s].records
          /\ r.result = IF run[s].result = "ok" THEN "sent" ELSE run[s].result
      BY <1>1 DEF Run
    <3> HIDE DEF r
    <3>3. Expected(r) = Expected(run[s]) /\ \A j : Told(r, j) = Told(run[s], j)
      BY <2>1, <3>2 DEF Expected, Told, Rec
    <3>4. Tracked(r) => Tracked(run[s])
      BY <2>1, <3>2 DEF Tracked
    <3> QED BY <2>1, <3>1, <3>2, <3>3, <3>4 DEF BookStep, Carried, Same
  <2> QED BY <2>2, <2>3
<1>14. CASE Report(s) \/ Kill(s)
  <2>1. run[s].pc # "idle" /\ run' = [run EXCEPT ![s] = Fresh] /\ BooksKept(s)
    BY <1>14 DEF Report, Kill, BooksKept
  <2>2. run'[s] = Fresh
    BY <1>1, <2>1 DEF TypeOK
  <2> QED BY <2>1, <2>2 DEF BookStep, Dropped, Fresh, Tracked
<1> QED BY <1>2, <1>3, <1>4, <1>6, <1>7, <1>8, <1>9, <1>10, <1>11, <1>12, <1>13, <1>14 DEF StepOf

LEMMA RunBooks ==
  ASSUME IInv, Numbered, Booked, NEW s \in Senders, StepOf(s)
  PROVE  /\ BookStep(s) /\ run[s] \in Run /\ run'[s] \in Run /\ Batch(run[s]) /\ RunInv(run[s])
         /\ run' = [run EXCEPT ![s] = run'[s]] /\ \A t \in Senders : t # s => run'[t] = run[t]
         /\ run[s].msg \in Messages /\ run[s].n \in Nat /\ run[s].at \in Nat /\ run[s].texts \in Nat
         /\ runs \in [Messages -> 0..MaxRuns] /\ ledger \in [Messages -> Seq(Record)] /\ ledgerFaults \in Nat
<1>1. TypeOK /\ Progress
  BY DEF IInv
<1>2. RunStep(s)
  BY <1>1, SenderStep
<1>3. BookStep(s)
  BY StepBooks
<1>4. run[s] \in Run /\ RunInv(run[s]) /\ run \in [Senders -> Run]
  BY <1>1 DEF TypeOK, Progress
<1>5. run[s].msg \in Messages /\ run[s].n \in Nat /\ run[s].at \in Nat /\ run[s].texts \in Nat
  BY <1>4, RunFields
<1>6. runs \in [Messages -> 0..MaxRuns] /\ ledger \in [Messages -> Seq(Record)] /\ ledgerFaults \in Nat
  BY <1>1, Bounds DEF TypeOK
<1>7. \A t \in Senders : t # s => run'[t] = run[t]
  BY <1>2, <1>4 DEF RunStep
<1> QED BY <1>2, <1>3, <1>4, <1>5, <1>6, <1>7 DEF RunStep, Booked

(* The record written is of the run in hand.                                *)
LEMMA WrittenRecord ==
  ASSUME NEW r \in Run, Batch(r), r.records # <<>>, NEW led \in Seq(Record)
  PROVE  /\ Head(r.records) \in Record /\ Head(r.records).run = r.n /\ Len(led) \in Nat
         /\ Append(led, Head(r.records)) \in Seq(Record)
         /\ DOMAIN Append(led, Head(r.records)) = 1..Len(led)+1 /\ DOMAIN led = 1..Len(led)
         /\ \A k \in 1..Len(led) : Append(led, Head(r.records))[k] = led[k]
         /\ Append(led, Head(r.records))[Len(led)+1] = Head(r.records)
         /\ Len(Tail(r.records)) = Len(r.records) - 1 /\ Len(r.records) \in Nat
         /\ \A j \in 1..Len(Tail(r.records)) : Tail(r.records)[j] = r.records[j + 1]
<1>1. r.records \in Seq(Record) /\ Len(r.records) \in Nat \ {0} /\ Len(led) \in Nat
  BY RunFields, LenProperties, EmptySeq
<1>2. /\ Head(r.records) \in Record /\ Head(r.records) = r.records[1] /\ Tail(r.records) \in Seq(Record)
      /\ Len(Tail(r.records)) = Len(r.records) - 1
      /\ \A j \in 1..Len(Tail(r.records)) : Tail(r.records)[j] = r.records[j + 1]
  BY <1>1, HeadTailProperties
<1>3. 1 \in 1..Len(r.records)
  BY <1>1
<1>4. Head(r.records).run = r.n
  BY <1>2, <1>3 DEF Batch
<1>5. /\ Append(led, Head(r.records)) \in Seq(Record) /\ Len(Append(led, Head(r.records))) = Len(led) + 1
      /\ \A k \in 1..Len(led) : Append(led, Head(r.records))[k] = led[k]
      /\ Append(led, Head(r.records))[Len(led)+1] = Head(r.records)
  BY <1>1, <1>2, AppendProperties
<1>6. DOMAIN Append(led, Head(r.records)) = 1..Len(led)+1 /\ DOMAIN led = 1..Len(led)
  BY <1>5, LenProperties
<1> QED BY <1>1, <1>2, <1>4, <1>5, <1>6

LEMMA NumberedStep ==
  ASSUME IInv, Numbered, Booked, NEW s \in Senders, StepOf(s)
  PROVE  Numbered'
<1>1. /\ BookStep(s) /\ run[s] \in Run /\ Batch(run[s]) /\ run[s].msg \in Messages
      /\ \A t \in Senders : t # s => run'[t] = run[t]
      /\ runs \in [Messages -> 0..MaxRuns] /\ ledger \in [Messages -> Seq(Record)]
  BY RunBooks
<1>2. CASE runs' = runs /\ ledger' = ledger /\ (run'[s].pc = "idle" \/ (Same(run[s], run'[s]) /\ run[s].pc # "idle"))
  BY <1>1, <1>2 DEF Numbered, Same
<1>3. ASSUME NEW m \in Messages, Opened(s, m) PROVE Numbered'
  <2>1. runs'[m] = runs[m] + 1 /\ runs[m] \in Nat /\ \A o \in Messages : o # m => runs'[o] = runs[o]
    BY <1>1, <1>3, Bounds DEF Opened
  <2>2. \A t \in Senders : t # s /\ run[t].pc # "idle" => run[t].msg # m
    BY <1>3 DEF Opened, Runs
  <2>3. \A t \in Senders : run'[t].pc # "idle" => run'[t].n = runs'[run'[t].msg]
    <3> SUFFICES ASSUME NEW t \in Senders, run'[t].pc # "idle" PROVE run'[t].n = runs'[run'[t].msg]
      OBVIOUS
    <3>1. CASE t = s
      BY <1>3, <2>1, <3>1 DEF Opened
    <3>2. CASE t # s
      <4>1. run'[t] = run[t] /\ run[t].msg # m /\ run[t].n = runs[run[t].msg] /\ run[t].msg \in Messages
        BY <1>1, <2>2, <3>2, RunFields DEF Numbered, IInv, TypeOK
      <4> QED BY <2>1, <4>1
    <3> QED BY <3>1, <3>2
  <2>4. \A o \in Messages : \A k \in DOMAIN ledger'[o] : ledger'[o][k].run <= runs'[o]
    <3> SUFFICES ASSUME NEW o \in Messages, NEW k \in DOMAIN ledger[o] PROVE ledger[o][k].run <= runs'[o]
      BY <1>3 DEF Opened
    <3>1. ledger[o][k].run <= runs[o] /\ ledger[o][k].run \in Nat /\ runs[o] \in Nat
      <4>1. ledger[o] \in Seq(Record) /\ runs[o] \in Nat
        BY <1>1, Bounds
      <4>2. ledger[o][k] \in Record
        BY <4>1, ElementOfSeq, LenProperties
      <4> QED BY <4>1, <4>2 DEF Numbered, Record
    <3> QED BY <2>1, <3>1
  <2> QED BY <2>3, <2>4 DEF Numbered
<1>4. CASE Written(s)
  <2>1. run'[s].n = run[s].n /\ run'[s].msg = run[s].msg /\ runs' = runs /\ run[s].pc # "idle" /\ run[s].records # <<>>
    BY <1>4 DEF Written, Same
  <2>2. \A t \in Senders : run'[t].pc # "idle" => run'[t].n = runs'[run'[t].msg]
    BY <1>1, <2>1 DEF Numbered
  <2>3. \A o \in Messages : \A k \in DOMAIN ledger'[o] : ledger'[o][k].run <= runs'[o]
    <3> SUFFICES ASSUME NEW o \in Messages, NEW k \in DOMAIN ledger'[o] PROVE ledger'[o][k].run <= runs[o]
      BY <2>1
    <3>1. CASE ledger'[o] = ledger[o]
      BY <3>1 DEF Numbered
    <3>2. CASE ledger'[o] # ledger[o]
      <4>1. o = run[s].msg /\ ledger'[o] = Append(ledger[o], Head(run[s].records))
        BY <1>1, <1>4, <3>2 DEF Written
      <4>2. ledger[o] \in Seq(Record)
        BY <1>1
      <4>3. CASE k \in DOMAIN ledger[o]
        <5>1. ledger'[o][k] = ledger[o][k]
          BY <1>1, <2>1, <4>1, <4>2, <4>3, WrittenRecord
        <5> QED BY <4>3, <5>1 DEF Numbered
      <4>4. CASE k \notin DOMAIN ledger[o]
        <5>1. ledger'[o][k].run = run[s].n
          BY <1>1, <2>1, <4>1, <4>2, <4>4, WrittenRecord
        <5>2. run[s].n = runs[o] /\ runs[o] \in Nat
          BY <1>1, <2>1, <4>1, Bounds DEF Numbered
        <5> QED BY <5>1, <5>2
      <4> QED BY <4>3, <4>4
    <3> QED BY <3>1, <3>2
  <2> QED BY <2>2, <2>3 DEF Numbered
<1>5. CASE Carried(s) \/ Filled(s) \/ Dropped(s)
  BY <1>2, <1>5 DEF Carried, Filled, Dropped, BooksKept, Tracked
<1> QED BY <1>1, <1>3, <1>4, <1>5 DEF BookStep

LEMMA BatchStep ==
  ASSUME IInv, Numbered, Booked, NEW s \in Senders, StepOf(s)
  PROVE  Batch(run'[s])
<1>1. /\ BookStep(s) /\ run[s] \in Run /\ run'[s] \in Run /\ Batch(run[s]) /\ run[s].at \in Nat
  BY RunBooks
<1>2. ASSUME run'[s].records = <<>>, run'[s].pc # "journal" \/ run'[s].result # "ok" PROVE Batch(run'[s])
  BY <1>2 DEF Batch
<1>3. ASSUME NEW m \in Messages, Opened(s, m) PROVE Batch(run'[s])
  BY <1>2, <1>3 DEF Opened
<1>4. CASE Carried(s)
  BY <1>2, <1>4 DEF Carried
<1>5. CASE Dropped(s)
  BY <1>2, <1>5 DEF Dropped
<1>6. CASE Filled(s)
  <2>1. PICK st \in {"sent", "maybe"} : run'[s].records = Records(run[s], st)
    BY <1>6 DEF Filled
  <2>2. \A j \in 1..Len(Records(run[s], st)) : Records(run[s], st)[j].run = run[s].n
    <3>1. CASE run[s].msg \in Alerts
      BY <3>1 DEF Records
    <3>2. CASE run[s].msg \notin Alerts /\ IsFile(run[s])
      <4>1. Records(run[s], st) = <<Rec(run[s], run[s].at, st)>>
        BY <3>2 DEF Records
      <4>2. Len(Records(run[s], st)) = 1 /\ Records(run[s], st)[1] = Rec(run[s], run[s].at, st)
        BY <4>1
      <4> QED BY <4>2 DEF Rec
    <3>3. CASE run[s].msg \notin Alerts /\ ~IsFile(run[s])
      <4>1. Records(run[s], st) = [i \in 1..run[s].at |-> Rec(run[s], i, IF i = run[s].at THEN st ELSE "sent")]
        BY <3>3 DEF Records
      <4>2. Len(Records(run[s], st)) = run[s].at
        BY <1>1, <4>1
      <4>3. \A j \in 1..run[s].at :
              Records(run[s], st)[j] = Rec(run[s], j, IF j = run[s].at THEN st ELSE "sent")
        BY <4>1
      <4>4. \A j, x : Rec(run[s], j, x).run = run[s].n
        BY DEF Rec
      <4> QED BY <4>2, <4>3, <4>4
    <3> QED BY <3>1, <3>2, <3>3
  <2> QED BY <1>6, <2>1, <2>2 DEF Filled, Batch, Same
<1>7. CASE Written(s)
  <2>1. run[s].records # <<>> /\ run'[s].records = Tail(run[s].records) /\ run'[s].n = run[s].n
    BY <1>7 DEF Written, Same
  <2>2. /\ Len(Tail(run[s].records)) = Len(run[s].records) - 1 /\ Len(run[s].records) \in Nat
        /\ \A j \in 1..Len(Tail(run[s].records)) : Tail(run[s].records)[j] = run[s].records[j + 1]
    <3>1. <<>> \in Seq(Record)
      BY EmptySeq
    <3> QED BY <1>1, <2>1, <3>1, WrittenRecord
  <2>3. \A j \in 1..Len(run'[s].records) : run'[s].records[j].run = run'[s].n
    <3> SUFFICES ASSUME NEW j \in 1..Len(run'[s].records) PROVE run'[s].records[j].run = run'[s].n
      OBVIOUS
    <3>1. j + 1 \in 1..Len(run[s].records)
      BY <2>1, <2>2
    <3> QED BY <1>1, <2>1, <2>2, <3>1 DEF Batch
  <2> QED BY <1>1, <1>7, <2>3 DEF Written, Batch
<1> QED BY <1>1, <1>3, <1>4, <1>5, <1>6, <1>7 DEF BookStep

LEMMA BooksStep ==
  ASSUME IInv, Numbered, Booked, NEW s \in Senders, StepOf(s), Tracked(run'[s]), ledgerFaults' = 0
  PROVE  Books(run'[s], ledger'[run'[s].msg])
<1>1. /\ BookStep(s) /\ run[s] \in Run /\ run'[s] \in Run /\ Batch(run[s]) /\ RunInv(run[s])
      /\ run[s].msg \in Messages /\ run[s].n \in Nat /\ run[s].at \in Nat /\ run[s].texts \in Nat
      /\ runs \in [Messages -> 0..MaxRuns] /\ ledger \in [Messages -> Seq(Record)] /\ ledgerFaults \in Nat
  BY RunBooks
<1>2. ledger[run[s].msg] \in Seq(Record)
  BY <1>1
<1>3. Tracked(run[s]) /\ ledgerFaults = 0 => Books(run[s], ledger[run[s].msg])
  BY DEF Booked
<1>4. ASSUME NEW m \in Messages, Opened(s, m) PROVE Books(run'[s], ledger'[run'[s].msg])
  <2>1. /\ run'[s].msg = m /\ run'[s].n = runs[m] + 1 /\ run'[s].pc = "request" /\ run'[s].at = 1
        /\ run'[s].records = <<>> /\ ledger' = ledger /\ ledger[m] \in Seq(Record) /\ runs[m] \in Nat
    BY <1>1, <1>4, Bounds DEF Opened
  <2>2. \A k \in DOMAIN ledger[m] : ledger[m][k].run < run'[s].n
    <3> SUFFICES ASSUME NEW k \in DOMAIN ledger[m] PROVE ledger[m][k].run < runs[m] + 1
      BY <2>1
    <3>1. ledger[m][k] \in Record
      BY <2>1, ElementOfSeq, LenProperties
    <3> QED BY <2>1, <3>1 DEF Numbered, Record
  <2> QED BY <1>1, <2>1, <2>2, BooksOpen
<1>5. CASE Carried(s)
  <2>1. /\ run'[s].msg = run[s].msg /\ run'[s].n = run[s].n /\ ledger' = ledger /\ ledgerFaults = 0
        /\ run[s].records = <<>> /\ run'[s].records = <<>> /\ Tracked(run[s])
        /\ Expected(run'[s]) = Expected(run[s])
        /\ \A j \in 1..Expected(run[s]) : Told(run'[s], j) = Told(run[s], j)
    BY <1>5 DEF Carried, Same, BooksKept
  <2>2. Expected(run[s]) \in Nat
    <3>1. run[s].at >= 1
      BY <1>1, <1>5 DEF Carried, RunInv
    <3> QED BY <1>1, <3>1 DEF Expected
  <2>3. Books(run[s], ledger[run[s].msg])
    BY <1>3, <2>1
  <2> QED BY <1>1, <1>2, <2>1, <2>2, <2>3, BooksCarry
<1>6. CASE Filled(s)
  <2>1. /\ run'[s].msg = run[s].msg /\ run'[s].n = run[s].n /\ ledger' = ledger /\ ledgerFaults = 0
        /\ run[s].pc \in {"request", "accepted"} /\ run[s].result = "ok" /\ run[s].records = <<>>
        /\ run'[s].pc = "journal" /\ run'[s].at = run[s].at
    BY <1>6 DEF Filled, Same, BooksKept
  <2>2. PICK st \in {"sent", "maybe"} : /\ st = "maybe" <=> run'[s].result = "unknown"
                                        /\ run'[s].records = Records(run[s], st)
    BY <1>6 DEF Filled
  <2>3. run[s].msg \notin Alerts /\ run'[s].at >= 1
    BY <1>1, <2>1 DEF Tracked, RunInv
  <2>4. Books(run[s], ledger[run[s].msg])
    BY <1>3, <2>1, <2>3 DEF Tracked
  <2> QED BY <1>1, <1>2, <2>1, <2>2, <2>3, <2>4, BooksFill
<1>7. CASE Written(s)
  <2>1. /\ run'[s].msg = run[s].msg /\ run'[s].n = run[s].n /\ run'[s].at = run[s].at
        /\ run'[s].result = run[s].result /\ run[s].pc = "journal" /\ run'[s].pc = "journal"
        /\ run[s].records # <<>> /\ run'[s].records = Tail(run[s].records)
    BY <1>7 DEF Written, Same
  <2>2. ledgerFaults = 0 /\ ledger'[run[s].msg] = Append(ledger[run[s].msg], Head(run[s].records))
    BY <1>1, <1>7 DEF Written
  <2>3. Tracked(run[s])
    BY <2>1 DEF Tracked
  <2>4. Books(run[s], ledger[run[s].msg])
    BY <1>3, <2>2, <2>3
  <2> QED BY <1>1, <1>2, <2>1, <2>2, <2>4, BooksWrite
<1>8. CASE Dropped(s)
  BY <1>8 DEF Dropped
<1> QED BY <1>1, <1>4, <1>5, <1>6, <1>7, <1>8 DEF BookStep

LEMMA BookedStep ==
  ASSUME IInv, Numbered, Booked, NEW s \in Senders, StepOf(s)
  PROVE  Booked'
<1>1. /\ BookStep(s) /\ run[s] \in Run /\ run[s].msg \in Messages /\ ledger \in [Messages -> Seq(Record)]
      /\ \A t \in Senders : t # s => run'[t] = run[t]
  BY RunBooks
<1>2. ASSUME NEW t \in Senders, t # s, Tracked(run[t]), ledgerFaults' = 0
      PROVE  Books(run[t], ledger'[run[t].msg])
  <2>1. ledgerFaults = 0
    BY <1>1, <1>2 DEF BookStep, Opened, Carried, Filled, Written, Dropped, BooksKept
  <2>2. ledger'[run[t].msg] = ledger[run[t].msg]
    <3>1. CASE ledger' = ledger
      BY <3>1
    <3>2. CASE Written(s)
      <4>1. run[s].pc # "idle" /\ run[t].pc # "idle"
        BY <1>2, <3>2 DEF Written, Tracked
      <4>2. run[t].msg # run[s].msg
        BY <1>2, <4>1 DEF IInv, OneRun
      <4>3. run[t].msg \in Messages
        BY RunFields DEF IInv, TypeOK
      <4> QED BY <1>1, <3>2, <4>2, <4>3 DEF Written
    <3> QED BY <1>1, <3>1, <3>2 DEF BookStep, Opened, Carried, Filled, Dropped, BooksKept
  <2> QED BY <1>2, <2>1, <2>2 DEF Booked
<1>3. Batch(run'[s])
  BY BatchStep
<1>4. Tracked(run'[s]) /\ ledgerFaults' = 0 => Books(run'[s], ledger'[run'[s].msg])
  BY BooksStep
<1>5. ASSUME NEW t \in Senders
      PROVE  /\ Batch(run'[t])
             /\ Tracked(run'[t]) /\ ledgerFaults' = 0 => Books(run'[t], ledger'[run'[t].msg])
  <2>1. CASE t = s
    BY <1>3, <1>4, <2>1
  <2>2. CASE t # s
    BY <1>1, <1>2, <2>2 DEF Booked
  <2> QED BY <2>1, <2>2
<1> QED BY <1>5 DEF Booked

(* What a run whose end is told has in the ledger.                          *)
LEMMA BooksHonest ==
  ASSUME NEW s \in Senders, run[s] \in Run, run[s].pc = "report", run[s].at \in 1..MaxParts,
         run[s].records = <<>>, ledger[run[s].msg] \in Seq(Record), Books(run[s], ledger[run[s].msg])
  PROVE  /\ Cardinality(RecordsOf(s)) = run[s].at
         /\ \A i \in 1..run[s].at : \E k \in RecordsOf(s) :
              /\ ledger[run[s].msg][k].part = i
              /\ ledger[run[s].msg][k].st = IF i = run[s].at /\ run[s].result = "unknown" THEN "maybe" ELSE "sent"
<1> DEFINE r == run[s]
           led == ledger[run[s].msg]
<1>1. Len(led) \in Nat /\ DOMAIN led = 1..Len(led) /\ Expected(r) = r.at /\ r.at \in Nat /\ r.n \in Nat
  BY LenProperties, RunFields DEF Expected
<1>2. PICK b \in 0..Len(led) :
        /\ \A k \in 1..b : led[k].run < r.n
        /\ Len(led) + Len(r.records) = b + Expected(r)
        /\ \A k \in b+1..Len(led) : led[k] = Told(r, k - b)
  BY DEF Books
<1>3. Len(r.records) = 0
  OBVIOUS
<1>4. Len(led) = b + r.at /\ b \in Nat
  BY <1>1, <1>2, <1>3
<1>5. \A k \in 1..Len(led) : led[k] \in Record /\ led[k].run \in Nat
  <2>1. \A k \in 1..Len(led) : led[k] \in Record
    BY ElementOfSeq
  <2>2. \A x \in Record : x.run \in Nat
    BY DEF Record
  <2> QED BY <2>1, <2>2
<1>6. \A k \in 1..b : led[k].run # r.n
  <2> SUFFICES ASSUME NEW k \in 1..b PROVE led[k].run # r.n
    OBVIOUS
  <2>1. k \in 1..Len(led)
    BY <1>1
  <2> QED BY <1>1, <1>2, <1>5, <2>1
<1>0. \A j : /\ Told(r, j).run = r.n /\ Told(r, j).part = j
             /\ Told(r, j).st = IF j = r.at /\ r.result = "unknown" THEN "maybe" ELSE "sent"
  BY DEF Told, Rec
<1> HIDE DEF r, led
<1>7. \A k \in b+1..Len(led) : led[k].run = r.n
  BY <1>2, <1>0
<1>8. RecordsOf(s) = b+1..b+r.at
  <2>1. \A k : k \in 1..b+r.at <=> k \in 1..b \/ k \in b+1..b+r.at
    BY <1>1, <1>4
  <2>2. RecordsOf(s) = {k \in DOMAIN led : led[k].run = r.n}
    BY DEF RecordsOf, r, led
  <2> QED BY <1>1, <1>4, <1>6, <1>7, <2>1, <2>2
<1>9. Cardinality(b+1..b+r.at) = r.at
  <2>1. b + 1 \in Int /\ b + r.at \in Int
    BY <1>1, <1>4
  <2>2. PICK x \in Int, y \in Int : x = b + 1 /\ y = b + r.at
    BY <2>1
  <2>3. Cardinality(x..y) = IF x > y THEN 0 ELSE y - x + 1
    BY FS_Interval
  <2> QED BY <1>1, <1>4, <2>2, <2>3
<1>10. ASSUME NEW i \in 1..r.at
       PROVE  \E k \in RecordsOf(s) :
                led[k].part = i /\ led[k].st = IF i = r.at /\ r.result = "unknown" THEN "maybe" ELSE "sent"
  <2>1. b + i \in RecordsOf(s) /\ b + i \in b+1..Len(led) /\ (b + i) - b = i
    BY <1>1, <1>4, <1>8
  <2>2. led[b + i] = Told(r, i)
    BY <1>2, <2>1
  <2> QED BY <1>0, <2>1, <2>2
<1> QED BY <1>8, <1>9, <1>10 DEF r, led

(* A command that ends as sent or unknown finds every part it tried in the  *)
(* ledger exactly once, and as a maybe only the one whose answer was lost,  *)
(* whatever other commands, runs and kills wrote in between.                *)
THEOREM LedgerIsHonest == Spec => []LedgerHonest
<1>1. Init => Numbered /\ Booked
  <2> SUFFICES ASSUME Init PROVE Numbered /\ Booked
    OBVIOUS
  <2>1. \A s \in Senders : run[s] = Fresh
    BY DEF Init
  <2>2. \A m \in Messages : ledger[m] = <<>>
    BY DEF Init
  <2>3. Fresh.pc = "idle" /\ Fresh.records = <<>>
    BY DEF Fresh
  <2>4. \A m \in Messages : DOMAIN ledger[m] = {}
    BY <2>2
  <2> QED BY <2>1, <2>3, <2>4 DEF Numbered, Booked, Batch, Tracked
<1>2. IInv /\ Numbered /\ Booked /\ [Next]_vars => (Numbered /\ Booked)'
  <2> SUFFICES ASSUME IInv, Numbered, Booked, [Next]_vars PROVE Numbered' /\ Booked'
    OBVIOUS
  <2>1. CASE Next
    <3>1. PICK s \in Senders : StepOf(s)
      BY <2>1, NextIsStep
    <3> QED BY <3>1, NumberedStep, BookedStep
  <2>2. CASE UNCHANGED vars
    <3>1. run' = run /\ runs' = runs /\ ledger' = ledger /\ ledgerFaults' = ledgerFaults
      BY <2>2 DEF vars
    <3> QED BY <3>1 DEF Numbered, Booked
  <2> QED BY <2>1, <2>2
<1>3. IInv /\ Numbered /\ Booked => LedgerHonest
  <2> SUFFICES ASSUME IInv, Numbered, Booked, NEW s \in Senders, run[s].pc = "report",
                      run[s].result \in Settled, ledgerFaults = 0, run[s].msg \notin Alerts
               PROVE  /\ Cardinality(RecordsOf(s)) = run[s].at
                      /\ \A i \in 1..run[s].at : \E k \in RecordsOf(s) :
                           /\ ledger[run[s].msg][k].part = i
                           /\ ledger[run[s].msg][k].st
                                = IF i = run[s].at /\ run[s].result = "unknown" THEN "maybe" ELSE "sent"
    BY DEF LedgerHonest
  <2>1. run[s] \in Run /\ run[s].at \in 1..MaxParts
    BY RequestShape DEF IInv, TypeOK, Progress
  <2>2. Tracked(run[s]) /\ Batch(run[s]) /\ Books(run[s], ledger[run[s].msg])
    BY DEF Tracked, Settled, Booked
  <2>3. ledger[run[s].msg] \in Seq(Record)
    BY <2>1, RunFields DEF IInv, TypeOK
  <2> QED BY <2>1, <2>2, <2>3, BooksHonest DEF Batch
<1> QED BY <1>1, <1>2, <1>3, Invariant, PTL DEF Spec
=============================================================================
