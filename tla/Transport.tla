----------------------------- MODULE Transport -----------------------------
(***************************************************************************)
(* Posting to Telegram without posting twice: the Bot API call and how it   *)
(* classifies failures, messages of several parts, the outbox ledger, and   *)
(* what the callers do with the outcome: send and ask, whose session may    *)
(* run them again; notify, whose key is spent before it posts; and the      *)
(* model watchdog, which marks an alert once it is out.                     *)
(*                                                                         *)
(* Telegram is environment: a request may fail before it is made, be        *)
(* answered, or lose its answer after it was carried out or not.            *)
(***************************************************************************)
EXTENDS Integers, Sequences, FiniteSets

CONSTANTS
  Senders,               \* processes
  Sends, Asks, Notices, Alerts, \* messages, by the command that posts them
  AnswersBreak,          \* an answer may break off while it is read
  MaxTexts, MaxFiles,    \* bound: chunks of the text, files
  MaxMessages,           \* bound: how many of the messages are posted at all
  MaxRuns,               \* bound: how often a command is run
  MaxLedgerFaults,       \* bound: ledger writes that fail
  MaxKills               \* bound: commands killed

Messages == Sends \cup Asks \cup Notices \cup Alerts
MaxParts == MaxTexts + MaxFiles
SentByHand == Sends \cup Asks

ASSUME TransportAssumption ==
  /\ MaxTexts \in Nat \ {0} /\ MaxFiles \in Nat /\ AnswersBreak \in BOOLEAN
  /\ {MaxMessages, MaxRuns, MaxLedgerFaults, MaxKills} \subseteq Nat
  /\ Messages # {} /\ Sends \cap Asks = {}
  /\ (Sends \cup Asks) \cap Notices = {} /\ (Sends \cup Asks \cup Notices) \cap Alerts = {}

VARIABLES
  run,       \* each process: the command it runs
  told,      \* what a message's caller heard last: "never", "settled", "again"
  keyed,     \* notices whose key is in the inbox
  ledger,    \* outbox.jsonl: the records of each message, in order
  posts,     \* how often each part of a message was posted (history)
  runs,      \* how often each message's command was run (history)
  excused,   \* messages that had a run killed, or failed half-way, or broken (history)
  ledgerFaults, kills

vars == <<run, told, keyed, ledger, posts, runs, excused, ledgerFaults, kills>>

Parts == 1..MaxParts
Record == [run : Nat, part : Parts, st : {"sent", "maybe"}]
Run == [pc : {"idle", "request", "accepted", "journal", "report"},
        msg : Messages, n : 0..MaxRuns, texts : 0..MaxTexts, files : 0..MaxFiles,
        at : 0..MaxParts, attempt : 0..2, format : {"html", "plain"}, posted : Nat,
        records : Seq(Record), result : {"ok", "sent", "failed", "unknown", "none"}]

Fresh == [pc |-> "idle", msg |-> CHOOSE m \in Messages : TRUE, n |-> 0, texts |-> 0, files |-> 0,
          at |-> 0, attempt |-> 0, format |-> "html", posted |-> 0, records |-> <<>>, result |-> "none"]

Init ==
  /\ run = [s \in Senders |-> Fresh]
  /\ told = [m \in Messages |-> "never"]
  /\ keyed = {} /\ ledger = [m \in Messages |-> <<>>]
  /\ posts = [m \in Messages |-> [i \in Parts |-> 0]]
  /\ runs = [m \in Messages |-> 0] /\ excused = {}
  /\ ledgerFaults = 0 /\ kills = 0

---------------------------------------------------------------------------
Length(r) == r.texts + r.files
IsFile(r) == r.at > r.texts

(* api() tries three times, an upload once; an alert is no text to format.  *)
Retries(r) == IF IsFile(r) THEN 1 ELSE 3

Outcome(s, result, records) ==
  run' = [run EXCEPT ![s].pc = "journal", ![s].result = result, ![s].records = records]

Posted(s) ==
  posts' = [posts EXCEPT ![run[s].msg][run[s].at] = @ + 1]

---------------------------------------------------------------------------
(* A command starts *)

(* A long caption goes out as a text of its own before the files.           *)
Shapes(m) ==
  CASE m \in Sends -> {sh \in (0..MaxTexts) \X (0..MaxFiles) : sh[1] + sh[2] > 0}
    [] m \in Alerts -> {<<1, 0>>}
    [] OTHER -> (1..MaxTexts) \X {0}

Begin(s, m) ==
  /\ Cardinality({o \in Messages : runs[o] > 0} \cup {m}) <= MaxMessages
  /\ runs[m] < MaxRuns /\ runs' = [runs EXCEPT ![m] = @ + 1]
  /\ \E sh \in Shapes(m) :
       run' = [run EXCEPT ![s] = [Fresh EXCEPT !.pc = "request", !.msg = m, !.n = runs[m] + 1,
                 !.texts = sh[1], !.files = sh[2], !.at = 1, !.result = "ok"]]

(* A session runs one command at a time and repeats one that failed; the    *)
(* watchdog's timer starts one sweep at a time, which repeats an alert      *)
(* that is not marked.                                                      *)
Start(s, m) ==
  /\ run[s].pc = "idle" /\ m \in SentByHand \cup Alerts /\ told[m] # "settled"
  /\ \A t \in Senders : run[t].pc # "idle" => run[t].msg # m
  /\ Begin(s, m)
  /\ UNCHANGED <<told, keyed, ledger, posts, excused, ledgerFaults, kills>>

(* Mutant: the key is not looked for.                                       *)
AnyKey(m) == TRUE

FirstOfKey(m) == m \notin keyed

(* notify stores the record under its key, and only the first one goes on.  *)
StartNotice(s, m) ==
  /\ run[s].pc = "idle" /\ m \in Notices /\ FirstOfKey(m)
  /\ keyed' = keyed \cup {m}
  /\ Begin(s, m)
  /\ UNCHANGED <<told, ledger, posts, excused, ledgerFaults, kills>>

---------------------------------------------------------------------------
(* One request *)

Accepted(s) ==
  /\ run[s].pc = "request"
  /\ run' = [run EXCEPT ![s].pc = "accepted", ![s].posted = @ + 1]
  /\ Posted(s)
  /\ UNCHANGED <<told, keyed, ledger, runs, excused, ledgerFaults, kills>>

(* Connection refused, or no address: it was never made, and is retried.    *)
Refused(s) ==
  /\ run[s].pc = "request"
  /\ IF run[s].attempt < Retries(run[s]) - 1
       THEN run' = [run EXCEPT ![s].attempt = @ + 1]
       ELSE Outcome(s, "failed", <<>>)
  /\ UNCHANGED <<told, keyed, ledger, posts, runs, excused, ledgerFaults, kills>>

(* What the ledger gets: a text is recorded when its last chunk is out or   *)
(* a chunk's answer is lost, a file at once, an alert never.                *)
Rec(r, i, st) == [run |-> r.n, part |-> i, st |-> st]

(* Mutant: the chunks that were posted before the lost one are forgotten.   *)
LastOnly(r, st) == IF r.msg \in Alerts THEN <<>> ELSE <<Rec(r, r.at, st)>>

Records(r, st) ==
  IF r.msg \in Alerts THEN <<>>
  ELSE IF IsFile(r) THEN <<Rec(r, r.at, st)>>
  ELSE [i \in 1..r.at |-> Rec(r, i, IF i = r.at THEN st ELSE "sent")]

(* Mutant: a lost answer is retried.                                        *)
RetryLost(s) ==
  /\ run[s].pc = "request"
  /\ \/ run' = [run EXCEPT ![s].attempt = (@ + 1) % 3, ![s].posted = @ + 1] /\ Posted(s)
     \/ Outcome(s, "unknown", Records(run[s], "maybe")) /\ UNCHANGED posts
  /\ UNCHANGED <<told, keyed, ledger, runs, excused, ledgerFaults, kills>>

(* Connected, no answer: PossiblyDelivered, never retried.                  *)
LostAnswer(s) ==
  /\ run[s].pc = "request"
  /\ \E carriedOut \in BOOLEAN :
       /\ run' = [run EXCEPT ![s].pc = "journal", ![s].result = "unknown",
                             ![s].records = Records(run[s], "maybe"),
                             ![s].posted = IF carriedOut THEN @ + 1 ELSE @]
       /\ IF carriedOut THEN Posted(s) ELSE UNCHANGED posts
  /\ UNCHANGED <<told, keyed, ledger, runs, excused, ledgerFaults, kills>>

(* Answered with an error; or a file that can no longer be read.            *)
Rejected(s) ==
  /\ run[s].pc = "request"
  /\ Outcome(s, "failed", <<>>)
  /\ UNCHANGED <<told, keyed, ledger, posts, runs, excused, ledgerFaults, kills>>

(* An error that says "parse": the part goes out once more, unformatted.    *)
(* The caption rides the first file.                                        *)
RejectedHtml(s) ==
  /\ run[s].pc = "request" /\ run[s].format = "html"
  /\ run[s].msg \notin Alerts /\ (IsFile(run[s]) => run[s].at = 1)
  /\ run' = [run EXCEPT ![s].format = "plain", ![s].attempt = 0]
  /\ UNCHANGED <<told, keyed, ledger, posts, runs, excused, ledgerFaults, kills>>

(* An answer that breaks off, or is no JSON, raises what api() does not     *)
(* classify.                                                                *)
AnswerBreaks(s) ==
  /\ AnswersBreak /\ run[s].pc = "request"
  /\ \E carriedOut \in BOOLEAN :
       /\ run' = [run EXCEPT ![s].pc = "journal", ![s].result = "none",
                             ![s].posted = IF carriedOut THEN @ + 1 ELSE @]
       /\ IF carriedOut THEN Posted(s) ELSE UNCHANGED posts
  /\ UNCHANGED <<told, keyed, ledger, runs, excused, ledgerFaults, kills>>

---------------------------------------------------------------------------
(* Between parts, and the end *)

NextPart(s) ==
  run' = [run EXCEPT ![s].pc = "request", ![s].at = @ + 1, ![s].attempt = 0, ![s].format = "html"]

PartDone(s) ==
  /\ run[s].pc = "accepted"
  /\ IF run[s].at < run[s].texts THEN NextPart(s) ELSE Outcome(s, "ok", Records(run[s], "sent"))
  /\ UNCHANGED <<told, keyed, ledger, posts, runs, excused, ledgerFaults, kills>>

(* The ledger is best effort: a write that fails is only told.              *)
Journal(s) ==
  /\ run[s].pc = "journal" /\ run[s].records # <<>>
  /\ run' = [run EXCEPT ![s].records = Tail(@)]
  /\ \/ ledger' = [ledger EXCEPT ![run[s].msg] = Append(@, Head(run[s].records))] /\ UNCHANGED ledgerFaults
     \/ /\ ledgerFaults < MaxLedgerFaults /\ ledgerFaults' = ledgerFaults + 1
        /\ UNCHANGED ledger
  /\ UNCHANGED <<told, keyed, posts, runs, excused, kills>>

Journaled(s) ==
  /\ run[s].pc = "journal" /\ run[s].records = <<>>
  /\ IF run[s].result = "ok" /\ run[s].at < Length(run[s])
       THEN NextPart(s)
       ELSE run' = [run EXCEPT ![s].pc = "report", ![s].result = IF @ = "ok" THEN "sent" ELSE @]
  /\ UNCHANGED <<told, keyed, ledger, posts, runs, excused, ledgerFaults, kills>>

(* Mutant: a lost answer exits like a failure.                              *)
SentOnly == {"sent"}

(* send exits 0 and ask waits for the reply; the watchdog marks the alert.  *)
Settled == {"sent", "unknown"}

Report(s) ==
  LET r == run[s] IN
  /\ r.pc = "report"
  /\ run' = [run EXCEPT ![s] = Fresh]
  /\ told' = [told EXCEPT ![r.msg] = IF r.result \in Settled THEN "settled" ELSE "again"]
  /\ excused' = IF r.result = "none" \/ (r.result = "failed" /\ r.posted > 0)
                  THEN excused \cup {r.msg} ELSE excused
  /\ UNCHANGED <<keyed, ledger, posts, runs, ledgerFaults, kills>>

(* The process is killed: its caller hears nothing, an alert stays unmarked. *)
Kill(s) ==
  /\ run[s].pc # "idle" /\ kills < MaxKills /\ kills' = kills + 1
  /\ run' = [run EXCEPT ![s] = Fresh]
  /\ told' = [told EXCEPT ![run[s].msg] = "again"]
  /\ excused' = excused \cup {run[s].msg}
  /\ UNCHANGED <<keyed, ledger, posts, runs, ledgerFaults>>

---------------------------------------------------------------------------
Next ==
  \E s \in Senders :
    \/ \E m \in Messages : Start(s, m) \/ StartNotice(s, m)
    \/ Accepted(s) \/ Refused(s) \/ LostAnswer(s) \/ Rejected(s) \/ RejectedHtml(s) \/ AnswerBreaks(s)
    \/ PartDone(s) \/ Journal(s) \/ Journaled(s) \/ Report(s) \/ Kill(s)

Spec == Init /\ [][Next]_vars

---------------------------------------------------------------------------
TypeOK ==
  /\ run \in [Senders -> Run]
  /\ told \in [Messages -> {"never", "settled", "again"}]
  /\ keyed \subseteq Notices /\ ledger \in [Messages -> Seq(Record)]
  /\ posts \in [Messages -> [Parts -> Nat]] /\ runs \in [Messages -> 0..MaxRuns]
  /\ excused \subseteq Messages /\ ledgerFaults \in 0..MaxLedgerFaults /\ kills \in 0..MaxKills

Verdict(r) == IF r.pc \in {"idle", "report"} THEN r.result ELSE "open"

(* Each run of a command keeps the promise of Outbound: parts in order,     *)
(* none posted twice, and a verdict that is true.                           *)
Promise == INSTANCE Outbound WITH
  length <- [s \in Senders |-> Length(run[s])],
  inHand <- [s \in Senders |-> run[s].at],
  posted <- [s \in Senders |-> run[s].posted],
  verdict <- [s \in Senders |-> Verdict(run[s])]
KeepsPromise == Promise!Spec

(* Over all runs of a command a part is posted again only after a run that  *)
(* was killed, broke, or failed with earlier parts already out: a lost      *)
(* answer alone never gets a message posted twice (ARCHITECTURE.md, 1).     *)
ResentOnlyIfExcused ==
  \A m \in Messages \ excused : \A i \in Parts : posts[m][i] <= 1

(* A notice is mirrored at most once, whatever is killed, broken or run     *)
(* again at the same time (C21).                                            *)
MirroredOnce == \A m \in Notices : \A i \in Parts : posts[m][i] <= 1

RecordsOf(s) ==
  LET written == ledger[run[s].msg] IN {k \in DOMAIN written : written[k].run = run[s].n}

(* A command that ends as sent or unknown has one record of every part it   *)
(* tried, and only the one whose answer was lost is marked as a maybe.      *)
LedgerHonest ==
  \A s \in Senders :
    run[s].pc = "report" /\ run[s].result \in Settled /\ ledgerFaults = 0 /\ run[s].msg \notin Alerts =>
      /\ Cardinality(RecordsOf(s)) = run[s].at
      /\ \A i \in 1..run[s].at : \E k \in RecordsOf(s) :
           /\ ledger[run[s].msg][k].part = i
           /\ ledger[run[s].msg][k].st = IF i = run[s].at /\ run[s].result = "unknown" THEN "maybe" ELSE "sent"

(* common.py: a write's "delivery, once the connection is established, must *)
(* be assumed to have possibly happened".  A broken answer is not: the      *)
(* command fails, and run again it posts again.                             *)
NeverDuplicated == \A m \in Messages : \A i \in Parts : posts[m][i] <= 1

(* CONFIGURATION.md: the outbox is "A journal of what was SENT".  Chunks    *)
(* posted before one that is refused are not in it.                         *)
LedgerIsWhatWasSent ==
  \A s \in Senders :
    run[s].pc = "report" /\ ledgerFaults = 0 /\ run[s].msg \notin Alerts =>
      Cardinality(RecordsOf(s)) >= run[s].posted
=============================================================================
