----------------------------- MODULE InboxWake -----------------------------
(***************************************************************************)
(* One topic's message queue: the append-only inbox.jsonl, the cursor that *)
(* marks the read position, and the wake lines typed into the session's    *)
(* pane.  Writers are the daemon (owner messages) and notify processes;    *)
(* readers are the session's recv and ask, and no lock keeps a second one  *)
(* out; the idle sweep retries.                                            *)
(*                                                                         *)
(* Two file locks order them.  The inbox lock makes an append atomic with  *)
(* the claim it computes.  The wake lock is held while a claimed wake is   *)
(* typed and while the cursor is rewritten; a commit takes both.  Neither  *)
(* is a variable: a lock is held exactly in the states named below.        *)
(*                                                                         *)
(* Elapsed time (NUDGE_DELAY, the sweep's grace and cooldown) is abstracted *)
(* to when a step happens.  The topic's binding to a pane is environment    *)
(* here: see Parking for how it changes.                                    *)
(***************************************************************************)
EXTENDS Integers, Sequences, FiniteSets

CONSTANTS
  Readers,      \* processes running recv or ask on this topic
  Notifiers,    \* notify processes aimed at this topic
  Keys,         \* idempotency keys
  NoKey,        \* the key of a record appended from Telegram
  Bodies,       \* record bodies: "plain", or "split" (see Readable)
  MaxRecords,   \* bound: inbox lines
  MaxShared,    \* bound: inbox lines while two readers are at work
  MaxBinds,     \* bound: times the topic is bound to a new pane
  MaxCrashes    \* bound: process crashes

ASSUME InboxWakeAssumption ==
  /\ NoKey \notin Keys
  /\ Bodies \subseteq {"plain", "split"}
  /\ MaxRecords \in Nat /\ MaxShared \in Nat /\ MaxBinds \in Nat /\ MaxCrashes \in Nat

VARIABLES
  inbox,      \* the lines of inbox.jsonl
  cursor,     \* what the cursor file says (0 when truncated or absent)
  emitted,    \* indices of lines some reader printed and flushed (history)
  mark,       \* the highest cursor ever committed (history)
  torn,       \* a commit died between truncating and writing the file (history)
  alone,      \* the reader that started last, if no other was at work since (history)
  reader,     \* each reader process
  notifier,   \* each notify process
  wakes,      \* every wake ever owed, in the order its claim was taken
  bound,      \* the topic is not ended and its pane runs
  binds,      \* how often it was bound to a new pane
  sweep,      \* the idle sweep is typing into the pane
  woken,      \* a typed line waits in the session's input
  crashes

queueVars == <<inbox, cursor, emitted, mark, torn, alone>>
paneVars == <<bound, binds, sweep, woken>>
vars == <<queueVars, reader, notifier, wakes, paneVars, crashes>>

NoClaim == -1
Record == [key : Keys \cup {NoKey}, body : Bodies]
Claim  == Nat \cup {NoClaim}
Wake   == [claim : Claim, up : BOOLEAN, by : {"daemon", "cli"},   \* up: its pane still runs
           st : {"claimed", "scheduled", "typing", "sent", "unsent", "stale"}]
Reader == [pc : {"idle", "loaded", "read", "emitted", "writing", "sending"},
           cmd : {"recv", "ask", "reply"}, lo : Nat, hi : Nat]
Notifier == [pc : {"idle", "live", "parked"}, up : BOOLEAN, key : Keys \cup {NoKey}]

IdleReader   == [pc |-> "idle", cmd |-> "recv", lo |-> 0, hi |-> 0]
IdleNotifier == [pc |-> "idle", up |-> FALSE, key |-> NoKey]

Init ==
  /\ inbox = <<>> /\ cursor = 0 /\ emitted = {} /\ mark = 0 /\ torn = FALSE /\ alone = {}
  /\ reader = [r \in Readers |-> IdleReader]
  /\ notifier = [p \in Notifiers |-> IdleNotifier]
  /\ wakes = <<>>
  /\ bound = TRUE /\ binds = 0
  /\ sweep = FALSE /\ woken = FALSE /\ crashes = 0

(* Both locks are held across the truncate-then-write of the cursor file;   *)
(* the wake lock is also held while a claimed wake is being typed.          *)
InboxLockFree == \A r \in Readers : reader[r].pc # "writing"
WakeLockFree ==
  /\ InboxLockFree
  /\ \A n \in DOMAIN wakes : wakes[n].st = "typing" => wakes[n].claim = NoClaim

Unread == Len(inbox) - cursor > 0

Idle(r) == reader[r].pc = "idle"
Room == Len(inbox) < IF \E r, s \in Readers : r # s /\ ~Idle(r) /\ ~Idle(s) THEN MaxShared
                     ELSE MaxRecords

---------------------------------------------------------------------------
(* Writers *)

(* The append that finds no unread line takes the batch's claim: the cursor *)
(* of that moment.  Later appends of the batch take none.                   *)
(* Mutant: every append claims.                                             *)
ClaimAlways == cursor

WakeClaim == IF Len(inbox) <= cursor THEN cursor ELSE NoClaim

NewWake(by, up, st) ==
  IF WakeClaim = NoClaim THEN wakes
  ELSE Append(wakes, [claim |-> WakeClaim, up |-> up, by |-> by, st |-> st])

(* A wake that is settled forgets its pane.                                 *)
SetWake(n, st, up) == wakes' = [wakes EXCEPT ![n] = [@ EXCEPT !.st = st, !.up = up]]

(* An owner message: append_jsonl, then schedule_nudge (its own step). One  *)
(* poller thread handles a topic's messages, so it finishes one first.      *)
TelegramAppend(b) ==
  /\ Room /\ InboxLockFree
  /\ \A n \in DOMAIN wakes : wakes[n].by = "daemon" => wakes[n].st # "claimed"
  /\ inbox' = Append(inbox, [key |-> NoKey, body |-> b])
  /\ wakes' = NewWake("daemon", FALSE, "claimed")
  /\ UNCHANGED <<cursor, emitted, mark, torn, alone, reader, notifier, paneVars, crashes>>

ScheduleNudge(n) ==
  /\ wakes[n].st = "claimed"
  /\ SetWake(n, IF bound THEN "scheduled" ELSE "unsent", bound)
  /\ UNCHANGED <<queueVars, reader, notifier, paneVars, crashes>>

(* notify reads its target from the registry before it takes the lock.  A   *)
(* dead target is refused unless it is parked: then the record is stored.   *)
NotifyPreflight(p, k) ==
  /\ notifier[p].pc = "idle"
  /\ notifier' = [notifier EXCEPT ![p] =
       [pc |-> IF bound THEN "live" ELSE "parked", up |-> bound, key |-> k]]
  /\ UNCHANGED <<queueVars, reader, wakes, paneVars, crashes>>

(* Mutant: the inbox is not searched.                                       *)
NeverSeen(k) == FALSE

HasKey(k) == \E i \in DOMAIN inbox : inbox[i].key = k

NotifyAppend(p, b) ==
  LET k == notifier[p].key IN
  /\ notifier[p].pc # "idle" /\ InboxLockFree
  /\ notifier' = [notifier EXCEPT ![p] = IdleNotifier]
  /\ IF HasKey(k)
       THEN UNCHANGED <<inbox, wakes>>
       ELSE /\ Room
            /\ inbox' = Append(inbox, [key |-> k, body |-> b])
            /\ wakes' = NewWake("cli", notifier[p].up,
                                IF notifier[p].pc = "parked" THEN "unsent" ELSE "scheduled")
  /\ UNCHANGED <<cursor, emitted, mark, torn, alone, reader, paneVars, crashes>>

---------------------------------------------------------------------------
(* Wakes *)

(* Mutant: the claim is compared with the end of the inbox.                 *)
VerdictByLength(w) ==
  IF w.claim # NoClaim /\ Len(inbox) # w.claim + 1 THEN "stale"
  ELSE IF Unread /\ w.up THEN "typing" ELSE "unsent"

(* maybe_nudge up to the keystrokes: a claim is checked under the wake lock *)
(* (a wake without a claim takes no lock), then unread, then the pane.      *)
Verdict(w) ==
  IF w.claim # NoClaim /\ cursor # w.claim THEN "stale"
  ELSE IF Unread /\ w.up THEN "typing" ELSE "unsent"

DispatchWake(n) ==
  /\ wakes[n].st = "scheduled"
  /\ wakes[n].claim # NoClaim => WakeLockFree
  /\ SetWake(n, Verdict(wakes[n]), Verdict(wakes[n]) = "typing")
  /\ UNCHANGED <<queueVars, reader, notifier, paneVars, crashes>>

TypingSent(n) ==
  /\ wakes[n].st = "typing" /\ wakes[n].up
  /\ SetWake(n, "sent", FALSE)
  /\ woken' = TRUE
  /\ UNCHANGED <<queueVars, reader, notifier, bound, binds, sweep, crashes>>

TypingFailed(n) ==
  /\ wakes[n].st = "typing"
  /\ SetWake(n, "unsent", FALSE)
  /\ UNCHANGED <<queueVars, reader, notifier, paneVars, crashes>>

---------------------------------------------------------------------------
(* The reader: read past the cursor, print and flush, then commit only if   *)
(* no line was appended meanwhile; otherwise read on from where it stopped. *)

Goto(r, pc) == reader' = [reader EXCEPT ![r].pc = pc]

(* The cursor is loaded without a lock: in the middle of another reader's   *)
(* commit it reads as 0.  Nothing keeps a second reader out: the second     *)
(* conjunct is a bound (MaxShared, and before the first crash).             *)
Load(r, cmd) ==
  /\ Idle(r)
  /\ (Len(inbox) <= MaxShared /\ crashes = 0) \/ \A s \in Readers : Idle(s)
  /\ reader' = [reader EXCEPT ![r] = [pc |-> "loaded", cmd |-> cmd, lo |-> cursor, hi |-> cursor]]
  /\ alone' = IF \A s \in Readers : Idle(s) THEN {r} ELSE {}

StartRecv(r) ==
  /\ Load(r, "recv")
  /\ woken' = FALSE
  /\ UNCHANGED <<inbox, cursor, emitted, mark, torn, notifier, wakes, bound, binds, sweep, crashes>>

StartAsk(r) ==
  /\ Load(r, "ask")
  /\ UNCHANGED <<inbox, cursor, emitted, mark, torn, notifier, wakes, paneVars, crashes>>

(* read_new splits the file with str.splitlines, which also breaks a line   *)
(* at U+2028, U+2029 and U+0085; json.dumps(ensure_ascii=False) writes them *)
(* raw, and json.loads of half a record raises.                             *)
Readable(lo) == \A i \in lo+1 .. Len(inbox) : inbox[i].body # "split"

(* recv with nothing new returns; ask goes on and commits; the wait for a   *)
(* reply polls until there is something.                                    *)
ReadNew(r) ==
  /\ reader[r].pc = "loaded" /\ Readable(reader[r].lo)
  /\ reader[r].cmd = "reply" => Len(inbox) > reader[r].lo
  /\ reader' = [reader EXCEPT ![r] =
       IF reader[r].cmd = "recv" /\ Len(inbox) <= reader[r].lo THEN IdleReader
       ELSE [@ EXCEPT !.pc = "read", !.hi = Len(inbox)]]
  /\ UNCHANGED <<queueVars, notifier, wakes, paneVars, crashes>>

ReadRaises(r) ==
  /\ reader[r].pc = "loaded" /\ ~Readable(reader[r].lo)
  /\ reader' = [reader EXCEPT ![r] = IdleReader]
  /\ UNCHANGED <<queueVars, notifier, wakes, paneVars, crashes>>

WaitTimesOut(r) ==
  /\ reader[r].pc = "loaded" /\ reader[r].cmd = "reply"
  /\ reader' = [reader EXCEPT ![r] = IdleReader]
  /\ UNCHANGED <<queueVars, notifier, wakes, paneVars, crashes>>

Emit(r) ==
  /\ reader[r].pc = "read"
  /\ emitted' = emitted \cup (reader[r].lo+1 .. reader[r].hi)
  /\ Goto(r, "emitted")
  /\ UNCHANGED <<inbox, cursor, mark, torn, alone, notifier, wakes, paneVars, crashes>>

CommitRefused(r) ==
  /\ reader[r].pc = "emitted" /\ WakeLockFree
  /\ Len(inbox) # reader[r].hi
  /\ reader' = [reader EXCEPT ![r] = [@ EXCEPT !.pc = "loaded", !.lo = reader[r].hi]]
  /\ UNCHANGED <<queueVars, notifier, wakes, paneVars, crashes>>

(* Mutants: a commit that runs before the print, and one that does not      *)
(* compare the inbox with what was read.                                    *)
CommitBeforePrint(r) ==
  /\ reader[r].pc \in {"read", "emitted"} /\ WakeLockFree
  /\ Len(inbox) = reader[r].hi
  /\ cursor' = 0
  /\ Goto(r, "writing")
  /\ UNCHANGED <<inbox, emitted, mark, torn, alone, notifier, wakes, paneVars, crashes>>

CommitUnchecked(r) ==
  /\ reader[r].pc = "emitted" /\ WakeLockFree
  /\ cursor' = 0
  /\ Goto(r, "writing")
  /\ UNCHANGED <<inbox, emitted, mark, torn, alone, notifier, wakes, paneVars, crashes>>

(* The cursor file is opened for writing (truncated: it reads as 0) and     *)
(* then written, both under the two locks; other readers take no lock.      *)
CommitBegin(r) ==
  /\ reader[r].pc = "emitted" /\ WakeLockFree
  /\ Len(inbox) = reader[r].hi
  /\ cursor' = 0
  /\ Goto(r, "writing")
  /\ UNCHANGED <<inbox, emitted, mark, torn, alone, notifier, wakes, paneVars, crashes>>

(* Mutant: the position the read started from is written back.              *)
CommitStart(r) ==
  /\ reader[r].pc = "writing"
  /\ cursor' = reader[r].lo
  /\ mark' = IF reader[r].hi > mark THEN reader[r].hi ELSE mark
  /\ reader' = [reader EXCEPT ![r] = IdleReader]
  /\ UNCHANGED <<inbox, emitted, torn, alone, notifier, wakes, paneVars, crashes>>

CommitEnd(r) ==
  /\ reader[r].pc = "writing"
  /\ cursor' = reader[r].hi
  /\ mark' = IF reader[r].hi > mark THEN reader[r].hi ELSE mark
  /\ reader' = [reader EXCEPT ![r] =
       IF reader[r].cmd = "ask" THEN [IdleReader EXCEPT !.pc = "sending", !.cmd = "ask"]
       ELSE IdleReader]
  /\ UNCHANGED <<inbox, emitted, torn, alone, notifier, wakes, paneVars, crashes>>

(* ask posts its question and waits for lines past the cursor it re-reads.  *)
AskSends(r) ==
  /\ reader[r].pc = "sending"
  /\ reader' = [reader EXCEPT ![r] = [pc |-> "loaded", cmd |-> "reply", lo |-> cursor, hi |-> cursor]]
  /\ UNCHANGED <<queueVars, notifier, wakes, paneVars, crashes>>

---------------------------------------------------------------------------
(* The idle sweep reads the backlog and then types, holding no lock.        *)

(* Mutant: a topic that was ever nudged is not swept again.                 *)
SweepOnce ==
  /\ ~sweep /\ bound /\ Unread
  /\ \A n \in DOMAIN wakes : wakes[n].st # "sent"
  /\ sweep' = TRUE
  /\ UNCHANGED <<queueVars, reader, notifier, wakes, bound, binds, woken, crashes>>

SweepDispatch ==
  /\ ~sweep /\ bound /\ Unread
  /\ sweep' = TRUE
  /\ UNCHANGED <<queueVars, reader, notifier, wakes, bound, binds, woken, crashes>>

SweepSent ==
  /\ sweep /\ sweep' = FALSE /\ woken' = TRUE
  /\ UNCHANGED <<queueVars, reader, notifier, wakes, bound, binds, crashes>>

SweepFails ==
  /\ sweep /\ sweep' = FALSE
  /\ UNCHANGED <<queueVars, reader, notifier, wakes, bound, binds, woken, crashes>>

---------------------------------------------------------------------------
(* The topic's binding.  A pane that ends never comes back: what was to be  *)
(* typed into it can only fail.                                             *)

PaneEnds ==
  /\ bound /\ bound' = FALSE /\ sweep' = FALSE /\ woken' = FALSE
  /\ wakes' = [n \in DOMAIN wakes |-> [wakes[n] EXCEPT !.up = FALSE]]
  /\ notifier' = [p \in Notifiers |-> [notifier[p] EXCEPT !.up = FALSE]]
  /\ UNCHANGED <<queueVars, reader, binds, crashes>>

(* revive_one binds a new pane; after the briefing, wake_if_unread owes the *)
(* pane a wake that carries no claim.                                       *)
Revive ==
  /\ ~bound /\ binds < MaxBinds
  /\ bound' = TRUE /\ binds' = binds + 1
  /\ wakes' = IF Unread
                THEN Append(wakes, [claim |-> NoClaim, up |-> TRUE, by |-> "daemon", st |-> "scheduled"])
                ELSE wakes
  /\ UNCHANGED <<queueVars, reader, notifier, sweep, woken, crashes>>

---------------------------------------------------------------------------
(* Crashes *)

Lose(by) ==
  wakes' = [n \in DOMAIN wakes |->
    IF wakes[n].by = by /\ wakes[n].st \in {"claimed", "scheduled", "typing"}
      THEN [wakes[n] EXCEPT !.st = "unsent", !.up = FALSE] ELSE wakes[n]]

DaemonCrash ==
  /\ crashes < MaxCrashes /\ crashes' = crashes + 1
  /\ Lose("daemon")
  /\ sweep' = FALSE
  /\ UNCHANGED <<queueVars, reader, notifier, bound, binds, woken>>

NotifyCrash ==
  /\ crashes < MaxCrashes /\ crashes' = crashes + 1
  /\ Lose("cli")
  /\ notifier' = [p \in Notifiers |-> IdleNotifier]
  /\ UNCHANGED <<queueVars, reader, paneVars>>

(* A reader killed while printing may have flushed a prefix; one killed     *)
(* while writing leaves the truncated cursor file behind.                   *)
ReaderCrash(r) ==
  /\ crashes < MaxCrashes /\ crashes' = crashes + 1
  /\ ~Idle(r)
  /\ reader' = [reader EXCEPT ![r] = IdleReader]
  /\ IF reader[r].pc = "read"
       THEN \E k \in reader[r].lo .. reader[r].hi : emitted' = emitted \cup (reader[r].lo+1 .. k)
       ELSE UNCHANGED emitted
  /\ torn' = (torn \/ reader[r].pc = "writing")
  /\ UNCHANGED <<inbox, cursor, mark, alone, notifier, wakes, paneVars>>

---------------------------------------------------------------------------
WriterStep == \/ \E b \in Bodies : TelegramAppend(b)
              \/ \E p \in Notifiers, k \in Keys : NotifyPreflight(p, k)
              \/ \E p \in Notifiers, b \in Bodies : NotifyAppend(p, b)

WakeStep(n) == ScheduleNudge(n) \/ DispatchWake(n) \/ TypingSent(n) \/ TypingFailed(n)

ReaderStep(r) ==
  \/ StartRecv(r) \/ StartAsk(r) \/ ReadNew(r) \/ ReadRaises(r) \/ WaitTimesOut(r)
  \/ Emit(r) \/ CommitRefused(r) \/ CommitBegin(r) \/ CommitEnd(r) \/ AskSends(r)

PaneStep == SweepDispatch \/ SweepSent \/ SweepFails \/ PaneEnds \/ Revive

CrashStep == DaemonCrash \/ NotifyCrash \/ \E r \in Readers : ReaderCrash(r)

Next ==
  \/ WriterStep
  \/ \E n \in DOMAIN wakes : WakeStep(n)
  \/ \E r \in Readers : ReaderStep(r)
  \/ PaneStep
  \/ CrashStep

Spec == Init /\ [][Next]_vars

(* The daemon's loops and timers keep running; a session that finds a typed *)
(* line runs recv; a started reader runs on.  Typing succeeds if it is      *)
(* tried often enough: a modal or an unreadable pane does not last forever. *)
Fairness ==
  /\ WF_vars(SweepDispatch) /\ WF_vars(SweepSent \/ SweepFails) /\ SF_vars(SweepSent)
  /\ WF_vars(\E n \in DOMAIN wakes : WakeStep(n))
  /\ \A r \in Readers :
       /\ WF_vars(woken /\ StartRecv(r))
       /\ WF_vars(ReadNew(r) \/ ReadRaises(r) \/ WaitTimesOut(r))
       /\ WF_vars(Emit(r) \/ CommitRefused(r) \/ CommitBegin(r) \/ CommitEnd(r) \/ AskSends(r))

FairSpec == Spec /\ Fairness

---------------------------------------------------------------------------
(* A4 and 6.5 of SPECIFICATION.md say the sweep never nudges an empty inbox. *)
(* The sweep reads the backlog and types later without a lock, so a commit  *)
(* may come between: a run shows it.                                        *)
SweepOnlyUnread == [][SweepSent => Unread]_vars

(* The recv row of SPECIFICATION.md: its output is the unread records.  One *)
(* record with a Unicode line separator makes every read raise.             *)
RecvDeliversUnread == Unread ~> (~Unread \/ ~bound)

(* Every state component ranges over the values the code gives it.          *)
QueueType == /\ inbox \in Seq(Record) /\ cursor \in Nat /\ mark \in Nat /\ emitted \subseteq Nat
             /\ alone \subseteq Readers
ActorType ==
  /\ reader \in [Readers -> Reader] /\ notifier \in [Notifiers -> Notifier]
  /\ wakes \in Seq(Wake)
PaneType ==
  /\ torn \in BOOLEAN /\ bound \in BOOLEAN /\ sweep \in BOOLEAN /\ woken \in BOOLEAN
  /\ binds \in 0..MaxBinds /\ crashes \in 0..MaxCrashes
TypeOK == QueueType /\ ActorType /\ PaneType

(* No line is passed by the cursor before some reader printed and flushed   *)
(* it, whatever crashes and whoever appends (#105, the silent-loss class).  *)
NothingSkipped == 1..cursor \subseteq emitted

(* A batch of unread lines has one wake owner: no two appends are given the *)
(* same claim (_inbox_snapshot under the inbox lock).                       *)
OneWakePerBatch ==
  \A m, n \in DOMAIN wakes :
    m # n /\ wakes[m].claim # NoClaim => wakes[m].claim # wakes[n].claim

(* A wake suppressed as stale announced a line that a reader has already    *)
(* emitted: suppression (validate_wake_claim) never hides an unseen line.   *)
StaleMeansShown ==
  \A n \in DOMAIN wakes : wakes[n].st = "stale" => wakes[n].claim + 1 \in emitted

(* While a claimed wake is being typed, its batch is still the current one: *)
(* an old owner never cues a later batch, and no commit slips in between.   *)
TypingOwnsBatch ==
  \A n \in DOMAIN wakes :
    wakes[n].st = "typing" /\ wakes[n].claim # NoClaim
      => cursor = wakes[n].claim /\ InboxLockFree

(* Claims are exclusive: a batch has one owner, and the owner types only    *)
(* while its batch is current, so a notice is cued once or not at all.      *)
ClaimsExclusive == OneWakePerBatch /\ TypingOwnsBatch

(* An unread backlog always has a wake owner that was not called off; only  *)
(* a reader killed inside the cursor write can leave it without one.        *)
BacklogHasOwner ==
  ~torn /\ InboxLockFree /\ Unread =>
    \E n \in DOMAIN wakes : wakes[n].claim = cursor /\ wakes[n].st # "stale"

(* A notification key is in the inbox at most once (append_jsonl_once).     *)
KeyOnce ==
  \A i, j \in DOMAIN inbox : inbox[i].key = inbox[j].key /\ i # j => inbox[i].key = NoKey

(* A completed commit is never taken back, whichever of several readers is  *)
(* the slower; and a reader at work alone prints no line that a completed   *)
(* commit covers.  Readers that overlap may print a line twice: no lock     *)
(* prevents it (SPECIFICATION.md:620), nor after a torn commit.             *)
NoReplay ==
  ~torn => /\ InboxLockFree => cursor = mark
           /\ \A r \in alone : reader[r].pc = "read" => reader[r].lo >= mark

(* An unread backlog of a topic whose pane stays up is eventually drained,  *)
(* whatever wakes were lost: the idle sweep is the backstop.  A line the    *)
(* reader cannot parse is excluded (see RecvDeliversUnread).                *)
BacklogDrained ==
  Unread ~> (~Unread \/ ~bound \/ ~Readable(0))

---------------------------------------------------------------------------
(* What makes the invariants above inductive (see Delivery_proofs).        *)

(* A reader has emitted every line before the range it holds; one that is   *)
(* past its print has emitted the range; one writing the cursor covers the  *)
(* whole inbox, and only one writes.                                        *)
ReaderInv ==
  \A r \in Readers :
    /\ reader[r].lo <= reader[r].hi /\ reader[r].hi <= Len(inbox)
    /\ 1..reader[r].lo \subseteq emitted
    /\ reader[r].pc \in {"emitted", "writing"} => 1..reader[r].hi \subseteq emitted
    /\ reader[r].pc = "writing" =>
         /\ reader[r].hi = Len(inbox)
         /\ \A s \in Readers : reader[s].pc = "writing" => s = r

(* A claim was taken at a position the inbox has grown past; it is current, *)
(* or the line it announced has been emitted.                               *)
ClaimInv ==
  \A n \in DOMAIN wakes : wakes[n].claim # NoClaim =>
    /\ wakes[n].claim < Len(inbox)
    /\ cursor = wakes[n].claim \/ wakes[n].claim + 1 \in emitted

IInv ==
  /\ TypeOK /\ cursor <= Len(inbox) /\ ReaderInv /\ ClaimInv
  /\ NothingSkipped /\ OneWakePerBatch /\ StaleMeansShown
  /\ TypingOwnsBatch /\ BacklogHasOwner /\ KeyOnce
=============================================================================
