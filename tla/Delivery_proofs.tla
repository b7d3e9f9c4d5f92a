--------------------------- MODULE Delivery_proofs ---------------------------
(***************************************************************************)
(* Proofs about the two halves of a delivery.  First InboxWake, for any     *)
(* readers, notifiers, keys and bounds: the type invariant, and by the      *)
(* inductive invariant IInv the safety of the queue and of the wake claims. *)
(* Then PaneTyping, for any threads, notify processes, faults and bounds:   *)
(* by TypingInv, Enter is only pressed where it is meant, a text that       *)
(* reached the box is submitted whole, and the copies left are bounded.     *)
(***************************************************************************)
EXTENDS InboxWake, PaneTyping, SequenceTheorems, TLAPS

---------------------------------------------------------------------------
(* The inbox and its wakes.                                                 *)

USE DEF NoClaim

LEMMA InitType == Init => TypeOK
<1> SUFFICES ASSUME Init PROVE TypeOK OBVIOUS
<1>1. QueueType BY EmptySeq DEF Init, QueueType
<1>2. reader \in [Readers -> Reader] BY DEF Init, IdleReader, Reader
<1>3. notifier \in [Notifiers -> Notifier] BY DEF Init, IdleNotifier, Notifier
<1>4. ActorType BY <1>2, <1>3, EmptySeq DEF Init, ActorType
<1>5. binds \in 0..MaxBinds /\ crashes \in 0..MaxCrashes
  BY InboxWakeAssumption DEF Init, InboxWakeAssumption
<1>6. torn \in BOOLEAN /\ bound \in BOOLEAN /\ sweep \in BOOLEAN /\ woken \in BOOLEAN
  BY Zenon DEF Init
<1>7. QED BY <1>1, <1>4, <1>5, <1>6, Zenon DEF TypeOK, PaneType

(* A wake appended by a writer is a wake. *)
LEMMA NewWakeType ==
  ASSUME TypeOK, NEW by \in {"daemon", "cli"}, NEW up \in BOOLEAN,
         NEW st \in {"claimed", "scheduled", "typing", "sent", "unsent", "stale"}
  PROVE  NewWake(by, up, st) \in Seq(Wake)
<1>1. cursor \in Nat /\ wakes \in Seq(Wake) BY DEF TypeOK, QueueType, ActorType
<1>2. CASE WakeClaim = -1 BY <1>1, <1>2 DEF NewWake
<1>3. CASE WakeClaim # -1
  <2>1. WakeClaim = cursor BY <1>3 DEF WakeClaim
  <2>2. [claim |-> WakeClaim, up |-> up, by |-> by, st |-> st] \in Wake
    BY <1>1, <2>1 DEF Wake, Claim
  <2>3. QED BY <1>1, <1>3, <2>2, AppendProperties DEF NewWake
<1>4. QED BY <1>2, <1>3

LEMMA SetWakeType ==
  ASSUME TypeOK, NEW n \in DOMAIN wakes, NEW up \in BOOLEAN,
         NEW st \in {"claimed", "scheduled", "typing", "sent", "unsent", "stale"},
         SetWake(n, st, up)
  PROVE  /\ wakes' \in Seq(Wake) /\ DOMAIN wakes' = DOMAIN wakes
         /\ wakes'[n].st = st /\ wakes'[n].claim = wakes[n].claim
         /\ \A m \in DOMAIN wakes : m # n => wakes'[m] = wakes[m]
<1>1. wakes \in Seq(Wake) /\ n \in 1..Len(wakes) /\ wakes[n] \in Wake
  BY ElementOfSeq, LenProperties DEF TypeOK, QueueType, ActorType
<1>2. [wakes[n] EXCEPT !.st = st, !.up = up] \in Wake BY <1>1 DEF Wake
<1>3. wakes' = [wakes EXCEPT ![n] = [wakes[n] EXCEPT !.st = st, !.up = up]]
  BY DEF SetWake
<1>4. wakes' \in Seq(Wake) /\ DOMAIN wakes' = DOMAIN wakes
  BY <1>1, <1>2, <1>3, ExceptSeq, LenProperties
<1>5. wakes'[n].st = st /\ wakes'[n].claim = wakes[n].claim
  BY <1>1, <1>3 DEF Wake
<1>6. \A m \in DOMAIN wakes : m # n => wakes'[m] = wakes[m] BY <1>1, <1>3
<1>7. QED BY <1>4, <1>5, <1>6

(* Losing or unbinding wakes keeps their claims and unsettles none. *)
LEMMA LoseType ==
  ASSUME TypeOK, NEW by, Lose(by)
  PROVE  /\ wakes' \in Seq(Wake) /\ DOMAIN wakes' = DOMAIN wakes
         /\ \A n \in DOMAIN wakes : /\ wakes'[n].claim = wakes[n].claim
                                    /\ wakes'[n].st \in {wakes[n].st, "unsent"}
<1>1. wakes \in Seq(Wake) /\ DOMAIN wakes = 1..Len(wakes) /\ Len(wakes) \in Nat
  BY LenProperties DEF TypeOK, QueueType, ActorType
<1>2. \A n \in DOMAIN wakes : wakes[n] \in Wake BY <1>1, ElementOfSeq
<1>3. DOMAIN wakes' = DOMAIN wakes /\ \A n \in DOMAIN wakes :
        /\ wakes'[n] \in Wake /\ wakes'[n].claim = wakes[n].claim
        /\ wakes'[n].st \in {wakes[n].st, "unsent"}
  BY <1>2 DEF Lose, Wake
<1>4. wakes' = [n \in 1..Len(wakes) |-> wakes'[n]] BY <1>1 DEF Lose
<1>5. wakes' \in Seq(Wake) BY <1>1, <1>3, <1>4
<1>6. QED BY <1>3, <1>5

LEMMA PaneEndsType ==
  ASSUME TypeOK, PaneEnds
  PROVE  /\ wakes' \in Seq(Wake) /\ DOMAIN wakes' = DOMAIN wakes
         /\ \A n \in DOMAIN wakes : wakes'[n].claim = wakes[n].claim /\ wakes'[n].st = wakes[n].st
<1>1. wakes \in Seq(Wake) /\ DOMAIN wakes = 1..Len(wakes) /\ Len(wakes) \in Nat
  BY LenProperties DEF TypeOK, QueueType, ActorType
<1>2. \A n \in DOMAIN wakes : wakes[n] \in Wake BY <1>1, ElementOfSeq
<1>3. DOMAIN wakes' = DOMAIN wakes /\ \A n \in DOMAIN wakes :
        /\ wakes'[n] \in Wake /\ wakes'[n].claim = wakes[n].claim /\ wakes'[n].st = wakes[n].st
  BY <1>2 DEF PaneEnds, Wake
<1>4. wakes' = [n \in 1..Len(wakes) |-> wakes'[n]] BY <1>1 DEF PaneEnds
<1>5. wakes' \in Seq(Wake) BY <1>1, <1>3, <1>4
<1>6. QED BY <1>3, <1>5

(* What an append does to the queue, whoever appends. *)
LEMMA AppendType ==
  ASSUME TypeOK, NEW rec \in Record, inbox' = Append(inbox, rec), UNCHANGED <<cursor, mark, emitted, alone>>
  PROVE  /\ QueueType' /\ Len(inbox') = Len(inbox) + 1
         /\ DOMAIN inbox = 1..Len(inbox) /\ DOMAIN inbox' = 1..Len(inbox)+1
         /\ \A i \in DOMAIN inbox : inbox'[i] = inbox[i]
         /\ inbox'[Len(inbox)+1] = rec
<1>1. inbox \in Seq(Record) /\ Len(inbox) \in Nat BY LenProperties DEF TypeOK, QueueType
<1>2. /\ inbox' \in Seq(Record) /\ Len(inbox') = Len(inbox) + 1
      /\ \A i \in 1..Len(inbox) : inbox'[i] = inbox[i]
      /\ inbox'[Len(inbox)+1] = rec
  BY <1>1, AppendProperties
<1>3. DOMAIN inbox = 1..Len(inbox) /\ DOMAIN inbox' = 1..Len(inbox)+1
  BY <1>1, <1>2, LenProperties
<1>4. QueueType' BY <1>1, <1>2 DEF TypeOK, QueueType
<1>5. QED BY <1>2, <1>3, <1>4

LEMMA NotifierType ==
  ASSUME TypeOK, NEW p \in Notifiers
  PROVE  notifier[p].up \in BOOLEAN /\ notifier[p].key \in Keys \cup {NoKey}
BY DEF TypeOK, ActorType, Notifier

LEMMA ReaderType ==
  ASSUME TypeOK, NEW r \in Readers
  PROVE  /\ reader[r].lo \in Nat /\ reader[r].hi \in Nat
         /\ reader[r] \in Reader /\ Len(inbox) \in Nat
BY LenProperties DEF TypeOK, ActorType, QueueType, Reader

LEMMA WriterType == TypeOK /\ WriterStep => TypeOK'
<1> SUFFICES ASSUME TypeOK, WriterStep PROVE TypeOK' OBVIOUS
<1>1. ASSUME NEW b \in Bodies, TelegramAppend(b) PROVE TypeOK'
  <2>1. [key |-> NoKey, body |-> b] \in Record BY DEF Record
  <2>2. QueueType' BY <1>1, <2>1, AppendType DEF TelegramAppend
  <2>3. wakes' \in Seq(Wake) BY <1>1, NewWakeType DEF TelegramAppend
  <2>4. ActorType' BY <1>1, <2>3 DEF TelegramAppend, TypeOK, ActorType
  <2>5. PaneType' BY <1>1 DEF TelegramAppend, TypeOK, PaneType, paneVars
  <2>6. QED BY <2>2, <2>4, <2>5 DEF TypeOK
<1>2. ASSUME NEW p \in Notifiers, NEW k \in Keys, NotifyPreflight(p, k) PROVE TypeOK'
  <2>1. [pc |-> IF bound THEN "live" ELSE "parked", up |-> bound, key |-> k] \in Notifier
    BY DEF TypeOK, PaneType, Notifier
  <2>2. ActorType' BY <1>2, <2>1 DEF NotifyPreflight, TypeOK, ActorType
  <2>3. QueueType' BY <1>2 DEF NotifyPreflight, TypeOK, QueueType, queueVars
  <2>4. PaneType' BY <1>2 DEF NotifyPreflight, TypeOK, PaneType, paneVars, queueVars
  <2>5. QED BY <2>2, <2>3, <2>4 DEF TypeOK
<1>3. ASSUME NEW p \in Notifiers, NEW b \in Bodies, NotifyAppend(p, b) PROVE TypeOK'
  <2>1. notifier' \in [Notifiers -> Notifier]
    BY <1>3 DEF NotifyAppend, TypeOK, ActorType, IdleNotifier, Notifier
  <2>2. PaneType' BY <1>3 DEF NotifyAppend, TypeOK, PaneType, paneVars
  <2>3. CASE HasKey(notifier[p].key)
    <3>1. UNCHANGED <<inbox, wakes, cursor, mark, emitted, alone, reader>> BY <1>3, <2>3 DEF NotifyAppend
    <3>2. QED BY <2>1, <2>2, <3>1 DEF TypeOK, QueueType, ActorType
  <2>4. CASE ~HasKey(notifier[p].key)
    <3>1. [key |-> notifier[p].key, body |-> b] \in Record BY NotifierType DEF Record
    <3>2. QueueType' BY <1>3, <2>4, <3>1, AppendType DEF NotifyAppend
    <3>3. wakes' \in Seq(Wake) BY <1>3, <2>4, NewWakeType, NotifierType DEF NotifyAppend
    <3>4. ActorType' BY <1>3, <2>1, <3>3 DEF NotifyAppend, TypeOK, ActorType
    <3>5. QED BY <2>2, <3>2, <3>4 DEF TypeOK
  <2>5. QED BY <2>3, <2>4
<1>4. QED BY <1>1, <1>2, <1>3 DEF WriterStep

LEMMA WakeType ==
  ASSUME TypeOK, NEW n \in DOMAIN wakes, WakeStep(n)
  PROVE  TypeOK'
<1>1. wakes' \in Seq(Wake)
  <2>1. CASE ScheduleNudge(n)
    BY <2>1, SetWakeType DEF ScheduleNudge, TypeOK, PaneType
  <2>2. CASE DispatchWake(n)
    <3>1. Verdict(wakes[n]) \in {"stale", "typing", "unsent"} BY DEF Verdict
    <3>2. QED BY <2>2, <3>1, SetWakeType DEF DispatchWake
  <2>3. CASE TypingSent(n) BY <2>3, SetWakeType DEF TypingSent
  <2>4. CASE TypingFailed(n) BY <2>4, SetWakeType DEF TypingFailed
  <2>5. QED BY <2>1, <2>2, <2>3, <2>4 DEF WakeStep
<1>2. UNCHANGED <<inbox, cursor, emitted, mark, torn, alone, reader, notifier, bound, binds, sweep, crashes>>
  BY DEF WakeStep, ScheduleNudge, DispatchWake, TypingSent, TypingFailed, queueVars, paneVars
<1>3. woken' \in BOOLEAN
  BY Zenon DEF WakeStep, ScheduleNudge, DispatchWake, TypingSent, TypingFailed, paneVars, TypeOK, PaneType
<1>4. QueueType' /\ ActorType' BY <1>1, <1>2 DEF TypeOK, QueueType, ActorType
<1>5. PaneType' BY <1>2, <1>3, Zenon DEF TypeOK, PaneType
<1>6. QED BY <1>4, <1>5 DEF TypeOK

LEMMA ReaderStepType ==
  ASSUME TypeOK, NEW r \in Readers, ReaderStep(r)
  PROVE  TypeOK'
<1> USE ReaderType
<1>1. reader' \in [Readers -> Reader]
  <2>1. CASE StartRecv(r) BY <2>1 DEF StartRecv, Load, TypeOK, ActorType, QueueType, Reader
  <2>2. CASE StartAsk(r) BY <2>2 DEF StartAsk, Load, TypeOK, ActorType, QueueType, Reader
  <2>3. CASE ReadNew(r) BY <2>3 DEF ReadNew, IdleReader, TypeOK, ActorType, Reader
  <2>4. IdleReader \in Reader BY DEF IdleReader, Reader
  <2>11. CASE ReadRaises(r) BY <2>4, <2>11 DEF ReadRaises, TypeOK, ActorType
  <2>12. CASE WaitTimesOut(r) BY <2>4, <2>12 DEF WaitTimesOut, TypeOK, ActorType
  <2>5. CASE Emit(r) BY <2>5 DEF Emit, Goto, TypeOK, ActorType, Reader
  <2>6. CASE CommitRefused(r) BY <2>6 DEF CommitRefused, TypeOK, ActorType, Reader
  <2>7. CASE CommitBegin(r) BY <2>7 DEF CommitBegin, Goto, TypeOK, ActorType, Reader
  <2>8. CASE CommitEnd(r) BY <2>8 DEF CommitEnd, IdleReader, TypeOK, ActorType, Reader
  <2>9. CASE AskSends(r) BY <2>9 DEF AskSends, TypeOK, ActorType, QueueType, Reader
  <2>10. QED BY <2>1, <2>2, <2>3, <2>5, <2>6, <2>7, <2>8, <2>9, <2>11, <2>12
    DEF ReaderStep
<1>2. UNCHANGED <<inbox, notifier, wakes, torn, bound, binds, sweep, crashes>>
  BY DEF ReaderStep, StartRecv, StartAsk, Load, ReadNew, ReadRaises, WaitTimesOut, Emit,
         CommitRefused, CommitBegin, CommitEnd, AskSends, queueVars, paneVars
<1>3. woken' \in BOOLEAN
  BY Zenon DEF ReaderStep, StartRecv, StartAsk, Load, ReadNew, ReadRaises, WaitTimesOut, Emit,
         CommitRefused, CommitBegin, CommitEnd, AskSends, paneVars, TypeOK, PaneType
<1>4. cursor' \in Nat /\ mark' \in Nat /\ emitted' \subseteq Nat /\ alone' \subseteq Readers
  BY DEF ReaderStep, StartRecv, StartAsk, Load, ReadNew, ReadRaises, WaitTimesOut, Emit,
         CommitRefused, CommitBegin, CommitEnd, AskSends, queueVars, TypeOK, QueueType
<1>5. PaneType' BY <1>2, <1>3, Zenon DEF TypeOK, PaneType
<1>6. QED BY <1>1, <1>2, <1>4, <1>5 DEF TypeOK, ActorType, QueueType

LEMMA PaneStepType == TypeOK /\ PaneStep => TypeOK'
<1> SUFFICES ASSUME TypeOK, PaneStep PROVE TypeOK' OBVIOUS
<1>1. CASE SweepDispatch \/ SweepSent \/ SweepFails
  <2>1. UNCHANGED <<inbox, cursor, emitted, mark, torn, alone, reader, notifier, wakes, bound, binds, crashes>>
    BY <1>1 DEF SweepDispatch, SweepSent, SweepFails, queueVars
  <2>2. sweep' \in BOOLEAN /\ woken' \in BOOLEAN
    BY <1>1, Zenon DEF SweepDispatch, SweepSent, SweepFails, TypeOK, PaneType
  <2>3. PaneType' BY <2>1, <2>2, Zenon DEF TypeOK, PaneType
  <2>4. QED BY <2>1, <2>3 DEF TypeOK, ActorType, QueueType
<1>2. CASE PaneEnds
  <2>1. wakes' \in Seq(Wake) BY <1>2, PaneEndsType
  <2>2. notifier' \in [Notifiers -> Notifier] BY <1>2 DEF PaneEnds, TypeOK, ActorType, Notifier
  <2>3. bound' = FALSE /\ sweep' = FALSE /\ woken' = FALSE BY <1>2 DEF PaneEnds
  <2>4. PaneType' BY <1>2, <2>3, Zenon DEF PaneEnds, TypeOK, PaneType, queueVars
  <2>5. QED BY <1>2, <2>1, <2>2, <2>4 DEF PaneEnds, queueVars, TypeOK, ActorType, QueueType
<1>3. CASE Revive
  <2>1. [claim |-> NoClaim, up |-> TRUE, by |-> "daemon", st |-> "scheduled"] \in Wake
    BY DEF Wake, Claim
  <2>2. wakes' \in Seq(Wake) BY <1>3, <2>1, AppendProperties DEF Revive, TypeOK, ActorType
  <2>3. binds' \in 0..MaxBinds
    BY <1>3, InboxWakeAssumption DEF Revive, TypeOK, PaneType, InboxWakeAssumption
  <2>4. bound' \in BOOLEAN BY <1>3, Zenon DEF Revive
  <2>5. PaneType' BY <1>3, <2>3, <2>4, Zenon DEF Revive, TypeOK, PaneType, queueVars
  <2>6. QED BY <1>3, <2>2, <2>5 DEF Revive, queueVars, TypeOK, ActorType, QueueType
<1>4. QED BY <1>1, <1>2, <1>3 DEF PaneStep

LEMMA CrashType == TypeOK /\ CrashStep => TypeOK'
<1> SUFFICES ASSUME TypeOK, CrashStep PROVE TypeOK' OBVIOUS
<1>1. ASSUME crashes < MaxCrashes, crashes' = crashes + 1 PROVE crashes' \in 0..MaxCrashes
  BY <1>1, InboxWakeAssumption DEF TypeOK, PaneType, InboxWakeAssumption
<1>2. CASE DaemonCrash
  <2>1. wakes' \in Seq(Wake) BY <1>2, LoseType DEF DaemonCrash
  <2>2. crashes' \in 0..MaxCrashes BY <1>1, <1>2 DEF DaemonCrash
  <2>3. sweep' \in BOOLEAN BY <1>2, Zenon DEF DaemonCrash
  <2>4. PaneType' BY <1>2, <2>2, <2>3, Zenon DEF DaemonCrash, queueVars, TypeOK, PaneType
  <2>5. QED BY <1>2, <2>1, <2>4 DEF DaemonCrash, queueVars, TypeOK, ActorType, QueueType
<1>3. CASE NotifyCrash
  <2>1. wakes' \in Seq(Wake) BY <1>3, LoseType DEF NotifyCrash
  <2>2. notifier' \in [Notifiers -> Notifier] BY <1>3 DEF NotifyCrash, IdleNotifier, Notifier
  <2>3. crashes' \in 0..MaxCrashes BY <1>1, <1>3 DEF NotifyCrash
  <2>4. PaneType' BY <1>3, <2>3, Zenon DEF NotifyCrash, queueVars, paneVars, TypeOK, PaneType
  <2>5. QED BY <1>3, <2>1, <2>2, <2>4 DEF NotifyCrash, queueVars, TypeOK, ActorType, QueueType
<1>4. ASSUME NEW r \in Readers, ReaderCrash(r) PROVE TypeOK'
  <2>1. reader' \in [Readers -> Reader]
    BY <1>4 DEF ReaderCrash, IdleReader, Reader, TypeOK, ActorType
  <2>2. emitted' \subseteq Nat
    <3>1. reader[r].lo \in Nat /\ emitted \subseteq Nat BY ReaderType DEF TypeOK, QueueType
    <3>2. CASE reader[r].pc = "read"
      <4>1. PICK k \in reader[r].lo .. reader[r].hi : emitted' = emitted \cup (reader[r].lo+1 .. k)
        BY <1>4, <3>2 DEF ReaderCrash
      <4>2. (reader[r].lo+1 .. k) \subseteq Nat BY <3>1
      <4>3. QED BY <3>1, <4>1, <4>2
    <3>3. CASE reader[r].pc # "read" BY <1>4, <3>1, <3>3 DEF ReaderCrash
    <3>4. QED BY <3>2, <3>3
  <2>3. crashes' \in 0..MaxCrashes BY <1>1, <1>4 DEF ReaderCrash
  <2>4. torn' \in BOOLEAN BY <1>4, Zenon DEF ReaderCrash, TypeOK, PaneType
  <2>5. PaneType' BY <1>4, <2>3, <2>4, Zenon DEF ReaderCrash, paneVars, TypeOK, PaneType
  <2>6. QED BY <1>4, <2>1, <2>2, <2>5 DEF ReaderCrash, TypeOK, ActorType, QueueType
<1>5. QED BY <1>2, <1>3, <1>4 DEF CrashStep

LEMMA TypeStep == TypeOK /\ [Next]_vars => TypeOK'
<1> SUFFICES ASSUME TypeOK, [Next]_vars PROVE TypeOK' OBVIOUS
<1>1. CASE UNCHANGED vars
  BY <1>1 DEF vars, queueVars, paneVars, TypeOK, QueueType, ActorType, PaneType
<1>2. CASE Next
  BY <1>2, WriterType, WakeType, ReaderStepType, PaneStepType, CrashType DEF Next
<1>3. QED BY <1>1, <1>2

(* Every state component keeps the values the code gives it. *)
THEOREM TypeCorrect == Spec => []TypeOK
BY InitType, TypeStep, PTL DEF Spec

---------------------------------------------------------------------------
(* The queue: what readers have emitted, and what the cursor covers. *)

QueueInv == cursor <= Len(inbox) /\ ReaderInv /\ NothingSkipped

LEMMA QueueFrame ==
  ASSUME QueueInv, UNCHANGED <<inbox, cursor, emitted, reader>>
  PROVE  QueueInv'
BY DEF QueueInv, ReaderInv, NothingSkipped

LEMMA QueueAppend ==
  ASSUME TypeOK, QueueInv, InboxLockFree, NEW rec \in Record, inbox' = Append(inbox, rec),
         UNCHANGED <<cursor, mark, emitted, alone, reader>>
  PROVE  QueueInv'
<1>1. Len(inbox') = Len(inbox) + 1 /\ Len(inbox) \in Nat /\ cursor \in Nat
  BY AppendType, LenProperties DEF TypeOK, QueueType
<1>2. \A r \in Readers : reader[r].hi \in Nat BY ReaderType
<1>3. ReaderInv' BY <1>1, <1>2 DEF QueueInv, ReaderInv, InboxLockFree
<1>4. QED BY <1>1, <1>3 DEF QueueInv, NothingSkipped

LEMMA QueueReader ==
  ASSUME TypeOK, QueueInv, NEW r \in Readers, ReaderStep(r)
  PROVE  QueueInv'
<1> USE DEF TypeOK, QueueType, ActorType
<1>1. inbox' = inbox /\ Len(inbox) \in Nat /\ cursor \in Nat /\ cursor <= Len(inbox)
  BY LenProperties DEF ReaderStep, StartRecv, StartAsk, Load, ReadNew, ReadRaises, WaitTimesOut, Emit,
         CommitRefused, CommitBegin, CommitEnd, AskSends, queueVars, QueueInv
<1>2. \A s \in Readers : reader[s].lo \in Nat /\ reader[s].hi \in Nat /\ reader[s] \in Reader
  BY ReaderType
<1>3. reader \in [Readers -> Reader] OBVIOUS
<1>4. CASE StartRecv(r) \/ StartAsk(r) \/ AskSends(r)
  <2>1. PICK c \in {"recv", "ask", "reply"} : reader' = [reader EXCEPT ![r] =
            [pc |-> "loaded", cmd |-> c, lo |-> cursor, hi |-> cursor]]
    BY <1>4 DEF StartRecv, StartAsk, Load, AskSends
  <2>2. UNCHANGED <<cursor, emitted>> BY <1>4 DEF StartRecv, StartAsk, Load, AskSends, queueVars
  <2>3. ReaderInv' BY <1>1, <1>2, <1>3, <2>1, <2>2 DEF QueueInv, ReaderInv, NothingSkipped
  <2>4. QED BY <1>1, <2>2, <2>3 DEF QueueInv, NothingSkipped
<1>5. CASE ReadNew(r)
  <2>1. UNCHANGED <<cursor, emitted>> BY <1>5 DEF ReadNew, queueVars
  <2>2. ReaderInv' BY <1>1, <1>2, <1>3, <1>5, <2>1 DEF ReadNew, IdleReader, QueueInv, ReaderInv
  <2>3. QED BY <1>1, <2>1, <2>2 DEF QueueInv, NothingSkipped
<1>6. CASE ReadRaises(r) \/ WaitTimesOut(r)
  <2>1. UNCHANGED <<cursor, emitted>> /\ reader' = [reader EXCEPT ![r] = IdleReader]
    BY <1>6 DEF ReadRaises, WaitTimesOut, queueVars
  <2>2. ReaderInv' BY <1>1, <1>2, <1>3, <2>1 DEF IdleReader, QueueInv, ReaderInv
  <2>3. QED BY <1>1, <2>1, <2>2 DEF QueueInv, NothingSkipped
<1>7. CASE Emit(r)
  <2>1. cursor' = cursor /\ emitted \subseteq emitted' BY <1>7 DEF Emit
  <2>2. 1..reader[r].hi \subseteq emitted'
    BY <1>2, <1>7 DEF Emit, QueueInv, ReaderInv
  <2>3. ReaderInv' BY <1>1, <1>2, <1>3, <1>7, <2>1, <2>2 DEF Emit, Goto, QueueInv, ReaderInv, Reader
  <2>4. QED BY <1>1, <2>1, <2>3 DEF QueueInv, NothingSkipped
<1>8. CASE CommitRefused(r)
  <2>1. UNCHANGED <<cursor, emitted>> BY <1>8 DEF CommitRefused, queueVars
  <2>2. ReaderInv' BY <1>1, <1>2, <1>3, <1>8, <2>1 DEF CommitRefused, QueueInv, ReaderInv, Reader
  <2>3. QED BY <1>1, <2>1, <2>2 DEF QueueInv, NothingSkipped
<1>9. CASE CommitBegin(r)
  <2>1. cursor' = 0 /\ emitted' = emitted BY <1>9 DEF CommitBegin
  <2>2. ReaderInv'
    BY <1>1, <1>2, <1>3, <1>9, <2>1
    DEF CommitBegin, Goto, WakeLockFree, InboxLockFree, QueueInv, ReaderInv, Reader
  <2>3. QED BY <1>1, <2>1, <2>2 DEF QueueInv, NothingSkipped
<1>10. CASE CommitEnd(r)
  <2>1. cursor' = Len(inbox) /\ emitted' = emitted /\ 1..reader[r].hi \subseteq emitted
    BY <1>10 DEF CommitEnd, QueueInv, ReaderInv
  <2>2. ReaderInv' BY <1>1, <1>2, <1>3, <1>10, <2>1 DEF CommitEnd, IdleReader, QueueInv, ReaderInv
  <2>3. 1..cursor' \subseteq emitted' BY <1>10, <2>1 DEF CommitEnd
  <2>4. QED BY <1>1, <2>1, <2>2, <2>3 DEF QueueInv, NothingSkipped
<1>11. QED BY <1>4, <1>5, <1>6, <1>7, <1>8, <1>9, <1>10 DEF ReaderStep

LEMMA QueueCrash ==
  ASSUME TypeOK, QueueInv, NEW r \in Readers, ReaderCrash(r)
  PROVE  QueueInv' /\ emitted \subseteq emitted'
<1>1. inbox' = inbox /\ cursor' = cursor /\ reader' = [reader EXCEPT ![r] = IdleReader]
  BY DEF ReaderCrash
<1>2. emitted \subseteq emitted'
  <2>1. CASE reader[r].pc = "read" BY <2>1 DEF ReaderCrash
  <2>2. CASE reader[r].pc # "read" BY <2>2 DEF ReaderCrash
  <2>3. QED BY <2>1, <2>2
<1>3. Len(inbox) \in Nat /\ \A s \in Readers : reader[s].lo \in Nat /\ reader[s].hi \in Nat
  BY ReaderType, LenProperties DEF TypeOK, QueueType
<1>4. ReaderInv'
  BY <1>1, <1>2, <1>3 DEF IdleReader, QueueInv, ReaderInv, TypeOK, ActorType
<1>5. QED BY <1>1, <1>2, <1>4 DEF QueueInv, NothingSkipped

---------------------------------------------------------------------------
(* The wakes: who owns which batch. *)

WakeInv == ClaimInv /\ OneWakePerBatch /\ StaleMeansShown /\ TypingOwnsBatch /\ BacklogHasOwner

LEMMA WakeElement ==
  ASSUME TypeOK, NEW n \in DOMAIN wakes
  PROVE  wakes[n] \in Wake /\ (wakes[n].claim = NoClaim \/ wakes[n].claim \in Nat)
<1>1. wakes[n] \in Wake BY ElementOfSeq, LenProperties DEF TypeOK, ActorType
<1>2. QED BY <1>1 DEF Wake, Claim

(* An append: a batch that starts gets a fresh claim, one that goes on none. *)
LEMMA WakeAppend ==
  ASSUME TypeOK, QueueInv, WakeInv, InboxLockFree, NEW rec \in Record,
         inbox' = Append(inbox, rec), UNCHANGED <<cursor, mark, emitted, alone, reader, torn>>,
         NEW by \in {"daemon", "cli"}, NEW up \in BOOLEAN,
         NEW st \in {"claimed", "scheduled", "unsent"},
         wakes' = NewWake(by, up, st)
  PROVE  WakeInv'
<1>1. Len(inbox') = Len(inbox) + 1 /\ Len(inbox) \in Nat /\ cursor \in Nat /\ cursor <= Len(inbox)
  BY AppendType, LenProperties DEF TypeOK, QueueType, QueueInv
<1>2. wakes \in Seq(Wake) /\ DOMAIN wakes = 1..Len(wakes) /\ Len(wakes) \in Nat
  BY LenProperties DEF TypeOK, ActorType
<1>3. CASE Len(inbox) <= cursor
  <2> DEFINE w == [claim |-> cursor, up |-> up, by |-> by, st |-> st]
  <2>1. wakes' = Append(wakes, w) /\ w \in Wake /\ cursor = Len(inbox)
    BY <1>1, <1>3 DEF NewWake, WakeClaim, Wake, Claim
  <2>2. /\ DOMAIN wakes' = 1..Len(wakes)+1 /\ wakes'[Len(wakes)+1] = w
        /\ \A n \in 1..Len(wakes) : wakes'[n] = wakes[n]
    BY <1>2, <2>1, AppendProperties, LenProperties
  <2> HIDE DEF w
  <2>3. w.claim = cursor /\ w.st \notin {"stale", "typing"} BY DEF w
  <2>4. \A n \in DOMAIN wakes : wakes[n].claim = NoClaim \/ wakes[n].claim \in Nat
    BY WakeElement
  <2>5. ClaimInv' BY <1>1, <1>2, <2>2, <2>3, <2>4 DEF WakeInv, ClaimInv
  <2>6. OneWakePerBatch'
    BY <1>1, <1>2, <2>1, <2>2, <2>3, <2>4 DEF WakeInv, ClaimInv, OneWakePerBatch
  <2>7. StaleMeansShown' /\ TypingOwnsBatch'
    <3>1. \A n \in DOMAIN wakes' : wakes'[n].st \in {"stale", "typing"} =>
            n \in DOMAIN wakes /\ wakes'[n] = wakes[n]
      BY <1>2, <2>2, <2>3
    <3>2. QED BY <3>1, Zenon DEF WakeInv, StaleMeansShown, TypingOwnsBatch, InboxLockFree
  <2>8. BacklogHasOwner'
    <3>1. Len(wakes)+1 \in DOMAIN wakes' BY <1>2, <2>2
    <3>2. QED BY <2>2, <2>3, <3>1 DEF BacklogHasOwner
  <2>9. QED BY <2>5, <2>6, <2>7, <2>8 DEF WakeInv
<1>4. CASE ~(Len(inbox) <= cursor)
  <2>1. wakes' = wakes BY <1>4 DEF NewWake, WakeClaim
  <2>2. \A n \in DOMAIN wakes : wakes[n].claim = NoClaim \/ wakes[n].claim \in Nat
    BY WakeElement
  <2>3. ClaimInv' BY <1>1, <2>1, <2>2 DEF WakeInv, ClaimInv
  <2>4. OneWakePerBatch' /\ StaleMeansShown' /\ TypingOwnsBatch'
    BY <2>1 DEF WakeInv, OneWakePerBatch, StaleMeansShown, TypingOwnsBatch, InboxLockFree
  <2>5. BacklogHasOwner'
    <3>1. Unread BY <1>1, <1>4 DEF Unread
    <3>2. QED BY <2>1, <3>1 DEF WakeInv, BacklogHasOwner, InboxLockFree
  <2>6. QED BY <2>3, <2>4, <2>5 DEF WakeInv
<1>5. QED BY <1>3, <1>4

(* A step that moves neither the queue nor the cursor keeps the invariant   *)
(* if it marks stale only wakes whose claim has passed and starts a claimed *)
(* wake only under the lock, while the claim is current.                    *)
LEMMA WakeKeep ==
  ASSUME TypeOK, WakeInv, UNCHANGED <<inbox, cursor>>, emitted \subseteq emitted',
         torn => torn', InboxLockFree => InboxLockFree', InboxLockFree' => InboxLockFree \/ torn',
         \A n \in DOMAIN wakes : n \in DOMAIN wakes' /\ wakes'[n].claim = wakes[n].claim,
         \A n \in DOMAIN wakes' \ DOMAIN wakes :
           wakes'[n].claim = NoClaim /\ wakes'[n].st = "scheduled",
         \A n \in DOMAIN wakes :
           /\ wakes'[n].st = "stale" =>
             wakes[n].st = "stale" \/ (wakes[n].claim # NoClaim /\ wakes[n].claim # cursor)
           /\ wakes'[n].st = "typing" =>
             wakes[n].st = "typing" \/ wakes[n].claim = NoClaim \/ (wakes[n].claim = cursor /\ InboxLockFree)
  PROVE  WakeInv'
<1>1. ClaimInv' BY DEF WakeInv, ClaimInv
<1>2. OneWakePerBatch' BY DEF WakeInv, OneWakePerBatch
<1>3. StaleMeansShown' BY DEF WakeInv, ClaimInv, StaleMeansShown
<1>4. TypingOwnsBatch' BY DEF WakeInv, TypingOwnsBatch
<1>5. BacklogHasOwner'
  <2> SUFFICES ASSUME ~torn', InboxLockFree', Unread'
      PROVE \E n \in DOMAIN wakes' : wakes'[n].claim = cursor' /\ wakes'[n].st # "stale"
    BY DEF BacklogHasOwner
  <2>1. ~torn /\ InboxLockFree /\ Unread BY DEF Unread
  <2>2. PICK n \in DOMAIN wakes : wakes[n].claim = cursor /\ wakes[n].st # "stale"
    BY <2>1 DEF WakeInv, BacklogHasOwner
  <2>3. QED BY <2>2
<1>6. QED BY <1>1, <1>2, <1>3, <1>4, <1>5 DEF WakeInv

LEMMA WakeSet ==
  ASSUME TypeOK, WakeInv, NEW n \in DOMAIN wakes, NEW up \in BOOLEAN,
         NEW st \in {"scheduled", "typing", "sent", "unsent", "stale"}, SetWake(n, st, up),
         UNCHANGED <<inbox, cursor, emitted, torn, reader>>,
         st = "stale" => wakes[n].claim # NoClaim /\ wakes[n].claim # cursor,
         st = "typing" => wakes[n].claim = NoClaim \/ (wakes[n].claim = cursor /\ InboxLockFree)
  PROVE  WakeInv'
<1>1. /\ DOMAIN wakes' = DOMAIN wakes /\ wakes'[n].st = st
      /\ wakes'[n].claim = wakes[n].claim
      /\ \A m \in DOMAIN wakes : m # n => wakes'[m] = wakes[m]
  BY SetWakeType
<1>2. InboxLockFree' <=> InboxLockFree BY DEF InboxLockFree
<1>3. \A m \in DOMAIN wakes : m \in DOMAIN wakes' /\ wakes'[m].claim = wakes[m].claim
  BY <1>1
<1>4. \A m \in DOMAIN wakes :
        /\ wakes'[m].st = "stale" =>
             wakes[m].st = "stale" \/ (wakes[m].claim # NoClaim /\ wakes[m].claim # cursor)
        /\ wakes'[m].st = "typing" =>
             wakes[m].st = "typing" \/ wakes[m].claim = NoClaim \/ (wakes[m].claim = cursor /\ InboxLockFree)
  <2> SUFFICES ASSUME NEW m \in DOMAIN wakes
      PROVE /\ wakes'[m].st = "stale" =>
             wakes[m].st = "stale" \/ (wakes[m].claim # NoClaim /\ wakes[m].claim # cursor)
            /\ wakes'[m].st = "typing" =>
             wakes[m].st = "typing" \/ wakes[m].claim = NoClaim \/ (wakes[m].claim = cursor /\ InboxLockFree)
    OBVIOUS
  <2>1. CASE m = n BY <1>1, <2>1
  <2>2. CASE m # n BY <1>1, <2>2
  <2>3. QED BY <2>1, <2>2
<1>5. QED BY <1>1, <1>2, <1>3, <1>4, WakeKeep

LEMMA WakeWake ==
  ASSUME TypeOK, WakeInv, NEW n \in DOMAIN wakes, WakeStep(n)
  PROVE  WakeInv'
<1>1. UNCHANGED <<inbox, cursor, emitted, torn, reader>>
  BY DEF WakeStep, ScheduleNudge, DispatchWake, TypingSent, TypingFailed, queueVars
<1>2. CASE ScheduleNudge(n)
  <2>1. (IF bound THEN "scheduled" ELSE "unsent") \in {"scheduled", "unsent"} OBVIOUS
  <2>2. bound \in BOOLEAN BY DEF TypeOK, PaneType
  <2>3. QED BY <1>1, <1>2, <2>1, <2>2, WakeSet DEF ScheduleNudge
<1>3. CASE DispatchWake(n)
  <2>1. Verdict(wakes[n]) \in {"stale", "typing", "unsent"} BY DEF Verdict
  <2>2. Verdict(wakes[n]) = "stale" => wakes[n].claim # NoClaim /\ wakes[n].claim # cursor
    BY DEF Verdict
  <2>3. Verdict(wakes[n]) = "typing" =>
          wakes[n].claim = NoClaim \/ (wakes[n].claim = cursor /\ InboxLockFree)
    BY <1>3 DEF DispatchWake, WakeLockFree, Verdict
  <2>4. (Verdict(wakes[n]) = "typing") \in BOOLEAN OBVIOUS
  <2>5. SetWake(n, Verdict(wakes[n]), Verdict(wakes[n]) = "typing") BY <1>3 DEF DispatchWake
  <2>6. QED BY <1>1, <2>1, <2>2, <2>3, <2>4, <2>5, WakeSet
<1>4. FALSE \in BOOLEAN BY Zenon
<1>5. CASE TypingSent(n)
  <2>1. SetWake(n, "sent", FALSE) BY <1>5 DEF TypingSent
  <2>2. QED BY <1>1, <1>4, <2>1, WakeSet
<1>6. CASE TypingFailed(n)
  <2>1. SetWake(n, "unsent", FALSE) BY <1>6 DEF TypingFailed
  <2>2. QED BY <1>1, <1>4, <2>1, WakeSet
<1>7. QED BY <1>2, <1>3, <1>5, <1>6 DEF WakeStep

(* A commit starts with no claimed wake in flight and covers the inbox.     *)
LEMMA WakeReader ==
  ASSUME TypeOK, QueueInv, WakeInv, NEW r \in Readers, ReaderStep(r)
  PROVE  WakeInv'
<1>1. /\ UNCHANGED <<inbox, wakes, torn>> /\ cursor \in Nat /\ Len(inbox) \in Nat
      /\ reader \in [Readers -> Reader]
  BY LenProperties DEF ReaderStep, StartRecv, StartAsk, Load, ReadNew, ReadRaises, WaitTimesOut, Emit,
         CommitRefused, CommitBegin, CommitEnd, AskSends, queueVars, TypeOK, QueueType, ActorType
<1>2. \A n \in DOMAIN wakes : wakes[n].claim = NoClaim \/ wakes[n].claim \in Nat
  BY WakeElement
<1>3. CASE CommitBegin(r)
  <2>1. /\ cursor' = 0 /\ emitted' = emitted /\ WakeLockFree /\ 1..Len(inbox) \subseteq emitted
    BY <1>3 DEF CommitBegin, QueueInv, ReaderInv
  <2>2. ClaimInv' BY <1>1, <1>2, <2>1 DEF WakeInv, ClaimInv
  <2>3. OneWakePerBatch' /\ StaleMeansShown'
    BY <1>1, <2>1 DEF WakeInv, OneWakePerBatch, StaleMeansShown
  <2>4. TypingOwnsBatch' BY <1>1, <2>1 DEF TypingOwnsBatch, WakeLockFree
  <2>5. BacklogHasOwner'
    <3>1. reader'[r].pc = "writing" BY <1>1, <1>3 DEF CommitBegin, Goto, Reader
    <3>2. QED BY <3>1 DEF BacklogHasOwner, InboxLockFree
  <2>6. QED BY <2>2, <2>3, <2>4, <2>5 DEF WakeInv
<1>4. CASE CommitEnd(r)
  <2>1. /\ cursor' = Len(inbox) /\ emitted' = emitted /\ 1..Len(inbox) \subseteq emitted
        /\ ~InboxLockFree
    BY <1>4 DEF CommitEnd, QueueInv, ReaderInv, InboxLockFree
  <2>2. ClaimInv' BY <1>1, <1>2, <2>1 DEF WakeInv, ClaimInv
  <2>3. OneWakePerBatch' /\ StaleMeansShown'
    BY <1>1, <2>1 DEF WakeInv, OneWakePerBatch, StaleMeansShown
  <2>4. TypingOwnsBatch' BY <1>1, <2>1 DEF WakeInv, TypingOwnsBatch
  <2>5. BacklogHasOwner' BY <1>1, <2>1 DEF BacklogHasOwner, Unread
  <2>6. QED BY <2>2, <2>3, <2>4, <2>5 DEF WakeInv
<1>5. CASE ~CommitBegin(r) /\ ~CommitEnd(r)
  <2>1. cursor' = cursor /\ emitted \subseteq emitted'
    BY <1>5 DEF ReaderStep, StartRecv, StartAsk, Load, ReadNew, ReadRaises, WaitTimesOut, Emit,
         CommitRefused, AskSends, queueVars
  <2>2. /\ reader[r].pc # "writing" /\ reader'[r].pc # "writing"
        /\ \A s \in Readers \ {r} : reader'[s] = reader[s]
    <3>1. reader'[r].pc # "writing" /\ \A s \in Readers \ {r} : reader'[s] = reader[s]
      <4>1. CASE StartRecv(r) \/ StartAsk(r) \/ AskSends(r)
        BY <1>1, <4>1 DEF StartRecv, StartAsk, Load, AskSends
      <4>2. reader[r] \in Reader BY <1>1
      <4>3. CASE ReadNew(r) BY <1>1, <4>2, <4>3 DEF ReadNew, IdleReader, Reader
      <4>4. CASE ReadRaises(r) \/ WaitTimesOut(r)
        BY <1>1, <4>4 DEF ReadRaises, WaitTimesOut, IdleReader
      <4>5. CASE Emit(r) BY <1>1, <4>2, <4>5 DEF Emit, Goto, Reader
      <4>6. CASE CommitRefused(r) BY <1>1, <4>2, <4>6 DEF CommitRefused, Reader
      <4>7. QED BY <1>5, <4>1, <4>3, <4>4, <4>5, <4>6 DEF ReaderStep
    <3>2. reader[r].pc # "writing"
      BY <1>5 DEF ReaderStep, StartRecv, StartAsk, Load, ReadNew, ReadRaises, WaitTimesOut, Emit,
         CommitRefused, AskSends, Idle
    <3>3. QED BY <1>1, <3>1, <3>2
  <2>3. InboxLockFree' <=> InboxLockFree BY <2>2 DEF InboxLockFree
  <2>4. QED BY <1>1, <2>1, <2>3, WakeKeep
<1>6. QED BY <1>3, <1>4, <1>5

LEMMA WakePane == TypeOK /\ WakeInv /\ PaneStep => WakeInv'
<1> SUFFICES ASSUME TypeOK, WakeInv, PaneStep PROVE WakeInv' OBVIOUS
<1>1. UNCHANGED <<inbox, cursor, emitted, torn, reader>>
  BY DEF PaneStep, SweepDispatch, SweepSent, SweepFails, PaneEnds, Revive, queueVars
<1>2. (InboxLockFree' <=> InboxLockFree) /\ (torn => torn') BY <1>1, Zenon DEF InboxLockFree
<1>3. CASE SweepDispatch \/ SweepSent \/ SweepFails
  <2>1. wakes' = wakes BY <1>3 DEF SweepDispatch, SweepSent, SweepFails
  <2>2. QED BY <1>1, <1>2, <2>1, WakeKeep
<1>4. CASE PaneEnds BY <1>1, <1>2, <1>4, PaneEndsType, WakeKeep
<1>5. CASE Revive
  <2> DEFINE w == [claim |-> NoClaim, up |-> TRUE, by |-> "daemon", st |-> "scheduled"]
  <2>1. wakes \in Seq(Wake) /\ DOMAIN wakes = 1..Len(wakes) /\ Len(wakes) \in Nat
    BY LenProperties DEF TypeOK, ActorType
  <2>2. CASE wakes' = wakes BY <1>1, <1>2, <2>2, WakeKeep
  <2>3. CASE wakes' = Append(wakes, w)
    <3>1. w \in Wake BY DEF Wake, Claim
    <3>2. /\ DOMAIN wakes' = 1..Len(wakes)+1 /\ wakes'[Len(wakes)+1] = w
          /\ \A n \in 1..Len(wakes) : wakes'[n] = wakes[n]
      BY <2>1, <2>3, <3>1, AppendProperties, LenProperties
    <3>3. \A n \in DOMAIN wakes' \ DOMAIN wakes : n = Len(wakes)+1 BY <2>1, <3>2
    <3>4. \A n \in DOMAIN wakes' \ DOMAIN wakes :
            wakes'[n].claim = NoClaim /\ wakes'[n].st = "scheduled"
      BY <3>2, <3>3
    <3>5. \A n \in DOMAIN wakes : n \in DOMAIN wakes' /\ wakes'[n] = wakes[n]
      BY <2>1, <3>2
    <3>6. QED BY <1>1, <1>2, <3>4, <3>5, WakeKeep
  <2>4. QED BY <1>5, <2>2, <2>3 DEF Revive
<1>6. QED BY <1>3, <1>4, <1>5 DEF PaneStep

LEMMA WakeCrash == TypeOK /\ QueueInv /\ WakeInv /\ CrashStep => WakeInv' /\ QueueInv'
<1> SUFFICES ASSUME TypeOK, QueueInv, WakeInv, CrashStep PROVE WakeInv' /\ QueueInv' OBVIOUS
<1>1. ASSUME NEW by, Lose(by), UNCHANGED <<inbox, cursor, emitted, torn, reader>>
      PROVE WakeInv' /\ QueueInv'
  <2>1. (InboxLockFree' <=> InboxLockFree) /\ (torn => torn') BY <1>1, Zenon DEF InboxLockFree
  <2>2. QED BY <1>1, <2>1, LoseType, WakeKeep, QueueFrame
<1>2. CASE DaemonCrash BY <1>1, <1>2 DEF DaemonCrash, queueVars
<1>3. CASE NotifyCrash BY <1>1, <1>3 DEF NotifyCrash, queueVars
<1>4. ASSUME NEW r \in Readers, ReaderCrash(r) PROVE WakeInv' /\ QueueInv'
  <2>1. QueueInv' /\ emitted \subseteq emitted' BY <1>4, QueueCrash
  <2>2. /\ UNCHANGED <<inbox, cursor, wakes>>
        /\ reader' = [reader EXCEPT ![r] = IdleReader] /\ reader \in [Readers -> Reader]
    BY <1>4 DEF ReaderCrash, TypeOK, ActorType
  <2>6. (torn => torn') /\ (reader[r].pc = "writing" => torn') BY <1>4, Zenon DEF ReaderCrash
  <2>3. reader'[r].pc = "idle" /\ \A s \in Readers \ {r} : reader'[s] = reader[s]
    BY <2>2 DEF IdleReader
  <2>4. (InboxLockFree => InboxLockFree') /\ (InboxLockFree' => InboxLockFree \/ torn')
    BY <2>3, <2>6 DEF InboxLockFree
  <2>5. QED BY <2>1, <2>2, <2>4, <2>6, WakeKeep
<1>5. QED BY <1>2, <1>3, <1>4 DEF CrashStep

---------------------------------------------------------------------------
(* The inductive invariant. *)

LEMMA WriterQueue == TypeOK /\ QueueInv /\ WakeInv /\ KeyOnce /\ WriterStep
                       => QueueInv' /\ WakeInv' /\ KeyOnce'
<1> SUFFICES ASSUME TypeOK, QueueInv, WakeInv, KeyOnce, WriterStep
             PROVE  QueueInv' /\ WakeInv' /\ KeyOnce' OBVIOUS
<1>1. ASSUME NEW rec \in Record, InboxLockFree, inbox' = Append(inbox, rec),
             rec.key = NoKey \/ ~HasKey(rec.key),
             UNCHANGED <<cursor, mark, emitted, alone, reader, torn>>,
             NEW by \in {"daemon", "cli"}, NEW up \in BOOLEAN,
             NEW st \in {"claimed", "scheduled", "unsent"}, wakes' = NewWake(by, up, st)
      PROVE  QueueInv' /\ WakeInv' /\ KeyOnce'
  <2>1. QueueInv' BY <1>1, QueueAppend
  <2>2. WakeInv' BY <1>1, WakeAppend
  <2>3. KeyOnce'
    <3>1. /\ DOMAIN inbox = 1..Len(inbox) /\ DOMAIN inbox' = 1..Len(inbox)+1
          /\ \A i \in DOMAIN inbox : inbox'[i] = inbox[i]
          /\ inbox'[Len(inbox)+1] = rec /\ Len(inbox) \in Nat
      BY <1>1, AppendType, LenProperties DEF TypeOK, QueueType
    <3>2. \A i \in DOMAIN inbox' : i \in DOMAIN inbox \/ i = Len(inbox)+1 BY <3>1
    <3>3. \A i \in DOMAIN inbox : inbox[i].key = rec.key => rec.key = NoKey
      BY <1>1 DEF HasKey
    <3>4. QED BY <3>1, <3>2, <3>3, ZenonT(30) DEF KeyOnce
  <2>4. QED BY <2>1, <2>2, <2>3
<1>2. ASSUME UNCHANGED <<inbox, cursor, emitted, torn, reader, wakes>>
      PROVE  QueueInv' /\ WakeInv' /\ KeyOnce'
  <2>1. (InboxLockFree' <=> InboxLockFree) /\ (torn => torn') BY <1>2, Zenon DEF InboxLockFree
  <2>2. QED BY <1>2, <2>1, QueueFrame, WakeKeep DEF KeyOnce
<1>3. ASSUME NEW b \in Bodies, TelegramAppend(b) PROVE QueueInv' /\ WakeInv' /\ KeyOnce'
  <2>1. [key |-> NoKey, body |-> b] \in Record BY DEF Record
  <2>2. QED BY <1>1, <1>3, <2>1 DEF TelegramAppend
<1>4. ASSUME NEW p \in Notifiers, NEW b \in Bodies, NotifyAppend(p, b)
      PROVE QueueInv' /\ WakeInv' /\ KeyOnce'
  <2>1. CASE HasKey(notifier[p].key)
    <3>1. UNCHANGED <<inbox, cursor, emitted, torn, reader, wakes>>
      BY <1>4, <2>1 DEF NotifyAppend
    <3>2. QED BY <1>2, <3>1
  <2>2. CASE ~HasKey(notifier[p].key)
    <3>1. [key |-> notifier[p].key, body |-> b] \in Record BY NotifierType DEF Record
    <3>2. PICK st \in {"scheduled", "unsent"} : wakes' = NewWake("cli", notifier[p].up, st)
      BY <1>4, <2>2 DEF NotifyAppend
    <3>3. /\ inbox' = Append(inbox, [key |-> notifier[p].key, body |-> b]) /\ InboxLockFree
          /\ UNCHANGED <<cursor, mark, emitted, alone, reader, torn>>
      BY <1>4, <2>2 DEF NotifyAppend
    <3>4. QED BY <1>1, <2>2, <3>1, <3>2, <3>3, NotifierType
  <2>3. QED BY <2>1, <2>2
<1>5. ASSUME NEW p \in Notifiers, NEW k \in Keys, NotifyPreflight(p, k)
      PROVE QueueInv' /\ WakeInv' /\ KeyOnce'
  BY <1>2, <1>5 DEF NotifyPreflight, queueVars
<1>6. QED BY <1>3, <1>4, <1>5 DEF WriterStep

LEMMA InitIInv == Init => IInv
<1> SUFFICES ASSUME Init PROVE IInv OBVIOUS
<1>1. TypeOK BY InitType
<1>2. DOMAIN inbox = {} /\ DOMAIN wakes = {} /\ Len(inbox) = 0 /\ cursor = 0
  BY DEF Init
<1>3. ReaderInv BY <1>2 DEF Init, IdleReader, ReaderInv
<1>4. QED BY <1>1, <1>2, <1>3
  DEF IInv, ClaimInv, NothingSkipped, OneWakePerBatch, StaleMeansShown, TypingOwnsBatch,
      BacklogHasOwner, Unread, KeyOnce

LEMMA StepIInv == IInv /\ [Next]_vars => IInv'
<1> SUFFICES ASSUME IInv, [Next]_vars PROVE IInv' OBVIOUS
<1>1. TypeOK /\ QueueInv /\ WakeInv /\ KeyOnce BY DEF IInv, QueueInv, WakeInv
<1>2. TypeOK' BY <1>1, TypeStep
<1>3. ASSUME UNCHANGED inbox PROVE KeyOnce' BY <1>1, <1>3 DEF KeyOnce
<1>4. QueueInv' /\ WakeInv' /\ KeyOnce'
  <2>1. CASE UNCHANGED vars
    <3>1. UNCHANGED <<inbox, cursor, emitted, torn, reader, wakes>>
      BY <2>1 DEF vars, queueVars
    <3>2. (InboxLockFree' <=> InboxLockFree) /\ (torn => torn') BY <3>1, Zenon DEF InboxLockFree
    <3>3. QED BY <1>1, <1>3, <3>1, <3>2, QueueFrame, WakeKeep
  <2>2. CASE WriterStep BY <1>1, <2>2, WriterQueue
  <2>3. ASSUME NEW n \in DOMAIN wakes, WakeStep(n) PROVE QueueInv' /\ WakeInv' /\ KeyOnce'
    <3>1. UNCHANGED <<inbox, cursor, emitted, reader>>
      BY <2>3 DEF WakeStep, ScheduleNudge, DispatchWake, TypingSent, TypingFailed, queueVars
    <3>2. QED BY <1>1, <1>3, <2>3, <3>1, QueueFrame, WakeWake
  <2>4. ASSUME NEW r \in Readers, ReaderStep(r) PROVE QueueInv' /\ WakeInv' /\ KeyOnce'
    <3>1. UNCHANGED inbox
      BY <2>4 DEF ReaderStep, StartRecv, StartAsk, Load, ReadNew, ReadRaises, WaitTimesOut, Emit,
         CommitRefused, CommitBegin, CommitEnd, AskSends, queueVars
    <3>2. QED BY <1>1, <1>3, <2>4, <3>1, QueueReader, WakeReader
  <2>5. CASE PaneStep
    <3>1. UNCHANGED <<inbox, cursor, emitted, reader>>
      BY <2>5 DEF PaneStep, SweepDispatch, SweepSent, SweepFails, PaneEnds, Revive, queueVars
    <3>2. QED BY <1>1, <1>3, <2>5, <3>1, QueueFrame, WakePane
  <2>6. CASE CrashStep
    <3>1. UNCHANGED inbox
      BY <2>6 DEF CrashStep, DaemonCrash, NotifyCrash, ReaderCrash, queueVars
    <3>2. QED BY <1>1, <1>3, <2>6, <3>1, WakeCrash
  <2>7. QED BY <2>1, <2>2, <2>3, <2>4, <2>5, <2>6 DEF Next
<1>5. QED BY <1>2, <1>4 DEF IInv, QueueInv, WakeInv

(* The inductive invariant holds in every reachable state. *)
THEOREM Invariant == Spec => []IInv
BY InitIInv, StepIInv, PTL DEF Spec

(* The cursor never passes a line no reader has printed, whatever crashes.  *)
THEOREM NoLineLost == Spec => []NothingSkipped
<1>1. IInv => NothingSkipped BY DEF IInv
<1>2. QED BY <1>1, Invariant, PTL

(* A wake is called off as stale only when its line has been printed.       *)
THEOREM ClaimsSound == Spec => []StaleMeansShown
<1>1. IInv => StaleMeansShown BY DEF IInv
<1>2. QED BY <1>1, Invariant, PTL

(* No two appends announce one batch, and keystrokes of a claimed wake go   *)
(* only to the batch it was taken for.                                      *)
THEOREM WakeOwnsBatch == Spec => []ClaimsExclusive
<1>1. IInv => ClaimsExclusive BY DEF IInv, ClaimsExclusive
<1>2. QED BY <1>1, Invariant, PTL

(* An unread backlog has a wake owner unless a cursor write was torn.       *)
THEOREM BacklogOwned == Spec => []BacklogHasOwner
<1>1. IInv => BacklogHasOwner BY DEF IInv
<1>2. QED BY <1>1, Invariant, PTL

(* However often notify is retried, its key is in the inbox at most once.   *)
THEOREM NotifyIdempotent == Spec => []KeyOnce
<1>1. IInv => KeyOnce BY DEF IInv
<1>2. QED BY <1>1, Invariant, PTL

---------------------------------------------------------------------------
(* Between two commits the cursor file says what was last committed; a      *)
(* reader that had the topic to itself holds nothing older.                 *)
Holding(r) == reader[r].pc \in {"loaded", "read", "emitted", "writing"}
AloneInv(r) == /\ \A s \in Readers : s # r => Idle(s)
               /\ Holding(r) => reader[r].lo >= mark
ReplayInv ==
  /\ mark <= Len(inbox)
  /\ ~torn => /\ InboxLockFree => cursor = mark
              /\ \A r \in alone : AloneInv(r)

LEMMA ReplayFrame ==
  ASSUME TypeOK, ReplayInv, UNCHANGED <<torn, cursor, mark, alone, reader>>,
         Len(inbox) <= Len(inbox'), Len(inbox') \in Nat
  PROVE  ReplayInv'
<1>1. mark \in Nat /\ Len(inbox) \in Nat
  BY LenProperties DEF TypeOK, QueueType
<1> QED BY <1>1 DEF ReplayInv, AloneInv, Holding, Idle, InboxLockFree

LEMMA ReplayReader ==
  ASSUME IInv, ReplayInv, NEW r \in Readers, ReaderStep(r)
  PROVE  ReplayInv'
<1>1. /\ TypeOK /\ reader \in [Readers -> Reader] /\ reader[r] \in Reader
      /\ cursor \in Nat /\ mark \in Nat /\ reader[r].lo \in Nat /\ reader[r].hi \in Nat
      /\ reader[r].lo <= reader[r].hi /\ reader[r].hi <= Len(inbox) /\ Len(inbox) \in Nat
      /\ alone \subseteq Readers /\ mark <= Len(inbox)
  BY ReaderType DEF IInv, ReaderInv, TypeOK, QueueType, ActorType, ReplayInv
<1>2. torn' = torn /\ inbox' = inbox /\ \A s \in Readers \ {r} : reader'[s] = reader[s]
  BY <1>1 DEF ReaderStep, StartRecv, StartAsk, Load, ReadNew, ReadRaises, WaitTimesOut, Emit, CommitRefused,
         CommitBegin, CommitEnd, AskSends, Goto, queueVars
<1>3. CASE StartRecv(r) \/ StartAsk(r)
  <2>1. /\ UNCHANGED <<cursor, mark>> /\ Idle(r) /\ reader'[r].pc = "loaded" /\ reader'[r].lo = cursor
        /\ alone' = IF \A s \in Readers : Idle(s) THEN {r} ELSE {}
    BY <1>1, <1>3 DEF StartRecv, StartAsk, Load
  <2>2. InboxLockFree' => InboxLockFree
    BY <1>2, <2>1 DEF InboxLockFree, Idle
  <2>3. (\A s \in Readers : Idle(s)) => InboxLockFree
    BY DEF InboxLockFree, Idle
  <2>4. ASSUME ~torn, NEW q \in alone' PROVE AloneInv(q)'
    <3>1. q = r /\ \A s \in Readers : Idle(s)
      BY <2>1, <2>4
    <3>2. cursor = mark
      BY <2>3, <2>4, <3>1 DEF ReplayInv
    <3> QED BY <1>1, <1>2, <2>1, <3>1, <3>2 DEF AloneInv, Holding, Idle
  <2> QED BY <1>1, <1>2, <2>1, <2>2, <2>4 DEF ReplayInv
<1>4. CASE ~(StartRecv(r) \/ StartAsk(r))
  <2>1. ~Idle(r) /\ alone' = alone
    BY <1>4 DEF ReaderStep, ReadNew, ReadRaises, WaitTimesOut, Emit, CommitRefused, CommitBegin, CommitEnd,
         AskSends, Idle, queueVars
  <2>2. CASE CommitEnd(r)
    <3>1. cursor' = reader[r].hi /\ reader[r].hi = Len(inbox) /\ ~Holding(r)' /\ reader[r].pc = "writing"
      BY <1>1, <2>2 DEF CommitEnd, IInv, ReaderInv, IdleReader, Holding
    <3>2. mark' = Len(inbox)
      BY <1>1, <2>2, <3>1 DEF CommitEnd
    <3>3. ASSUME ~torn, NEW q \in alone PROVE AloneInv(q)'
      <4>1. q = r /\ AloneInv(q)
        BY <1>1, <2>1, <3>3 DEF ReplayInv, AloneInv
      <4> QED BY <1>2, <3>1, <4>1 DEF AloneInv, Idle, Holding
    <3> QED BY <1>1, <1>2, <2>1, <3>1, <3>2, <3>3 DEF ReplayInv
  <2>3. CASE ~CommitEnd(r)
    <3>1. mark' = mark /\ (InboxLockFree' => InboxLockFree /\ cursor' = cursor)
      <4>1. mark' = mark
        BY <1>4, <2>3 DEF ReaderStep, ReadNew, ReadRaises, WaitTimesOut, Emit, CommitRefused, CommitBegin,
             AskSends, queueVars
      <4>2. reader[r].pc # "writing"
        BY <1>4, <2>3 DEF ReaderStep, ReadNew, ReadRaises, WaitTimesOut, Emit, CommitRefused, CommitBegin,
             AskSends
      <4>3. reader'[r].pc = "writing" \/ cursor' = cursor
        <5>1. CASE CommitBegin(r)
          BY <1>1, <5>1 DEF CommitBegin, Goto, Reader
        <5>2. CASE ~CommitBegin(r)
          BY <1>4, <2>3, <5>2 DEF ReaderStep, ReadNew, ReadRaises, WaitTimesOut, Emit, CommitRefused,
             AskSends, queueVars
        <5> QED BY <5>1, <5>2
      <4> QED BY <1>2, <4>1, <4>2, <4>3 DEF InboxLockFree
    <3>2. ASSUME ~torn, NEW q \in alone PROVE AloneInv(q)'
      <4>1. q = r /\ AloneInv(r) /\ \A s \in Readers : s # r => Idle(s)
        BY <1>1, <2>1, <3>2 DEF ReplayInv, AloneInv
      <4>2. reader[r].pc = "sending" => cursor = mark
        BY <3>2, <4>1 DEF ReplayInv, InboxLockFree, Idle
      <4>3. Holding(r)' => reader'[r].lo >= mark
        <5>1. CASE ReadNew(r) \/ ReadRaises(r) \/ WaitTimesOut(r)
          <6>1. /\ reader[r].pc = "loaded"
                /\ \/ reader' = [reader EXCEPT ![r] = IdleReader]
                   \/ reader' = [reader EXCEPT ![r] = [reader[r] EXCEPT !.pc = "read", !.hi = Len(inbox)]]
            BY <1>1, <5>1 DEF ReadNew, ReadRaises, WaitTimesOut
          <6>2. CASE reader' = [reader EXCEPT ![r] = IdleReader]
            BY <1>1, <6>2 DEF IdleReader, Holding
          <6>3. CASE reader' = [reader EXCEPT ![r] = [reader[r] EXCEPT !.pc = "read", !.hi = Len(inbox)]]
            <7>1. reader'[r].lo = reader[r].lo
              BY <1>1, <6>3 DEF Reader
            <7> QED BY <4>1, <6>1, <7>1 DEF AloneInv, Holding
          <6> QED BY <6>1, <6>2, <6>3
        <5>2. CASE Emit(r) \/ CommitBegin(r)
          BY <1>1, <4>1, <5>2 DEF Emit, CommitBegin, Goto, Reader, AloneInv, Holding
        <5>3. CASE CommitRefused(r)
          BY <1>1, <4>1, <5>3 DEF CommitRefused, Reader, AloneInv, Holding
        <5>4. CASE AskSends(r)
          BY <1>1, <4>2, <5>4 DEF AskSends
        <5> QED BY <1>4, <2>3, <5>1, <5>2, <5>3, <5>4 DEF ReaderStep
      <4> QED BY <1>2, <3>1, <4>1, <4>3 DEF AloneInv, Idle
    <3> QED BY <1>1, <1>2, <2>1, <3>1, <3>2 DEF ReplayInv
  <2> QED BY <2>2, <2>3
<1> QED BY <1>3, <1>4

LEMMA ReplayStep == IInv /\ ReplayInv /\ [Next]_vars => ReplayInv'
<1> SUFFICES ASSUME IInv, ReplayInv, [Next]_vars PROVE ReplayInv'
  OBVIOUS
<1> USE DEF IInv
<1>1. Len(inbox) \in Nat
  BY LenProperties DEF TypeOK, QueueType
<1>2. CASE WriterStep
  <2>1. UNCHANGED <<torn, cursor, mark, alone, reader>>
    BY <1>2 DEF WriterStep, TelegramAppend, NotifyPreflight, NotifyAppend, queueVars
  <2>2. CASE inbox' = inbox
    BY <1>1, <2>1, <2>2, ReplayFrame
  <2>3. ASSUME NEW rec \in Record, inbox' = Append(inbox, rec) PROVE ReplayInv'
    BY <1>1, <2>1, <2>3, AppendType, ReplayFrame
  <2>4. \/ inbox' = inbox
        \/ \E rec \in Record : inbox' = Append(inbox, rec)
    BY <1>2, NotifierType DEF WriterStep, TelegramAppend, NotifyPreflight, NotifyAppend, queueVars, Record
  <2> QED BY <2>2, <2>3, <2>4
<1>3. CASE PaneStep \/ DaemonCrash \/ NotifyCrash \/ UNCHANGED vars
  BY <1>1, <1>3, ReplayFrame DEF PaneStep, SweepDispatch, SweepSent, SweepFails, PaneEnds, Revive,
       DaemonCrash, NotifyCrash, vars, queueVars
<1>4. ASSUME NEW n \in DOMAIN wakes, WakeStep(n) PROVE ReplayInv'
  <2>1. UNCHANGED <<queueVars, reader>>
    BY <1>4 DEF WakeStep, ScheduleNudge, DispatchWake, TypingSent, TypingFailed
  <2> QED BY <1>1, <2>1, ReplayFrame DEF queueVars
<1>5. ASSUME NEW r \in Readers, ReaderCrash(r) PROVE ReplayInv'
  <2>1. /\ UNCHANGED <<inbox, cursor, mark, alone>> /\ reader'[r].pc = "idle"
        /\ \A s \in Readers \ {r} : reader'[s] = reader[s]
        /\ torn' = (torn \/ reader[r].pc = "writing")
    BY <1>5 DEF ReaderCrash, IdleReader, TypeOK, ActorType
  <2>2. ~torn' => ~torn /\ (InboxLockFree' => InboxLockFree)
    BY <2>1 DEF InboxLockFree
  <2>3. ASSUME ~torn, NEW q \in alone PROVE AloneInv(q)'
    BY <2>1, <2>3 DEF ReplayInv, AloneInv, Holding, Idle, TypeOK, QueueType
  <2> QED BY <2>1, <2>2, <2>3 DEF ReplayInv
<1> QED BY <1>2, <1>3, <1>4, <1>5, ReplayReader DEF Next, CrashStep

(* However many readers there are, a completed commit is never taken back,  *)
(* and a reader at work alone prints no line that a completed commit        *)
(* covers, whatever else crashes, unless a commit was torn.                 *)
THEOREM NothingReplayed == Spec => []NoReplay
<1>1. Init => ReplayInv
  BY DEF Init, ReplayInv, IdleReader
<1>2. IInv /\ ReplayInv /\ [Next]_vars => ReplayInv'
  BY ReplayStep
<1>3. ReplayInv => NoReplay
  BY DEF ReplayInv, NoReplay, AloneInv, Holding
<1> QED BY <1>1, <1>2, <1>3, Invariant, PTL DEF Spec

---------------------------------------------------------------------------
(* Typing into the pane.                                                    *)

LEMMA IdleType == IdleWriter \in Writer
  BY DEF IdleWriter, Writer, Pcs

LEMMA NoOneWrites == NoOne \notin Writers
  BY PaneTypingAssumption DEF PaneTypingAssumption

LEMMA ProcType == \A w \in Writers : ProcOf(w) \in Procs
  BY DEF ProcOf, Procs, Writers

(* A call that moves on, and one that returns.                              *)
LEMMA GotoWriter ==
  ASSUME TypingTypeOK, NEW w \in Writers, NEW pc \in Pcs, StepTo(w, pc)
  PROVE  /\ writer' \in [Writers -> Writer]
         /\ writer'[w].pc = pc /\ writer'[w].n = writer[w].n /\ writer'[w].clear = writer[w].clear
         /\ writer'[w].landed = writer[w].landed /\ writer'[w].ours = writer[w].ours
         /\ writer'[w].lapsed = writer[w].lapsed
         /\ \A v \in Writers \ {w} : writer'[v] = writer[v]
<1>1. writer \in [Writers -> Writer] /\ writer[w] \in Writer
  BY DEF TypingTypeOK
<1>2. [writer[w] EXCEPT !.pc = pc] \in Writer
  BY <1>1 DEF Writer
<1>3. writer' = [writer EXCEPT ![w] = [writer[w] EXCEPT !.pc = pc]]
  BY DEF StepTo
<1> QED BY <1>1, <1>2, <1>3 DEF Writer

LEMMA ReturnWriter ==
  ASSUME TypingTypeOK, NEW w \in Writers, Return(w)
  PROVE  /\ writer' \in [Writers -> Writer] /\ lock' = NoOne
         /\ writer'[w] = IdleWriter
         /\ \A v \in Writers \ {w} : writer'[v] = writer[v]
  BY IdleType DEF Return, TypingTypeOK

(* The input box after a key.                                               *)
LEMMA TypedBox ==
  ASSUME TypingTypeOK, NEW t \in Token
  PROVE  Typed(<<t>>) \in Seq(Token)
  BY DEF Typed, TypingTypeOK

LEMMA ErasedBox ==
  ASSUME TypingTypeOK
  PROVE  Erased \in Seq(Token)
<1>1. CASE modal # "none" \/ box = <<>>
  BY <1>1 DEF Erased, TypingTypeOK
<1>2. CASE modal = "none" /\ box # <<>>
  <2> DEFINE rest == SubSeq(box, 1, Len(box) - 1)
             last == box[Len(box)]
  <2>1. box \in Seq(Token) /\ Len(box) \in Nat \ {0} /\ last \in Token
    BY <1>2, EmptySeq, LenProperties, ElementOfSeq DEF TypingTypeOK
  <2>2. rest \in Seq(Token)
    BY <2>1, SubSeqProperties
  <2>3. [last EXCEPT !.kind = "cut"] \in Token
    BY <2>1 DEF Token
  <2>4. Append(rest, [last EXCEPT !.kind = "cut"]) \in Seq(Token)
    BY <2>2, <2>3, AppendProperties
  <2> QED BY <1>2, <2>2, <2>4 DEF Erased
<1> QED BY <1>1, <1>2

LEMMA ReceiptBox ==
  ASSUME TypingTypeOK, NEW n \in Nat
  PROVE  TypedReceipt(n) \subseteq Seq(Token)
<1>1. Typed(<<[kind |-> "receipt", n |-> n]>>) \in Seq(Token)
  BY TypedBox DEF Token
<1>2. ASSUME box # <<>>, box[Len(box)] = [kind |-> "text", n |-> n]
      PROVE  [box EXCEPT ![Len(box)].kind = "chip"] \in Seq(Token)
  <2>1. box \in Seq(Token) /\ Len(box) \in 1..Len(box)
    BY <1>2, EmptySeq, LenProperties DEF TypingTypeOK
  <2>2. [box[Len(box)] EXCEPT !.kind = "chip"] \in Token
    BY <1>2 DEF Token
  <2>3. [box EXCEPT ![Len(box)] = [box[Len(box)] EXCEPT !.kind = "chip"]] \in Seq(Token)
    BY <2>1, <2>2, ExceptSeq
  <2> QED BY <2>3
<1> QED BY <1>1, <1>2 DEF TypedReceipt

(* The counts after a call that leaves what it typed behind.                *)
LEMMA LeavesType ==
  ASSUME TypingTypeOK, NEW w \in Writers, NEW count \in [Procs -> Nat]
  PROVE  Leaves(w, count) \in [Procs -> Nat]
  BY ProcType DEF Leaves

LEMMA StrandedType ==
  ASSUME TypingTypeOK, NEW w \in Writers, Stranded(w)
  PROVE  /\ streak' \in [Procs -> 0..SWALLOW_MAX_ATTEMPTS] /\ capped' \in [Procs -> BOOLEAN]
         /\ {left', uncounted', retries'} \subseteq [Procs -> Nat]
<1>1. ProcOf(w) \in Procs /\ left \in [Procs -> Nat] /\ {uncounted, retries} \subseteq [Procs -> Nat]
  BY ProcType DEF TypingTypeOK
<1>2. left' \in [Procs -> Nat] /\ {uncounted', retries'} \subseteq [Procs -> Nat]
  BY <1>1, LeavesType DEF Stranded
<1>3. streak' \in [Procs -> 0..SWALLOW_MAX_ATTEMPTS]
  BY <1>1 DEF Stranded, TypingTypeOK, SWALLOW_MAX_ATTEMPTS
<1>4. capped' \in [Procs -> BOOLEAN]
  BY <1>1, Zenon DEF Stranded, TypingTypeOK
<1> QED BY <1>2, <1>3, <1>4

LEMMA SubmissionType ==
  ASSUME TypingTypeOK, NEW w \in Writers
  PROVE  Submission(w) \in [line : Seq(Token), n : Nat, landed : BOOLEAN, lapsed : Pcs \cup {"never"}]
  BY DEF Submission, TypingTypeOK, Writer

LEMMA EnterType ==
  ASSUME TypingTypeOK, NEW w \in Writers, Enter(w) \/ UNCHANGED <<modal, picked, submitted, box>>
  PROVE  /\ modal' \in {"none", "early", "late", "raced"} /\ picked' \subseteq {"early", "late", "raced"}
         /\ box' \in Seq(Token)
         /\ submitted' \in Seq([line : Seq(Token), n : Nat, landed : BOOLEAN, lapsed : Pcs \cup {"never"}])
<1> DEFINE S == [line : Seq(Token), n : Nat, landed : BOOLEAN, lapsed : Pcs \cup {"never"}]
<1>1. Append(submitted, Submission(w)) \in Seq(S)
  <2>1. submitted \in Seq(S) /\ Submission(w) \in S
    BY SubmissionType DEF TypingTypeOK
  <2> HIDE DEF S
  <2> QED BY <2>1, AppendProperties
<1>2. modal = "none" \/ modal \in {"early", "late", "raced"}
  BY DEF TypingTypeOK
<1> HIDE DEF S
<1>3. submitted \in Seq(S)
  BY DEF TypingTypeOK, S
<1> QED BY <1>1, <1>2, <1>3, EmptySeq DEF Enter, TypingTypeOK, S

LEMMA TypingInitType == TypingInit => TypingTypeOK
<1> SUFFICES ASSUME TypingInit PROVE TypingTypeOK
  OBVIOUS
<1>1. writer \in [Writers -> Writer]
  BY IdleType DEF TypingInit
<1>2. capped \in [Procs -> BOOLEAN]
  BY Zenon DEF TypingInit
<1> QED BY <1>1, <1>2, EmptySeq, PaneTypingAssumption
       DEF TypingInit, TypingTypeOK, PaneTypingAssumption, SWALLOW_MAX_ATTEMPTS

(* The steps of a call keep the types.                                      *)
LEMMA TypingTypeStep ==
  ASSUME TypingTypeOK, NEW w \in Writers, TypeLine(w) \/ Lapse(w)
  PROVE  TypingTypeOK'
<1>0. writer[w] \in Writer /\ writer[w].n \in Nat /\ ProcOf(w) \in Procs
  BY ProcType DEF TypingTypeOK, Writer
<1>1. CASE Call(w)
  <2>1. PICK c \in BOOLEAN : writer' = [writer EXCEPT ![w] =
          [IdleWriter EXCEPT !.pc = "locking", !.n = attempts + 1, !.clear = c]]
    BY <1>1 DEF Call
  <2>2. [IdleWriter EXCEPT !.pc = "locking", !.n = attempts + 1, !.clear = c] \in Writer
    <3> DEFINE r == [IdleWriter EXCEPT !.pc = "locking"]
               q == [r EXCEPT !.n = attempts + 1]
    <3>1. attempts + 1 \in Nat
      BY DEF TypingTypeOK
    <3>2. r \in Writer
      BY DEF IdleWriter, Writer, Pcs
    <3> HIDE DEF r
    <3>3. q \in Writer
      BY <3>1, <3>2 DEF Writer
    <3> HIDE DEF q
    <3>4. [q EXCEPT !.clear = c] \in Writer
      BY <3>3 DEF Writer
    <3> QED BY <3>4 DEF q, r
  <2>3. writer' \in [Writers -> Writer] /\ attempts' \in 0..MaxAttempts
    BY <1>1, <2>1, <2>2, PaneTypingAssumption DEF Call, TypingTypeOK, PaneTypingAssumption
  <2> QED BY <1>1, <2>3 DEF Call, TypingTypeOK, screenVars, tableVars
<1>2. CASE LockTimesOut(w)
  BY <1>2, IdleType DEF LockTimesOut, TypingTypeOK, screenVars, tableVars
<1>3. CASE TakeLock(w)
  <2>1. writer' \in [Writers -> Writer]
    BY <1>3, GotoWriter DEF TakeLock, Pcs
  <2> QED BY <1>3, <2>1 DEF TakeLock, TypingTypeOK, tableVars
<1>4. CASE ClearBox(w)
  <2>1. [writer[w] EXCEPT !.clear = FALSE] \in Writer
    BY <1>0 DEF Writer
  <2>2. writer' \in [Writers -> Writer]
    BY <1>4, <2>1 DEF ClearBox, TypingTypeOK
  <2> QED BY <1>4, <2>2, EmptySeq DEF ClearBox, TypingTypeOK, tableVars
<1>5. CASE GiveUpBefore(w) \/ CappedNow(w)
  BY <1>5, ReturnWriter DEF GiveUpBefore, CappedNow, TypingTypeOK, screenVars, tableVars
<1>6. CASE Proceed(w)
  <2>1. writer' \in [Writers -> Writer] /\ lock' \in Writers \cup {NoOne}
    BY <1>6, ReturnWriter, GotoWriter DEF Proceed, TypingTypeOK, Pcs
  <2>2. capped' \in [Procs -> BOOLEAN]
    <3>1. AtCap(ProcOf(w)) \in BOOLEAN
      BY DEF AtCap
    <3> QED BY <1>0, <1>6, <3>1, Zenon DEF Proceed, TypingTypeOK
  <2>3. retries' \in [Procs -> Nat]
    BY <1>0, <1>6 DEF Proceed, TypingTypeOK
  <2> QED BY <1>6, <2>1, <2>2, <2>3 DEF Proceed, TypingTypeOK, screenVars
<1>7. CASE TypeText(w)
  <2>1. [writer[w] EXCEPT !.pc = "typed", !.landed = box' # box] \in Writer
    BY <1>0 DEF Writer, Pcs
  <2>2. writer' = [writer EXCEPT ![w] = [writer[w] EXCEPT !.pc = "typed", !.landed = box' # box]]
    BY <1>7 DEF TypeText
  <2>3. writer' \in [Writers -> Writer]
    BY <2>1, <2>2 DEF TypingTypeOK
  <2>4. box' \in Seq(Token)
    BY <1>0, <1>7, TypedBox DEF TypeText, Token
  <2> QED BY <1>7, <2>3, <2>4 DEF TypeText, TypingTypeOK, tableVars
<1>8. CASE TypeReceipt(w)
  <2>1. box' \in Seq(Token)
    BY <1>0, <1>8, ReceiptBox DEF TypeReceipt
  <2>2. writer' \in [Writers -> Writer]
    BY <1>8, GotoWriter DEF TypeReceipt, Pcs
  <2> QED BY <1>8, <2>1, <2>2 DEF TypeReceipt, TypingTypeOK, tableVars
<1>9. CASE TextRaises(w)
  <2>1. box' \in Seq(Token)
    BY <1>0, <1>9, TypedBox DEF TextRaises, Token, TypingTypeOK
  <2>2. uncounted' \in [Procs -> Nat]
    BY <1>9, LeavesType DEF TextRaises, TypingTypeOK
  <2> QED BY <1>9, <2>1, <2>2, ReturnWriter DEF TextRaises, TypingTypeOK
<1>10. CASE ReceiptRaises(w)
  <2>1. box' \in Seq(Token)
    BY <1>0, <1>10, ReceiptBox DEF ReceiptRaises, TypingTypeOK
  <2>2. uncounted' \in [Procs -> Nat]
    BY <1>10, LeavesType DEF ReceiptRaises, TypingTypeOK
  <2> QED BY <1>10, <2>1, <2>2, ReturnWriter DEF ReceiptRaises, TypingTypeOK
<1>11. CASE SeeReceipt(w) \/ SeeCleared(w)
  <2>1. writer' \in [Writers -> Writer]
    BY <1>11, GotoWriter DEF SeeReceipt, SeeCleared, Pcs
  <2> QED BY <1>11, <2>1 DEF SeeReceipt, SeeCleared, TypingTypeOK, screenVars, tableVars
<1>12. CASE MissReceipt(w) \/ MissCleared(w) \/ EraseRaises(w)
  <2>1. box' \in Seq(Token)
    BY <1>12, ErasedBox DEF MissReceipt, MissCleared, EraseRaises, TypingTypeOK
  <2> QED BY <1>12, <2>1, ReturnWriter, StrandedType
          DEF MissReceipt, MissCleared, EraseRaises, TypingTypeOK
<1>13. CASE EraseReceipt(w)
  <2>1. box' \in Seq(Token) /\ writer' \in [Writers -> Writer]
    BY <1>13, ErasedBox, GotoWriter DEF EraseReceipt, Pcs
  <2> QED BY <1>13, <2>1 DEF EraseReceipt, TypingTypeOK, tableVars
<1>14. CASE CheckOurs(w)
  <2>1. CASE writer[w].ours
    <3>1. writer' \in [Writers -> Writer]
      BY <1>14, <2>1, GotoWriter DEF CheckOurs, Pcs
    <3> QED BY <1>14, <2>1, <3>1 DEF CheckOurs, TypingTypeOK, tableVars
  <2>2. CASE ~writer[w].ours
    BY <1>14, <2>2, ReturnWriter, StrandedType DEF CheckOurs, TypingTypeOK
  <2> QED BY <2>1, <2>2
<1>15. CASE PressEnter(w)
  <2>1. capped' \in [Procs -> BOOLEAN]
    BY <1>0, <1>15, Zenon DEF PressEnter, TypingTypeOK
  <2>2. /\ streak' \in [Procs -> 0..SWALLOW_MAX_ATTEMPTS]
        /\ {left', uncounted', retries'} \subseteq [Procs -> Nat]
    BY <1>0, <1>15 DEF PressEnter, TypingTypeOK, SWALLOW_MAX_ATTEMPTS
  <2> QED BY <1>15, <2>1, <2>2, ReturnWriter, EnterType DEF PressEnter, TypingTypeOK
<1>16. CASE EnterRaises(w)
  BY <1>16, ReturnWriter, EnterType, StrandedType DEF EnterRaises, TypingTypeOK
<1>17. CASE Lapse(w)
  <2>1. [writer[w] EXCEPT !.ours = FALSE, !.lapsed = writer[w].pc] \in Writer
    BY <1>0 DEF Writer
  <2>2. writer' = [writer EXCEPT ![w] = [writer[w] EXCEPT !.ours = FALSE, !.lapsed = writer[w].pc]]
    BY <1>17 DEF Lapse
  <2>3. writer' \in [Writers -> Writer]
    BY <2>1, <2>2 DEF TypingTypeOK
  <2> QED BY <1>17, <2>3 DEF Lapse, TypingTypeOK, screenVars, tableVars
<1> QED BY <1>1, <1>2, <1>3, <1>4, <1>5, <1>6, <1>7, <1>8, <1>9, <1>10, <1>11, <1>12, <1>13,
          <1>14, <1>15, <1>16, <1>17 DEF TypeLine

(* The pane and the clock keep the types.                                   *)
LEMMA TypeEnvironment ==
  ASSUME TypingTypeOK, Environment \/ (\E p \in Procs : WindowPasses(p)) \/ UNCHANGED typingVars
  PROVE  TypingTypeOK'
<1>1. CASE Repaint
  <2>1. Receipts(box) \subseteq Nat
    <3> SUFFICES ASSUME NEW i \in DOMAIN box PROVE box[i].n \in Nat
      BY DEF Receipts
    <3>1. box \in Seq(Token) /\ i \in 1..Len(box)
      BY LenProperties DEF TypingTypeOK
    <3>2. box[i] \in Token
      BY <3>1, ElementOfSeq
    <3> QED BY <3>2 DEF Token
  <2> QED BY <1>1, <2>1 DEF Repaint, TypingTypeOK, tableVars
<1>2. CASE ModalRises
  BY SMTT(30), <1>2, PaneTypingAssumption DEF ModalRises, TypingTypeOK, tableVars, PaneTypingAssumption
<1>3. CASE ModalAnswered
  BY <1>3 DEF ModalAnswered, TypingTypeOK, tableVars
<1>4. ASSUME NEW p \in Procs, WindowPasses(p) PROVE TypingTypeOK'
  <2>1. capped' \in [Procs -> BOOLEAN]
    BY <1>4, Zenon DEF WindowPasses, TypingTypeOK
  <2> QED BY <1>4, <2>1, PaneTypingAssumption DEF WindowPasses, TypingTypeOK, screenVars, PaneTypingAssumption
<1>5. CASE UNCHANGED typingVars
  BY <1>5 DEF typingVars, TypingTypeOK, screenVars, tableVars
<1> QED BY <1>1, <1>2, <1>3, <1>4, <1>5 DEF Environment

LEMMA TypeNext == TypingTypeOK /\ [TypingNext]_typingVars => TypingTypeOK'
  BY TypingTypeStep, TypeEnvironment DEF TypingNext

(* Every line, lock, count and history variable has its type.               *)
THEOREM TypingTypeCorrect == TypingSpec => []TypingTypeOK
  BY TypingInitType, TypeNext, PTL DEF TypingSpec

---------------------------------------------------------------------------
(* The lock and the calls.  A call that is past the lock holds it, and the  *)
(* calls under way have different numbers.                                  *)
Working == Pcs \ {"idle", "locking"}

LockInv == \A w \in Writers : writer[w].pc \in Working <=> lock = w

CallsDistinct ==
  /\ \A w \in Writers : writer[w].n \in 0..attempts
  /\ \A v, w \in Writers :
       v # w /\ writer[v].pc # "idle" /\ writer[w].pc # "idle" => writer[v].n # writer[w].n

(* The other changes a step makes to its call.                              *)
LEMMA CallWriter ==
  ASSUME TypingTypeOK, NEW w \in Writers, Call(w)
  PROVE  /\ writer'[w].pc = "locking" /\ writer'[w].n = attempts + 1
         /\ writer'[w].landed = FALSE /\ writer'[w].ours = TRUE /\ writer'[w].lapsed = "never"
         /\ \A v \in Writers \ {w} : writer'[v] = writer[v]
<1>1. PICK c \in BOOLEAN : writer' = [writer EXCEPT ![w] =
        [IdleWriter EXCEPT !.pc = "locking", !.n = attempts + 1, !.clear = c]]
  BY DEF Call
<1> DEFINE r == [IdleWriter EXCEPT !.pc = "locking"]
           q == [r EXCEPT !.n = attempts + 1]
           s == [q EXCEPT !.clear = c]
<1>2. r \in Writer /\ r.pc = "locking" /\ r.landed = FALSE /\ r.ours = TRUE /\ r.lapsed = "never"
  BY DEF IdleWriter, Writer, Pcs
<1>3. attempts + 1 \in Nat
  BY DEF TypingTypeOK
<1>4. writer' = [writer EXCEPT ![w] = s]
  BY <1>1
<1> HIDE DEF r
<1>5. /\ q \in Writer /\ q.pc = "locking" /\ q.n = attempts + 1
      /\ q.landed = FALSE /\ q.ours = TRUE /\ q.lapsed = "never"
  BY <1>2, <1>3 DEF Writer
<1> HIDE DEF q
<1>6. /\ s.pc = "locking" /\ s.n = attempts + 1
      /\ s.landed = FALSE /\ s.ours = TRUE /\ s.lapsed = "never"
  BY <1>5 DEF Writer
<1> HIDE DEF s
<1>7. writer \in [Writers -> Writer]
  BY DEF TypingTypeOK
<1> QED BY <1>4, <1>6, <1>7

LEMMA ClearWriter ==
  ASSUME TypingTypeOK, NEW w \in Writers, ClearBox(w)
  PROVE  /\ writer'[w].pc = "ready" /\ writer'[w].n = writer[w].n /\ writer'[w].landed = writer[w].landed
         /\ writer'[w].ours = writer[w].ours /\ writer'[w].lapsed = writer[w].lapsed
         /\ \A v \in Writers \ {w} : writer'[v] = writer[v]
<1>1. writer' = [writer EXCEPT ![w] = [writer[w] EXCEPT !.clear = FALSE]] /\ writer[w].pc = "ready"
  BY DEF ClearBox
<1>2. writer \in [Writers -> Writer] /\ writer[w] \in Writer
  BY DEF TypingTypeOK
<1> QED BY <1>1, <1>2 DEF Writer

LEMMA TextWriter ==
  ASSUME TypingTypeOK, NEW w \in Writers, TypeText(w)
  PROVE  /\ writer'[w].pc = "typed" /\ writer'[w].n = writer[w].n
         /\ writer'[w].landed = (box' # box)
         /\ writer'[w].ours = writer[w].ours /\ writer'[w].lapsed = writer[w].lapsed
         /\ \A v \in Writers \ {w} : writer'[v] = writer[v]
<1> DEFINE r == [writer[w] EXCEPT !.pc = "typed"]
           q == [r EXCEPT !.landed = box' # box]
<1>1. writer' = [writer EXCEPT ![w] = q]
  BY DEF TypeText
<1>2. writer \in [Writers -> Writer] /\ writer[w] \in Writer
  BY DEF TypingTypeOK
<1>3. /\ r.pc = "typed" /\ r.n = writer[w].n /\ r.ours = writer[w].ours /\ r.lapsed = writer[w].lapsed
      /\ r \in Writer
  BY <1>2 DEF Writer, Pcs
<1> HIDE DEF r
<1>4. /\ q.pc = "typed" /\ q.n = writer[w].n /\ q.ours = writer[w].ours /\ q.lapsed = writer[w].lapsed
      /\ q.landed = (box' # box)
  BY <1>3 DEF Writer
<1> HIDE DEF q
<1> QED BY <1>1, <1>2, <1>4

LEMMA LapseWriter ==
  ASSUME TypingTypeOK, NEW w \in Writers, Lapse(w)
  PROVE  /\ writer'[w].pc = writer[w].pc /\ writer'[w].n = writer[w].n
         /\ writer'[w].landed = writer[w].landed
         /\ writer'[w].ours = FALSE /\ writer'[w].lapsed = writer[w].pc
         /\ \A v \in Writers \ {w} : writer'[v] = writer[v]
<1> DEFINE r == [writer[w] EXCEPT !.ours = FALSE]
           q == [r EXCEPT !.lapsed = writer[w].pc]
<1>1. writer' = [writer EXCEPT ![w] = q]
  BY DEF Lapse
<1>2. writer \in [Writers -> Writer] /\ writer[w] \in Writer
  BY DEF TypingTypeOK
<1>3. /\ r.pc = writer[w].pc /\ r.n = writer[w].n /\ r.ours = FALSE /\ r.landed = writer[w].landed
      /\ r \in Writer
  BY <1>2 DEF Writer
<1> HIDE DEF r
<1>4. /\ q.pc = writer[w].pc /\ q.n = writer[w].n /\ q.ours = FALSE /\ q.landed = writer[w].landed
      /\ q.lapsed = writer[w].pc
  BY <1>3 DEF Writer
<1> HIDE DEF q
<1> QED BY <1>1, <1>2, <1>4

(* What a step does to its call: it starts, or gives up waiting, takes the  *)
(* lock, returns, or moves on with the lock.                                *)
Moves(w) ==
  /\ writer[w].pc \in Working /\ writer'[w].pc \in Working /\ lock' = lock
  /\ writer'[w].n = writer[w].n /\ \A v \in Writers \ {w} : writer'[v] = writer[v]
  /\ attempts' = attempts

Returns(w) == writer[w].pc \in Working /\ Return(w) /\ attempts' = attempts

LEMMA StepShape ==
  ASSUME TypingTypeOK, NEW w \in Writers, TypeLine(w)
  PROVE  Call(w) \/ LockTimesOut(w) \/ TakeLock(w) \/ Moves(w) \/ Returns(w)
<1>1. CASE ClearBox(w)
  BY <1>1, ClearWriter DEF ClearBox, Moves, Working, Pcs
<1>2. CASE TypeText(w)
  BY <1>2, TextWriter DEF TypeText, Moves, Working, Pcs
<1>3. CASE GiveUpBefore(w) \/ CappedNow(w) \/ TextRaises(w) \/ ReceiptRaises(w)
  BY <1>3 DEF GiveUpBefore, CappedNow, TextRaises, ReceiptRaises, Returns, Working, Pcs
<1>4. CASE MissReceipt(w) \/ EraseRaises(w) \/ MissCleared(w) \/ PressEnter(w) \/ EnterRaises(w)
  BY <1>4 DEF MissReceipt, EraseRaises, MissCleared, PressEnter, EnterRaises, Returns, Working, Pcs
<1>5. CASE TypeReceipt(w) \/ SeeReceipt(w) \/ EraseReceipt(w) \/ SeeCleared(w)
  <2>1. PICK pc \in {"waiting", "seen", "erased", "clear"} : StepTo(w, pc)
    BY <1>5 DEF TypeReceipt, SeeReceipt, EraseReceipt, SeeCleared
  <2>2. pc \in Pcs /\ pc \in Working
    BY DEF Pcs, Working
  <2>3. writer[w].pc \in Working /\ lock' = lock /\ attempts' = attempts
    BY <1>5 DEF TypeReceipt, SeeReceipt, EraseReceipt, SeeCleared, Working, Pcs
  <2>4. /\ writer'[w].pc = pc /\ writer'[w].n = writer[w].n
        /\ \A v \in Writers \ {w} : writer'[v] = writer[v]
    BY <2>1, <2>2, GotoWriter
  <2> QED BY <2>2, <2>3, <2>4 DEF Moves, Working
<1>6. CASE Proceed(w)
  <2>1. CASE writer[w].ours
    BY <1>6, <2>1, GotoWriter DEF Proceed, Moves, Working, Pcs
  <2>2. CASE ~writer[w].ours
    BY <1>6, <2>2 DEF Proceed, Returns, Working, Pcs
  <2> QED BY <2>1, <2>2
<1>7. CASE CheckOurs(w)
  <2>1. CASE writer[w].ours
    BY <1>7, <2>1, GotoWriter DEF CheckOurs, Moves, Working, Pcs
  <2>2. CASE ~writer[w].ours
    BY <1>7, <2>2 DEF CheckOurs, Returns, Working, Pcs
  <2> QED BY <2>1, <2>2
<1> QED BY <1>1, <1>2, <1>3, <1>4, <1>5, <1>6, <1>7 DEF TypeLine

LEMMA LockStep ==
  ASSUME TypingTypeOK, LockInv, CallsDistinct, NEW w \in Writers, TypeLine(w)
  PROVE  LockInv' /\ CallsDistinct'
<1>0. attempts \in Nat /\ \A v \in Writers : writer[v].n \in 0..attempts
  BY DEF TypingTypeOK, CallsDistinct
<1>1. CASE Call(w)
  <2>1. attempts' = attempts + 1 /\ lock' = lock /\ writer[w].pc = "idle"
    BY <1>1 DEF Call
  <2>2. LockInv'
    BY <1>1, <2>1, CallWriter DEF LockInv, Working
  <2>3. CallsDistinct'
    <3>1. writer'[w].n = attempts + 1 /\ \A v \in Writers \ {w} : writer'[v] = writer[v]
      BY <1>1, CallWriter
    <3>2. \A v \in Writers \ {w} : writer'[v].n \in 0..attempts
      BY <1>0, <3>1
    <3> QED BY <1>0, <2>1, <3>1, <3>2 DEF CallsDistinct
  <2> QED BY <2>2, <2>3
<1>2. CASE LockTimesOut(w)
  <2>1. writer'[w] = IdleWriter /\ \A v \in Writers \ {w} : writer'[v] = writer[v]
    BY <1>2, IdleType DEF LockTimesOut, TypingTypeOK
  <2> QED BY <1>0, <1>2, <2>1 DEF LockTimesOut, LockInv, CallsDistinct, IdleWriter, Working
<1>3. CASE TakeLock(w)
  <2>1. /\ writer'[w].pc = "ready" /\ writer'[w].n = writer[w].n
        /\ \A v \in Writers \ {w} : writer'[v] = writer[v]
    BY <1>3, GotoWriter DEF TakeLock, Pcs
  <2>2. lock = NoOne /\ lock' = w /\ attempts' = attempts /\ writer[w].pc = "locking"
    BY <1>3 DEF TakeLock, LockFree
  <2>3. LockInv'
    <3>1. "ready" \in Working
      BY DEF Working, Pcs
    <3>2. \A v \in Writers : writer[v].pc \notin Working
      BY <2>2, NoOneWrites DEF LockInv
    <3>3. \A v \in Writers \ {w} : writer'[v].pc \notin Working /\ lock' # v
      BY <2>1, <2>2, <3>2
    <3>4. writer'[w].pc \in Working /\ lock' = w
      BY <2>1, <2>2, <3>1
    <3> QED BY <3>3, <3>4 DEF LockInv, Working
  <2>4. CallsDistinct'
    BY <2>1, <2>2 DEF CallsDistinct
  <2> QED BY <2>3, <2>4
<1>4. CASE Moves(w)
  BY <1>4 DEF Moves, LockInv, CallsDistinct, Working
<1>5. CASE Returns(w)
  <2>1. /\ writer'[w] = IdleWriter /\ lock' = NoOne /\ attempts' = attempts
        /\ \A v \in Writers \ {w} : writer'[v] = writer[v]
    BY <1>5, ReturnWriter DEF Returns
  <2> QED BY <1>0, <1>5, <2>1, NoOneWrites DEF Returns, LockInv, CallsDistinct, IdleWriter, Working
<1> QED BY <1>1, <1>2, <1>3, <1>4, <1>5, StepShape

(* A step of the pane, of the clock or of a lapse leaves the lock and the   *)
(* calls alone.                                                             *)
LEMMA LockKept ==
  ASSUME TypingTypeOK, LockInv, CallsDistinct,
         (\E w \in Writers : Lapse(w)) \/ Environment \/ (\E p \in Procs : WindowPasses(p)) \/ UNCHANGED typingVars
  PROVE  LockInv' /\ CallsDistinct'
<1>1. ASSUME NEW w \in Writers, Lapse(w) PROVE LockInv' /\ CallsDistinct'
  <2>1. lock' = lock /\ attempts' = attempts
    BY <1>1 DEF Lapse
  <2>2. \A v \in Writers : writer'[v].pc = writer[v].pc /\ writer'[v].n = writer[v].n
    BY <1>1, LapseWriter
  <2> QED BY <2>1, <2>2 DEF LockInv, CallsDistinct, Working
<1>2. ASSUME UNCHANGED <<lock, writer, attempts>> PROVE LockInv' /\ CallsDistinct'
  BY <1>2 DEF LockInv, CallsDistinct
<1> QED BY <1>1, <1>2 DEF Environment, Repaint, ModalRises, ModalAnswered, WindowPasses, typingVars

---------------------------------------------------------------------------
(* What a key does to the box, token by token, and to the receipts in it.   *)
LEMMA ReceiptIn ==
  ASSUME NEW b \in Seq(Token), NEW n
  PROVE  n \in Receipts(b) <=> \E i \in 1..Len(b) : b[i].kind = "receipt" /\ b[i].n = n
<1>1. DOMAIN b = 1..Len(b)
  BY LenProperties
<1> QED BY <1>1 DEF Receipts

LEMMA TypedTokens ==
  ASSUME TypingTypeOK, NEW t \in Token, modal = "none"
  PROVE  /\ Typed(<<t>>) \in Seq(Token) /\ Len(Typed(<<t>>)) = Len(box) + 1
         /\ Typed(<<t>>)[Len(box) + 1] = t
         /\ \A i \in 1..Len(box) : Typed(<<t>>)[i] = box[i]
<1>1. box \in Seq(Token) /\ <<t>> \in Seq(Token) /\ Len(<<t>>) = 1 /\ Len(box) \in Nat
  BY LenProperties DEF TypingTypeOK
<1> QED BY <1>1, ConcatProperties DEF Typed

LEMMA TypedReceipts ==
  ASSUME TypingTypeOK, NEW t \in Token
  PROVE  Receipts(Typed(<<t>>)) \subseteq Receipts(box) \cup (IF t.kind = "receipt" THEN {t.n} ELSE {})
<1>1. CASE modal # "none"
  BY <1>1 DEF Typed
<1>2. CASE modal = "none"
  <2>1. box \in Seq(Token) /\ Len(box) \in Nat
    BY LenProperties DEF TypingTypeOK
  <2> SUFFICES ASSUME NEW n, n \in Receipts(Typed(<<t>>)), n \notin Receipts(box)
               PROVE  t.kind = "receipt" /\ t.n = n
    OBVIOUS
  <2>2. PICK i \in 1..(Len(box) + 1) : Typed(<<t>>)[i].kind = "receipt" /\ Typed(<<t>>)[i].n = n
    BY <1>2, TypedTokens, ReceiptIn
  <2>3. i \notin 1..Len(box)
    BY <1>2, <2>1, <2>2, TypedTokens, ReceiptIn
  <2> QED BY <1>2, <2>1, <2>2, <2>3, TypedTokens
<1> QED BY <1>1, <1>2

LEMMA AllButLast ==
  ASSUME NEW S, NEW s \in Seq(S), s # <<>>
  PROVE  /\ SubSeq(s, 1, Len(s) - 1) \in Seq(S) /\ Len(SubSeq(s, 1, Len(s) - 1)) = Len(s) - 1
         /\ \A i \in 1..(Len(s) - 1) : SubSeq(s, 1, Len(s) - 1)[i] = s[i]
<1> SUFFICES ASSUME NEW k \in Nat, k = Len(s) - 1
             PROVE  /\ SubSeq(s, 1, k) \in Seq(S) /\ Len(SubSeq(s, 1, k)) = k
                    /\ \A i \in 1..k : SubSeq(s, 1, k)[i] = s[i]
  <2>1. Len(s) \in Nat \ {0}
    BY EmptySeq
  <2>2. Len(s) - 1 \in Nat
    BY <2>1
  <2> QED BY <2>2
<1>1. \A i \in 1..k : s[i] \in S
  <2> SUFFICES ASSUME NEW i \in 1..k PROVE s[i] \in S
    OBVIOUS
  <2>1. i \in 1..Len(s)
    BY LenProperties
  <2> QED BY <2>1, ElementOfSeq
<1> DEFINE rest == SubSeq(s, 1, k)
<1>2. /\ rest \in Seq(S) /\ Len(rest) = IF 1 <= k THEN k - 1 + 1 ELSE 0
      /\ \A i \in 1..(k - 1 + 1) : rest[i] = s[1 + i - 1]
  BY <1>1, SubSeqProperties
<1> HIDE DEF rest
<1>3. Len(rest) = k
  BY <1>2
<1>4. \A i \in 1..k : rest[i] = s[i]
  BY <1>2
<1> QED BY <1>2, <1>3, <1>4 DEF rest

LEMMA ErasedTokens ==
  ASSUME TypingTypeOK, modal = "none", box # <<>>
  PROVE  /\ Erased \in Seq(Token) /\ Len(box) \in Nat \ {0}
         /\ \A i \in 1..(Len(box) - 1) : Erased[i] = box[i]
         /\ \/ Len(Erased) = Len(box) - 1
            \/ Len(Erased) = Len(box) /\ Erased[Len(box)].kind = "cut"
         /\ box[Len(box)].kind = "receipt" => Len(Erased) = Len(box) - 1
<1> DEFINE rest == SubSeq(box, 1, Len(box) - 1)
           last == box[Len(box)]
           cut == [last EXCEPT !.kind = "cut"]
<1>1. box \in Seq(Token) /\ Len(box) \in Nat \ {0} /\ last \in Token
  BY EmptySeq, LenProperties, ElementOfSeq DEF TypingTypeOK
<1>2. rest \in Seq(Token) /\ Len(rest) = Len(box) - 1 /\ \A i \in 1..(Len(box) - 1) : rest[i] = box[i]
  BY <1>1, AllButLast
<1>3. cut \in Token /\ cut.kind = "cut"
  BY <1>1 DEF Token
<1>4. Erased = IF last.kind \in {"receipt", "chip"} THEN rest ELSE Append(rest, cut)
  BY DEF Erased
<1>5. Erased \in Seq(Token)
  BY ErasedBox
<1> HIDE DEF rest, last, cut
<1>6. /\ Len(Append(rest, cut)) = Len(box) /\ Append(rest, cut)[Len(box)] = cut
      /\ \A i \in 1..(Len(box) - 1) : Append(rest, cut)[i] = box[i]
  BY <1>1, <1>2, <1>3, AppendProperties
<1>7. CASE last.kind \in {"receipt", "chip"}
  BY <1>1, <1>2, <1>4, <1>5, <1>7
<1>8. CASE last.kind \notin {"receipt", "chip"}
  BY <1>1, <1>3, <1>4, <1>5, <1>6, <1>8 DEF last
<1> QED BY <1>7, <1>8

LEMMA ErasedReceipts ==
  ASSUME TypingTypeOK
  PROVE  Receipts(Erased) \subseteq Receipts(box)
<1>1. CASE modal # "none" \/ box = <<>>
  BY <1>1 DEF Erased
<1>2. CASE modal = "none" /\ box # <<>>
  <2> SUFFICES ASSUME NEW n, n \in Receipts(Erased) PROVE n \in Receipts(box)
    OBVIOUS
  <2>1. PICK i \in 1..Len(Erased) : Erased[i].kind = "receipt" /\ Erased[i].n = n
    BY <1>2, ErasedTokens, ReceiptIn
  <2>2. i \in 1..(Len(box) - 1) /\ i \in 1..Len(box)
    BY <1>2, <2>1, ErasedTokens
  <2>3. box \in Seq(Token) /\ box[i] = Erased[i]
    BY <1>2, <2>2, ErasedTokens DEF TypingTypeOK
  <2> QED BY <2>1, <2>2, <2>3, ReceiptIn
<1> QED BY <1>1, <1>2

(* Typing a receipt: a modal swallows it, or it is the last token, or a     *)
(* chip hides it.                                                           *)
LEMMA ReceiptTokens ==
  ASSUME TypingTypeOK, NEW n \in Nat, NEW b \in TypedReceipt(n)
  PROVE  /\ b = Typed(<<[kind |-> "receipt", n |-> n]>>) \/ Receipts(b) \subseteq Receipts(box)
         /\ Receipts(b) \subseteq Receipts(box) \cup {n}
         /\ modal # "none" => b = box
<1> DEFINE t == [kind |-> "receipt", n |-> n]
<1>1. t \in Token /\ t.kind = "receipt" /\ t.n = n
  BY DEF Token
<1>2. Receipts(Typed(<<t>>)) \subseteq Receipts(box) \cup {n}
  BY <1>1, TypedReceipts
<1>3. ASSUME modal = "none", box # <<>>, box[Len(box)] = [kind |-> "text", n |-> n],
             b = [box EXCEPT ![Len(box)].kind = "chip"]
      PROVE  Receipts(b) \subseteq Receipts(box)
  <2>1. b \in Seq(Token) /\ box \in Seq(Token)
    BY ReceiptBox DEF TypingTypeOK
  <2>2. Len(box) \in 1..Len(box) /\ DOMAIN box = 1..Len(box)
    BY <1>3, <2>1, EmptySeq, LenProperties
  <2>3. Len(b) = Len(box) /\ b[Len(box)].kind = "chip" /\ \A i \in 1..Len(box) : i # Len(box) => b[i] = box[i]
    <3>1. b = [box EXCEPT ![Len(box)] = [box[Len(box)] EXCEPT !.kind = "chip"]]
      BY <1>3
    <3>2. [box[Len(box)] EXCEPT !.kind = "chip"].kind = "chip"
      BY <1>3
    <3>3. DOMAIN b = 1..Len(box) /\ DOMAIN b = 1..Len(b)
      BY <2>1, <2>2, <3>1, LenProperties
    <3>4. Len(b) = Len(box)
      BY <2>1, <3>3, LenProperties
    <3> QED BY <2>2, <3>1, <3>2, <3>4
  <2> QED BY <2>1, <2>3, ReceiptIn
<1> QED BY <1>1, <1>2, <1>3 DEF TypedReceipt, Typed

---------------------------------------------------------------------------
(* Receipts.  No receipt of a call that has not typed it yet can be in the  *)
(* box or on the screen; and while a picker is up that rose before the      *)
(* holder of the lock typed its own, the holder cannot see one either.      *)
Unmarked == {"locking", "ready", "typing", "typed"}

Seen(n) == n \in shown \/ n \in Receipts(box)

ReceiptsFresh ==
  /\ Receipts(box) \cup shown \subseteq 0..attempts
  /\ \A w \in Writers : writer[w].pc \in Unmarked => ~Seen(writer[w].n)

PickerInv ==
  modal = "early" /\ lock # NoOne =>
    writer[lock].pc \in Unmarked \cup {"waiting"} /\ ~Seen(writer[lock].n)

(* What a step does to the receipts: none appears but, when it is typed,    *)
(* the one of the call.                                                     *)
LEMMA ReceiptStep ==
  ASSUME TypingTypeOK, NEW w \in Writers, TypeLine(w)
  PROVE  /\ shown' = shown
         /\ Receipts(box') \subseteq Receipts(box) \cup
              (IF TypeReceipt(w) \/ ReceiptRaises(w) THEN {writer[w].n} ELSE {})
         /\ modal = "early" /\ modal' = "early" => Receipts(box') \subseteq Receipts(box)
<1>0. writer[w].n \in Nat
  BY DEF TypingTypeOK, Writer
<1>1. Receipts(<<>>) = {}
  BY DEF Receipts
<1>2. CASE TypeText(w) \/ TextRaises(w)
  <2> DEFINE t == [kind |-> "text", n |-> writer[w].n]
  <2>1. Receipts(Typed(<<t>>)) \subseteq Receipts(box)
    <3>1. t \in Token /\ t.kind # "receipt"
      BY <1>0 DEF Token
    <3> QED BY <3>1, TypedReceipts
  <2>2. box' \in {box, Typed(<<t>>)} /\ shown' = shown
    BY <1>2 DEF TypeText, TextRaises
  <2> QED BY <2>1, <2>2
<1>3. CASE TypeReceipt(w) \/ ReceiptRaises(w)
  <2>1. box' \in {box} \cup TypedReceipt(writer[w].n) /\ shown' = shown
    BY <1>3 DEF TypeReceipt, ReceiptRaises
  <2> QED BY <1>0, <1>3, <2>1, ReceiptTokens
<1>4. CASE MissReceipt(w) \/ EraseReceipt(w) \/ EraseRaises(w) \/ MissCleared(w)
  <2>1. box' \in {box, Erased} /\ shown' = shown
    BY <1>4 DEF MissReceipt, EraseReceipt, EraseRaises, MissCleared
  <2> QED BY <2>1, ErasedReceipts
<1>5. CASE ClearBox(w) \/ PressEnter(w) \/ EnterRaises(w)
  <2>1. box' \in {box, <<>>} /\ shown' = shown
    BY <1>5 DEF ClearBox, PressEnter, EnterRaises, Enter
  <2> QED BY <1>1, <2>1
<1>6. CASE Call(w) \/ LockTimesOut(w) \/ TakeLock(w) \/ GiveUpBefore(w) \/ CappedNow(w)
           \/ Proceed(w) \/ SeeReceipt(w) \/ SeeCleared(w) \/ CheckOurs(w)
  <2>1. UNCHANGED <<box, shown>>
    BY <1>6 DEF Call, LockTimesOut, TakeLock, GiveUpBefore, CappedNow, Proceed, SeeReceipt, SeeCleared,
                CheckOurs, screenVars
  <2> QED BY <2>1
<1> QED BY <1>2, <1>3, <1>4, <1>5, <1>6 DEF TypeLine

LEMMA OthersKept ==
  ASSUME TypingTypeOK, NEW w \in Writers, TypeLine(w)
  PROVE  /\ \A v \in Writers \ {w} : writer'[v] = writer[v]
         /\ attempts' \in {attempts, attempts + 1}
<1>1. CASE Call(w)
  BY <1>1, CallWriter DEF Call
<1>2. CASE LockTimesOut(w)
  BY <1>2, IdleType DEF LockTimesOut, TypingTypeOK
<1>3. CASE TakeLock(w)
  BY <1>3, GotoWriter DEF TakeLock, Pcs
<1>4. CASE Moves(w)
  BY <1>4 DEF Moves
<1>5. CASE Returns(w)
  BY <1>5, ReturnWriter DEF Returns
<1> QED BY <1>1, <1>2, <1>3, <1>4, <1>5, StepShape

(* A call that has yet to type its receipt has only just begun, or had yet  *)
(* to type it before the step.                                              *)
LEMMA StillUnmarked ==
  ASSUME TypingTypeOK, NEW w \in Writers, TypeLine(w), writer'[w].pc \in Unmarked
  PROVE  /\ ~TypeReceipt(w) /\ ~ReceiptRaises(w)
         /\ Call(w) \/ (writer[w].pc \in Unmarked /\ writer'[w].n = writer[w].n)
<1>1. CASE Call(w)
  BY <1>1 DEF Call, TypeReceipt, ReceiptRaises
<1>2. CASE TakeLock(w)
  BY <1>2, GotoWriter DEF TakeLock, TypeReceipt, ReceiptRaises, Unmarked, Pcs
<1>3. CASE LockTimesOut(w)
  <2>1. writer'[w].pc = "idle"
    BY <1>3 DEF LockTimesOut, TypingTypeOK, IdleWriter
  <2> QED BY <2>1 DEF Unmarked
<1>4. CASE ClearBox(w)
  BY <1>4, ClearWriter DEF ClearBox, TypeReceipt, ReceiptRaises, Unmarked
<1>5. CASE TypeText(w)
  BY <1>5, TextWriter DEF TypeText, TypeReceipt, ReceiptRaises, Unmarked
<1>6. ASSUME TypeReceipt(w) \/ SeeReceipt(w) \/ EraseReceipt(w) \/ SeeCleared(w)
             \/ (CheckOurs(w) /\ writer[w].ours)
      PROVE  FALSE
  <2>1. PICK pc \in {"waiting", "seen", "erased", "clear", "enter"} : StepTo(w, pc)
    BY <1>6 DEF TypeReceipt, SeeReceipt, EraseReceipt, SeeCleared, CheckOurs
  <2>2. pc \in Pcs /\ pc \notin Unmarked
    BY DEF Pcs, Unmarked
  <2>3. writer'[w].pc = pc
    BY <2>1, <2>2, GotoWriter
  <2> QED BY <2>2, <2>3
<1>7. ASSUME TextRaises(w) \/ ReceiptRaises(w) \/ GiveUpBefore(w) \/ CappedNow(w) \/ MissReceipt(w)
             \/ EraseRaises(w) \/ MissCleared(w) \/ PressEnter(w) \/ EnterRaises(w)
             \/ (CheckOurs(w) /\ ~writer[w].ours) \/ (Proceed(w) /\ ~writer[w].ours)
      PROVE  FALSE
  <2>1. Return(w)
    BY <1>7 DEF TextRaises, ReceiptRaises, GiveUpBefore, CappedNow, MissReceipt, EraseRaises, MissCleared,
                PressEnter, EnterRaises, CheckOurs, Proceed
  <2>2. writer'[w].pc = "idle"
    BY <2>1, ReturnWriter DEF IdleWriter
  <2> QED BY <2>2 DEF Unmarked
<1>8. CASE Proceed(w) /\ writer[w].ours
  <2>1. StepTo(w, "typing") /\ "typing" \in Pcs
    BY <1>8 DEF Proceed, Pcs
  <2>2. writer'[w].n = writer[w].n
    BY <2>1, GotoWriter
  <2> QED BY <1>8, <2>2 DEF Proceed, TypeReceipt, ReceiptRaises, Unmarked
<1> QED BY <1>1, <1>2, <1>3, <1>4, <1>5, <1>6, <1>7, <1>8 DEF TypeLine

LEMMA FreshStep ==
  ASSUME TypingTypeOK, CallsDistinct, ReceiptsFresh, NEW w \in Writers, TypeLine(w)
  PROVE  ReceiptsFresh'
<1> DEFINE marks == IF TypeReceipt(w) \/ ReceiptRaises(w) THEN {writer[w].n} ELSE {}
<1>1. /\ attempts \in Nat /\ attempts' \in {attempts, attempts + 1}
      /\ \A v \in Writers : writer[v].n \in 0..attempts
  BY OthersKept DEF TypingTypeOK, CallsDistinct
<1>2. (Receipts(box) \cup shown)' \subseteq Receipts(box) \cup shown \cup marks
  BY ReceiptStep
<1>3. Receipts(box) \cup shown \subseteq 0..attempts
  BY DEF ReceiptsFresh
<1>4. (Receipts(box) \cup shown)' \subseteq 0..attempts'
  BY <1>1, <1>2, <1>3
<1>5. ASSUME NEW v \in Writers, writer'[v].pc \in Unmarked
      PROVE  writer'[v].n \notin (Receipts(box) \cup shown)'
  <2>1. CASE v # w
    <3>1. writer'[v] = writer[v] /\ writer[v].pc \in Unmarked
      BY <1>5, <2>1, OthersKept
    <3>2. writer[v].n \notin Receipts(box) \cup shown
      BY <3>1 DEF ReceiptsFresh, Unmarked, Seen
    <3>3. writer[v].n \notin marks
      <4>1. TypeReceipt(w) \/ ReceiptRaises(w) => writer[w].pc = "typed"
        BY DEF TypeReceipt, ReceiptRaises
      <4>2. writer[v].pc # "idle"
        BY <3>1 DEF Unmarked
      <4> QED BY <2>1, <4>1, <4>2 DEF CallsDistinct
    <3> QED BY <1>2, <3>1, <3>2, <3>3
  <2>2. CASE v = w /\ Call(w)
    <3>1. writer'[w].n = attempts + 1 /\ marks = {}
      BY <1>5, <2>2, CallWriter, StillUnmarked
    <3> QED BY <1>1, <1>2, <1>3, <2>2, <3>1
  <2>3. CASE v = w /\ ~Call(w)
    <3>1. writer[w].pc \in Unmarked /\ writer'[w].n = writer[w].n /\ marks = {}
      BY <1>5, <2>3, StillUnmarked
    <3> QED BY <1>2, <2>3, <3>1 DEF ReceiptsFresh, Unmarked, Seen
  <2> QED BY <2>1, <2>2, <2>3
<1> QED BY <1>4, <1>5 DEF ReceiptsFresh, Unmarked, Seen

LEMMA FreshKept ==
  ASSUME TypingTypeOK, ReceiptsFresh,
         (\E w \in Writers : Lapse(w)) \/ Environment \/ (\E p \in Procs : WindowPasses(p)) \/ UNCHANGED typingVars
  PROVE  ReceiptsFresh'
<1>1. (Receipts(box) \cup shown)' \subseteq Receipts(box) \cup shown
  BY DEF Lapse, Environment, Repaint, ModalRises, ModalAnswered, WindowPasses, typingVars, screenVars
<1>2. attempts' = attempts
  BY DEF Lapse, Environment, Repaint, ModalRises, ModalAnswered, WindowPasses, typingVars
<1>3. \A v \in Writers : writer'[v].pc = writer[v].pc /\ writer'[v].n = writer[v].n
  <2>1. ASSUME NEW w \in Writers, Lapse(w)
        PROVE  \A v \in Writers : writer'[v].pc = writer[v].pc /\ writer'[v].n = writer[v].n
    BY <2>1, LapseWriter
  <2> QED BY <2>1 DEF Environment, Repaint, ModalRises, ModalAnswered, WindowPasses, typingVars
<1> QED BY <1>1, <1>2, <1>3 DEF ReceiptsFresh, Seen

(* Enter only ever answers a picker that rose later than "early".           *)
LEMMA PickerStep ==
  ASSUME TypingTypeOK, LockInv, LockInv', ReceiptsFresh, PickerInv, NoBlindEnter,
         NEW w \in Writers, TypeLine(w)
  PROVE  PickerInv' /\ NoBlindEnter'
<1>1. CASE PressEnter(w) \/ EnterRaises(w)
  <2>1. writer[w].pc = "enter" /\ lock = w /\ lock' = NoOne
    BY <1>1 DEF PressEnter, EnterRaises, Return, LockInv, Working, Pcs
  <2>2. modal # "early"
    BY <2>1, NoOneWrites DEF PickerInv, Unmarked
  <2>3. picked' \subseteq picked \cup {modal}
    BY <1>1 DEF PressEnter, EnterRaises, Enter
  <2> QED BY <2>1, <2>2, <2>3 DEF PickerInv, NoBlindEnter
<1>2. CASE ~(PressEnter(w) \/ EnterRaises(w))
  <2>1. picked' = picked
    BY <1>2 DEF TypeLine, Call, LockTimesOut, TakeLock, ClearBox, GiveUpBefore, CappedNow, Proceed, TypeText,
                TypeReceipt, TextRaises, ReceiptRaises, SeeReceipt, MissReceipt, EraseReceipt, EraseRaises,
                SeeCleared, MissCleared, CheckOurs, screenVars
  <2> SUFFICES ASSUME modal' = "early", lock' # NoOne
               PROVE  /\ writer'[lock'].pc \in Unmarked \cup {"waiting"}
                      /\ writer'[lock'].n \notin (shown \cup Receipts(box))'
    BY <2>1 DEF PickerInv, NoBlindEnter, Unmarked, Seen
  <2>2. CASE TakeLock(w)
    <3>1. /\ writer[w].pc = "locking" /\ lock' = w /\ UNCHANGED <<box, shown>>
          /\ writer'[w].pc = "ready" /\ writer'[w].n = writer[w].n
      BY <2>2, GotoWriter DEF TakeLock, Pcs
    <3> QED BY <3>1 DEF ReceiptsFresh, Seen, Unmarked
  <2>3. CASE ~TakeLock(w)
    <3>1. modal = "early" /\ lock = lock'
      BY <1>2, <2>3 DEF TypeLine, Call, LockTimesOut, ClearBox, GiveUpBefore, CappedNow, Proceed, TypeText,
                TypeReceipt, TextRaises, ReceiptRaises, SeeReceipt, MissReceipt, EraseReceipt, EraseRaises,
                SeeCleared, MissCleared, CheckOurs, screenVars, Return
    <3>2. writer[lock].pc \in Unmarked \cup {"waiting"} /\ ~Seen(writer[lock].n) /\ lock \in Writers
      BY <3>1 DEF PickerInv, Unmarked, TypingTypeOK
    <3>3. (shown \cup Receipts(box))' \subseteq shown \cup Receipts(box)
      BY <3>1, ReceiptStep
    <3>4. CASE lock # w
      BY <3>1, <3>2, <3>3, <3>4, OthersKept DEF Seen
    <3>5. CASE lock = w
      <4>1. writer'[w].pc \in Working /\ writer[w].pc \in Working
        BY <3>1, <3>2, <3>5 DEF LockInv, Working
      <4>2. Moves(w)
        BY <2>3, <3>1, <3>5, <4>1, StepShape, NoOneWrites
           DEF Call, LockTimesOut, Working, Returns, Return
      <4>3. writer'[w].n = writer[w].n
        BY <4>2 DEF Moves
      <4>4. writer'[w].pc \in Unmarked \cup {"waiting"}
        <5>1. ~SeeReceipt(w)
          BY <3>2, <3>5 DEF SeeReceipt, Seen
        <5>2. ~EraseReceipt(w) /\ ~SeeCleared(w) /\ ~CheckOurs(w)
          BY <3>2, <3>5 DEF EraseReceipt, SeeCleared, CheckOurs, Unmarked
        <5>3. CASE ClearBox(w)
          BY <5>3, ClearWriter DEF Unmarked
        <5>4. CASE TypeText(w)
          BY <5>4, TextWriter DEF Unmarked
        <5>5. CASE TypeReceipt(w)
          BY <5>5, GotoWriter DEF TypeReceipt, Pcs
        <5>6. CASE Proceed(w)
          <6>1. writer[w].ours
            BY <3>1, <3>5, <5>6, NoOneWrites DEF Proceed, Return
          <6>2. StepTo(w, "typing")
            BY <5>6, <6>1 DEF Proceed
          <6> QED BY <6>2, GotoWriter DEF Pcs, Unmarked
        <5>7. CASE GiveUpBefore(w) \/ CappedNow(w) \/ TextRaises(w) \/ ReceiptRaises(w) \/ MissReceipt(w)
                   \/ EraseRaises(w) \/ MissCleared(w)
          <6>1. lock' = NoOne
            BY <5>7 DEF GiveUpBefore, CappedNow, TextRaises, ReceiptRaises, MissReceipt, EraseRaises,
                        MissCleared, Return
          <6> QED BY <3>1, <3>5, <6>1, NoOneWrites
        <5>8. CASE Call(w) \/ LockTimesOut(w)
          BY <4>1, <5>8 DEF Call, LockTimesOut, Working
        <5> QED BY <1>2, <2>3, <5>1, <5>2, <5>3, <5>4, <5>5, <5>6, <5>7, <5>8 DEF TypeLine
      <4> QED BY <3>1, <3>2, <3>3, <3>5, <4>3, <4>4 DEF Seen
    <3> QED BY <3>4, <3>5
  <2> QED BY <2>2, <2>3
<1> QED BY <1>1, <1>2

LEMMA PickerKept ==
  ASSUME TypingTypeOK, LockInv, ReceiptsFresh, PickerInv, NoBlindEnter,
         (\E w \in Writers : Lapse(w)) \/ Environment \/ (\E p \in Procs : WindowPasses(p)) \/ UNCHANGED typingVars
  PROVE  PickerInv' /\ NoBlindEnter'
<1>1. lock' = lock /\ picked' = picked
  BY DEF Lapse, Environment, Repaint, ModalRises, ModalAnswered, WindowPasses, typingVars, screenVars
<1>2. \A v \in Writers : writer'[v].pc = writer[v].pc /\ writer'[v].n = writer[v].n
  <2>1. ASSUME NEW w \in Writers, Lapse(w)
        PROVE  \A v \in Writers : writer'[v].pc = writer[v].pc /\ writer'[v].n = writer[v].n
    BY <2>1, LapseWriter
  <2> QED BY <2>1 DEF Environment, Repaint, ModalRises, ModalAnswered, WindowPasses, typingVars
<1>3. (shown \cup Receipts(box))' \subseteq shown \cup Receipts(box)
  BY DEF Lapse, Environment, Repaint, ModalRises, ModalAnswered, WindowPasses, typingVars, screenVars
<1> SUFFICES ASSUME modal' = "early", lock # NoOne
             PROVE  writer[lock].pc \in Unmarked \cup {"waiting"} /\ ~Seen(writer[lock].n)
  BY <1>1, <1>2, <1>3 DEF PickerInv, NoBlindEnter, Seen, Unmarked, TypingTypeOK
<1>4. CASE modal = "early"
  BY <1>4 DEF PickerInv
<1>5. CASE modal # "early"
  <2>1. ModalRises
    BY <1>5 DEF Lapse, Environment, Repaint, ModalAnswered, WindowPasses, typingVars, screenVars
  <2>2. writer[lock].pc \in Working \ {"waiting", "seen", "erased", "clear", "enter"} /\ lock \in Writers
    <3>1. lock \in Writers /\ writer[lock].pc \in Working
      BY DEF TypingTypeOK, LockInv
    <3> QED BY <2>1, <3>1 DEF ModalRises
  <2>3. writer[lock].pc \in Unmarked
    BY <2>2 DEF Working, Pcs, Unmarked
  <2> QED BY <2>2, <2>3 DEF ReceiptsFresh
<1> QED BY <1>4, <1>5

---------------------------------------------------------------------------
(* Authority: a writer whose authority is intact has not lost it, and one   *)
(* that is about to press Enter had it at the last check.                   *)
AuthorityInv ==
  \A w \in Writers :
    /\ writer[w].ours => writer[w].lapsed = "never"
    /\ writer[w].pc = "enter" => writer[w].lapsed \in {"never", "enter"}

(* What a step does to the record of its call's authority.                  *)
LEMMA AuthorityOf ==
  ASSUME TypingTypeOK, NEW w \in Writers, TypeLine(w)
  PROVE  \/ writer'[w].ours = TRUE /\ writer'[w].lapsed = "never" /\ writer'[w].pc # "enter"
         \/ /\ writer'[w].ours = writer[w].ours /\ writer'[w].lapsed = writer[w].lapsed
            /\ writer'[w].pc = "enter" => writer[w].ours
<1> DEFINE Fresh == writer'[w].ours = TRUE /\ writer'[w].lapsed = "never" /\ writer'[w].pc # "enter"
           Same == /\ writer'[w].ours = writer[w].ours /\ writer'[w].lapsed = writer[w].lapsed
                   /\ writer'[w].pc = "enter" => writer[w].ours
<1>1. CASE Call(w)
  BY <1>1, CallWriter
<1>2. CASE LockTimesOut(w)
  BY <1>2 DEF LockTimesOut, TypingTypeOK, IdleWriter
<1>3. CASE Returns(w)
  <2>1. writer'[w] = IdleWriter
    BY <1>3, ReturnWriter DEF Returns
  <2> QED BY <2>1 DEF IdleWriter
<1>4. CASE ClearBox(w)
  BY <1>4, ClearWriter
<1>5. CASE TypeText(w)
  BY <1>5, TextWriter
<1>6. ASSUME NEW pc \in Pcs, StepTo(w, pc), pc = "enter" => writer[w].ours
      PROVE  Same
  BY <1>6, GotoWriter
<1>7. CASE TakeLock(w) \/ TypeReceipt(w) \/ SeeReceipt(w) \/ EraseReceipt(w) \/ SeeCleared(w)
  <2>1. PICK pc \in {"ready", "waiting", "seen", "erased", "clear"} : StepTo(w, pc)
    BY <1>7 DEF TakeLock, TypeReceipt, SeeReceipt, EraseReceipt, SeeCleared
  <2>2. pc \in Pcs /\ pc # "enter"
    BY DEF Pcs
  <2> QED BY <1>6, <2>1, <2>2
<1>8. CASE (Proceed(w) \/ CheckOurs(w)) /\ writer[w].ours
  <2>1. PICK pc \in {"typing", "enter"} : StepTo(w, pc)
    BY <1>8 DEF Proceed, CheckOurs
  <2>2. pc \in Pcs
    BY DEF Pcs
  <2> QED BY <1>6, <1>8, <2>1, <2>2
<1>9. CASE (Proceed(w) \/ CheckOurs(w)) /\ ~writer[w].ours
  <2>1. Returns(w)
    BY <1>9 DEF Proceed, CheckOurs, Returns, Working, Pcs
  <2> QED BY <1>3, <2>1
<1>10. CASE TextRaises(w) \/ ReceiptRaises(w) \/ GiveUpBefore(w) \/ CappedNow(w) \/ MissReceipt(w)
            \/ EraseRaises(w) \/ MissCleared(w) \/ PressEnter(w) \/ EnterRaises(w)
  <2>1. Return(w)
    BY <1>10 DEF TextRaises, ReceiptRaises, GiveUpBefore, CappedNow, MissReceipt, EraseRaises, MissCleared,
                 PressEnter, EnterRaises
  <2>2. writer'[w] = IdleWriter
    BY <2>1, ReturnWriter
  <2> QED BY <2>2 DEF IdleWriter
<1> QED BY <1>1, <1>2, <1>4, <1>5, <1>7, <1>8, <1>9, <1>10 DEF TypeLine

LEMMA AuthorityStep ==
  ASSUME TypingTypeOK, AuthorityInv, NEW w \in Writers, TypeLine(w)
  PROVE  AuthorityInv'
<1> SUFFICES ASSUME NEW v \in Writers
             PROVE  /\ writer'[v].ours => writer'[v].lapsed = "never"
                    /\ writer'[v].pc = "enter" => writer'[v].lapsed \in {"never", "enter"}
  BY DEF AuthorityInv
<1>1. CASE v # w
  BY <1>1, OthersKept DEF AuthorityInv
<1>2. CASE v = w
  BY <1>2, AuthorityOf DEF AuthorityInv
<1> QED BY <1>1, <1>2

LEMMA AuthorityKept ==
  ASSUME TypingTypeOK, AuthorityInv,
         (\E w \in Writers : Lapse(w)) \/ Environment \/ (\E p \in Procs : WindowPasses(p)) \/ UNCHANGED typingVars
  PROVE  AuthorityInv'
<1>1. ASSUME NEW w \in Writers, Lapse(w) PROVE AuthorityInv'
  BY <1>1, LapseWriter DEF AuthorityInv
<1>2. ASSUME writer' = writer PROVE AuthorityInv'
  BY <1>2 DEF AuthorityInv
<1> QED BY <1>1, <1>2 DEF Environment, Repaint, ModalRises, ModalAnswered, WindowPasses, typingVars

---------------------------------------------------------------------------
(* The box.  A text that landed stays whole in it until its writer returns, *)
(* and a receipt that the writer has seen is the last thing in it, so that  *)
(* erasing takes the receipt and nothing else.                              *)
TextToken(n) == [kind |-> "text", n |-> n]
ReceiptToken(n) == [kind |-> "receipt", n |-> n]

TextIn(n) == \E i \in 1..Len(box) : box[i] = TextToken(n)
TextBefore(n) == \E i \in 1..(Len(box) - 1) : box[i] = TextToken(n)
LastIs(n) == box # <<>> /\ box[Len(box)] = ReceiptToken(n)

BoxOf(w) ==
  /\ writer[w].pc \in {"locking", "ready", "typing"} => ~writer[w].landed
  /\ writer[w].pc \in {"typed", "erased", "clear", "enter"} /\ writer[w].landed => TextIn(writer[w].n)
  /\ writer[w].pc = "seen" \/ (writer[w].pc = "waiting" /\ Seen(writer[w].n)) =>
       /\ LastIs(writer[w].n)
       /\ writer[w].landed => TextBefore(writer[w].n)

BoxInv == \A w \in Writers : BoxOf(w)

LEMMA TokenTypes == \A n \in Nat : TextToken(n) \in Token /\ ReceiptToken(n) \in Token
  BY DEF TextToken, ReceiptToken, Token

LEMMA TextLands ==
  ASSUME TypingTypeOK, NEW n \in Nat, box' = Typed(<<TextToken(n)>>), box' # box
  PROVE  TextIn(n)'
<1>1. modal = "none"
  BY DEF Typed
<1>2. Len(box') = Len(box) + 1 /\ box'[Len(box) + 1] = TextToken(n) /\ Len(box) \in Nat
  BY <1>1, TypedTokens, TokenTypes, LenProperties DEF TypingTypeOK
<1>3. Len(box) + 1 \in 1..Len(box')
  BY <1>2
<1> QED BY <1>2, <1>3 DEF TextIn, TextToken

(* A receipt that appears was typed after everything else in the box.       *)
LEMMA ReceiptLast ==
  ASSUME TypingTypeOK, NEW n \in Nat, box' \in TypedReceipt(n), n \notin Receipts(box), n \in Receipts(box')
  PROVE  LastIs(n)' /\ (TextIn(n) => TextBefore(n)')
<1>1. box' = Typed(<<ReceiptToken(n)>>) /\ modal = "none"
  BY ReceiptTokens DEF ReceiptToken
<1>2. /\ box \in Seq(Token) /\ Len(box) \in Nat
      /\ box' \in Seq(Token) /\ Len(box') = Len(box) + 1 /\ box'[Len(box) + 1] = ReceiptToken(n)
      /\ \A i \in 1..Len(box) : box'[i] = box[i]
  BY <1>1, TypedTokens, TokenTypes, LenProperties DEF TypingTypeOK
<1>3. box' # <<>>
  <2>1. Len(<<>>) = 0
    BY EmptySeq
  <2> QED BY <1>2, <2>1
<1>4. LastIs(n)'
  BY <1>2, <1>3 DEF LastIs, ReceiptToken
<1>5. ASSUME TextIn(n) PROVE TextBefore(n)'
  <2>1. PICK i \in 1..Len(box) : box[i] = TextToken(n)
    BY <1>5 DEF TextIn
  <2>2. i \in 1..(Len(box') - 1) /\ box'[i] = TextToken(n)
    BY <1>2, <2>1
  <2> QED BY <2>2 DEF TextBefore, TextToken
<1> QED BY <1>4, <1>5

LEMMA EraseSpares ==
  ASSUME TypingTypeOK, NEW n \in Nat, LastIs(n), TextBefore(n), box' = Erased
  PROVE  TextIn(n)'
<1>1. PICK i \in 1..(Len(box) - 1) : box[i] = TextToken(n)
  BY DEF TextBefore
<1>2. CASE modal # "none"
  <2>1. box' = box /\ Len(box) \in Nat
    BY <1>2, LenProperties DEF Erased, TypingTypeOK
  <2>2. i \in 1..Len(box')
    BY <1>1, <2>1
  <2> QED BY <1>1, <2>1, <2>2 DEF TextIn, TextToken
<1>3. CASE modal = "none"
  <2>1. /\ Len(box) \in Nat \ {0} /\ box'[i] = box[i]
        /\ Len(box') = Len(box) - 1
    BY <1>1, <1>3, ErasedTokens DEF LastIs, ReceiptToken
  <2>2. i \in 1..Len(box')
    BY <1>1, <2>1
  <2> QED BY <1>1, <2>1, <2>2 DEF TextIn, TextToken
<1> QED BY <1>2, <1>3

(* Only the holder of the lock changes the box.                             *)
LEMMA HolderTypes ==
  ASSUME TypingTypeOK, NEW w \in Writers, TypeLine(w)
  PROVE  writer[w].pc \in Working \/ UNCHANGED <<box, shown>>
<1>1. CASE Call(w) \/ LockTimesOut(w) \/ TakeLock(w)
  BY <1>1 DEF Call, LockTimesOut, TakeLock, screenVars
<1>2. CASE Moves(w) \/ Returns(w)
  BY <1>2 DEF Moves, Returns
<1> QED BY <1>1, <1>2, StepShape

LEMMA BoxOfOthers ==
  ASSUME TypingTypeOK, LockInv, BoxInv, NEW w \in Writers, TypeLine(w), NEW v \in Writers \ {w}
  PROVE  BoxOf(v)'
<1>1. writer'[v] = writer[v] /\ BoxOf(v)
  BY OthersKept DEF BoxInv, BoxOf
<1>2. CASE UNCHANGED <<box, shown>>
  BY <1>1, <1>2 DEF BoxOf, TextIn, TextBefore, LastIs, Seen, TextToken, ReceiptToken
<1>3. CASE writer[w].pc \in Working
  <2>1. writer'[v].pc \notin Working /\ writer'[v].pc \in Pcs
    BY <1>1, <1>3 DEF LockInv, TypingTypeOK, Writer
  <2>2. writer'[v].pc \in {"idle", "locking"}
    BY <2>1 DEF Working
  <2> QED BY <1>1, <2>2 DEF BoxOf
<1> QED BY <1>2, <1>3, HolderTypes

LEMMA BoxOfIdle == ASSUME NEW w \in Writers, writer'[w].pc = "idle" PROVE BoxOf(w)'
  BY DEF BoxOf

LEMMA BoxOfWriter ==
  ASSUME TypingTypeOK, ReceiptsFresh, BoxInv, NEW w \in Writers, TypeLine(w)
  PROVE  BoxOf(w)'
<1>0. BoxOf(w) /\ writer[w].n \in Nat /\ writer[w].landed \in BOOLEAN
  BY DEF BoxInv, BoxOf, TypingTypeOK, Writer
<1>1. CASE Call(w)
  BY <1>1, CallWriter DEF BoxOf
<1>2. CASE LockTimesOut(w)
  <2>1. writer'[w].pc = "idle"
    BY <1>2 DEF LockTimesOut, TypingTypeOK, IdleWriter
  <2> QED BY <2>1, BoxOfIdle
<1>3. CASE TextRaises(w) \/ ReceiptRaises(w) \/ GiveUpBefore(w) \/ CappedNow(w) \/ MissReceipt(w)
           \/ EraseRaises(w) \/ MissCleared(w) \/ PressEnter(w) \/ EnterRaises(w)
           \/ (Proceed(w) /\ ~writer[w].ours) \/ (CheckOurs(w) /\ ~writer[w].ours)
  <2>1. Return(w)
    BY <1>3 DEF TextRaises, ReceiptRaises, GiveUpBefore, CappedNow, MissReceipt, EraseRaises, MissCleared,
                PressEnter, EnterRaises, Proceed, CheckOurs
  <2>2. writer'[w].pc = "idle"
    BY <2>1, ReturnWriter DEF IdleWriter
  <2> QED BY <2>2, BoxOfIdle
<1>4. CASE TakeLock(w) \/ (Proceed(w) /\ writer[w].ours)
  <2>1. PICK pc \in {"ready", "typing"} : StepTo(w, pc) /\ writer[w].pc \in {"locking", "ready"}
    BY <1>4 DEF TakeLock, Proceed
  <2>2. writer'[w].pc = pc /\ writer'[w].landed = writer[w].landed
    <3>1. pc \in Pcs
      BY DEF Pcs
    <3> QED BY <2>1, <3>1, GotoWriter
  <2> QED BY <1>0, <2>1, <2>2 DEF BoxOf
<1>5. CASE ClearBox(w)
  <2>1. writer[w].pc = "ready"
    BY <1>5 DEF ClearBox
  <2> QED BY <1>0, <1>5, <2>1, ClearWriter DEF BoxOf
<1>6. CASE TypeText(w)
  <2>1. /\ writer'[w].pc = "typed" /\ writer'[w].n = writer[w].n
        /\ writer'[w].landed = (box' # box)
    BY <1>6, TextWriter
  <2>2. box' # box => TextIn(writer[w].n)'
    <3>1. box' = Typed(<<TextToken(writer[w].n)>>)
      BY <1>6 DEF TypeText, TextToken
    <3>2. ASSUME NEW n \in Nat, n = writer[w].n, box' # box PROVE TextIn(n)'
      BY <3>1, <3>2, TextLands
    <3> QED BY <1>0, <2>1, <3>2 DEF TextIn, TextToken
  <2> QED BY <2>1, <2>2 DEF BoxOf
<1>7. CASE TypeReceipt(w)
  <2>1. /\ writer[w].pc = "typed" /\ writer'[w].pc = "waiting" /\ writer'[w].n = writer[w].n
        /\ writer'[w].landed = writer[w].landed
    BY <1>7, GotoWriter DEF TypeReceipt, Pcs
  <2>2. ASSUME NEW n \in Nat, n = writer[w].n, Seen(n)'
        PROVE  LastIs(n)' /\ (writer[w].landed => TextBefore(n)')
    <3>1. n \notin Receipts(box) /\ n \notin shown
      BY <2>1, <2>2 DEF ReceiptsFresh, Seen, Unmarked
    <3>2. n \in Receipts(box') /\ box' \in TypedReceipt(n)
      BY <1>7, <2>2, <3>1 DEF TypeReceipt, Seen
    <3>3. writer[w].landed => TextIn(n)
      BY <1>0, <2>1, <2>2 DEF BoxOf
    <3> QED BY <3>1, <3>2, <3>3, ReceiptLast
  <2> DEFINE n == writer[w].n
  <2>3. Seen(n)' => LastIs(n)' /\ (writer[w].landed => TextBefore(n)')
    BY <1>0, <2>1, <2>2 DEF Seen, LastIs, TextBefore, TextToken, ReceiptToken
  <2> QED BY <2>1, <2>3 DEF BoxOf, Seen, LastIs, TextBefore, TextToken, ReceiptToken
<1>8. CASE SeeReceipt(w)
  <2>1. /\ writer[w].pc = "waiting" /\ writer[w].n \in shown /\ UNCHANGED <<box, shown>>
        /\ writer'[w].pc = "seen" /\ writer'[w].n = writer[w].n /\ writer'[w].landed = writer[w].landed
    BY <1>8, GotoWriter DEF SeeReceipt, Pcs, screenVars
  <2> QED BY <1>0, <2>1 DEF BoxOf, Seen, LastIs, TextBefore, TextToken, ReceiptToken
<1>9. CASE EraseReceipt(w)
  <2>1. /\ writer[w].pc = "seen" /\ box' = Erased
        /\ writer'[w].pc = "erased" /\ writer'[w].n = writer[w].n /\ writer'[w].landed = writer[w].landed
    BY <1>9, GotoWriter DEF EraseReceipt, Pcs
  <2>2. ASSUME NEW n \in Nat, n = writer[w].n, writer[w].landed PROVE TextIn(n)'
    BY <1>0, <2>1, <2>2, EraseSpares DEF BoxOf
  <2>3. writer[w].landed => TextIn(writer[w].n)'
    BY <1>0, <2>1, <2>2 DEF TextIn, TextToken
  <2> QED BY <2>1, <2>3 DEF BoxOf, TextIn, TextToken
<1>10. CASE SeeCleared(w) \/ (CheckOurs(w) /\ writer[w].ours)
  <2>1. PICK pc \in {"clear", "enter"} : StepTo(w, pc)
    BY <1>10 DEF SeeCleared, CheckOurs
  <2>2. writer'[w].pc = pc /\ writer'[w].n = writer[w].n /\ writer'[w].landed = writer[w].landed
    <3>1. pc \in Pcs
      BY DEF Pcs
    <3> QED BY <2>1, <3>1, GotoWriter
  <2>3. writer[w].pc \in {"erased", "clear"} /\ box' = box
    BY <1>10 DEF SeeCleared, CheckOurs, screenVars
  <2> QED BY <1>0, <2>2, <2>3 DEF BoxOf, TextIn, TextToken
<1> QED BY <1>1, <1>2, <1>3, <1>4, <1>5, <1>6, <1>7, <1>8, <1>9, <1>10 DEF TypeLine

LEMMA BoxStep ==
  ASSUME TypingTypeOK, LockInv, ReceiptsFresh, BoxInv, NEW w \in Writers, TypeLine(w)
  PROVE  BoxInv'
<1>1. \A v \in Writers \ {w} : BoxOf(v)'
  BY BoxOfOthers
<1>2. BoxOf(w)'
  BY BoxOfWriter
<1> QED BY <1>1, <1>2 DEF BoxInv

LEMMA BoxKept ==
  ASSUME TypingTypeOK, BoxInv,
         (\E w \in Writers : Lapse(w)) \/ Environment \/ (\E p \in Procs : WindowPasses(p)) \/ UNCHANGED typingVars
  PROVE  BoxInv'
<1>1. box' = box /\ (shown \cup Receipts(box))' \subseteq shown \cup Receipts(box)
  BY DEF Lapse, Environment, Repaint, ModalRises, ModalAnswered, WindowPasses, typingVars, screenVars
<1>2. \A v \in Writers : /\ writer'[v].pc = writer[v].pc /\ writer'[v].n = writer[v].n
                         /\ writer'[v].landed = writer[v].landed
  <2>1. ASSUME NEW w \in Writers, Lapse(w)
        PROVE  \A v \in Writers : /\ writer'[v].pc = writer[v].pc /\ writer'[v].n = writer[v].n
                                  /\ writer'[v].landed = writer[v].landed
    BY <2>1, LapseWriter
  <2> QED BY <2>1 DEF Environment, Repaint, ModalRises, ModalAnswered, WindowPasses, typingVars
<1> SUFFICES ASSUME NEW v \in Writers PROVE BoxOf(v)'
  BY DEF BoxInv
<1>3. BoxOf(v)
  BY DEF BoxInv
<1> QED BY <1>1, <1>2, <1>3 DEF BoxOf, Seen, TextIn, TextBefore, LastIs, TextToken, ReceiptToken

(* What is submitted: the box, by a writer that held authority at its last  *)
(* check and whose text, if it landed, is still whole.                      *)
LEMMA SubmitStep ==
  ASSUME TypingTypeOK, AuthorityInv, BoxInv, SubmitsWithAuthority, PayloadIntact,
         NEW w \in Writers, TypeLine(w)
  PROVE  SubmitsWithAuthority' /\ PayloadIntact'
<1>1. CASE submitted' = submitted
  BY <1>1 DEF SubmitsWithAuthority, PayloadIntact, Delivered
<1>2. CASE writer[w].pc = "enter" /\ submitted' = Append(submitted, Submission(w))
  <2> DEFINE S == [line : Seq(Token), n : Nat, landed : BOOLEAN, lapsed : Pcs \cup {"never"}]
             s == Submission(w)
  <2>1. submitted \in Seq(S) /\ s \in S
    BY SubmissionType DEF TypingTypeOK
  <2>2. s.lapsed \in {"never", "enter"}
    BY <1>2 DEF Submission, AuthorityInv
  <2>3. s.landed => Delivered(s)
    <3>1. s.landed = writer[w].landed /\ s.line = box /\ s.n = writer[w].n
      BY DEF Submission
    <3>2. DOMAIN box = 1..Len(box)
      BY LenProperties DEF TypingTypeOK
    <3> QED BY <1>2, <3>1, <3>2 DEF BoxInv, BoxOf, TextIn, TextToken, Delivered
  <2>4. /\ Len(submitted) \in Nat /\ DOMAIN submitted = 1..Len(submitted)
        /\ submitted' \in Seq(S) /\ Len(submitted') = Len(submitted) + 1
        /\ submitted'[Len(submitted) + 1] = s
        /\ \A i \in 1..Len(submitted) : submitted'[i] = submitted[i]
    <3> HIDE DEF S, s
    <3> QED BY <1>2, <2>1, AppendProperties, LenProperties DEF s
  <2>5. DOMAIN submitted' = 1..(Len(submitted) + 1)
    <3> HIDE DEF S, s
    <3> QED BY <2>4, LenProperties
  <2> HIDE DEF s
  <2>6. \A i \in DOMAIN submitted' : submitted'[i] = s \/ (i \in DOMAIN submitted /\ submitted'[i] = submitted[i])
    BY <2>4, <2>5
  <2> QED BY <2>2, <2>3, <2>6 DEF SubmitsWithAuthority, PayloadIntact, Delivered
<1>3. CASE PressEnter(w) \/ EnterRaises(w)
  BY <1>1, <1>2, <1>3 DEF PressEnter, EnterRaises, Enter
<1>4. CASE ~(PressEnter(w) \/ EnterRaises(w))
  BY <1>1, <1>4 DEF TypeLine, Call, LockTimesOut, TakeLock, ClearBox, GiveUpBefore, CappedNow, Proceed, TypeText,
                TypeReceipt, TextRaises, ReceiptRaises, SeeReceipt, MissReceipt, EraseReceipt, EraseRaises,
                SeeCleared, MissCleared, CheckOurs, screenVars
<1> QED BY <1>3, <1>4

LEMMA SubmitKept ==
  ASSUME SubmitsWithAuthority, PayloadIntact,
         (\E w \in Writers : Lapse(w)) \/ Environment \/ (\E p \in Procs : WindowPasses(p)) \/ UNCHANGED typingVars
  PROVE  SubmitsWithAuthority' /\ PayloadIntact'
<1>1. submitted' = submitted
  BY DEF Lapse, Environment, Repaint, ModalRises, ModalAnswered, WindowPasses, typingVars, screenVars
<1> QED BY <1>1 DEF SubmitsWithAuthority, PayloadIntact, Delivered

---------------------------------------------------------------------------
(* The copies left in the box.  Each is paid for by a counted attempt or by *)
(* a retry; a call past the cap has had its retry counted, and still owes   *)
(* the copy it may leave.                                                   *)
Proceeded == Working \ {"ready"}

Credit(p) ==
  IF lock # NoOne /\ ProcOf(lock) = p /\ writer[lock].pc \in Proceeded /\ AtCap(p) THEN 1 ELSE 0

CopiesInv == \A p \in Procs : left[p] + Credit(p) <= streak[p] + retries[p]

LEMMA CountTypes ==
  ASSUME TypingTypeOK, NEW p \in Procs
  PROVE  /\ left[p] \in Nat /\ retries[p] \in Nat /\ streak[p] \in 0..2 /\ Credit(p) \in {0, 1}
         /\ AtCap(p) <=> streak[p] = 2
  BY DEF TypingTypeOK, Credit, AtCap, SWALLOW_MAX_ATTEMPTS

LEMMA CopiesSame ==
  ASSUME TypingTypeOK, TypingTypeOK', CopiesInv, UNCHANGED <<left, streak, retries>>,
         \A p \in Procs : Credit(p)' = 0 \/ Credit(p)' = Credit(p)
  PROVE  CopiesInv'
<1> SUFFICES ASSUME NEW p \in Procs PROVE left'[p] + Credit(p)' <= streak'[p] + retries'[p]
  BY DEF CopiesInv
<1>1. left[p] + Credit(p) <= streak[p] + retries[p]
  BY DEF CopiesInv
<1> QED BY <1>1, CountTypes

(* Returning pays for the copy, if the call leaves one.                     *)
LEMMA CopiesStranded ==
  ASSUME TypingTypeOK, TypingTypeOK', CopiesInv, NEW w \in Writers, lock = w, writer[w].pc \in Proceeded,
         Stranded(w), Return(w)
  PROVE  CopiesInv'
<1> SUFFICES ASSUME NEW p \in Procs PROVE left'[p] + Credit(p)' <= streak'[p] + retries'[p]
  BY DEF CopiesInv
<1>1. Credit(p)' = 0 /\ retries'[p] = retries[p]
  BY DEF Credit, Return, Stranded
<1>2. left[p] + Credit(p) <= streak[p] + retries[p]
  BY DEF CopiesInv
<1>3. CASE p # ProcOf(w)
  <2>1. streak'[p] = streak[p] /\ left'[p] = left[p]
    BY <1>3, ProcType DEF Stranded, Leaves, TypingTypeOK
  <2> QED BY <1>1, <1>2, <2>1, CountTypes
<1>4. CASE p = ProcOf(w)
  <2>1. left'[p] \in {left[p], left[p] + 1}
    BY <1>4, ProcType DEF Stranded, Leaves, TypingTypeOK
  <2>2. CASE AtCap(p)
    <3>1. Credit(p) = 1
      BY <1>4, <2>2, NoOneWrites DEF Credit
    <3>2. streak'[p] = streak[p]
      <4>1. streak'[p] = IF streak[p] < 2 THEN streak[p] + 1 ELSE streak[p]
        BY <1>4, ProcType DEF Stranded, TypingTypeOK, SWALLOW_MAX_ATTEMPTS
      <4> QED BY <2>2, <4>1, CountTypes
    <3> QED BY <1>1, <1>2, <2>1, <3>1, <3>2, CountTypes
  <2>3. CASE ~AtCap(p)
    <3>1. streak'[p] = streak[p] + 1
      BY <1>4, <2>3, ProcType DEF Stranded, TypingTypeOK, AtCap, SWALLOW_MAX_ATTEMPTS
    <3> QED BY <1>1, <1>2, <2>1, <3>1, CountTypes
  <2> QED BY <2>2, <2>3
<1> QED BY <1>3, <1>4

LEMMA CopiesStep ==
  ASSUME TypingTypeOK, TypingTypeOK', LockInv, CopiesInv, NEW w \in Writers, TypeLine(w)
  PROVE  CopiesInv'
<1>1. CASE Call(w) \/ LockTimesOut(w)
  <2>1. lock' = lock /\ UNCHANGED <<left, streak, retries>> /\ lock # w
    BY <1>1 DEF Call, LockTimesOut, tableVars, LockInv, Working
  <2>2. lock # NoOne => writer'[lock] = writer[lock]
    BY <2>1, OthersKept DEF TypingTypeOK
  <2>3. \A p \in Procs : Credit(p)' = Credit(p)
    BY <2>1, <2>2 DEF Credit, AtCap, Proceeded, Working
  <2> QED BY <2>1, <2>3, CopiesSame
<1>2. CASE TakeLock(w)
  <2>1. lock' = w /\ writer'[w].pc = "ready" /\ UNCHANGED <<left, streak, retries>>
    BY <1>2, GotoWriter DEF TakeLock, Pcs, tableVars
  <2>2. \A p \in Procs : Credit(p)' = 0
    BY <2>1 DEF Credit, Proceeded
  <2> QED BY <2>1, <2>2, CopiesSame
<1>3. CASE ClearBox(w)
  <2>1. lock' = w /\ writer'[w].pc = "ready" /\ UNCHANGED <<left, streak, retries>>
    BY <1>3, ClearWriter DEF ClearBox, LockInv, Working, Pcs, tableVars
  <2>2. \A p \in Procs : Credit(p)' = 0
    BY <2>1 DEF Credit, Proceeded
  <2> QED BY <2>1, <2>2, CopiesSame
<1>4. CASE GiveUpBefore(w) \/ CappedNow(w) \/ TextRaises(w) \/ ReceiptRaises(w)
  <2>1. lock' = NoOne /\ UNCHANGED <<left, streak, retries>>
    BY <1>4 DEF GiveUpBefore, CappedNow, TextRaises, ReceiptRaises, Return, tableVars
  <2>2. \A p \in Procs : Credit(p)' = 0
    BY <2>1 DEF Credit
  <2> QED BY <2>1, <2>2, CopiesSame
<1>5. CASE Proceed(w)
  <2> SUFFICES ASSUME NEW p \in Procs PROVE left'[p] + Credit(p)' <= streak'[p] + retries'[p]
    BY DEF CopiesInv
  <2>1. /\ left'[p] = left[p] /\ streak'[p] = streak[p]
        /\ retries'[p] = IF p = ProcOf(w) /\ AtCap(p) THEN retries[p] + 1 ELSE retries[p]
    BY <1>5, ProcType DEF Proceed, TypingTypeOK
  <2>2. lock' \in {w, NoOne}
    BY <1>5 DEF Proceed, Return, LockInv, Working, Pcs
  <2>3. p # ProcOf(w) \/ ~AtCap(p) => Credit(p)' = 0
    BY <2>1, <2>2 DEF Credit, AtCap
  <2>4. left[p] + Credit(p) <= streak[p] + retries[p]
    BY DEF CopiesInv
  <2>5. Credit(p)' \in {0, 1} /\ left[p] \in Nat /\ retries[p] \in Nat /\ streak[p] \in Nat
    BY CountTypes DEF Credit
  <2>6. CASE Credit(p)' = 0
    BY <2>1, <2>4, <2>5, <2>6, CountTypes
  <2>7. CASE Credit(p)' # 0
    <3>1. Credit(p)' = 1 /\ retries'[p] = retries[p] + 1
      BY <2>1, <2>3, <2>5, <2>7
    <3>2. left[p] <= streak[p] + retries[p]
      BY <2>4, CountTypes
    <3> QED BY <2>1, <2>5, <3>1, <3>2
  <2> QED BY <2>6, <2>7
<1>6. CASE TypeText(w) \/ TypeReceipt(w) \/ SeeReceipt(w) \/ EraseReceipt(w) \/ SeeCleared(w)
           \/ (CheckOurs(w) /\ writer[w].ours)
  <2>1. lock = w /\ writer[w].pc \in Proceeded
    BY <1>6 DEF TypeText, TypeReceipt, SeeReceipt, EraseReceipt, SeeCleared, CheckOurs, LockInv, Proceeded,
                Working, Pcs
  <2>2. lock' = lock /\ UNCHANGED <<left, streak, retries>>
    BY <1>6 DEF TypeText, TypeReceipt, SeeReceipt, EraseReceipt, SeeCleared, CheckOurs, tableVars
  <2>3. \A p \in Procs : Credit(p)' = 0 \/ Credit(p)' = Credit(p)
    BY <2>1, <2>2 DEF Credit, AtCap
  <2> QED BY <2>2, <2>3, CopiesSame
<1>7. CASE MissReceipt(w) \/ EraseRaises(w) \/ MissCleared(w) \/ EnterRaises(w)
           \/ (CheckOurs(w) /\ ~writer[w].ours)
  <2>1. lock = w /\ writer[w].pc \in Proceeded
    BY <1>7 DEF MissReceipt, EraseRaises, MissCleared, EnterRaises, CheckOurs, LockInv, Proceeded, Working, Pcs
  <2>2. Stranded(w) /\ Return(w)
    BY <1>7 DEF MissReceipt, EraseRaises, MissCleared, EnterRaises, CheckOurs
  <2> QED BY <2>1, <2>2, CopiesStranded
<1>8. CASE PressEnter(w)
  <2> SUFFICES ASSUME NEW p \in Procs PROVE left'[p] + Credit(p)' <= streak'[p] + retries'[p]
    BY DEF CopiesInv
  <2>1. Credit(p)' = 0
    BY <1>8 DEF PressEnter, Return, Credit
  <2>2. /\ left'[p] = IF p = ProcOf(w) THEN 0 ELSE left[p]
        /\ streak'[p] = IF p = ProcOf(w) THEN 0 ELSE streak[p]
        /\ retries'[p] = IF p = ProcOf(w) THEN 0 ELSE retries[p]
    BY <1>8 DEF PressEnter, TypingTypeOK
  <2>3. left[p] + Credit(p) <= streak[p] + retries[p]
    BY DEF CopiesInv
  <2> QED BY <2>1, <2>2, <2>3, CountTypes
<1> QED BY <1>1, <1>2, <1>3, <1>4, <1>5, <1>6, <1>7, <1>8 DEF TypeLine

LEMMA CopiesKept ==
  ASSUME TypingTypeOK, TypingTypeOK', CopiesInv,
         (\E w \in Writers : Lapse(w)) \/ Environment \/ (\E p \in Procs : WindowPasses(p)) \/ UNCHANGED typingVars
  PROVE  CopiesInv'
<1>1. UNCHANGED <<left, streak, retries, lock>>
  BY DEF Lapse, Environment, Repaint, ModalRises, ModalAnswered, WindowPasses, typingVars, tableVars
<1>2. \A v \in Writers : writer'[v].pc = writer[v].pc
  <2>1. ASSUME NEW w \in Writers, Lapse(w) PROVE \A v \in Writers : writer'[v].pc = writer[v].pc
    BY <2>1, LapseWriter
  <2> QED BY <2>1 DEF Environment, Repaint, ModalRises, ModalAnswered, WindowPasses, typingVars
<1>3. \A p \in Procs : Credit(p)' = Credit(p)
  BY <1>1, <1>2 DEF Credit, AtCap, Proceeded, Working, TypingTypeOK
<1> QED BY <1>1, <1>3, CopiesSame

---------------------------------------------------------------------------
(* The inductive invariant.                                                 *)
TypingInv ==
  /\ TypingTypeOK /\ LockInv /\ CallsDistinct /\ ReceiptsFresh /\ PickerInv /\ AuthorityInv
  /\ BoxInv /\ CopiesInv
  /\ NoBlindEnter /\ SubmitsWithAuthority /\ PayloadIntact

LEMMA InitInvariant == TypingInit => TypingInv
<1> SUFFICES ASSUME TypingInit PROVE TypingInv
  OBVIOUS
<1>1. TypingTypeOK
  BY TypingInitType
<1>2. \A w \in Writers : writer[w] = IdleWriter
  BY DEF TypingInit
<1>3. LockInv /\ CallsDistinct
  BY <1>2, NoOneWrites DEF TypingInit, LockInv, CallsDistinct, IdleWriter, Working
<1>4. ReceiptsFresh /\ PickerInv /\ NoBlindEnter
  BY <1>2 DEF TypingInit, ReceiptsFresh, PickerInv, NoBlindEnter, Receipts, IdleWriter, Unmarked
<1>5. AuthorityInv /\ BoxInv
  BY <1>2 DEF AuthorityInv, BoxInv, BoxOf, IdleWriter
<1>6. CopiesInv
  BY DEF TypingInit, CopiesInv, Credit
<1>7. SubmitsWithAuthority /\ PayloadIntact
  BY DEF TypingInit, SubmitsWithAuthority, PayloadIntact
<1> QED BY <1>1, <1>3, <1>4, <1>5, <1>6, <1>7 DEF TypingInv

LEMMA InductiveStep == TypingInv /\ [TypingNext]_typingVars => TypingInv'
<1> SUFFICES ASSUME TypingInv, [TypingNext]_typingVars PROVE TypingInv'
  OBVIOUS
<1>1. TypingTypeOK'
  BY TypeNext DEF TypingInv
<1>2. ASSUME NEW w \in Writers, TypeLine(w) PROVE TypingInv'
  <2>1. LockInv' /\ CallsDistinct'
    BY <1>2, LockStep DEF TypingInv
  <2>2. ReceiptsFresh' /\ PickerInv' /\ NoBlindEnter'
    BY <1>2, <2>1, FreshStep, PickerStep DEF TypingInv
  <2>3. AuthorityInv' /\ BoxInv' /\ CopiesInv'
    BY <1>1, <1>2, AuthorityStep, BoxStep, CopiesStep DEF TypingInv
  <2>4. SubmitsWithAuthority' /\ PayloadIntact'
    BY <1>2, SubmitStep DEF TypingInv
  <2> QED BY <1>1, <2>1, <2>2, <2>3, <2>4 DEF TypingInv
<1>3. CASE (\E w \in Writers : Lapse(w)) \/ Environment \/ (\E p \in Procs : WindowPasses(p)) \/ UNCHANGED typingVars
  <2>1. LockInv' /\ CallsDistinct' /\ ReceiptsFresh' /\ PickerInv' /\ NoBlindEnter'
    BY <1>3, LockKept, FreshKept, PickerKept DEF TypingInv
  <2>2. AuthorityInv' /\ BoxInv' /\ CopiesInv' /\ SubmitsWithAuthority' /\ PayloadIntact'
    BY <1>1, <1>3, AuthorityKept, BoxKept, CopiesKept, SubmitKept DEF TypingInv
  <2> QED BY <1>1, <2>1, <2>2 DEF TypingInv
<1> QED BY <1>2, <1>3 DEF TypingNext

THEOREM TypingInvariant == TypingSpec => []TypingInv
  BY InitInvariant, InductiveStep, PTL DEF TypingSpec

(* Enter is pressed only by a caller that still had authority at its last   *)
(* check, and never answers a picker that was up before the receipt was     *)
(* typed: a modal accepts no injection blind.                               *)
THEOREM EnterMeant == TypingSpec => []EnterIsMeant
<1>1. TypingInv => EnterIsMeant
  BY DEF TypingInv, EnterIsMeant
<1> QED BY <1>1, TypingInvariant, PTL

(* A text that reached the box is submitted whole by its writer's Enter,    *)
(* whichever writers, faults and pickers there are.                         *)
THEOREM PayloadKept == TypingSpec => []PayloadIntact
<1>1. TypingInv => PayloadIntact
  BY DEF TypingInv
<1> QED BY <1>1, TypingInvariant, PTL

(* Between two Enters that go through, the counted attempts of a process    *)
(* leave at most the cap and one copy per retry in the box.                 *)
THEOREM CopiesAreBounded == TypingSpec => []CopiesBounded
<1>1. TypingInv => CopiesBounded
  <2> SUFFICES ASSUME TypingInv, NEW p \in Procs PROVE left[p] <= SWALLOW_MAX_ATTEMPTS + retries[p]
    BY DEF CopiesBounded
  <2>1. left[p] + Credit(p) <= streak[p] + retries[p]
    BY DEF TypingInv, CopiesInv
  <2> QED BY <2>1, CountTypes DEF TypingInv, SWALLOW_MAX_ATTEMPTS
<1> QED BY <1>1, TypingInvariant, PTL
=============================================================================
