------------------------- MODULE ReopenQuestion_proofs -------------------------
(***************************************************************************)
(* Proofs about ReopenQuestion for any bounds, sessions, questions in the   *)
(* chat and updates that wait: whatever the order of the threads' writes    *)
(* the file of questions ends as memory has it, no question on record       *)
(* exempts a live session's texts from the kill-switch, and message, record *)
(* and session are not mistaken for one another.                            *)
(***************************************************************************)
EXTENDS ReopenQuestion, SequenceTheorems, TLAPS

---------------------------------------------------------------------------
(* The inductive invariant *)

SweepPlaces == {"idle", "offer", "prepared", "send", "arm", "drop", "armed", "dropped"}
TapPlaces == {"check", "answer", "forgot", "consume", "reviving", "start", "rearmed"}
Places == SweepPlaces \cup TapPlaces \cup {"early", "authority", "inbox", "claimed", "reasked", "other"}

ReviveKinds == {"resume", "fresh"}
UpdateType == [what : {"none", "resume", "fresh", "reopen"}, mid : {0}, seen : Nat]
              \cup [what : {"tap"}, mid : Nat \ {0}, seen : Nat]
ThreadType == [pc : Places, x : UpdateType, gen : 0..MaxGen, kind : ReviveKinds, durable : BOOLEAN]
WorkerType == [pc : {"off", "launch", "bound", "failed", "rearmed", "forgot"}, gen : 0..MaxGen,
               kind : ReviveKinds, mid : Nat, late : BOOLEAN]
Local == Threads \ {"worker"}

(* The peer only writes, the sweep only asks, a tap is on no other road     *)
(* than the answer's, and an answer is for a session.                       *)
Answered == {"answer", "reviving", "start"}
Fits(t, m) ==
  /\ m.pc = "idle" => m = Idle
  /\ t = "peer" => m.pc \in {"idle", "other"}
  /\ t = "sweep" => m.pc \in SweepPlaces
  /\ m.x.what = "tap" => t = "poller" /\ m.pc \in TapPlaces
  /\ m.pc \in Answered => m.gen # 0
ThreadInv ==
  /\ thread \in [Local -> ThreadType] /\ worker \in WorkerType
  /\ worker.pc # "off" => worker.gen # 0
  /\ \A t \in Local : Fits(t, thread[t])

WorldInv ==
  /\ sessions \in Seq(ReviveKinds) /\ Len(sessions) \in 1..MaxGen
  /\ entry \in [gen : 1..Len(sessions), ended : BOOLEAN]
  /\ updates \in Seq(UpdateType) /\ cf \in BOOLEAN /\ shown \in Seq(Nat) /\ accepted \in Nat
  /\ boot \in BOOLEAN /\ lapse \subseteq Lapses /\ lock \in {"free"} \cup Threads

(* What a thread has read of the registry is a session the topic had.       *)
GenInv == /\ worker.gen \in 0..Len(sessions)
          /\ \A t \in Local : thread[t].gen \in 0..Len(sessions)

(* The message of a question is in the chat; a fresh one's is not tracked.  *)
Whole(q) == /\ q.kind = "fresh" => q.mid = 0
            /\ q.state = "none" => q = NoQ
Sound(q) == q \in Question /\ q.mid <= Len(shown) /\ Whole(q)
QuestionInv ==
  /\ Sound(pending) /\ file \in [q : Question, other : Nat] /\ Sound(file.q)
  /\ other \in Nat /\ file.other <= other

(* A snapshot is memory as it still is, under its thread's lock.            *)
Publishes(t) == Pc(t) \in DOMAIN Then
BufInv ==
  /\ DOMAIN buf = Threads
  /\ \A t \in Threads :
       buf[t] # NoBuf => lock = t /\ Publishes(t) /\ buf[t] = [q |-> pending, other |-> other]
LockInv == lock # "free" => Publishes(lock) \/ (lock = "poller" /\ Taps)

BootInv == boot => worker = Off /\ lock = "free" /\ \A t \in Local : thread[t] = Idle

(* If the file is not what memory holds, then a write failed for all to     *)
(* see, or a thread is on its way to a write: from its change on, or from   *)
(* the first record of a question on.                                       *)
Dirty == {"prepared", "send", "arm", "drop"}
Sync ==
  \/ file.q = pending
  \/ lapse \cap {"told", "untold"} # {}
  \/ \E t \in Threads \ {"peer"} : Publishes(t) /\ Pc(t) # "prepared"
  \/ pending # NoQ /\ \E t \in Askers : Pc(t) \in Dirty

IInv == ThreadInv /\ WorldInv /\ GenInv /\ QuestionInv /\ BufInv /\ LockInv /\ BootInv /\ Sync

---------------------------------------------------------------------------
(* Steps of a thread *)

LEMMA ThenDomain ==
  DOMAIN Then = {"prepared", "claimed", "reviving", "reasked", "forgot", "armed", "dropped", "rearmed", "other"}
BY DEF Then

LEMMA EntryType ==
  IInv => /\ entry.gen \in 0..MaxGen /\ entry.gen \in 1..Len(sessions) /\ entry.gen \in 0..Len(sessions)
          /\ Kind \in ReviveKinds /\ entry.ended \in BOOLEAN
<1> SUFFICES ASSUME IInv PROVE entry.gen \in 1..Len(sessions) /\ Len(sessions) \in 1..MaxGen /\ Kind \in ReviveKinds
                               /\ entry.ended \in BOOLEAN
  BY ReopenAssumption
<1>1. entry.gen \in 1..Len(sessions) /\ Len(sessions) \in 1..MaxGen /\ sessions \in Seq(ReviveKinds)
      /\ entry.ended \in BOOLEAN
  BY DEF IInv, WorldInv
<1> QED BY <1>1, ElementOfSeq DEF Kind

LEMMA IdleType == Idle \in ThreadType /\ NoUpdate \in UpdateType /\ Off \in WorkerType
                  /\ NoQ \in Question /\ Idle.pc = "idle" /\ Idle.x = NoUpdate /\ Off.pc = "off"
                  /\ Idle.gen = 0 /\ Off.gen = 0
BY ReopenAssumption DEF Idle, ThreadType, Places, SweepPlaces, NoUpdate, UpdateType, ReviveKinds, Off, WorkerType,
   NoQ, Question

LEMMA PcOf ==
  ASSUME NEW t \in Threads
  PROVE  /\ Pc(t) = IF t = "worker" THEN worker.pc ELSE thread[t].pc
         /\ Pc(t)' = IF t = "worker" THEN worker'.pc ELSE thread'[t].pc
BY DEF Pc

(* A thread takes up something new.                                         *)
LEMMA TakesUp ==
  ASSUME ThreadInv, NEW t \in Local, NEW m \in ThreadType, thread' = [thread EXCEPT ![t] = m], Fits(t, m)
  PROVE  /\ thread' \in [Local -> ThreadType] /\ \A u \in Local : Fits(u, thread'[u])
         /\ thread'[t] = m /\ \A u \in Local : u # t => thread'[u] = thread[u]
BY DEF ThreadInv

LEMMA IdleFits == \A t \in Local : Fits(t, Idle)
BY IdleType DEF Fits, SweepPlaces, NoUpdate, Answered

(* A step of a thread that is not writing: it keeps what others have in     *)
(* hand, changes the record only when nobody else writes it, and leaves it  *)
(* as it was or is on its way to a write.                                   *)
Steps(t) ==
  /\ ~ Publishes(t) /\ ~ boot /\ ~ boot'
  /\ \A u \in Threads \ {t} :
       \/ Pc(u)' = Pc(u)
       \/ u = "worker" /\ Pc(u) = "off" /\ Pc(u)' = "launch"
  /\ t # "poller" => thread'["poller"] = thread["poller"]
  /\ UNCHANGED <<buf, file>> /\ lapse \subseteq lapse'
  /\ (pending' = pending /\ other' = other) \/ lock \in {"free", t}
  /\ \/ lock' = lock
     \/ lock = t /\ lock' = "free"
     \/ lock = "free" /\ lock' = "poller" /\ t = "poller"
  /\ lock' = "poller" /\ t = "poller" => Taps'
  /\ \/ pending' = pending /\ (Pc(t) \notin Dirty \/ pending = NoQ)
     \/ t # "peer" /\ Publishes(t)' /\ Pc(t)' # "prepared"
     \/ pending' # NoQ /\ t \in Askers /\ Pc(t)' \in Dirty

LEMMA StepsKeep ==
  ASSUME IInv, NEW t \in Threads, Steps(t)
  PROVE  BufInv' /\ LockInv' /\ BootInv' /\ Sync'
<1>1. \A u \in Threads \ {t} : Publishes(u) => Pc(u)' = Pc(u) /\ Publishes(u)'
  BY ThenDomain DEF Steps, Publishes
<1>2. ASSUME lock \in {"free", t} PROVE \A u \in Threads : buf[u] = NoBuf
  BY <1>2 DEF IInv, BufInv, Steps, Threads, Askers
<1>3. BufInv'
  <2>1. CASE lock \in {"free", t}
    BY <1>2, <2>1 DEF IInv, BufInv, Steps
  <2>2. CASE lock \notin {"free", t}
    <3>1. lock' = lock /\ pending' = pending /\ other' = other /\ buf' = buf
      BY <2>2 DEF Steps
    <3> QED BY <1>1, <2>2, <3>1 DEF IInv, BufInv
  <2> QED BY <2>1, <2>2
<1>4. LockInv'
  <2>1. CASE lock' = "free"
    BY <2>1 DEF LockInv
  <2>2. CASE lock' = "poller" /\ t = "poller"
    BY <2>2 DEF LockInv, Steps
  <2>3. CASE lock' # "free" /\ ~ (lock' = "poller" /\ t = "poller")
    <3>1. lock' = lock /\ lock # t /\ lock \in Threads
      BY <2>3 DEF Steps, IInv, LockInv, WorldInv
    <3>2. CASE Publishes(lock)
      <4>1. Publishes(lock)'
        BY <1>1, <3>1, <3>2
      <4> QED BY <3>1, <4>1 DEF LockInv, Publishes, Pc
    <3>3. CASE lock = "poller" /\ Taps
      BY <3>1, <3>3 DEF LockInv, Taps, Steps
    <3> QED BY <3>1, <3>2, <3>3 DEF IInv, LockInv
  <2> QED BY <2>1, <2>2, <2>3
<1>5. BootInv'
  BY DEF Steps, BootInv
<1>6. Sync'
  <2>1. file' = file /\ lapse \subseteq lapse' /\ ~ Publishes(t)
    BY DEF Steps
  <2>2. CASE pending' = pending /\ (Pc(t) \notin Dirty \/ pending = NoQ)
    <3>1. ASSUME NEW u \in Askers, Pc(u) \in Dirty, pending # NoQ PROVE Pc(u)' = Pc(u)
      BY <2>2, <3>1 DEF Steps, Askers, Threads
    <3>2. ASSUME NEW u \in Threads \ {"peer"}, Publishes(u), Pc(u) # "prepared"
          PROVE  Publishes(u)' /\ Pc(u)' # "prepared"
      BY <1>1, <2>1, <3>2
    <3>3. CASE \E u \in Threads \ {"peer"} : Publishes(u) /\ Pc(u) # "prepared"
      BY <3>2, <3>3 DEF Sync
    <3>4. CASE pending # NoQ /\ \E u \in Askers : Pc(u) \in Dirty
      BY <2>2, <3>1, <3>4 DEF Sync
    <3>5. CASE file.q = pending \/ lapse \cap {"told", "untold"} # {}
      BY <2>1, <2>2, <3>5 DEF Sync
    <3> QED BY <3>3, <3>4, <3>5 DEF IInv, Sync
  <2>3. CASE t # "peer" /\ Publishes(t)' /\ Pc(t)' # "prepared"
    BY <2>3 DEF Sync
  <2>4. CASE pending' # NoQ /\ t \in Askers /\ Pc(t)' \in Dirty
    BY <2>4 DEF Sync
  <2> QED BY <2>2, <2>3, <2>4 DEF Steps
<1> QED BY <1>3, <1>4, <1>5, <1>6

LEMMA LocalStep ==
  ASSUME NEW t \in Local, \A u \in Local : u # t => thread'[u] = thread[u],
         worker' = worker \/ (worker.pc = "off" /\ worker'.pc = "launch")
  PROVE  /\ Pc(t) = thread[t].pc /\ Pc(t)' = thread'[t].pc /\ (t # "poller" => thread'["poller"] = thread["poller"])
         /\ \A u \in Threads \ {t} : \/ Pc(u)' = Pc(u)
                                     \/ u = "worker" /\ Pc(u) = "off" /\ Pc(u)' = "launch"
BY DEF Local, Pc, Threads, Askers

(* A question more in the chat, or none.                                    *)
LEMMA ShowStep ==
  ASSUME WorldInv, pending \in Question, Show \/ UNCHANGED shown
  PROVE  /\ shown' \in Seq(Nat) /\ Len(shown) \in Nat /\ Len(shown') \in Nat /\ Len(shown) <= Len(shown')
         /\ Show => Len(shown') = Len(shown) + 1
<1>1. Len(shown) \in Nat /\ pending.gen \in Nat
  BY LenProperties, ReopenAssumption DEF WorldInv, Question
<1>2. CASE Show
  BY <1>1, <1>2, AppendProperties DEF WorldInv, Show
<1>3. CASE UNCHANGED shown
  <2>1. ~ (Show /\ UNCHANGED shown)
    BY <1>1, <1>2, <1>3
  <2> QED BY <1>1, <1>3, <2>1 DEF WorldInv
<1> QED BY <1>2, <1>3

LEMMA QuestionStep ==
  ASSUME QuestionInv, WorldInv, Show \/ UNCHANGED shown, file' = file, other' \in {other, other + 1},
         NEW q \in Question, pending' = q, Whole(q),
         q.mid \in {0, pending.mid, Len(shown')}
  PROVE  QuestionInv'
<1>1. Len(shown) \in Nat /\ Len(shown') \in Nat /\ Len(shown) <= Len(shown')
  BY ShowStep DEF QuestionInv, Sound
<1>2. pending.mid \in Nat /\ pending.mid <= Len(shown) /\ file.q.mid \in Nat /\ file.q.mid <= Len(shown)
  BY DEF QuestionInv, Sound, Question
<1>3. q.mid <= Len(shown')
  BY <1>1, <1>2
<1>4. file.q.mid <= Len(shown')
  BY <1>1, <1>2
<1>5. other' \in Nat /\ file.other <= other'
  BY DEF QuestionInv
<1> QED BY <1>3, <1>4, <1>5 DEF QuestionInv, Sound

LEMMA QuestionStays ==
  ASSUME QuestionInv, WorldInv, Show \/ UNCHANGED shown, UNCHANGED <<file, pending>>, other' \in {other, other + 1}
  PROVE  QuestionInv'
BY QuestionStep DEF QuestionInv, Sound

Kept == ThreadInv' /\ WorldInv' /\ GenInv' /\ QuestionInv'

(* The worker is started, for a session the topic had.                      *)
LaunchedWell == /\ worker.pc = "off" /\ worker' \in WorkerType /\ worker'.pc = "launch"
                /\ worker'.gen # 0 /\ worker'.gen \in 0..Len(sessions)

(* A step between two writes, of one thread.                                *)
LEMMA MoveStep ==
  ASSUME IInv, NEW t \in Local, thread[t].pc \notin DOMAIN Then, ~ boot, UNCHANGED <<boot, buf, file, sessions>>, WorldInv',
         NEW m \in ThreadType, thread' = [thread EXCEPT ![t] = m], Fits(t, m), m.gen \in {0, thread[t].gen, entry.gen},
         worker' = worker \/ LaunchedWell,
         NEW q \in Question, pending' = q, Whole(q), Show \/ UNCHANGED shown,
         q.mid \in {0, pending.mid, Len(shown')}, lapse \subseteq lapse',
         q = pending \/ lock \in {"free", t},
         other' = other \/ (lock = "free" /\ other' = other + 1),
         \/ lock' = lock
         \/ lock = t /\ lock' = "free"
         \/ lock = "free" /\ lock' = "poller" /\ t = "poller",
         lock' = "poller" /\ t = "poller" => m.x.what = "tap",
         \/ q = pending /\ (thread[t].pc \notin Dirty \/ pending = NoQ)
         \/ t # "peer" /\ m.pc \in DOMAIN Then /\ m.pc # "prepared"
         \/ q # NoQ /\ t \in Askers /\ m.pc \in Dirty
  PROVE  Kept /\ Steps(t)
<1>1. /\ thread' \in [Local -> ThreadType] /\ \A u \in Local : Fits(u, thread'[u])
      /\ thread'[t] = m /\ \A u \in Local : u # t => thread'[u] = thread[u]
  BY TakesUp DEF IInv
<1>9. worker' = worker \/ (worker.pc = "off" /\ worker'.pc = "launch")
  BY DEF LaunchedWell
<1>2. t \in Threads /\ Pc(t) = thread[t].pc /\ Pc(t)' = m.pc
  BY <1>1, <1>9, LocalStep DEF Local
<1>3. QuestionInv'
  BY QuestionStep DEF IInv
<1>4. ThreadInv'
  BY <1>1 DEF IInv, ThreadInv, LaunchedWell
<1>8. GenInv'
  BY <1>1, EntryType DEF IInv, GenInv, LaunchedWell
<1>5. ~ Publishes(t) /\ (Publishes(t)' <=> m.pc \in DOMAIN Then)
  BY <1>2, ThenDomain DEF Publishes
<1>6. lock' = "poller" /\ t = "poller" => Taps'
  BY <1>1 DEF Taps
<1>7. \/ pending' = pending /\ (Pc(t) \notin Dirty \/ pending = NoQ)
      \/ t # "peer" /\ Publishes(t)' /\ Pc(t)' # "prepared"
      \/ pending' # NoQ /\ t \in Askers /\ Pc(t)' \in Dirty
  BY <1>2, <1>5
<1> QED BY <1>1, <1>3, <1>4, <1>5, <1>6, <1>7, <1>8, <1>9, LocalStep DEF Steps, Kept

LEMMA GoesOn ==
  ASSUME IInv, NEW t \in Local, thread[t].pc \notin DOMAIN Then, ~ boot, UNCHANGED <<boot, buf, file, worker, lock, sessions>>, WorldInv',
         NEW pc \in Places \ {"idle"}, Goes(t, pc),
         t = "peer" => pc = "other", t = "sweep" => pc \in SweepPlaces,
         thread[t].x.what = "tap" => pc \in TapPlaces, pc \in Answered => thread[t].gen # 0,
         NEW q \in Question, pending' = q, Whole(q), Show \/ UNCHANGED shown,
         q.mid \in {0, pending.mid, Len(shown')}, lapse \subseteq lapse',
         q = pending \/ lock \in {"free", t},
         other' = other \/ (lock = "free" /\ other' = other + 1),
         \/ q = pending /\ (thread[t].pc \notin Dirty \/ pending = NoQ)
         \/ t # "peer" /\ pc \in DOMAIN Then /\ pc # "prepared"
         \/ q # NoQ /\ t \in Askers /\ pc \in Dirty
  PROVE  Kept /\ Steps(t)
<1> DEFINE m == [thread[t] EXCEPT !.pc = pc]
<1>1. thread[t] \in ThreadType
  BY DEF IInv, ThreadInv
<1>2. m \in ThreadType /\ m.pc = pc /\ m.x = thread[t].x /\ m.gen = thread[t].gen
  BY <1>1 DEF ThreadType
<1>3. thread' = [thread EXCEPT ![t] = m]
  BY DEF Goes, IInv, ThreadInv
<1> HIDE DEF m
<1>4. Fits(t, m)
  BY <1>2 DEF IInv, ThreadInv, Fits
<1>5. t = "poller" /\ lock = "poller" => m.x.what = "tap"
  BY <1>2, LocalStep DEF IInv, LockInv, Publishes, Pc, Taps
<1> QED BY <1>2, <1>3, <1>4, <1>5, MoveStep

(* A thread is done, and leaves the lock if it has it.                      *)
LEMMA RestsStep ==
  ASSUME IInv, NEW t \in Askers, thread[t].pc \notin DOMAIN Then, ~ boot, UNCHANGED <<boot, buf, file, shown, pending, other, sessions>>,
         WorldInv', thread' = [thread EXCEPT ![t] = Idle],
         lock' = (IF lock = t THEN "free" ELSE lock) \/ (lock' = lock /\ (t = "poller" => lock # "poller")),
         worker' = worker \/ LaunchedWell, lapse \subseteq lapse', thread[t].pc \notin Dirty \/ pending = NoQ
  PROVE  Kept /\ Steps(t)
<1>1. t \in Local /\ Idle \in ThreadType /\ Fits(t, Idle) /\ Idle.gen = 0
  BY IdleType, IdleFits DEF Askers, Local, Threads
<1>2. pending \in Question /\ Whole(pending)
  BY DEF IInv, QuestionInv, Sound
<1>3. lock' = lock \/ (lock = t /\ lock' = "free")
  OBVIOUS
<1>4. ~ (lock' = "poller" /\ t = "poller")
  OBVIOUS
<1> QED BY <1>1, <1>2, <1>3, <1>4, MoveStep

---------------------------------------------------------------------------
(* Offering *)

LEMMA AtPlace ==
  ASSUME IInv, NEW t \in Askers, NEW pc, At(t, pc)
  PROVE  /\ t \in Local /\ t # "peer" /\ thread[t] \in ThreadType /\ thread[t].pc = pc /\ ~ boot
         /\ pending \in Question /\ Whole(pending) /\ Fits(t, thread[t])
         /\ Len(shown) \in Nat
BY LenProperties DEF IInv, ThreadInv, WorldInv, QuestionInv, Sound, Askers, Local, Threads, At

LEMMA PrepareStep ==
  ASSUME IInv, NEW t \in Askers, Prepare(t)
  PROVE  Kept /\ Steps(t)
<1> DEFINE q == [state |-> "prepared", kind |-> thread[t].kind, gen |-> thread[t].gen, mid |-> 0]
<1>1. At(t, "offer") /\ Mine(t) /\ pending' = q /\ Goes(t, "prepared") /\ lapse' \in {lapse, lapse \cup {"overwritten"}}
      /\ UNCHANGED <<sessions, entry, updates, cf, lock, other, file, buf, boot, shown, accepted, worker>>
  BY DEF Prepare, Changes, Goes, Overwrites
<1>2. q \in Question /\ q.mid = 0 /\ q # NoQ /\ Whole(q)
  BY <1>1, AtPlace DEF Question, ThreadType, ReviveKinds, NoQ, Whole
<1> HIDE DEF q
<1>3. WorldInv'
  BY <1>1 DEF IInv, WorldInv, Lapses
<1> QED BY <1>1, <1>2, <1>3, AtPlace, GoesOn, ThenDomain DEF Mine, Dirty, Places, SweepPlaces, TapPlaces, Fits, Answered

LEMMA SendOfferStep ==
  ASSUME IInv, NEW t \in Askers, SendOffer(t)
  PROVE  Kept /\ Steps(t)
<1>1. At(t, "send") /\ lock = "free"
      /\ UNCHANGED <<sessions, entry, updates, cf, accepted, lock, worker, lapse, other, file, buf, boot>>
  BY DEF SendOffer, Rest
<1>2. pending \in Question
  BY <1>1, AtPlace
<1>3. PICK q, pc : /\ pending' = q /\ Goes(t, pc) /\ pc \in {"arm", "drop"} /\ (Show \/ UNCHANGED shown)
                   /\ q = pending \/ (q = [pending EXCEPT !.mid = NewMid] /\ Show /\ pending # NoQ)
  BY <1>1 DEF SendOffer
<1>4. Len(shown') \in Nat /\ WorldInv'
  BY <1>1, <1>2, <1>3, ShowStep DEF IInv, WorldInv
<1>5. q \in Question /\ Whole(q) /\ q.mid \in {0, pending.mid, Len(shown')}
  <2>1. CASE q = pending
    BY <1>1, <2>1, AtPlace
  <2>2. CASE q = [pending EXCEPT !.mid = NewMid] /\ Show /\ pending # NoQ
    <3>1. NewMid \in Nat /\ NewMid \in {0, Len(shown')} /\ (pending.kind = "fresh" => NewMid = 0)
      BY <1>2, <1>4, <2>2, ShowStep DEF NewMid, IInv
    <3> HIDE DEF NewMid
    <3>2. pending # NoQ /\ Whole(pending)
      BY <1>1, <2>2, AtPlace
    <3> QED BY <1>2, <2>2, <3>1, <3>2 DEF Question, Whole
  <2> QED BY <1>3, <2>1, <2>2
<1>6. pending # NoQ => q # NoQ
  <2>1. pending # NoQ => pending.state # "none"
    BY <1>1, AtPlace DEF Whole
  <2>2. q.state = pending.state
    BY <1>2, <1>3 DEF Question
  <2> QED BY <2>1, <2>2 DEF NoQ
<1> QED BY <1>1, <1>3, <1>4, <1>5, <1>6, AtPlace, GoesOn, ThenDomain DEF Dirty, Places, SweepPlaces, TapPlaces, Fits, Answered

LEMMA NoQuestion == NoQ \in Question /\ Whole(NoQ) /\ NoQ.mid = 0
BY IdleType DEF Whole, NoQ

LEMMA UndeliverableStep ==
  ASSUME IInv, NEW t \in Askers, Undeliverable(t)
  PROVE  Kept /\ Steps(t)
<1>1. /\ At(t, "drop") /\ Mine(t) /\ pending' = NoQ /\ Goes(t, "dropped") /\ lapse' = lapse \cup {"dropped"}
      /\ UNCHANGED <<sessions, entry, updates, cf, lock, other, file, buf, boot, shown, accepted, worker>>
  BY DEF Undeliverable, Changes, Goes
<1>2. WorldInv'
  BY <1>1 DEF IInv, WorldInv, Lapses
<1> QED BY <1>1, <1>2, NoQuestion, AtPlace, GoesOn, ThenDomain DEF Mine, Places, SweepPlaces, TapPlaces, Fits, Answered

LEMMA ArmStep ==
  ASSUME IInv, NEW t \in Askers, Arm(t)
  PROVE  Kept /\ Steps(t)
<1>1. At(t, "arm") /\ Mine(t) /\ UNCHANGED <<setup, shown, accepted, worker, lapse>>
  BY DEF Arm
<1>2. CASE pending = NoQ
  <2>1. Done(t) /\ UNCHANGED <<sessions, entry, updates, cf, pending, other, file, buf, boot>>
    BY <1>2 DEF Arm, Rest
  <2>2. WorldInv'
    BY <1>1, <2>1 DEF IInv, WorldInv, Done
  <2>3. thread' = [thread EXCEPT ![t] = Idle] /\ lock' = (IF lock = t THEN "free" ELSE lock)
    BY <2>1 DEF Done
  <2>4. ~ boot /\ thread[t].pc \notin DOMAIN Then /\ lapse \subseteq lapse'
    BY <1>1, AtPlace, ThenDomain
  <2> QED BY <1>1, <1>2, <2>1, <2>2, <2>3, <2>4, RestsStep
<1>3. CASE pending # NoQ
  <2> DEFINE q == [pending EXCEPT !.state = "delivered"]
  <2>1. /\ pending' = q /\ Goes(t, "armed")
        /\ UNCHANGED <<sessions, entry, updates, cf, lock, other, file, buf, boot>>
    BY <1>3 DEF Arm, Changes, Goes
  <2>2. q \in Question /\ Whole(q) /\ q.mid = pending.mid
    BY <1>1, AtPlace DEF Question, Whole
  <2> HIDE DEF q
  <2>3. WorldInv'
    BY <1>1, <2>1 DEF IInv, WorldInv
  <2> QED BY <1>1, <2>1, <2>2, <2>3, AtPlace, GoesOn, ThenDomain DEF Mine, Places, SweepPlaces, TapPlaces, Fits, Answered
<1> QED BY <1>2, <1>3

(* A dead session is asked about, from where a thread is.                   *)
LEMMA OffersStep ==
  ASSUME IInv, NEW t \in Askers, NEW pc \in {"idle", "inbox"}, At(t, pc), Offers(t),
         UNCHANGED <<world, question, worker, lapse, other, file, buf, boot>>
  PROVE  Kept /\ Steps(t)
<1> DEFINE m == [thread[t] EXCEPT !.pc = "offer", !.gen = entry.gen, !.kind = Kind]
<1>1. thread[t] \in ThreadType /\ Fits(t, thread[t])
  BY AtPlace
<1>2. /\ m \in ThreadType /\ m.pc = "offer" /\ m.x = thread[t].x /\ m.gen = entry.gen
  BY <1>1, EntryType DEF ThreadType, Places, SweepPlaces
<1>3. thread' = [thread EXCEPT ![t] = m]
  <2>1. DOMAIN thread = Local
    BY DEF IInv, ThreadInv
  <2>2. thread'[t] = m
    BY <2>1, AtPlace DEF Offers
  <2>3. \A u \in Local : u # t => thread'[u] = thread[u]
    BY <2>1 DEF Offers
  <2>4. DOMAIN thread' = Local /\ thread' = [u \in Local |-> thread'[u]]
    BY <2>1 DEF Offers
  <2> HIDE DEF m
  <2> QED BY <2>1, <2>2, <2>3, <2>4
<1> HIDE DEF m
<1>4. m.x.what # "tap"
  BY <1>1, <1>2, IdleType DEF Fits, TapPlaces, At, NoUpdate
<1>5. Fits(t, m)
  BY <1>2, <1>4, AtPlace DEF Fits, SweepPlaces, Answered
<1>6. ~ (lock = "poller" /\ t = "poller")
  BY <1>2, <1>4, AtPlace, ThenDomain DEF IInv, LockInv, Publishes, Pc, Taps
<1>7. WorldInv'
  BY DEF IInv, WorldInv, world, question
<1> QED BY <1>2, <1>3, <1>5, <1>6, <1>7, AtPlace, MoveStep, ThenDomain DEF world, question, Dirty

LEMMA SweepStep ==
  ASSUME IInv, SweepOffers \/ SweepForgets
  PROVE  Kept /\ Steps("sweep")
<1>1. CASE SweepOffers
  BY <1>1, OffersStep DEF SweepOffers, Askers, Rest
<1>2. CASE SweepForgets
  <2>1. /\ At("sweep", "idle") /\ Mine("sweep") /\ pending' = NoQ /\ Goes("sweep", "dropped")
        /\ lapse' = lapse \cup {"dropped"}
        /\ UNCHANGED <<sessions, entry, updates, cf, lock, other, file, buf, boot, shown, accepted, worker>>
    BY <1>2 DEF SweepForgets, Changes, Goes
  <2>2. WorldInv'
    BY <2>1 DEF IInv, WorldInv, Lapses
  <2>3. "sweep" \in Askers
    BY DEF Askers
  <2> QED BY <2>1, <2>2, <2>3, NoQuestion, AtPlace, GoesOn, ThenDomain DEF Mine, Places, SweepPlaces, TapPlaces, Fits, Answered
<1> QED BY <1>1, <1>2

LEMMA PeerStep ==
  ASSUME IInv, PeerChanges
  PROVE  Kept /\ Steps("peer")
<1>1. /\ thread["peer"].pc = "idle" /\ ~ boot /\ lock = "free" /\ other' = other + 1 /\ Goes("peer", "other")
      /\ UNCHANGED <<sessions, entry, updates, cf, shown, accepted, pending, lock, file, buf, worker, boot, lapse>>
  BY DEF PeerChanges, At, world, question
<1>2. WorldInv'
  BY <1>1 DEF IInv, WorldInv
<1>3. "peer" \in Local /\ pending \in Question /\ Whole(pending)
  BY DEF IInv, QuestionInv, Sound, Local, Threads, Askers
<1>4. thread["peer"].x.what # "tap"
  BY <1>3 DEF IInv, ThreadInv, Fits
<1> QED BY <1>1, <1>2, <1>3, <1>4, GoesOn, ThenDomain DEF Places, SweepPlaces, TapPlaces, Dirty, Answered

---------------------------------------------------------------------------
(* Taking the owner's updates *)

(* A step outside the question: nothing here moves.                         *)
LEMMA StillStep ==
  ASSUME IInv, WorldInv', Len(sessions) <= Len(sessions'), UNCHANGED <<thread, worker, pending, other, file, buf, lock, boot, lapse, shown>>
  PROVE  IInv'
<1>1. ThreadInv' /\ BootInv'
  BY DEF IInv, ThreadInv, BootInv
<1>2. QuestionInv'
  BY QuestionStays DEF IInv
<1>3. BufInv' /\ LockInv'
  BY DEF IInv, BufInv, LockInv, Publishes, Pc, Taps
<1>4. Sync'
  BY DEF IInv, Sync, Publishes, Pc
<1>5. GenInv'
  BY DEF IInv, WorldInv, GenInv
<1> QED BY <1>1, <1>2, <1>3, <1>4, <1>5 DEF IInv

LEMMA StepsIInv ==
  ASSUME IInv, NEW t \in Threads, Kept /\ Steps(t)
  PROVE  IInv'
BY StepsKeep DEF IInv, Kept

LEMMA TakesUpdate ==
  ASSUME IInv, Takes, UNCHANGED <<sessions, entry, shown, accepted, boot, lapse>>, cf' \in BOOLEAN,
         lock' \in {"free"} \cup Threads
  PROVE  WorldInv' /\ Next1 \in UpdateType /\ thread["poller"] = Idle /\ ~ boot
<1>1. updates \in Seq(UpdateType) /\ updates # <<>> /\ updates' = Tail(updates)
  BY DEF IInv, WorldInv, Takes
<1>2. Head(updates) \in UpdateType /\ Tail(updates) \in Seq(UpdateType)
  BY <1>1, HeadTailProperties
<1>3. WorldInv'
  BY <1>1, <1>2 DEF IInv, WorldInv
<1>4. thread["poller"] = Idle
  BY DEF IInv, ThreadInv, Fits, Takes, At, Local, Threads, Askers
<1> QED BY <1>2, <1>3, <1>4 DEF Next1, Takes, At

(* The poller has an update in hand.                                        *)
LEMMA InHandStep ==
  ASSUME IInv, Takes, UNCHANGED <<sessions, entry, shown, accepted, pending, worker, lapse, other, file, buf, boot>>, cf' \in BOOLEAN,
         NEW m, thread' = [thread EXCEPT !["poller"] = m], Next1 \in UpdateType => m \in ThreadType,
         NEW pc \in {"check", "early", "offer"}, m.pc = pc, m.x = Next1, m.gen \in {0, entry.gen},
         Next1.what = "tap" => pc = "check",
         \/ lock' = lock
         \/ lock = "free" /\ lock' = "poller" /\ Next1.what = "tap"
  PROVE  IInv'
<1>1. WorldInv' /\ Next1 \in UpdateType /\ thread["poller"] = Idle /\ ~ boot
  BY TakesUpdate DEF IInv, WorldInv, Threads, Askers
<1>2. m \in ThreadType
  BY <1>1
<1>4. Fits("poller", m)
  BY <1>2 DEF Fits, TapPlaces, Answered
<1>5. lock # "poller"
  BY <1>1, IdleType, ThenDomain DEF IInv, LockInv, Publishes, Pc, Taps, NoUpdate
<1>6. pending \in Question /\ Whole(pending) /\ "poller" \in Local /\ "poller" \in Threads
  BY DEF IInv, QuestionInv, Sound, Local, Threads, Askers
<1>7. thread["poller"].pc \notin DOMAIN Then /\ thread["poller"].pc \notin Dirty
  BY <1>1, IdleType, ThenDomain DEF Dirty
<1>8. Kept /\ Steps("poller")
  BY <1>1, <1>2, <1>4, <1>5, <1>6, <1>7, MoveStep
<1> QED BY <1>6, <1>8, StepsIInv

LEMMA TakeReopenStep ==
  ASSUME IInv, TakeReopen
  PROVE  IInv'
<1>1. /\ Takes /\ Next1.what = "reopen"
      /\ UNCHANGED <<sessions, entry, cf, shown, accepted, pending, lock, worker, lapse, other, file, buf, boot>>
  BY DEF TakeReopen, Rest, question
<1>2. cf' \in BOOLEAN /\ lock' \in {"free"} \cup Threads
  BY <1>1 DEF IInv, WorldInv
<1>3. CASE UNCHANGED thread
  BY <1>1, <1>2, <1>3, TakesUpdate, StillStep
<1>4. CASE thread' = [thread EXCEPT !["poller"] = [Idle EXCEPT !.pc = "offer", !.x = Next1,
                                                   !.gen = entry.gen, !.kind = Kind]]
  <2> DEFINE m == [Idle EXCEPT !.pc = "offer", !.x = Next1, !.gen = entry.gen, !.kind = Kind]
  <2>1. m.pc = "offer" /\ m.x = Next1 /\ m.gen = entry.gen /\ (Next1 \in UpdateType => m \in ThreadType)
    BY EntryType DEF Idle, ThreadType, Places, SweepPlaces
  <2> HIDE DEF m
  <2>2. thread' = [thread EXCEPT !["poller"] = m]
    BY <1>4 DEF m
  <2> QED BY <1>1, <1>2, <2>1, <2>2, InHandStep
<1> QED BY <1>3, <1>4 DEF TakeReopen

LEMMA WithStep ==
  ASSUME NEW pc \in {"check", "early"}, With(pc)
  PROVE  \E m : /\ thread' = [thread EXCEPT !["poller"] = m] /\ m.pc = pc /\ m.x = Next1 /\ m.gen = 0
                /\ Next1 \in UpdateType => m \in ThreadType
<1> DEFINE m == [Idle EXCEPT !.x = Next1, !.pc = pc]
<1>1. m.pc = pc /\ m.x = Next1 /\ m.gen = 0 /\ (Next1 \in UpdateType => m \in ThreadType)
  <2>1. pc \in Places /\ 0 \in 0..MaxGen
    BY ReopenAssumption DEF Places, TapPlaces
  <2> QED BY <2>1 DEF Idle, ThreadType, ReviveKinds
<1>2. thread' = [thread EXCEPT !["poller"] = m]
  BY DEF With
<1> HIDE DEF m
<1> QED BY <1>1, <1>2

LEMMA TakeTapStep ==
  ASSUME IInv, TakeTap
  PROVE  IInv'
<1>1. /\ Takes /\ Next1.what = "tap" /\ lock = "free"
      /\ UNCHANGED <<sessions, entry, cf, shown, accepted, pending, worker, lapse, other, file, buf, boot>>
  BY DEF TakeTap, Rest
<1>2. cf' \in BOOLEAN /\ lock' \in {"free"} \cup Threads
  BY <1>1 DEF TakeTap, IInv, WorldInv, Threads, Askers
<1>3. CASE UNCHANGED <<thread, lock>>
  BY <1>1, <1>2, <1>3, TakesUpdate, StillStep
<1>4. CASE With("check") /\ lock' = "poller"
  <2>1. PICK m : /\ thread' = [thread EXCEPT !["poller"] = m] /\ m.pc = "check" /\ m.x = Next1 /\ m.gen = 0
                 /\ Next1 \in UpdateType => m \in ThreadType
    <3>1. "check" \in {"check", "early"} /\ With("check")
      BY <1>4
    <3> HIDE <1>4
    <3> QED BY <3>1, WithStep
  <2> QED BY <1>1, <1>2, <1>4, <2>1, InHandStep
<1> QED BY <1>3, <1>4 DEF TakeTap

LEMMA TakeTextStep ==
  ASSUME IInv, TakeText
  PROVE  IInv'
<1>1. /\ Takes /\ Next1.what # "tap" /\ lock = "free" /\ lock' = lock
      /\ UNCHANGED <<sessions, entry, shown, accepted, pending, worker, lapse, other, file, buf, boot>>
  BY DEF TakeText, Rest, question
<1>2. cf' \in BOOLEAN /\ lock' \in {"free"} \cup Threads
  BY <1>1 DEF TakeText, IInv, WorldInv
<1>3. CASE UNCHANGED thread
  BY <1>1, <1>2, <1>3, TakesUpdate, StillStep
<1>4. CASE With(IF pending = NoQ THEN "early" ELSE "check")
  <2>1. PICK pc \in {"early", "check"} : With(pc)
    BY <1>4
  <2>2. PICK m : /\ thread' = [thread EXCEPT !["poller"] = m] /\ m.pc = pc /\ m.x = Next1 /\ m.gen = 0
                 /\ Next1 \in UpdateType => m \in ThreadType
    BY <2>1, WithStep
  <2> QED BY <1>1, <1>2, <2>2, InHandStep
<1> QED BY <1>3, <1>4 DEF TakeText

---------------------------------------------------------------------------
(* Answering *)

(* The poller goes on with its update, and with what it has read for it.    *)
LEMMA ReadsStep ==
  ASSUME IInv, NEW from, At("poller", from), from \notin DOMAIN Then \cup Dirty,
         UNCHANGED <<world, worker, lapse, lock, other, file, buf, boot>>,
         NEW m, thread' = [u \in Local |-> thread'[u]], thread'["poller"] = m,
         \A u \in Local : u # "poller" => thread'[u] = thread[u],
         m \in ThreadType, m.pc # "idle", m.x = thread["poller"].x, m.x.what = "tap" => m.pc \in TapPlaces,
         m.pc \in Answered => m.gen # 0, m.gen \in {thread["poller"].gen, entry.gen}, pending' = pending \/ (pending' = NoQ /\ Mine("poller")),
         pending' = pending \/ (m.pc \in DOMAIN Then /\ m.pc # "prepared")
  PROVE  IInv'
<1>1. "poller" \in Local /\ "poller" \in Threads /\ thread["poller"].pc = from /\ ~ boot /\ pending \in Question /\ Whole(pending)
  BY AtPlace DEF Askers, Threads, Local
<1>2. Fits("poller", m)
  BY DEF Fits
<1>3. thread' = [thread EXCEPT !["poller"] = m]
  <2>1. DOMAIN thread = Local
    BY DEF IInv, ThreadInv
  <2> QED BY <1>1, <2>1 DEF IInv, ThreadInv
<1>4. WorldInv'
  BY DEF IInv, WorldInv, world
<1>5. lock = "poller" => m.x.what = "tap"
  BY <1>1, LocalStep DEF IInv, LockInv, Publishes, Pc, Taps
<1>6. Kept /\ Steps("poller")
  <2>1. CASE pending' = pending
    BY <1>1, <1>2, <1>3, <1>4, <1>5, <2>1, MoveStep DEF world
  <2>2. CASE pending' = NoQ /\ pending' # pending
    BY <1>1, <1>2, <1>3, <1>4, <1>5, <2>2, NoQuestion, MoveStep DEF world, Mine
  <2> QED BY <2>1, <2>2
<1> QED BY <1>1, <1>6, StepsIInv

(* The poller goes on or is done, and leaves memory as it is.               *)
LEMMA PlainStep ==
  ASSUME IInv, NEW from \in Places \ {"idle"}, At("poller", from), from \notin DOMAIN Then \cup Dirty,
         UNCHANGED <<sessions, entry, updates, cf, shown, accepted, pending, worker, lapse, other, file, buf, boot>>,
         \/ Done("poller")
         \/ UNCHANGED lock /\ \E pc \in {"early", "inbox"} : Goes("poller", pc) /\ ~ Taps
  PROVE  IInv'
<1>1. "poller" \in Askers /\ "poller" \in Threads /\ "poller" \in Local /\ thread["poller"].pc = from /\ ~ boot
      /\ pending \in Question /\ Whole(pending)
  BY AtPlace DEF Askers, Threads, Local
<1>2. CASE Done("poller")
  <2>1. WorldInv' /\ lock' = (IF lock = "poller" THEN "free" ELSE lock) /\ thread' = [thread EXCEPT !["poller"] = Idle]
    BY <1>2 DEF IInv, WorldInv, Done
  <2> QED BY <1>1, <2>1, RestsStep, StepsIInv
<1>3. CASE UNCHANGED lock /\ \E pc \in {"early", "inbox"} : Goes("poller", pc) /\ ~ Taps
  <2>1. PICK pc \in {"early", "inbox"} : Goes("poller", pc) /\ ~ Taps
    BY <1>3
  <2>2. WorldInv'
    BY <1>3 DEF IInv, WorldInv
  <2>3. pc \in Places \ {"idle"} /\ thread["poller"].x.what # "tap"
    BY <2>1 DEF Places, Taps
  <2>4. Kept /\ Steps("poller")
    BY <1>1, <1>3, <2>1, <2>2, <2>3, GoesOn DEF Answered
  <2> QED BY <1>1, <2>4, StepsIInv
<1> QED BY <1>2, <1>3

LEMMA CheckStep ==
  ASSUME IInv, Check
  PROVE  IInv'
<1> DEFINE m == [thread["poller"] EXCEPT !.pc = "answer", !.gen = entry.gen, !.kind = Kind]
<1>1. /\ At("poller", "check") /\ UNCHANGED <<world, pending, lock, worker, lapse, other, file, buf, boot>>
      /\ thread' = [thread EXCEPT !["poller"].pc = "answer", !["poller"].gen = entry.gen,
                                  !["poller"].kind = Kind]
  BY DEF Check, Rest, question
<1>2. thread["poller"] \in ThreadType /\ "poller" \in Local /\ DOMAIN thread = Local
  BY DEF IInv, ThreadInv, Local, Threads, Askers
<1>3. m \in ThreadType /\ m.pc = "answer" /\ m.x = thread["poller"].x /\ m.gen # 0 /\ m.gen = entry.gen
  <2>1. entry.gen # 0
    BY ReopenAssumption DEF IInv, WorldInv
  <2> QED BY <1>2, <2>1, EntryType DEF ThreadType, Places, TapPlaces
<1>4. thread'["poller"] = m /\ thread' = [u \in Local |-> thread'[u]] /\ \A u \in Local : u # "poller" => thread'[u] = thread[u]
  BY <1>1, <1>2
<1> HIDE DEF m
<1> QED BY <1>1, <1>3, <1>4, ReadsStep, ThenDomain DEF Dirty, TapPlaces, Answered

LEMMA CheckUnanswerableStep ==
  ASSUME IInv, CheckUnanswerable
  PROVE  IInv'
BY PlainStep, ThenDomain DEF CheckUnanswerable, Rest, world, Moves, Dirty, Places, TapPlaces

LEMMA CheckStaleStep ==
  ASSUME IInv, CheckStale
  PROVE  IInv'
<1> DEFINE m == [thread["poller"] EXCEPT !.pc = "forgot", !.kind = pending.kind]
<1>1. /\ At("poller", "check") /\ UNCHANGED <<world, lock, worker, lapse, other, file, buf, boot>>
      /\ thread' = [thread EXCEPT !["poller"].pc = "forgot", !["poller"].kind = pending.kind]
      /\ pending' = NoQ /\ Mine("poller")
  BY DEF CheckStale, Rest, world
<1>2. thread["poller"] \in ThreadType /\ "poller" \in Local /\ DOMAIN thread = Local /\ pending.kind \in ReviveKinds
  BY DEF IInv, ThreadInv, Local, Threads, Askers, QuestionInv, Sound, Question, ReviveKinds
<1>3. m \in ThreadType /\ m.pc = "forgot" /\ m.x = thread["poller"].x /\ m.gen = thread["poller"].gen
  BY <1>2 DEF ThreadType, Places, TapPlaces
<1>4. thread'["poller"] = m /\ thread' = [u \in Local |-> thread'[u]] /\ \A u \in Local : u # "poller" => thread'[u] = thread[u]
  BY <1>1, <1>2
<1> HIDE DEF m
<1> QED BY <1>1, <1>3, <1>4, ReadsStep, ThenDomain DEF Dirty, TapPlaces, Answered

LEMMA AskAgainStep ==
  ASSUME IInv, AskAgain
  PROVE  IInv'
<1>1. /\ At("poller", "check") /\ pending.state = "delivered" /\ Mine("poller") /\ ~ Taps
      /\ UNCHANGED <<sessions, entry, updates, cf, accepted, lock, worker, lapse, other, file, buf, boot>>
  BY DEF AskAgain, Rest, Answers, Taps
<1>2. /\ "poller" \in Local /\ "poller" \in Threads /\ thread["poller"].pc = "check" /\ ~ boot /\ pending \in Question
      /\ Whole(pending) /\ thread["poller"].x.what # "tap"
  BY <1>1, AtPlace DEF Askers, Threads, Local, Taps
<1>3. PICK q, pc : /\ pending' = q /\ Goes("poller", pc) /\ pc \in {"early", "reasked"} /\ (Show \/ UNCHANGED shown)
                   /\ q = pending \/ (q = [pending EXCEPT !.mid = NewMid] /\ Show)
                   /\ q = pending \/ pc = "reasked" \/ pending.kind = "fresh"
  BY DEF AskAgain
<1>4. Len(shown') \in Nat /\ WorldInv'
  BY <1>1, <1>2, <1>3, ShowStep DEF IInv, WorldInv
<1>5. /\ q \in Question /\ Whole(q) /\ q.mid \in {0, pending.mid, Len(shown')}
      /\ pending.kind = "fresh" => q = pending
  <2>1. CASE q = pending
    BY <1>2, <2>1
  <2>2. CASE q = [pending EXCEPT !.mid = NewMid] /\ Show
    <3>1. NewMid \in Nat /\ NewMid \in {0, Len(shown')} /\ (pending.kind = "fresh" => NewMid = 0)
      BY <1>2, <1>4, <2>2, ShowStep DEF NewMid, IInv
    <3> HIDE DEF NewMid
    <3>2. pending.kind = "fresh" => pending.mid = NewMid
      BY <1>2, <3>1 DEF Whole
    <3>3. pending.kind = "fresh" => q = pending
      BY <1>2, <2>2, <3>2 DEF Question
    <3>4. q \in Question /\ q.mid = NewMid /\ q.state = "delivered" /\ q.kind = pending.kind
      BY <1>1, <1>2, <2>2, <3>1 DEF Question
    <3> QED BY <3>1, <3>3, <3>4 DEF Whole
  <2> QED BY <1>3, <2>1, <2>2
<1>6. pc \in Places \ {"idle"}
  BY <1>3 DEF Places
<1>7. q = pending \/ (pc \in DOMAIN Then /\ pc # "prepared")
  BY <1>3, <1>5, ThenDomain
<1>8. thread["poller"].pc \notin DOMAIN Then \cup Dirty
  BY <1>2, ThenDomain DEF Dirty
<1>9. Kept /\ Steps("poller")
  BY <1>1, <1>2, <1>3, <1>4, <1>5, <1>6, <1>7, <1>8, GoesOn DEF Mine, Answered
<1> QED BY <1>2, <1>9, StepsIInv

LEMMA ForgottenStep ==
  ASSUME IInv, Forgotten
  PROVE  IInv'
BY PlainStep, ThenDomain DEF Forgotten, Rest, world, Moves, Dirty, Places, TapPlaces

LEMMA TakeAnswerStep ==
  ASSUME IInv, TakeAnswer
  PROVE  IInv'
<1>1. At("poller", "answer") /\ Mine("poller") /\ UNCHANGED <<shown, worker, lapse>>
  BY DEF TakeAnswer
<1>2. /\ "poller" \in Local /\ "poller" \in Threads /\ thread["poller"].pc = "answer" /\ ~ boot /\ pending \in Question
      /\ Whole(pending) /\ thread["poller"].gen # 0
  BY <1>1, AtPlace DEF Askers, Threads, Local, Fits, Answered
<1>3. CASE pending = NoQ
  <2>1. Done("poller") \/ (Goes("poller", "early") /\ UNCHANGED lock /\ ~ Taps)
    BY <1>3 DEF TakeAnswer, Moves
  <2>2. UNCHANGED <<sessions, entry, updates, cf, pending, accepted, other, file, buf, boot>>
    BY <1>3 DEF TakeAnswer, Rest
  <2> QED BY <1>1, <2>1, <2>2, PlainStep, ThenDomain DEF Dirty, Places, TapPlaces
<1>4. CASE pending # NoQ
  <2> DEFINE q == [pending EXCEPT !.state = "reviving"]
  <2>1. /\ pending' = q /\ Goes("poller", "reviving") /\ accepted' = accepted + 1
        /\ UNCHANGED <<sessions, entry, updates, cf, lock, other, file, buf, boot>>
    BY <1>4 DEF TakeAnswer, Changes, Goes
  <2>2. q \in Question /\ q.mid = pending.mid /\ Whole(q)
    BY <1>2 DEF Question, Whole
  <2> HIDE DEF q
  <2>3. WorldInv'
    BY <1>1, <2>1 DEF IInv, WorldInv
  <2>4. Kept /\ Steps("poller")
    BY <1>1, <1>2, <2>1, <2>2, <2>3, GoesOn, ThenDomain DEF Mine, Places, TapPlaces
  <2> QED BY <1>2, <2>4, StepsIInv
<1> QED BY <1>3, <1>4

LEMMA RestoredIs ==
  ASSUME NEW gen \in 0..MaxGen, pending \in Question, Whole(pending)
  PROVE  /\ Restored(gen) \in Question /\ Whole(Restored(gen)) /\ Restored(gen).mid = pending.mid
         /\ pending.state = "delivered" => Restored(gen) = pending
<1> DEFINE one == [pending EXCEPT !.state = "delivered"]
           q == [one EXCEPT !.gen = gen]
<1>1. one \in Question /\ one.mid = pending.mid /\ one.kind = pending.kind /\ one.state = "delivered"
  BY DEF Question
<1> HIDE DEF one
<1>2. q \in Question /\ q.mid = pending.mid /\ q.kind = pending.kind /\ q.state = "delivered"
  BY <1>1 DEF Question
<1>3. Rearmed(gen) = q
  BY DEF Rearmed, one
<1> HIDE DEF q
<1> QED BY <1>2, <1>3 DEF Restored, Whole

(* The revive worker is started.                                            *)
LEMMA LaunchType ==
  ASSUME NEW x \in UpdateType, NEW gen \in 0..MaxGen, gen # 0, NEW kind \in ReviveKinds, Launches(x, gen, kind)
  PROVE  worker' \in WorkerType /\ worker'.gen # 0 /\ worker'.gen = gen /\ worker'.pc = "launch"
BY DEF Launches, WorkerType, UpdateType

LEMMA StartAnsweredStep ==
  ASSUME IInv, StartAnswered
  PROVE  IInv'
<1> DEFINE me == thread["poller"]
<1>1. At("poller", "start") /\ UNCHANGED <<sessions, entry, updates, cf, shown, accepted, lapse, other, file, buf, boot>>
  BY DEF StartAnswered, Rest, world
<1>2. /\ "poller" \in Local /\ "poller" \in Threads /\ "poller" \in Askers /\ me.pc = "start" /\ ~ boot /\ pending \in Question
      /\ Whole(pending) /\ me.gen # 0 /\ me \in ThreadType
  BY <1>1, AtPlace DEF Askers, Threads, Local, Fits, Answered
<1>3. me.gen \in 0..MaxGen /\ me.kind \in ReviveKinds /\ me.x \in UpdateType
  BY <1>2 DEF ThreadType
<1>4. me.pc \notin DOMAIN Then \cup Dirty
  BY <1>2, ThenDomain DEF Dirty
<1>5. CASE ~ Reviving /\ Launches(me.x, me.gen, me.kind) /\ Done("poller") /\ UNCHANGED pending
  <2>1. LaunchedWell
    BY <1>2, <1>3, <1>5, LaunchType DEF Reviving, LaunchedWell, IInv, GenInv
  <2>2. thread' = [thread EXCEPT !["poller"] = Idle] /\ lock' = (IF lock = "poller" THEN "free" ELSE lock)
    BY <1>5 DEF Done
  <2>3. WorldInv'
    BY <1>1, <2>2 DEF IInv, WorldInv
  <2> QED BY <1>1, <1>2, <1>4, <1>5, <2>1, <2>2, <2>3, RestsStep, StepsIInv
<1>6. CASE Mine("poller") /\ UNCHANGED worker /\ pending' = Restored(me.gen) /\ pending.state = "delivered" /\ Done("poller")
  <2>1. pending' = pending
    BY <1>2, <1>3, <1>6, RestoredIs
  <2> QED BY <1>1, <1>4, <1>6, <2>1, PlainStep, <1>2 DEF Places, TapPlaces
<1>7. CASE Mine("poller") /\ UNCHANGED worker /\ pending' = Restored(me.gen) /\ pending.state # "delivered" /\ Moves("poller", "rearmed")
  <2>1. Restored(me.gen) \in Question /\ Whole(Restored(me.gen)) /\ Restored(me.gen).mid = pending.mid
    BY <1>2, <1>3, RestoredIs
  <2>2. PICK q : q = Restored(me.gen)
    OBVIOUS
  <2>3. WorldInv' /\ UNCHANGED lock /\ Goes("poller", "rearmed")
    BY <1>1, <1>7 DEF IInv, WorldInv, Moves
  <2>4. Kept /\ Steps("poller")
    BY <1>1, <1>2, <1>4, <1>7, <2>1, <2>2, <2>3, GoesOn, ThenDomain DEF Mine, Places, TapPlaces, Answered
  <2> QED BY <1>2, <2>4, StepsIInv
<1> QED BY <1>5, <1>6, <1>7 DEF StartAnswered

LEMMA EarlyStep ==
  ASSUME IInv, Early
  PROVE  IInv'
<1> DEFINE m == [thread["poller"] EXCEPT !.pc = "authority", !.gen = entry.gen]
<1>1. At("poller", "early") /\ UNCHANGED <<world, pending, lock, worker, lapse, other, file, buf, boot>>
  BY DEF Early, Rest, question
<1>2. thread["poller"] \in ThreadType /\ "poller" \in Local /\ DOMAIN thread = Local /\ thread["poller"].x.what # "tap"
  BY <1>1, AtPlace DEF IInv, ThreadInv, Local, Threads, Askers, Fits, TapPlaces
<1>3. CASE Goes("poller", "inbox")
  BY <1>1, <1>2, <1>3, PlainStep, ThenDomain DEF world, Dirty, Places, Taps
<1>4. CASE thread' = [thread EXCEPT !["poller"].pc = "authority", !["poller"].gen = entry.gen]
  <2>1. m \in ThreadType /\ m.pc = "authority" /\ m.x = thread["poller"].x /\ m.gen = entry.gen
    BY <1>2, EntryType DEF ThreadType, Places
  <2>2. thread'["poller"] = m /\ thread' = [u \in Local |-> thread'[u]] /\ \A u \in Local : u # "poller" => thread'[u] = thread[u]
    BY <1>2, <1>4
  <2> HIDE DEF m
  <2> QED BY <1>1, <1>2, <2>1, <2>2, ReadsStep, ThenDomain DEF Dirty, Answered
<1> QED BY <1>3, <1>4 DEF Early

LEMMA TakeEarlyStep ==
  ASSUME IInv, TakeEarly
  PROVE  IInv'
<1> DEFINE one == [NoQ EXCEPT !.state = "delivered"]
           q == [one EXCEPT !.gen = thread["poller"].gen]
<1>1. /\ At("poller", "authority") /\ Mine("poller") /\ Goes("poller", "claimed")
      /\ pending' = [NoQ EXCEPT !.state = "delivered", !.gen = thread["poller"].gen]
      /\ lapse' \in {lapse, lapse \cup {"overwritten"}}
      /\ UNCHANGED <<sessions, entry, updates, cf, lock, other, file, buf, boot, shown, accepted, worker>>
  BY DEF TakeEarly, Changes, Goes, Overwrites
<1>2. /\ "poller" \in Local /\ "poller" \in Threads /\ thread["poller"].pc = "authority" /\ ~ boot /\ thread["poller"] \in ThreadType
      /\ thread["poller"].x.what # "tap"
  BY <1>1, AtPlace DEF Askers, Threads, Local, Fits, TapPlaces
<1>3. one \in Question /\ one.mid = 0 /\ one.kind = "resume" /\ one.state = "delivered"
  BY ReopenAssumption DEF NoQ, Question
<1>4. pending' = q
  BY <1>1
<1> HIDE DEF one
<1>5. q \in Question /\ q.mid = 0 /\ Whole(q)
  BY <1>2, <1>3 DEF Question, ThreadType, Whole
<1> HIDE DEF q
<1>6. WorldInv'
  BY <1>1 DEF IInv, WorldInv, Lapses
<1>7. Kept /\ Steps("poller")
  BY <1>1, <1>2, <1>4, <1>5, <1>6, GoesOn, ThenDomain DEF Mine, Places, Answered
<1> QED BY <1>2, <1>7, StepsIInv

LEMMA InboxStep ==
  ASSUME IInv, Inbox
  PROVE  IInv'
<1>1. At("poller", "inbox") /\ UNCHANGED <<sessions, entry, updates, cf, shown, accepted, pending, lapse, other, file, buf, boot>>
  BY DEF Inbox, Rest, world
<1>2. /\ "poller" \in Local /\ "poller" \in Threads /\ "poller" \in Askers /\ thread["poller"].pc = "inbox" /\ ~ boot
      /\ thread["poller"].x.what # "tap"
  BY <1>1, AtPlace DEF Askers, Threads, Local, Fits, TapPlaces
<1>3. thread["poller"].pc \notin DOMAIN Then \cup Dirty
  BY <1>2, ThenDomain DEF Dirty
<1>4. CASE Done("poller") /\ UNCHANGED worker
  BY <1>1, <1>2, <1>3, <1>4, PlainStep DEF Places
<1>5. CASE Offers("poller") /\ UNCHANGED worker /\ UNCHANGED lock
  BY <1>1, <1>2, <1>5, OffersStep, StepsIInv DEF world, question
<1>6. CASE /\ Launches(NoUpdate, entry.gen, "resume") /\ thread' = [thread EXCEPT !["poller"] = Idle]
           /\ UNCHANGED lock /\ MayOffer
  <2>1. entry.gen # 0 /\ entry.gen \in 0..MaxGen
    BY EntryType, ReopenAssumption DEF IInv, WorldInv
  <2>2. LaunchedWell
    BY <1>6, <2>1, EntryType, LaunchType, IdleType DEF MayOffer, Reviving, ReviveKinds, LaunchedWell
  <2>3. lock # "poller"
    BY <1>2, <1>3 DEF IInv, LockInv, Publishes, Pc, Taps
  <2>4. WorldInv'
    BY <1>1, <1>6 DEF IInv, WorldInv
  <2> QED BY <1>1, <1>2, <1>3, <1>6, <2>2, <2>3, <2>4, RestsStep, StepsIInv
<1> QED BY <1>4, <1>5, <1>6 DEF Inbox

---------------------------------------------------------------------------
(* The revive worker *)

LEMMA WorkerStep ==
  ASSUME IInv, worker.pc \in {"launch", "bound", "failed"}, NEW w \in WorkerType, worker' = w,
         w.pc # "off" => w.gen # 0, w.gen \in {0, worker.gen}, Len(sessions) <= Len(sessions'), WorldInv', NEW q \in Question, pending' = q, Whole(q), q.mid \in {0, pending.mid},
         q = pending \/ (lock = "free" /\ w.pc \in {"forgot", "rearmed"}),
         UNCHANGED <<lock, thread, lapse, shown, other, file, buf, boot>>
  PROVE  IInv'
<1>1. "worker" \in Threads /\ "worker" \notin Local
  BY DEF Threads, Local
<1>2. Pc("worker") = worker.pc /\ Pc("worker")' = w.pc /\ \A u \in Threads \ {"worker"} : Pc(u)' = Pc(u)
  BY DEF Pc
<1>3. ~ Publishes("worker") /\ Pc("worker") \notin Dirty
  BY <1>2, ThenDomain DEF Publishes, Dirty
<1>4. ~ boot /\ ~ boot'
  BY IdleType DEF IInv, BootInv
<1>5. w.pc \in {"forgot", "rearmed"} => Publishes("worker")' /\ Pc("worker")' # "prepared"
  BY <1>2, ThenDomain DEF Publishes
<1>6. QuestionInv'
  BY QuestionStep DEF IInv
<1>7. ThreadInv'
  BY DEF IInv, ThreadInv
<1>8. Steps("worker")
  BY <1>2, <1>3, <1>4, <1>5 DEF Steps
<1>9. GenInv'
  BY DEF IInv, WorldInv, GenInv
<1> QED BY <1>1, <1>6, <1>7, <1>8, <1>9, StepsIInv DEF Kept

(* A session more in the topic.                                             *)
LEMMA NewSessionStep ==
  ASSUME WorldInv, NEW kind \in ReviveKinds, NewSession(kind)
  PROVE  /\ sessions' \in Seq(ReviveKinds) /\ Len(sessions') \in 1..MaxGen
         /\ Len(sessions) \in Nat /\ Len(sessions') = Len(sessions) + 1 /\ Len(sessions) <= Len(sessions')
         /\ entry' \in [gen : 1..Len(sessions'), ended : BOOLEAN]
<1>1. Len(sessions) \in Nat /\ Len(sessions) \in 1..MaxGen /\ MaxGen \in Nat
  BY LenProperties, ReopenAssumption DEF WorldInv
<1>2. sessions' \in Seq(ReviveKinds) /\ Len(sessions') = Len(sessions) + 1
  BY AppendProperties DEF WorldInv, NewSession
<1>3. Len(sessions') \in 1..MaxGen
  BY <1>1, <1>2 DEF NewSession
<1>4. Len(sessions) + 1 \in 1..Len(sessions')
  BY <1>1, <1>2
<1>5. entry' \in [gen : 1..Len(sessions'), ended : BOOLEAN]
  BY <1>4 DEF NewSession
<1> QED BY <1>1, <1>2, <1>3, <1>5

LEMMA WorkingStep ==
  ASSUME IInv, Working
  PROVE  IInv'
<1>1. pending \in Question /\ Whole(pending) /\ worker \in WorkerType
  BY DEF IInv, QuestionInv, Sound, ThreadInv
<1>2. CASE BindWorker
  <2> DEFINE w == [worker EXCEPT !.pc = "bound"]
  <2>1. /\ worker.pc = "launch" /\ worker' = w
        /\ NewSession("fresh") \/ (entry' = [gen |-> worker.gen, ended |-> FALSE] /\ UNCHANGED sessions)
        /\ UNCHANGED <<updates, cf, shown, accepted, pending, lock, thread, lapse, other, file, buf, boot>>
    BY <1>2 DEF BindWorker, Rest, question
  <2>2. w \in WorkerType /\ w.pc = "bound" /\ w.gen = worker.gen
    BY <1>1 DEF WorkerType
  <2> HIDE DEF w
  <2>3. worker.gen # 0 /\ worker.gen \in 0..Len(sessions) /\ Len(sessions) \in Nat
    BY <1>1, <2>1, LenProperties DEF IInv, ThreadInv, GenInv, WorldInv
  <2>4. WorldInv' /\ Len(sessions) <= Len(sessions')
    <3>1. CASE NewSession("fresh")
      BY <2>1, <3>1, NewSessionStep DEF IInv, WorldInv, ReviveKinds
    <3>2. CASE entry' = [gen |-> worker.gen, ended |-> FALSE] /\ UNCHANGED sessions
      <4>1. worker.gen \in 1..Len(sessions)
        BY <2>3
      <4> QED BY <2>1, <2>3, <3>2, <4>1 DEF IInv, WorldInv
    <3> QED BY <2>1, <3>1, <3>2
  <2> QED BY <1>1, <2>1, <2>2, <2>3, <2>4, WorkerStep
<1>3. CASE ReviveFails
  <2> DEFINE w == [worker EXCEPT !.pc = "failed"]
  <2>1. worker.pc = "launch" /\ worker' = w
        /\ UNCHANGED <<sessions, entry, updates, cf, shown, accepted, pending, lock, thread, lapse, other, file, buf, boot>>
    BY <1>3 DEF ReviveFails, Rest, question, world
  <2>2. w \in WorkerType /\ w.pc = "failed" /\ w.gen = worker.gen
    BY <1>1 DEF WorkerType
  <2> HIDE DEF w
  <2>3. WorldInv' /\ worker.gen # 0
    BY <2>1 DEF IInv, WorldInv, ThreadInv
  <2> QED BY <1>1, <2>1, <2>2, <2>3, WorkerStep
<1>4. CASE Rearm
  <2> DEFINE w == IF pending.state = "delivered" THEN Off ELSE [worker EXCEPT !.pc = "rearmed"]
  <2>1. /\ worker.pc = "failed" /\ lock = "free" /\ worker' = w /\ pending' = Restored(worker.gen)
        /\ UNCHANGED <<sessions, entry, updates, cf, shown, accepted, lock, thread, lapse, other, file, buf, boot>>
    BY <1>4 DEF Rearm, Rest, world
  <2>2. worker.gen # 0 /\ worker.gen \in 0..MaxGen /\ WorldInv'
    BY <1>1, <2>1 DEF IInv, ThreadInv, WorkerType, WorldInv
  <2>3. /\ Restored(worker.gen) \in Question /\ Whole(Restored(worker.gen)) /\ Restored(worker.gen).mid = pending.mid
        /\ pending.state = "delivered" => Restored(worker.gen) = pending
    BY <1>1, <2>2, RestoredIs
  <2>4. w \in WorkerType /\ (w.pc # "off" => w.gen # 0) /\ w.gen \in {0, worker.gen} /\ (pending.state # "delivered" => w.pc = "rearmed")
    BY <1>1, <2>2, IdleType DEF WorkerType
  <2> HIDE DEF w
  <2>5. PICK q : q = Restored(worker.gen)
    OBVIOUS
  <2> QED BY <2>1, <2>2, <2>3, <2>4, <2>5, WorkerStep
<1>5. CASE Forget
  <2> DEFINE w == [worker EXCEPT !.pc = "forgot"]
  <2>1. /\ worker.pc = "bound" /\ lock = "free" /\ worker' = w /\ pending' = NoQ
        /\ UNCHANGED <<sessions, entry, updates, cf, shown, accepted, lock, thread, lapse, other, file, buf, boot>>
    BY <1>5 DEF Forget, Rest, world
  <2>2. w \in WorkerType /\ w.pc = "forgot" /\ w.gen = worker.gen
    BY <1>1 DEF WorkerType
  <2> HIDE DEF w
  <2>3. WorldInv' /\ worker.gen # 0
    BY <2>1 DEF IInv, WorldInv, ThreadInv
  <2> QED BY <2>1, <2>2, <2>3, NoQuestion, WorkerStep
<1> QED BY <1>2, <1>3, <1>4, <1>5 DEF Working

---------------------------------------------------------------------------
(* Publishing *)

LEMMA SnapshotStep ==
  ASSUME IInv, NEW t \in Threads, Snapshot(t)
  PROVE  IInv'
<1>1. /\ Saving(t) /\ buf[t] = NoBuf /\ Mine(t) /\ lock' = t
      /\ buf' = [buf EXCEPT ![t] = [q |-> pending, other |-> other]]
      /\ UNCHANGED <<sessions, entry, updates, cf, shown, accepted, pending, other, file, thread, worker, boot, lapse>>
  BY DEF Snapshot, Write, world
<1>2. Publishes(t) /\ Publishes(t)' /\ ~ boot /\ \A u \in Threads : (Publishes(u)' <=> Publishes(u)) /\ Pc(u)' = Pc(u)
  BY <1>1 DEF Saving, Publishes, Pc
<1>3. ThreadInv' /\ WorldInv' /\ BootInv' /\ GenInv'
  BY <1>1, <1>2 DEF IInv, ThreadInv, WorldInv, BootInv, GenInv
<1>4. QuestionInv'
  BY <1>1, QuestionStays DEF IInv
<1>5. BufInv'
  <2>1. \A u \in Threads : buf[u] = NoBuf
    BY <1>1 DEF IInv, BufInv, Mine, Threads, Askers
  <2> QED BY <1>1, <1>2, <2>1 DEF IInv, BufInv
<1>6. LockInv'
  BY <1>1, <1>2 DEF LockInv
<1>7. Sync'
  BY <1>1, <1>2 DEF IInv, Sync, Threads, Askers
<1> QED BY <1>3, <1>4, <1>5, <1>6, <1>7 DEF IInv

(* Where a thread is once it has written.                                   *)
LEMMA ThenIs ==
  ASSUME NEW pc \in DOMAIN Then
  PROVE  Then[pc] \in {"send", "check", "start", "early", "consume", "idle"} /\ (Then[pc] = "send" <=> pc = "prepared")
         /\ (pc = "reviving" => Then[pc] = "start") /\ (pc = "forgot" => Then[pc] = "consume")
         /\ (pc \in {"armed", "dropped", "rearmed", "other"} => Then[pc] = "idle")
         /\ (Then[pc] = "start" => pc = "reviving")
BY ThenDomain DEF Then

(* A thread forgets at most what it has read.                               *)
Pace == /\ worker'.gen \in {0, worker.gen}
           /\ \A u \in Local : thread'[u].gen \in {0, thread[u].gen}

LEMMA SavedStep ==
  ASSUME IInv, NEW t \in Threads, Publishes(t), NEW ok \in BOOLEAN, Saved(t, ok)
  PROVE  /\ ThreadInv' /\ Pace /\ lapse \subseteq lapse' /\ lapse' \subseteq Lapses
         /\ ~ Publishes(t)' /\ (Pc(t) = "prepared" <=> Pc(t)' = "send")
         /\ \A u \in Threads \ {t} : Pc(u)' = Pc(u)
         /\ ok \/ t = "peer" \/ Pc(t) = "prepared" \/ lapse' \cap {"told", "untold"} # {}
<1>1. lapse \subseteq lapse' /\ lapse' \subseteq Lapses /\ (t = "peer" \/ Pc(t) = "prepared" \/ ok \/ lapse' \cap {"told", "untold"} # {})
  BY DEF IInv, WorldInv, Saved, Lapses
<1>2. CASE t = "worker"
  <2>1. worker' = Off /\ thread' = thread
    BY <1>2 DEF Saved
  <2>2. ThreadInv' /\ Pace
    BY <2>1, IdleType DEF IInv, ThreadInv, Pace
  <2>3. Pc(t) # "prepared" /\ Pc(t)' = "off"
    BY <1>2, <2>1, IdleType DEF IInv, ThreadInv, WorkerType, Pc
  <2>4. ~ Publishes(t)' /\ \A u \in Threads \ {t} : Pc(u)' = Pc(u)
    BY <1>2, <2>1, <2>3, ThenDomain DEF Publishes, Pc
  <2> QED BY <1>1, <2>2, <2>3, <2>4
<1>3. CASE t # "worker"
  <2> DEFINE pc == thread[t].pc
             one == [thread[t] EXCEPT !.pc = Then[pc]]
             m == IF Then[pc] = "idle" THEN Idle ELSE [thread[t] EXCEPT !.pc = Then[pc], !.durable = ok]
  <2>1. t \in Local /\ Pc(t) = pc /\ pc \in DOMAIN Then /\ thread[t] \in ThreadType /\ Fits(t, thread[t])
    BY <1>3 DEF IInv, ThreadInv, Local, Publishes, Pc
  <2>2. thread' = [thread EXCEPT ![t] = m] /\ worker' = worker
    BY <1>3, <2>1 DEF Saved, IInv, ThreadInv
  <2>3. Then[pc] \in Places
    BY <2>1, ThenIs DEF Places, SweepPlaces, TapPlaces
  <2>4. CASE Then[pc] = "idle"
    <3>1. m = Idle
      BY <2>4
    <3> HIDE DEF m
    <3>2. ThreadInv' /\ thread'[t] = Idle /\ \A u \in Local : u # t => thread'[u] = thread[u]
      BY <2>1, <2>2, <3>1, TakesUp, IdleType, IdleFits DEF IInv, ThreadInv
    <3>4. Pace
      BY <2>2, <3>2, IdleType DEF Pace
    <3>3. Pc(t)' = "idle" /\ \A u \in Threads \ {t} : Pc(u)' = Pc(u)
      BY <1>3, <2>1, <2>2, <3>2, IdleType DEF Pc, Local, IInv, ThreadInv
    <3> QED BY <1>1, <2>1, <2>4, <3>2, <3>3, <3>4, ThenIs, ThenDomain DEF Publishes
  <2>5. CASE Then[pc] # "idle"
    <3>1. m \in ThreadType /\ m.pc = Then[pc] /\ m.x = thread[t].x /\ m.gen = thread[t].gen
      BY <2>1, <2>3, <2>5 DEF ThreadType
    <3> HIDE DEF m
    <3>2. Fits(t, m)
      <4>1. t = "sweep" => Then[pc] \in SweepPlaces
        BY <2>1, ThenIs, ThenDomain DEF Fits, SweepPlaces
      <4>2. t # "peer"
        BY <2>1, <2>5, ThenIs, ThenDomain DEF Fits
      <4>3. thread[t].x.what = "tap" => t = "poller" /\ Then[pc] \in TapPlaces
        BY <2>1, <2>5, ThenIs, ThenDomain DEF Fits, TapPlaces
      <4>4. Then[pc] \in Answered => thread[t].gen # 0
        BY <2>1, ThenIs DEF Fits, Answered
      <4> QED BY <2>5, <3>1, <4>1, <4>2, <4>3, <4>4 DEF Fits
    <3>3. ThreadInv' /\ thread'[t] = m /\ \A u \in Local : u # t => thread'[u] = thread[u]
      BY <2>1, <2>2, <3>1, <3>2, TakesUp DEF IInv, ThreadInv
    <3>5. Pace
      BY <2>2, <3>1, <3>3 DEF Pace
    <3>4. Pc(t)' = Then[pc] /\ \A u \in Threads \ {t} : Pc(u)' = Pc(u)
      BY <1>3, <2>1, <2>2, <3>1, <3>3 DEF Pc, Local, IInv, ThreadInv
    <3> QED BY <1>1, <2>1, <3>3, <3>4, <3>5, ThenIs, ThenDomain DEF Publishes
  <2> QED BY <2>4, <2>5
<1> QED BY <1>2, <1>3

LEMMA RenameStep ==
  ASSUME IInv, NEW t \in Threads, Rename(t)
  PROVE  IInv'
<1>1. /\ Saving(t) /\ buf[t] # NoBuf /\ buf' = [buf EXCEPT ![t] = NoBuf]
      /\ UNCHANGED <<sessions, entry, updates, cf, shown, accepted, pending, other, boot>>
  BY DEF Rename, world
<1>2. lock = t /\ Publishes(t) /\ ~ boot /\ buf[t] = [q |-> pending, other |-> other]
  BY <1>1 DEF IInv, BufInv, Saving, Publishes
<1>3. PICK ok \in BOOLEAN : Saved(t, ok) /\ IF ok THEN file' = buf[t] ELSE file' = file
  BY DEF Rename
<1>4. /\ ThreadInv' /\ Pace /\ lapse \subseteq lapse' /\ lapse' \subseteq Lapses
      /\ ~ Publishes(t)' /\ (Pc(t) = "prepared" <=> Pc(t)' = "send")
      /\ \A u \in Threads \ {t} : Pc(u)' = Pc(u)
      /\ ok \/ t = "peer" \/ Pc(t) = "prepared" \/ lapse' \cap {"told", "untold"} # {}
  BY <1>2, <1>3, SavedStep
<1>5. /\ lock' = "free" \/ (lock' = "poller" /\ t = "poller" /\ Taps')
      /\ lock' \in {"free"} \cup Threads
  BY DEF Rename, Taps, Threads, Askers
<1>6. WorldInv'
  BY <1>1, <1>4, <1>5 DEF IInv, WorldInv
<1>7. BufInv' /\ LockInv' /\ BootInv'
  <2>1. \A u \in Threads : buf'[u] = NoBuf
    BY <1>1, <1>2 DEF IInv, BufInv
  <2> QED BY <1>1, <1>2, <1>5, <2>1 DEF IInv, BufInv, LockInv, BootInv
<1>8. QuestionInv'
  <2>1. CASE ok
    <3>1. file'.q = pending /\ file'.other = other /\ file' = [q |-> pending, other |-> other]
      BY <1>2, <1>3, <2>1
    <3>2. pending \in Question /\ other \in Nat /\ Sound(pending)
      BY DEF IInv, QuestionInv, Sound
    <3> QED BY <1>1, <3>1, <3>2 DEF QuestionInv, Sound
  <2>2. CASE ~ ok
    BY <1>1, <1>3, <2>2, QuestionStays DEF IInv
  <2> QED BY <2>1, <2>2
<1>9. Sync'
  <2>1. CASE ok
    BY <1>1, <1>2, <1>3, <2>1 DEF Sync
  <2>2. CASE ~ ok /\ lapse' \cap {"told", "untold"} # {}
    BY <2>2 DEF Sync
  <2>3. CASE ~ ok /\ lapse' \cap {"told", "untold"} = {}
    <3>1. t = "peer" \/ Pc(t) = "prepared"
      BY <1>4, <2>3
    <3>2. file' = file /\ pending' = pending
      BY <1>1, <1>3, <2>3
    <3>3. lapse \cap {"told", "untold"} = {}
      BY <1>4, <2>3
    <3>4. CASE file.q = pending
      BY <3>2, <3>4 DEF Sync
    <3>5. ASSUME NEW u \in Threads \ {"peer"}, Publishes(u), Pc(u) # "prepared" PROVE Sync'
      <4>1. u # t /\ Pc(u)' = Pc(u)
        BY <1>4, <3>1, <3>5
      <4>2. Publishes(u)' /\ Pc(u)' # "prepared"
        BY <3>5, <4>1, ThenDomain DEF Publishes
      <4> QED BY <3>5, <4>2 DEF Sync
    <3>6. ASSUME pending # NoQ, NEW u \in Askers, Pc(u) \in Dirty PROVE Sync'
      <4>1. Pc(u)' \in Dirty
        BY <1>2, <1>4, <3>1, <3>6 DEF Dirty, Threads, Askers
      <4> QED BY <3>2, <3>6, <4>1 DEF Sync
    <3> QED BY <3>3, <3>4, <3>5, <3>6 DEF IInv, Sync
  <2> QED BY <2>1, <2>2, <2>3
<1>10. GenInv'
  BY <1>1, <1>4, LenProperties DEF IInv, WorldInv, GenInv, Pace
<1> QED BY <1>4, <1>6, <1>7, <1>8, <1>9, <1>10 DEF IInv

---------------------------------------------------------------------------
(* A crash, the start after it, and what comes from outside *)

LEMMA CrashStep ==
  ASSUME IInv, Crash
  PROVE  IInv'
<1>1. /\ pending' = file.q /\ other' = file.other /\ lock' = "free" /\ boot' = TRUE /\ cf' = FALSE
      /\ buf' = [t \in Threads |-> NoBuf] /\ thread' = [t \in Local |-> Idle] /\ worker' = Off
      /\ UNCHANGED <<sessions, entry, file, updates, shown, accepted, lapse>>
  BY DEF Crash, Local
<1>2. ThreadInv' /\ BootInv'
  BY <1>1, IdleType, IdleFits DEF ThreadInv, BootInv
<1>3. WorldInv'
  BY <1>1 DEF IInv, WorldInv
<1>4. QuestionInv'
  BY <1>1 DEF IInv, QuestionInv, Sound
<1>5. BufInv' /\ LockInv'
  BY <1>1 DEF BufInv, LockInv
<1>6. Sync'
  BY <1>1 DEF Sync
<1>7. GenInv'
  BY <1>1, IdleType, LenProperties DEF IInv, WorldInv, GenInv
<1> QED BY <1>2, <1>3, <1>4, <1>5, <1>6, <1>7 DEF IInv

LEMMA ResendStep ==
  ASSUME IInv, Resend
  PROVE  IInv'
<1>1. /\ boot /\ boot' = FALSE /\ file' = [q |-> pending', other |-> other]
      /\ UNCHANGED <<sessions, entry, updates, cf, accepted, lock, other, buf, thread, worker>>
  BY DEF Resend
<1>2. pending \in Question /\ Whole(pending) /\ worker = Off /\ lock = "free" /\ \A t \in Local : thread[t] = Idle
  BY <1>1 DEF IInv, QuestionInv, Sound, BootInv
<1>3. PICK q : /\ pending' = q /\ (Show \/ UNCHANGED shown) /\ lapse' \in {lapse, lapse \cup {"dropped"}}
               /\ \/ q \in {pending, NoQ}
                  \/ Show /\ q = [pending EXCEPT !.state = "delivered", !.mid = NewMid]
  BY DEF Resend
<1>4. Len(shown') \in Nat /\ shown' \in Seq(Nat)
  BY <1>2, <1>3, ShowStep DEF IInv
<1>5. q \in Question /\ Whole(q) /\ q.mid \in {0, pending.mid, Len(shown')}
  <2>1. CASE q \in {pending, NoQ}
    BY <1>2, <2>1, NoQuestion
  <2>2. CASE Show /\ q = [pending EXCEPT !.state = "delivered", !.mid = NewMid]
    <3> DEFINE one == [pending EXCEPT !.state = "delivered"]
    <3>1. NewMid \in Nat /\ NewMid \in {0, Len(shown')} /\ (pending.kind = "fresh" => NewMid = 0)
      BY <1>2, <1>4, <2>2, ShowStep DEF NewMid, IInv
    <3> HIDE DEF NewMid
    <3>2. one \in Question /\ one.kind = pending.kind /\ one.state = "delivered"
      BY <1>2 DEF Question
    <3>3. q = [one EXCEPT !.mid = NewMid]
      BY <2>2
    <3> HIDE DEF one
    <3>4. q \in Question /\ q.mid = NewMid /\ q.state = "delivered" /\ q.kind = pending.kind
      BY <3>1, <3>2, <3>3 DEF Question
    <3> QED BY <3>1, <3>4 DEF Whole
  <2> QED BY <1>3, <2>1, <2>2
<1>6. WorldInv'
  BY <1>1, <1>3, <1>4 DEF IInv, WorldInv, Lapses
<1>7. ThreadInv' /\ BufInv' /\ BootInv' /\ GenInv'
  <2>1. \A u \in Threads : buf[u] = NoBuf
    BY <1>2 DEF IInv, BufInv, Threads, Askers
  <2> QED BY <1>1, <2>1 DEF IInv, ThreadInv, BufInv, BootInv, GenInv
<1>8. LockInv'
  BY <1>1, <1>2 DEF LockInv
<1>9. Sync'
  BY <1>1 DEF Sync
<1>10. QuestionInv'
  <2>1. q.mid <= Len(shown')
    <3>1. Len(shown) <= Len(shown') /\ Len(shown) \in Nat /\ pending.mid \in Nat /\ pending.mid <= Len(shown)
      BY <1>2, <1>3, ShowStep DEF IInv, QuestionInv, Sound, Question
    <3> QED BY <1>4, <1>5, <3>1
  <2>2. other \in Nat
    BY DEF IInv, QuestionInv
  <2> QED BY <1>1, <1>3, <1>5, <2>1, <2>2 DEF QuestionInv, Sound
<1> QED BY <1>6, <1>7, <1>8, <1>9, <1>10 DEF IInv

LEMMA OwnerStep ==
  ASSUME IInv, OwnerSends
  PROVE  IInv'
<1>1. UNCHANGED <<sessions, entry, cf, shown, accepted, pending, lock, thread, worker, lapse, other, file, buf, boot>>
  BY DEF OwnerSends, Rest, question
<1>2. accepted \in Nat /\ updates \in Seq(UpdateType)
  BY DEF IInv, WorldInv
<1>3. ASSUME NEW w \in {"resume", "fresh", "reopen"} PROVE [[NoUpdate EXCEPT !.what = w] EXCEPT !.seen = accepted] \in UpdateType
  BY <1>2 DEF NoUpdate, UpdateType
<1>4. ASSUME NEW m \in DOMAIN shown
      PROVE  [[NoUpdate EXCEPT !.what = "tap", !.mid = m] EXCEPT !.seen = accepted] \in UpdateType
  <2>1. m \in Nat \ {0}
    BY <1>4, LenProperties DEF IInv, WorldInv
  <2> QED BY <1>2, <2>1 DEF NoUpdate, UpdateType
<1>5. PICK x \in UpdateType : updates' = Append(updates, x)
  BY <1>3, <1>4 DEF OwnerSends, Sends
<1>6. updates' \in Seq(UpdateType)
  BY <1>2, <1>5, AppendProperties
<1>7. WorldInv'
  BY <1>1, <1>6 DEF IInv, WorldInv
<1> QED BY <1>1, <1>7, StillStep

LEMMA TopicStep ==
  ASSUME IInv, Rebind \/ Ends \/ CarryForward
  PROVE  IInv'
<1>1. UNCHANGED <<updates, shown, accepted, pending, lock, thread, worker, lapse, other, file, buf, boot>>
  BY DEF Rebind, Ends, CarryForward, Rest, question
<1>2. Len(sessions) \in Nat
  BY LenProperties DEF IInv, WorldInv
<1>3. WorldInv' /\ Len(sessions) <= Len(sessions')
  <2>1. CASE Rebind
    <3>1. NewSession("resume") /\ cf' = cf
      BY <2>1 DEF Rebind
    <3> QED BY <1>1, <3>1, NewSessionStep DEF IInv, WorldInv, ReviveKinds
  <2>2. CASE Ends
    <3>1. entry' = [entry EXCEPT !.ended = TRUE] /\ UNCHANGED <<sessions, cf>>
      BY <2>2 DEF Ends
    <3>2. entry \in [gen : 1..Len(sessions), ended : BOOLEAN]
      BY DEF IInv, WorldInv
    <3>3. entry' \in [gen : 1..Len(sessions), ended : BOOLEAN]
      BY <3>1, <3>2
    <3> QED BY <1>1, <1>2, <3>1, <3>3 DEF IInv, WorldInv
  <2>3. CASE CarryForward
    <3>1. cf' \in BOOLEAN /\ UNCHANGED <<sessions, entry>>
      BY <2>3 DEF CarryForward
    <3> QED BY <1>1, <1>2, <3>1 DEF IInv, WorldInv
  <2> QED BY <2>1, <2>2, <2>3
<1> QED BY <1>1, <1>3, StillStep

---------------------------------------------------------------------------
(* The theorems *)

LEMMA IInvInit == Init => IInv
<1> SUFFICES ASSUME Init PROVE IInv
  OBVIOUS
<1>1. PICK s \in Setups : sessions = <<s.kind>> /\ entry = [gen |-> 1, ended |-> TRUE]
  BY DEF Init
<1>2. WorldInv
  <2>1. /\ sessions \in Seq(ReviveKinds) /\ Len(sessions) = 1 /\ Len(sessions) \in 1..MaxGen
        /\ entry \in [gen : 1..Len(sessions), ended : BOOLEAN]
    <3>1. 1 \in 1..MaxGen /\ s.kind \in ReviveKinds
      BY ReopenAssumption DEF ReviveKinds
    <3> QED BY <1>1, <3>1
  <2>2. updates \in Seq(UpdateType) /\ shown \in Seq(Nat)
    BY EmptySeq DEF Init
  <2>3. cf = FALSE /\ accepted = 0 /\ boot = FALSE /\ lapse = {} /\ lock = "free"
    BY DEF Init
  <2> QED BY <2>1, <2>2, <2>3 DEF WorldInv
<1>3. ThreadInv /\ BootInv
  BY IdleType, IdleFits DEF Init, ThreadInv, BootInv, Local
<1>4. QuestionInv
  <2>1. Len(shown) = 0
    BY DEF Init
  <2> QED BY <2>1, NoQuestion DEF Init, QuestionInv, Sound, Empty
<1>6. GenInv
  <2>1. 0 \in 0..Len(sessions)
    BY <1>1
  <2> QED BY <2>1, IdleType DEF Init, GenInv, Local
<1>5. BufInv /\ LockInv /\ Sync
  BY DEF Init, BufInv, LockInv, Sync, Empty
<1> QED BY <1>2, <1>3, <1>4, <1>5, <1>6 DEF IInv

LEMMA IInvNext == IInv /\ [Next]_vars => IInv'
<1> SUFFICES ASSUME IInv, [Next]_vars PROVE IInv'
  OBVIOUS
<1>1. ASSUME NEW t \in Threads, Publishing(t) PROVE IInv'
  BY <1>1, SnapshotStep, RenameStep DEF Publishing
<1>2. ASSUME NEW t \in Askers, Offering(t) PROVE IInv'
  <2>1. t \in Threads
    BY DEF Threads
  <2> QED BY <1>2, <2>1, PrepareStep, SendOfferStep, UndeliverableStep, ArmStep, StepsIInv DEF Offering
<1>3. CASE Taking
  BY <1>3, TakeReopenStep, TakeTapStep, TakeTextStep DEF Taking
<1>4. CASE Answering
  BY <1>4, CheckStep, CheckUnanswerableStep, CheckStaleStep, AskAgainStep, ForgottenStep, TakeAnswerStep,
     StartAnsweredStep, EarlyStep, TakeEarlyStep, InboxStep DEF Answering
<1>5. CASE Outside
  <2>1. "peer" \in Threads /\ "sweep" \in Threads
    BY DEF Threads, Askers
  <2> QED BY <1>5, <2>1, PeerStep, SweepStep, StepsIInv, OwnerStep, TopicStep, CrashStep DEF Outside
<1>6. CASE UNCHANGED vars
  <2>1. WorldInv'
    BY <1>6 DEF IInv, WorldInv, vars
  <2> QED BY <1>6, <2>1, StillStep DEF vars
<1> QED BY <1>1, <1>2, <1>3, <1>4, <1>5, <1>6, WorkingStep, ResendStep DEF Next

LEMMA Invariant == Spec => []IInv
BY IInvInit, IInvNext, PTL DEF Spec

(* The record, the file and the lock are what they may be: the lock is held *)
(* by a thread that publishes or by a tap's handler, and every handler of a *)
(* tap leaves with it (daemon.py 4849-4865, 5597-5645).                     *)
THEOREM TypeCorrect == Spec => []TypeOK
<1>1. IInv => TypeOK
  <2> SUFFICES ASSUME IInv PROVE TypeOK
    OBVIOUS
  <2>1. lock # "free" => ~ boot /\ (Saving(lock) \/ (lock = "poller" /\ Taps))
    BY DEF IInv, BootInv, LockInv, Publishes, Saving
  <2>2. worker.pc \in {"off", "launch", "bound", "failed", "rearmed", "forgot"}
    BY DEF IInv, ThreadInv, WorkerType
  <2> QED BY <2>1, <2>2 DEF IInv, WorldInv, QuestionInv, Sound, TypeOK, ReviveKinds
<1> QED BY <1>1, Invariant, PTL

(* Once no thread is between its change and its write, the file of          *)
(* questions holds what memory holds, unless a write failed: whatever the   *)
(* order of the poller, the sweep, the worker and the other topics' threads *)
(* (daemon.py 5603-5645).                                                   *)
THEOREM FileFollowsMemory == Spec => []FileIsMemory
<1>1. IInv => FileIsMemory
  <2> SUFFICES ASSUME IInv, Settled PROVE file.q = pending \/ lapse \cap {"told", "untold"} # {}
    BY DEF FileIsMemory
  <2>1. ASSUME NEW t \in Threads PROVE ~ Publishes(t)
    <3>1. CASE boot
      BY <3>1, IdleType, ThenDomain DEF IInv, BootInv, Publishes, Pc, Local
    <3>2. CASE ~ boot
      BY <3>2 DEF Settled, Saving, Publishes
    <3> QED BY <3>1, <3>2
  <2>2. ASSUME NEW t \in Askers PROVE Pc(t) \notin Dirty
    <3>1. t \in Threads
      BY DEF Threads
    <3> QED BY <2>1, <3>1, ThenDomain DEF Settled, Publishes, Dirty
  <2> QED BY <2>1, <2>2 DEF IInv, Sync
<1> QED BY <1>1, Invariant, PTL

(* While a carry-forward drives a live session the owner's text halts it,   *)
(* whatever question is on record: only a question about the session that   *)
(* is dead now exempts a text (daemon.py 4623-4637, 6242-6267).             *)
THEOREM KillSwitchWorks == Spec => KillSwitchHolds
<1> DEFINE Halts == cf /\ ~entry.ended /\ updates # <<>> /\ updates' = Tail(updates)
                      /\ Head(updates).what \notin {"reopen", "tap"} => ~cf'
<1>1. IInv /\ [Next]_vars => [Halts]_vars
  <2> SUFFICES ASSUME IInv, Next, cf, ~entry.ended, updates # <<>>, updates' = Tail(updates),
                      Head(updates).what \notin {"reopen", "tap"}
               PROVE  ~cf'
    OBVIOUS
  <2>1. updates \in Seq(UpdateType) /\ Len(updates) \in Nat /\ Len(Tail(updates)) = Len(updates) - 1
    BY HeadTailProperties, LenProperties DEF IInv, WorldInv
  <2>2. updates' # updates
    <3>1. PICK n \in Nat : n = Len(updates)
      BY <2>1
    <3>2. Len(updates') = n - 1
      BY <2>1, <3>1
    <3>3. n - 1 # n
      OBVIOUS
    <3> QED BY <3>1, <3>2, <3>3
  <2>3. CASE TakeText
    <3>1. ~ StillCurrent
      BY DEF StillCurrent, Matches, Unrevivable, ShouldAutoRevive
    <3> QED BY <2>3, <3>1 DEF TakeText
  <2>4. CASE TakeReopen \/ TakeTap
    BY <2>4 DEF TakeReopen, TakeTap, Next1
  <2>5. CASE OwnerSends
    <3>1. PICK x : updates' = Append(updates, x)
      BY <2>5 DEF OwnerSends, Sends
    <3>2. Len(Append(updates, x)) = Len(updates) + 1
      BY <2>1
    <3> QED BY <2>1, <3>1, <3>2
  <2>6. ASSUME NEW t \in Threads, Publishing(t) PROVE UNCHANGED updates
    BY <2>6 DEF Publishing, Snapshot, Rename, world
  <2>7. ASSUME NEW t \in Askers, Offering(t) PROVE UNCHANGED updates
    BY <2>7 DEF Offering, Prepare, SendOffer, Undeliverable, Arm, Changes
  <2>8. ASSUME Answering PROVE UNCHANGED updates
    BY <2>8 DEF Answering, Check, CheckUnanswerable, CheckStale, AskAgain, Forgotten, TakeAnswer, StartAnswered,
       Early, TakeEarly, Inbox, Changes, world
  <2>9. ASSUME Working PROVE UNCHANGED updates
    BY <2>9 DEF Working, BindWorker, ReviveFails, Rearm, Forget, world
  <2>10. ASSUME PeerChanges \/ SweepOffers \/ SweepForgets \/ Rebind \/ Ends \/ CarryForward \/ Crash PROVE UNCHANGED updates
    BY <2>10 DEF PeerChanges, SweepOffers, SweepForgets, Rebind, Ends, CarryForward, Crash, Changes, world
  <2>11. ASSUME Resend PROVE UNCHANGED updates
    BY <2>11 DEF Resend
  <2> QED BY <2>2, <2>3, <2>4, <2>5, <2>6, <2>7, <2>8, <2>9, <2>10, <2>11 DEF Next, Taking, Outside
<1> QED BY <1>1, Invariant, PTL DEF Spec, KillSwitchHolds

---------------------------------------------------------------------------
(* Which session a question, an answer and a tap are about *)

Poller == thread["poller"]
Sweep == thread["sweep"]
Asking == {"offer", "prepared", "send"}
Up == {"launch", "bound", "failed"}
Crossed == "overwritten" \in lapse

(* What was read of the registry was read of one session. While a revive    *)
(* runs the poller does not ask, and with the answer preset nor the sweep.  *)
ReadInv ==
  /\ \A t \in Askers : thread[t].pc = "offer" => thread[t].gen # 0 /\ sessions[thread[t].gen] = thread[t].kind
  /\ Sweep.pc = "offer" => Sweep.kind = "resume"
  /\ Poller.pc = "authority" => Poller.gen # 0 /\ sessions[Poller.gen] = "resume"
  /\ Poller.pc \in Answered => sessions[Poller.gen] = Poller.kind
  /\ worker.pc # "off" => sessions[worker.gen] = worker.kind
  /\ Poller.pc \in Dirty \cup {"offer", "authority"} => worker.pc = "off"
  /\ "preset" \in DOMAIN setup /\ (setup.preset => Sweep.pc # "offer")

(* A tap is on the message of the question it answers, which no other       *)
(* thread can change, and what it revives is what the message shows.        *)
ShownAs(m, g) == m \in DOMAIN shown /\ shown[m] = g
TapInv ==
  /\ Taps /\ Poller.pc = "check" => lock = "poller" /\ Poller.x.mid = pending.mid /\ pending.mid # 0
  /\ Taps /\ Poller.pc \in Answered => ShownAs(Poller.x.mid, Poller.gen)
  /\ worker.pc # "off" /\ worker.mid # 0 => ShownAs(worker.mid, worker.gen)

(* A question says what can bring its session back, also while an answer or *)
(* a revive may give it another session.                                    *)
KindOf(q) == q.state # "none" => q.gen \in DOMAIN sessions /\ sessions[q.gen] = q.kind
FreshInv ==
  /\ Poller.pc = "answer" /\ Poller.kind = "fresh" => pending.state = "delivered"
  /\ Poller.pc \in {"reviving", "start"} /\ Poller.kind = "fresh" => pending.state = "reviving"
  /\ worker.pc \in Up /\ worker.kind = "fresh" => pending.state = "reviving" /\ Poller.pc \notin Answered
  /\ Sweep.pc \in Dirty \cup {"offer"} => /\ Kind = "resume"
                                          /\ worker.pc \in Up => worker.kind = "resume"
                                          /\ Poller.pc \in Answered => Poller.kind = "resume"
  /\ Sweep.pc \in Dirty /\ Poller.pc = "offer" /\ Poller.kind = "fresh" => pending # NoQ
KindInv ==
  /\ KindOf(pending) /\ KindOf(file.q) /\ FreshInv
  /\ Poller.pc \in Answered => pending.kind = Poller.kind
  /\ worker.pc \in Up => pending.kind = worker.kind
  /\ Sweep.pc \in Dirty => pending.kind = "resume"

(* A message may show another session than its question is about. Then that *)
(* session is not in the topic, and nobody is about to bring it back.       *)
Bringing(g) == worker.pc = "launch" /\ worker.gen = g
AnswerFor(g) == Poller.pc \in Answered /\ Poller.gen = g
Alive(g) == entry.gen = g \/ Bringing(g) \/ AnswerFor(g)
Weak(q) == q.mid # 0 /\ shown[q.mid] # q.gen => ~ Alive(q.gen)

(* The sweep asks beside an answer or a revive only if the record was gone. *)
BesideInv ==
  /\ worker.pc \in Up /\ Sweep.pc \in Asking => pending.state # "delivered" /\ Poller.pc \notin Answered
  /\ Poller.pc \in {"reviving", "start"} /\ Sweep.pc \in Asking => pending.state # "delivered"
  /\ worker.pc \in Up /\ Poller.pc \in Answered => pending.state # "prepared"
  /\ worker.pc \in Up /\ Poller.pc = "answer" => pending.state \in {"delivered", "none"}
  /\ Sweep.pc = "offer" /\ pending = NoQ /\ Poller.pc \in Answered /\ Sweep.gen # Poller.gen => entry.gen # Poller.gen
  /\ Sweep.pc = "offer" /\ pending = NoQ /\ worker.pc \in {"launch", "failed"} /\ Sweep.gen # worker.gen
       => entry.gen # worker.gen

(* Who may give the record its own session finds a record of that session,  *)
(* or one that no message will be about, or its session has left the topic. *)
Msg == pending.mid # 0 \/ Sweep.pc \in {"prepared", "send"}
GiveInv ==
  /\ Poller.pc \in Answered /\ pending.gen # Poller.gen /\ Msg
     /\ (IF Poller.pc = "answer" THEN pending.state # "none" ELSE pending.state \in {"prepared", "reviving"})
       => entry.gen # Poller.gen /\ ~ Bringing(Poller.gen)
  /\ worker.pc \in {"launch", "failed"} /\ pending.gen # worker.gen /\ Msg
     /\ (pending.state \in {"prepared", "reviving"} \/ (pending.state = "delivered" /\ Poller.pc = "answer"))
       => entry.gen # worker.gen /\ ~ AnswerFor(worker.gen)
MidInv == Weak(pending) /\ Weak(file.q) /\ BesideInv /\ GiveInv

Truth == ReadInv /\ (Crossed \/ (TapInv /\ KindInv /\ MidInv))

---------------------------------------------------------------------------
LEMMA TypesOf ==
  ASSUME IInv
  PROVE  /\ pending \in Question /\ file.q \in Question /\ Poller \in ThreadType /\ Sweep \in ThreadType
         /\ worker \in WorkerType /\ entry.gen \in DOMAIN sessions /\ entry.ended \in BOOLEAN
         /\ DOMAIN sessions = 1..Len(sessions) /\ Len(sessions) \in Nat
         /\ DOMAIN shown = 1..Len(shown) /\ Len(shown) \in Nat
         /\ pending.mid <= Len(shown) /\ file.q.mid <= Len(shown) /\ Whole(pending) /\ Whole(file.q)
         /\ Fits("poller", Poller) /\ Fits("sweep", Sweep)
         /\ Poller.gen \in 0..Len(sessions) /\ Sweep.gen \in 0..Len(sessions) /\ worker.gen \in 0..Len(sessions)
         /\ worker.pc # "off" => worker.gen # 0
         /\ "poller" \in Local /\ "sweep" \in Local /\ "poller" # "sweep" /\ Askers = {"poller", "sweep"}
         /\ DOMAIN thread = Local
<1>1. "poller" \in Local /\ "sweep" \in Local
  BY DEF Local, Threads, Askers
<1>2. entry.gen \in 1..Len(sessions) /\ entry.ended \in BOOLEAN /\ sessions \in Seq(ReviveKinds) /\ shown \in Seq(Nat)
  BY DEF IInv, WorldInv
<1>3. /\ DOMAIN sessions = 1..Len(sessions) /\ Len(sessions) \in Nat
      /\ DOMAIN shown = 1..Len(shown) /\ Len(shown) \in Nat
  BY <1>2, LenProperties
<1> QED BY <1>1, <1>2, <1>3 DEF IInv, QuestionInv, Sound, ThreadInv, GenInv, Poller, Sweep, Askers

(* No step forgets a session or a message.                                  *)
Grows == /\ \A g \in DOMAIN sessions : g \in DOMAIN sessions' /\ sessions'[g] = sessions[g]
         /\ \A m \in DOMAIN shown : m \in DOMAIN shown' /\ shown'[m] = shown[m]
         /\ lapse \subseteq lapse'
         /\ "preset" \in DOMAIN setup => "preset" \in DOMAIN setup' /\ setup'.preset = setup.preset

LEMMA SpendKeeps == ASSUME NEW b, b # "preset", Spend(b)
                    PROVE  "preset" \in DOMAIN setup => "preset" \in DOMAIN setup' /\ setup'.preset = setup.preset
BY DEF Spend

(* The record's own fields: the asker t of a question that is gone.         *)
LEMMA PrepareTruth ==
  ASSUME IInv, Truth, Grows, NEW t \in Askers, Prepare(t)
  PROVE  Truth'
<1> USE TypesOf
<1>1. /\ thread[t].pc = "offer" /\ thread'[t].pc = "prepared" /\ thread'[t].gen = thread[t].gen
      /\ thread'[t].kind = thread[t].kind /\ thread'[t].x = thread[t].x
      /\ \A u \in Local : u # t => thread'[u] = thread[u]
  BY DEF Prepare, Changes, At, ThreadType, Poller, Sweep
<1>2. /\ pending'.state = "prepared" /\ pending'.kind = thread[t].kind /\ pending'.gen = thread[t].gen /\ pending'.mid = 0
      /\ pending' # NoQ
  BY DEF Prepare, Changes, NoQ
<1>3. UNCHANGED <<sessions, entry, shown, setup, worker, file, lock, updates>> /\ (Crossed' \/ pending = NoQ)
  BY DEF Prepare, Changes, Overwrites, Crossed
<1>4. ReadInv'
  BY <1>1, <1>3 DEF Truth, ReadInv, Poller, Sweep, Dirty, Answered
<1>5. ASSUME ~ Crossed' PROVE TapInv' /\ KindInv' /\ MidInv'
  <2>1. TapInv /\ KindInv /\ MidInv /\ pending = NoQ /\ ReadInv
    BY <1>3, <1>5 DEF Grows, Crossed, Truth
  <2>2. NoQ.state = "none" /\ NoQ.kind = "resume" /\ NoQ.mid = 0
    BY DEF NoQ
  <2>3. TapInv'
    <3>1. ~ (Taps /\ Poller.pc = "offer")
      BY DEF Fits, TapPlaces, Taps, Poller
    <3>2. Taps' = Taps /\ Poller'.x = Poller.x /\ Poller'.gen = Poller.gen
      BY <1>1 DEF Taps, Poller
    <3>3. Poller'.pc = Poller.pc \/ (Poller.pc = "offer" /\ Poller'.pc = "prepared")
      BY <1>1 DEF Poller
    <3>4. pending' = pending \/ ~ (Taps /\ Poller.pc = "check")
      BY <2>1, <2>2 DEF TapInv
    <3> QED BY <1>3, <2>1, <3>1, <3>2, <3>3, <3>4 DEF TapInv, ShownAs, Answered
  <2>4. KindInv'
    <3>1. /\ Poller'.kind = Poller.kind /\ Sweep'.kind = Sweep.kind
          /\ Poller'.pc = Poller.pc \/ (t = "poller" /\ Poller.pc = "offer" /\ Poller'.pc = "prepared")
          /\ Sweep'.pc = Sweep.pc \/ (t = "sweep" /\ Sweep.pc = "offer" /\ Sweep'.pc = "prepared")
          /\ t = "poller" => Poller.pc = "offer" /\ pending'.kind = Poller.kind
          /\ t = "sweep" => Sweep.pc = "offer" /\ pending'.kind = Sweep.kind
      BY <1>1, <1>2 DEF Poller, Sweep
    <3>2. thread[t].gen \in DOMAIN sessions /\ sessions[thread[t].gen] = thread[t].kind
      BY <1>1, <2>1 DEF ReadInv, Poller, Sweep
    <3>3. KindOf(pending)' /\ KindOf(file.q)' /\ Kind' = Kind
      BY <1>2, <1>3, <2>1, <3>2 DEF KindInv, KindOf, Kind
    <3>4. pending.state = "none"
      BY <2>1, <2>2
    <3>5. FreshInv'
      BY <1>2, <1>3, <2>1, <3>1, <3>3, <3>4 DEF KindInv, FreshInv, ReadInv, Answered, Dirty, Up
    <3>6. /\ Poller'.pc \in Answered => pending'.kind = Poller'.kind
          /\ worker'.pc \in Up => pending'.kind = worker'.kind
      BY <1>2, <1>3, <2>1, <2>2, <3>1, <3>4 DEF KindInv, FreshInv, ReadInv, Answered, Dirty, Up
    <3>7. Sweep'.pc \in Dirty => pending'.kind = "resume"
      BY <2>1, <3>1 DEF KindInv, FreshInv, ReadInv, Dirty, ThreadType, ReviveKinds
    <3> QED BY <3>3, <3>5, <3>6, <3>7 DEF KindInv
  <2>5. Weak(pending)' /\ Weak(file.q)'
    BY <1>1, <1>2, <1>3, <2>1, <2>2 DEF MidInv, Weak, Alive, Bringing, AnswerFor, Poller, Answered
  <2>6. BesideInv'
    BY <1>1, <1>2, <1>3, <2>1, <2>2 DEF MidInv, BesideInv, ReadInv, Poller, Sweep, Answered, Dirty, Up, Asking
  <2>7. GiveInv'
    BY <1>1, <1>2, <1>3, <2>1, <2>2 DEF MidInv, BesideInv, GiveInv, Msg, Bringing, AnswerFor, ReadInv, Poller, Sweep, Answered, Dirty, Up, Asking
  <2> QED BY <2>3, <2>4, <2>5, <2>6, <2>7 DEF MidInv
<1> QED BY <1>4, <1>5 DEF Truth

LEMMA NewSessionKind ==
  ASSUME IInv, NEW kind \in ReviveKinds, NewSession(kind)
  PROVE  entry'.gen \notin DOMAIN sessions /\ entry'.gen # 0 /\ Kind' = kind
<1>1. sessions \in Seq(ReviveKinds) /\ Len(sessions) \in Nat /\ DOMAIN sessions = 1..Len(sessions)
  BY LenProperties DEF IInv, WorldInv
<1>2. entry'.gen = Len(sessions) + 1 /\ sessions' = Append(sessions, kind)
  BY DEF NewSession
<1>3. sessions'[Len(sessions) + 1] = kind
  BY <1>1, <1>2, AppendProperties
<1> QED BY <1>1, <1>2, <1>3 DEF Kind

(* A step of no asker and not of the worker: another session may come.      *)
LEMMA QuietTruth ==
  ASSUME IInv, Truth, Grows, Poller' = Poller, Sweep' = Sweep, Taps' = Taps,
         UNCHANGED <<worker, pending, shown>>, file'.q \in {file.q, pending},
         lock' = lock \/ Crossed \/ ~ (Taps /\ Poller.pc = "check"),
         entry'.gen = entry.gen \/ (entry'.gen \notin DOMAIN sessions /\ entry'.gen # 0 /\ Kind' = "resume")
  PROVE  Truth'
<1> USE TypesOf
<1>1. thread'["poller"] = thread["poller"] /\ thread'["sweep"] = thread["sweep"]
  BY DEF Poller, Sweep
<1>2. \A t \in Askers : thread'[t] = thread[t] /\ thread[t].gen \in 0..Len(sessions)
  BY <1>1 DEF Poller, Sweep
<1>3. Kind' \in {Kind, "resume"}
  BY DEF Kind, Grows
<1>4. ReadInv'
  <2>1. /\ \A t \in Askers : thread[t].pc = "offer" => thread[t].gen \in DOMAIN sessions
        /\ Poller.pc \in Answered \cup {"authority"} => Poller.gen \in DOMAIN sessions
        /\ worker.pc # "off" => worker.gen \in DOMAIN sessions
    BY <1>2 DEF Truth, ReadInv, Fits
  <2>2. \A t \in Askers : thread'[t].pc = "offer" => thread'[t].gen # 0 /\ sessions'[thread'[t].gen] = thread'[t].kind
    BY <1>2, <2>1 DEF Truth, ReadInv, Grows
  <2> HIDE TypesOf
  <2> QED BY <2>1, <2>2 DEF Truth, ReadInv, Grows
<1>5. ASSUME ~ Crossed' PROVE TapInv' /\ KindInv' /\ MidInv'
  <2>1. TapInv /\ KindInv /\ MidInv
    BY <1>5 DEF Grows, Crossed, Truth
  <2>2. TapInv'
    BY <2>1, <1>5 DEF TapInv, ShownAs, Crossed, Grows
  <2>3. KindInv'
    BY <1>3, <2>1 DEF KindInv, KindOf, FreshInv, Grows
  <2>4. \A g \in DOMAIN sessions \cup {0} : Alive(g)' => Alive(g)
    BY DEF Alive, Bringing, AnswerFor
  <2>5. \A g \in DOMAIN sessions : entry'.gen = g => entry.gen = g
    BY DEF Alive
  <2>6. Weak(pending)' /\ Weak(file.q)'
    BY <2>1 DEF MidInv, KindInv, KindOf, Weak, Alive, Bringing, AnswerFor, Whole, NoQ
  <2>7. BesideInv' /\ GiveInv'
    BY <2>1, <2>5 DEF MidInv, BesideInv, GiveInv, Msg, Bringing, AnswerFor, Answered, Fits
  <2> QED BY <2>2, <2>3, <2>6, <2>7 DEF MidInv
<1> QED BY <1>4, <1>5 DEF Truth

(* A step of the poller outside an answer that leaves the record.           *)
LEMMA PollerTruth ==
  ASSUME IInv, Truth, Grows, Poller'.pc \notin Answered, Sweep' = Sweep,
         UNCHANGED <<worker, pending, entry, sessions>>, file'.q \in {file.q, pending},
         Poller'.pc \in Dirty \cup {"offer", "authority"} => worker.pc = "off",
         Poller'.pc = "offer" => Poller'.gen # 0 /\ sessions[Poller'.gen] = Poller'.kind,
         Poller'.pc = "authority" => Poller'.gen # 0 /\ sessions[Poller'.gen] = "resume",
         Crossed \/ (Sweep.pc \in Dirty /\ Poller'.pc = "offer" /\ Poller'.kind = "fresh" => pending # NoQ),
         Taps' /\ Poller'.pc = "check" => lock' = "poller" /\ Poller'.x.mid = pending.mid /\ pending.mid # 0
  PROVE  Truth'
<1> USE TypesOf
<1>1. thread'["poller"] = Poller' /\ thread'["sweep"] = thread["sweep"]
  BY DEF Poller, Sweep
<1>4. ReadInv'
  <2>1. \A t \in Askers : thread'[t].pc = "offer" => thread'[t].gen # 0 /\ sessions[thread'[t].gen] = thread'[t].kind
    BY <1>1 DEF Truth, ReadInv
  <2> HIDE TypesOf
  <2> QED BY <1>1, <2>1 DEF Truth, ReadInv, Grows
<1>5. ASSUME ~ Crossed' PROVE TapInv' /\ KindInv' /\ MidInv'
  <2>1. TapInv /\ KindInv /\ MidInv
    BY <1>5 DEF Grows, Crossed, Truth
  <2>2. TapInv'
    BY <2>1 DEF TapInv, ShownAs, Grows
  <2>3. KindInv'
    BY <2>1, <1>5 DEF KindInv, KindOf, FreshInv, Grows, Kind, Answered, Crossed
  <2>5. \A m \in Nat \ {0} : m <= Len(shown) => shown'[m] = shown[m]
    BY DEF Grows
  <2>6. Weak(pending)' /\ Weak(file.q)'
    BY <2>1, <2>5 DEF Question, MidInv, KindInv, KindOf, Weak, Alive, Bringing, AnswerFor, Whole, NoQ
  <2>7. BesideInv' /\ GiveInv'
    BY <2>1 DEF MidInv, BesideInv, GiveInv, Msg, Bringing, AnswerFor, Answered
  <2> QED BY <2>2, <2>3, <2>6, <2>7 DEF MidInv
<1> QED BY <1>4, <1>5 DEF Truth

(* A step of the sweep that leaves the record.                              *)
LEMMA SweepTruth ==
  ASSUME IInv, Truth, Grows, Poller' = Poller, Taps' = Taps,
         UNCHANGED <<worker, pending, entry, sessions>>, file'.q \in {file.q, pending},
         lock' = lock \/ Crossed \/ ~ (Taps /\ Poller.pc = "check"),
         \/ /\ Sweep'.pc = "offer" /\ Sweep'.gen = entry.gen /\ Sweep'.kind = "resume" /\ Kind = "resume"
            /\ pending = NoQ /\ worker.pc = "off" /\ ~ setup.preset
         \/ /\ Sweep'.pc \in Dirty /\ Sweep.pc \in Dirty
            /\ Sweep'.pc \in {"prepared", "send"} => Sweep.pc \in {"prepared", "send"}
         \/ Sweep'.pc \notin Dirty \cup {"offer"}
  PROVE  Truth'
<1> USE TypesOf
<1>1. thread'["sweep"] = Sweep' /\ thread'["poller"] = thread["poller"]
  BY DEF Poller, Sweep
<1>2. NoQ.state = "none" /\ NoQ.mid = 0
  BY DEF NoQ
<1>4. ReadInv'
  <2>1. \A t \in Askers : thread'[t].pc = "offer" => thread'[t].gen # 0 /\ sessions[thread'[t].gen] = thread'[t].kind
    BY <1>1 DEF Truth, ReadInv, Dirty, Kind
  <2>2. Sweep'.pc = "offer" => Sweep'.kind = "resume"
    BY DEF Dirty
  <2>3. "preset" \in DOMAIN setup' /\ setup'.preset = setup.preset
    BY DEF Truth, ReadInv, Grows
  <2>4. setup.preset => Sweep'.pc # "offer"
    BY DEF Dirty
  <2> HIDE TypesOf
  <2> QED BY <1>1, <2>1, <2>2, <2>3, <2>4 DEF Truth, ReadInv
<1>5. ASSUME ~ Crossed' PROVE TapInv' /\ KindInv' /\ MidInv'
  <2>1. TapInv /\ KindInv /\ MidInv
    BY <1>5 DEF Grows, Crossed, Truth
  <2>2. TapInv'
    BY <2>1, <1>5 DEF TapInv, ShownAs, Grows, Crossed
  <2>3. KindInv'
    <3>1. KindOf(pending)' /\ KindOf(file.q)' /\ Kind' = Kind
      BY <2>1 DEF KindInv, KindOf, Kind
    <3>2. (Sweep'.pc \in Dirty => Sweep.pc \in Dirty) /\ (Sweep'.pc = "offer" => pending = NoQ /\ Kind = "resume" /\ worker.pc = "off")
      BY DEF Dirty
    <3>3. Poller.kind \in {"resume", "fresh"}
      BY DEF ThreadType, ReviveKinds
    <3>4. FreshInv'
      BY <1>2, <2>1, <3>1, <3>2, <3>3 DEF KindInv, FreshInv, Answered, Up
    <3> QED BY <2>1, <3>1, <3>2, <3>4 DEF KindInv
  <2>5. \A m \in Nat \ {0} : m <= Len(shown) => shown'[m] = shown[m]
    BY DEF Grows
  <2>6. Weak(pending)' /\ Weak(file.q)'
    BY <2>1, <2>5 DEF Question, MidInv, KindInv, KindOf, Weak, Alive, Bringing, AnswerFor, Whole, NoQ
  <2>7. BesideInv'
    BY <1>2, <2>1 DEF MidInv, BesideInv, Answered, Asking, Dirty, Up
  <2>8. GiveInv'
    BY <1>2, <2>1 DEF MidInv, GiveInv, Msg, Bringing, AnswerFor, Answered, Dirty
  <2> QED BY <2>2, <2>3, <2>6, <2>7, <2>8 DEF MidInv
<1> QED BY <1>4, <1>5 DEF Truth

LEMMA GrowsStep ==
  ASSUME IInv, [Next]_vars
  PROVE  Grows
<1>1. sessions \in Seq(ReviveKinds) /\ shown \in Seq(Nat) /\ pending.gen \in Nat
  BY ReopenAssumption DEF IInv, WorldInv, QuestionInv, Sound, Question
<1> DEFINE SessionsGrow == \A g \in DOMAIN sessions : g \in DOMAIN sessions' /\ sessions'[g] = sessions[g]
           ShownGrows == \A m \in DOMAIN shown : m \in DOMAIN shown' /\ shown'[m] = shown[m]
           PresetKept == "preset" \in DOMAIN setup => "preset" \in DOMAIN setup' /\ setup'.preset = setup.preset
<1>2. ASSUME NEW kind \in ReviveKinds, NewSession(kind) PROVE SessionsGrow
  BY <1>1, <1>2, AppendProperties, LenProperties DEF NewSession
<1>3. ASSUME Show PROVE ShownGrows
  BY <1>1, <1>3, AppendProperties, LenProperties DEF Show
<1> HIDE DEF SessionsGrow, ShownGrows, PresetKept
<1>4. sessions' = sessions => SessionsGrow
  BY DEF SessionsGrow
<1>5. shown' = shown => ShownGrows
  BY DEF ShownGrows
<1>6. (setup' = setup => PresetKept) /\ \A b : b # "preset" /\ Spend(b) => PresetKept
  BY SpendKeeps DEF PresetKept
<1>7. "resume" \in ReviveKinds /\ "fresh" \in ReviveKinds
  BY DEF ReviveKinds
<1>8. ASSUME NEW t \in Threads, Publishing(t) PROVE SessionsGrow /\ ShownGrows /\ PresetKept /\ lapse \subseteq lapse'
  BY <1>4, <1>5, <1>6, <1>8 DEF Publishing, Snapshot, Rename, Saved, world
<1>9. ASSUME NEW t \in Askers, Offering(t) PROVE SessionsGrow /\ ShownGrows /\ PresetKept /\ lapse \subseteq lapse'
  BY <1>3, <1>4, <1>5, <1>6, <1>9 DEF Offering, Prepare, SendOffer, Undeliverable, Arm, Changes, Overwrites
<1>10. ASSUME Taking PROVE SessionsGrow /\ ShownGrows /\ PresetKept /\ lapse \subseteq lapse'
  BY <1>4, <1>5, <1>6, <1>10 DEF Taking, TakeReopen, TakeTap, TakeText
<1>11. ASSUME Answering PROVE SessionsGrow /\ ShownGrows /\ PresetKept /\ lapse \subseteq lapse'
  BY <1>3, <1>4, <1>5, <1>6, <1>11 DEF Answering, Check, CheckUnanswerable, CheckStale, AskAgain, Forgotten, TakeAnswer, StartAnswered,
       Early, TakeEarly, Inbox, Changes, Overwrites, world
<1>12. ASSUME Working PROVE SessionsGrow /\ ShownGrows /\ PresetKept /\ lapse \subseteq lapse'
  BY <1>2, <1>4, <1>5, <1>6, <1>7, <1>12 DEF Working, BindWorker, ReviveFails, Rearm, Forget, world
<1>13. ASSUME PeerChanges \/ SweepOffers \/ SweepForgets \/ Ends \/ CarryForward \/ Crash
       PROVE  SessionsGrow /\ ShownGrows /\ PresetKept /\ lapse \subseteq lapse'
  BY <1>4, <1>5, <1>6, <1>13 DEF PeerChanges, SweepOffers, SweepForgets, Ends, CarryForward, Crash, Changes, world
<1>14. ASSUME Rebind PROVE SessionsGrow /\ ShownGrows /\ PresetKept /\ lapse \subseteq lapse'
  BY <1>2, <1>5, <1>6, <1>7, <1>14 DEF Rebind
<1>15. ASSUME OwnerSends PROVE SessionsGrow /\ ShownGrows /\ PresetKept /\ lapse \subseteq lapse'
  BY <1>4, <1>5, <1>6, <1>15 DEF OwnerSends, Sends
<1>16. ASSUME Resend PROVE SessionsGrow /\ ShownGrows /\ PresetKept /\ lapse \subseteq lapse'
  BY <1>3, <1>4, <1>5, <1>6, <1>16 DEF Resend
<1>17. ASSUME UNCHANGED vars PROVE SessionsGrow /\ ShownGrows /\ PresetKept /\ lapse \subseteq lapse'
  BY <1>4, <1>5, <1>6, <1>17 DEF vars
<1>18. SessionsGrow /\ ShownGrows /\ PresetKept /\ lapse \subseteq lapse'
  BY <1>8, <1>9, <1>10, <1>11, <1>12, <1>13, <1>14, <1>15, <1>16, <1>17 DEF Next, Outside
<1> QED BY <1>18 DEF Grows, SessionsGrow, ShownGrows, PresetKept

LEMMA OutsideTruth ==
  ASSUME IInv, Truth, Grows,
         (\E t \in Threads : Snapshot(t)) \/ PeerChanges \/ OwnerSends \/ Rebind \/ Ends \/ CarryForward \/ UNCHANGED vars
  PROVE  Truth'
<1> USE TypesOf
<1>1. CASE \E t \in Threads : Snapshot(t)
  <2>1. PICK t \in Threads : Snapshot(t)
    BY <1>1
  <2>2. ASSUME ~ Crossed, Taps, Poller.pc = "check" PROVE lock' = lock
    <3>1. lock = "poller" /\ lock' = t /\ lock \in {"free", t}
      BY <2>1, <2>2 DEF Truth, TapInv, Snapshot, Mine
    <3> QED BY <3>1
  <2>3. UNCHANGED <<thread, worker, pending, shown, lapse, file, entry>>
    BY <2>1 DEF Snapshot, world
  <2>4. Poller' = Poller /\ Sweep' = Sweep /\ Taps' = Taps /\ file'.q \in {file.q, pending} /\ entry'.gen = entry.gen
    BY <2>3 DEF Poller, Sweep, Taps
  <2> QED BY <2>2, <2>3, <2>4, QuietTruth
<1>2. CASE PeerChanges
  <2>1. UNCHANGED <<worker, pending, shown, lapse, file, entry, lock>> /\ thread' = [thread EXCEPT !["peer"].pc = "other"]
    BY <1>2 DEF PeerChanges, world, question, Goes
  <2>2. Poller' = Poller /\ Sweep' = Sweep /\ Taps' = Taps
    BY <2>1 DEF Poller, Sweep, Taps
  <2> QED BY <2>1, <2>2, QuietTruth
<1>3. CASE OwnerSends \/ CarryForward \/ UNCHANGED vars
  <2>1. UNCHANGED <<thread, worker, pending, shown, lapse, file, entry, lock>>
    BY <1>3 DEF OwnerSends, CarryForward, vars, question, Rest
  <2>2. Poller' = Poller /\ Sweep' = Sweep /\ Taps' = Taps
    BY <2>1 DEF Poller, Sweep, Taps
  <2> QED BY <2>1, <2>2, QuietTruth
<1>4. CASE Ends
  <2>1. UNCHANGED <<thread, worker, pending, shown, lapse, file, lock>> /\ entry' = [entry EXCEPT !.ended = TRUE]
    BY <1>4 DEF Ends, question, Rest
  <2>2. Poller' = Poller /\ Sweep' = Sweep /\ Taps' = Taps /\ entry'.gen = entry.gen
    BY <2>1 DEF Poller, Sweep, Taps, IInv, WorldInv
  <2> QED BY <2>1, <2>2, QuietTruth
<1>5. CASE Rebind
  <2>1. UNCHANGED <<thread, worker, pending, shown, lapse, file, lock>> /\ NewSession("resume")
    BY <1>5 DEF Rebind, question, Rest
  <2>2. Poller' = Poller /\ Sweep' = Sweep /\ Taps' = Taps
    BY <2>1 DEF Poller, Sweep, Taps
  <2>3. entry'.gen \notin DOMAIN sessions /\ entry'.gen # 0 /\ Kind' = "resume"
    BY <2>1, NewSessionKind DEF ReviveKinds
  <2> QED BY <2>1, <2>2, <2>3, QuietTruth
<1> QED BY <1>1, <1>2, <1>3, <1>4, <1>5

(* The poller takes up what it may ask about, or something else.            *)
LEMMA PollerOffers ==
  ASSUME IInv, Truth, Grows, Sweep' = Sweep, UNCHANGED <<worker, pending, entry, sessions, shown, file>>,
         \/ Poller'.pc \in {"idle", "early", "inbox"}
         \/ Poller'.pc = "check" /\ (Taps' => lock' = "poller" /\ Poller'.x.mid = pending.mid /\ pending.mid # 0)
         \/ Poller'.pc = "offer" /\ Poller'.gen = entry.gen /\ Poller'.kind = Kind /\ MayOffer
  PROVE  Truth'
<1>1. Poller'.pc \notin Answered
  BY DEF Answered
<1>2. Poller'.pc \in Dirty \cup {"offer", "authority"} => Poller'.pc = "offer" /\ worker.pc = "off"
  BY DEF Dirty, MayOffer, Reviving
<1>3. Poller'.pc = "offer" => Poller'.gen # 0 /\ sessions[Poller'.gen] = Poller'.kind
  BY TypesOf DEF Kind
<1>4. Crossed \/ ~ (Sweep.pc \in Dirty /\ Poller'.pc = "offer" /\ Poller'.kind = "fresh")
  BY DEF Truth, KindInv, FreshInv
<1>5. file'.q \in {file.q, pending}
  OBVIOUS
<1>7. Poller'.pc # "authority"
  BY <1>2
<1>8. Taps' /\ Poller'.pc = "check" => lock' = "poller" /\ Poller'.x.mid = pending.mid /\ pending.mid # 0
  OBVIOUS
<1> QED BY <1>1, <1>2, <1>3, <1>4, <1>5, <1>7, <1>8, PollerTruth

LEMMA PollerAt ==
  ASSUME IInv, NEW m, thread' = [thread EXCEPT !["poller"] = m]
  PROVE  Poller' = m /\ Sweep' = Sweep /\ (Taps' <=> m.x.what = "tap")
BY TypesOf DEF Poller, Sweep, Taps

LEMMA PollerGoes ==
  ASSUME IInv, NEW pc, Goes("poller", pc)
  PROVE  Poller' = [Poller EXCEPT !.pc = pc] /\ Sweep' = Sweep /\ Poller'.pc = pc /\ Poller'.x = Poller.x
         /\ Poller'.gen = Poller.gen /\ Poller'.kind = Poller.kind /\ (Taps' <=> Taps)
BY TypesOf DEF Goes, Poller, Sweep, Taps, ThreadType

LEMMA TakingTruth ==
  ASSUME IInv, Truth, Grows, Taking
  PROVE  Truth'
<1> USE TypesOf, IdleType
<1>1. CASE TakeReopen
  <2>1. UNCHANGED <<worker, pending, entry, sessions, shown, file>> /\ Poller.pc = "idle"
    BY <1>1 DEF TakeReopen, Takes, At, Poller, question, Rest
  <2>2. CASE entry.ended /\ MayOffer
    <3> DEFINE m == [Idle EXCEPT !.pc = "offer", !.x = Next1, !.gen = entry.gen, !.kind = Kind]
    <3>1. thread' = [thread EXCEPT !["poller"] = m] /\ m.pc = "offer" /\ m.gen = entry.gen /\ m.kind = Kind
      BY <1>1, <2>2 DEF TakeReopen, Idle
    <3> HIDE DEF m
    <3> QED BY <2>1, <2>2, <3>1, PollerAt, PollerOffers
  <2>3. CASE ~ (entry.ended /\ MayOffer)
    BY <1>1, <2>1, <2>3, PollerOffers DEF TakeReopen, Poller, Sweep
  <2> QED BY <2>2, <2>3
<1>2. CASE TakeTap
  <2>1. UNCHANGED <<worker, pending, entry, sessions, shown, file>> /\ Poller.pc = "idle"
    BY <1>2 DEF TakeTap, Takes, At, Poller, Rest
  <2>2. CASE TapIsCurrent(Next1.mid)
    <3> DEFINE m == [Idle EXCEPT !.x = Next1, !.pc = "check"]
    <3>1. thread' = [thread EXCEPT !["poller"] = m] /\ m.pc = "check" /\ m.x = Next1 /\ lock' = "poller"
      BY <1>2, <2>2 DEF TakeTap, With, Idle
    <3> HIDE DEF m
    <3>2. Next1.mid # 0 /\ Next1.mid = pending.mid
      <4>1. Next1 \in UpdateType
        BY <1>2, HeadTailProperties DEF TakeTap, Takes, Next1, IInv, WorldInv
      <4>2. Next1.what = "tap" /\ Next1.mid = pending.mid
        BY <1>2, <2>2 DEF TakeTap, TapIsCurrent
      <4>3. Next1.mid # 0
        BY <4>1, <4>2 DEF UpdateType
      <4> QED BY <4>2, <4>3
    <3> QED BY <2>1, <3>1, <3>2, PollerAt, PollerOffers
  <2>3. CASE ~ TapIsCurrent(Next1.mid)
    BY <1>2, <2>1, <2>3, PollerOffers DEF TakeTap, Poller, Sweep
  <2> QED BY <2>2, <2>3
<1>3. CASE TakeText
  <2>1. UNCHANGED <<worker, pending, entry, sessions, shown, file>> /\ Poller.pc = "idle" /\ Next1.what # "tap"
    BY <1>3 DEF TakeText, Takes, At, Poller, question, Rest
  <2>2. CASE cf /\ ~ StillCurrent
    BY <1>3, <2>1, <2>2, PollerOffers DEF TakeText, Poller, Sweep
  <2>3. CASE ~ (cf /\ ~ StillCurrent)
    <3> DEFINE pc == IF pending = NoQ THEN "early" ELSE "check"
               m == [Idle EXCEPT !.x = Next1, !.pc = pc]
    <3>1. thread' = [thread EXCEPT !["poller"] = m] /\ m.pc \in {"early", "check"} /\ m.x = Next1
      BY <1>3, <2>3 DEF TakeText, With, Idle
    <3> HIDE DEF m
    <3> QED BY <2>1, <3>1, PollerAt, PollerOffers
  <2> QED BY <2>2, <2>3
<1> QED BY <1>1, <1>2, <1>3 DEF Taking

LEMMA PollerDone ==
  ASSUME IInv, Done("poller")
  PROVE  Poller' = Idle /\ Sweep' = Sweep /\ Poller'.pc = "idle" /\ ~ Taps'
BY TypesOf, IdleType DEF Done, Poller, Sweep, Taps, NoUpdate

LEMMA LeavesTruth ==
  ASSUME IInv, Truth, Grows, CheckUnanswerable \/ Forgotten \/ Early
  PROVE  Truth'
<1>1. UNCHANGED <<worker, pending, entry, sessions, shown, file>>
  BY DEF CheckUnanswerable, Forgotten, Early, world, question, Rest
<1>2. ASSUME Done("poller") PROVE Truth'
  BY <1>1, <1>2, PollerDone, PollerOffers
<1>3. ASSUME NEW pc \in {"early", "inbox"}, Goes("poller", pc) PROVE Truth'
  <2>1. Poller'.pc = pc /\ Sweep' = Sweep
    BY <1>3, PollerGoes
  <2> QED BY <1>1, <2>1, PollerOffers
<1>4. CASE CheckUnanswerable \/ Forgotten
  BY <1>2, <1>3, <1>4 DEF CheckUnanswerable, Forgotten, Moves
<1>5. CASE Early
  <2> DEFINE Claims == Poller.x.what = "resume" /\ pending = NoQ /\ ShouldAutoRevive /\ ~Reviving
  <2>1. CASE ~ Claims
    BY <1>3, <1>5, <2>1 DEF Early, Poller
  <2>2. CASE Claims
    <3> DEFINE m == [Poller EXCEPT !.pc = "authority", !.gen = entry.gen]
    <3>1. thread' = [thread EXCEPT !["poller"].pc = "authority", !["poller"].gen = entry.gen]
      BY <1>5, <2>2 DEF Early, Poller
    <3>2. Poller' = m /\ Sweep' = Sweep
      BY <3>1, TypesOf DEF Poller, Sweep
    <3>3. Poller'.pc = "authority" /\ Poller'.gen = entry.gen
      BY <3>2, TypesOf DEF ThreadType
    <3> HIDE DEF m
    <3>4. Poller'.gen # 0 /\ sessions[Poller'.gen] = "resume" /\ worker.pc = "off"
      BY <2>2, <3>3, TypesOf DEF ShouldAutoRevive, Kind, Reviving
    <3>5. Poller'.pc \notin Answered \cup Dirty \cup {"offer", "check"} /\ file'.q = file.q
      BY <1>1, <3>3 DEF Answered, Dirty
    <3> QED BY <1>1, <3>2, <3>3, <3>4, <3>5, PollerTruth
  <2> QED BY <2>1, <2>2
<1> QED BY <1>4, <1>5

(* The file is renamed: a thread goes on, and the file is as before or as   *)
(* memory is.                                                               *)
Renamed(t) ==
  /\ file'.q \in {file.q, pending} /\ UNCHANGED <<pending, entry, sessions, shown>> /\ Publishes(t)
  /\ t # "worker" => /\ worker' = worker
                     /\ thread'[t].gen = thread[t].gen \/ thread'[t].pc = "idle"
                     /\ thread'[t].pc = Then[thread[t].pc]
                     /\ \A u \in Local : u # t => thread'[u] = thread[u]
                     /\ thread'[t].pc # "idle" => thread'[t].x = thread[t].x /\ thread'[t].kind = thread[t].kind
  /\ t = "worker" => worker' = Off /\ thread' = thread

LEMMA RenameFacts ==
  ASSUME IInv, NEW t \in Threads, Rename(t)
  PROVE  Renamed(t)
<1> USE TypesOf
<1>1. Saving(t) /\ buf[t] # NoBuf /\ UNCHANGED <<world, pending, other, boot>> /\ (file' = buf[t] \/ file' = file)
  BY DEF Rename
<1>2. Publishes(t) /\ ~ boot /\ buf[t].q = pending
  BY <1>1 DEF IInv, BufInv, Saving, Publishes
<1>3. PICK ok \in BOOLEAN : Saved(t, ok)
  BY DEF Rename
<1>4. ASSUME t # "worker" PROVE
         /\ worker' = worker
         /\ thread'[t].gen = thread[t].gen \/ thread'[t].pc = "idle"
         /\ thread'[t].pc = Then[thread[t].pc]
         /\ \A u \in Local : u # t => thread'[u] = thread[u]
         /\ thread'[t].pc # "idle" => thread'[t].x = thread[t].x /\ thread'[t].kind = thread[t].kind
  <2> DEFINE to == Then[thread[t].pc]
  <2>1. t \in Local /\ thread[t] \in ThreadType /\ Pc(t) = thread[t].pc
    BY <1>4 DEF Local, IInv, ThreadInv, Pc
  <2>2. thread' = [thread EXCEPT ![t] = IF to = "idle" THEN Idle ELSE [@ EXCEPT !.pc = to, !.durable = ok]] /\ worker' = worker
    BY <1>3, <1>4, <2>1 DEF Saved
  <2> HIDE DEF to
  <2>3. CASE to = "idle"
    BY <2>1, <2>2, <2>3, IdleType DEF to
  <2>4. CASE to # "idle"
    BY <2>1, <2>2, <2>4 DEF to, ThreadType
  <2> QED BY <2>3, <2>4
<1>5. t = "worker" => worker' = Off /\ thread' = thread
  BY <1>3 DEF Saved
<1> QED BY <1>1, <1>2, <1>4, <1>5 DEF world, Renamed

(* The answer's record is on its way to the file, or the worker leaves.     *)
LEMMA StartTruth ==
  ASSUME IInv, Truth, Grows, Poller.pc = "reviving", Poller'.pc = "start", Poller'.gen = Poller.gen,
         Poller'.kind = Poller.kind, Poller'.x = Poller.x, Sweep' = Sweep, Taps' = Taps,
         UNCHANGED <<worker, pending, entry, sessions, shown>>, file'.q \in {file.q, pending}
  PROVE  Truth'
<1> USE TypesOf
<1>1. thread'["poller"].pc = "start" /\ thread'["poller"].gen = thread["poller"].gen /\ thread'["poller"].kind = thread["poller"].kind
      /\ thread'["sweep"] = thread["sweep"]
  BY DEF Poller, Sweep
<1>4. ReadInv'
  BY <1>1 DEF Truth, ReadInv, Grows, Answered, Dirty, Poller, Sweep
<1>5. ASSUME ~ Crossed' PROVE TapInv' /\ KindInv' /\ MidInv'
  <2>1. TapInv /\ KindInv /\ MidInv
    BY <1>5 DEF Grows, Crossed, Truth
  <2>2. TapInv'
    BY <2>1 DEF TapInv, ShownAs, Answered
  <2>3. KindInv'
    BY <2>1 DEF KindInv, KindOf, FreshInv, Kind, Answered
  <2>6. Weak(pending)' /\ Weak(file.q)'
    BY <2>1 DEF MidInv, KindInv, KindOf, Weak, Alive, Bringing, AnswerFor, Answered, Whole, NoQ
  <2>7. BesideInv' /\ GiveInv'
    BY <2>1 DEF MidInv, BesideInv, GiveInv, Msg, Bringing, AnswerFor, Answered
  <2> QED BY <2>2, <2>3, <2>6, <2>7 DEF MidInv
<1> QED BY <1>4, <1>5 DEF Truth

LEMMA OffTruth ==
  ASSUME IInv, Truth, Grows, worker' = Off, UNCHANGED <<thread, pending, entry, sessions, shown>>,
         lock' = lock \/ Crossed \/ ~ (Taps /\ Poller.pc = "check"), file'.q \in {file.q, pending}
  PROVE  Truth'
<1> USE TypesOf
<1>1. Poller' = Poller /\ Sweep' = Sweep /\ Taps' = Taps /\ worker'.pc = "off"
  BY IdleType DEF Poller, Sweep, Taps
<1>4. ReadInv'
  BY <1>1 DEF Truth, ReadInv, Grows, Answered, Dirty
<1>5. ASSUME ~ Crossed' PROVE TapInv' /\ KindInv' /\ MidInv'
  <2>1. TapInv /\ KindInv /\ MidInv
    BY <1>5 DEF Grows, Crossed, Truth
  <2>2. TapInv'
    BY <1>1, <1>5, <2>1 DEF TapInv, ShownAs, Answered, Grows, Crossed
  <2>3. KindInv'
    BY <1>1, <2>1 DEF KindInv, KindOf, FreshInv, Kind, Answered, Up
  <2>6. Weak(pending)' /\ Weak(file.q)'
    BY <1>1, <2>1 DEF MidInv, KindInv, KindOf, Weak, Alive, Bringing, AnswerFor, Answered, Whole, NoQ, Up
  <2>7. BesideInv' /\ GiveInv'
    BY <1>1, <2>1 DEF MidInv, BesideInv, GiveInv, Msg, Bringing, AnswerFor, Answered, Up
  <2> QED BY <2>2, <2>3, <2>6, <2>7 DEF MidInv
<1> QED BY <1>4, <1>5 DEF Truth

LEMMA RenameTruth ==
  ASSUME IInv, Truth, Grows, NEW t \in Threads, Rename(t)
  PROVE  Truth'
<1> USE TypesOf
<1>0. Renamed(t)
  BY RenameFacts
<1>1. ASSUME t # "poller", ~ Crossed PROVE ~ (Taps /\ Poller.pc = "check")
  <2>1. lock = t
    BY DEF Rename, IInv, BufInv
  <2> QED BY <1>1, <2>1 DEF Truth, TapInv
<1>2. CASE t = "worker"
  <2> QED BY <1>0, <1>1, <1>2, OffTruth DEF Renamed
<1>3. CASE t = "peer"
  <2>1. thread'["poller"] = thread["poller"] /\ thread'["sweep"] = thread["sweep"] /\ worker' = worker
    BY <1>0, <1>3 DEF Renamed
  <2>2. Poller' = Poller /\ Sweep' = Sweep /\ Taps' = Taps
    BY <2>1 DEF Poller, Sweep, Taps
  <2> QED BY <1>0, <1>1, <1>3, <2>1, <2>2, QuietTruth DEF Renamed
<1>4. CASE t = "sweep"
  <2>1. thread'["poller"] = thread["poller"] /\ worker' = worker /\ Sweep'.pc = Then[Sweep.pc]
    BY <1>0, <1>4 DEF Sweep, Renamed
  <2>2. Poller' = Poller /\ Taps' = Taps
    BY <2>1 DEF Poller, Taps
  <2>3. Sweep.pc \in {"prepared", "armed", "dropped"}
    BY <1>0, <1>4, ThenDomain DEF Renamed, Publishes, Pc, Fits, SweepPlaces, Sweep
  <2>4. \/ Sweep.pc = "prepared" /\ Sweep'.pc = "send"
        \/ Sweep'.pc = "idle"
    BY <2>1, <2>3 DEF Then
  <2>5. \/ Sweep'.pc \in Dirty /\ Sweep.pc \in Dirty /\ Sweep.pc \in {"prepared", "send"}
        \/ Sweep'.pc \notin Dirty \cup {"offer"}
    BY <2>4 DEF Dirty
  <2> QED BY <1>0, <1>1, <1>4, <2>1, <2>2, <2>5, SweepTruth DEF Renamed
<1>5. CASE t = "poller"
  <2>1. thread'["sweep"] = thread["sweep"] /\ worker' = worker /\ Poller'.pc = Then[Poller.pc] /\ Poller.pc \in DOMAIN Then
    BY <1>0, <1>5, ThenDomain DEF Poller, Publishes, Pc, Renamed
  <2>2. Sweep' = Sweep
    BY <2>1 DEF Sweep
  <2>3. CASE Poller.pc = "reviving"
    <3>1. Poller'.pc = "start"
      BY <2>1, <2>3 DEF Then
    <3>2. Poller'.gen = Poller.gen /\ Poller'.kind = Poller.kind /\ Poller'.x = Poller.x
      BY <1>0, <1>5, <3>1 DEF Poller, Renamed
    <3>3. Taps' = Taps
      BY <3>2 DEF Poller, Taps
    <3> QED BY <2>1, <2>2, <2>3, <3>1, <3>2, <3>3, <1>0, StartTruth DEF Renamed
  <2>4. CASE Poller.pc # "reviving"
    <3>1. \/ Poller.pc = "prepared" /\ Poller'.pc = "send"
          \/ Poller.pc = "claimed" /\ Poller'.pc = "check"
          \/ Poller'.pc \in {"early", "consume", "idle"}
      BY <2>1, <2>4 DEF Then
    <3>2. Poller'.pc \notin Answered \cup {"offer", "authority"} /\ (Poller'.pc \in Dirty => Poller.pc \in Dirty)
      BY <3>1 DEF Answered, Dirty
    <3>3. Poller'.pc \in Dirty => worker.pc = "off"
      BY <3>2 DEF Truth, ReadInv
    <3>4. ~ (Taps' /\ Poller'.pc = "check")
      <4>1. SUFFICES ASSUME Poller.pc = "claimed", Poller'.pc = "check" PROVE ~ Taps'
        BY <3>1
      <4>2. ~ Taps
        BY <4>1 DEF Fits, TapPlaces, Poller, Taps
      <4>3. thread'["poller"].x = thread["poller"].x
        BY <1>0, <1>5, <4>1 DEF Poller, Renamed
      <4> QED BY <4>2, <4>3 DEF Taps
    <3> HIDE TypesOf
    <3>5. file'.q \in {file.q, pending} /\ UNCHANGED <<pending, entry, sessions>>
      BY <1>0 DEF Renamed
    <3> QED BY <2>1, <2>2, <3>2, <3>3, <3>4, <3>5, PollerTruth
  <2> QED BY <2>3, <2>4
<1> QED BY <1>2, <1>3, <1>4, <1>5 DEF Threads, Askers

(* The revive worker is started, for an answer or with the answer preset.   *)
LEMMA LaunchTruth ==
  ASSUME IInv, Truth, Grows, worker.pc = "off", worker'.pc = "launch", Poller' = Idle, Sweep' = Sweep,
         UNCHANGED <<pending, entry, sessions, shown, file>>, worker'.gen # 0, sessions[worker'.gen] = worker'.kind,
         \/ /\ Poller.pc = "start" /\ worker'.gen = Poller.gen /\ worker'.kind = Poller.kind
            /\ worker'.mid # 0 => Taps /\ worker'.mid = Poller.x.mid
         \/ /\ Poller.pc = "inbox" /\ pending = NoQ /\ setup.preset /\ worker'.gen = entry.gen
            /\ worker'.kind = "resume" /\ worker'.mid = 0
  PROVE  Truth'
<1> USE TypesOf
<1>1. /\ thread'["poller"].pc = "idle" /\ thread'["sweep"] = thread["sweep"] /\ Poller'.pc = "idle"
      /\ NoQ.state = "none" /\ NoQ.kind = "resume"
  BY IdleType DEF Poller, Sweep, NoQ
<1>4. ReadInv'
  BY <1>1 DEF Truth, ReadInv, Grows, Answered, Dirty, Poller, Sweep
<1>5. ASSUME ~ Crossed' PROVE TapInv' /\ KindInv' /\ MidInv'
  <2>1. TapInv /\ KindInv /\ MidInv /\ ReadInv
    BY <1>5 DEF Grows, Crossed, Truth
  <2>2. TapInv'
    <3>1. worker'.mid # 0 => ShownAs(worker'.mid, worker'.gen)
      BY <2>1 DEF TapInv, Answered
    <3> QED BY <1>1, <3>1 DEF TapInv, ShownAs, Answered
  <2>3. KindInv'
    BY <1>1, <2>1 DEF KindInv, KindOf, FreshInv, Kind, Answered, Up, Dirty, ReadInv
  <2>6. Weak(pending)' /\ Weak(file.q)'
    BY <1>1, <2>1 DEF MidInv, KindInv, KindOf, Weak, Alive, Bringing, AnswerFor, Answered, Whole, NoQ, Up
  <2>7. BesideInv'
    BY <1>1, <2>1 DEF MidInv, BesideInv, ReadInv, Answered, Up, Asking
  <2>8. GiveInv'
    BY <1>1, <2>1 DEF MidInv, GiveInv, Msg, Bringing, AnswerFor, Answered, Up
  <2> QED BY <2>2, <2>3, <2>6, <2>7, <2>8 DEF MidInv
<1> QED BY <1>4, <1>5 DEF Truth

LEMMA InboxTruth ==
  ASSUME IInv, Truth, Grows, Inbox
  PROVE  Truth'
<1>1. UNCHANGED <<pending, entry, sessions, shown, file>> /\ Poller.pc = "inbox"
  BY DEF Inbox, world, Rest, At, Poller
<1>2. CASE ~ ShouldAutoRevive \/ ~ MayOffer
  BY <1>1, <1>2, PollerDone, PollerOffers DEF Inbox
<1>3. CASE ShouldAutoRevive /\ MayOffer /\ setup.preset
  <2>1. Launches(NoUpdate, entry.gen, "resume") /\ thread' = [thread EXCEPT !["poller"] = Idle]
    BY <1>3 DEF Inbox
  <2>2. /\ worker'.pc = "launch" /\ worker'.gen = entry.gen /\ worker'.kind = "resume" /\ worker'.mid = 0
        /\ Poller' = Idle /\ Sweep' = Sweep
    BY <2>1, PollerAt DEF Launches, NoUpdate
  <2>3. entry.gen # 0 /\ sessions[entry.gen] = "resume" /\ worker.pc = "off" /\ pending = NoQ
    BY <1>3, TypesOf DEF ShouldAutoRevive, Kind, MayOffer, Reviving
  <2> QED BY <1>1, <1>3, <2>2, <2>3, LaunchTruth
<1>4. CASE ShouldAutoRevive /\ MayOffer /\ ~ setup.preset
  <2>1. Offers("poller") /\ worker' = worker
    BY <1>4 DEF Inbox
  <2>2. Poller' = [Poller EXCEPT !.pc = "offer", !.gen = entry.gen, !.kind = Kind] /\ Sweep' = Sweep
    BY <2>1, TypesOf DEF Offers, Poller, Sweep
  <2>3. Poller'.pc = "offer" /\ Poller'.gen = entry.gen /\ Poller'.kind = Kind
    BY <2>2, TypesOf DEF ThreadType
  <2> QED BY <1>1, <1>4, <2>1, <2>2, <2>3, PollerOffers
<1> QED BY <1>2, <1>3, <1>4

LEMMA SweepOffersTruth ==
  ASSUME IInv, Truth, Grows, SweepOffers
  PROVE  Truth'
<1>1. UNCHANGED <<worker, pending, entry, sessions, lock, file>> /\ Offers("sweep") /\ pending = NoQ /\ worker.pc = "off" /\ ~ setup.preset
      /\ Kind = "resume"
  BY DEF SweepOffers, world, question, Rest, MayOffer, Reviving, ShouldAutoRevive
<1>2. Sweep' = [Sweep EXCEPT !.pc = "offer", !.gen = entry.gen, !.kind = Kind] /\ Poller' = Poller /\ Taps' = Taps
  BY <1>1, TypesOf DEF Offers, Poller, Sweep, Taps
<1>3. Sweep'.pc = "offer" /\ Sweep'.gen = entry.gen /\ Sweep'.kind = "resume"
  BY <1>1, <1>2, TypesOf DEF ThreadType
<1> QED BY <1>1, <1>2, <1>3, SweepTruth

(* The question is in the chat under a message of its own.                  *)
LEMMA AskedTruth ==
  ASSUME IInv, Truth, Grows, pending.state # "none", pending'.state = pending.state, pending'.kind = pending.kind,
         pending'.gen = pending.gen, pending' # NoQ,
         pending'.mid = 0 \/ (pending'.mid \in DOMAIN shown' /\ shown'[pending'.mid] = pending.gen),
         UNCHANGED <<worker, entry, sessions, file>>,
         \/ /\ Poller' = Poller /\ Taps' = Taps /\ lock = "free" /\ Sweep.pc = "send" /\ Sweep'.pc = "arm"
         \/ /\ Sweep' = Sweep /\ Poller'.pc \in {"arm", "early", "reasked"} /\ (Poller'.pc = "arm" => worker.pc = "off")
            /\ worker.pc = "off" \/ pending.state = "delivered"
  PROVE  Truth'
<1> USE TypesOf
<1>1. /\ thread["poller"] = Poller /\ thread["sweep"] = Sweep /\ thread'["poller"] = Poller' /\ thread'["sweep"] = Sweep'
      /\ NoQ.state = "none" /\ pending # NoQ
  BY DEF Poller, Sweep, NoQ
<1>4. ReadInv'
  <2>1. \A t \in Askers : thread'[t].pc = "offer" => thread'[t].gen # 0 /\ sessions[thread'[t].gen] = thread'[t].kind
    BY <1>1 DEF Truth, ReadInv
  <2> HIDE TypesOf
  <2> QED BY <1>1, <2>1 DEF Truth, ReadInv, Grows, Answered, Dirty
<1>5. ASSUME ~ Crossed' PROVE TapInv' /\ KindInv' /\ MidInv'
  <2>1. TapInv /\ KindInv /\ MidInv
    BY <1>5 DEF Grows, Crossed, Truth
  <2>2. TapInv'
    BY <2>1 DEF TapInv, ShownAs, Answered, Grows
  <2>3. KindInv'
    BY <1>1, <2>1 DEF KindInv, KindOf, FreshInv, Kind, Answered, Up, Dirty
  <2>4. ASSUME NEW g, Alive(g)' PROVE Alive(g)
    BY <2>4 DEF Alive, Bringing, AnswerFor, Answered
  <2>5. \A m \in Nat \ {0} : m <= Len(shown) => shown'[m] = shown[m]
    BY DEF Grows
  <2>6. Weak(pending)' /\ Weak(file.q)'
    BY <2>1, <2>5 DEF MidInv, Weak, Alive, Bringing, AnswerFor, Answered, Question
  <2>7. BesideInv'
    BY <1>1, <2>1 DEF MidInv, BesideInv, Answered, Up, Asking
  <2>8. GiveInv'
    BY <1>1, <2>1 DEF MidInv, GiveInv, Msg, Bringing, AnswerFor, Answered, Up
  <2> QED BY <2>2, <2>3, <2>6, <2>7, <2>8 DEF MidInv
<1> QED BY <1>4, <1>5 DEF Truth

LEMMA ShowFacts ==
  ASSUME IInv, Show, pending # NoQ, pending' = [pending EXCEPT !.mid = NewMid]
  PROVE  /\ pending.state # "none" /\ pending'.state = pending.state /\ pending'.kind = pending.kind
         /\ pending'.gen = pending.gen /\ pending' # NoQ
         /\ pending'.mid = 0 \/ (pending'.mid \in DOMAIN shown' /\ shown'[pending'.mid] = pending.gen)
<1>1. pending.state # "none"
  BY DEF IInv, QuestionInv, Sound, Whole
<1>2. /\ pending'.state = pending.state /\ pending'.kind = pending.kind /\ pending'.gen = pending.gen /\ pending'.mid = NewMid
  BY TypesOf DEF Question
<1>3. shown \in Seq(Nat) /\ pending.gen \in Nat /\ Len(shown) \in Nat
  BY TypesOf, ReopenAssumption DEF IInv, WorldInv, Question
<1>4. shown'[Len(shown) + 1] = pending.gen /\ Len(shown) + 1 \in DOMAIN shown'
  BY <1>3, AppendProperties, LenProperties DEF Show
<1> QED BY <1>1, <1>2, <1>4 DEF NewMid, NoQ

LEMMA AskerGoes ==
  ASSUME IInv, NEW t \in Askers, NEW pc, Goes(t, pc)
  PROVE  /\ t = "poller" => Poller'.pc = pc /\ Sweep' = Sweep
         /\ t = "sweep" => Sweep'.pc = pc /\ Poller' = Poller /\ Taps' = Taps
BY TypesOf DEF Goes, Poller, Sweep, Taps, ThreadType

LEMMA SendOfferTruth ==
  ASSUME IInv, Truth, Grows, NEW t \in Askers, SendOffer(t)
  PROVE  Truth'
<1>1. At(t, "send") /\ lock = "free" /\ UNCHANGED <<entry, sessions, worker, file, lock>>
  BY DEF SendOffer, Rest
<1>2. t \in {"poller", "sweep"} /\ (t = "poller" => Poller.pc = "send") /\ (t = "sweep" => Sweep.pc = "send")
  BY <1>1, TypesOf DEF At, Poller, Sweep
<1>3. t = "poller" => worker.pc = "off"
  BY <1>2 DEF Truth, ReadInv, Dirty
<1>4. CASE pending # NoQ /\ Show /\ pending' = [pending EXCEPT !.mid = NewMid] /\ Goes(t, "arm")
  <2>1. /\ t = "poller" => Poller'.pc = "arm" /\ Sweep' = Sweep
        /\ t = "sweep" => Sweep'.pc = "arm" /\ Poller' = Poller /\ Taps' = Taps
    BY <1>4, AskerGoes
  <2> QED BY <1>1, <1>2, <1>3, <1>4, <2>1, ShowFacts, AskedTruth
<1>5. ASSUME NEW pc \in {"arm", "drop"}, Goes(t, pc), pending' = pending PROVE Truth'
  <2>1. /\ t = "poller" => Poller'.pc = pc /\ Sweep' = Sweep
        /\ t = "sweep" => Sweep'.pc = pc /\ Poller' = Poller /\ Taps' = Taps
    BY <1>5, AskerGoes
  <2>2. pc \in Dirty /\ pc \notin Answered \cup {"offer", "authority", "check", "prepared", "send"}
    BY DEF Dirty, Answered
  <2>3. file'.q \in {file.q, pending}
    BY <1>1
  <2>4. CASE t = "poller"
    BY <1>1, <1>3, <1>5, <2>1, <2>2, <2>3, <2>4, PollerTruth
  <2>5. CASE t = "sweep"
    <3>1. Sweep.pc \in Dirty /\ Sweep'.pc \in Dirty /\ Sweep'.pc \notin {"prepared", "send"}
      BY <1>2, <2>1, <2>2, <2>5 DEF Dirty
    <3> QED BY <1>1, <1>5, <2>1, <2>3, <2>5, <3>1, SweepTruth
  <2> QED BY <1>2, <2>4, <2>5
<1> QED BY <1>4, <1>5 DEF SendOffer

LEMMA AskAgainTruth ==
  ASSUME IInv, Truth, Grows, AskAgain
  PROVE  Truth'
<1>1. UNCHANGED <<entry, sessions, worker, file, lock>> /\ pending.state = "delivered" /\ pending # NoQ
  BY DEF AskAgain, Rest, NoQ
<1>2. ASSUME NEW pc \in {"early", "reasked"}, Goes("poller", pc), pending' = pending PROVE Truth'
  <2>1. Poller'.pc = pc /\ Sweep' = Sweep
    BY <1>2, PollerGoes
  <2>2. pc \notin Answered \cup Dirty \cup {"offer", "authority", "check"}
    BY DEF Dirty, Answered
  <2>3. file'.q \in {file.q, pending}
    BY <1>1
  <2> QED BY <1>1, <1>2, <2>1, <2>2, <2>3, PollerTruth
<1>3. ASSUME NEW pc \in {"early", "reasked"}, Goes("poller", pc), Show, pending' = [pending EXCEPT !.mid = NewMid] PROVE Truth'
  <2>1. Poller'.pc = pc /\ Sweep' = Sweep
    BY <1>3, PollerGoes
  <2> QED BY <1>1, <1>3, <2>1, ShowFacts, AskedTruth
<1> QED BY <1>2, <1>3 DEF AskAgain

(* The record is gone, beside nobody who needs it.                          *)
LEMMA GoneTruth ==
  ASSUME IInv, Truth, Grows, pending' = NoQ, UNCHANGED <<entry, sessions, shown>>, file'.q \in {file.q, NoQ},
         (Poller' = Poller /\ Taps' = Taps) \/ Poller'.pc \in {"idle", "dropped", "forgot"},
         Sweep' = Sweep \/ Sweep'.pc \in {"idle", "dropped"},
         worker' = worker \/ (worker'.pc = "forgot" /\ worker.pc # "off" /\ worker'.gen = worker.gen
                              /\ worker'.kind = worker.kind /\ worker'.mid = worker.mid),
         Crossed \/ /\ Poller'.pc \in Answered => Poller'.kind = "resume" /\ Sweep'.pc # "offer"
                    /\ worker'.pc \in Up => worker'.kind = "resume" /\ Sweep'.pc # "offer"
                    /\ Sweep'.pc \in Dirty => Poller'.pc # "offer"
                    /\ ~ (Taps' /\ Poller'.pc = "check")
  PROVE  Truth'
<1> USE TypesOf
<1>1. /\ thread["poller"] = Poller /\ thread["sweep"] = Sweep /\ thread'["poller"] = Poller' /\ thread'["sweep"] = Sweep'
      /\ NoQ.state = "none" /\ NoQ.mid = 0 /\ NoQ.kind = "resume"
  BY DEF Poller, Sweep, NoQ
<1>4. ReadInv'
  <2>1. \A t \in Askers : thread'[t].pc = "offer" => thread'[t].gen # 0 /\ sessions[thread'[t].gen] = thread'[t].kind
    BY <1>1 DEF Truth, ReadInv
  <2> HIDE TypesOf
  <2> QED BY <1>1, <2>1 DEF Truth, ReadInv, Grows, Answered, Dirty
<1>5. ASSUME ~ Crossed' PROVE TapInv' /\ KindInv' /\ MidInv'
  <2>1. TapInv /\ KindInv /\ MidInv /\ ~ Crossed
    BY <1>5 DEF Grows, Crossed, Truth
  <2>2. TapInv'
    BY <2>1 DEF TapInv, ShownAs, Answered
  <2>3. KindInv'
    BY <1>1, <2>1 DEF KindInv, KindOf, FreshInv, Kind, Answered, Up, Dirty
  <2>6. Weak(pending)' /\ Weak(file.q)'
    BY <1>1, <2>1 DEF MidInv, Weak, Alive, Bringing, AnswerFor, Answered
  <2>7. BesideInv'
    BY <1>1, <2>1 DEF MidInv, BesideInv, Answered, Up, Asking
  <2>8. GiveInv'
    BY <1>1, <2>1 DEF MidInv, GiveInv
  <2> QED BY <2>2, <2>3, <2>6, <2>7, <2>8 DEF MidInv
<1> QED BY <1>4, <1>5 DEF Truth

LEMMA DropsTruth ==
  ASSUME IInv, Truth, Grows, (\E t \in Askers : Undeliverable(t)) \/ SweepForgets \/ CheckStale \/ Forget
  PROVE  Truth'
<1> USE TypesOf
<1>1. pending' = NoQ /\ UNCHANGED <<entry, sessions, shown, file>>
  BY DEF Undeliverable, SweepForgets, CheckStale, Forget, Changes, world, Rest
<1>2. Poller.kind \in {"resume", "fresh"} /\ worker.kind \in {"resume", "fresh"}
  BY DEF ThreadType, WorkerType, ReviveKinds
<1>3. CASE \E t \in Askers : Undeliverable(t)
  <2>1. PICK t \in Askers : Undeliverable(t)
    BY <1>3
  <2>2. At(t, "drop") /\ Mine(t) /\ Goes(t, "dropped") /\ worker' = worker
    BY <2>1 DEF Undeliverable, Changes, Goes
  <2>3. /\ t = "poller" => Poller'.pc = "dropped" /\ Sweep' = Sweep /\ Poller.pc = "drop"
        /\ t = "sweep" => Sweep'.pc = "dropped" /\ Poller' = Poller /\ Taps' = Taps /\ Sweep.pc = "drop"
    BY <2>2, AskerGoes DEF At, Poller, Sweep
  <2>4. CASE t = "poller"
    <3>1. worker.pc = "off"
      BY <2>3, <2>4 DEF Truth, ReadInv, Dirty
    <3> QED BY <1>1, <2>2, <2>3, <2>4, <3>1, GoneTruth DEF Answered, Up
  <2>5. CASE t = "sweep"
    <3>1. Crossed \/ /\ Poller.pc \in Answered => Poller.kind = "resume"
                     /\ worker.pc \in Up => worker.kind = "resume"
                     /\ ~ (Taps /\ Poller.pc = "check")
      BY <2>2, <2>3, <2>5 DEF Truth, KindInv, FreshInv, TapInv, Mine, Dirty
    <3> QED BY <1>1, <2>2, <2>3, <2>5, <3>1, GoneTruth DEF Dirty
  <2> QED BY <2>4, <2>5
<1>4. CASE SweepForgets
  <2>1. At("sweep", "idle") /\ Mine("sweep") /\ Goes("sweep", "dropped") /\ worker' = worker /\ pending.state = "prepared"
    BY <1>4 DEF SweepForgets, Changes, Goes
  <2>2. Sweep'.pc = "dropped" /\ Poller' = Poller /\ Taps' = Taps
    BY <2>1, AskerGoes
  <2>3. Crossed \/ /\ Poller.pc \in Answered => Poller.kind = "resume"
                   /\ worker.pc \in Up => worker.kind = "resume"
                   /\ ~ (Taps /\ Poller.pc = "check")
    BY <1>2, <2>1 DEF Truth, KindInv, FreshInv, TapInv, Mine, Answered
  <2> QED BY <1>1, <2>1, <2>2, <2>3, GoneTruth DEF Dirty
<1>5. CASE CheckStale
  <2>1. At("poller", "check") /\ pending.state = "delivered" /\ worker' = worker
        /\ thread' = [thread EXCEPT !["poller"].pc = "forgot", !["poller"].kind = pending.kind]
    BY <1>5 DEF CheckStale
  <2>2. Sweep' = Sweep /\ Poller' = [Poller EXCEPT !.pc = "forgot", !.kind = pending.kind] /\ Poller.pc = "check"
    BY <2>1 DEF Poller, Sweep, At
  <2>3. Poller'.pc = "forgot"
    BY <2>2 DEF ThreadType
  <2>4. Crossed \/ (worker.pc \in Up => worker.kind = "resume" /\ Sweep.pc # "offer")
    BY <1>2, <2>1 DEF Truth, KindInv, FreshInv, MidInv, BesideInv, Asking
  <2> QED BY <1>1, <2>1, <2>2, <2>3, <2>4, GoneTruth DEF Answered
<1>6. CASE Forget
  <2>1. worker.pc = "bound" /\ lock = "free" /\ worker' = [worker EXCEPT !.pc = "forgot"] /\ thread' = thread
    BY <1>6 DEF Forget
  <2>2. worker'.pc = "forgot" /\ worker'.gen = worker.gen /\ worker'.kind = worker.kind /\ worker'.mid = worker.mid
    BY <2>1 DEF WorkerType
  <2>3. Poller' = Poller /\ Sweep' = Sweep /\ Taps' = Taps
    BY <2>1 DEF Poller, Sweep, Taps
  <2>4. Crossed \/ /\ Poller.pc \in Answered => Poller.kind = "resume" /\ Sweep.pc # "offer"
                   /\ ~ (Taps /\ Poller.pc = "check")
    BY <1>2, <2>1 DEF Truth, KindInv, FreshInv, TapInv, MidInv, BesideInv, Asking, Up
  <2>5. Sweep.pc \in Dirty => Poller.pc # "offer"
    BY <2>1 DEF Truth, ReadInv
  <2> QED BY <1>1, <2>1, <2>2, <2>3, <2>4, <2>5, GoneTruth DEF Up
<1> QED BY <1>3, <1>4, <1>5, <1>6

LEMMA CheckTruth ==
  ASSUME IInv, Truth, Grows, Check
  PROVE  Truth'
<1> USE TypesOf
<1>1. /\ At("poller", "check") /\ pending.state = "delivered" /\ Matches(pending)
      /\ thread' = [thread EXCEPT !["poller"].pc = "answer", !["poller"].gen = entry.gen, !["poller"].kind = Kind]
      /\ UNCHANGED <<worker, pending, entry, sessions, shown, file>>
  BY DEF Check, world, question, Rest
<1>2. /\ Sweep' = Sweep /\ Poller' = [Poller EXCEPT !.pc = "answer", !.gen = entry.gen, !.kind = Kind] /\ Poller.pc = "check"
      /\ thread'["poller"] = Poller' /\ thread'["sweep"] = thread["sweep"]
  BY <1>1 DEF Poller, Sweep, At
<1>3. Poller'.pc = "answer" /\ Poller'.gen = entry.gen /\ Poller'.kind = Kind /\ Poller'.x = Poller.x
  BY <1>2 DEF ThreadType
<1>4. Taps' = Taps
  BY <1>2, <1>3 DEF Taps, Poller
<1>5. pending.gen = entry.gen /\ pending.kind = Kind /\ pending # NoQ
  BY <1>1 DEF Matches, Unrevivable, ShouldAutoRevive, NoQ, Question
<1>6. ReadInv'
  BY <1>1, <1>2, <1>3 DEF Truth, ReadInv, Grows, Answered, Dirty, Kind, Poller, Sweep
<1>7. ASSUME ~ Crossed' PROVE TapInv' /\ KindInv' /\ MidInv'
  <2>1. TapInv /\ KindInv /\ MidInv /\ ~ Crossed
    BY <1>7 DEF Grows, Crossed, Truth
  <2>2. TapInv'
    <3>1. ASSUME Taps PROVE ShownAs(Poller.x.mid, entry.gen)
      <4>1. Poller.x.mid = pending.mid /\ pending.mid # 0 /\ Alive(pending.gen)
        BY <1>2, <1>5, <2>1, <3>1 DEF TapInv, Alive
      <4> QED BY <1>5, <2>1, <4>1 DEF MidInv, Weak, ShownAs, Question
    <3> QED BY <1>1, <1>3, <1>4, <2>1, <3>1 DEF TapInv, ShownAs, Answered
  <2>3. KindInv'
    BY <1>1, <1>2, <1>3, <1>5, <2>1 DEF KindInv, KindOf, FreshInv, Kind, Answered, Up, Dirty
  <2>6. Weak(pending)' /\ Weak(file.q)'
    BY <1>1, <1>2, <1>3, <2>1 DEF MidInv, Weak, Alive, Bringing, AnswerFor, Answered
  <2>7. BesideInv'
    BY <1>1, <1>2, <1>3, <1>5, <2>1 DEF MidInv, BesideInv, Answered, Up, Asking
  <2>8. GiveInv'
    BY <1>1, <1>2, <1>3, <1>5, <2>1 DEF MidInv, GiveInv, Msg, Bringing, AnswerFor, Answered
  <2> QED BY <2>2, <2>3, <2>6, <2>7, <2>8 DEF MidInv
<1> QED BY <1>6, <1>7 DEF Truth

LEMMA TakeAnswerTruth ==
  ASSUME IInv, Truth, Grows, TakeAnswer
  PROVE  Truth'
<1> USE TypesOf
<1>1. Poller.pc = "answer" /\ UNCHANGED <<worker, entry, sessions, shown, file>>
  BY DEF TakeAnswer, At, Poller, Changes, Rest
<1>2. CASE pending = NoQ
  <2>1. pending' = pending /\ (Done("poller") \/ Goes("poller", "early"))
    BY <1>2 DEF TakeAnswer, Moves
  <2> QED BY <1>1, <2>1, PollerDone, PollerGoes, PollerOffers
<1>3. CASE pending # NoQ
  <2>1. pending' = [pending EXCEPT !.state = "reviving"] /\ Goes("poller", "reviving")
    BY <1>3 DEF TakeAnswer, Changes, Goes
  <2>2. /\ Poller'.pc = "reviving" /\ Sweep' = Sweep /\ Poller'.x = Poller.x /\ Poller'.gen = Poller.gen
        /\ Poller'.kind = Poller.kind /\ Taps' = Taps
    BY <2>1, PollerGoes DEF Taps, Poller
  <2>3. /\ pending'.state = "reviving" /\ pending'.kind = pending.kind /\ pending'.gen = pending.gen
        /\ pending'.mid = pending.mid /\ pending' # NoQ /\ pending.state # "none"
    BY <1>3, <2>1 DEF Question, NoQ, Whole
  <2>4. thread'["poller"] = Poller' /\ thread'["sweep"] = thread["sweep"]
    BY <2>2 DEF Poller, Sweep
  <2>5. ReadInv'
    BY <1>1, <2>2, <2>4 DEF Truth, ReadInv, Grows, Answered, Dirty, Poller, Sweep
  <2>6. ASSUME ~ Crossed' PROVE TapInv' /\ KindInv' /\ MidInv'
    <3>1. TapInv /\ KindInv /\ MidInv /\ ~ Crossed
      BY <2>6 DEF Grows, Crossed, Truth
    <3>2. TapInv'
      BY <1>1, <2>2, <3>1 DEF TapInv, ShownAs, Answered
    <3>3. KindInv'
      BY <1>1, <2>2, <2>3, <3>1 DEF KindInv, KindOf, FreshInv, Kind, Answered, Up, Dirty
    <3>6. Weak(pending)' /\ Weak(file.q)'
      BY <1>1, <2>2, <2>3, <3>1 DEF MidInv, Weak, Alive, Bringing, AnswerFor, Answered
    <3>7. BesideInv'
      BY <1>1, <2>2, <2>3, <3>1 DEF MidInv, BesideInv, Answered, Up, Asking
    <3>8. GiveInv'
      BY <1>1, <2>2, <2>3, <3>1 DEF MidInv, BesideInv, GiveInv, Msg, Bringing, AnswerFor, Answered, Up
    <3> QED BY <3>2, <3>3, <3>6, <3>7, <3>8 DEF MidInv
  <2> QED BY <2>5, <2>6 DEF Truth
<1> QED BY <1>2, <1>3

LEMMA TakeEarlyTruth ==
  ASSUME IInv, Truth, Grows, TakeEarly
  PROVE  Truth'
<1> USE TypesOf
<1>1. /\ At("poller", "authority") /\ pending' = [NoQ EXCEPT !.state = "delivered", !.gen = thread["poller"].gen]
      /\ Goes("poller", "claimed") /\ UNCHANGED <<worker, entry, sessions, shown, file>>
      /\ Crossed' \/ pending = NoQ
  BY DEF TakeEarly, Changes, Goes, Overwrites, Crossed
<1>2. /\ Poller.pc = "authority" /\ Poller'.pc = "claimed" /\ Sweep' = Sweep /\ Poller'.x = Poller.x
      /\ thread'["poller"] = Poller' /\ thread'["sweep"] = thread["sweep"]
  BY <1>1, PollerGoes DEF Poller, Sweep, At
<1>3. /\ pending'.state = "delivered" /\ pending'.kind = "resume" /\ pending'.gen = Poller.gen /\ pending'.mid = 0
      /\ pending' # NoQ
  BY <1>1 DEF NoQ, Poller
<1>4. worker.pc = "off" /\ Poller.gen # 0 /\ sessions[Poller.gen] = "resume"
  BY <1>2 DEF Truth, ReadInv
<1>6. ReadInv'
  BY <1>1, <1>2, <1>4 DEF Truth, ReadInv, Grows, Answered, Dirty, Poller, Sweep
<1>7. ASSUME ~ Crossed' PROVE TapInv' /\ KindInv' /\ MidInv'
  <2>1. TapInv /\ KindInv /\ MidInv /\ ~ Crossed
    BY <1>7 DEF Grows, Crossed, Truth
  <2>2. TapInv'
    BY <1>1, <1>2, <1>4, <2>1 DEF TapInv, ShownAs, Answered
  <2>3. KindInv'
    BY <1>1, <1>2, <1>3, <1>4, <2>1 DEF KindInv, KindOf, FreshInv, Kind, Answered, Up, Dirty
  <2>6. Weak(pending)' /\ Weak(file.q)'
    BY <1>1, <1>2, <1>3, <2>1 DEF MidInv, Weak, Alive, Bringing, AnswerFor, Answered
  <2>7. BesideInv' /\ GiveInv'
    BY <1>1, <1>2, <1>3, <1>4 DEF MidInv, BesideInv, GiveInv, Answered, Up
  <2> QED BY <2>2, <2>3, <2>6, <2>7 DEF MidInv
<1> QED BY <1>6, <1>7 DEF Truth

LEMMA ArmTruth ==
  ASSUME IInv, Truth, Grows, NEW t \in Askers, Arm(t)
  PROVE  Truth'
<1> USE TypesOf
<1>1. At(t, "arm") /\ Mine(t) /\ UNCHANGED <<worker, entry, sessions, shown, file>>
  BY DEF Arm, Changes, Rest
<1>2. t \in {"poller", "sweep"} /\ (t = "poller" => Poller.pc = "arm") /\ (t = "sweep" => Sweep.pc = "arm")
  BY <1>1 DEF At, Poller, Sweep
<1>3. t = "poller" => worker.pc = "off"
  BY <1>2 DEF Truth, ReadInv, Dirty
<1>4. CASE pending = NoQ
  <2>1. Done(t) /\ pending' = pending
    BY <1>4 DEF Arm
  <2>2. CASE t = "poller"
    BY <1>1, <2>1, <2>2, PollerDone, PollerOffers
  <2>3. CASE t = "sweep"
    <3>1. Sweep'.pc = "idle" /\ Poller' = Poller /\ Taps' = Taps
      BY <2>1, <2>3, IdleType DEF Done, Poller, Sweep, Taps
    <3>2. Crossed \/ ~ (Taps /\ Poller.pc = "check")
      BY <1>1, <2>3 DEF Truth, TapInv, Mine
    <3> QED BY <1>1, <2>1, <3>1, <3>2, SweepTruth DEF Dirty
  <2> QED BY <1>2, <2>2, <2>3
<1>5. CASE pending # NoQ
  <2>1. pending' = [pending EXCEPT !.state = "delivered"] /\ Goes(t, "armed")
    BY <1>5 DEF Arm, Changes, Goes
  <2>2. /\ t = "poller" => Poller'.pc = "armed" /\ Sweep' = Sweep
        /\ t = "sweep" => Sweep'.pc = "armed" /\ Poller' = Poller /\ Taps' = Taps
    BY <2>1, AskerGoes
  <2>3. /\ pending'.state = "delivered" /\ pending'.kind = pending.kind /\ pending'.gen = pending.gen
        /\ pending'.mid = pending.mid /\ pending' # NoQ /\ pending.state # "none"
    BY <1>5, <2>1 DEF Question, NoQ, Whole
  <2>4. /\ thread["poller"] = Poller /\ thread["sweep"] = Sweep /\ thread'["poller"] = Poller' /\ thread'["sweep"] = Sweep'
    BY DEF Poller, Sweep
  <2>5. ReadInv'
    <3>1. \A u \in Askers : thread'[u].pc = "offer" => thread'[u].gen # 0 /\ sessions[thread'[u].gen] = thread'[u].kind
      BY <1>2, <2>2, <2>4 DEF Truth, ReadInv
    <3>2. "preset" \in DOMAIN setup' /\ setup'.preset = setup.preset
      BY DEF Truth, ReadInv, Grows
    <3> HIDE TypesOf
    <3> QED BY <1>1, <1>2, <1>3, <2>2, <2>4, <3>1, <3>2 DEF Truth, ReadInv, Answered, Dirty
  <2>6. ASSUME ~ Crossed' PROVE TapInv' /\ KindInv' /\ MidInv'
    <3>1. TapInv /\ KindInv /\ MidInv /\ ~ Crossed
      BY <2>6 DEF Grows, Crossed, Truth
    <3>2. TapInv'
      BY <1>1, <1>2, <2>2, <3>1 DEF TapInv, ShownAs, Answered, Mine
    <3>3. KindInv'
      BY <1>1, <1>2, <1>3, <2>2, <2>3, <3>1 DEF KindInv, KindOf, FreshInv, Kind, Answered, Up, Dirty, ThreadType, WorkerType, ReviveKinds
    <3>4. Poller'.pc \in Answered => Poller' = Poller
      BY <1>2, <2>2 DEF Answered
    <3>6. Weak(pending)' /\ Weak(file.q)'
      BY <1>1, <2>3, <3>1, <3>4 DEF MidInv, Weak, Alive, Bringing, AnswerFor
    <3>7. BesideInv'
      BY <1>1, <1>2, <1>3, <2>2, <2>3, <3>1 DEF MidInv, BesideInv, Answered, Up, Asking
    <3>8. GiveInv'
      BY <1>1, <1>2, <1>3, <2>2, <2>3, <3>1 DEF MidInv, BesideInv, GiveInv, Msg, Bringing, AnswerFor, Answered, Up
    <3> QED BY <3>2, <3>3, <3>6, <3>7, <3>8 DEF MidInv
  <2> QED BY <2>5, <2>6 DEF Truth
<1> QED BY <1>4, <1>5

(* The question given back is about the session the answer was for.         *)
LEMMA GivenBackIs ==
  ASSUME IInv, NEW g \in Nat, pending.state # "delivered", pending' = Restored(g)
  PROVE  /\ pending'.state = "delivered" /\ pending'.kind = pending.kind /\ pending'.gen = g
         /\ pending'.mid = pending.mid /\ pending' # NoQ /\ (pending.state = "none" => pending.mid = 0)
<1>1. pending' = [pending EXCEPT !.state = "delivered", !.gen = g] /\ pending \in Question
  BY TypesOf DEF Restored, Rearmed
<1>2. pending.state = "none" => pending.mid = 0
  BY TypesOf DEF Whole, NoQ
<1>3. pending = [state |-> pending.state, kind |-> pending.kind, gen |-> pending.gen, mid |-> pending.mid]
  BY <1>1 DEF Question
<1>4. pending' = [state |-> "delivered", kind |-> pending.kind, gen |-> g, mid |-> pending.mid]
  BY <1>1, <1>3
<1>5. pending' # NoQ
  BY <1>4 DEF NoQ
<1> QED BY <1>2, <1>4, <1>5

LEMMA GivenBackTruth ==
  ASSUME IInv, Truth, Grows, Poller.pc = "start", pending.state # "delivered", pending' = Restored(Poller.gen),
         Poller'.pc = "rearmed", Sweep' = Sweep, UNCHANGED <<worker, entry, sessions, shown, file>>
  PROVE  Truth'
<1> USE TypesOf
<1>1. /\ thread["poller"] = Poller /\ thread["sweep"] = Sweep /\ thread'["poller"] = Poller' /\ thread'["sweep"] = Sweep
  BY DEF Poller, Sweep
<1>2. Poller.gen \in Nat /\ Poller.gen \in DOMAIN sessions
  BY DEF Fits, Answered
<1>3. /\ pending'.state = "delivered" /\ pending'.kind = pending.kind /\ pending'.gen = Poller.gen
      /\ pending'.mid = pending.mid /\ pending' # NoQ /\ (pending.state = "none" => pending.mid = 0)
  BY <1>2, GivenBackIs
<1>4. ReadInv'
  <2>1. \A t \in Askers : thread'[t].pc = "offer" => thread'[t].gen # 0 /\ sessions[thread'[t].gen] = thread'[t].kind
    BY <1>1 DEF Truth, ReadInv
  <2> HIDE TypesOf
  <2> QED BY <1>1, <2>1 DEF Truth, ReadInv, Grows, Answered, Dirty
<1>5. ASSUME ~ Crossed' PROVE TapInv' /\ KindInv' /\ MidInv'
  <2>1. TapInv /\ KindInv /\ MidInv /\ ReadInv
    BY <1>5 DEF Grows, Crossed, Truth
  <2>2. TapInv'
    BY <2>1 DEF TapInv, ShownAs, Answered
  <2>3. KindInv'
    BY <1>2, <1>3, <2>1 DEF KindInv, KindOf, FreshInv, ReadInv, Kind, Answered, Up, Dirty
  <2>4. AnswerFor(Poller.gen)
    BY DEF AnswerFor, Answered
  <2>5. Weak(pending)'
    <3>1. SUFFICES ASSUME pending.mid # 0, shown[pending.mid] # Poller.gen
                   PROVE  entry.gen # Poller.gen /\ ~ Bringing(Poller.gen)
      BY <1>3 DEF Weak, Alive, Bringing, AnswerFor, Answered
    <3>2. pending.gen # Poller.gen
      BY <2>1, <2>4, <3>1 DEF MidInv, Weak, Alive
    <3>3. pending.state \in {"prepared", "reviving"}
      BY <1>3, <3>1 DEF Question
    <3> QED BY <2>1, <3>1, <3>2, <3>3 DEF MidInv, GiveInv, Msg, Answered
  <2>6. Weak(file.q)'
    BY <2>1 DEF MidInv, Weak, Alive, Bringing, AnswerFor, Answered
  <2>7. BesideInv'
    BY <1>3, <2>1 DEF MidInv, BesideInv, Answered, Up, Asking
  <2>8. GiveInv'
    BY <1>3, <2>1 DEF MidInv, GiveInv, Answered
  <2> QED BY <2>2, <2>3, <2>5, <2>6, <2>7, <2>8 DEF MidInv
<1> QED BY <1>4, <1>5 DEF Truth

LEMMA StartAnsweredTruth ==
  ASSUME IInv, Truth, Grows, StartAnswered
  PROVE  Truth'
<1> USE TypesOf
<1>1. Poller.pc = "start" /\ UNCHANGED <<entry, sessions, shown, file>>
  BY DEF StartAnswered, At, Poller, world, Rest
<1>2. CASE ~ Reviving /\ Launches(Poller.x, Poller.gen, Poller.kind) /\ Done("poller") /\ UNCHANGED pending
  <2>1. /\ worker'.pc = "launch" /\ worker'.gen = Poller.gen /\ worker'.kind = Poller.kind /\ worker'.mid = Poller.x.mid
        /\ worker.pc = "off"
    BY <1>2 DEF Launches, Reviving
  <2>2. Poller.gen # 0 /\ sessions[Poller.gen] = Poller.kind
    BY <1>1 DEF Truth, ReadInv, Fits, Answered
  <2>3. Poller.x.mid # 0 => Taps
    BY DEF ThreadType, UpdateType, Taps, Poller
  <2> QED BY <1>1, <1>2, <2>1, <2>2, <2>3, PollerDone, LaunchTruth
<1>3. CASE /\ UNCHANGED worker /\ pending' = Restored(Poller.gen)
           /\ IF pending.state = "delivered" THEN Done("poller") ELSE Moves("poller", "rearmed")
  <2>1. CASE pending.state = "delivered"
    <3>1. pending' = pending
      BY <1>3, <2>1 DEF Restored
    <3> QED BY <1>1, <1>3, <2>1, <3>1, PollerDone, PollerOffers
  <2>2. CASE pending.state # "delivered"
    <3>1. Poller'.pc = "rearmed" /\ Sweep' = Sweep
      BY <1>3, <2>2, PollerGoes DEF Moves
    <3> QED BY <1>1, <1>3, <2>2, <3>1, GivenBackTruth
  <2> QED BY <2>1, <2>2
<1> QED BY <1>2, <1>3 DEF StartAnswered, Poller

(* The session is up in the topic, or its start has failed.                 *)
LEMMA EndsLaunch ==
  ASSUME IInv, Truth, Grows, BindWorker \/ ReviveFails
  PROVE  Truth'
<1> USE TypesOf
<1>1. /\ worker.pc = "launch" /\ worker' = [worker EXCEPT !.pc = worker'.pc] /\ worker'.pc \in {"bound", "failed"}
      /\ UNCHANGED <<pending, lock, shown, thread, file>>
  BY DEF BindWorker, ReviveFails, question, world, Rest, WorkerType
<1>2. worker'.gen = worker.gen /\ worker'.kind = worker.kind /\ worker'.mid = worker.mid
  <2> DEFINE pc == worker'.pc
  <2> HIDE DEF pc
  <2>1. worker' = [worker EXCEPT !.pc = pc]
    BY <1>1 DEF pc
  <2> QED BY <2>1 DEF WorkerType
<1>3. Poller' = Poller /\ Sweep' = Sweep /\ Taps' = Taps /\ thread["poller"] = Poller /\ thread["sweep"] = Sweep
  BY <1>1 DEF Poller, Sweep, Taps
<1>4. worker.kind \in ReviveKinds /\ worker.gen # 0 /\ sessions[worker.gen] = worker.kind
  BY <1>1 DEF WorkerType, Truth, ReadInv
<1>5. \/ entry'.gen = entry.gen /\ sessions' = sessions
      \/ entry'.gen = worker.gen /\ sessions' = sessions /\ Kind' = worker.kind /\ worker'.pc = "bound"
      \/ entry'.gen \notin DOMAIN sessions /\ entry'.gen # 0 /\ worker.kind = "fresh" /\ worker'.pc = "bound"
  <2>1. CASE ReviveFails
    BY <2>1 DEF ReviveFails, world
  <2>2. CASE BindWorker /\ worker.kind = "fresh"
    <3>1. NewSession("fresh") /\ worker' = [worker EXCEPT !.pc = "bound"]
      BY <2>2 DEF BindWorker
    <3>2. entry'.gen \notin DOMAIN sessions /\ entry'.gen # 0
      BY <3>1, NewSessionKind DEF ReviveKinds
    <3>3. worker'.pc = "bound"
      BY <3>1 DEF WorkerType
    <3> QED BY <2>2, <3>2, <3>3
  <2>3. CASE BindWorker /\ worker.kind # "fresh"
    <3>1. entry' = [gen |-> worker.gen, ended |-> FALSE] /\ sessions' = sessions /\ worker' = [worker EXCEPT !.pc = "bound"]
      BY <2>3 DEF BindWorker
    <3>2. entry'.gen = worker.gen /\ worker'.pc = "bound"
      BY <3>1 DEF WorkerType
    <3> QED BY <1>4, <3>1, <3>2 DEF Kind
  <2> QED BY <2>1, <2>2, <2>3
<1>6. ReadInv'
  <2>1. /\ \A t \in Askers : thread[t].pc = "offer" => thread[t].gen \in DOMAIN sessions
        /\ Poller.pc \in Answered \cup {"authority"} => Poller.gen \in DOMAIN sessions
        /\ worker.gen \in DOMAIN sessions
    BY <1>1, <1>3 DEF Truth, ReadInv, Fits
  <2>2. \A t \in Askers : thread'[t].pc = "offer" => thread'[t].gen # 0 /\ sessions'[thread'[t].gen] = thread'[t].kind
    BY <1>1, <2>1 DEF Truth, ReadInv, Grows
  <2> HIDE TypesOf
  <2> QED BY <1>1, <1>2, <1>3, <2>1, <2>2 DEF Truth, ReadInv, Grows
<1>7. ASSUME ~ Crossed' PROVE TapInv' /\ KindInv' /\ MidInv'
  <2>1. TapInv /\ KindInv /\ MidInv /\ ~ Crossed
    BY <1>7 DEF Grows, Crossed, Truth
  <2>2. TapInv'
    BY <1>1, <1>2, <1>3, <2>1 DEF TapInv, ShownAs
  <2>3. KindInv'
    <3>1. KindOf(pending)' /\ KindOf(file.q)'
      BY <1>1, <2>1 DEF KindInv, KindOf, Grows
    <3>2. worker.pc \in Up /\ worker'.pc \in Up
      BY <1>1 DEF Up
    <3>3. Sweep.pc \in Dirty \cup {"offer"} => Kind' = "resume"
      BY <1>5, <2>1, <3>2 DEF KindInv, FreshInv, Kind
    <3>4. FreshInv'
      BY <1>1, <1>2, <1>3, <2>1, <3>2, <3>3 DEF KindInv, FreshInv
    <3> QED BY <1>1, <1>2, <1>3, <2>1, <3>1, <3>2, <3>4 DEF KindInv
  <2>4. ~ Bringing(0) /\ \A g \in DOMAIN sessions : Alive(g)' => Alive(g)
    BY <1>1, <1>2, <1>3, <1>5 DEF Alive, Bringing, AnswerFor
  <2>5. Weak(pending)' /\ Weak(file.q)'
    <3>1. /\ pending.mid # 0 => pending.gen \in DOMAIN sessions
          /\ file.q.mid # 0 => file.q.gen \in DOMAIN sessions
      BY <2>1 DEF KindInv, KindOf, Whole, NoQ
    <3> QED BY <1>1, <2>1, <2>4, <3>1 DEF MidInv, Weak, Alive, Bringing, AnswerFor
  <2>6. BesideInv'
    BY <1>1, <1>2, <1>3, <1>5, <2>1 DEF MidInv, BesideInv, Up, Asking
  <2>7. GiveInv'
    <3>1. Poller.pc \in Answered => Poller.gen \in DOMAIN sessions
      BY DEF Fits
    <3> QED BY <1>1, <1>2, <1>3, <1>5, <2>1, <3>1 DEF MidInv, GiveInv, Msg, Bringing, AnswerFor
  <2> QED BY <2>2, <2>3, <2>5, <2>6, <2>7 DEF MidInv
<1> QED BY <1>6, <1>7 DEF Truth

LEMMA RearmTruth ==
  ASSUME IInv, Truth, Grows, Rearm
  PROVE  Truth'
<1> USE TypesOf
<1>1. worker.pc = "failed" /\ lock = "free" /\ UNCHANGED <<entry, sessions, shown, thread, file, lock>> /\ pending' = Restored(worker.gen)
      /\ worker' = IF pending.state = "delivered" THEN Off ELSE [worker EXCEPT !.pc = "rearmed"]
  BY DEF Rearm, world, Rest
<1>2. CASE pending.state = "delivered"
  <2>1. pending' = pending /\ worker' = Off
    BY <1>1, <1>2 DEF Restored
  <2> QED BY <1>1, <2>1, OffTruth
<1>3. CASE pending.state # "delivered"
  <2>1. /\ worker'.pc = "rearmed" /\ worker'.gen = worker.gen /\ worker'.kind = worker.kind /\ worker'.mid = worker.mid
    BY <1>1, <1>3 DEF WorkerType
  <2>2. Poller' = Poller /\ Sweep' = Sweep /\ Taps' = Taps
    BY <1>1 DEF Poller, Sweep, Taps
  <2>3. worker.gen \in Nat /\ worker.gen \in DOMAIN sessions
    BY <1>1
  <2>4. /\ pending'.state = "delivered" /\ pending'.kind = pending.kind /\ pending'.gen = worker.gen
        /\ pending'.mid = pending.mid /\ pending' # NoQ /\ (pending.state = "none" => pending.mid = 0)
    BY <1>1, <1>3, <2>3, GivenBackIs
  <2>5. ReadInv'
    BY <1>1, <2>1, <2>2 DEF Truth, ReadInv, Grows
  <2>6. ASSUME ~ Crossed' PROVE TapInv' /\ KindInv' /\ MidInv'
    <3>1. TapInv /\ KindInv /\ MidInv /\ ReadInv
      BY <2>6 DEF Grows, Crossed, Truth
    <3>2. TapInv'
      BY <1>1, <2>1, <2>2, <3>1 DEF TapInv, ShownAs
    <3>3. KindInv'
      <4>1. pending.kind = worker.kind /\ sessions[worker.gen] = worker.kind
        BY <1>1, <3>1 DEF KindInv, ReadInv, Up
      <4>2. Poller.pc \in {"reviving", "start"} => Poller.kind # "fresh"
        BY <1>1, <3>1, <4>1 DEF KindInv, FreshInv, Up, Answered
      <4> QED BY <1>1, <2>1, <2>2, <2>3, <2>4, <3>1, <4>1, <4>2 DEF KindInv, KindOf, FreshInv, Kind, Answered, Up, Dirty
    <3>4. Weak(pending)'
      <4>1. SUFFICES ASSUME pending.mid # 0, shown[pending.mid] # worker.gen
                     PROVE  entry.gen # worker.gen /\ ~ AnswerFor(worker.gen)
        BY <1>1, <2>1, <2>2, <2>4 DEF Weak, Alive, Bringing, AnswerFor
      <4>2. CASE pending.gen = worker.gen
        BY <3>1, <4>1, <4>2 DEF MidInv, Weak, Alive
      <4>3. CASE pending.gen # worker.gen
        <5>1. pending.state \in {"prepared", "reviving"}
          BY <1>3, <2>4, <4>1 DEF Question
        <5> QED BY <1>1, <3>1, <4>1, <4>3, <5>1 DEF MidInv, GiveInv, Msg
      <4> QED BY <4>2, <4>3
    <3>5. Weak(file.q)'
      BY <1>1, <2>1, <2>2, <3>1 DEF MidInv, Weak, Alive, Bringing, AnswerFor
    <3>6. BesideInv'
      BY <1>1, <1>3, <2>1, <2>2, <2>4, <3>1 DEF MidInv, BesideInv, Answered, Up, Asking
    <3>7. GiveInv'
      <4>1. SUFFICES ASSUME Poller.pc = "answer", pending.mid # 0 \/ Sweep.pc \in {"prepared", "send"} PROVE FALSE
        BY <2>1, <2>2, <2>4 DEF GiveInv, Msg, Answered
      <4>2. pending.state \in {"delivered", "none"} /\ Sweep.pc \notin Asking
        BY <1>1, <3>1, <4>1 DEF MidInv, BesideInv, Up, Answered
      <4> QED BY <1>3, <2>4, <4>1, <4>2 DEF Asking
    <3> QED BY <3>2, <3>3, <3>4, <3>5, <3>6, <3>7 DEF MidInv
  <2> QED BY <2>5, <2>6 DEF Truth
<1> QED BY <1>2, <1>3

(* All threads are gone, or have not started yet.                           *)
LEMMA RestTruth ==
  ASSUME IInv, Truth, Grows, thread'["poller"] = Idle, thread'["sweep"] = Idle, worker' = Off, UNCHANGED <<entry, sessions>>,
         Crossed \/ (KindOf(pending') /\ KindOf(file'.q)),
         Crossed \/ \A q \in {pending', file'.q} :
                      \/ q.mid = 0
                      \/ q.mid \in DOMAIN shown' /\ shown'[q.mid] = q.gen
                      \/ entry.gen # q.gen
  PROVE  Truth'
<1> USE TypesOf
<1>1. Poller'.pc = "idle" /\ Sweep'.pc = "idle" /\ worker'.pc = "off" /\ ~ Taps'
  BY IdleType DEF Poller, Sweep, Taps, NoUpdate
<1>2. ReadInv'
  BY <1>1, IdleType DEF Truth, ReadInv, Grows, Dirty, Answered
<1>3. ASSUME ~ Crossed' PROVE TapInv' /\ KindInv' /\ MidInv'
  <2>1. ~ Crossed
    BY <1>3 DEF Grows, Crossed
  <2>2. TapInv' /\ BesideInv' /\ GiveInv'
    BY <1>1 DEF TapInv, BesideInv, GiveInv, Answered, Up, Asking
  <2>3. KindInv'
    BY <1>1, <2>1 DEF KindInv, KindOf, FreshInv, Answered, Up, Dirty
  <2>4. \A g : ~ Bringing(g)' /\ ~ AnswerFor(g)'
    BY <1>1 DEF Bringing, AnswerFor, Answered
  <2>5. Weak(pending)' /\ Weak(file.q)'
    BY <2>1, <2>4 DEF Weak, Alive
  <2> QED BY <2>2, <2>3, <2>5 DEF MidInv
<1> QED BY <1>2, <1>3 DEF Truth

LEMMA CrashTruth ==
  ASSUME IInv, Truth, Grows, Crash
  PROVE  Truth'
<1> USE TypesOf
<1>1. /\ pending' = file.q /\ thread' = [t \in Local |-> Idle] /\ worker' = Off
      /\ UNCHANGED <<sessions, entry, file, shown>>
  BY DEF Crash, Local
<1>2. thread'["poller"] = Idle /\ thread'["sweep"] = Idle
  BY <1>1
<1>3. ASSUME ~ Crossed
      PROVE  /\ KindOf(file.q)
             /\ file.q.mid = 0 \/ (file.q.mid \in DOMAIN shown /\ shown[file.q.mid] = file.q.gen) \/ entry.gen # file.q.gen
  BY <1>3 DEF Truth, KindInv, MidInv, Weak, Alive, Question
<1>4. KindOf(file.q) => KindOf(pending') /\ KindOf(file'.q)
  BY <1>1
<1> QED BY <1>1, <1>2, <1>3, <1>4, RestTruth

LEMMA ResendTruth ==
  ASSUME IInv, Truth, Grows, Resend
  PROVE  Truth'
<1> USE TypesOf
<1>1. /\ boot /\ file'.q = pending' /\ UNCHANGED <<sessions, entry, thread, worker>>
  BY DEF Resend
<1>2. worker' = Off /\ thread'["poller"] = Idle /\ thread'["sweep"] = Idle
  BY <1>1 DEF IInv, BootInv
<1>3. CASE pending' \in {pending, NoQ}
  <2>1. ASSUME ~ Crossed
        PROVE  /\ KindOf(pending')
               /\ pending'.mid = 0 \/ (pending'.mid \in DOMAIN shown' /\ shown'[pending'.mid] = pending'.gen)
                  \/ entry.gen # pending'.gen
    <3>1. CASE pending' = NoQ
      BY <3>1 DEF KindOf, NoQ
    <3>2. CASE pending' = pending
      <4>1. pending.mid # 0 => pending.mid \in DOMAIN shown
        BY DEF Question
      <4> QED BY <2>1, <3>2, <4>1 DEF Truth, KindInv, MidInv, Weak, Alive, Grows
    <3> QED BY <1>3, <3>1, <3>2
  <2> QED BY <1>1, <1>2, <2>1, RestTruth
<1>4. CASE Show /\ pending' = [pending EXCEPT !.state = "delivered", !.mid = NewMid] /\ NeedsResend(pending)
  <2>1. shown \in Seq(Nat) /\ pending.gen \in Nat /\ Len(shown) \in Nat
    BY ReopenAssumption DEF IInv, WorldInv, Question
  <2>2. shown'[Len(shown) + 1] = pending.gen /\ Len(shown) + 1 \in DOMAIN shown'
    BY <1>4, <2>1, AppendProperties, LenProperties DEF Show
  <2>3. pending = [state |-> pending.state, kind |-> pending.kind, gen |-> pending.gen, mid |-> pending.mid]
    BY DEF Question
  <2>4. pending' = [state |-> "delivered", kind |-> pending.kind, gen |-> pending.gen, mid |-> NewMid]
    BY <1>4, <2>3
  <2>5. pending.state # "none"
    BY <1>4 DEF NeedsResend
  <2>6. pending'.state = "delivered" /\ pending'.kind = pending.kind /\ pending'.gen = pending.gen /\ pending'.mid = NewMid
    BY <2>4
  <2>7. pending'.mid = 0 \/ (pending'.mid \in DOMAIN shown' /\ shown'[pending'.mid] = pending'.gen)
    BY <2>2, <2>6 DEF NewMid
  <2>8. Crossed \/ KindOf(pending')
    BY <1>1, <2>5, <2>6 DEF Truth, KindInv, KindOf
  <2> QED BY <1>1, <1>2, <2>7, <2>8, RestTruth
<1>5. CASE UNCHANGED <<pending, shown>> \/ pending' = NoQ
  BY <1>3, <1>5
<1> QED BY <1>4, <1>5 DEF Resend

---------------------------------------------------------------------------
LEMMA TruthInit == Init => Truth
<1> SUFFICES ASSUME Init PROVE Truth
  OBVIOUS
<1>1. /\ Poller = Idle /\ Sweep = Idle /\ worker = Off /\ pending = NoQ /\ file.q = NoQ
      /\ \A t \in Askers : thread[t] = Idle
  BY DEF Init, Poller, Sweep, Threads, Askers, Empty
<1>2. /\ Idle.pc = "idle" /\ Off.pc = "off" /\ NoQ.state = "none" /\ NoQ.mid = 0 /\ Idle.x.what # "tap"
  BY IdleType DEF NoQ, NoUpdate
<1>3. "preset" \in DOMAIN setup
  BY ReopenAssumption DEF Init
<1>4. ReadInv
  BY <1>1, <1>2, <1>3 DEF ReadInv, Answered, Dirty
<1>5. TapInv /\ BesideInv /\ GiveInv
  BY <1>1, <1>2 DEF TapInv, BesideInv, GiveInv, Answered, Up, Asking, Taps, Poller
<1>6. KindInv
  BY <1>1, <1>2 DEF KindInv, KindOf, FreshInv, Answered, Up, Dirty
<1>7. Weak(pending) /\ Weak(file.q)
  BY <1>1, <1>2 DEF Weak
<1> QED BY <1>4, <1>5, <1>6, <1>7 DEF Truth, MidInv

LEMMA TruthNext == IInv /\ Truth /\ [Next]_vars => Truth'
<1> SUFFICES ASSUME IInv, Truth, [Next]_vars PROVE Truth'
  OBVIOUS
<1>1. Grows
  BY GrowsStep
<1>2. ASSUME NEW t \in Threads, Publishing(t) PROVE Truth'
  BY <1>1, <1>2, OutsideTruth, RenameTruth DEF Publishing
<1>3. ASSUME NEW t \in Askers, Offering(t) PROVE Truth'
  BY <1>1, <1>3, PrepareTruth, SendOfferTruth, DropsTruth, ArmTruth DEF Offering
<1>4. CASE Answering
  BY <1>1, <1>4, CheckTruth, LeavesTruth, DropsTruth, AskAgainTruth, TakeAnswerTruth, StartAnsweredTruth, TakeEarlyTruth,
     InboxTruth DEF Answering
<1>5. CASE Working
  BY <1>1, <1>5, EndsLaunch, RearmTruth, DropsTruth DEF Working
<1>6. CASE Outside
  BY <1>1, <1>6, OutsideTruth, SweepOffersTruth, DropsTruth, CrashTruth DEF Outside
<1> QED BY <1>1, <1>2, <1>3, <1>4, <1>5, <1>6, TakingTruth, ResendTruth, OutsideTruth DEF Next

LEMMA TruthMeans == IInv /\ Truth => TapsReviveWhatTheyShow /\ AskedForWhatWorks
<1> SUFFICES ASSUME IInv, Truth PROVE TapsReviveWhatTheyShow /\ AskedForWhatWorks
  OBVIOUS
<1>1. TapsReviveWhatTheyShow
  BY DEF Truth, Crossed, TapInv, ShownAs, TapsReviveWhatTheyShow, TapIsTrue
<1>2. AskedForWhatWorks
  BY DEF Truth, Crossed, KindInv, KindOf, AskedForWhatWorks, Kind
<1> QED BY <1>1, <1>2

(* Between the question on the owner's screen, the record and the session   *)
(* in the topic nothing is mistaken for another: a tap revives the session  *)
(* its message is about, and a question about the session that is dead now  *)
(* asks for what can bring it back, over offers made beside an answer,      *)
(* failed starts, other sessions in the topic and crashes, unless an offer  *)
(* was written over another record (daemon.py 4849-4865, 5912-5924,         *)
(* 6014-6025, 6242-6364).                                                   *)
THEOREM QuestionsAreTrue == Spec => []QuestionsTrue
<1>1. Spec => []Truth
  BY TruthInit, TruthNext, Invariant, PTL DEF Spec
<1> QED BY <1>1, TruthMeans, TypeCorrect, Invariant, PTL DEF QuestionsTrue
=============================================================================
