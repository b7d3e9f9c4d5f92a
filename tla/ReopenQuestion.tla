---------------------------- MODULE ReopenQuestion ----------------------------
(* The question a topic's owner is asked before a dead session is brought   *)
(* back (daemon.py 5560-6364), for one topic: who publishes it, in which    *)
(* state it is, and what answers it. What the revive does with tmux is in   *)
(* Parking.                                                                 *)
(*                                                                          *)
(*   prepared   on file, not yet known to be in front of the owner          *)
(*   delivered  the only state an answer is taken in                        *)
(*   reviving   answered; the revive worker owns what happens next          *)
(*                                                                          *)
(* Threads: the poller (the owner's texts, taps and topic reopens), the     *)
(* sweep (the lifecycle loop and the park's repair, for a parked topic with *)
(* an unread message), the peer (whatever thread keeps the question of      *)
(* another topic in the same file) and the revive worker. Every write of    *)
(* the file is a snapshot and a rename under one lock. A crash loses the    *)
(* threads and the memory, and keeps the file and the registry.             *)
EXTENDS Integers, Sequences

CONSTANTS
  Setups,       \* the bounds, one record per instance (see MCReopenQuestion)
  MaxGen,       \* sessions the topic ever holds
  MaxShown,     \* question messages in the chat at which the sweep asks no more
  MaxQueue      \* updates of the owner's that wait at once

ASSUME ReopenAssumption ==
  /\ MaxGen \in Nat \ {0} /\ MaxShown \in Nat /\ MaxQueue \in Nat
  /\ \A s \in Setups : {"kind", "preset"} \subseteq DOMAIN s
                       /\ s.kind \in {"resume", "fresh"} /\ s.preset \in BOOLEAN
                       /\ \A b \in DOMAIN s \ {"kind", "preset"} : s[b] \in Nat

VARIABLES
  setup,    \* what is left of each bound
  sessions, \* what can bring back each session the topic ever had
  entry,    \* the registry entry: which session, whether it ended
  pending,  \* pending_reopens[tid]
  other,    \* the version of the other topic's record in the same dict
  file,     \* pending-reopens.json
  lock,     \* _pending_reopen_lock
  buf,      \* what each thread has written to its temporary file
  thread,   \* the poller, the sweep and the peer
  worker,   \* the revive worker: while it runs, _auto_reviving holds the topic
  boot,     \* the daemon starts: questions are loaded and not yet asked again
  updates,  \* the owner's updates Telegram has not handed over
  cf,       \* a carry-forward drives the topic
  shown,    \* the session each question message in the chat is about (history)
  accepted, \* answers taken so far (history)
  lapse     \* writes that failed, told and untold; a question given up (history)

vars == <<setup, sessions, entry, pending, other, file, lock, buf, thread, worker, boot, updates, cf,
          shown, accepted, lapse>>
question == <<pending, lock>>
world == <<sessions, entry, updates, cf, shown, accepted>>

Askers == {"poller", "sweep"}
Threads == Askers \cup {"peer", "worker"}
NoQ == [state |-> "none", kind |-> "resume", gen |-> 0, mid |-> 0]
Question == [state : {"none", "prepared", "delivered", "reviving"}, kind : {"resume", "fresh"},
             gen : 0..MaxGen, mid : Nat]
NoUpdate == [what |-> "none", mid |-> 0, seen |-> 0]
Idle == [pc |-> "idle", x |-> NoUpdate, gen |-> 0, kind |-> "resume", durable |-> TRUE]
Off == [pc |-> "off", gen |-> 0, kind |-> "resume", mid |-> 0, late |-> FALSE]
Empty == [q |-> NoQ, other |-> 0]
NoBuf == [q |-> NoQ, other |-> -1]
Lapses == {"told", "untold", "unsaved", "dropped", "overwritten"}

Init ==
  \E s \in Setups :
    /\ setup = s
    /\ sessions = <<s.kind>> /\ entry = [gen |-> 1, ended |-> TRUE]
    /\ pending = NoQ /\ other = 0 /\ file = Empty /\ lock = "free"
    /\ buf = [t \in Threads |-> NoBuf] /\ thread = [t \in Threads \ {"worker"} |-> Idle]
    /\ worker = Off /\ boot = FALSE /\ updates = <<>> /\ cf = FALSE
    /\ shown = <<>> /\ accepted = 0 /\ lapse = {}

-----------------------------------------------------------------------------
(* What the handlers ask of the state.                                      *)
Spend(b) == setup[b] > 0 /\ setup' = [setup EXCEPT ![b] = @ - 1]
Reviving == worker.pc # "off"
Mine(t) == lock \in {"free", t}
At(t, pc) == thread[t].pc = pc /\ ~boot
Goes(t, pc) == thread' = [thread EXCEPT ![t].pc = pc]
Taps == thread["poller"].x.what = "tap"

Kind == sessions[entry.gen]
ShouldAutoRevive == entry.ended /\ Kind = "resume"
Unrevivable == entry.ended /\ Kind = "fresh"

(* Mutant: any dead session matches, whichever the question was about.      *)
MatchesDead(q) == IF q.kind = "fresh" THEN Unrevivable ELSE ShouldAutoRevive

(* The question still describes the dead session in the registry: the same  *)
(* session id, or the same `ended` stamp of a session that has none.        *)
Matches(q) == /\ IF q.kind = "fresh" THEN Unrevivable ELSE ShouldAutoRevive
              /\ q.gen = entry.gen
Answers(x) == x.what = "tap" \/ x.what = pending.kind

(* Mutant: the exemption by the record's state alone.                       *)
ExemptByState == pending.state = "delivered"
StillCurrent == pending.state = "delivered" /\ Matches(pending)

-----------------------------------------------------------------------------
(* Publishing. A thread that changed the dict writes it to a temporary file *)
(* and renames that, holding the lock from the snapshot to the rename.      *)
Then == [prepared |-> "send", claimed |-> "check", reviving |-> "start", reasked |-> "early",
         forgot |-> "consume", armed |-> "idle", dropped |-> "idle", rearmed |-> "idle",
         other |-> "idle"]
Pc(t) == IF t = "worker" THEN worker.pc ELSE thread[t].pc
Saving(t) == Pc(t) \in DOMAIN Then /\ ~boot

(* Where the thread goes on. Only an offer looks at whether the question    *)
(* reached the disk, and tells the owner when it did not.                   *)
Saved(t, ok) ==
  LET pc == Pc(t) IN
  /\ lapse' = CASE t = "peer" -> lapse
                [] pc = "prepared" -> IF ok THEN lapse ELSE lapse \cup {"unsaved"}
                [] pc = "armed" -> IF ok /\ thread[t].durable THEN lapse ELSE lapse \cup {"told"}
                [] OTHER -> IF ok THEN lapse ELSE lapse \cup {"untold"}
  /\ IF t = "worker" THEN worker' = Off /\ UNCHANGED thread
     ELSE /\ thread' = [thread EXCEPT ![t] =
               IF Then[pc] = "idle" THEN Idle ELSE [@ EXCEPT !.pc = Then[pc], !.durable = ok]]
          /\ UNCHANGED worker

Write(t) == buf' = [buf EXCEPT ![t] = [q |-> pending, other |-> other]]

(* Mutant: the snapshot is taken under the lock, the rename made outside.   *)
SnapshotOnly(t) ==
  /\ Saving(t) /\ buf[t] = NoBuf /\ Mine(t) /\ Write(t)
  /\ UNCHANGED <<setup, world, pending, other, file, lock, thread, worker, boot, lapse>>
Snapshot(t) ==
  /\ Saving(t) /\ buf[t] = NoBuf /\ Mine(t) /\ Write(t)
  /\ lock' = t
  /\ UNCHANGED <<setup, world, pending, other, file, thread, worker, boot, lapse>>

(* The handler of a tap holds the lock until it returns.                    *)
Rename(t) ==
  /\ Saving(t) /\ buf[t] # NoBuf
  /\ \/ file' = buf[t] /\ Saved(t, TRUE) /\ UNCHANGED setup
     \/ Spend("saves") /\ Saved(t, FALSE) /\ UNCHANGED file
  /\ buf' = [buf EXCEPT ![t] = NoBuf]
  /\ lock' = IF t = "poller" /\ thread'["poller"].x.what = "tap" THEN "poller" ELSE "free"
  /\ UNCHANGED <<world, pending, other, boot>>

(* Another topic's question is asked, answered or forgotten.                *)
PeerChanges ==
  /\ At("peer", "idle") /\ lock = "free" /\ Spend("others")
  /\ other' = other + 1 /\ Goes("peer", "other")
  /\ UNCHANGED <<world, question, file, buf, worker, boot, lapse>>

(* A step of a handler that changes the dict, under the lock.               *)
Changes(t, q, pc) ==
  /\ Mine(t) /\ pending' = q
  /\ thread' = [thread EXCEPT ![t].pc = pc]
  /\ UNCHANGED <<sessions, entry, updates, cf, lock, other, file, buf, boot>>

Done(t) == /\ thread' = [thread EXCEPT ![t] = Idle]
           /\ lock' = IF lock = t THEN "free" ELSE lock
Moves(t, pc) == Goes(t, pc) /\ UNCHANGED lock
Rest == UNCHANGED <<other, file, buf, boot>>

-----------------------------------------------------------------------------
(* offer_reopen_choice and offer_fresh_restart: the checks are made without *)
(* the lock, then the transcript is read, then the record is written.       *)
MayOffer == pending = NoQ /\ ~Reviving
Offers(t) == thread' = [thread EXCEPT ![t].pc = "offer", ![t].gen = entry.gen,
                                      ![t].kind = Kind]

(* The record is written over whatever is there by now.                     *)
Overwrites == lapse' = IF pending = NoQ THEN lapse ELSE lapse \cup {"overwritten"}

Prepare(t) ==
  /\ At(t, "offer")
  /\ Changes(t, [state |-> "prepared", kind |-> thread[t].kind, gen |-> thread[t].gen,
                 mid |-> 0], "prepared")
  /\ Overwrites
  /\ UNCHANGED <<setup, shown, accepted, worker>>

(* The question is accepted by Telegram, refused because the topic is       *)
(* closed, or lost behind an error that may hide a delivery: then, as when  *)
(* the record is gone by now, it counts as delivered.                       *)
NewMid == IF pending.kind = "fresh" THEN 0 ELSE Len(shown) + 1
Show == shown' = Append(shown, pending.gen)
SendOffer(t) ==
  /\ At(t, "send") /\ lock = "free"
  /\ \/ /\ pending # NoQ /\ Show
        /\ pending' = [pending EXCEPT !.mid = NewMid] /\ Goes(t, "arm") /\ UNCHANGED setup
     \/ /\ pending # NoQ /\ Spend("sends") /\ Goes(t, "drop") /\ UNCHANGED <<pending, shown>>
     \/ /\ pending # NoQ /\ Spend("sends") /\ Goes(t, "arm") /\ UNCHANGED pending
        /\ UNCHANGED shown \/ Show
     \/ pending = NoQ /\ Goes(t, "arm") /\ UNCHANGED <<pending, shown, setup>>
  /\ UNCHANGED <<sessions, entry, updates, cf, accepted, lock, worker, lapse>> /\ Rest

Undeliverable(t) ==
  /\ At(t, "drop") /\ Changes(t, NoQ, "dropped")
  /\ lapse' = lapse \cup {"dropped"}
  /\ UNCHANGED <<setup, shown, accepted, worker>>

Arm(t) ==
  /\ At(t, "arm") /\ Mine(t)
  /\ IF pending = NoQ THEN Done(t) /\ UNCHANGED <<sessions, entry, updates, cf, pending>> /\ Rest
     ELSE Changes(t, [pending EXCEPT !.state = "delivered"], "armed")
  /\ UNCHANGED <<setup, shown, accepted, worker, lapse>>

(* The sweep finds an owner's unread message of a parked topic.             *)
SweepOffers ==
  /\ At("sweep", "idle") /\ Len(shown) < MaxShown /\ ShouldAutoRevive /\ ~setup.preset /\ MayOffer /\ Offers("sweep")
  /\ UNCHANGED <<setup, world, question, worker, lapse>> /\ Rest

(* The end of a park's repair: a question still prepared is cleared.        *)
SweepForgets ==
  /\ At("sweep", "idle") /\ pending.state = "prepared" /\ Changes("sweep", NoQ, "dropped")
  /\ lapse' = lapse \cup {"dropped"}
  /\ UNCHANGED <<setup, shown, accepted, worker>>

-----------------------------------------------------------------------------
(* The owner's side: an update is made while some number of answers has     *)
(* been taken, and waits for the poller. The word that answers the other    *)
(* kind of question is the text that answers nothing.                       *)
Sends(x) == /\ Spend("updates") /\ Len(updates) < MaxQueue
            /\ updates' = Append(updates, [x EXCEPT !.seen = accepted])
OwnerSends ==
  /\ \/ \E w \in {"resume", "fresh", "reopen"} : Sends([NoUpdate EXCEPT !.what = w])
     \/ \E m \in DOMAIN shown : Sends([NoUpdate EXCEPT !.what = "tap", !.mid = m])
  /\ UNCHANGED <<sessions, entry, cf, shown, accepted, question, thread, worker, lapse>> /\ Rest

Next1 == Head(updates)
Takes == At("poller", "idle") /\ updates # <<>> /\ updates' = Tail(updates)
With(pc) == thread' = [thread EXCEPT !["poller"] = [Idle EXCEPT !.x = Next1, !.pc = pc]]

(* The topic is reopened: a dead session is asked about.                    *)
TakeReopen ==
  /\ Takes /\ Next1.what = "reopen"
  /\ IF entry.ended /\ MayOffer
     THEN thread' = [thread EXCEPT !["poller"] = [Idle EXCEPT !.pc = "offer", !.x = Next1,
                                                  !.gen = entry.gen, !.kind = Kind]]
     ELSE UNCHANGED thread
  /\ UNCHANGED <<setup, sessions, entry, cf, shown, accepted, question, worker, lapse>> /\ Rest

TapIsCurrent(m) == pending.state = "delivered" /\ pending.kind = "resume" /\ pending.mid = m

(* A tap counts on the message of the delivered question alone, and its     *)
(* handler keeps the lock.                                                  *)
TakeTap ==
  /\ Takes /\ Next1.what = "tap" /\ lock = "free"
  /\ IF TapIsCurrent(Next1.mid) THEN With("check") /\ lock' = "poller"
     ELSE UNCHANGED <<thread, lock>>
  /\ UNCHANGED <<setup, sessions, entry, cf, shown, accepted, pending, worker, lapse>> /\ Rest

(* A text halts an active carry-forward, unless the question it may answer  *)
(* is about a session that is dead now.                                     *)
TakeText ==
  /\ Takes /\ Next1.what \notin {"reopen", "tap"} /\ lock = "free"
  /\ IF cf /\ ~StillCurrent THEN cf' = FALSE /\ UNCHANGED thread
     ELSE With(IF pending = NoQ THEN "early" ELSE "check") /\ UNCHANGED cf
  /\ UNCHANGED <<setup, sessions, entry, shown, accepted, question, worker, lapse>> /\ Rest

(* check_pending_reopen and _check_fresh_restart: the registry is read; a   *)
(* question of another session is forgotten; an answer is taken up; for     *)
(* anything else the question is asked again.                               *)
Check ==
  LET x == thread["poller"].x IN
  /\ At("poller", "check") /\ pending.state = "delivered" /\ Matches(pending) /\ Answers(x)
  /\ thread' = [thread EXCEPT !["poller"].pc = "answer", !["poller"].gen = entry.gen,
                              !["poller"].kind = Kind]
  /\ UNCHANGED <<setup, world, question, worker, lapse>> /\ Rest

CheckUnanswerable ==
  /\ At("poller", "check") /\ pending.state # "delivered"
  /\ IF Taps THEN Done("poller") ELSE Moves("poller", "early")
  /\ UNCHANGED <<setup, world, pending, worker, lapse>> /\ Rest

CheckStale ==
  /\ At("poller", "check") /\ pending.state = "delivered" /\ ~Matches(pending)
  /\ Mine("poller") /\ pending' = NoQ
  /\ thread' = [thread EXCEPT !["poller"].pc = "forgot", !["poller"].kind = pending.kind]
  /\ UNCHANGED <<sessions, entry, updates, cf, lock>> /\ Rest
  /\ UNCHANGED <<setup, shown, accepted, worker, lapse>>

(* A fresh question asked again is neither tracked nor saved.               *)
AskAgain ==
  /\ At("poller", "check") /\ pending.state = "delivered" /\ Matches(pending) /\ Mine("poller")
  /\ ~Answers(thread["poller"].x)
  /\ \/ /\ Show /\ UNCHANGED setup
        /\ pending' = [pending EXCEPT !.mid = NewMid]
        /\ Goes("poller", IF pending.kind = "fresh" THEN "early" ELSE "reasked")
     \/ /\ Spend("sends") /\ UNCHANGED <<pending, shown>>
        /\ \/ Goes("poller", "early")
           \/ pending.kind = "resume" /\ Goes("poller", "reasked")
  /\ UNCHANGED <<sessions, entry, updates, cf, accepted, lock, worker, lapse>> /\ Rest

(* After a stale question is forgotten: an answer to it is consumed.        *)
Forgotten ==
  /\ At("poller", "consume")
  /\ IF Taps \/ thread["poller"].x.what = thread["poller"].kind THEN Done("poller")
     ELSE Moves("poller", "early")
  /\ UNCHANGED <<setup, world, pending, worker, lapse>> /\ Rest

(* The answer moves the record to reviving, which is neither answerable nor *)
(* lost. A record gone by now raises: a text goes on to the inbox.          *)
TakeAnswer ==
  /\ At("poller", "answer") /\ Mine("poller")
  /\ IF pending = NoQ
     THEN /\ IF Taps THEN Done("poller") ELSE Moves("poller", "early")
          /\ UNCHANGED <<sessions, entry, updates, cf, pending, accepted>> /\ Rest
     ELSE /\ Changes("poller", [pending EXCEPT !.state = "reviving"], "reviving")
          /\ accepted' = accepted + 1
  /\ UNCHANGED <<setup, shown, worker, lapse>>

Rearmed(gen) == [pending EXCEPT !.state = "delivered", !.gen = gen]
Restored(gen) == IF pending.state = "delivered" THEN pending ELSE Rearmed(gen)

Launches(x, gen, kind) ==
  worker' = [pc |-> "launch", gen |-> gen, kind |-> kind, mid |-> x.mid,
             late |-> x.what = "tap" /\ x.seen + 1 # accepted]

(* The worker starts unless a revive runs; then, as when no thread can be   *)
(* started, the question is given back.                                     *)
StartAnswered ==
  LET me == thread["poller"] IN
  /\ At("poller", "start")
  /\ \/ ~Reviving /\ Launches(me.x, me.gen, me.kind) /\ Done("poller") /\ UNCHANGED <<pending, setup>>
     \/ /\ Mine("poller") /\ UNCHANGED worker
        /\ IF Reviving THEN UNCHANGED setup ELSE Spend("launches")
        /\ pending' = Restored(me.gen)
        /\ IF pending.state = "delivered" THEN Done("poller") ELSE Moves("poller", "rearmed")
  /\ UNCHANGED <<world, lapse>> /\ Rest

(* An exact answer before any question: authority for the dead session it   *)
(* finds. The registry is read before the record is written.                *)
Early ==
  /\ At("poller", "early")
  /\ IF thread["poller"].x.what = "resume" /\ pending = NoQ /\ ShouldAutoRevive /\ ~Reviving
     THEN thread' = [thread EXCEPT !["poller"].pc = "authority", !["poller"].gen = entry.gen]
     ELSE Goes("poller", "inbox")
  /\ UNCHANGED <<setup, world, question, worker, lapse>> /\ Rest
TakeEarly ==
  /\ At("poller", "authority")
  /\ Changes("poller", [NoQ EXCEPT !.state = "delivered", !.gen = thread["poller"].gen], "claimed")
  /\ Overwrites
  /\ UNCHANGED <<setup, shown, accepted, worker>>

(* The message is in the inbox; maybe_auto_revive asks, or starts the       *)
(* revive whose answer is preset.                                           *)
Inbox ==
  /\ At("poller", "inbox")
  /\ IF ~ShouldAutoRevive \/ ~MayOffer THEN Done("poller") /\ UNCHANGED worker
     ELSE /\ UNCHANGED lock
          /\ IF setup.preset
             THEN Launches(NoUpdate, entry.gen, "resume") /\ thread' = [thread EXCEPT !["poller"] = Idle]
             ELSE Offers("poller") /\ UNCHANGED worker
  /\ UNCHANGED <<setup, world, pending, lapse>> /\ Rest

-----------------------------------------------------------------------------
(* The revive worker: a session comes up and is bound, and only then is the *)
(* question forgotten; a failure gives it back.                             *)
NewSession(kind) ==
  /\ Len(sessions) < MaxGen /\ sessions' = Append(sessions, kind)
  /\ entry' = [gen |-> Len(sessions) + 1, ended |-> FALSE]

BindWorker ==
  /\ worker.pc = "launch"
  /\ IF worker.kind = "fresh" THEN NewSession("fresh")
     ELSE entry' = [gen |-> worker.gen, ended |-> FALSE] /\ UNCHANGED sessions
  /\ worker' = [worker EXCEPT !.pc = "bound"]
  /\ UNCHANGED <<setup, updates, cf, shown, accepted, question, thread, lapse>> /\ Rest

ReviveFails ==
  /\ worker.pc = "launch" /\ Spend("launches")
  /\ worker' = [worker EXCEPT !.pc = "failed"]
  /\ UNCHANGED <<world, question, thread, lapse>> /\ Rest

(* Mutant: the question is taken for armed whenever there is one.           *)
RearmAbsent ==
  /\ worker.pc = "failed" /\ lock = "free"
  /\ IF pending # NoQ THEN worker' = Off /\ UNCHANGED pending
     ELSE /\ pending' = Rearmed(worker.gen) /\ worker' = [worker EXCEPT !.pc = "rearmed"]
  /\ UNCHANGED <<setup, world, lock, thread, lapse>> /\ Rest
Rearm ==
  /\ worker.pc = "failed" /\ lock = "free"
  /\ pending' = Restored(worker.gen)
  /\ worker' = IF pending.state = "delivered" THEN Off ELSE [worker EXCEPT !.pc = "rearmed"]
  /\ UNCHANGED <<setup, world, lock, thread, lapse>> /\ Rest

Forget ==
  /\ worker.pc = "bound" /\ lock = "free"
  /\ pending' = NoQ /\ worker' = [worker EXCEPT !.pc = "forgot"]
  /\ UNCHANGED <<setup, world, lock, thread, lapse>> /\ Rest

-----------------------------------------------------------------------------
(* What happens to the topic from elsewhere: another session registers in   *)
(* it, its session ends, a carry-forward starts or ends.                    *)
Rebind ==
  /\ Spend("rebinds") /\ NewSession("resume")
  /\ UNCHANGED <<updates, cf, shown, accepted, question, thread, worker, lapse>> /\ Rest
Ends ==
  /\ ~entry.ended /\ entry' = [entry EXCEPT !.ended = TRUE]
  /\ UNCHANGED <<setup, sessions, updates, cf, shown, accepted, question, thread, worker, lapse>> /\ Rest
CarryForward ==
  /\ \/ ~cf /\ ~entry.ended /\ Spend("cf") /\ cf' = TRUE
     \/ cf /\ cf' = FALSE /\ UNCHANGED setup
  /\ UNCHANGED <<sessions, entry, updates, shown, accepted, question, thread, worker, lapse>> /\ Rest

Crash ==
  /\ Spend("crashes")
  /\ pending' = file.q /\ other' = file.other /\ lock' = "free"
  /\ buf' = [t \in Threads |-> NoBuf] /\ thread' = [t \in Threads \ {"worker"} |-> Idle]
  /\ worker' = Off /\ boot' = TRUE /\ cf' = FALSE
  /\ UNCHANGED <<sessions, entry, file, updates, shown, accepted, lapse>>

NeedsResend(q) == q.state \notin {"none", "delivered"}

(* resend_undelivered_reopen_questions, before any other thread runs; an    *)
(* error that may hide a delivery ends the start, and it is made again.     *)
Resend ==
  /\ boot /\ boot' = FALSE
  /\ IF ~NeedsResend(pending) THEN UNCHANGED <<setup, pending, shown, lapse>>
     ELSE IF ~(IF pending.kind = "fresh" THEN Unrevivable ELSE ShouldAutoRevive)
          THEN pending' = NoQ /\ UNCHANGED <<setup, shown, lapse>>
     ELSE \/ /\ Show /\ UNCHANGED <<setup, lapse>>
             /\ pending' = [pending EXCEPT !.state = "delivered", !.mid = NewMid]
          \/ Spend("sends") /\ pending' = NoQ /\ UNCHANGED shown /\ lapse' = lapse \cup {"dropped"}
  /\ file' = [q |-> pending', other |-> other]
  /\ UNCHANGED <<sessions, entry, updates, cf, accepted, lock, other, buf, thread, worker>>

-----------------------------------------------------------------------------
Offering(t) == Prepare(t) \/ SendOffer(t) \/ Undeliverable(t) \/ Arm(t)
Publishing(t) == Snapshot(t) \/ Rename(t)
Taking == TakeReopen \/ TakeTap \/ TakeText
Answering == Check \/ CheckUnanswerable \/ CheckStale \/ AskAgain \/ Forgotten \/ TakeAnswer
             \/ StartAnswered \/ Early \/ TakeEarly \/ Inbox
Working == BindWorker \/ ReviveFails \/ Rearm \/ Forget
Outside == PeerChanges \/ SweepOffers \/ SweepForgets \/ OwnerSends \/ Rebind \/ Ends
           \/ CarryForward \/ Crash

Next == \/ \E t \in Threads : Publishing(t)
        \/ \E t \in Askers : Offering(t)
        \/ Taking \/ Answering \/ Working \/ Outside \/ Resend

Spec == Init /\ [][Next]_vars

(* The daemon's threads run; the owner, the sessions and faults need not.   *)
FairSpec == /\ Spec /\ WF_vars(Resend) /\ WF_vars(Taking \/ Answering) /\ WF_vars(Working)
            /\ \A t \in Threads : SF_vars(Publishing(t))
            /\ \A t \in Askers : SF_vars(Offering(t))

-----------------------------------------------------------------------------
(* Types, and who may hold the lock: a thread that publishes, or the poller *)
(* in the handler of a tap, which leaves with it on every path.             *)
TypeOK ==
  /\ sessions \in Seq({"resume", "fresh"}) /\ Len(sessions) \in 1..MaxGen
  /\ entry \in [gen : DOMAIN sessions, ended : BOOLEAN]
  /\ pending \in Question /\ file.q \in Question /\ file.other <= other
  /\ lock \in {"free"} \cup Threads
  /\ lock # "free" => Saving(lock) \/ (lock = "poller" /\ Taps)
  /\ worker.pc \in {"off", "launch", "bound", "failed", "rearmed", "forgot"}
  /\ boot \in BOOLEAN /\ cf \in BOOLEAN /\ lapse \subseteq Lapses
  /\ pending.mid <= Len(shown)

(* Whenever no thread is between its change and its write, the file holds   *)
(* the question memory holds, unless a write failed: no order of the        *)
(* threads' writes loses a question or brings an answered one back (5619).  *)
Settled == \A t \in Threads : ~Saving(t) /\ Pc(t) \notin {"send", "arm", "drop"}
FileIsMemory == Settled => file.q = pending \/ lapse \cap {"told", "untold"} # {}

(* A tap revives the session the tapped message was about, however often    *)
(* the question was asked again, given back or overtaken meanwhile (4855).  *)
TapIsTrue == worker.pc # "off" /\ worker.mid # 0 => shown[worker.mid] = worker.gen
TapsReviveWhatTheyShow == TapIsTrue \/ "overwritten" \in lapse

(* A question about the session that is dead now asks for the answer that   *)
(* can bring it back, also after a failed revive gave it back (6018).       *)
AskedForWhatWorks ==
  pending.state = "delivered" /\ pending.gen = entry.gen /\ entry.ended
    => pending.kind = Kind \/ "overwritten" \in lapse

(* Between the question on the owner's screen, the record and the session   *)
(* in the topic nothing is mistaken for another.                            *)
QuestionsTrue == TypeOK /\ TapsReviveWhatTheyShow /\ AskedForWhatWorks

(* While a carry-forward drives a live session, the owner's text halts it,  *)
(* whatever question is on record (4623-4637).                              *)
KillSwitchHolds ==
  [][ cf /\ ~entry.ended /\ updates # <<>> /\ updates' = Tail(updates)
      /\ Head(updates).what \notin {"reopen", "tap"} => ~cf' ]_vars

(* Nothing stays unanswerable: a question being asked is asked or given up, *)
(* over crashes too (5959), and an answer ends with the session up or the   *)
(* question open again (6014, 6330), unless it could not be delivered or    *)
(* a write failed.                                                          *)
PreparedIsAsked == pending.state = "prepared" ~> pending.state # "prepared"
AnswerIsResolved ==
  pending.state = "reviving" /\ worker.pc \notin {"bound", "forgot"}
    ~> ~entry.ended \/ pending.state = "delivered" \/ lapse \ {"overwritten"} # {}
QuestionsSettle == PreparedIsAsked /\ AnswerIsResolved

(* daemon.py:4860: "an old tap must not answer its successor".              *)
OldTapNeverAnswers == worker.pc # "off" => ~worker.late
=============================================================================
