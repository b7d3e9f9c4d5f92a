----------------------------- MODULE Rejections -----------------------------
(***************************************************************************)
(* The journal of rejected service events (daemon.py 4418-4484).  Anybody  *)
(* who may close or reopen a topic can make the daemon log a line, so      *)
(* identical rejections inside one window are counted instead of written,  *)
(* and the number of windows held is capped.  A window that is removed     *)
(* from the table must say the count it held.                              *)
(*                                                                         *)
(* The table has no lock, and every poller is a thread of its own: a       *)
(* rejection is several steps here (the look at the table, one removal at  *)
(* a time, the write), taken by one of the Threads.                        *)
(***************************************************************************)
EXTENDS Integers, FiniteSets

CONSTANTS
  Threads,      \* the pollers that may reject an event
  Keys,         \* (kind, topic, sender, sender chat)
  PollerOf,     \* the thread of the bot that serves a key's topic
  Window,       \* _SVC_REJECT_WINDOW
  Cap           \* _SVC_REJECT_MAX_KEYS

ASSUME RejectAssumption ==
  /\ IsFiniteSet(Keys) /\ Keys # {}
  /\ PollerOf \in [Keys -> Threads]
  /\ Window \in Nat
  /\ Cap \in Nat \ {0}

VARIABLES
  now,          \* time.monotonic()
  windows,      \* the keys of _svc_rejects
  start,        \* when a key's window began
  count,        \* the rejections its window suppresses
  rejecting,    \* where each thread is inside _log_rejected_service_event
  rejected,     \* history: the rejections of each key that were dealt with
  journal       \* history: those the lines of the journal speak for

rvars == <<now, windows, start, count, rejecting, rejected, journal>>

Steps == {"idle", "count", "expire", "evict", "line"}

Rejecting(step, k, from, n, stale) ==
  [step |-> step, key |-> k, from |-> from, n |-> n, stale |-> stale]

SomeKey == CHOOSE k \in Keys : TRUE
NotRejecting == Rejecting("idle", SomeKey, 0, 0, {})

RejectInit ==
  /\ now = 0
  /\ windows = {}
  /\ start = [k \in Keys |-> 0]
  /\ count = [k \in Keys |-> 0]
  /\ rejecting = [t \in Threads |-> NotRejecting]
  /\ rejected = [k \in Keys |-> 0]
  /\ journal = [k \in Keys |-> 0]

Live(k) == now - start[k] < Window
Stale == {k \in windows : ~ Live(k)}

Look(t, k) ==
  /\ rejecting[t].step = "idle"
  /\ rejecting' = [rejecting EXCEPT ![t] =
       IF k \in windows
       THEN IF Live(k) THEN Rejecting("count", k, start[k], count[k], {})
                       ELSE Rejecting("line", k, now, count[k], {})
       ELSE IF Cardinality(windows) >= Cap THEN Rejecting("expire", k, now, 0, Stale)
                                           ELSE Rejecting("line", k, now, 0, {})]
  /\ UNCHANGED <<now, windows, start, count, rejected, journal>>

(* Mutant: the removal says nothing.                                        *)
FlushSilently(victim) == windows' = windows \ {victim} /\ UNCHANGED journal

(* _flush: the window is taken out, and a count it held becomes a line.     *)
Flush(victim) ==
  /\ windows' = windows \ {victim}
  /\ journal' = [journal EXCEPT ![victim] = @ + count[victim]]

(* One turned window after another, of those seen by the look.  A window    *)
(* another thread has removed meanwhile raises: the event is dropped with   *)
(* no line of its own.                                                      *)
Expire(t) ==
  /\ rejecting[t].step = "expire"
  /\ IF rejecting[t].stale = {}
     THEN /\ rejecting' = [rejecting EXCEPT ![t].step =
               IF Cardinality(windows) >= Cap THEN "evict" ELSE "line"]
          /\ UNCHANGED <<windows, journal>>
     ELSE \E victim \in rejecting[t].stale :
            IF victim \in windows
            THEN /\ Flush(victim)
                 /\ rejecting' = [rejecting EXCEPT ![t].stale = @ \ {victim}]
            ELSE /\ rejecting' = [rejecting EXCEPT ![t] = NotRejecting]
                 /\ UNCHANGED <<windows, journal>>
  /\ UNCHANGED <<now, start, count, rejected>>

(* Every window is live: the oldest goes (min() of nothing raises).         *)
Evict(t) ==
  /\ rejecting[t].step = "evict"
  /\ IF windows = {}
     THEN /\ rejecting' = [rejecting EXCEPT ![t] = NotRejecting]
          /\ UNCHANGED <<windows, journal>>
     ELSE /\ \E victim \in windows :
               /\ \A k \in windows : start[victim] <= start[k]
               /\ Flush(victim)
          /\ rejecting' = [rejecting EXCEPT ![t].step = "line"]
  /\ UNCHANGED <<now, start, count, rejected>>

(* The write that ends it, in the table as it is by then.                   *)
Count(t) ==
  LET me == rejecting[t] IN
  /\ me.step = "count"
  /\ windows' = windows \union {me.key}
  /\ start' = [start EXCEPT ![me.key] = me.from]
  /\ count' = [count EXCEPT ![me.key] = me.n + 1]
  /\ rejected' = [rejected EXCEPT ![me.key] = @ + 1]
  /\ rejecting' = [rejecting EXCEPT ![t] = NotRejecting]
  /\ UNCHANGED <<now, journal>>

Line(t) ==
  LET me == rejecting[t] IN
  /\ me.step = "line"
  /\ windows' = windows \union {me.key}
  /\ start' = [start EXCEPT ![me.key] = me.from]
  /\ count' = [count EXCEPT ![me.key] = 0]
  /\ rejected' = [rejected EXCEPT ![me.key] = @ + 1]
  /\ journal' = [journal EXCEPT ![me.key] = @ + me.n + 1]
  /\ rejecting' = [rejecting EXCEPT ![t] = NotRejecting]
  /\ UNCHANGED now

Reject(t) == Expire(t) \/ Evict(t) \/ Count(t) \/ Line(t)

Tick ==
  /\ now' = now + 1
  /\ UNCHANGED <<windows, start, count, rejecting, rejected, journal>>

RejectNext ==
  \/ Tick
  \/ \E k \in Keys : Look(PollerOf[k], k)
  \/ \E t \in Threads : Reject(t)

RejectSpec == RejectInit /\ [][RejectNext]_rvars

---------------------------------------------------------------------------
(* Types.                                                                   *)
RejectTypeOK ==
  /\ now \in Nat
  /\ windows \subseteq Keys
  /\ start \in [Keys -> Nat]
  /\ count \in [Keys -> Nat]
  /\ rejecting \in [Threads -> [step : Steps, key : Keys, from : Nat, n : Nat,
                                stale : SUBSET Keys]]
  /\ rejected \in [Keys -> Nat]
  /\ journal \in [Keys -> Nat]

Held(k) == IF k \in windows THEN count[k] ELSE 0

(* No rejection leaves the accounting unsaid: of every key, the lines of    *)
(* the journal and the count its window still holds add up to the           *)
(* rejections dealt with, whatever windows turned, expired or were evicted  *)
(* (daemon.py 4459: "a window REMOVED from the table flushes its nonzero    *)
(* count as a line, whatever the reason for the removal").                  *)
CountsAccounted == \A k \in Keys : rejected[k] = journal[k] + Held(k)

(* The table never outgrows its cap (daemon.py 4442-4446).                 *)
WindowsCapped == Cardinality(windows) <= Cap

(* The cap costs no count: bounding the table and accounting for everything *)
(* hold together, though each eviction removes a count.  Of one poller: the *)
(* table has no lock, and with a second poller a count may be said twice    *)
(* (MCIngest_TwoPollers).                                                   *)
RejectionsKept == CountsAccounted /\ WindowsCapped
=============================================================================
