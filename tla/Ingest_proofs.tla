----------------------------- MODULE Ingest_proofs -----------------------------
(***************************************************************************)
(* Proofs about Ingest for any bots, topics' events, windows and bounds of  *)
(* the environment: no update is lost to a cursor and none is handled twice *)
(* in a life of the daemon, a kill is confirmed, and with one bot the       *)
(* journal of rejections accounts for each of them.                         *)
(***************************************************************************)
EXTENDS Ingest, FiniteSetTheorems, SequenceTheorems, TLAPS

---------------------------------------------------------------------------
(* The journal of rejections: its types for any threads, and, with one      *)
(* poller, the accounts and the cap                                         *)

(* A step that starts, advances or ends a rejection keeps its record's type.*)
LEMMA RejectingType ==
  ASSUME NEW step \in Steps, NEW k \in Keys, NEW from \in Nat, NEW n \in Nat,
         NEW stale \in SUBSET Keys
  PROVE  Rejecting(step, k, from, n, stale)
           \in [step : Steps, key : Keys, from : Nat, n : Nat, stale : SUBSET Keys]
  BY DEF Rejecting

LEMMA SomeKeyType == SomeKey \in Keys
  BY RejectAssumption DEF SomeKey

LEMMA NotRejectingType ==
  NotRejecting \in [step : Steps, key : Keys, from : Nat, n : Nat, stale : SUBSET Keys]
  BY SomeKeyType, RejectingType DEF NotRejecting, Steps

(* The initial state is well typed.                                         *)
LEMMA TypeInit == RejectInit => RejectTypeOK
  BY NotRejectingType DEF RejectInit, RejectTypeOK

(* Every step keeps the types.                                              *)
LEMMA TypeNext == RejectTypeOK /\ [RejectNext]_rvars => RejectTypeOK'
<1> SUFFICES ASSUME RejectTypeOK, [RejectNext]_rvars PROVE RejectTypeOK'
  OBVIOUS
<1> DEFINE R == [step : Steps, key : Keys, from : Nat, n : Nat, stale : SUBSET Keys]
<1>1. CASE UNCHANGED rvars
  BY <1>1 DEF RejectTypeOK, rvars
<1>2. CASE Tick
  BY <1>2 DEF RejectTypeOK, Tick
<1>3. ASSUME NEW k \in Keys, Look(PollerOf[k], k) PROVE RejectTypeOK'
  <2> DEFINE next == IF k \in windows
       THEN IF Live(k) THEN Rejecting("count", k, start[k], count[k], {})
                       ELSE Rejecting("line", k, now, count[k], {})
       ELSE IF Cardinality(windows) >= Cap THEN Rejecting("expire", k, now, 0, Stale)
                                           ELSE Rejecting("line", k, now, 0, {})
  <2>1. now \in Nat /\ start[k] \in Nat /\ count[k] \in Nat /\ Stale \in SUBSET Keys
    BY DEF RejectTypeOK, Stale
  <2>2. {"count", "line", "expire"} \subseteq Steps /\ {} \in SUBSET Keys /\ 0 \in Nat
    BY DEF Steps
  <2>3. next \in R
    BY <2>1, <2>2, RejectingType
  <2>4. rejecting' = [rejecting EXCEPT ![PollerOf[k]] = next]
    BY <1>3 DEF Look
  <2>5. rejecting' \in [Threads -> R]
    <3> HIDE DEF next
    <3> QED BY <2>3, <2>4 DEF RejectTypeOK
  <2> QED BY <1>3, <2>5 DEF Look, RejectTypeOK
<1>4. ASSUME NEW t \in Threads, Reject(t) PROVE RejectTypeOK'
  <2>0. rejecting[t] \in R
    BY DEF RejectTypeOK
  <2>1. ASSUME NEW s \in Steps PROVE [rejecting EXCEPT ![t].step = s] \in [Threads -> R]
    <3>1. [rejecting[t] EXCEPT !.step = s] \in R
      BY <2>0
    <3>2. [rejecting EXCEPT ![t] = [rejecting[t] EXCEPT !.step = s]] \in [Threads -> R]
      BY <3>1 DEF RejectTypeOK
    <3> QED BY <3>2
  <2>8. ASSUME NEW stale \in SUBSET Keys
        PROVE  [rejecting EXCEPT ![t].stale = stale] \in [Threads -> R]
    <3>1. [rejecting[t] EXCEPT !.stale = stale] \in R
      BY <2>0
    <3>2. [rejecting EXCEPT ![t] = [rejecting[t] EXCEPT !.stale = stale]] \in [Threads -> R]
      BY <3>1 DEF RejectTypeOK
    <3> QED BY <3>2
  <2>2. [rejecting EXCEPT ![t] = NotRejecting] \in [Threads -> R]
    BY NotRejectingType DEF RejectTypeOK
  <2>3. ASSUME NEW victim \in windows, Flush(victim)
        PROVE  windows' \subseteq Keys /\ journal' \in [Keys -> Nat]
    BY <2>3 DEF RejectTypeOK, Flush
  <2>4. CASE Expire(t)
    <3>1. rejecting[t].stale \in SUBSET Keys
      BY <2>0
    <3>2. CASE rejecting[t].stale = {}
      BY <2>4, <3>2, <2>1 DEF Expire, RejectTypeOK, Steps
    <3>3. CASE rejecting[t].stale # {}
      <4>1. PICK victim \in rejecting[t].stale :
              IF victim \in windows
              THEN /\ Flush(victim)
                   /\ rejecting' = [rejecting EXCEPT ![t].stale = @ \ {victim}]
              ELSE /\ rejecting' = [rejecting EXCEPT ![t] = NotRejecting]
                   /\ UNCHANGED <<windows, journal>>
        BY <2>4, <3>3 DEF Expire
      <4>2. UNCHANGED <<now, start, count, rejected>>
        BY <2>4 DEF Expire
      <4>3. CASE victim \in windows
        <5>1. rejecting[t].stale \ {victim} \in SUBSET Keys
          BY <3>1
        <5>2. rejecting' = [rejecting EXCEPT ![t].stale = rejecting[t].stale \ {victim}]
          BY <4>1, <4>3
        <5>3. rejecting' \in [Threads -> R]
          BY <5>1, <5>2, <2>8
        <5> QED BY <4>1, <4>2, <4>3, <5>3, <2>3 DEF RejectTypeOK
      <4>4. CASE victim \notin windows
        BY <4>1, <4>2, <4>4, <2>2 DEF RejectTypeOK
      <4> QED BY <4>3, <4>4
    <3> QED BY <3>2, <3>3
  <2>5. CASE Evict(t)
    <3>1. CASE windows = {}
      BY <2>5, <3>1, <2>2 DEF Evict, RejectTypeOK
    <3>2. CASE windows # {}
      BY <2>5, <3>2, <2>1, <2>3 DEF Evict, RejectTypeOK, Steps
    <3> QED BY <3>1, <3>2
  <2>6. CASE Count(t)
    BY <2>6, <2>0, <2>2 DEF Count, RejectTypeOK
  <2>7. CASE Line(t)
    BY <2>7, <2>0, <2>2 DEF Line, RejectTypeOK
  <2> QED BY <1>4, <2>4, <2>5, <2>6, <2>7 DEF Reject
<1> QED BY <1>1, <1>2, <1>3, <1>4 DEF RejectNext

(* Type correctness, however many threads reject.                           *)
THEOREM RejectTypes == RejectSpec => []RejectTypeOK
  BY TypeInit, TypeNext, PTL DEF RejectSpec

---------------------------------------------------------------------------
(* What holds between the steps of the only thread: what its look read is   *)
(* still so, and before it writes a new key there is room for it.           *)
LookHolds(me) ==
  /\ me.step = "count" => me.key \in windows /\ me.n = count[me.key]
  /\ me.step = "line" /\ me.key \in windows => me.n = count[me.key]
  /\ me.step = "line" /\ me.key \notin windows => me.n = 0 /\ Cardinality(windows) < Cap
  /\ me.step \in {"expire", "evict"} => me.n = 0 /\ me.key \notin windows
  /\ me.step = "expire" => me.stale \subseteq windows

OnePollerInv ==
  /\ RejectTypeOK
  /\ CountsAccounted
  /\ WindowsCapped
  /\ \A t \in Threads : LookHolds(rejecting[t])

(* Sizes of the table as a key enters or leaves it.                         *)
LEMMA TableSize ==
  ASSUME RejectTypeOK, NEW k \in Keys
  PROVE  /\ IsFiniteSet(windows) /\ Cardinality(windows) \in Nat
         /\ k \in windows => Cardinality(windows \ {k}) = Cardinality(windows) - 1
         /\ k \notin windows => /\ Cardinality(windows \ {k}) = Cardinality(windows)
                                /\ Cardinality(windows \union {k}) = Cardinality(windows) + 1
         /\ k \in windows => windows \union {k} = windows
<1>1. IsFiniteSet(windows)
  BY RejectAssumption, FS_Subset DEF RejectTypeOK
<1>2. k \notin windows => windows \ {k} = windows
  OBVIOUS
<1>3. Cardinality(windows) \in Nat
  BY <1>1, FS_CardinalityType
<1>4. k \in windows => Cardinality(windows \ {k}) = Cardinality(windows) - 1
  BY <1>1, FS_RemoveElement
<1>5. k \notin windows => Cardinality(windows \union {k}) = Cardinality(windows) + 1
  BY <1>1, FS_AddElement
<1> QED BY <1>1, <1>2, <1>3, <1>4, <1>5

(* A flush moves a count from the table to the journal.                     *)
LEMMA FlushAccounts ==
  ASSUME OnePollerInv, NEW victim \in windows, Flush(victim),
         UNCHANGED <<count, rejected>>
  PROVE  CountsAccounted'
<1> SUFFICES ASSUME NEW k \in Keys PROVE (rejected[k] = journal[k] + Held(k))'
  BY DEF CountsAccounted
<1>1. rejected[k] = journal[k] + Held(k) /\ journal[k] \in Nat /\ count[k] \in Nat /\ victim \in Keys
  BY DEF OnePollerInv, CountsAccounted, RejectTypeOK
<1>2. CASE k = victim
  <2>1. Held(k) = count[k]
    BY <1>2 DEF Held
  <2>2. journal'[k] = journal[k] + count[k] /\ Held(k)' = 0
    BY <1>1, <1>2 DEF Flush, Held, OnePollerInv, RejectTypeOK
  <2> QED BY <1>1, <2>1, <2>2
<1>3. CASE k # victim
  <2>1. journal'[k] = journal[k] /\ (k \in windows <=> k \in windows')
    BY <1>3 DEF Flush, OnePollerInv, RejectTypeOK
  <2>2. Held(k)' = Held(k)
    BY <2>1 DEF Held
  <2> QED BY <1>1, <2>1, <2>2
<1> QED BY <1>2, <1>3

LEMMA OnePollerInit == RejectInit => OnePollerInv
<1> SUFFICES ASSUME RejectInit PROVE OnePollerInv
  OBVIOUS
<1>1. CountsAccounted
  BY DEF RejectInit, CountsAccounted, Held
<1>2. WindowsCapped
  BY FS_EmptySet, RejectAssumption DEF RejectInit, WindowsCapped
<1>3. \A t \in Threads : LookHolds(rejecting[t])
  BY DEF RejectInit, LookHolds, NotRejecting, Rejecting
<1> QED BY <1>1, <1>2, <1>3, TypeInit DEF OnePollerInv

(* With one thread nothing comes between a look and its write.              *)
LEMMA OnePollerNext ==
  ASSUME NEW one, Threads = {one}, OnePollerInv, [RejectNext]_rvars
  PROVE  OnePollerInv'
<1> DEFINE me == rejecting[one]
<1>0. RejectTypeOK /\ RejectTypeOK' /\ CountsAccounted /\ WindowsCapped /\ LookHolds(me)
  BY TypeNext DEF OnePollerInv
<1>t. me \in [step : Steps, key : Keys, from : Nat, n : Nat, stale : SUBSET Keys]
  BY <1>0 DEF RejectTypeOK
<1>s. SUFFICES CountsAccounted' /\ WindowsCapped' /\ LookHolds(rejecting[one])'
  BY <1>0 DEF OnePollerInv
<1>1. CASE UNCHANGED rvars
  BY <1>0, <1>1 DEF rvars, CountsAccounted, Held, WindowsCapped, LookHolds
<1>2. CASE Tick
  BY <1>0, <1>2 DEF Tick, CountsAccounted, Held, WindowsCapped, LookHolds
<1>3. ASSUME NEW k \in Keys, Look(PollerOf[k], k)
      PROVE  CountsAccounted' /\ WindowsCapped' /\ LookHolds(rejecting[one])'
  <2>1. PollerOf[k] = one
    BY RejectAssumption
  <2>2. UNCHANGED <<now, windows, start, count, rejected, journal>>
    BY <1>3 DEF Look
  <2>3. rejecting'[one] =
       IF k \in windows
       THEN IF Live(k) THEN Rejecting("count", k, start[k], count[k], {})
                       ELSE Rejecting("line", k, now, count[k], {})
       ELSE IF Cardinality(windows) >= Cap THEN Rejecting("expire", k, now, 0, Stale)
                                           ELSE Rejecting("line", k, now, 0, {})
    BY <1>0, <1>3, <2>1 DEF Look, RejectTypeOK
  <2>4. CountsAccounted' /\ WindowsCapped'
    BY <1>0, <2>2 DEF CountsAccounted, Held, WindowsCapped
  <2>5. Stale \subseteq windows
    BY DEF Stale
  <2>6. Cardinality(windows) \in Nat /\ Cap \in Nat
    BY <1>0, TableSize, RejectAssumption
  <2>7. LookHolds(rejecting[one])'
    <3>1. CASE k \in windows /\ Live(k)
      BY <2>2, <2>3, <3>1 DEF LookHolds, Rejecting
    <3>2. CASE k \in windows /\ ~ Live(k)
      BY <2>2, <2>3, <3>2 DEF LookHolds, Rejecting
    <3>3. CASE k \notin windows /\ Cardinality(windows) >= Cap
      BY <2>2, <2>3, <2>5, <3>3 DEF LookHolds, Rejecting
    <3>4. CASE k \notin windows /\ ~ (Cardinality(windows) >= Cap)
      BY <2>2, <2>3, <2>6, <3>4 DEF LookHolds, Rejecting
    <3> QED BY <3>1, <3>2, <3>3, <3>4
  <2> QED BY <2>4, <2>7
<1>4. CASE Expire(one)
  <2>0. me.step = "expire" /\ UNCHANGED <<now, start, count, rejected>>
    BY <1>4 DEF Expire
  <2>1. me.n = 0 /\ me.key \notin windows /\ me.stale \subseteq windows
    BY <1>0, <2>0 DEF LookHolds
  <2>2. CASE me.stale = {}
    <3>1. UNCHANGED <<windows, journal>>
          /\ rejecting' = [rejecting EXCEPT ![one].step =
               IF Cardinality(windows) >= Cap THEN "evict" ELSE "line"]
      BY <1>4, <2>2 DEF Expire
    <3>2. CountsAccounted' /\ WindowsCapped'
      BY <1>0, <2>0, <3>1 DEF CountsAccounted, Held, WindowsCapped
    <3>3. rejecting'[one] = [me EXCEPT !.step =
               IF Cardinality(windows) >= Cap THEN "evict" ELSE "line"]
      BY <1>0, <3>1 DEF RejectTypeOK
    <3>4. Cardinality(windows) \in Nat /\ Cap \in Nat
      BY <1>0, <1>t, TableSize, RejectAssumption
    <3>5. CASE Cardinality(windows) >= Cap
      <4>1. rejecting'[one].step = "evict" /\ rejecting'[one].key = me.key /\ rejecting'[one].n = me.n
        BY <3>3, <3>5, <1>t
      <4> QED BY <4>1, <2>1, <3>1, <3>2 DEF LookHolds
    <3>6. CASE ~ (Cardinality(windows) >= Cap)
      <4>1. rejecting'[one].step = "line" /\ rejecting'[one].key = me.key /\ rejecting'[one].n = me.n
        BY <3>3, <3>6, <1>t
      <4>2. Cardinality(windows) < Cap
        BY <3>4, <3>6
      <4> QED BY <4>1, <4>2, <2>1, <3>1, <3>2 DEF LookHolds
    <3> QED BY <3>5, <3>6
  <2>3. CASE me.stale # {}
    <3>1. PICK victim \in me.stale : 
              IF victim \in windows
              THEN /\ Flush(victim)
                   /\ rejecting' = [rejecting EXCEPT ![one].stale = @ \ {victim}]
              ELSE /\ rejecting' = [rejecting EXCEPT ![one] = NotRejecting]
                   /\ UNCHANGED <<windows, journal>>
      BY <1>4, <2>3 DEF Expire
    <3>2. victim \in windows /\ Flush(victim)
          /\ rejecting' = [rejecting EXCEPT ![one].stale = @ \ {victim}]
      BY <2>1, <3>1
    <3>3. rejecting'[one] = [me EXCEPT !.stale = @ \ {victim}]
      BY <1>0, <3>2 DEF RejectTypeOK
    <3>4. /\ rejecting'[one].step = "expire" /\ rejecting'[one].key = me.key
          /\ rejecting'[one].n = me.n /\ rejecting'[one].stale = me.stale \ {victim}
      BY <3>3, <2>0, <1>t
    <3>5. CountsAccounted'
      BY <2>0, <3>2, FlushAccounts
    <3>6. WindowsCapped'
      <4>1. victim \in Keys
        BY <1>0, <3>2 DEF RejectTypeOK
      <4> QED BY <1>0, <3>2, <4>1, TableSize, RejectAssumption DEF WindowsCapped, Flush
    <3>7. windows' = windows \ {victim}
      BY <3>2 DEF Flush
    <3> QED BY <3>4, <3>5, <3>6, <3>7, <2>1 DEF LookHolds
  <2> QED BY <2>2, <2>3
<1>5. CASE Evict(one)
  <2>0. me.step = "evict" /\ UNCHANGED <<now, start, count, rejected>>
    BY <1>5 DEF Evict
  <2>1. me.n = 0 /\ me.key \notin windows
    BY <1>0, <2>0 DEF LookHolds
  <2>2. CASE windows = {}
    <3>1. UNCHANGED <<windows, journal>> /\ rejecting' = [rejecting EXCEPT ![one] = NotRejecting]
      BY <1>5, <2>2 DEF Evict
    <3>2. rejecting'[one].step = "idle"
      BY <1>0, <3>1 DEF RejectTypeOK, NotRejecting, Rejecting
    <3> QED BY <1>0, <2>0, <3>1, <3>2 DEF CountsAccounted, Held, WindowsCapped, LookHolds
  <2>3. CASE windows # {}
    <3>1. PICK victim \in windows : Flush(victim)
      BY <1>5, <2>3 DEF Evict
    <3>2. rejecting' = [rejecting EXCEPT ![one].step = "line"]
      BY <1>5, <2>3 DEF Evict
    <3>3. rejecting'[one].step = "line" /\ rejecting'[one].key = me.key /\ rejecting'[one].n = me.n
      BY <1>0, <3>2, <1>t DEF RejectTypeOK
    <3>4. CountsAccounted'
      BY <2>0, <3>1, FlushAccounts
    <3>5. windows' = windows \ {victim} /\ victim \in Keys
      BY <1>0, <3>1 DEF Flush, RejectTypeOK
    <3>6. Cardinality(windows') < Cap
      BY <1>0, <3>1, <3>5, TableSize, RejectAssumption DEF WindowsCapped
    <3>7. WindowsCapped' /\ me.key \notin windows'
      <4>1. Cardinality(windows') \in Nat
        <5>1. IsFiniteSet(windows)
          BY <1>0, <1>t, TableSize
        <5>2. IsFiniteSet(windows')
          BY <3>5, <5>1, FS_Subset
        <5> QED BY <5>2, FS_CardinalityType
      <4> QED BY <4>1, <3>5, <3>6, <2>1, RejectAssumption DEF WindowsCapped
    <3> QED BY <3>3, <3>4, <3>6, <3>7, <2>1 DEF LookHolds
  <2> QED BY <2>2, <2>3
<1>6. CASE Count(one)
  <2>1. /\ me.step = "count" /\ me.key \in windows /\ me.n = count[me.key] /\ me.key \in Keys
        /\ count[me.key] \in Nat
    BY <1>0, <1>6, <1>t DEF Count, LookHolds, RejectTypeOK
  <2>2. /\ windows' = windows /\ journal' = journal
        /\ count' = [count EXCEPT ![me.key] = me.n + 1]
        /\ rejected' = [rejected EXCEPT ![me.key] = @ + 1]
    BY <1>6, <2>1 DEF Count
  <2>3. rejecting'[one].step = "idle"
    BY <1>0, <1>6 DEF Count, RejectTypeOK, NotRejecting, Rejecting
  <2>4. CountsAccounted'
    <3> SUFFICES ASSUME NEW k \in Keys PROVE (rejected[k] = journal[k] + Held(k))'
      BY DEF CountsAccounted
    <3>1. rejected[k] = journal[k] + Held(k) /\ journal[k] \in Nat /\ count[k] \in Nat /\ rejected[k] \in Nat
      BY <1>0 DEF CountsAccounted, RejectTypeOK
    <3>2. CASE k = me.key
      BY <1>0, <2>1, <2>2, <3>1, <3>2 DEF Held, RejectTypeOK
    <3>3. CASE k # me.key
      BY <1>0, <2>1, <2>2, <3>1, <3>3 DEF Held, RejectTypeOK
    <3> QED BY <3>2, <3>3
  <2> QED BY <1>0, <2>2, <2>3, <2>4 DEF WindowsCapped, LookHolds
<1>7. CASE Line(one)
  <2>1. me.step = "line" /\ me.key \in Keys /\ me.n \in Nat
    BY <1>t, <1>7 DEF Line
  <2>2. /\ windows' = windows \union {me.key}
        /\ count' = [count EXCEPT ![me.key] = 0]
        /\ rejected' = [rejected EXCEPT ![me.key] = @ + 1]
        /\ journal' = [journal EXCEPT ![me.key] = @ + me.n + 1]
    BY <1>7 DEF Line
  <2>3. rejecting'[one].step = "idle"
    BY <1>0, <1>7 DEF Line, RejectTypeOK, NotRejecting, Rejecting
  <2>4. me.n = Held(me.key)
    BY <1>0, <2>1 DEF LookHolds, Held
  <2>5. CountsAccounted'
    <3> SUFFICES ASSUME NEW k \in Keys PROVE (rejected[k] = journal[k] + Held(k))'
      BY DEF CountsAccounted
    <3>1. rejected[k] = journal[k] + Held(k) /\ journal[k] \in Nat /\ count[k] \in Nat /\ rejected[k] \in Nat
      BY <1>0 DEF CountsAccounted, RejectTypeOK
    <3>2. CASE k = me.key
      <4>1. Held(k)' = 0
        BY <1>0, <2>1, <2>2, <3>2 DEF Held, RejectTypeOK
      <4>2. journal'[k] = journal[k] + me.n + 1 /\ rejected'[k] = rejected[k] + 1
        BY <1>0, <2>1, <2>2, <3>2 DEF RejectTypeOK
      <4> QED BY <2>1, <2>4, <3>1, <3>2, <4>1, <4>2
    <3>3. CASE k # me.key
      BY <1>0, <2>1, <2>2, <3>1, <3>3 DEF Held, RejectTypeOK
    <3> QED BY <3>2, <3>3
  <2>6. WindowsCapped'
    <3>1. /\ me.key \notin windows => Cardinality(windows \union {me.key}) = Cardinality(windows) + 1
          /\ me.key \in windows => windows \union {me.key} = windows
          /\ Cardinality(windows) \in Nat
      BY <1>0, <2>1, TableSize
    <3>2. me.key \notin windows => Cardinality(windows) < Cap
      BY <1>0, <2>1 DEF LookHolds
    <3>3. Cardinality(windows) <= Cap /\ Cap \in Nat
      BY <1>0, RejectAssumption DEF WindowsCapped
    <3>4. Cardinality(windows \union {me.key}) <= Cap
      <4>1. CASE me.key \in windows
        BY <3>1, <3>3, <4>1
      <4>2. CASE me.key \notin windows
        BY <3>1, <3>2, <3>3, <4>2
      <4> QED BY <4>1, <4>2
    <3> QED BY <2>2, <3>4 DEF WindowsCapped
  <2> QED BY <2>3, <2>5, <2>6 DEF LookHolds
<1> QED BY <1>1, <1>2, <1>3, <1>4, <1>5, <1>6, <1>7 DEF RejectNext, Reject

(* With one poller, no rejection leaves the accounting unsaid and the table *)
(* never outgrows its cap (daemon.py 4442, 4459), for every window, cap and *)
(* set of keys.                                                             *)
THEOREM OnePollerAccounts ==
  ASSUME NEW one, Threads = {one}
  PROVE  RejectSpec => []RejectionsKept
<1>1. OnePollerInv /\ [RejectNext]_rvars => OnePollerInv'
  BY OnePollerNext
<1>2. OnePollerInv => RejectionsKept
  BY DEF OnePollerInv, RejectionsKept
<1> QED BY <1>1, <1>2, OnePollerInit, PTL DEF RejectSpec

---------------------------------------------------------------------------
(* The inductive invariant *)

(* What lies below a cursor has been handled.                               *)
Handled(b, n) == 1 .. n - 1 \subseteq ever[b]

(* A batch is a run of updates that begins where everything before it has   *)
(* been handled and nothing in this life of the daemon has been.            *)
BatchInv(b) ==
  LET p == poller[b] IN
  /\ \A i \in 1..Len(p.batch) : p.batch[i] = p.batch[1] + i - 1
  /\ p.batch # <<>> => Handled(b, p.batch[1]) /\ p.offset <= p.batch[1]
  /\ \A u \in done[b] : u < p.offset
  /\ p.pc \in {"down", "initial", "adopted"} => done[b] = {}

BotInv(b) ==
  /\ own[b] # NoFile => Handled(b, own[b])
  /\ Handled(b, poller[b].offset) /\ Handled(b, server[b])
  /\ BatchInv(b)
  /\ poller[b].pc # "down" /\ ~config.multi => b = config.default
  /\ poller[b].pc \in {"adopted", "mirror"} => config.multi /\ b = config.default /\ own[b] # NoFile

(* The one file is the cursor of the bot it was last written for: the only  *)
(* bot's, and before any bot has a file of its own the first one's.         *)
MirrorInv ==
  /\ Handled(mirrored, Known(legacy))
  /\ ~config.multi => mirrored = config.default
  /\ (\A b \in Bots : own[b] = NoFile) => config.default = First /\ mirrored = First

(* A pending confirmation is of the prompt delivered last, and no text for  *)
(* the session came since.                                                  *)
ArmedInv(b) ==
  armed[b] # 0 => /\ prompt[b].at \in 0..now /\ armed[b] = prompt[b].at + Window
                  /\ "plain" \notin prompt[b].since

CursorInv == CursorTypeOK /\ (\A b \in Bots : BotInv(b)) /\ MirrorInv
KillInv == TopicTypeOK /\ (\A b \in Bots : ArmedInv(b)) /\ KillIsConfirmed

IInv == RejectTypeOK /\ setup \in Environment /\ CursorInv /\ KillInv

---------------------------------------------------------------------------
(* The parts of a step *)

PollerType == [pc : Places, offset : Nat, batch : Seq(Nat)]
cursors == <<config, files, poller, sent, server, done, ever>>

(* The table of rejections takes a step of its own, stays, or is emptied    *)
(* with the process.                                                        *)
Emptied ==
  /\ windows' = {} /\ rejecting' = [t \in Threads |-> NotRejecting]
  /\ rejected' = [k \in Keys |-> 0] /\ journal' = [k \in Keys |-> 0]
  /\ UNCHANGED <<now, start, count>>

LEMMA UpdateInHand ==
  ASSUME CursorTypeOK, NEW b \in Bots, poller[b].batch # <<>>
  PROVE  /\ Update(b) \in Updates(b) /\ Update(b) = poller[b].batch[1] /\ Update(b) \in Nat
         /\ sent[b][Update(b)] \in [kind : Kinds, key : Keys] /\ Text(b) \in Kinds
         /\ Text(b) = "rejected" => PollerOf[sent[b][Update(b)].key] = b
<1>1. poller[b].batch \in Seq(Nat) /\ sent[b] \in Seq([kind : Kinds, key : Keys])
  BY DEF CursorTypeOK
<1>2. Len(poller[b].batch) \in Nat \ {0} /\ DOMAIN poller[b].batch = 1..Len(poller[b].batch)
  BY <1>1, EmptySeq, LenProperties
<1>3. Update(b) = poller[b].batch[1] /\ Update(b) \in Nat
  BY <1>1, HeadTailProperties DEF Update
<1>4. 1 \in DOMAIN poller[b].batch
  BY <1>2
<1>5. Update(b) \in Range(poller[b].batch)
  BY <1>3, <1>4 DEF Range
<1>6. Update(b) \in Updates(b)
  BY <1>5 DEF CursorTypeOK
<1>7. sent[b][Update(b)] \in [kind : Kinds, key : Keys]
  BY <1>1, <1>6, ElementOfSeq DEF Updates
<1> QED BY <1>3, <1>6, <1>7 DEF Text, CursorTypeOK

LEMMA RejectParts ==
  ASSUME CursorTypeOK, RejectTypeOK, Next
  PROVE  [RejectNext]_rvars \/ Emptied
<1>1. ASSUME NEW b \in Bots, RejectEvent(b) PROVE RejectNext
  <2>1. Look(b, sent[b][Update(b)].key) /\ poller[b].batch # <<>> /\ Text(b) = "rejected"
    BY <1>1 DEF RejectEvent
  <2>2. sent[b][Update(b)].key \in Keys /\ PollerOf[sent[b][Update(b)].key] = b
    BY <2>1, UpdateInHand
  <2> QED BY <2>1, <2>2 DEF RejectNext
<1>2. ASSUME NEW b \in Bots, RejectStep(b) PROVE RejectNext
  BY <1>2 DEF RejectStep, RejectNext, Bots
<1>3. ASSUME Stop PROVE Emptied
  BY <1>3 DEF Stop, Emptied
<1>4. ASSUME NEW b \in Bots, SaveFails(b) PROVE UNCHANGED rvars \/ Stop
  BY <1>4 DEF SaveFails
<1>5. ASSUME NEW b \in Bots, Cursor(b) PROVE UNCHANGED rvars \/ Stop
  BY <1>4, <1>5 DEF Cursor, InitialOffset, FirstOffset, MirrorInitial, MirrorFails, Poll, SaveOwn, SaveMirror
<1>6. ASSUME NEW b \in Bots, Handle(b) PROVE UNCHANGED rvars \/ RejectEvent(b)
  BY <1>6 DEF Handle, Halt, HaltRaises, AskKill, Obey, ConfirmKill, ToInbox, Media
<1>7. ASSUME NEW b \in Bots, Send(b) \/ CarryForwardStarts(b) \/ PaneDies(b) PROVE UNCHANGED rvars
  BY <1>7 DEF Send, CarryForwardStarts, PaneDies
<1>8. ASSUME TimePasses PROVE RejectNext
  BY <1>8 DEF TimePasses, RejectNext
<1>9. ASSUME Boot \/ StartPollers \/ Reconfigure PROVE UNCHANGED rvars
  BY <1>9 DEF Boot, StartPollers, Reconfigure
<1>10. ASSUME Crash PROVE Stop
  BY <1>10 DEF Crash
<1> QED BY <1>1, <1>2, <1>3, <1>5, <1>6, <1>7, <1>8, <1>9, <1>10 DEF Next

LEMMA RejectTypeStep ==
  ASSUME RejectTypeOK, [RejectNext]_rvars \/ Emptied
  PROVE  RejectTypeOK' /\ now <= now'
<1>1. CASE [RejectNext]_rvars
  <2>1. now' = now \/ now' = now + 1
    BY <1>1 DEF RejectNext, rvars, Tick, Look, Reject, Expire, Evict, Count, Line
  <2> QED BY <1>1, <2>1, TypeNext DEF RejectTypeOK
<1>2. CASE Emptied
  BY <1>2, NotRejectingType DEF Emptied, RejectTypeOK
<1> QED BY <1>1, <1>2

(* A spent bound leaves the rest of the environment.                        *)
LEMMA SpendStep ==
  ASSUME setup \in Environment,
         NEW what \in {"updates", "crashes", "configs", "faults", "ticks", "runs", "deaths"}, Spend(what)
  PROVE  setup' \in Environment
<1>1. setup[what] \in Nat \ {0}
  BY DEF Environment, Spend
<1>2. PICK n \in Nat : n = setup[what] - 1
  BY <1>1
<1>3. setup' = [setup EXCEPT ![what] = n]
  BY <1>2 DEF Spend
<1> QED BY <1>3 DEF Environment

LEMMA SetupStep ==
  ASSUME setup \in Environment, Next
  PROVE  setup' \in Environment
<1>1. ASSUME NEW b \in Bots, SaveFails(b) \/ MirrorFails PROVE setup' \in Environment
  BY <1>1, SpendStep DEF SaveFails, MirrorFails
<1>2. ASSUME NEW b \in Bots, Cursor(b) PROVE setup' \in Environment
  BY <1>1, <1>2 DEF Cursor, InitialOffset, FirstOffset, MirrorInitial, Poll, SaveOwn, SaveMirror
<1>3. ASSUME NEW b \in Bots, Handle(b) PROVE setup' \in Environment
  BY <1>3, SpendStep DEF Handle, Halt, HaltRaises, AskKill, Obey, ConfirmKill, ToInbox, Media, RejectEvent
<1>4. ASSUME NEW b \in Bots, RejectStep(b) \/ Send(b) \/ CarryForwardStarts(b) \/ PaneDies(b)
      PROVE  setup' \in Environment
  BY <1>4, SpendStep DEF RejectStep, Send, CarryForwardStarts, PaneDies
<1>5. ASSUME Boot \/ StartPollers \/ Crash \/ Reconfigure \/ TimePasses PROVE setup' \in Environment
  BY <1>5, SpendStep DEF Boot, StartPollers, Crash, Reconfigure, TimePasses
<1> QED BY <1>2, <1>3, <1>4, <1>5 DEF Next

---------------------------------------------------------------------------
(* The cursors *)

BotType(b) ==
  /\ poller[b].offset <= Len(sent[b]) + 1 /\ Range(poller[b].batch) \subseteq Updates(b)
  /\ done[b] \subseteq ever[b] /\ ever[b] \subseteq Updates(b)
  /\ \A u \in Updates(b) : sent[b][u].kind = "rejected" => PollerOf[sent[b][u].key] = b

FilesType ==
  /\ config \in [multi : BOOLEAN, default : Bots] /\ mirrored \in Bots
  /\ own \in [Bots -> Nat \union {NoFile}] /\ legacy \in Nat \union {NoFile}
  /\ poller \in [Bots -> PollerType]
  /\ sent \in [Bots -> Seq([kind : Kinds, key : Keys])]
  /\ server \in [Bots -> Nat \ {0}]
  /\ {done, ever} \subseteq [Bots -> SUBSET Nat]

LEMMA CursorTypes == CursorTypeOK <=> FilesType /\ \A b \in Bots : BotType(b)
BY DEF CursorTypeOK, FilesType, BotType, PollerType

(* A step of one bot keeps the others as they are.                          *)
LEMMA OneBot ==
  ASSUME CursorInv, NEW b \in Bots, config' = config, FilesType', BotType(b)', BotInv(b)', MirrorInv',
         \A c \in Bots : c # b => /\ own'[c] = own[c] /\ poller'[c] = poller[c] /\ sent'[c] = sent[c]
                                  /\ server'[c] = server[c] /\ done'[c] = done[c] /\ ever'[c] = ever[c]
  PROVE  CursorInv'
<1>1. ASSUME NEW c \in Bots PROVE BotType(c)' /\ BotInv(c)'
  <2>1. CASE c = b
    BY <2>1
  <2>2. CASE c # b
    <3>1. BotType(c) /\ BotInv(c)
      BY CursorTypes DEF CursorInv
    <3>2. BotType(c)'
      BY <2>2, <3>1 DEF BotType, Updates
    <3>3. BotInv(c)'
      BY <2>2, <3>1 DEF BotInv, BatchInv, Handled
    <3> QED BY <3>2, <3>3
  <2> QED BY <2>1, <2>2
<1> QED BY <1>1, CursorTypes DEF CursorInv, CursorTypeOK, FilesType, BotType, PollerType, Updates

(* No bot has moved; messages may have come.                                *)
LEMMA CursorsStay ==
  ASSUME CursorInv, UNCHANGED cursors
  PROVE  CursorInv'
<1>1. CursorTypeOK'
  BY DEF CursorInv, cursors, files, CursorTypeOK, Updates
<1>2. ASSUME NEW b \in Bots PROVE BotInv(b)'
  <2>1. BotInv(b)
    BY DEF CursorInv
  <2> QED BY <2>1 DEF cursors, files, BotInv, BatchInv, Handled
<1>3. MirrorInv'
  BY DEF CursorInv, cursors, files, MirrorInv, Handled, Known
<1> QED BY <1>1, <1>2, <1>3 DEF CursorInv

LEMMA SendStep ==
  ASSUME CursorInv, RejectTypeOK, setup \in Environment, NEW b \in Bots, Send(b)
  PROVE  CursorInv'
<1> DEFINE news == {Message(kind, SomeKey) : kind \in setup.kinds}
                     \union {Message("rejected", k) : k \in {k \in setup.keys : PollerOf[k] = b}}
<1>1. PICK m \in news : sent' = [sent EXCEPT ![b] = Append(@, m)]
  BY DEF Send
<1>2. m \in [kind : Kinds, key : Keys] /\ (m.kind = "rejected" => PollerOf[m.key] = b)
  BY SomeKeyType DEF Environment, Message, Kinds
<1>3. CursorTypeOK /\ FilesType /\ BotType(b) /\ BotInv(b)
  BY CursorTypes DEF CursorInv
<1>4. sent[b] \in Seq([kind : Kinds, key : Keys]) /\ Len(sent[b]) \in Nat
  BY <1>3, LenProperties DEF FilesType
<1> HIDE DEF news
<1>5. /\ sent'[b] = Append(sent[b], m) /\ sent'[b] \in Seq([kind : Kinds, key : Keys])
      /\ Len(sent'[b]) = Len(sent[b]) + 1 /\ sent'[b][Len(sent[b]) + 1] = m
      /\ \A u \in Updates(b) : sent'[b][u] = sent[b][u]
  BY <1>1, <1>2, <1>3, <1>4, AppendProperties DEF FilesType, Updates
<1>6. UNCHANGED <<config, own, legacy, mirrored, poller, server, done, ever>>
  BY DEF Send, files
<1>7. FilesType'
  BY <1>1, <1>3, <1>5, <1>6 DEF FilesType
<1>8. Updates(b)' = Updates(b) \union {Len(sent[b]) + 1}
  BY <1>4, <1>5 DEF Updates
<1>9. poller[b].offset \in Nat
  BY <1>3 DEF FilesType, PollerType
<1>10. BotType(b)'
  <2>1. \A u \in Updates(b)' : sent'[b][u].kind = "rejected" => PollerOf[sent'[b][u].key] = b
    BY <1>2, <1>3, <1>5, <1>8 DEF BotType
  <2>2. Len(sent[b]) <= Len(sent'[b]) /\ poller'[b].offset <= Len(sent[b]) + 1
    BY <1>3, <1>4, <1>5, <1>6 DEF BotType
  <2>3. poller'[b].offset <= Len(sent'[b]) + 1
    <3>1. PICK l \in Nat : l = Len(sent[b])
      BY <1>4
    <3>2. PICK o \in Nat : o = poller'[b].offset
      BY <1>6, <1>9
    <3>3. Len(sent'[b]) = l + 1 /\ o <= l + 1
      BY <1>5, <2>2, <3>1, <3>2
    <3> QED BY <3>1, <3>2, <3>3
  <2>4. Range(poller'[b].batch) \subseteq Updates(b)'
    BY <1>3, <1>6, <1>8 DEF BotType
  <2>5. done'[b] \subseteq ever'[b] /\ ever'[b] \subseteq Updates(b)'
    BY <1>3, <1>6, <1>8 DEF BotType
  <2> QED BY <2>1, <2>3, <2>4, <2>5 DEF BotType
<1>11. BotInv(b)' /\ MirrorInv'
  BY <1>3, <1>6 DEF BotInv, BatchInv, Handled, MirrorInv, CursorInv, Known
<1>12. \A c \in Bots : c # b => sent'[c] = sent[c]
  BY <1>1, <1>3 DEF FilesType
<1> QED BY <1>6, <1>7, <1>10, <1>11, <1>12, OneBot

LEMMA ReconfigureStep ==
  ASSUME CursorInv, Reconfigure
  PROVE  CursorInv'
<1>1. UNCHANGED <<own, legacy, mirrored, poller, sent, server, done, ever>> /\ Down
  BY DEF Reconfigure, files
<1>2. config' \in [multi : BOOLEAN, default : Bots]
  BY DEF Reconfigure, CursorInv, CursorTypeOK
<1>3. CursorTypeOK'
  BY <1>1, <1>2 DEF CursorInv, CursorTypeOK, Updates
<1>4. \A b \in Bots : BotInv(b)'
  BY <1>1 DEF CursorInv, BotInv, BatchInv, Handled, Down
<1>5. MirrorInv'
  <2>1. CASE config' = [config EXCEPT !.multi = ~ @] /\ (config.multi => mirrored = config.default)
    <3>1. config'.default = config.default
      BY <2>1 DEF CursorInv, CursorTypeOK
    <3> QED BY <1>1, <2>1, <3>1 DEF CursorInv, MirrorInv, Handled, Known, CursorTypeOK
  <2>2. CASE config.multi /\ own[config.default] # NoFile /\ \E b \in Bots : config' = [config EXCEPT !.default = b]
    <3>1. config'.multi /\ config.default \in Bots
      BY <2>2 DEF CursorInv, CursorTypeOK
    <3> QED BY <1>1, <2>2, <3>1 DEF CursorInv, MirrorInv, Handled, Known
  <2> QED BY <2>1, <2>2 DEF Reconfigure
<1> QED BY <1>3, <1>4, <1>5 DEF CursorInv

LEMMA StopStep ==
  ASSUME CursorInv, Stop, UNCHANGED files
  PROVE  CursorInv'
<1>1. /\ UNCHANGED <<config, own, legacy, mirrored, sent, server, ever>>
      /\ poller' = [b \in Bots |-> Idle] /\ done' = [b \in Bots |-> {}]
  BY DEF Stop, files
<1>2. FilesType'
  <2>1. Idle \in PollerType
    BY EmptySeq DEF Idle, PollerType, Places
  <2> QED BY <1>1, <2>1, CursorTypes DEF CursorInv, FilesType
<1>3. ASSUME NEW b \in Bots PROVE BotType(b)' /\ BotInv(b)'
  <2>1. BotType(b) /\ BotInv(b)
    BY CursorTypes DEF CursorInv
  <2>2. /\ poller'[b].offset = 0 /\ poller'[b].batch = <<>> /\ Len(poller'[b].batch) = 0
        /\ poller'[b].pc = "down" /\ done'[b] = {}
    BY <1>1 DEF Idle
  <2>3. Len(sent[b]) \in Nat
    BY CursorTypes, LenProperties DEF CursorInv, FilesType
  <2>4. Range(poller'[b].batch) = {}
    BY <2>2 DEF Range
  <2>5. BotType(b)'
    BY <1>1, <2>1, <2>2, <2>3, <2>4 DEF BotType, Updates
  <2>6. BotInv(b)'
    BY <1>1, <2>1, <2>2 DEF BotInv, BatchInv, Handled
  <2> QED BY <2>5, <2>6
<1>4. MirrorInv'
  BY <1>1 DEF CursorInv, MirrorInv, Handled, Known
<1> QED BY <1>2, <1>3, <1>4, CursorTypes DEF CursorInv, CursorTypeOK, FilesType, BotType, PollerType, Updates

(* What is handled has been sent.                                           *)
LEMMA HandledIsSent ==
  ASSUME FilesType, NEW b \in Bots, BotType(b), NEW n \in Nat, Handled(b, n)
  PROVE  n <= Len(sent[b]) + 1
<1>1. PICK l \in Nat : l = Len(sent[b])
  BY LenProperties DEF FilesType
<1>2. CASE n > l + 1
  <2>1. n - 1 \in 1 .. n - 1 /\ n - 1 \notin 1 .. l
    BY <1>2
  <2> QED BY <1>1, <2>1 DEF Handled, BotType, Updates
<1> QED BY <1>1, <1>2

(* A step of one poller that handles nothing.                               *)
LEMMA PollerMoves ==
  ASSUME CursorInv, NEW b \in Bots, NEW p \in PollerType, poller' = [poller EXCEPT ![b] = p],
         UNCHANGED <<config, sent, server, done, ever>>,
         own' \in [Bots -> Nat \union {NoFile}], \A c \in Bots : c # b => own'[c] = own[c],
         legacy' \in Nat \union {NoFile}, mirrored' \in Bots, MirrorInv',
         own'[b] # NoFile => Handled(b, own'[b]), Handled(b, p.offset),
         p.batch = <<>> \/ (p.batch = poller[b].batch /\ p.offset = poller[b].offset),
         p.offset = poller[b].offset \/ done[b] = {},
         p.pc \in {"down", "initial", "adopted"} => done[b] = {},
         p.pc # "down" /\ ~config.multi => b = config.default,
         p.pc \in {"adopted", "mirror"} => config.multi /\ b = config.default /\ own'[b] # NoFile
  PROVE  CursorInv'
<1>1. FilesType /\ BotType(b) /\ BotInv(b)
  BY CursorTypes DEF CursorInv
<1>2. poller'[b] = p /\ \A c \in Bots : c # b => poller'[c] = poller[c]
  BY <1>1 DEF FilesType
<1>3. FilesType'
  BY <1>1 DEF FilesType
<1>4. p.offset \in Nat
  BY DEF PollerType
<1>5. p.offset <= Len(sent[b]) + 1
  BY <1>1, <1>4, HandledIsSent
<1>6. Range(p.batch) \subseteq Updates(b)
  BY <1>1 DEF BotType, Range
<1>7. BotType(b)'
  BY <1>1, <1>2, <1>5, <1>6 DEF BotType, Updates
<1>8. BatchInv(b)'
  <2>1. \A u \in done[b] : u < p.offset
    BY <1>1 DEF BotInv, BatchInv
  <2>2. CASE p.batch = <<>>
    BY <1>2, <2>1, <2>2 DEF BatchInv
  <2>3. CASE p.batch = poller[b].batch /\ p.offset = poller[b].offset
    BY <1>1, <1>2, <2>1, <2>3 DEF BotInv, BatchInv, Handled
  <2> QED BY <2>2, <2>3
<1>9. BotInv(b)'
  BY <1>1, <1>2, <1>8 DEF BotInv, Handled
<1> QED BY <1>2, <1>3, <1>7, <1>9, OneBot

LEMMA BootStep ==
  ASSUME CursorInv, Boot
  PROVE  CursorInv'
<1> DEFINE b == config.default
           p == [poller[b] EXCEPT !.pc = "initial"]
<1>1. FilesType /\ b \in Bots
  BY CursorTypes DEF CursorInv, FilesType
<1>2. BotInv(b) /\ done[b] = {}
  BY <1>1 DEF Boot, Down, CursorInv, BotInv, BatchInv
<1>3. /\ p \in PollerType /\ p.pc = "initial"
      /\ p.offset = poller[b].offset /\ p.batch = poller[b].batch
  <2>1. poller[b] \in PollerType
    BY <1>1 DEF FilesType
  <2> QED BY <2>1 DEF PollerType, Places
<1>4. poller' = [poller EXCEPT ![b] = p]
  BY <1>1 DEF Boot, FilesType
<1>5. UNCHANGED <<config, own, legacy, mirrored, sent, server, done, ever>>
  BY DEF Boot, files
<1>6. MirrorInv'
  BY <1>5 DEF CursorInv, MirrorInv, Handled, Known
<1> HIDE DEF p
<1> QED BY <1>1, <1>2, <1>3, <1>4, <1>5, <1>6, PollerMoves DEF FilesType, BotInv

LEMMA StartStep ==
  ASSUME CursorInv, StartPollers
  PROVE  CursorInv'
<1>1. UNCHANGED <<config, own, legacy, mirrored, sent, server, done, ever>> /\ config.multi
  BY DEF StartPollers, files
<1>2. FilesType
  BY CursorTypes DEF CursorInv
<1>3. [Idle EXCEPT !.pc = "initial"] \in PollerType
  BY EmptySeq DEF Idle, PollerType, Places
<1>4. FilesType'
  BY <1>1, <1>2, <1>3 DEF StartPollers, FilesType
<1>5. ASSUME NEW b \in Bots PROVE BotType(b)' /\ BotInv(b)'
  <2>1. BotType(b) /\ BotInv(b)
    BY CursorTypes DEF CursorInv
  <2>2. CASE poller[b].pc = "down"
    <3>1. /\ poller'[b].offset = 0 /\ poller'[b].batch = <<>> /\ Len(poller'[b].batch) = 0
          /\ poller'[b].pc = "initial" /\ done'[b] = {}
      BY <1>1, <2>1, <2>2 DEF StartPollers, Idle, BotInv, BatchInv
    <3>2. Len(sent[b]) \in Nat
      BY <1>2, LenProperties DEF FilesType
    <3>3. Range(poller'[b].batch) = {}
      BY <3>1 DEF Range
    <3>4. BotType(b)'
      BY <1>1, <2>1, <3>1, <3>2, <3>3 DEF BotType, Updates
    <3>5. BotInv(b)'
      BY <1>1, <2>1, <3>1 DEF BotInv, BatchInv, Handled
    <3> QED BY <3>4, <3>5
  <2>3. CASE poller[b].pc # "down"
    <3>1. poller'[b] = poller[b]
      BY <2>3 DEF StartPollers
    <3>2. BotType(b)'
      BY <1>1, <2>1, <3>1 DEF BotType, Updates
    <3>3. BotInv(b)'
      BY <1>1, <2>1, <3>1 DEF BotInv, BatchInv, Handled
    <3> QED BY <3>2, <3>3
  <2> QED BY <2>2, <2>3
<1>6. MirrorInv'
  BY <1>1 DEF CursorInv, MirrorInv, Handled, Known
<1> QED BY <1>4, <1>5, <1>6, CursorTypes DEF CursorInv, CursorTypeOK, FilesType, BotType, PollerType, Updates

LEMMA SaveFailsStep ==
  ASSUME CursorInv, NEW b \in Bots, SaveFails(b), poller[b].pc # "down", config.multi
  PROVE  CursorInv'
<1>1. CASE b = config.default
  BY <1>1, StopStep DEF SaveFails
<1>2. CASE b # config.default
  <2> DEFINE p == [poller[b] EXCEPT !.pc = "dead"]
  <2>1. FilesType /\ poller[b] \in PollerType /\ BotInv(b)
    BY CursorTypes DEF CursorInv, FilesType
  <2>2. p \in PollerType /\ p.pc = "dead" /\ p.offset = poller[b].offset /\ p.batch = poller[b].batch
    BY <2>1 DEF PollerType, Places
  <2>3. poller' = [poller EXCEPT ![b] = p] /\ UNCHANGED <<config, own, legacy, mirrored, sent, server, done, ever>>
    BY <1>2, <2>1 DEF SaveFails, FilesType, files
  <2>4. MirrorInv'
    BY <2>3 DEF CursorInv, MirrorInv, Handled, Known
  <2> HIDE DEF p
  <2> QED BY <2>1, <2>2, <2>3, <2>4, PollerMoves DEF FilesType, BotInv
<1> QED BY <1>1, <1>2


LEMMA InitialStep ==
  ASSUME CursorInv, NEW b \in Bots, InitialOffset(b)
  PROVE  CursorInv'
<1> DEFINE n == IF config.multi THEN own[b] ELSE Known(legacy)
           p == [pc |-> IF config.multi /\ b = config.default THEN "adopted" ELSE "poll",
                 offset |-> n, batch |-> <<>>]
<1>1. FilesType /\ BotInv(b) /\ MirrorInv
  BY CursorTypes DEF CursorInv
<1>2. /\ poller[b].pc = "initial" /\ (~config.multi \/ own[b] # NoFile) /\ poller' = [poller EXCEPT ![b] = p]
      /\ UNCHANGED <<config, own, legacy, mirrored, sent, server, done, ever>>
  BY DEF InitialOffset, Found, files
<1>3. n \in Nat
  BY <1>1, <1>2, IngestAssumption DEF FilesType, Known
<1>4. Handled(b, n)
  BY <1>1, <1>2 DEF BotInv, MirrorInv
<1>5. p \in PollerType
  BY <1>3, EmptySeq DEF PollerType, Places
<1>6. done[b] = {}
  BY <1>1, <1>2 DEF BotInv, BatchInv
<1>7. MirrorInv'
  BY <1>1, <1>2 DEF MirrorInv, Handled, Known
<1>8. p.pc # "down" /\ ~config.multi => b = config.default
  BY <1>1, <1>2 DEF BotInv
<1>9. /\ p.offset = n /\ p.batch = <<>> /\ p.pc \in {"adopted", "poll"}
      /\ p.pc = "adopted" => config.multi /\ b = config.default /\ own[b] # NoFile
  BY <1>2
<1> HIDE DEF n, p
<1> QED BY <1>1, <1>2, <1>4, <1>5, <1>6, <1>7, <1>8, <1>9, PollerMoves DEF FilesType, BotInv

LEMMA FirstStep ==
  ASSUME CursorInv, NEW b \in Bots, FirstOffset(b)
  PROVE  CursorInv'
<1> DEFINE n == IF Adopts(b) THEN Known(legacy) ELSE 0
           p == [pc |-> IF config.multi /\ b = config.default THEN "adopted" ELSE "poll",
                 offset |-> n, batch |-> <<>>]
<1>1. FilesType /\ BotInv(b) /\ MirrorInv
  BY CursorTypes DEF CursorInv
<1>2. poller[b].pc = "initial" /\ config.multi /\ own[b] = NoFile
  BY DEF FirstOffset
<1>3. CASE SaveFails(b)
  BY <1>2, <1>3, SaveFailsStep
<1>4. CASE /\ own' = [own EXCEPT ![b] = n] /\ Found(b, n)
           /\ UNCHANGED <<rvars, setup, config, legacy, mirrored, sent, server, done, ever, topic>>
  <2>1. n \in Nat
    BY <1>1, IngestAssumption DEF FilesType, Known
  <2>2. Handled(b, n)
    <3>1. CASE Adopts(b)
      <4>1. b = mirrored
        BY <1>1, <3>1 DEF Adopts, MirrorInv
      <4> QED BY <1>1, <3>1, <4>1 DEF MirrorInv
    <3>2. CASE ~Adopts(b)
      BY <3>2 DEF Handled
    <3> QED BY <3>1, <3>2
  <2>3. poller' = [poller EXCEPT ![b] = p] /\ UNCHANGED <<config, legacy, mirrored, sent, server, done, ever>>
    BY <1>4 DEF Found
  <2>4. p \in PollerType
    BY <2>1, EmptySeq DEF PollerType, Places
  <2>5. /\ p.offset = n /\ p.batch = <<>> /\ p.pc \in {"adopted", "poll"}
        /\ p.pc = "adopted" => config.multi /\ b = config.default
    BY <1>2
  <2> HIDE DEF p
  <2>6. done[b] = {}
    BY <1>1, <1>2 DEF BotInv, BatchInv
  <2>7. /\ own' \in [Bots -> Nat \union {NoFile}] /\ own'[b] = n /\ n # NoFile
        /\ \A c \in Bots : c # b => own'[c] = own[c]
    BY <1>1, <1>4, <2>1, IngestAssumption DEF FilesType
  <2> HIDE DEF n
  <2>8. MirrorInv'
    BY <1>1, <1>2, <2>3, <2>7 DEF MirrorInv, Handled, Known
  <2>9. legacy' \in Nat \union {NoFile} /\ mirrored' \in Bots
    BY <1>1, <2>3 DEF FilesType
  <2>10. Handled(b, own'[b]) /\ Handled(b, p.offset)
    BY <2>2, <2>5, <2>7
  <2>11. p.pc \in {"adopted", "mirror"} => config.multi /\ b = config.default /\ own'[b] # NoFile
    BY <1>2, <2>5, <2>7
  <2> QED BY <1>2, <2>3, <2>4, <2>5, <2>6, <2>7, <2>8, <2>9, <2>10, <2>11, PollerMoves
<1> QED BY <1>2, <1>3, <1>4 DEF FirstOffset

LEMMA MirrorStep ==
  ASSUME CursorInv, NEW b \in Bots, MirrorInitial(b) \/ SaveMirror(b)
  PROVE  CursorInv'
<1> DEFINE n == poller[b].offset
<1>1. FilesType /\ BotInv(b) /\ MirrorInv /\ poller[b] \in PollerType /\ n \in Nat
  BY CursorTypes DEF CursorInv, FilesType, PollerType
<1>2. poller[b].pc # "down"
  BY DEF MirrorInitial, SaveMirror
<1>3. CASE MirrorFails
  BY <1>3, StopStep DEF MirrorFails
<1>4. CASE ~MirrorFails
  <2>1. legacy' = n /\ mirrored' = b /\ UNCHANGED <<config, own, sent, server, done, ever>>
    BY <1>4 DEF MirrorInitial, SaveMirror
  <2>2. n # NoFile /\ Handled(b, n)
    BY <1>1, IngestAssumption DEF BotInv
  <2>3. b = config.default \/ config.multi
    BY <1>1, <1>2 DEF BotInv
  <2>4. config.multi => own[b] # NoFile
    BY <1>1 DEF MirrorInitial, SaveMirror, BotInv
  <2> HIDE DEF n
  <2>5. MirrorInv'
    BY <1>1, <2>1, <2>2, <2>3, <2>4 DEF MirrorInv, Handled, Known
  <2>6. PICK p \in PollerType : /\ poller' = [poller EXCEPT ![b] = p]
                                /\ p.pc = "poll" /\ p.offset = n /\ (p.batch = <<>> \/ p.batch = poller[b].batch)
    <3>1. CASE MirrorInitial(b)
      <4> DEFINE p == [pc |-> "poll", offset |-> n, batch |-> <<>>]
      <4>1. p \in PollerType
        BY <1>1, EmptySeq DEF PollerType, Places
      <4>2. poller' = [poller EXCEPT ![b] = p]
        BY <1>4, <3>1 DEF MirrorInitial, Polls, n
      <4> QED BY <4>1, <4>2
    <3>2. CASE SaveMirror(b)
      <4> DEFINE p == [poller[b] EXCEPT !.pc = "poll"]
      <4>1. p \in PollerType /\ p.pc = "poll" /\ p.offset = n /\ p.batch = poller[b].batch
        BY <1>1 DEF PollerType, Places, n
      <4>2. poller' = [poller EXCEPT ![b] = p]
        BY <1>1, <1>4, <3>2 DEF SaveMirror, FilesType
      <4> HIDE DEF p
      <4> QED BY <4>1, <4>2
    <3> QED BY <3>1, <3>2
  <2>7. own[b] # NoFile => Handled(b, own[b])
    BY <1>1 DEF BotInv
  <2>8. n = poller[b].offset
    BY DEF n
  <2>9. own' \in [Bots -> Nat \union {NoFile}] /\ legacy' \in Nat \union {NoFile} /\ mirrored' \in Bots
    BY <1>1, <2>1 DEF FilesType
  <2>10. p.offset = poller[b].offset /\ Handled(b, p.offset)
    BY <2>2, <2>6, <2>8
  <2>11. p.pc # "down" /\ ~config.multi => b = config.default
    BY <2>3
  <2> QED BY <2>1, <2>5, <2>6, <2>7, <2>9, <2>10, <2>11, PollerMoves
<1> QED BY <1>3, <1>4

LEMMA SaveOwnStep ==
  ASSUME CursorInv, NEW b \in Bots, SaveOwn(b)
  PROVE  CursorInv'
<1> DEFINE n == poller[b].offset
           pc == IF b = config.default THEN "mirror" ELSE "poll"
           p == [poller[b] EXCEPT !.pc = pc]
<1>1. FilesType /\ BotInv(b) /\ MirrorInv /\ poller[b] \in PollerType /\ n \in Nat
  BY CursorTypes DEF CursorInv, FilesType, PollerType
<1>2. poller[b].pc = "handle" /\ config.multi
  BY DEF SaveOwn
<1>3. CASE SaveFails(b)
  BY <1>2, <1>3, SaveFailsStep
<1>4. CASE ~SaveFails(b)
  <2>1. /\ own' = [own EXCEPT ![b] = n]
        /\ UNCHANGED <<config, legacy, mirrored, sent, server, done, ever>>
    BY <1>4 DEF SaveOwn
  <2>2. poller' = [poller EXCEPT ![b] = p]
    BY <1>1, <1>4 DEF SaveOwn, FilesType
  <2>3. /\ p \in PollerType /\ p.offset = poller[b].offset /\ p.batch = poller[b].batch
        /\ p.pc \in {"mirror", "poll"} /\ (p.pc = "mirror" => b = config.default)
    BY <1>1 DEF PollerType, Places
  <2>4. n # NoFile /\ Handled(b, n) /\ n = poller[b].offset
    BY <1>1, IngestAssumption DEF BotInv
  <2> HIDE DEF n, p
  <2>5. /\ own' \in [Bots -> Nat \union {NoFile}] /\ own'[b] = n
        /\ \A c \in Bots : c # b => own'[c] = own[c]
    BY <1>1, <2>1 DEF FilesType
  <2>6. MirrorInv'
    BY <1>1, <1>2, <2>1, <2>4, <2>5 DEF MirrorInv, Handled, Known
  <2> QED BY <1>1, <1>2, <2>1, <2>2, <2>3, <2>4, <2>5, <2>6, PollerMoves DEF FilesType
<1> QED BY <1>3, <1>4

LEMMA RejectStepCursors ==
  ASSUME CursorInv, NEW b \in Bots, RejectStep(b)
  PROVE  CursorInv'
<1> DEFINE pc == IF rejecting'[b].step = "idle" THEN "handle" ELSE poller[b].pc
           p == [poller[b] EXCEPT !.pc = pc]
<1>1. FilesType /\ BotInv(b) /\ poller[b] \in PollerType /\ poller[b].pc = "rejecting"
  BY CursorTypes DEF CursorInv, FilesType, RejectStep
<1>2. p \in PollerType /\ p.pc \in {"handle", "rejecting"} /\ p.offset = poller[b].offset /\ p.batch = poller[b].batch
  BY <1>1 DEF PollerType, Places
<1>3. poller' = [poller EXCEPT ![b] = p]
  BY <1>1 DEF RejectStep, FilesType
<1>4. UNCHANGED <<config, own, legacy, mirrored, sent, server, done, ever>>
  BY DEF RejectStep, files
<1>5. MirrorInv'
  BY <1>4 DEF CursorInv, MirrorInv, Handled, Known
<1> HIDE DEF p
<1> QED BY <1>1, <1>2, <1>3, <1>4, <1>5, PollerMoves DEF FilesType, BotInv

LEMMA PollStep ==
  ASSUME CursorInv, NEW b \in Bots, Poll(b)
  PROVE  CursorInv'
<1> DEFINE from == Larger(server[b], poller[b].offset)
           size == Larger(0, Len(sent[b]) - from + 1)
           ids == [i \in 1 .. size |-> from + i - 1]
           pc == IF ids = <<>> THEN "poll" ELSE "handle"
           p == [pc |-> pc, offset |-> poller[b].offset, batch |-> ids]
<1>1. FilesType /\ BotType(b) /\ BotInv(b) /\ MirrorInv /\ poller[b] \in PollerType
  BY CursorTypes DEF CursorInv, FilesType
<1>2. Len(sent[b]) \in Nat /\ server[b] \in Nat \ {0} /\ poller[b].offset \in Nat
  BY <1>1, LenProperties DEF FilesType, PollerType
<1>3. /\ from \in Nat \ {0} /\ poller[b].offset <= from /\ (from = server[b] \/ from = poller[b].offset)
      /\ size \in Nat /\ (size > 0 => size = Len(sent[b]) - from + 1)
  BY <1>2 DEF Larger
<1>4. UNCHANGED <<config, own, legacy, mirrored, sent, done, ever>> /\ server' = [server EXCEPT ![b] = from]
  BY DEF Poll, files
<1>5. poller[b].pc = "poll"
  BY DEF Poll
<1>6. poller' = [poller EXCEPT ![b] = p]
  <2>1. poller' = [poller EXCEPT ![b].batch = ids, ![b].pc = pc]
    BY DEF Poll
  <2>2. poller[b] = [pc |-> poller[b].pc, offset |-> poller[b].offset, batch |-> poller[b].batch]
    BY <1>1 DEF PollerType
  <2> HIDE DEF ids, pc
  <2>3. poller'[b] = [poller[b] EXCEPT !.batch = ids, !.pc = pc]
    BY <1>1, <2>1 DEF FilesType
  <2>4. poller'[b] = p
    BY <2>2, <2>3
  <2>5. \A c \in Bots : c # b => poller'[c] = poller[c]
    BY <1>1, <2>1 DEF FilesType
  <2>6. poller' \in [Bots -> [pc : Places \union {pc}, offset : Nat, batch : {ids} \union Seq(Nat)]]
    BY <1>1, <2>1 DEF FilesType, PollerType
  <2> HIDE DEF p
  <2> QED BY <1>1, <2>4, <2>5, <2>6 DEF FilesType
<1> HIDE DEF from
<1>7. ids \in Seq(Nat) /\ Len(ids) = size
  <2>1. PICK s \in Nat : s = size
    BY <1>3
  <2>2. \A i \in 1 .. s : from + i - 1 \in Nat
    BY <1>3
  <2>3. ids \in [1 .. s -> Nat]
    BY <2>1, <2>2
  <2> HIDE DEF ids, size
  <2> QED BY <2>1, <2>3, LenProperties, SeqDef
<1>8. pc \in {"poll", "handle"}
  OBVIOUS
<1>9. \A i \in 1 .. size : ids[i] = from + i - 1
  OBVIOUS
<1> HIDE DEF size, ids, pc
<1>10. p \in PollerType /\ p.pc \in {"poll", "handle"} /\ p.offset = poller[b].offset /\ p.batch = ids
  BY <1>2, <1>7, <1>8 DEF PollerType, Places
<1> HIDE DEF p
<1>11. poller'[b] = p /\ server'[b] = from /\ \A c \in Bots : c # b => poller'[c] = poller[c] /\ server'[c] = server[c]
  BY <1>1, <1>4, <1>6 DEF FilesType
<1>12. FilesType'
  BY <1>1, <1>3, <1>4, <1>6, <1>10 DEF FilesType
<1>13. Range(ids) \subseteq Updates(b)
  <2>1. ASSUME NEW i \in 1 .. size PROVE ids[i] \in Updates(b)
    <3>1. PICK l \in Nat : l = Len(sent[b])
      BY <1>2
    <3>2. size = l - from + 1
      BY <1>3, <3>1
    <3>3. from + i - 1 \in 1 .. l
      BY <1>3, <3>1, <3>2
    <3> QED BY <1>9, <3>1, <3>3 DEF Updates
  <2>2. DOMAIN ids = 1 .. size
    BY <1>7, LenProperties
  <2> QED BY <2>1, <2>2 DEF Range
<1>14. BotType(b)'
  BY <1>1, <1>4, <1>10, <1>11, <1>13 DEF BotType, Updates
<1>15. Handled(b, from)
  BY <1>1, <1>3 DEF BotInv
<1>16. BatchInv(b)'
  <2>1. ASSUME ids # <<>> PROVE ids[1] = from
    <3>1. 1 \in 1 .. size
      BY <1>3, <1>7, <2>1, EmptySeq
    <3> QED BY <1>3, <1>9, <3>1
  <2>2. \A i \in 1 .. Len(ids) : ids[i] = ids[1] + i - 1
    <3> SUFFICES ASSUME NEW i \in 1 .. size PROVE ids[i] = ids[1] + i - 1
      BY <1>7
    <3>1. ids[i] = from + i - 1 /\ ids # <<>>
      BY <1>3, <1>7, <1>9, EmptySeq
    <3> QED BY <2>1, <3>1
  <2>3. ids # <<>> => Handled(b, ids[1]) /\ p.offset <= ids[1]
    BY <1>3, <1>10, <1>15, <2>1
  <2> QED BY <1>1, <1>4, <1>10, <1>11, <2>2, <2>3 DEF BotInv, BatchInv, Handled
<1>17. BotInv(b)'
  BY <1>1, <1>4, <1>5, <1>10, <1>11, <1>15, <1>16 DEF BotInv, Handled
<1>18. MirrorInv'
  BY <1>1, <1>4 DEF MirrorInv, Handled, Known
<1> QED BY <1>4, <1>11, <1>12, <1>14, <1>17, <1>18, OneBot

(* The update at the head of the batch is handled, and is past.             *)
LEMMA TakesStep ==
  ASSUME CursorInv, NEW b \in Bots, NEW pc \in {"handle", "rejecting"}, Takes(b, pc),
         poller[b].pc = "handle", poller[b].batch # <<>>,
         UNCHANGED <<config, own, legacy, mirrored, sent, server>>
  PROVE  CursorInv'
<1> PICK q : q = poller[b].batch
  OBVIOUS
<1> PICK u : u = Update(b)
  OBVIOUS
<1> DEFINE p == [pc |-> pc, offset |-> u + 1, batch |-> Tail(q)]
<1>1. FilesType /\ BotType(b) /\ BotInv(b) /\ BatchInv(b) /\ MirrorInv /\ CursorTypeOK
  BY CursorTypes DEF CursorInv, BotInv
<1>2. q \in Seq(Nat) /\ u \in Updates(b) /\ u = q[1] /\ u \in Nat
  BY <1>1, UpdateInHand DEF FilesType, PollerType
<1>3. poller' = [poller EXCEPT ![b] = p]
  BY DEF Takes
<1>4. done' = [done EXCEPT ![b] = @ \union {u}] /\ ever' = [ever EXCEPT ![b] = @ \union {u}]
  BY DEF Takes
<1>5. PICK r, l : /\ r = Tail(q) /\ r \in Seq(Nat) /\ l \in Nat /\ Len(q) = l + 1 /\ Len(r) = l
                  /\ \A i \in 1 .. l : r[i] = q[i + 1]
  <2>1. PICK n \in Nat : n = Len(q) /\ n # 0
    BY <1>2, EmptySeq, LenProperties
  <2>2. Tail(q) \in Seq(Nat) /\ Len(Tail(q)) = n - 1 /\ \A i \in 1 .. n - 1 : Tail(q)[i] = q[i + 1]
    BY <1>2, <2>1, HeadTailProperties
  <2>3. n - 1 \in Nat /\ n = (n - 1) + 1
    BY <2>1
  <2> QED BY <2>1, <2>2, <2>3
<1>6. Handled(b, u) /\ poller[b].offset <= u
  BY <1>1, <1>2 DEF BatchInv
<1>7. \A i \in 1 .. l + 1 : q[i] = u + i - 1
  BY <1>1, <1>2, <1>5 DEF BatchInv
<1>8. \A d \in done[b] : d < u + 1
  <2> TAKE d \in done[b]
  <2>1. d < poller[b].offset /\ d \in Nat /\ poller[b].offset \in Nat
    BY <1>1 DEF BatchInv, FilesType, PollerType
  <2> QED BY <1>2, <1>6, <2>1
<1>9. p \in PollerType /\ p.pc = pc /\ p.offset = u + 1 /\ p.batch = r
  BY <1>2, <1>5 DEF PollerType, Places
<1> HIDE DEF p
<1>10. /\ poller'[b] = p /\ done'[b] = done[b] \union {u} /\ ever'[b] = ever[b] \union {u}
       /\ \A c \in Bots : c # b => poller'[c] = poller[c] /\ done'[c] = done[c] /\ ever'[c] = ever[c]
  BY <1>1, <1>3, <1>4 DEF FilesType
<1>11. FilesType'
  <2>1. done' \in [Bots -> SUBSET Nat] /\ ever' \in [Bots -> SUBSET Nat]
    BY <1>1, <1>2, <1>4 DEF FilesType
  <2>2. poller' \in [Bots -> PollerType]
    BY <1>1, <1>3, <1>9 DEF FilesType
  <2> QED BY <1>1, <2>1, <2>2 DEF FilesType
<1>12. BotType(b)'
  <2>1. u + 1 <= Len(sent[b]) + 1
    <3>1. PICK n \in Nat : n = Len(sent[b])
      BY <1>1, LenProperties DEF FilesType
    <3> QED BY <1>2, <3>1 DEF Updates
  <2>2. Range(r) \subseteq Updates(b)
    <3>1. \A i \in 1 .. l : i + 1 \in 1 .. l + 1
      BY <1>5
    <3>2. DOMAIN r = 1 .. l /\ DOMAIN q = 1 .. l + 1
      BY <1>2, <1>5, LenProperties
    <3>3. Range(r) \subseteq Range(q)
      BY SMTT(30), <1>5, <3>1, <3>2 DEF Range
    <3> QED BY <1>1, <3>3 DEF BotType
  <2>3. done'[b] \subseteq ever'[b] /\ ever'[b] \subseteq Updates(b)
    BY <1>1, <1>2, <1>10 DEF BotType
  <2> QED BY <1>1, <1>9, <1>10, <2>1, <2>2, <2>3 DEF BotType, Updates
<1>13. \A c \in Bots : ever[c] \subseteq ever'[c]
  BY <1>10
<1>14. Handled(b, u + 1)'
  <2>1. \A i \in 1 .. u : i \in 1 .. u - 1 \/ i = u
    BY <1>2
  <2>2. 1 .. (u + 1) - 1 = 1 .. u
    BY <1>2
  <2> QED BY <1>6, <1>10, <2>1, <2>2 DEF Handled
<1>15. BatchInv(b)'
  <2>1. \A i \in 1 .. l : r[i] = u + 1 + i - 1
    <3> TAKE i \in 1 .. l
    <3>1. r[i] = q[i + 1] /\ i + 1 \in 1 .. l + 1 /\ i \in Nat
      BY SMTT(30), <1>5
    <3>2. q[i + 1] = u + (i + 1) - 1
      BY <1>7, <3>1
    <3> QED BY SMTT(30), <1>2, <3>1, <3>2
  <2>2. ASSUME r # <<>> PROVE r[1] = u + 1
    <3>1. 1 \in 1 .. l
      BY <1>5, <2>2, EmptySeq, LenProperties
    <3> QED BY <1>2, <2>1, <3>1
  <2>3. \A i \in 1 .. l : r[i] = r[1] + i - 1
    <3> TAKE i \in 1 .. l
    <3>1. r # <<>>
      <4>1. l # 0
        BY <1>5
      <4> QED BY <1>5, <4>1, EmptySeq
    <3>2. r[i] = u + 1 + i - 1 /\ r[1] = u + 1
      BY <2>1, <2>2, <3>1
    <3> QED BY <3>2
  <2>4. \A d \in done'[b] : d < u + 1
    BY <1>2, <1>8, <1>10
  <2>5. pc \notin {"down", "initial", "adopted"}
    OBVIOUS
  <2>6. r # <<>> => Handled(b, r[1])' /\ u + 1 <= r[1]
    BY <1>2, <1>14, <2>2 DEF Handled
  <2>7. \A i \in 1 .. Len(poller'[b].batch) : poller'[b].batch[i] = poller'[b].batch[1] + i - 1
    BY <1>5, <1>9, <1>10, <2>3
  <2>8. poller'[b].batch # <<>> => 1 .. poller'[b].batch[1] - 1 \subseteq ever'[b] /\ poller'[b].offset <= poller'[b].batch[1]
    BY <1>9, <1>10, <2>6 DEF Handled
  <2>9. poller'[b].pc = pc /\ poller'[b].offset = u + 1
    BY <1>9, <1>10
  <2> QED BY <2>4, <2>5, <2>7, <2>8, <2>9 DEF BatchInv, Handled
<1>16. BotInv(b)'
  BY <1>1, <1>9, <1>10, <1>13, <1>14, <1>15 DEF BotInv, Handled
<1>17. MirrorInv'
  <2>1. mirrored \in Bots
    BY <1>1 DEF FilesType
  <2> QED BY <1>1, <1>13, <2>1 DEF MirrorInv, Handled, Known
<1> QED BY <1>10, <1>11, <1>12, <1>16, <1>17, OneBot

LEMMA CursorStep ==
  ASSUME CursorInv, RejectTypeOK, setup \in Environment, Next
  PROVE  CursorInv'
<1>1. ASSUME NEW b \in Bots, Handles(b, Kinds) PROVE CursorInv'
  BY <1>1, TakesStep DEF Handles, files
<1>2. ASSUME NEW b \in Bots, Halt(b) \/ AskKill(b) \/ Obey(b) \/ ConfirmKill(b) \/ ToInbox(b) \/ Media(b)
      PROVE  Handles(b, Kinds)
  BY <1>2 DEF Halt, AskKill, Obey, ConfirmKill, ToInbox, Media, Handles, Kinds
<1>3. ASSUME NEW b \in Bots, RejectEvent(b) PROVE CursorInv'
  BY <1>3, TakesStep DEF RejectEvent, files
<1>4. ASSUME NEW b \in Bots, HaltRaises(b) \/ CarryForwardStarts(b) \/ PaneDies(b) PROVE UNCHANGED <<cursors, files>>
  BY <1>4 DEF HaltRaises, CarryForwardStarts, PaneDies, cursors
<1>5. ASSUME TimePasses PROVE UNCHANGED <<cursors, files>>
  BY <1>5 DEF TimePasses, cursors
<1>6. ASSUME NEW b \in Bots, Cursor(b) PROVE CursorInv'
  BY <1>6, InitialStep, FirstStep, MirrorStep, PollStep, SaveOwnStep DEF Cursor
<1>7. ASSUME Crash PROVE CursorInv'
  BY <1>7, StopStep DEF Crash
<1> QED BY <1>1, <1>2, <1>3, <1>4, <1>5, <1>6, <1>7, BootStep, StartStep, ReconfigureStep, SendStep,
           RejectStepCursors, CursorsStay DEF Next, Handle

---------------------------------------------------------------------------
(* The kill and its confirmation *)

(* Nothing of the topics changes but what runs in them.                     *)
LEMMA KillStays ==
  ASSUME KillInv, RejectTypeOK, RejectTypeOK', now <= now', UNCHANGED <<armed, prompt, killed>>,
         pane' \in [Bots -> BOOLEAN], running' \in [Bots -> BOOLEAN]
  PROVE  KillInv'
<1>1. TopicTypeOK'
  BY DEF KillInv, TopicTypeOK
<1>2. ASSUME NEW b \in Bots PROVE ArmedInv(b)'
  <2>1. ArmedInv(b) /\ now \in Nat /\ now' \in Nat
    BY DEF KillInv, RejectTypeOK
  <2> QED BY <2>1 DEF ArmedInv
<1>3. KillIsConfirmed'
  BY DEF KillInv, KillIsConfirmed
<1> QED BY <1>1, <1>2, <1>3 DEF KillInv

(* One topic's confirmation moves on, and no pane is killed.                *)
LEMMA KillMoves ==
  ASSUME KillInv, UNCHANGED <<now, pane, killed>>, NEW b \in Bots, running' \in [Bots -> BOOLEAN],
         NEW a \in Nat, armed' = [armed EXCEPT ![b] = a],
         NEW q \in Prompts, prompt' = [prompt EXCEPT ![b] = q],
         a # 0 => q.at \in 0 .. now /\ a = q.at + Window /\ "plain" \notin q.since
  PROVE  KillInv'
<1>1. TopicTypeOK
  BY DEF KillInv
<1>2. TopicTypeOK'
  BY <1>1 DEF TopicTypeOK
<1>3. ASSUME NEW c \in Bots PROVE ArmedInv(c)'
  BY <1>1 DEF KillInv, ArmedInv, TopicTypeOK
<1>4. KillIsConfirmed'
  BY DEF KillInv, KillIsConfirmed
<1> QED BY <1>2, <1>3, <1>4 DEF KillInv

LEMMA KillEmptied ==
  ASSUME KillInv, Stop
  PROVE  KillInv'
<1>1. /\ armed' = [b \in Bots |-> 0] /\ prompt' = [b \in Bots |-> NoPrompt] /\ running' = [b \in Bots |-> FALSE]
      /\ UNCHANGED <<pane, killed>>
  BY DEF Stop
<1>2. TopicTypeOK'
  BY <1>1 DEF KillInv, TopicTypeOK, NoPrompt, Prompts
<1>3. \A b \in Bots : ArmedInv(b)'
  BY <1>1 DEF ArmedInv
<1>4. KillIsConfirmed'
  BY <1>1 DEF KillInv, KillIsConfirmed
<1> QED BY <1>2, <1>3, <1>4 DEF KillInv

(* A word more since the prompt.                                            *)
LEMMA SinceGrows ==
  ASSUME TopicTypeOK, NEW b \in Bots, NEW word \in Kinds \union {"halt"}
  PROVE  LET q == [prompt[b] EXCEPT !.since = @ \union {word}] IN
         /\ q \in Prompts /\ q.at = prompt[b].at /\ q.since = prompt[b].since \union {word}
         /\ [prompt EXCEPT ![b].since = @ \union {word}] = [prompt EXCEPT ![b] = q]
<1>1. prompt[b] \in Prompts
  BY DEF TopicTypeOK
<1>2. DOMAIN prompt = Bots
  BY DEF TopicTypeOK
<1> QED BY <1>1, <1>2 DEF Prompts

LEMMA HandlerStep ==
  ASSUME KillInv, RejectTypeOK, CursorTypeOK, NEW b \in Bots,
         Halt(b) \/ AskKill(b) \/ Obey(b) \/ ToInbox(b) \/ Media(b)
  PROVE  KillInv'
<1>1. TopicTypeOK /\ ArmedInv(b) /\ now \in Nat /\ armed[b] \in Nat /\ prompt[b] \in Prompts
  BY DEF KillInv, RejectTypeOK, TopicTypeOK
<1>2. Text(b) \in Kinds
  BY UpdateInHand DEF Halt, AskKill, Obey, ToInbox, Media, Handles
<1>3. armed = [armed EXCEPT ![b] = armed[b]]
  BY <1>1 DEF TopicTypeOK
<1>4. UNCHANGED <<now, pane, killed>> /\ running' \in [Bots -> BOOLEAN]
  BY <1>1 DEF Halt, AskKill, Obey, ToInbox, Media, rvars, TopicTypeOK
<1>5. ASSUME NEW word \in Kinds \union {"halt"}, NEW a \in {0, armed[b]}, armed' = [armed EXCEPT ![b] = a],
             prompt' = [prompt EXCEPT ![b].since = @ \union {word}], word = "plain" => a = 0
      PROVE  KillInv'
  <2> DEFINE q == [prompt[b] EXCEPT !.since = @ \union {word}]
  <2>1. /\ q \in Prompts /\ q.at = prompt[b].at /\ q.since = prompt[b].since \union {word}
        /\ prompt' = [prompt EXCEPT ![b] = q]
    BY <1>1, <1>5, SinceGrows
  <2> HIDE DEF q
  <2>2. a # 0 => q.at \in 0 .. now /\ a = q.at + Window /\ "plain" \notin q.since
    BY <1>1, <1>5, <2>1 DEF ArmedInv
  <2> QED BY <1>1, <1>4, <1>5, <2>1, <2>2, KillMoves
<1>6. CASE Halt(b)
  <2>1. armed' = [armed EXCEPT ![b] = armed[b]] /\ prompt' = [prompt EXCEPT ![b].since = @ \union {"halt"}]
    BY <1>3, <1>6 DEF Halt
  <2>2. "halt" \in Kinds \union {"halt"} /\ "halt" # "plain" /\ armed[b] \in {0, armed[b]}
    OBVIOUS
  <2>3. PICK word \in Kinds \union {"halt"} : word = "halt"
    BY <2>2
  <2>4. prompt' = [prompt EXCEPT ![b].since = @ \union {word}] /\ word # "plain"
    BY <2>1, <2>2, <2>3
  <2> QED BY <1>5, <2>1, <2>2, <2>4
<1>7. CASE Obey(b) \/ Media(b)
  BY <1>2, <1>3, <1>5, <1>7 DEF Obey, Media, Handles, Since
<1>8. CASE ToInbox(b)
  BY <1>2, <1>5, <1>8 DEF ToInbox, Since
<1>9. CASE AskKill(b)
  <2>1. CASE UNCHANGED armed /\ Since(b)
    BY <1>2, <1>3, <1>5, <1>9, <2>1 DEF AskKill, Handles, Since
  <2>2. CASE armed' = [armed EXCEPT ![b] = now + Window] /\ prompt' = [prompt EXCEPT ![b] = [at |-> now, since |-> {}]]
    <3> DEFINE q == [at |-> now, since |-> {}]
    <3>1. q \in Prompts /\ now + Window \in Nat /\ q.at = now /\ q.since = {}
      BY <1>1, RejectAssumption DEF Prompts
    <3>2. now \in 0 .. now
      BY <1>1
    <3> HIDE DEF q
    <3> QED BY <1>4, <2>2, <3>1, <3>2, KillMoves DEF q
  <2> QED BY <1>9, <2>1, <2>2 DEF AskKill
<1> QED BY <1>6, <1>7, <1>8, <1>9

LEMMA ConfirmStep ==
  ASSUME KillInv, RejectTypeOK, CursorTypeOK, NEW b \in Bots, ConfirmKill(b)
  PROVE  KillInv'
<1> DEFINE k == [prompt[b] EXCEPT !.at = IF @ < 0 THEN @ ELSE now - @]
           q == [prompt[b] EXCEPT !.since = @ \union {Text(b)}]
<1>1. TopicTypeOK /\ ArmedInv(b) /\ now \in Nat /\ Window \in Nat /\ armed[b] \in Nat /\ prompt[b] \in Prompts
  BY RejectAssumption DEF KillInv, RejectTypeOK, TopicTypeOK
<1>2. Text(b) \in Kinds
  BY UpdateInHand DEF ConfirmKill, Handles
<1>3. armed[b] # 0 /\ now <= armed[b]
  BY <1>1 DEF ConfirmKill, Pending, Expired
<1>4. prompt[b].at \in 0 .. now /\ armed[b] = prompt[b].at + Window /\ "plain" \notin prompt[b].since
  BY <1>1, <1>3 DEF ArmedInv
<1>5. k \in Prompts /\ k.at = now - prompt[b].at /\ k.since = prompt[b].since
  BY <1>1, <1>4 DEF Prompts
<1>6. q \in Prompts /\ prompt' = [prompt EXCEPT ![b] = q]
  BY <1>1, <1>2, SinceGrows DEF ConfirmKill, Since
<1>7. /\ armed' = [armed EXCEPT ![b] = 0] /\ pane' = [pane EXCEPT ![b] = FALSE]
      /\ killed' = [killed EXCEPT ![b] = k] /\ UNCHANGED <<now, running>>
  BY DEF ConfirmKill, rvars
<1>8. k.at \in 0 .. Window
  <2>1. PICK n, w, p : n = now /\ w = Window /\ p = prompt[b].at
    OBVIOUS
  <2>2. p \in 0 .. n /\ n <= p + w
    BY <1>1, <1>3, <1>4, <2>1
  <2>3. n - p \in 0 .. w
    BY <1>1, <2>1, <2>2
  <2> QED BY <1>5, <2>1, <2>3
<1>9. k.since \intersect {"plain"} = {}
  BY <1>4, <1>5
<1> HIDE DEF k, q
<1>10. TopicTypeOK'
  BY <1>1, <1>5, <1>6, <1>7 DEF TopicTypeOK
<1>11. \A c \in Bots : ArmedInv(c)'
  BY <1>1, <1>6, <1>7 DEF KillInv, ArmedInv, TopicTypeOK
<1>12. KillIsConfirmed'
  BY <1>1, <1>7, <1>8, <1>9 DEF KillInv, KillIsConfirmed, TopicTypeOK
<1> QED BY <1>10, <1>11, <1>12 DEF KillInv

LEMMA KillStep ==
  ASSUME KillInv, CursorTypeOK, RejectTypeOK, RejectTypeOK', now <= now', Next
  PROVE  KillInv'
<1>1. TopicTypeOK
  BY DEF KillInv
<1>2. CASE Stop
  BY <1>2, KillEmptied
<1>3. CASE UNCHANGED <<armed, prompt, killed>> /\ pane' \in [Bots -> BOOLEAN] /\ running' \in [Bots -> BOOLEAN]
  BY <1>3, KillStays
<1>4. ASSUME UNCHANGED topic PROVE KillInv'
  BY <1>1, <1>3, <1>4 DEF topic, TopicTypeOK
<1>5. ASSUME NEW b \in Bots, HaltRaises(b) \/ CarryForwardStarts(b) \/ PaneDies(b) PROVE KillInv'
  BY <1>1, <1>3, <1>5 DEF HaltRaises, CarryForwardStarts, PaneDies, TopicTypeOK
<1>6. ASSUME NEW b \in Bots, Cursor(b) PROVE UNCHANGED topic \/ Stop
  BY <1>6 DEF Cursor, InitialOffset, FirstOffset, MirrorInitial, MirrorFails, SaveFails, Poll, SaveOwn, SaveMirror
<1>7. ASSUME NEW b \in Bots, RejectEvent(b) \/ RejectStep(b) \/ Send(b) PROVE UNCHANGED topic
  BY <1>7 DEF RejectEvent, RejectStep, Send
<1>8. ASSUME Boot \/ StartPollers \/ Reconfigure \/ TimePasses PROVE UNCHANGED topic
  BY <1>8 DEF Boot, StartPollers, Reconfigure, TimePasses
<1>9. ASSUME Crash PROVE Stop
  BY <1>9 DEF Crash
<1> QED BY <1>2, <1>4, <1>5, <1>6, <1>7, <1>8, <1>9, HandlerStep, ConfirmStep DEF Next, Handle

---------------------------------------------------------------------------
(* The theorems *)

LEMMA IInvInit == Init => IInv
<1> SUFFICES ASSUME Init PROVE IInv
  OBVIOUS
<1>1. RejectTypeOK
  BY TypeInit DEF Init
<1>2. setup \in Environment
  BY IngestAssumption DEF Init
<1>3. FilesType
  BY IngestAssumption, EmptySeq, <1>2 DEF Init, FilesType, PollerType, Places, Idle, Bots, Environment
<1>4. ASSUME NEW b \in Bots PROVE BotType(b) /\ BotInv(b)
  <2>1. /\ poller[b].offset = 0 /\ poller[b].batch = <<>> /\ Len(poller[b].batch) = 0 /\ poller[b].pc = "down"
        /\ sent[b] = <<>> /\ Len(sent[b]) = 0 /\ done[b] = {} /\ ever[b] = {} /\ own[b] = NoFile /\ server[b] = 1
    BY DEF Init, Idle
  <2>2. Range(poller[b].batch) = {}
    BY <2>1 DEF Range
  <2>3. BotType(b)
    BY <2>1, <2>2 DEF BotType, Updates
  <2> QED BY <2>1, <2>3 DEF BotInv, BatchInv, Handled
<1>5. MirrorInv
  BY DEF Init, MirrorInv, Handled, Known
<1>6. CursorInv
  BY <1>3, <1>4, <1>5, CursorTypes DEF CursorInv
<1>7. KillInv
  BY DEF Init, KillInv, TopicTypeOK, ArmedInv, KillIsConfirmed, NoPrompt, Prompts
<1> QED BY <1>1, <1>2, <1>6, <1>7 DEF IInv

LEMMA IInvNext == IInv /\ [Next]_vars => IInv'
<1> SUFFICES ASSUME IInv, [Next]_vars PROVE IInv'
  OBVIOUS
<1>1. CASE Next
  <2>1. CursorTypeOK /\ RejectTypeOK
    BY DEF IInv, CursorInv
  <2>2. RejectTypeOK' /\ now <= now'
    BY <1>1, <2>1, RejectParts, RejectTypeStep
  <2> QED BY <1>1, <2>1, <2>2, SetupStep, CursorStep, KillStep DEF IInv
<1>2. CASE UNCHANGED vars
  <2>1. RejectTypeOK' /\ now <= now'
    BY <1>2, RejectTypeStep DEF IInv, vars
  <2>2. CursorInv'
    BY <1>2, CursorsStay DEF IInv, vars, cursors
  <2>3. KillInv'
    BY <1>2, <2>1, KillStays DEF IInv, KillInv, TopicTypeOK, vars, topic
  <2> QED BY <1>2, <2>1, <2>2, <2>3 DEF IInv, vars
<1> QED BY <1>1, <1>2

LEMMA Invariant == Spec => []IInv
BY IInvInit, IInvNext, PTL DEF Spec

(* Every cursor, file, batch and confirmation has its type.                 *)
THEOREM TypeCorrect == Spec => []TypeOK
<1>1. IInv => TypeOK
  BY DEF IInv, TypeOK, CursorInv, KillInv
<1> QED BY <1>1, Invariant, PTL

(* An update Telegram has forgotten has been handled, and none is handled   *)
(* twice in a life of the daemon: the batch, the two files of the default   *)
(* bot's cursor and the takeover of the old one (daemon.py 9254-9330), for  *)
(* any number of bots, crashes, failed saves and changes of configuration.  *)
THEOREM NoUpdateLost == Spec => []UpdatesKept
<1>1. IInv => NothingForgotten
  BY DEF IInv, CursorInv, BotInv, Handled, NothingForgotten
<1>2. IInv => OncePerLife
  <2> SUFFICES ASSUME IInv, NEW b \in Bots, NEW u \in Range(poller[b].batch) PROVE u \notin done[b]
    BY DEF OncePerLife
  <2>1. FilesType /\ BatchInv(b) /\ poller[b] \in PollerType
    BY CursorTypes DEF IInv, CursorInv, BotInv, FilesType
  <2>2. poller[b].batch \in Seq(Nat) /\ poller[b].offset \in Nat /\ done[b] \subseteq Nat
    BY <2>1 DEF PollerType, FilesType
  <2>3. PICK i \in 1 .. Len(poller[b].batch) : u = poller[b].batch[i]
    BY <2>2, LenProperties DEF Range
  <2>4. poller[b].batch # <<>> /\ 1 \in 1 .. Len(poller[b].batch)
    BY <2>2, <2>3, EmptySeq, LenProperties
  <2>5. PICK f \in Nat : f = poller[b].batch[1]
    BY <2>2, <2>4, ElementOfSeq
  <2>6. u = f + i - 1 /\ poller[b].offset <= f
    BY <2>1, <2>3, <2>4, <2>5 DEF BatchInv
  <2>7. ~ u < poller[b].offset
    BY SMTT(30), <2>2, <2>5, <2>6
  <2> QED BY <2>1, <2>7 DEF BatchInv
<1> QED BY <1>1, <1>2, TypeCorrect, Invariant, PTL DEF UpdatesKept

(* A pane is killed on a `yes` to a prompt this life of the daemon          *)
(* delivered, within its window and with no text for the session in between *)
(* (daemon.py 3366-3368, 3419-3422).                                        *)
THEOREM KillsAreConfirmed == Spec => []KillIsConfirmed
<1>1. IInv => KillIsConfirmed
  BY DEF IInv, KillInv
<1> QED BY <1>1, Invariant, PTL

(* With one bot, every rejection is in a line of the journal or in a count  *)
(* the table still holds, and the table keeps within its cap, through       *)
(* crashes and whatever else the poller handles (daemon.py 4442-4484).      *)
THEOREM OneBotAccounts ==
  ASSUME NEW one, Threads = {one}
  PROVE  Spec => []RejectionsKept
<1>1. Init => OnePollerInv
  BY OnePollerInit DEF Init
<1>2. IInv /\ OnePollerInv /\ [Next]_vars => OnePollerInv'
  <2> SUFFICES ASSUME IInv, OnePollerInv, [Next]_vars PROVE OnePollerInv'
    OBVIOUS
  <2>1. [RejectNext]_rvars \/ Emptied
    BY RejectParts DEF IInv, CursorInv, vars
  <2>2. CASE [RejectNext]_rvars
    BY <2>2, OnePollerNext
  <2>3. CASE Emptied
    <3>1. RejectTypeOK'
      BY <2>3, RejectTypeStep DEF IInv
    <3>2. CountsAccounted'
      BY <2>3 DEF Emptied, CountsAccounted, Held
    <3>3. WindowsCapped'
      BY <2>3, FS_EmptySet, RejectAssumption DEF Emptied, WindowsCapped
    <3>4. \A t \in Threads : LookHolds(rejecting[t])'
      BY <2>3 DEF Emptied, LookHolds, NotRejecting, Rejecting
    <3> QED BY <3>1, <3>2, <3>3, <3>4 DEF OnePollerInv
  <2> QED BY <2>1, <2>2, <2>3
<1>3. OnePollerInv => RejectionsKept
  BY DEF OnePollerInv, RejectionsKept
<1> QED BY <1>1, <1>2, <1>3, Invariant, PTL DEF Spec
=============================================================================
