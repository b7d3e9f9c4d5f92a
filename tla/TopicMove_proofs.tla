---------------------------- MODULE TopicMove_proofs ----------------------------
(***************************************************************************)
(* Proofs about TopicMove: for every number of topics, groups and operators *)
(* and every bound, the session has one home with its data behind it, a     *)
(* move is fenced from all else, its results are true and one episode fires *)
(* one carry-forward.                                                       *)
(*                                                                          *)
(* The inductive invariant IInv says, part by part, where each thread may   *)
(* be and what it holds there, what it knows of the key it resolved, what   *)
(* the move has done so far, that links never run in a circle (a rank falls *)
(* along them), and what is on file of requests and work.                   *)
(***************************************************************************)
EXTENDS TopicMove, FiniteSetTheorems, WellFoundedInduction, TLAPS

---------------------------------------------------------------------------
(* Where links lead *)

(* A set of naturals has a least one: the step of every induction here.     *)
LEMMA Least ==
  ASSUME NEW T \in SUBSET Nat, T # {}
  PROVE  \E m \in T : \A n \in T : m <= n
<1> DEFINE R == OpToRel(<, Nat)
<1>1. IsWellFoundedOn(R, Nat)
  BY NatLessThanWellFounded
<1>2. R = {ss \in Nat \X Nat : ss[1] < ss[2]}
  BY DEF OpToRel
<1> HIDE DEF R
<1>3. PICK m \in T : \A n \in T : <<n, m>> \notin R
  BY <1>1, WFMin
<1>4. ASSUME NEW n \in T, n < m PROVE FALSE
  BY <1>2, <1>3, <1>4
<1> QED BY <1>3, <1>4

(* The hops from k, at most MaxKey of them.                                 *)
Hop(next, j) == IF next[j] = 0 THEN j ELSE next[j]
Hops(f, next, k) ==
  [n \in 0..MaxKey |-> IF n = 0 THEN k ELSE LET j == f[n - 1] IN IF next[j] = 0 THEN j ELSE next[j]]
Trail(f, next, k) ==
  /\ f \in [0..MaxKey -> Keys] /\ f[0] = k
  /\ \A n \in 1..MaxKey : f[n] = Hop(next, f[n - 1])

(* A table whose links do not run in a circle: each leads to a lower rank.  *)
Points(next, rank) ==
  /\ next \in [Keys -> 0..MaxKey] /\ rank \in [Keys -> 0..MaxKey]
  /\ \A j \in Keys : rank[j] < MaxKey
  /\ \A j \in Keys : next[j] # 0 => rank[next[j]] < rank[j]

LEMMA FollowDef ==
  ASSUME NEW next, NEW k
  PROVE  Follow(next, k) = (CHOOSE f : f = Hops(f, next, k))[MaxKey]
BY DEF Follow, Hops

LEMMA Induct ==
  ASSUME NEW S, 0 \in S, \A n \in 0..MaxKey : n # MaxKey /\ n \in S => n + 1 \in S
  PROVE  \A n \in 0..MaxKey : n \in S
<1> DEFINE T == {n \in 0..MaxKey : n \notin S}
<1> SUFFICES ASSUME T # {} PROVE FALSE
  OBVIOUS
<1>1. MaxKey \in Nat /\ T \subseteq Nat
  BY MoveAssumption
<1>2. PICK m \in T : \A n \in T : m <= n
  BY <1>1, Least
<1>3. m \in Nat /\ m <= MaxKey /\ m # 0
  BY <1>1, <1>2
<1>4. m - 1 \in 0..MaxKey /\ m - 1 # MaxKey /\ ~ m <= m - 1
  BY <1>1, <1>3
<1>5. m - 1 \in S
  BY <1>2, <1>4
<1>6. m - 1 + 1 \in S
  BY <1>4, <1>5
<1> QED BY <1>2, <1>3, <1>6

LEMMA HopType ==
  ASSUME NEW next \in [Keys -> 0..MaxKey], NEW j \in Keys
  PROVE  Hop(next, j) \in Keys
BY MoveAssumption DEF Hop, Keys

LEMMA TrailExists ==
  ASSUME NEW next \in [Keys -> 0..MaxKey], NEW k \in Keys
  PROVE  \E f : Trail(f, next, k)
<1> DEFINE Part(f, m) == f \in [0..m -> Keys] /\ f[0] = k /\ \A n \in 1..m : f[n] = Hop(next, f[n - 1])
<1> DEFINE S == {m \in 0..MaxKey : \E f : Part(f, m)}
<1>1. 0 \in S
  <2>1. Part([n \in 0..0 |-> k], 0)
    OBVIOUS
  <2>2. 0 \in 0..MaxKey
    BY MoveAssumption
  <2> HIDE DEF Part
  <2> QED BY <2>1, <2>2
<1>2. ASSUME NEW m \in 0..MaxKey, m # MaxKey, m \in S PROVE m + 1 \in S
  <2>1. PICK f : Part(f, m)
    BY <1>2
  <2> DEFINE g == [n \in 0..(m + 1) |-> IF n = m + 1 THEN Hop(next, f[m]) ELSE f[n]]
  <2>2. m \in Nat /\ m + 1 \in 0..MaxKey /\ 0 \in 0..(m + 1) /\ m \in 0..m
    BY <1>2, MoveAssumption
  <2>3. Hop(next, f[m]) \in Keys
    BY <2>1, <2>2, HopType
  <2>4. g \in [0..(m + 1) -> Keys]
    <3>1. ASSUME NEW n \in 0..(m + 1), n # m + 1 PROVE f[n] \in Keys
      BY <2>1, <2>2, <3>1
    <3> QED BY <2>3, <3>1
  <2>5. g[0] = k
    BY <2>1, <2>2
  <2>6. ASSUME NEW n \in 1..(m + 1) PROVE g[n] = Hop(next, g[n - 1])
    <3>1. n \in 0..(m + 1) /\ n - 1 \in 0..(m + 1) /\ n - 1 # m + 1
      BY <2>2
    <3>2. g[n - 1] = f[n - 1]
      BY <3>1
    <3>3. CASE n = m + 1
      <4>1. n - 1 = m
        BY <2>2, <3>3
      <4> QED BY <3>1, <3>2, <3>3, <4>1
    <3>4. CASE n # m + 1
      <4>1. n \in 1..m
        BY <2>2, <3>4
      <4>2. g[n] = f[n]
        BY <3>1, <3>4
      <4> QED BY <2>1, <3>2, <4>1, <4>2
    <3> QED BY <3>3, <3>4
  <2>7. Part(g, m + 1)
    <3> HIDE DEF g
    <3> QED BY <2>4, <2>5, <2>6
  <2> QED BY <2>2, <2>7
<1>3. MaxKey \in S
  <2> HIDE DEF S
  <2>1. \A n \in 0..MaxKey : n \in S
    BY <1>1, <1>2, Induct
  <2>2. MaxKey \in 0..MaxKey
    BY MoveAssumption
  <2> QED BY <2>1, <2>2
<1> QED BY <1>3 DEF Trail

LEMMA FollowTrail ==
  ASSUME NEW next \in [Keys -> 0..MaxKey], NEW k \in Keys
  PROVE  \E f : Trail(f, next, k) /\ Follow(next, k) = f[MaxKey]
<1>1. PICK g : Trail(g, next, k)
  BY TrailExists
<1>2. g = Hops(g, next, k)
  <2>1. ASSUME NEW n \in 0..MaxKey PROVE g[n] = Hops(g, next, k)[n]
    <3>1. n = 0 \/ n \in 1..MaxKey
      BY MoveAssumption
    <3> QED BY <1>1, <3>1 DEF Trail, Hops, Hop
  <2> QED BY <1>1, <2>1 DEF Trail, Hops
<1> DEFINE f == CHOOSE f : f = Hops(f, next, k)
<1>3. f = Hops(f, next, k)
  BY <1>2
<1>4. Follow(next, k) = f[MaxKey]
  BY FollowDef
<1> HIDE DEF f
<1>5. \A n \in 0..MaxKey : f[n] = IF n = 0 THEN k ELSE Hop(next, f[n - 1])
  BY <1>3 DEF Hops, Hop
<1>6. 0 \in 0..MaxKey /\ \A n \in 1..MaxKey : n \in 0..MaxKey /\ n # 0
  BY MoveAssumption
<1>7. \A n \in 0..MaxKey : f[n] \in Keys
  <2> DEFINE S == {n \in 0..MaxKey : f[n] \in Keys}
  <2>1. 0 \in S
    BY <1>5, <1>6
  <2>2. ASSUME NEW n \in 0..MaxKey, n # MaxKey, n \in S PROVE n + 1 \in S
    <3>1. n + 1 \in 0..MaxKey /\ n + 1 # 0 /\ n + 1 - 1 = n
      BY <2>2, MoveAssumption
    <3>2. f[n + 1] = Hop(next, f[n])
      BY <1>5, <3>1
    <3> QED BY <2>2, <3>1, <3>2, HopType
  <2> HIDE DEF S
  <2>3. \A n \in 0..MaxKey : n \in S
    BY <2>1, <2>2, Induct
  <2> QED BY <2>3 DEF S
<1>8. f \in [0..MaxKey -> Keys]
  <2>1. f = [n \in 0..MaxKey |-> f[n]]
    BY <1>3 DEF Hops
  <2> QED BY <1>7, <2>1
<1>9. Trail(f, next, k)
  BY <1>5, <1>6, <1>8 DEF Trail
<1> QED BY <1>4, <1>9

(* Following ends at a key without a link, and stays in every set of keys   *)
(* that its start is in and no link leaves.                                 *)
LEMMA FollowEnds ==
  ASSUME NEW next, NEW rank, Points(next, rank), NEW k \in Keys
  PROVE  Follow(next, k) \in Keys /\ next[Follow(next, k)] = 0
<1>1. next \in [Keys -> 0..MaxKey] /\ rank \in [Keys -> 0..MaxKey] /\ MaxKey \in Nat \ {0}
  BY MoveAssumption DEF Points
<1>2. PICK f : Trail(f, next, k) /\ Follow(next, k) = f[MaxKey]
  BY <1>1, FollowTrail
<1> DEFINE S == {n \in 0..MaxKey : next[f[n]] = 0 \/ rank[f[n]] + n <= rank[k]}
<1>3. 0 \in S
  BY <1>1, <1>2 DEF Trail
<1>4. ASSUME NEW n \in 0..MaxKey, n # MaxKey, n \in S PROVE n + 1 \in S
  <2>1. n + 1 \in 1..MaxKey /\ n + 1 \in 0..MaxKey /\ n + 1 - 1 = n
    BY <1>1, <1>4
  <2>2. f[n] \in Keys /\ f[n + 1] = Hop(next, f[n]) /\ f[n + 1] \in Keys
    BY <1>2, <2>1 DEF Trail
  <2>3. CASE next[f[n]] = 0
    BY <2>1, <2>2, <2>3 DEF Hop
  <2>4. CASE next[f[n]] # 0
    <3>1. f[n + 1] = next[f[n]] /\ rank[f[n + 1]] < rank[f[n]] /\ rank[f[n]] + n <= rank[k]
      BY <1>4, <2>2, <2>4 DEF Hop, Points
    <3>2. rank[f[n + 1]] \in Nat /\ rank[f[n]] \in Nat /\ rank[k] \in Nat
      BY <1>1, <2>2
    <3>3. rank[f[n + 1]] + (n + 1) <= rank[k]
      BY <3>1, <3>2
    <3> QED BY <2>1, <3>3
  <2> QED BY <2>3, <2>4
<1>5. MaxKey \in S
  <2> HIDE DEF S
  <2>1. \A n \in 0..MaxKey : n \in S
    BY <1>3, <1>4, Induct
  <2> QED BY <1>1, <2>1
<1>6. f[MaxKey] \in Keys
  BY <1>1, <1>2 DEF Trail
<1>7. ~ rank[f[MaxKey]] + MaxKey <= rank[k]
  <2>1. rank[f[MaxKey]] \in Nat /\ rank[k] \in Nat /\ rank[k] < MaxKey
    BY <1>1, <1>6 DEF Points
  <2> QED BY <1>1, <2>1
<1> QED BY <1>2, <1>5, <1>6, <1>7

LEMMA FollowStays ==
  ASSUME NEW next \in [Keys -> 0..MaxKey], NEW S \in SUBSET Keys, NEW k \in S,
         \A j \in S : next[j] # 0 => next[j] \in S
  PROVE  Follow(next, k) \in S
<1>1. MaxKey \in Nat \ {0} /\ k \in Keys
  BY MoveAssumption
<1>2. PICK f : Trail(f, next, k) /\ Follow(next, k) = f[MaxKey]
  BY <1>1, FollowTrail
<1> DEFINE N == {n \in 0..MaxKey : f[n] \in S}
<1>3. 0 \in N
  BY <1>1, <1>2 DEF Trail
<1>4. ASSUME NEW n \in 0..MaxKey, n # MaxKey, n \in N PROVE n + 1 \in N
  <2>1. n + 1 \in 1..MaxKey /\ n + 1 \in 0..MaxKey /\ n + 1 - 1 = n
    BY <1>1, <1>4
  <2>2. f[n + 1] = Hop(next, f[n])
    BY <1>2, <2>1 DEF Trail
  <2> QED BY <1>4, <2>1, <2>2 DEF Hop
<1>5. MaxKey \in N
  <2> HIDE DEF N
  <2>1. \A n \in 0..MaxKey : n \in N
    BY <1>3, <1>4, Induct
  <2> QED BY <1>1, <2>1
<1> QED BY <1>2, <1>5

(* A key without a link is its own end; another has the end of its link.    *)
LEMMA FollowHome ==
  ASSUME NEW next \in [Keys -> 0..MaxKey], NEW k \in Keys, next[k] = 0
  PROVE  Follow(next, k) = k
<1>1. {k} \in SUBSET Keys /\ k \in {k} /\ \A j \in {k} : next[j] # 0 => next[j] \in {k}
  OBVIOUS
<1>2. Follow(next, k) \in {k}
  BY <1>1, FollowStays
<1> QED BY <1>2

LEMMA FollowLink ==
  ASSUME NEW next, NEW rank, Points(next, rank), NEW k \in Keys, next[k] # 0
  PROVE  next[k] \in Keys /\ Follow(next, k) = Follow(next, next[k])
<1>1. next \in [Keys -> 0..MaxKey] /\ rank \in [Keys -> 0..MaxKey] /\ MaxKey \in Nat \ {0}
  BY MoveAssumption DEF Points
<1>2. PICK j \in Keys : j = next[k]
  BY <1>1 DEF Keys
<1>3. PICK f : Trail(f, next, k) /\ Follow(next, k) = f[MaxKey]
  BY <1>1, FollowTrail
<1>4. PICK g : Trail(g, next, j) /\ Follow(next, j) = g[MaxKey]
  BY <1>1, FollowTrail
<1> DEFINE S == {n \in 0..MaxKey : n # 0 => f[n] = g[n - 1]}
<1>5. 0 \in S
  BY <1>1
<1>6. ASSUME NEW n \in 0..MaxKey, n # MaxKey, n \in S PROVE n + 1 \in S
  <2>1. n + 1 \in 1..MaxKey /\ n + 1 \in 0..MaxKey /\ n + 1 - 1 = n
    BY <1>1, <1>6
  <2>2. f[n + 1] = Hop(next, f[n])
    BY <1>3, <2>1 DEF Trail
  <2>3. CASE n = 0
    BY <1>2, <1>3, <1>4, <2>1, <2>2, <2>3 DEF Trail, Hop
  <2>4. CASE n # 0
    <3>1. n \in 1..MaxKey /\ f[n] = g[n - 1]
      BY <1>1, <1>6, <2>4
    <3>2. g[n] = Hop(next, g[n - 1])
      BY <1>4, <3>1 DEF Trail
    <3> QED BY <2>1, <2>2, <3>1, <3>2
  <2> QED BY <2>3, <2>4
<1>7. f[MaxKey] = g[MaxKey - 1]
  <2> HIDE DEF S
  <2>1. \A n \in 0..MaxKey : n \in S
    BY <1>5, <1>6, Induct
  <2> QED BY <1>1, <2>1 DEF S
<1>8. g[MaxKey] = Hop(next, g[MaxKey - 1]) /\ g[MaxKey - 1] \in Keys
  BY <1>1, <1>4 DEF Trail
<1>9. next[g[MaxKey - 1]] = 0
  BY <1>3, <1>7, FollowEnds
<1> QED BY <1>2, <1>3, <1>4, <1>7, <1>8, <1>9 DEF Hop

---------------------------------------------------------------------------
(* The inductive invariant *)

(* Where each thread may be, and which locks it holds there.                *)
MovePcs == {"in", "create", "transfer", "alias", "save", "unalias", "putback", "delete", "record", "notices"}
AtWork == {"act", "look", "clear", "link"}
LockNames == {"creation", "topic", "pending"}
AllPcs == {"idle", "picked", "moving", "result", "tapping", "known", "unknown", "publish", "stray",
           "command", "wait", "told"} \cup MovePcs \cup AtWork
ThreadType == [pc : AllPcs, key : 0..MaxKey, has : SUBSET LockNames, to : Groups, n : Nat]
Bystanders == {"timer", "warn", "flow", "cli"} \cup Operators

Places(t, pc) ==
  /\ t = "life" => pc \in {"idle", "picked", "moving", "result"} \cup MovePcs
  /\ t = "tap" => pc \in {"idle", "tapping", "in"}
  /\ t = "warn" => pc \in {"idle", "known", "in", "act", "publish"}
  /\ t \in {"timer", "flow", "cli"} => pc \in {"idle", "known", "in", "act"}
  /\ t = "halt" => pc \in {"idle", "act"}
  /\ t \in Groups => pc \in {"idle", "unknown", "known", "in", "act", "stray", "command"}
  /\ t \in Operators => pc \in {"idle", "known", "in", "look", "clear", "link", "wait", "told"}
LocksAt(t, pc, has) ==
  /\ pc \in {"moving", "unknown"} => has \in {{}, {"creation"}}
  /\ pc = "tapping" => has \in {{}, {"topic"}}
  /\ pc \in {"stray", "command"} \/ (t = "life" /\ pc \in MovePcs) => has = {"creation", "topic"}
  /\ t = "tap" /\ pc = "in" => has = {"topic", "pending"}
  /\ t \in Groups /\ pc \in {"in", "act"} => has \in {{"topic"}, {"creation", "topic"}}
  /\ t \in Bystanders /\ pc \in {"in"} \cup AtWork => has = {"topic"}
  /\ t = "halt" \/ pc \in {"idle", "picked", "result", "known", "publish", "wait", "told"} => has = {}
Fits(t, m) == Places(t, m.pc) /\ LocksAt(t, m.pc, m.has) /\ (m.pc # "idle" => m.key \in Keys)

Apart(t, u) ==
  /\ ~ (Holds(t, "creation") /\ Holds(u, "creation"))
  /\ ~ (Holds(t, "pending") /\ Holds(u, "pending"))
  /\ t = "life" /\ Holds(t, "topic") /\ Holds(u, "topic") => thread[t].key # thread[u].key
ThreadInv ==
  /\ thread \in [Threads -> ThreadType] /\ \A t \in Threads : Fits(t, thread[t])
  /\ \A t, u \in Threads : t # u => Apart(t, u)
  /\ boot \in BOOLEAN
  /\ boot => \A t \in Threads \ OutsideDaemon : thread[t].pc = "idle"

(* One home, and pointers that lead from older keys to younger ones.        *)
Registered(k) == reg[k].is # "none"
RegInv ==
  /\ reg \in [Keys -> [is : {"none", "session", "moved"}, to : 0..MaxKey, owed : BOOLEAN]]
  /\ \A k \in Keys : ~ Registered(k) => reg[k] = NoEntry
  /\ \A k \in Keys : Moved(k) => reg[k].to \in Keys /\ reg[k].to > k /\ Registered(reg[k].to)
  /\ \A k \in Keys : ~ Moved(k) => reg[k].to = 0
  /\ \A k \in Keys : Registered(k) => k <= made
  /\ \E h \in Keys : \A j \in Keys : Session(j) <=> j = h
  /\ made \in Keys /\ grp \in [Keys -> Groups \cup {"-"}]
  /\ \A k \in Keys : grp[k] # "-" => k <= made

(* What a thread that has resolved its key knows of it.                     *)
Resolved(t) ==
  \/ t \notin {"life", "tap"} /\ (thread[t].pc = "known" \/ (thread[t].pc = "in" /\ thread[t].has = {"topic"}))
  \/ t = "life" /\ thread[t].pc # "idle"
  \/ t = "halt" /\ thread[t].pc = "act"
  \/ t \in Operators /\ thread[t].pc \in {"wait", "told"}
Knows(t) ==
  /\ thread[t].key <= made
  /\ Resolved(t) => Registered(thread[t].key)
  /\ t # "halt" /\ thread[t].pc \in AtWork => Session(thread[t].key)
KnownInv == \A t \in Threads : Knows(t)

(* What the move has done so far, and what nobody else did meanwhile.       *)
Undone == {"create", "transfer", "alias", "save", "unalias", "putback", "delete"}
LifeInv ==
  LET pc == life.pc k == life.key n == life.n IN
  /\ pc \in Undone => Session(k)
  /\ pc \in Undone \ {"create"} => n \in Keys /\ n > k /\ n <= made /\ ~ Registered(n) /\ grp[n] = life.to
  /\ pc \in {"record", "notices"} => n \in Keys /\ Session(n)
  /\ pc \in {"record", "notices"} \/ (pc = "result" /\ n # 0) => Moved(k) /\ reg[k].to = n /\ grp[n] = life.to
  /\ "pointer" \notin harm /\ (pc \in {"moving", "in"} \/ (pc = "result" /\ n = 0)) => Session(k)

(* The folders: no circle of links, none in a key that is yet to come, and, *)
(* unless a crash tore a rename from its alias, every key the session ever  *)
(* had links to the next and its home's folder holds what was accepted.     *)
Renaming == life.pc \in {"alias", "putback"}
DirType ==
  /\ dir \in [Keys -> [is : {"none", "real", "link"}, to : 0..MaxKey, box : SUBSET Nat]]
  /\ \A k \in Keys : dir[k].is = "none" => dir[k] = NoDir
  /\ \A k \in Keys : dir[k].is = "link" => dir[k].to \in Keys /\ dir[k].to <= made
  /\ \A k \in Keys : dir[k].is # "link" => dir[k].to = 0
  /\ \A k \in Keys : dir[k].is # "none" => k <= made
  /\ life.pc = "transfer" => dir[life.n].is = "none" /\ dir[life.key].to # life.n
  /\ life.pc \in Undone \ {"create", "delete"} => \A k \in Keys \ {life.key} : dir[k].to # life.n
  /\ life.pc \in {"save", "unalias"} => dir[life.key] = Link(life.n)
Falls(rank) ==
  /\ \A j \in Keys : dir[j].to # 0 => rank[dir[j].to] < rank[j]
  /\ \A j \in Keys : rank[j] < made
  /\ life.pc = "transfer" => \A j \in Keys : rank[j] + 1 < made
  /\ Renaming => rank[life.n] < rank[life.key]
Ranked == \E rank \in [Keys -> 0..MaxKey] : Falls(rank)
Named(h) == IF Renaming THEN life.n ELSE h
DataAt(h) == dir[Named(h)].is # "none" /\ accepted \subseteq dir[Real(Named(h))].box
Whole ==
  /\ \A j \in Keys : Moved(j) => dir[j] = Link(reg[j].to)
  /\ \A j \in Keys : dir[j].is = "link" => dir[dir[j].to].is # "none" \/ (Renaming /\ dir[j].to = life.key)
  /\ Renaming => dir[life.key] \in {NoDir, Folder({})}
  /\ \A h \in Keys : Session(h) => DataAt(h)
DirInv == DirType /\ Ranked /\ ("torn" \notin harm => Whole)

(* The request file: a request that waits has made no topic, and what is on *)
(* file of one that was executed is true.                                   *)
Executing == {"moving", "result"} \cup MovePcs
ToldTrue(o) ==
  "pointer" \notin harm /\ thread[o].pc = "told" =>
    thread[o].n \in Keys /\ Registered(thread[o].n)
    /\ reg[thread[o].key].to = thread[o].n /\ grp[thread[o].n] = thread[o].to
FileTrue ==
  "pointer" \notin harm =>
    /\ \A k \in Keys : req[k].state = "done" => req[k].res = reg[k].to
    /\ \A k \in Keys : req[k].state \in {"running", "done"} /\ Moved(k) => grp[reg[k].to] = req[k].to
ReqInv ==
  /\ req \in [Keys -> [state : {"none", "pending", "running", "done"}, to : Groups, res : 0..MaxKey]]
  /\ calls \in [Keys -> {0, 1}]
  /\ \A k \in Keys : req[k].state = "pending" => calls[k] = 0
  /\ life.pc \in {"picked", "moving", "in", "create"} => calls[life.key] = 0
  /\ life.pc \in Executing \cup {"picked"} => req[life.key].state # "done"
  /\ life.pc \in Executing /\ req[life.key].state = "running" => req[life.key].to = life.to
  /\ FileTrue /\ \A o \in Operators : ToldTrue(o)

(* What is at work is at home, and so are the record and the flag of the    *)
(* automatic carry-forward.                                                 *)
WorkInv ==
  /\ busy \subseteq [kind : BusyKinds, key : Keys] /\ \A b \in busy : Session(b.key)
  /\ life.pc \in Undone => \A b \in busy : b.key # life.key
  /\ rec \subseteq Keys
  /\ "left" \notin harm => \A k \in rec : Session(k) \/ (life.pc = "record" /\ k = life.key)
  /\ fired \subseteq Keys /\ \A k \in fired : Registered(k)
  /\ fires \in {0, 1} /\ (fires = 1 => fired # {})
  /\ fires = 1 /\ thread["warn"].pc \in {"known", "in", "act"} /\ Session(thread["warn"].key)
       => thread["warn"].key \in fired
HistoryInv == setup \in [Bounds -> Nat] /\ accepted \subseteq Nat /\ harm \subseteq {"torn", "stuck", "left", "pointer"}

IInv == ThreadInv /\ RegInv /\ KnownInv /\ LifeInv /\ DirInv /\ ReqInv /\ WorkInv /\ HistoryInv

---------------------------------------------------------------------------
(* What a step leaves alone                                                 *)

LEMMA Names ==
  /\ "life" \in Threads /\ "tap" \in Threads /\ "timer" \in Threads /\ "warn" \in Threads
  /\ "flow" \in Threads /\ "halt" \in Threads /\ "cli" \in Threads
  /\ Groups \subseteq Threads /\ Operators \subseteq Threads
  /\ \A t \in Groups : t \notin Workers /\ t \notin Operators /\ t # "-"
  /\ \A t \in Operators : t \notin Workers
  /\ MaxKey \in Nat \ {0} /\ 1 \in Keys /\ 0 \notin Keys
BY MoveAssumption DEF Threads, Workers, Keys

(* One thread takes a step.                                                 *)
Only(t) == /\ thread' \in [Threads -> ThreadType]
           /\ \A u \in Threads \ {t} : thread'[u] = thread[u]

LEMMA OnlyKeeps ==
  ASSUME ThreadInv, NEW t \in Threads, Only(t), Fits(t, thread'[t]),
         thread'[t].has \subseteq thread[t].has,
         thread'[t].has # {} => thread'[t].key = thread[t].key,
         boot' = boot, boot => t \in OutsideDaemon \/ thread'[t].pc = "idle"
  PROVE  ThreadInv'
<1>1. thread' \in [Threads -> ThreadType] /\ \A u \in Threads : Fits(u, thread'[u])
  BY DEF ThreadInv, Only
<1>2. ASSUME NEW u \in Threads, NEW v \in Threads, u # v PROVE Apart(u, v)'
  <2>1. Apart(u, v)
    BY <1>2 DEF ThreadInv
  <2>2. \A w \in Threads : /\ thread'[w].has \subseteq thread[w].has
                           /\ \A l : l \in thread'[w].has => thread'[w].key = thread[w].key
    BY DEF Only
  <2> QED BY <2>1, <2>2 DEF Apart, Holds
<1>3. boot' => \A u \in Threads \ OutsideDaemon : thread'[u].pc = "idle"
  BY DEF ThreadInv, Only
<1> QED BY <1>1, <1>2, <1>3 DEF ThreadInv

(* The kinds of step a thread takes.                                        *)
LEMMA Taken ==
  ASSUME ThreadInv, NEW t \in Threads, NEW m \in ThreadType, thread' = [thread EXCEPT ![t] = m]
  PROVE  Only(t) /\ thread'[t] = m
BY DEF ThreadInv, Only

LEMMA IdleFits ==
  /\ Idle \in ThreadType /\ Idle.pc = "idle" /\ Idle.key = 0 /\ Idle.has = {} /\ Idle.to = Home /\ Idle.n = 0
  /\ \A t \in Threads : Fits(t, Idle)
<1>1. Idle \in ThreadType
  BY MoveAssumption DEF Idle, ThreadType, AllPcs, LockNames
<1> QED BY <1>1 DEF Idle, Fits, Places, LocksAt, MovePcs, AtWork, Bystanders

LEMMA LeavesType ==
  ASSUME ThreadInv, NEW t \in Threads, Leaves(t)
  PROVE  Only(t) /\ thread'[t] = Idle
BY Taken, IdleFits DEF Leaves

LEMMA EntersType ==
  ASSUME ThreadInv, NEW t \in Threads, NEW pc \in AllPcs, NEW k \in Keys, Enters(t, pc, k)
  PROVE  /\ Only(t) /\ thread'[t].pc = pc /\ thread'[t].key = k /\ thread'[t].has = {}
<1> DEFINE m == [Idle EXCEPT !.pc = pc, !.key = k]
<1>1. Idle \in ThreadType /\ Idle.has = {}
  BY IdleFits
<1>2. k \in 0..MaxKey
  BY MoveAssumption DEF Keys
<1>3. m \in ThreadType /\ m.pc = pc /\ m.key = k /\ m.has = {}
  BY <1>1, <1>2 DEF ThreadType
<1>4. thread' = [thread EXCEPT ![t] = m]
  BY DEF Enters
<1> HIDE DEF m
<1> QED BY <1>3, <1>4, Taken

LEMMA GoesType ==
  ASSUME ThreadInv, NEW t \in Threads, NEW pc \in AllPcs, Goes(t, pc)
  PROVE  /\ Only(t) /\ thread'[t].pc = pc /\ thread'[t].key = thread[t].key /\ thread'[t].has = thread[t].has
         /\ thread'[t].to = thread[t].to /\ thread'[t].n = thread[t].n
<1> DEFINE m == [thread[t] EXCEPT !.pc = pc]
<1>1. thread[t] \in ThreadType
  BY DEF ThreadInv
<1>2. m \in ThreadType /\ m.pc = pc /\ m.key = thread[t].key /\ m.has = thread[t].has
      /\ m.to = thread[t].to /\ m.n = thread[t].n
  BY <1>1 DEF ThreadType
<1>3. thread' = [thread EXCEPT ![t] = m]
  BY DEF Goes
<1> HIDE DEF m
<1> QED BY <1>2, <1>3, Taken

(* It stops, and lets go of its locks.                                      *)
LEMMA DropsType ==
  ASSUME ThreadInv, NEW t \in Threads, NEW pc \in AllPcs,
         thread' = [thread EXCEPT ![t].pc = pc, ![t].has = {}]
  PROVE  /\ Only(t) /\ thread'[t].pc = pc /\ thread'[t].key = thread[t].key /\ thread'[t].has = {}
         /\ thread'[t].to = thread[t].to /\ thread'[t].n = thread[t].n
<1> DEFINE m == [thread[t] EXCEPT !.pc = pc, !.has = {}]
<1>1. thread[t] \in ThreadType
  BY DEF ThreadInv
<1>2. m \in ThreadType /\ m.pc = pc /\ m.key = thread[t].key /\ m.has = {}
      /\ m.to = thread[t].to /\ m.n = thread[t].n
  BY <1>1 DEF ThreadType
<1>3. thread' = [thread EXCEPT ![t] = m]
  BY <1>1 DEF ThreadInv, ThreadType
<1> HIDE DEF m
<1> QED BY <1>2, <1>3, Taken

LEMMA Numbers ==
  ASSUME ThreadInv, NEW t \in Threads, NEW pc \in AllPcs, NEW n \in Nat,
         thread' = [thread EXCEPT ![t].pc = pc, ![t].n = n]
  PROVE  /\ Only(t) /\ thread'[t].pc = pc /\ thread'[t].key = thread[t].key /\ thread'[t].has = thread[t].has
         /\ thread'[t].to = thread[t].to /\ thread'[t].n = n
<1> DEFINE m == [thread[t] EXCEPT !.pc = pc, !.n = n]
<1>1. thread[t] \in ThreadType
  BY DEF ThreadInv
<1>2. m \in ThreadType /\ m.pc = pc /\ m.key = thread[t].key /\ m.has = thread[t].has
      /\ m.to = thread[t].to /\ m.n = n
  BY <1>1 DEF ThreadType
<1>3. thread' = [thread EXCEPT ![t] = m]
  BY <1>1 DEF ThreadInv, ThreadType
<1> HIDE DEF m
<1> QED BY <1>2, <1>3, Taken

LEMMA RefuseType ==
  ASSUME ThreadInv, Refuse
  PROVE  /\ Only("life") /\ thread'["life"].pc = "result" /\ thread'["life"].key = life.key
         /\ thread'["life"].has = {} /\ thread'["life"].to = life.to /\ thread'["life"].n = 0
<1> DEFINE m == [life EXCEPT !.pc = "result", !.has = {}, !.n = 0]
<1>1. life \in ThreadType
  BY Names DEF ThreadInv, life
<1>2. m \in ThreadType /\ m.pc = "result" /\ m.key = life.key /\ m.has = {} /\ m.to = life.to /\ m.n = 0
  BY <1>1 DEF ThreadType, AllPcs
<1>3. thread' = [thread EXCEPT !["life"] = m]
  BY <1>1, Names DEF ThreadInv, ThreadType, Refuse, life
<1> HIDE DEF m
<1> QED BY <1>2, <1>3, Names, Taken

(* Bounds are spent.                                                        *)
LEMMA Spends ==
  ASSUME setup \in [Bounds -> Nat], NEW b \in Bounds, Spend(b)
  PROVE  setup' \in [Bounds -> Nat]
<1>1. setup[b] \in Nat /\ setup[b] > 0
  BY DEF Spend
<1>2. setup[b] - 1 \in Nat
  BY <1>1
<1> QED BY <1>2 DEF Spend

---------------------------------------------------------------------------
(* What each part of the invariant looks at                                 *)

LEMMA SameReg ==
  ASSUME RegInv, UNCHANGED <<reg, made, grp>>
  PROVE  RegInv'
BY DEF RegInv, Registered, Moved, Session

LEMMA SameKnown ==
  ASSUME KnownInv, UNCHANGED <<reg, made>>, \A t \in Threads : thread'[t] = thread[t] \/ Knows(t)'
  PROVE  KnownInv'
<1>1. ASSUME NEW t \in Threads, thread'[t] = thread[t] PROVE Knows(t)'
  BY <1>1 DEF KnownInv, Knows, Resolved, Registered, Session
<1> QED BY <1>1 DEF KnownInv

LEMMA SameLife ==
  ASSUME LifeInv, life' = life, UNCHANGED <<reg, made, grp>>, "pointer" \in harm => "pointer" \in harm'
  PROVE  LifeInv'
BY DEF LifeInv, Registered, Moved, Session

LEMMA SameDir ==
  ASSUME DirInv, life' = life, UNCHANGED <<reg, dir, made, accepted>>, "torn" \in harm => "torn" \in harm'
  PROVE  DirInv'
<1>1. DirType'
  BY DEF DirInv, DirType
<1>2. Ranked'
  <2>1. PICK rank \in [Keys -> 0..MaxKey] : Falls(rank)
    BY DEF DirInv, Ranked
  <2>2. Falls(rank)'
    BY <2>1 DEF Falls, Renaming
  <2> QED BY <2>2 DEF Ranked
<1>3. "torn" \notin harm' => Whole'
  BY DEF DirInv, Whole, Renaming, Moved, Session, DataAt, Named, Real
<1> QED BY <1>1, <1>2, <1>3 DEF DirInv

LEMMA SameReq ==
  ASSUME ReqInv, life' = life, UNCHANGED <<req, calls, reg, grp>>,
         "pointer" \in harm => "pointer" \in harm',
         \A o \in Operators : thread'[o] = thread[o] \/ ToldTrue(o)'
  PROVE  ReqInv'
<1>1. ASSUME NEW o \in Operators, thread'[o] = thread[o] PROVE ToldTrue(o)'
  BY <1>1 DEF ReqInv, ToldTrue, Registered
<1>2. FileTrue'
  BY DEF ReqInv, FileTrue, Moved
<1> QED BY <1>1, <1>2 DEF ReqInv

LEMMA SameWork ==
  ASSUME WorkInv, life' = life, UNCHANGED <<reg, busy, rec, fired, fires>>,
         "left" \in harm => "left" \in harm',
         \/ thread'["warn"] = thread["warn"] \/ thread'["warn"].pc \notin {"known", "in", "act"}
         \/ thread'["warn"].key = thread["warn"].key /\ thread["warn"].pc \in {"known", "in", "act"}
  PROVE  WorkInv'
BY DEF WorkInv, Registered, Session

(* A step of another thread that leaves the files and topics as they are.   *)
Quiet == UNCHANGED <<reg, dir, req, grp, made, accepted, calls, harm>>
LEMMA QuietStep ==
  ASSUME IInv, Quiet, life' = life,
         \A t \in Threads : thread'[t] = thread[t] \/ Knows(t)',
         \A o \in Operators : thread'[o] = thread[o] \/ ToldTrue(o)',
         setup' \in [Bounds -> Nat]
  PROVE  RegInv' /\ KnownInv' /\ LifeInv' /\ DirInv' /\ ReqInv' /\ HistoryInv'
<1>1. HistoryInv'
  BY DEF IInv, HistoryInv, Quiet
<1> QED BY <1>1, SameReg, SameKnown, SameLife, SameDir, SameReq DEF IInv, Quiet

---------------------------------------------------------------------------
(* Locks are taken                                                          *)

(* The next lock of a thread, and where it goes with it.                    *)
Takes(t, l, pc) ==
  \/ l = "creation" /\ thread[t].pc \in {"moving", "unknown"} /\ thread[t].has = {} /\ pc = thread[t].pc
  \/ l = "topic" /\ thread[t].pc \in {"moving", "unknown"} /\ thread[t].has = {"creation"} /\ pc = "in"
  \/ l = "topic" /\ thread[t].pc = "tapping" /\ thread[t].has = {} /\ pc = "tapping"
  \/ l = "pending" /\ thread[t].pc = "tapping" /\ thread[t].has = {"topic"} /\ pc = "in"
  \/ l = "topic" /\ thread[t].pc = "known" /\ thread[t].has = {} /\ pc = "in"

LEMMA FirstOfTwo ==
  ASSUME NEW a, NEW b, NEW has
  PROVE  LET o == <<a, b>>
             i == CHOOSE i \in DOMAIN o : o[i] \notin has /\ \A j \in 1..(i - 1) : o[j] \in has
         IN (a \notin has => o[i] = a) /\ (a \in has /\ b \notin has => o[i] = b)
<1> DEFINE o == <<a, b>>
           P(i) == o[i] \notin has /\ \A j \in 1..(i - 1) : o[j] \in has
           i == CHOOSE i \in DOMAIN o : P(i)
<1>1. DOMAIN o = 1..2 /\ o[1] = a /\ o[2] = b
  OBVIOUS
<1>2. ASSUME a \notin has PROVE o[i] = a
  <2>1. P(1)
    BY <1>1, <1>2
  <2>2. ASSUME NEW j \in DOMAIN o, P(j) PROVE j = 1
    <3>1. j # 1 => 1 \in 1..(j - 1)
      BY <1>1
    <3> QED BY <1>1, <1>2, <2>2, <3>1
  <2>3. i \in DOMAIN o /\ P(i)
    <3> HIDE DEF P
    <3> QED BY <1>1, <2>1
  <2> QED BY <1>1, <2>2, <2>3
<1>3. ASSUME a \in has, b \notin has PROVE o[i] = b
  <2>1. P(2)
    BY <1>1, <1>3
  <2>2. ~ P(1)
    BY <1>1, <1>3
  <2>3. i \in DOMAIN o /\ P(i)
    <3> HIDE DEF P
    <3> QED BY <1>1, <2>1
  <2> QED BY <1>1, <2>2, <2>3
<1> QED BY <1>2, <1>3

LEMMA FirstOfOne ==
  ASSUME NEW a, NEW has, a \notin has
  PROVE  LET o == <<a>>
         IN o[CHOOSE i \in DOMAIN o : o[i] \notin has /\ \A j \in 1..(i - 1) : o[j] \in has] = a
<1> DEFINE o == <<a>>
<1>1. DOMAIN o = {1} /\ o[1] = a /\ o[1] \notin has /\ \A j \in 1..(1 - 1) : o[j] \in has
  OBVIOUS
<1> QED BY <1>1

LEMMA LockTaken ==
  ASSUME ThreadInv, NEW t \in Threads, Locks(t)
  PROVE  \E l \in LockNames, pc \in AllPcs :
           /\ Takes(t, l, pc) /\ Free(t, l)
           /\ thread' = [thread EXCEPT ![t].has = thread[t].has \cup {l}, ![t].pc = pc]
<1> DEFINE o == Order(thread[t].pc)
           has == thread[t].has \cup {Missing(t)}
           all == \A i \in DOMAIN o : o[i] \in has
           old == thread[t].pc
<1>1. thread[t] \in ThreadType /\ old \in Locking /\ Free(t, Missing(t)) /\ Fits(t, thread[t])
  BY DEF Locks, ThreadInv
<1>2. thread' = [thread EXCEPT ![t].has = has, ![t].pc = IF all THEN "in" ELSE old]
  <2>1. thread' = [thread EXCEPT ![t].has = has, ![t].pc = IF all THEN "in" ELSE @]
    BY DEF Locks
  <2> HIDE DEF has, all
  <2> QED BY <1>1, <2>1 DEF ThreadType, ThreadInv
<1>3. Missing(t) = o[CHOOSE i \in DOMAIN o : o[i] \notin thread[t].has /\ \A j \in 1..(i - 1) : o[j] \in thread[t].has]
  BY DEF Missing, Holds
<1>4. CASE old \in {"moving", "unknown"}
  <2>1. o = <<"creation", "topic">> /\ DOMAIN o = {1, 2} /\ o[1] = "creation" /\ o[2] = "topic"
    BY <1>4 DEF Order
  <2>2. thread[t].has \in {{}, {"creation"}}
    BY <1>1, <1>4 DEF Fits, LocksAt
  <2>3. CASE thread[t].has = {}
    <3>1. Missing(t) = "creation"
      BY <1>3, <2>1, <2>3, FirstOfTwo
    <3>2. has = {"creation"} /\ ~ all
      BY <2>1, <2>3, <3>1
    <3>3. Takes(t, "creation", old)
      BY <1>4, <2>3 DEF Takes
    <3>4. "creation" \in LockNames /\ old \in AllPcs
      BY <1>1 DEF LockNames, ThreadType
    <3>5. thread' = [thread EXCEPT ![t].has = thread[t].has \cup {"creation"}, ![t].pc = old]
      BY <1>2, <2>3, <3>1, <3>2
    <3> QED BY <1>1, <3>1, <3>3, <3>4, <3>5
  <2>4. CASE thread[t].has = {"creation"}
    <3>1. Missing(t) = "topic"
      BY <1>3, <2>1, <2>4, FirstOfTwo
    <3>2. all
      BY <2>1, <2>4, <3>1
    <3>3. Takes(t, "topic", "in")
      BY <1>4, <2>4 DEF Takes
    <3>4. "topic" \in LockNames /\ "in" \in AllPcs
      BY DEF LockNames, AllPcs, MovePcs
    <3>5. thread' = [thread EXCEPT ![t].has = thread[t].has \cup {"topic"}, ![t].pc = "in"]
      BY <1>2, <2>4, <3>1, <3>2
    <3> QED BY <1>1, <3>1, <3>3, <3>4, <3>5
  <2> QED BY <2>2, <2>3, <2>4
<1>5. CASE old = "tapping"
  <2>1. o = <<"topic", "pending">> /\ DOMAIN o = {1, 2} /\ o[1] = "topic" /\ o[2] = "pending"
    BY <1>5 DEF Order
  <2>2. thread[t].has \in {{}, {"topic"}}
    BY <1>1, <1>5 DEF Fits, LocksAt
  <2>3. CASE thread[t].has = {}
    <3>1. Missing(t) = "topic"
      BY <1>3, <2>1, <2>3, FirstOfTwo
    <3>2. has = {"topic"} /\ ~ all
      BY <2>1, <2>3, <3>1
    <3>3. Takes(t, "topic", old)
      BY <1>5, <2>3 DEF Takes
    <3>4. "topic" \in LockNames /\ old \in AllPcs
      BY <1>1 DEF LockNames, ThreadType
    <3>5. thread' = [thread EXCEPT ![t].has = thread[t].has \cup {"topic"}, ![t].pc = old]
      BY <1>2, <2>3, <3>1, <3>2
    <3> QED BY <1>1, <3>1, <3>3, <3>4, <3>5
  <2>4. CASE thread[t].has = {"topic"}
    <3>1. Missing(t) = "pending"
      BY <1>3, <2>1, <2>4, FirstOfTwo
    <3>2. all
      BY <2>1, <2>4, <3>1
    <3>3. Takes(t, "pending", "in")
      BY <1>5, <2>4 DEF Takes
    <3>4. "pending" \in LockNames /\ "in" \in AllPcs
      BY DEF LockNames, AllPcs, MovePcs
    <3>5. thread' = [thread EXCEPT ![t].has = thread[t].has \cup {"pending"}, ![t].pc = "in"]
      BY <1>2, <2>4, <3>1, <3>2
    <3> QED BY <1>1, <3>1, <3>3, <3>4, <3>5
  <2> QED BY <2>2, <2>3, <2>4
<1>6. CASE old = "known"
  <2>1. o = <<"topic">> /\ DOMAIN o = {1} /\ o[1] = "topic"
    BY <1>6 DEF Order
  <2>2. thread[t].has = {}
    BY <1>1, <1>6 DEF Fits, LocksAt
  <2>3. Missing(t) = "topic"
    BY <1>3, <2>1, <2>2, FirstOfOne
  <2>4. all
    BY <2>1, <2>3
  <2>5. Takes(t, "topic", "in")
    BY <1>6, <2>2 DEF Takes
  <2>6. "topic" \in LockNames /\ "in" \in AllPcs
    BY DEF LockNames, AllPcs, MovePcs
  <2>7. thread' = [thread EXCEPT ![t].has = thread[t].has \cup {"topic"}, ![t].pc = "in"]
    BY <1>2, <2>2, <2>3, <2>4
  <2> QED BY <1>1, <2>3, <2>5, <2>6, <2>7
<1> QED BY <1>1, <1>4, <1>5, <1>6 DEF Locking

(* Every thread and every lock: one holder, or readers.                     *)
LEMMA LocksKeepApart ==
  ASSUME ThreadInv, NEW t \in Threads, NEW l \in LockNames, NEW pc \in AllPcs, Takes(t, l, pc), Free(t, l),
         boot' = boot, Up(t),
         thread' = [thread EXCEPT ![t].has = thread[t].has \cup {l}, ![t].pc = pc]
  PROVE  /\ ThreadInv' /\ Only(t)
         /\ thread'[t].pc = pc /\ thread'[t].key = thread[t].key /\ thread'[t].has = thread[t].has \cup {l}
         /\ thread'[t].to = thread[t].to /\ thread'[t].n = thread[t].n
<1> DEFINE m == [thread[t] EXCEPT !.has = thread[t].has \cup {l}, !.pc = pc]
<1>1. thread[t] \in ThreadType /\ Fits(t, thread[t])
  BY DEF ThreadInv
<1>2. m \in ThreadType /\ m.pc = pc /\ m.key = thread[t].key /\ m.has = thread[t].has \cup {l}
      /\ m.to = thread[t].to /\ m.n = thread[t].n
  BY <1>1 DEF ThreadType
<1>3. thread' = [thread EXCEPT ![t] = m]
  BY <1>1 DEF ThreadInv, ThreadType
<1> HIDE DEF m
<1>4. Only(t) /\ thread'[t] = m
  BY <1>2, <1>3, Taken
<1>5. Fits(t, m)
  <2>1. Places(t, pc) /\ (pc # "idle" => m.key \in Keys)
    BY <1>1, <1>2, Names DEF Takes, Fits, Places, LocksAt, Workers, MovePcs, Bystanders
  <2>2. LocksAt(t, pc, m.has)
    BY <1>1, <1>2, Names DEF Takes, Fits, Places, LocksAt, Workers, MovePcs, AtWork, Bystanders
  <2> QED BY <1>2, <2>1, <2>2 DEF Fits
<1>6. ASSUME NEW u \in Threads, NEW v \in Threads, u # v PROVE Apart(u, v)'
  <2>1. Apart(u, v) /\ Apart(v, u)
    BY <1>6 DEF ThreadInv
  <2>2. \A w \in Threads : thread'[w].key = thread[w].key
    BY <1>2, <1>4 DEF Only
  <2>3. \A w \in Threads \ {t} : thread'[w].has = thread[w].has
    BY <1>4 DEF Only
  <2>4. CASE u # t /\ v # t
    BY <2>1, <2>2, <2>3, <2>4 DEF Apart, Holds
  <2>5. CASE u = t \/ v = t
    <3>1. CASE l # "topic"
      <4>1. \A w \in Threads : ~ Holds(w, l)
        BY <3>1 DEF Free
      <4>2. ASSUME NEW w \in Threads, NEW x, Holds(w, x)' PROVE Holds(w, x) \/ (w = t /\ x = l)
        <5>1. x \in thread'[w].has
          BY <4>2 DEF Holds
        <5>2. CASE w = t
          <6>1. x \in thread[t].has \cup {l}
            BY <1>2, <1>4, <5>1, <5>2
          <6> QED BY <5>2, <6>1 DEF Holds
        <5>3. CASE w # t
          BY <2>3, <5>1, <5>3 DEF Holds
        <5> QED BY <5>2, <5>3
      <4>3. "creation" \in LockNames /\ "pending" \in LockNames /\ "topic" \in LockNames
        BY DEF LockNames
      <4>4. Holds(u, "topic")' => Holds(u, "topic")
        BY <3>1, <4>2, <4>3
      <4>5. Holds(v, "topic")' => Holds(v, "topic")
        BY <3>1, <4>2, <4>3
      <4>6. ~ (Holds(u, "creation")' /\ Holds(v, "creation")')
        BY <1>6, <2>1, <4>1, <4>2, <4>3 DEF Apart
      <4>7. ~ (Holds(u, "pending")' /\ Holds(v, "pending")')
        BY <1>6, <2>1, <4>1, <4>2, <4>3 DEF Apart
      <4> QED BY <2>1, <2>2, <4>4, <4>5, <4>6, <4>7 DEF Apart
    <3>2. CASE l = "topic"
      <4>2. \A w \in Threads, x \in {"creation", "pending"} : Holds(w, x)' => Holds(w, x)
        BY <1>2, <1>4, <2>3, <3>2 DEF Holds
      <4>3. \A w \in Threads \ {t} : Holds(w, "topic")' => Holds(w, "topic")
        BY <2>3 DEF Holds
      <4>4. ~ (Holds(u, "creation")' /\ Holds(v, "creation")') /\ ~ (Holds(u, "pending")' /\ Holds(v, "pending")')
        BY <2>1, <4>2 DEF Apart
      <4>5. ASSUME u = "life", Holds(u, "topic")', Holds(v, "topic")' PROVE thread[u].key # thread[v].key
        <5>1. CASE t = "life"
          <6>1. v # t
            BY <1>6, <4>5, <5>1
          <6>2. Holds(v, "topic") /\ v \in Threads \ {t}
            BY <4>3, <4>5, <6>1
          <6> QED BY <3>2, <4>5, <5>1, <6>2 DEF Free
        <5>2. CASE t # "life"
          <6>1. v = t /\ u # t
            BY <2>5, <4>5, <5>2
          <6>2. Holds("life", "topic")
            BY <4>3, <4>5, <6>1
          <6> QED BY <3>2, <4>5, <5>2, <6>1, <6>2 DEF Free, Fenced
        <5> QED BY <5>1, <5>2
      <4> QED BY <2>2, <4>4, <4>5 DEF Apart
    <3> QED BY <3>1, <3>2
  <2> QED BY <2>4, <2>5
<1>7. boot' => \A u \in Threads \ OutsideDaemon : thread'[u].pc = "idle"
  BY <1>4 DEF ThreadInv, Only, Up
<1>8. thread' \in [Threads -> ThreadType] /\ \A u \in Threads : Fits(u, thread'[u])
  BY <1>4, <1>5 DEF ThreadInv, Only
<1> QED BY <1>2, <1>4, <1>6, <1>7, <1>8 DEF ThreadInv

(* The lifecycle loop goes on without any file or topic changing, from a    *)
(* place where nothing is done to one where nothing is done yet.            *)
Settled0 == {"alias", "putback", "save", "unalias", "transfer"}
LEMMA DirPlain ==
  ASSUME DirInv, UNCHANGED <<reg, dir, made, accepted>>, "torn" \in harm => "torn" \in harm',
         life.pc \notin {"alias", "putback"}, life'.pc \notin Settled0
  PROVE  DirInv'
<1>1. DirType'
  BY DEF DirInv, DirType, Settled0, Undone
<1>2. Ranked'
  <2>1. PICK rank \in [Keys -> 0..MaxKey] : Falls(rank)
    BY DEF DirInv, Ranked
  <2>2. Falls(rank)'
    BY <2>1 DEF Falls, Renaming, Settled0
  <2> QED BY <2>2 DEF Ranked
<1>3. "torn" \notin harm' => Whole'
  BY DEF DirInv, Whole, Renaming, Moved, Session, DataAt, Named, Real, Settled0
<1> QED BY <1>1, <1>2, <1>3 DEF DirInv

LEMMA WorkPlain ==
  ASSUME WorkInv, UNCHANGED <<reg, busy, rec, fired, fires>>, "left" \in harm => "left" \in harm',
         life'.pc \in Undone => life.pc \in Undone /\ life'.key = life.key,
         life.pc # "record", thread'["warn"] = thread["warn"]
  PROVE  WorkInv'
BY DEF WorkInv, Registered, Session

LEMMA ReqPlain ==
  ASSUME ReqInv, UNCHANGED <<req, calls, reg, grp>>, "pointer" \in harm => "pointer" \in harm',
         \A o \in Operators : thread'[o] = thread[o],
         life'.key = life.key, life'.to = life.to,
         life'.pc \in {"picked", "moving", "in", "create"} => life.pc \in {"picked", "moving", "in", "create"},
         life'.pc \in Executing => life.pc \in Executing, life'.pc # "picked"
  PROVE  ReqInv'
<1>1. ASSUME NEW o \in Operators PROVE ToldTrue(o)'
  BY <1>1 DEF ReqInv, ToldTrue, Registered
<1>2. FileTrue'
  BY DEF ReqInv, FileTrue, Moved
<1> QED BY <1>1, <1>2 DEF ReqInv

(* Only the thread of the move has a step.                                  *)
LEMMA OnlyLife ==
  ASSUME Only("life")
  PROVE  /\ \A o \in Operators : thread'[o] = thread[o]
         /\ thread'["warn"] = thread["warn"] /\ \A t \in Threads \ {"life"} : thread'[t] = thread[t]
BY Names DEF Only, Workers

(* Another thread has it.                                                   *)
LEMMA OnlyOther ==
  ASSUME NEW t \in Threads \ {"life"}, Only(t)
  PROVE  life' = life
BY Names DEF Only, life

LEMMA LocksStep ==
  ASSUME IInv, NEW t \in Threads, Locks(t)
  PROVE  IInv'
<1>1. PICK l \in LockNames, pc \in AllPcs :
        /\ Takes(t, l, pc) /\ Free(t, l)
        /\ thread' = [thread EXCEPT ![t].has = thread[t].has \cup {l}, ![t].pc = pc]
  BY LockTaken DEF IInv
<1>2. UNCHANGED <<setup, reg, dir, req, rec, grp, made, busy, boot, fired, accepted, calls, fires, harm>> /\ Up(t)
  BY DEF Locks, files, history
<1>3. /\ ThreadInv' /\ Only(t)
      /\ thread'[t].pc = pc /\ thread'[t].key = thread[t].key /\ thread'[t].has = thread[t].has \cup {l}
      /\ thread'[t].to = thread[t].to /\ thread'[t].n = thread[t].n
  BY <1>1, <1>2, LocksKeepApart DEF IInv
<1>4. Fits(t, thread[t]) /\ Knows(t)
  BY DEF IInv, ThreadInv, KnownInv
<1>5. Knows(t)'
  <2>1. Resolved(t)' => Resolved(t)
    BY <1>1, <1>3, <1>4, Names DEF Takes, Resolved, Fits, Places, LocksAt, Workers, MovePcs
  <2>2. thread'[t].pc \notin AtWork
    BY <1>1, <1>3 DEF Takes, AtWork
  <2> QED BY <1>2, <1>3, <1>4, <2>1, <2>2 DEF Knows, Registered
<1>6. CASE t # "life"
  <2>1. life' = life
    BY <1>3, <1>6, OnlyOther
  <2>2. \A u \in Threads : thread'[u] = thread[u] \/ Knows(u)'
    BY <1>3, <1>5 DEF Only
  <2>3. \A o \in Operators : thread'[o] = thread[o] \/ ToldTrue(o)'
    <3>1. pc # "told"
      BY <1>1 DEF Takes
    <3> QED BY <1>3, <3>1, Names DEF Only, ToldTrue
  <2>4. WorkInv'
    <3>1. \/ thread'["warn"] = thread["warn"]
          \/ thread'["warn"].key = thread["warn"].key /\ thread["warn"].pc \in {"known", "in", "act"}
      <4>1. CASE t = "warn"
        BY <1>1, <1>3, <1>4, <4>1 DEF Takes, Fits, Places
      <4>2. CASE t # "warn"
        BY <1>3, <4>2, Names DEF Only
      <4> QED BY <4>1, <4>2
    <3> QED BY <1>2, <2>1, <3>1, SameWork DEF IInv
  <2>5. Quiet /\ setup' \in [Bounds -> Nat]
    BY <1>2 DEF Quiet, IInv, HistoryInv
  <2> QED BY <1>3, <2>1, <2>2, <2>3, <2>4, <2>5, QuietStep DEF IInv
<1>7. CASE t = "life"
  <2>1. life.pc = "moving" /\ life'.pc \in {"moving", "in"}
    BY <1>1, <1>3, <1>4, <1>7 DEF Takes, Fits, Places, life, MovePcs
  <2>2. life'.key = life.key /\ life'.to = life.to /\ life'.n = life.n
    BY <1>3, <1>7 DEF life
  <2>3. RegInv' /\ HistoryInv'
    BY <1>2, SameReg DEF IInv, HistoryInv
  <2>4. KnownInv'
    BY <1>2, <1>3, <1>5, <1>7, SameKnown DEF IInv, Only
  <2>5. LifeInv'
    BY <1>2, <2>1, <2>2 DEF IInv, LifeInv, Undone, Session
  <2>6. DirInv'
    BY <1>2, <2>1, DirPlain DEF IInv, Settled0
  <2>7. ReqInv'
    BY <1>2, <1>3, <1>7, <2>1, <2>2, OnlyLife, ReqPlain DEF IInv, Executing, MovePcs
  <2>8. WorkInv'
    BY <1>2, <1>3, <1>7, <2>1, <2>2, OnlyLife, WorkPlain DEF IInv, Undone
  <2> QED BY <1>3, <2>3, <2>4, <2>5, <2>6, <2>7, <2>8 DEF IInv
<1> QED BY <1>6, <1>7

---------------------------------------------------------------------------
(* Where keys resolve                                                       *)

LEMMA ResolveEnds ==
  ASSUME RegInv, NEW k \in Keys
  PROVE  /\ ResolveMoved(k) \in Keys
         /\ Registered(k) => Session(ResolveMoved(k))
         /\ ~ Moved(k) => ResolveMoved(k) = k
<1> DEFINE next == [j \in Keys |-> reg[j].to]
           rank == [j \in Keys |-> MaxKey - j]
<1>1. MaxKey \in Nat \ {0} /\ next \in [Keys -> 0..MaxKey]
  BY MoveAssumption DEF RegInv
<1>2. rank \in [Keys -> 0..MaxKey] /\ \A j \in Keys : rank[j] < MaxKey
  <2>1. \A j \in Keys : MaxKey - j \in 0..MaxKey /\ MaxKey - j < MaxKey
    BY <1>1 DEF Keys
  <2> QED BY <2>1
<1>3. Points(next, rank)
  <2>1. ASSUME NEW j \in Keys, next[j] # 0 PROVE rank[next[j]] < rank[j]
    <3>1. reg[j].to \in Keys /\ reg[j].to > j
      BY <2>1 DEF RegInv
    <3>2. MaxKey - reg[j].to < MaxKey - j
      BY <1>1, <3>1 DEF Keys
    <3> QED BY <3>1, <3>2
  <2> QED BY <1>1, <1>2, <2>1 DEF Points
<1>4. ResolveMoved(k) = Follow(next, k)
  BY DEF ResolveMoved
<1>5. ResolveMoved(k) \in Keys /\ reg[ResolveMoved(k)].to = 0
  <2> HIDE DEF rank
  <2>1. ResolveMoved(k) \in Keys /\ next[ResolveMoved(k)] = 0
    <3> HIDE DEF next
    <3> QED BY <1>3, <1>4, FollowEnds
  <2> QED BY <2>1
<1>6. ASSUME Registered(k) PROVE Session(ResolveMoved(k))
  <2> DEFINE S == {j \in Keys : Registered(j)}
  <2>1. \A j \in S : next[j] # 0 => next[j] \in S
    BY DEF RegInv
  <2>2. Follow(next, k) \in S
    <3> S \in SUBSET Keys /\ k \in S
      BY <1>6
    <3> HIDE DEF next, S
    <3> QED BY <1>1, <2>1, FollowStays
  <2>3. Registered(ResolveMoved(k)) /\ ~ Moved(ResolveMoved(k))
    <3>1. 0 \notin Keys
      BY Names
    <3> QED BY <1>4, <1>5, <2>2, <3>1 DEF RegInv
  <2> QED BY <1>5, <2>3 DEF RegInv, Registered, Moved, Session
<1>7. ASSUME ~ Moved(k) PROVE ResolveMoved(k) = k
  <2>1. next[k] = 0
    BY <1>7 DEF RegInv
  <2> HIDE DEF next
  <2> QED BY <1>1, <1>4, <2>1, FollowHome
<1> QED BY <1>5, <1>6, <1>7

LEMMA Kinds ==
  ASSUME RegInv, NEW k \in Keys, Registered(k)
  PROVE  Moved(k) \/ Session(k)
BY DEF RegInv, Registered, Moved, Session

---------------------------------------------------------------------------
(* The steps of one other thread that change no file                        *)

LEMMA OtherStep ==
  ASSUME IInv, NEW t \in Threads \ {"life"}, Only(t), ThreadInv', Knows(t)', Quiet,
         setup' \in [Bounds -> Nat], UNCHANGED <<busy, rec, fired, fires>>, ToldTrue(t)',
         t = "warn" => \/ thread'[t].pc \notin {"known", "in", "act"}
                       \/ thread'[t].key = thread[t].key /\ thread[t].pc \in {"known", "in", "act"}
  PROVE  IInv'
<1>1. life' = life
  BY OnlyOther
<1>2. \A u \in Threads : thread'[u] = thread[u] \/ Knows(u)'
  BY DEF Only
<1>3. \A o \in Operators : thread'[o] = thread[o] \/ ToldTrue(o)'
  BY Names DEF Only
<1>4. WorkInv'
  <2>1. t # "warn" => thread'["warn"] = thread["warn"]
    BY Names DEF Only
  <2> QED BY <1>1, <2>1, SameWork DEF IInv, Quiet
<1> QED BY <1>1, <1>2, <1>3, <1>4, QuietStep DEF IInv

(* A thread that is back where it began.                                    *)
LEMMA IdleKnows ==
  ASSUME NEW t \in Threads, thread'[t] = Idle, made' \in Keys
  PROVE  Knows(t)' /\ ToldTrue(t)'
<1>1. 0 <= made'
  BY DEF Keys
<1> QED BY <1>1, IdleFits DEF Knows, Resolved, ToldTrue, AtWork

LEMMA LeavesKeeps ==
  ASSUME ThreadInv, NEW t \in Threads, Leaves(t), boot' = boot
  PROVE  ThreadInv' /\ Only(t) /\ thread'[t] = Idle
BY LeavesType, OnlyKeeps, IdleFits

LEMMA LeavesStep ==
  ASSUME IInv, NEW t \in Threads \ {"life"}, Leaves(t), Quiet, setup' \in [Bounds -> Nat],
         UNCHANGED <<boot, busy, rec, fired, fires>>
  PROVE  IInv'
<1>1. ThreadInv' /\ Only(t) /\ thread'[t] = Idle
  BY LeavesKeeps DEF IInv
<1>2. made' \in Keys
  BY DEF IInv, RegInv, Quiet
<1>3. Knows(t)' /\ ToldTrue(t)'
  BY <1>1, <1>2, IdleKnows
<1> QED BY <1>1, <1>3, OtherStep, IdleFits

LEMMA EntersKeeps ==
  ASSUME ThreadInv, NEW t \in Threads, NEW pc, NEW k \in Keys, Enters(t, pc, k), Up(t), boot' = boot,
         \/ pc \in {"known"} /\ t \in {"timer", "flow", "cli", "warn"} \cup Groups \cup Operators
         \/ pc = "unknown" /\ t \in Groups
         \/ pc = "tapping" /\ t = "tap"
  PROVE  ThreadInv' /\ Only(t) /\ thread'[t].pc = pc /\ thread'[t].key = k /\ thread'[t].has = {}
<1>1. pc \in AllPcs
  BY DEF AllPcs
<1>2. Only(t) /\ thread'[t].pc = pc /\ thread'[t].key = k /\ thread'[t].has = {}
  BY <1>1, EntersType
<1>3. Fits(t, thread'[t])
  BY <1>2, Names DEF Fits, Places, LocksAt, Workers, Bystanders, MovePcs, AtWork
<1> QED BY <1>2, <1>3, OnlyKeeps DEF Up

(* A thread that goes on where it holds what it held, or nothing.           *)
LEMMA GoesKeeps ==
  ASSUME ThreadInv, NEW t \in Threads, NEW pc \in AllPcs, Goes(t, pc), Up(t), boot' = boot,
         Places(t, pc), LocksAt(t, pc, thread[t].has), thread[t].key \in Keys
  PROVE  /\ ThreadInv' /\ Only(t)
         /\ thread'[t].pc = pc /\ thread'[t].key = thread[t].key /\ thread'[t].has = thread[t].has
         /\ thread'[t].to = thread[t].to /\ thread'[t].n = thread[t].n
BY GoesType, OnlyKeeps DEF Fits, Up

LEMMA DropsKeeps ==
  ASSUME ThreadInv, NEW t \in Threads, NEW pc \in AllPcs, Up(t), boot' = boot,
         thread' = [thread EXCEPT ![t].pc = pc, ![t].has = {}],
         Places(t, pc), LocksAt(t, pc, {}), thread[t].key \in Keys
  PROVE  /\ ThreadInv' /\ Only(t)
         /\ thread'[t].pc = pc /\ thread'[t].key = thread[t].key /\ thread'[t].has = {}
         /\ thread'[t].to = thread[t].to /\ thread'[t].n = thread[t].n
BY ZenonT(60), DropsType, OnlyKeeps DEF Fits, Up

LEMMA OperatorAsksStep ==
  ASSUME IInv, NEW o \in Operators, OperatorAsks(o)
  PROVE  IInv'
<1>1. PICK k \in Keys, g \in Groups :
        /\ reg[k] # NoEntry
        /\ thread' = [thread EXCEPT ![o] = [Idle EXCEPT !.pc = "known", !.key = ResolveMoved(k), !.to = g]]
  BY DEF OperatorAsks
<1>2. Quiet /\ UNCHANGED <<boot, busy, rec, fired, fires>> /\ Spend("moves") /\ At(o, "idle")
  BY DEF OperatorAsks, Quiet, files, history
<1>3. PICK h \in Keys : h = ResolveMoved(k) /\ Session(h)
  BY <1>1, ResolveEnds DEF IInv, RegInv, Registered
<1> DEFINE m == [Idle EXCEPT !.pc = "known", !.key = ResolveMoved(k), !.to = g]
<1>4. m \in ThreadType /\ m.pc = "known" /\ m.key = h /\ m.has = {}
  <2>1. h \in 0..MaxKey
    BY Names DEF Keys
  <2> QED BY <1>3, <2>1, IdleFits DEF ThreadType, AllPcs
<1>5. thread' = [thread EXCEPT ![o] = m]
  BY <1>1
<1> HIDE DEF m
<1>6. o \in Threads \ {"life"} /\ o \in OutsideDaemon
  BY Names DEF Workers, OutsideDaemon
<1>7. Only(o) /\ thread'[o] = m
  BY <1>4, <1>5, <1>6, Taken DEF IInv
<1>8. Fits(o, m)
  BY <1>4, Names DEF Fits, Places, LocksAt, Workers, MovePcs, AtWork
<1>9. ThreadInv'
  BY <1>2, <1>4, <1>6, <1>7, <1>8, OnlyKeeps DEF IInv
<1>10. Knows(o)' /\ ToldTrue(o)'
  <2>1. h <= made /\ Registered(h)
    BY <1>3 DEF IInv, RegInv, Registered, Session
  <2> QED BY <1>2, <1>4, <1>7, <2>1 DEF Knows, ToldTrue, Quiet, Registered, AtWork
<1>11. setup' \in [Bounds -> Nat]
  BY <1>2, Spends DEF IInv, HistoryInv, Bounds
<1>12. o # "warn"
  BY Names DEF Workers
<1> QED BY <1>2, <1>6, <1>7, <1>9, <1>10, <1>11, <1>12, OtherStep

(* An operator reads the file, or gives up.                                 *)
LEMMA GoesStep ==
  ASSUME IInv, NEW t \in Threads \ {"life"}, NEW pc \in AllPcs, Goes(t, pc), Up(t),
         Quiet, UNCHANGED <<setup, boot, busy, rec, fired, fires>>,
         Places(t, pc), LocksAt(t, pc, thread[t].has), thread[t].key \in Keys,
         pc \in AtWork => Session(thread[t].key),
         pc \notin {"known", "in", "wait", "told"}, t # "warn"
  PROVE  IInv'
<1>1. /\ ThreadInv' /\ Only(t)
      /\ thread'[t].pc = pc /\ thread'[t].key = thread[t].key /\ thread'[t].has = thread[t].has
  BY GoesKeeps DEF IInv
<1>2. Knows(t)
  BY DEF IInv, KnownInv
<1>3. Resolved(t)' => t = "halt"
  BY <1>1 DEF Resolved
<1>4. t = "halt" => pc \in {"idle", "act"}
  BY Names DEF Places, Workers
<1>5. Knows(t)'
  BY <1>1, <1>2, <1>3, <1>4 DEF Knows, Quiet, Registered, Session, Resolved, AtWork
<1>6. ToldTrue(t)'
  BY <1>1 DEF ToldTrue
<1>7. setup' \in [Bounds -> Nat]
  BY DEF IInv, HistoryInv
<1> QED BY <1>1, <1>5, <1>6, <1>7, OtherStep

(* It waits for the answer.                                                 *)
LEMMA WaitsStep ==
  ASSUME ThreadInv, KnownInv, RegInv, NEW o \in Operators, Waits(o), thread[o].pc \in {"look", "link"},
         UNCHANGED <<reg, made, boot>>
  PROVE  ThreadInv' /\ Only(o) /\ Knows(o)' /\ ToldTrue(o)'
<1>1. o \in Threads /\ o \in OutsideDaemon /\ thread[o].key \in Keys
  BY Names DEF ThreadInv, Fits, OutsideDaemon
<1>2. Places(o, "wait") /\ LocksAt(o, "wait", {}) /\ "wait" \in AllPcs
  BY <1>1, Names DEF Places, LocksAt, Workers, MovePcs, AtWork, AllPcs
<1>3. /\ ThreadInv' /\ Only(o) /\ thread'[o].pc = "wait" /\ thread'[o].key = thread[o].key
  BY <1>1, <1>2, DropsKeeps DEF Waits, Up
<1>4. Knows(o) /\ Session(thread[o].key)
  BY <1>1, Names DEF KnownInv, Knows, AtWork, Workers
<1>5. Knows(o)' /\ ToldTrue(o)'
  BY <1>3, <1>4 DEF Knows, Registered, Session, AtWork, ToldTrue
<1> QED BY <1>3, <1>5

LEMMA OperatorFacts ==
  ASSUME ThreadInv, NEW o \in Operators, thread[o].pc # "idle"
  PROVE  /\ o \in Threads \ {"life"} /\ o \in OutsideDaemon /\ o # "warn" /\ thread[o].key \in Keys /\ Up(o)
         /\ thread[o].pc \in {"in", "look", "clear", "link"} => thread[o].has = {"topic"}
BY Names DEF ThreadInv, Fits, OutsideDaemon, Workers, Up, LocksAt, Bystanders, AtWork

LEMMA OperatorLooksStep ==
  ASSUME IInv, NEW o \in Operators, OperatorLooks(o)
  PROVE  IInv'
<1>1. Quiet /\ UNCHANGED <<setup, boot, busy, rec, fired, fires>> /\ thread[o].pc = "look"
  BY DEF OperatorLooks, Quiet, files, history, At
<1>2. Goes(o, "link") \/ Goes(o, "clear") \/ Waits(o) \/ Leaves(o)
  BY DEF OperatorLooks
<1>3. o \in Threads \ {"life"} /\ o # "warn" /\ thread[o].key \in Keys /\ Up(o) /\ thread[o].has = {"topic"}
  BY <1>1, OperatorFacts DEF IInv
<1>4. setup' \in [Bounds -> Nat]
  BY <1>1 DEF IInv, HistoryInv
<1>5. ASSUME NEW pc \in {"link", "clear"}, Goes(o, pc) PROVE IInv'
  <2>1. Places(o, pc) /\ LocksAt(o, pc, thread[o].has) /\ pc \in AllPcs
    BY <1>3, Names DEF Places, LocksAt, Workers, MovePcs, AtWork, AllPcs
  <2>2. Session(thread[o].key)
    BY <1>1, <1>3, Names DEF IInv, KnownInv, Knows, AtWork, Workers
  <2> QED BY <1>1, <1>3, <1>5, <2>1, <2>2, GoesStep
<1>6. CASE Waits(o)
  <2>1. ThreadInv' /\ Only(o) /\ Knows(o)' /\ ToldTrue(o)'
    BY <1>1, <1>6, WaitsStep DEF IInv, Quiet
  <2> QED BY <1>1, <1>3, <1>4, <2>1, OtherStep
<1>7. CASE Leaves(o)
  BY <1>1, <1>3, <1>4, <1>7, LeavesStep
<1> QED BY <1>2, <1>5, <1>6, <1>7

LEMMA OperatorSeesStep ==
  ASSUME IInv, NEW o \in Operators, OperatorSees(o)
  PROVE  IInv'
<1>1. Quiet /\ UNCHANGED <<setup, boot, busy, rec, fired, fires>> /\ thread[o].pc = "wait"
  BY DEF OperatorSees, Quiet, files, history, At
<1>2. o \in Threads \ {"life"} /\ o # "warn" /\ thread[o].key \in Keys /\ Up(o)
  BY <1>1, OperatorFacts DEF IInv
<1>3. setup' \in [Bounds -> Nat]
  BY <1>1 DEF IInv, HistoryInv
<1> DEFINE k == thread[o].key
           r == req[k]
<1>4. ASSUME Answers(o, r), thread' = [thread EXCEPT ![o].pc = "told", ![o].n = r.res] PROVE IInv'
  <2>1. r.to = thread[o].to /\ r.state = "done" /\ r.res # 0 /\ r.res \in 0..MaxKey /\ r.res \in Nat
    BY <1>2, <1>4, Names DEF Answers, IInv, ReqInv
  <2>2. /\ Only(o) /\ thread'[o].pc = "told" /\ thread'[o].key = thread[o].key /\ thread'[o].has = thread[o].has
        /\ thread'[o].to = thread[o].to /\ thread'[o].n = r.res
    <3>1. "told" \in AllPcs
      BY DEF AllPcs
    <3>2. PICK n \in Nat : n = r.res
      BY <2>1
    <3>3. thread' = [thread EXCEPT ![o].pc = "told", ![o].n = n]
      BY <1>4, <3>2
    <3>4. o \in Threads /\ ThreadInv
      BY <1>2 DEF IInv
    <3> HIDE DEF r
    <3>5. thread'[o].n = n /\ /\ Only(o) /\ thread'[o].pc = "told" /\ thread'[o].key = thread[o].key
          /\ thread'[o].has = thread[o].has /\ thread'[o].to = thread[o].to
      BY ZenonT(60), <3>1, <3>3, <3>4, Numbers
    <3> QED BY <3>2, <3>5
  <2>3. thread[o].has = {} /\ Knows(o)
    BY <1>1, <1>2 DEF IInv, ThreadInv, KnownInv, Fits, LocksAt
  <2>4. Fits(o, thread'[o])
    BY <1>2, <2>2, <2>3, Names DEF Fits, Places, LocksAt, Workers, MovePcs, AtWork
  <2>5. ThreadInv'
    BY <1>1, <1>2, <2>2, <2>3, <2>4, OnlyKeeps DEF IInv, Up
  <2>6. Registered(k)
    BY <1>1, <2>3 DEF Knows, Resolved
  <2>7. Knows(o)'
    BY <1>1, <2>2, <2>3, <2>6 DEF Knows, Quiet, Registered, AtWork
  <2>8. ToldTrue(o)'
    <3> SUFFICES ASSUME "pointer" \notin harm PROVE ToldTrue(o)'
      BY <1>1 DEF ToldTrue, Quiet
    <3>1. reg[k].to = r.res /\ (Moved(k) => grp[reg[k].to] = r.to)
      BY <1>2, <2>1 DEF IInv, ReqInv, FileTrue
    <3>2. Moved(k)
      BY <1>2, <2>1, <3>1 DEF IInv, RegInv
    <3>3. r.res \in Keys /\ Registered(r.res)
      BY <1>2, <3>1, <3>2 DEF IInv, RegInv
    <3> QED BY <1>1, <2>1, <2>2, <3>1, <3>2, <3>3 DEF ToldTrue, Quiet, Registered
  <2> QED BY <1>1, <1>2, <1>3, <2>2, <2>5, <2>7, <2>8, OtherStep
<1>5. CASE Leaves(o)
  BY <1>1, <1>2, <1>3, <1>5, LeavesStep
<1> QED BY <1>4, <1>5 DEF OperatorSees

LEMMA OperatorEndsStep ==
  ASSUME IInv, NEW o \in Operators, OperatorEnds(o)
  PROVE  IInv'
<1>1. Quiet /\ UNCHANGED <<setup, boot, busy, rec, fired, fires>> /\ thread[o].pc # "idle" /\ Leaves(o)
  BY DEF OperatorEnds, Quiet, files, history
<1>2. o \in Threads \ {"life"} /\ setup' \in [Bounds -> Nat]
  BY <1>1, OperatorFacts DEF IInv, HistoryInv
<1> QED BY <1>1, <1>2, LeavesStep

(* Another thread's step that leaves the folders and the registry.          *)
LEMMA StepWith ==
  ASSUME IInv, NEW t \in Threads \ {"life"}, Only(t), ThreadInv', Knows(t)',
         UNCHANGED <<reg, dir, grp, made, accepted, harm>>,
         setup' \in [Bounds -> Nat], ReqInv', WorkInv'
  PROVE  IInv'
<1>1. life' = life
  BY OnlyOther
<1>2. \A u \in Threads : thread'[u] = thread[u] \/ Knows(u)'
  BY DEF Only
<1>3. HistoryInv'
  BY DEF IInv, HistoryInv
<1> QED BY <1>1, <1>2, <1>3, SameReg, SameKnown, SameLife, SameDir DEF IInv

LEMMA WorkAside ==
  ASSUME IInv, NEW t \in Threads \ {"life", "warn"}, Only(t),
         UNCHANGED <<reg, busy, rec, fired, fires, harm>>
  PROVE  WorkInv'
<1>1. life' = life /\ thread'["warn"] = thread["warn"]
  BY Names, OnlyOther DEF Only
<1> QED BY <1>1, SameWork DEF IInv

LEMMA OperatorClearsStep ==
  ASSUME IInv, NEW o \in Operators, OperatorClears(o)
  PROVE  IInv'
<1> DEFINE k == thread[o].key
<1>1. /\ thread[o].pc = "clear"
      /\ UNCHANGED <<setup, reg, dir, rec, grp, made, busy, boot, fired, accepted, calls, fires, harm>>
  BY DEF OperatorClears, At, history
<1>2. o \in Threads \ {"life"} /\ o # "warn" /\ k \in Keys /\ Up(o) /\ thread[o].has = {"topic"}
  BY <1>1, OperatorFacts DEF IInv
<1>3. setup' \in [Bounds -> Nat]
  BY <1>1 DEF IInv, HistoryInv
<1>4. CASE Leaves(o) /\ UNCHANGED req
  BY <1>1, <1>2, <1>3, <1>4, LeavesStep DEF Quiet
<1>5. ASSUME req' = [req EXCEPT ![k] = NoReq], Goes(o, "link") PROVE IInv'
  <2>1. Places(o, "link") /\ LocksAt(o, "link", thread[o].has) /\ "link" \in AllPcs
    BY <1>2, Names DEF Places, LocksAt, Workers, MovePcs, AtWork, AllPcs
  <2>2. ThreadInv' /\ Only(o) /\ thread'[o].pc = "link" /\ thread'[o].key = k
    BY <1>1, <1>2, <1>5, <2>1, GoesKeeps DEF IInv
  <2>3. Knows(o) /\ Session(k)
    BY <1>1, <1>2, Names DEF IInv, KnownInv, Knows, AtWork, Workers
  <2>4. Knows(o)'
    BY <1>1, <2>2, <2>3 DEF Knows, Registered, Session
  <2>5. ReqInv'
    <3>1. NoReq \in [state : {"none", "pending", "running", "done"}, to : Groups, res : 0..MaxKey] /\ NoReq.state = "none"
      BY MoveAssumption DEF NoReq
    <3>2. req \in [Keys -> [state : {"none", "pending", "running", "done"}, to : Groups, res : 0..MaxKey]]
      BY DEF IInv, ReqInv
    <3> DEFINE none == NoReq
    <3>3. req' \in [Keys -> [state : {"none", "pending", "running", "done"}, to : Groups, res : 0..MaxKey]]
      BY <1>5, <3>1, <3>2
    <3>4. \A j \in Keys : req'[j] = req[j] \/ req'[j].state = "none"
      BY <1>2, <1>5, <3>1, <3>2
    <3>5. life' = life
      BY <1>2, <2>2, OnlyOther
    <3>6. \A u \in Operators : ToldTrue(u)'
      <4>1. ASSUME NEW u \in Operators, u # o PROVE thread'[u] = thread[u]
        BY <2>2, <4>1, Names DEF Only
      <4> QED BY <1>1, <2>2, <4>1 DEF IInv, ReqInv, ToldTrue, Registered
    <3>7. FileTrue'
      BY <1>1, <3>4 DEF IInv, ReqInv, FileTrue, Moved
    <3>8. life.pc \in Executing \cup {"picked"} => life.key \in Keys
      BY Names DEF IInv, ThreadInv, Fits, life, Executing, MovePcs
    <3>9. life.pc \in Executing \cup {"picked"} => req'[life.key].state # "done"
      BY <3>4, <3>8 DEF IInv, ReqInv
    <3>10. life.pc \in Executing /\ req'[life.key].state = "running" => req'[life.key].to = life.to
      BY <3>4, <3>8 DEF IInv, ReqInv
    <3>11. \A j \in Keys : req'[j].state = "pending" => calls[j] = 0
      BY <3>4 DEF IInv, ReqInv
    <3>12. calls \in [Keys -> {0, 1}] /\ (life.pc \in {"picked", "moving", "in", "create"} => calls[life.key] = 0)
      BY DEF IInv, ReqInv
    <3> QED BY <1>1, <3>3, <3>5, <3>6, <3>7, <3>9, <3>10, <3>11, <3>12 DEF ReqInv
  <2>6. WorkInv'
    BY <1>1, <1>2, <2>2, WorkAside
  <2> QED BY <1>1, <1>2, <1>3, <2>2, <2>4, <2>5, <2>6, StepWith
<1> QED BY <1>4, <1>5 DEF OperatorClears

LEMMA OperatorLinksStep ==
  ASSUME IInv, NEW o \in Operators, OperatorLinks(o)
  PROVE  IInv'
<1> DEFINE k == thread[o].key
           new == [state |-> "pending", to |-> thread[o].to, res |-> 0]
<1>1. /\ thread[o].pc = "link"
      /\ UNCHANGED <<setup, reg, dir, rec, grp, made, busy, boot, fired, accepted, fires, harm>>
  BY DEF OperatorLinks, At
<1>2. o \in Threads \ {"life"} /\ o # "warn" /\ k \in Keys /\ Up(o) /\ thread[o].has = {"topic"}
  BY <1>1, OperatorFacts DEF IInv
<1>3. setup' \in [Bounds -> Nat]
  BY <1>1 DEF IInv, HistoryInv
<1>4. CASE Waits(o) /\ UNCHANGED <<req, calls>>
  <2>1. ThreadInv' /\ Only(o) /\ Knows(o)' /\ ToldTrue(o)'
    BY <1>1, <1>4, WaitsStep DEF IInv
  <2> QED BY <1>1, <1>2, <1>3, <1>4, <2>1, OtherStep DEF Quiet
<1>5. CASE Leaves(o) /\ UNCHANGED <<req, calls>>
  BY <1>1, <1>2, <1>3, <1>5, LeavesStep DEF Quiet
<1>6. ASSUME Waits(o), req' = [req EXCEPT ![k] = new], calls' = [calls EXCEPT ![k] = 0] PROVE IInv'
  <2>1. ThreadInv' /\ Only(o) /\ Knows(o)' /\ ToldTrue(o)'
    BY <1>1, <1>6, WaitsStep DEF IInv
  <2>2. ReqInv'
    <3>1. /\ new \in [state : {"none", "pending", "running", "done"}, to : Groups, res : 0..MaxKey]
          /\ new.state = "pending"
      BY <1>2, MoveAssumption DEF IInv, ThreadInv, ThreadType
    <3> HIDE DEF new
    <3>2. /\ req \in [Keys -> [state : {"none", "pending", "running", "done"}, to : Groups, res : 0..MaxKey]]
          /\ calls \in [Keys -> {0, 1}]
      BY DEF IInv, ReqInv
    <3>3. req' \in [Keys -> [state : {"none", "pending", "running", "done"}, to : Groups, res : 0..MaxKey]]
      BY <1>6, <3>1, <3>2
    <3>4. calls' \in [Keys -> {0, 1}]
      BY <1>6, <3>2
    <3>5. \A j \in Keys : (req'[j] = req[j] /\ calls'[j] = calls[j]) \/ (req'[j].state = "pending" /\ calls'[j] = 0)
      BY <1>2, <1>6, <3>1, <3>2
    <3>6. life' = life
      BY <1>2, <2>1, OnlyOther
    <3>7. \A u \in Operators : ToldTrue(u)'
      <4>1. ASSUME NEW u \in Operators, u # o PROVE thread'[u] = thread[u]
        BY <2>1, <4>1, Names DEF Only
      <4> QED BY <1>1, <2>1, <4>1 DEF IInv, ReqInv, ToldTrue, Registered
    <3>8. FileTrue'
      BY <1>1, <3>5 DEF IInv, ReqInv, FileTrue, Moved
    <3>9. life.pc \in Executing \cup {"picked"} => life.key \in Keys
      BY Names DEF IInv, ThreadInv, Fits, life, Executing, MovePcs
    <3>10. life.pc \in Executing \cup {"picked"} => req'[life.key].state # "done"
      BY <3>5, <3>9 DEF IInv, ReqInv
    <3>11. life.pc \in Executing /\ req'[life.key].state = "running" => req'[life.key].to = life.to
      BY <3>5, <3>9 DEF IInv, ReqInv
    <3>12. \A j \in Keys : req'[j].state = "pending" => calls'[j] = 0
      BY <3>5 DEF IInv, ReqInv
    <3>13. life.pc \in {"picked", "moving", "in", "create"} => calls'[life.key] = 0
      BY <3>5, <3>9 DEF IInv, ReqInv, Executing, MovePcs
    <3> QED BY <1>1, <3>3, <3>4, <3>6, <3>7, <3>8, <3>10, <3>11, <3>12, <3>13 DEF ReqInv
  <2>3. WorkInv'
    BY <1>1, <1>2, <2>1, WorkAside
  <2> QED BY <1>1, <1>2, <1>3, <2>1, <2>2, <2>3, StepWith
<1> QED BY <1>4, <1>5, <1>6 DEF OperatorLinks

LEMMA OneSession ==
  ASSUME RegInv, NEW i \in Keys, NEW j \in Keys, Session(i), Session(j)
  PROVE  i = j
BY DEF RegInv

LEMMA PinnedStep ==
  ASSUME IInv, NEW t \in Threads, Pinned(t)
  PROVE  IInv'
<1> DEFINE k == thread[t].key
           pc == Pins(t, k)
<1>1. /\ t \in OutsideDaemon /\ thread[t].pc = "in" /\ Up(t)
      /\ Quiet /\ UNCHANGED <<setup, boot, busy, rec, fired, fires>>
  BY DEF Pinned, At, Quiet, files, history
<1>2. t \in Threads \ {"life"} /\ t # "warn" /\ t \in Bystanders /\ k \in Keys /\ thread[t].has = {"topic"}
  BY <1>1, Names DEF OutsideDaemon, Workers, IInv, ThreadInv, Fits, LocksAt, Bystanders, AtWork
<1>3. setup' \in [Bounds -> Nat]
  BY <1>1 DEF IInv, HistoryInv
<1>4. PICK h \in Keys : h = ResolveMoved(k) /\ Session(h) /\ h <= made
  <2>1. Registered(k)
    BY <1>1, <1>2, Names DEF IInv, KnownInv, Knows, Resolved, OutsideDaemon, Workers
  <2>2. ResolveMoved(k) \in Keys /\ Session(ResolveMoved(k))
    BY <1>2, <2>1, ResolveEnds DEF IInv
  <2> QED BY <2>2 DEF IInv, RegInv, Registered, Session
<1>5. thread[t] \in ThreadType
  BY DEF IInv, ThreadInv
<1>6. thread' = [thread EXCEPT ![t] =
        CASE pc = "idle" -> Idle
          [] pc = "known" -> [thread[t] EXCEPT !.pc = pc, !.key = ResolveMoved(k), !.has = {}]
          [] OTHER -> [thread[t] EXCEPT !.pc = pc]]
  BY <1>5 DEF Pinned, IInv, ThreadInv
<1>7. pc \in {"known", "act", "idle", "look"} /\ (pc = "known" <=> ResolveMoved(k) # k) /\ (pc = "act" => t = "cli")
      /\ (pc = "look" => t # "cli")
  BY DEF Pins
<1>8. CASE pc = "idle"
  <2>1. Leaves(t)
    BY <1>6, <1>8 DEF Leaves
  <2> QED BY <1>1, <1>2, <1>3, <2>1, LeavesStep
<1>9. CASE pc = "known"
  <2> DEFINE m == [thread[t] EXCEPT !.pc = "known", !.key = h, !.has = {}]
  <2>1. m \in ThreadType /\ m.pc = "known" /\ m.key = h /\ m.has = {}
    <3>1. h \in 0..MaxKey /\ "known" \in AllPcs
      BY Names DEF AllPcs, Keys
    <3> QED BY <1>5, <3>1 DEF ThreadType
  <2>2. thread' = [thread EXCEPT ![t] = m]
    BY <1>4, <1>6, <1>9
  <2> HIDE DEF m
  <2>3. Only(t) /\ thread'[t] = m
    BY <2>1, <2>2, Taken DEF IInv
  <2>4. Fits(t, m)
    BY <1>1, <2>1, Names DEF Fits, Places, LocksAt, Workers, MovePcs, AtWork, OutsideDaemon
  <2>5. ThreadInv'
    BY <1>1, <2>1, <2>3, <2>4, OnlyKeeps DEF IInv
  <2>6. Knows(t)' /\ ToldTrue(t)'
    BY <1>1, <1>4, <2>1, <2>3 DEF Knows, Quiet, Registered, Session, AtWork, ToldTrue
  <2> QED BY <1>1, <1>2, <1>3, <2>3, <2>5, <2>6, OtherStep
<1>10. CASE pc \in {"act", "look"}
  <2>1. PICK p \in {"act", "look"} : p = pc
    BY <1>10
  <2>2. Goes(t, p)
    BY <1>6, <2>1 DEF Goes
  <2>3. Session(k)
    BY <1>4, <1>7, <1>10
  <2>4. p \in AllPcs /\ Places(t, p) /\ LocksAt(t, p, thread[t].has)
    BY <1>1, <1>2, <1>7, <2>1, Names DEF Places, LocksAt, Workers, MovePcs, AtWork, AllPcs, OutsideDaemon, Bystanders
  <2> QED BY <1>1, <1>2, <2>1, <2>2, <2>3, <2>4, GoesStep
<1> QED BY <1>7, <1>8, <1>9, <1>10

LEMMA PollerTakesStep ==
  ASSUME IInv, NEW p \in Groups, PollerTakes(p)
  PROVE  IInv'
<1>1. PICK k \in Keys :
       /\ grp[k] = p
       /\ thread' = [thread EXCEPT ![p] =
            [Idle EXCEPT !.pc = IF reg[k] = NoEntry THEN "unknown" ELSE "known", !.key = k, !.n = setup["messages"]]]
  BY DEF PollerTakes
<1>2. Quiet /\ UNCHANGED <<boot, busy, rec, fired, fires>> /\ Spend("messages") /\ thread[p].pc = "idle" /\ Up(p)
  BY DEF PollerTakes, Quiet, files, history, At
<1> DEFINE pc == IF reg[k] = NoEntry THEN "unknown" ELSE "known"
           m == [Idle EXCEPT !.pc = pc, !.key = k, !.n = setup["messages"]]
<1>3. pc \in {"unknown", "known"} /\ (pc = "known" => Registered(k)) /\ k <= made
  BY <1>1, Names DEF IInv, RegInv
<1>4. setup["messages"] \in Nat /\ setup' \in [Bounds -> Nat]
  <2>1. "messages" \in Bounds
    BY DEF Bounds
  <2> QED BY <1>2, <2>1, Spends DEF IInv, HistoryInv
<1>5. thread' = [thread EXCEPT ![p] = m]
  BY <1>1
<1> HIDE DEF pc
<1>6. m \in ThreadType /\ m.pc = pc /\ m.key = k /\ m.has = {}
  <2>1. k \in 0..MaxKey /\ pc \in AllPcs
    BY <1>3, Names DEF Keys, AllPcs
  <2> QED BY <1>4, <2>1, IdleFits DEF ThreadType
<1> HIDE DEF m
<1>7. p \in Threads \ {"life"} /\ p # "warn"
  BY Names DEF Workers
<1>8. Only(p) /\ thread'[p] = m
  BY <1>5, <1>6, <1>7, Taken DEF IInv
<1>9. Fits(p, m)
  BY <1>3, <1>6, Names DEF Fits, Places, LocksAt, Workers, MovePcs, AtWork, Bystanders
<1>10. ThreadInv'
  BY <1>2, <1>6, <1>7, <1>8, <1>9, OnlyKeeps DEF IInv, Up
<1>11. Knows(p)' /\ ToldTrue(p)'
  BY <1>2, <1>3, <1>6, <1>8, Names DEF Knows, Resolved, Quiet, Registered, AtWork, ToldTrue, Workers
<1> QED BY <1>2, <1>4, <1>7, <1>8, <1>10, <1>11, OtherStep

LEMMA PollerLooksStep ==
  ASSUME IInv, NEW p \in Groups, PollerLooks(p)
  PROVE  IInv'
<1> DEFINE k == thread[p].key
<1>1. Quiet /\ UNCHANGED <<setup, boot, busy, rec, fired, fires>> /\ thread[p].pc = "in" /\ Up(p)
  BY DEF PollerLooks, Quiet, files, history, At
<1>2. p \in Threads \ {"life"} /\ p # "warn" /\ k \in Keys /\ thread[p].has \in {{"topic"}, {"creation", "topic"}}
  BY <1>1, Names DEF IInv, ThreadInv, Fits, LocksAt, Workers
<1>3. setup' \in [Bounds -> Nat]
  BY <1>1 DEF IInv, HistoryInv
<1>4. Leaves(p) \/ (Session(k) /\ Goes(p, "act")) \/ (~ Session(k) /\ ~ Moved(k) /\ (Goes(p, "stray") \/ Goes(p, "command")))
  BY DEF PollerLooks
<1>5. CASE Leaves(p)
  BY <1>1, <1>2, <1>3, <1>5, LeavesStep
<1>6. ASSUME NEW pc \in {"act", "stray", "command"}, Goes(p, pc), pc = "act" => Session(k),
             pc # "act" => ~ Session(k) /\ ~ Moved(k)
      PROVE IInv'
  <2>1. pc # "act" => thread[p].has = {"creation", "topic"}
    <3>1. Registered(k) => Session(k) \/ Moved(k)
      BY <1>2, Kinds DEF IInv
    <3>2. thread[p].has = {"topic"} => Registered(k)
      BY <1>1, <1>2, Names DEF IInv, KnownInv, Knows, Resolved, Workers
    <3> QED BY <1>2, <1>6, <3>1, <3>2
  <2>2. pc \in AllPcs /\ Places(p, pc) /\ LocksAt(p, pc, thread[p].has)
    BY <1>2, <2>1, Names DEF Places, LocksAt, Workers, MovePcs, AtWork, AllPcs, Bystanders
  <2>3. pc \in AtWork => Session(k)
    BY <1>6 DEF AtWork
  <2> QED BY <1>1, <1>2, <1>6, <2>2, <2>3, GoesStep
<1> QED BY <1>4, <1>5, <1>6

LEMMA PlainLeaves ==
  ASSUME IInv, \/ \E p \in Groups : PollerCommands(p)
               \/ NudgeActs
  PROVE  IInv'
<1>1. \E t \in Threads \ {"life"} : Leaves(t)
  BY Names DEF PollerCommands, NudgeActs, Workers
<1>2. Quiet /\ UNCHANGED <<setup, boot, busy, rec, fired, fires>>
  BY DEF PollerCommands, NudgeActs, Quiet, files, history
<1>3. setup' \in [Bounds -> Nat]
  BY <1>2 DEF IInv, HistoryInv
<1> QED BY <1>1, <1>2, <1>3, LeavesStep

LEMMA EntersStep ==
  ASSUME IInv, NotifyAsks \/ TapTakes
  PROVE  IInv'
<1>1. PICK t \in {"cli", "tap"}, pc \in {"known", "tapping"}, k \in Keys :
        /\ Enters(t, pc, k) /\ k <= made
        /\ (t = "cli" /\ pc = "known" /\ Registered(k)) \/ (t = "tap" /\ pc = "tapping")
        /\ Up(t)
  <2>1. CASE NotifyAsks
    <3>1. PICK k \in Keys : reg[k] # NoEntry /\ Enters("cli", "known", ResolveMoved(k)) /\ Up("cli")
      BY <2>1 DEF NotifyAsks, At
    <3>2. PICK h \in Keys : h = ResolveMoved(k) /\ Session(h)
      BY <3>1, ResolveEnds DEF IInv, RegInv, Registered
    <3>3. h <= made /\ Registered(h) /\ Enters("cli", "known", h)
      BY <3>1, <3>2 DEF IInv, RegInv, Registered, Session
    <3> QED BY <3>1, <3>3
  <2>2. CASE TapTakes
    <3>1. PICK k \in Keys : grp[k] \in Groups /\ Enters("tap", "tapping", k) /\ Up("tap")
      BY <2>2 DEF TapTakes, At
    <3>2. k <= made
      BY <3>1, Names DEF IInv, RegInv
    <3> QED BY <3>1, <3>2
  <2> QED BY <2>1, <2>2
<1>2. Quiet /\ UNCHANGED <<boot, busy, rec, fired, fires>> /\ (Spend("notifies") \/ Spend("taps"))
  BY DEF NotifyAsks, TapTakes, Quiet, files, history
<1>3. setup' \in [Bounds -> Nat]
  BY <1>2, Spends DEF IInv, HistoryInv, Bounds
<1>4. t \in Threads \ {"life"} /\ t # "warn"
  BY Names
<1>5. ThreadInv' /\ Only(t) /\ thread'[t].pc = pc /\ thread'[t].key = k
  BY <1>1, <1>2, <1>4, EntersKeeps DEF IInv
<1>6. Knows(t)' /\ ToldTrue(t)'
  BY <1>1, <1>2, <1>4, <1>5, Names DEF Knows, Resolved, Quiet, Registered, AtWork, ToldTrue, Workers
<1> QED BY <1>2, <1>3, <1>4, <1>5, <1>6, OtherStep

LEMMA TableFollows ==
  ASSUME RegInv, WorkInv
  PROVE  /\ FollowedTable \subseteq Keys /\ \A k \in FollowedTable : Session(k)
         /\ fired # {} => \A h \in Keys : Session(h) => h \in FollowedTable
<1>1. ASSUME NEW x \in fired PROVE ResolveMoved(x) \in Keys /\ Session(ResolveMoved(x))
  BY <1>1, ResolveEnds DEF WorkInv
<1>2. ASSUME NEW x \in fired, NEW h \in Keys, Session(h) PROVE h = ResolveMoved(x)
  BY <1>1, <1>2, OneSession
<1> QED BY <1>1, <1>2 DEF FollowedTable

LEMMA WarnTurns ==
  ASSUME IInv, WarnReads \/ WarnPublishes
  PROVE  IInv'
<1>1. UNCHANGED <<reg, dir, req, rec, grp, made, busy, boot, accepted, calls, fires, harm>> /\ fired' = FollowedTable
  BY DEF WarnReads, WarnPublishes, files, history
<1>2. "warn" \in Threads \ {"life"} /\ "warn" \notin Operators
  BY Names DEF Workers
<1>3. /\ FollowedTable \subseteq Keys
      /\ \A k \in FollowedTable : Session(k)
      /\ fired # {} => \A h \in Keys : Session(h) => h \in FollowedTable
  BY TableFollows DEF IInv
<1>4. PICK h \in Keys : Session(h)
  BY DEF IInv, RegInv
<1>5. ASSUME Only("warn"), ThreadInv', Knows("warn")', setup' \in [Bounds -> Nat],
             thread'["warn"].pc \in {"known", "in", "act"} => thread'["warn"].key \in Keys
      PROVE  IInv'
  <2>1. life' = life
    BY <1>2, <1>5, OnlyOther
  <2>2. ReqInv'
    <3>1. \A o \in Operators : thread'[o] = thread[o]
      BY <1>2, <1>5, Names DEF Only
    <3> QED BY <1>1, <2>1, <3>1, SameReq DEF IInv
  <2>3. WorkInv'
    <3>1. fired' \subseteq Keys /\ \A k \in fired' : Registered(k)'
      BY <1>1, <1>3 DEF Registered, Session
    <3>2. ASSUME fires = 1 PROVE fired' # {} /\ \A k \in Keys : Session(k) => k \in fired'
      <4>1. fired # {}
        BY <3>2 DEF IInv, WorkInv
      <4>2. h \in FollowedTable /\ \A k \in Keys : Session(k) => k \in FollowedTable
        BY <1>3, <1>4, <4>1
      <4> QED BY <1>1, <4>2
    <3>3. \A k \in Keys : Session(k)' <=> Session(k)
      BY <1>1 DEF Session
    <3> QED BY <1>1, <1>5, <2>1, <3>1, <3>2, <3>3 DEF IInv, WorkInv
  <2> QED BY <1>1, <1>2, <1>5, <2>2, <2>3, StepWith
<1>6. CASE WarnReads
  <2>1. PICK k \in Keys : Session(k) /\ Enters("warn", "known", k)
    BY <1>6 DEF WarnReads
  <2>2. Spend("warns") /\ Up("warn")
    BY <1>6 DEF WarnReads, At
  <2>3. ThreadInv' /\ Only("warn") /\ thread'["warn"].pc = "known" /\ thread'["warn"].key = k
    BY <1>1, <1>2, <2>1, <2>2, EntersKeeps DEF IInv
  <2>4. Knows("warn")'
    BY <1>1, <2>1, <2>3 DEF Knows, Registered, Session, AtWork, IInv, RegInv
  <2>5. setup' \in [Bounds -> Nat]
    BY <2>2, Spends DEF IInv, HistoryInv, Bounds
  <2> QED BY <1>5, <2>3, <2>4, <2>5
<1>7. CASE WarnPublishes
  <2>1. Leaves("warn") /\ UNCHANGED setup
    BY <1>7 DEF WarnPublishes
  <2>2. ThreadInv' /\ Only("warn") /\ thread'["warn"] = Idle
    BY <1>1, <1>2, <2>1, LeavesKeeps DEF IInv
  <2>3. made' \in Keys
    BY <1>1 DEF IInv, RegInv
  <2>4. Knows("warn")'
    BY <1>2, <2>2, <2>3, IdleKnows
  <2> QED BY <1>5, <2>1, <2>2, <2>4, IdleFits DEF IInv, HistoryInv
<1> QED BY <1>6, <1>7

---------------------------------------------------------------------------
(* The work that is fenced: questions, revives, carry-forwards              *)

(* Several threads take a step, and none of them takes a lock.              *)
Lets(u) == /\ Fits(u, thread'[u]) /\ thread'[u].has \subseteq thread[u].has
           /\ thread'[u].has # {} => thread'[u].key = thread[u].key
           /\ u \in OutsideDaemon \/ ~ boot
LEMMA SomeKeep ==
  ASSUME ThreadInv, thread' \in [Threads -> ThreadType], boot' = boot,
         \A u \in Threads : thread'[u] = thread[u] \/ Lets(u)
  PROVE  ThreadInv'
<1>1. \A u \in Threads : Fits(u, thread'[u])
  BY DEF ThreadInv, Lets
<1>2. ASSUME NEW u \in Threads, NEW v \in Threads, u # v PROVE Apart(u, v)'
  <2>1. Apart(u, v)
    BY <1>2 DEF ThreadInv
  <2>2. \A w \in Threads : /\ thread'[w].has \subseteq thread[w].has
                           /\ \A l : l \in thread'[w].has => thread'[w].key = thread[w].key
    BY DEF Lets
  <2> QED BY <2>1, <2>2 DEF Apart, Holds
<1>3. boot' => \A u \in Threads \ OutsideDaemon : thread'[u].pc = "idle"
  BY DEF ThreadInv, Lets
<1> QED BY <1>1, <1>2, <1>3 DEF ThreadInv

(* The thread of a revive or of a carry-forward begins.                     *)
Begun(m, pc, k) == m \in ThreadType /\ m.pc = pc /\ m.key = k /\ m.has = {}
LEMMA Begins ==
  ASSUME NEW pc \in AllPcs, NEW k \in Keys, NEW n \in Nat
  PROVE  /\ Begun([Idle EXCEPT !.pc = pc, !.key = k, !.n = n], pc, k)
         /\ Begun([Idle EXCEPT !.pc = pc, !.key = k], pc, k)
<1>1. k \in 0..MaxKey
  BY Names DEF Keys
<1> QED BY <1>1, IdleFits DEF Begun, ThreadType

LEMMA BegunLets ==
  ASSUME ThreadInv, NEW t \in Threads, NEW pc, NEW k \in Keys, Begun(thread'[t], pc, k), ~ boot,
         (t \in {"flow", "timer"} /\ pc = "known") \/ (t = "halt" /\ pc = "act")
  PROVE  Lets(t)
BY Names DEF Begun, Lets, Fits, Places, LocksAt, Workers, MovePcs, AtWork, Bystanders

LEMMA IdleLets ==
  ASSUME NEW t \in Threads, thread'[t] = Idle, t \in OutsideDaemon \/ ~ boot
  PROVE  Lets(t)
BY IdleFits DEF Lets

LEMMA DropLets ==
  ASSUME ThreadInv, ~ boot, thread["warn"].pc \in {"in", "act"},
         thread'["warn"] = [thread["warn"] EXCEPT !.pc = "publish", !.has = {}]
  PROVE  Lets("warn") /\ thread'["warn"] \in ThreadType /\ thread'["warn"].pc = "publish"
         /\ thread'["warn"].key = thread["warn"].key /\ thread'["warn"].has = {}
<1>1. thread["warn"] \in ThreadType /\ Fits("warn", thread["warn"]) /\ "publish" \in AllPcs
  BY Names DEF ThreadInv, AllPcs
<1> DEFINE m == [thread["warn"] EXCEPT !.pc = "publish", !.has = {}]
<1>2. m \in ThreadType /\ m.pc = "publish" /\ m.key = thread["warn"].key /\ m.has = {}
  BY <1>1 DEF ThreadType
<1> HIDE DEF m
<1>3. thread'["warn"] = m
  BY DEF m
<1>4. Fits("warn", m)
  BY <1>1, <1>2, Names DEF Fits, Places, LocksAt, Workers, MovePcs, AtWork, Bystanders
<1> QED BY <1>2, <1>3, <1>4 DEF Lets

(* The key that is moved is fenced from it.                                 *)
LEMMA FencedKey ==
  ASSUME ThreadInv, life.pc \in Undone, NEW k, ~ Fenced(k)
  PROVE  k # life.key
<1>1. life.has = {"creation", "topic"}
  BY Names DEF ThreadInv, Fits, LocksAt, life, Undone, MovePcs
<1> QED BY <1>1 DEF Fenced, Holds, life

LEMMA WorkStep ==
  ASSUME IInv, ThreadInv', life' = life, Quiet, setup' \in [Bounds -> Nat],
         \A t \in Threads : thread'[t] = thread[t] \/ (t \notin Operators /\ Knows(t)'), WorkInv'
  PROVE  IInv'
<1>1. \A o \in Operators : thread'[o] = thread[o]
  BY Names
<1> QED BY <1>1, QuietStep DEF IInv

LEMMA WorkerLooksStep ==
  ASSUME IInv, NEW t \in Threads, WorkerLooks(t)
  PROVE  IInv'
<1> DEFINE k == thread[t].key
<1>1. /\ t \in {"timer", "warn", "flow"} /\ thread[t].pc = "in" /\ Up(t)
      /\ UNCHANGED <<setup, reg, dir, req, grp, made, boot, fired, accepted, calls, fires, harm>>
  BY DEF WorkerLooks, At, history
<1>2. t \in Threads \ {"life"} /\ t \notin Operators /\ t \notin OutsideDaemon /\ ~ boot /\ k \in Keys
      /\ thread[t].has = {"topic"}
  BY <1>1, Names DEF Workers, OutsideDaemon, Up, IInv, ThreadInv, Fits, LocksAt, Bystanders
<1>3. Registered(k) /\ k <= made
  BY <1>1, <1>2, Names DEF IInv, KnownInv, Knows, Resolved
<1>4. setup' \in [Bounds -> Nat] /\ Quiet
  BY <1>1 DEF IInv, HistoryInv, Quiet
<1>5. CASE Moved(k)
  <2>1. /\ UNCHANGED rec /\ busy' \subseteq busy
        /\ thread' = [thread EXCEPT ![t] = IF t = "warn" THEN [@ EXCEPT !.pc = "publish", !.has = {}] ELSE Idle]
    BY <1>5 DEF WorkerLooks
  <2>2. \A u \in Threads \ {t} : thread'[u] = thread[u]
    BY <2>1 DEF IInv, ThreadInv
  <2>3. thread'[t] \in ThreadType /\ Lets(t) /\ Knows(t)' /\ (t = "warn" => thread'[t].pc = "publish")
    <3>1. CASE t = "warn"
      <4>1. thread'["warn"] = [thread["warn"] EXCEPT !.pc = "publish", !.has = {}]
        BY <2>1, <3>1, Names DEF IInv, ThreadInv
      <4>2. Lets("warn") /\ thread'["warn"] \in ThreadType /\ thread'["warn"].pc = "publish"
            /\ thread'["warn"].key = k /\ thread'["warn"].has = {}
        BY <1>1, <1>2, <3>1, <4>1, DropLets DEF IInv
      <4> QED BY <1>1, <1>3, <3>1, <4>2, Names DEF Knows, Resolved, AtWork, Workers
    <3>2. CASE t # "warn"
      <4>1. thread'[t] = Idle
        BY <2>1, <3>2 DEF IInv, ThreadInv
      <4>2. made' \in Keys
        BY <1>1 DEF IInv, RegInv
      <4> QED BY <1>2, <3>2, <4>1, <4>2, IdleFits, IdleKnows, IdleLets
    <3> QED BY <3>1, <3>2
  <2>4. thread' \in [Threads -> ThreadType]
    <3> DEFINE m == IF t = "warn" THEN [thread[t] EXCEPT !.pc = "publish", !.has = {}] ELSE Idle
    <3>1. thread' = [thread EXCEPT ![t] = m]
      BY <2>1 DEF IInv, ThreadInv
    <3> HIDE DEF m
    <3>2. m = thread'[t]
      BY <3>1 DEF IInv, ThreadInv
    <3> QED BY <2>3, <3>1, <3>2 DEF IInv, ThreadInv
  <2>5. ThreadInv'
    BY <1>1, <2>2, <2>3, <2>4, SomeKeep DEF IInv
  <2>6. life' = life
    BY <1>2, <2>2, Names DEF life
  <2>7. WorkInv'
    <3>1. thread'["warn"] = thread["warn"] \/ thread'["warn"].pc = "publish"
      BY <2>2, <2>3, Names
    <3> QED BY <1>1, <2>1, <2>6, <3>1 DEF IInv, WorkInv, Registered, Session
  <2> QED BY <1>2, <1>4, <2>2, <2>3, <2>5, <2>6, <2>7, WorkStep
<1>6. CASE ~ Moved(k)
  <2>1. /\ Goes(t, "act") /\ UNCHANGED busy
        /\ rec' = IF t = "flow" /\ thread[t].n = 1 THEN rec \cup {k} ELSE rec
    BY <1>6 DEF WorkerLooks
  <2>2. Session(k)
    BY <1>2, <1>3, <1>6, Kinds DEF IInv
  <2>3. "act" \in AllPcs /\ Places(t, "act") /\ LocksAt(t, "act", thread[t].has)
    BY <1>1, <1>2, Names DEF AllPcs, AtWork, MovePcs, Places, LocksAt, Bystanders, Workers
  <2>4. ThreadInv' /\ Only(t) /\ thread'[t].pc = "act" /\ thread'[t].key = k
    BY <1>1, <1>2, <2>1, <2>3, GoesKeeps DEF IInv
  <2>5. Knows(t)'
    BY <1>1, <1>3, <2>2, <2>4 DEF Knows, Registered, Session
  <2>6. life' = life
    BY <1>2, <2>4, OnlyOther
  <2>7. WorkInv'
    <3>1. \/ thread'["warn"] = thread["warn"]
          \/ thread'["warn"].key = thread["warn"].key /\ thread["warn"].pc \in {"known", "in", "act"}
      BY <1>1, <2>4, Names DEF Only
    <3> QED BY <1>1, <1>2, <2>1, <2>2, <2>6, <3>1 DEF IInv, WorkInv, Registered, Session
  <2> QED BY <1>2, <1>4, <2>4, <2>5, <2>6, <2>7, WorkStep DEF Only
<1> QED BY <1>5, <1>6

LEMMA StartWorkStep ==
  ASSUME IInv, NEW kind \in BusyKinds, NEW k \in Keys, StartWork(kind, k)
  PROVE  IInv'
<1>1. /\ ~ boot /\ Session(k) /\ ~ Fenced(k) /\ Spend("works") /\ thread["flow"] = Idle
      /\ busy' = {Busy(kind, k)}
      /\ UNCHANGED <<reg, dir, req, rec, grp, made, boot, fired, accepted, calls, fires, harm>>
  BY DEF StartWork, Launch, files, history
<1>2. setup' \in [Bounds -> Nat] /\ Quiet
  BY <1>1, Spends DEF IInv, HistoryInv, Bounds, Quiet
<1>3. k <= made /\ Registered(k)
  BY <1>1 DEF IInv, RegInv, Registered, Session
<1>4. ThreadInv' /\ life' = life /\ thread'["warn"] = thread["warn"]
      /\ \A t \in Threads : thread'[t] = thread[t] \/ (t \notin Operators /\ Knows(t)')
  <2>1. CASE kind = "question"
    BY <1>1, <2>1 DEF StartWork, IInv, ThreadInv, Fits, Apart, Holds, life
  <2>2. CASE kind # "question"
    <3>1. PICK n \in Nat : n = IF kind = "reviving" THEN 0 ELSE 1
      OBVIOUS
    <3> DEFINE m == [Idle EXCEPT !.pc = "known", !.key = k, !.n = n]
    <3>2. thread' = [thread EXCEPT !["flow"] = m]
      BY <2>2, <3>1 DEF StartWork
    <3>3. Begun(m, "known", k)
      <4>1. "known" \in AllPcs
        BY DEF AllPcs
      <4> QED BY <4>1, Begins
    <3> HIDE DEF m
    <3>4. "flow" \in Threads \ {"life", "warn"} /\ "flow" \notin Operators /\ "flow" \notin Groups
      BY Names DEF Workers
    <3>5. Only("flow") /\ thread'["flow"] = m
      BY <3>2, <3>3, <3>4, Taken DEF IInv, Begun
    <3>6. Lets("flow")
      BY <1>1, <3>3, <3>4, <3>5, BegunLets DEF IInv
    <3>7. ThreadInv'
      BY <1>1, <3>5, <3>6, SomeKeep DEF IInv, Only
    <3>8. Knows("flow")'
      BY <1>1, <1>3, <3>3, <3>5 DEF Knows, Begun, Registered, AtWork
    <3> QED BY <3>4, <3>5, <3>7, <3>8, OnlyOther, Names DEF Only
  <2> QED BY <2>1, <2>2
<1>5. WorkInv'
  <2>1. life.pc \in Undone => k # life.key
    BY <1>1, FencedKey DEF IInv
  <2>2. Busy(kind, k) \in [kind : BusyKinds, key : Keys] /\ Busy(kind, k).key = k
    BY DEF Busy
  <2> QED BY <1>1, <1>4, <2>1, <2>2 DEF IInv, WorkInv, Registered, Session
<1> QED BY <1>2, <1>4, <1>5, WorkStep

LEMMA WorkEndsStep ==
  ASSUME IInv, WorkEnds
  PROVE  IInv'
<1>1. /\ Leaves("flow") /\ busy' \subseteq busy /\ rec' \subseteq rec
      /\ UNCHANGED <<setup, reg, dir, req, grp, made, boot, fired, accepted, calls, fires, harm>>
  BY DEF WorkEnds, history
<1>2. "flow" \in Threads \ {"life", "warn"} /\ "flow" \notin Operators
  BY Names DEF Workers
<1>3. ThreadInv' /\ Only("flow") /\ thread'["flow"] = Idle
  BY <1>1, <1>2, LeavesKeeps DEF IInv
<1>4. life' = life /\ thread'["warn"] = thread["warn"] /\ Knows("flow")'
  <2>1. made' \in Keys
    BY <1>1 DEF IInv, RegInv
  <2> QED BY <1>2, <1>3, <2>1, IdleKnows, OnlyOther, Names DEF Only
<1>5. WorkInv'
  BY <1>1, <1>4 DEF IInv, WorkInv, Registered, Session
<1> QED BY <1>1, <1>2, <1>3, <1>4, <1>5, WorkStep DEF Only, Quiet, IInv, HistoryInv

LEMMA TapActsStep ==
  ASSUME IInv, TapActs
  PROVE  IInv'
<1> DEFINE k == thread["tap"].key
<1>1. /\ thread["tap"].pc = "in" /\ Up("tap")
      /\ UNCHANGED <<setup, reg, dir, req, rec, grp, made, boot, fired, accepted, calls, fires, harm>>
  BY DEF TapActs, At, files, history
<1>2. "tap" \in Threads \ {"life", "warn"} /\ "tap" \notin Operators /\ ~ boot
  BY <1>1, Names DEF Workers, Up, OutsideDaemon
<1>3. setup' \in [Bounds -> Nat] /\ Quiet
  BY <1>1 DEF IInv, HistoryInv, Quiet
<1>4. CASE Leaves("tap") /\ UNCHANGED busy
  BY <1>1, <1>2, <1>3, <1>4, LeavesStep
<1>5. ASSUME Busy("question", k) \in busy, thread["flow"] = Idle, busy' = {Busy("reviving", k)},
             thread' = [thread EXCEPT !["tap"] = Idle, !["flow"] = [Idle EXCEPT !.pc = "known", !.key = k]]
      PROVE IInv'
  <2>1. k \in Keys /\ Session(k) /\ (life.pc \in Undone => k # life.key)
    BY <1>5 DEF IInv, WorkInv, Busy
  <2>2. k <= made /\ Registered(k)
    BY <2>1 DEF IInv, RegInv, Registered, Session
  <2> DEFINE m == [Idle EXCEPT !.pc = "known", !.key = k]
  <2>3. Begun(m, "known", k)
    <3>1. "known" \in AllPcs
      BY DEF AllPcs
    <3> QED BY <2>1, <3>1, Begins
  <2>4. thread' = [thread EXCEPT !["tap"] = Idle, !["flow"] = m]
    BY <1>5
  <2> HIDE DEF m
  <2>5. thread'["tap"] = Idle /\ thread'["flow"] = m /\ thread' \in [Threads -> ThreadType]
        /\ \A u \in Threads \ {"tap", "flow"} : thread'[u] = thread[u]
    BY <2>3, <2>4, Names, IdleFits DEF IInv, ThreadInv, Begun
  <2>6. Lets("tap") /\ Lets("flow")
    <3>1. Lets("flow")
      BY <1>2, <2>1, <2>3, <2>5, Names, BegunLets DEF IInv
    <3> QED BY <1>2, <2>5, <3>1, IdleLets
  <2>7. ThreadInv'
    BY <1>1, <2>5, <2>6, SomeKeep DEF IInv
  <2>8. life' = life /\ thread'["warn"] = thread["warn"]
    BY <2>5, Names DEF life
  <2>9. Knows("tap")' /\ Knows("flow")'
    <3>1. made' \in Keys
      BY <1>1 DEF IInv, RegInv
    <3>2. Knows("flow")'
      BY <1>1, <2>2, <2>3, <2>5 DEF Knows, Begun, Registered, AtWork
    <3> QED BY <1>2, <2>5, <3>1, <3>2, IdleKnows
  <2>10. WorkInv'
    <3>1. Busy("reviving", k) \in [kind : BusyKinds, key : Keys] /\ Busy("reviving", k).key = k
      BY <2>1 DEF Busy, BusyKinds
    <3> QED BY <1>1, <1>5, <2>1, <2>8, <3>1 DEF IInv, WorkInv, Registered, Session
  <2>11. "flow" \notin Operators
    BY Names DEF Workers
  <2> QED BY <1>2, <1>3, <2>5, <2>7, <2>8, <2>9, <2>10, <2>11, WorkStep
<1> QED BY <1>4, <1>5 DEF TapActs

LEMMA WarnActsStep ==
  ASSUME IInv, WarnActs
  PROVE  IInv'
<1> DEFINE k == thread["warn"].key
<1>1. /\ thread["warn"].pc = "act" /\ Up("warn")
      /\ UNCHANGED <<setup, reg, dir, req, grp, made, boot, accepted, calls, harm>>
  BY DEF WarnActs, At
<1>2. "warn" \in Threads \ {"life", "flow"} /\ "warn" \notin Operators /\ "flow" \notin Operators /\ ~ boot
  BY <1>1, Names DEF Workers, Up, OutsideDaemon
<1>3. k \in Keys /\ Session(k) /\ Registered(k) /\ k <= made /\ thread["warn"].has = {"topic"}
  BY <1>1, <1>2, Names DEF IInv, ThreadInv, KnownInv, Knows, AtWork, Fits, LocksAt, Bystanders, Registered, Session
<1>4. setup' \in [Bounds -> Nat] /\ Quiet
  BY <1>1 DEF IInv, HistoryInv, Quiet
<1>5. life.pc \in Undone => k # life.key
  <2>1. Apart("life", "warn")
    BY <1>2, Names DEF IInv, ThreadInv
  <2>2. life.pc \in Undone => Holds("life", "topic")
    BY Names DEF IInv, ThreadInv, Fits, LocksAt, life, Undone, MovePcs, Holds
  <2>3. Holds("warn", "topic")
    BY <1>3 DEF Holds
  <2> QED BY <2>1, <2>2, <2>3 DEF Apart, life
<1>6. ASSUME thread' = [thread EXCEPT !["warn"].pc = "publish", !["warn"].has = {}],
             fired' \in {fired, fired \cup {k}}, UNCHANGED <<rec, busy, fires>>
      PROVE IInv'
  <2>1. "publish" \in AllPcs /\ Places("warn", "publish") /\ LocksAt("warn", "publish", {})
    BY <1>2, Names DEF AllPcs, Places, LocksAt, Workers, MovePcs, AtWork, Bystanders
  <2>2. ThreadInv' /\ Only("warn") /\ thread'["warn"].pc = "publish" /\ thread'["warn"].key = k
    BY <1>1, <1>2, <1>3, <1>6, <2>1, DropsKeeps DEF IInv
  <2>3. Knows("warn")'
    BY <1>1, <1>2, <1>3, <2>2 DEF Knows, Resolved, AtWork
  <2>4. life' = life
    BY <1>2, <2>2, OnlyOther
  <2>5. WorkInv'
    BY <1>1, <1>3, <1>6, <2>2, <2>4 DEF IInv, WorkInv, Registered, Session
  <2> QED BY <1>2, <1>4, <2>2, <2>3, <2>4, <2>5, WorkStep DEF Only
<1>7. ASSUME NEW retry \in BOOLEAN, ~ retry => k \notin fired, thread["flow"] = Idle,
             busy' = {Busy("carryforward", k)}, rec' = rec \ {k}, fired' = fired \cup {k},
             fires' = IF retry THEN fires ELSE fires + 1,
             thread' = [thread EXCEPT !["warn"].pc = "publish", !["warn"].has = {},
                          !["flow"] = [Idle EXCEPT !.pc = "known", !.key = k, !.n = 1]]
      PROVE IInv'
  <2> DEFINE m == [Idle EXCEPT !.pc = "known", !.key = k, !.n = 1]
             w == [thread["warn"] EXCEPT !.pc = "publish", !.has = {}]
  <2>1. Begun(m, "known", k)
    <3>1. "known" \in AllPcs
      BY DEF AllPcs
    <3> QED BY <1>3, <3>1, Begins
  <2>2. thread' = [thread EXCEPT !["warn"] = w, !["flow"] = m]
    BY <1>2, <1>7, Names DEF IInv, ThreadInv, ThreadType
  <2>3. thread'["warn"] = w /\ thread'["flow"] = m /\ \A u \in Threads \ {"warn", "flow"} : thread'[u] = thread[u]
    <3> HIDE DEF m, w
    <3> QED BY <1>2, <2>2, Names DEF IInv, ThreadInv
  <2>4. Lets("warn") /\ w \in ThreadType /\ w.pc = "publish" /\ w.key = k /\ w.has = {}
    BY <1>1, <1>2, <2>3, DropLets DEF IInv
  <2> HIDE DEF m, w
  <2>5. thread' \in [Threads -> ThreadType]
    BY <2>1, <2>2, <2>4 DEF IInv, ThreadInv, Begun
  <2>6. Lets("flow")
    BY <1>2, <1>3, <2>1, <2>3, Names, BegunLets DEF IInv
  <2>7. ThreadInv'
    BY <1>1, <2>3, <2>4, <2>5, <2>6, SomeKeep DEF IInv
  <2>8. life' = life
    BY <2>3, Names DEF life
  <2>9. Knows("warn")' /\ Knows("flow")'
    <3>1. Knows("flow")'
      BY <1>1, <1>3, <2>1, <2>3 DEF Knows, Begun, Registered, AtWork
    <3>2. Knows("warn")'
      BY <1>1, <1>2, <1>3, <2>3, <2>4 DEF Knows, Resolved, AtWork
    <3> QED BY <3>1, <3>2
  <2>10. fires' \in {0, 1} /\ (fires' = 1 => fired' # {})
    BY <1>1, <1>3, <1>7 DEF IInv, WorkInv
  <2>11. WorkInv'
    <3>1. Busy("carryforward", k) \in [kind : BusyKinds, key : Keys] /\ Busy("carryforward", k).key = k
      BY <1>3 DEF Busy, BusyKinds
    <3>2. thread'["warn"].pc = "publish"
      BY <2>3, <2>4
    <3> QED BY <1>1, <1>3, <1>5, <1>7, <2>8, <2>10, <3>1, <3>2 DEF IInv, WorkInv, Registered, Session
  <2> QED BY <1>2, <1>4, <2>3, <2>7, <2>8, <2>9, <2>11, WorkStep
<1> QED BY <1>6, <1>7 DEF WarnActs, Launch

---------------------------------------------------------------------------
(* A topic made by hand, a debt of a halted run, a crash and the restart    *)

LEMMA OwnerCreatesStep ==
  ASSUME IInv, OwnerCreates
  PROVE  IInv'
<1>1. PICK g \in Groups :
       /\ Spend("topics") /\ made < MaxKey /\ made' = made + 1 /\ grp' = [grp EXCEPT ![made + 1] = g]
       /\ UNCHANGED <<reg, dir, req, rec, thread, busy, boot, fired, accepted, calls, fires, harm>>
  BY DEF OwnerCreates, files, history
<1>2. made \in Keys /\ made' \in Keys /\ made \in Nat /\ grp \in [Keys -> Groups \cup {"-"}]
  BY <1>1, Names DEF IInv, RegInv, Keys
<1>3. grp' \in [Keys -> Groups \cup {"-"}] /\ \A k \in Keys : k <= made => k <= made' /\ grp'[k] = grp[k]
  BY <1>1, <1>2 DEF Keys
<1>4. RegInv'
  <2>1. \A k \in Keys : grp'[k] # "-" => k <= made'
    BY <1>1, <1>2, <1>3 DEF IInv, RegInv, Keys
  <2> QED BY <1>1, <1>2, <1>3, <2>1 DEF IInv, RegInv, Registered, Moved, Session
<1>5. KnownInv'
  <2>1. ASSUME NEW t \in Threads PROVE thread[t].key <= made'
    <3>1. thread[t].key \in Nat /\ thread[t].key <= made
      BY Names DEF IInv, KnownInv, Knows, ThreadInv, ThreadType
    <3> QED BY <1>1, <1>2, <3>1
  <2> QED BY <1>1, <2>1 DEF IInv, KnownInv, Knows, Resolved, Registered, Session
<1>6. LifeInv'
  <2>1. life' = life
    BY <1>1 DEF life
  <2>2. life.pc # "idle" => life.key \in Keys
    BY Names DEF IInv, ThreadInv, Fits, life
  <2>3. ASSUME life.pc \in {"record", "notices"} \/ (life.pc = "result" /\ life.n # 0)
        PROVE  Moved(life.key) /\ reg[life.key].to = life.n /\ grp'[life.n] = life.to
    <3>1. Moved(life.key) /\ reg[life.key].to = life.n /\ grp[life.n] = life.to
      BY <2>3 DEF IInv, LifeInv
    <3>2. life.n \in Keys /\ life.n <= made
      BY <2>2, <2>3, <3>1 DEF IInv, RegInv
    <3> QED BY <1>3, <3>1, <3>2
  <2>4. ASSUME life.pc \in Undone \ {"create"}
        PROVE  /\ life.n \in Keys /\ life.n > life.key /\ life.n <= made' /\ ~ Registered(life.n)
               /\ grp'[life.n] = life.to
    BY <1>3, <2>4 DEF IInv, LifeInv
  <2> QED BY <1>1, <2>1, <2>3, <2>4 DEF IInv, LifeInv, Registered, Moved, Session
<1>7. DirInv'
  <2>1. life' = life
    BY <1>1 DEF life
  <2>2. DirType'
    <3>1. \A k \in Keys : dir[k].is # "none" => k <= made'
      BY <1>3 DEF IInv, DirInv, DirType
    <3>2. \A k \in Keys : dir[k].is = "link" => dir[k].to \in Keys /\ dir[k].to <= made'
      BY <1>3 DEF IInv, DirInv, DirType
    <3> QED BY <1>1, <2>1, <3>1, <3>2 DEF IInv, DirInv, DirType
  <2>3. Ranked'
    <3>1. PICK rank \in [Keys -> 0..MaxKey] : Falls(rank)
      BY DEF IInv, DirInv, Ranked
    <3>2. \A j \in Keys : rank[j] \in Nat /\ (rank[j] < made => rank[j] < made') /\ (rank[j] + 1 < made => rank[j] + 1 < made')
      BY <1>1, <1>2, Names
    <3>3. Falls(rank)'
      BY <1>1, <2>1, <3>1, <3>2 DEF Falls, Renaming
    <3> QED BY <3>3 DEF Ranked
  <2>4. "torn" \notin harm' => Whole'
    BY <1>1, <2>1 DEF IInv, DirInv, Whole, Renaming, Moved, Session, DataAt, Named, Real
  <2> QED BY <2>2, <2>3, <2>4 DEF DirInv
<1>8. ReqInv'
  <2>1. life' = life
    BY <1>1 DEF life
  <2>2. \A n \in Keys : Registered(n) => n <= made
    BY DEF IInv, RegInv
  <2>3. FileTrue'
    BY <1>1, <1>3, <2>2 DEF IInv, RegInv, ReqInv, FileTrue, Moved, Registered
  <2>4. \A o \in Operators : ToldTrue(o)'
    BY <1>1, <1>3, <2>2 DEF IInv, ReqInv, ToldTrue, Registered
  <2> QED BY <1>1, <2>1, <2>3, <2>4 DEF IInv, ReqInv
<1>9. WorkInv'
  <2>1. life' = life
    BY <1>1 DEF life
  <2> QED BY <1>1, <2>1, SameWork DEF IInv
<1>10. ThreadInv' /\ HistoryInv'
  <2>1. setup' \in [Bounds -> Nat]
    BY <1>1, Spends DEF IInv, HistoryInv, Bounds
  <2> QED BY <1>1, <2>1 DEF IInv, ThreadInv, Fits, Apart, Holds, HistoryInv
<1> QED BY <1>4, <1>5, <1>6, <1>7, <1>8, <1>9, <1>10 DEF IInv

(* What an entry says of where the session is does not change.              *)
SameIs == /\ reg' \in [Keys -> [is : {"none", "session", "moved"}, to : 0..MaxKey, owed : BOOLEAN]]
          /\ \A k \in Keys : reg'[k].is = reg[k].is /\ reg'[k].to = reg[k].to
          /\ \A k \in Keys : ~ Registered(k) => reg'[k] = reg[k]

LEMMA HaltEndsStep ==
  ASSUME IInv, HaltEnds
  PROVE  IInv'
<1> DEFINE k == thread["halt"].key
<1>1. /\ thread["halt"].pc = "act" /\ Leaves("halt")
      /\ UNCHANGED <<setup, dir, req, rec, grp, made, busy, boot, fired, accepted, calls, fires, harm>>
      /\ UNCHANGED reg \/ reg' = [reg EXCEPT ![k].owed = TRUE]
  BY DEF HaltEnds, At, history
<1>2. "halt" \in Threads \ {"life", "warn"} /\ "halt" \notin Operators
  BY Names DEF Workers
<1>3. k \in Keys /\ Registered(k)
  BY <1>1, <1>2 DEF IInv, ThreadInv, Fits, KnownInv, Knows, Resolved
<1>4. ThreadInv' /\ Only("halt") /\ thread'["halt"] = Idle
  BY <1>1, <1>2, LeavesKeeps DEF IInv
<1>5. SameIs
  <2>1. reg \in [Keys -> [is : {"none", "session", "moved"}, to : 0..MaxKey, owed : BOOLEAN]]
    BY DEF IInv, RegInv
  <2>2. CASE UNCHANGED reg
    BY <2>1, <2>2 DEF SameIs
  <2>3. CASE reg' = [reg EXCEPT ![k].owed = TRUE]
    <3> DEFINE e == [reg[k] EXCEPT !.owed = TRUE]
    <3>1. e \in [is : {"none", "session", "moved"}, to : 0..MaxKey, owed : BOOLEAN] /\ e.is = reg[k].is /\ e.to = reg[k].to
      BY <1>3, <2>1
    <3>2. reg' = [reg EXCEPT ![k] = e]
      BY <1>3, <2>1, <2>3
    <3> HIDE DEF e
    <3> QED BY <1>3, <2>1, <3>1, <3>2 DEF SameIs
  <2> QED BY <1>1, <2>2, <2>3
<1>6. \A j \in Keys : (Session(j)' <=> Session(j)) /\ (Moved(j)' <=> Moved(j)) /\ (Registered(j)' <=> Registered(j))
  BY <1>5 DEF SameIs, Session, Moved, Registered
<1>7. life' = life /\ thread'["warn"] = thread["warn"] /\ \A o \in Operators : thread'[o] = thread[o]
  BY <1>2, <1>4, OnlyOther, Names DEF Only
<1>8. RegInv'
  <2>1. \A j \in Keys : ~ Registered(j) => reg'[j] = NoEntry
    BY <1>5 DEF SameIs, IInv, RegInv
  <2>2. \A j \in Keys : Moved(j) => reg'[j].to \in Keys /\ reg'[j].to > j /\ Registered(reg'[j].to)
    BY <1>5 DEF SameIs, IInv, RegInv
  <2>3. \A j \in Keys : ~ Moved(j) => reg'[j].to = 0
    BY <1>5 DEF SameIs, IInv, RegInv
  <2>4. \E h \in Keys : \A j \in Keys : Session(j)' <=> j = h
    BY <1>6 DEF IInv, RegInv
  <2> QED BY <1>1, <1>5, <1>6, <2>1, <2>2, <2>3, <2>4 DEF IInv, RegInv, SameIs
<1>9. KnownInv'
  <2>1. made' \in Keys
    BY <1>8 DEF RegInv
  <2>2. Knows("halt")'
    BY <1>2, <1>4, <2>1, IdleKnows
  <2>3. ASSUME NEW t \in Threads, t # "halt" PROVE Knows(t)'
    <3>1. Knows(t) /\ thread'[t] = thread[t]
      BY <1>4, <2>3 DEF IInv, KnownInv, Only
    <3>2. Resolved(t)' <=> Resolved(t)
      BY <3>1 DEF Resolved
    <3>3. Resolved(t) \/ thread[t].pc \in AtWork => thread[t].key \in Keys
      <4>1. Fits(t, thread[t]) /\ (t # "halt" => ~ (thread[t].pc = "idle" /\ (Resolved(t) \/ thread[t].pc \in AtWork)))
        BY Names DEF IInv, ThreadInv, Resolved, AtWork
      <4> QED BY <2>3, <4>1 DEF Fits
    <3> QED BY <1>1, <1>6, <3>1, <3>2, <3>3 DEF Knows
  <2> QED BY <2>2, <2>3 DEF KnownInv
<1>10. LifeInv'
  <2>1. life.pc # "idle" => life.key \in Keys
    BY Names DEF IInv, ThreadInv, Fits, life
  <2> QED BY <1>1, <1>5, <1>6, <1>7, <2>1 DEF IInv, LifeInv, SameIs, Undone
<1>11. DirInv'
  <2>1. DirType' /\ Ranked'
    <3>1. DirType'
      BY <1>1, <1>7 DEF IInv, DirInv, DirType
    <3>2. PICK rank \in [Keys -> 0..MaxKey] : Falls(rank)
      BY DEF IInv, DirInv, Ranked
    <3>3. Falls(rank)'
      BY <1>1, <1>7, <3>2 DEF Falls, Renaming
    <3> QED BY <3>1, <3>3 DEF Ranked
  <2>2. "torn" \notin harm' => Whole'
    BY <1>1, <1>5, <1>6, <1>7 DEF IInv, DirInv, Whole, Renaming, DataAt, Named, Real, SameIs
  <2> QED BY <2>1, <2>2 DEF DirInv
<1>12. ReqInv'
  <2>1. \A o \in Operators : ToldTrue(o)'
    <3>1. ASSUME NEW o \in Operators, "pointer" \notin harm, thread[o].pc = "told" PROVE thread[o].key \in Keys
      BY <3>1, Names DEF IInv, ThreadInv, Fits
    <3> QED BY <1>1, <1>5, <1>6, <1>7, <3>1 DEF IInv, ReqInv, ToldTrue, SameIs
  <2>2. FileTrue'
    BY <1>1, <1>5, <1>6 DEF IInv, ReqInv, FileTrue, SameIs
  <2> QED BY <1>1, <1>7, <2>1, <2>2 DEF IInv, ReqInv
<1>13. WorkInv'
  BY <1>1, <1>6, <1>7, Names DEF IInv, WorkInv, ThreadInv, Fits
<1> QED BY <1>1, <1>4, <1>8, <1>9, <1>10, <1>11, <1>12, <1>13 DEF IInv, HistoryInv

LEMMA CrashStep ==
  ASSUME IInv, Crash
  PROVE  IInv'
<1>1. /\ Spend("crashes") /\ boot' = TRUE
      /\ harm' = harm \cup (IF life.pc \in {"alias", "putback"} THEN {"torn"} ELSE {})
                      \cup (IF life.pc = "record" /\ life.key \in rec THEN {"left"} ELSE {})
      /\ thread' = [t \in Threads |-> IF t \in OutsideDaemon THEN thread[t] ELSE Idle]
      /\ busy' \subseteq busy
      /\ UNCHANGED <<reg, dir, req, rec, grp, made, fired, accepted, calls, fires>>
  BY DEF Crash, files
<1>2. \A t \in Threads : thread'[t] = IF t \in OutsideDaemon THEN thread[t] ELSE Idle
  BY <1>1
<1>3. ThreadInv'
  <2>1. thread' \in [Threads -> ThreadType]
    BY <1>1, IdleFits DEF IInv, ThreadInv
  <2>2. \A t \in Threads : Fits(t, thread'[t])
    BY <1>2, IdleFits DEF IInv, ThreadInv
  <2>3. ASSUME NEW u \in Threads, NEW v \in Threads, u # v PROVE Apart(u, v)'
    <3>1. Apart(u, v)
      BY <2>3 DEF IInv, ThreadInv
    <3>2. \A w \in Threads : \A l : l \in thread'[w].has => l \in thread[w].has /\ thread'[w].key = thread[w].key
      BY <1>2, IdleFits
    <3> QED BY <3>1, <3>2 DEF Apart, Holds
  <2>4. \A t \in Threads \ OutsideDaemon : thread'[t].pc = "idle"
    BY <1>2, IdleFits
  <2> QED BY <1>1, <2>1, <2>2, <2>3, <2>4 DEF ThreadInv
<1>4. life' = Idle /\ thread'["warn"] = Idle /\ \A o \in Operators : thread'[o] = thread[o]
  BY <1>2, Names DEF life, OutsideDaemon, Workers
<1>5. RegInv'
  BY <1>1, SameReg DEF IInv
<1>6. KnownInv'
  <2>1. made' \in Keys
    BY <1>5 DEF RegInv
  <2>2. \A t \in Threads : thread'[t] = thread[t] \/ Knows(t)'
    BY <1>2, <2>1, IdleKnows
  <2> QED BY <1>1, <2>2, SameKnown DEF IInv
<1>7. LifeInv'
  BY <1>4, IdleFits DEF LifeInv, Undone
<1>8. DirInv'
  <2>1. life'.pc \notin Settled0
    BY <1>4, IdleFits DEF Settled0
  <2>2. DirType'
    BY <1>1, <2>1 DEF IInv, DirInv, DirType, Settled0, Undone
  <2>3. Ranked'
    <3>1. PICK rank \in [Keys -> 0..MaxKey] : Falls(rank)
      BY DEF IInv, DirInv, Ranked
    <3>2. Falls(rank)'
      BY <1>1, <2>1, <3>1 DEF Falls, Renaming, Settled0
    <3> QED BY <3>2 DEF Ranked
  <2>4. CASE life.pc \in {"alias", "putback"}
    BY <1>1, <2>2, <2>3, <2>4 DEF DirInv
  <2>5. CASE life.pc \notin {"alias", "putback"}
    BY <1>1, <2>1, <2>5, DirPlain DEF IInv
  <2> QED BY <2>4, <2>5
<1>9. ReqInv'
  <2>1. \A o \in Operators : ToldTrue(o)'
    BY SMTT(30), <1>1, <1>4 DEF IInv, ReqInv, ToldTrue, Registered
  <2>2. FileTrue'
    BY <1>1 DEF IInv, ReqInv, FileTrue, Moved
  <2> QED BY <1>1, <1>4, <2>1, <2>2, IdleFits DEF IInv, ReqInv, Executing, MovePcs
<1>10. WorkInv'
  BY <1>1, <1>4, IdleFits DEF IInv, WorkInv, Registered, Session, Undone
<1>11. HistoryInv'
  <2>1. setup' \in [Bounds -> Nat]
    BY <1>1, Spends DEF IInv, HistoryInv, Bounds
  <2> QED BY <1>1, <2>1 DEF IInv, HistoryInv
<1> QED BY <1>3, <1>5, <1>6, <1>7, <1>8, <1>9, <1>10, <1>11 DEF IInv

LEMMA RestartStep ==
  ASSUME IInv, Restart
  PROVE  IInv'
<1> DEFINE running == {k \in Keys : req[k].state = "running"}
<1>1. /\ boot /\ boot' = FALSE /\ harm \ {"stuck"} \subseteq harm' /\ harm' \subseteq harm \cup {"stuck"}
      /\ UNCHANGED <<reg, dir, rec, grp, made, thread, busy, fired, accepted, calls, fires>>
      /\ UNCHANGED setup \/ Spend("faults")
      /\ UNCHANGED req \/ req' = [k \in Keys |-> IF k \in running THEN Reported(k) ELSE req[k]]
  BY DEF Restart, Fault
<1>2. life' = life /\ life.pc = "idle"
  BY <1>1, Names DEF IInv, ThreadInv, life, OutsideDaemon, Workers
<1>3. ThreadInv' /\ RegInv' /\ KnownInv'
  BY <1>1, SameReg, SameKnown DEF IInv, ThreadInv, Fits, Apart, Holds
<1>4. LifeInv' /\ DirInv' /\ WorkInv'
  BY <1>1, <1>2, SameLife, SameDir, SameWork DEF IInv
<1>5. ReqInv'
  <2>1. CASE UNCHANGED req
    BY <1>1, <1>2, <2>1, SameReq DEF IInv
  <2>2. CASE req' = [k \in Keys |-> IF k \in running THEN Reported(k) ELSE req[k]]
    <3> DEFINE R == [state : {"none", "pending", "running", "done"}, to : Groups, res : 0..MaxKey]
    <3>1. req \in [Keys -> R]
      BY DEF IInv, ReqInv
    <3>2. ASSUME NEW k \in Keys
          PROVE  Reported(k) \in R /\ Reported(k).state = "done" /\ Reported(k).to = req[k].to /\ Reported(k).res = reg[k].to
      <4>1. reg[k].to \in 0..MaxKey /\ req[k] \in R
        BY <3>1 DEF IInv, RegInv
      <4> QED BY <4>1 DEF Reported
    <3>3. ASSUME NEW k \in Keys
          PROVE  /\ req'[k] \in R /\ req'[k].to = req[k].to
                 /\ req'[k] = req[k] \/ (req'[k].state = "done" /\ req'[k].res = reg[k].to /\ req[k].state = "running")
      BY <2>2, <3>1, <3>2
    <3>4. req' \in [Keys -> R]
      BY <2>2, <3>3
    <3> HIDE DEF R
    <3>5. FileTrue'
      BY <1>1, <3>3 DEF IInv, ReqInv, FileTrue, Moved
    <3>6. \A o \in Operators : ToldTrue(o)'
      BY <1>1 DEF IInv, ReqInv, ToldTrue, Registered
    <3>7. \A k \in Keys : req'[k].state = "pending" => calls[k] = 0
      BY <3>3 DEF IInv, ReqInv
    <3> QED BY <1>1, <1>2, <3>4, <3>5, <3>6, <3>7 DEF IInv, ReqInv, R, Executing, MovePcs
  <2> QED BY <1>1, <2>1, <2>2
<1>6. HistoryInv'
  <2>1. setup' \in [Bounds -> Nat]
    BY <1>1, Spends DEF IInv, HistoryInv, Bounds
  <2> QED BY <1>1, <2>1 DEF IInv, HistoryInv
<1> QED BY <1>3, <1>4, <1>5, <1>6 DEF IInv

---------------------------------------------------------------------------
(* Messages and folders                                                     *)

LEMMA RealEnds ==
  ASSUME DirType, Ranked, made \in Keys, NEW k \in Keys
  PROVE  /\ Real(k) \in Keys /\ dir[Real(k)].to = 0
         /\ dir[k].to = 0 => Real(k) = k
         /\ dir[k].to # 0 => dir[k].to \in Keys /\ Real(k) = Real(dir[k].to)
         /\ k <= made => Real(k) <= made
<1> DEFINE next == [j \in Keys |-> dir[j].to]
<1>1. MaxKey \in Nat \ {0} /\ next \in [Keys -> 0..MaxKey]
  BY MoveAssumption DEF DirType
<1>2. PICK rank \in [Keys -> 0..MaxKey] : Falls(rank)
  BY DEF Ranked
<1>3. Points(next, rank)
  <2>1. \A j \in Keys : rank[j] < MaxKey
    BY <1>1, <1>2 DEF Falls, Keys
  <2> QED BY <1>1, <1>2, <2>1 DEF Falls, Points
<1>4. \A j : Real(j) = Follow(next, j)
  BY DEF Real
<1>5. \A j \in Keys : next[j] = dir[j].to
  OBVIOUS
<1>6. \A j \in Keys : j <= made /\ next[j] # 0 => next[j] \in Keys /\ next[j] <= made
  BY DEF DirType
<1> HIDE DEF next
<1>7. Real(k) \in Keys /\ dir[Real(k)].to = 0
  BY <1>3, <1>4, <1>5, FollowEnds
<1>8. dir[k].to = 0 => Real(k) = k
  BY <1>1, <1>4, <1>5, FollowHome
<1>9. dir[k].to # 0 => dir[k].to \in Keys /\ Real(k) = Real(dir[k].to)
  BY <1>3, <1>4, <1>5, FollowLink
<1>10. ASSUME k <= made PROVE Real(k) <= made
  <2> DEFINE S == {j \in Keys : j <= made}
  <2>1. S \in SUBSET Keys /\ k \in S /\ \A j \in S : next[j] # 0 => next[j] \in S
    BY <1>6, <1>10
  <2> HIDE DEF S
  <2>2. Follow(next, k) \in S
    BY <1>1, <2>1, FollowStays
  <2> QED BY <1>4, <2>2 DEF S
<1> QED BY <1>7, <1>8, <1>9, <1>10

(* Something is written into a folder, or the folder is made.               *)
LEMMA Writes ==
  ASSUME DirInv, made \in Keys, NEW r \in Keys, r <= made, dir[r].to = 0,
         NEW b \in SUBSET Nat, dir[r].box \subseteq b, dir' = [dir EXCEPT ![r] = Folder(b)],
         life' = life, UNCHANGED <<reg, made, harm>>,
         \A j \in Keys : Moved(j) => reg[j].to # 0,
         life.pc \in {"save", "unalias"} => life.n # 0,
         life.pc = "transfer" => r # life.n,
         Renaming => r # life.key \/ b = {},
         \/ accepted' = accepted
         \/ \A h \in Keys : Session(h) => r = Real(Named(h)) /\ accepted' \subseteq accepted \cup b
  PROVE  DirInv'
<1>1. /\ dir \in [Keys -> [is : {"none", "real", "link"}, to : 0..MaxKey, box : SUBSET Nat]]
      /\ Folder(b) \in [is : {"none", "real", "link"}, to : 0..MaxKey, box : SUBSET Nat]
      /\ Folder(b).is = "real" /\ Folder(b).to = 0 /\ Folder(b).box = b
  BY Names DEF DirInv, DirType, Folder
<1>2. dir' \in [Keys -> [is : {"none", "real", "link"}, to : 0..MaxKey, box : SUBSET Nat]]
  BY <1>1
<1>3. dir'[r] = Folder(b) /\ \A j \in Keys : j # r => dir'[j] = dir[j]
  BY <1>1
<1>4. \A j \in Keys : dir'[j].to = dir[j].to
  BY <1>1, <1>3
<1>5. DirType'
  <2>1. ASSUME life.pc \in {"save", "unalias"} PROVE dir'[life.key] = Link(life.n)
    <3>1. dir[life.key] = Link(life.n) /\ Link(life.n).to = life.n /\ life.n # 0
      BY <2>1 DEF DirInv, DirType, Link
    <3> QED BY <1>1, <3>1
  <2>2. life.pc = "transfer" => dir'[life.n].is = "none" /\ dir'[life.key].to # life.n
    BY <1>1 DEF DirInv, DirType
  <2>3. life.pc \in Undone \ {"create", "delete"} => \A k \in Keys \ {life.key} : dir'[k].to # life.n
    BY <1>4 DEF DirInv, DirType
  <2> QED BY <1>1, <1>2, <1>3, <1>4, <2>1, <2>2, <2>3 DEF DirInv, DirType
<1>6. Ranked'
  <2>1. PICK rank \in [Keys -> 0..MaxKey] : Falls(rank)
    BY DEF DirInv, Ranked
  <2>2. Falls(rank)'
    BY <1>4, <2>1 DEF Falls, Renaming
  <2> QED BY <2>2 DEF Ranked
<1>7. ASSUME NEW j PROVE Real(j)' = Real(j)
  <2>1. [i \in Keys |-> dir'[i].to] = [i \in Keys |-> dir[i].to]
    BY <1>4
  <2> QED BY <2>1 DEF Real
<1>8. ASSUME "torn" \notin harm PROVE Whole'
  <2>1. Whole
    BY <1>8 DEF DirInv
  <2>2. \A j \in Keys : Moved(j) => dir'[j] = Link(reg[j].to)
    <3>1. ASSUME NEW j \in Keys, Moved(j) PROVE dir[j].to # 0
      <4>1. dir[j] = Link(reg[j].to) /\ reg[j].to # 0
        BY <2>1, <3>1 DEF Whole
      <4> QED BY <4>1 DEF Link
    <3> QED BY <1>3, <2>1, <3>1 DEF Whole
  <2>3. \A j \in Keys : dir'[j].is = "link" => dir'[dir'[j].to].is # "none" \/ (Renaming /\ dir'[j].to = life.key)
    BY <1>1, <1>3, <1>4, <1>5, <2>1 DEF Whole, DirType
  <2>5. Renaming => dir'[life.key] \in {NoDir, Folder({})}
    <3>1. CASE r = life.key
      BY <1>3, <3>1
    <3>2. CASE r # life.key
      <4>1. dir'[life.key] = dir[life.key]
        BY <3>2
      <4> QED BY <2>1, <4>1 DEF Whole
    <3> QED BY <3>1, <3>2
  <2>6. ASSUME NEW h \in Keys, Session(h) PROVE DataAt(h)'
    <3>1. DataAt(h) /\ Named(h)' = Named(h)
      BY <2>1, <2>6 DEF Whole, Named, Renaming
    <3>2. PICK g : g = Named(h)
      OBVIOUS
    <3>3. dir[g].is # "none" /\ accepted \subseteq dir[Real(g)].box
      BY <3>1, <3>2 DEF DataAt
    <3>4. dir'[g].is # "none"
      <4>1. dir'[g] = dir[g] \/ (g = r /\ dir'[g] = Folder(b))
        BY <1>3
      <4> QED BY <1>1, <3>3, <4>1
    <3>5. dir[Real(g)].box \subseteq dir'[Real(g)].box
      <4>1. dir'[Real(g)] = dir[Real(g)] \/ (Real(g) = r /\ dir'[Real(g)] = Folder(b))
        BY <1>3
      <4> QED BY <1>1, <4>1
    <3>6. accepted' \subseteq dir'[Real(g)].box
      <4>1. CASE accepted' = accepted
        BY <3>3, <3>5, <4>1
      <4>2. CASE r = Real(Named(h)) /\ accepted' \subseteq accepted \cup b
        <5>1. dir'[Real(g)].box = b
          BY <1>1, <1>3, <3>2, <4>2
        <5> QED BY <3>2, <3>3, <3>5, <4>2, <5>1
      <4> QED BY <2>6, <4>1, <4>2
    <3> QED BY <1>7, <3>1, <3>2, <3>4, <3>6 DEF DataAt
  <2>7. \A j \in Keys : (Moved(j)' <=> Moved(j)) /\ (Session(j)' <=> Session(j))
    BY DEF Moved, Session
  <2>8. Renaming' <=> Renaming
    BY DEF Renaming
  <2> QED BY <2>2, <2>3, <2>5, <2>6, <2>7, <2>8 DEF Whole
<1> QED BY <1>5, <1>6, <1>8 DEF DirInv

(* Nobody who writes for a topic under its lock meets its move.             *)
LEMMA WritersAlone ==
  ASSUME IInv, NEW t \in Threads \ {"life"}, Holds(t, "topic"), thread[t].key \in Keys, Session(thread[t].key)
  PROVE  life.pc \notin Undone
<1> SUFFICES ASSUME life.pc \in Undone PROVE FALSE
  OBVIOUS
<1>1. life.key \in Keys /\ Holds("life", "topic")
  BY Names DEF IInv, ThreadInv, Fits, LocksAt, life, Undone, MovePcs, Holds
<1>2. Session(life.key)
  BY DEF IInv, LifeInv
<1>3. life.key = thread[t].key
  BY <1>1, <1>2, OneSession DEF IInv
<1> QED BY <1>1, <1>3, Names DEF IInv, ThreadInv, Apart, life

LEMMA EnqueueKeeps ==
  ASSUME IInv, NEW t \in Threads \ {"life"}, Holds(t, "topic"), thread[t].key \in Keys, Session(thread[t].key),
         NEW m \in Nat, Enqueue(thread[t].key, m), life' = life, UNCHANGED <<reg, made, harm>>
  PROVE  DirInv' /\ accepted' \subseteq Nat
<1> DEFINE k == thread[t].key
<1>1. life.pc \notin Undone
  BY WritersAlone
<1>2. made \in Keys /\ k <= made /\ DirType /\ Ranked
  BY DEF IInv, RegInv, DirInv, Registered, Session
<1>3. PICK r \in Keys : r = Real(k) /\ r <= made /\ dir[r].to = 0
  BY <1>2, RealEnds
<1>4. PICK b \in SUBSET Nat : b = dir[r].box \cup {m}
  BY <1>2 DEF DirType
<1>5. dir' = [dir EXCEPT ![r] = Folder(b)] /\ accepted' = accepted \cup {m}
  BY <1>2, <1>3, <1>4 DEF Enqueue, DirType
<1>6. \A h \in Keys : Session(h) => r = Real(Named(h)) /\ accepted' \subseteq accepted \cup b
  <2>1. ~ Renaming
    BY <1>1 DEF Renaming, Undone
  <2>2. \A h \in Keys : Session(h) => h = k
    BY OneSession DEF IInv
  <2> QED BY <1>3, <1>4, <1>5, <2>1, <2>2 DEF Named
<1>7. \A j \in Keys : Moved(j) => reg[j].to # 0
  BY Names DEF IInv, RegInv
<1>8. DirInv'
  <2>1. life.pc \notin {"save", "unalias"} /\ life.pc # "transfer" /\ ~ Renaming
    BY <1>1 DEF Renaming, Undone
  <2>2. DirInv /\ dir[r].box \subseteq b
    BY <1>4 DEF IInv
  <2> QED BY <1>2, <1>3, <1>5, <1>6, <1>7, <2>1, <2>2, Writes
<1> QED BY <1>5, <1>8 DEF IInv, HistoryInv

LEMMA FolderStep ==
  ASSUME IInv, ThreadInv', life' = life, UNCHANGED <<reg, req, grp, made, calls, harm>>,
         \A t \in Threads : thread'[t] = thread[t] \/ (t \notin Operators /\ Knows(t)'),
         DirInv', WorkInv', HistoryInv'
  PROVE  IInv'
<1>1. \A o \in Operators : thread'[o] = thread[o]
  BY Names
<1> QED BY <1>1, SameReg, SameKnown, SameLife, SameReq DEF IInv

LEMMA SweepCountsStep ==
  ASSUME IInv, NEW k \in Keys, SweepCounts(k)
  PROVE  IInv'
<1>1. /\ Session(k) /\ dir[k] = NoDir /\ dir' = [dir EXCEPT ![k] = Folder({})] /\ Spend("sweeps")
      /\ UNCHANGED <<reg, req, rec, grp, made, thread, busy, boot, fired, accepted, calls, fires, harm>>
  BY DEF SweepCounts, history
<1>2. made \in Keys /\ k <= made /\ dir[k].to = 0 /\ dir[k].box = {}
  BY <1>1 DEF IInv, RegInv, Registered, Session, NoDir
<1>3. life' = life
  BY <1>1 DEF life
<1>4. life.pc = "transfer" => k # life.n
  BY <1>1 DEF IInv, LifeInv, Undone, Registered, Session
<1>5. \A j \in Keys : Moved(j) => reg[j].to # 0
  BY Names DEF IInv, RegInv
<1>6. life.pc \in {"save", "unalias"} => life.n # 0
  BY Names DEF IInv, LifeInv, Undone
<1>7. DirInv'
  <2>1. {} \in SUBSET Nat /\ dir[k].box \subseteq {}
    BY <1>2
  <2> QED BY <1>1, <1>2, <1>3, <1>4, <1>5, <1>6, <2>1, Writes DEF IInv
<1>8. ThreadInv' /\ WorkInv' /\ HistoryInv'
  <2>1. setup' \in [Bounds -> Nat]
    BY <1>1, Spends DEF IInv, HistoryInv, Bounds
  <2> QED BY <1>1, <1>3, <2>1, SameWork DEF IInv, ThreadInv, Fits, Apart, Holds, HistoryInv
<1> QED BY <1>1, <1>3, <1>7, <1>8, FolderStep

LEMMA NotifyActsStep ==
  ASSUME IInv, NotifyActs
  PROVE  IInv'
<1>1. /\ thread["cli"].pc = "act" /\ Leaves("cli") /\ Enqueue(thread["cli"].key, 100 + setup["notifies"])
      /\ UNCHANGED <<setup, reg, req, rec, grp, made, busy, boot, fired, calls, fires, harm>>
  BY DEF NotifyActs, At
<1>2. "cli" \in Threads \ {"life"} /\ "cli" \notin Operators /\ "cli" # "warn"
  BY Names DEF Workers
<1>3. thread["cli"].key \in Keys /\ Session(thread["cli"].key) /\ Holds("cli", "topic")
  BY <1>1, <1>2 DEF IInv, ThreadInv, KnownInv, Knows, AtWork, Fits, LocksAt, Bystanders, Holds
<1>4. 100 + setup["notifies"] \in Nat
  <2>1. setup["notifies"] \in Nat
    BY DEF IInv, HistoryInv, Bounds
  <2> QED BY <2>1
<1>5. ThreadInv' /\ Only("cli") /\ thread'["cli"] = Idle
  BY <1>1, <1>2, LeavesKeeps DEF IInv
<1>6. life' = life
  BY <1>2, <1>5, OnlyOther
<1>7. DirInv' /\ accepted' \subseteq Nat
  BY <1>1, <1>2, <1>3, <1>4, <1>6, EnqueueKeeps
<1>8. Knows("cli")'
  <2>1. made' \in Keys
    BY <1>1 DEF IInv, RegInv
  <2> QED BY <1>2, <1>5, <2>1, IdleKnows
<1>9. WorkInv'
  BY <1>1, <1>2, <1>5, WorkAside
<1> QED BY <1>1, <1>2, <1>5, <1>6, <1>7, <1>8, <1>9, FolderStep DEF Only, IInv, HistoryInv

LEMMA PollerStraysStep ==
  ASSUME IInv, NEW p \in Groups, PollerStrays(p)
  PROVE  IInv'
<1> DEFINE k == thread[p].key
<1>1. /\ thread[p].pc = "stray" /\ Leaves(p)
      /\ dir' = [dir EXCEPT ![Real(k)] = Folder(@.box \cup {thread[p].n})]
      /\ UNCHANGED <<setup, reg, req, rec, grp, made, busy, boot, fired, accepted, calls, fires, harm>>
  BY DEF PollerStrays, At, history
<1>2. p \in Threads \ {"life", "warn"} /\ p \notin Operators /\ k \in Keys /\ thread[p].n \in Nat
      /\ thread[p].has = {"creation", "topic"}
  BY <1>1, Names DEF Workers, IInv, ThreadInv, ThreadType, Fits, LocksAt
<1>3. life.pc \notin MovePcs
  <2>1. Apart("life", p) /\ Holds(p, "creation")
    BY <1>2, Names DEF IInv, ThreadInv, Holds
  <2>2. life.pc \in MovePcs => Holds("life", "creation")
    BY Names DEF IInv, ThreadInv, Fits, LocksAt, life, Holds
  <2> QED BY <2>1, <2>2 DEF Apart
<1>4. made \in Keys /\ k <= made /\ DirType /\ Ranked
  BY <1>2 DEF IInv, RegInv, KnownInv, Knows, DirInv
<1>5. PICK r \in Keys : r = Real(k) /\ r <= made /\ dir[r].to = 0
  BY <1>2, <1>4, RealEnds
<1>6. PICK b \in SUBSET Nat : b = dir[r].box \cup {thread[p].n}
  BY <1>2, <1>4 DEF DirType
<1>7. dir' = [dir EXCEPT ![r] = Folder(b)]
  BY <1>1, <1>4, <1>5, <1>6 DEF DirType
<1>8. ThreadInv' /\ Only(p) /\ thread'[p] = Idle
  BY <1>1, <1>2, LeavesKeeps DEF IInv
<1>9. life' = life
  BY <1>2, <1>8, OnlyOther
<1>10. DirInv'
  <2>1. life.pc \notin {"save", "unalias"} /\ life.pc # "transfer" /\ ~ Renaming
    BY <1>3 DEF Renaming, MovePcs
  <2>2. \A j \in Keys : Moved(j) => reg[j].to # 0
    BY Names DEF IInv, RegInv
  <2>3. DirInv /\ dir[r].box \subseteq b
    BY <1>6 DEF IInv
  <2> QED BY <1>1, <1>4, <1>5, <1>7, <1>9, <2>1, <2>2, <2>3, Writes
<1>11. Knows(p)'
  <2>1. made' \in Keys
    BY <1>1, <1>4
  <2> QED BY <1>2, <1>8, <2>1, IdleKnows
<1>12. WorkInv'
  BY <1>1, <1>2, <1>8, WorkAside
<1> QED BY <1>1, <1>2, <1>8, <1>9, <1>10, <1>11, <1>12, FolderStep DEF Only, IInv, HistoryInv

LEMMA PollerActsStep ==
  ASSUME IInv, NEW p \in Groups, PollerActs(p)
  PROVE  IInv'
<1> DEFINE k == thread[p].key
           cf == Busy("carryforward", k)
<1>1. /\ thread[p].pc = "act" /\ Up(p)
      /\ UNCHANGED <<setup, reg, req, rec, grp, made, boot, fired, calls, fires, harm>>
  BY DEF PollerActs, At
<1>2. p \in Threads \ {"life", "warn"} /\ p \notin Workers /\ p \notin Operators /\ p \notin OutsideDaemon /\ k \in Keys
      /\ thread[p].n \in Nat /\ "topic" \in thread[p].has
  BY SMTT(30), <1>1, Names DEF Workers, OutsideDaemon, IInv, ThreadInv, ThreadType, Fits, LocksAt
<1>3. Session(k) /\ Registered(k) /\ k <= made /\ ~ boot /\ Holds(p, "topic")
  BY <1>1, <1>2 DEF IInv, KnownInv, Knows, AtWork, Registered, Session, Up, Holds, Workers
<1>4. ASSUME NEW t \in {"halt", "timer"}, NEW m, NEW pc, Begun(m, pc, k),
             (t = "timer" /\ pc = "known") \/ (t = "halt" /\ pc = "act"),
             thread' = [thread EXCEPT ![p] = Idle, ![t] = m] \/ thread' = [thread EXCEPT ![p] = Idle]
      PROVE  /\ ThreadInv' /\ life' = life /\ thread'["warn"] = thread["warn"]
             /\ \A u \in Threads : thread'[u] = thread[u] \/ (u \notin Operators /\ Knows(u)')
  <2>1. t \in Threads /\ t \in Workers /\ t # p /\ t \notin Operators /\ t \notin {"life", "warn"}
    BY <1>2, Names DEF Workers
  <2>2. /\ thread'[p] = Idle /\ (thread'[t] = m \/ thread'[t] = thread[t])
        /\ thread' \in [Threads -> ThreadType]
        /\ \A u \in Threads \ {p, t} : thread'[u] = thread[u]
    BY <1>2, <1>4, <2>1, IdleFits DEF IInv, ThreadInv, Begun
  <2>3. Lets(p) /\ (thread'[t] = thread[t] \/ Lets(t))
    <3>1. Lets(p)
      BY <1>2, <1>3, <2>2, IdleLets
    <3>2. ASSUME thread'[t] = m PROVE Lets(t)
      <4>1. Begun(thread'[t], pc, k)
        BY <1>4, <3>2
      <4> QED BY <1>2, <1>3, <1>4, <2>1, <4>1, BegunLets DEF IInv
    <3> QED BY <2>2, <3>1, <3>2
  <2>4. ThreadInv'
    BY <1>1, <2>2, <2>3, SomeKeep DEF IInv
  <2>5. Knows(p)'
    <3>1. made' \in Keys
      BY <1>1 DEF IInv, RegInv
    <3> QED BY <1>2, <2>2, <3>1, IdleKnows
  <2>6. thread'[t] = m => Knows(t)'
    <3>1. SUFFICES ASSUME thread'[t] = m PROVE Knows(t)'
      OBVIOUS
    <3> QED BY <1>1, <1>3, <1>4, <3>1 DEF Knows, Begun, Registered, Session, AtWork
  <2>7. life' = life /\ thread'["warn"] = thread["warn"]
    BY <1>2, <2>1, <2>2, Names DEF life
  <2> QED BY <1>2, <2>1, <2>2, <2>4, <2>5, <2>6, <2>7
<1>5. CASE cf \in busy
  <2> DEFINE m == [Idle EXCEPT !.pc = "act", !.key = k]
  <2>1. Begun(m, "act", k)
    <3>1. "act" \in AllPcs
      BY DEF AllPcs, AtWork
    <3> QED BY <1>2, <3>1, Begins
  <2>2. /\ busy' = busy \ {cf} /\ UNCHANGED <<dir, accepted>>
        /\ thread' = [thread EXCEPT ![p] = Idle,
             !["halt"] = IF @ = Idle /\ thread["flow"].pc = "act" THEN m ELSE @]
    BY <1>5 DEF PollerActs
  <2> HIDE DEF m
  <2>3. thread' = [thread EXCEPT ![p] = Idle, !["halt"] = m] \/ thread' = [thread EXCEPT ![p] = Idle]
    <3>1. "halt" # p /\ "halt" \in Threads
      BY <1>2, Names DEF Workers
    <3> QED BY <1>2, <2>2, <3>1 DEF IInv, ThreadInv
  <2>4. /\ ThreadInv' /\ life' = life /\ thread'["warn"] = thread["warn"]
        /\ \A u \in Threads : thread'[u] = thread[u] \/ (u \notin Operators /\ Knows(u)')
    BY <1>4, <2>1, <2>3
  <2>5. WorkInv'
    BY <1>1, <2>2, <2>4 DEF IInv, WorkInv, Registered, Session
  <2> QED BY <1>1, <2>2, <2>4, <2>5, WorkStep DEF Quiet, IInv, HistoryInv
<1>6. CASE cf \notin busy
  <2> DEFINE m == [Idle EXCEPT !.pc = "known", !.key = k]
  <2>1. Begun(m, "known", k)
    <3>1. "known" \in AllPcs
      BY DEF AllPcs
    <3> QED BY <1>2, <3>1, Begins
  <2>2. /\ Enqueue(k, thread[p].n) /\ UNCHANGED busy
        /\ thread' = [thread EXCEPT ![p] = Idle, !["timer"] = IF @ = Idle THEN m ELSE @]
    BY <1>6 DEF PollerActs
  <2> HIDE DEF m
  <2>3. thread' = [thread EXCEPT ![p] = Idle, !["timer"] = m] \/ thread' = [thread EXCEPT ![p] = Idle]
    <3>1. "timer" # p /\ "timer" \in Threads
      BY <1>2, Names DEF Workers
    <3> QED BY <1>2, <2>2, <3>1 DEF IInv, ThreadInv
  <2>4. /\ ThreadInv' /\ life' = life /\ thread'["warn"] = thread["warn"]
        /\ \A u \in Threads : thread'[u] = thread[u] \/ (u \notin Operators /\ Knows(u)')
    BY <1>4, <2>1, <2>3
  <2>5. DirInv' /\ accepted' \subseteq Nat
    BY <1>1, <1>2, <1>3, <2>2, <2>4, EnqueueKeeps
  <2>6. WorkInv'
    BY <1>1, <2>2, <2>4, SameWork DEF IInv
  <2> QED BY <1>1, <2>4, <2>5, <2>6, FolderStep DEF IInv, HistoryInv
<1> QED BY <1>5, <1>6

---------------------------------------------------------------------------
(* The move: asking, checking, refusing, answering                          *)

LEMMA LifeFacts ==
  ASSUME IInv, life.pc # "idle", Up("life")
  PROVE  /\ "life" \in Threads /\ "life" \notin OutsideDaemon /\ "life" \notin Operators /\ ~ boot
         /\ life \in ThreadType /\ life.key \in Keys /\ life.n \in Nat /\ life.to \in Groups
         /\ life.key <= made /\ Registered(life.key)
         /\ life.pc \in MovePcs => life.has = {"creation", "topic"}
         /\ life.pc \in Undone => Session(life.key) /\ ~ Moved(life.key) /\ reg[life.key].to = 0
BY Names DEF OutsideDaemon, Workers, Up, IInv, ThreadInv, ThreadType, Fits, LocksAt, KnownInv, Knows, Resolved, life,
             LifeInv, Session, Moved, RegInv

(* The step of the move that leaves registry and folders alone.             *)
LEMMA LifeStep ==
  ASSUME IInv, Only("life"), ThreadInv', UNCHANGED <<reg, made>>,
         (life'.pc = "idle" /\ life'.key = 0) \/ (life'.key \in Keys /\ life'.key <= made /\ Registered(life'.key)),
         life'.pc \notin AtWork,
         RegInv', LifeInv', DirInv', ReqInv', WorkInv', HistoryInv'
  PROVE  IInv'
<1>1. Knows("life")'
  <2>1. 0 <= made /\ "life" # "halt" /\ "life" \notin Operators
    BY Names DEF IInv, RegInv, Keys, Workers
  <2> QED BY <2>1 DEF Knows, Resolved, Registered, life
<1>2. KnownInv'
  BY <1>1, SameKnown DEF IInv, Only
<1> QED BY <1>2 DEF IInv

LEMMA PickRequestStep ==
  ASSUME IInv, NEW k \in Keys, PickRequest(k)
  PROVE  IInv'
<1>1. /\ life.pc = "idle" /\ Up("life") /\ req[k].state = "pending" /\ Registered(k)
      /\ thread' = [thread EXCEPT !["life"] = [Idle EXCEPT !.pc = "picked", !.key = k, !.to = req[k].to]]
      /\ UNCHANGED <<setup, reg, dir, req, rec, grp, made, busy, boot, fired, accepted, calls, fires, harm>>
  BY DEF PickRequest, At, files, history, life, IInv, RegInv
<1>2. PICK g \in Groups : g = req[k].to
  BY DEF IInv, ReqInv
<1> DEFINE m == [Idle EXCEPT !.pc = "picked", !.key = k, !.to = g]
<1>3. m \in ThreadType /\ m.pc = "picked" /\ m.key = k /\ m.has = {}
  <2>1. k \in 0..MaxKey /\ "picked" \in AllPcs
    BY Names DEF Keys, AllPcs
  <2> QED BY <2>1, IdleFits DEF ThreadType
<1>4. thread' = [thread EXCEPT !["life"] = m]
  BY <1>1, <1>2
<1> HIDE DEF m
<1>5. Only("life") /\ thread'["life"] = m
  BY <1>3, <1>4, Names, Taken DEF IInv
<1>6. Fits("life", m)
  BY <1>3, Names DEF Fits, Places, LocksAt, Workers, MovePcs, AtWork, Bystanders
<1>7. ThreadInv'
  BY <1>1, <1>3, <1>5, <1>6, Names, OnlyKeeps DEF IInv, Up
<1>8. life' = m /\ k <= made
  BY <1>1, <1>5 DEF life, IInv, RegInv
<1>9. RegInv' /\ HistoryInv'
  BY <1>1, SameReg DEF IInv, HistoryInv
<1>10. LifeInv'
  BY <1>3, <1>8 DEF LifeInv, Undone
<1>11. DirInv'
  BY <1>1, <1>3, <1>8, DirPlain DEF IInv, Settled0
<1>12. WorkInv'
  BY <1>1, <1>3, <1>5, <1>8, WorkPlain, OnlyLife DEF IInv, Undone
<1>13. ReqInv'
  <2>1. \A o \in Operators : ToldTrue(o)'
    BY <1>1, <1>5, OnlyLife DEF IInv, ReqInv, ToldTrue, Registered
  <2>2. FileTrue'
    BY <1>1 DEF IInv, ReqInv, FileTrue, Moved
  <2> QED BY <1>1, <1>3, <1>8, <2>1, <2>2 DEF IInv, ReqInv, Executing, MovePcs
<1> QED BY <1>1, <1>3, <1>5, <1>7, <1>8, <1>9, <1>10, <1>11, <1>12, <1>13, LifeStep DEF AtWork

(* The thread of the move goes on, with its locks, or stops.                *)
LEMMA LifeGoes ==
  ASSUME IInv, life.pc # "idle", Up("life"), NEW pc \in MovePcs \cup {"moving"}, Goes("life", pc), boot' = boot,
         pc = "moving" => life.has = {}, pc \in MovePcs => life.pc \in MovePcs
  PROVE  /\ ThreadInv' /\ Only("life") /\ life'.pc = pc /\ life'.key = life.key /\ life'.to = life.to
         /\ life'.n = life.n
<1>1. pc \in AllPcs
  BY DEF AllPcs
<1>2. Places("life", pc) /\ LocksAt("life", pc, life.has)
  BY LifeFacts, Names DEF Places, LocksAt, Workers, MovePcs, AtWork, Bystanders
<1> QED BY <1>1, <1>2, LifeFacts, GoesKeeps DEF life, IInv

LEMMA LifeLeaves ==
  ASSUME IInv, Leaves("life"), boot' = boot
  PROVE  ThreadInv' /\ Only("life") /\ life' = Idle /\ life'.pc = "idle" /\ life'.key = 0 /\ life'.n = 0
BY LeavesKeeps, IdleFits, Names DEF life, IInv

LEMMA LifeRefuses ==
  ASSUME IInv, life.pc # "idle", Up("life"), Refuse, boot' = boot
  PROVE  /\ ThreadInv' /\ Only("life") /\ life'.pc = "result" /\ life'.key = life.key /\ life'.to = life.to
         /\ life'.n = 0
<1>1. /\ Only("life") /\ thread'["life"].pc = "result" /\ thread'["life"].key = life.key
      /\ thread'["life"].has = {} /\ thread'["life"].to = life.to /\ thread'["life"].n = 0
  BY RefuseType DEF IInv
<1>2. Fits("life", thread'["life"])
  BY <1>1, LifeFacts, Names DEF Fits, Places, LocksAt, Workers, MovePcs, AtWork, Bystanders
<1>3. ThreadInv'
  BY <1>1, <1>2, LifeFacts, OnlyKeeps DEF IInv, life
<1> QED BY <1>1, <1>3 DEF life

LEMMA StartRequestStep ==
  ASSUME IInv, StartRequest
  PROVE  IInv'
<1>1. /\ life.pc = "picked" /\ Up("life")
      /\ UNCHANGED <<reg, dir, rec, grp, made, busy, boot, fired, accepted, calls, fires>>
  BY DEF StartRequest, At, life
<1>2. /\ life.key \in Keys /\ life.key <= made /\ Registered(life.key) /\ life.to \in Groups /\ life.has = {}
      /\ "life" \notin Operators
  BY <1>1, LifeFacts, Names DEF IInv, ThreadInv, Fits, LocksAt, life
<1>3. RegInv'
  BY <1>1, SameReg DEF IInv
<1>4. CASE Fault /\ Leaves("life") /\ UNCHANGED <<req, harm>>
  <2>1. ThreadInv' /\ Only("life") /\ life' = Idle /\ life'.pc = "idle" /\ life'.key = 0
    BY <1>1, <1>4, LifeLeaves
  <2>2. setup' \in [Bounds -> Nat]
    BY <1>4, Spends DEF Fault, IInv, HistoryInv, Bounds
  <2>3. LifeInv' /\ HistoryInv'
    BY <1>1, <1>4, <2>1, <2>2 DEF LifeInv, Undone, IInv, HistoryInv
  <2>4. DirInv'
    BY <1>1, <1>4, <2>1, DirPlain DEF IInv, Settled0
  <2>5. WorkInv'
    BY <1>1, <1>4, <2>1, WorkPlain, OnlyLife DEF IInv, Undone
  <2>6. ReqInv'
    <3>1. \A o \in Operators : ToldTrue(o)'
      BY <1>1, <1>4, <2>1, OnlyLife DEF IInv, ReqInv, ToldTrue, Registered
    <3>2. FileTrue'
      BY <1>1, <1>4 DEF IInv, ReqInv, FileTrue, Moved
    <3> QED BY <1>1, <1>4, <2>1, <3>1, <3>2 DEF IInv, ReqInv, Executing, MovePcs
  <2>7. life'.pc \notin AtWork /\ life'.pc = "idle" /\ life'.key = 0
    BY <2>1 DEF AtWork
  <2>8. ThreadInv' /\ Only("life") /\ UNCHANGED <<reg, made>>
    BY <1>1, <2>1
  <2> QED BY <1>3, <2>3, <2>4, <2>5, <2>6, <2>7, <2>8, LifeStep
<1>5. ASSUME req' = [req EXCEPT ![life.key] = [state |-> "running", to |-> life.to, res |-> 0]],
             harm' = IF Moved(life.key) THEN harm \cup {"pointer"} ELSE harm,
             Goes("life", "moving"), UNCHANGED setup
      PROVE  IInv'
  <2>1. /\ ThreadInv' /\ Only("life") /\ life'.pc = "moving" /\ life'.key = life.key /\ life'.to = life.to
    BY <1>1, <1>2, <1>5, LifeGoes DEF MovePcs
  <2>2. HistoryInv' /\ ("pointer" \notin harm' => Session(life.key))
    <3>1. ~ Moved(life.key) => Session(life.key)
      BY <1>2, Kinds DEF IInv
    <3> QED BY <1>1, <1>5, <3>1 DEF IInv, HistoryInv
  <2>3. LifeInv'
    BY <1>1, <2>1, <2>2 DEF LifeInv, Undone, Session
  <2>4. DirInv'
    BY <1>1, <1>5, <2>1, DirPlain DEF IInv, Settled0
  <2>5. WorkInv'
    BY <1>1, <1>5, <2>1, WorkPlain, OnlyLife DEF IInv, Undone
  <2>6. ReqInv'
    <3> DEFINE R == [state : {"none", "pending", "running", "done"}, to : Groups, res : 0..MaxKey]
               new == [state |-> "running", to |-> life.to, res |-> 0]
    <3>1. req \in [Keys -> R] /\ new \in R /\ new.state = "running" /\ new.to = life.to
      BY <1>2, Names DEF IInv, ReqInv
    <3> HIDE DEF R, new
    <3>2. req' = [req EXCEPT ![life.key] = new]
      BY <1>5 DEF new
    <3>3. req' \in [Keys -> R] /\ \A k \in Keys : req'[k] = req[k] \/ (k = life.key /\ req'[k] = new)
      BY <1>2, <3>1, <3>2
    <3>4. req'[life.key] = new
      BY <1>2, <3>1, <3>2
    <3>5. \A o \in Operators : ToldTrue(o)'
      BY <1>1, <1>5, <2>1, OnlyLife DEF IInv, ReqInv, ToldTrue, Registered
    <3>6. FileTrue'
      <4>1. "pointer" \notin harm' => ~ Moved(life.key) /\ "pointer" \notin harm
        BY <1>5
      <4> QED BY <1>1, <3>1, <3>3, <3>4, <4>1 DEF IInv, ReqInv, FileTrue, Moved
    <3>7. \A k \in Keys : req'[k].state = "pending" => calls[k] = 0
      BY <3>1, <3>3 DEF IInv, ReqInv
    <3>8. calls[life.key] = 0 /\ calls \in [Keys -> {0, 1}]
      BY <1>1 DEF IInv, ReqInv
    <3> QED BY <1>1, <2>1, <3>1, <3>3, <3>4, <3>5, <3>6, <3>7, <3>8 DEF ReqInv, R
  <2> QED BY <1>1, <1>2, <1>3, <2>1, <2>2, <2>3, <2>4, <2>5, <2>6, LifeStep DEF AtWork
<1> QED BY <1>4, <1>5 DEF StartRequest

(* A move that is refused: nothing was done.                                *)
LEMMA RefusesStep ==
  ASSUME IInv, life.pc \in {"moving", "in"}, Up("life"), Refuse,
         UNCHANGED <<setup, reg, dir, req, rec, grp, made, busy, boot, fired, accepted, calls, fires, harm>>
  PROVE  IInv'
<1>1. /\ ThreadInv' /\ Only("life") /\ life'.pc = "result" /\ life'.key = life.key /\ life'.to = life.to
      /\ life'.n = 0
  BY LifeRefuses
<1>2. life.key \in Keys /\ life.key <= made /\ Registered(life.key)
  BY LifeFacts
<1>3. RegInv' /\ HistoryInv'
  BY SameReg DEF IInv, HistoryInv
<1>4. LifeInv'
  BY <1>1 DEF IInv, LifeInv, Undone, Session
<1>5. DirInv'
  BY <1>1, DirPlain DEF IInv, Settled0
<1>6. WorkInv'
  BY <1>1, WorkPlain, OnlyLife DEF IInv, Undone
<1>7. ReqInv'
  BY <1>1, ReqPlain, OnlyLife DEF IInv, Executing, MovePcs
<1> QED BY <1>1, <1>2, <1>3, <1>4, <1>5, <1>6, <1>7, LifeStep DEF AtWork

LEMMA InFlightStep ==
  ASSUME IInv, InFlight
  PROVE  IInv'
BY RefusesStep DEF InFlight, At, life, files, history

LEMMA CheckMoveStep ==
  ASSUME IInv, CheckMove
  PROVE  IInv'
<1>1. /\ life.pc = "in" /\ Up("life")
      /\ UNCHANGED <<setup, reg, dir, req, rec, grp, made, busy, boot, fired, accepted, calls, fires, harm>>
  BY DEF CheckMove, At, life, files, history
<1>2. CASE Refuse
  BY <1>1, <1>2, RefusesStep
<1>3. ASSUME Movable(life.key), Goes("life", "create") PROVE IInv'
  <2>1. /\ ThreadInv' /\ Only("life") /\ life'.pc = "create" /\ life'.key = life.key /\ life'.to = life.to
    BY <1>1, <1>3, LifeGoes DEF MovePcs
  <2>2. life.key \in Keys /\ life.key <= made /\ Registered(life.key)
    BY <1>1, LifeFacts
  <2>3. RegInv' /\ HistoryInv'
    BY <1>1, SameReg DEF IInv, HistoryInv
  <2>4. LifeInv'
    BY <1>1, <1>3, <2>1 DEF LifeInv, Undone, Movable, Session
  <2>5. DirInv'
    BY <1>1, <2>1, DirPlain DEF IInv, Settled0
  <2>6. WorkInv'
    BY <1>1, <1>3, <2>1, OnlyLife DEF IInv, WorkInv, Undone, Movable, Registered, Session
  <2>7. ReqInv'
    BY <1>1, <2>1, ReqPlain, OnlyLife DEF IInv, Executing, MovePcs
  <2> QED BY <1>1, <2>1, <2>2, <2>3, <2>4, <2>5, <2>6, <2>7, LifeStep DEF AtWork
<1> QED BY <1>2, <1>3 DEF CheckMove

LEMMA NoticesStep ==
  ASSUME IInv, Notices
  PROVE  IInv'
<1>1. /\ life.pc = "notices" /\ Up("life") /\ thread' = [thread EXCEPT !["life"].pc = "result", !["life"].has = {}]
      /\ UNCHANGED <<setup, reg, dir, req, rec, grp, made, busy, boot, fired, accepted, calls, fires, harm>>
  BY DEF Notices, At, life, files, history
<1>2. "result" \in AllPcs /\ Places("life", "result") /\ LocksAt("life", "result", {})
  BY Names DEF AllPcs, Places, LocksAt, Workers, MovePcs, AtWork, Bystanders
<1>3. life.key \in Keys /\ life.key <= made /\ Registered(life.key) /\ "life" \in Threads
  BY <1>1, LifeFacts
<1>4. /\ ThreadInv' /\ Only("life") /\ life'.pc = "result" /\ life'.key = life.key /\ life'.to = life.to
      /\ life'.n = life.n
  BY <1>1, <1>2, <1>3, DropsKeeps DEF IInv, life
<1>5. RegInv' /\ HistoryInv'
  BY <1>1, SameReg DEF IInv, HistoryInv
<1>6. LifeInv'
  BY <1>1, <1>4, Names DEF IInv, LifeInv, Undone, Moved
<1>7. DirInv'
  BY <1>1, <1>4, DirPlain DEF IInv, Settled0
<1>8. WorkInv'
  BY <1>1, <1>4, WorkPlain, OnlyLife DEF IInv, Undone
<1>9. ReqInv'
  BY <1>1, <1>4, ReqPlain, OnlyLife DEF IInv, Executing, MovePcs
<1> QED BY <1>1, <1>3, <1>4, <1>5, <1>6, <1>7, <1>8, <1>9, LifeStep DEF AtWork

LEMMA WriteResultStep ==
  ASSUME IInv, WriteResult
  PROVE  IInv'
<1>1. /\ life.pc = "result" /\ Up("life") /\ Leaves("life") /\ harm \subseteq harm' /\ harm' \subseteq harm \cup {"stuck"}
      /\ UNCHANGED <<reg, dir, rec, grp, made, busy, boot, fired, accepted, calls, fires>>
      /\ UNCHANGED setup \/ Spend("faults")
      /\ UNCHANGED req \/ req' = [req EXCEPT ![life.key] = [state |-> "done", to |-> life.to, res |-> life.n]]
  BY DEF WriteResult, At, life, Fault
<1>2. life.key \in Keys /\ life.to \in Groups /\ life.n \in Nat
  BY <1>1, LifeFacts
<1>3. ThreadInv' /\ Only("life") /\ life' = Idle /\ life'.pc = "idle" /\ life'.key = 0
  BY <1>1, LifeLeaves
<1>4. RegInv' /\ HistoryInv' /\ LifeInv'
  <2>1. setup' \in [Bounds -> Nat]
    BY <1>1, Spends DEF IInv, HistoryInv, Bounds
  <2> QED BY <1>1, <1>3, <2>1, SameReg DEF IInv, HistoryInv, LifeInv, Undone
<1>5. DirInv'
  BY <1>1, <1>3, DirPlain DEF IInv, Settled0
<1>6. WorkInv'
  BY <1>1, <1>3, WorkPlain, OnlyLife DEF IInv, Undone
<1>7. ReqInv'
  <2>1. \A o \in Operators : ToldTrue(o)'
    BY <1>1, <1>3, OnlyLife DEF IInv, ReqInv, ToldTrue, Registered
  <2>2. CASE UNCHANGED req
    <3>1. FileTrue'
      BY <1>1, <2>2 DEF IInv, ReqInv, FileTrue, Moved
    <3> QED BY <1>1, <1>3, <2>1, <2>2, <3>1 DEF IInv, ReqInv, Executing, MovePcs
  <2>3. CASE req' = [req EXCEPT ![life.key] = [state |-> "done", to |-> life.to, res |-> life.n]]
    <3> DEFINE R == [state : {"none", "pending", "running", "done"}, to : Groups, res : 0..MaxKey]
               new == [state |-> "done", to |-> life.to, res |-> life.n]
    <3>1. life.n # 0 => Moved(life.key) /\ reg[life.key].to = life.n /\ grp[life.n] = life.to
      BY <1>1 DEF IInv, LifeInv
    <3>2. life.n \in 0..MaxKey
      BY <1>2, <3>1, Names DEF IInv, RegInv
    <3>3. req \in [Keys -> R] /\ new \in R /\ new.state = "done" /\ new.to = life.to /\ new.res = life.n
      BY <1>2, <3>2 DEF IInv, ReqInv
    <3> HIDE DEF R, new
    <3>4. req' = [req EXCEPT ![life.key] = new]
      BY <2>3 DEF new
    <3>5. req' \in [Keys -> R] /\ \A k \in Keys : req'[k] = req[k] \/ (k = life.key /\ req'[k] = new)
      BY <1>2, <3>3, <3>4
    <3>6. FileTrue'
      <4> SUFFICES ASSUME "pointer" \notin harm PROVE FileTrue'
        BY <1>1 DEF FileTrue
      <4>1. life.n = 0 => Session(life.key)
        BY <1>1 DEF IInv, LifeInv
      <4>2. life.n = 0 => reg[life.key].to = 0 /\ ~ Moved(life.key)
        BY <1>2, <4>1 DEF IInv, RegInv, Session, Moved
      <4>3. life.n = reg[life.key].to /\ (Moved(life.key) => grp[reg[life.key].to] = life.to)
        BY <3>1, <4>2
      <4> QED BY <1>1, <3>3, <3>5, <4>3 DEF IInv, ReqInv, FileTrue, Moved
    <3>7. \A k \in Keys : req'[k].state = "pending" => calls[k] = 0
      BY <3>3, <3>5 DEF IInv, ReqInv
    <3> QED BY <1>1, <1>3, <2>1, <3>5, <3>6, <3>7 DEF IInv, ReqInv, R, Executing, MovePcs
  <2> QED BY <1>1, <2>2, <2>3
<1>8. life'.pc \notin AtWork /\ life'.pc = "idle" /\ life'.key = 0
  BY <1>3 DEF AtWork
<1>9. ThreadInv' /\ Only("life") /\ UNCHANGED <<reg, made>>
  BY <1>1, <1>3
<1> QED BY <1>4, <1>5, <1>6, <1>7, <1>8, <1>9, LifeStep

---------------------------------------------------------------------------
(* The move: the topic, the folder, the registry                            *)

(* Two tables that agree on the keys on the way lead to the same end.       *)
Agree(next, other, S) ==
  /\ next \in [Keys -> 0..MaxKey] /\ other \in [Keys -> 0..MaxKey] /\ S \in SUBSET Keys
  /\ \A j \in S : other[j] = next[j] /\ (next[j] # 0 => next[j] \in S)

LEMMA FollowAgrees ==
  ASSUME NEW next, NEW other, NEW S, Agree(next, other, S), NEW k \in S
  PROVE  Follow(other, k) = Follow(next, k) /\ Follow(next, k) \in S
<1> USE DEF Agree
<1>1. MaxKey \in Nat \ {0} /\ k \in Keys
  BY MoveAssumption
<1>2. PICK f : Trail(f, next, k) /\ Follow(next, k) = f[MaxKey]
  BY <1>1, FollowTrail
<1>3. PICK g : Trail(g, other, k) /\ Follow(other, k) = g[MaxKey]
  BY <1>1, FollowTrail
<1> DEFINE N == {n \in 0..MaxKey : f[n] \in S /\ g[n] = f[n]}
<1>4. 0 \in N
  BY <1>1, <1>2, <1>3 DEF Trail
<1>5. ASSUME NEW n \in 0..MaxKey, n # MaxKey, n \in N PROVE n + 1 \in N
  <2>1. n + 1 \in 1..MaxKey /\ n + 1 \in 0..MaxKey /\ n + 1 - 1 = n
    BY <1>1, <1>5
  <2>2. f[n + 1] = Hop(next, f[n]) /\ g[n + 1] = Hop(other, g[n])
    BY <1>2, <1>3, <2>1 DEF Trail
  <2> QED BY <1>5, <2>1, <2>2 DEF Hop
<1>6. MaxKey \in N
  <2> HIDE DEF N
  <2>1. \A n \in 0..MaxKey : n \in N
    BY <1>4, <1>5, Induct
  <2> QED BY <1>1, <2>1
<1> QED BY <1>2, <1>3, <1>6

LEMMA RealAgrees ==
  ASSUME \A j \in Keys : dir[j].to \in 0..MaxKey /\ dir'[j].to \in 0..MaxKey,
         NEW S \in SUBSET Keys, NEW k \in S,
         \A j \in S : dir'[j].to = dir[j].to /\ (dir[j].to # 0 => dir[j].to \in S)
  PROVE  Real(k)' = Real(k) /\ Real(k) \in S
<1> DEFINE next == [j \in Keys |-> dir[j].to]
           new == [j \in Keys |-> dir'[j].to]
<1>1. next \in [Keys -> 0..MaxKey] /\ new \in [Keys -> 0..MaxKey]
  OBVIOUS
<1>2. \A j \in S : new[j] = next[j] /\ (next[j] # 0 => next[j] \in S)
  OBVIOUS
<1>3. Real(k) = Follow(next, k) /\ Real(k)' = Follow(new, k)
  BY DEF Real
<1> HIDE DEF next, new
<1>4. Agree(next, new, S)
  BY <1>1, <1>2 DEF Agree
<1>5. Follow(new, k) = Follow(next, k) /\ Follow(next, k) \in S
  BY <1>4, FollowAgrees
<1> QED BY <1>3, <1>5

(* A topic appears, of nobody's yet.                                        *)
LEMMA TopicMade ==
  ASSUME IInv, made < MaxKey, made' = made + 1, NEW g \in Groups, grp' = [grp EXCEPT ![made + 1] = g],
         UNCHANGED <<reg, dir>>
  PROVE  /\ RegInv' /\ made \in Nat /\ made + 1 \in Keys /\ grp'[made + 1] = g
         /\ \A k \in Keys : k <= made => k # made + 1 /\ grp'[k] = grp[k]
         /\ \A k \in Keys : Registered(k) => k <= made
         /\ \A t \in Threads : thread'[t] = thread[t] => Knows(t)'
<1>1. made \in Keys /\ made' \in Keys /\ made \in Nat /\ grp \in [Keys -> Groups \cup {"-"}]
  BY Names DEF IInv, RegInv, Keys
<1>2. grp' \in [Keys -> Groups \cup {"-"}] /\ \A k \in Keys : k <= made => k <= made' /\ k # made + 1 /\ grp'[k] = grp[k]
  BY <1>1 DEF Keys
<1>3. RegInv'
  <2>1. \A k \in Keys : grp'[k] # "-" => k <= made'
    BY <1>1, <1>2 DEF IInv, RegInv, Keys
  <2> QED BY <1>1, <1>2, <2>1 DEF IInv, RegInv, Registered, Moved, Session
<1>4. ASSUME NEW t \in Threads, thread'[t] = thread[t] PROVE Knows(t)'
  <2>1. thread[t].key \in Nat /\ thread[t].key <= made
    BY Names DEF IInv, KnownInv, Knows, ThreadInv, ThreadType
  <2>2. thread[t].key <= made'
    BY <1>1, <2>1
  <2> QED BY <1>4, <2>2 DEF IInv, KnownInv, Knows, Resolved, Registered, Session
<1>5. \A k \in Keys : Registered(k) => k <= made
  BY DEF IInv, RegInv
<1> QED BY <1>1, <1>2, <1>3, <1>4, <1>5

LEMMA DirMade ==
  ASSUME DirInv, UNCHANGED <<reg, dir, accepted, harm>>, made \in Keys, made' \in Keys, made' = made \/ made' = made + 1,
         life.pc \notin {"alias", "putback"},
         \/ life'.pc \notin Settled0
         \/ /\ life'.pc = "transfer" /\ made' = made + 1 /\ life'.n = made + 1
            /\ life'.key \in Keys
  PROVE  DirInv'
<1>1. made \in Nat /\ \A k \in Keys : k <= made => k <= made' /\ k # made + 1
  BY DEF Keys
<1>2. DirType'
  <2>1. \A k \in Keys : dir[k].is # "none" => k <= made
    BY DEF DirInv, DirType
  <2>2. \A k \in Keys : dir[k].is = "link" => dir[k].to \in Keys /\ dir[k].to <= made
    BY DEF DirInv, DirType
  <2>3. \A k \in Keys : dir[k].is # "link" => dir[k].to = 0
    BY DEF DirInv, DirType
  <2>4. life'.pc = "transfer" => dir[life'.n].is = "none" /\ \A k \in Keys : dir[k].to # life'.n
    <3>1. SUFFICES ASSUME life'.pc = "transfer" PROVE dir[made + 1].is = "none" /\ \A k \in Keys : dir[k].to # made + 1
      BY DEF Settled0
    <3>2. made' = made + 1 /\ made + 1 \in Keys /\ ~ (made + 1 <= made) /\ made + 1 # 0
      BY <1>1, <3>1 DEF Settled0
    <3> QED BY <2>1, <2>2, <2>3, <3>2
  <2>5. life'.pc \notin {"save", "unalias"} /\ (life'.pc \in Undone \ {"create", "delete"} => life'.pc = "transfer")
    BY DEF Settled0, Undone
  <2>6. life'.pc = "transfer" => dir[life'.key].to # life'.n
    BY <2>4 DEF Settled0
  <2>7. /\ dir \in [Keys -> [is : {"none", "real", "link"}, to : 0..MaxKey, box : SUBSET Nat]]
        /\ \A k \in Keys : dir[k].is = "none" => dir[k] = NoDir
    BY DEF DirInv, DirType
  <2>8. /\ \A k \in Keys : dir[k].is # "none" => k <= made'
        /\ \A k \in Keys : dir[k].is = "link" => dir[k].to \in Keys /\ dir[k].to <= made'
    BY <1>1, <2>1, <2>2
  <2> QED BY <2>3, <2>4, <2>5, <2>6, <2>7, <2>8 DEF DirType
<1>3. Ranked'
  <2>1. PICK rank \in [Keys -> 0..MaxKey] : Falls(rank)
    BY DEF DirInv, Ranked
  <2>2. \A j \in Keys : rank[j] \in Nat
    BY Names
  <2>3. \A j \in Keys : rank[j] < made' /\ (made' = made + 1 => rank[j] + 1 < made')
    BY <1>1, <2>1, <2>2 DEF Falls
  <2>4. Falls(rank)'
    BY <2>1, <2>3 DEF Falls, Renaming, Settled0
  <2> QED BY <2>4 DEF Ranked
<1>4. "torn" \notin harm' => Whole'
  BY DEF DirInv, Whole, Renaming, Moved, Session, DataAt, Named, Real, Settled0
<1> QED BY <1>2, <1>3, <1>4 DEF DirInv

LEMMA CreateTopicStep ==
  ASSUME IInv, CreateTopic
  PROVE  IInv'
<1> DEFINE k == life.key
<1>1. /\ life.pc = "create" /\ Up("life") /\ made < MaxKey
      /\ calls' = IF req[k].state = "running" THEN [calls EXCEPT ![k] = @ + 1] ELSE calls
      /\ UNCHANGED <<reg, dir, req, rec, busy, boot, fired, accepted, fires, harm>>
  BY DEF CreateTopic, At, life, files
<1>2. /\ k \in Keys /\ k <= made /\ Registered(k) /\ Session(k) /\ life.to \in Groups /\ life.has = {"creation", "topic"}
  BY <1>1, LifeFacts DEF Undone, MovePcs
<1>3. calls' \in [Keys -> {0, 1}] /\ \A j \in Keys : req[j].state = "pending" => calls'[j] = 0
  <2>1. calls \in [Keys -> {0, 1}] /\ calls[k] = 0 /\ \A j \in Keys : req[j].state = "pending" => calls[j] = 0
    BY <1>1 DEF IInv, ReqInv
  <2>2. [calls EXCEPT ![k] = @ + 1] = [calls EXCEPT ![k] = 1]
    BY <1>2, <2>1
  <2> QED BY <1>1, <1>2, <2>1, <2>2
<1>4. ASSUME Creates PROVE /\ RegInv' /\ made \in Nat /\ made + 1 \in Keys /\ grp'[made + 1] = life.to
                           /\ \A j \in Keys : j <= made => j # made + 1 /\ grp'[j] = grp[j]
                           /\ \A j \in Keys : Registered(j) => j <= made
                           /\ \A t \in Threads : thread'[t] = thread[t] => Knows(t)'
                           /\ made' = made + 1
  BY <1>1, <1>2, <1>4, TopicMade DEF Creates
<1>5. \A j \in Keys : j <= made => j <= made + 1
  BY DEF IInv, RegInv, Keys
<1>6. ASSUME Only("life"), ThreadInv', life'.key = k, life'.to = life.to, life'.pc \in {"transfer", "result"},
             Creates \/ (UNCHANGED <<grp, made>> /\ life'.pc = "result"), LifeInv', DirInv', setup' \in [Bounds -> Nat]
      PROVE  IInv'
  <2>1. RegInv'
    BY <1>1, <1>4, <1>6, SameReg DEF IInv
  <2>2. KnownInv'
    <3>1. \A t \in Threads \ {"life"} : Knows(t)'
      <4>1. CASE Creates
        BY <1>4, <1>6, <4>1 DEF Only
      <4>2. CASE UNCHANGED <<grp, made>>
        BY <1>1, <1>6, <4>2 DEF Only, IInv, KnownInv, Knows, Resolved, Registered, Session
      <4> QED BY <1>6, <4>1, <4>2
    <3>2. Knows("life")'
      <4>1. k <= made'
        BY <1>2, <1>4, <1>5, <1>6
      <4>2. "life" # "halt" /\ life'.pc \notin AtWork
        BY <1>6 DEF AtWork
      <4> QED BY <1>1, <1>2, <1>6, <4>1, <4>2, Names DEF Knows, Registered, life, AtWork
    <3> QED BY <3>1, <3>2 DEF KnownInv
  <2>3. WorkInv'
    <3>1. life'.pc \in Undone => life.pc \in Undone /\ life'.key = life.key
      BY <1>1, <1>6 DEF Undone
    <3> QED BY <1>1, <1>6, <3>1, WorkPlain, OnlyLife DEF IInv
  <2>4. ReqInv'
    <3>1. \A j \in Keys : Registered(j) => grp'[j] = grp[j]
      BY <1>4, <1>6
    <3>2. \A o \in Operators : ToldTrue(o)'
      BY <1>1, <1>6, <3>1, OnlyLife DEF IInv, ReqInv, ToldTrue, Registered
    <3>3. FileTrue'
      BY <1>1, <3>1 DEF IInv, ReqInv, RegInv, FileTrue, Moved
    <3> QED BY <1>1, <1>3, <1>6, <3>2, <3>3 DEF IInv, ReqInv, Executing, MovePcs
  <2>5. HistoryInv'
    BY <1>1, <1>6 DEF IInv, HistoryInv
  <2> QED BY <1>6, <2>1, <2>2, <2>3, <2>4, <2>5 DEF IInv
<1>7. made \in Keys
  BY DEF IInv, RegInv
<1>8. ASSUME Creates, UNCHANGED setup,
             thread' = [thread EXCEPT !["life"].pc = "transfer", !["life"].n = made + 1]
      PROVE  IInv'
  <2>1. PICK n \in Nat : n = made + 1
    BY <1>4, <1>8
  <2>2. /\ Only("life") /\ thread'["life"].pc = "transfer" /\ thread'["life"].key = life.key
        /\ thread'["life"].has = life.has /\ thread'["life"].to = life.to /\ thread'["life"].n = n
    <3>1. "transfer" \in AllPcs /\ thread' = [thread EXCEPT !["life"].pc = "transfer", !["life"].n = n]
      BY <1>8, <2>1 DEF AllPcs, MovePcs
    <3>2. ThreadInv /\ "life" \in Threads
      BY Names DEF IInv
    <3>3. /\ Only("life") /\ thread'["life"].pc = "transfer" /\ thread'["life"].key = thread["life"].key
          /\ thread'["life"].has = thread["life"].has
          /\ thread'["life"].to = thread["life"].to /\ thread'["life"].n = n
      BY ZenonT(60), <3>1, <3>2, Numbers
    <3> QED BY <3>3 DEF life
  <2>3. Fits("life", thread'["life"])
    BY <1>2, <2>2, Names DEF Fits, Places, LocksAt, Workers, MovePcs, AtWork, Bystanders
  <2>4. ThreadInv'
    BY <1>1, <2>2, <2>3, Names, OnlyKeeps DEF IInv, Up, life
  <2>5. life'.pc = "transfer" /\ life'.key = k /\ life'.n = made + 1 /\ life'.to = life.to
    BY <2>1, <2>2 DEF life
  <2>6. DirInv'
    BY <1>1, <1>2, <1>4, <1>7, <1>8, <2>5, DirMade DEF IInv, RegInv
  <2>7. LifeInv'
    <3>1. made + 1 \in Keys /\ made + 1 > k /\ made + 1 <= made' /\ ~ Registered(made + 1)
      <4>1. k \in Nat /\ ~ (made + 1 <= made)
        BY <1>2, <1>4, <1>8 DEF Keys
      <4> QED BY <1>2, <1>4, <1>8, <4>1
    <3> QED BY <1>1, <1>2, <1>4, <1>8, <2>5, <3>1 DEF LifeInv, Undone, Registered, Session
  <2> QED BY <1>6, <1>8, <2>2, <2>4, <2>5, <2>6, <2>7 DEF IInv, HistoryInv
<1>9. ASSUME Fault, Refuse, Creates \/ UNCHANGED <<grp, made>> PROVE IInv'
  <2>1. /\ ThreadInv' /\ Only("life") /\ life'.pc = "result" /\ life'.key = k /\ life'.to = life.to
        /\ life'.n = 0
    BY <1>1, <1>9, LifeRefuses
  <2>2. LifeInv'
    BY <1>1, <1>2, <2>1 DEF LifeInv, Undone, Session
  <2>3. made' \in Keys /\ (made' = made \/ made' = made + 1)
    BY <1>4, <1>7, <1>9
  <2>4. DirInv'
    BY <1>1, <1>7, <2>1, <2>3, DirMade DEF IInv, Settled0
  <2>5. setup' \in [Bounds -> Nat]
    BY <1>9, Spends DEF Fault, IInv, HistoryInv, Bounds
  <2> QED BY <1>6, <1>9, <2>1, <2>2, <2>4, <2>5
<1> QED BY <1>8, <1>9 DEF CreateTopic

LEMMA DeleteTopicStep ==
  ASSUME IInv, DeleteTopic
  PROVE  IInv'
<1> DEFINE k == life.key
           n == life.n
<1>1. /\ life.pc = "delete" /\ Up("life") /\ Refuse
      /\ UNCHANGED setup \/ Spend("faults")
      /\ UNCHANGED grp \/ grp' = [grp EXCEPT ![n] = "-"]
      /\ UNCHANGED <<reg, dir, req, rec, made, busy, boot, fired, accepted, calls, fires, harm>>
  BY DEF DeleteTopic, At, life, Fault, files, history
<1>2. /\ k \in Keys /\ k <= made /\ Registered(k) /\ Session(k) /\ n \in Keys /\ ~ Registered(n)
  BY <1>1, LifeFacts DEF Undone, IInv, LifeInv
<1>3. /\ ThreadInv' /\ Only("life") /\ life'.pc = "result" /\ life'.key = k /\ life'.to = life.to /\ life'.n = 0
  BY <1>1, LifeRefuses
<1>4. \A j \in Keys : grp'[j] = grp[j] \/ (j = n /\ grp'[j] = "-")
  BY <1>1, <1>2 DEF IInv, RegInv
<1>5. RegInv'
  <2>1. grp' \in [Keys -> Groups \cup {"-"}] /\ \A j \in Keys : grp'[j] # "-" => j <= made
    BY <1>1, <1>4 DEF IInv, RegInv
  <2> QED BY <1>1, <2>1 DEF IInv, RegInv, Registered, Moved, Session
<1>6. LifeInv'
  BY <1>1, <1>2, <1>3 DEF LifeInv, Undone, Session
<1>7. DirInv'
  BY <1>1, <1>3, DirPlain DEF IInv, Settled0
<1>8. WorkInv'
  BY <1>1, <1>3, WorkPlain, OnlyLife DEF IInv, Undone
<1>9. ReqInv'
  <2>1. \A j \in Keys : Registered(j) => grp'[j] = grp[j]
    BY <1>2, <1>4
  <2>2. \A o \in Operators : ToldTrue(o)'
    BY <1>1, <1>3, <2>1, OnlyLife DEF IInv, ReqInv, ToldTrue, Registered
  <2>3. FileTrue'
    BY <1>1, <2>1 DEF IInv, ReqInv, RegInv, FileTrue, Moved
  <2> QED BY <1>1, <1>3, <2>2, <2>3 DEF IInv, ReqInv, Executing, MovePcs
<1>10. HistoryInv'
  <2>1. setup' \in [Bounds -> Nat]
    BY <1>1, Spends DEF IInv, HistoryInv, Bounds
  <2> QED BY <1>1, <2>1 DEF IInv, HistoryInv
<1> QED BY <1>1, <1>2, <1>3, <1>5, <1>6, <1>7, <1>8, <1>9, <1>10, LifeStep DEF AtWork

LEMMA MoveRecordStep ==
  ASSUME IInv, MoveRecord
  PROVE  IInv'
<1> DEFINE k == life.key
           n == life.n
<1>1. /\ life.pc = "record" /\ Up("life") /\ Goes("life", "notices")
      /\ UNCHANGED <<reg, dir, req, grp, made, busy, boot, fired, accepted, calls, fires>>
  BY DEF MoveRecord, At, life
<1>2. \/ rec' = (IF k \in rec THEN (rec \ {k}) \cup {n} ELSE rec) /\ UNCHANGED <<setup, harm>>
      \/ Spend("faults") /\ harm' = harm \cup {"left"} /\ UNCHANGED rec
  BY DEF MoveRecord, Fault
<1>3. k \in Keys /\ k <= made /\ Registered(k) /\ n \in Keys /\ Session(n)
  BY <1>1, LifeFacts DEF IInv, LifeInv
<1>4. /\ ThreadInv' /\ Only("life") /\ life'.pc = "notices" /\ life'.key = k /\ life'.to = life.to /\ life'.n = n
  BY <1>1, LifeGoes DEF MovePcs
<1>5. RegInv' /\ HistoryInv'
  <2>1. setup' \in [Bounds -> Nat]
    BY <1>2, Spends DEF IInv, HistoryInv, Bounds
  <2>2. harm' = harm \/ harm' = harm \cup {"left"}
    BY <1>2
  <2> QED BY <1>1, <2>1, <2>2, SameReg DEF IInv, HistoryInv
<1>6. LifeInv'
  <2>1. "pointer" \in harm => "pointer" \in harm'
    BY <1>2
  <2> QED BY <1>1, <1>4, <2>1 DEF IInv, LifeInv, Undone, Session, Moved
<1>7. DirInv'
  <2>1. "torn" \in harm => "torn" \in harm'
    BY <1>2
  <2> QED BY <1>1, <1>4, <2>1, DirPlain DEF IInv, Settled0
<1>8. WorkInv'
  <2>1. rec' \subseteq Keys
    BY <1>2, <1>3 DEF IInv, WorkInv
  <2>2. "left" \notin harm' => \A j \in rec' : Session(j)
    BY <1>1, <1>2, <1>3 DEF IInv, WorkInv
  <2>3. thread'["warn"] = thread["warn"]
    BY <1>4, OnlyLife
  <2> QED BY <1>1, <1>4, <2>1, <2>2, <2>3 DEF IInv, WorkInv, Undone, Registered, Session
<1>9. ReqInv'
  <2>1. "pointer" \in harm => "pointer" \in harm'
    BY <1>2
  <2> QED BY <1>1, <1>4, <2>1, ReqPlain, OnlyLife DEF IInv, Executing, MovePcs
<1> QED BY <1>1, <1>3, <1>4, <1>5, <1>6, <1>7, <1>8, <1>9, LifeStep DEF AtWork

---------------------------------------------------------------------------
(* The move: the folder and its alias                                       *)

(* A key and its link lead to the same end after a step.                    *)
LEMMA RealAfter ==
  ASSUME DirType', Ranked', made' \in Keys, NEW j \in Keys
  PROVE  /\ dir'[j].to = 0 => Real(j)' = j
         /\ \A i \in Keys : dir'[j].to = i => Real(j)' = Real(i)'
<1> DEFINE next == [i \in Keys |-> dir'[i].to]
<1>1. MaxKey \in Nat \ {0} /\ next \in [Keys -> 0..MaxKey]
  BY MoveAssumption DEF DirType
<1>2. PICK rank \in [Keys -> 0..MaxKey] : Falls(rank)'
  BY DEF Ranked
<1>3. Points(next, rank)
  <2>1. \A i \in Keys : rank[i] < MaxKey
    BY <1>1, <1>2 DEF Falls, Keys
  <2> QED BY <1>1, <1>2, <2>1 DEF Falls, Points
<1>4. \A i : Real(i)' = Follow(next, i)
  BY DEF Real
<1>5. next[j] = dir'[j].to
  OBVIOUS
<1> HIDE DEF next
<1>6. dir'[j].to = 0 => Real(j)' = j
  BY <1>1, <1>4, <1>5, FollowHome
<1>7. ASSUME NEW i \in Keys, dir'[j].to = i PROVE Real(j)' = Real(i)'
  <2>1. next[j] = i /\ next[j] # 0
    BY <1>5, <1>7, Names
  <2> QED BY <1>3, <1>4, <2>1, FollowLink
<1> QED BY <1>6, <1>7

(* What is known while the folder is under way.                             *)
LEMMA HalfWay ==
  ASSUME IInv, life.pc \in Undone \ {"create"}, Up("life")
  PROVE  /\ life.key \in Keys /\ life.n \in Keys /\ life.n # life.key /\ life.n # 0 /\ life.n <= made /\ life.key <= made
         /\ made \in Keys /\ life.n > life.key
         /\ \A j \in Keys : Moved(j) => j # life.key /\ j # life.n
         /\ \A h \in Keys : Session(h) <=> h = life.key
         /\ reg[life.n] = NoEntry /\ reg[life.key].is = "session" /\ reg[life.key].to = 0
<1>1. life.key \in Keys /\ life.key <= made /\ Session(life.key) /\ reg[life.key].to = 0
  BY LifeFacts DEF Undone
<1>2. life.n \in Keys /\ life.n > life.key /\ life.n <= made /\ ~ Registered(life.n)
  BY DEF IInv, LifeInv
<1>3. life.key \in Nat /\ life.n \in Nat /\ life.n # life.key /\ life.n # 0
  BY <1>1, <1>2, Names DEF Keys
<1>4. \A h \in Keys : Session(h) <=> h = life.key
  BY <1>1, OneSession DEF IInv
<1> QED BY <1>1, <1>2, <1>3, <1>4 DEF IInv, RegInv, Registered, Moved, Session

LEMMA FolderMoves ==
  ASSUME IInv, life.pc \in Undone \ {"create"}, Up("life"), NEW pc \in Undone \ {"create"}, Goes("life", pc),
         setup' = setup \/ Spend("faults"),
         UNCHANGED <<reg, req, rec, grp, made, busy, boot, fired, accepted, calls, fires, harm>>,
         life'.pc = pc /\ life'.key = life.key /\ life'.n = life.n => DirInv'
  PROVE  IInv'
<1>1. /\ ThreadInv' /\ Only("life") /\ life'.pc = pc /\ life'.key = life.key /\ life'.to = life.to
      /\ life'.n = life.n
  <2>1. pc \in MovePcs /\ life.pc \in MovePcs /\ life.pc # "idle" /\ pc # "moving"
    BY DEF Undone, MovePcs
  <2>2. pc \in MovePcs \cup {"moving"}
    BY <2>1
  <2> QED BY <2>1, <2>2, LifeGoes
<1>2. DirInv'
  BY <1>1
<1>3. RegInv' /\ HistoryInv'
  <2>1. setup' \in [Bounds -> Nat]
    BY Spends DEF IInv, HistoryInv, Bounds
  <2> QED BY <2>1, SameReg DEF IInv, HistoryInv
<1>4. LifeInv'
  BY <1>1 DEF IInv, LifeInv, Undone, Registered, Session
<1>5. WorkInv'
  BY <1>1, WorkPlain, OnlyLife DEF IInv, Undone
<1>6. ReqInv'
  BY <1>1, ReqPlain, OnlyLife DEF IInv, Executing, MovePcs, Undone
<1>7. life'.key \in Keys /\ life'.key <= made /\ Registered(life'.key) /\ life'.pc \notin AtWork
  BY <1>1, LifeFacts DEF Undone, AtWork
<1> QED BY <1>1, <1>2, <1>3, <1>4, <1>5, <1>6, <1>7, LifeStep

(* The folder moves to the new key's name, with the links that lead on from it. *)
LEMMA RenameKeeps ==
  ASSUME IInv, life.pc = "transfer", Up("life"), dir[life.n] = NoDir,
         NEW x, x = (IF dir[life.key] = NoDir THEN Folder({}) ELSE dir[life.key]),
         dir' = [dir EXCEPT ![life.n] = x, ![life.key] = NoDir],
         life'.pc = "alias", life'.key = life.key, life'.n = life.n,
         UNCHANGED <<reg, made, accepted, harm>>
  PROVE  DirInv'
<1>1. PICK k \in Keys, n \in Keys : k = life.key /\ n = life.n
  BY HalfWay DEF Undone
<1>2. /\ n # k /\ n # 0 /\ n <= made /\ k <= made /\ made \in Keys
      /\ \A j \in Keys : Moved(j) => j # k /\ j # n
      /\ \A h \in Keys : Session(h) <=> h = k
  BY <1>1, HalfWay DEF Undone
<1>3. /\ dir \in [Keys -> [is : {"none", "real", "link"}, to : 0..MaxKey, box : SUBSET Nat]]
      /\ \A j \in Keys : dir[j].is = "none" => dir[j] = NoDir
      /\ \A j \in Keys : dir[j].is = "link" => dir[j].to \in Keys /\ dir[j].to <= made
      /\ \A j \in Keys : dir[j].is # "link" => dir[j].to = 0
      /\ \A j \in Keys : dir[j].is # "none" => j <= made
      /\ \A j \in Keys : dir[j].to # n
  BY <1>1 DEF IInv, DirInv, DirType, Undone
<1>4. /\ x \in [is : {"none", "real", "link"}, to : 0..MaxKey, box : SUBSET Nat]
      /\ x.is # "none" /\ x.to # n /\ (x.is = "link" => x.to \in Keys /\ x.to <= made)
      /\ (x.is # "link" => x.to = 0) /\ (dir[k].is # "none" => x = dir[k]) /\ x.to \in {0, dir[k].to}
  <2>1. CASE dir[k] = NoDir
    BY <1>1, <1>2, <2>1, Names DEF Folder, NoDir
  <2>2. CASE dir[k] # NoDir
    BY <1>1, <1>3, <2>2
  <2> QED BY <2>1, <2>2
<1>5. /\ dir'[n] = x /\ dir'[k] = NoDir /\ \A j \in Keys \ {k, n} : dir'[j] = dir[j]
      /\ dir' \in [Keys -> [is : {"none", "real", "link"}, to : 0..MaxKey, box : SUBSET Nat]]
      /\ NoDir.is = "none" /\ NoDir.to = 0
  <2>1. NoDir \in [is : {"none", "real", "link"}, to : 0..MaxKey, box : SUBSET Nat] /\ NoDir.is = "none" /\ NoDir.to = 0
    BY Names DEF NoDir
  <2> QED BY <1>1, <1>2, <1>3, <1>4, <2>1
<1>6. DirType'
  <2>1. \A j \in Keys : dir'[j].is = "none" => dir'[j] = NoDir
    BY <1>3, <1>4, <1>5
  <2>2. \A j \in Keys : dir'[j].is = "link" => dir'[j].to \in Keys /\ dir'[j].to <= made
    BY <1>3, <1>4, <1>5
  <2>3. \A j \in Keys : dir'[j].is # "link" => dir'[j].to = 0
    BY <1>3, <1>4, <1>5
  <2>4. \A j \in Keys : dir'[j].is # "none" => j <= made
    BY <1>2, <1>3, <1>5
  <2>5. \A j \in Keys : dir'[j].to # n
    BY <1>2, <1>3, <1>4, <1>5
  <2> QED BY SMTT(30), <1>1, <1>5, <2>1, <2>2, <2>3, <2>4, <2>5 DEF DirType
<1>7. PICK rank \in [Keys -> 0..MaxKey] : Falls(rank)
  BY DEF IInv, DirInv, Ranked
<1>8. /\ \A j \in Keys : rank[j] \in Nat /\ rank[j] + 1 < made
      /\ \A j \in Keys : dir[j].to # 0 => dir[j].to \in Keys /\ rank[dir[j].to] < rank[j]
  BY <1>3, <1>7, Names DEF Falls
<1> DEFINE bump == [j \in Keys |-> IF j = n THEN rank[k] ELSE IF rank[j] >= rank[k] THEN rank[j] + 1 ELSE rank[j]]
<1>9. Ranked'
  <2>1. \A j \in Keys : bump[j] \in Nat /\ bump[j] < made
    BY <1>2, <1>8 DEF Keys
  <2>2. bump \in [Keys -> 0..MaxKey]
    <3>1. \A j \in Keys : bump[j] \in 0..MaxKey
      BY <1>2, <2>1, Names DEF Keys
    <3> QED BY <3>1
  <2>3. ASSUME NEW j \in Keys, dir'[j].to # 0 PROVE bump[dir'[j].to] < bump[j]
    <3>1. CASE j = n
      <4>1. dir[k].to # 0 /\ dir'[j].to = dir[k].to
        BY <1>4, <1>5, <2>3, <3>1
      <4>2. dir[k].to \in Keys /\ rank[dir[k].to] < rank[k] /\ dir[k].to # n
        BY <1>3, <1>8, <4>1
      <4> QED BY <1>8, <3>1, <4>1, <4>2
    <3>2. CASE j # n
      <4>1. j # k /\ dir'[j] = dir[j]
        BY <1>5, <2>3, <3>2
      <4>2. dir[j].to \in Keys /\ rank[dir[j].to] < rank[j] /\ dir[j].to # n
        BY <1>3, <1>8, <2>3, <4>1
      <4>3. rank[dir[j].to] \in Nat /\ rank[j] \in Nat /\ rank[k] \in Nat
        BY <1>8, <4>2
      <4> QED BY <3>2, <4>1, <4>2, <4>3
    <3> QED BY <3>1, <3>2
  <2>4. bump[n] < bump[k]
    BY <1>2, <1>8
  <2> HIDE DEF bump
  <2>5. Falls(bump)'
    BY <1>1, <2>1, <2>3, <2>4 DEF Falls
  <2> QED BY <2>2, <2>5 DEF Ranked
<1>10. ASSUME "torn" \notin harm PROVE Whole'
  <2>1. Whole /\ ~ Renaming /\ Renaming'
    BY <1>10 DEF IInv, DirInv, Renaming
  <2>2. \A j \in Keys : Moved(j) => dir'[j] = Link(reg[j].to)
    BY <1>2, <1>5, <2>1 DEF Whole
  <2>3. ASSUME NEW j \in Keys, dir'[j].is = "link" PROVE dir'[dir'[j].to].is # "none" \/ dir'[j].to = k
    <3>1. PICK i \in Keys : dir[i].is = "link" /\ dir'[j] = dir[i]
      <4>1. CASE j = n
        BY <1>4, <1>5, <2>3, <4>1 DEF Folder
      <4>2. CASE j # n
        BY <1>5, <2>3, <4>2
      <4> QED BY <4>1, <4>2
    <3>2. dir[dir[i].to].is # "none" /\ dir[i].to # n /\ dir[i].to \in Keys
      BY <1>3, <2>1, <3>1 DEF Whole
    <3> QED BY <1>5, <3>1, <3>2
  <2>4. DataAt(k)'
    <3>1. dir[k].is # "none" /\ accepted \subseteq dir[Real(k)].box
      <4>1. Session(k) /\ Named(k) = k
        BY <1>2, <2>1 DEF Named
      <4> QED BY <2>1, <4>1 DEF Whole, DataAt
    <3>2. x = dir[k]
      BY <1>4, <3>1
    <3>3. accepted \subseteq dir'[Real(n)'].box
      <4>1. CASE dir[k].to = 0
        <5>1. Real(k) = k
          BY <1>2, <4>1, RealEnds DEF IInv, DirInv
        <5>2. Real(n)' = n
          BY <1>2, <1>5, <1>6, <1>9, <3>2, <4>1, RealAfter
        <5> QED BY <1>5, <3>1, <3>2, <5>1, <5>2
      <4>2. CASE dir[k].to # 0
        <5>1. PICK t \in Keys : t = dir[k].to
          BY <1>8, <4>2
        <5>2. Real(k) = Real(t)
          BY <1>2, <4>2, <5>1, RealEnds DEF IInv, DirInv
        <5>3. Real(n)' = Real(t)'
          BY <1>2, <1>5, <1>6, <1>9, <3>2, <5>1, RealAfter
        <5> DEFINE S == {j \in Keys : rank[j] < rank[k] /\ j # n}
        <5>4. t \in S
          BY <1>3, <1>8, <4>2, <5>1
        <5>5. \A j \in S : dir'[j] = dir[j] /\ (dir[j].to # 0 => dir[j].to \in S)
          <6>1. \A j \in S : j # k /\ j # n
            BY <1>8
          <6>2. ASSUME NEW j \in S, dir[j].to # 0 PROVE dir[j].to \in S
            BY <1>3, <1>8, <6>2
          <6> QED BY <1>5, <6>1, <6>2
        <5>6. S \in SUBSET Keys /\ \A j \in Keys : dir[j].to \in 0..MaxKey /\ dir'[j].to \in 0..MaxKey
          BY <1>3, <1>5
        <5> HIDE DEF S
        <5>7. Real(t)' = Real(t) /\ Real(t) \in S
          BY <5>4, <5>5, <5>6, RealAgrees
        <5> QED BY ZenonT(60), <3>1, <5>2, <5>3, <5>5, <5>7
      <4> QED BY <4>1, <4>2
    <3>4. Named(k)' = n
      BY <1>1, <2>1 DEF Named
    <3> QED BY <1>4, <1>5, <3>3, <3>4 DEF DataAt
  <2>5. \A h \in Keys : Session(h)' => h = k
    BY <1>2 DEF Session
  <2>6. \A j \in Keys : Moved(j)' <=> Moved(j)
    BY DEF Moved
  <2> QED BY <1>1, <1>5, <2>1, <2>2, <2>3, <2>4, <2>5, <2>6 DEF Whole
<1> QED BY <1>6, <1>9, <1>10 DEF DirInv

LEMMA RenameFolderStep ==
  ASSUME IInv, RenameFolder
  PROVE  IInv'
<1>1. /\ life.pc = "transfer" /\ Up("life")
      /\ UNCHANGED <<reg, req, rec, grp, made, busy, boot, fired, accepted, calls, fires, harm>>
  BY DEF RenameFolder, At, life, history
<1>2. ASSUME Session(life.key), Fresh(life.n), UNCHANGED setup, Goes("life", "alias"),
             dir' = [dir EXCEPT ![life.n] = IF dir[life.key] = NoDir THEN Folder({}) ELSE dir[life.key],
                                ![life.key] = NoDir]
      PROVE  IInv'
  <2>1. PICK x : x = (IF dir[life.key] = NoDir THEN Folder({}) ELSE dir[life.key])
    OBVIOUS
  <2>2. dir' = [dir EXCEPT ![life.n] = x, ![life.key] = NoDir] /\ dir[life.n] = NoDir
    BY <1>2, <2>1 DEF Fresh
  <2>3. life'.pc = "alias" /\ life'.key = life.key /\ life'.n = life.n => DirInv'
    BY <1>1, <2>1, <2>2, RenameKeeps
  <2> QED BY <1>1, <1>2, <2>3, FolderMoves DEF Undone
<1>3. ASSUME setup' = setup \/ Spend("faults"), Goes("life", "delete"), UNCHANGED dir
      PROVE  IInv'
  <2>1. life'.pc = "delete" => DirInv'
    BY <1>1, <1>3, DirPlain DEF IInv, Settled0
  <2> QED BY <1>1, <1>3, <2>1, FolderMoves DEF Undone
<1> QED BY <1>2, <1>3 DEF RenameFolder, Fault

(* The old key's folder name becomes an alias of the new one.               *)
LEMMA AliasKeeps ==
  ASSUME IInv, life.pc = "alias", Up("life"), dir[life.key] = NoDir,
         dir' = [dir EXCEPT ![life.key] = Link(life.n)],
         life'.pc = "save", life'.key = life.key, life'.n = life.n,
         UNCHANGED <<reg, made, accepted, harm>>
  PROVE  DirInv'
<1>1. PICK k \in Keys, n \in Keys : k = life.key /\ n = life.n
  BY HalfWay DEF Undone
<1>2. /\ n # k /\ n # 0 /\ n <= made /\ k <= made /\ made \in Keys
      /\ \A j \in Keys : Moved(j) => j # k /\ j # n
      /\ \A h \in Keys : Session(h) <=> h = k
  BY <1>1, HalfWay DEF Undone
<1>3. /\ dir \in [Keys -> [is : {"none", "real", "link"}, to : 0..MaxKey, box : SUBSET Nat]]
      /\ \A j \in Keys : dir[j].is = "none" => dir[j] = NoDir
      /\ \A j \in Keys : dir[j].is = "link" => dir[j].to \in Keys /\ dir[j].to <= made
      /\ \A j \in Keys : dir[j].is # "link" => dir[j].to = 0
      /\ \A j \in Keys : dir[j].is # "none" => j <= made
      /\ \A j \in Keys \ {k} : dir[j].to # n
  BY <1>1 DEF IInv, DirInv, DirType, Undone
<1>4. PICK x \in [is : {"none", "real", "link"}, to : 0..MaxKey, box : SUBSET Nat] :
        x = Link(n) /\ x.is = "link" /\ x.to = n
  BY <1>1, Names DEF Link, Keys
<1>5. dir'[k] = x /\ \A j \in Keys \ {k} : dir'[j] = dir[j]
  BY <1>1, <1>3, <1>4
<1>6. dir' \in [Keys -> [is : {"none", "real", "link"}, to : 0..MaxKey, box : SUBSET Nat]]
  BY <1>1, <1>3, <1>4
<1>7. DirType'
  <2>1. \A j \in Keys : dir'[j].is = "none" => dir'[j] = NoDir
    BY <1>3, <1>4, <1>5
  <2>2. \A j \in Keys : dir'[j].is = "link" => dir'[j].to \in Keys /\ dir'[j].to <= made
    BY <1>2, <1>3, <1>4, <1>5
  <2>3. \A j \in Keys : dir'[j].is # "link" => dir'[j].to = 0
    BY <1>3, <1>4, <1>5
  <2>4. \A j \in Keys : dir'[j].is # "none" => j <= made
    BY <1>2, <1>3, <1>5
  <2>5. \A j \in Keys \ {k} : dir'[j].to # n
    BY <1>3, <1>5
  <2> QED BY <1>1, <1>4, <1>5, <1>6, <2>1, <2>2, <2>3, <2>4, <2>5 DEF DirType
<1>8. PICK rank \in [Keys -> 0..MaxKey] : Falls(rank)
  BY DEF IInv, DirInv, Ranked
<1>9. /\ \A j \in Keys : rank[j] \in Nat /\ rank[j] < made
      /\ \A j \in Keys : dir[j].to # 0 => dir[j].to \in Keys /\ rank[dir[j].to] < rank[j]
      /\ rank[n] < rank[k]
  BY <1>1, <1>3, <1>8, Names DEF Falls, Renaming
<1>10. Ranked'
  <2>1. \A j \in Keys : dir'[j].to # 0 => rank[dir'[j].to] < rank[j]
    BY <1>4, <1>5, <1>9
  <2>2. Falls(rank)'
    BY <1>9, <2>1 DEF Falls, Renaming
  <2> QED BY <2>2 DEF Ranked
<1>11. ASSUME "torn" \notin harm PROVE Whole'
  <2>1. Whole /\ Renaming /\ ~ Renaming'
    BY <1>11 DEF IInv, DirInv, Renaming
  <2>2. \A j \in Keys : Moved(j) => dir'[j] = Link(reg[j].to)
    BY <1>2, <1>5, <2>1 DEF Whole
  <2>3. dir[n].is # "none" /\ accepted \subseteq dir[Real(n)].box
    <3>1. Session(k) /\ Named(k) = n
      BY <1>1, <1>2, <2>1 DEF Named
    <3> QED BY <2>1, <3>1 DEF Whole, DataAt
  <2>4. ASSUME NEW j \in Keys, dir'[j].is = "link" PROVE dir'[dir'[j].to].is # "none"
    <3>1. CASE j = k
      BY <1>2, <1>4, <1>5, <2>3, <3>1
    <3>2. CASE j # k
      <4>1. dir'[j] = dir[j] /\ dir[j].to \in Keys
        BY <1>3, <1>5, <2>4, <3>2
      <4>2. dir[dir[j].to].is # "none" \/ dir[j].to = k
        BY <1>1, <2>1, <2>4, <4>1 DEF Whole
      <4> QED BY <1>4, <1>5, <4>1, <4>2
    <3> QED BY <3>1, <3>2
  <2>5. DataAt(k)'
    <3>1. Real(k)' = Real(n)'
      BY <1>2, <1>4, <1>5, <1>7, <1>10, RealAfter
    <3> DEFINE S == {j \in Keys : rank[j] <= rank[n]}
    <3>2. n \in S /\ \A j \in S : j # k
      BY <1>9
    <3>3. \A j \in S : dir'[j] = dir[j] /\ (dir[j].to # 0 => dir[j].to \in S)
      BY <1>5, <1>9, <3>2
    <3>4. S \in SUBSET Keys /\ \A j \in Keys : dir[j].to \in 0..MaxKey /\ dir'[j].to \in 0..MaxKey
      BY <1>3, <1>6
    <3> HIDE DEF S
    <3>5. Real(n)' = Real(n) /\ Real(n) \in S
      BY <3>2, <3>3, <3>4, RealAgrees
    <3>6. accepted \subseteq dir'[Real(k)'].box
      BY <2>3, <3>1, <3>3, <3>5
    <3>7. Named(k)' = k
      BY <2>1 DEF Named
    <3> QED BY <1>4, <1>5, <3>6, <3>7 DEF DataAt
  <2>6. \A h \in Keys : Session(h)' => h = k
    BY <1>2 DEF Session
  <2>7. \A j \in Keys : Moved(j)' <=> Moved(j)
    BY DEF Moved
  <2> QED BY <1>1, <2>1, <2>2, <2>4, <2>5, <2>6, <2>7 DEF Whole
<1> QED BY <1>7, <1>10, <1>11 DEF DirInv

(* The folders stay as they are between two steps of the rename.            *)
LEMMA SameFolders ==
  ASSUME DirInv, UNCHANGED <<reg, dir, made, accepted, harm>>, life'.key = life.key, life'.n = life.n,
         \/ life.pc \in {"alias", "putback"} /\ life'.pc \in {"alias", "putback"}
         \/ life.pc \in {"save", "unalias"} /\ life'.pc \in {"save", "unalias"}
  PROVE  DirInv'
<1>1. DirType'
  BY DEF DirInv, DirType, Undone
<1>2. Ranked'
  <2>1. PICK rank \in [Keys -> 0..MaxKey] : Falls(rank)
    BY DEF DirInv, Ranked
  <2>2. Falls(rank)'
    BY <2>1 DEF Falls, Renaming
  <2> QED BY <2>2 DEF Ranked
<1>3. "torn" \notin harm' => Whole'
  BY DEF DirInv, Whole, Renaming, Moved, Session, DataAt, Named, Real
<1> QED BY <1>1, <1>2, <1>3 DEF DirInv

LEMMA AliasFolderStep ==
  ASSUME IInv, AliasFolder
  PROVE  IInv'
<1>1. /\ life.pc = "alias" /\ Up("life")
      /\ UNCHANGED <<reg, req, rec, grp, made, busy, boot, fired, accepted, calls, fires, harm>>
  BY DEF AliasFolder, At, life, history
<1>2. ASSUME dir[life.key] = NoDir, UNCHANGED setup, Goes("life", "save"),
             dir' = [dir EXCEPT ![life.key] = Link(life.n)]
      PROVE  IInv'
  <2>1. life'.pc = "save" /\ life'.key = life.key /\ life'.n = life.n => DirInv'
    BY <1>1, <1>2, AliasKeeps
  <2> QED BY <1>1, <1>2, <2>1, FolderMoves DEF Undone
<1>3. ASSUME setup' = setup \/ Spend("faults"), Goes("life", "putback"), UNCHANGED dir
      PROVE  IInv'
  <2>1. life'.pc = "putback" /\ life'.key = life.key /\ life'.n = life.n => DirInv'
    BY <1>1, <1>3, SameFolders DEF IInv
  <2> QED BY <1>1, <1>3, <2>1, FolderMoves DEF Undone
<1> QED BY <1>2, <1>3 DEF AliasFolder, Fault

(* The alias is taken away: the name is free, the folder has the other one. *)
LEMMA UnlinkKeeps ==
  ASSUME IInv, life.pc = "unalias", Up("life"), dir' = [dir EXCEPT ![life.key] = NoDir],
         life'.pc = "putback", life'.key = life.key, life'.n = life.n,
         UNCHANGED <<reg, made, accepted, harm>>
  PROVE  DirInv'
<1>1. PICK k \in Keys, n \in Keys : k = life.key /\ n = life.n
  BY HalfWay DEF Undone
<1>2. /\ n # k /\ n # 0 /\ n <= made /\ k <= made /\ made \in Keys
      /\ \A j \in Keys : Moved(j) => j # k /\ j # n
      /\ \A h \in Keys : Session(h) <=> h = k
  BY <1>1, HalfWay DEF Undone
<1>3. /\ dir \in [Keys -> [is : {"none", "real", "link"}, to : 0..MaxKey, box : SUBSET Nat]]
      /\ \A j \in Keys : dir[j].is = "none" => dir[j] = NoDir
      /\ \A j \in Keys : dir[j].is = "link" => dir[j].to \in Keys /\ dir[j].to <= made
      /\ \A j \in Keys : dir[j].is # "link" => dir[j].to = 0
      /\ \A j \in Keys : dir[j].is # "none" => j <= made
      /\ \A j \in Keys \ {k} : dir[j].to # n
      /\ dir[k].is = "link" /\ dir[k].to = n
  BY <1>1 DEF IInv, DirInv, DirType, Undone, Link
<1>4. PICK x \in [is : {"none", "real", "link"}, to : 0..MaxKey, box : SUBSET Nat] :
        x = NoDir /\ x.is = "none" /\ x.to = 0
  BY Names DEF NoDir
<1>5. dir'[k] = x /\ \A j \in Keys \ {k} : dir'[j] = dir[j]
  BY <1>1, <1>3, <1>4
<1>6. dir' \in [Keys -> [is : {"none", "real", "link"}, to : 0..MaxKey, box : SUBSET Nat]]
  BY <1>1, <1>3, <1>4
<1>7. DirType'
  <2>1. \A j \in Keys : dir'[j].is = "none" => dir'[j] = NoDir
    BY <1>3, <1>4, <1>5
  <2>2. \A j \in Keys : dir'[j].is = "link" => dir'[j].to \in Keys /\ dir'[j].to <= made
    BY <1>3, <1>4, <1>5
  <2>3. \A j \in Keys : dir'[j].is # "link" => dir'[j].to = 0
    BY <1>3, <1>4, <1>5
  <2>4. \A j \in Keys : dir'[j].is # "none" => j <= made
    BY <1>3, <1>4, <1>5
  <2>5. \A j \in Keys \ {k} : dir'[j].to # n
    BY <1>3, <1>5
  <2> QED BY <1>1, <1>6, <2>1, <2>2, <2>3, <2>4, <2>5 DEF DirType
<1>8. PICK rank \in [Keys -> 0..MaxKey] : Falls(rank)
  BY DEF IInv, DirInv, Ranked
<1>9. /\ \A j \in Keys : rank[j] \in Nat /\ rank[j] < made
      /\ \A j \in Keys : dir[j].to # 0 => dir[j].to \in Keys /\ rank[dir[j].to] < rank[j]
      /\ rank[n] < rank[k]
  BY <1>2, <1>3, <1>8, Names DEF Falls
<1>10. Ranked'
  <2>1. \A j \in Keys : dir'[j].to # 0 => rank[dir'[j].to] < rank[j]
    BY <1>4, <1>5, <1>9
  <2>2. Falls(rank)'
    BY <1>1, <1>9, <2>1 DEF Falls
  <2> QED BY <2>2 DEF Ranked
<1>11. ASSUME "torn" \notin harm PROVE Whole'
  <2>1. Whole /\ ~ Renaming /\ Renaming'
    BY <1>11 DEF IInv, DirInv, Renaming
  <2>2. \A j \in Keys : Moved(j) => dir'[j] = Link(reg[j].to)
    BY <1>2, <1>5, <2>1 DEF Whole
  <2>3. \A j \in Keys : dir[j].is = "link" => dir[j].to \in Keys /\ dir[dir[j].to].is # "none"
    BY <1>3, <2>1 DEF Whole
  <2>4. \A j \in Keys : dir'[j].is = "link" => dir'[dir'[j].to].is # "none" \/ dir'[j].to = k
    BY <1>4, <1>5, <2>3
  <2>5. DataAt(k)'
    <3>1. accepted \subseteq dir[Real(k)].box
      <4>1. Session(k) /\ Named(k) = k
        BY <1>2, <2>1 DEF Named
      <4> QED BY <2>1, <4>1 DEF Whole, DataAt
    <3>2. Real(k) = Real(n)
      BY <1>2, <1>3, RealEnds DEF IInv, DirInv
    <3> DEFINE S == {j \in Keys : rank[j] <= rank[n]}
    <3>3. n \in S /\ \A j \in S : j # k
      BY <1>9
    <3>4. \A j \in S : dir'[j] = dir[j] /\ (dir[j].to # 0 => dir[j].to \in S)
      BY <1>5, <1>9, <3>3
    <3>5. S \in SUBSET Keys /\ \A j \in Keys : dir[j].to \in 0..MaxKey /\ dir'[j].to \in 0..MaxKey
      BY <1>3, <1>6
    <3> HIDE DEF S
    <3>6. Real(n)' = Real(n) /\ Real(n) \in S
      BY <3>3, <3>4, <3>5, RealAgrees
    <3>7. accepted \subseteq dir'[Real(n)'].box
      BY <3>1, <3>2, <3>4, <3>6
    <3>8. Named(k)' = n /\ dir'[n].is # "none"
      BY <1>1, <1>2, <1>3, <1>5, <2>1, <2>3 DEF Named
    <3> QED BY <3>7, <3>8 DEF DataAt
  <2>6. \A h \in Keys : Session(h)' => h = k
    BY <1>2 DEF Session
  <2>7. \A j \in Keys : Moved(j)' <=> Moved(j)
    BY DEF Moved
  <2> QED BY <1>1, <1>4, <1>5, <2>1, <2>2, <2>4, <2>5, <2>6, <2>7 DEF Whole
<1> QED BY <1>7, <1>10, <1>11 DEF DirInv

LEMMA UnlinkAliasStep ==
  ASSUME IInv, UnlinkAlias
  PROVE  IInv'
<1>1. /\ life.pc = "unalias" /\ Up("life") /\ Goes("life", "putback") /\ dir' = [dir EXCEPT ![life.key] = NoDir]
      /\ UNCHANGED <<setup, reg, req, rec, grp, made, busy, boot, fired, accepted, calls, fires, harm>>
  BY DEF UnlinkAlias, At, life, history
<1>2. life'.pc = "putback" /\ life'.key = life.key /\ life'.n = life.n => DirInv'
  BY <1>1, UnlinkKeeps
<1> QED BY <1>1, <1>2, FolderMoves DEF Undone

(* The folder goes back to the name that the registry still has.            *)
LEMMA PutBackKeeps ==
  ASSUME IInv, life.pc = "putback", Up("life"), dir[life.key].box = {},
         dir' = [dir EXCEPT ![life.key] = dir[life.n], ![life.n] = NoDir],
         life'.pc = "delete", life'.key = life.key, life'.n = life.n,
         UNCHANGED <<reg, made, accepted, harm>>
  PROVE  DirInv'
<1>1. PICK k \in Keys, n \in Keys : k = life.key /\ n = life.n
  BY HalfWay DEF Undone
<1>2. /\ n # k /\ n # 0 /\ n <= made /\ k <= made /\ made \in Keys
      /\ \A j \in Keys : Moved(j) => j # k /\ j # n
      /\ \A h \in Keys : Session(h) <=> h = k
  BY <1>1, HalfWay DEF Undone
<1>3. /\ dir \in [Keys -> [is : {"none", "real", "link"}, to : 0..MaxKey, box : SUBSET Nat]]
      /\ \A j \in Keys : dir[j].is = "none" => dir[j] = NoDir
      /\ \A j \in Keys : dir[j].is = "link" => dir[j].to \in Keys /\ dir[j].to <= made
      /\ \A j \in Keys : dir[j].is # "link" => dir[j].to = 0
      /\ \A j \in Keys : dir[j].is # "none" => j <= made
      /\ \A j \in Keys \ {k} : dir[j].to # n
  BY <1>1 DEF IInv, DirInv, DirType, Undone
<1>4. PICK x \in [is : {"none", "real", "link"}, to : 0..MaxKey, box : SUBSET Nat] :
        x = NoDir /\ x.is = "none" /\ x.to = 0
  BY Names DEF NoDir
<1>5. dir'[k] = dir[n] /\ dir'[n] = x /\ \A j \in Keys \ {k, n} : dir'[j] = dir[j]
  BY <1>1, <1>2, <1>3, <1>4
<1>6. dir' \in [Keys -> [is : {"none", "real", "link"}, to : 0..MaxKey, box : SUBSET Nat]]
  BY <1>1, <1>3, <1>4
<1>7. DirType'
  <2>1. \A j \in Keys : dir'[j].is = "none" => dir'[j] = NoDir
    BY <1>3, <1>4, <1>5
  <2>2. \A j \in Keys : dir'[j].is = "link" => dir'[j].to \in Keys /\ dir'[j].to <= made
    BY <1>3, <1>4, <1>5
  <2>3. \A j \in Keys : dir'[j].is # "link" => dir'[j].to = 0
    BY <1>3, <1>4, <1>5
  <2>4. \A j \in Keys : dir'[j].is # "none" => j <= made
    BY <1>2, <1>3, <1>4, <1>5
  <2> QED BY <1>6, <2>1, <2>2, <2>3, <2>4 DEF DirType
<1>8. PICK rank \in [Keys -> 0..MaxKey] : Falls(rank)
  BY DEF IInv, DirInv, Ranked
<1>9. /\ \A j \in Keys : rank[j] \in Nat /\ rank[j] < made
      /\ \A j \in Keys : dir[j].to # 0 => dir[j].to \in Keys /\ rank[dir[j].to] < rank[j]
      /\ rank[n] < rank[k]
  BY <1>1, <1>3, <1>8, Names DEF Falls, Renaming
<1>10. Ranked'
  <2>1. ASSUME NEW j \in Keys, dir'[j].to # 0 PROVE rank[dir'[j].to] < rank[j]
    <3>1. CASE j = k
      <4>1. dir[n].to \in Keys /\ rank[dir[n].to] < rank[n]
        BY <1>5, <1>9, <2>1, <3>1
      <4> QED BY <1>5, <1>9, <3>1, <4>1
    <3>2. CASE j # k
      BY <1>4, <1>5, <1>9, <2>1, <3>2
    <3> QED BY <3>1, <3>2
  <2>2. Falls(rank)'
    BY <1>9, <2>1 DEF Falls, Renaming
  <2> QED BY <2>2 DEF Ranked
<1>11. ASSUME "torn" \notin harm PROVE Whole'
  <2>1. Whole /\ Renaming /\ ~ Renaming'
    BY <1>11 DEF IInv, DirInv, Renaming
  <2>2. \A j \in Keys : Moved(j) => dir'[j] = Link(reg[j].to)
    BY <1>2, <1>5, <2>1 DEF Whole
  <2>3. dir[n].is # "none" /\ accepted \subseteq dir[Real(n)].box
    <3>1. Session(k) /\ Named(k) = n
      BY <1>1, <1>2, <2>1 DEF Named
    <3> QED BY <2>1, <3>1 DEF Whole, DataAt
  <2>4. ASSUME NEW j \in Keys, dir'[j].is = "link" PROVE dir'[dir'[j].to].is # "none"
    <3>1. PICK i \in Keys : dir[i].is = "link" /\ dir'[j] = dir[i] /\ i # k
      <4>1. CASE j = k
        BY <1>2, <1>5, <2>4, <4>1
      <4>2. CASE j # k
        BY <1>4, <1>5, <2>4, <4>2
      <4> QED BY <4>1, <4>2
    <3>2. dir[i].to \in Keys /\ dir[i].to # n
      BY <1>3, <3>1
    <3>3. PICK t \in Keys : t = dir[i].to
      BY <3>2
    <3>4. dir[t].is # "none" \/ t = k
      BY <1>1, <2>1, <3>1, <3>3 DEF Whole
    <3>5. dir'[t].is # "none"
      <4>1. dir'[t] = dir[n] \/ (t # k /\ dir'[t] = dir[t])
        BY <1>5, <3>2, <3>3
      <4> QED BY <2>3, <3>4, <4>1
    <3> QED BY <3>1, <3>3, <3>5
  <2>5. DataAt(k)'
    <3>1. accepted \subseteq dir'[Real(k)'].box
      <4>1. CASE dir[n].to = 0
        <5>1. Real(n) = n
          BY <1>2, <4>1, RealEnds DEF IInv, DirInv
        <5>2. Real(k)' = k
          BY <1>2, <1>5, <1>7, <1>10, <4>1, RealAfter
        <5> QED BY <1>5, <2>3, <5>1, <5>2
      <4>2. CASE dir[n].to # 0
        <5>1. PICK t \in Keys : t = dir[n].to
          BY <1>9, <4>2
        <5>2. Real(n) = Real(t)
          BY <1>2, <4>2, <5>1, RealEnds DEF IInv, DirInv
        <5>3. Real(k)' = Real(t)'
          BY <1>2, <1>5, <1>7, <1>10, <5>1, RealAfter
        <5> DEFINE S == {j \in Keys : rank[j] < rank[n]}
        <5>4. t \in S /\ \A j \in S : j # k /\ j # n
          BY <1>9, <4>2, <5>1
        <5>5. \A j \in S : dir'[j] = dir[j] /\ (dir[j].to # 0 => dir[j].to \in S)
          <6>1. ASSUME NEW j \in S, dir[j].to # 0 PROVE dir[j].to \in S
            <7>1. dir[j].to \in Keys /\ rank[dir[j].to] < rank[j] /\ rank[j] < rank[n]
              BY <1>9, <6>1
            <7>2. rank[dir[j].to] \in Nat /\ rank[j] \in Nat /\ rank[n] \in Nat
              BY <1>9, <7>1
            <7> QED BY <7>1, <7>2
          <6>2. \A j \in S : dir'[j] = dir[j]
            BY <1>5, <5>4
          <6> QED BY <6>1, <6>2
        <5>6. S \in SUBSET Keys /\ \A j \in Keys : dir[j].to \in 0..MaxKey /\ dir'[j].to \in 0..MaxKey
          BY <1>3, <1>6
        <5> HIDE DEF S
        <5>7. Real(t)' = Real(t) /\ Real(t) \in S
          BY <5>4, <5>5, <5>6, RealAgrees
        <5> QED BY ZenonT(60), <2>3, <5>2, <5>3, <5>5, <5>7
      <4> QED BY <4>1, <4>2
    <3>2. Named(k)' = k
      BY <2>1 DEF Named
    <3> QED BY <1>5, <2>3, <3>1, <3>2 DEF DataAt
  <2>6. \A h \in Keys : Session(h)' => h = k
    BY <1>2 DEF Session
  <2>7. \A j \in Keys : Moved(j)' <=> Moved(j)
    BY DEF Moved
  <2> QED BY <1>1, <2>1, <2>2, <2>4, <2>5, <2>6, <2>7 DEF Whole
<1> QED BY <1>7, <1>10, <1>11 DEF DirInv

LEMMA PutBackStep ==
  ASSUME IInv, PutBack
  PROVE  IInv'
<1>1. /\ life.pc = "putback" /\ Up("life") /\ Goes("life", "delete")
      /\ dir' = IF dir[life.key].box # {} THEN dir
                ELSE [dir EXCEPT ![life.key] = dir[life.n], ![life.n] = NoDir]
      /\ UNCHANGED <<setup, reg, req, rec, grp, made, busy, boot, fired, accepted, calls, fires, harm>>
  BY DEF PutBack, At, life, history
<1>2. ASSUME life'.pc = "delete", life'.key = life.key, life'.n = life.n PROVE DirInv'
  <2>1. CASE dir[life.key].box = {}
    BY <1>1, <1>2, <2>1, PutBackKeeps
  <2>2. CASE dir[life.key].box # {}
    <3>1. dir' = dir
      BY <1>1, <2>2
    <3>2. "torn" \in harm
      BY <1>1, <2>2 DEF IInv, DirInv, Whole, Renaming, NoDir, Folder
    <3>3. DirType'
      BY <1>1, <1>2, <3>1 DEF IInv, DirInv, DirType
    <3>4. Ranked'
      <4>1. PICK rank \in [Keys -> 0..MaxKey] : Falls(rank)
        BY DEF IInv, DirInv, Ranked
      <4>2. Falls(rank)'
        BY <1>1, <1>2, <3>1, <4>1 DEF Falls, Renaming
      <4> QED BY <4>2 DEF Ranked
    <3> QED BY <1>1, <3>2, <3>3, <3>4 DEF DirInv
  <2> QED BY <2>1, <2>2
<1> QED BY <1>1, <1>2, FolderMoves DEF Undone

---------------------------------------------------------------------------
(* The move: the cutover                                                    *)

(* Nobody is at work on the topic while its move is under way.              *)
LEMMA NobodyAtWork ==
  ASSUME IInv, life.pc \in Undone, NEW t \in Threads \ {"halt"}, thread[t].pc \in AtWork
  PROVE  FALSE
<1>1. t # "life"
  <2>1. life.pc \notin AtWork
    BY DEF Undone, AtWork
  <2> QED BY <2>1 DEF life
<1>2. Fits(t, thread[t]) /\ Session(thread[t].key)
  BY DEF IInv, ThreadInv, KnownInv, Knows
<1>3. thread[t].key \in Keys /\ "topic" \in thread[t].has
  BY <1>1, <1>2, Names DEF Fits, Places, LocksAt, Bystanders, AtWork, Threads, Workers
<1> QED BY <1>1, <1>2, <1>3, WritersAlone DEF Holds

(* The session's entry goes to the new key, and the old key points to it.   *)
CutOver(k, n) == reg' = [reg EXCEPT ![n] = reg[k], ![k] = Tombstone(n)]
LEMMA CutOverReg ==
  ASSUME IInv, life.pc = "save", Up("life"), NEW k \in Keys, NEW n \in Keys, k = life.key, n = life.n,
         CutOver(k, n), UNCHANGED <<made, grp>>
  PROVE  /\ RegInv'
         /\ reg'[k] = Tombstone(n) /\ Moved(k)' /\ reg'[k].to = n /\ Session(n)' /\ reg'[n].to = 0
         /\ \A j \in Keys \ {k, n} : reg'[j] = reg[j]
         /\ \A j \in Keys : Registered(j) => Registered(j)'
<1>1. /\ n # k /\ n # 0 /\ n <= made /\ k <= made /\ made \in Keys /\ n > k
      /\ \A j \in Keys : Moved(j) => j # k /\ j # n
      /\ \A h \in Keys : Session(h) <=> h = k
      /\ reg[n] = NoEntry /\ reg[k].is = "session" /\ reg[k].to = 0
  BY HalfWay DEF Undone
<1>2. reg \in [Keys -> [is : {"none", "session", "moved"}, to : 0..MaxKey, owed : BOOLEAN]]
  BY DEF IInv, RegInv
<1>3. PICK x \in [is : {"none", "session", "moved"}, to : 0..MaxKey, owed : BOOLEAN] :
        x = Tombstone(n) /\ x.is = "moved" /\ x.to = n
  <2>1. n \in 0..MaxKey /\ FALSE \in BOOLEAN
    BY Names DEF Keys
  <2>2. Tombstone(n).is = "moved" /\ Tombstone(n).to = n
    BY DEF Tombstone
  <2>3. Tombstone(n) \in [is : {"none", "session", "moved"}, to : 0..MaxKey, owed : BOOLEAN]
    BY <2>1 DEF Tombstone
  <2> QED BY <2>2, <2>3
<1>4. reg' \in [Keys -> [is : {"none", "session", "moved"}, to : 0..MaxKey, owed : BOOLEAN]]
  BY <1>2, <1>3 DEF CutOver
<1>5. reg'[k] = x /\ reg'[n] = reg[k] /\ \A j \in Keys \ {k, n} : reg'[j] = reg[j]
  BY <1>1, <1>2, <1>3 DEF CutOver
<1>6. Moved(k)' /\ reg'[k].to = n /\ Session(n)' /\ reg'[n].to = 0 /\ Registered(k)' /\ Registered(n)'
  BY <1>1, <1>3, <1>5 DEF Moved, Session, Registered
<1>7. \A j \in Keys : Registered(j) => Registered(j)'
  BY <1>5, <1>6 DEF Registered
<1>8. RegInv'
  <2>1. \A j \in Keys : ~ Registered(j)' => reg'[j] = NoEntry
    <3>1. \A j \in Keys : ~ Registered(j)' => j \notin {k, n}
      BY <1>6
    <3> QED BY <1>5, <3>1 DEF IInv, RegInv, Registered
  <2>2. ASSUME NEW j \in Keys, Moved(j)' PROVE reg'[j].to \in Keys /\ reg'[j].to > j /\ reg'[reg'[j].to].is # "none"
    <3>1. CASE j = k
      BY <1>1, <1>6, <3>1 DEF Registered
    <3>2. CASE j # k
      <4>1. j # n
        BY <1>6, <2>2 DEF Session, Moved
      <4>2. Moved(j) /\ reg'[j] = reg[j]
        BY <1>5, <2>2, <3>2, <4>1 DEF Moved
      <4>3. PICK i \in Keys : i = reg[j].to /\ i > j /\ Registered(i)
        BY <4>2 DEF IInv, RegInv
      <4>4. reg'[i].is # "none" /\ reg'[j].to = i
        BY <1>7, <4>2, <4>3 DEF Registered
      <4> QED BY <4>3, <4>4
    <3> QED BY <3>1, <3>2
  <2>3. \A j \in Keys : ~ Moved(j)' => reg'[j].to = 0
    <3>1. \A j \in Keys \ {k, n} : ~ Moved(j)' => reg'[j].to = 0
      BY <1>5 DEF IInv, RegInv, Moved
    <3> QED BY <1>6, <3>1
  <2>4. \A j \in Keys : Registered(j)' => j <= made
    BY <1>1, <1>5 DEF IInv, RegInv, Registered
  <2>5. \A j \in Keys : Session(j)' <=> j = n
    <3>1. \A j \in Keys \ {k, n} : ~ Session(j)'
      BY <1>1, <1>5 DEF Session
    <3>2. ~ Session(k)'
      BY <1>6 DEF Session, Moved
    <3> QED BY <1>6, <3>1, <3>2
  <2>6. made' \in Keys /\ grp' \in [Keys -> Groups \cup {"-"}] /\ \A j \in Keys : grp'[j] # "-" => j <= made'
    BY DEF IInv, RegInv
  <2>7. /\ \A j \in Keys : ~ Registered(j)' => reg'[j] = NoEntry
        /\ \A j \in Keys : Registered(j)' => j <= made'
    BY <2>1, <2>4
  <2> QED BY <1>4, <2>2, <2>3, <2>5, <2>6, <2>7 DEF RegInv, Registered
<1> QED BY <1>3, <1>5, <1>6, <1>7, <1>8

LEMMA CutOverDir ==
  ASSUME IInv, life.pc = "save", Up("life"), NEW k \in Keys, NEW n \in Keys, k = life.key, n = life.n,
         reg'[k] = Tombstone(n), reg'[k].to = n, Session(n)', RegInv',
         \A j \in Keys \ {k, n} : reg'[j] = reg[j],
         life'.pc = "record", UNCHANGED <<dir, made, accepted, harm>>
  PROVE  DirInv'
<1>1. /\ n # k /\ n # 0 /\ made \in Keys /\ \A h \in Keys : Session(h) <=> h = k
  BY HalfWay DEF Undone
<1>2. dir[k] = Link(n) /\ dir[k].is = "link" /\ dir[k].to = n
  BY DEF IInv, DirInv, DirType, Link
<1>3. DirType'
  BY DEF IInv, DirInv, DirType, Undone
<1>4. Ranked'
  <2>1. PICK rank \in [Keys -> 0..MaxKey] : Falls(rank)
    BY DEF IInv, DirInv, Ranked
  <2>2. Falls(rank)'
    BY <2>1 DEF Falls, Renaming
  <2> QED BY <2>2 DEF Ranked
<1>5. ASSUME "torn" \notin harm PROVE Whole'
  <2>1. Whole /\ ~ Renaming /\ ~ Renaming'
    BY <1>5 DEF IInv, DirInv, Renaming
  <2>2. ASSUME NEW j \in Keys, Moved(j)' PROVE dir[j] = Link(reg'[j].to)
    <3>1. j # n
      BY <2>2 DEF Session, Moved
    <3>2. CASE j = k
      BY <1>2, <3>2
    <3>3. CASE j # k
      <4>1. reg'[j] = reg[j]
        BY <3>1, <3>3
      <4> QED BY <2>1, <2>2, <4>1 DEF Whole, Moved
    <3> QED BY <3>2, <3>3
  <2>3. DataAt(n)'
    <3>1. Session(k) /\ Named(k) = k
      BY <1>1, <2>1 DEF Named
    <3>2. accepted \subseteq dir[Real(k)].box
      BY <2>1, <3>1 DEF Whole, DataAt
    <3>3. Real(k) = Real(n)
      BY <1>1, <1>2, RealEnds DEF IInv, DirInv
    <3>4. dir[n].is # "none"
      BY <1>2, <2>1 DEF Whole
    <3>5. Named(n)' = n /\ Real(n)' = Real(n)
      BY <2>1 DEF Named, Real
    <3> QED BY <3>2, <3>3, <3>4, <3>5 DEF DataAt
  <2>4. \A h \in Keys : Session(h)' => h = n
    BY DEF RegInv, Session
  <2> QED BY <2>1, <2>2, <2>3, <2>4 DEF Whole
<1> QED BY <1>3, <1>4, <1>5 DEF DirInv

LEMMA SaveRegistryStep ==
  ASSUME IInv, SaveRegistry
  PROVE  IInv'
<1>1. /\ life.pc = "save" /\ Up("life")
      /\ UNCHANGED <<dir, req, rec, grp, made, busy, boot, fired, accepted, calls, fires, harm>>
  BY DEF SaveRegistry, At, life, history
<1>2. ASSUME setup' = setup \/ Spend("faults"), Goes("life", "unalias"), UNCHANGED reg
      PROVE  IInv'
  <2>1. life'.pc = "unalias" /\ life'.key = life.key /\ life'.n = life.n => DirInv'
    BY <1>1, <1>2, SameFolders DEF IInv
  <2> QED BY <1>1, <1>2, <2>1, FolderMoves DEF Undone
<1>3. ASSUME CutOver(life.key, life.n), Goes("life", "record"), UNCHANGED setup
      PROVE  IInv'
  <2>1. PICK k \in Keys, n \in Keys : k = life.key /\ n = life.n
    BY <1>1, HalfWay DEF Undone
  <2>2. /\ n # k /\ n # 0 /\ n <= made /\ k <= made /\ made \in Keys
        /\ \A j \in Keys : Moved(j) => j # k /\ j # n
        /\ \A h \in Keys : Session(h) <=> h = k
        /\ reg[n] = NoEntry /\ reg[k].to = 0
    BY <1>1, <2>1, HalfWay DEF Undone
  <2>3. /\ ThreadInv' /\ Only("life") /\ life'.pc = "record" /\ life'.key = k /\ life'.to = life.to /\ life'.n = n
    BY <1>1, <1>3, <2>1, LifeGoes DEF MovePcs
  <2>4. /\ RegInv'
        /\ reg'[k] = Tombstone(n) /\ Moved(k)' /\ reg'[k].to = n /\ Session(n)' /\ reg'[n].to = 0
        /\ \A j \in Keys \ {k, n} : reg'[j] = reg[j]
        /\ \A j \in Keys : Registered(j) => Registered(j)'
    BY <1>1, <1>3, <2>1, CutOverReg
  <2>5. DirInv'
    BY <1>1, <2>1, <2>3, <2>4, CutOverDir
  <2>6. KnownInv'
    <3>1. ASSUME NEW t \in Threads \ {"life"} PROVE Knows(t)'
      <4>1. thread'[t] = thread[t] /\ Knows(t) /\ Fits(t, thread[t])
        BY <2>3, <3>1 DEF Only, IInv, KnownInv, ThreadInv
      <4>2. Resolved(t) => thread[t].key \in Keys
        BY <4>1, Names DEF Resolved, Fits, AllPcs, MovePcs, AtWork
      <4>3. t # "halt" => thread[t].pc \notin AtWork
        BY <1>1, <3>1, NobodyAtWork DEF Undone
      <4>4. Resolved(t)' = Resolved(t)
        BY <4>1 DEF Resolved
      <4> QED BY <1>1, <2>4, <4>1, <4>2, <4>3, <4>4 DEF Knows
    <3>2. Knows("life")'
      <4>1. k <= made' /\ Registered(k)' /\ thread'["life"].key = k /\ thread'["life"].pc \notin AtWork
        BY <1>1, <2>2, <2>3, <2>4 DEF life, AtWork, Registered, Moved
      <4> QED BY <4>1 DEF Knows
    <3> QED BY <3>1, <3>2 DEF KnownInv
  <2>7. grp[n] = life.to
    BY <1>1, <2>1 DEF IInv, LifeInv, Undone
  <2>8. LifeInv'
    BY <1>1, <2>3, <2>4, <2>7 DEF LifeInv, Undone
  <2>9. ReqInv'
    <3>1. req[k].state # "done" /\ (req[k].state = "running" => req[k].to = life.to)
      BY <1>1, <2>1 DEF IInv, ReqInv, Executing, MovePcs
    <3>2. \A j \in Keys \ {k} : reg'[j].to = reg[j].to /\ (Moved(j)' => Moved(j))
      <4>1. reg[n].to = 0
        BY <2>2 DEF NoEntry
      <4>2. ~ Moved(n)'
        BY <2>4 DEF Moved, Session
      <4> QED BY <2>4, <4>1, <4>2 DEF Moved
    <3>3. FileTrue'
      <4>1. SUFFICES ASSUME "pointer" \notin harm
                     PROVE  /\ \A j \in Keys : req[j].state = "done" => req[j].res = reg'[j].to
                            /\ \A j \in Keys : req[j].state \in {"running", "done"} /\ Moved(j)'
                                                 => grp[reg'[j].to] = req[j].to
        BY <1>1 DEF FileTrue
      <4>2. /\ \A j \in Keys : req[j].state = "done" => req[j].res = reg[j].to
            /\ \A j \in Keys : req[j].state \in {"running", "done"} /\ Moved(j) => grp[reg[j].to] = req[j].to
        BY <4>1 DEF IInv, ReqInv, FileTrue
      <4>3. \A j \in Keys : req[j].state = "done" => req[j].res = reg'[j].to
        BY <3>1, <3>2, <4>2
      <4>4. \A j \in Keys : req[j].state \in {"running", "done"} /\ Moved(j)' => grp[reg'[j].to] = req[j].to
        BY <2>4, <2>7, <3>1, <3>2, <4>2
      <4> QED BY <4>3, <4>4
    <3>4. ASSUME NEW o \in Operators PROVE ToldTrue(o)'
      <4>1. thread'[o] = thread[o] /\ ToldTrue(o) /\ o \in Threads
        BY <2>3, OnlyLife, Names DEF IInv, ReqInv
      <4>2. SUFFICES ASSUME "pointer" \notin harm, thread[o].pc = "told"
                     PROVE  /\ thread[o].n \in Keys /\ reg'[thread[o].n].is # "none"
                            /\ reg'[thread[o].key].to = thread[o].n /\ grp[thread[o].n] = thread[o].to
        BY <1>1, <4>1 DEF ToldTrue, Registered
      <4>3. /\ thread[o].n \in Keys /\ Registered(thread[o].n)
            /\ reg[thread[o].key].to = thread[o].n /\ grp[thread[o].n] = thread[o].to
        BY <4>1, <4>2 DEF ToldTrue
      <4>4. thread[o].key \in Keys
        BY <4>1, <4>2 DEF IInv, ThreadInv, Fits
      <4>5. PICK i \in Keys : i = thread[o].key
        BY <4>4
      <4>6. i # k
        BY <2>2, <4>3, <4>5, Names
      <4>7. reg'[i].to = reg[i].to
        BY <3>2, <4>6
      <4>8. PICK j \in Keys : j = thread[o].n
        BY <4>3
      <4>9. reg'[j].is # "none"
        BY <2>4, <4>3, <4>8 DEF Registered
      <4> QED BY <4>3, <4>5, <4>7, <4>8, <4>9
    <3> QED BY <1>1, <2>3, <3>1, <3>3, <3>4, <2>1 DEF IInv, ReqInv, Executing, MovePcs
  <2>10. WorkInv'
    <3>1. busy = {}
      BY <1>1, <2>1, <2>2 DEF IInv, WorkInv, Undone
    <3>2. "left" \notin harm => \A j \in rec : j = k
      BY <1>1, <2>2 DEF IInv, WorkInv
    <3>3. \A j \in fired : j \in Keys /\ Registered(j)'
      BY <2>4 DEF IInv, WorkInv
    <3>4. thread'["warn"] = thread["warn"]
      BY <2>3, OnlyLife
    <3>5. thread["warn"].pc \in {"known", "in", "act"} => thread["warn"].key # n
      <4>1. "warn" \in Threads /\ Fits("warn", thread["warn"]) /\ Knows("warn")
        BY Names DEF IInv, ThreadInv, KnownInv
      <4>2. thread["warn"].pc = "in" => thread["warn"].has = {"topic"}
        BY <4>1 DEF Fits, LocksAt, Bystanders
      <4>3. thread["warn"].pc \in {"known", "in"} => Registered(thread["warn"].key)
        BY <4>1, <4>2 DEF Knows, Resolved
      <4>4. thread["warn"].pc = "act" => Registered(thread["warn"].key)
        BY <4>1 DEF Knows, AtWork, Session, Registered
      <4> QED BY <2>2, <4>3, <4>4 DEF Registered, NoEntry
    <3>6. \A j \in Keys : Session(j)' => j = n
      BY <2>4 DEF RegInv, Session
    <3>7. thread["warn"].pc \in {"known", "in", "act"} => thread["warn"].key \in Keys
      BY Names DEF IInv, ThreadInv, Fits
    <3> QED BY <1>1, <2>3, <3>1, <3>2, <3>3, <3>4, <3>5, <3>6, <3>7 DEF IInv, WorkInv, Undone
  <2>11. HistoryInv'
    BY <1>1, <1>3 DEF IInv, HistoryInv
  <2> QED BY <2>3, <2>4, <2>5, <2>6, <2>8, <2>9, <2>10, <2>11 DEF IInv
<1> QED BY <1>2, <1>3 DEF SaveRegistry, Fault, CutOver

---------------------------------------------------------------------------
(* The invariant is inductive                                               *)

LEMMA InitIInv ==
  ASSUME Init
  PROVE  IInv
<1>1. /\ setup \in [Bounds -> Nat] /\ rec = {} /\ made = 1 /\ busy = {} /\ boot = FALSE /\ fired = {}
      /\ accepted = {} /\ calls = [k \in Keys |-> 0] /\ fires = 0 /\ harm = {}
      /\ req = [k \in Keys |-> NoReq] /\ thread = [t \in Threads |-> Idle]
      /\ reg = [k \in Keys |-> IF k = 1 THEN [NoEntry EXCEPT !.is = "session"] ELSE NoEntry]
      /\ dir = [k \in Keys |-> IF k = 1 THEN Folder({}) ELSE NoDir]
      /\ grp = [k \in Keys |-> IF k = 1 THEN Home ELSE "-"]
  BY MoveAssumption DEF Init
<1>2. \A t \in Threads : thread[t] = Idle
  BY <1>1
<1>3. life = Idle /\ life.pc = "idle" /\ life.key = 0 /\ life.n = 0
  BY <1>2, IdleFits, Names DEF life
<1>4. /\ Home \in Groups /\ 1 \in Keys /\ 0 \in 0..MaxKey /\ \A k \in Keys : k \in Nat /\ k >= 1
  BY MoveAssumption, Names DEF Keys
<1>5. ThreadInv
  <2>1. thread \in [Threads -> ThreadType]
    BY <1>1, IdleFits
  <2>2. \A t, u \in Threads : Apart(t, u)
    BY <1>2, IdleFits DEF Apart, Holds
  <2> QED BY <1>1, <1>2, <2>1, <2>2, IdleFits DEF ThreadInv
<1>6. RegInv
  <2>1. \A k \in Keys : IF k = 1 THEN reg[k].is = "session" /\ reg[k].to = 0 /\ reg[k].owed = FALSE ELSE reg[k] = NoEntry
    BY <1>1, <1>4 DEF NoEntry
  <2>2. reg \in [Keys -> [is : {"none", "session", "moved"}, to : 0..MaxKey, owed : BOOLEAN]]
    BY <1>1, <1>4 DEF NoEntry
  <2>3. \A k \in Keys : (Session(k) <=> k = 1) /\ ~ Moved(k) /\ reg[k].to = 0 /\ (Registered(k) <=> k = 1)
    BY <2>1 DEF Session, Moved, Registered, NoEntry
  <2>4. \A k \in Keys : k # 1 => reg[k] = NoEntry
    BY <2>1
  <2>5. grp \in [Keys -> Groups \cup {"-"}] /\ \A k \in Keys : grp[k] # "-" => k <= made
    BY <1>1, <1>4
  <2>6. /\ \A k \in Keys : ~ Registered(k) => reg[k] = NoEntry
        /\ \A k \in Keys : Registered(k) => k <= made
        /\ \E h \in Keys : \A j \in Keys : Session(j) <=> j = h
        /\ made \in Keys
    BY <1>1, <1>4, <2>3, <2>4
  <2> QED BY <2>2, <2>3, <2>5, <2>6 DEF RegInv
<1>7. KnownInv
  <2>1. ASSUME NEW t \in Threads PROVE Knows(t)
    <3>1. thread[t].pc = "idle" /\ thread[t].key = 0 /\ 0 <= made
      BY <1>1, <1>2, IdleFits
    <3> QED BY <3>1 DEF Knows, Resolved, AtWork
  <2> QED BY <2>1 DEF KnownInv
<1>8. LifeInv
  BY <1>3 DEF LifeInv, Undone
<1>9. DirInv
  <2>1. \A k \in Keys : dir[k].to = 0 /\ dir[k].is # "link" /\ (k = 1 => dir[k].is = "real") /\ (k # 1 => dir[k] = NoDir)
    BY <1>1 DEF Folder, NoDir
  <2>2. dir \in [Keys -> [is : {"none", "real", "link"}, to : 0..MaxKey, box : SUBSET Nat]]
    BY <1>1, <1>4 DEF Folder, NoDir
  <2>3. DirType
    BY <1>1, <1>3, <1>4, <2>1, <2>2 DEF DirType, Undone, NoDir
  <2>4. Ranked
    <3>1. [j \in Keys |-> 0] \in [Keys -> 0..MaxKey]
      BY <1>4
    <3>2. Falls([j \in Keys |-> 0])
      BY <1>1, <1>3, <2>1 DEF Falls, Renaming
    <3> QED BY <3>1, <3>2 DEF Ranked
  <2>5. Whole
    <3>1. \A h \in Keys : Session(h) => h = 1
      BY <1>1 DEF Session, NoEntry
    <3>2. \A j \in Keys : ~ Moved(j)
      BY <1>1 DEF Moved, NoEntry
    <3>3. DataAt(1)
      BY <1>1, <1>3, <1>4, <2>1 DEF DataAt, Named, Renaming
    <3> QED BY <1>3, <2>1, <3>1, <3>2, <3>3 DEF Whole, Renaming
  <2> QED BY <2>3, <2>4, <2>5 DEF DirInv
<1>10. ReqInv
  <2>1. /\ NoReq \in [state : {"none", "pending", "running", "done"}, to : Groups, res : 0..MaxKey]
        /\ NoReq.state = "none"
    BY <1>4 DEF NoReq
  <2>2. \A k \in Keys : req[k].state = "none"
    BY <1>1, <2>1
  <2>3. \A o \in Operators : ToldTrue(o)
    BY <1>2, IdleFits, Names DEF ToldTrue
  <2>4. req \in [Keys -> [state : {"none", "pending", "running", "done"}, to : Groups, res : 0..MaxKey]]
    BY <1>1, <2>1
  <2>5. calls \in [Keys -> {0, 1}]
    BY <1>1
  <2>6. FileTrue
    BY <2>2 DEF FileTrue
  <2> QED BY <1>1, <1>3, <2>2, <2>3, <2>4, <2>5, <2>6 DEF ReqInv, Executing, MovePcs
<1>11. WorkInv
  BY <1>1, <1>3 DEF WorkInv, Undone
<1>12. HistoryInv
  BY <1>1 DEF HistoryInv
<1> QED BY <1>5, <1>6, <1>7, <1>8, <1>9, <1>10, <1>11, <1>12 DEF IInv

LEMMA MoveStepsStep ==
  ASSUME IInv, MoveSteps
  PROVE  IInv'
<1>1. ASSUME NEW k \in Keys, PickRequest(k) PROVE IInv'
  BY <1>1, PickRequestStep
<1>2. CASE StartRequest
  BY <1>2, StartRequestStep
<1>3. CASE InFlight
  BY <1>3, InFlightStep
<1>4. CASE CheckMove
  BY <1>4, CheckMoveStep
<1>5. CASE CreateTopic
  BY <1>5, CreateTopicStep
<1>6. CASE RenameFolder
  BY <1>6, RenameFolderStep
<1>7. CASE AliasFolder
  BY <1>7, AliasFolderStep
<1>8. CASE SaveRegistry
  BY <1>8, SaveRegistryStep
<1>9. CASE UnlinkAlias
  BY <1>9, UnlinkAliasStep
<1>10. CASE PutBack
  BY <1>10, PutBackStep
<1>11. CASE DeleteTopic
  BY <1>11, DeleteTopicStep
<1>12. CASE MoveRecord
  BY <1>12, MoveRecordStep
<1>13. CASE Notices
  BY <1>13, NoticesStep
<1>14. CASE WriteResult
  BY <1>14, WriteResultStep
<1> QED BY <1>1, <1>2, <1>3, <1>4, <1>5, <1>6, <1>7, <1>8, <1>9, <1>10, <1>11, <1>12, <1>13, <1>14 DEF MoveSteps

LEMMA ContinuesStep ==
  ASSUME IInv, NEW t \in Threads, Continues(t)
  PROVE  IInv'
<1>1. CASE Locks(t)
  BY <1>1, LocksStep
<1>2. CASE Pinned(t)
  BY <1>2, PinnedStep
<1>3. CASE WorkerLooks(t)
  BY <1>3, WorkerLooksStep
<1>4. CASE t \in Operators /\ OperatorContinues(t)
  <2>1. CASE OperatorLooks(t)
    BY <1>4, <2>1, OperatorLooksStep
  <2>2. CASE OperatorClears(t)
    BY <1>4, <2>2, OperatorClearsStep
  <2>3. CASE OperatorLinks(t)
    BY <1>4, <2>3, OperatorLinksStep
  <2>4. CASE OperatorSees(t)
    BY <1>4, <2>4, OperatorSeesStep
  <2>5. CASE OperatorEnds(t)
    BY <1>4, <2>5, OperatorEndsStep
  <2> QED BY <1>4, <2>1, <2>2, <2>3, <2>4, <2>5 DEF OperatorContinues
<1>5. CASE t \in Groups /\ PollerContinues(t)
  <2>1. CASE PollerLooks(t)
    BY <1>5, <2>1, PollerLooksStep
  <2>2. CASE PollerActs(t)
    BY <1>5, <2>2, PollerActsStep
  <2>3. CASE PollerStrays(t)
    BY <1>5, <2>3, PollerStraysStep
  <2>4. CASE PollerCommands(t)
    BY <1>5, <2>4, PlainLeaves
  <2> QED BY <1>5, <2>1, <2>2, <2>3, <2>4 DEF PollerContinues
<1>6. CASE MoveSteps
  BY <1>6, MoveStepsStep
<1>7. CASE TapActs
  BY <1>7, TapActsStep
<1>8. CASE NudgeActs
  BY <1>8, PlainLeaves
<1>9. CASE WarnActs
  BY <1>9, WarnActsStep
<1>10. CASE WarnPublishes
  BY <1>10, WarnTurns
<1>11. CASE WorkEnds
  BY <1>11, WorkEndsStep
<1>12. CASE HaltEnds
  BY <1>12, HaltEndsStep
<1>13. CASE NotifyActs
  BY <1>13, NotifyActsStep
<1> QED
  BY <1>1, <1>2, <1>3, <1>4, <1>5, <1>6, <1>7, <1>8, <1>9, <1>10, <1>11, <1>12, <1>13 DEF Continues

LEMMA StutterStep ==
  ASSUME IInv, UNCHANGED vars
  PROVE  IInv'
<1>1. UNCHANGED <<setup, reg, dir, req, rec, grp, made, thread, busy, boot, fired, accepted, calls, fires, harm>>
  BY DEF vars, files, history
<1>2. life' = life
  BY <1>1 DEF life
<1>3. ThreadInv' /\ HistoryInv'
  BY <1>1 DEF IInv, ThreadInv, Fits, Apart, Holds, HistoryInv
<1>4. RegInv' /\ KnownInv' /\ LifeInv'
  BY <1>1, <1>2, SameReg, SameKnown, SameLife DEF IInv
<1>5. DirInv' /\ ReqInv' /\ WorkInv'
  BY <1>1, <1>2, SameDir, SameReq, SameWork DEF IInv
<1> QED BY <1>3, <1>4, <1>5 DEF IInv

LEMMA NextIInv ==
  ASSUME IInv, [Next]_vars
  PROVE  IInv'
<1>1. ASSUME NEW t \in Threads, Continues(t) PROVE IInv'
  BY <1>1, ContinuesStep
<1>2. ASSUME NEW o \in Operators, OperatorAsks(o) PROVE IInv'
  BY <1>2, OperatorAsksStep
<1>3. ASSUME NEW p \in Groups, PollerTakes(p) PROVE IInv'
  BY <1>3, PollerTakesStep
<1>4. CASE OwnerCreates
  BY <1>4, OwnerCreatesStep
<1>5. CASE NotifyAsks \/ TapTakes
  BY <1>5, EntersStep
<1>6. CASE WarnReads
  BY <1>6, WarnTurns
<1>7. CASE Crash
  BY <1>7, CrashStep
<1>8. CASE Restart
  BY <1>8, RestartStep
<1>9. ASSUME NEW k \in Keys, SweepCounts(k) PROVE IInv'
  BY <1>9, SweepCountsStep
<1>10. ASSUME NEW kind \in BusyKinds, NEW k \in Keys, StartWork(kind, k) PROVE IInv'
  BY <1>10, StartWorkStep
<1>11. CASE UNCHANGED vars
  BY <1>11, StutterStep
<1> QED BY <1>1, <1>2, <1>3, <1>4, <1>5, <1>6, <1>7, <1>8, <1>9, <1>10, <1>11 DEF Next

LEMMA Inductive == Spec => []IInv
<1>1. Init => IInv
  BY InitIInv
<1>2. IInv /\ [Next]_vars => IInv'
  BY NextIInv
<1> QED BY <1>1, <1>2, PTL DEF Spec

---------------------------------------------------------------------------
(* What the invariant shows                                                 *)

(* Of any set of threads of which no two are different there is at most one. *)
LEMMA AtMostOne ==
  ASSUME NEW S, \A t, u \in S : t = u
  PROVE  Cardinality(S) <= 1
<1>1. CASE S = {}
  BY <1>1, FS_EmptySet
<1>2. CASE S # {}
  <2>1. PICK t \in S : S = {t}
    BY <1>2
  <2>2. Cardinality({t}) = 1
    BY FS_Singleton
  <2>3. Cardinality(S) = 1
    BY <2>1, <2>2
  <2> QED BY <2>3
<1> QED BY <1>1, <1>2

LEMMA IInvTypes ==
  ASSUME IInv
  PROVE  TypeOK
<1>1. \A t \in Threads : /\ thread[t].key \in 0..MaxKey /\ thread[t].to \in Groups
                         /\ thread[t].n \in Nat /\ DOMAIN thread[t] = DOMAIN Idle
  BY DEF IInv, ThreadInv, ThreadType, Idle
<1>2. calls \in [Keys -> {0, 1}] /\ req \in [Keys -> [state : {"none", "pending", "running", "done"}, to : Groups, res : 0..MaxKey]]
  BY DEF IInv, ReqInv
<1>3. \A l \in {"creation", "pending"} : Cardinality({t \in Threads : Holds(t, l)}) <= 1
  <2>1. ASSUME NEW l \in {"creation", "pending"}, NEW t \in Threads, NEW u \in Threads, Holds(t, l), Holds(u, l)
        PROVE  t = u
    BY <2>1 DEF IInv, ThreadInv, Apart
  <2> QED BY <2>1, AtMostOne
<1>4. /\ reg \in [Keys -> [is : {"none", "session", "moved"}, to : 0..MaxKey, owed : BOOLEAN]]
      /\ dir \in [Keys -> [is : {"none", "real", "link"}, to : 0..MaxKey, box : SUBSET Nat]]
      /\ grp \in [Keys -> Groups \cup {"-"}] /\ made \in Keys /\ boot \in BOOLEAN
  BY DEF IInv, RegInv, DirInv, DirType, ThreadInv
<1>5. /\ busy \subseteq [kind : BusyKinds, key : Keys] /\ rec \subseteq Keys /\ fired \subseteq Keys
      /\ harm \subseteq {"torn", "stuck", "left", "pointer"}
  BY DEF IInv, WorkInv, HistoryInv
<1> QED BY <1>1, <1>2, <1>3, <1>4, <1>5 DEF TypeOK

LEMMA IInvHome ==
  ASSUME IInv
  PROVE  OneHome
<1>1. PICK k \in Keys : \A j \in Keys : Session(j) <=> j = k
  BY DEF IInv, RegInv
<1>2. \A j \in Keys : Moved(j) => ResolveMoved(j) = k
  BY <1>1, ResolveEnds DEF IInv, Moved, Registered
<1> QED BY <1>1, <1>2 DEF OneHome

(* Along the pointers, the youngest key first.                              *)
LEMMA LinksLeadHome ==
  ASSUME IInv, Whole, NEW k \in Keys, Session(k)
  PROVE  \A j \in Keys : Moved(j) => Real(j) = Real(k)
<1> DEFINE T == {m \in 0..MaxKey : \E j \in Keys : m = MaxKey - j /\ Moved(j) /\ Real(j) # Real(k)}
<1> SUFFICES ASSUME T # {} PROVE FALSE
  <2>1. \A j \in Keys : MaxKey - j \in 0..MaxKey
    BY Names DEF Keys
  <2> QED BY <2>1
<1>1. T \subseteq Nat
  BY Names
<1>2. PICK m \in T : \A i \in T : m <= i
  BY <1>1, Least
<1>3. PICK j \in Keys : m = MaxKey - j /\ Moved(j) /\ Real(j) # Real(k)
  BY <1>2
<1>4. PICK i \in Keys : i = reg[j].to /\ i > j /\ Registered(i)
  BY <1>3 DEF IInv, RegInv
<1>5. Real(j) = Real(i)
  <2>1. dir[j] = Link(i) /\ i # 0
    BY <1>3, <1>4, Names DEF Whole
  <2>2. dir[j].to = i
    BY <2>1 DEF Link
  <2> QED BY <2>1, <2>2, RealEnds DEF IInv, DirInv, RegInv
<1>6. Moved(i)
  <2>1. i # k
    BY <1>3, <1>5
  <2> QED BY <1>4, <2>1, Kinds, OneSession DEF IInv
<1>7. MaxKey - i \in T /\ ~ (m <= MaxKey - i)
  <2>1. MaxKey - i \in 0..MaxKey /\ ~ (MaxKey - j <= MaxKey - i)
    BY <1>4, Names DEF Keys
  <2> QED BY <1>3, <1>5, <1>6, <2>1
<1> QED BY <1>2, <1>7

LEMMA IInvData ==
  ASSUME IInv
  PROVE  DataFollows
<1> SUFFICES ASSUME "torn" \notin harm, life.pc \notin {"alias", "putback"}, NEW k \in Keys, Session(k)
             PROVE  accepted \subseteq dir[Real(k)].box /\ \A j \in Keys : Moved(j) => Real(j) = Real(k)
  BY DEF DataFollows
<1>1. Whole /\ Named(k) = k
  BY DEF IInv, DirInv, Named, Renaming
<1> QED BY <1>1, LinksLeadHome DEF Whole, DataAt

LEMMA IInvApart ==
  ASSUME IInv
  PROVE  KeptApart
<1>1. OperationsAtHome
  BY DEF IInv, KnownInv, Knows, OperationsAtHome, AtWork
<1>2. WorkStaysHome
  BY DEF IInv, WorkInv, WorkStaysHome
<1>3. DestinationFresh
  <2>1. SUFFICES ASSUME life.pc = "transfer" PROVE Fresh(life.n)
    BY DEF DestinationFresh
  <2>2. life.n \in Keys /\ ~ Registered(life.n) /\ dir[life.n].is = "none"
    BY <2>1 DEF IInv, LifeInv, DirInv, DirType, Undone
  <2> QED BY <2>2 DEF Fresh, IInv, RegInv, DirInv, DirType
<1> QED BY <1>1, <1>2, <1>3 DEF KeptApart

LEMMA IInvResults ==
  ASSUME IInv
  PROVE  ResultsTrue
<1>1. ReportTrue
  BY DEF IInv, ReqInv, FileTrue, ReportTrue
<1>2. ToldTruth
  BY DEF IInv, ReqInv, ToldTrue, ToldTruth
<1>3. ExecutedOnce
  <2>1. \A k \in Keys : calls[k] \in {0, 1}
    BY DEF IInv, ReqInv
  <2>2. \A c \in {0, 1} : c <= 1
    OBVIOUS
  <2> QED BY <2>1, <2>2 DEF ExecutedOnce
<1> QED BY <1>1, <1>2, <1>3 DEF ResultsTrue

LEMMA IInvEpisode ==
  ASSUME IInv
  PROVE  EpisodeFollows
<1>1. fires <= 1
  <2>1. fires \in {0, 1}
    BY DEF IInv, WorkInv
  <2> QED BY <2>1
<1>2. "left" \notin harm /\ life.pc # "record" => \A k \in rec : Session(k)
  BY DEF IInv, WorkInv
<1> QED BY <1>1, <1>2 DEF EpisodeFollows

---------------------------------------------------------------------------
(* Theorems                                                                 *)

(* A session is registered under exactly one key, every key it ever had     *)
(* leads there, and its folder is behind all of them with every message     *)
(* that was accepted, whatever number of moves, failures and crashes, as    *)
(* long as no crash tore a rename from its alias (daemon.py 1160-1186).     *)
THEOREM SessionHasOneHome == Spec => []HomeKept
<1>1. IInv => HomeKept
  BY IInvTypes, IInvHome, IInvData DEF HomeKept
<1> QED BY <1>1, Inductive, PTL

(* The locks fence a move: nothing is ever at work on a topic the session   *)
(* has left, no question, revive or carry-forward stays behind, and nobody  *)
(* takes the folder of the topic being created (1104, common.py 234).       *)
THEOREM MoveIsFenced == Spec => []KeptApart
<1>1. IInv => KeptApart
  BY IInvApart
<1> QED BY <1>1, Inductive, PTL

(* The result on file and what is told to the operators is what became of   *)
(* the move, and no request makes two topics (1230-1315, cli.py 326-334).   *)
THEOREM ReportsAreTrue == Spec => []ResultsTrue
<1>1. IInv => ResultsTrue
  BY IInvResults
<1> QED BY <1>1, Inductive, PTL

(* However often the session moves, the warning loop fires one automatic    *)
(* carry-forward, and the record of an unfinished one goes along (3873).    *)
THEOREM OneEpisode == Spec => []EpisodeFollows
<1>1. IInv => EpisodeFollows
  BY IInvEpisode
<1> QED BY <1>1, Inductive, PTL
=============================================================================
