----------------------------- MODULE PaneTyping -----------------------------
(***************************************************************************)
(* Typing a line into a session's terminal pane: type_line of daemon.py.    *)
(* The pane may show its input box or a modal picker, on which Enter picks  *)
(* the highlighted option.  So a line is typed, then a fresh receipt; only  *)
(* when the receipt is seen on the screen, erased and seen to be gone is    *)
(* Enter pressed.  Attempts that could not be confirmed leave text behind   *)
(* in the box and are counted, to a cap that a timer lifts.                 *)
(*                                                                         *)
(* Daemon threads and notify processes type into the same pane under one    *)
(* pane lock; each process has its own table of counts.  The pane is        *)
(* environment: it repaints late, and modals rise and are answered.         *)
(***************************************************************************)
EXTENDS Integers, Sequences, FiniteSets

CONSTANTS
  Threads,      \* daemon threads that type (timers, sweep, briefing)
  Notifies,     \* notify processes that type
  NoOne,        \* the lock is free
  Faults,       \* tmux writes that may raise: "text", "receipt", "erase", "enter"
  MaxAttempts,  \* bound: calls of type_line
  MaxWindows,   \* bound: times a cap's retry window runs out
  MaxModals     \* bound: modals that rise

SWALLOW_MAX_ATTEMPTS == 2
Writers == Threads \cup Notifies
Procs == {"daemon"} \cup Notifies
ProcOf(w) == IF w \in Threads THEN "daemon" ELSE w

ASSUME PaneTypingAssumption ==
  /\ NoOne \notin Writers /\ "daemon" \notin Notifies
  /\ Faults \subseteq {"text", "receipt", "erase", "enter"}
  /\ MaxAttempts \in Nat /\ MaxWindows \in Nat /\ MaxModals \in Nat

VARIABLES
  modal,      \* "none", or a picker: "early", "late" or "raced" (see ModalRises)
  box,        \* what the input box holds
  shown,      \* the receipts the last repaint shows
  lock,       \* who holds the pane lock
  writer,     \* each writer's type_line call
  streak,     \* per process: unconfirmed attempts (_swallowed_streak)
  capped,     \* per process: the cap's retry window is still running
  left,       \* per process, since its count was cleared: copies left in the box (history)
  uncounted,  \* per process, since then: copies left by a write that raised (history)
  retries,    \* per process, since then: windows spent on a retry (history)
  submitted,  \* lines the session received, and by whose Enter
  picked,     \* pickers that an Enter answered
  attempts, windows, modals

screenVars == <<modal, box, shown, submitted, picked, modals>>
tableVars == <<streak, capped, left, uncounted, retries>>
typingVars == <<screenVars, tableVars, lock, writer, attempts, windows>>

Token == [kind : {"text", "receipt", "chip", "cut"}, n : Nat]
Pcs == {"idle", "locking", "ready", "typing", "typed", "waiting", "seen", "erased", "clear", "enter"}
Writer == [pc : Pcs, n : Nat, clear : BOOLEAN,
           landed : BOOLEAN,                               \* its text reached the box (history)
           ours : BOOLEAN, lapsed : Pcs \cup {"never"}]    \* still_ok, and where it lapsed (history)

IdleWriter ==
  [pc |-> "idle", n |-> 0, clear |-> FALSE, landed |-> FALSE, ours |-> TRUE, lapsed |-> "never"]

TypingInit ==
  /\ modal = "none" /\ box = <<>> /\ shown = {} /\ lock = NoOne
  /\ writer = [w \in Writers |-> IdleWriter]
  /\ streak = [p \in Procs |-> 0] /\ capped = [p \in Procs |-> FALSE]
  /\ left = [p \in Procs |-> 0] /\ uncounted = [p \in Procs |-> 0] /\ retries = [p \in Procs |-> 0]
  /\ submitted = <<>> /\ picked = {}
  /\ attempts = 0 /\ windows = 0 /\ modals = 0

---------------------------------------------------------------------------
(* What a key does to the pane: a modal swallows printable keys and erases. *)

Typed(tokens) == IF modal = "none" THEN box \o tokens ELSE box

(* Backspaces, as many as a receipt is long: they take the receipt, or a    *)
(* whole paste chip, or the end of a text.                                  *)
Erased ==
  IF modal # "none" \/ box = <<>> THEN box
  ELSE LET rest == SubSeq(box, 1, Len(box) - 1)
           last == box[Len(box)]
       IN IF last.kind \in {"receipt", "chip"} THEN rest ELSE Append(rest, [last EXCEPT !.kind = "cut"])

Receipts(b) == {b[i].n : i \in {j \in DOMAIN b : b[j].kind = "receipt"}}
Holds(b, n) == \E i \in DOMAIN b : b[i].n = n /\ b[i].kind # "receipt"

(* Both engines fold a burst into a chip, which hides a receipt inside it.  *)
TypedReceipt(n) ==
  {Typed(<<[kind |-> "receipt", n |-> n]>>)} \cup
  (IF modal = "none" /\ box # <<>> /\ box[Len(box)] = [kind |-> "text", n |-> n]
     THEN {[box EXCEPT ![Len(box)].kind = "chip"]} ELSE {})

StepTo(w, pc) == writer' = [writer EXCEPT ![w].pc = pc]

(* Returning releases the lock.                                             *)
Return(w) == writer' = [writer EXCEPT ![w] = IdleWriter] /\ lock' = NoOne

(* The copy a call leaves in the box for good, for the record only.         *)
Leaves(w, count) ==
  IF Holds(box', writer[w].n) THEN [count EXCEPT ![ProcOf(w)] = @ + 1] ELSE count

(* _stranded: count the attempt; reaching the cap starts the window.        *)
Stranded(w) ==
  LET p == ProcOf(w) IN
  /\ streak' = [streak EXCEPT ![p] = IF @ < SWALLOW_MAX_ATTEMPTS THEN @ + 1 ELSE @]
  /\ capped' = [capped EXCEPT ![p] = @ \/ streak[p] + 1 = SWALLOW_MAX_ATTEMPTS]
  /\ left' = Leaves(w, left) /\ UNCHANGED <<uncounted, retries>>

---------------------------------------------------------------------------
(* type_line *)

Call(w) ==
  /\ writer[w].pc = "idle" /\ attempts < MaxAttempts
  /\ attempts' = attempts + 1
  /\ \E c \in BOOLEAN : writer' = [writer EXCEPT ![w] =
       [IdleWriter EXCEPT !.pc = "locking", !.n = attempts + 1, !.clear = c]]
  /\ UNCHANGED <<screenVars, tableVars, lock, windows>>

LockTimesOut(w) ==
  /\ writer[w].pc = "locking" /\ lock # NoOne
  /\ writer' = [writer EXCEPT ![w] = IdleWriter]
  /\ UNCHANGED <<screenVars, tableVars, lock, attempts, windows>>

(* Mutant: the lock does not exclude.                                       *)
LockIgnored == TRUE

LockFree == lock = NoOne

TakeLock(w) ==
  /\ writer[w].pc = "locking" /\ LockFree
  /\ lock' = w
  /\ StepTo(w, "ready")
  /\ modal' = IF modal = "none" THEN "none" ELSE "early"
  /\ UNCHANGED <<box, shown, submitted, picked, modals, tableVars, attempts, windows>>

(* clear_first: C-u empties the box; if it raises, nothing is typed.        *)
ClearBox(w) ==
  /\ writer[w].pc = "ready" /\ writer[w].clear
  /\ box' = IF modal = "none" THEN <<>> ELSE box
  /\ writer' = [writer EXCEPT ![w].clear = FALSE]
  /\ UNCHANGED <<modal, shown, submitted, picked, modals, tableVars, lock, attempts, windows>>

(* The clear raises, the pane cannot be read, or the caller's authority has *)
(* lapsed: nothing is typed.                                                *)
GiveUpBefore(w) ==
  /\ writer[w].pc = "ready"
  /\ Return(w)
  /\ UNCHANGED <<screenVars, tableVars, attempts, windows>>

(* Mutant: off by one.                                                      *)
AboveCap(p) == streak[p] > SWALLOW_MAX_ATTEMPTS

AtCap(p) == streak[p] >= SWALLOW_MAX_ATTEMPTS

CappedNow(w) ==
  /\ writer[w].pc = "ready" /\ ~writer[w].clear
  /\ AtCap(ProcOf(w)) /\ capped[ProcOf(w)]
  /\ Return(w)
  /\ UNCHANGED <<screenVars, tableVars, attempts, windows>>

(* Past the cap's window one try is spent and the window starts again.      *)
Proceed(w) ==
  LET p == ProcOf(w) IN
  /\ writer[w].pc = "ready" /\ ~writer[w].clear
  /\ AtCap(p) => ~capped[p]
  /\ capped' = [capped EXCEPT ![p] = AtCap(p)]
  /\ retries' = [retries EXCEPT ![p] = IF AtCap(p) THEN @ + 1 ELSE @]
  /\ IF writer[w].ours THEN StepTo(w, "typing") /\ UNCHANGED lock ELSE Return(w)
  /\ UNCHANGED <<screenVars, streak, left, uncounted, attempts, windows>>

TypeText(w) ==
  /\ writer[w].pc = "typing"
  /\ box' = Typed(<<[kind |-> "text", n |-> writer[w].n]>>)
  /\ writer' = [writer EXCEPT ![w].pc = "typed", ![w].landed = box' # box]
  /\ UNCHANGED <<modal, shown, submitted, picked, modals, tableVars, lock, attempts, windows>>

TypeReceipt(w) ==
  /\ writer[w].pc = "typed"
  /\ box' \in TypedReceipt(writer[w].n)
  /\ StepTo(w, "waiting")
  /\ UNCHANGED <<modal, shown, submitted, picked, modals, tableVars, lock, attempts, windows>>

(* A tmux write that raises may still have reached the pane (a timeout).    *)
(* Neither of these two counts the attempt.                                 *)
TextRaises(w) ==
  /\ "text" \in Faults /\ writer[w].pc = "typing"
  /\ box' \in {box, Typed(<<[kind |-> "text", n |-> writer[w].n]>>)}
  /\ Return(w) /\ uncounted' = Leaves(w, uncounted)
  /\ UNCHANGED <<modal, shown, submitted, picked, modals, streak, capped, left, retries, attempts, windows>>

ReceiptRaises(w) ==
  /\ "receipt" \in Faults /\ writer[w].pc = "typed"
  /\ box' \in {box} \cup TypedReceipt(writer[w].n)
  /\ Return(w) /\ uncounted' = Leaves(w, uncounted)
  /\ UNCHANGED <<modal, shown, submitted, picked, modals, streak, capped, left, retries, attempts, windows>>

(* Mutant: the receipt is taken for granted.                                *)
SeeAnything(w) ==
  /\ writer[w].pc = "waiting"
  /\ StepTo(w, "seen")
  /\ UNCHANGED <<screenVars, tableVars, lock, attempts, windows>>

SeeReceipt(w) ==
  /\ writer[w].pc = "waiting" /\ writer[w].n \in shown
  /\ StepTo(w, "seen")
  /\ UNCHANGED <<screenVars, tableVars, lock, attempts, windows>>

(* The looks ran out, or a look could not be used: the receipt is taken     *)
(* back blind.                                                              *)
MissReceipt(w) ==
  /\ writer[w].pc = "waiting"
  /\ box' \in {Erased} \cup (IF "erase" \in Faults THEN {box} ELSE {})
  /\ Stranded(w) /\ Return(w)
  /\ UNCHANGED <<modal, shown, submitted, picked, modals, attempts, windows>>

EraseReceipt(w) ==
  /\ writer[w].pc = "seen"
  /\ box' = Erased
  /\ StepTo(w, "erased")
  /\ UNCHANGED <<modal, shown, submitted, picked, modals, tableVars, lock, attempts, windows>>

EraseRaises(w) ==
  /\ "erase" \in Faults /\ writer[w].pc = "seen"
  /\ box' \in {box, Erased}
  /\ Stranded(w) /\ Return(w)
  /\ UNCHANGED <<modal, shown, submitted, picked, modals, attempts, windows>>

SeeCleared(w) ==
  /\ writer[w].pc = "erased" /\ writer[w].n \notin shown
  /\ StepTo(w, "clear")
  /\ UNCHANGED <<screenVars, tableVars, lock, attempts, windows>>

MissCleared(w) ==
  /\ writer[w].pc = "erased"
  /\ box' \in {Erased} \cup (IF "erase" \in Faults THEN {box} ELSE {})
  /\ Stranded(w) /\ Return(w)
  /\ UNCHANGED <<modal, shown, submitted, picked, modals, attempts, windows>>

CheckOurs(w) ==
  /\ writer[w].pc = "clear"
  /\ IF writer[w].ours
       THEN StepTo(w, "enter") /\ UNCHANGED <<tableVars, lock, box>>
       ELSE UNCHANGED box /\ Stranded(w) /\ Return(w)
  /\ UNCHANGED <<modal, shown, submitted, picked, modals, attempts, windows>>

Submission(w) ==
  [line |-> box, n |-> writer[w].n, landed |-> writer[w].landed, lapsed |-> writer[w].lapsed]

(* What Enter does: it submits the box, or answers the picker.              *)
Enter(w) ==
  IF modal = "none"
    THEN /\ submitted' = Append(submitted, Submission(w))
         /\ box' = <<>> /\ UNCHANGED <<modal, picked>>
    ELSE modal' = "none" /\ picked' = picked \cup {modal} /\ UNCHANGED <<submitted, box>>

PressEnter(w) ==
  LET p == ProcOf(w) IN
  /\ writer[w].pc = "enter" /\ Enter(w) /\ Return(w)
  /\ streak' = [streak EXCEPT ![p] = 0] /\ capped' = [capped EXCEPT ![p] = FALSE]
  /\ left' = [left EXCEPT ![p] = 0] /\ uncounted' = [uncounted EXCEPT ![p] = 0]
  /\ retries' = [retries EXCEPT ![p] = 0]
  /\ UNCHANGED <<shown, modals, attempts, windows>>

EnterRaises(w) ==
  /\ "enter" \in Faults /\ writer[w].pc = "enter"
  /\ Enter(w) \/ UNCHANGED <<modal, picked, submitted, box>>
  /\ Stranded(w) /\ Return(w)
  /\ UNCHANGED <<shown, modals, attempts, windows>>

---------------------------------------------------------------------------
(* The pane and the clock *)

Repaint ==
  /\ shown' = IF modal = "none" THEN Receipts(box) ELSE {}
  /\ shown' # shown
  /\ UNCHANGED <<modal, box, submitted, picked, modals, tableVars, lock, writer, attempts, windows>>

(* The engine raises a picker over the input box.  It is "early" for a      *)
(* writer that has not typed its receipt yet, "late" between that and its   *)
(* last look, "raced" after it.                                             *)
ModalRises ==
  /\ modal = "none" /\ modals < MaxModals
  /\ modals' = modals + 1
  /\ modal' = IF lock = NoOne THEN "early"
              ELSE CASE writer[lock].pc \in {"waiting", "seen", "erased"} -> "late"
                     [] writer[lock].pc \in {"clear", "enter"} -> "raced"
                     [] OTHER -> "early"
  /\ UNCHANGED <<box, shown, submitted, picked, tableVars, lock, writer, attempts, windows>>

ModalAnswered ==
  /\ modal # "none" /\ modal' = "none"
  /\ UNCHANGED <<box, shown, submitted, picked, modals, tableVars, lock, writer, attempts, windows>>

(* The topic is bound to another pane while the call runs.                  *)
Lapse(w) ==
  /\ writer[w].pc # "idle" /\ writer[w].ours
  /\ writer' = [writer EXCEPT ![w].ours = FALSE, ![w].lapsed = writer[w].pc]
  /\ UNCHANGED <<screenVars, tableVars, lock, attempts, windows>>

WindowPasses(p) ==
  /\ capped[p] /\ windows < MaxWindows
  /\ capped' = [capped EXCEPT ![p] = FALSE] /\ windows' = windows + 1
  /\ UNCHANGED <<screenVars, streak, left, uncounted, retries, lock, writer, attempts>>

---------------------------------------------------------------------------
TypeLine(w) ==
  \/ Call(w) \/ LockTimesOut(w) \/ TakeLock(w) \/ ClearBox(w) \/ GiveUpBefore(w) \/ CappedNow(w)
  \/ Proceed(w) \/ TypeText(w) \/ TypeReceipt(w) \/ TextRaises(w) \/ ReceiptRaises(w)
  \/ SeeReceipt(w) \/ MissReceipt(w) \/ EraseReceipt(w) \/ EraseRaises(w)
  \/ SeeCleared(w) \/ MissCleared(w) \/ CheckOurs(w) \/ PressEnter(w) \/ EnterRaises(w)

Environment == Repaint \/ ModalRises \/ ModalAnswered

TypingNext ==
  \/ \E w \in Writers : TypeLine(w) \/ Lapse(w)
  \/ \E p \in Procs : WindowPasses(p)
  \/ Environment

TypingSpec == TypingInit /\ [][TypingNext]_typingVars

---------------------------------------------------------------------------
TypingTypeOK ==
  /\ modal \in {"none", "early", "late", "raced"} /\ picked \subseteq {"early", "late", "raced"}
  /\ box \in Seq(Token) /\ shown \subseteq Nat
  /\ lock \in Writers \cup {NoOne} /\ writer \in [Writers -> Writer]
  /\ streak \in [Procs -> 0..SWALLOW_MAX_ATTEMPTS] /\ capped \in [Procs -> BOOLEAN]
  /\ {left, uncounted, retries} \subseteq [Procs -> Nat]
  /\ submitted \in Seq([line : Seq(Token), n : Nat, landed : BOOLEAN, lapsed : Pcs \cup {"never"}])
  /\ attempts \in 0..MaxAttempts /\ windows \in 0..MaxWindows /\ modals \in 0..MaxModals

(* Enter never answers a picker that was up before the writer typed its     *)
(* receipt: no modal accepts an injection blind (#133).                     *)
NoBlindEnter == "early" \notin picked

Delivered(s) == \E j \in DOMAIN s.line : s.line[j] = [kind |-> "text", n |-> s.n]

(* A text that reached the box is submitted whole by its writer's Enter: no *)
(* other writer clears or erases it (the pane lock), no erase of its own    *)
(* cuts it.                                                                 *)
PayloadIntact ==
  \A i \in DOMAIN submitted : submitted[i].landed => Delivered(submitted[i])

(* The copies that a process's unconfirmed attempts leave in the box are    *)
(* bounded by the cap and the retries its windows allowed, until an Enter   *)
(* goes through (#133).                                                     *)
CopiesBounded == \A p \in Procs : left[p] <= SWALLOW_MAX_ATTEMPTS + retries[p]

(* The comment at SWALLOW_MAX_ATTEMPTS bounds every copy; one whose write   *)
(* raised after it had landed is not counted.                               *)
AllCopiesBounded ==
  \A p \in Procs : left[p] + uncounted[p] <= SWALLOW_MAX_ATTEMPTS + retries[p]

(* A caller that lost its authority before the last check never submits.    *)
SubmitsWithAuthority ==
  \A i \in DOMAIN submitted : submitted[i].lapsed \in {"never", "enter"}

(* Every Enter that type_line presses is one its caller still wants, and    *)
(* goes to the prompt it looked at.                                         *)
EnterIsMeant == TypingTypeOK /\ NoBlindEnter /\ SubmitsWithAuthority

(* The docstring of type_line: the receipt "is backspaced off before Enter, *)
(* so the session never sees it".  One taken back under a modal stays.      *)
ReceiptNeverSent == \A i \in DOMAIN submitted : Receipts(submitted[i].line) = {}

(* type_line: "press Enter ONLY once the text is confirmed to have reached  *)
(* an input box".  The receipt confirms itself: a picker answered in the    *)
(* gap before it has swallowed the text.                                    *)
EnterMeansDelivered == \A i \in DOMAIN submitted : Delivered(submitted[i])

(* ARCHITECTURE.md 14 and the owner's notice: Enter is not pressed on a     *)
(* prompt.  A picker that rises before the last look hides the receipt, and *)
(* the look takes that for erased.                                          *)
NoLateEnter == "late" \notin picked
=============================================================================
