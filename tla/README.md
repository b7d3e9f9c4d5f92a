# Verification of agent-telegram-bridge in TLA+

The bridge connects engine sessions (Claude Code, Codex), each running in a tmux pane, to forum
topics of one or more Telegram groups. The owner writes into a topic; the session reads, answers and asks. Two
priorities of `docs/ARCHITECTURE.md` decide what is worth verifying: an outbound message is never
duplicated, and a session never goes silently unreachable. The work follows a message from Telegram's update to the
keystrokes that wake a session, an answer back to Telegram, and the life of the session between: parked, ended, asked
about, revived, compacted, moved to another group.

Line numbers are of `src/bridge/daemon.py` unless a file is named. `PROJECT.json` maps every definition
to its lines.

## 1. Inventory

### Processes and shared state

* **daemon** (`daemon.py`): one process, many threads. A poller per bot, the loops for lifecycle,
  idle parking, idle sweep, context warnings, reports, dashboard and digest, a worker per revive, carry-forward or halt,
  and a timer per nudge.
* **CLI** (`cli.py`, called as `tg-bridge`): short processes started by sessions and operators, `recv`, `ask`, `send`,
  `notify`, `register`, `bind`, `move` and others. There may be many at once and any can be killed.
* **watchdogs, digest, restore** (`model_watchdog.py`, `watchdog.py`, `digest.py`, `restore_cli.py`):
  started by systemd or by hand.
* They share files: `registry.json` (one entry per topic), for each topic `inbox.jsonl` and its cursor, the
  outbox ledger, pending questions, the record of an unfinished carry-forward, a move's request, and for each bot the offset of its
  updates. Files are ordered by `flock`; threads also share in-memory tables. A topic lock is taken *shared* by handlers
  and loops and exclusively only by a move, so these interleave at every step.
* The environment is tmux and the panes, the engines, Telegram, the owner, the operator.

### Components

| component | state | operations | hard behaviour | correct when |
|---|---|---|---|---|
| Inbox, cursor and wakes (`common.py`, `cli.py`, daemon) | inbox lines, cursor file, delivery ledger, wake claims, timers | append (Telegram, notify), recv/ask: read, print, commit; nudge at arrival, idle sweep, wake after a revive | writers, readers and timers race; processes are killed anywhere; a claim outlives its batch | no line is skipped, each batch has one wake owner, a wake is dropped only for lines already shown, a backlog is drained |
| Pane typing (`type_line`) | the input box, pane lock, a table of unconfirmed attempts per process | type, receipt, look, erase, look, Enter | a modal picker may rise at any time; every tmux write may raise after it took effect; late repaints; lost authority | Enter answers no picker, text goes out whole, under valid authority, leftovers stay bounded |
| Session lifecycle | registry entry (`pane`, `ended`, `parked`, claim token), question, topic open or closed, pane | park (claim, gates, kill, undo, repair), lifecycle sweep, revive | parker, sweep, handler and reviver interleave on one entry; failures between steps; crash | an ended entry has no running pane, a drained message is replayed, an owner's message brings the session or a question back, no unasked spend |
| Reopen questions, fresh restarts | the table of questions, its file, the lock both are written under | ask, publish, answer by text, tap or in advance, re-ask, give back, forget, ask again after a restart | four threads on one record, a file shared with other topics' questions, taps on old messages | the file keeps what memory holds, an answer revives the session it was about, no question is left unanswerable |
| Telegram ingress | per bot: offset, its two files, the batch; pending kill confirmations; table of rejected events | poll, dispatch, save, adopt an older offset; halt, kill, command, interrupt, inbox | a crash between handling and saving; a save that fails; reconfiguration; a confirmation that outlives what it confirms | no update is lost, none is handled twice in one life, a kill was confirmed, counts are accounted for |
| Outbound transport, outbox ledger (`common.py`, `cli.py`) | chunk or file in hand, attempts, ledger lines, what the caller was told | send, classify a failure, retry, record, tell the caller | an answer lost after the send; a failure half-way; a killed command run again | a message whose outcome is unknown is not repeated, the verdict and the ledger are true |
| Topic move | request file, registry keys and pointers, folder and its alias, locks | ask, wait, create, cut over, roll back, report after a restart | failures and restarts at each step; every other operation of the topic in flight | one home, the data in it, nothing at work on the old key, a request executed once and answered truly |
| Carry-forward, auto carry-forward | the flow that owns a topic, unfinished-run record, armed flag, cooldown, the model debt | write up, switch the model, compact, switch back, resume; halt; fire, retry | a halted worker that is still running; a line lost or withheld; crash between start and flag | a halted run does not resume, the model is not left switched silently, a run ends, an unfinished one is tried again, no sooner than the cooldown |
| Model, effort, low-priority switches | timers, per-pane claims | switch, switch back | superseded timers | the pane returns to its own model |
| Boot restore and briefings | the stored boot id, the entry's stamp of a briefing, the model debt, revives and their timers | restore all, revive one: launch, answer the picker or compact, bind, brief, retry, report | several revives of one topic; a crash in the middle; a compaction that swallows what is typed; steps that fail half-way | a session that came back hears of it or its owner does, the stamp and what the owner reads are true, the model pair is kept |
| Context warnings, stall watch, reports | cooldown tables | warn, report | two reporters | one report per slot |
| Transcript reader (`transcript.py`) | cursor: file identity, offset, generation | read forward | file replaced, truncated, regrown | nothing read under a stale cursor |
| Model watchdog | watermark | scan, alert, save | alert sent, watermark unsaved | one alert per change |
| Dashboard and status, codex context, digest, daemon watchdog, transcription | caches, markers | format, parse | none shared | no protocol |
| CLI register/bind/icons/feeds | the registry | one locked update each | who owns a pane's topic | one topic per pane |
| Installation, units, scripts, skill | none | none | none | none |

### How they interact

A poller takes an update, decides what it is (an answer, a halt, a kill, a command, an interrupt, a message) and handles the whole batch
before it saves the offset. A message is appended to the topic's inbox under the inbox lock, together with the *claim* of
the batch if it is the first unread line. The claim's owner later checks it against the cursor under
the wake lock and calls `type_line`; the session then runs `recv`. If the session is down the same
handler calls `maybe_auto_revive`, which starts a reviver, or asks first when the session is large. The
parker takes a session down by stamping `ended` first and killing afterwards, so that every reader of the
entry already treats it as down. The lifecycle loop stamps panes that died, polls parked topics and executes moves. The
idle sweep types into any live session with a backlog: it is the backstop of all lost wakes. The warning loop measures each session's
context and fires a carry-forward; while one drives a session, the owner's next message is its kill-switch. A move takes the topic's
lock exclusively, renames the folder, commits the registry and leaves a pointer on the old key and a link in the folder's old place.

## 2. Modules

| module | models | proofs |
|---|---|---|
| `InboxWake` | the queue of one topic and its wakes | `Delivery_proofs` |
| `PaneTyping` | `type_line` on one pane | `Delivery_proofs` |
| `Parking` | the registry entry of one topic: park, end, revive | `Parking_proofs` |
| `ReopenQuestion` | the question of a dead session and its file | `ReopenQuestion_proofs` |
| `Ingest`, which extends `Rejections` | the pollers and their cursors, the road of a message, the journal of rejected events | `Ingest_proofs` |
| `CarryForward` | the compaction of one session, started by the owner or by the warning loop | `CarryForward_proofs` |
| `TopicMove` | a session's moves between groups and all that is fenced from them | `TopicMove_proofs` |
| `Revival` | bringing a dead session back: restore, resume picker or `/compact`, bind, briefing | `Revival_proofs` |
| `Outbound` | what a command that posts promises its caller (abstract) | |
| `Transport` | the Bot API call, chunks and files, the outbox ledger, and the commands that post; implements `Outbound` | `Transport_proofs` |
| `MC*` | the instances TLC checks | |

Where the bounds of a module's interesting cases multiply, they are a record, `setup`, chosen at the start from a small set `Setups`: each setup
spends its bounds on one question (`MCParking`, `MCReopenQuestion`, `MCIngest`, `MCCarryForward`, `MCTopicMove`, `MCRevival` name them), and TLC explores their
sum. History variables (marked "history" where they are declared) are read by no action.

### InboxWake

`inbox` and `cursor` are the two files. Any number of readers (`recv`, `ask`) may be at work: the topic lock is taken shared, and that a session runs one at a time is a convention (`SPECIFICATION.md:430`, 620). A reader goes `loaded`, `read`, `emitted`, `writing`: it read
past the cursor, printed and flushed, and rewrites the cursor only if nothing was appended since
(`commit_cursor_if_end`), otherwise it reads on. The file is truncated before it is written, so `writing`
holds the value 0, which a crash makes permanent (`torn`). `wakes` has one record for each wake ever owed,
with its claim and what became of it. `mark` remembers what the last completed commit covered, `alone` the reader beside which no other has been at work. Locks are not variables: the inbox lock is held while some
reader is `writing`, the wake lock then and while a claimed wake is `typing`; an append is atomic.
Delays (`NUDGE_DELAY`, the sweep's grace and cooldown) are abstracted to *when* a step happens. Typing a
wake line is one step that succeeds or fails; `PaneTyping` is what it does inside.

### PaneTyping

`box` holds tokens: a text, a receipt, a chip (both engines fold a burst of text, and a receipt in it
cannot be seen), or a cut text. A picker swallows keys and erases; Enter then answers it. Each writer's
`pc` follows `type_line`: lock, clear, cap test, text, receipt, look, erase, look, last check of
authority, Enter. A write that raises may have reached the pane. `shown` is the last repaint, so looks are late. Each
process has its own `_swallowed_streak`. A picker is tagged `early` (before the receipt is typed), `late` (before the
last look), or `raced` (after it), for the properties.

### Parking

`entry` is the registry entry; each update of it is one action, since `update_registry` is one locked
write. `parker` runs `_park_one`: screen, claim, six gates that are separate reads, a final look, kill,
release, repair. `life` runs one round of `lifecycle_loop` for the topic, with its stale copy of the pane. `asks[c]` is
`maybe_auto_revive` and `offer_reopen_choice` as run by the handler, the sweep or the repair, with the pane of the
entry its caller had read. `reviver` is `revive_one` and its worker; `reviver.pc # "off"` is the topic's place in
`_auto_reviving`. `pending` is the reopen question, of which `ReopenQuestion` has the detail. Panes that run are `alive`, and `names` are their tmux session names.
The session drains the inbox and handles what it drained. What a gate reads and the model leaves out (engine, occupant,
activity, screen) is a refusal for no modelled reason; `setup.faults` says which calls may fail, each in a disjunct of its own.

Abstractions: the inbox's "recent" window is longer than a park, so any record is recent. Telegram's
echo of the bridge's own close and reopen is not modelled, nor are registry writes that fail, `/kill`
and the briefing's text (the restore at boot and the briefing are `Revival`'s). The last record being appended again is modelled as that record becoming unread. The screen pass before a
claim is atomic: every fact it reads is read again under the claim.

### ReopenQuestion

`pending` is the topic's record: `prepared` (on file, not known to be shown), `delivered` (the only state an answer is taken in), `reviving`
(answered). `file` is `pending-reopens.json`, which another topic's record (`other`) shares; each thread's `buf` is its temporary file and
`lock` is held from the snapshot to the rename. `thread` has the poller (texts, taps and reopens of the topic, `updates` being what Telegram has not handed
over), the sweep (a parked topic with an unread message) and the peer (the other topic). `worker` is the revive. `sessions` says of each session the topic
ever had what can bring it back, its own session (`resume`) or a new one (`fresh`), and `entry.gen` is the present one. `shown` remembers which session each
question message was about; `lapse` names a write that failed, a question given up, and an offer or an early answer's record written over another record (`overwritten`): both are decided from a look
made before the lock is taken (5912-5924).

Abstractions: the wording and edits of the message; a re-asked fresh question is neither tracked nor saved, as in the code; what the revive
does with tmux is `Parking`'s. A write of the file is whole or fails.

### Ingest and Rejections

`poller[b]` is a bot's `poll_updates`: it works out its first offset (its own file, the older shared file, or Telegram's), polls, handles the batch update by update, and
saves its own file and, in single-group mode, the shared one. `server[b]` is what Telegram still keeps: asking with an offset discards everything before it. An update is a member of eight kinds;
`Handle` sends it down the road the code does, in the order the code asks: the kill-switch of a carry-forward, `/kill`, other commands, an interrupt, a confirmation, the inbox.
`armed` is `pending_kills`. A crash restarts with the files; `Reconfigure` changes the default bot and the mode between lives.
`Rejections` is `_log_rejected_service_event`, step by step because its table has no lock: a look, removals one at a time, a write.

Abstractions: downloads and transcription are the choice of what a media message turns out to be; the batch is not split by Telegram. Assumed of the operator:
the token of a single-group bot is not replaced by another bot's, and the first start with groups keeps the default bot; otherwise the shared offset is lent to a bot it does not belong to (9274).

### CarryForward

`flow` is the run that owns the topic (`_pending_cf`); a run whose start notice raises is over and owns it still (`Orphaned`). `at[r]` is where its worker is: write-up, plan, switch of model and effort, `/compact`, its waits, switch back, resume; `hat[r]` is the
thread of its halt. One hold of `_cf_lock` is one action, so a worker checks that it owns the topic and types in one step. Waits answer what the pane or the transcript shows, or run out. `sess` is the
session: lines typed and not taken (`term`), its model and effort, the pair the transcript last named (`said`), whether the context is full. `disk` has the unfinished-run record, the saved armed flag and the debt of a switch back. `loop` is
the warning loop's `_process_autocf`, with the context it measured before. `lapse` names the first fault behind which the model may stay switched:

* `withheld`, `raised`: `/compact` was not typed after the switch, or the switch back raised and is only logged (8917);
* `stale`: a run plans to go back to what the newest reply ran on, and that was a turn on the compaction model (7659-7702);
* `mistaken`: what confirmed a line of a switch back is the answer to another thread's line, or to one of the switch (7705-7722, 7780). A line therefore names the run and the thread that typed it;
* `forgotten`: an unconfirmed `/effort` is forgotten once the `/model` after it is confirmed, as one slot keeps what was sent (7804, 9120-9127); and the thread of a halt that finds another run in the topic leaves the debt to it, also
  when its own switch back failed and nothing seems to be owed (9211-9222);
* `crash`: memory is gone.

Abstractions: the write-up's content is a marker that is there or not; the order of rows in a transcript is a set since the run's cursor.

### TopicMove

`reg`, `dir` and `req` are the registry, the topic folders with their links, and the request files, by topic key; `grp` says in which group a topic was created. `thread` has one record for each
thread or command: where it is, which key it holds, which locks. The lifecycle loop (`life`) goes through `_execute_topic_move` step by step, rollback included, and through the report of interrupted moves at start.
Everything that is fenced from a move is there in small: a group's poller with a message for a known or an unknown topic, the sweep, a nudge's timer, `notify`, a tap on a question, a revive or carry-forward at work, the thread of a halt, the warning loop with its table keyed by topic.
`Locks` takes the creation lock, topic locks (shared or exclusive) and the lock of questions in the code's order, and a thread that waited resolves its key again where the code does.
`harm` names what a crash or a failure left: `torn` (between the rename and its link, or their rollback), `left` (between the registry and the record of the unfinished run), `stuck` (a result that could not be written), `pointer` (a request executed on a topic the session had already left: one put in the place of a running
one whose result is not yet written).

Abstractions: the rollback's own `unlink` and `rename` (1165-1167) do not fail; a crash keeps the warning loop's table, although what a tick has not yet published (3988-3994) is lost with the process, and no setup has both the loop and a crash; one session, one piece of work at a time; the registry commit is atomic (`update_registry`); `park_claim` excludes a move as the fence does; messages redelivered after a crash are `Ingest`'s; the caches a move drops, the directory's
topic file and the `closed` flag are left out.

### Revival

`rev[r]` is a revive: who asked for it (the restore at start, the owner, the operator's `restore_cli`), where it is in `revive_one` and `deliver_briefing`, the pane it launched or took over, the choice and what became of
it, the plan to switch back, and the briefing's attempt. `boot` holds the kernel's boot id and the one in `boot.json`, which decide whether a start restores; `entry.briefed` is `briefed_boot`, and `entry.owed` the model debt.
A pane goes from `loading` to the resume picker or the prompt; after the picker's "compact" or a `/compact` it is idle for a moment (`gap`), in which what is typed is lost, then `compacting`. `said` is the model of the transcript's newest reply,
from which a launch takes its own. `told` is what the owner read about which pane.
A look at a pane, a restore of the model or a typing that raises (`Raises`) ends a revive where it stands, with a line in the log at most.
`lapse` names what went wrong that nothing here makes good: a report that could not be sent (`unsaid`), a briefing cut by a crash after the boot id is saved (`cut`), a briefing ended by a call that raises, which is not tried again and reported to nobody (`raised`: 6576, 6811, 6824, 6904-6905), a plan lost with the revive that held it (`unplanned`), a picker
answered at the terminal (`hand`), a revive that takes over a pane another one is at work on or has just asked to compact (`joined`), a pane taken over under the stamp of another (`inherited`), a briefing left out because a session in another pane listens (`elsewhere`), a launch on the model
of a reply that came in the middle of a switch (`carried`), and a debt, which is the topic's, paid for one pane while another is on the cheaper model (`crossed`).

Abstractions: one topic; `type_line` takes a line or does not (`PaneTyping`), and how a switch is confirmed is in `CarryForward`; a compaction begins within the time the code gives it, and a restart of the daemon takes longer than that; the operator runs
`restore_cli` only for a pane that is gone; the picker of a fresh restart, early reports of a pane that swallows lines (limited in rate), and the wake that follows a revive (`InboxWake`) are left out.

### Transport and Outbound

`run[s]` is a process that runs `send` (with or without files), `ask`, `notify` or a sweep of the model watchdog: the part in hand
(`at`; first the chunks of the text, then the files), the attempt, whether it goes out as HTML or plain, the records still to be
journaled, the result. One action per outcome of a request, as `_api_call_raw` classifies it: refused (never made, retried), rejected (answered),
lost (`PossiblyDelivered`), and broken off while it is read (raised as something else). `told` is what makes a caller repeat a
command: a non-zero exit of `send` or `ask`, an alert that is not watermarked. `keyed` is the idempotency key of `notify`, stored
before it posts. `ledger` keeps the order of the records of one message only. `Outbound` sees each run as a message with a length, a part in hand, a count of what was posted and a verdict; `Transport!Promise` is the mapping.

Abstractions: which text goes into which chunk; refusals that change nothing (unread records, a foreign topic, a file that fails its
check before anything is sent); the echo of a notify in the sender's own topic. The wake that follows a notify is in `InboxWake`. An HTTP error counts as not carried out, as the code takes it.

## 3. Runs

Twelve runs; eleven pass, one shows a disagreement (section 6).

| run | instance | distinct states | shows |
|---|---|---|---|
| `inbox_safety` | 2 readers, 1 notifier, 1 key, 3 lines (2 while the readers overlap), 1 crash | 3.0 M | the queue's and the claims' safety |
| `inbox_liveness` | 1 reader, 2 lines, 1 rebind, 1 crash | 0.2 M | a backlog is drained |
| `pane_safety` | a thread and a notify process, 3 calls, 1 window, 1 modal, every write may raise | 2.3 M | no blind Enter, whole text, authority, bounded leftovers |
| `parking` | seven setups: a park against a message, a failure and a death, or a granted authority; two records that race the kill, with an append that fails; a failing revive with retries; two deaths with a close and a reopen; a crash between lives; a crash inside a park's claim | 1.1 M | the claim protocol, stale looks of the sweep, repair, peers, spending, what is replayed, and that the owner is answered |
| `transport_safety` | 2 processes, one message of any of the four commands, 2 chunks, 2 files, 2 runs, 1 kill, 1 ledger fault | 0.2 M | refinement of `Outbound`, no duplicate, a true ledger |
| `carry_safety` | seven setups: lines withheld, lost or raised on; two runs with a halt; an automatic run, an owner's and a crash; two runs with the write-up; start notices that raise, of an automatic run and of the owner's | 2.3 M | halted runs, the model, the record, the cooldown |
| `carry_liveness` | three small setups with the same faults, two tries at `/compact` | 0.2 M | runs end, unfinished ones are tried again |
| `reopen` | seven setups: failing revives and sends; a crash and a failing save; another session, a carry-forward and a failing revive; the other topic's writes; the preset answer; two of a fresh question | 0.18 M | file and memory, taps, the kill-switch, settlement |
| `ingest` | five setups: two bots with crashes and reconfiguration, with a failing save; kill and its confirmation over time and crashes; the other roads; rejected events at the cap | 0.25 M | updates, kills, counts, and that every update is handled |
| `move` | eight setups, three groups, two operators: races on the request; two moves with a fault and a crash; messages, notices and the sweep; work in the topic; strangers' messages; the warning loop; the unfinished record | 0.28 M | home, data, fences, results, and that everything settles |
| `revival` | eleven setups, three revives, two attempts to brief: a restore cut short at any point; a compaction on the cheaper model with a failure or a death, with a turn in the middle, cut short; the owner's choice and a picker answered by hand; the operator beside the owner, and beside the restore; a codex session; a second reboot; a pane taken over that is about to compact; one debt and two panes; in those with a failure, any call may raise | 1.15 M | the stamp, the choice, the model pair, and that nobody is left dark |

The properties, each under a comment that names the behaviour, and each broken by a mutant of the code (`PROJECT.json`, "mutants"; the mutated
operators are marked in the modules). Some are named conjunctions of parts, which are given in brackets.

* `InboxWake`: `NothingSkipped` (the cursor passes only printed lines), `ClaimsExclusive` (no batch has two wakes [`OneWakePerBatch`], a claimed wake is
  typed only for the current batch, and no commit happens meanwhile [`TypingOwnsBatch`]), `StaleMeansShown` (a suppressed wake announced a line already printed),
  `BacklogHasOwner` (an unread backlog has an owner that was not called off), `KeyOnce`, `NoReplay` (a completed commit is never taken back, whichever reader is the slower, and a reader at work alone prints nothing that one covers), `BacklogDrained`.
* `PaneTyping`: `EnterIsMeant` (no Enter answers a picker that was up before the receipt was typed [`NoBlindEnter`], and what is submitted is still authorised [`SubmitsWithAuthority`]), `PayloadIntact`, `CopiesBounded`.
* `Parking`: `EntryHonest` (`ended` means down but under the parker's claim, `parked` means the parker killed it, and the sweep's notice that a session is back is true [`CorrectionTrue`]), `NewestIsReplayed` (the newest record, drained by the killed pane and not handled, is unread again or its sender is asked for it), `NothingUnasked` (no peer's message wakes a parked seat [`PeersNeverWake`], and the owner is asked before a large session is paid for [`AskedBeforeSpend`]),
  `OwnerWakesParked` (an owner's message to a parked session brings it back, or a question).
* `Transport`: `KeepsPromise` (the refinement), `ResentOnlyIfExcused`, `MirroredOnce`, `LedgerHonest`.
* `CarryForward`: `HaltedNeverResumes`, `NeverSilentlyCheap` (no exit leaves the session on the compaction model with no debt and no notice, but behind the faults of `lapse`),
  `RunsOnRecord` (an automatic run stays on record until it compacted), `CooldownHonoured`, `RunsConclude` (a run with a worker ends; an unfinished automatic one is followed by another).
* `ReopenQuestion`: `FileIsMemory`, `QuestionsTrue` (a tap revives the session its message was about; the question asks for the answer that can bring the session back), `KillSwitchHolds`, `QuestionsSettle`.
* `Ingest`: `UpdatesKept` (what Telegram forgot was handled; once in each life), `KillIsConfirmed`, `RejectionsKept` (in `Rejections`: journal and windows account for every event, within the cap), `EveryUpdateHandled`.
* `TopicMove`: `HomeKept` (one home, and the data in it [`DataFollows`]), `KeptApart` (nobody but a halt's thread is at work on a topic the session left; work in the topic refuses the move; the destination's folder is free), `ResultsTrue` (reports and answers are true, a request is executed once [`ExecutedOnce`]), `EpisodeFollows`, `EverythingSettles`.
* `Revival`: `StampTrue` (the stamp says that the bound pane has its briefing in this boot), `ChoiceTrue` (what the owner reads of the choice was applied, or said not to be; "is back" comes after the briefing),
  `PairKept` (no session is left on the compaction model with no debt, no notice and no revive to move it back), `NeverLeftDark` (a session brought back is briefed, listens, or its owner is told, but behind `lapse`: no call raised, no crash cut the briefing).

**Exceptions written into properties**, each because the code does not promise more: `NeverSilentlyCheap` excepts `lapse`; `NewestIsReplayed` speaks of the newest record only, the older ones being lost (1897, `MCParking_DrainedIsReplayed`), and excepts a last record the repair cannot read, which it takes for none (1897, 218-219), a parker that crashes and a second failure;
`NoReplay` excepts readers that overlap, which may print a line twice (`SPECIFICATION.md:620`), and a commit torn by a crash; `RunsConclude` a run whose start notice raises, which nothing but the owner's next message releases (8780-8795, 2075-2077), and a record lost with the daemon or with a notice of the loop that raises (`lost`);
`KeptApart` the thread of a halt, which takes no topic lock (`MCTopicMove_Tombstones`);
`CorrectionTrue` a park, whose undo takes a stamp of the sweep back as well (1824), so that a dead session can be announced as live; `EndedMeansDown` a crash inside a claim, after which the entry of a live session says it ended until its owner writes
(`OwnerWakesParked` covers that); `DataFollows` and `EpisodeFollows` a death between two system calls; `ReportTrue` and `ToldTruth` a request executed on the pointer; `QuestionsSettle` a question given up or a write that failed; `QuestionsTrue` a record written over another (5924); those of `Revival` the entries of `lapse` each names (TLC finds a violation when any of them is dropped);
`EveryUpdateHandled` a poller that a failing save has ended, which is what the code does (9324) and no restart of the daemon follows.

**Bounds, and why they are enough.** Three lines give a batch, one that joins it, and one of the next batch with its own claim; a stale claim needs two batches.
No lock keeps a second reader out, so there are two in `inbox_safety`, which is what it takes for one to hold a range that the other has committed; a third line on top of two readers at once adds nothing but states (`MaxShared`), nor does an overlap that begins after a crash; and the proofs hold for any number of both. `inbox_liveness` has one. One crash
suffices for each torn state, as nothing heals between. In `pane_safety` two calls leave copies that reach the cap and the third is refused or, after a window,
retried; two writers are what the lock must separate, and a third behaves as the second. In `parking` one park meets
one event of each kind, and two records are a newest and an older one; two panes are the parked one and one revived; more of them is what the setups without the parker have. One failure at a time: the properties state what a single failure may do, and the part `PeersNeverWake` says so itself
(two failed reads do wake a parked seat, by the code's choice to fail towards waking). In `transport_safety` messages share nothing but the order of the ledger's lines, so one message at a time is enough, with a second
process to run it again or at once; two chunks and two files give each kind of part a first, a last and a one in between.
In `carry_safety` two runs are the halted and the later one, which is all that `flow` and the record can confuse; two lines in the terminal are a line and the one typed behind it; one try at `/compact` where the tries are not the question (`carry_liveness` has two).
In `reopen` three sessions are the dead one, one that another process registers and one revived; two shown messages let a tap name the wrong one; every setup has two kinds of trouble meeting in one question.
In `ingest` three updates in one batch or three are all that an offset can split; two bots are what share a file; a window of one tick and a cap of two with three keys fill the table, expire and evict.
In `move` three groups let a second move go on or go back; two operators contend for one request; four keys are the home, two moves and one topic of the owner's. One message before, one during a move.
In `revival` three revives are the one cut short, its successor and the one that races it; two attempts are a first and a last, between which a timer runs; two failures let a report fail after what it reports; boots 2 and 3 are the one that runs and a later one.

**Fairness.** `InboxWake!Fairness`: timers and the sweep are daemon threads that run in loops with their exceptions
caught, hence weak fairness; a session that finds a typed line runs `recv` and a started reader goes on, hence weak
fairness of its steps. Typing by the sweep is strongly fair: the sweep tries again each round and a modal does not stay for ever; without
this no delivery can be promised, as the pane is not the bridge's. No fairness for owner, notifiers, appends, binding
or crashes. `Parking!FairSpec`: the parker, the reviver, the sweep's round and each `maybe_auto_revive` run on;
the sweep's poll is fair (`lifecycle_loop` is `while True`). `CarryForward!Fairness`: the workers, the halts' threads and the warning loop run on, and time passes (`Cools`); every wait of a worker has its own deadline in the code, so that none needs the session.
`ReopenQuestion!FairSpec`: the start, the poller and the worker run on; publishing and offering are strongly fair, since they compete for a lock that is free again and again.
`Ingest!FairSpec`: systemd starts the daemon again (`Restart=always`), and each poller goes on; messages, time and the owner are not fair. `TopicMove!Fairness`: the restart and each thread that was begun; a free lock goes to who waits
(`flock` and `RLock` both wake a waiter). `Revival!FairSpec`: systemd starts the daemon, each step of a revive and its timer goes on (every wait in it has a deadline), a screen renders, and a compaction that was asked for begins; turns and compactions need not end. The owner, the sessions, the operator and the panes have no
fairness anywhere. `OwnerWakesParked` accepts a question as an outcome: what follows is the owner's move.

## 4. Proofs

Each proof module is checked by tlapm (SMT, Zenon, LS4) and rests on the one assumption of its component's module, named in the table: what the code
takes for granted of its constants, so that a theorem holds for every number of runs, sessions, topics, groups, processes and faults. `Setups` may be any set of bounds of the right type.

| theorem | statement |
|---|---|
| **`Delivery_proofs`**, the inbox | from `InboxWakeAssumption`: bounds are natural numbers, `NoKey` is no key |
| `TypeCorrect`, `Invariant` | `Spec => []TypeOK`, `Spec => []IInv` |
| `NoLineLost` | `Spec => []NothingSkipped` |
| `ClaimsSound` | `Spec => []StaleMeansShown` |
| `WakeOwnsBatch` | `Spec => []ClaimsExclusive` |
| `BacklogOwned` | `Spec => []BacklogHasOwner` |
| `NotifyIdempotent` | `Spec => []KeyOnce` |
| `NothingReplayed` | `Spec => []NoReplay` |
| **`Delivery_proofs`**, the pane | from `PaneTypingAssumption`: the names of nobody and of the daemon's process are not a writer's or a notify's, faults are known, bounds are natural numbers |
| `TypingTypeCorrect`, `TypingInvariant` | `TypingSpec => []TypingTypeOK`, `TypingSpec => []TypingInv` |
| `EnterMeant` | `TypingSpec => []EnterIsMeant` |
| `PayloadKept` | `TypingSpec => []PayloadIntact` |
| `CopiesAreBounded` | `TypingSpec => []CopiesBounded` |
| **`Transport_proofs`** | from `TransportAssumption`: there is some message, the four kinds of message are disjoint, bounds are natural numbers |
| `TypeCorrect`, `Invariant` | `Spec => []TypeOK`, `Spec => []IInv` |
| `ImplementsOutbound` | `Spec => KeepsPromise` (that is, `Outbound`'s specification under the mapping) |
| `LostAnswerNeverDuplicates` | `Spec => []ResentOnlyIfExcused` |
| `NoticeMirroredOnce` | `Spec => []MirroredOnce` |
| `LedgerIsHonest` | `Spec => []LedgerHonest` |
| **`CarryForward_proofs`** | from `CarryForwardAssumption`: room for a run, a line and a try |
| `TypeCorrect`, `Invariant` | `Spec => []TypeOK`, `Spec => []IInv` |
| `HaltIsFinal` | `Spec => []HaltedNeverResumes` |
| `RecordKept` | `Spec => []RunsOnRecord` |
| `CooldownKept` | `Spec => CooldownHonoured` |
| `SwitchInvariant` | `Spec => []SwitchInv` |
| `NeverLeftSilently` | `Spec => []NeverSilentlyCheap` |
| **`ReopenQuestion_proofs`** | from `ReopenAssumption`: one session at least, and each setup says what brings the first one back |
| `TypeCorrect` | `Spec => []TypeOK` |
| `FileFollowsMemory` | `Spec => []FileIsMemory` |
| `KillSwitchWorks` | `Spec => KillSwitchHolds` |
| `QuestionsAreTrue` | `Spec => []QuestionsTrue` |
| **`Ingest_proofs`** | from `RejectAssumption` (a finite set of keys, a window, a positive cap) and `IngestAssumption` |
| `RejectTypes` | `RejectSpec => []RejectTypeOK`, for any threads |
| `OnePollerAccounts` | with one thread, `RejectSpec => []RejectionsKept` |
| `TypeCorrect` | `Spec => []TypeOK` |
| `NoUpdateLost` | `Spec => []UpdatesKept` |
| `KillsAreConfirmed` | `Spec => []KillIsConfirmed` |
| `OneBotAccounts` | with one bot, `Spec => []RejectionsKept` |
| **`Parking_proofs`** | from `ParkingAssumption`: a pane at least, and every setup's panes within the bound |
| `EntryIsHonest` | `Spec => []EntryHonest` (types among it) |
| `NobodyUnasked` | `Spec => []NothingUnasked` |
| `NewestComesBack` | `Spec => []NewestIsReplayed` |
| **`TopicMove_proofs`** | from `MoveAssumption`: the home's group is a group, there is a key, and no group, worker or operator shares a name |
| `SessionHasOneHome` | `Spec => []HomeKept` (types among it) |
| `MoveIsFenced` | `Spec => []KeptApart` |
| `ReportsAreTrue` | `Spec => []ResultsTrue` |
| `OneEpisode` | `Spec => []EpisodeFollows` |
| **`Revival_proofs`** | from `RevivalAssumption`: a revive and an attempt at least, boot 2 among the boots, setups of the right type |
| `TypeCorrect`, `RevivalInvariant` | `Spec => []TypeOK`, `Spec => []IInv` |
| `StampIsTrue` | `Spec => []StampTrue` |
| `ChoiceIsTrue` | `Spec => []ChoiceTrue` |
| `PairIsKept` | `Spec => []PairKept` |

The two halves of a delivery share a module of proofs, which is why the definitions of `PaneTyping` that `InboxWake` has too are called `TypingSpec`, `TypingTypeOK` and so on.

None of the properties is inductive alone. Each module states its strengthening `IInv`, one lemma for each action or group of actions, and a last lemma that
puts them together; TLC checked the parts on the runs' instances before they were proved.

**The argument for the transport.** `Progress` says what a run has posted from where it is (one less than the part in hand before the
answer, that part after it) and gives the refinement: one lemma (`SenderStep`) reduces the thirteen actions to four kinds of step,
begin, keep, post and leave, and `MappedStep` maps each kind to a step of `Outbound` or a stutter. For the rest, `OneRun` (a message has one run
at a time), `KeyFirst` and `CleanStart` (what may be started has posted nothing) and `PostedByRun` (what is posted of a message was posted by
its run) together carry `PostedOnce`, of which both safety theorems are instances. For the ledger, the records still to be journaled count as written: a run
under way finds each part it tried once in the ledger and its own list together.

**The argument for the queue.** `IInv` adds `cursor <= Len(inbox)` and two parts.
`ReaderInv`: a reader has emitted all lines before the range it holds; past its print it has emitted the range; and while it
writes the cursor its range ends at the end of the inbox, and it is the only one. This is what carries
`NothingSkipped` through the commit, whose guard compares the inbox's length and whose write comes a step later.
`ClaimInv`: a claim lies below the end of the inbox, and either is the current cursor or the line it announced has been emitted.
This is why two claims differ (a new one is taken only at the end of the inbox, so above all others) and why a wake found stale was
superfluous. The type invariant is proved first; then each group of actions (writers, wakes, readers, pane,
crashes) has a lemma for the queue's part and one for the wakes' part. For `NothingReplayed`, `ReplayInv`: the mark is
never beyond the end of the inbox, and whoever writes the cursor has a range that ends there (`ReaderInv`), so no commit goes back, however old the range was with which its reader began; and a reader that is alone started where the mark is, since with nobody else at work the cursor is the mark, and nobody commits beside it.

**The argument for the pane.** `LockInv` and `CallsDistinct`: whoever is past the lock holds it, and calls under way have different numbers. `ReceiptsFresh`: before its receipt is typed a call's number is neither in the box nor on the screen, so that
a receipt seen is this call's. `PickerInv`: while an early picker is up the holder has not seen its receipt, hence `NoBlindEnter`. `BoxInv` follows the text from the key strokes on: at each place of the writer it says what the box must end with if the text landed, hence
`PayloadIntact`. `CopiesInv` counts what an Enter would clear: the attempts left in the box, with a credit of one for the call that was let through at the cap, are at most the streak and the retries.

**The argument for parking.** `PaneInv`: only panes that were launched are known to anybody, and a pane that was killed or died does not come back. `ParkerInv`: the claim on the entry is the parker's own or a dead daemon's, and while it
stands the entry is as the claim wrote it, on the pane that is to be killed; hence an undo takes back nobody else's stamp, and `parked` without a claim names a killed pane. `LifeInv`: what the sweep saw dead stays dead, so that its late stamp is true of the pane it compares, and only a
bind can change the entry between its stamp and its second look, unless a park does. `QuietInv`: with nothing from the owner, no authority and one failure at most, every call returns without a question: each read that fails asks for another look, which a second failure would have to spoil. `SpendInv` closes all roads
of a large session but the answer. `NewestComesBack` is about the repair, whose look takes the last record for the lost one: `Repairing` says at which places of the parker a newest record that is lost is still to be dealt with, `DropInv` that the record it took is one of the inbox. A record that arrives in between becomes the newest, and is unread; of the older one nothing can be said.

**The argument for the carry-forward.** `PlanInv` (in `ControlInv`): a run plans once and before its first switch; `FlowInv` and `StartInv`: who owns the topic was started and has not ended, and a run whose halt has begun does not own it; since the resume line is typed in the hold of the lock that checks
ownership, `HaltedNeverResumes` follows. `RecordInv` and `FreshInv` tie the file to the owner: an automatic run that has not compacted and owns the topic is the one on record, and a recent one is on record as recent, whatever the loop decided from what it had read before. A flow left without a worker keeps all of this: its run has planned nothing and ends where it is (`OrphanStep`).

`NeverSilentlyCheap` needs an invariant of its own, `SwitchInv`, which speaks of the states before the first lapse and says of every thread that may type a model line, a worker or the thread of its halt, what it still owes. `Answerable` is the core: for a field that is not
the session's own, and for every line in the terminal that would make it so, the debt is on record, the owner was told, or a run is bound to switch back. It is kept by a switch back only if its line is the last to set the field (`Seals`: nothing that sets it to the cheap model is typed behind the line awaited,
and once that line was taken the field is clean), which in turn needs that a line recognised as one's own is the very one just typed (`Once`), that nobody switches meanwhile (`OneHolder`, of `_settings_lock`), and that who switches back knows the session's own pair (`Stages`: every plan made before a lapse
is that pair). Thirty steps are then reduced to a few kinds: one that types no such line (`Gentle`), one that types an own line, a cheap line, and those in which no thread moves.
Trying to prove it showed that the property, as stated before, held only on the run's instances: with three runs and two lines in the terminal a plan could be made from a stale reply and be kept by a record, and a halt whose switch back raised could drop the debt in favour of the run that had taken the topic. Both are in the code; `stale` and `forgotten` name them now.

**The argument for the questions.** `BufInv`: a snapshot being written is memory as it still is, since its thread holds the lock under which all others change memory. `Sync` is what `FileIsMemory` becomes between change and write: file and memory agree, or a write failed for all to see,
or a thread is on its way to a write. `QuestionInv`, `LockInv` and `BootInv` say who may be where with what; `KillSwitchHolds` follows from what `Fits` knows of the answer's road.
`QuestionsTrue` needs a second invariant, `Truth`, which holds until a record is written over another. A record may well be under a message that is about another session (a failed start gives its own session's question back under whatever message is there), so "the message shows the record's session" is not invariant.
What is: then the record's session is not in the topic, and no answer and no revive is about to bring it there (`Weak`), so that no tap can match it. `GiveInv` keeps that through a giving back: whoever may still do so finds a record of its own session, or one that no message will be about, or its session has left the topic.
`KindInv` says the same of the kinds, with `FreshInv` for the answers and revives that make a new session; `BesideInv` says what the sweep can still do beside an answer or a revive, and `TapInv` that a tap's message is that of the question while its handler has the lock. Each group of steps has a lemma, and `GrowsStep` says once that no step forgets a session or a message.

**The argument for the ingress.** `Handled(b, n)`: every update below `n` was handled. It holds of each bot's file, its offset in memory and what Telegram discarded (`BotInv`), a batch is a run of updates that begins where the offset may be (`BatchInv`), and
the shared file is a cursor of the bot it was last written for (`MirrorInv`), which is where the assumption about the operator enters: a start that adopts it must be that bot's. A confirmation armed is of the prompt delivered last, with no text for the session since (`ArmedInv`).

**The argument for the rejections.** A look copies a window's count, and what is written back later is the copy. `LookHolds` says that the copy still agrees with the
table when it is written: a thread about to count holds a window that is there with that start and count, one about to print either holds a window with the count it will say or its key has none, and one that removes was turned to it by a full table whose
key is not in it. With one poller no other thread comes between, which is exactly the assumption `MCIngest_TwoPollers` shows to be needed. The cap follows from the same invariant: a new key is written only after a removal made room. `OneBotAccounts`
carries it over to the pollers of `Ingest`: their steps take a step of the table, leave it, or empty it with the process.

**The argument for the moves.** `ThreadInv` (`LocksAt`) says which locks a thread holds where, and that they exclude each other as they should; `KnownInv` what a thread that has resolved its key may rely on; `LifeInv` what the move has done so far and what nobody did meanwhile. `RegInv`:
pointers lead from older keys to younger ones, to exactly one session. The folders are harder, as a link can lead back: `Ranked` says there is a rank that falls along every link, also while one is being renamed, so there is no circle; `Whole`, which a torn rename excuses,
that the folder behind every key is the home's and holds what was accepted. Following pointers or links is an iteration over at most `MaxKey` steps; that it ends, and where, is proved from the well-foundedness of `<` on the natural numbers (`Least`), with
lemmas that say what a new link, a renamed folder or a new pointer does to the end of every trail. `ReqInv` and `WorkInv` carry the reports and the fences; both are weakened only by what `harm` names.

**The argument for the revives.** `Own(r)` says of a revive, by its place, what it holds and owes: which pane it has and whether it launched it (`Control`), where its plan to switch back stands (`Planned`), that a notice names what was applied (`Noticed`), what it did to its pane (`Screen`), and whom it has told (`Said`).
`Undisturbed` is the part a briefing rests on: a revive types into no pane that compacts or is about to, because the compaction of a pane it launched was its own, and then it awaits it (`Awaits`), or because it found the pane up and past the moment in which it is idle.
That needs `Apart`: nobody else is at work on its pane, unless one joined. `StampInv` follows, since a stamp is written behind a briefing that was taken, and moved by a bind that compares panes. For the model, `PairInv` speaks of all panes and not of the bound one: each that runs on the compaction model has a debt, a notice or a revive with a plan (`Answers`).
A revive's step changes its own record, at most its own pane, and adds to what was told and to what lapsed; `StepKeeps` puts together what that leaves of the invariant for everybody else. What is no step of a revive (screens, turns, deaths, a listener, the sweep's stamp, crashes and reboots) is one kind of step, `WorldStep`: revives rest or end, and a pane changes as a session changes it (`Natural`). A call that raises ends a revive and touches nothing else (`RaisesStep`); a plan lost with it is `unplanned`.
Trying to prove these showed that all three held only on the run's instances. A restore cut short after the picker took "compact", and a bind that fails, leave a pane about to compact which the next revive finds at its prompt: it briefs it into the compaction and stamps it (6971, 6574). And a debt that is paid in one pane is struck from the topic while another pane still runs on the cheaper model (7867).
Both are in the code: `joined` was extended, `crossed` is new, and the setups `Retaken` and `Crossing` are what TLC needs to meet them.

**Model-checked only.** The liveness properties, which are under
fairness and out of the prover's reach (`BacklogDrained`, `OwnerWakesParked`, `RunsConclude`, `QuestionsSettle`, `EveryUpdateHandled`, `EverythingSettles`, `NeverLeftDark`): every other property of a passing run has a theorem, for one of them (`RejectionsKept`) with an assumption, that there is one poller, which is also what its run has and what a second poller refutes. The rank of the folders is an existential, which TLC does not evaluate on a run; its instances are checked through `DataFollows`.

## 5. What is not modelled, and why

Formatting, wording, icons, the dashboard, the digest, usage numbers, transcription and installation have no state that another part depends
on. Context warnings and reports, the switches of model and effort outside a carry-forward, transcript cursors, registering and binding, and what the model watchdog reads do, and are next in the plan (section 7).
A nudge whose timer fires after its topic has ended is typed all the same (876: only the pane is looked at); `InboxWake` has no ended topics. `PROJECT.json` lists each component with its status, and each
hazard with the properties that cover it or the reason none does.

## 6. Disagreements found

With a run of its own (`PROJECT.json`, "findings"):

* `recv_delivers_unread`: a record with U+2028, U+2029 or U+0085 is split by `str.splitlines` and
  every later `recv` raises (`cli.py:1081`).

Further divergences, with a configuration to reproduce each (`tlc -config <cfg>.cfg <module>`, the module being the part before the underscore):

| cfg | what it shows |
|---|---|
| `MCInboxWake_SweepOnlyUnread` | the sweep may nudge an inbox that a `recv` has just emptied, against A4 and 6.5 of `SPECIFICATION.md` (4055, 4072) |
| `MCPaneTyping_ReceiptNeverSent` | a receipt taken back blind under a picker stays in the box and goes out with the next line (730; 599 says the session never sees it) |
| `MCPaneTyping_Pickers` (with `-continue`, to see both) | `EnterMeansDelivered`: a picker answered before the receipt is typed swallowed the text, and an empty line is submitted as sent (729; 567). `NoLateEnter`: a picker that rises after the receipt was seen hides it, the look takes that for "erased", and Enter answers the picker (748; 799) |
| `MCPaneTyping_AllCopiesBounded` | a copy whose receipt raised is not counted against the cap (718; 692, 772-774) |
| `MCParking_OneSession` | an answer inside a park's claim launches a second pane beside the one still running (6971; 1057-1059, 6912-6914) |
| `MCParking_RetryRebinds` | after a crash between launch and bind the retry launches again instead of rebinding (4918; 6912-6914) |
| `MCParking_DrainedIsReplayed` | only the last of two drained records is replayed (1897; 1878-1880) |
| `MCParking_ParkedTopicOpen` | the sweep's stale look closes the topic of a session just parked (1353; 1561) |
| `MCParking_DurableIsOutcome` | a revive that found the pane binds it after the kill; the repair takes that for success (1970; 1957-1960) |
| `MCParking_ChoiceTopicOwners` | an answer typed before any question revives behind a topic the sweep closed (7148; 7205) |
| `MCTopicMove_Tombstones` | the thread of a halted carry-forward takes no topic lock and writes a model debt on the pointer a move has left; the moved session keeps the compaction model (9226; `SPECIFICATION.md:161`) |
| `MCTransport_NeverDuplicated` | an answer that breaks off while it is read is classified as nothing: the command fails although the message is posted, and its repetition posts it again (`common.py:680`, 689; 619) |
| `MCTransport_LedgerIsWhatWasSent` | chunks posted before one that is refused are in no ledger, and the command says NOT SENT (`common.py:1032`, `cli.py:515`; `CONFIGURATION.md:249`) |
| `MCCarryForward_NoExitSilent` | `/compact` withheld after the switch ends the run with no switch back, no debt and no notice (8954; 8906-8908) |
| `MCCarryForward_AlwaysRetried` | a daemon killed after it consumed the unfinished record and before the next run opens its own never tries again (3693; 8799-8800) |
| `MCReopenQuestion_Taps` (with `-workers 1 -continue`, to see both) | `OldTapNeverAnswers`: a tap made before an answer was taken answers the question that a failed revive gave back, as it keeps its message (6021; 4860). `TapIsTrue`: the sweep's offer, decided before, is written over the record of an early answer (5912-5924); the start fails and gives the answered session's question back under the sweep's message (6021), which is about another session: a tap on it revives a session it does not show |
| `MCIngest_AnythingElse` | a command, a halt or a voice message leaves a kill's confirmation armed (4682; 3424 says "anything else cancels") |
| `MCIngest_TwoPollers` | two pollers share the table of rejections without a lock, and a count is said twice (4454; 4459) |

Seen while reading and not given a property, being of less weight: an exact answer typed while its question is not yet answerable goes to the session's inbox (4767); giving a question back, forgetting and re-asking ignore whether the file could be written, though
5606 asks callers to tell the owner; a question that must be re-sent at start, and whose send is ambiguous, makes the start fail and repeat; a confirmed kill whose notice cannot be sent lets its "yes" go on to the
inbox, as does one replayed after a crash; an operator may remove a request that another operator has just placed and the daemon runs, as the look and the `unlink` are not one step (`cli.py:312`, against its comment at 314), and when a second request is thereby put in the place of the running one, the loop executes it on the key the session has left: after a restart it answers "moved" with the first
move's destination to an operator who asked for another (1294-1315, `cli.py:329`); a message
in a topic that was created for a move that then failed is put aside in the folder its alias points to; `_cf_clear_modal` posts its warning to Telegram under `_cf_lock`, which stalls the pollers as 8362-8364 says a network call there would; a start notice of a carry-forward that raises anything but a topic that is gone leaves the flow in `_pending_cf` with no worker (8780-8795, 2075-2077), so that the kill-switch stays armed and no automatic run starts until the owner's next message, which is taken for a halt;
a notice of the warning loop that raises leaves the topic armed with no run (3703-3725).

Of the same kind, seen while modelling `Revival`, whose `lapse` names most of them: a codex pane found up under the suffixed name takes over the stamp of another pane and stays unbriefed (7167-7174, 7212); two revives may take over one pane, and
both brief it (the topic lock is shared); whether somebody listens is known per topic and not per pane, so that a listener in another pane suppresses a briefing and sends "is back" (6544, 6775); a choice for a session found up is dropped
without a word (6971; 7114 wants failures loud); a restore with no earlier boot id that is cut by a crash is not repeated, because any live pane counts as "not a reboot" (7261, 7361); nor is a briefing cut after the boot id is saved (7303); a
reply that raises after `/compact` loses the plan to switch back (7091, 7296). A call that raises ends a briefing with no second attempt and no report: `tmux` that does not answer a look at the pane in time (294-311, from 6576, 6722 and 6824, outside any `try`), a restore of the model (6811),
or the typing and its check, which are only logged (6904-6905); this is the silence that #172 was about. An owner who chose reads then that the session is still down (6208), though its pane is up.

## 7. Plan

1. `InboxWake`, `PaneTyping`, `Transport` (and `Outbound`), `Ingest` (and `Rejections`), `Parking`, `ReopenQuestion`, `CarryForward`, `TopicMove`, `Revival`: done, every safety property proved.
2. `ReopenQuestion` as a refinement of `Parking`'s `pending`; `InboxWake` composed with `PaneTyping`, with ended topics and the nudge at 876.
3. `Reports`, `PaneCommands` (the switches), `TranscriptCursor`.
