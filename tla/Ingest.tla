------------------------------- MODULE Ingest -------------------------------
(***************************************************************************)
(* How an update gets from Telegram into the daemon: the cursor of each    *)
(* bot and the files it is kept in, the batch a poller handles, and the    *)
(* road of one message through the daemon's own words (the kill-switch,    *)
(* /kill and its confirmation, commands, interrupts) to the inbox.         *)
(*                                                                         *)
(* A bot is a poller's thread and serves one topic here.  What a message   *)
(* does once it is in the inbox, an answer to a question, and a halted     *)
(* run are other modules' (InboxWake, ReopenQuestion, CarryForward).       *)
(***************************************************************************)
EXTENDS Rejections, Sequences, Functions

CONSTANTS
  First,        \* the default bot of the first configuration
  NoFile,       \* a cursor file that does not exist
  Setups        \* the bounded environments a behaviour may start in

Kinds == {"plain", "yes", "kill", "status", "command", "interrupt", "voice", "rejected"}

Environment ==
  [multi : BOOLEAN, senders : SUBSET Threads, kinds : SUBSET (Kinds \ {"rejected"}), keys : SUBSET Keys,
   updates : Nat, crashes : Nat, configs : Nat, faults : Nat, ticks : Nat, runs : Nat, deaths : Nat]

ASSUME IngestAssumption == First \in Threads /\ NoFile \notin Nat /\ Setups \subseteq Environment

VARIABLES
  setup,        \* the environment's budget, chosen at the start
  config,       \* [multi |-> has "groups", default |-> the top-level bot]
  own,          \* offsets/<fingerprint> of each bot
  legacy,       \* the file `offset`
  mirrored,     \* history: the bot whose cursor that file is
  poller,       \* each bot's poll_updates: pc, offset, batch
  sent,         \* the updates Telegram has accepted for each bot
  server,       \* the first update Telegram still keeps
  done,         \* the updates handled in this life of the daemon
  ever,         \* history: the updates ever handled
  pane,         \* the topic's session is alive
  running,      \* a carry-forward is driving it
  armed,        \* pending_kills: the deadline, 0 for none
  prompt,       \* history: the last delivered kill prompt, and what came since
  killed        \* history: on what a pane was killed

topic == <<pane, running, armed, prompt, killed>>
files == <<own, legacy, mirrored>>
vars == <<rvars, setup, config, files, poller, sent, server, done, ever, topic>>

Bots == Threads

NoPrompt == [at |-> -1, since |-> {}]
Idle == [pc |-> "down", offset |-> 0, batch |-> <<>>]
Served(b) == config.multi \/ b = config.default
Down == \A b \in Bots : poller[b].pc = "down"

Init ==
  /\ RejectInit
  /\ setup \in Setups
  /\ config = [multi |-> setup.multi, default |-> First]
  /\ own = [b \in Bots |-> NoFile]
  /\ legacy = NoFile /\ mirrored = First
  /\ poller = [b \in Bots |-> Idle]
  /\ sent = [b \in Bots |-> <<>>]
  /\ server = [b \in Bots |-> 1]
  /\ done = [b \in Bots |-> {}]
  /\ ever = [b \in Bots |-> {}]
  /\ pane = [b \in Bots |-> TRUE]
  /\ running = [b \in Bots |-> FALSE]
  /\ armed = [b \in Bots |-> 0]
  /\ prompt = [b \in Bots |-> NoPrompt]
  /\ killed = [b \in Bots |-> NoPrompt]

Spend(what) ==
  /\ setup[what] > 0
  /\ setup' = [setup EXCEPT ![what] = @ - 1]

---------------------------------------------------------------------------
(* The environment.                                                         *)

Message(kind, key) == [kind |-> kind, key |-> key]

Send(b) ==
  /\ b \in setup.senders
  /\ Spend("updates")
  /\ \E m \in {Message(kind, SomeKey) : kind \in setup.kinds}
                \union {Message("rejected", k) : k \in {k \in setup.keys : PollerOf[k] = b}} :
       sent' = [sent EXCEPT ![b] = Append(@, m)]
  /\ UNCHANGED <<rvars, config, files, poller, server, done, ever, topic>>

CarryForwardStarts(b) ==
  /\ Spend("runs")
  /\ ~ Down /\ pane[b] /\ ~ running[b]
  /\ running' = [running EXCEPT ![b] = TRUE]
  /\ UNCHANGED <<rvars, config, files, poller, sent, server, done, ever, pane, armed, prompt, killed>>

PaneDies(b) ==
  /\ Spend("deaths")
  /\ pane' = [pane EXCEPT ![b] = FALSE]
  /\ UNCHANGED <<rvars, config, files, poller, sent, server, done, ever, running, armed, prompt, killed>>

TimePasses ==
  /\ Spend("ticks")
  /\ Tick
  /\ UNCHANGED <<config, files, poller, sent, server, done, ever, topic>>

(* What the owner may do to the configuration between two starts: take up   *)
(* groups with the bot he has, name another default once each bot has its   *)
(* file, and go back to one group with the bot the one file was kept for.   *)
Reconfigure ==
  /\ Down
  /\ Spend("configs")
  /\ \/ /\ config.multi => mirrored = config.default
        /\ config' = [config EXCEPT !.multi = ~ @]
     \/ /\ config.multi /\ own[config.default] # NoFile
        /\ \E b \in Bots : config' = [config EXCEPT !.default = b]
  /\ UNCHANGED <<rvars, files, poller, sent, server, done, ever, topic>>

(* The process is gone, with all it kept in memory.                         *)
Stop ==
  /\ poller' = [b \in Bots |-> Idle]
  /\ done' = [b \in Bots |-> {}]
  /\ running' = [b \in Bots |-> FALSE]
  /\ armed' = [b \in Bots |-> 0]
  /\ prompt' = [b \in Bots |-> NoPrompt]
  /\ windows' = {}
  /\ rejecting' = [t \in Threads |-> NotRejecting]
  /\ rejected' = [k \in Keys |-> 0]
  /\ journal' = [k \in Keys |-> 0]
  /\ UNCHANGED <<now, start, count, config, sent, server, ever, pane, killed>>

Crash ==
  /\ ~ Down
  /\ Spend("crashes")
  /\ Stop
  /\ UNCHANGED files

(* A cursor that cannot be written raises through the poller: an extra      *)
(* bot's thread ends for good, the default's takes the process with it.     *)
MirrorFails ==
  /\ Spend("faults")
  /\ Stop
  /\ UNCHANGED files

SaveFails(b) ==
  /\ Spend("faults")
  /\ IF b = config.default
     THEN Stop
     ELSE /\ poller' = [poller EXCEPT ![b].pc = "dead"]
          /\ UNCHANGED <<rvars, config, sent, server, done, ever, topic>>
  /\ UNCHANGED files

---------------------------------------------------------------------------
(* The cursors.                                                             *)

Known(file) == IF file = NoFile THEN 0 ELSE file

(* main, up to the default bot's cursor: the start.                         *)
Boot ==
  /\ Down
  /\ poller' = [poller EXCEPT ![config.default].pc = "initial"]
  /\ UNCHANGED <<rvars, setup, config, files, sent, server, done, ever, topic>>

Polls(b, offset) == poller' = [poller EXCEPT ![b] = [pc |-> "poll", offset |-> offset, batch |-> <<>>]]

(* The offset is known; in a configuration with groups the default's is     *)
(* still to be mirrored.                                                    *)
Found(b, offset) ==
  poller' = [poller EXCEPT ![b] = [pc |-> IF config.multi /\ b = config.default THEN "adopted" ELSE "poll",
                                   offset |-> offset, batch |-> <<>>]]

(* One group: the one file.  A bot with a file of its own: that.            *)
InitialOffset(b) ==
  /\ poller[b].pc = "initial"
  /\ ~ config.multi \/ own[b] # NoFile
  /\ Found(b, IF config.multi THEN own[b] ELSE Known(legacy))
  /\ UNCHANGED <<rvars, setup, config, files, sent, server, done, ever, topic>>

(* Mutant: the old cursor goes to any default without a file.               *)
AdoptsAny(b) == b = config.default

Adopts(b) == b = config.default /\ \A o \in Bots : own[o] = NoFile

(* A bot without one: the old default's cursor is taken over by the first   *)
(* default that ever starts with groups, any other bot starts from zero,    *)
(* and either way the file is written before the first poll.                *)
FirstOffset(b) ==
  /\ poller[b].pc = "initial"
  /\ config.multi /\ own[b] = NoFile
  /\ \/ LET offset == IF Adopts(b) THEN Known(legacy) ELSE 0 IN
        /\ own' = [own EXCEPT ![b] = offset]
        /\ Found(b, offset)
        /\ UNCHANGED <<rvars, setup, config, legacy, mirrored, sent, server, done, ever, topic>>
     \/ SaveFails(b)

MirrorInitial(b) ==
  /\ poller[b].pc = "adopted"
  /\ \/ /\ legacy' = poller[b].offset /\ mirrored' = b
        /\ Polls(b, poller[b].offset)
        /\ UNCHANGED <<rvars, setup, config, own, sent, server, done, ever, topic>>
     \/ MirrorFails

(* Mutant: the default's poller, which never returns, is started first.     *)
StartNone == FALSE

(* The threads of the other bots, once the default bot has its cursor.      *)
StartPollers ==
  /\ config.multi
  /\ poller[config.default].pc \notin {"down", "initial", "adopted"}
  /\ \E b \in Bots : poller[b].pc = "down"
  /\ poller' = [b \in Bots |-> IF poller[b].pc = "down" THEN [Idle EXCEPT !.pc = "initial"]
                                                        ELSE poller[b]]
  /\ UNCHANGED <<rvars, setup, config, files, sent, server, done, ever, topic>>

(* getUpdates: Telegram forgets what lies below the offset and gives what   *)
(* it keeps.  A call that fails is made again, and changes nothing.         *)
Larger(a, b) == IF a > b THEN a ELSE b

Poll(b) ==
  LET from == Larger(server[b], poller[b].offset)
      ids == [i \in 1 .. Larger(0, Len(sent[b]) - from + 1) |-> from + i - 1] IN
  /\ poller[b].pc = "poll"
  /\ from > server[b] \/ ids # <<>>
  /\ server' = [server EXCEPT ![b] = from]
  /\ poller' = [poller EXCEPT ![b].batch = ids,
                              ![b].pc = IF ids = <<>> THEN "poll" ELSE "handle"]
  /\ UNCHANGED <<rvars, setup, config, files, sent, done, ever, topic>>

(* After the last of a batch the cursor is saved: the bot's own file first, *)
(* then the old one when this bot is the default.                           *)
SaveOwn(b) ==
  /\ poller[b].pc = "handle" /\ poller[b].batch = <<>>
  /\ config.multi
  /\ \/ /\ own' = [own EXCEPT ![b] = poller[b].offset]
        /\ poller' = [poller EXCEPT ![b].pc = IF b = config.default THEN "mirror" ELSE "poll"]
        /\ UNCHANGED <<rvars, setup, config, legacy, mirrored, sent, server, done, ever, topic>>
     \/ SaveFails(b)

SaveMirror(b) ==
  /\ \/ poller[b].pc = "mirror"
     \/ poller[b].pc = "handle" /\ poller[b].batch = <<>> /\ ~ config.multi
  /\ \/ /\ legacy' = poller[b].offset /\ mirrored' = b
        /\ poller' = [poller EXCEPT ![b].pc = "poll"]
        /\ UNCHANGED <<rvars, setup, config, own, sent, server, done, ever, topic>>
     \/ MirrorFails

---------------------------------------------------------------------------
(* One update.                                                              *)

Update(b) == Head(poller[b].batch)
Text(b) == sent[b][Update(b)].kind

(* The offset is past the update before it is handled, and an exception     *)
(* out of the handler is logged: whatever happens, it is not seen again.    *)
Takes(b, pc) ==
  LET u == Update(b) IN
  /\ poller' = [poller EXCEPT ![b] = [pc |-> pc, offset |-> u + 1, batch |-> Tail(@.batch)]]
  /\ done' = [done EXCEPT ![b] = @ \union {u}]
  /\ ever' = [ever EXCEPT ![b] = @ \union {u}]

Handles(b, kinds) ==
  /\ poller[b].pc = "handle" /\ poller[b].batch # <<>>
  /\ Text(b) \in kinds
  /\ Takes(b, "handle")
  /\ UNCHANGED <<config, files, sent, server>>

Since(b) == prompt' = [prompt EXCEPT ![b].since = @ \union {Text(b)}]

(* A service event from nobody the daemon knows.                            *)
RejectEvent(b) ==
  /\ poller[b].pc = "handle" /\ poller[b].batch # <<>>
  /\ Text(b) = "rejected"
  /\ Look(b, sent[b][Update(b)].key)
  /\ Takes(b, "rejecting")
  /\ UNCHANGED <<setup, config, files, sent, server, topic>>

RejectStep(b) ==
  /\ poller[b].pc = "rejecting"
  /\ Reject(b)
  /\ poller' = [poller EXCEPT ![b].pc = IF rejecting'[b].step = "idle" THEN "handle" ELSE @]
  /\ UNCHANGED <<setup, config, files, sent, server, done, ever, topic>>

(* What a carry-forward under way lets through: the daemon's own answers.   *)
Passive == {"status"}
Free(b) == ~ running[b] \/ Text(b) \in Passive

(* The kill-switch takes any other message and halts the run.               *)
Halt(b) ==
  /\ Handles(b, {"plain", "yes", "kill", "command", "interrupt", "voice"})
  /\ running[b] /\ Text(b) \notin Passive
  /\ running' = [running EXCEPT ![b] = FALSE]
  /\ prompt' = [prompt EXCEPT ![b].since = @ \union {"halt"}]
  /\ UNCHANGED <<rvars, setup, pane, armed, killed>>

(* The notice of the halt could not be sent: the run is over all the same,  *)
(* and the message goes on down its road.                                   *)
HaltRaises(b) ==
  /\ poller[b].pc = "handle" /\ poller[b].batch # <<>>
  /\ Text(b) \notin Passive \union {"rejected"}
  /\ running[b]
  /\ Spend("faults")
  /\ running' = [running EXCEPT ![b] = FALSE]
  /\ UNCHANGED <<rvars, config, files, poller, sent, server, done, ever, pane, armed, prompt, killed>>

(* Mutant: armed before the prompt is known to be delivered.                *)
AskKillFirst(b) ==
  /\ Handles(b, {"kill"})
  /\ Free(b) /\ pane[b]
  /\ armed' = [armed EXCEPT ![b] = now + Window]
  /\ \/ prompt' = [prompt EXCEPT ![b] = [at |-> now, since |-> {}]] /\ UNCHANGED setup
     \/ Spend("faults") /\ Since(b)
  /\ UNCHANGED <<rvars, pane, running, killed>>

(* `/kill` arms a confirmation, once its prompt is in the owner's hands.    *)
AskKill(b) ==
  /\ Handles(b, {"kill"})
  /\ Free(b)
  /\ \/ /\ pane[b]
        /\ armed' = [armed EXCEPT ![b] = now + Window]
        /\ prompt' = [prompt EXCEPT ![b] = [at |-> now, since |-> {}]]
        /\ UNCHANGED setup
     \/ pane[b] /\ Spend("faults") /\ UNCHANGED armed /\ Since(b)
     \/ ~ pane[b] /\ UNCHANGED <<setup, armed>> /\ Since(b)
  /\ UNCHANGED <<rvars, pane, running, killed>>

(* The other commands, and an interrupt: the daemon does as told, and the   *)
(* message goes no further.                                                 *)
Obey(b) ==
  /\ Handles(b, {"status", "command", "interrupt"})
  /\ Free(b)
  /\ Since(b)
  /\ UNCHANGED <<rvars, setup, pane, running, armed, killed>>

Pending(b) == armed[b] # 0
Expired(b) == now > armed[b]

(* An expected `yes` kills the pane, and is consumed if the notice of it    *)
(* could be sent; otherwise the word goes on to the inbox.                  *)
ConfirmKill(b) ==
  /\ Handles(b, {"yes"})
  /\ Free(b) /\ Pending(b) /\ ~ Expired(b)
  /\ armed' = [armed EXCEPT ![b] = 0]
  /\ pane' = [pane EXCEPT ![b] = FALSE]
  /\ killed' = [killed EXCEPT ![b] = [prompt[b] EXCEPT !.at = IF @ < 0 THEN @ ELSE now - @]]
  /\ Since(b)
  /\ UNCHANGED setup \/ Spend("faults")
  /\ UNCHANGED <<rvars, running>>

(* Any other text drops a pending confirmation and goes to the session.     *)
ToInbox(b) ==
  /\ Handles(b, {"plain", "yes"})
  /\ Free(b)
  /\ Text(b) = "yes" => ~ Pending(b) \/ Expired(b)
  /\ armed' = [armed EXCEPT ![b] = 0]
  /\ Since(b)
  /\ UNCHANGED <<rvars, setup, pane, running, killed>>

(* A voice message or a file has no text to look at: what it says goes to   *)
(* the session, interrupts it, or is nothing, and no confirmation is        *)
(* dropped.                                                                 *)
Media(b) ==
  /\ Handles(b, {"voice"})
  /\ Free(b)
  /\ Since(b)
  /\ UNCHANGED <<rvars, setup, pane, running, armed, killed>>

Handle(b) ==
  \/ Halt(b) \/ HaltRaises(b) \/ AskKill(b) \/ Obey(b) \/ ConfirmKill(b)
  \/ ToInbox(b) \/ Media(b) \/ RejectEvent(b)

Cursor(b) ==
  \/ InitialOffset(b) \/ FirstOffset(b) \/ MirrorInitial(b)
  \/ Poll(b) \/ SaveOwn(b) \/ SaveMirror(b)

Next ==
  \/ Boot \/ StartPollers \/ Crash \/ Reconfigure \/ TimePasses
  \/ \E b \in Bots : \/ Cursor(b) \/ Handle(b) \/ RejectStep(b)
                     \/ Send(b) \/ CarryForwardStarts(b) \/ PaneDies(b)

Spec == Init /\ [][Next]_vars

(* systemd starts the daemon again (Restart=always), and every thread of it *)
(* goes on; nothing makes messages come, time pass or the owner act.        *)
FairSpec ==
  /\ Spec
  /\ WF_vars(Boot) /\ WF_vars(StartPollers)
  /\ \A b \in Bots : WF_vars(Cursor(b) \/ Handle(b) \/ RejectStep(b))

---------------------------------------------------------------------------
Updates(b) == 1 .. Len(sent[b])

Places == {"down", "initial", "adopted", "poll", "handle", "rejecting", "mirror", "dead"}
Prompts == [at : Int, since : SUBSET (Kinds \union {"halt"})]

CursorTypeOK ==
  /\ config \in [multi : BOOLEAN, default : Bots] /\ mirrored \in Bots
  /\ own \in [Bots -> Nat \union {NoFile}] /\ legacy \in Nat \union {NoFile}
  /\ poller \in [Bots -> [pc : Places, offset : Nat, batch : Seq(Nat)]]
  /\ sent \in [Bots -> Seq([kind : Kinds, key : Keys])]
  /\ server \in [Bots -> Nat \ {0}]
  /\ {done, ever} \subseteq [Bots -> SUBSET Nat]
  /\ \A b \in Bots :
       /\ poller[b].offset <= Len(sent[b]) + 1 /\ Range(poller[b].batch) \subseteq Updates(b)
       /\ done[b] \subseteq ever[b] /\ ever[b] \subseteq Updates(b)
       /\ \A u \in Updates(b) : sent[b][u].kind = "rejected" => PollerOf[sent[b][u].key] = b

TopicTypeOK ==
  /\ {pane, running} \subseteq [Bots -> BOOLEAN] /\ armed \in [Bots -> Nat]
  /\ {prompt, killed} \subseteq [Bots -> Prompts]

TypeOK == RejectTypeOK /\ setup \in Environment /\ CursorTypeOK /\ TopicTypeOK

(* No update is lost to a cursor: what Telegram has forgotten, the daemon   *)
(* has handled, through crashes between a batch and its save, cursors two   *)
(* bots keep in two files, and changes of the default bot (CONFIGURATION    *)
(* 254-255; daemon.py 9265-9267, 9325-9327).                                *)
NothingForgotten == \A b \in Bots : 1 .. server[b] - 1 \subseteq ever[b]

(* In one life of the daemon an update is handled once: what a batch still  *)
(* holds has not been handled yet.                                          *)
OncePerLife == \A b \in Bots : Range(poller[b].batch) \intersect done[b] = {}

(* At least once over crashes, at most once without one.                    *)
UpdatesKept == TypeOK /\ NothingForgotten /\ OncePerLife

(* A pane is killed on a `yes` to a prompt that this life of the daemon has *)
(* delivered, within its window, and with no other text for the session in  *)
(* between (daemon.py 3366-3368, 3419-3422).                                *)
KillIsConfirmed ==
  \A b \in Bots : killed[b] # NoPrompt =>
    killed[b].at \in 0 .. Window /\ killed[b].since \intersect {"plain"} = {}

(* What the prompt itself says (daemon.py 3424): "Reply 'yes' within 60s to *)
(* confirm - anything else cancels".                                        *)
AnythingElseCancels == \A b \in Bots : killed[b].since \subseteq {"yes"}

(* Every bot the configuration names catches up with what it is sent,       *)
(* unless a cursor that could not be saved has ended its thread.            *)
EveryUpdateHandled ==
  \A b \in Bots : []<>(Updates(b) \subseteq ever[b] \/ poller[b].pc = "dead" \/ ~ Served(b))
=============================================================================
