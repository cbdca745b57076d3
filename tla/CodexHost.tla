----------------------------- MODULE CodexHost -----------------------------
(***************************************************************************)
(* The launcher of a Codex session and its delivery host: the loop that    *)
(* follows the thread the user's TUI shows, and the pump that leases mail, *)
(* has the App Server write it into the thread, and acknowledges it.       *)
(*                                                                         *)
(* The code is sequential but awaits between almost any two lines.  A step *)
(* is what runs between two awaits, together with what the broker or the   *)
(* App Server does to answer; notifications arrive in between.             *)
(*                                                                         *)
(* The App Server is not part of the repository.  What is assumed of it: a *)
(* started turn first runs and later writes its tool output into the       *)
(* thread's history, or ends without; a request that was not served when   *)
(* the host gave it up is never served; a turn is refused while another    *)
(* runs; it ends with its launcher.                                        *)
(***************************************************************************)
EXTENDS Naturals, Sequences

CONSTANTS
  Mail,        \* message ids
  Shared,      \* those that lie in the project's mailbox
  Thread,
  TopLevel,    \* threads a TUI can show; the others are subagents
  Foreign,     \* threads another live launcher owns
  First,       \* the thread of the first launch
  None,
  MaxMishaps,  \* bound: crashes, lost connections, timeouts, failed turns
  MaxMoves     \* bound: what the user and the agent do in the TUI

ASSUME HostAssumption ==
  /\ Shared \subseteq Mail /\ TopLevel \subseteq Thread /\ Foreign \subseteq Thread
  /\ First \in TopLevel \ Foreign
  /\ None \notin Thread /\ \A S \in SUBSET Mail : None # S
  /\ MaxMishaps \in Nat /\ MaxMoves \in Nat

Candidate == [id : Thread, verified : BOOLEAN, fresh : BOOLEAN]
ASSUME CandidateAssumption == None \notin Candidate

VARIABLES
  tui,       \* the thread the TUI shows
  known,     \* threads that have been started
  news,      \* notifications on their way to the host
  linked,    \* appServer # undefined
  pc,        \* where the loop is
  thread,    \* activeThreadId, options.threadId
  pending,   \* pendingThread
  asked,     \* the candidate whose thread/read is awaited
  batch,     \* the messages of this pump
  loaded,    \* historyLoaded
  cache,     \* persistedIds
  row,       \* this session's rows: "queued" (or delivered), "persisted", "gone"
  lease,     \* "free", "held" by this pump, "stale": left by an earlier one
  turn,      \* the turn a thread runs: the mail it has yet to write, or None
  saved,     \* how often a message was written into a thread's history
  mishaps, moves

screen == <<tui, known, news>>
ears   == <<pending, asked>>
memory == <<loaded, cache>>
rows   == <<row, lease>>
server == <<turn, saved>>
bounds == <<mishaps, moves>>
vars   == <<screen, linked, pc, thread, ears, batch, memory, rows, server, bounds>>

TypeOK ==
  /\ tui \in TopLevel /\ known \subseteq Thread /\ news \in Seq(Candidate)
  /\ linked \in BOOLEAN
  /\ pc \in {"off", "loop", "verifying", "polled", "leased", "starting", "waiting", "saved"}
  /\ thread \in Thread
  /\ pending \in Candidate \union {None} /\ asked \in Thread \union {None}
  /\ batch \subseteq Mail /\ loaded \in BOOLEAN /\ cache \subseteq Mail
  /\ row \in [Mail -> {"queued", "persisted", "gone"}]
  /\ lease \in [Mail -> {"free", "held", "stale"}]
  /\ turn \in [Thread -> (SUBSET Mail) \union {None}]
  /\ saved \in [Thread -> [Mail -> Nat]]
  /\ mishaps \in 0..MaxMishaps /\ moves \in 0..MaxMoves

Misses     == mishaps < MaxMishaps /\ mishaps' = mishaps + 1 /\ UNCHANGED moves
Moves      == moves < MaxMoves /\ moves' = moves + 1 /\ UNCHANGED mishaps
SavedIn(t) == {m \in Mail : saved[t][m] > 0}
Busy(t)    == turn[t] # None

Init ==
  /\ tui = First /\ known = {First} /\ news = <<>>
  /\ linked = TRUE /\ pc = "loop" /\ thread = First
  /\ pending = None /\ asked = None /\ batch = {}
  /\ loaded = TRUE /\ cache = {}
  /\ row = [m \in Mail |-> "queued"] /\ lease = [m \in Mail |-> "free"]
  /\ turn = [t \in Thread |-> None] /\ saved = [t \in Thread |-> [m \in Mail |-> 0]]
  /\ mishaps = 0 /\ moves = 0

-----------------------------------------------------------------------------
(* The user, the agent, and what the App Server announces of them.         *)

(* The connection is gone, and what was announced on it with it.           *)
Unlink == linked' = FALSE /\ news' = <<>> /\ UNCHANGED <<tui, known>>

Announce(n) == news' = IF linked THEN Append(news, n) ELSE news

(* notificationThreadCandidate: a started top-level thread is taken to be  *)
(* verified and empty; a goal event carries only an id.  The started event *)
(* of a subagent is dropped.                                               *)
Started(t)   == [id |-> t, verified |-> TRUE, fresh |-> TRUE]
GoalEvent(t) == [id |-> t, verified |-> FALSE, fresh |-> FALSE]

StartThread(t) ==
  /\ pc # "off" /\ t \in TopLevel \ known /\ Moves
  /\ tui' = t /\ known' = known \union {t}
  /\ Announce(Started(t))
  /\ UNCHANGED <<linked, pc, thread, ears, batch, memory, rows, server>>

ResumeThread(t) ==
  /\ pc # "off" /\ t \in (TopLevel \intersect known) \ {tui} /\ Moves
  /\ tui' = t /\ UNCHANGED known
  /\ Announce(GoalEvent(t))
  /\ UNCHANGED <<linked, pc, thread, ears, batch, memory, rows, server>>

SubagentGoal(t) ==
  /\ pc # "off" /\ t \notin TopLevel /\ Moves
  /\ Announce(GoalEvent(t))
  /\ UNCHANGED <<tui, known, linked, pc, thread, ears, batch, memory, rows, server>>

UserTurn ==
  /\ pc # "off" /\ ~Busy(tui) /\ Moves
  /\ turn' = [turn EXCEPT ![tui] = {}]
  /\ UNCHANGED <<screen, linked, pc, thread, ears, batch, memory, rows, saved>>

(* onNotification: the last candidate that is not the active thread wins.  *)
Hear ==
  /\ pc # "off" /\ linked /\ news # <<>>
  /\ news' = Tail(news)
  /\ pending' = IF Head(news).id # thread THEN Head(news) ELSE pending
  /\ UNCHANGED <<tui, known, linked, pc, thread, asked, batch, memory, rows, server, bounds>>

-----------------------------------------------------------------------------
(* The launcher's loop.                                                    *)

Reconnect ==
  /\ pc = "loop" /\ ~linked
  /\ linked' = TRUE
  /\ UNCHANGED <<screen, pc, thread, ears, batch, memory, rows, server, bounds>>

(* A goal event needs a look at the thread. Mutant: it keeps the event.    *)
VerifyEvent ==
  /\ pc = "loop" /\ linked
  /\ pending # None /\ ~pending.verified
  /\ pc' = "verifying" /\ asked' = pending
  /\ UNCHANGED <<screen, linked, thread, pending, batch, memory, rows, server, bounds>>

Verify ==
  /\ pc = "loop" /\ linked
  /\ pending # None /\ ~pending.verified
  /\ pc' = "verifying" /\ asked' = pending.id
  /\ UNCHANGED <<screen, linked, thread, pending, batch, memory, rows, server, bounds>>

(* The thread that was asked about is a subagent: whatever is pending by   *)
(* now is dropped.  The mutant keeps the candidate.                        *)
DropNothing ==
  /\ pc = "verifying" /\ asked \notin TopLevel
  /\ asked' = None /\ pc' = "loop"
  /\ UNCHANGED <<screen, linked, thread, pending, batch, memory, rows, server, bounds>>

Drop ==
  /\ pc = "verifying" /\ asked \notin TopLevel
  /\ pending' = None /\ asked' = None /\ pc' = "loop"
  /\ UNCHANGED <<screen, linked, thread, batch, memory, rows, server, bounds>>

(* switchThread.  Mutants: the cache survives the switch; every thread is  *)
(* taken to be empty.                                                      *)
SwitchKeepingCache(n) == thread' = n.id /\ loaded' = n.fresh /\ UNCHANGED cache

SwitchAssumingEmpty(n) == thread' = n.id /\ loaded' = TRUE /\ cache' = {}

Switch(n) == thread' = n.id /\ loaded' = n.fresh /\ cache' = {}

(* What is pending now is followed, though it need not be what was asked   *)
(* about.  acquireOwner throws for a thread of another live launcher, and  *)
(* the candidate stays pending.                                            *)
Follow ==
  /\ pending # None
  /\ \/ pc = "loop" /\ linked /\ pending.verified
     \/ pc = "verifying" /\ asked \in TopLevel
  /\ pc' = "loop" /\ asked' = None
  /\ IF pending.id \in Foreign
     THEN UNCHANGED <<thread, memory, pending>>
     ELSE Switch(pending) /\ pending' = None
  /\ UNCHANGED <<screen, linked, batch, rows, server, bounds>>

-----------------------------------------------------------------------------
(* The pump.                                                               *)

LetGo == lease' = [m \in Mail |-> IF lease[m] = "held" THEN "stale" ELSE lease[m]]

(* pumpOnce throws, with or without clearing what it knows of the history. *)
Forget == loaded' = FALSE /\ cache' = {}

Quit == pc' = "loop" /\ batch' = {} /\ asked' = None /\ LetGo /\ UNCHANGED row

(* thread/read says the thread is idle; an active one ends the pump.       *)
Poll ==
  /\ pc = "loop" /\ linked /\ pending = None /\ ~Busy(thread)
  /\ pc' = "polled"
  /\ UNCHANGED <<screen, linked, thread, ears, batch, memory, rows, server, bounds>>

(* requireCurrentThread, here and below.                                   *)
TuiLeft ==
  /\ pc \in {"polled", "leased", "saved"} /\ pending # None
  /\ Quit /\ Forget
  /\ UNCHANGED <<screen, linked, thread, pending, server, bounds>>

(* A lease on the session's mailboxes reserves rows; one on the project's  *)
(* only reads what this alias has not surfaced yet.                        *)
Leasable(m) == row[m] = "queued" /\ (m \in Shared \/ lease[m] = "free")

Lease ==
  LET got == {m \in Mail : Leasable(m)} IN
  /\ pc = "polled" /\ pending = None
  /\ batch' = got
  /\ lease' = [m \in Mail |-> IF m \in got \ Shared THEN "held" ELSE lease[m]]
  /\ pc' = IF got = {} THEN "loop" ELSE "leased"
  /\ UNCHANGED <<screen, linked, thread, ears, memory, row, server, bounds>>

(* The history is read unless it is known.                                 *)
Recall ==
  /\ pc = "leased" /\ pending = None
  /\ loaded \/ linked
  /\ cache' = IF loaded THEN cache ELSE cache \union SavedIn(thread)
  /\ loaded' = TRUE
  /\ pc' = IF batch \subseteq cache' THEN "saved" ELSE "starting"
  /\ UNCHANGED <<screen, linked, thread, ears, batch, rows, server, bounds>>

RecallFails ==
  /\ pc = "leased" /\ pending = None /\ ~loaded
  /\ \/ linked /\ Misses /\ (Unlink \/ UNCHANGED <<screen, linked>>)
     \/ ~linked /\ UNCHANGED <<screen, linked, bounds>>
  /\ Quit
  /\ UNCHANGED <<thread, pending, memory, server>>

(* turn/start reaches the App Server. *)
Land ==
  /\ pc = "starting" /\ linked /\ ~Busy(thread)
  /\ turn' = [turn EXCEPT ![thread] = batch \ cache]
  /\ pc' = "waiting"
  /\ UNCHANGED <<screen, linked, thread, ears, batch, memory, rows, saved, bounds>>

(* waitUntilPersisted: the mutant is content with the started turn.        *)
TakeTurnForSaved ==
  /\ pc = "waiting" /\ linked
  /\ cache' = cache \union batch /\ pc' = "saved"
  /\ UNCHANGED <<screen, linked, thread, ears, batch, loaded, rows, server, bounds>>

SeeSaved ==
  /\ pc = "waiting" /\ linked
  /\ batch \subseteq cache \union SavedIn(thread)
  /\ cache' = cache \union SavedIn(thread) /\ pc' = "saved"
  /\ UNCHANGED <<screen, linked, thread, ears, batch, loaded, rows, server, bounds>>

(* The delivery fails: refused by a thread that is busy after all, ended   *)
(* before the mail was written, out of time or cut off.  It may have       *)
(* landed all the same.  The mutant trusts what it knew before.            *)
Fails ==
  \/ pc = "starting" /\ (Busy(thread) \/ ~linked) /\ UNCHANGED <<screen, linked, bounds>>
  \/ pc = "waiting" /\ (~Busy(thread) \/ ~linked) /\ UNCHANGED <<screen, linked, bounds>>
  \/ pc \in {"starting", "waiting"} /\ Misses /\ (Unlink \/ UNCHANGED <<screen, linked>>)

GiveUpKeepingCache ==
  /\ Fails /\ Quit /\ UNCHANGED memory
  /\ UNCHANGED <<thread, pending, server>>

GiveUp ==
  /\ Fails /\ Quit /\ Forget
  /\ UNCHANGED <<thread, pending, server>>

(* ack_delivery and its project form: two requests, one of which may fail. *)
Ack(part) ==
  /\ pc = "saved" /\ pending = None
  /\ IF part = batch THEN UNCHANGED bounds ELSE Misses
  /\ LET acked == {m \in part : row[m] = "queued" /\ (m \in Shared \/ lease[m] = "held")} IN
     /\ row' = [m \in Mail |-> IF m \in acked THEN "persisted" ELSE row[m]]
     /\ lease' = [m \in Mail |-> IF m \in acked THEN "free"
                                 ELSE IF lease[m] = "held" THEN "stale" ELSE lease[m]]
  /\ pc' = "loop" /\ batch' = {}
  /\ UNCHANGED <<screen, linked, thread, ears, memory, server>>

-----------------------------------------------------------------------------
(* The App Server, the broker, and mishaps.                                *)

Save(t) ==
  /\ Busy(t) /\ turn[t] # {}
  /\ saved' = [saved EXCEPT ![t] =
       [m \in Mail |-> IF m \in turn[t] THEN saved[t][m] + 1 ELSE saved[t][m]]]
  /\ turn' = [turn EXCEPT ![t] = {}]
  /\ UNCHANGED <<screen, linked, pc, thread, ears, batch, memory, rows, bounds>>

EndTurn(t) ==
  /\ Busy(t)
  /\ IF turn[t] = {} THEN UNCHANGED bounds ELSE Misses
  /\ turn' = [turn EXCEPT ![t] = None]
  /\ UNCHANGED <<screen, linked, pc, thread, ears, batch, memory, rows, saved>>

(* An answer, a cancel, consent, a snooze or the sweep settles the row.    *)
SettledElsewhere(m) ==
  /\ row[m] = "queued"
  /\ row' = [row EXCEPT ![m] = "gone"] /\ lease' = [lease EXCEPT ![m] = "free"]
  /\ UNCHANGED <<screen, linked, pc, thread, ears, batch, memory, server, bounds>>

Expire(m) ==
  /\ lease[m] = "stale"
  /\ lease' = [lease EXCEPT ![m] = "free"]
  /\ UNCHANGED <<screen, linked, pc, thread, ears, batch, memory, row, server, bounds>>

LoseLink ==
  /\ linked /\ pc # "off" /\ Misses
  /\ Unlink
  /\ pc' = IF pc = "verifying" THEN "loop" ELSE pc
  /\ asked' = None
  /\ UNCHANGED <<thread, pending, batch, memory, rows, server>>

Crash ==
  /\ pc # "off" /\ Misses
  /\ pc' = "off" /\ Unlink
  /\ pending' = None /\ asked' = None /\ batch' = {} /\ Forget
  /\ LetGo /\ UNCHANGED row
  /\ turn' = [t \in Thread |-> None]
  /\ UNCHANGED <<thread, saved>>

(* The next launcher, for a stored thread or a new one.                    *)
Launch(t) ==
  /\ pc = "off" /\ t \in TopLevel \ Foreign
  /\ pc' = "loop" /\ linked' = TRUE /\ tui' = t /\ thread' = t
  /\ loaded' = (t \notin known) /\ known' = known \union {t}
  /\ UNCHANGED <<news, ears, batch, cache, rows, server, bounds>>

User == \/ \E t \in Thread : StartThread(t) \/ ResumeThread(t) \/ SubagentGoal(t)
        \/ UserTurn

Launcher == Hear \/ Reconnect \/ Verify \/ Drop \/ Follow

Pump == Poll \/ TuiLeft \/ Lease \/ Recall \/ Land \/ SeeSaved \/ GiveUp

Acknowledge == \E part \in {batch, batch \intersect Shared, batch \ Shared, {}} : Ack(part)

AppServer == \E t \in Thread : Save(t) \/ EndTurn(t)

Next ==
  \/ User \/ Launcher \/ Pump \/ Acknowledge \/ RecallFails \/ AppServer
  \/ \E m \in Mail : SettledElsewhere(m) \/ Expire(m)
  \/ LoseLink \/ Crash
  \/ \E t \in Thread : Launch(t)

Spec == Init /\ [][Next]_vars

HostStep == Launcher \/ Pump \/ Acknowledge \/ RecallFails

(* The launcher's loop runs on, the App Server works on each thread and a  *)
(* user's turn ends, a lease runs out.  Nobody has to launch a session.    *)
FairSpec ==
  /\ Spec
  /\ WF_vars(HostStep)
  /\ \A t \in Thread : WF_vars(Save(t)) /\ WF_vars(EndTurn(t))
  /\ \A m \in Mail : WF_vars(Expire(m))

-----------------------------------------------------------------------------
(* PROPERTIES                                                              *)

(* "It leases first, asks App Server to persist the messages as tool       *)
(* output, then acknowledges the lease": a row becomes persisted only when *)
(* its mail is in the history of the thread the host is on, whatever was   *)
(* switched, lost or retried since it was leased.                          *)
AckedIsSaved ==
  [][\A m \in Mail : row[m] # "persisted" /\ row'[m] = "persisted"
       => saved[thread][m] > 0]_vars

(* "so a retry acknowledges that turn instead of appending the same IPC    *)
(* mail twice": no mail is written twice into one thread, by however many  *)
(* pumps and launchers.                                                    *)
OncePerThread == \A t \in Thread, m \in Mail : saved[t][m] <= 1

(* While the session runs, waiting mail reaches a thread and is            *)
(* acknowledged in the end, however deliveries failed and the user moved.  *)
MailIsDelivered ==
  \A m \in Mail : (row[m] = "queued" /\ pc # "off") ~> (row[m] # "queued" \/ pc = "off")

(* "A top-level switch changes the owner record [...].  The next batch     *)
(* uses the new thread": a host that has heard everything and has nothing  *)
(* pending is on the thread the TUI shows.                                 *)
FollowsTui ==
  pc = "loop" /\ linked /\ news = <<>> /\ pending = None => thread = tui

(* "The host reads a resume candidate before following it and ignores      *)
(* candidates whose source or parent marks them as subagents."             *)
FollowsTopLevelOnly == thread \in TopLevel
=============================================================================
