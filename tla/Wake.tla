-------------------------------- MODULE Wake --------------------------------
(* How one session hears of its mail: the hooks that run at its start, at  *)
(* each prompt and at each turn's end, the watcher that polls beside it,   *)
(* and the files by which they agree: the session's name, and a marker for *)
(* every ask that has held up a turn.  The session's own programs run one  *)
(* at a time; the watcher, the broker and the peers run beside them.       *)
EXTENDS Integers, FiniteSets

CONSTANTS
  Name,       \* aliases
  Derived,    \* the one made of the directory and the session id
  Taken,      \* aliases the registry refuses to this session
  Ask,        \* messages that are a query or a request; a response wakes the
              \* session as they do and holds up no turn, an inform does neither
  To,         \* the alias each is sent to
  None

ASSUME WakeAssumption ==
  /\ Derived \in Name /\ Taken \subseteq Name \ {Derived} /\ None \notin Name
  /\ To \in [Ask -> Name \ Taken]

InBox == {"queued", "delivered"}

Idle == [at |-> "idle"]
Job == {Idle}
  \union [at : {"adopt"}, name : Name, then : {"drain", "idle"}]
  \union [at : {"drain"}, name : Name]
  \union [at : {"push"}, asks : SUBSET Ask]

VARIABLES
  held,       \* the roster's aliases of the session
  file,       \* alias-by-sid: the name its hooks go by, or None
  silent,     \* no word from the session for the registry's retention, and
              \* its alias file untouched for as long
  state,      \* of each message's copy
  markers,    \* blocked: asks with a marker file
  job,        \* what the session's own programs are at
  baselined, seen,    \* the watcher's memory
  shown,      \* history: messages a hook has put before the session
  woken, blocked      \* history: wake lines since the watcher's start, and
                      \* turns held up, per message

watcher == <<baselined, seen, woken>>
names == <<held, file, silent>>
vars == <<held, file, silent, state, markers, job, baselined, seen,
          shown, woken, blocked>>

-----------------------------------------------------------------------------
Count == 0..2
Once(n) == IF n = 2 THEN 2 ELSE n + 1

(* Mutant: nothing to fall back on.                                        *)
AliasOnFile == file

(* What a hook that is given no title goes by.                             *)
AliasFor == IF file # None THEN file ELSE Derived

(* A read through one alias is a read of all the session's.                *)
Boxes(a) == IF a \in held THEN held ELSE {a} \ Taken
Recoverable(boxes) == {m \in Ask : state[m] \in InBox /\ To[m] \in boxes}

(* deliver: queued copies are claimed, without a broker in that box alone, *)
(* whether or not the hook lives to put them before the session.           *)
Deliver(a) ==
  \E boxes \in {Boxes(a), {a}}, emitted \in BOOLEAN :
    LET got == {m \in Recoverable(boxes) : state[m] = "queued"}
    IN /\ state' = [m \in Ask |-> IF m \in got THEN "delivered" ELSE state[m]]
       /\ shown' = IF emitted THEN shown \union got ELSE shown

-----------------------------------------------------------------------------
(* SessionStart, and a register from the session's shell: the name first,  *)
(* then the file that tells the other programs, then the backlog.          *)

SessionStart(title) ==
  LET a == IF title # None THEN title ELSE AliasFor
  IN /\ job = Idle
     /\ \/ a \notin Taken /\ held' = held \union {a} /\ silent' = FALSE
        \/ UNCHANGED <<held, silent>>      \* no broker: the name is taken for ours
     /\ job' = [at |-> "adopt", name |-> a, then |-> "drain"]
     /\ UNCHANGED <<file, state, markers, watcher, shown, blocked>>

RegisterFromShell(a) ==
  /\ job = Idle /\ a \notin Taken
  /\ held' = held \union {a} /\ silent' = FALSE
  /\ job' = [at |-> "adopt", name |-> a, then |-> "idle"]
  /\ UNCHANGED <<file, state, markers, watcher, shown, blocked>>

(* Best effort: the write may fail, and the hook goes on.                  *)
WriteAliasForSession ==
  /\ job.at = "adopt"
  /\ file' = job.name \/ UNCHANGED file
  /\ silent' = FALSE
  /\ job' = IF job.then = "drain" THEN [at |-> "drain", name |-> job.name] ELSE Idle
  /\ UNCHANGED <<held, state, markers, watcher, shown, blocked>>

Drain ==
  /\ job.at = "drain" /\ Deliver(job.name)
  /\ job' = Idle
  /\ UNCHANGED <<names, markers, watcher, blocked>>

UserPromptSubmit ==
  /\ job = Idle /\ Deliver(AliasFor)
  /\ UNCHANGED <<names, markers, job, watcher, blocked>>

-----------------------------------------------------------------------------
(* Stop: heartbeat, peek, and hold the turn up once for what is new.       *)

Stop ==
  /\ job = Idle
  /\ silent' = IF AliasFor \in held THEN FALSE ELSE silent
  /\ job' = [at |-> "push", asks |-> Recoverable(Boxes(AliasFor))]
  /\ UNCHANGED <<held, file, state, markers, watcher, shown, blocked>>

(* Mutant: one marker written is enough to hold the turn up.               *)
PushOnAny ==
  LET fresh == job.asks \ markers
  IN /\ job.at = "push" /\ job' = Idle
     /\ \E marked \in SUBSET fresh :
          /\ markers' = markers \union marked
          /\ blocked' = [m \in Ask |-> IF marked # {} /\ m \in fresh
                                         THEN Once(blocked[m]) ELSE blocked[m]]
     /\ UNCHANGED <<names, state, watcher, shown>>

(* decidePush and applyPush run through without a pause: an ask without a  *)
(* marker holds the turn up, if every marker could be written.             *)
Push ==
  LET fresh == job.asks \ markers
  IN /\ job.at = "push" /\ job' = Idle
     /\ \E marked \in SUBSET fresh :
          /\ markers' = markers \union marked
          /\ blocked' = [m \in Ask |-> IF marked = fresh /\ m \in fresh
                                         THEN Once(blocked[m]) ELSE blocked[m]]
     /\ UNCHANGED <<names, state, watcher, shown>>

HookDies ==
  /\ job # Idle /\ job' = Idle
  /\ UNCHANGED <<names, state, markers, watcher, shown, blocked>>

-----------------------------------------------------------------------------
(* The watcher.  The name is read again at every tick; the first answer is *)
(* history, every later one is compared with all that was seen.            *)

(* Mutants: what has left the mailbox is forgotten; only what no hook has  *)
(* claimed is looked at.                                                   *)
TickForgets ==
  LET cur == Recoverable(Boxes(file))
  IN /\ file \notin Taken \union {None}
     /\ baselined' = TRUE
     /\ seen' = cur
     /\ woken' = [m \in Ask |-> IF baselined /\ m \in cur \ seen
                                         THEN Once(woken[m]) ELSE woken[m]]
     /\ UNCHANGED <<names, state, markers, job, shown, blocked>>

TickUndelivered ==
  LET cur == {m \in Recoverable(Boxes(file)) : state[m] = "queued"}
  IN /\ file \notin Taken \union {None}
     /\ baselined' = TRUE
     /\ seen' = seen \union cur
     /\ woken' = [m \in Ask |-> IF baselined /\ m \in cur \ seen
                                         THEN Once(woken[m]) ELSE woken[m]]
     /\ UNCHANGED <<names, state, markers, job, shown, blocked>>

(* Without an answer from the broker the tick is skipped.                  *)
Tick ==
  LET cur == Recoverable(Boxes(file))
  IN /\ file \notin Taken \union {None}
     /\ baselined' = TRUE
     /\ seen' = seen \union cur
     /\ woken' = [m \in Ask |-> IF baselined /\ m \in cur \ seen
                                         THEN Once(woken[m]) ELSE woken[m]]
     /\ UNCHANGED <<names, state, markers, job, shown, blocked>>

(* A resumed session gets a new watcher, whether or not its start hook is  *)
(* run again.                                                              *)
Resume ==
  /\ job = Idle
  /\ baselined' = FALSE /\ seen' = {} /\ woken' = [m \in Ask |-> 0]
  /\ UNCHANGED <<names, state, markers, job, shown, blocked>>

-----------------------------------------------------------------------------
(* Peers, the session's answers, and the broker's sweeps.                  *)

Arrive(m) ==
  /\ state[m] = "unsent"
  /\ state' = [state EXCEPT ![m] = "queued"]
  /\ UNCHANGED <<names, markers, job, watcher, shown, blocked>>

Settle(m) ==
  /\ state[m] \in InBox
  /\ state' = [state EXCEPT ![m] = "settled"]
  /\ shown' = shown \ {m} /\ woken' = [woken EXCEPT ![m] = 0]
  /\ UNCHANGED <<names, markers, job, baselined, seen, blocked>>

Purge(m) ==
  /\ state[m] = "settled"
  /\ state' = [state EXCEPT ![m] = "purged"]
  /\ blocked' = [blocked EXCEPT ![m] = 0]
  /\ UNCHANGED <<names, markers, job, watcher, shown>>

(* A day without a hook or a register.                                     *)
Silence ==
  /\ job = Idle /\ ~ silent /\ silent' = TRUE
  /\ UNCHANGED <<held, file, state, markers, job, watcher, shown, blocked>>

PruneOffline ==
  /\ silent
  /\ held' = {a \in held : \E m \in Ask : state[m] \in InBox /\ To[m] = a}
  /\ UNCHANGED <<file, silent, state, markers, job, watcher, shown, blocked>>

(* A marker outlives its message by a sweep at most; an alias file that of *)
(* a session that is no longer registered, and has not been touched.       *)
ReclaimStaleMarkers ==
  /\ markers' = {m \in markers : state[m] # "purged"}
  /\ file' = IF held = {} /\ silent THEN None ELSE file
  /\ UNCHANGED <<held, silent, state, job, watcher, shown, blocked>>

-----------------------------------------------------------------------------
Init ==
  /\ held = {} /\ file = None /\ silent = FALSE
  /\ state = [m \in Ask |-> "unsent"]
  /\ markers = {} /\ job = Idle
  /\ baselined = FALSE /\ seen = {} /\ shown = {}
  /\ woken = [m \in Ask |-> 0] /\ blocked = [m \in Ask |-> 0]

Next ==
  \/ \E title \in Name \union {None} : SessionStart(title)
  \/ \E a \in Name : RegisterFromShell(a)
  \/ WriteAliasForSession \/ Drain \/ UserPromptSubmit
  \/ Stop \/ Push \/ HookDies
  \/ Tick \/ Resume \/ Silence \/ PruneOffline \/ ReclaimStaleMarkers
  \/ \E m \in Ask : Arrive(m) \/ Settle(m) \/ Purge(m)

Spec == Init /\ [][Next]_vars

(* The watcher's loop, against a broker that answers again and again, and  *)
(* a hook that is run comes to an end.  Nobody has to open a turn.         *)
FairSpec ==
  /\ Spec
  /\ WF_vars(Tick)
  /\ WF_vars(WriteAliasForSession \/ Drain \/ Push \/ HookDies)

-----------------------------------------------------------------------------
TypeOK ==
  /\ held \subseteq Name /\ file \in Name \union {None}
  /\ silent \in BOOLEAN
  /\ state \in [Ask -> {"unsent", "queued", "delivered", "settled", "purged"}]
  /\ markers \subseteq Ask /\ job \in Job
  /\ baselined \in BOOLEAN /\ seen \subseteq Ask /\ shown \subseteq Ask
  /\ woken \in [Ask -> Count] /\ blocked \in [Ask -> Count]

(* "A waiting ask blocks the turn exactly once [...] then degrades to a    *)
(* quiet reminder" (stop.ts:66-67): whatever marker fails to be written    *)
(* and whenever the sweep takes markers away.  The count starts anew when  *)
(* a message is purged: a turn's end that peeked before may push it again. *)
BlocksOnce == \A m \in Ask : blocked[m] < 2

(* "every printed line is a separate wake" (watch-inbox.sh:17-18): over    *)
(* renames, pruned names and boxes that come and go out of reach with the  *)
(* broker, one watcher wakes its session at most once for a message.       *)
WakesOnce == \A m \in Ask : woken[m] < 2

(* Mail the watcher has not seen, in a box of a registered session whose   *)
(* file holds one of its names, is put before the session by a hook or     *)
(* wakes it, even if the hook that claimed it died; unless it is settled,  *)
(* or the watcher is replaced, or the session's name is lost meanwhile.    *)
Unheard(m) ==
  state[m] \in InBox /\ To[m] \in held /\ file \in held /\ baselined /\ m \notin seen
Heard(m) == m \in shown \/ woken[m] > 0 \/ state[m] \notin InBox
NewMailWakes ==
  \A m \in Ask : Unheard(m) ~> (Heard(m) \/ ~ baselined \/ file \notin held \/ To[m] \notin held)

(* "new ipc mail wakes an idle session with no human turn"                 *)
(* (watch-inbox.sh:5), and "whatever is already in the mailbox when the    *)
(* session opens was handed over by the SessionStart drain" (190-191): so  *)
(* mail for a session that comes to rest, under one watcher, is claimed by *)
(* a hook or wakes it.                                                     *)
MailWakesIdleSession ==
  <>[][job' = job /\ (baselined => baselined')]_vars =>
    \A m \in Ask :
      (state[m] = "queued" /\ To[m] \in held /\ file \in held /\ job = Idle)
        ~> (state[m] # "queued" \/ woken[m] > 0 \/ file \notin held \/ To[m] \notin held)

(* "Both checks are deliberately conservative -- deleting a live session's *)
(* alias file deafens it" (sweeper.ts:24-25): the session here is alive.   *)
LiveSessionKeepsItsName == [][file # None => file' # None]_vars
=============================================================================
