------------------------------- MODULE Outbox -------------------------------
(***************************************************************************)
(* One send, however often it is attempted: the client asks the broker     *)
(* and, when the broker is down or does not answer in time, writes the     *)
(* same send straight into the SQLite file ("degraded" mode), leaving an   *)
(* intent in the outbox for the broker to replay.                          *)
(*                                                                         *)
(* Two processes may write the file at once, and either may die between    *)
(* two statements, so here one SQL statement is one step.  A degraded      *)
(* client and the broker run almost the same statements; both are          *)
(* "writers".  The client reserves the message id from the operation id,   *)
(* so the message of an operation is identified with the operation.        *)
(* Payload conflicts and refusals of the send itself are left out: every   *)
(* attempt carries the same arguments, and they are acceptable.            *)
(***************************************************************************)
EXTENDS Naturals, FiniteSets

CONSTANTS
  Op,           \* operation ids
  Alias,        \* aliases of other sessions
  To,           \* op |-> the alias a directed ask goes to, or Everyone
  Everyone,     \* "*"
  Broker,       \* the writer that is the broker
  None,
  MaxMishaps    \* bound: crashes, kills, timeouts, repeats and roster changes

Asks   == {o \in Op : To[o] # Everyone}
Writer == Op \union {Broker}

ASSUME OutboxAssumption ==
  /\ To \in [Op -> Alias \union {Everyone}]
  /\ Everyone \notin Alias /\ Broker \notin Op /\ None \notin Op
  /\ \A S \in SUBSET Alias : None # S
  /\ MaxMishaps \in Nat

VARIABLES
  up,         \* "down", "booting" (replaying the outbox, no socket yet), "listening"
  serving,    \* what the broker's send handler runs for: a "request", an
              \* "orphan" (a request whose client has hung up) or an "intent"
  todo,       \* intents a reconcile has still to go through
  requests,   \* sends waiting in the socket
  writer,     \* where each writer is in its send
  caller,     \* where each client is
  route,      \* messages + message_routes: the target set, None if not stored
  rows,       \* deliveries: aliases that have a row
  taken,      \* aliases whose row is settled
  awaiting,   \* awaiting table
  outbound,   \* outbound_intents table
  roster,     \* aliases a broadcast would reach now
  appended,   \* how often an operation's message was appended
  answered,   \* asks that got a terminal answer
  mishaps

broker  == <<up, serving, todo, requests>>
tables  == <<route, rows, taken, awaiting>>
history == <<appended, answered>>
vars    == <<broker, writer, caller, tables, outbound, roster, history, mishaps>>

Resting == [step |-> "rest", op |-> None, fresh |-> FALSE, targets |-> {}]

TypeOK ==
  /\ up \in {"down", "booting", "listening"}
  /\ serving \in {"request", "orphan", "intent"}
  /\ todo \subseteq Op /\ requests \subseteq Op /\ outbound \subseteq Op
  /\ writer \in [Writer ->
       [step : {"rest", "looked", "unspooled", "ready", "routing", "opening", "done"},
        op : Op \union {None}, fresh : BOOLEAN, targets : SUBSET Alias]]
  /\ caller \in [Op -> {"new", "asked", "degraded", "told", "refused", "gone"}]
  /\ route \in [Op -> (SUBSET Alias) \union {None}]
  /\ rows \in [Op -> SUBSET Alias] /\ taken \in [Op -> SUBSET Alias]
  /\ awaiting \in [Op -> {"none", "open", "closed"}]
  /\ roster \subseteq Alias
  /\ appended \in [Op -> Nat]
  /\ answered \subseteq Op
  /\ mishaps \in 0..MaxMishaps

Stored(o) == route[o] # None
Idle      == up = "listening" /\ writer[Broker].step = "rest" /\ todo = {}
Misses    == mishaps < MaxMishaps /\ mishaps' = mishaps + 1

(* A broadcast that is not expanded. *)
TargetsUnexpanded(o) == {To[o]}

(* liveAliases of the broker, and the snapshot a degraded client loads. *)
TargetsOf(o) == IF To[o] = Everyone THEN roster ELSE {To[o]}

(* The broker runs, or has yet to read, the request o's client waits on. *)
Serves(o) == serving = "request" /\ writer[Broker].op = o
Held(o)   == o \in requests \/ Serves(o)
HangsUp(o) == serving' = IF Serves(o) THEN "orphan" ELSE serving

Init ==
  /\ up = "listening" /\ serving = "request" /\ todo = {} /\ requests = {}
  /\ writer = [w \in Writer |-> Resting]
  /\ caller = [o \in Op |-> "new"]
  /\ route = [o \in Op |-> None]
  /\ rows = [o \in Op |-> {}] /\ taken = [o \in Op |-> {}]
  /\ awaiting = [o \in Op |-> "none"]
  /\ outbound = {} /\ roster \in SUBSET Alias
  /\ appended = [o \in Op |-> 0] /\ answered = {} /\ mishaps = 0

-----------------------------------------------------------------------------
(* The statements of a send, for the broker's handler and the degraded     *)
(* client alike.                                                           *)

(* Mutant: a replay that only answers with the stored id. *)
LookedUpAsDone(o, first) ==
  IF Stored(o)
  THEN [step |-> "done", op |-> o, fresh |-> FALSE, targets |-> route[o]]
  ELSE [step |-> first, op |-> o, fresh |-> TRUE, targets |-> {}]

(* getByOperationId: a stored message is repaired along its saved route,   *)
(* an unknown one is sent afresh.                                          *)
LookedUp(o, first) ==
  IF Stored(o)
  THEN [step |-> "routing", op |-> o, fresh |-> FALSE, targets |-> route[o]]
  ELSE [step |-> first, op |-> o, fresh |-> TRUE, targets |-> {}]

(* appendRouted: message and route in one transaction, INSERT OR IGNORE.   *)
Append(w) ==
  LET o == writer[w].op IN
  /\ writer[w].step = "ready"
  /\ route' = IF Stored(o) THEN route ELSE [route EXCEPT ![o] = writer[w].targets]
  /\ appended' = IF Stored(o) THEN appended ELSE [appended EXCEPT ![o] = @ + 1]
  /\ writer' = [writer EXCEPT ![w].step = "routing"]
  /\ UNCHANGED <<broker, caller, rows, taken, awaiting, outbound, roster, answered, mishaps>>

(* enqueue for one more target, INSERT OR IGNORE. *)
Enqueue(w, x) ==
  LET o == writer[w].op IN
  /\ writer[w].step = "routing"
  /\ x \in writer[w].targets \ rows[o]
  /\ rows' = [rows EXCEPT ![o] = @ \union {x}]
  /\ UNCHANGED <<broker, writer, caller, route, taken, awaiting, outbound, roster, history, mishaps>>

(* Every row is there: only an ask is awaited, and a repair opens its      *)
(* awaiting row only if it reads none.                                     *)
Routed(w) ==
  LET o == writer[w].op IN
  /\ writer[w].step = "routing"
  /\ writer[w].targets \subseteq rows[o]
  /\ writer' = [writer EXCEPT ![w].step =
       IF o \in Asks /\ (writer[w].fresh \/ awaiting[o] = "none") THEN "opening" ELSE "done"]
  /\ UNCHANGED <<broker, caller, tables, outbound, roster, history, mishaps>>

(* openAwaiting is INSERT OR REPLACE: whatever row is there by now is lost. *)
Open(w) ==
  /\ writer[w].step = "opening"
  /\ awaiting' = [awaiting EXCEPT ![writer[w].op] = "open"]
  /\ writer' = [writer EXCEPT ![w].step = "done"]
  /\ UNCHANGED <<broker, caller, route, rows, taken, outbound, roster, history, mishaps>>

-----------------------------------------------------------------------------
(* The broker.                                                             *)

(* Mutant: an intent is deleted when its replay starts. *)
LookupTakesIntent(o) ==
  /\ writer[Broker].step = "rest"
  /\ \/ /\ todo = {} /\ o \in requests /\ up = "listening"
        /\ requests' = requests \ {o}
        /\ serving' = IF caller[o] = "asked" THEN "request" ELSE "orphan"
        /\ UNCHANGED outbound
     \/ /\ o \in todo
        /\ serving' = "intent" /\ UNCHANGED requests
        /\ outbound' = outbound \ {o}
  /\ writer' = [writer EXCEPT ![Broker] = LookedUp(o, "looked")]
  /\ UNCHANGED <<up, todo, caller, tables, roster, history, mishaps>>

Lookup(o) ==
  /\ writer[Broker].step = "rest"
  /\ \/ /\ todo = {} /\ o \in requests /\ up = "listening"
        /\ requests' = requests \ {o}
        /\ serving' = IF caller[o] = "asked" THEN "request" ELSE "orphan"
     \/ /\ o \in todo
        /\ serving' = "intent" /\ UNCHANGED requests
  /\ writer' = [writer EXCEPT ![Broker] = LookedUp(o, "looked")]
  /\ UNCHANGED <<up, todo, caller, tables, outbound, roster, history, mishaps>>

(* The reserved id must be free; the targets are fixed now. *)
CheckId ==
  LET o == writer[Broker].op IN
  /\ writer[Broker].step = "looked"
  /\ ~Stored(o)
  /\ writer' = [writer EXCEPT ![Broker].step = "ready", ![Broker].targets = TargetsOf(o)]
  /\ UNCHANGED <<broker, caller, tables, outbound, roster, history, mishaps>>

(* It is not: somebody stored the operation since the lookup.  The request *)
(* fails with message_conflict, which a reconcile counts as permanent.     *)
Conflict ==
  LET o == writer[Broker].op IN
  /\ writer[Broker].step = "looked"
  /\ Stored(o)
  /\ writer' = [writer EXCEPT ![Broker] = Resting]
  /\ IF serving = "intent"
     THEN todo' = todo \ {o} /\ outbound' = outbound \ {o}
     ELSE UNCHANGED <<todo, outbound>>
  /\ caller' = [caller EXCEPT ![o] = IF serving = "request" THEN "refused" ELSE @]
  /\ UNCHANGED <<up, serving, requests, tables, roster, history, mishaps>>

Respond ==
  LET o == writer[Broker].op IN
  /\ writer[Broker].step = "done" /\ serving # "intent"
  /\ caller' = [caller EXCEPT ![o] = IF serving = "request" THEN "told" ELSE @]
  /\ writer' = [writer EXCEPT ![Broker] = Resting]
  /\ UNCHANGED <<broker, tables, outbound, roster, history, mishaps>>

DropIntent ==
  LET o == writer[Broker].op IN
  /\ writer[Broker].step = "done" /\ serving = "intent"
  /\ outbound' = outbound \ {o} /\ todo' = todo \ {o}
  /\ writer' = [writer EXCEPT ![Broker] = Resting]
  /\ UNCHANGED <<up, serving, requests, caller, tables, roster, history, mishaps>>

Listen ==
  /\ up = "booting" /\ todo = {}
  /\ up' = "listening"
  /\ UNCHANGED <<serving, todo, requests, writer, caller, tables, outbound, roster, history, mishaps>>

(* Mutant: a boot that does not reconcile. *)
BootEmptyHanded ==
  /\ up = "down"
  /\ up' = "booting" /\ todo' = {}
  /\ UNCHANGED <<serving, requests, writer, caller, tables, outbound, roster, history, mishaps>>

Boot ==
  /\ up = "down"
  /\ up' = "booting" /\ todo' = outbound
  /\ UNCHANGED <<serving, requests, writer, caller, tables, outbound, roster, history, mishaps>>

(* The sender registers again and the client has its outbox reconciled. *)
Reconcile ==
  /\ Idle /\ outbound # {}
  /\ todo' = outbound
  /\ UNCHANGED <<up, serving, requests, writer, caller, tables, outbound, roster, history, mishaps>>

Crash ==
  /\ up # "down" /\ Misses
  /\ up' = "down" /\ requests' = {} /\ todo' = {}
  /\ writer' = [writer EXCEPT ![Broker] = Resting]
  /\ UNCHANGED <<serving, caller, tables, outbound, roster, history>>

-----------------------------------------------------------------------------
(* The client.                                                             *)

(* One unread request per operation: a repeat waits for the last one to be *)
(* read (a bound of the model).                                            *)
Ask(o) ==
  /\ caller[o] = "new" /\ o \notin requests
  /\ caller' = [caller EXCEPT ![o] = "asked"]
  /\ requests' = IF up = "listening" THEN requests \union {o} ELSE requests
  /\ UNCHANGED <<up, serving, todo, writer, tables, outbound, roster, history, mishaps>>

(* No connection, a connection closed before a response, or (a mishap) no  *)
(* response in time: the client turns to the file.                         *)
Degrade(o) ==
  /\ caller[o] = "asked"
  /\ IF Held(o) THEN Misses ELSE UNCHANGED mishaps
  /\ caller' = [caller EXCEPT ![o] = "degraded"]
  /\ writer' = [writer EXCEPT ![o] =
       IF Stored(o) THEN LookedUp(o, "unspooled")
       ELSE [LookedUp(o, "unspooled") EXCEPT !.targets = TargetsOf(o)]]
  /\ HangsUp(o)
  /\ UNCHANGED <<up, todo, requests, tables, outbound, roster, history>>

Spool(o) ==
  /\ writer[o].step = "unspooled"
  /\ outbound' = outbound \union {o}
  /\ writer' = [writer EXCEPT ![o].step = "ready"]
  /\ UNCHANGED <<broker, caller, tables, roster, history, mishaps>>

Report(o) ==
  /\ writer[o].step = "done"
  /\ caller' = [caller EXCEPT ![o] = "told"]
  /\ writer' = [writer EXCEPT ![o] = Resting]
  /\ UNCHANGED <<broker, tables, outbound, roster, history, mishaps>>

Kill(o) ==
  /\ caller[o] \in {"asked", "degraded"} /\ Misses
  /\ caller' = [caller EXCEPT ![o] = "gone"]
  /\ writer' = [writer EXCEPT ![o] = Resting]
  /\ HangsUp(o)
  /\ UNCHANGED <<up, todo, requests, tables, outbound, roster, history>>

(* The agent repeats the send under the same operation id. *)
Again(o) ==
  /\ caller[o] \in {"told", "refused", "gone"} /\ Misses
  /\ caller' = [caller EXCEPT ![o] = "new"]
  /\ UNCHANGED <<broker, writer, tables, outbound, roster, history>>

-----------------------------------------------------------------------------
(* What else happens to the message, and to the roster.                    *)

(* A terminal reply, through the broker. *)
Answer(o) ==
  /\ Idle /\ o \in Asks \ answered /\ To[o] \in rows[o]
  /\ answered' = answered \union {o}
  /\ taken' = [taken EXCEPT ![o] = rows[o]]
  /\ awaiting' = [awaiting EXCEPT ![o] = IF @ = "open" THEN "closed" ELSE @]
  /\ UNCHANGED <<broker, writer, caller, route, rows, outbound, roster, appended, mishaps>>

(* A consuming read, through the broker or by a degraded client. *)
Read(o, x) ==
  /\ x \in rows[o] \ taken[o]
  /\ taken' = [taken EXCEPT ![o] = @ \union {x}]
  /\ UNCHANGED <<broker, writer, caller, route, rows, awaiting, outbound, roster, history, mishaps>>

(* The retention purge.  It comes days after the send: no attempt at it is *)
(* under way any more.  It does not touch the outbox.                      *)
Purge(o) ==
  /\ Idle /\ Stored(o)
  /\ rows[o] = taken[o] /\ awaiting[o] # "open"
  /\ caller[o] \in {"told", "refused", "gone"} /\ o \notin requests
  /\ route' = [route EXCEPT ![o] = None]
  /\ rows' = [rows EXCEPT ![o] = {}] /\ taken' = [taken EXCEPT ![o] = {}]
  /\ awaiting' = [awaiting EXCEPT ![o] = "none"]
  /\ answered' = answered \ {o}
  /\ UNCHANGED <<broker, writer, caller, outbound, roster, appended, mishaps>>

(* A session registers, leaves or ages offline, or the snapshot a client   *)
(* reads lags behind the broker's own view: at any time, for either.       *)
ChangeRoster(x) ==
  /\ Misses
  /\ roster' = IF x \in roster THEN roster \ {x} ELSE roster \union {x}
  /\ UNCHANGED <<broker, writer, caller, tables, outbound, history>>

BrokerStep ==
  \/ \E o \in Op : Lookup(o)
  \/ CheckId \/ Conflict \/ Respond \/ DropIntent \/ Listen
  \/ Append(Broker) \/ Routed(Broker) \/ Open(Broker)
  \/ \E x \in Alias : Enqueue(Broker, x)

ClientStep == \E o \in Op :
  \/ Ask(o) \/ Degrade(o) \/ Spool(o) \/ Report(o) \/ Again(o) \/ Kill(o)
  \/ Append(o) \/ Routed(o) \/ Open(o)
  \/ \E x \in Alias : Enqueue(o, x)

Elsewhere ==
  \/ \E o \in Op : Answer(o) \/ Purge(o)
  \/ \E o \in Op, x \in Alias : Read(o, x)
  \/ \E x \in Alias : ChangeRoster(x)

Next == BrokerStep \/ Boot \/ Reconcile \/ Crash \/ ClientStep \/ Elsewhere

Spec == Init /\ [][Next]_vars

(* launchd restarts the broker, and the broker works through what it has   *)
(* started.  Clients may stop anywhere.                                    *)
FairSpec == Spec /\ WF_vars(Boot) /\ WF_vars(BrokerStep)

-----------------------------------------------------------------------------
(* PROPERTIES                                                              *)

(* Whichever path a send took and wherever an earlier attempt broke off,   *)
(* when a writer reports success every recipient it reports has a delivery *)
(* row and an ask has an awaiting row (the replay branches of Router.send  *)
(* and Client.degraded).                                                   *)
SuccessIsComplete ==
  \A w \in Writer : writer[w].step = "done" =>
    /\ writer[w].targets \subseteq rows[writer[w].op]
    /\ writer[w].op \in Asks => awaiting[writer[w].op] # "none"

(* An intent leaves the outbox only for a message that is in the log, so a *)
(* broker crash at any statement of a replay loses no send.                *)
IntentOutlivesCrash ==
  [][\A o \in outbound \ outbound' : Stored(o)']_vars

(* Every intent found at a restart is worked off, however often the broker *)
(* crashes on the way.                                                     *)
OutboxDrains == \A o \in Op : (o \in outbound /\ up = "down") ~> (o \notin outbound)

(* "A retry must never add peers that appeared after the original send":   *)
(* a message is queued for the aliases of its saved route only.            *)
RetryAddsNoPeer == \A o \in Op : Stored(o) => rows[o] \subseteq route[o]

(* "ipc_reply is terminal and closes it": an answered ask is not open.     *)
AnswerCloses == \A o \in answered : awaiting[o] # "open"
=============================================================================
