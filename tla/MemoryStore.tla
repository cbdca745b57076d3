---------------------------- MODULE MemoryStore ----------------------------
(* The store the tests run on, src/storage/memoryBackend.ts: maps keyed by *)
(* message, or by message and alias, and leases in a map of their own.  A  *)
(* map is a function whose domain is the set of its keys.  Operations      *)
(* carry out and moved as those of SqliteStore do.                         *)
EXTENDS Integers, FiniteSets, Functions

CONSTANTS
  Asks,     \* the messages that are a query or a request
  None      \* null

Live == {"queued", "delivered", "surfaced"}

Empty ==
  [messages |-> <<>>, deliveries |-> <<>>, awaiting |-> <<>>, leases |-> <<>>,
   claims |-> <<>>, passes |-> {}, superseded |-> <<>>, routes |-> <<>>, intents |-> <<>>,
   surfaces |-> {}, registry |-> {}, moved |-> {}, out |-> None]

Done(s, addresses, result) == [s EXCEPT !.moved = addresses, !.out = result]

(* map.set(k, v) and map.delete(k), the latter for every k of keys.        *)
With(f, k, v) == [x \in DOMAIN f \union {k} |-> IF x = k THEN v ELSE f[x]]
Without(f, keys) == Restrict(f, DOMAIN f \ keys)
Has(f, k) == k \in DOMAIN f
Open(s, m) == Has(s.awaiting, m) /\ ~ s.awaiting[m].closed
KeysOf(s, b) == {k \in DOMAIN s.deliveries : k[2] = b}
LiveKeys(s, b) == {k \in KeysOf(s, b) : s.deliveries[k].state \in Live}
Ids(keys) == {k[1] : k \in keys}
IfSome(keys, b) == IF keys = {} THEN {} ELSE {b}

(* The copies under keys, put into one state.                              *)
Put(s, keys, state) ==
  [s EXCEPT !.deliveries = [k \in DOMAIN @ |->
     IF k \in keys THEN [@[k] EXCEPT !.state = state] ELSE @[k]]]

-----------------------------------------------------------------------------
Append(s, m, ts) ==
  Done([s EXCEPT !.messages = IF Has(@, m) THEN @ ELSE With(@, m, ts)], {}, None)

(* A message already there keeps its route, or the lack of one.            *)
AppendRouted(s, m, targets, ts) ==
  Done(IF Has(s.messages, m) THEN s
       ELSE [s EXCEPT !.messages = With(@, m, ts), !.routes = With(@, m, targets)], {}, None)

RouteFor(s, m) == IF Has(s.routes, m) THEN {s.routes[m]} ELSE {}
Get(s, m) == IF Has(s.messages, m) THEN {[id |-> m, ts |-> s.messages[m]]} ELSE {}
OriginOf(s, m) == IF m \in Asks THEN Get(s, m) ELSE {}
History(s, wanted, since) ==
  {[id |-> m, ts |-> s.messages[m]] :
     m \in {x \in DOMAIN s.messages \intersect wanted : s.messages[x] >= since}}

Enqueue(s, m, b) ==
  IF Has(s.deliveries, <<m, b>>) THEN Done(s, {}, None)
  ELSE Done([s EXCEPT !.deliveries = With(@, <<m, b>>,
               [state |-> "queued",
                ts |-> IF Has(s.messages, m) THEN s.messages[m] ELSE 0])], {b}, None)

(* Rows whose message is gone are consumed with the others but not         *)
(* returned.                                                               *)
Pending(s, b, consume) ==
  LET keys == LiveKeys(s, b)
      seen == {m \in Ids(keys) : Has(s.messages, m)}
  IN IF consume THEN Done(Put(s, keys, "consumed"), IfSome(keys, b), seen)
                ELSE Done(s, {}, seen)

RecoverableKeys(s) ==
  {k \in DOMAIN s.deliveries :
     \/ s.deliveries[k].state \in Live
     \/ /\ s.deliveries[k].state = "persisted"
        /\ Has(s.messages, k[1]) /\ k[1] \in Asks /\ Open(s, k[1])}
RecoverableOf(s, b) ==
  {m \in Ids(RecoverableKeys(s) \intersect KeysOf(s, b)) : Has(s.messages, m)}
DeliveriesFor(s, m) ==
  {[box |-> k[2], state |-> s.deliveries[k].state] : k \in {x \in DOMAIN s.deliveries : x[1] = m}}
ProjectAddresses(s, projects) ==
  {b \in projects : \E k \in DOMAIN s.deliveries : k[2] = b /\ s.deliveries[k].state \in Live}
PendingAddresses(s) == {k[2] : k \in {x \in DOMAIN s.deliveries : s.deliveries[x].state \in Live}}
RecoverableAddresses(s) == {k[2] : k \in RecoverableKeys(s)}
Inflight(s) ==
  [deliveries |-> {<<k[1], k[2], s.deliveries[k].state>> :
                     k \in {x \in DOMAIN s.deliveries : s.deliveries[x].state \in Live}},
   awaiting |-> {s.awaiting[m] : m \in {x \in DOMAIN s.awaiting : ~ s.awaiting[x].closed}}]

MarkDelivered(s, m, b) ==
  Done(Put(s, {k \in DOMAIN s.deliveries : k = <<m, b>> /\ s.deliveries[k].state = "queued"},
           "delivered"), {}, None)

MarkConsumed(s, m, b) ==
  Done(Put(s, {<<m, b>>}, "consumed"), IfSome(LiveKeys(s, b) \intersect {<<m, b>>}, b), None)

SetConsent(s, m, b, accepted) ==
  Done(Put(s, {<<m, b>>}, IF accepted THEN "accepted" ELSE "declined"),
       IfSome(LiveKeys(s, b) \intersect {<<m, b>>}, b), None)

MarkSurfaced(s, m, b) ==
  LET keys == {k \in DOMAIN s.deliveries : /\ k = <<m, b>>
                 /\ s.deliveries[k].state \in {"queued", "delivered", "persisted"}}
  IN Done([Put(s, keys, "surfaced") EXCEPT !.leases = Without(@, keys)],
          IfSome({k \in keys : s.deliveries[k].state = "persisted"}, b), keys # {})

ClaimForDelivery(s, b) ==
  LET keys == {k \in KeysOf(s, b) : s.deliveries[k].state = "queued"}
  IN Done(Put(s, keys, "delivered"), {}, {m \in Ids(keys) : Has(s.messages, m)})

LeaseForDelivery(s, b, lease, now, until) ==
  LET keys == {k \in KeysOf(s, b) : /\ s.deliveries[k].state \in {"queued", "delivered"}
                                    /\ Has(s.leases, k) => s.leases[k].until <= now}
  IN Done([Put(s, keys, "delivered") EXCEPT
             !.leases = [k \in DOMAIN @ \union keys |->
                           IF k \in keys THEN [id |-> lease, until |-> until] ELSE @[k]]],
          {}, {m \in Ids(keys) : Has(s.messages, m)})

(* The lease is given up whatever the state of the copy; and, unlike the   *)
(* production store, an acknowledgement mints no event.                    *)
AckDelivery(s, b, lease, ids) ==
  LET held == {k \in DOMAIN s.leases : k[1] \in ids /\ k[2] = b /\ s.leases[k].id = lease}
      keys == {k \in held : Has(s.deliveries, k)
                              /\ s.deliveries[k].state \in {"queued", "delivered"}}
  IN Done([Put(s, keys, "persisted") EXCEPT !.leases = Without(@, held)], {}, Cardinality(keys))

-----------------------------------------------------------------------------
OpenAwaiting(s, m, expires, replyBy, from) ==
  Done([s EXCEPT !.awaiting = With(@, m,
          [origin |-> m, expires |-> expires, replyBy |-> replyBy, closed |-> FALSE,
           reason |-> None, stage |-> 0, from |-> from])], {}, None)

CloseAwaiting(s, m, reason) ==
  Done(IF Open(s, m) THEN [s EXCEPT !.awaiting[m] = [@ EXCEPT !.closed = TRUE, !.reason = reason]]
                     ELSE s, {}, None)

MarkNudged(s, m, stage) ==
  Done(IF Has(s.awaiting, m) /\ s.awaiting[m].stage < stage
         THEN [s EXCEPT !.awaiting[m].stage = stage] ELSE s, {}, None)

DeferNudge(s, m, from) ==
  Done(IF Has(s.awaiting, m) THEN [s EXCEPT !.awaiting[m] = [@ EXCEPT !.from = from, !.stage = 0]]
                             ELSE s, {}, None)

PastTtl(s, now) ==
  {s.awaiting[m] : m \in {x \in DOMAIN s.awaiting :
     Open(s, x) /\ s.awaiting[x].expires # None /\ s.awaiting[x].expires <= now}}

GetAwaiting(s, m) == IF Has(s.awaiting, m) THEN {s.awaiting[m]} ELSE {}
OpenAwaitings(s) == {s.awaiting[m] : m \in {x \in DOMAIN s.awaiting : Open(s, x)}}

-----------------------------------------------------------------------------
ClaimProject(s, m, b) ==
  IF Has(s.claims, m) THEN Done(s, {}, FALSE)
  ELSE Done([s EXCEPT !.claims = With(@, m, b)], {}, TRUE)

ReleaseClaim(s, m) == Done([s EXCEPT !.claims = Without(@, {m})], {}, None)
PassProject(s, m, b) == Done([s EXCEPT !.passes = @ \union {<<m, b>>}], {}, None)
MarkSuperseded(s, m, by) == Done([s EXCEPT !.superseded = With(@, m, by)], {}, None)

ProjectStanding(s, m, b) ==
  IF Has(s.claims, m) /\ s.claims[m] = b THEN "claimed"
  ELSE IF <<m, b>> \in s.passes THEN "passed" ELSE "none"
ProjectClaim(s, m) == IF Has(s.claims, m) THEN {s.claims[m]} ELSE {}
MarkProjectSurfaced(s, m, b) == Done([s EXCEPT !.surfaces = @ \union {<<m, b>>}], {}, None)
ProjectSurfaced(s, m, b) == <<m, b>> \in s.surfaces
SupersededBy(s, m) == IF Has(s.superseded, m) THEN {s.superseded[m]} ELSE {}

-----------------------------------------------------------------------------
QueueOutbound(s, op, from, ts) ==
  Done(IF Has(s.intents, op) THEN s
       ELSE [s EXCEPT !.intents = With(@, op, [op |-> op, from |-> from, ts |-> ts])], {}, None)

PendingOutbound(s, from) ==
  {s.intents[o] : o \in {x \in DOMAIN s.intents : s.intents[x].from = from}}
PendingOutboundAll(s) == {s.intents[o] : o \in DOMAIN s.intents}
DeleteOutbound(s, op) == Done([s EXCEPT !.intents = Without(@, {op})], {}, None)

SaveRegistry(s, entries) == Done([s EXCEPT !.registry = entries], {}, None)
LoadRegistry(s) == s.registry

-----------------------------------------------------------------------------
Purge(s, before) ==
  LET gone == {m \in DOMAIN s.messages :
                 /\ s.messages[m] < before
                 /\ \A k \in DOMAIN s.deliveries : k[1] = m => s.deliveries[k].state \notin Live
                 /\ ~ Open(s, m)}
  IN Done([s EXCEPT !.messages   = Without(@, gone),
                    !.awaiting   = Without(@, gone),
                    !.routes     = Without(@, gone),
                    !.deliveries = Without(@, {k \in DOMAIN @ : k[1] \in gone})],
          {}, Cardinality(gone))

(* Mutant: retiring a copy makes no event.                                 *)
TombstoneSilently(s, before) ==
  LET keys == {k \in DOMAIN s.deliveries :
                 s.deliveries[k].state \in Live /\ s.deliveries[k].ts < before}
  IN Done(Put(s, keys, "consumed"), {}, Cardinality(keys))

TombstoneStale(s, before) ==
  LET keys == {k \in DOMAIN s.deliveries :
                 s.deliveries[k].state \in Live /\ s.deliveries[k].ts < before}
  IN Done(Put(s, keys, "consumed"), {k[2] : k \in keys}, Cardinality(keys))
=============================================================================
