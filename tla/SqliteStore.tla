---------------------------- MODULE SqliteStore ----------------------------
(* The production store, src/storage/sqliteBackend.ts, one operator per    *)
(* statement it runs.  A store is a record of tables; every operation      *)
(* maps a store to the store after it, with what the call returned in out  *)
(* and the addresses whose event number it minted in moved.  A table is a  *)
(* set of rows and an UPDATE rewrites the rows its WHERE selects.          *)
EXTENDS Integers, FiniteSets, FiniteSetsExt

CONSTANTS
  Asks,     \* the messages that are a query or a request
  None      \* SQL's NULL

PendingStates == {"queued", "delivered", "surfaced"}

Empty ==
  [messages |-> {}, deliveries |-> {}, awaiting |-> {}, claims |-> {},
   passes |-> {}, superseded |-> {}, routes |-> {}, intents |-> {}, surfaces |-> {},
   registry |-> {}, moved |-> {}, out |-> None]

(* A call that returned result and minted an event for the addresses.      *)
Done(s, addresses, result) == [s EXCEPT !.moved = addresses, !.out = result]

InBox(s, b) == {r \in s.deliveries : r.box = b /\ r.state \in PendingStates}
Ids(rows) == {r.msg : r \in rows}
Joined(s, rows) == {r \in rows : \E x \in s.messages : x.id = r.msg}
Boxes(rows) == {r.box : r \in rows}
Alive(s, m) == \E a \in s.awaiting : a.origin = m /\ ~ a.closed
Recoverable(s, r) ==
  r.state \in PendingStates \/ (r.state = "persisted" /\ r.msg \in Asks /\ Alive(s, r.msg))
IfAny(rows, b) == IF rows = {} THEN {} ELSE {b}

-----------------------------------------------------------------------------
(* Messages and their copies.                                              *)

(* INSERT OR IGNORE passes over a message whose id is there.  A second     *)
(* unique index, on operation_id, would pass over a second message of one  *)
(* operation; it never decides by itself: the operation is looked up       *)
(* before the append, and where two writers have both found nothing they   *)
(* carry the same id, which is derived from the operation.                 *)
Append(s, m, ts) ==
  Done([s EXCEPT !.messages =
          IF m \in {r.id : r \in @} THEN @ ELSE @ \union {[id |-> m, ts |-> ts]}], {}, None)

(* INSERT OR IGNORE: the first route saved for a message stays.            *)
SaveRoute(s, m, targets) ==
  Done([s EXCEPT !.routes =
          IF \E r \in @ : r.msg = m THEN @ ELSE @ \union {[msg |-> m, targets |-> targets]}],
       {}, None)

(* One transaction: the message, and the route it was resolved to.         *)
AppendRouted(s, m, targets, ts) == SaveRoute(Append(s, m, ts), m, targets)

RouteFor(s, m) == {r.targets : r \in {x \in s.routes : x.msg = m}}
Get(s, m) == {r \in s.messages : r.id = m}
OriginOf(s, m) == {r \in Get(s, m) : m \in Asks}

(* The messages of a peer or a conversation, given as a set, since a time. *)
History(s, wanted, since) == {r \in s.messages : r.id \in wanted /\ r.ts >= since}

(* Mutant: a copy is inserted whenever the very same row is not there.     *)
EnqueueUnkeyed(s, m, b) ==
  Done([s EXCEPT !.deliveries = @ \union
          {[msg |-> m, box |-> b, state |-> "queued", lease |-> None, until |-> 0, ts |-> 0]}],
       {b}, None)

Enqueue(s, m, b) ==
  LET row == {r \in s.deliveries : r.msg = m /\ r.box = b}
      ts  == Max({0} \union {r.ts : r \in {x \in s.messages : x.id = m}})
  IN IF row # {} THEN Done(s, {}, None)
     ELSE Done([s EXCEPT !.deliveries = @ \union
                 {[msg |-> m, box |-> b, state |-> "queued", lease |-> None, until |-> 0, ts |-> ts]}],
               {b}, None)

(* The inbox, and with consume the read that empties it.                   *)
Pending(s, b, consume) ==
  IF consume
    THEN Done([s EXCEPT !.deliveries =
                 {IF r \in InBox(s, b) THEN [r EXCEPT !.state = "consumed"] ELSE r : r \in @}],
              IfAny(InBox(s, b), b), Ids(Joined(s, InBox(s, b))))
    ELSE Done(s, {}, Ids(Joined(s, InBox(s, b))))

RecoverableOf(s, b) == Ids({r \in Joined(s, s.deliveries) : r.box = b /\ Recoverable(s, r)})
DeliveriesFor(s, m) == {[box |-> r.box, state |-> r.state] : r \in {x \in s.deliveries : x.msg = m}}
ProjectAddresses(s, projects) ==
  projects \intersect Boxes({r \in s.deliveries : r.state \in PendingStates})
PendingAddresses(s) == Boxes({r \in s.deliveries : r.state \in PendingStates})
RecoverableAddresses(s) == Boxes({r \in Joined(s, s.deliveries) : Recoverable(s, r)})
Inflight(s) ==
  [deliveries |-> {<<r.msg, r.box, r.state>> : r \in {x \in s.deliveries : x.state \in PendingStates}},
   awaiting |-> {a \in s.awaiting : ~ a.closed}]

MarkDelivered(s, m, b) ==
  Done([s EXCEPT !.deliveries =
          {IF r.msg = m /\ r.box = b /\ r.state = "queued"
             THEN [r EXCEPT !.state = "delivered"] ELSE r : r \in @}], {}, None)

(* Mutant: the second statement is dropped.                                *)
SettleFromInbox(s, m, b, state) ==
  LET rows == {r \in InBox(s, b) : r.msg = m}
  IN Done([s EXCEPT !.deliveries =
             {IF r \in rows THEN [r EXCEPT !.state = state] ELSE r : r \in @}],
          IfAny(rows, b), None)

(* The two statements of a settling call: only a row that was in the inbox *)
(* makes an event, any other row is overwritten all the same.              *)
Settle(s, m, b, state) ==
  Done([s EXCEPT !.deliveries =
          {IF r.msg = m /\ r.box = b THEN [r EXCEPT !.state = state] ELSE r : r \in @}],
       IfAny({r \in InBox(s, b) : r.msg = m}, b), None)

MarkConsumed(s, m, b) == Settle(s, m, b, "consumed")
SetConsent(s, m, b, accepted) == Settle(s, m, b, IF accepted THEN "accepted" ELSE "declined")

(* Mutant: a copy that comes back into the inbox makes no event.           *)
MarkSurfacedSilently(s, m, b) ==
  LET rows == {r \in s.deliveries : r.msg = m /\ r.box = b
                                      /\ r.state \in {"queued", "delivered", "persisted"}}
  IN Done([s EXCEPT !.deliveries =
             {IF r \in rows THEN [r EXCEPT !.state = "surfaced", !.lease = None, !.until = 0]
                            ELSE r : r \in @}], {}, rows # {})

MarkSurfaced(s, m, b) ==
  LET rows == {r \in s.deliveries : r.msg = m /\ r.box = b
                                      /\ r.state \in {"queued", "delivered", "persisted"}}
  IN Done([s EXCEPT !.deliveries =
             {IF r \in rows THEN [r EXCEPT !.state = "surfaced", !.lease = None, !.until = 0]
                            ELSE r : r \in @}],
          IfAny({r \in rows : r.state = "persisted"}, b), rows # {})

ClaimForDelivery(s, b) ==
  LET rows == {r \in s.deliveries : r.box = b /\ r.state = "queued"}
  IN Done([s EXCEPT !.deliveries =
             {IF r \in rows THEN [r EXCEPT !.state = "delivered"] ELSE r : r \in @}],
          {}, Ids(Joined(s, rows)))

LeaseForDelivery(s, b, lease, now, until) ==
  LET rows == {r \in s.deliveries : /\ r.box = b
                                    /\ r.state \in {"queued", "delivered"}
                                    /\ r.lease = None \/ r.until <= now}
  IN Done([s EXCEPT !.deliveries =
             {IF r \in rows THEN [r EXCEPT !.state = "delivered", !.lease = lease, !.until = until]
                            ELSE r : r \in @}],
          {}, Ids(Joined(s, rows)))

AckDelivery(s, b, lease, ids) ==
  LET rows == {r \in s.deliveries : /\ r.box = b /\ r.lease = lease /\ r.msg \in ids
                                    /\ r.state \in {"queued", "delivered"}}
  IN Done([s EXCEPT !.deliveries =
             {IF r \in rows THEN [r EXCEPT !.state = "persisted", !.lease = None, !.until = 0]
                            ELSE r : r \in @}],
          IfAny(rows, b), Cardinality(rows))

-----------------------------------------------------------------------------
(* What a sender waits for.                                                *)

OpenAwaiting(s, m, expires, replyBy, from) ==
  Done([s EXCEPT !.awaiting =
          {a \in @ : a.origin # m} \union
            {[origin |-> m, expires |-> expires, replyBy |-> replyBy, closed |-> FALSE,
              reason |-> None, stage |-> 0, from |-> from]}], {}, None)

CloseAwaiting(s, m, reason) ==
  Done([s EXCEPT !.awaiting =
          {IF a.origin = m /\ ~ a.closed THEN [a EXCEPT !.closed = TRUE, !.reason = reason]
                                         ELSE a : a \in @}], {}, None)

MarkNudged(s, m, stage) ==
  Done([s EXCEPT !.awaiting =
          {IF a.origin = m /\ a.stage < stage THEN [a EXCEPT !.stage = stage] ELSE a : a \in @}],
       {}, None)

DeferNudge(s, m, from) ==
  Done([s EXCEPT !.awaiting =
          {IF a.origin = m THEN [a EXCEPT !.from = from, !.stage = 0] ELSE a : a \in @}], {}, None)

PastTtl(s, now) == {a \in s.awaiting : ~ a.closed /\ a.expires # None /\ a.expires <= now}

GetAwaiting(s, m) == {a \in s.awaiting : a.origin = m}
OpenAwaitings(s) == {a \in s.awaiting : ~ a.closed}

-----------------------------------------------------------------------------
(* Who has taken, passed on or replaced a message.                         *)

ClaimProject(s, m, b) ==
  LET free == \A c \in s.claims : c.msg # m
  IN Done([s EXCEPT !.claims = IF free THEN @ \union {[msg |-> m, alias |-> b]} ELSE @], {}, free)

ReleaseClaim(s, m) == Done([s EXCEPT !.claims = {c \in @ : c.msg # m}], {}, None)
PassProject(s, m, b) == Done([s EXCEPT !.passes = @ \union {<<m, b>>}], {}, None)
MarkSuperseded(s, m, by) ==
  Done([s EXCEPT !.superseded = {r \in @ : r.msg # m} \union {[msg |-> m, by |-> by]}], {}, None)

ProjectStanding(s, m, b) ==
  IF [msg |-> m, alias |-> b] \in s.claims THEN "claimed"
  ELSE IF <<m, b>> \in s.passes THEN "passed" ELSE "none"
ProjectClaim(s, m) == {c.alias : c \in {x \in s.claims : x.msg = m}}
MarkProjectSurfaced(s, m, b) == Done([s EXCEPT !.surfaces = @ \union {<<m, b>>}], {}, None)
ProjectSurfaced(s, m, b) == <<m, b>> \in s.surfaces
SupersededBy(s, m) == {r.by : r \in {x \in s.superseded : x.msg = m}}

-----------------------------------------------------------------------------
(* The outbox of sends made in an outage, and the registry snapshot.       *)

(* INSERT OR IGNORE: an operation keeps the first intent queued for it.    *)
QueueOutbound(s, op, from, ts) ==
  Done([s EXCEPT !.intents =
          IF \E r \in @ : r.op = op THEN @ ELSE @ \union {[op |-> op, from |-> from, ts |-> ts]}],
       {}, None)

PendingOutbound(s, from) == {r \in s.intents : r.from = from}
PendingOutboundAll(s) == s.intents
DeleteOutbound(s, op) == Done([s EXCEPT !.intents = {r \in @ : r.op # op}], {}, None)

SaveRegistry(s, entries) == Done([s EXCEPT !.registry = entries], {}, None)
LoadRegistry(s) == s.registry

-----------------------------------------------------------------------------
(* Ageing: the purge deletes what is settled, the tombstone settles what   *)
(* has waited too long.                                                    *)

Purge(s, before) ==
  LET gone == {r.id : r \in {x \in s.messages :
                 /\ x.ts < before
                 /\ \A d \in s.deliveries : d.msg = x.id => d.state \notin PendingStates
                 /\ ~ Alive(s, x.id)}}
  IN Done([s EXCEPT !.deliveries = {r \in @ : r.msg \notin gone},
                    !.awaiting   = {a \in @ : a.origin \notin gone},
                    !.routes     = {r \in @ : r.msg \notin gone},
                    !.messages   = {r \in @ : r.id \notin gone}],
          {}, Cardinality(gone))

TombstoneStale(s, before) ==
  LET rows == {r \in s.deliveries : r.state \in PendingStates /\ r.ts < before}
  IN Done([s EXCEPT !.deliveries =
             {IF r \in rows THEN [r EXCEPT !.state = "consumed"] ELSE r : r \in @}],
          Boxes(rows), Cardinality(rows))
=============================================================================
