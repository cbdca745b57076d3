------------------------------- MODULE Stores -------------------------------
(* The two stores side by side, given the same calls in every order: the   *)
(* tests run on one of them and the broker on the other, so whatever a     *)
(* caller can observe has to be the same.                                  *)
EXTENDS Integers, FiniteSets

CONSTANTS
  Msg, Box, Asks, Lease, None,
  Sent,         \* the messages that a send made; replies and notices carry no route
  Shared,       \* the asks put to a project mailbox, for its members to take
  Intent, Entry,    \* operation ids queued in an outage, rows of the registry
  To,           \* whom a message is fanned out to
  LeaseFor, Tombstone, Retention,
  LastSend, MaxClock    \* bounds on the clock

ASSUME StoresAssumption ==
  /\ Shared \subseteq Asks /\ Asks \subseteq Sent /\ Sent \subseteq Msg
  /\ To \in [Msg -> SUBSET Box] /\ None \notin Lease
  /\ LeaseFor \in Nat /\ Tombstone \in Nat /\ Retention \in Nat
  /\ LastSend \in Nat /\ MaxClock \in Nat

VARIABLES
  sql, mem,     \* the two stores
  agreed,       \* whether the last call returned the same from both
  moved,        \* the addresses for which it minted an event in the file
  memMoved,     \* and in memory
  used,         \* message ids handed out so far; none is used twice
  now,          \* seconds
  beside        \* whether this behaviour also works the tables beside the mailboxes

vars == <<sql, mem, agreed, moved, memMoved, used, now, beside>>

Sql == INSTANCE SqliteStore
Mem == INSTANCE MemoryStore

-----------------------------------------------------------------------------
(* One call, made on both stores; what it returned is compared and let go. *)
Call(s, m) ==
  /\ sql' = Sql!Done(s, {}, None) /\ mem' = Mem!Done(m, {}, None)
  /\ agreed' = (s.out = m.out)
  /\ moved' = s.moved /\ memMoved' = m.moved
  /\ UNCHANGED <<now, beside>>

On(s, m) == Call(s, m) /\ UNCHANGED used

Append(m) ==
  /\ m \notin used /\ now <= LastSend
  /\ used' = used \union {m}
  /\ \/ /\ m \in Sent
        /\ Call(Sql!AppendRouted(sql, m, To[m], now), Mem!AppendRouted(mem, m, To[m], now))
     \/ /\ m \notin Sent
        /\ Call(Sql!Append(sql, m, now), Mem!Append(mem, m, now))

Appended(m) == \E r \in sql.messages : r.id = m

FanOut(m, b) ==
  /\ Appended(m) /\ b \in To[m]
  /\ On(Sql!Enqueue(sql, m, b), Mem!Enqueue(mem, m, b))

OpenAsk(m) ==
  /\ Appended(m)
  /\ On(Sql!OpenAwaiting(sql, m, now + 1, None, now), Mem!OpenAwaiting(mem, m, now + 1, None, now))

Read(b, consume) == On(Sql!Pending(sql, b, consume), Mem!Pending(mem, b, consume))
Claim(b) == On(Sql!ClaimForDelivery(sql, b), Mem!ClaimForDelivery(mem, b))
TakeLease(b, l) ==
  On(Sql!LeaseForDelivery(sql, b, l, now, now + LeaseFor),
     Mem!LeaseForDelivery(mem, b, l, now, now + LeaseFor))
Acknowledge(b, l, ids) ==
  On(Sql!AckDelivery(sql, b, l, ids), Mem!AckDelivery(mem, b, l, ids))

Mark(m, b) ==
  \/ On(Sql!MarkDelivered(sql, m, b), Mem!MarkDelivered(mem, m, b))
  \/ On(Sql!MarkConsumed(sql, m, b), Mem!MarkConsumed(mem, m, b))
  \/ On(Sql!MarkSurfaced(sql, m, b), Mem!MarkSurfaced(mem, m, b))
  \/ \E yes \in BOOLEAN : On(Sql!SetConsent(sql, m, b, yes), Mem!SetConsent(mem, m, b, yes))

Chase(m) ==
  \/ On(Sql!CloseAwaiting(sql, m, "replied"), Mem!CloseAwaiting(mem, m, "replied"))
  \/ \E k \in 1..2 : On(Sql!MarkNudged(sql, m, k), Mem!MarkNudged(mem, m, k))
  \/ On(Sql!DeferNudge(sql, m, now + 1), Mem!DeferNudge(mem, m, now + 1))

Share(m, b) ==
  \/ On(Sql!ClaimProject(sql, m, b), Mem!ClaimProject(mem, m, b))
  \/ On(Sql!PassProject(sql, m, b), Mem!PassProject(mem, m, b))
Release(m) == On(Sql!ReleaseClaim(sql, m), Mem!ReleaseClaim(mem, m))
Replace(m, by) == On(Sql!MarkSuperseded(sql, m, by), Mem!MarkSuperseded(mem, m, by))

Show(m, b) == On(Sql!MarkProjectSurfaced(sql, m, b), Mem!MarkProjectSurfaced(mem, m, b))

QueueIntent(o, b) == On(Sql!QueueOutbound(sql, o, b, now), Mem!QueueOutbound(mem, o, b, now))
DropIntent(o) == On(Sql!DeleteOutbound(sql, o), Mem!DeleteOutbound(mem, o))
SaveEntries(entries) == On(Sql!SaveRegistry(sql, entries), Mem!SaveRegistry(mem, entries))

Age ==
  \/ On(Sql!TombstoneStale(sql, now - Tombstone), Mem!TombstoneStale(mem, now - Tombstone))
  \/ On(Sql!Purge(sql, now - Retention), Mem!Purge(mem, now - Retention))

Tick ==
  /\ now < MaxClock
  /\ now' = now + 1
  /\ moved' = {} /\ memMoved' = {}
  /\ UNCHANGED <<sql, mem, agreed, used, beside>>

Init ==
  /\ sql = Sql!Empty /\ mem = Mem!Empty
  /\ agreed = TRUE /\ moved = {} /\ memMoved = {}
  /\ used = {} /\ now = 0 /\ beside \in BOOLEAN

(* A bound: a behaviour works either the mailboxes with every message and  *)
(* lease, or the tables beside them with the messages that have rows there.*)
Msgs == IF beside THEN Shared ELSE Msg
Leases == IF beside THEN {} ELSE Lease
Inboxes == UNION {To[m] : m \in Msg}

Next ==
  \/ \E m \in Msgs : Append(m) \/ \E b \in To[m] : (FanOut(m, b) \/ Mark(m, b))
  \/ \E m \in Msgs \intersect Asks :
       OpenAsk(m) \/ Chase(m) \/ \E by \in Msgs \ {m} : Replace(m, by)
  \/ \E b \in Inboxes : Claim(b) \/ \E consume \in BOOLEAN : Read(b, consume)
  \/ \E b \in Inboxes, l \in Leases :
       TakeLease(b, l) \/ \E ids \in SUBSET Msg : Acknowledge(b, l, ids)
  \/ Age \/ Tick
  \/ /\ beside
     /\ \/ \E m \in Shared : Release(m) \/ \E b \in Box : (Share(m, b) \/ Show(m, b))
        \/ \E o \in Intent : DropIntent(o) \/ \E b \in Inboxes : QueueIntent(o, b)
        \/ \E entries \in SUBSET Entry : SaveEntries(entries)

Spec == Init /\ [][Next]_vars

-----------------------------------------------------------------------------
(* The tables hold rows of their types, with at most one row per key       *)
(* (sqliteBackend.ts, the schema).                                         *)
State == {"queued", "delivered", "surfaced", "consumed", "accepted", "declined", "persisted"}

TypeOK ==
  /\ \A r \in sql.messages : r.id \in used /\ r.ts \in 0..LastSend
  /\ \A r \in sql.deliveries :
       /\ r.msg \in used /\ r.box \in To[r.msg] /\ r.state \in State
       /\ r.lease \in Lease \union {None} /\ r.until \in 0..(MaxClock + LeaseFor)
  /\ \A a \in sql.awaiting : a.origin \in Asks \intersect used /\ a.stage \in 0..2
  /\ \A r, x \in sql.deliveries : r.msg = x.msg /\ r.box = x.box => r = x
  /\ \A a, x \in sql.awaiting : a.origin = x.origin => a = x
  /\ \A c, x \in sql.claims : c.msg = x.msg => c = x
  /\ \A r, x \in sql.routes : r.msg \in used /\ (r.msg = x.msg => r = x)
  /\ \A r, x \in sql.intents : r.op \in Intent /\ (r.op = x.op => r = x)
  /\ used \subseteq Msg /\ now \in 0..MaxClock /\ agreed \in BOOLEAN /\ beside \in BOOLEAN
  /\ moved \subseteq Box /\ memMoved \subseteq Box

(* The maps of memoryBackend.ts hold what the tables of sqliteBackend.ts   *)
(* hold, after any sequence of calls.  A lease counts only while its copy  *)
(* can still be leased: memory drops and keeps it elsewhere than the file. *)
LeaseInMem(k) == IF Mem!Has(mem.leases, k) THEN mem.leases[k] ELSE [id |-> None, until |-> 0]

SameState ==
  /\ {<<r.id, r.ts>> : r \in sql.messages} = {<<m, mem.messages[m]>> : m \in DOMAIN mem.messages}
  /\ {<<r.msg, r.box, r.state, r.ts>> : r \in sql.deliveries}
       = {<<k[1], k[2], mem.deliveries[k].state, mem.deliveries[k].ts>> : k \in DOMAIN mem.deliveries}
  /\ sql.awaiting = {mem.awaiting[m] : m \in DOMAIN mem.awaiting}
  /\ \A r \in sql.deliveries : r.state \in {"queued", "delivered"} =>
       [id |-> r.lease, until |-> r.until] = LeaseInMem(<<r.msg, r.box>>)

(* Every call returns the same from both stores, and so does every query   *)
(* that the broker may make between two calls.                             *)
SameAnswers ==
  /\ agreed
  /\ Sql!PendingAddresses(sql) = Mem!PendingAddresses(mem)
  /\ Sql!RecoverableAddresses(sql) = Mem!RecoverableAddresses(mem)
  /\ \A b \in Box : Sql!RecoverableOf(sql, b) = Mem!RecoverableOf(mem, b)
  /\ Sql!Inflight(sql) = Mem!Inflight(mem)
  /\ Sql!PastTtl(sql, now) = Mem!PastTtl(mem, now)
  /\ \A m \in Msg : Sql!SupersededBy(sql, m) = Mem!SupersededBy(mem, m)

(* The tables beside the mailboxes and the rows read one at a time answer  *)
(* alike: routes, intents, the registry snapshot, the marks of a project   *)
(* member, messages, copies and asks, whatever was sent, purged or queued. *)
SameRecords ==
  /\ \A m \in Msg :
       /\ Sql!RouteFor(sql, m) = Mem!RouteFor(mem, m)
       /\ Sql!Get(sql, m) = Mem!Get(mem, m) /\ Sql!OriginOf(sql, m) = Mem!OriginOf(mem, m)
       /\ Sql!DeliveriesFor(sql, m) = Mem!DeliveriesFor(mem, m)
       /\ Sql!GetAwaiting(sql, m) = Mem!GetAwaiting(mem, m)
       /\ Sql!ProjectClaim(sql, m) = Mem!ProjectClaim(mem, m)
       /\ \A b \in Box :
            /\ Sql!ProjectStanding(sql, m, b) = Mem!ProjectStanding(mem, m, b)
            /\ Sql!ProjectSurfaced(sql, m, b) <=> Mem!ProjectSurfaced(mem, m, b)
  /\ \A b \in Box :
       /\ Sql!PendingOutbound(sql, b) = Mem!PendingOutbound(mem, b)
       /\ Sql!ProjectAddresses(sql, {b}) = Mem!ProjectAddresses(mem, {b})
  /\ \A ts \in 0..now : Sql!History(sql, Msg, ts) = Mem!History(mem, Msg, ts)
  /\ Sql!PendingOutboundAll(sql) = Mem!PendingOutboundAll(mem)
  /\ Sql!OpenAwaitings(sql) = Mem!OpenAwaitings(mem)
  /\ Sql!LoadRegistry(sql) = Mem!LoadRegistry(mem)

(* The memory store is "the SECOND implementation that exercises the       *)
(* StorageBackend contract" (memoryBackend.ts:4-5): what a test sees of it *)
(* in rows and answers, the broker sees of the file.                       *)
StoresAgree == SameState /\ SameAnswers /\ SameRecords

(* base.ts:46-52, in the production store: an address's event number moves *)
(* exactly when the set of messages pending there changes.                 *)
EventsAreChanges ==
  [][moved' = {b \in Box : Sql!Ids(Sql!InBox(sql, b)) # Sql!Ids(Sql!InBox(sql', b))}]_vars

(* The memory store mints the same events, but for an acknowledgement,     *)
(* which takes a copy out of the inbox and moves nothing there.            *)
SameEvents ==
  [][memMoved' # moved' =>
       /\ memMoved' = {}
       /\ \A b \in moved' : \E r \in sql'.deliveries :
            r.box = b /\ r.state = "persisted" /\ r \notin sql.deliveries]_vars
=============================================================================
