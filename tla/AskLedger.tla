----------------------------- MODULE AskLedger -----------------------------
(***************************************************************************)
(* The life of a directed ask (a query or a request from one alias to      *)
(* another) inside the broker: the Router handlers that touch it, the      *)
(* storage rows they write and the sweeper that chases, releases, retires  *)
(* and purges it.                                                          *)
(*                                                                         *)
(* A Router handler is synchronous, so one request, and one sweep, is one  *)
(* step.  Three tables carry an ask: its message row, its one delivery row *)
(* and its awaiting row.  The messages the handlers and the sweeper append *)
(* ABOUT an ask (answers and broker notices) are counted per ask in        *)
(* "posts"; their own delivery rows are not tracked here.  The registry is *)
(* constant: who shares a session with whom, and which sessions are        *)
(* managed hosts.                                                          *)
(***************************************************************************)
EXTENDS Naturals

CONSTANTS
  Ask,          \* message ids of asks; a fresh random id per send
  Alias,        \* registered aliases
  SessionOf,    \* alias |-> the session that registered it
  Managed,      \* sessions with the "ipc-host" capability
  ReplyBys,     \* reply-by deadlines a sender may choose (may hold None)
  Ttls,         \* TTLs a sender may choose (may hold None)
  FinalGrace,   \* config.reply.finalGraceS
  LeaseFor,     \* how long a host reserves a delivery
  Tombstone,    \* config.tombstoneS
  Retention,    \* config.retentionS
  None,         \* SQL NULL / JavaScript null
  Unsent,       \* messages[a] before the send
  Purged,       \* messages[a] after the retention purge
  MaxClock,     \* bound: the clock stops here
  LastSend,     \* bound: no ask is sent after this instant
  MaxAnswers    \* bound: replies of each sort per ask

ASSUME LedgerAssumption ==
  /\ ReplyBys \subseteq Nat \union {None}
  /\ Ttls \subseteq (Nat \ {0}) \union {None}
  /\ None \notin Nat
  /\ FinalGrace \in Nat \ {0}
  /\ LeaseFor \in Nat /\ Tombstone \in Nat /\ Retention \in Nat
  /\ MaxClock \in Nat /\ LastSend \in Nat /\ MaxAnswers \in Nat

Message  == [from : Alias, to : Alias, ts : Nat]
ASSUME SentinelAssumption ==
  Unsent # Purged /\ Unsent \notin Message /\ Purged \notin Message

(* "none" stands for a delivery row that does not exist. *)
State    == {"none", "queued", "delivered", "surfaced", "persisted",
             "consumed", "accepted", "declined"}
Pending  == {"queued", "delivered", "surfaced"}
Settled  == {"consumed", "accepted", "declined"}
Delivery == [state : State, leaseUntil : Nat \union {None}]

(* closed + closedReason of the awaiting row; "none" = no such row. *)
Status   == {"none", "open", "responded", "parked", "cancelled"}
Awaiting == [status : Status, expiresAt : Nat \union {None},
             replyBy : Nat \union {None}, nudgeFrom : Nat, stage : 0..2]

(* What gets appended about an ask, by who reads it: answers for the       *)
(* sender, notices of the sweeper for the recipient (nudge, lastCall) and  *)
(* for the sender (noReply, parked), and the recipient's CANCELLED notice. *)
Post == {"answer", "partial", "declined", "nudge", "lastCall", "noReply",
         "parked", "cancelled"}

VARIABLES
  now,          \* the broker's clock
  lastSweep,    \* when the sweep timer last ran
  messages,     \* messages table
  deliveries,   \* deliveries table: the one row of each ask
  awaiting,     \* awaiting table
  posts,        \* messages whose corr_id is the ask, counted by sort
  withdrawn     \* asks whose sender a cancel has answered "cancelled: true"

vars == <<now, lastSweep, messages, deliveries, awaiting, posts, withdrawn>>
time == <<now, lastSweep>>

NoDelivery == [state |-> "none", leaseUntil |-> None]
NoAwaiting == [status |-> "none", expiresAt |-> None, replyBy |-> None,
               nudgeFrom |-> 0, stage |-> 0]

TypeOK ==
  /\ now \in Nat
  /\ lastSweep \in Nat
  /\ messages \in [Ask -> Message \union {Unsent, Purged}]
  /\ deliveries \in [Ask -> Delivery]
  /\ awaiting \in [Ask -> Awaiting]
  /\ posts \in [Ask -> [Post -> Nat]]
  /\ withdrawn \subseteq Ask

Stored(a)       == messages[a] \notin {Unsent, Purged}
IsOpen(a)       == awaiting[a].status = "open"
InBox(a)        == deliveries[a].state \in Pending
SameSession(x, y) == SessionOf[x] = SessionOf[y]

Init ==
  /\ now = 0
  /\ lastSweep = 0
  /\ messages = [a \in Ask |-> Unsent]
  /\ deliveries = [a \in Ask |-> NoDelivery]
  /\ awaiting = [a \in Ask |-> NoAwaiting]
  /\ posts = [a \in Ask |-> [p \in Post |-> 0]]
  /\ withdrawn = {}

-----------------------------------------------------------------------------
(* Storage statements used by more than one handler.                       *)

PlusPost(a, p) == [posts EXCEPT ![a][p] = @ + 1]

(* A close without the "closed=0" condition of closeAwaiting. *)
CloseAnyAwaiting(aw, reason) == [aw EXCEPT !.status = reason]

CloseAwaiting(aw, reason) ==
  IF aw.status = "open" THEN [aw EXCEPT !.status = reason] ELSE aw

(* deferNudge has no "closed" condition: a settled row is rewritten too.   *)
DeferNudge(aw) == [aw EXCEPT !.nudgeFrom = now, !.stage = 0]

-----------------------------------------------------------------------------
(* Requests of the sender.                                                 *)

Send(a, from, to, replyBy, ttl) ==
  /\ messages[a] = Unsent
  /\ now <= LastSend
  /\ ~SameSession(from, to)
  /\ messages' = [messages EXCEPT ![a] = [from |-> from, to |-> to, ts |-> now]]
  /\ deliveries' = [deliveries EXCEPT ![a].state = "queued"]
  /\ awaiting' = [awaiting EXCEPT ![a] =
       [status |-> "open", expiresAt |-> IF ttl = None THEN None ELSE now + ttl,
        replyBy |-> replyBy, nudgeFrom |-> now, stage |-> 0]]
  /\ UNCHANGED <<time, posts, withdrawn>>

(* A cancel closes an open ask, takes the copy out of the recipient's box  *)
(* and, unless that copy was never handed over, posts a CANCELLED notice.  *)
(* On an ask that is no longer open it changes no row; the sender is told  *)
(* "cancelled: true" all the same.                                         *)
Recalled(a) == IsOpen(a) /\ deliveries[a].state \in Pending \union {"persisted"}

Cancel(a) ==
  /\ Stored(a)
  /\ withdrawn' = withdrawn \union {a}
  /\ awaiting' = [awaiting EXCEPT ![a] = CloseAwaiting(@, "cancelled")]
  /\ deliveries' = IF Recalled(a) THEN [deliveries EXCEPT ![a].state = "consumed"]
                                  ELSE deliveries
  /\ posts' = IF Recalled(a) /\ deliveries[a].state # "queued"
              THEN PlusPost(a, "cancelled") ELSE posts
  /\ UNCHANGED <<time, messages>>

-----------------------------------------------------------------------------
(* Requests of the recipient's session.                                    *)

Box(s) == {a \in Ask : Stored(a) /\ SessionOf[messages[a].to] = s}

(* check with consume: every pending row of every alias of the session.    *)
Check(s) ==
  /\ s \notin Managed
  /\ \E a \in Box(s) : InBox(a)
  /\ deliveries' = [a \in Ask |-> IF a \in Box(s) /\ InBox(a)
                                  THEN [deliveries[a] EXCEPT !.state = "consumed"]
                                  ELSE deliveries[a]]
  /\ UNCHANGED <<time, messages, awaiting, posts, withdrawn>>

(* deliver: a hook claims the queued rows of the session.                  *)
Deliver(s) ==
  /\ \E a \in Box(s) : deliveries[a].state = "queued"
  /\ deliveries' = [a \in Ask |-> IF a \in Box(s) /\ deliveries[a].state = "queued"
                                  THEN [deliveries[a] EXCEPT !.state = "delivered"]
                                  ELSE deliveries[a]]
  /\ UNCHANGED <<time, messages, awaiting, posts, withdrawn>>

Leasable(a) ==
  /\ deliveries[a].state \in {"queued", "delivered"}
  /\ deliveries[a].leaseUntil # None => deliveries[a].leaseUntil <= now

(* lease: a host reserves what nobody else has reserved.                   *)
Lease(s) ==
  /\ \E a \in Box(s) : Leasable(a)
  /\ deliveries' = [a \in Ask |-> IF a \in Box(s) /\ Leasable(a)
                                  THEN [state |-> "delivered", leaseUntil |-> now + LeaseFor]
                                  ELSE deliveries[a]]
  /\ UNCHANGED <<time, messages, awaiting, posts, withdrawn>>

(* An acknowledgement that checks the lease but not the state. *)
AckWhateverState(a) ==
  /\ deliveries[a].leaseUntil # None
  /\ deliveries' = [deliveries EXCEPT ![a] = [state |-> "persisted", leaseUntil |-> None]]
  /\ UNCHANGED <<time, messages, awaiting, posts, withdrawn>>

(* ack_delivery by the holder of the row's current lease, expired or not;  *)
(* an ack under an older lease matches no row.                             *)
Ack(a) ==
  /\ deliveries[a].leaseUntil # None
  /\ deliveries[a].state \in {"queued", "delivered"}
  /\ deliveries' = [deliveries EXCEPT ![a] = [state |-> "persisted", leaseUntil |-> None]]
  /\ UNCHANGED <<time, messages, awaiting, posts, withdrawn>>

(* A copy that can be snoozed again and again. *)
SnoozableAgain(a) == deliveries[a].state \in {"queued", "delivered", "persisted", "surfaced"}

(* markSurfaced refuses every other state, "surfaced" among them.          *)
Snoozable(a) == deliveries[a].state \in {"queued", "delivered", "persisted"}

Snooze(a) ==
  /\ Stored(a)
  /\ Snoozable(a)
  /\ deliveries' = [deliveries EXCEPT ![a] = [state |-> "surfaced", leaseUntil |-> None]]
  /\ awaiting' = [awaiting EXCEPT ![a] = DeferNudge(@)]
  /\ UNCHANGED <<time, messages, posts, withdrawn>>

(* setConsent overwrites whatever state the row is in.                     *)
Accept(a) ==
  /\ Stored(a)
  /\ deliveries' = [deliveries EXCEPT ![a].state = "accepted"]
  /\ UNCHANGED <<time, messages, awaiting, posts, withdrawn>>

Decline(a) ==
  /\ Stored(a)
  /\ deliveries' = [deliveries EXCEPT ![a].state = "declined"]
  /\ awaiting' = [awaiting EXCEPT ![a] = CloseAwaiting(@, "responded")]
  /\ posts' = IF IsOpen(a) THEN PlusPost(a, "declined") ELSE posts
  /\ UNCHANGED <<time, messages, withdrawn>>

(* reply is open to every alias.  A live answer consumes the ask's row     *)
(* when the replier's session is its recipient.                            *)
Reply(from, a, terminal) ==
  /\ Stored(a)
  /\ awaiting[a].status # "cancelled"
  /\ posts[a][IF terminal THEN "answer" ELSE "partial"] < MaxAnswers
  /\ posts' = PlusPost(a, IF terminal THEN "answer" ELSE "partial")
  /\ awaiting' = [awaiting EXCEPT ![a] =
                    IF terminal THEN CloseAwaiting(@, "responded") ELSE DeferNudge(@)]
  /\ deliveries' = IF SameSession(from, messages[a].to)
                   THEN [deliveries EXCEPT ![a].state = "consumed"]
                   ELSE deliveries
  /\ UNCHANGED <<time, messages, withdrawn>>

(* The refusal of a reply to a cancelled ask still consumes the row of the *)
(* addressed alias, but not that of a sibling alias.                       *)
RefuseReply(from, a) ==
  /\ Stored(a)
  /\ awaiting[a].status = "cancelled"
  /\ from = messages[a].to
  /\ deliveries' = [deliveries EXCEPT ![a].state = "consumed"]
  /\ UNCHANGED <<time, messages, awaiting, posts, withdrawn>>

-----------------------------------------------------------------------------
(* Housekeeping: tickSweeper, then sweepReplyDeadlines.  Each ask is swept *)
(* on its own, so one sweep is a map over the asks; the order of the jobs  *)
(* shows in their conditions.                                              *)

(* A tombstone that comes one instant early, and one that overlooks the    *)
(* copies a snooze left behind.                                            *)
TombstonedEarly(a) == Stored(a) /\ InBox(a) /\ messages[a].ts + Tombstone <= now

TombstonedUnsnoozed(a) ==
  /\ Stored(a)
  /\ deliveries[a].state \in {"queued", "delivered"}
  /\ messages[a].ts + Tombstone < now

Tombstoned(a) == Stored(a) /\ InBox(a) /\ messages[a].ts + Tombstone < now

(* A purge that looks at the copy only, not at the awaiting row. *)
PurgeDueOnCopy(a) ==
  /\ Stored(a)
  /\ messages[a].ts + Retention < now
  /\ ~InBox(a) \/ Tombstoned(a)

PurgeDue(a) ==
  /\ Stored(a)
  /\ messages[a].ts + Retention < now
  /\ ~InBox(a) \/ Tombstoned(a)
  /\ ~IsOpen(a)

(* awaitingPastTtl without "closed=0". *)
ParkDueThoughClosed(a) == awaiting[a].expiresAt # None /\ awaiting[a].expiresAt <= now

ParkDue(a) == IsOpen(a) /\ awaiting[a].expiresAt # None /\ awaiting[a].expiresAt <= now

Chased(a) == IsOpen(a) /\ ~ParkDue(a) /\ awaiting[a].replyBy # None

(* The sender's deadline counted on the recipient's clock, and a last call *)
(* made only while the copy is still in the recipient's box.               *)
LastCallDueOnNudgeClock(a) ==
  /\ Chased(a)
  /\ awaiting[a].nudgeFrom + awaiting[a].replyBy + FinalGrace <= now
  /\ awaiting[a].stage < 2

LastCallDueIfInBox(a) ==
  /\ Chased(a)
  /\ InBox(a)
  /\ messages[a].ts + awaiting[a].replyBy + FinalGrace <= now
  /\ awaiting[a].stage < 2

LastCallDue(a) ==
  /\ Chased(a)
  /\ messages[a].ts + awaiting[a].replyBy + FinalGrace <= now
  /\ awaiting[a].stage < 2

NudgeDue(a) ==
  /\ Chased(a) /\ ~LastCallDue(a)
  /\ awaiting[a].nudgeFrom + awaiting[a].replyBy <= now
  /\ awaiting[a].stage < 1

(* A purge that forgets the delivery row. *)
SweptDeliveryLeftBehind(a) ==
  IF Tombstoned(a) THEN [deliveries[a] EXCEPT !.state = "consumed"] ELSE deliveries[a]

SweptDelivery(a) ==
  IF PurgeDue(a) THEN NoDelivery
  ELSE IF Tombstoned(a) THEN [deliveries[a] EXCEPT !.state = "consumed"]
  ELSE deliveries[a]

(* A stage that is counted up instead of set. *)
SweptAwaitingCounted(a) ==
  IF PurgeDue(a) THEN NoAwaiting
  ELSE IF ParkDue(a) THEN CloseAwaiting(awaiting[a], "parked")
  ELSE IF LastCallDue(a) THEN [CloseAwaiting(awaiting[a], "parked") EXCEPT !.stage = @ + 2]
  ELSE IF NudgeDue(a) THEN [awaiting[a] EXCEPT !.stage = 1]
  ELSE awaiting[a]

SweptAwaiting(a) ==
  IF PurgeDue(a) THEN NoAwaiting
  ELSE IF ParkDue(a) THEN CloseAwaiting(awaiting[a], "parked")
  ELSE IF LastCallDue(a) THEN [CloseAwaiting(awaiting[a], "parked") EXCEPT !.stage = 2]
  ELSE IF NudgeDue(a) THEN [awaiting[a] EXCEPT !.stage = 1]
  ELSE awaiting[a]

(* The sorts of notice this sweep appends about an ask. *)
Notices(a) ==
  IF ParkDue(a) THEN {"parked"}
  ELSE IF LastCallDue(a) THEN {"lastCall", "noReply"}
  ELSE IF NudgeDue(a) THEN {"nudge"}
  ELSE {}

Sweep ==
  /\ messages' = [a \in Ask |-> IF PurgeDue(a) THEN Purged ELSE messages[a]]
  /\ deliveries' = [a \in Ask |-> SweptDelivery(a)]
  /\ awaiting' = [a \in Ask |-> SweptAwaiting(a)]
  /\ posts' = [a \in Ask |-> [p \in Post |->
                 IF p \in Notices(a) THEN posts[a][p] + 1 ELSE posts[a][p]]]
  /\ lastSweep' = now
  /\ UNCHANGED <<now, withdrawn>>

Tick ==
  /\ now < MaxClock
  /\ now' = now + 1
  /\ UNCHANGED <<lastSweep, messages, deliveries, awaiting, posts, withdrawn>>

-----------------------------------------------------------------------------
Sender == \E a \in Ask :
  \/ \E from, to \in Alias, replyBy \in ReplyBys, ttl \in Ttls :
       Send(a, from, to, replyBy, ttl)
  \/ Cancel(a)

Recipient ==
  \/ \E x \in Alias : Check(SessionOf[x]) \/ Deliver(SessionOf[x]) \/ Lease(SessionOf[x])
  \/ \E a \in Ask : Ack(a) \/ Snooze(a) \/ Accept(a) \/ Decline(a)

Replier == \E from \in Alias, a \in Ask :
  \/ \E terminal \in BOOLEAN : Reply(from, a, terminal)
  \/ RefuseReply(from, a)

Next == Sender \/ Recipient \/ Replier \/ Sweep \/ Tick

Spec == Init /\ [][Next]_vars

(* The sweep timer and the clock always run again; nobody is ever obliged  *)
(* to answer, read or cancel.                                              *)
FairSpec == Spec /\ WF_vars(Sweep) /\ WF_vars(Tick)

-----------------------------------------------------------------------------
(* PROPERTIES                                                              *)

(* The sender's deadline is the sender's alone: no snooze, partial, lease  *)
(* or accept lets an ask survive a sweep that ran at or after              *)
(* sent + reply-by + grace (sweepReplyDeadlines, stage 2), nor one with a  *)
(* TTL a sweep that ran at or after its expiry (tickSweeper).              *)
Unreleased(a) ==
  /\ awaiting[a].replyBy # None =>
       lastSweep < messages[a].ts + awaiting[a].replyBy + FinalGrace
  /\ awaiting[a].expiresAt # None => lastSweep < awaiting[a].expiresAt

ReleasedOnTime == \A a \in Ask : IsOpen(a) => Unreleased(a)

(* What the sender has been sent agrees with how the ask stands: nothing   *)
(* final while it is open, an answer or a refusal once it is "responded",  *)
(* exactly one release notice once it is "parked" (the TTL notice and the  *)
(* NO REPLY YET notice exclude each other), and neither answer nor release *)
(* for an ask cancelled while it was open.                                 *)
Final(a)    == posts[a]["answer"] + posts[a]["declined"]
Releases(a) == posts[a]["parked"] + posts[a]["noReply"]

PostsMatch(a) ==
  /\ awaiting[a].status = "open" => Final(a) = 0 /\ Releases(a) = 0
  /\ awaiting[a].status = "responded" => Final(a) > 0 /\ Releases(a) = 0
  /\ awaiting[a].status = "parked" => Releases(a) = 1
  /\ awaiting[a].status = "cancelled" => Final(a) = 0 /\ Releases(a) = 0

ClosureMatchesPosts == \A a \in Ask : PostsMatch(a)

(* A recipient is nudged once, and once more for each time it pushed its   *)
(* own clock out: by a partial answer, or by the one snooze a copy allows. *)
NudgesAreEarned ==
  \A a \in Ask : posts[a]["nudge"] <= posts[a]["partial"] + 2

(* The inductive invariant behind the three: the tables agree on which     *)
(* asks exist, an open ask has not had its last call, a cancelled ask's    *)
(* copy is settled, and a nudge still to come (stage 0) or a snooze still  *)
(* to come (a snoozable copy) is paid for.                                 *)
RowsAgree(a) ==
  /\ awaiting[a].status # "none" <=> Stored(a)
  /\ deliveries[a].state # "none" <=> Stored(a)
  /\ messages[a] = Unsent => \A p \in Post : posts[a][p] = 0
  /\ IsOpen(a) => awaiting[a].stage < 2
  /\ awaiting[a].status = "cancelled" => deliveries[a].state \in Settled

NudgeBudget(a) ==
  IF Stored(a)
  THEN posts[a]["nudge"] + (IF awaiting[a].stage = 0 THEN 1 ELSE 0)
         + (IF Snoozable(a) THEN 1 ELSE 0) <= posts[a]["partial"] + 2
  ELSE posts[a]["nudge"] <= posts[a]["partial"] + 2

AskOK(a) ==
  RowsAgree(a) /\ (IsOpen(a) => Unreleased(a)) /\ PostsMatch(a) /\ NudgeBudget(a)

LedgerInv ==
  /\ TypeOK
  /\ lastSweep <= now
  /\ \A a \in Ask : AskOK(a)

(* A closed ask is left alone: its reason never changes, it is never       *)
(* chased or released again, and one that was cancelled while open gets no *)
(* answer at all.  Only the purge takes the row away.                      *)
ClosedIsFinal ==
  [][\A a \in Ask : Stored(a) /\ ~IsOpen(a) =>
       /\ awaiting'[a].status \in {awaiting[a].status, "none"}
       /\ \A p \in {"nudge", "lastCall", "noReply", "parked"} : posts'[a][p] = posts[a][p]
       /\ awaiting[a].status = "cancelled" => posts'[a] = posts[a]]_vars

(* A settled copy never comes back into the inbox or the host's queue: no  *)
(* snooze, lease, late ack or consent resurrects it.                       *)
SettledStaysSettled ==
  [][\A a \in Ask : deliveries[a].state \in Settled =>
       deliveries'[a].state \in Settled \union {"none"}]_vars

(* What a peek of the inbox shows (recoverable). *)
Owed(a) == InBox(a) \/ (deliveries[a].state = "persisted" /\ IsOpen(a))

(* An ask that stays open leaves its recipient's sight only because that   *)
(* recipient's session read it off, took it on or answered in part, or     *)
(* because it outlived the tombstone window.                               *)
OnlyRecipientOrAgeHides ==
  [][\A a \in Ask : IsOpen(a) /\ Owed(a) /\ IsOpen(a)' /\ ~Owed(a)' =>
       \/ messages[a].ts + Tombstone < now
       \/ Check(SessionOf[messages[a].to])
       \/ Accept(a)
       \/ \E from \in Alias : SameSession(from, messages[a].to) /\ Reply(from, a, FALSE)]_vars

(* The sender of an ask with a deadline is not left waiting forever.       *)
ChasedAskCloses ==
  \A a \in Ask :
    (IsOpen(a) /\ (awaiting[a].replyBy # None \/ awaiting[a].expiresAt # None)) ~> ~IsOpen(a)

(* The log does not grow without bound: an ask that has closed is purged   *)
(* in the end, whatever state its copy was left in.                        *)
ClosedAskIsPurged ==
  \A a \in Ask : (Stored(a) /\ ~IsOpen(a)) ~> (messages[a] = Purged)

-----------------------------------------------------------------------------
(* The promise to the sender (AskContract) and how the tables keep it.     *)

StandingOf(a) == CASE messages[a] = Unsent -> "unsent"
                   [] messages[a] = Purged -> "forgotten"
                   [] OTHER -> awaiting[a].status

HeardOf(a) == posts[a]["answer"] + posts[a]["partial"] + posts[a]["declined"]

Contract == INSTANCE AskContract WITH
  standing <- [a \in Ask |-> StandingOf(a)],
  heard <- [a \in Ask |-> HeardOf(a)]

(* Every step of the broker keeps the contract with the sender: a standing *)
(* changes only along the contract's edges, and what is sent as an answer  *)
(* is sent while the contract allows one.                                  *)
KeepsContract == Contract!Spec

-----------------------------------------------------------------------------
(* What the repository says and the code does not do.                      *)

(* "Abandon a query/request you sent (by corrId); the recipient is told,   *)
(* and a later reply to it is refused": once a cancel has reported         *)
(* success, no answer to that ask is delivered to its sender.              *)
CancelRefusesLaterReplies ==
  [][\A a \in withdrawn : \A p \in {"answer", "partial"} : posts'[a][p] = posts[a][p]]_vars

(* "A recipient who SAW the ask is told it was withdrawn": when a cancel   *)
(* closes an ask whose recipient has accepted it or answered in part, the  *)
(* recipient is sent the CANCELLED notice.                                 *)
CancelTellsWhoSaw ==
  [][\A a \in Ask :
       /\ IsOpen(a) /\ awaiting'[a].status = "cancelled"
       /\ deliveries[a].state = "accepted" \/ posts[a]["partial"] > 0
       => posts'[a]["cancelled"] > posts[a]["cancelled"]]_vars
=============================================================================
