-------------------------- MODULE AskLedgerProofs --------------------------
(* Proofs about AskLedger for any set of asks, aliases and sessions and    *)
(* any deadlines.                                                          *)
EXTENDS AskLedger, TLAPS

USE DEF State, Pending, Settled, Status, Post

(* The sentinels of the tables have the types of the rows they stand for.  *)
LEMMA RowTypes ==
  /\ NoDelivery \in Delivery
  /\ NoAwaiting \in Awaiting
BY DEF NoDelivery, NoAwaiting, Delivery, Awaiting

(* The updates an awaiting row goes through yield an awaiting row. *)
LEMMA StatusSet ==
  ASSUME NEW aw \in Awaiting, NEW r \in Status
  PROVE  [aw EXCEPT !.status = r] \in Awaiting
BY DEF Awaiting

(* Setting the nudge stage yields an awaiting row. *)
LEMMA StageSet ==
  ASSUME NEW aw \in Awaiting, NEW n \in 0..2
  PROVE  [aw EXCEPT !.stage = n] \in Awaiting
BY DEF Awaiting

(* closeAwaiting yields an awaiting row, whether it applies or not. *)
LEMMA AwaitingClosed ==
  ASSUME NEW aw \in Awaiting, NEW reason \in Status
  PROVE  CloseAwaiting(aw, reason) \in Awaiting
BY StatusSet DEF CloseAwaiting

(* So does deferNudge: the clock and the stage are reset together. *)
LEMMA NudgeDeferred ==
  ASSUME NEW aw \in Awaiting, now \in Nat
  PROVE  DeferNudge(aw) \in Awaiting
<1>1. [aw EXCEPT !.nudgeFrom = now] \in Awaiting
  BY DEF Awaiting
<1>2. 0 \in 0..2
  OBVIOUS
<1>3. [[aw EXCEPT !.nudgeFrom = now] EXCEPT !.stage = 0] \in Awaiting
  BY <1>1, <1>2, StageSet, Zenon
<1>4. QED
  BY <1>3 DEF DeferNudge, Awaiting

(* One more message of one sort about one ask. *)
LEMMA PostsGrow ==
  ASSUME posts \in [Ask -> [Post -> Nat]], NEW a \in Ask, NEW p \in Post
  PROVE  PlusPost(a, p) \in [Ask -> [Post -> Nat]]
BY DEF PlusPost

(* A sweep turns typed rows into typed rows, in each of its outcomes. *)
LEMMA SweptTypes ==
  ASSUME TypeOK, NEW a \in Ask
  PROVE  SweptDelivery(a) \in Delivery /\ SweptAwaiting(a) \in Awaiting
<1>1. SweptDelivery(a) \in Delivery
  BY RowTypes DEF SweptDelivery, TypeOK, Delivery
<1>2. CASE PurgeDue(a)
  BY <1>1, <1>2, RowTypes DEF SweptAwaiting
<1>3. CASE ~PurgeDue(a)
  <2>1. awaiting[a] \in Awaiting /\ CloseAwaiting(awaiting[a], "parked") \in Awaiting
    BY AwaitingClosed DEF TypeOK
  <2>2. 1 \in 0..2 /\ 2 \in 0..2
    OBVIOUS
  <2>3. [CloseAwaiting(awaiting[a], "parked") EXCEPT !.stage = 2] \in Awaiting
    BY <2>1, <2>2, StageSet, Zenon
  <2>4. [awaiting[a] EXCEPT !.stage = 1] \in Awaiting
    BY <2>1, <2>2, StageSet, Zenon
  <2>5. CASE ParkDue(a)
    BY <1>1, <1>3, <2>1, <2>5 DEF SweptAwaiting
  <2>6. CASE ~ParkDue(a) /\ LastCallDue(a)
    BY <1>1, <1>3, <2>3, <2>6 DEF SweptAwaiting
  <2>7. CASE ~ParkDue(a) /\ ~LastCallDue(a)
    BY <1>1, <1>3, <2>1, <2>4, <2>7 DEF SweptAwaiting
  <2>8. QED
    BY <2>5, <2>6, <2>7
<1>4. QED
  BY <1>1, <1>2, <1>3

(* The empty tables are typed. *)
LEMMA InitTyped == Init => TypeOK
BY RowTypes DEF Init, TypeOK, Message

(* Each handler, the sweep and the clock keep the types. *)
LEMMA NextTyped == LedgerAssumption /\ TypeOK /\ [Next]_vars => TypeOK'
<1> SUFFICES ASSUME LedgerAssumption, TypeOK, [Next]_vars PROVE TypeOK'
  OBVIOUS
<1> USE DEF TypeOK
<1>1. ASSUME NEW a \in Ask, NEW from \in Alias, NEW to \in Alias,
             NEW replyBy \in ReplyBys, NEW ttl \in Ttls, Send(a, from, to, replyBy, ttl)
      PROVE  TypeOK'
  <2>1. [from |-> from, to |-> to, ts |-> now] \in Message
    BY DEF Message
  <2>2. [status |-> "open", expiresAt |-> IF ttl = None THEN None ELSE now + ttl,
         replyBy |-> replyBy, nudgeFrom |-> now, stage |-> 0] \in Awaiting
    BY DEF Awaiting, LedgerAssumption
  <2>3. QED
    BY <1>1, <2>1, <2>2 DEF Send, Delivery, time
<1>2. ASSUME NEW a \in Ask, Cancel(a) PROVE TypeOK'
  BY <1>2, AwaitingClosed, PostsGrow DEF Cancel, Delivery, time
<1>3. ASSUME NEW s, Check(s) \/ Deliver(s) PROVE TypeOK'
  BY <1>3 DEF Check, Deliver, Delivery, time
<1>4. ASSUME NEW s, Lease(s) PROVE TypeOK'
  BY <1>4 DEF Lease, Delivery, time, LedgerAssumption
<1>5. ASSUME NEW a \in Ask, Ack(a) \/ Accept(a) PROVE TypeOK'
  BY <1>5 DEF Ack, Accept, Delivery, time
<1>6. ASSUME NEW a \in Ask, Snooze(a) PROVE TypeOK'
  BY <1>6, NudgeDeferred DEF Snooze, Delivery, time
<1>7. ASSUME NEW a \in Ask, Decline(a) PROVE TypeOK'
  BY <1>7, AwaitingClosed, PostsGrow DEF Decline, Delivery, time
<1>8. ASSUME NEW from \in Alias, NEW a \in Ask, NEW terminal \in BOOLEAN,
             Reply(from, a, terminal)
      PROVE  TypeOK'
  BY <1>8, AwaitingClosed, NudgeDeferred, PostsGrow DEF Reply, Delivery, time
<1>9. ASSUME NEW from \in Alias, NEW a \in Ask, RefuseReply(from, a) PROVE TypeOK'
  BY <1>9 DEF RefuseReply, Delivery, time
<1>10. CASE Sweep
  BY <1>10, SweptTypes DEF Sweep
<1>11. CASE Tick
  BY <1>11 DEF Tick
<1>12. CASE UNCHANGED vars
  BY <1>12 DEF vars
<1>13. QED
  BY <1>1, <1>2, <1>3, <1>4, <1>5, <1>6, <1>7, <1>8, <1>9, <1>10, <1>11, <1>12
  DEF Next, Sender, Recipient, Replier

(* Every table keeps rows of its own type, whatever the asks, deadlines    *)
(* and windows.                                                            *)
THEOREM TypeCorrect == Spec => []TypeOK
<1>1. LedgerAssumption
  BY LedgerAssumption
<1>2. QED
  BY <1>1, InitTyped, NextTyped, PTL DEF Spec

-----------------------------------------------------------------------------
(* THE LEDGER INVARIANT                                                    *)

(* An ask none of whose rows a step writes keeps its part of the invariant *)
(* while the sweep clock stands still.                                     *)
LEMMA Untouched ==
  ASSUME NEW b \in Ask, AskOK(b), lastSweep' = lastSweep,
         messages'[b] = messages[b], deliveries'[b] = deliveries[b],
         awaiting'[b] = awaiting[b], posts'[b] = posts[b]
  PROVE  AskOK(b)'
BY DEF AskOK, RowsAgree, Unreleased, PostsMatch, NudgeBudget, Final, Releases,
       Stored, IsOpen, Snoozable

(* The invariant holds of the empty tables. *)
LEMMA InitInv == Init => LedgerInv
BY InitTyped DEF Init, LedgerInv, AskOK, RowsAgree, Unreleased, PostsMatch, NudgeBudget,
   Final, Releases, Stored, IsOpen, Snoozable, NoAwaiting, NoDelivery

(* A send creates its three rows together, with nothing posted yet.       *)
LEMMA SendInv ==
  ASSUME LedgerAssumption, LedgerInv, NEW a \in Ask, NEW from \in Alias, NEW to \in Alias,
         NEW replyBy \in ReplyBys, NEW ttl \in Ttls, Send(a, from, to, replyBy, ttl)
  PROVE  AskOK(a)'
<1>1. messages'[a] = [from |-> from, to |-> to, ts |-> now]
      /\ deliveries'[a].state = "queued"
      /\ awaiting'[a] = [status |-> "open",
                         expiresAt |-> IF ttl = None THEN None ELSE now + ttl,
                         replyBy |-> replyBy, nudgeFrom |-> now, stage |-> 0]
      /\ posts' = posts /\ lastSweep' = lastSweep /\ now' = now
  BY DEF Send, time, LedgerInv, TypeOK, Delivery
<1>2. messages'[a] \notin {Unsent, Purged}
  BY <1>1, SentinelAssumption DEF Message, LedgerInv, TypeOK
<1>3. \A p \in Post : posts[a][p] = 0
  BY DEF Send, LedgerInv, AskOK, RowsAgree
<1>4. Unreleased(a)'
  <2>1. now \in Nat /\ lastSweep \in Nat /\ lastSweep <= now /\ FinalGrace \in Nat /\ FinalGrace > 0
    BY DEF LedgerInv, TypeOK, LedgerAssumption
  <2>2. replyBy # None => replyBy \in Nat /\ lastSweep < now + replyBy + FinalGrace
    BY <2>1 DEF LedgerAssumption
  <2>3. ttl # None => ttl \in Nat /\ lastSweep < now + ttl
    BY <2>1 DEF LedgerAssumption
  <2>4. QED
    BY <1>1, <2>2, <2>3 DEF Unreleased
<1>5. RowsAgree(a)'
  BY <1>1, <1>2 DEF RowsAgree, Stored, IsOpen
<1>6. PostsMatch(a)' /\ NudgeBudget(a)'
  BY <1>1, <1>2, <1>3 DEF PostsMatch, NudgeBudget, Final, Releases, Stored, Snoozable
<1>7. QED
  BY <1>4, <1>5, <1>6 DEF AskOK

(* A cancel of an open ask settles its copy in the same step; on any other *)
(* ask it changes no row.                                                  *)
LEMMA CancelInv ==
  ASSUME LedgerInv, NEW a \in Ask, Cancel(a)
  PROVE  AskOK(a)'
BY DEF Cancel, Recalled, CloseAwaiting, PlusPost, time, LedgerInv, TypeOK, Delivery, Awaiting,
   AskOK, RowsAgree, Unreleased, PostsMatch, NudgeBudget, Final, Releases, Stored, IsOpen, Snoozable

(* Claiming, reserving, acknowledging and reading move a copy along but    *)
(* never make a copy snoozable that was not.                               *)
LEMMA BoxInv ==
  ASSUME LedgerInv, NEW b \in Ask, NEW s,
         Check(s) \/ Deliver(s) \/ Lease(s) \/ \E a \in Ask : Ack(a) \/ Accept(a)
  PROVE  AskOK(b)'
<1>1. /\ lastSweep' = lastSweep /\ messages' = messages /\ awaiting' = awaiting /\ posts' = posts
      /\ \/ deliveries'[b].state = deliveries[b].state
         \/ Stored(b) /\ deliveries'[b].state \in Settled
         \/ Stored(b) /\ deliveries[b].state \in {"queued", "delivered"}
              /\ deliveries'[b].state \in {"delivered", "persisted"}
              /\ awaiting[b].status # "cancelled"
  BY DEF Check, Deliver, Lease, Leasable, Ack, Accept, Box, InBox, time,
     LedgerInv, TypeOK, Delivery, AskOK, RowsAgree
<1>2. QED
  BY <1>1 DEF LedgerInv, TypeOK, AskOK, RowsAgree, Unreleased, PostsMatch, NudgeBudget,
     Final, Releases, Stored, IsOpen, Snoozable, Awaiting

(* A snooze spends the one move that leaves a copy snoozable, and pays for *)
(* the nudge it earns.                                                     *)
LEMMA SnoozeInv ==
  ASSUME LedgerInv, NEW a \in Ask, Snooze(a)
  PROVE  AskOK(a)'
BY DEF Snooze, DeferNudge, time, LedgerInv, TypeOK, Delivery, Awaiting,
   AskOK, RowsAgree, Unreleased, PostsMatch, NudgeBudget, Final, Releases, Stored, IsOpen, Snoozable

(* A decline posts a refusal exactly when it closes the ask. *)
LEMMA DeclineInv ==
  ASSUME LedgerInv, NEW a \in Ask, Decline(a)
  PROVE  AskOK(a)'
<1>1. CASE IsOpen(a)
  BY <1>1 DEF Decline, CloseAwaiting, PlusPost, time, LedgerInv, TypeOK, Delivery, Awaiting,
     AskOK, RowsAgree, Unreleased, PostsMatch, NudgeBudget, Final, Releases, Stored, IsOpen, Snoozable
<1>2. CASE ~IsOpen(a)
  BY <1>2 DEF Decline, CloseAwaiting, PlusPost, time, LedgerInv, TypeOK, Delivery, Awaiting,
     AskOK, RowsAgree, Unreleased, PostsMatch, NudgeBudget, Final, Releases, Stored, IsOpen, Snoozable
<1>3. QED
  BY <1>1, <1>2

(* An answer closes an open ask as it is posted; a partial one pays for    *)
(* the nudge it earns.                                                     *)
LEMMA ReplyInv ==
  ASSUME LedgerInv, NEW from \in Alias, NEW a \in Ask, NEW terminal \in BOOLEAN,
         Reply(from, a, terminal)
  PROVE  AskOK(a)'
<1>1. CASE terminal
  BY <1>1 DEF Reply, CloseAwaiting, PlusPost, time, LedgerInv, TypeOK, Delivery, Awaiting,
     AskOK, RowsAgree, Unreleased, PostsMatch, NudgeBudget, Final, Releases, Stored, IsOpen, Snoozable
<1>2. CASE ~terminal
  BY <1>2 DEF Reply, DeferNudge, PlusPost, time, LedgerInv, TypeOK, Delivery, Awaiting,
     AskOK, RowsAgree, Unreleased, PostsMatch, NudgeBudget, Final, Releases, Stored, IsOpen, Snoozable
<1>3. QED
  BY <1>1, <1>2

(* A refused reply only settles a copy that is settled already. *)
LEMMA RefuseReplyInv ==
  ASSUME LedgerInv, NEW from \in Alias, NEW a \in Ask, RefuseReply(from, a)
  PROVE  AskOK(a)'
BY DEF RefuseReply, time, LedgerInv, TypeOK, Delivery, Awaiting,
   AskOK, RowsAgree, Unreleased, PostsMatch, NudgeBudget, Final, Releases, Stored, IsOpen, Snoozable

(* A sweep purges, parks, makes the last call, nudges, or leaves the       *)
(* awaiting row alone; each outcome keeps the invariant, and an ask that   *)
(* stays open is not due at the time of this sweep.                        *)
LEMMA SweepInv ==
  ASSUME LedgerAssumption, LedgerInv, NEW a \in Ask, Sweep
  PROVE  AskOK(a)'
<1>1. /\ messages'[a] = IF PurgeDue(a) THEN Purged ELSE messages[a]
      /\ deliveries'[a] = SweptDelivery(a)
      /\ awaiting'[a] = SweptAwaiting(a)
      /\ \A p \in Post : posts'[a][p] = IF p \in Notices(a) THEN posts[a][p] + 1 ELSE posts[a][p]
      /\ lastSweep' = now
  BY DEF Sweep
<1>2. /\ awaiting[a] \in Awaiting /\ deliveries[a] \in Delivery
      /\ \A p \in Post : posts[a][p] \in Nat
      /\ posts[a]["answer"] \in Nat /\ posts[a]["declined"] \in Nat
      /\ posts[a]["parked"] \in Nat /\ posts[a]["noReply"] \in Nat
      /\ posts[a]["nudge"] \in Nat /\ posts[a]["partial"] \in Nat
      /\ AskOK(a) /\ now \in Nat
  BY DEF LedgerInv, TypeOK
<1>3. CASE PurgeDue(a)
  <2>1. ~IsOpen(a) /\ Stored(a) /\ Notices(a) = {}
    BY <1>3 DEF PurgeDue, Notices, ParkDue, LastCallDue, NudgeDue, Chased
  <2>2. messages'[a] = Purged /\ deliveries'[a] = NoDelivery /\ awaiting'[a] = NoAwaiting
    BY <1>1, <1>3 DEF SweptDelivery, SweptAwaiting
  <2>3. \A p \in Post : posts'[a][p] = posts[a][p]
    BY <1>1, <2>1
  <2>4. RowsAgree(a)' /\ ~IsOpen(a)' /\ PostsMatch(a)'
    BY <2>2, SentinelAssumption DEF NoDelivery, NoAwaiting, RowsAgree, PostsMatch, Stored, IsOpen
  <2>5. NudgeBudget(a)'
    BY <1>2, <2>1, <2>2, <2>3 DEF AskOK, NudgeBudget, Stored
  <2>6. QED
    BY <2>4, <2>5 DEF AskOK
<1>4. CASE ~PurgeDue(a)
  <2>1. messages'[a] = messages[a]
    BY <1>1, <1>4
  <2>2. /\ deliveries'[a].state # "none" <=> deliveries[a].state # "none"
        /\ deliveries[a].state \in Settled => deliveries'[a].state \in Settled
        /\ deliveries'[a].state \in {"queued", "delivered", "persisted"}
             => deliveries[a].state \in {"queued", "delivered", "persisted"}
    BY <1>1, <1>2, <1>4 DEF SweptDelivery, Tombstoned, InBox, Delivery
  <2>3. CASE ParkDue(a)
    <3>1. awaiting'[a] = [awaiting[a] EXCEPT !.status = "parked"] /\ Notices(a) = {"parked"}
      BY <1>1, <1>4, <2>3 DEF SweptAwaiting, ParkDue, CloseAwaiting, IsOpen, Notices
    <3>2. posts'[a]["parked"] = posts[a]["parked"] + 1
          /\ \A p \in Post \ {"parked"} : posts'[a][p] = posts[a][p]
      BY <1>1, <3>1
    <3>3. IsOpen(a)
      BY <2>3 DEF ParkDue
    <3>4. awaiting'[a].status = "parked" /\ awaiting'[a].stage = awaiting[a].stage
      BY <1>2, <3>1 DEF Awaiting
    <3>5. RowsAgree(a)' /\ ~IsOpen(a)'
      BY <1>2, <2>1, <2>2, <3>3, <3>4 DEF AskOK, RowsAgree, Stored, IsOpen
    <3>6. PostsMatch(a)'
      BY <1>2, <3>2, <3>3, <3>4 DEF AskOK, PostsMatch, Releases, IsOpen
    <3>7. NudgeBudget(a)'
      BY <1>2, <2>1, <2>2, <3>2, <3>4 DEF AskOK, NudgeBudget, Stored, Snoozable
    <3>8. QED
      BY <3>5, <3>6, <3>7 DEF AskOK
  <2>4. CASE ~ParkDue(a) /\ LastCallDue(a)
    <3>1. IsOpen(a) /\ Notices(a) = {"lastCall", "noReply"}
          /\ awaiting'[a] = [[awaiting[a] EXCEPT !.status = "parked"] EXCEPT !.stage = 2]
      BY <1>1, <1>4, <2>4 DEF SweptAwaiting, LastCallDue, Chased, CloseAwaiting, IsOpen, Notices
    <3>2. posts'[a]["noReply"] = posts[a]["noReply"] + 1
          /\ \A p \in Post \ {"lastCall", "noReply"} : posts'[a][p] = posts[a][p]
      BY <1>1, <3>1
    <3>3. awaiting'[a].status = "parked" /\ awaiting'[a].stage = 2
      BY <1>2, <3>1 DEF Awaiting
    <3>4. RowsAgree(a)' /\ ~IsOpen(a)'
      BY <1>2, <2>1, <2>2, <3>1, <3>3 DEF AskOK, RowsAgree, Stored, IsOpen
    <3>5. PostsMatch(a)'
      BY <1>2, <3>1, <3>2, <3>3 DEF AskOK, PostsMatch, Releases, IsOpen
    <3>6. NudgeBudget(a)'
      BY <1>2, <2>1, <2>2, <3>2, <3>3 DEF AskOK, NudgeBudget, Stored, Snoozable
    <3>7. QED
      BY <3>4, <3>5, <3>6 DEF AskOK
  <2>5. CASE ~ParkDue(a) /\ ~LastCallDue(a)
    <3>1. IsOpen(a) => Unreleased(a)'
      BY <1>1, <1>2, <1>4, <2>1, <2>5
      DEF SweptAwaiting, ParkDue, LastCallDue, Chased, NudgeDue, AskOK, RowsAgree, Unreleased,
          Stored, IsOpen, LedgerAssumption, Awaiting, LedgerInv, TypeOK, Message
    <3>2. CASE NudgeDue(a)
      <4>1. IsOpen(a) /\ awaiting[a].stage = 0 /\ Notices(a) = {"nudge"}
            /\ awaiting'[a] = [awaiting[a] EXCEPT !.stage = 1]
        BY <1>1, <1>2, <1>4, <2>5, <3>2 DEF SweptAwaiting, NudgeDue, Chased, Notices, Awaiting
      <4>2. posts'[a]["nudge"] = posts[a]["nudge"] + 1
            /\ \A p \in Post \ {"nudge"} : posts'[a][p] = posts[a][p]
        BY <1>1, <4>1
      <4>3. awaiting'[a].status = awaiting[a].status /\ awaiting'[a].stage = 1
        BY <1>2, <4>1 DEF Awaiting
      <4>4. RowsAgree(a)' /\ (IsOpen(a)' => Unreleased(a)')
        BY <1>2, <2>1, <2>2, <3>1, <4>1, <4>3 DEF AskOK, RowsAgree, Stored, IsOpen
      <4>5. PostsMatch(a)'
        BY <1>2, <4>2, <4>3 DEF AskOK, PostsMatch, Final, Releases
      <4>6. NudgeBudget(a)'
        BY <1>2, <2>1, <2>2, <4>1, <4>2, <4>3 DEF AskOK, RowsAgree, NudgeBudget, Stored, Snoozable, IsOpen
      <4>7. QED
        BY <4>4, <4>5, <4>6 DEF AskOK
    <3>3. CASE ~NudgeDue(a)
      <4>1. awaiting'[a] = awaiting[a] /\ Notices(a) = {}
        BY <1>1, <1>4, <2>5, <3>3 DEF SweptAwaiting, Notices
      <4>2. \A p \in Post : posts'[a][p] = posts[a][p]
        BY <1>1, <4>1
      <4>3. RowsAgree(a)' /\ (IsOpen(a)' => Unreleased(a)')
        BY <1>2, <2>1, <2>2, <3>1, <4>1, <4>2 DEF AskOK, RowsAgree, Stored, IsOpen
      <4>4. PostsMatch(a)'
        BY <1>2, <4>1, <4>2 DEF AskOK, PostsMatch, Final, Releases
      <4>5. NudgeBudget(a)'
        BY <1>2, <2>1, <2>2, <4>1, <4>2 DEF AskOK, RowsAgree, NudgeBudget, Stored, Snoozable
      <4>6. QED
        BY <4>3, <4>4, <4>5 DEF AskOK
    <3>4. QED
      BY <3>2, <3>3
  <2>6. QED
    BY <2>3, <2>4, <2>5
<1>5. QED
  BY <1>3, <1>4

(* Every step keeps the invariant: one case per handler. *)
LEMMA NextInv == LedgerAssumption /\ LedgerInv /\ [Next]_vars => LedgerInv'
<1> SUFFICES ASSUME LedgerAssumption, LedgerInv, [Next]_vars PROVE LedgerInv'
  OBVIOUS
<1>1. TypeOK'
  BY NextTyped DEF LedgerInv
<1>2. lastSweep' <= now'
  BY DEF Next, Sender, Recipient, Replier, Send, Cancel, Check, Deliver, Lease, Ack, Snooze,
     Accept, Decline, Reply, RefuseReply, Sweep, Tick, time, vars, LedgerInv, TypeOK
<1>3. ASSUME NEW b \in Ask PROVE AskOK(b)'
  <2>1. AskOK(b)
    BY DEF LedgerInv
  <2>2. ASSUME NEW a \in Ask, a # b, lastSweep' = lastSweep,
               messages'[b] = messages[b], deliveries'[b] = deliveries[b],
               awaiting'[b] = awaiting[b], posts'[b] = posts[b]
        PROVE  AskOK(b)'
    BY <2>1, <2>2, Untouched
  <2>3. CASE Sender
    <3>1. ASSUME NEW a \in Ask, NEW from \in Alias, NEW to \in Alias,
                 NEW replyBy \in ReplyBys, NEW ttl \in Ttls, Send(a, from, to, replyBy, ttl)
          PROVE  AskOK(b)'
      <4>1. CASE a = b
        BY <3>1, <4>1, SendInv
      <4>2. CASE a # b
        BY <3>1, <4>2, <2>2 DEF Send, time, LedgerInv, TypeOK
      <4>3. QED
        BY <4>1, <4>2
    <3>2. ASSUME NEW a \in Ask, Cancel(a) PROVE AskOK(b)'
      <4>1. CASE a = b
        BY <3>2, <4>1, CancelInv
      <4>2. CASE a # b
        BY <3>2, <4>2, <2>2 DEF Cancel, PlusPost, time, LedgerInv, TypeOK
      <4>3. QED
        BY <4>1, <4>2
    <3>3. QED
      BY <2>3, <3>1, <3>2 DEF Sender
  <2>4. CASE Recipient
    <3>1. ASSUME NEW a \in Ask, Snooze(a) PROVE AskOK(b)'
      <4>1. CASE a = b
        BY <3>1, <4>1, SnoozeInv
      <4>2. CASE a # b
        BY <3>1, <4>2, <2>2 DEF Snooze, time, LedgerInv, TypeOK
      <4>3. QED
        BY <4>1, <4>2
    <3>2. ASSUME NEW a \in Ask, Decline(a) PROVE AskOK(b)'
      <4>1. CASE a = b
        BY <3>2, <4>1, DeclineInv
      <4>2. CASE a # b
        BY <3>2, <4>2, <2>2 DEF Decline, PlusPost, time, LedgerInv, TypeOK
      <4>3. QED
        BY <4>1, <4>2
    <3>3. QED
      BY <2>4, <3>1, <3>2, BoxInv DEF Recipient
  <2>5. CASE Replier
    <3>1. ASSUME NEW from \in Alias, NEW a \in Ask, NEW terminal \in BOOLEAN,
                 Reply(from, a, terminal)
          PROVE  AskOK(b)'
      <4>1. CASE a = b
        BY <3>1, <4>1, ReplyInv
      <4>2. CASE a # b
        BY <3>1, <4>2, <2>2 DEF Reply, PlusPost, time, LedgerInv, TypeOK
      <4>3. QED
        BY <4>1, <4>2
    <3>2. ASSUME NEW from \in Alias, NEW a \in Ask, RefuseReply(from, a) PROVE AskOK(b)'
      <4>1. CASE a = b
        BY <3>2, <4>1, RefuseReplyInv
      <4>2. CASE a # b
        BY <3>2, <4>2, <2>2 DEF RefuseReply, time, LedgerInv, TypeOK
      <4>3. QED
        BY <4>1, <4>2
    <3>3. QED
      BY <2>5, <3>1, <3>2 DEF Replier
  <2>6. CASE Sweep
    BY <2>6, SweepInv
  <2>7. CASE Tick \/ UNCHANGED vars
    BY <2>1, <2>7, Untouched DEF Tick, vars
  <2>8. QED
    BY <2>3, <2>4, <2>5, <2>6, <2>7 DEF Next
<1>4. QED
  BY <1>1, <1>2, <1>3 DEF LedgerInv

(* The three tables and the messages about an ask always agree.            *)
THEOREM LedgerCorrect == Spec => []LedgerInv
<1>1. LedgerAssumption
  BY LedgerAssumption
<1>2. QED
  BY <1>1, InitInv, NextInv, PTL DEF Spec

(* The sender's deadline holds whatever the recipient does: no ask is open *)
(* after a sweep that ran at or after sent + reply-by + grace.             *)
THEOREM ReleaseOnTime == Spec => []ReleasedOnTime
<1>1. LedgerInv => ReleasedOnTime
  BY DEF LedgerInv, AskOK, ReleasedOnTime
<1>2. QED
  BY <1>1, LedgerCorrect, PTL

(* How an ask stands always agrees with what its sender has been sent.     *)
THEOREM PostsMatchClosure == Spec => []ClosureMatchesPosts
<1>1. LedgerInv => ClosureMatchesPosts
  BY DEF LedgerInv, AskOK, ClosureMatchesPosts
<1>2. QED
  BY <1>1, LedgerCorrect, PTL

(* Nudges are bounded by what the recipient did itself, in any execution.  *)
THEOREM NudgesBounded == Spec => []NudgesAreEarned
<1>1. ASSUME LedgerInv PROVE NudgesAreEarned
  <2>1. ASSUME NEW a \in Ask PROVE posts[a]["nudge"] <= posts[a]["partial"] + 2
    <3>1. NudgeBudget(a) /\ posts[a]["nudge"] \in Nat /\ posts[a]["partial"] \in Nat
      BY <1>1 DEF LedgerInv, TypeOK, AskOK
    <3>2. QED
      BY <3>1 DEF NudgeBudget
  <2>2. QED
    BY <2>1 DEF NudgesAreEarned
<1>2. QED
  BY <1>1, LedgerCorrect, PTL

-----------------------------------------------------------------------------
(* WHAT A STEP MAY NEVER DO                                                *)

(* On a closed ask a sweep does nothing but purge it. *)
LEMMA SweepLeavesClosed ==
  ASSUME TypeOK, NEW a \in Ask, ~IsOpen(a), Sweep
  PROVE  /\ awaiting'[a] \in {awaiting[a], NoAwaiting}
         /\ posts'[a] = posts[a]
<1>1. ~ParkDue(a) /\ ~Chased(a)
  BY DEF ParkDue, Chased
<1>2. ~LastCallDue(a) /\ ~NudgeDue(a)
  BY <1>1 DEF LastCallDue, NudgeDue
<1>3. Notices(a) = {}
  BY <1>1, <1>2 DEF Notices
<1>4. SweptAwaiting(a) \in {awaiting[a], NoAwaiting}
  BY <1>1, <1>2 DEF SweptAwaiting
<1>5. awaiting'[a] = SweptAwaiting(a)
      /\ posts'[a] = [p \in Post |-> IF p \in Notices(a) THEN posts[a][p] + 1 ELSE posts[a][p]]
  BY DEF Sweep
<1>6. posts[a] = [p \in Post |-> posts[a][p]]
  BY DEF TypeOK
<1>7. QED
  BY <1>3, <1>4, <1>5, <1>6

(* A closed ask keeps its reason and is neither chased nor released again. *)
THEOREM ClosedForGood == Spec => ClosedIsFinal
<1>1. ASSUME TypeOK, Next, NEW a \in Ask, Stored(a), ~IsOpen(a)
      PROVE  /\ awaiting'[a].status \in {awaiting[a].status, "none"}
             /\ \A p \in {"nudge", "lastCall", "noReply", "parked"} : posts'[a][p] = posts[a][p]
             /\ awaiting[a].status = "cancelled" => posts'[a] = posts[a]
  <2>1. CASE UNCHANGED <<awaiting, posts>>
    BY <2>1
  <2>2. ASSUME NEW b \in Ask, b # a, NEW p \in Post, posts' = posts \/ posts' = PlusPost(b, p),
               awaiting'[a] = awaiting[a]
        PROVE  UNCHANGED <<awaiting[a], posts[a]>>
    <3>1. PlusPost(b, p)[a] = posts[a]
      BY <2>2 DEF PlusPost, TypeOK
    <3> QED
      BY <2>2, <3>1, Zenon
  <2>3. ASSUME NEW b \in Ask, NEW from \in Alias, NEW to \in Alias,
               NEW replyBy \in ReplyBys, NEW ttl \in Ttls, Send(b, from, to, replyBy, ttl)
        PROVE  UNCHANGED <<awaiting[a], posts[a]>>
    BY <1>1, <2>3 DEF Send, Stored, TypeOK
  <2>4. ASSUME NEW b \in Ask, Cancel(b) PROVE UNCHANGED <<awaiting[a], posts[a]>>
    <3>1. CASE b = a
      BY <1>1, <2>4, <3>1 DEF Cancel, Recalled, CloseAwaiting, IsOpen, TypeOK
    <3>2. CASE b # a
      BY <2>4, <3>2, <2>2 DEF Cancel, TypeOK
    <3> QED
      BY <3>1, <3>2
  <2>5. ASSUME NEW b \in Ask, Decline(b) PROVE UNCHANGED <<awaiting[a], posts[a]>>
    <3>1. CASE b = a
      BY <1>1, <2>5, <3>1 DEF Decline, CloseAwaiting, IsOpen, TypeOK
    <3>2. CASE b # a
      BY <2>5, <3>2, <2>2 DEF Decline, TypeOK
    <3> QED
      BY <3>1, <3>2
  <2>6. ASSUME NEW b \in Ask, Snooze(b)
        PROVE  awaiting'[a].status = awaiting[a].status /\ posts' = posts
    BY <1>1, <2>6 DEF Snooze, DeferNudge, TypeOK, Awaiting
  <2>7. ASSUME NEW b \in Ask, NEW from \in Alias, NEW terminal \in BOOLEAN,
               Reply(from, b, terminal)
        PROVE  /\ awaiting'[a].status = awaiting[a].status
               /\ \A p \in {"nudge", "lastCall", "noReply", "parked"} : posts'[a][p] = posts[a][p]
               /\ awaiting[a].status = "cancelled" => posts'[a] = posts[a]
    <3>1. CASE b = a
      BY <1>1, <2>7, <3>1 DEF Reply, CloseAwaiting, DeferNudge, PlusPost, IsOpen, TypeOK, Awaiting
    <3>2. CASE b # a
      BY <2>7, <3>2, <2>2 DEF Reply, TypeOK
    <3> QED
      BY <3>1, <3>2
  <2>8. CASE Sweep
    BY <1>1, <2>8, SweepLeavesClosed DEF NoAwaiting
  <2>9. CASE Tick
    BY <2>1, <2>9 DEF Tick
  <2>10. ASSUME NEW s, Check(s) \/ Deliver(s) \/ Lease(s) PROVE UNCHANGED <<awaiting, posts>>
    BY <2>10 DEF Check, Deliver, Lease
  <2>11. ASSUME NEW b \in Ask, Ack(b) \/ Accept(b) \/ (\E from \in Alias : RefuseReply(from, b))
         PROVE  UNCHANGED <<awaiting, posts>>
    BY <2>11 DEF Ack, Accept, RefuseReply
  <2>12. CASE Sender
    BY <2>3, <2>4, <2>12 DEF Sender
  <2>13. CASE Recipient
    BY <2>1, <2>5, <2>6, <2>10, <2>11, <2>13 DEF Recipient
  <2>14. CASE Replier
    BY <2>1, <2>7, <2>11, <2>14 DEF Replier
  <2> QED
    BY <1>1, <2>8, <2>9, <2>12, <2>13, <2>14 DEF Next
<1>2. TypeOK /\ [Next]_vars =>
        [\A a \in Ask : Stored(a) /\ ~IsOpen(a) =>
           /\ awaiting'[a].status \in {awaiting[a].status, "none"}
           /\ \A p \in {"nudge", "lastCall", "noReply", "parked"} : posts'[a][p] = posts[a][p]
           /\ awaiting[a].status = "cancelled" => posts'[a] = posts[a]]_vars
  BY <1>1
<1>3. QED
  BY <1>2, TypeCorrect, PTL DEF Spec, ClosedIsFinal

(* No late ack, lease, snooze or consent brings a settled copy back.       *)
THEOREM SettledForGood == Spec => SettledStaysSettled
<1>1. LedgerInv /\ [Next]_vars =>
        [\A a \in Ask : deliveries[a].state \in Settled =>
           deliveries'[a].state \in Settled \union {"none"}]_vars
  <2> SUFFICES ASSUME LedgerInv, Next, NEW a \in Ask, deliveries[a].state \in Settled
               PROVE  deliveries'[a].state \in Settled \union {"none"}
    BY Zenon
  <2>1. /\ Stored(a) /\ messages[a] # Unsent /\ TypeOK
        /\ deliveries[a].state \notin {"queued", "delivered", "surfaced", "persisted", "none"}
    BY DEF LedgerInv, AskOK, RowsAgree, Stored
  <2>2. CASE Sender
    BY <2>1, <2>2 DEF Sender, Send, Cancel, Recalled, TypeOK, Delivery
  <2>3. CASE Recipient
    <3>1. ASSUME NEW s, Check(s) \/ Deliver(s) \/ Lease(s) PROVE deliveries'[a] = deliveries[a]
      BY <2>1, <3>1 DEF Check, Deliver, Lease, Leasable, InBox
    <3>2. ASSUME NEW b \in Ask, Ack(b) \/ Snooze(b)
          PROVE deliveries'[a] = deliveries[a]
      BY <2>1, <3>2 DEF Ack, Snooze, Snoozable, TypeOK
    <3>3. ASSUME NEW b \in Ask, Accept(b) \/ Decline(b)
          PROVE deliveries'[a].state \in Settled
      BY <2>1, <3>3 DEF Accept, Decline, TypeOK, Delivery
    <3> QED
      BY <2>3, <3>1, <3>2, <3>3 DEF Recipient
  <2>4. CASE Replier
    BY <2>1, <2>4 DEF Replier, Reply, RefuseReply, TypeOK, Delivery
  <2>5. CASE Sweep
    BY <2>1, <2>5 DEF Sweep, SweptDelivery, NoDelivery, Tombstoned, InBox, TypeOK, Delivery
  <2>6. CASE Tick
    BY <2>6 DEF Tick
  <2> QED
    BY <2>2, <2>3, <2>4, <2>5, <2>6 DEF Next
<1>2. QED
  BY <1>1, LedgerCorrect, PTL DEF Spec, SettledStaysSettled

(* Whatever hides an ask that stays open from its recipient is a step of   *)
(* that recipient's own session, or age.                                   *)
THEOREM HiddenByRecipient == Spec => OnlyRecipientOrAgeHides
<1> DEFINE Excused(a) ==
      \/ messages[a].ts + Tombstone < now
      \/ Check(SessionOf[messages[a].to])
      \/ Accept(a)
      \/ \E from \in Alias : SameSession(from, messages[a].to) /\ Reply(from, a, FALSE)
<1>1. ASSUME LedgerInv, Next, NEW a \in Ask, IsOpen(a), Owed(a), IsOpen(a)', ~Owed(a)'
      PROVE  Excused(a)
  <2>1. Stored(a) /\ messages[a] # Unsent /\ TypeOK /\ awaiting[a].status = "open"
        /\ awaiting'[a].status = "open"
    BY <1>1 DEF LedgerInv, AskOK, RowsAgree, Stored, IsOpen
  <2>2. deliveries'[a].state \notin Pending \union {"persisted"}
        /\ deliveries[a].state \in Pending \union {"persisted"}
    BY <1>1 DEF Owed, InBox
  <2>3. deliveries'[a] # deliveries[a]
    BY <2>2
  <2>4. CASE Sender
    BY <2>1, <2>3, <2>4 DEF Sender, Send, Cancel, CloseAwaiting, IsOpen, TypeOK, Awaiting
  <2>5. CASE Recipient
    <3>1. ASSUME NEW s, Check(s) PROVE Excused(a)
      BY <2>3, <3>1 DEF Check, Box
    <3>2. ASSUME NEW s, Deliver(s) \/ Lease(s) PROVE FALSE
      BY <2>1, <2>2, <3>2 DEF Deliver, Lease, TypeOK, Delivery
    <3>3. ASSUME NEW b \in Ask, Ack(b) \/ Snooze(b) PROVE FALSE
      BY <2>1, <2>2, <3>3 DEF Ack, Snooze, TypeOK
    <3>4. ASSUME NEW b \in Ask, Accept(b) PROVE Excused(a)
      <4>1. b = a
        BY <2>1, <2>3, <3>4 DEF Accept, TypeOK
      <4> QED
        BY <3>4, <4>1
    <3>5. ASSUME NEW b \in Ask, Decline(b) PROVE FALSE
      BY <2>1, <2>3, <3>5 DEF Decline, CloseAwaiting, IsOpen, TypeOK, Awaiting
    <3> QED
      BY <2>5, <3>1, <3>2, <3>3, <3>4, <3>5 DEF Recipient
  <2>6. CASE Replier
    <3>1. ASSUME NEW from \in Alias, NEW b \in Ask, NEW terminal \in BOOLEAN,
                 Reply(from, b, terminal)
          PROVE  Excused(a)
      <4>1. b = a /\ SameSession(from, messages[a].to)
        BY <2>1, <2>3, <3>1 DEF Reply, TypeOK
      <4>2. ~terminal
        BY <2>1, <3>1, <4>1 DEF Reply, CloseAwaiting, TypeOK, Awaiting
      <4> QED
        BY <3>1, <4>1, <4>2
    <3>2. ASSUME NEW from \in Alias, NEW b \in Ask, RefuseReply(from, b) PROVE FALSE
      BY <2>1, <2>3, <3>2 DEF RefuseReply, TypeOK
    <3> QED
      BY <2>6, <3>1, <3>2 DEF Replier
  <2>7. CASE Sweep
    <3>1. deliveries'[a] = SweptDelivery(a) /\ ~PurgeDue(a)
      BY <1>1, <2>7 DEF Sweep, PurgeDue
    <3>2. Tombstoned(a)
      BY <2>3, <3>1 DEF SweptDelivery
    <3> QED
      BY <3>2 DEF Tombstoned
  <2>8. CASE Tick
    BY <2>3, <2>8 DEF Tick
  <2> QED
    BY <1>1, <2>4, <2>5, <2>6, <2>7, <2>8 DEF Next
<1>2. LedgerInv /\ [Next]_vars =>
        [\A a \in Ask : IsOpen(a) /\ Owed(a) /\ IsOpen(a)' /\ ~Owed(a)' => Excused(a)]_vars
  BY <1>1
<1>3. QED
  BY <1>2, LedgerCorrect, PTL DEF Spec, OnlyRecipientOrAgeHides

-----------------------------------------------------------------------------
(* THE CONTRACT WITH THE SENDER                                            *)

(* The move of one ask, with the contract's variables spelled out. *)
LEMMA MoveMeans ==
  ASSUME NEW a \in Ask,
         \/ StandingOf(a)' = StandingOf(a) /\ HeardOf(a)' = HeardOf(a)
         \/ StandingOf(a)' \in Contract!Leads(StandingOf(a)) /\ HeardOf(a)' = HeardOf(a)
         \/ StandingOf(a)' \in Contract!Answered(StandingOf(a)) /\ HeardOf(a)' = HeardOf(a) + 1
  PROVE  Contract!Move(a)
BY DEF Contract!Move

(* What leaves the message, its standing and its answers alone is no move. *)
LEMMA NoMove ==
  ASSUME NEW a \in Ask, messages'[a] = messages[a], awaiting'[a].status = awaiting[a].status,
         \A p \in {"answer", "partial", "declined"} : posts'[a][p] = posts[a][p]
  PROVE  Contract!Move(a)
<1>1. StandingOf(a)' = StandingOf(a) /\ HeardOf(a)' = HeardOf(a)
  BY DEF StandingOf, HeardOf
<1>2. QED
  BY <1>1, MoveMeans

(* A stored ask stands as its awaiting row says. *)
LEMMA StandingIsStatus ==
  ASSUME LedgerInv, NEW a \in Ask, Stored(a)
  PROVE  /\ StandingOf(a) = awaiting[a].status
         /\ awaiting[a].status \in {"open", "responded", "parked", "cancelled"}
BY DEF LedgerInv, TypeOK, AskOK, RowsAgree, Stored, StandingOf, Awaiting

(* A step on one ask is no move of another. *)
LEMMA OthersStay ==
  ASSUME TypeOK, NEW a \in Ask, NEW b \in Ask, a # b, NEW p \in Post,
         messages'[a] = messages[a], awaiting'[a] = awaiting[a],
         posts' = posts \/ posts' = PlusPost(b, p)
  PROVE  Contract!Move(a)
<1>1. PlusPost(b, p)[a] = posts[a]
  BY DEF PlusPost, TypeOK
<1>2. posts'[a] = posts[a]
  BY <1>1, Zenon
<1>3. QED
  BY <1>2, NoMove

(* Where an ask stands moves only along the contract's edges: one case per *)
(* handler that writes what the contract sees.                             *)
LEMMA StepMoves ==
  ASSUME LedgerInv, Next, NEW a \in Ask
  PROVE  Contract!Move(a)
<1> USE DEF Contract!Leads, Contract!Answered
<1>1. TypeOK /\ AskOK(a) /\ messages[a] \in Message \union {Unsent, Purged}
      /\ awaiting[a] \in Awaiting /\ \A p \in Post : posts[a][p] \in Nat
  BY DEF LedgerInv, TypeOK
<1>2. ASSUME UNCHANGED <<messages, awaiting, posts>> PROVE Contract!Move(a)
  BY <1>2, NoMove
<1>3. ASSUME NEW b \in Ask, NEW from \in Alias, NEW to \in Alias,
             NEW replyBy \in ReplyBys, NEW ttl \in Ttls, Send(b, from, to, replyBy, ttl)
      PROVE  Contract!Move(a)
  <2>1. CASE b # a
    BY <1>1, <1>3, <2>1, OthersStay DEF Send, TypeOK
  <2>2. CASE b = a
    <3>1. messages[a] = Unsent /\ messages'[a] = [from |-> from, to |-> to, ts |-> now]
          /\ awaiting'[a].status = "open" /\ posts' = posts
      BY <1>1, <1>3, <2>2 DEF Send, TypeOK
    <3>2. messages'[a] \notin {Unsent, Purged}
      BY <1>1, <3>1, SentinelAssumption DEF Message, TypeOK
    <3>3. StandingOf(a) = "unsent"
      BY <3>1, SentinelAssumption DEF StandingOf
    <3>4. StandingOf(a)' = "open"
      BY <3>1, <3>2 DEF StandingOf
    <3>5. HeardOf(a)' = HeardOf(a)
      BY <3>1 DEF HeardOf
    <3> QED
      BY <3>3, <3>4, <3>5, MoveMeans
  <2> QED
    BY <2>1, <2>2
<1>4. ASSUME NEW b \in Ask, Cancel(b) PROVE Contract!Move(a)
  <2>1. CASE b # a
    BY <1>1, <1>4, <2>1, OthersStay DEF Cancel, TypeOK
  <2>2. CASE b = a
    <3>1. Stored(a) /\ messages' = messages
          /\ awaiting'[a].status = IF IsOpen(a) THEN "cancelled" ELSE awaiting[a].status
      BY <1>1, <1>4, <2>2 DEF Cancel, CloseAwaiting, IsOpen, TypeOK, Awaiting
    <3>2. \A p \in {"answer", "partial", "declined"} : posts'[a][p] = posts[a][p]
      BY <1>1, <1>4, <2>2 DEF Cancel, PlusPost, TypeOK
    <3>3. HeardOf(a)' = HeardOf(a)
      BY <3>2 DEF HeardOf
    <3>4. StandingOf(a) = awaiting[a].status /\ StandingOf(a)' = awaiting'[a].status
      BY <3>1, StandingIsStatus DEF StandingOf, Stored
    <3> QED
      BY <3>1, <3>3, <3>4, MoveMeans DEF IsOpen
  <2> QED
    BY <2>1, <2>2
<1>5. ASSUME NEW b \in Ask, Decline(b) PROVE Contract!Move(a)
  <2>1. CASE b # a
    BY <1>1, <1>5, <2>1, OthersStay DEF Decline, TypeOK
  <2>2. CASE b = a
    <3>1. Stored(a) /\ messages' = messages
          /\ awaiting'[a].status = IF IsOpen(a) THEN "responded" ELSE awaiting[a].status
      BY <1>1, <1>5, <2>2 DEF Decline, CloseAwaiting, IsOpen, TypeOK, Awaiting
    <3>2. /\ posts'[a]["answer"] = posts[a]["answer"]
          /\ posts'[a]["partial"] = posts[a]["partial"]
          /\ posts'[a]["declined"] = IF IsOpen(a) THEN posts[a]["declined"] + 1
                                                  ELSE posts[a]["declined"]
      BY <1>1, <1>5, <2>2 DEF Decline, PlusPost, TypeOK
    <3>3. HeardOf(a)' = IF IsOpen(a) THEN HeardOf(a) + 1 ELSE HeardOf(a)
      BY <1>1, <3>2 DEF HeardOf
    <3>4. StandingOf(a) = awaiting[a].status /\ StandingOf(a)' = awaiting'[a].status
      BY <3>1, StandingIsStatus DEF StandingOf, Stored
    <3> QED
      BY <3>1, <3>3, <3>4, MoveMeans DEF IsOpen
  <2> QED
    BY <2>1, <2>2
<1>6. ASSUME NEW b \in Ask, Snooze(b) PROVE Contract!Move(a)
  <2>1. awaiting'[a].status = awaiting[a].status /\ messages' = messages /\ posts' = posts
    BY <1>1, <1>6 DEF Snooze, DeferNudge, TypeOK, Awaiting
  <2> QED
    BY <2>1, NoMove
<1>7. ASSUME NEW b \in Ask, NEW from \in Alias, NEW terminal \in BOOLEAN,
             Reply(from, b, terminal)
      PROVE  Contract!Move(a)
  <2>1. CASE b # a
    BY <1>1, <1>7, <2>1, OthersStay DEF Reply, TypeOK
  <2>2. CASE b = a
    <3>1. Stored(a) /\ messages' = messages /\ awaiting[a].status # "cancelled"
          /\ awaiting'[a].status = IF terminal /\ IsOpen(a) THEN "responded"
                                                             ELSE awaiting[a].status
      BY <1>1, <1>7, <2>2 DEF Reply, CloseAwaiting, DeferNudge, IsOpen, TypeOK, Awaiting
    <3>2. /\ posts'[a]["declined"] = posts[a]["declined"]
          /\ posts'[a]["answer"] = IF terminal THEN posts[a]["answer"] + 1 ELSE posts[a]["answer"]
          /\ posts'[a]["partial"] = IF terminal THEN posts[a]["partial"] ELSE posts[a]["partial"] + 1
      BY <1>1, <1>7, <2>2 DEF Reply, PlusPost, TypeOK
    <3>3. HeardOf(a)' = HeardOf(a) + 1
      BY <1>1, <3>2 DEF HeardOf
    <3>4. StandingOf(a) = awaiting[a].status /\ StandingOf(a)' = awaiting'[a].status
          /\ awaiting[a].status \in {"open", "responded", "parked", "cancelled"}
      BY <3>1, StandingIsStatus DEF StandingOf, Stored
    <3> QED
      BY <3>1, <3>3, <3>4, MoveMeans DEF IsOpen
  <2> QED
    BY <2>1, <2>2
<1>8. CASE Sweep
  <2>1. \A p \in {"answer", "partial", "declined"} : posts'[a][p] = posts[a][p]
    BY <1>8 DEF Sweep, Notices
  <2>2. HeardOf(a)' = HeardOf(a)
    BY <2>1 DEF HeardOf
  <2>3. CASE PurgeDue(a)
    <3>1. Stored(a) /\ ~IsOpen(a) /\ messages'[a] = Purged
      BY <1>8, <2>3 DEF Sweep, PurgeDue
    <3>2. StandingOf(a) \in {"responded", "parked", "cancelled"}
      BY <3>1, StandingIsStatus DEF IsOpen
    <3>3. StandingOf(a)' = "forgotten"
      BY <3>1, SentinelAssumption DEF StandingOf
    <3> QED
      BY <2>2, <3>2, <3>3, MoveMeans
  <2>4. CASE ~PurgeDue(a)
    <3>1. messages'[a] = messages[a] /\ awaiting'[a] = SweptAwaiting(a)
      BY <1>8, <2>4 DEF Sweep
    <3>2. \/ awaiting'[a].status = awaiting[a].status
          \/ IsOpen(a) /\ awaiting'[a].status = "parked"
      BY <1>1, <2>4, <3>1
      DEF SweptAwaiting, ParkDue, LastCallDue, Chased, CloseAwaiting, IsOpen, Awaiting
    <3>3. CASE awaiting'[a].status = awaiting[a].status
      BY <2>1, <3>1, <3>3, NoMove
    <3>4. CASE IsOpen(a) /\ awaiting'[a].status = "parked"
      <4>1. Stored(a)
        BY <1>1, <3>4 DEF AskOK, RowsAgree, IsOpen
      <4>2. StandingOf(a) = "open" /\ StandingOf(a)' = "parked"
        BY <3>1, <3>4, <4>1 DEF StandingOf, Stored, IsOpen
      <4> QED
        BY <2>2, <4>2, MoveMeans
    <3> QED
      BY <3>2, <3>3, <3>4
  <2> QED
    BY <2>3, <2>4
<1>9. CASE Tick
  BY <1>2, <1>9 DEF Tick
<1>10. ASSUME NEW s, Check(s) \/ Deliver(s) \/ Lease(s) PROVE Contract!Move(a)
  BY <1>2, <1>10 DEF Check, Deliver, Lease
<1>11. ASSUME NEW b \in Ask, Ack(b) \/ Accept(b) \/ (\E from \in Alias : RefuseReply(from, b))
       PROVE  Contract!Move(a)
  BY <1>2, <1>11 DEF Ack, Accept, RefuseReply
<1>12. CASE Sender
  BY <1>3, <1>4, <1>12 DEF Sender
<1>13. CASE Recipient
  BY <1>5, <1>6, <1>10, <1>11, <1>13 DEF Recipient
<1>14. CASE Replier
  BY <1>7, <1>11, <1>14 DEF Replier
<1> QED
  BY <1>8, <1>9, <1>12, <1>13, <1>14 DEF Next

(* The broker implements its contract with every sender: the tables start  *)
(* as the contract starts, and each step is a move of each ask.            *)
THEOREM BrokerKeepsContract == Spec => KeepsContract
<1>1. Init => Contract!Init
  <2> SUFFICES ASSUME Init PROVE Contract!Init
    OBVIOUS
  <2>1. ASSUME NEW a \in Ask PROVE StandingOf(a) = "unsent" /\ HeardOf(a) = 0
    <3>1. messages[a] = Unsent /\ \A p \in Post : posts[a][p] = 0
      BY DEF Init
    <3>2. StandingOf(a) = "unsent"
      BY <3>1, SentinelAssumption DEF StandingOf
    <3>3. HeardOf(a) = 0
      BY <3>1 DEF HeardOf
    <3> QED
      BY <3>2, <3>3
  <2> QED
    BY <2>1 DEF Contract!Init
<1>2. LedgerInv /\ [Next]_vars =>
        [Contract!Next]_<<[a \in Ask |-> StandingOf(a)], [a \in Ask |-> HeardOf(a)]>>
  <2>1. CASE Next /\ LedgerInv
    BY <2>1, StepMoves DEF Contract!Next
  <2>2. CASE UNCHANGED vars
    BY <2>2 DEF vars, StandingOf, HeardOf
  <2> QED
    BY <2>1, <2>2
<1>3. QED
  BY <1>1, <1>2, LedgerCorrect, PTL DEF Spec, KeepsContract, Contract!Spec
=============================================================================
