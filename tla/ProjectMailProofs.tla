------------------------- MODULE ProjectMailProofs -------------------------
(***************************************************************************)
(* ProjectMail for every set of asks, aliases and sessions: at most one    *)
(* reachable session works on an ask, and settled asks leave the board.    *)
(***************************************************************************)
EXTENDS ProjectMail, FiniteSetTheorems, TLAPS

(* OneWorker alone is not inductive: that nobody who is still working can  *)
(* be displaced needs that whoever is working is reachable.                *)
WorkersReachable ==
  \A m \in Ask : \A a \in working[m] : Reachable(a)

WorkInv == TypeOK /\ OneWorker /\ WorkersReachable

(* The registry starts empty and no ask is sent. *)
LEMMA InitWork == Init => WorkInv /\ SettledLeavesBoard
BY DEF Init, WorkInv, TypeOK, OneWorker, WorkersReachable, SettledLeavesBoard, OnBoard, Pending

(* touchByAct only ever makes aliases more reachable. *)
LEMMA TouchRevives ==
  ASSUME TypeOK, NEW a \in Alias, TouchByAct(a)
  PROVE  /\ reg' = reg
         /\ quiet' \subseteq quiet
         /\ \A b \in Alias : Reachable(b) => Reachable(b)'
         /\ reg[a] = "here" => Reachable(a)'
BY DEF TypeOK, TouchByAct, Reachable

(* A step that leaves the claims and the workers alone and makes nobody    *)
(* unreachable keeps the invariant.                                        *)
LEMMA WorkKept ==
  ASSUME WorkInv, TypeOK', UNCHANGED <<claim, working>>,
         \A b \in Alias : Reachable(b) => Reachable(b)'
  PROVE  WorkInv'
BY DEF WorkInv, OneWorker, WorkersReachable, TypeOK

(* Every handler, the sweeper and the registry keep the types. *)
LEMMA TypesKept == TypeOK /\ [Next]_vars => TypeOK'
<1> SUFFICES ASSUME TypeOK, [Next]_vars PROVE TypeOK'
  OBVIOUS
<1> USE DEF TypeOK
<1>1. ASSUME NEW a \in Alias, Deliver(a) \/ Consume(a) PROVE TypeOK'
  BY <1>1 DEF Deliver, Consume, registry
<1>2. ASSUME NEW a \in Alias, NEW m \in Ask, Send(a, m) PROVE TypeOK'
  BY <1>2 DEF Send, TouchByAct, Siblings
<1>3. ASSUME NEW a \in Alias, NEW m \in Ask, Accept(a, m) PROVE TypeOK'
  BY <1>3 DEF Accept, Take, TouchByAct
<1>4. ASSUME NEW a \in Alias, NEW m \in Ask, Decline(a, m) PROVE TypeOK'
  BY <1>4 DEF Decline, TouchByAct
<1>5. ASSUME NEW a \in Alias, NEW m \in Ask, NEW t \in BOOLEAN, Reply(a, m, t) PROVE TypeOK'
  BY <1>5 DEF Reply, TouchByAct
<1>6. ASSUME NEW a \in Alias, Appear(a) PROVE TypeOK'
  BY <1>6 DEF Appear, board
<1>7. ASSUME NEW a \in Alias, Leave(a) \/ Prune(a) PROVE TypeOK'
  BY <1>7 DEF Leave, Prune, board
<1>8. ASSUME NEW s \in Session, FallQuiet(s) PROVE TypeOK'
  BY <1>8 DEF FallQuiet, board
<1>9. ASSUME NEW m \in Ask, Cancel(m) \/ Park(m) \/ Retire(m) PROVE TypeOK'
  BY <1>9 DEF Cancel, Park, Retire, registry
<1>10. CASE UNCHANGED vars
  BY <1>10 DEF vars, registry, board
<1> QED
  BY <1>1, <1>2, <1>3, <1>4, <1>5, <1>6, <1>7, <1>8, <1>9, <1>10 DEF Next, Handlers, Roster

(* An accept that wins displaces nobody who is working: the claim it       *)
(* releases is held by an alias that even after the caller's own sign of   *)
(* life is not reachable.                                                  *)
LEMMA AcceptWork ==
  ASSUME WorkInv, TypeOK', NEW a \in Alias, NEW m \in Ask, Accept(a, m)
  PROVE  WorkInv'
<1> DEFINE free == claim[m] = None \/ (claim[m] # a /\ Stale(claim[m]))
<1>1. /\ \A b \in Alias : Reachable(b) => Reachable(b)'
      /\ reg[a] = "here" => Reachable(a)'
      /\ reg' = reg
  BY TouchRevives DEF WorkInv, Accept
<1>2. TypeOK
  BY DEF WorkInv
<1>3. CASE ~free
  BY <1>1, <1>3, WorkKept DEF Accept, Take
<1>4. CASE free
  <2>1. working[m] = {}
    <3>1. SUFFICES ASSUME NEW b \in working[m] PROVE FALSE
      OBVIOUS
    <3>2. b = claim[m] /\ b \in Alias /\ Reachable(b)
      BY <1>2 DEF WorkInv, OneWorker, WorkersReachable, TypeOK
    <3>3. Reachable(b)'
      BY <1>1, <3>2
    <3>4. claim[m] # None
      BY <3>2, MailAssumption
    <3> QED
      BY <1>4, <3>2, <3>3, <3>4 DEF Stale, Reachable
  <2>2. /\ claim' = [claim EXCEPT ![m] = a]
        /\ working' = IF reg[a] = "here" THEN [working EXCEPT ![m] = @ \union {a}] ELSE working
    BY <1>4 DEF Accept, Take
  <2>3. \A n \in Ask : working'[n] = working[n] \/ (n = m /\ reg[a] = "here" /\ working'[n] = {a})
    BY <1>2, <2>1, <2>2 DEF TypeOK
  <2>4. OneWorker'
    <3>1. SUFFICES ASSUME NEW n \in Ask PROVE working'[n] \subseteq {claim'[n]}
      BY DEF OneWorker
    <3>2. CASE n = m
      BY <1>2, <2>1, <2>2, <2>3, <3>2 DEF TypeOK
    <3>3. CASE n # m
      BY <1>2, <2>2, <2>3, <3>3 DEF TypeOK, WorkInv, OneWorker
    <3> QED
      BY <3>2, <3>3
  <2>5. WorkersReachable'
    <3>1. SUFFICES ASSUME NEW n \in Ask, NEW b \in working'[n] PROVE Reachable(b)'
      BY DEF WorkersReachable
    <3>2. CASE b \in working[n]
      BY <1>1, <1>2, <3>2 DEF WorkInv, WorkersReachable, TypeOK
    <3>3. CASE b \notin working[n]
      BY <1>1, <2>3, <3>1, <3>3
    <3> QED
      BY <3>2, <3>3
  <2> QED
    BY <2>4, <2>5 DEF WorkInv
<1> QED
  BY <1>3, <1>4

(* Whatever the step, nobody who is working loses the claim. *)
LEMMA NextWork == WorkInv /\ [Next]_vars => WorkInv'
<1> SUFFICES ASSUME WorkInv, [Next]_vars PROVE WorkInv'
  OBVIOUS
<1>0. TypeOK /\ TypeOK'
  BY TypesKept DEF WorkInv
<1>1. ASSUME NEW a \in Alias, Deliver(a) \/ Consume(a) PROVE WorkInv'
  BY <1>0, <1>1, WorkKept DEF Deliver, Consume, registry, Reachable
<1>2. ASSUME NEW a \in Alias, NEW m \in Ask, Send(a, m) \/ Decline(a, m) PROVE WorkInv'
  BY <1>0, <1>2, TouchRevives, WorkKept DEF Send, Decline
<1>3. ASSUME NEW a \in Alias, NEW m \in Ask, Accept(a, m) PROVE WorkInv'
  BY <1>0, <1>3, AcceptWork
<1>4. ASSUME NEW a \in Alias, NEW m \in Ask, NEW t \in BOOLEAN, Reply(a, m, t) PROVE WorkInv'
  BY <1>0, <1>4, TouchRevives, WorkKept DEF Reply
<1>5. ASSUME NEW a \in Alias, Appear(a) PROVE WorkInv'
  <2>1. \A b \in Alias : Reachable(b) => Reachable(b)'
    BY <1>0, <1>5 DEF Appear, Reachable, TypeOK
  <2> QED
    BY <1>0, <1>5, <2>1, WorkKept DEF Appear, board
<1>6. ASSUME NEW a \in Alias, Leave(a) PROVE WorkInv'
  <2>1. \A m \in Ask : working'[m] = working[m] \ {a}
    BY <1>6 DEF Leave
  <2>2. \A b \in Alias \ {a} : Reachable(b) => Reachable(b)'
    BY <1>0, <1>6 DEF Leave, Reachable, TypeOK
  <2> QED
    BY <1>0, <1>6, <2>1, <2>2 DEF Leave, board, WorkInv, OneWorker, WorkersReachable, TypeOK
<1>7. ASSUME NEW a \in Alias, Prune(a) PROVE WorkInv'
  <2>1. \A b \in Alias : Reachable(b) => Reachable(b)'
    BY <1>0, <1>7 DEF Prune, Reachable, TypeOK
  <2> QED
    BY <1>0, <1>7, <2>1, WorkKept DEF Prune, board
<1>8. ASSUME NEW s \in Session, FallQuiet(s) PROVE WorkInv'
  <2>1. \A m \in Ask : working'[m] = {b \in working[m] : SessionOf[b] # s}
    BY <1>8 DEF FallQuiet
  <2>2. \A b \in Alias : Reachable(b) /\ SessionOf[b] # s => Reachable(b)'
    BY <1>0, <1>8 DEF FallQuiet, Reachable, TypeOK
  <2> QED
    BY <1>0, <1>8, <2>1, <2>2 DEF FallQuiet, board, WorkInv, OneWorker, WorkersReachable, TypeOK
<1>9. ASSUME NEW m \in Ask, Cancel(m) \/ Park(m) \/ Retire(m) PROVE WorkInv'
  BY <1>0, <1>9, WorkKept DEF Cancel, Park, Retire, registry, Reachable
<1>10. CASE UNCHANGED vars
  BY <1>0, <1>10, WorkKept DEF vars, registry, board, Reachable
<1> QED
  BY <1>1, <1>2, <1>3, <1>4, <1>5, <1>6, <1>7, <1>8, <1>9, <1>10 DEF Next, Handlers, Roster

(* An ask leaves the board in the step that answers or withdraws it, and   *)
(* nothing but a send ever puts a row on the board.                        *)
LEMMA NextBoard == TypeOK /\ SettledLeavesBoard /\ [Next]_vars => SettledLeavesBoard'
<1> SUFFICES ASSUME TypeOK, SettledLeavesBoard, [Next]_vars PROVE SettledLeavesBoard'
  OBVIOUS
<1> USE DEF TypeOK, SettledLeavesBoard, OnBoard, Pending
<1>1. ASSUME NEW a \in Alias, Deliver(a) \/ Consume(a) PROVE SettledLeavesBoard'
  BY <1>1 DEF Deliver, Consume
<1>2. ASSUME NEW a \in Alias, NEW m \in Ask, Send(a, m) PROVE SettledLeavesBoard'
  BY <1>2 DEF Send
<1>3. ASSUME NEW a \in Alias, NEW m \in Ask, Accept(a, m) \/ Decline(a, m) PROVE SettledLeavesBoard'
  BY <1>3 DEF Accept, Decline, Take
<1>4. ASSUME NEW a \in Alias, NEW m \in Ask, NEW t \in BOOLEAN, Reply(a, m, t) PROVE SettledLeavesBoard'
  BY <1>4 DEF Reply
<1>5. ASSUME NEW a \in Alias, Appear(a) \/ Leave(a) \/ Prune(a) PROVE SettledLeavesBoard'
  BY <1>5 DEF Appear, Leave, Prune, board
<1>6. ASSUME NEW s \in Session, FallQuiet(s) PROVE SettledLeavesBoard'
  BY <1>6 DEF FallQuiet, board
<1>7. ASSUME NEW m \in Ask, Cancel(m) \/ Park(m) \/ Retire(m) PROVE SettledLeavesBoard'
  BY <1>7 DEF Cancel, Park, Retire
<1>8. CASE UNCHANGED vars
  BY <1>8 DEF vars, board
<1> QED
  BY <1>1, <1>2, <1>3, <1>4, <1>5, <1>6, <1>7, <1>8 DEF Next, Handlers, Roster

(* Before its row is delivered an ask has been put into nobody's turn.     *)
HandedInv ==
  \A m \in Ask :
    /\ ~Sent(m) => row[m] = "none"
    /\ row[m] \in {"none", "queued"} => handed[m] = {}
    /\ handed[m] = {} \/ \E a \in Alias : handed[m] = {a}

(* A delivery adds at most its caller, and only to rows nobody was handed. *)
LEMMA NextHanded == TypeOK /\ HandedInv /\ [Next]_vars => HandedInv'
<1> SUFFICES ASSUME TypeOK, HandedInv, [Next]_vars PROVE HandedInv'
  OBVIOUS
<1> USE DEF TypeOK, HandedInv, Sent, OnBoard, Pending
<1>1. ASSUME NEW a \in Alias, Deliver(a) PROVE HandedInv'
  <2>1. SUFFICES ASSUME NEW m \in Ask
                 PROVE  /\ from'[m] = None => row'[m] = "none"
                        /\ row'[m] \in {"none", "queued"} => handed'[m] = {}
                        /\ handed'[m] = {} \/ \E b \in Alias : handed'[m] = {b}
    OBVIOUS
  <2>2. CASE row[m] = "queued"
    <3>1. handed[m] = {} /\ from[m] # None /\ row'[m] = "delivered" /\ from' = from
      BY <1>1, <2>2 DEF Deliver
    <3>2. handed'[m] = {} \/ handed'[m] = {a}
      BY <1>1, <2>2, <3>1 DEF Deliver
    <3> QED
      BY <3>1, <3>2
  <2>3. CASE row[m] # "queued"
    BY <1>1, <2>3 DEF Deliver
  <2> QED
    BY <2>2, <2>3
<1>2. ASSUME NEW a \in Alias, Consume(a) PROVE HandedInv'
  BY <1>2 DEF Consume
<1>3. ASSUME NEW a \in Alias, NEW m \in Ask, Send(a, m) PROVE HandedInv'
  BY <1>3, MailAssumption DEF Send
<1>4. ASSUME NEW a \in Alias, NEW m \in Ask, Accept(a, m) \/ Decline(a, m) PROVE HandedInv'
  BY <1>4 DEF Accept, Decline, Take
<1>5. ASSUME NEW a \in Alias, NEW m \in Ask, NEW t \in BOOLEAN, Reply(a, m, t) PROVE HandedInv'
  BY <1>5 DEF Reply
<1>6. ASSUME NEW a \in Alias, Appear(a) \/ Leave(a) \/ Prune(a) PROVE HandedInv'
  BY <1>6 DEF Appear, Leave, Prune, board
<1>7. ASSUME NEW s \in Session, FallQuiet(s) PROVE HandedInv'
  BY <1>7 DEF FallQuiet, board
<1>8. ASSUME NEW m \in Ask, Cancel(m) \/ Park(m) \/ Retire(m) PROVE HandedInv'
  BY <1>8 DEF Cancel, Park, Retire
<1>9. CASE UNCHANGED vars
  BY <1>9 DEF vars, board
<1> QED
  BY <1>1, <1>2, <1>3, <1>4, <1>5, <1>6, <1>7, <1>8, <1>9 DEF Next, Handlers, Roster

(* The board, the claims and the roster hold values of their types in      *)
(* every reachable state.                                                  *)
THEOREM MailTypes == Spec => []TypeOK
<1>1. Init => TypeOK
  BY InitWork DEF WorkInv
<1> QED
  BY <1>1, TypesKept, PTL DEF Spec

(* However accepts, takeovers of stale claims, leaves and returns           *)
(* interleave, an alias that was told "It's yours" and has stayed reachable *)
(* holds the claim (Router.accept), and so is the only such alias.          *)
THEOREM OneWorkerAlways == Spec => []OneWorker
<1>1. Init => WorkInv
  BY InitWork
<1>2. WorkInv /\ [Next]_vars => WorkInv'
  BY NextWork
<1>3. WorkInv => OneWorker
  BY DEF WorkInv
<1> QED
  BY <1>1, <1>2, <1>3, PTL DEF Spec

(* An answered or withdrawn project ask is never pending again, so no      *)
(* member is shown it (Router.reply, Router.cancel).                       *)
THEOREM SettledOffBoard == Spec => []SettledLeavesBoard
<1>1. Init => TypeOK /\ SettledLeavesBoard
  BY InitWork DEF WorkInv
<1>2. TypeOK /\ SettledLeavesBoard /\ [Next]_vars => (TypeOK /\ SettledLeavesBoard)'
  BY TypesKept, NextBoard
<1> QED
  BY <1>1, <1>2, PTL DEF Spec

(* However members' deliveries interleave with everything else, a project  *)
(* ask is put into one session's turn at most (Router.deliver,             *)
(* claimForDelivery).                                                      *)
THEOREM InjectedAtMostOnce == Spec => []InjectedOnce
<1>1. Init => TypeOK /\ HandedInv
  BY InitWork DEF WorkInv, Init, HandedInv
<1>2. TypeOK /\ HandedInv /\ [Next]_vars => (TypeOK /\ HandedInv)'
  BY TypesKept, NextHanded
<1>3. HandedInv => InjectedOnce
  <2>1. SUFFICES ASSUME HandedInv, NEW m \in Ask PROVE Cardinality(handed[m]) <= 1
    BY DEF InjectedOnce
  <2>2. CASE handed[m] = {}
    <3>1. Cardinality(handed[m]) = 0
      BY <2>2, FS_EmptySet
    <3> QED
      BY <3>1
  <2>3. CASE handed[m] # {}
    <3>1. PICK a \in Alias : handed[m] = {a}
      BY <2>1, <2>3 DEF HandedInv
    <3>2. Cardinality({a}) = 1
      BY FS_Singleton
    <3> QED
      BY <3>1, <3>2
  <2> QED
    BY <2>2, <2>3
<1> QED
  BY <1>1, <1>2, <1>3, PTL DEF Spec
=============================================================================
