----------------------------- MODULE WakeProofs -----------------------------
(***************************************************************************)
(* Wake for every set of names and asks: an ask holds up one turn, and one *)
(* watcher wakes its session once for it.                                  *)
(***************************************************************************)
EXTENDS Wake, TLAPS

(* A turn's end looks at the mailbox first and at the markers later, and   *)
(* the sweep takes a marker away only with its message.  So an ask that    *)
(* held up a turn has its marker still, or is purged and in no turn's hand *)
(* (the count starts anew at the purge, so the turn that held it is the    *)
(* one counted since).                                                     *)
Pushing(m) == job.at = "push" /\ m \in job.asks

Pushed ==
  \A m \in Ask : blocked[m] # 0 =>
    /\ blocked[m] = 1
    /\ m \in markers \/ state[m] = "purged"
    /\ state[m] = "purged" => ~ Pushing(m)

(* The watcher wakes for what it has not seen, and remembers it.           *)
Printed == \A m \in Ask : woken[m] # 0 => woken[m] = 1 /\ m \in seen

WakeInv == TypeOK /\ Pushed /\ Printed

LEMMA InitWake == Init => WakeInv
<1>1. Idle \in Job
  BY DEF Job
<1>2. Init => TypeOK
  <2>1. 0 \in Count
    BY DEF Count
  <2> QED
    BY <1>1, <2>1 DEF Init, TypeOK
<1>3. Init => Pushed /\ Printed
  BY DEF Init, Pushed, Printed
<1> QED
  BY <1>2, <1>3 DEF WakeInv

(* AliasFor and its boxes are names, whatever the file says. *)
LEMMA BoxesAreNames ==
  ASSUME TypeOK
  PROVE  /\ AliasFor \in Name
         /\ \A a \in Name : Boxes(a) \subseteq Name
         /\ \A boxes : Recoverable(boxes) \subseteq Ask
BY WakeAssumption DEF TypeOK, AliasFor, Boxes, Recoverable

LEMMA DeliverTypes ==
  ASSUME TypeOK, NEW a \in Name, Deliver(a)
  PROVE  /\ state' \in [Ask -> {"unsent", "queued", "delivered", "settled", "purged"}]
         /\ shown' \subseteq Ask
         /\ \A m \in Ask : state'[m] = "purged" <=> state[m] = "purged"
<1>1. PICK boxes \in {Boxes(a), {a}}, emitted \in BOOLEAN :
        LET got == {m \in Recoverable(boxes) : state[m] = "queued"}
        IN /\ state' = [m \in Ask |-> IF m \in got THEN "delivered" ELSE state[m]]
           /\ shown' = IF emitted THEN shown \union got ELSE shown
  BY DEF Deliver
<1> QED
  BY <1>1 DEF TypeOK, Recoverable

(* The steps of hooks, shell and sweep that push nothing: no turn is held  *)
(* up, and no turn gets hold of a purged ask.                              *)
LEMMA QuietPushed ==
  ASSUME Pushed, UNCHANGED blocked, markers \subseteq markers',
         \A m \in Ask : state[m] = "purged" <=> state'[m] = "purged",
         \A m \in Ask : Pushing(m)' /\ ~ Pushing(m) => state[m] # "purged"
  PROVE  Pushed'
BY DEF Pushed

LEMMA NextTypes == TypeOK /\ [Next]_vars => TypeOK'
<1> SUFFICES ASSUME TypeOK, [Next]_vars
             PROVE  TypeOK'
  OBVIOUS
<1> USE WakeAssumption DEF TypeOK, names, watcher
<1>1. ASSUME NEW title \in Name \union {None}, SessionStart(title)
      PROVE  TypeOK'
  <2>1. (IF title # None THEN title ELSE AliasFor) \in Name
    BY BoxesAreNames
  <2>2. [at |-> "adopt", name |-> IF title # None THEN title ELSE AliasFor, then |-> "drain"] \in Job
    BY <2>1 DEF Job
  <2> QED
    BY <1>1, <2>1, <2>2 DEF SessionStart
<1>2. ASSUME NEW a \in Name, RegisterFromShell(a)
      PROVE  TypeOK'
  <2>1. [at |-> "adopt", name |-> a, then |-> "idle"] \in Job
    BY DEF Job
  <2> QED
    BY <1>2, <2>1 DEF RegisterFromShell
<1>3. ASSUME WriteAliasForSession
      PROVE  TypeOK'
  <2>1. job.name \in Name
    BY <1>3 DEF WriteAliasForSession, Job, Idle
  <2>2. [at |-> "drain", name |-> job.name] \in Job /\ Idle \in Job
    BY <2>1 DEF Job
  <2> QED
    BY <1>3, <2>1, <2>2 DEF WriteAliasForSession
<1>4. ASSUME Drain
      PROVE  TypeOK'
  <2>1. job.name \in Name
    BY <1>4 DEF Drain, Job, Idle
  <2>2. Idle \in Job
    BY DEF Job
  <2> QED
    BY <1>4, <2>1, <2>2, DeliverTypes DEF Drain
<1>5. ASSUME UserPromptSubmit
      PROVE  TypeOK'
  BY <1>5, BoxesAreNames, DeliverTypes DEF UserPromptSubmit
<1>6. ASSUME Stop
      PROVE  TypeOK'
  <2>1. [at |-> "push", asks |-> Recoverable(Boxes(AliasFor))] \in Job
    BY BoxesAreNames DEF Job
  <2> QED
    BY <1>6, <2>1 DEF Stop
<1>7. ASSUME Push
      PROVE  TypeOK'
  <2>1. job.asks \subseteq Ask /\ Idle \in Job
    BY <1>7 DEF Push, Job, Idle
  <2>2. blocked' \in [Ask -> Count]
    BY <1>7 DEF Push, Once, Count
  <2> QED
    BY <1>7, <2>1, <2>2 DEF Push
<1>8. ASSUME HookDies
      PROVE  TypeOK'
  BY <1>8 DEF HookDies, Job
<1>9. ASSUME Tick
      PROVE  TypeOK'
  BY <1>9, BoxesAreNames DEF Tick, Once, Count
<1>10. ASSUME Resume \/ Silence \/ PruneOffline \/ ReclaimStaleMarkers
       PROVE  TypeOK'
  <2>1. 0 \in Count
    BY DEF Count
  <2> QED
    BY <1>10, <2>1 DEF Resume, Silence, PruneOffline, ReclaimStaleMarkers
<1>11. ASSUME NEW m \in Ask, Arrive(m) \/ Settle(m) \/ Purge(m)
       PROVE  TypeOK'
  BY <1>11 DEF Arrive, Settle, Purge, Count
<1>12. CASE UNCHANGED vars
  BY <1>12 DEF vars
<1> QED
  BY <1>1, <1>2, <1>3, <1>4, <1>5, <1>6, <1>7, <1>8, <1>9, <1>10, <1>11, <1>12 DEF Next

LEMMA NextPushed == WakeInv /\ [Next]_vars => Pushed'
<1> SUFFICES ASSUME WakeInv, [Next]_vars
             PROVE  Pushed'
  OBVIOUS
<1>0. TypeOK /\ Pushed
  BY DEF WakeInv
<1>1. ASSUME \/ \E title \in Name \union {None} : SessionStart(title)
             \/ \E a \in Name : RegisterFromShell(a)
             \/ WriteAliasForSession \/ HookDies
             \/ Tick \/ Resume \/ Silence \/ PruneOffline
             \/ UNCHANGED vars
      PROVE  Pushed'
  BY <1>0, <1>1, QuietPushed
     DEF SessionStart, RegisterFromShell, WriteAliasForSession, HookDies, Tick, Resume, Silence,
         PruneOffline, vars, Pushing, Idle, names, watcher
<1>2. ASSUME Drain \/ UserPromptSubmit
      PROVE  Pushed'
  <2>1. \A m \in Ask : state'[m] = "purged" <=> state[m] = "purged"
    <3>1. Drain => job.name \in Name
      BY <1>0 DEF Drain, TypeOK, Job, Idle
    <3> QED
      BY <1>0, <1>2, <3>1, BoxesAreNames, DeliverTypes DEF Drain, UserPromptSubmit
  <2> QED
    BY <1>0, <1>2, <2>1, QuietPushed DEF Drain, UserPromptSubmit, Pushing, Idle
<1>3. ASSUME Stop
      PROVE  Pushed'
  <2>1. \A m \in Recoverable(Boxes(AliasFor)) : state[m] # "purged"
    BY DEF Recoverable, InBox
  <2>2. job' = [at |-> "push", asks |-> Recoverable(Boxes(AliasFor))]
    BY <1>3 DEF Stop
  <2>3. \A m \in Ask : Pushing(m)' => state[m] # "purged"
    BY <2>1, <2>2 DEF Pushing
  <2> QED
    BY <1>0, <1>3, <2>3, QuietPushed DEF Stop
<1>4. ASSUME Push
      PROVE  Pushed'
  <2> SUFFICES ASSUME NEW m \in Ask, blocked'[m] # 0
               PROVE  /\ blocked'[m] = 1
                      /\ m \in markers' \/ state[m] = "purged"
    BY <1>4 DEF Push, Pushed, Pushing, Idle
  <2> DEFINE fresh == job.asks \ markers
  <2>1. PICK marked \in SUBSET fresh :
          /\ markers' = markers \union marked
          /\ blocked' = [n \in Ask |-> IF marked = fresh /\ n \in fresh
                                         THEN Once(blocked[n]) ELSE blocked[n]]
    BY <1>4 DEF Push
  <2>2. CASE m \in fresh /\ marked = fresh
    <3>1. blocked[m] = 0
      BY <1>0, <1>4, <2>2 DEF Push, Pushed, Pushing
    <3> QED
      BY <2>1, <2>2, <3>1 DEF Once
  <2>3. CASE ~ (m \in fresh /\ marked = fresh)
    <3>1. blocked'[m] = blocked[m]
      BY <2>1, <2>3
    <3> QED
      BY <1>0, <2>1, <3>1 DEF Pushed
  <2> QED
    BY <2>2, <2>3
<1>5. ASSUME ReclaimStaleMarkers
      PROVE  Pushed'
  BY <1>0, <1>5 DEF ReclaimStaleMarkers, Pushed, Pushing, TypeOK
<1>6. ASSUME NEW m \in Ask, Arrive(m) \/ Settle(m) \/ Purge(m)
      PROVE  Pushed'
  BY <1>0, <1>6 DEF Arrive, Settle, Purge, Pushed, Pushing, TypeOK, InBox, names, watcher
<1> QED
  BY <1>1, <1>2, <1>3, <1>4, <1>5, <1>6 DEF Next

LEMMA NextPrinted == WakeInv /\ [Next]_vars => Printed'
<1> SUFFICES ASSUME WakeInv, [Next]_vars
             PROVE  Printed'
  OBVIOUS
<1>0. TypeOK /\ Printed
  BY DEF WakeInv
<1>1. ASSUME Tick
      PROVE  Printed'
  BY <1>0, <1>1 DEF Tick, Printed, Once, TypeOK
<1>2. ASSUME Resume
      PROVE  Printed'
  BY <1>2 DEF Resume, Printed
<1>3. ASSUME NEW m \in Ask, Settle(m)
      PROVE  Printed'
  BY <1>0, <1>3 DEF Settle, Printed, TypeOK
<1>4. ASSUME UNCHANGED watcher
      PROVE  Printed'
  BY <1>0, <1>4 DEF watcher, Printed
<1>5. Tick \/ Resume \/ (\E m \in Ask : Settle(m)) \/ UNCHANGED watcher
  BY DEF Next, vars, watcher, SessionStart, RegisterFromShell, WriteAliasForSession, Drain,
         UserPromptSubmit, Stop, Push, HookDies, Silence, PruneOffline, ReclaimStaleMarkers,
         Arrive, Purge
<1> QED
  BY <1>1, <1>2, <1>3, <1>4, <1>5

LEMMA NextWake == WakeInv /\ [Next]_vars => WakeInv'
BY NextTypes, NextPushed, NextPrinted DEF WakeInv

(* The session's files, its mailbox and the watcher's memory hold values   *)
(* of their types in every reachable state.                                *)
THEOREM WakeTypes == Spec => []TypeOK
<1>1. WakeInv => TypeOK
  BY DEF WakeInv
<1> QED
  BY InitWake, NextWake, <1>1, PTL DEF Spec

(* decidePush and applyPush: an ask holds up one turn, whichever markers   *)
(* fail to be written, and whatever the sweep reclaims between a turn's    *)
(* look at the mailbox and its look at the markers.                        *)
THEOREM BlocksOnceAlways == Spec => []BlocksOnce
<1>1. WakeInv => BlocksOnce
  BY DEF WakeInv, TypeOK, Pushed, BlocksOnce, Count
<1> QED
  BY InitWake, NextWake, <1>1, PTL DEF Spec

(* watch-inbox: one watcher prints one line for a message, over renames    *)
(* and boxes that come and go out of reach.                                *)
THEOREM WakesOnceAlways == Spec => []WakesOnce
<1>1. WakeInv => WakesOnce
  BY DEF WakeInv, TypeOK, Printed, WakesOnce, Count
<1> QED
  BY InitWake, NextWake, <1>1, PTL DEF Spec
=============================================================================
