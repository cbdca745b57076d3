---------------------------- MODULE OutboxProofs ----------------------------
(***************************************************************************)
(* Outbox for every set of operations and aliases and any number of        *)
(* crashes, kills, timeouts and repeats: what a writer has reported stored *)
(* is stored, and the outbox gives up no intent whose message is not.      *)
(***************************************************************************)
EXTENDS Outbox, TLAPS

Steps == {"rest", "looked", "unspooled", "ready", "routing", "opening", "done"}
Record == [step : Steps, op : Op \union {None}, fresh : BOOLEAN, targets : SUBSET Alias]

(* What a writer may rely on at each statement of its send. *)
WriterOK(w) ==
  /\ writer[w].step # "rest" => writer[w].op \in Op
  /\ writer[w].step \in {"routing", "opening", "done"} => Stored(writer[w].op)
  /\ writer[w].step \in {"opening", "done"} => writer[w].targets \subseteq rows[writer[w].op]
  /\ writer[w].step = "done" /\ writer[w].op \in Asks => awaiting[writer[w].op] # "none"

(* A client writes only while it is degraded, and only its own operation:  *)
(* this is what keeps the purge away from a send that is under way.        *)
ClientOK(o) ==
  writer[o].step # "rest" => caller[o] = "degraded" /\ writer[o].op = o

(* The client whose request the broker is serving is still waiting for it. *)
BrokerOK ==
  serving = "request" /\ writer[Broker].step # "rest" => caller[writer[Broker].op] = "asked"

SendInv ==
  /\ TypeOK
  /\ BrokerOK
  /\ \A w \in Writer : WriterOK(w)
  /\ \A o \in Op : ClientOK(o)

(* Nothing is stored and nobody is sending. *)
LEMMA InitSend == Init => SendInv
BY OutboxAssumption DEF Init, SendInv, TypeOK, BrokerOK, WriterOK, ClientOK, Resting, Writer

(* Both outcomes of the operation-id lookup are well-formed records. *)
LEMMA LookedUpType ==
  ASSUME TypeOK, NEW o \in Op, NEW first \in Steps
  PROVE  LookedUp(o, first) \in Record
BY DEF TypeOK, LookedUp, Stored, Record, Steps

(* The targets of a fresh send are aliases. *)
LEMMA TargetsType == ASSUME TypeOK, NEW o \in Op PROVE TargetsOf(o) \subseteq Alias
BY OutboxAssumption DEF TypeOK, TargetsOf

(* The type of a record after one of its fields was set. *)
LEMMA RecordSet ==
  ASSUME NEW r \in Record, NEW s \in Steps, NEW T \in SUBSET Alias
  PROVE  /\ [r EXCEPT !.step = s] \in Record
         /\ [r EXCEPT !.targets = T] \in Record
         /\ [r EXCEPT !.step = s, !.targets = T] \in Record
BY DEF Record

(* Setting one writer's record keeps the function's type. *)
LEMMA WriterSet ==
  ASSUME TypeOK, NEW w \in Writer, NEW r \in Record
  PROVE  [writer EXCEPT ![w] = r] \in [Writer -> Record]
BY DEF TypeOK, Record, Steps

(* Each action keeps the types. *)
LEMMA TypesKept == TypeOK /\ [Next]_vars => TypeOK'
<1> SUFFICES ASSUME TypeOK, [Next]_vars PROVE TypeOK'
  OBVIOUS
<1> DEFINE RestOK == /\ up \in {"down", "booting", "listening"}
                     /\ serving \in {"request", "orphan", "intent"}
                     /\ todo \subseteq Op /\ requests \subseteq Op /\ outbound \subseteq Op
                     /\ caller \in [Op -> {"new", "asked", "degraded", "told", "refused", "gone"}]
                     /\ route \in [Op -> (SUBSET Alias) \union {None}]
                     /\ rows \in [Op -> SUBSET Alias] /\ taken \in [Op -> SUBSET Alias]
                     /\ awaiting \in [Op -> {"none", "open", "closed"}]
                     /\ roster \subseteq Alias
                     /\ appended \in [Op -> Nat]
                     /\ answered \subseteq Op
                     /\ mishaps \in 0..MaxMishaps
<1>a. RestOK /\ writer \in [Writer -> Record]
  BY DEF TypeOK, Record, Steps
<1>b. RestOK' /\ writer' \in [Writer -> Record] => TypeOK'
  BY DEF TypeOK, Record, Steps
<1>c. Broker \in Writer /\ Op \subseteq Writer /\ Resting \in Record
  BY DEF Writer, Resting, Record, Steps
<1>d. \A o \in Op : writer[Broker].op = o => o \in Op
  OBVIOUS
<1>e. ASSUME Misses PROVE mishaps' \in 0..MaxMishaps
  BY <1>a, <1>e, OutboxAssumption DEF Misses
<1> HIDE DEF RestOK
<1> USE DEF RestOK, broker, tables, history
<1>1. ASSUME NEW w \in Writer, Append(w) PROVE TypeOK'
  <2>1. writer' \in [Writer -> Record]
    BY <1>1, <1>a DEF Append, Record, Steps
  <2>2. writer[w].targets \in SUBSET Alias
    BY <1>a DEF Record
  <2>3. route' \in [Op -> (SUBSET Alias) \union {None}]
    BY <1>1, <2>2, <1>a DEF Append
  <2>4. appended' \in [Op -> Nat]
    <3>1. ASSUME NEW n PROVE [appended EXCEPT ![n] = @ + 1] \in [Op -> Nat]
      <4>1. CASE n \in Op
        BY <4>1, <1>a
      <4>2. CASE n \notin Op
        BY <4>2, <1>a
      <4> QED
        BY <4>1, <4>2
    <3> QED
      BY <3>1, <1>1, <1>a DEF Append
  <2> QED
    BY <1>1, <2>1, <2>3, <2>4, <1>a, <1>b DEF Append
<1>2. ASSUME NEW w \in Writer, NEW x \in Alias, Enqueue(w, x) PROVE TypeOK'
  BY <1>2, <1>a, <1>b DEF Enqueue, Record
<1>3. ASSUME NEW w \in Writer, Routed(w) PROVE TypeOK'
  <2>1. writer' \in [Writer -> Record]
    BY <1>3, <1>a DEF Routed, Record, Steps
  <2> QED
    BY <1>3, <2>1, <1>a, <1>b DEF Routed
<1>4. ASSUME NEW w \in Writer, Open(w) PROVE TypeOK'
  <2>1. writer' \in [Writer -> Record]
    BY <1>4, <1>a DEF Open, Record, Steps
  <2> QED
    BY <1>4, <2>1, <1>a, <1>b DEF Open
<1>5. ASSUME NEW o \in Op, Lookup(o) PROVE TypeOK'
  <2>1. writer' \in [Writer -> Record]
    BY <1>5, <1>a, <1>c, LookedUpType, WriterSet DEF Lookup, Steps
  <2> QED
    BY <1>5, <2>1, <1>a, <1>b DEF Lookup
<1>6. CASE CheckId
  <2>1. writer[Broker].op \in Op => TargetsOf(writer[Broker].op) \subseteq Alias
    BY TargetsType
  <2>2. TargetsOf(writer[Broker].op) \subseteq Alias
    BY <2>1, <1>6, <1>a, <1>c, OutboxAssumption DEF CheckId, Record
  <2>3. writer' \in [Writer -> Record]
    BY <1>6, <2>2, <1>a, <1>c DEF CheckId, Record, Steps
  <2> QED
    BY <1>6, <2>3, <1>a, <1>b DEF CheckId
<1>7. CASE Conflict \/ Respond \/ DropIntent
  <2>1. writer' \in [Writer -> Record]
    BY <1>7, <1>a, <1>c, WriterSet DEF Conflict, Respond, DropIntent
  <2> QED
    BY <1>7, <2>1, <1>a, <1>b DEF Conflict, Respond, DropIntent
<1>8. CASE Listen \/ Boot \/ Reconcile
  BY <1>8, <1>a, <1>b DEF Listen, Boot, Reconcile
<1>9. CASE Crash
  <2>1. writer' \in [Writer -> Record]
    BY <1>9, <1>a, <1>c, WriterSet DEF Crash
  <2> QED
    BY <1>9, <2>1, <1>a, <1>b, <1>e DEF Crash
<1>10. ASSUME NEW o \in Op, Ask(o) \/ Again(o) PROVE TypeOK'
  BY <1>10, <1>a, <1>b, <1>e DEF Ask, Again
<1>11. ASSUME NEW o \in Op, Degrade(o) PROVE TypeOK'
  <2>1. LookedUp(o, "unspooled") \in Record
    BY LookedUpType DEF Steps
  <2>2. [LookedUp(o, "unspooled") EXCEPT !.targets = TargetsOf(o)] \in Record
    BY <2>1, TargetsType, RecordSet DEF Steps
  <2>3. writer' \in [Writer -> Record]
    BY <1>11, <2>1, <2>2, <1>a, <1>c, WriterSet DEF Degrade
  <2>4. mishaps' \in 0..MaxMishaps
    BY <1>11, <1>a, <1>e DEF Degrade
  <2> QED
    BY <1>11, <2>3, <2>4, <1>a, <1>b DEF Degrade, HangsUp
<1>12. ASSUME NEW o \in Op, Spool(o) PROVE TypeOK'
  <2>1. writer' \in [Writer -> Record]
    BY <1>12, <1>a, <1>c DEF Spool, Record, Steps
  <2> QED
    BY <1>12, <2>1, <1>a, <1>b DEF Spool
<1>13. ASSUME NEW o \in Op, Report(o) PROVE TypeOK'
  <2>1. writer' \in [Writer -> Record]
    BY <1>13, <1>a, <1>c, WriterSet DEF Report
  <2> QED
    BY <1>13, <2>1, <1>a, <1>b DEF Report
<1>14. ASSUME NEW o \in Op, Kill(o) PROVE TypeOK'
  <2>1. writer' \in [Writer -> Record]
    BY <1>14, <1>a, <1>c, WriterSet DEF Kill
  <2> QED
    BY <1>14, <2>1, <1>a, <1>b, <1>e DEF Kill, HangsUp
<1>15. ASSUME NEW o \in Op, Answer(o) \/ Purge(o) PROVE TypeOK'
  BY <1>15, <1>a, <1>b DEF Answer, Purge
<1>16. ASSUME NEW o \in Op, NEW x \in Alias, Read(o, x) PROVE TypeOK'
  BY <1>16, <1>a, <1>b DEF Read
<1>17. ASSUME NEW x \in Alias, ChangeRoster(x) PROVE TypeOK'
  BY <1>17, <1>a, <1>b, <1>e DEF ChangeRoster
<1>18. CASE UNCHANGED vars
  BY <1>18, <1>a, <1>b DEF vars
<1> QED
  BY <1>1, <1>2, <1>3, <1>4, <1>5, <1>6, <1>7, <1>8, <1>9, <1>10, <1>11, <1>12, <1>13,
     <1>14, <1>15, <1>16, <1>17, <1>18, <1>c
     DEF Next, BrokerStep, ClientStep, Elsewhere

(* A step of one writer disturbs what others rely on only by taking away.  *)
LEMMA OthersKept ==
  ASSUME NEW w, writer'[w] = writer[w], WriterOK(w),
         writer[w].step \in {"routing", "opening", "done"} =>
           /\ Stored(writer[w].op) => Stored(writer[w].op)'
           /\ rows[writer[w].op] \subseteq rows'[writer[w].op]
           /\ awaiting[writer[w].op] # "none" => awaiting'[writer[w].op] # "none"
  PROVE  WriterOK(w)'
BY DEF WriterOK

(* The tables only grow outside the purge. *)
Grows ==
  \A o \in Op : /\ Stored(o) => Stored(o)'
                /\ rows[o] \subseteq rows'[o]
                /\ awaiting[o] # "none" => awaiting'[o] # "none"

(* A writer that moves is sound again, the others keep what they had. *)
LEMMA Mover ==
  ASSUME SendInv, TypeOK', BrokerOK', Grows, NEW w \in Writer, NEW r, writer' = [writer EXCEPT ![w] = r],
         WriterOK(w)',
         \A o \in Op : ClientOK(o)'
  PROVE  SendInv'
<1>1. ASSUME NEW v \in Writer PROVE WriterOK(v)'
  <2>1. CASE v = w
    BY <2>1
  <2>2. CASE v # w
    <3>1. writer'[v] = writer[v] /\ WriterOK(v)
      BY <2>2 DEF SendInv, TypeOK
    <3>2. writer[v].step \in {"routing", "opening", "done"} => writer[v].op \in Op
      BY <3>1 DEF WriterOK
    <3> QED
      BY <3>1, <3>2, OthersKept DEF Grows
  <2> QED
    BY <2>1, <2>2
<1> QED
  BY <1>1 DEF SendInv

(* A step in which no writer moves. *)
LEMMA NoMover ==
  ASSUME SendInv, TypeOK', BrokerOK', Grows, writer' = writer, \A o \in Op : ClientOK(o)'
  PROVE  SendInv'
<1>1. ASSUME NEW v \in Writer PROVE WriterOK(v)'
  <2>1. writer'[v] = writer[v] /\ WriterOK(v)
    BY DEF SendInv
  <2>2. writer[v].step \in {"routing", "opening", "done"} => writer[v].op \in Op
    BY <2>1 DEF WriterOK
  <2> QED
    BY <2>1, <2>2, OthersKept DEF Grows
<1> QED
  BY <1>1 DEF SendInv

(* A client that stops waiting hangs up, so the broker never answers the   *)
(* wrong attempt.                                                          *)
LEMMA NextBroker == ASSUME SendInv, [Next]_vars PROVE BrokerOK'
<1>a. TypeOK /\ BrokerOK /\ TypeOK'
  BY TypesKept DEF SendInv
<1>b. /\ Broker \in Writer /\ Op \subseteq Writer /\ Broker \notin Op
      /\ writer \in [Writer -> Record]
  BY <1>a, OutboxAssumption DEF Writer, TypeOK, Record, Steps
<1>c. ASSUME serving' = serving, caller' = caller,
             writer[Broker].step # "rest", writer'[Broker].op = writer[Broker].op
      PROVE  BrokerOK'
  BY <1>a, <1>c DEF BrokerOK
<1>d. ASSUME serving' = serving, writer'[Broker] = writer[Broker],
             \A o \in Op : caller[o] = "asked" => caller'[o] = "asked"
      PROVE  BrokerOK'
  <2>1. writer[Broker].step # "rest" => writer[Broker].op \in Op
    BY <1>b DEF SendInv, WriterOK
  <2> QED
    BY <1>a, <1>d, <2>1 DEF BrokerOK
<1>1. ASSUME NEW w \in Writer, Append(w) \/ Routed(w) \/ Open(w) PROVE BrokerOK'
  <2>1. serving' = serving /\ caller' = caller
    BY <1>1 DEF Append, Routed, Open, broker
  <2>2. CASE w = Broker
    <3>1. writer[Broker].step # "rest" /\ writer'[Broker].op = writer[Broker].op
      BY <1>1, <1>b, <2>2 DEF Append, Routed, Open, Record
    <3> QED
      BY <1>c, <2>1, <3>1
  <2>3. CASE w # Broker
    <3>1. writer'[Broker] = writer[Broker]
      BY <1>1, <1>b, <2>3 DEF Append, Routed, Open
    <3> QED
      BY <1>d, <2>1, <3>1
  <2> QED
    BY <2>2, <2>3
<1>2. ASSUME NEW w \in Writer, NEW x \in Alias, Enqueue(w, x) PROVE BrokerOK'
  BY <1>2, <1>d DEF Enqueue, broker
<1>3. ASSUME NEW o \in Op, Lookup(o) PROVE BrokerOK'
  <2>1. writer'[Broker].op = o /\ caller' = caller
    BY <1>3, <1>b DEF Lookup, LookedUp
  <2>2. serving' = "request" => caller[o] = "asked"
    BY <1>3 DEF Lookup
  <2> QED
    BY <2>1, <2>2 DEF BrokerOK
<1>4. CASE CheckId
  <2>1. writer[Broker].step # "rest" /\ writer'[Broker].op = writer[Broker].op
    BY <1>4, <1>b DEF CheckId, Record
  <2> QED
    BY <1>4, <1>c, <2>1 DEF CheckId, broker
<1>5. CASE Conflict \/ Respond \/ DropIntent \/ Crash
  <2>1. writer'[Broker].step = "rest"
    BY <1>5, <1>b DEF Conflict, Respond, DropIntent, Crash, Resting
  <2> QED
    BY <2>1 DEF BrokerOK
<1>6. CASE Listen \/ Boot \/ Reconcile
  BY <1>6, <1>d DEF Listen, Boot, Reconcile
<1>7. ASSUME NEW o \in Op, Ask(o) \/ Again(o) PROVE BrokerOK'
  BY <1>7, <1>a, <1>d DEF Ask, Again, broker, TypeOK
<1>8. ASSUME NEW o \in Op, Degrade(o) \/ Kill(o) PROVE BrokerOK'
  <2>1. writer'[Broker] = writer[Broker] /\ HangsUp(o)
    BY <1>8, <1>b DEF Degrade, Kill
  <2>2. \A p \in Op \ {o} : caller'[p] = caller[p]
    BY <1>8, <1>a DEF Degrade, Kill, TypeOK
  <2>3. writer[Broker].step # "rest" => writer[Broker].op \in Op
    BY <1>b DEF SendInv, WriterOK
  <2> QED
    BY <1>a, <2>1, <2>2, <2>3 DEF BrokerOK, HangsUp, Serves
<1>9. ASSUME NEW o \in Op, Spool(o) PROVE BrokerOK'
  BY <1>9, <1>b, <1>d DEF Spool, broker
<1>10. ASSUME NEW o \in Op, Report(o) PROVE BrokerOK'
  <2>1. caller[o] = "degraded"
    BY <1>10 DEF Report, SendInv, ClientOK
  <2> QED
    BY <1>10, <1>a, <1>b, <1>d, <2>1 DEF Report, broker, TypeOK
<1>11. ASSUME NEW o \in Op, Answer(o) \/ Purge(o) PROVE BrokerOK'
  BY <1>11, <1>d DEF Answer, Purge, broker
<1>12. ASSUME NEW o \in Op, NEW x \in Alias, Read(o, x) PROVE BrokerOK'
  BY <1>12, <1>d DEF Read, broker
<1>13. CASE (\E x \in Alias : ChangeRoster(x)) \/ UNCHANGED vars
  BY <1>13, <1>d DEF ChangeRoster, vars, broker
<1> QED
  BY <1>1, <1>2, <1>3, <1>4, <1>5, <1>6, <1>7, <1>8, <1>9, <1>10, <1>11, <1>12, <1>13, <1>b
     DEF Next, BrokerStep, ClientStep, Elsewhere

(* Each statement of a send establishes what the next one relies on, and   *)
(* the purge spares whatever is being sent.                                *)
LEMMA NextSend == SendInv /\ [Next]_vars => SendInv'
<1> SUFFICES ASSUME SendInv, [Next]_vars PROVE SendInv'
  OBVIOUS
<1>a. TypeOK /\ TypeOK'
  BY TypesKept DEF SendInv
<1>b. /\ Broker \in Writer /\ Op \subseteq Writer /\ Broker \notin Op
      /\ writer \in [Writer -> Record] /\ writer' \in [Writer -> Record]
  BY <1>a, OutboxAssumption DEF Writer, TypeOK, Record, Steps
<1>c. \A w \in Writer : WriterOK(w)
  BY DEF SendInv
<1>d. \A o \in Op : ClientOK(o)
  BY DEF SendInv
<1>e. ASSUME tables' = tables PROVE Grows
  BY <1>e DEF Grows, Stored, tables
<1>f. ASSUME NEW w \in Writer, writer[w].step # "rest",
             writer'[w].step # "rest" /\ writer'[w].op = writer[w].op, caller' = caller,
             \A v \in Writer \ {w} : writer'[v] = writer[v]
      PROVE  \A o \in Op : ClientOK(o)'
  BY <1>d, <1>b, <1>f DEF ClientOK
<1>g. BrokerOK'
  BY NextBroker
<1>1. ASSUME NEW w \in Writer, Append(w) PROVE SendInv'
  <2> DEFINE r == [writer[w] EXCEPT !.step = "routing"]
  <2>1. writer[w].op \in Op /\ writer' = [writer EXCEPT ![w] = r]
    BY <1>1, <1>b, <1>c DEF Append, WriterOK
  <2>2. writer[w].targets # None
    BY <1>b, OutboxAssumption DEF Record
  <2>3. Grows /\ Stored(writer[w].op)'
    BY <1>1, <1>a, <2>1, <2>2 DEF Append, Grows, Stored, TypeOK
  <2>4. writer'[w] = r /\ r.step = "routing" /\ r.op = writer[w].op
    BY <1>b, <2>1 DEF Record
  <2>5. WriterOK(w)'
    BY <2>1, <2>3, <2>4 DEF WriterOK, Stored
  <2>6. \A o \in Op : ClientOK(o)'
    BY <1>1, <1>b, <1>f, <2>1, <2>4 DEF Append
  <2> QED
    BY <1>a, <2>1, <2>3, <2>5, <2>6, <1>g, Mover
<1>2. ASSUME NEW w \in Writer, NEW x \in Alias, Enqueue(w, x) PROVE SendInv'
  <2>1. Grows
    BY <1>2, <1>a DEF Enqueue, Grows, Stored, TypeOK
  <2>2. \A o \in Op : ClientOK(o)'
    BY <1>2, <1>d DEF Enqueue, ClientOK
  <2> QED
    BY <1>2, <1>a, <2>1, <2>2, <1>g, NoMover DEF Enqueue
<1>3. ASSUME NEW w \in Writer, Routed(w) PROVE SendInv'
  <2> DEFINE next == IF writer[w].op \in Asks /\ (writer[w].fresh \/ awaiting[writer[w].op] = "none")
                     THEN "opening" ELSE "done"
             r == [writer[w] EXCEPT !.step = next]
  <2>1. writer[w].op \in Op /\ writer' = [writer EXCEPT ![w] = r] /\ tables' = tables
    BY <1>3, <1>b, <1>c DEF Routed, WriterOK
  <2>2. writer'[w] = r /\ r.step = next /\ r.op = writer[w].op /\ r.targets = writer[w].targets
    BY <1>b, <2>1 DEF Record
  <2>3. WriterOK(w)'
    BY <1>3, <1>c, <2>1, <2>2 DEF WriterOK, Stored, Routed, tables
  <2>4. \A o \in Op : ClientOK(o)'
    BY <1>3, <1>b, <1>f, <2>1, <2>2 DEF Routed
  <2> QED
    BY <1>a, <1>e, <2>1, <2>3, <2>4, <1>g, Mover
<1>4. ASSUME NEW w \in Writer, Open(w) PROVE SendInv'
  <2> DEFINE r == [writer[w] EXCEPT !.step = "done"]
  <2>1. writer[w].op \in Op /\ writer' = [writer EXCEPT ![w] = r]
    BY <1>4, <1>b, <1>c DEF Open, WriterOK
  <2>2. writer'[w] = r /\ r.step = "done" /\ r.op = writer[w].op /\ r.targets = writer[w].targets
    BY <1>b, <2>1 DEF Record
  <2>3. Grows /\ awaiting'[writer[w].op] # "none"
    BY <1>4, <1>a, <2>1 DEF Open, Grows, Stored, TypeOK
  <2>4. WriterOK(w)'
    BY <1>4, <1>c, <2>1, <2>2, <2>3 DEF WriterOK, Stored, Open
  <2>5. \A o \in Op : ClientOK(o)'
    BY <1>4, <1>b, <1>f, <2>1, <2>2 DEF Open
  <2> QED
    BY <1>a, <2>1, <2>3, <2>4, <2>5, <1>g, Mover
<1>5. ASSUME NEW o \in Op, Lookup(o) PROVE SendInv'
  <2>1. writer' = [writer EXCEPT ![Broker] = LookedUp(o, "looked")] /\ tables' = tables /\ caller' = caller
    BY <1>5 DEF Lookup
  <2>2. writer'[Broker] = LookedUp(o, "looked")
    BY <1>b, <2>1
  <2>3. WriterOK(Broker)'
    BY <2>1, <2>2 DEF WriterOK, LookedUp, Stored, tables
  <2>4. \A p \in Op : ClientOK(p)'
    BY <1>b, <1>d, <2>1 DEF ClientOK
  <2> QED
    BY <1>a, <1>b, <1>e, <2>1, <2>3, <2>4, <1>g, Mover
<1>6. CASE CheckId
  <2> DEFINE r == [writer[Broker] EXCEPT !.step = "ready", !.targets = TargetsOf(writer[Broker].op)]
  <2>1. writer' = [writer EXCEPT ![Broker] = r] /\ tables' = tables /\ caller' = caller
    BY <1>6, <1>b DEF CheckId
  <2>2. writer'[Broker] = r /\ r.step = "ready" /\ r.op = writer[Broker].op
    BY <1>b, <2>1 DEF Record
  <2>3. WriterOK(Broker)'
    BY <1>6, <1>b, <1>c, <2>2 DEF WriterOK, CheckId
  <2>4. \A p \in Op : ClientOK(p)'
    BY <1>b, <1>d, <2>1 DEF ClientOK
  <2> QED
    BY <1>a, <1>b, <1>e, <2>1, <2>3, <2>4, <1>g, Mover
<1>7. CASE Conflict \/ Respond \/ DropIntent
  <2>1. writer' = [writer EXCEPT ![Broker] = Resting] /\ tables' = tables
    BY <1>7 DEF Conflict, Respond, DropIntent, tables
  <2>2. WriterOK(Broker)'
    BY <1>b, <2>1 DEF WriterOK, Resting
  <2>3. \A p \in Op : caller[p] = "degraded" => caller'[p] = "degraded"
    <3>1. writer[Broker].step # "rest"
      BY <1>7 DEF Conflict, Respond, DropIntent
    <3>2. serving = "request" => caller[writer[Broker].op] = "asked"
      BY <3>1 DEF SendInv, BrokerOK
    <3> QED
      BY <1>7, <1>a, <3>2 DEF Conflict, Respond, DropIntent, TypeOK
  <2>4. \A p \in Op : ClientOK(p)'
    BY <1>b, <1>d, <2>1, <2>3 DEF ClientOK
  <2> QED
    BY <1>a, <1>b, <1>e, <2>1, <2>2, <2>4, <1>g, Mover
<1>8. CASE Listen \/ Boot \/ Reconcile
  <2>1. writer' = writer /\ tables' = tables /\ caller' = caller
    BY <1>8 DEF Listen, Boot, Reconcile
  <2>2. \A o \in Op : ClientOK(o)'
    BY <1>d, <2>1 DEF ClientOK
  <2> QED
    BY <1>a, <1>e, <2>1, <2>2, <1>g, NoMover
<1>9. CASE Crash
  <2>1. writer' = [writer EXCEPT ![Broker] = Resting] /\ tables' = tables /\ caller' = caller
    BY <1>9 DEF Crash
  <2>2. WriterOK(Broker)'
    BY <1>b, <2>1 DEF WriterOK, Resting
  <2>3. \A p \in Op : ClientOK(p)'
    BY <1>b, <1>d, <2>1 DEF ClientOK
  <2> QED
    BY <1>a, <1>b, <1>e, <2>1, <2>2, <2>3, <1>g, Mover
<1>10. ASSUME NEW o \in Op, Ask(o) \/ Again(o) PROVE SendInv'
  <2>1. /\ writer' = writer /\ tables' = tables
        /\ \A p \in Op : caller[p] = "degraded" => caller'[p] = "degraded"
    BY <1>10, <1>a DEF Ask, Again, TypeOK
  <2>2. \A p \in Op : ClientOK(p)'
    BY <1>d, <2>1 DEF ClientOK
  <2> QED
    BY <1>a, <1>e, <2>1, <2>2, <1>g, NoMover
<1>11. ASSUME NEW o \in Op, Degrade(o) PROVE SendInv'
  <2> DEFINE r == IF Stored(o) THEN LookedUp(o, "unspooled")
                  ELSE [LookedUp(o, "unspooled") EXCEPT !.targets = TargetsOf(o)]
  <2>1. writer' = [writer EXCEPT ![o] = r] /\ tables' = tables
    BY <1>11 DEF Degrade
  <2>2. /\ writer'[o] = r /\ r.op = o
        /\ r.step = "unspooled" \/ (r.step = "routing" /\ Stored(o))
    BY <1>b, <2>1 DEF LookedUp
  <2>3. WriterOK(o)'
    BY <2>1, <2>2 DEF WriterOK, Stored, tables
  <2>4. \A p \in Op : ClientOK(p)'
    <3>1. caller'[o] = "degraded" /\ \A p \in Op \ {o} : caller'[p] = caller[p] /\ writer'[p] = writer[p]
      BY <1>11, <1>a, <1>b, <2>1 DEF Degrade, TypeOK
    <3>2. writer'[o].op = o
      BY <2>2
    <3> QED
      BY <1>d, <3>1, <3>2 DEF ClientOK
  <2> QED
    BY <1>a, <1>b, <1>e, <2>1, <2>3, <2>4, <1>g, Mover
<1>12. ASSUME NEW o \in Op, Spool(o) PROVE SendInv'
  <2> DEFINE r == [writer[o] EXCEPT !.step = "ready"]
  <2>1. writer' = [writer EXCEPT ![o] = r] /\ tables' = tables /\ caller' = caller
    BY <1>12, <1>b DEF Spool
  <2>2. writer'[o] = r /\ r.step = "ready" /\ r.op = writer[o].op
    BY <1>b, <2>1 DEF Record
  <2>3. WriterOK(o)'
    BY <1>12, <1>b, <1>c, <2>2 DEF WriterOK, Spool
  <2>4. \A p \in Op : ClientOK(p)'
    BY <1>12, <1>b, <1>f, <2>1, <2>2 DEF Spool
  <2> QED
    BY <1>a, <1>b, <1>e, <2>1, <2>3, <2>4, <1>g, Mover
<1>13. ASSUME NEW o \in Op, Report(o) \/ Kill(o) PROVE SendInv'
  <2>1. writer' = [writer EXCEPT ![o] = Resting] /\ tables' = tables
    BY <1>13 DEF Report, Kill
  <2>2. WriterOK(o)'
    BY <1>b, <2>1 DEF WriterOK, Resting
  <2>3. \A p \in Op : ClientOK(p)'
    <3>1. writer'[o].step = "rest" /\ \A p \in Op \ {o} : caller'[p] = caller[p] /\ writer'[p] = writer[p]
      BY <1>13, <1>a, <1>b, <2>1 DEF Report, Kill, Resting, TypeOK
    <3> QED
      BY <1>d, <3>1 DEF ClientOK
  <2> QED
    BY <1>a, <1>b, <1>e, <2>1, <2>2, <2>3, <1>g, Mover
<1>14. ASSUME NEW o \in Op, Answer(o) PROVE SendInv'
  <2>1. Grows
    BY <1>14, <1>a DEF Answer, Grows, Stored, TypeOK
  <2>2. \A p \in Op : ClientOK(p)'
    BY <1>14, <1>d DEF Answer, ClientOK
  <2> QED
    BY <1>14, <1>a, <2>1, <2>2, <1>g, NoMover DEF Answer
<1>15. ASSUME NEW o \in Op, Purge(o) PROVE SendInv'
  <2>1. /\ writer' = writer /\ caller' = caller
        /\ writer[Broker].step = "rest" /\ caller[o] # "degraded"
    BY <1>15 DEF Purge, Idle
  <2>2. \A p \in Op \ {o} : route'[p] = route[p] /\ rows'[p] = rows[p] /\ awaiting'[p] = awaiting[p]
    BY <1>15, <1>a DEF Purge, TypeOK
  <2>3. ASSUME NEW v \in Writer PROVE WriterOK(v)'
    <3>1. CASE writer[v].step = "rest"
      BY <2>1, <3>1 DEF WriterOK
    <3>2. CASE writer[v].step # "rest"
      <4>1. v \in Op /\ caller[v] = "degraded" /\ writer[v].op = v /\ v # o
        BY <1>d, <2>1, <3>2 DEF ClientOK, Writer
      <4> QED
        BY <1>c, <2>1, <2>2, <4>1 DEF WriterOK, Stored
    <3> QED
      BY <3>1, <3>2
  <2>4. \A p \in Op : ClientOK(p)'
    BY <1>d, <2>1 DEF ClientOK
  <2> QED
    BY <1>a, <1>g, <2>3, <2>4 DEF SendInv
<1>16. ASSUME NEW o \in Op, NEW x \in Alias, Read(o, x) PROVE SendInv'
  <2>1. Grows
    BY <1>16 DEF Read, Grows, Stored
  <2>2. \A p \in Op : ClientOK(p)'
    BY <1>16, <1>d DEF Read, ClientOK
  <2> QED
    BY <1>16, <1>a, <2>1, <2>2, <1>g, NoMover DEF Read
<1>17. CASE (\E x \in Alias : ChangeRoster(x)) \/ UNCHANGED vars
  <2>1. writer' = writer /\ tables' = tables /\ caller' = caller
    BY <1>17 DEF ChangeRoster, vars
  <2>2. \A p \in Op : ClientOK(p)'
    BY <1>d, <2>1 DEF ClientOK
  <2> QED
    BY <1>a, <1>e, <2>1, <2>2, <1>g, NoMover
<1> QED
  BY <1>1, <1>2, <1>3, <1>4, <1>5, <1>6, <1>7, <1>8, <1>9, <1>10, <1>11, <1>12, <1>13,
     <1>14, <1>15, <1>16, <1>17, <1>b
     DEF Next, BrokerStep, ClientStep, Elsewhere

(* Only two steps take an intent out of the outbox: the reconcile that has *)
(* replayed it, and the one that found the message there already.          *)
LEMMA IntentKept ==
  ASSUME SendInv, [Next]_vars, NEW o \in outbound \ outbound'
  PROVE  Stored(o)'
<1>1. CASE Conflict \/ DropIntent
  <2>1. o = writer[Broker].op /\ route' = route
    BY <1>1 DEF Conflict, DropIntent, tables
  <2>2. WriterOK(Broker)
    BY DEF SendInv, Writer
  <2> QED
    BY <1>1, <2>1, <2>2 DEF Conflict, DropIntent, WriterOK, Stored
<1>2. CASE ~(Conflict \/ DropIntent)
  <2>1. outbound \subseteq outbound'
    BY <1>2 DEF Next, BrokerStep, ClientStep, Elsewhere, vars, Append, Enqueue, Routed, Open,
       Lookup, CheckId, Respond, Listen, Boot, Reconcile, Crash, Ask, Degrade, Spool, Report,
       Kill, Again, Answer, Read, Purge, ChangeRoster
  <2> QED
    BY <2>1
<1> QED
  BY <1>1, <1>2

(* Whichever of the broker and a degraded client made the attempt, and     *)
(* wherever an earlier one broke off, a writer that reports success has    *)
(* left a delivery row per recipient and an awaiting row for an ask.       *)
THEOREM ReportedSendsAreComplete == Spec => []SuccessIsComplete
<1>1. Init => SendInv
  BY InitSend
<1>2. SendInv /\ [Next]_vars => SendInv'
  BY NextSend
<1>3. SendInv => SuccessIsComplete
  BY DEF SendInv, WriterOK, SuccessIsComplete
<1> QED
  BY <1>1, <1>2, <1>3, PTL DEF Spec

(* An intent leaves the outbox only once its message is in the log         *)
(* (Router.reconcile), so a crash between any two statements loses none.   *)
THEOREM OutboxLosesNothing == Spec => IntentOutlivesCrash
<1>1. Init => SendInv
  BY InitSend
<1>2. SendInv /\ [Next]_vars => SendInv'
  BY NextSend
<1>3. SendInv /\ [Next]_vars => [\A o \in outbound \ outbound' : Stored(o)']_vars
  BY IntentKept
<1> QED
  BY <1>1, <1>2, <1>3, PTL DEF Spec, IntentOutlivesCrash

(* The tables of the outbox model keep their types. *)
THEOREM OutboxTypes == Spec => []TypeOK
<1>1. Init => TypeOK
  BY InitSend DEF SendInv
<1>2. TypeOK /\ [Next]_vars => TypeOK'
  BY TypesKept
<1> QED
  BY <1>1, <1>2, PTL DEF Spec
=============================================================================
