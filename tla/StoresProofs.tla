---------------------------- MODULE StoresProofs ----------------------------
(***************************************************************************)
(* Stores for every set of messages, addresses, leases and intents, every  *)
(* fan-out and every bound on the clock: the store the tests run on and    *)
(* the store the broker runs on cannot be told apart, and each mints an    *)
(* event when an inbox changes.                                            *)
(***************************************************************************)
EXTENDS Stores, FiniteSetTheorems, FunctionTheorems, TLAPS

(* The rows of the tables, and the types of the maps of memory.            *)
Leasable == {"queued", "delivered"}
Until == 0..(MaxClock + LeaseFor)
Key(r) == <<r.msg, r.box>>
Copy(r) == [state |-> r.state, ts |-> r.ts]
FreeLease == [id |-> None, until |-> 0]
LeaseAt(L, k) == IF k \in DOMAIN L THEN L[k] ELSE FreeLease

MsgRow == [id : Msg, ts : 0..LastSend]
Row == [msg : Msg, box : Box, state : State, lease : Lease \union {None}, until : Until,
        ts : 0..LastSend]
AskRow == [origin : Msg, expires : Int, replyBy : {None}, closed : BOOLEAN,
           reason : {None, "replied"}, stage : 0..2, from : Int]
IntentRow == [op : Intent, from : Box, ts : Int]
ClaimRow == [msg : Msg, alias : Box]
SupersededRow == [msg : Msg, by : Msg]
RouteRow == [msg : Msg, targets : SUBSET Box]

Tables ==
  [messages : SUBSET MsgRow, deliveries : SUBSET Row, awaiting : SUBSET AskRow,
   claims : SUBSET ClaimRow, passes : SUBSET (Msg \X Box), superseded : SUBSET SupersededRow,
   routes : SUBSET RouteRow, intents : SUBSET IntentRow, surfaces : SUBSET (Msg \X Box),
   registry : SUBSET Entry, moved : {{}}, out : {None}]

Maps(S, T) == UNION {[X -> T] : X \in SUBSET S}
CopyMaps == Maps(Msg \X Box, [state : State, ts : 0..LastSend])
LeaseMaps == Maps(Msg \X Box, [id : Lease, until : Until])
AskMaps == Maps(Msg, AskRow)
IntentMaps == Maps(Intent, IntentRow)
TimeMaps == Maps(Msg, 0..LastSend)
BoxMaps == Maps(Msg, Box)
NextMaps == Maps(Msg, Msg)
RouteMaps == Maps(Msg, SUBSET Box)

MapsOfMemory ==
  [messages : TimeMaps, deliveries : CopyMaps, awaiting : AskMaps, leases : LeaseMaps,
   claims : BoxMaps, passes : SUBSET (Msg \X Box), superseded : NextMaps, routes : RouteMaps,
   intents : IntentMaps, surfaces : SUBSET (Msg \X Box), registry : SUBSET Entry,
   moved : {{}}, out : {None}]

(* When a table and a map say the same.  The lease of a copy counts only   *)
(* while the copy can be leased: TypeOK and StoresAgree alone are not      *)
(* inductive, for they do not say that keys are unique, that a copy's      *)
(* message is there, or which leases memory may still hold.                *)
MessagesAgree(M, F) == M = {[id |-> m, ts |-> F[m]] : m \in DOMAIN F}
CopiesAgree(D, F, L) ==
  /\ DOMAIN F = {Key(r) : r \in D}
  /\ \A r \in D : F[Key(r)] = Copy(r)
  /\ \A r \in D : r.state \in Leasable => LeaseAt(L, Key(r)) = [id |-> r.lease, until |-> r.until]
  /\ \A r, x \in D : Key(r) = Key(x) => r = x
AsksAgree(A, F) == A = {F[m] : m \in DOMAIN F} /\ \A m \in DOMAIN F : F[m].origin = m
ClaimsAgree(C, F) == C = {[msg |-> m, alias |-> F[m]] : m \in DOMAIN F}
ReplacedAgree(C, F) == C = {[msg |-> m, by |-> F[m]] : m \in DOMAIN F}
RoutesAgree(C, F) == C = {[msg |-> m, targets |-> F[m]] : m \in DOMAIN F}
IntentsAgree(A, F) == A = {F[m] : m \in DOMAIN F} /\ \A m \in DOMAIN F : F[m].op = m

Alike ==
  /\ MessagesAgree(sql.messages, mem.messages)
  /\ CopiesAgree(sql.deliveries, mem.deliveries, mem.leases)
  /\ AsksAgree(sql.awaiting, mem.awaiting)
  /\ ClaimsAgree(sql.claims, mem.claims)
  /\ ReplacedAgree(sql.superseded, mem.superseded)
  /\ RoutesAgree(sql.routes, mem.routes)
  /\ IntentsAgree(sql.intents, mem.intents)
  /\ sql.passes = mem.passes /\ sql.surfaces = mem.surfaces /\ sql.registry = mem.registry

(* Copies, routes, asks and leases are of messages that were handed out,   *)
(* and a copy is of a message that is still there: the purge takes them    *)
(* together.  So a new id finds nothing of its own in either store, and no *)
(* join loses a row.                                                       *)
Grounded ==
  /\ DOMAIN mem.messages \subseteq used
  /\ DOMAIN mem.routes \subseteq used
  /\ DOMAIN mem.awaiting \subseteq Asks \intersect used
  /\ \A k \in DOMAIN mem.deliveries : k[1] \in DOMAIN mem.messages /\ k[2] \in To[k[1]]
  /\ \A k \in DOMAIN mem.leases : k[1] \in used /\ (k[1] \in DOMAIN mem.messages => k \in DOMAIN mem.deliveries)
  /\ IsFiniteSet(DOMAIN mem.deliveries)

Typed ==
  /\ sql \in Tables /\ mem \in MapsOfMemory
  /\ used \subseteq Msg /\ now \in 0..MaxClock /\ agreed = TRUE /\ beside \in BOOLEAN
  /\ moved \subseteq Box /\ memMoved \subseteq Box

StoresInv == Typed /\ Alike /\ Grounded

-----------------------------------------------------------------------------
(* A map is a function from some of its keys.                              *)
LEMMA MapsAreFunctions ==
  ASSUME NEW S, NEW T, NEW f
  PROVE f \in Maps(S, T) <=> DOMAIN f \subseteq S /\ f \in [DOMAIN f -> T]
BY DEF Maps

(* The same of the map of copies.                                          *)
LEMMA CopyMapsAreFunctions ==
  ASSUME NEW F
  PROVE F \in CopyMaps <=> /\ DOMAIN F \subseteq Msg \X Box
                           /\ F \in [DOMAIN F -> [state : State, ts : 0..LastSend]]
BY DEF CopyMaps, Maps

(* A row and the entry under its key, and an entry and a row of its key.   *)
LEMMA CopyOfRow ==
  ASSUME NEW D \in SUBSET Row, NEW F, NEW L, CopiesAgree(D, F, L), F \in CopyMaps
  PROVE /\ \A r \in D : Key(r) \in DOMAIN F /\ F[Key(r)].state = r.state /\ F[Key(r)].ts = r.ts
        /\ \A k \in DOMAIN F : \E r \in D : Key(r) = k
        /\ \A k \in DOMAIN F : k = <<k[1], k[2]>> /\ k[1] \in Msg /\ k[2] \in Box
<1>1. \A r \in D : Key(r) \in DOMAIN F /\ F[Key(r)] = Copy(r)
  BY DEF CopiesAgree, Key
<1>2. \A r \in D : F[Key(r)].state = r.state /\ F[Key(r)].ts = r.ts
  <2> TAKE r \in D
  <2>1. F[Key(r)] = [state |-> r.state, ts |-> r.ts]
    BY <1>1 DEF Copy
  <2> QED
    BY <2>1
<1>3. \A k \in DOMAIN F : k = <<k[1], k[2]>> /\ k[1] \in Msg /\ k[2] \in Box
  BY CopyMapsAreFunctions
<1>4. \A k \in DOMAIN F : \E r \in D : Key(r) = k
  BY DEF CopiesAgree, Key
<1> QED
  BY <1>1, <1>2, <1>3, <1>4

(* An UPDATE over the copies: g maps each row to the row it becomes, and   *)
(* memory puts the entries under keys into one state.                      *)
Rewritten(D, g) == {g[r] : r \in D}
PutAt(F, keys, st) == [k \in DOMAIN F |-> IF k \in keys THEN [F[k] EXCEPT !.state = st] ELSE F[k]]

(* g says what becomes of each row of D; memory puts the copies under keys *)
(* into state st and its leases are then L.                                *)
Rewrites(D, g, keys, st, L) ==
  /\ g \in [D -> Row] /\ st \in State
  /\ \A r \in D : Key(g[r]) = Key(r) /\ g[r].ts = r.ts
  /\ \A r \in D : g[r].state = IF Key(r) \in keys THEN st ELSE r.state
  /\ \A r \in D : g[r].state \in Leasable =>
       LeaseAt(L, Key(r)) = [id |-> g[r].lease, until |-> g[r].until]

(* An UPDATE that leaves keys and times alone, with the same change of     *)
(* state in memory, keeps the two in agreement.                            *)
LEMMA RewriteAgrees ==
  ASSUME NEW D, NEW F, NEW L, NEW L2, NEW keys, NEW st, NEW g,
         D \subseteq Row, F \in CopyMaps, CopiesAgree(D, F, L), Rewrites(D, g, keys, st, L2)
  PROVE /\ CopiesAgree(Rewritten(D, g), PutAt(F, keys, st), L2)
        /\ PutAt(F, keys, st) \in CopyMaps
        /\ DOMAIN PutAt(F, keys, st) = DOMAIN F
        /\ Rewritten(D, g) \subseteq Row
<1>0. /\ g \in [D -> Row] /\ st \in State
      /\ \A r \in D : Key(g[r]) = Key(r) /\ g[r].ts = r.ts
      /\ \A r \in D : g[r].state = IF Key(r) \in keys THEN st ELSE r.state
      /\ \A r \in D : g[r].state \in Leasable =>
           LeaseAt(L2, Key(r)) = [id |-> g[r].lease, until |-> g[r].until]
  BY DEF Rewrites
<1> DEFINE D2 == Rewritten(D, g)  F2 == PutAt(F, keys, st)
<1>1. DOMAIN F2 = DOMAIN F /\ D2 \subseteq Row
  BY <1>0 DEF PutAt, Rewritten
<1>2. F2 \in CopyMaps
  <2>1. DOMAIN F \subseteq Msg \X Box /\ F \in [DOMAIN F -> [state : State, ts : 0..LastSend]]
    BY CopyMapsAreFunctions
  <2>2. \A k \in DOMAIN F : [F[k] EXCEPT !.state = st] \in [state : State, ts : 0..LastSend]
    BY <1>0, <2>1
  <2>3. F2 \in [DOMAIN F -> [state : State, ts : 0..LastSend]]
    BY <2>1, <2>2 DEF PutAt
  <2> HIDE DEF F2
  <2> QED
    BY <1>1, <2>1, <2>3, CopyMapsAreFunctions
<1>3. DOMAIN F2 = {Key(r) : r \in D2}
  BY <1>0, <1>1 DEF CopiesAgree, Rewritten
<1>4. \A r \in D : F2[Key(r)] = Copy(g[r])
  <2> TAKE r \in D
  <2>1. Key(r) \in DOMAIN F /\ F[Key(r)] = Copy(r)
    BY DEF CopiesAgree, Key
  <2>2. F2[Key(r)] = IF Key(r) \in keys THEN [F[Key(r)] EXCEPT !.state = st] ELSE F[Key(r)]
    BY <2>1 DEF PutAt
  <2>3. CASE Key(r) \in keys
    <3>1. [Copy(r) EXCEPT !.state = st] = [state |-> st, ts |-> r.ts]
      BY DEF Copy
    <3> QED
      BY <1>0, <2>1, <2>2, <2>3, <3>1 DEF Copy
  <2>4. CASE Key(r) \notin keys
    BY <1>0, <2>1, <2>2, <2>4 DEF Copy
  <2> QED
    BY <2>3, <2>4
<1>5. \A x \in D2 : F2[Key(x)] = Copy(x)
  BY <1>0, <1>4 DEF Rewritten
<1>6. \A x \in D2 : x.state \in Leasable => LeaseAt(L2, Key(x)) = [id |-> x.lease, until |-> x.until]
  BY <1>0 DEF Rewritten
<1>7. \A x, y \in D2 : Key(x) = Key(y) => x = y
  BY <1>0 DEF Rewritten, CopiesAgree
<1> QED
  BY <1>1, <1>2, <1>3, <1>5, <1>6, <1>7 DEF CopiesAgree

(* What is pending at an address, and the addresses where an UPDATE takes  *)
(* a row into the inbox or out of it.                                      *)
PendingOf(D, b) == {r.msg : r \in {x \in D : x.box = b /\ x.state \in Sql!PendingStates}}
Flips(D, g) ==
  {c \in Box : \E r \in D :
     r.box = c /\ ~ (r.state \in Sql!PendingStates <=> g[r].state \in Sql!PendingStates)}

(* Such an UPDATE changes an inbox exactly when it takes a row across the  *)
(* line between pending and not.                                           *)
LEMMA RewriteMoves ==
  ASSUME NEW D, NEW F, NEW L, NEW L2, NEW keys, NEW st, NEW g, NEW b \in Box,
         D \subseteq Row, CopiesAgree(D, F, L), Rewrites(D, g, keys, st, L2)
  PROVE PendingOf(D, b) # PendingOf(Rewritten(D, g), b) <=> b \in Flips(D, g)
<1> DEFINE P == Sql!PendingStates
           Old == {r.msg : r \in {x \in D : x.box = b /\ x.state \in P}}
           New == {r.msg : r \in {x \in Rewritten(D, g) : x.box = b /\ x.state \in P}}
<1>0. /\ \A r, x \in D : Key(r) = Key(x) => r = x
      /\ \A r \in D : Key(g[r]) = Key(r)
  BY DEF Rewrites, CopiesAgree
<1>1. \A r \in D : r.box = b => (r.msg \in Old <=> r.state \in P)
  BY <1>0 DEF Key
<1>2. \A r \in D : g[r].box = r.box /\ g[r].msg = r.msg
  BY <1>0 DEF Key
<1>3. \A r \in D : r.box = b => (r.msg \in New <=> g[r].state \in P)
  BY <1>0, <1>2 DEF Rewritten, Key
<1>4. \A m \in Old \union New : \E r \in D : r.msg = m /\ r.box = b
  BY <1>2 DEF Rewritten
<1>5. Old # New <=> \E r \in D : r.box = b /\ ~ (r.state \in P <=> g[r].state \in P)
  <2> HIDE DEF Old, New, P
  <2>1. ASSUME Old # New PROVE \E r \in D : r.box = b /\ ~ (r.state \in P <=> g[r].state \in P)
    <3>1. PICK m \in Old \union New : ~ (m \in Old <=> m \in New)
      BY <2>1
    <3>2. PICK r \in D : r.msg = m /\ r.box = b
      BY <1>4
    <3> QED
      BY <3>1, <3>2, <1>1, <1>3
  <2>2. ASSUME NEW r \in D, r.box = b, ~ (r.state \in P <=> g[r].state \in P) PROVE Old # New
    BY <2>2, <1>1, <1>3
  <2> QED
    BY <2>1, <2>2
<1> QED
  BY <1>5 DEF PendingOf, Flips

-----------------------------------------------------------------------------
(* The rows of a table, and the keys of a map, that are of the same        *)
(* copies.                                                                 *)
SameCopies(D, F, L, rows, keys) ==
  /\ D \subseteq Row /\ F \in CopyMaps /\ CopiesAgree(D, F, L)
  /\ rows \subseteq D /\ keys \subseteq DOMAIN F
  /\ \A r \in D : r \in rows <=> Key(r) \in keys

(* Rows and keys that name the same copies name the same ids and the same  *)
(* addresses, and as many of them.                                         *)
LEMMA RowsAndKeys ==
  ASSUME NEW D, NEW F, NEW L, NEW rows, NEW keys, SameCopies(D, F, L, rows, keys)
  PROVE /\ Sql!Ids(rows) = Mem!Ids(keys)
        /\ Sql!Boxes(rows) = {k[2] : k \in keys}
        /\ rows = {} <=> keys = {}
        /\ IsFiniteSet(DOMAIN F) => Cardinality(rows) = Cardinality(keys)
<1>. /\ D \in SUBSET Row /\ F \in CopyMaps /\ CopiesAgree(D, F, L)
     /\ rows \in SUBSET D /\ keys \in SUBSET DOMAIN F
     /\ \A r \in D : r \in rows <=> Key(r) \in keys
  BY DEF SameCopies
<1>1. \A k \in keys : \E r \in rows : Key(r) = k
  <2> TAKE k \in keys
  <2>1. PICK r \in D : Key(r) = k
    BY CopyOfRow
  <2> QED
    BY <2>1
<1>2. \A k \in keys : k[1] \in Sql!Ids(rows) /\ k[2] \in Sql!Boxes(rows)
  BY <1>1 DEF Sql!Ids, Sql!Boxes, Key
<1>3. \A r \in rows : r.msg = Key(r)[1] /\ r.box = Key(r)[2] /\ Key(r) \in keys
  BY DEF Key
<1>4. Sql!Ids(rows) = Mem!Ids(keys)
  BY <1>2, <1>3 DEF Sql!Ids, Mem!Ids
<1>5. Sql!Boxes(rows) = {k[2] : k \in keys}
  BY <1>2, <1>3 DEF Sql!Boxes
<1>6. rows = {} <=> keys = {}
  BY <1>1, <1>3
<1>7. ASSUME IsFiniteSet(DOMAIN F) PROVE Cardinality(rows) = Cardinality(keys)
  <2> DEFINE f == [r \in rows |-> Key(r)]
  <2>1. f \in Bijection(rows, keys)
    <3>1. \A r, x \in rows : Key(r) = Key(x) => r = x
      BY DEF CopiesAgree
    <3>2. f \in [rows -> keys]
      OBVIOUS
    <3>3. \A k \in keys : \E r \in rows : f[r] = k
      BY <1>1
    <3>4. \A r, x \in rows : f[r] = f[x] => r = x
      BY <3>1
    <3> HIDE DEF f
    <3> QED
      BY <3>2, <3>3, <3>4, Fun_IsBij
  <2>2. IsFiniteSet(keys)
    BY <1>7, FS_Subset
  <2>3. ExistsBijection(keys, rows)
    BY <2>1, Fun_ExistsBijSymmetric DEF ExistsBijection
  <2> QED
    BY <2>2, <2>3, FS_Bijection
<1> QED
  BY <1>4, <1>5, <1>6, <1>7

(* Every copy's message is there, so joining the tables loses nothing.     *)
LEMMA NothingLostInJoin ==
  ASSUME StoresInv, NEW rows \in SUBSET sql.deliveries
  PROVE Sql!Joined(sql, rows) = rows /\ \A m \in Sql!Ids(rows) : Mem!Has(mem.messages, m)
<1>1. sql.deliveries \subseteq Row /\ mem.deliveries \in CopyMaps
  BY DEF StoresInv, Typed, Tables, MapsOfMemory
<1>2. \A r \in sql.deliveries : Key(r) \in DOMAIN mem.deliveries
  BY <1>1, CopyOfRow DEF StoresInv, Alike
<1>3. \A r \in sql.deliveries : r.msg \in DOMAIN mem.messages
  BY <1>2 DEF StoresInv, Grounded, Key
<1>4. \A m \in DOMAIN mem.messages : [id |-> m, ts |-> mem.messages[m]] \in sql.messages
  BY DEF StoresInv, Alike, MessagesAgree
<1>5. \A r \in sql.deliveries : \E x \in sql.messages : x.id = r.msg
  BY <1>3, <1>4
<1> QED
  BY <1>3, <1>5 DEF Sql!Joined, Sql!Ids, Mem!Has

(* The addresses whose inbox the step changed.                             *)
Changed == {b \in Box : Sql!Ids(Sql!InBox(sql, b)) # Sql!Ids(Sql!InBox(sql', b))}

Rewriting(g, keys, st, L) ==
  /\ sql' = [sql EXCEPT !.deliveries = Rewritten(sql.deliveries, g)]
  /\ mem' = [mem EXCEPT !.deliveries = PutAt(@, keys, st), !.leases = L]
  /\ agreed' = TRUE /\ moved' = Flips(sql.deliveries, g) /\ memMoved' \subseteq Box
  /\ UNCHANGED <<used, now, beside>>

(* An UPDATE of the copies and the same change in memory keep the          *)
(* invariant, and the event is minted for the inboxes that changed.        *)
LEMMA CopiesStep ==
  ASSUME StoresInv, NEW g, NEW keys, NEW st, NEW L \in LeaseMaps,
         DOMAIN L \subseteq DOMAIN mem.leases \union DOMAIN mem.deliveries,
         Rewrites(sql.deliveries, g, keys, st, L)
  PROVE Rewriting(g, keys, st, L) => StoresInv' /\ moved' = Changed
<1> DEFINE D == sql.deliveries
<1>0. Rewrites(D, g, keys, st, L)
  OBVIOUS
<1> DEFINE F == mem.deliveries
           D2 == Rewritten(D, g)
           F2 == PutAt(F, keys, st)
<1>1. D \subseteq Row /\ F \in CopyMaps
  BY DEF StoresInv, Typed, Tables, MapsOfMemory
<1>2. CopiesAgree(D, F, mem.leases)
  BY DEF StoresInv, Alike
<1>3. /\ CopiesAgree(D2, F2, L) /\ D2 \subseteq Row /\ DOMAIN F2 = DOMAIN F
      /\ F2 \in CopyMaps
  <2>1. CopiesAgree(D2, F2, L) /\ D2 \subseteq Row
    BY <1>0, <1>1, <1>2, RewriteAgrees
  <2>2. DOMAIN F2 = DOMAIN F
    BY DEF PutAt
  <2>3. F2 \in CopyMaps
    BY <1>0, <1>1, <1>2, RewriteAgrees
  <2> QED
    BY <2>1, <2>2, <2>3
<1> HAVE Rewriting(g, keys, st, L)
<1>4. sql' = [sql EXCEPT !.deliveries = D2] /\ mem' = [mem EXCEPT !.deliveries = F2, !.leases = L]
      /\ agreed' = TRUE /\ moved' = Flips(D, g) /\ memMoved' \subseteq Box
      /\ UNCHANGED <<used, now, beside>>
  BY DEF Rewriting
<1> HIDE DEF D2, F2
<1>5. /\ sql' \in Tables /\ sql'.deliveries = D2 /\ sql'.messages = sql.messages
      /\ sql'.awaiting = sql.awaiting /\ sql'.claims = sql.claims /\ sql'.passes = sql.passes
      /\ sql'.superseded = sql.superseded /\ sql'.routes = sql.routes
      /\ sql'.intents = sql.intents /\ sql'.surfaces = sql.surfaces /\ sql'.registry = sql.registry
  BY <1>3, <1>4 DEF StoresInv, Typed, Tables
<1>6. /\ mem'.deliveries = F2 /\ mem'.leases = L /\ mem'.messages = mem.messages
      /\ mem'.awaiting = mem.awaiting /\ mem'.claims = mem.claims /\ mem'.passes = mem.passes
      /\ mem'.superseded = mem.superseded /\ mem'.routes = mem.routes
      /\ mem'.intents = mem.intents /\ mem'.surfaces = mem.surfaces /\ mem'.registry = mem.registry
      /\ mem' \in MapsOfMemory
  BY <1>3, <1>4 DEF StoresInv, Typed, MapsOfMemory
<1>7. Alike'
  BY <1>3, <1>5, <1>6 DEF StoresInv, Alike
<1>8. Grounded'
  BY <1>3, <1>4, <1>6 DEF StoresInv, Grounded
<1>9. moved' = Changed
  <2>2. \A c \in Box : c \in Flips(D, g) <=> PendingOf(D, c) # PendingOf(Rewritten(D, g), c)
    BY <1>0, <1>1, <1>2, RewriteMoves
  <2>3. \A c \in Box : c \in Flips(D, g) <=> Sql!Ids(Sql!InBox(sql, c)) # Sql!Ids(Sql!InBox(sql', c))
    BY <1>5, <2>2 DEF Sql!Ids, Sql!InBox, D2, PendingOf
  <2>4. Flips(D, g) \subseteq Box
    BY DEF Flips
  <2> QED
    BY <1>4, <2>3, <2>4 DEF Changed
<1>10. moved' \subseteq Box
  BY <1>4 DEF Flips
<1> QED
  BY <1>4, <1>5, <1>6, <1>7, <1>8, <1>9, <1>10 DEF StoresInv, Typed

(* What every step but an acknowledgement does.                            *)
Good == StoresInv' /\ moved' = Changed /\ memMoved' = moved'

(* What the invariant says of the copies, in one place.                    *)
LEMMA CopiesOf ==
  ASSUME StoresInv
  PROVE /\ sql.deliveries \subseteq Row /\ mem.deliveries \in CopyMaps /\ mem.leases \in LeaseMaps
        /\ CopiesAgree(sql.deliveries, mem.deliveries, mem.leases)
        /\ \A r, x \in sql.deliveries : Key(r) = Key(x) => r = x
        /\ \A r \in sql.deliveries : Key(r) \in DOMAIN mem.deliveries
             /\ mem.deliveries[Key(r)].state = r.state /\ mem.deliveries[Key(r)].ts = r.ts
        /\ \A k \in DOMAIN mem.deliveries : \E r \in sql.deliveries : Key(r) = k
        /\ \A r \in sql.deliveries : r.state \in Leasable =>
             LeaseAt(mem.leases, Key(r)) = [id |-> r.lease, until |-> r.until]
<1>1. /\ sql.deliveries \subseteq Row /\ mem.deliveries \in CopyMaps /\ mem.leases \in LeaseMaps
      /\ CopiesAgree(sql.deliveries, mem.deliveries, mem.leases)
  BY DEF StoresInv, Typed, Tables, MapsOfMemory, Alike
<1>2. /\ \A r \in sql.deliveries : Key(r) \in DOMAIN mem.deliveries
             /\ mem.deliveries[Key(r)].state = r.state /\ mem.deliveries[Key(r)].ts = r.ts
      /\ \A k \in DOMAIN mem.deliveries : \E r \in sql.deliveries : Key(r) = k
  BY <1>1, CopyOfRow
<1> QED
  BY <1>1, <1>2 DEF CopiesAgree

(* markConsumed and setConsent: the row is overwritten whatever its state, *)
(* the event made only if it was pending.                                  *)
LEMMA SettleStep ==
  ASSUME StoresInv, NEW m \in Msg, NEW b \in Box, NEW st \in {"consumed", "accepted", "declined"},
         On(Sql!Settle(sql, m, b, st),
            Mem!Done(Mem!Put(mem, {<<m, b>>}, st), Mem!IfSome(Mem!LiveKeys(mem, b) \intersect {<<m, b>>}, b), None))
  PROVE Good
<1> DEFINE D == sql.deliveries
           g == [r \in D |-> IF r.msg = m /\ r.box = b THEN [r EXCEPT !.state = st] ELSE r]
<1>1. D \subseteq Row
  BY CopiesOf
<1>2. \A r \in D : [r EXCEPT !.state = st] \in Row
  BY <1>1 DEF Row, State
<1>3. g \in [D -> Row]
  BY <1>1, <1>2
<1>4. Rewritten(D, g) = {IF r.msg = m /\ r.box = b THEN [r EXCEPT !.state = st] ELSE r : r \in D}
  BY DEF Rewritten
<1>5. sql' = [sql EXCEPT !.deliveries = Rewritten(D, g)]
  BY <1>4 DEF On, Call, Sql!Settle, Sql!Done, StoresInv, Typed, Tables
<1>6. mem' = [mem EXCEPT !.deliveries = PutAt(@, {<<m, b>>}, st), !.leases = mem.leases]
  BY DEF On, Call, Mem!Put, Mem!Done, PutAt, StoresInv, Typed, MapsOfMemory
<1>7. /\ agreed' = TRUE /\ UNCHANGED <<used, now, beside>>
      /\ moved' = Sql!IfAny({r \in Sql!InBox(sql, b) : r.msg = m}, b)
      /\ memMoved' = Mem!IfSome(Mem!LiveKeys(mem, b) \intersect {<<m, b>>}, b)
  BY DEF On, Call, Sql!Settle, Sql!Done, Mem!Put, Mem!Done, StoresInv, Typed, Tables, MapsOfMemory
<1>8. \A r \in D : /\ Key(g[r]) = Key(r) /\ g[r].ts = r.ts
                   /\ g[r].state = IF Key(r) \in {<<m, b>>} THEN st ELSE r.state
  BY <1>1 DEF Row, Key
<1>9. \A r \in D : g[r].state \in Leasable => g[r] = r
  BY <1>1 DEF Row, Leasable
<1>10. moved' = Flips(D, g)
  <2>1. \A r \in D : ~ (r.state \in Sql!PendingStates <=> g[r].state \in Sql!PendingStates)
          <=> r.msg = m /\ r.box = b /\ r.state \in Sql!PendingStates
    BY <1>8 DEF Sql!PendingStates, Key
  <2> HIDE DEF g
  <2>2. Flips(D, g) = {c \in Box : \E r \in D : r.box = c /\ r.msg = m /\ r.box = b /\ r.state \in Sql!PendingStates}
    BY <2>1 DEF Flips
  <2> QED
    BY <1>7, <2>2 DEF Sql!IfAny, Sql!InBox
<1>11. memMoved' = moved'
  <2>1. <<m, b>> \in Mem!LiveKeys(mem, b) <=> \E r \in D : Key(r) = <<m, b>> /\ r.state \in Sql!PendingStates
    BY CopiesOf DEF Mem!LiveKeys, Mem!KeysOf, Mem!Live, Sql!PendingStates
  <2> QED
    BY <1>7, <2>1 DEF Mem!IfSome, Sql!IfAny, Sql!InBox, Key
<1> HIDE DEF g
<1>12. \A r \in D : g[r].state \in Leasable =>
         LeaseAt(mem.leases, Key(r)) = [id |-> g[r].lease, until |-> g[r].until]
  BY <1>9, CopiesOf
<1>13. memMoved' \subseteq Box
  BY <1>10, <1>11 DEF Flips
<1>14. Rewrites(D, g, {<<m, b>>}, st, mem.leases)
  BY <1>3, <1>8, <1>12, CopiesOf DEF Rewrites, State
<1>15. Rewriting(g, {<<m, b>>}, st, mem.leases)
  BY <1>5, <1>6, <1>7, <1>10, <1>13 DEF Rewriting
<1> QED
  BY <1>11, <1>14, <1>15, CopiesOf, CopiesStep DEF Good

-----------------------------------------------------------------------------
(* Rows of the file and keys of memory that name the same copies.          *)
Matched(rows, keys) ==
  /\ rows \subseteq sql.deliveries /\ keys \subseteq DOMAIN mem.deliveries
  /\ \A r \in sql.deliveries : r \in rows <=> Key(r) \in keys

(* The two modules take Cardinality from one library.                      *)
LEMMA SameCardinality ==
  ASSUME NEW S
  PROVE Sql!Cardinality(S) = Cardinality(S) /\ Mem!Cardinality(S) = Cardinality(S)
BY DEF Sql!Cardinality, Mem!Cardinality, Cardinality

(* What a call returns and mints events for is the same when it picked the *)
(* same copies in both.                                                    *)
LEMMA MatchedAnswers ==
  ASSUME StoresInv, NEW rows, NEW keys, NEW b, Matched(rows, keys)
  PROVE /\ Sql!Ids(rows) = Mem!Ids(keys)
        /\ Sql!Ids(Sql!Joined(sql, rows)) = {m \in Mem!Ids(keys) : Mem!Has(mem.messages, m)}
        /\ Sql!IfAny(rows, b) = Mem!IfSome(keys, b)
        /\ Sql!Boxes(rows) = {k[2] : k \in keys}
        /\ rows # {} <=> keys # {}
        /\ Sql!Cardinality(rows) = Mem!Cardinality(keys)
<1> DEFINE D == sql.deliveries
           F == mem.deliveries
<1>1. D \subseteq Row /\ F \in CopyMaps /\ CopiesAgree(D, F, mem.leases)
  BY CopiesOf
<1>2. rows \in SUBSET D /\ keys \in SUBSET DOMAIN F /\ \A r \in D : r \in rows <=> Key(r) \in keys
  BY DEF Matched
<1>9. SameCopies(D, F, mem.leases, rows, keys)
  BY <1>1, <1>2 DEF SameCopies
<1> HIDE DEF D, F
<1>3. /\ Sql!Ids(rows) = Mem!Ids(keys)
      /\ Sql!Boxes(rows) = {k[2] : k \in keys}
      /\ rows = {} <=> keys = {}
  BY <1>9, RowsAndKeys
<1>4. IsFiniteSet(DOMAIN F)
  BY DEF StoresInv, Grounded, F
<1>5. Sql!Cardinality(rows) = Mem!Cardinality(keys)
  <2>1. Cardinality(rows) = Cardinality(keys)
    BY <1>4, <1>9, RowsAndKeys
  <2> QED
    BY <2>1, SameCardinality
<1>6. Sql!Joined(sql, rows) = rows /\ \A m \in Sql!Ids(rows) : Mem!Has(mem.messages, m)
  BY <1>2, NothingLostInJoin DEF D
<1>7. Sql!Ids(Sql!Joined(sql, rows)) = {m \in Mem!Ids(keys) : Mem!Has(mem.messages, m)}
  BY <1>3, <1>6
<1>8. Sql!IfAny(rows, b) = Mem!IfSome(keys, b)
  BY <1>3 DEF Sql!IfAny, Mem!IfSome
<1> QED
  BY <1>3, <1>5, <1>7, <1>8

(* Mem!Put in terms of its map.                                            *)
LEMMA PutIs ==
  ASSUME StoresInv, NEW keys, NEW st
  PROVE Mem!Put(mem, keys, st) = [mem EXCEPT !.deliveries = PutAt(mem.deliveries, keys, st)]
BY DEF Mem!Put, PutAt

(* What a call leaves in the stores, returned and minted events for, when  *)
(* it touches the copies only.                                             *)
LEMMA DoneSays ==
  ASSUME NEW s, NEW X, NEW p, "moved" \in DOMAIN s, "out" \in DOMAIN s
  PROVE /\ Sql!Done(s, X, p).moved = X /\ Sql!Done(s, X, p).out = p
        /\ Mem!Done(s, X, p).moved = X /\ Mem!Done(s, X, p).out = p
BY DEF Sql!Done, Mem!Done

(* The effects of a call that writes copies ...                            *)
LEMMA PutCall ==
  ASSUME StoresInv, NEW D, NEW X, NEW p, NEW keys, NEW st, NEW Y, NEW q,
         Call(Sql!Done([sql EXCEPT !.deliveries = D], X, p), Mem!Done(Mem!Put(mem, keys, st), Y, q))
  PROVE /\ sql' = [sql EXCEPT !.deliveries = D]
        /\ mem' = [mem EXCEPT !.deliveries = PutAt(@, keys, st)]
        /\ agreed' = (p = q) /\ moved' = X /\ memMoved' = Y /\ UNCHANGED <<now, beside>>
<1>1. sql' = [sql EXCEPT !.deliveries = D]
  BY DEF Call, Sql!Done, StoresInv, Typed, Tables
<1>2. mem' = [mem EXCEPT !.deliveries = PutAt(@, keys, st)]
  BY PutIs DEF Call, Mem!Done, StoresInv, Typed, MapsOfMemory
<1>3. /\ "moved" \in DOMAIN [sql EXCEPT !.deliveries = D] /\ "out" \in DOMAIN [sql EXCEPT !.deliveries = D]
      /\ "moved" \in DOMAIN Mem!Put(mem, keys, st) /\ "out" \in DOMAIN Mem!Put(mem, keys, st)
  BY DEF Mem!Put, StoresInv, Typed, Tables, MapsOfMemory
<1>4. /\ Sql!Done([sql EXCEPT !.deliveries = D], X, p).moved = X
      /\ Sql!Done([sql EXCEPT !.deliveries = D], X, p).out = p
      /\ Mem!Done(Mem!Put(mem, keys, st), Y, q).moved = Y
      /\ Mem!Done(Mem!Put(mem, keys, st), Y, q).out = q
  BY <1>3, DoneSays
<1> QED
  BY <1>1, <1>2, <1>4 DEF Call

(* ... and of one that writes leases too.                                  *)
LEMMA LeaseCall ==
  ASSUME StoresInv, NEW D, NEW X, NEW p, NEW keys, NEW st, NEW L, NEW Y, NEW q,
         Call(Sql!Done([sql EXCEPT !.deliveries = D], X, p),
              Mem!Done([Mem!Put(mem, keys, st) EXCEPT !.leases = L], Y, q))
  PROVE /\ sql' = [sql EXCEPT !.deliveries = D]
        /\ mem' = [mem EXCEPT !.deliveries = PutAt(@, keys, st), !.leases = L]
        /\ agreed' = (p = q) /\ moved' = X /\ memMoved' = Y /\ UNCHANGED <<now, beside>>
<1>1. sql' = [sql EXCEPT !.deliveries = D]
  BY DEF Call, Sql!Done, StoresInv, Typed, Tables
<1>2. mem' = [mem EXCEPT !.deliveries = PutAt(@, keys, st), !.leases = L]
  <2> DEFINE F == PutAt(mem.deliveries, keys, st)
  <2>1. mem' = Mem!Done(Mem!Done([[mem EXCEPT !.deliveries = F] EXCEPT !.leases = L], Y, q), {}, None)
    BY PutIs DEF Call
  <2> HIDE DEF F
  <2>2. mem' = [mem EXCEPT !.deliveries = F, !.leases = L]
    BY <2>1 DEF Mem!Done, StoresInv, Typed, MapsOfMemory
  <2> QED
    BY <2>2 DEF F
<1> DEFINE t == [Mem!Put(mem, keys, st) EXCEPT !.leases = L]
<1>3. /\ "moved" \in DOMAIN [sql EXCEPT !.deliveries = D] /\ "out" \in DOMAIN [sql EXCEPT !.deliveries = D]
      /\ "moved" \in DOMAIN t /\ "out" \in DOMAIN t
  BY DEF Mem!Put, StoresInv, Typed, Tables, MapsOfMemory
<1>4. /\ Sql!Done([sql EXCEPT !.deliveries = D], X, p).moved = X
      /\ Sql!Done([sql EXCEPT !.deliveries = D], X, p).out = p
      /\ Mem!Done(t, Y, q).moved = Y /\ Mem!Done(t, Y, q).out = q
  BY <1>3, DoneSays
<1> QED
  BY <1>1, <1>2, <1>4 DEF Call

(* The addresses whose inbox changes when rows go into state st.           *)
Touched(rows, st) ==
  {c \in Box : \E r \in rows : r.box = c /\ ~ (r.state \in Sql!PendingStates <=> st \in Sql!PendingStates)}

(* Copies go into another state and keep their leases.                     *)
LEMMA StateStep ==
  ASSUME StoresInv, NEW rows, NEW keys, NEW st \in State, Matched(rows, keys),
         st \in Leasable => \A r \in rows : r.state \in Leasable
  PROVE /\ sql' = [sql EXCEPT !.deliveries = {IF r \in rows THEN [r EXCEPT !.state = st] ELSE r : r \in @}]
        /\ mem' = [mem EXCEPT !.deliveries = PutAt(@, keys, st)]
        /\ agreed' = TRUE /\ moved' = Touched(rows, st) /\ memMoved' = moved'
        /\ UNCHANGED <<used, now, beside>>
        => Good
<1> DEFINE D == sql.deliveries
           g == [r \in D |-> IF r \in rows THEN [r EXCEPT !.state = st] ELSE r]
<1>1. D \subseteq Row /\ rows \subseteq D /\ \A r \in D : r \in rows <=> Key(r) \in keys
  BY CopiesOf DEF Matched
<1>2. \A r \in D : [r EXCEPT !.state = st] \in Row
  BY <1>1 DEF Row
<1>3. g \in [D -> Row]
  BY <1>1, <1>2
<1>4. \A r \in D : /\ Key(g[r]) = Key(r) /\ g[r].ts = r.ts
                   /\ g[r].state = IF Key(r) \in keys THEN st ELSE r.state
                   /\ g[r].lease = r.lease /\ g[r].until = r.until
  BY <1>1 DEF Row, Key
<1>5. Rewritten(D, g) = {IF r \in rows THEN [r EXCEPT !.state = st] ELSE r : r \in D}
  BY DEF Rewritten
<1> HIDE DEF g
<1>6. \A r \in D : g[r].state \in Leasable =>
        LeaseAt(mem.leases, Key(r)) = [id |-> g[r].lease, until |-> g[r].until]
  BY <1>1, <1>4, CopiesOf
<1>7. Rewrites(D, g, keys, st, mem.leases)
  BY <1>3, <1>4, <1>6 DEF Rewrites
<1>8. Flips(D, g) = Touched(rows, st)
  BY <1>1, <1>4 DEF Flips, Touched
<1>9. mem.leases \in LeaseMaps
  BY CopiesOf
<1> HAVE /\ sql' = [sql EXCEPT !.deliveries = {IF r \in rows THEN [r EXCEPT !.state = st] ELSE r : r \in @}]
         /\ mem' = [mem EXCEPT !.deliveries = PutAt(@, keys, st)]
         /\ agreed' = TRUE /\ moved' = Touched(rows, st) /\ memMoved' = moved'
         /\ UNCHANGED <<used, now, beside>>
<1>10. mem' = [mem EXCEPT !.deliveries = PutAt(@, keys, st), !.leases = mem.leases]
  BY DEF StoresInv, Typed, MapsOfMemory
<1>11. Touched(rows, st) \subseteq Box
  BY DEF Touched
<1>12. Rewriting(g, keys, st, mem.leases)
  BY <1>5, <1>8, <1>10, <1>11 DEF Rewriting
<1> QED
  BY <1>7, <1>9, <1>12, CopiesStep DEF Good

(* Copies go into another state under another lease.                       *)
LeasesAs(rows, keys, st, lease, until, L) ==
  /\ Matched(rows, keys)
  /\ st \in State /\ lease \in Lease \union {None} /\ until \in Until /\ L \in LeaseMaps
  /\ DOMAIN L \subseteq DOMAIN mem.leases \union DOMAIN mem.deliveries
  /\ st \in Leasable => \A k \in keys : LeaseAt(L, k) = [id |-> lease, until |-> until]
  /\ \A r \in sql.deliveries \ rows : r.state \in Leasable =>
       LeaseAt(L, Key(r)) = LeaseAt(mem.leases, Key(r))

Leasing(rows, keys, st, lease, until, L) ==
  /\ sql' = [sql EXCEPT !.deliveries =
               {IF r \in rows THEN [r EXCEPT !.state = st, !.lease = lease, !.until = until]
                              ELSE r : r \in @}]
  /\ mem' = [mem EXCEPT !.deliveries = PutAt(@, keys, st), !.leases = L]
  /\ agreed' = TRUE /\ moved' = Touched(rows, st) /\ memMoved' \subseteq Box
  /\ UNCHANGED <<used, now, beside>>

(* Such a call keeps the invariant and mints events for what changed.      *)
LEMMA LeaseStep ==
  ASSUME StoresInv, NEW rows, NEW keys, NEW st, NEW lease, NEW until, NEW L,
         LeasesAs(rows, keys, st, lease, until, L)
  PROVE Leasing(rows, keys, st, lease, until, L) => StoresInv' /\ moved' = Changed
<1>0. /\ Matched(rows, keys)
      /\ st \in State /\ lease \in Lease \union {None} /\ until \in Until /\ L \in LeaseMaps
      /\ DOMAIN L \subseteq DOMAIN mem.leases \union DOMAIN mem.deliveries
      /\ st \in Leasable => \A k \in keys : LeaseAt(L, k) = [id |-> lease, until |-> until]
      /\ \A r \in sql.deliveries \ rows : r.state \in Leasable =>
           LeaseAt(L, Key(r)) = LeaseAt(mem.leases, Key(r))
  BY DEF LeasesAs
<1> DEFINE D == sql.deliveries
           g == [r \in D |-> IF r \in rows THEN [r EXCEPT !.state = st, !.lease = lease, !.until = until]
                                            ELSE r]
<1>1. D \subseteq Row /\ rows \subseteq D /\ \A r \in D : r \in rows <=> Key(r) \in keys
  BY <1>0, CopiesOf DEF Matched
<1>2. \A r \in D : [r EXCEPT !.state = st, !.lease = lease, !.until = until] \in Row
  BY <1>0, <1>1 DEF Row
<1>3. g \in [D -> Row]
  BY <1>1, <1>2
<1>4. \A r \in D : /\ Key(g[r]) = Key(r) /\ g[r].ts = r.ts
                   /\ g[r].state = IF Key(r) \in keys THEN st ELSE r.state
                   /\ r \in rows => g[r].lease = lease /\ g[r].until = until
                   /\ r \notin rows => g[r] = r
  BY <1>1, ZenonT(60) DEF Row, Key
<1>5. Rewritten(D, g) = {IF r \in rows THEN [r EXCEPT !.state = st, !.lease = lease, !.until = until]
                                       ELSE r : r \in D}
  BY DEF Rewritten
<1> HIDE DEF g
<1>6. \A r \in D : g[r].state \in Leasable =>
        LeaseAt(L, Key(r)) = [id |-> g[r].lease, until |-> g[r].until]
  <2> SUFFICES ASSUME NEW r \in D, g[r].state \in Leasable
               PROVE LeaseAt(L, Key(r)) = [id |-> g[r].lease, until |-> g[r].until]
    OBVIOUS
  <2>1. CASE r \in rows
    <3>1. Key(r) \in keys /\ g[r].state = st /\ g[r].lease = lease /\ g[r].until = until
      BY <1>1, <1>4, <2>1
    <3> QED
      BY <1>0, <3>1
  <2>2. CASE r \notin rows
    <3>1. g[r] = r /\ LeaseAt(L, Key(r)) = LeaseAt(mem.leases, Key(r))
      BY <1>0, <1>4, <2>2
    <3>2. LeaseAt(mem.leases, Key(r)) = [id |-> r.lease, until |-> r.until]
      BY <3>1, CopiesOf
    <3> QED
      BY <3>1, <3>2
  <2> QED
    BY <2>1, <2>2
<1>7. Rewrites(D, g, keys, st, L)
  BY <1>0, <1>3, <1>4, <1>6 DEF Rewrites
<1>8. Flips(D, g) = Touched(rows, st)
  BY <1>1, <1>4 DEF Flips, Touched
<1> HAVE Leasing(rows, keys, st, lease, until, L)
<1>9. Rewriting(g, keys, st, L)
  BY <1>5, <1>8 DEF Rewriting, Leasing
<1> QED
  BY <1>0, <1>7, <1>9, CopiesStep

-----------------------------------------------------------------------------
(* A call that only looks.                                                 *)
LEMMA LookStep ==
  ASSUME StoresInv, sql' = sql, mem' = mem, agreed' = TRUE, moved' = {}, memMoved' = {},
         used \subseteq used', used' \subseteq Msg, now' \in 0..MaxClock, beside' = beside
  PROVE Good
<1>1. Alike' /\ Grounded'
  BY DEF StoresInv, Alike, Grounded
<1>2. Changed = {}
  BY DEF Changed
<1> QED
  BY <1>1, <1>2 DEF Good, StoresInv, Typed

(* The copies of an address that are in one of some states.                *)
LEMMA InboxMatched ==
  ASSUME StoresInv, NEW b
  PROVE Matched(Sql!InBox(sql, b), Mem!LiveKeys(mem, b))
<1>1. /\ \A r \in sql.deliveries : Key(r) \in DOMAIN mem.deliveries /\ mem.deliveries[Key(r)].state = r.state
  BY CopiesOf
<1> QED
  BY <1>1 DEF Matched, Key, Sql!InBox, Mem!LiveKeys, Mem!KeysOf, Mem!Live, Sql!PendingStates

(* The inbox, and the read that empties it.                                *)
LEMMA ReadStep ==
  ASSUME StoresInv, NEW b \in Box, NEW consume \in BOOLEAN, Read(b, consume)
  PROVE Good
<1> DEFINE rows == Sql!InBox(sql, b)
           keys == Mem!LiveKeys(mem, b)
<1>1. Matched(rows, keys)
  BY InboxMatched
<1>2. /\ Sql!Ids(Sql!Joined(sql, rows)) = {m \in Mem!Ids(keys) : Mem!Has(mem.messages, m)}
      /\ Sql!IfAny(rows, b) = Mem!IfSome(keys, b)
  BY <1>1, MatchedAnswers
<1>3. CASE consume = FALSE
  <2>1. sql' = sql /\ mem' = mem /\ moved' = {} /\ memMoved' = {} /\ UNCHANGED <<used, now, beside>>
    BY <1>3 DEF Read, On, Call, Sql!Pending, Mem!Pending, Sql!Done, Mem!Done, StoresInv, Typed,
                Tables, MapsOfMemory
  <2>2. agreed' = TRUE
    BY <1>2, <1>3 DEF Read, On, Call, Sql!Pending, Mem!Pending, Sql!Done, Mem!Done, StoresInv,
         Typed,
                      Tables, MapsOfMemory
  <2> QED
    BY <2>1, <2>2, LookStep DEF StoresInv, Typed
<1>4. CASE consume = TRUE
  <2>3. /\ sql' = [sql EXCEPT !.deliveries = {IF r \in rows THEN [r EXCEPT !.state = "consumed"] ELSE r : r \in @}]
        /\ mem' = [mem EXCEPT !.deliveries = PutAt(@, keys, "consumed")]
        /\ agreed' = TRUE /\ moved' = Sql!IfAny(rows, b) /\ memMoved' = Mem!IfSome(keys, b)
        /\ UNCHANGED <<used, now, beside>>
    <3> DEFINE D == {IF r \in rows THEN [r EXCEPT !.state = "consumed"] ELSE r : r \in sql.deliveries}
               p == Sql!Ids(Sql!Joined(sql, rows))
               q == {m \in Mem!Ids(keys) : Mem!Has(mem.messages, m)}
    <3>1. /\ Call(Sql!Done([sql EXCEPT !.deliveries = D], Sql!IfAny(rows, b), p),
                 Mem!Done(Mem!Put(mem, keys, "consumed"), Mem!IfSome(keys, b), q))
          /\ UNCHANGED used
      BY <1>4 DEF Read, On, Sql!Pending, Mem!Pending
    <3>2. p = q
      BY <1>2
    <3> HIDE DEF D, p, q
    <3>3. /\ sql' = [sql EXCEPT !.deliveries = D]
          /\ mem' = [mem EXCEPT !.deliveries = PutAt(@, keys, "consumed")]
          /\ agreed' = (p = q) /\ moved' = Sql!IfAny(rows, b) /\ memMoved' = Mem!IfSome(keys, b) /\ UNCHANGED <<now, beside>>
      BY <3>1, PutCall
    <3> QED
      BY <3>1, <3>2, <3>3 DEF D
  <2>4. moved' = Touched(rows, "consumed")
    BY <2>3 DEF Sql!IfAny, Touched, Sql!InBox, Sql!PendingStates
  <2>5. "consumed" \in State /\ "consumed" \notin Leasable
    BY DEF State, Leasable
  <2> HIDE DEF rows, keys
  <2> QED
    BY <1>1, <1>2, <2>3, <2>4, <2>5, StateStep
<1> QED
  BY <1>3, <1>4

(* A pull claims what is queued.                                           *)
LEMMA ClaimStep ==
  ASSUME StoresInv, NEW b \in Box, Claim(b)
  PROVE Good
<1> DEFINE rows == {r \in sql.deliveries : r.box = b /\ r.state = "queued"}
           keys == {k \in Mem!KeysOf(mem, b) : mem.deliveries[k].state = "queued"}
<1>1. Matched(rows, keys)
  BY CopiesOf DEF Matched, Key, Mem!KeysOf
<1>2. Sql!Ids(Sql!Joined(sql, rows)) = {m \in Mem!Ids(keys) : Mem!Has(mem.messages, m)}
  BY <1>1, MatchedAnswers
<1>5. /\ sql' = [sql EXCEPT !.deliveries = {IF r \in rows THEN [r EXCEPT !.state = "delivered"] ELSE r : r \in @}]
      /\ mem' = [mem EXCEPT !.deliveries = PutAt(@, keys, "delivered")]
      /\ agreed' = TRUE /\ moved' = {} /\ memMoved' = {}
      /\ UNCHANGED <<used, now, beside>>
  <2> DEFINE D == {IF r \in rows THEN [r EXCEPT !.state = "delivered"] ELSE r : r \in sql.deliveries}
             p == Sql!Ids(Sql!Joined(sql, rows))
             q == {m \in Mem!Ids(keys) : Mem!Has(mem.messages, m)}
  <2>1. /\ Call(Sql!Done([sql EXCEPT !.deliveries = D], {}, p),
               Mem!Done(Mem!Put(mem, keys, "delivered"), {}, q))
        /\ UNCHANGED used
    BY DEF Claim, On, Sql!ClaimForDelivery, Mem!ClaimForDelivery
  <2>2. p = q
    BY <1>2
  <2> HIDE DEF D, p, q
  <2>3. /\ sql' = [sql EXCEPT !.deliveries = D]
        /\ mem' = [mem EXCEPT !.deliveries = PutAt(@, keys, "delivered")]
        /\ agreed' = (p = q) /\ moved' = {} /\ memMoved' = {} /\ UNCHANGED <<now, beside>>
    BY <2>1, PutCall
  <2> QED
    BY <2>1, <2>2, <2>3 DEF D
<1>6. Touched(rows, "delivered") = {} /\ \A r \in rows : r.state \in Leasable
  BY DEF Touched, Sql!PendingStates, Leasable
<1>7. "delivered" \in State
  BY DEF State
<1> HIDE DEF rows, keys
<1> QED
  BY <1>1, <1>2, <1>5, <1>6, <1>7, StateStep

(* markDelivered: from queued only.                                        *)
LEMMA DeliveredStep ==
  ASSUME StoresInv, NEW m \in Msg, NEW b \in Box,
         On(Sql!MarkDelivered(sql, m, b), Mem!MarkDelivered(mem, m, b))
  PROVE Good
<1> DEFINE rows == {r \in sql.deliveries : r.msg = m /\ r.box = b /\ r.state = "queued"}
           keys == {k \in DOMAIN mem.deliveries : k = <<m, b>> /\ mem.deliveries[k].state = "queued"}
<1>1. Matched(rows, keys)
  BY CopiesOf DEF Matched, Key
<1>2. {IF r.msg = m /\ r.box = b /\ r.state = "queued" THEN [r EXCEPT !.state = "delivered"] ELSE r
         : r \in sql.deliveries}
      = {IF r \in rows THEN [r EXCEPT !.state = "delivered"] ELSE r : r \in sql.deliveries}
  OBVIOUS
<1>5. /\ sql' = [sql EXCEPT !.deliveries = {IF r \in rows THEN [r EXCEPT !.state = "delivered"] ELSE r : r \in @}]
      /\ mem' = [mem EXCEPT !.deliveries = PutAt(@, keys, "delivered")]
      /\ agreed' = TRUE /\ moved' = {} /\ memMoved' = {}
      /\ UNCHANGED <<used, now, beside>>
  <2> DEFINE D == {IF r \in rows THEN [r EXCEPT !.state = "delivered"] ELSE r : r \in sql.deliveries}
             p == None
             q == None
  <2>1. /\ Call(Sql!Done([sql EXCEPT !.deliveries = D], {}, p),
               Mem!Done(Mem!Put(mem, keys, "delivered"), {}, q))
        /\ UNCHANGED used
    BY <1>2 DEF On, Sql!MarkDelivered, Mem!MarkDelivered
  <2>2. p = q
    OBVIOUS
  <2> HIDE DEF D, p, q
  <2>3. /\ sql' = [sql EXCEPT !.deliveries = D]
        /\ mem' = [mem EXCEPT !.deliveries = PutAt(@, keys, "delivered")]
        /\ agreed' = (p = q) /\ moved' = {} /\ memMoved' = {} /\ UNCHANGED <<now, beside>>
    BY <2>1, PutCall
  <2> QED
    BY <2>1, <2>2, <2>3 DEF D
<1>6. Touched(rows, "delivered") = {} /\ \A r \in rows : r.state \in Leasable
  BY DEF Touched, Sql!PendingStates, Leasable
<1>7. "delivered" \in State
  BY DEF State
<1> HIDE DEF rows, keys
<1> QED
  BY <1>1, <1>2, <1>5, <1>6, <1>7, StateStep

(* The tombstone consumes what has waited too long.                        *)
LEMMA TombstoneStep ==
  ASSUME StoresInv, NEW before \in Int,
         On(Sql!TombstoneStale(sql, before), Mem!TombstoneStale(mem, before))
  PROVE Good
<1> DEFINE rows == {r \in sql.deliveries : r.state \in Sql!PendingStates /\ r.ts < before}
           keys == {k \in DOMAIN mem.deliveries :
                      mem.deliveries[k].state \in Mem!Live /\ mem.deliveries[k].ts < before}
<1>1. Matched(rows, keys)
  BY CopiesOf DEF Matched, Mem!Live, Sql!PendingStates
<1>2. Sql!Boxes(rows) = {k[2] : k \in keys} /\ Sql!Cardinality(rows) = Mem!Cardinality(keys)
  BY <1>1, MatchedAnswers
<1>5. /\ sql' = [sql EXCEPT !.deliveries = {IF r \in rows THEN [r EXCEPT !.state = "consumed"] ELSE r : r \in @}]
      /\ mem' = [mem EXCEPT !.deliveries = PutAt(@, keys, "consumed")]
      /\ agreed' = TRUE /\ moved' = Sql!Boxes(rows) /\ memMoved' = {k[2] : k \in keys}
      /\ UNCHANGED <<used, now, beside>>
  <2> DEFINE D == {IF r \in rows THEN [r EXCEPT !.state = "consumed"] ELSE r : r \in sql.deliveries}
             p == Sql!Cardinality(rows)
             q == Mem!Cardinality(keys)
  <2>1. /\ Call(Sql!Done([sql EXCEPT !.deliveries = D], Sql!Boxes(rows), p),
               Mem!Done(Mem!Put(mem, keys, "consumed"), {k[2] : k \in keys}, q))
        /\ UNCHANGED used
    <3>1. Sql!TombstoneStale(sql, before) = Sql!Done([sql EXCEPT !.deliveries = D], Sql!Boxes(rows), p)
      BY DEF Sql!TombstoneStale
    <3>2. Mem!TombstoneStale(mem, before)
            = Mem!Done(Mem!Put(mem, keys, "consumed"), {k[2] : k \in keys}, q)
      BY DEF Mem!TombstoneStale
    <3> QED
      BY <3>1, <3>2 DEF On
  <2>2. p = q
    BY <1>2
  <2> HIDE DEF D, p, q
  <2>3. /\ sql' = [sql EXCEPT !.deliveries = D]
        /\ mem' = [mem EXCEPT !.deliveries = PutAt(@, keys, "consumed")]
        /\ agreed' = (p = q) /\ moved' = Sql!Boxes(rows) /\ memMoved' = {k[2] : k \in keys} /\ UNCHANGED <<now, beside>>
    BY <2>1, PutCall
  <2> QED
    BY <2>1, <2>2, <2>3 DEF D
<1>6. Sql!Boxes(rows) = Touched(rows, "consumed")
  <2>1. \A r \in rows : r.box \in Box
    BY CopiesOf DEF Row
  <2> QED
    BY <2>1 DEF Sql!Boxes, Touched, Sql!PendingStates
<1>7. "consumed" \in State /\ "consumed" \notin Leasable
  BY DEF State, Leasable
<1> HIDE DEF rows, keys
<1> QED
  BY <1>1, <1>2, <1>5, <1>6, <1>7, StateStep

-----------------------------------------------------------------------------
(* Leases.                                                                 *)
LEMMA LeaseMapsAreFunctions ==
  ASSUME NEW L
  PROVE L \in LeaseMaps <=> /\ DOMAIN L \subseteq Msg \X Box
                           /\ L \in [DOMAIN L -> [id : Lease, until : Until]]
BY DEF LeaseMaps, Maps

(* Dropping leases from the map leaves the others.                         *)
LEMMA FewerLeases ==
  ASSUME NEW L \in LeaseMaps, NEW keys
  PROVE /\ Mem!Without(L, keys) \in LeaseMaps
        /\ DOMAIN Mem!Without(L, keys) = DOMAIN L \ keys
        /\ \A k : k \notin keys => LeaseAt(Mem!Without(L, keys), k) = LeaseAt(L, k)
<1> DEFINE N == Mem!Without(L, keys)
<1>1. DOMAIN L \subseteq Msg \X Box /\ L \in [DOMAIN L -> [id : Lease, until : Until]]
  BY LeaseMapsAreFunctions
<1>2. N = [k \in DOMAIN L \ keys |-> L[k]]
  BY DEF Mem!Without, Mem!Restrict
<1>3. DOMAIN N = DOMAIN L \ keys /\ N \in [DOMAIN N -> [id : Lease, until : Until]]
  BY <1>1, <1>2
<1>4. \A k : k \notin keys => LeaseAt(N, k) = LeaseAt(L, k)
  BY <1>2 DEF LeaseAt
<1> HIDE DEF N
<1>5. N \in LeaseMaps
  BY <1>1, <1>3, LeaseMapsAreFunctions
<1> QED
  BY <1>3, <1>4, <1>5 DEF N

(* markSurfaced: the copy is seen, its lease is dropped in both; it comes  *)
(* back into the inbox from persisted.                                     *)
LEMMA SurfacedStep ==
  ASSUME StoresInv, NEW m \in Msg, NEW b \in Box,
         On(Sql!MarkSurfaced(sql, m, b), Mem!MarkSurfaced(mem, m, b))
  PROVE Good
<1> DEFINE From == {"queued", "delivered", "persisted"}
           rows == {r \in sql.deliveries : r.msg = m /\ r.box = b /\ r.state \in From}
           keys == {k \in DOMAIN mem.deliveries : k = <<m, b>> /\ mem.deliveries[k].state \in From}
           D == {IF r \in rows THEN [r EXCEPT !.state = "surfaced", !.lease = None, !.until = 0]
                               ELSE r : r \in sql.deliveries}
           L == Mem!Without(mem.leases, keys)
           back == {r \in rows : r.state = "persisted"}
           again == {k \in keys : mem.deliveries[k].state = "persisted"}
<1>1. Matched(rows, keys) /\ Matched(back, again)
  BY CopiesOf DEF Matched, Key
<1>2. (rows # {}) = (keys # {}) /\ Sql!IfAny(back, b) = Mem!IfSome(again, b)
  BY <1>1, MatchedAnswers
<1>3. /\ Call(Sql!Done([sql EXCEPT !.deliveries = D], Sql!IfAny(back, b), rows # {}),
              Mem!Done([Mem!Put(mem, keys, "surfaced") EXCEPT !.leases = Mem!Without(@, keys)],
                       Mem!IfSome(again, b), keys # {}))
      /\ UNCHANGED used
  BY DEF On, Sql!MarkSurfaced, Mem!MarkSurfaced
<1>4. Mem!Put(mem, keys, "surfaced").leases = mem.leases
  BY DEF Mem!Put, StoresInv, Typed, MapsOfMemory
<1>5. Sql!IfAny(back, b) = Touched(rows, "surfaced")
  BY DEF Sql!IfAny, Touched, Sql!PendingStates
<1>6. /\ L \in LeaseMaps /\ DOMAIN L \subseteq DOMAIN mem.leases
      /\ \A k : k \notin keys => LeaseAt(L, k) = LeaseAt(mem.leases, k)
  <2>1. mem.leases \in LeaseMaps
    BY CopiesOf
  <2> QED
    BY <2>1, FewerLeases, ZenonT(60)
<1>7. /\ "surfaced" \in State /\ "surfaced" \notin Leasable
      /\ None \in Lease \union {None} /\ 0 \in Until
  BY StoresAssumption DEF State, Leasable, Until
<1>8. \A r \in sql.deliveries \ rows : LeaseAt(L, Key(r)) = LeaseAt(mem.leases, Key(r))
  BY <1>1, <1>6 DEF Matched
<1>p. PICK p \in BOOLEAN : p = (rows # {})
  OBVIOUS
<1>9. /\ Call(Sql!Done([sql EXCEPT !.deliveries = D], Sql!IfAny(back, b), p),
              Mem!Done([Mem!Put(mem, keys, "surfaced") EXCEPT !.leases = L], Mem!IfSome(again, b), p))
      /\ UNCHANGED used
  <2>1. p = (rows # {}) /\ p = (keys # {})
    BY <1>2, <1>p
  <2> HIDE DEF rows, keys, D, back, again
  <2> QED
    BY <1>3, <1>4, <2>1
<1> HIDE DEF rows, keys, D, L, back, again
<1>10. /\ sql' = [sql EXCEPT !.deliveries = D]
       /\ mem' = [mem EXCEPT !.deliveries = PutAt(@, keys, "surfaced"), !.leases = L]
       /\ agreed' = (p = p) /\ moved' = Sql!IfAny(back, b) /\ memMoved' = Mem!IfSome(again, b)
       /\ UNCHANGED <<now, beside>>
  BY <1>9, LeaseCall
<1>11. Leasing(rows, keys, "surfaced", None, 0, L)
  <2>1. Touched(rows, "surfaced") \subseteq Box
    BY DEF Touched
  <2> QED
    BY <1>2, <1>5, <1>9, <1>10, <2>1 DEF D, Leasing
<1>12. LeasesAs(rows, keys, "surfaced", None, 0, L)
  BY <1>1, <1>6, <1>7, <1>8 DEF LeasesAs
<1>13. StoresInv' /\ moved' = Changed
  BY <1>11, <1>12, LeaseStep
<1> QED
  BY <1>2, <1>10, <1>13 DEF Good

(* While a copy can be leased its row and memory's map name one lease, or  *)
(* none.                                                                   *)
LEMMA LeaseOfRow ==
  ASSUME StoresInv, NEW r \in sql.deliveries, r.state \in Leasable
  PROVE IF Key(r) \in DOMAIN mem.leases
          THEN /\ mem.leases[Key(r)].id = r.lease /\ mem.leases[Key(r)].until = r.until
               /\ r.lease \in Lease /\ r.lease # None
          ELSE r.lease = None
<1>1. LeaseAt(mem.leases, Key(r)) = [id |-> r.lease, until |-> r.until]
  BY CopiesOf
<1>2. CASE Key(r) \in DOMAIN mem.leases
  <2>1. mem.leases[Key(r)] = [id |-> r.lease, until |-> r.until]
    BY <1>1, <1>2 DEF LeaseAt
  <2>2. mem.leases[Key(r)] \in [id : Lease, until : Until]
    BY <1>2, CopiesOf, LeaseMapsAreFunctions
  <2>3. mem.leases[Key(r)].id = r.lease /\ mem.leases[Key(r)].until = r.until
    BY <2>1
  <2> QED
    BY <1>2, <2>2, <2>3, StoresAssumption
<1>3. CASE Key(r) \notin DOMAIN mem.leases
  <2>1. [id |-> r.lease, until |-> r.until] = [id |-> None, until |-> 0]
    BY <1>1, <1>3 DEF LeaseAt, FreeLease
  <2>2. r.lease = None
    BY <2>1
  <2> QED
    BY <1>3, <2>2
<1> QED
  BY <1>2, <1>3

(* A host leases what is free or lapsed: the same copies in both.          *)
LEMMA TakeLeaseStep ==
  ASSUME StoresInv, NEW b \in Box, NEW l \in Lease, TakeLease(b, l)
  PROVE Good
<1> DEFINE until == now + LeaseFor
           rows == {r \in sql.deliveries : /\ r.box = b
                                           /\ r.state \in {"queued", "delivered"}
                                           /\ r.lease = None \/ r.until <= now}
           keys == {k \in Mem!KeysOf(mem, b) : /\ mem.deliveries[k].state \in {"queued", "delivered"}
                                               /\ Mem!Has(mem.leases, k) => mem.leases[k].until <= now}
           D == {IF r \in rows THEN [r EXCEPT !.state = "delivered", !.lease = l, !.until = until]
                               ELSE r : r \in sql.deliveries}
           L == [k \in DOMAIN mem.leases \union keys |->
                   IF k \in keys THEN [id |-> l, until |-> until] ELSE mem.leases[k]]
           p == Sql!Ids(Sql!Joined(sql, rows))
           q == {m \in Mem!Ids(keys) : Mem!Has(mem.messages, m)}
<1>1. Matched(rows, keys)
  <2>1. \A r \in sql.deliveries : r.state \in Leasable =>
          /\ Mem!Has(mem.leases, Key(r)) =>
               mem.leases[Key(r)].until = r.until /\ r.lease = mem.leases[Key(r)].id
          /\ ~ Mem!Has(mem.leases, Key(r)) => r.lease = None
    BY LeaseOfRow DEF Mem!Has
  <2>2. \A k \in DOMAIN mem.leases : mem.leases[k].id # None
    BY CopiesOf, LeaseMapsAreFunctions, StoresAssumption
  <2>3. \A r \in sql.deliveries : r.state \in Leasable =>
          ((r.lease = None \/ r.until <= now)
             <=> (Mem!Has(mem.leases, Key(r)) => mem.leases[Key(r)].until <= now))
    BY <2>1, <2>2 DEF Mem!Has
  <2>4. \A r \in sql.deliveries : r.box = b <=> Key(r)[2] = b
    BY DEF Key
  <2>5. \A r \in sql.deliveries : r \in rows <=> Key(r) \in keys
    BY <2>3, <2>4, CopiesOf DEF Leasable, Mem!KeysOf
  <2>6. rows \subseteq sql.deliveries /\ keys \subseteq DOMAIN mem.deliveries
    BY DEF Mem!KeysOf
  <2> HIDE DEF rows, keys
  <2> QED
    BY <2>5, <2>6 DEF Matched
<1>2. p = q
  BY <1>1, MatchedAnswers
<1>3. Mem!Put(mem, keys, "delivered").leases = mem.leases
  BY DEF Mem!Put, StoresInv, Typed, MapsOfMemory
<1>4. /\ Call(Sql!Done([sql EXCEPT !.deliveries = D], {}, p),
              Mem!Done([Mem!Put(mem, keys, "delivered") EXCEPT !.leases = L], {}, q))
      /\ UNCHANGED used
  <2>1. Sql!LeaseForDelivery(sql, b, l, now, until) = Sql!Done([sql EXCEPT !.deliveries = D], {}, p)
    BY SMTT(30) DEF Sql!LeaseForDelivery
  <2>2. Mem!LeaseForDelivery(mem, b, l, now, until)
          = Mem!Done([Mem!Put(mem, keys, "delivered") EXCEPT !.leases = L], {}, q)
    BY <1>3 DEF Mem!LeaseForDelivery
  <2> QED
    BY <2>1, <2>2 DEF TakeLease, On
<1>5. Touched(rows, "delivered") = {}
  BY DEF Touched, Sql!PendingStates
<1>6. /\ "delivered" \in State /\ l \in Lease \union {None} /\ until \in Until
  BY StoresAssumption DEF State, Until, StoresInv, Typed
<1>7. /\ DOMAIN L = DOMAIN mem.leases \union keys
      /\ \A k \in keys : L[k] = [id |-> l, until |-> until]
      /\ \A k \in DOMAIN mem.leases : k \notin keys => L[k] = mem.leases[k]
  OBVIOUS
<1>8. L \in LeaseMaps
  <2>1. DOMAIN mem.leases \subseteq Msg \X Box /\ mem.leases \in [DOMAIN mem.leases -> [id : Lease, until : Until]]
    BY CopiesOf, LeaseMapsAreFunctions
  <2>2. keys \subseteq Msg \X Box
    BY <1>1, CopiesOf, CopyMapsAreFunctions DEF Matched
  <2>3. [id |-> l, until |-> until] \in [id : Lease, until : Until]
    BY <1>6
  <2> HIDE DEF until, keys
  <2>4. L \in [DOMAIN L -> [id : Lease, until : Until]] /\ DOMAIN L \subseteq Msg \X Box
    BY <2>1, <2>2, <2>3
  <2> HIDE DEF L
  <2> QED
    BY <2>4, LeaseMapsAreFunctions
<1> HIDE DEF until, rows, keys, D, L, p, q
<1>9. /\ sql' = [sql EXCEPT !.deliveries = D]
      /\ mem' = [mem EXCEPT !.deliveries = PutAt(@, keys, "delivered"), !.leases = L]
      /\ agreed' = (p = q) /\ moved' = {} /\ memMoved' = {} /\ UNCHANGED <<now, beside>>
  BY <1>4, LeaseCall
<1>10. Leasing(rows, keys, "delivered", l, until, L)
  BY <1>2, <1>4, <1>5, <1>9 DEF D, Leasing
<1>11. /\ DOMAIN L \subseteq DOMAIN mem.leases \union DOMAIN mem.deliveries
       /\ \A k \in keys : LeaseAt(L, k) = [id |-> l, until |-> until]
       /\ \A r \in sql.deliveries \ rows : LeaseAt(L, Key(r)) = LeaseAt(mem.leases, Key(r))
  BY <1>1, <1>7 DEF Matched, LeaseAt
<1>12. LeasesAs(rows, keys, "delivered", l, until, L)
  BY <1>1, <1>6, <1>8, <1>11 DEF LeasesAs
<1>13. StoresInv' /\ moved' = Changed
  BY <1>10, <1>12, LeaseStep
<1> QED
  BY <1>9, <1>13 DEF Good

(* The one call that mints an event in the file and none in memory.        *)
Acked ==
  /\ StoresInv' /\ moved' = Changed /\ memMoved' = {}
  /\ \A b \in moved' : \E r \in sql'.deliveries :
       r.box = b /\ r.state = "persisted" /\ r \notin sql.deliveries

(* An acknowledgement: memory gives up every lease it names, the file only *)
(* those of copies that can be leased.                                     *)
LEMMA AcknowledgeStep ==
  ASSUME StoresInv, NEW b \in Box, NEW l \in Lease, NEW ids \in SUBSET Msg, Acknowledge(b, l, ids)
  PROVE Acked
<1> DEFINE rows == {r \in sql.deliveries : /\ r.box = b /\ r.lease = l /\ r.msg \in ids
                                           /\ r.state \in {"queued", "delivered"}}
           held == {k \in DOMAIN mem.leases : k[1] \in ids /\ k[2] = b /\ mem.leases[k].id = l}
           keys == {k \in held : Mem!Has(mem.deliveries, k)
                                   /\ mem.deliveries[k].state \in {"queued", "delivered"}}
           D == {IF r \in rows THEN [r EXCEPT !.state = "persisted", !.lease = None, !.until = 0]
                               ELSE r : r \in sql.deliveries}
           L == Mem!Without(mem.leases, held)
           p == Sql!Cardinality(rows)
           q == Mem!Cardinality(keys)
<1>1. \A r \in sql.deliveries : r.state \in Leasable => (r \in rows <=> Key(r) \in held)
  <2>1. \A r \in sql.deliveries : r.state \in Leasable =>
          (r.lease = l <=> Key(r) \in DOMAIN mem.leases /\ mem.leases[Key(r)].id = l)
    BY LeaseOfRow, StoresAssumption
  <2>2. \A r \in sql.deliveries : Key(r)[1] = r.msg /\ Key(r)[2] = r.box
    BY DEF Key
  <2> QED
    BY <2>1, <2>2 DEF Leasable
<1>2. Matched(rows, keys)
  <2>1. \A r \in sql.deliveries : Key(r) \in DOMAIN mem.deliveries /\ mem.deliveries[Key(r)].state = r.state
    BY CopiesOf
  <2>2. \A r \in sql.deliveries : r \in rows => r.state \in Leasable
    BY DEF Leasable
  <2>3. \A r \in sql.deliveries : Key(r) \in keys <=> Key(r) \in held /\ r.state \in Leasable
    BY <2>1 DEF Leasable, Mem!Has
  <2>4. rows \subseteq sql.deliveries /\ keys \subseteq DOMAIN mem.deliveries
    BY DEF Mem!Has
  <2> HIDE DEF rows, held, keys
  <2> QED
    BY <1>1, <2>2, <2>3, <2>4 DEF Matched
<1>3. p = q
  BY <1>2, MatchedAnswers, SMTT(30)
<1>4. Mem!Put(mem, keys, "persisted").leases = mem.leases
  BY DEF Mem!Put, StoresInv, Typed, MapsOfMemory
<1>5. /\ Call(Sql!Done([sql EXCEPT !.deliveries = D], Sql!IfAny(rows, b), p),
              Mem!Done([Mem!Put(mem, keys, "persisted") EXCEPT !.leases = L], {}, q))
      /\ UNCHANGED used
  <2>1. Sql!AckDelivery(sql, b, l, ids) = Sql!Done([sql EXCEPT !.deliveries = D], Sql!IfAny(rows, b), p)
    BY DEF Sql!AckDelivery
  <2>2. Mem!AckDelivery(mem, b, l, ids)
          = Mem!Done([Mem!Put(mem, keys, "persisted") EXCEPT !.leases = L], {}, q)
    BY <1>4 DEF Mem!AckDelivery
  <2> QED
    BY <2>1, <2>2 DEF Acknowledge, On
<1>6. Sql!IfAny(rows, b) = Touched(rows, "persisted")
  BY DEF Sql!IfAny, Touched, Sql!PendingStates
<1>7. /\ L \in LeaseMaps /\ DOMAIN L \subseteq DOMAIN mem.leases
      /\ \A k : k \notin held => LeaseAt(L, k) = LeaseAt(mem.leases, k)
  <2>1. mem.leases \in LeaseMaps
    BY CopiesOf
  <2> QED
    BY <2>1, FewerLeases
<1>8. /\ "persisted" \in State /\ "persisted" \notin Leasable
      /\ None \in Lease \union {None} /\ 0 \in Until
  BY StoresAssumption DEF State, Leasable, Until
<1>9. \A r \in rows : /\ r.box = b /\ r.state # "persisted"
                      /\ [r EXCEPT !.state = "persisted", !.lease = None, !.until = 0] \in D
                      /\ r \in Row
  BY CopiesOf
<1> HIDE DEF rows, held, keys, D, L, p, q
<1>10. /\ sql' = [sql EXCEPT !.deliveries = D]
       /\ mem' = [mem EXCEPT !.deliveries = PutAt(@, keys, "persisted"), !.leases = L]
       /\ agreed' = (p = q) /\ moved' = Sql!IfAny(rows, b) /\ memMoved' = {} /\ UNCHANGED <<now, beside>>
  BY <1>5, LeaseCall
<1>11. Leasing(rows, keys, "persisted", None, 0, L)
  BY <1>3, <1>5, <1>6, <1>10 DEF D, Leasing
<1>12. LeasesAs(rows, keys, "persisted", None, 0, L)
  BY <1>1, <1>2, <1>7, <1>8 DEF LeasesAs
<1>13. StoresInv' /\ moved' = Changed
  BY <1>11, <1>12, LeaseStep
<1>14. ASSUME NEW c \in moved'
       PROVE \E r \in sql'.deliveries : r.box = c /\ r.state = "persisted" /\ r \notin sql.deliveries
  <2>1. c = b /\ rows # {}
    BY <1>10, <1>14 DEF Sql!IfAny
  <2>2. PICK r \in rows : TRUE
    BY <2>1
  <2> DEFINE x == [r EXCEPT !.state = "persisted", !.lease = None, !.until = 0]
  <2>3. x \in D /\ x.box = b /\ x.state = "persisted" /\ Key(x) = Key(r) /\ x # r
    BY <1>9, <2>2 DEF Row, Key
  <2> HIDE DEF x
  <2>4. x \notin sql.deliveries
    BY <1>2, <2>2, <2>3, CopiesOf DEF Matched
  <2>5. sql'.deliveries = D
    BY <1>10 DEF StoresInv, Typed, Tables
  <2> QED
    BY <2>1, <2>3, <2>4, <2>5
<1> QED
  BY <1>10, <1>13, <1>14 DEF Acked

-----------------------------------------------------------------------------
(* map.set and map.delete.                                                 *)
LEMMA WithIs ==
  ASSUME NEW S, NEW T, NEW f \in Maps(S, T), NEW k \in S, NEW v \in T
  PROVE /\ Mem!With(f, k, v) \in Maps(S, T)
        /\ DOMAIN Mem!With(f, k, v) = DOMAIN f \union {k}
        /\ Mem!With(f, k, v)[k] = v
        /\ \A x \in DOMAIN f : x # k => Mem!With(f, k, v)[x] = f[x]
<1> DEFINE N == Mem!With(f, k, v)
<1>1. DOMAIN f \subseteq S /\ f \in [DOMAIN f -> T]
  BY MapsAreFunctions
<1>2. N = [x \in DOMAIN f \union {k} |-> IF x = k THEN v ELSE f[x]]
  BY DEF Mem!With
<1>3. DOMAIN N \subseteq S /\ N \in [DOMAIN N -> T]
  BY <1>1, <1>2
<1>4. /\ DOMAIN N = DOMAIN f \union {k} /\ N[k] = v
      /\ \A x \in DOMAIN f : x # k => N[x] = f[x]
  BY <1>2
<1> HIDE DEF N
<1>5. N \in Maps(S, T)
  BY <1>3, MapsAreFunctions
<1> QED
  BY <1>4, <1>5 DEF N

(* map.delete, for every key of keys.                                      *)
LEMMA WithoutIs ==
  ASSUME NEW S, NEW T, NEW f \in Maps(S, T), NEW keys
  PROVE /\ Mem!Without(f, keys) \in Maps(S, T)
        /\ DOMAIN Mem!Without(f, keys) = DOMAIN f \ keys
        /\ \A x \in DOMAIN f \ keys : Mem!Without(f, keys)[x] = f[x]
<1> DEFINE N == Mem!Without(f, keys)
<1>1. DOMAIN f \subseteq S /\ f \in [DOMAIN f -> T]
  BY MapsAreFunctions
<1>2. N = [x \in DOMAIN f \ keys |-> f[x]]
  BY DEF Mem!Without, Mem!Restrict
<1>3. /\ DOMAIN N \subseteq S /\ N \in [DOMAIN N -> T] /\ DOMAIN N = DOMAIN f \ keys
      /\ \A x \in DOMAIN f \ keys : N[x] = f[x]
  BY <1>1, <1>2
<1> HIDE DEF N
<1>4. N \in Maps(S, T)
  BY <1>3, MapsAreFunctions
<1> QED
  BY <1>3, <1>4 DEF N

(* A call that leaves messages, copies, leases and routes alone.           *)
Quiet == /\ agreed' = TRUE /\ moved' = {} /\ memMoved' = {} /\ UNCHANGED <<used, now, beside>>

(* Such a call keeps the invariant when its own table still agrees ...     *)
LEMMA BesideStep ==
  ASSUME StoresInv, Quiet, sql' \in Tables, mem' \in MapsOfMemory,
         sql'.messages = sql.messages, sql'.deliveries = sql.deliveries, sql'.routes = sql.routes,
         mem'.messages = mem.messages, mem'.deliveries = mem.deliveries, mem'.routes = mem.routes,
         mem'.leases = mem.leases,
         AsksAgree(sql'.awaiting, mem'.awaiting), DOMAIN mem'.awaiting \subseteq Asks \intersect used,
         ClaimsAgree(sql'.claims, mem'.claims), ReplacedAgree(sql'.superseded, mem'.superseded),
         IntentsAgree(sql'.intents, mem'.intents),
         sql'.passes = mem'.passes, sql'.surfaces = mem'.surfaces, sql'.registry = mem'.registry
  PROVE Good
<1>1. Alike'
  BY DEF StoresInv, Alike
<1>2. Grounded'
  BY DEF StoresInv, Grounded, Quiet
<1>3. Changed = {}
  BY DEF Changed, Sql!InBox
<1> QED
  BY <1>1, <1>2, <1>3 DEF Good, StoresInv, Typed, Quiet

(* ... the asks,                                                           *)
LEMMA AsksStep ==
  ASSUME StoresInv, NEW A, NEW F, A \subseteq AskRow, F \in AskMaps, AsksAgree(A, F),
         DOMAIN F \subseteq Asks \intersect used
  PROVE Quiet /\ sql' = [sql EXCEPT !.awaiting = A] /\ mem' = [mem EXCEPT !.awaiting = F] => Good
<1> HAVE Quiet /\ sql' = [sql EXCEPT !.awaiting = A] /\ mem' = [mem EXCEPT !.awaiting = F]
<1>1. /\ sql' \in Tables /\ sql'.awaiting = A
      /\ sql'.messages = sql.messages /\ sql'.deliveries = sql.deliveries /\ sql'.routes = sql.routes
      /\ sql'.claims = sql.claims /\ sql'.superseded = sql.superseded /\ sql'.intents = sql.intents
      /\ sql'.passes = sql.passes /\ sql'.surfaces = sql.surfaces /\ sql'.registry = sql.registry
  BY DEF StoresInv, Typed, Tables
<1>2. /\ mem' \in MapsOfMemory /\ mem'.awaiting = F /\ mem'.leases = mem.leases
      /\ mem'.messages = mem.messages /\ mem'.deliveries = mem.deliveries /\ mem'.routes = mem.routes
      /\ mem'.claims = mem.claims /\ mem'.superseded = mem.superseded /\ mem'.intents = mem.intents
      /\ mem'.passes = mem.passes /\ mem'.surfaces = mem.surfaces /\ mem'.registry = mem.registry
  BY DEF StoresInv, Typed, MapsOfMemory
<1> QED
  BY <1>1, <1>2, BesideStep DEF StoresInv, Alike

(* ... the claims of project asks,                                         *)
LEMMA ClaimsStep ==
  ASSUME StoresInv, NEW A, NEW F, A \subseteq ClaimRow, F \in BoxMaps, ClaimsAgree(A, F)
  PROVE Quiet /\ sql' = [sql EXCEPT !.claims = A] /\ mem' = [mem EXCEPT !.claims = F] => Good
<1> HAVE Quiet /\ sql' = [sql EXCEPT !.claims = A] /\ mem' = [mem EXCEPT !.claims = F]
<1>1. /\ sql' \in Tables /\ sql'.claims = A
      /\ sql'.messages = sql.messages /\ sql'.deliveries = sql.deliveries /\ sql'.routes = sql.routes
      /\ sql'.awaiting = sql.awaiting /\ sql'.superseded = sql.superseded /\ sql'.intents = sql.intents
      /\ sql'.passes = sql.passes /\ sql'.surfaces = sql.surfaces /\ sql'.registry = sql.registry
  BY DEF StoresInv, Typed, Tables
<1>2. /\ mem' \in MapsOfMemory /\ mem'.claims = F /\ mem'.leases = mem.leases
      /\ mem'.messages = mem.messages /\ mem'.deliveries = mem.deliveries /\ mem'.routes = mem.routes
      /\ mem'.awaiting = mem.awaiting /\ mem'.superseded = mem.superseded /\ mem'.intents = mem.intents
      /\ mem'.passes = mem.passes /\ mem'.surfaces = mem.surfaces /\ mem'.registry = mem.registry
  BY DEF StoresInv, Typed, MapsOfMemory
<1> QED
  BY <1>1, <1>2, BesideStep DEF StoresInv, Alike, Grounded

(* ... the messages replaced by others,                                    *)
LEMMA ReplacedStep ==
  ASSUME StoresInv, NEW A, NEW F, A \subseteq SupersededRow, F \in NextMaps, ReplacedAgree(A, F)
  PROVE Quiet /\ sql' = [sql EXCEPT !.superseded = A] /\ mem' = [mem EXCEPT !.superseded = F] => Good
<1> HAVE Quiet /\ sql' = [sql EXCEPT !.superseded = A] /\ mem' = [mem EXCEPT !.superseded = F]
<1>1. /\ sql' \in Tables /\ sql'.superseded = A
      /\ sql'.messages = sql.messages /\ sql'.deliveries = sql.deliveries /\ sql'.routes = sql.routes
      /\ sql'.awaiting = sql.awaiting /\ sql'.claims = sql.claims /\ sql'.intents = sql.intents
      /\ sql'.passes = sql.passes /\ sql'.surfaces = sql.surfaces /\ sql'.registry = sql.registry
  BY DEF StoresInv, Typed, Tables
<1>2. /\ mem' \in MapsOfMemory /\ mem'.superseded = F /\ mem'.leases = mem.leases
      /\ mem'.messages = mem.messages /\ mem'.deliveries = mem.deliveries /\ mem'.routes = mem.routes
      /\ mem'.awaiting = mem.awaiting /\ mem'.claims = mem.claims /\ mem'.intents = mem.intents
      /\ mem'.passes = mem.passes /\ mem'.surfaces = mem.surfaces /\ mem'.registry = mem.registry
  BY DEF StoresInv, Typed, MapsOfMemory
<1> QED
  BY <1>1, <1>2, BesideStep DEF StoresInv, Alike, Grounded

(* ... and the outbox.                                                     *)
LEMMA IntentsStep ==
  ASSUME StoresInv, NEW A, NEW F, A \subseteq IntentRow, F \in IntentMaps, IntentsAgree(A, F)
  PROVE Quiet /\ sql' = [sql EXCEPT !.intents = A] /\ mem' = [mem EXCEPT !.intents = F] => Good
<1> HAVE Quiet /\ sql' = [sql EXCEPT !.intents = A] /\ mem' = [mem EXCEPT !.intents = F]
<1>1. /\ sql' \in Tables /\ sql'.intents = A
      /\ sql'.messages = sql.messages /\ sql'.deliveries = sql.deliveries /\ sql'.routes = sql.routes
      /\ sql'.awaiting = sql.awaiting /\ sql'.claims = sql.claims /\ sql'.superseded = sql.superseded
      /\ sql'.passes = sql.passes /\ sql'.surfaces = sql.surfaces /\ sql'.registry = sql.registry
  BY DEF StoresInv, Typed, Tables
<1>2. /\ mem' \in MapsOfMemory /\ mem'.intents = F /\ mem'.leases = mem.leases
      /\ mem'.messages = mem.messages /\ mem'.deliveries = mem.deliveries /\ mem'.routes = mem.routes
      /\ mem'.awaiting = mem.awaiting /\ mem'.claims = mem.claims /\ mem'.superseded = mem.superseded
      /\ mem'.passes = mem.passes /\ mem'.surfaces = mem.surfaces /\ mem'.registry = mem.registry
  BY DEF StoresInv, Typed, MapsOfMemory
<1> QED
  BY <1>1, <1>2, BesideStep DEF StoresInv, Alike, Grounded

-----------------------------------------------------------------------------
(* The asks.                                                               *)
LEMMA AsksOf ==
  ASSUME StoresInv
  PROVE /\ sql.awaiting \subseteq AskRow /\ mem.awaiting \in AskMaps
        /\ mem.awaiting \in Maps(Msg, AskRow)
        /\ DOMAIN mem.awaiting \subseteq Asks \intersect used
        /\ \A m \in DOMAIN mem.awaiting :
             /\ mem.awaiting[m] \in AskRow /\ mem.awaiting[m].origin = m
             /\ mem.awaiting[m] \in sql.awaiting
        /\ \A a \in sql.awaiting : a.origin \in DOMAIN mem.awaiting /\ a = mem.awaiting[a.origin]
<1>1. /\ sql.awaiting \subseteq AskRow /\ mem.awaiting \in AskMaps
      /\ DOMAIN mem.awaiting \subseteq Asks \intersect used
      /\ AsksAgree(sql.awaiting, mem.awaiting)
  BY DEF StoresInv, Typed, Tables, MapsOfMemory, Grounded, Alike
<1>2. mem.awaiting \in Maps(Msg, AskRow)
  BY <1>1 DEF AskMaps
<1>3. \A m \in DOMAIN mem.awaiting : mem.awaiting[m] \in AskRow
  BY <1>2, MapsAreFunctions
<1> QED
  BY <1>1, <1>2, <1>3 DEF AsksAgree

(* An UPDATE of one row and the map entry under its key.                   *)
LEMMA AskRewrite ==
  ASSUME StoresInv, NEW m \in DOMAIN mem.awaiting, NEW a \in AskRow, a.origin = m, NEW A, NEW F,
         A = {IF x.origin = m THEN a ELSE x : x \in sql.awaiting},
         F = [x \in DOMAIN mem.awaiting |-> IF x = m THEN a ELSE mem.awaiting[x]]
  PROVE /\ A \subseteq AskRow /\ F \in AskMaps /\ AsksAgree(A, F)
        /\ DOMAIN F \subseteq Asks \intersect used
<1>1. /\ DOMAIN F = DOMAIN mem.awaiting /\ F[m] = a
      /\ \A x \in DOMAIN F : x # m => F[x] = mem.awaiting[x]
  OBVIOUS
<1>2. \A x \in DOMAIN F : F[x] \in AskRow /\ F[x].origin = x
  BY <1>1, AsksOf
<1>3. F \in AskMaps
  <2>1. F \in [DOMAIN F -> AskRow]
    BY <1>2
  <2>2. DOMAIN F \subseteq Msg
    BY <1>1, AsksOf, MapsAreFunctions
  <2> QED
    BY <2>1, <2>2, MapsAreFunctions DEF AskMaps
<1>4. A = {F[x] : x \in DOMAIN F}
  <2>1. ASSUME NEW y \in A PROVE \E x \in DOMAIN F : y = F[x]
    <3>1. PICK x \in sql.awaiting : y = IF x.origin = m THEN a ELSE x
      OBVIOUS
    <3>2. x.origin \in DOMAIN F /\ x = mem.awaiting[x.origin]
      BY <1>1, AsksOf
    <3>3. y = F[x.origin]
      BY <1>1, <3>1, <3>2
    <3> QED
      BY <3>2, <3>3
  <2>2. ASSUME NEW x \in DOMAIN F PROVE F[x] \in A
    <3>1. mem.awaiting[x] \in sql.awaiting /\ mem.awaiting[x].origin = x
      BY <1>1, AsksOf
    <3> QED
      BY <1>1, <3>1
  <2> QED
    BY <2>1, <2>2, SMTT(30)
<1>5. A \subseteq AskRow
  BY <1>2, <1>4, ZenonT(60)
<1> QED
  BY <1>1, <1>2, <1>3, <1>4, <1>5, AsksOf DEF AsksAgree

(* Closing and deferring an ask keep its type and its key.                 *)
LEMMA AskEdits ==
  ASSUME NEW r \in AskRow, NEW n \in Int
  PROVE /\ [r EXCEPT !.closed = TRUE, !.reason = "replied"] \in AskRow
        /\ [r EXCEPT !.closed = TRUE, !.reason = "replied"].origin = r.origin
        /\ [r EXCEPT !.from = n, !.stage = 0] \in AskRow
        /\ [r EXCEPT !.from = n, !.stage = 0].origin = r.origin
<1> DEFINE c == [r EXCEPT !.closed = TRUE]
           f == [r EXCEPT !.from = n]
<1>1. c \in AskRow /\ f \in AskRow
  BY DEF AskRow
<1>2. c.origin = r.origin /\ f.origin = r.origin
  BY DEF AskRow
<1> HIDE DEF c, f
<1>3. [c EXCEPT !.reason = "replied"] \in AskRow /\ [f EXCEPT !.stage = 0] \in AskRow
  BY <1>1 DEF AskRow
<1>4. [c EXCEPT !.reason = "replied"].origin = c.origin /\ [f EXCEPT !.stage = 0].origin = f.origin
  BY <1>1 DEF AskRow
<1> QED
  BY <1>2, <1>3, <1>4 DEF c, f

(* openAwaiting replaces the row, or adds one.                             *)
LEMMA OpenAskStep ==
  ASSUME StoresInv, NEW m \in Msg \intersect Asks, OpenAsk(m)
  PROVE Good
<1> DEFINE a == [origin |-> m, expires |-> now + 1, replyBy |-> None, closed |-> FALSE,
                 reason |-> None, stage |-> 0, from |-> now]
           A == {x \in sql.awaiting : x.origin # m} \union {a}
           F == Mem!With(mem.awaiting, m, a)
<1>1. a \in AskRow /\ a.origin = m
  BY DEF AskRow, StoresInv, Typed
<1>2. /\ Call(Sql!Done([sql EXCEPT !.awaiting = A], {}, None),
              Mem!Done([mem EXCEPT !.awaiting = F], {}, None))
      /\ UNCHANGED used
  BY DEF OpenAsk, On, Sql!OpenAwaiting, Mem!OpenAwaiting
<1>3. m \in used
  <2>1. \E r \in sql.messages : r.id = m
    BY DEF OpenAsk, Appended
  <2>2. m \in DOMAIN mem.messages
    BY <2>1 DEF StoresInv, Alike, MessagesAgree
  <2> QED
    BY <2>2 DEF StoresInv, Grounded
<1> HIDE DEF a
<1>4. /\ F \in AskMaps /\ DOMAIN F = DOMAIN mem.awaiting \union {m} /\ F[m] = a
      /\ \A x \in DOMAIN mem.awaiting : x # m => F[x] = mem.awaiting[x]
  <2>1. mem.awaiting \in Maps(Msg, AskRow) /\ m \in Msg
    BY AsksOf
  <2>2. F \in Maps(Msg, AskRow)
    BY <1>1, <2>1, WithIs
  <2>3. /\ DOMAIN F = DOMAIN mem.awaiting \union {m} /\ F[m] = a
        /\ \A x \in DOMAIN mem.awaiting : x # m => F[x] = mem.awaiting[x]
    BY DEF Mem!With
  <2> QED
    BY <2>2, <2>3 DEF AskMaps
<1> HIDE DEF F
<1>5. DOMAIN F \subseteq Asks \intersect used
  BY <1>3, <1>4, AsksOf
<1>6. \A x \in DOMAIN F : F[x].origin = x
  BY <1>1, <1>4, AsksOf
<1>7. A = {F[x] : x \in DOMAIN F}
  <2>1. \A x \in DOMAIN F : F[x] \in A
    BY <1>1, <1>4, AsksOf
  <2>2. \A y \in A : \E x \in DOMAIN F : y = F[x]
    BY <1>4, AsksOf
  <2> QED
    BY <2>1, <2>2
<1>8. A \subseteq AskRow /\ AsksAgree(A, F)
  BY <1>1, <1>6, <1>7, AsksOf DEF AsksAgree
<1> HIDE DEF A
<1>9. Quiet /\ sql' = [sql EXCEPT !.awaiting = A] /\ mem' = [mem EXCEPT !.awaiting = F]
  BY <1>2 DEF Quiet, Call, Sql!Done, Mem!Done, StoresInv, Typed, Tables, MapsOfMemory
<1> QED
  BY <1>4, <1>5, <1>8, <1>9, AsksStep

(* The three UPDATEs of an ask: each touches the row only if its WHERE     *)
(* holds of it, and memory the entry under the same condition.             *)
LEMMA ChaseStep ==
  ASSUME StoresInv, NEW m \in Msg, Chase(m)
  PROVE Good
<1>2. ASSUME NEW A, NEW F,
             Call(Sql!Done([sql EXCEPT !.awaiting = A], {}, None), Mem!Done([mem EXCEPT !.awaiting = F], {}, None)),
             UNCHANGED used
      PROVE Quiet /\ sql' = [sql EXCEPT !.awaiting = A] /\ mem' = [mem EXCEPT !.awaiting = F]
  BY <1>2 DEF Quiet, Call, Sql!Done, Mem!Done, StoresInv, Typed, Tables, MapsOfMemory
<1>3. ASSUME NEW A, A = sql.awaiting, UNCHANGED used,
             Call(Sql!Done([sql EXCEPT !.awaiting = A], {}, None), Mem!Done(mem, {}, None))
      PROVE Good
  <2>1. /\ sql' = sql /\ mem' = mem /\ agreed' = TRUE /\ moved' = {} /\ memMoved' = {}
        /\ UNCHANGED <<now, beside>>
    BY <1>3 DEF Call, Sql!Done, Mem!Done, StoresInv, Typed, Tables, MapsOfMemory
  <2> QED
    BY <1>3, <2>1, LookStep DEF StoresInv, Typed
<1>4. CASE On(Sql!CloseAwaiting(sql, m, "replied"), Mem!CloseAwaiting(mem, m, "replied"))
  <2> DEFINE A == {IF a.origin = m /\ ~ a.closed THEN [a EXCEPT !.closed = TRUE, !.reason = "replied"]
                                                 ELSE a : a \in sql.awaiting}
  <2>1. Sql!CloseAwaiting(sql, m, "replied") = Sql!Done([sql EXCEPT !.awaiting = A], {}, None)
    BY DEF Sql!CloseAwaiting
  <2>2. CASE Mem!Open(mem, m)
    <3> DEFINE a == [mem.awaiting[m] EXCEPT !.closed = TRUE, !.reason = "replied"]
               F == [x \in DOMAIN mem.awaiting |-> IF x = m THEN a ELSE mem.awaiting[x]]
    <3>1. m \in DOMAIN mem.awaiting /\ mem.awaiting[m].closed = FALSE
      BY <2>2, AsksOf DEF Mem!Open, Mem!Has, AskRow
    <3>2. a \in AskRow /\ a.origin = m
      <4>1. mem.awaiting[m] \in AskRow /\ mem.awaiting[m].origin = m
        BY <3>1, AsksOf
      <4>2. 0 \in Int
        OBVIOUS
      <4> QED
        BY <4>1, <4>2, AskEdits
    <3>3. A = {IF x.origin = m THEN a ELSE x : x \in sql.awaiting}
      <4>1. \A x \in sql.awaiting : x.origin = m => x = mem.awaiting[m] /\ ~ x.closed
        BY <3>1, AsksOf
      <4> QED
        BY <4>1
    <3>4. Mem!CloseAwaiting(mem, m, "replied") = Mem!Done([mem EXCEPT !.awaiting = F], {}, None)
      <4>1. [mem EXCEPT !.awaiting[m] = [@ EXCEPT !.closed = TRUE, !.reason = "replied"]]
              = [mem EXCEPT !.awaiting = F]
        BY <3>1, AsksOf DEF AskRow, StoresInv, Typed, MapsOfMemory
      <4> QED
        BY <2>2, <4>1 DEF Mem!CloseAwaiting
    <3> HIDE DEF A, F, a
    <3>5. Quiet /\ sql' = [sql EXCEPT !.awaiting = A] /\ mem' = [mem EXCEPT !.awaiting = F]
      BY <1>2, <1>4, <2>1, <3>4 DEF On
    <3>6. /\ A \subseteq AskRow /\ F \in AskMaps /\ AsksAgree(A, F) /\ DOMAIN F \subseteq Asks \intersect used
      BY <3>1, <3>2, <3>3, AskRewrite DEF F
    <3> QED
      BY <3>5, <3>6, AsksStep
  <2>3. CASE ~ Mem!Open(mem, m)
    <3>1. A = sql.awaiting
      <4>1. \A a \in sql.awaiting : ~ (a.origin = m /\ ~ a.closed)
        BY <2>3, AsksOf DEF Mem!Open, Mem!Has
      <4> QED
        BY <4>1
    <3>2. Mem!CloseAwaiting(mem, m, "replied") = Mem!Done(mem, {}, None)
      BY <2>3 DEF Mem!CloseAwaiting
    <3> HIDE DEF A
    <3> QED
      BY <1>3, <1>4, <2>1, <3>1, <3>2 DEF On
  <2> QED
    BY <2>2, <2>3
<1>5. ASSUME NEW k \in 1..2, On(Sql!MarkNudged(sql, m, k), Mem!MarkNudged(mem, m, k))
      PROVE Good
  <2> DEFINE A == {IF a.origin = m /\ a.stage < k THEN [a EXCEPT !.stage = k] ELSE a : a \in sql.awaiting}
  <2>1. Sql!MarkNudged(sql, m, k) = Sql!Done([sql EXCEPT !.awaiting = A], {}, None)
    BY DEF Sql!MarkNudged
  <2>2. CASE m \in DOMAIN mem.awaiting /\ mem.awaiting[m].stage < k
    <3> DEFINE a == [mem.awaiting[m] EXCEPT !.stage = k]
               F == [x \in DOMAIN mem.awaiting |-> IF x = m THEN a ELSE mem.awaiting[x]]
    <3>2. a \in AskRow /\ a.origin = m
      BY <2>2, AsksOf DEF AskRow
    <3>3. A = {IF x.origin = m THEN a ELSE x : x \in sql.awaiting}
      <4>1. \A x \in sql.awaiting : x.origin = m => x = mem.awaiting[m] /\ x.stage < k
        BY <2>2, AsksOf
      <4> QED
        BY <4>1
    <3>4. Mem!MarkNudged(mem, m, k) = Mem!Done([mem EXCEPT !.awaiting = F], {}, None)
      <4>1. [mem EXCEPT !.awaiting[m].stage = k] = [mem EXCEPT !.awaiting = F]
        BY <2>2, AsksOf DEF AskRow, StoresInv, Typed, MapsOfMemory
      <4> QED
        BY <2>2, <4>1 DEF Mem!MarkNudged, Mem!Has
    <3> HIDE DEF A, F, a
    <3>5. Quiet /\ sql' = [sql EXCEPT !.awaiting = A] /\ mem' = [mem EXCEPT !.awaiting = F]
      BY <1>2, <1>5, <2>1, <3>4 DEF On
    <3>6. /\ A \subseteq AskRow /\ F \in AskMaps /\ AsksAgree(A, F) /\ DOMAIN F \subseteq Asks \intersect used
      BY <2>2, <3>2, <3>3, AskRewrite DEF F
    <3> QED
      BY <3>5, <3>6, AsksStep
  <2>3. CASE ~ (m \in DOMAIN mem.awaiting /\ mem.awaiting[m].stage < k)
    <3>1. A = sql.awaiting
      BY <2>3, AsksOf
    <3>2. Mem!MarkNudged(mem, m, k) = Mem!Done(mem, {}, None)
      BY <2>3 DEF Mem!MarkNudged, Mem!Has
    <3> HIDE DEF A
    <3> QED
      BY <1>3, <1>5, <2>1, <3>1, <3>2 DEF On
  <2> QED
    BY <2>2, <2>3
<1>6. CASE On(Sql!DeferNudge(sql, m, now + 1), Mem!DeferNudge(mem, m, now + 1))
  <2> DEFINE A == {IF a.origin = m THEN [a EXCEPT !.from = now + 1, !.stage = 0] ELSE a : a \in sql.awaiting}
  <2>1. Sql!DeferNudge(sql, m, now + 1) = Sql!Done([sql EXCEPT !.awaiting = A], {}, None)
    BY DEF Sql!DeferNudge
  <2>2. CASE m \in DOMAIN mem.awaiting
    <3> DEFINE a == [mem.awaiting[m] EXCEPT !.from = now + 1, !.stage = 0]
               F == [x \in DOMAIN mem.awaiting |-> IF x = m THEN a ELSE mem.awaiting[x]]
    <3>2. a \in AskRow /\ a.origin = m
      <4>1. mem.awaiting[m] \in AskRow /\ mem.awaiting[m].origin = m
        BY <2>2, AsksOf
      <4>2. now + 1 \in Int
        BY DEF StoresInv, Typed
      <4> QED
        BY <4>1, <4>2, AskEdits
    <3>3. A = {IF x.origin = m THEN a ELSE x : x \in sql.awaiting}
      <4>1. \A x \in sql.awaiting : x.origin = m => x = mem.awaiting[m]
        BY <2>2, AsksOf
      <4> QED
        BY <4>1
    <3>4. Mem!DeferNudge(mem, m, now + 1) = Mem!Done([mem EXCEPT !.awaiting = F], {}, None)
      <4>1. [mem EXCEPT !.awaiting[m] = [@ EXCEPT !.from = now + 1, !.stage = 0]]
              = [mem EXCEPT !.awaiting = F]
        BY <2>2, AsksOf DEF AskRow, StoresInv, Typed, MapsOfMemory
      <4> QED
        BY <2>2, <4>1 DEF Mem!DeferNudge, Mem!Has
    <3> HIDE DEF A, F, a
    <3>5. Quiet /\ sql' = [sql EXCEPT !.awaiting = A] /\ mem' = [mem EXCEPT !.awaiting = F]
      BY <1>2, <1>6, <2>1, <3>4 DEF On
    <3>6. /\ A \subseteq AskRow /\ F \in AskMaps /\ AsksAgree(A, F) /\ DOMAIN F \subseteq Asks \intersect used
      BY <2>2, <3>2, <3>3, AskRewrite DEF F
    <3> QED
      BY <3>5, <3>6, AsksStep
  <2>3. CASE m \notin DOMAIN mem.awaiting
    <3>1. A = sql.awaiting
      <4>1. \A a \in sql.awaiting : a.origin # m
        BY <2>3, AsksOf
      <4> QED
        BY <4>1
    <3>2. Mem!DeferNudge(mem, m, now + 1) = Mem!Done(mem, {}, None)
      BY <2>3 DEF Mem!DeferNudge, Mem!Has
    <3> HIDE DEF A
    <3> QED
      BY <1>3, <1>6, <2>1, <3>1, <3>2 DEF On
  <2> QED
    BY <2>2, <2>3
<1> QED
  BY <1>4, <1>5, <1>6 DEF Chase

-----------------------------------------------------------------------------
(* The tables beside the mailboxes.                                        *)

(* A call that returned the same from both and minted no event.            *)
LEMMA PlainCall ==
  ASSUME NEW s \in Tables, NEW f \in MapsOfMemory, NEW p, Call(Sql!Done(s, {}, p), Mem!Done(f, {}, p))
  PROVE /\ sql' = s /\ mem' = f
        /\ agreed' = TRUE /\ moved' = {} /\ memMoved' = {} /\ UNCHANGED <<now, beside>>
BY DEF Call, Sql!Done, Mem!Done, Tables, MapsOfMemory

(* The same of a call that hands out no message id.                        *)
LEMMA QuietCall ==
  ASSUME NEW s \in Tables, NEW f \in MapsOfMemory, NEW p, UNCHANGED used,
         Call(Sql!Done(s, {}, p), Mem!Done(f, {}, p))
  PROVE Quiet /\ sql' = s /\ mem' = f
BY PlainCall DEF Quiet

(* A call that found nothing to write.                                     *)
LEMMA LookCall ==
  ASSUME StoresInv, NEW p, UNCHANGED used, Call(Sql!Done(sql, {}, p), Mem!Done(mem, {}, p))
  PROVE Good
<1>1. Quiet /\ sql' = sql /\ mem' = mem
  <2>1. sql \in Tables /\ mem \in MapsOfMemory
    BY DEF StoresInv, Typed
  <2> QED
    BY <2>1, QuietCall
<1>2. used' = used /\ used \subseteq Msg /\ now' \in 0..MaxClock
  BY <1>1 DEF StoresInv, Typed, Quiet
<1> QED
  BY <1>1, <1>2, LookStep DEF Quiet

(* The claims of project asks.                                             *)
LEMMA ClaimsOf ==
  ASSUME StoresInv
  PROVE /\ sql.claims \subseteq ClaimRow /\ mem.claims \in Maps(Msg, Box)
        /\ DOMAIN mem.claims \subseteq Msg
        /\ \A m \in DOMAIN mem.claims : mem.claims[m] \in Box /\ [msg |-> m, alias |-> mem.claims[m]] \in sql.claims
        /\ \A c \in sql.claims : c.msg \in DOMAIN mem.claims /\ c.alias = mem.claims[c.msg]
        /\ \A c \in sql.claims : c = [msg |-> c.msg, alias |-> c.alias]
<1>1. sql.claims \subseteq ClaimRow /\ mem.claims \in Maps(Msg, Box) /\ ClaimsAgree(sql.claims, mem.claims)
  BY DEF StoresInv, Typed, Tables, MapsOfMemory, BoxMaps, Alike
<1>2. DOMAIN mem.claims \subseteq Msg /\ \A m \in DOMAIN mem.claims : mem.claims[m] \in Box
  BY <1>1, MapsAreFunctions
<1> QED
  BY <1>1, <1>2 DEF ClaimsAgree, ClaimRow

(* The first claim wins, in both.                                          *)
LEMMA ClaimProjectStep ==
  ASSUME StoresInv, NEW m \in Msg, NEW b \in Box,
         On(Sql!ClaimProject(sql, m, b), Mem!ClaimProject(mem, m, b))
  PROVE Good
<1> DEFINE row == [msg |-> m, alias |-> b]
<1>p. PICK free \in BOOLEAN : free = (\A c \in sql.claims : c.msg # m)
  OBVIOUS
<1>1. free <=> m \notin DOMAIN mem.claims
  <2>1. \A x \in DOMAIN mem.claims : \E c \in sql.claims : c.msg = x
    <3> TAKE x \in DOMAIN mem.claims
    <3>1. [msg |-> x, alias |-> mem.claims[x]] \in sql.claims
      BY ClaimsOf
    <3> QED
      BY <3>1
  <2>2. \A c \in sql.claims : c.msg \in DOMAIN mem.claims
    BY ClaimsOf
  <2> QED
    BY <1>p, <2>1, <2>2
<1>2. CASE m \in DOMAIN mem.claims
  <2>1. /\ Sql!ClaimProject(sql, m, b) = Sql!Done(sql, {}, FALSE)
        /\ Mem!ClaimProject(mem, m, b) = Mem!Done(mem, {}, FALSE)
    <3>1. (\A c \in sql.claims : c.msg # m) = FALSE
      BY <1>1, <1>2, <1>p
    <3>2. [sql EXCEPT !.claims = sql.claims] = sql
      BY DEF StoresInv, Typed, Tables
    <3>3. Sql!ClaimProject(sql, m, b) = Sql!Done([sql EXCEPT !.claims = sql.claims], {}, FALSE)
      BY <3>1 DEF Sql!ClaimProject
    <3> QED
      BY <1>2, <3>2, <3>3 DEF Mem!ClaimProject, Mem!Has
  <2> QED
    BY <2>1, LookCall DEF On
<1>3. CASE m \notin DOMAIN mem.claims
  <2> DEFINE A == sql.claims \union {row}
             F == Mem!With(mem.claims, m, b)
  <2>1. /\ Sql!ClaimProject(sql, m, b) = Sql!Done([sql EXCEPT !.claims = A], {}, TRUE)
        /\ Mem!ClaimProject(mem, m, b) = Mem!Done([mem EXCEPT !.claims = F], {}, TRUE)
    <3>1. (\A c \in sql.claims : c.msg # m) = TRUE
      BY <1>1, <1>3, <1>p
    <3>2. Sql!ClaimProject(sql, m, b) = Sql!Done([sql EXCEPT !.claims = A], {}, TRUE)
      BY <3>1 DEF Sql!ClaimProject
    <3> QED
      BY <1>3, <3>2 DEF Mem!ClaimProject, Mem!Has
  <2>2. /\ F \in Maps(Msg, Box) /\ DOMAIN F = DOMAIN mem.claims \union {m} /\ F[m] = b
        /\ \A x \in DOMAIN mem.claims : x # m => F[x] = mem.claims[x]
    <3>1. mem.claims \in Maps(Msg, Box)
      BY ClaimsOf
    <3>2. F \in Maps(Msg, Box)
      BY <3>1, WithIs
    <3> QED
      BY <3>2 DEF Mem!With
  <2>3. A = {[msg |-> x, alias |-> F[x]] : x \in DOMAIN F}
    <3> HIDE DEF F
    <3>1. \A x \in DOMAIN F : [msg |-> x, alias |-> F[x]] \in A
      BY <1>3, <2>2, ClaimsOf
    <3>2. \A c \in A : \E x \in DOMAIN F : c = [msg |-> x, alias |-> F[x]]
      <4> TAKE c \in A
      <4>1. CASE c = row
        BY <2>2, <4>1
      <4>2. CASE c \in sql.claims
        <5>1. c.msg \in DOMAIN mem.claims /\ c = [msg |-> c.msg, alias |-> mem.claims[c.msg]]
          BY <4>2, ClaimsOf
        <5> QED
          BY <1>3, <2>2, <5>1
      <4> QED
        BY <4>1, <4>2
    <3> QED
      BY <3>1, <3>2
  <2>4. A \subseteq ClaimRow /\ F \in BoxMaps
    BY <2>2, ClaimsOf DEF ClaimRow, BoxMaps
  <2> HIDE DEF A, F
  <2>5. Quiet /\ sql' = [sql EXCEPT !.claims = A] /\ mem' = [mem EXCEPT !.claims = F]
    <3>1. [sql EXCEPT !.claims = A] \in Tables /\ [mem EXCEPT !.claims = F] \in MapsOfMemory
      BY <2>4 DEF StoresInv, Typed, Tables, MapsOfMemory
    <3> QED
      BY <2>1, <3>1, QuietCall DEF On
  <2> QED
    BY <2>3, <2>4, <2>5, ClaimsStep DEF ClaimsAgree
<1> QED
  BY <1>2, <1>3

(* Giving a claim back.                                                    *)
LEMMA ReleaseStep ==
  ASSUME StoresInv, NEW m \in Msg, Release(m)
  PROVE Good
<1> DEFINE A == {c \in sql.claims : c.msg # m}
           F == Mem!Without(mem.claims, {m})
<1>1. /\ Sql!ReleaseClaim(sql, m) = Sql!Done([sql EXCEPT !.claims = A], {}, None)
      /\ Mem!ReleaseClaim(mem, m) = Mem!Done([mem EXCEPT !.claims = F], {}, None)
  BY DEF Sql!ReleaseClaim, Mem!ReleaseClaim
<1>2. /\ F \in Maps(Msg, Box) /\ DOMAIN F = DOMAIN mem.claims \ {m}
      /\ \A x \in DOMAIN mem.claims \ {m} : F[x] = mem.claims[x]
  <2>1. mem.claims \in Maps(Msg, Box)
    BY ClaimsOf
  <2>2. F \in Maps(Msg, Box)
    BY <2>1, WithoutIs
  <2> QED
    BY <2>2 DEF Mem!Without, Mem!Restrict
<1> HIDE DEF F
<1>3. A = {[msg |-> x, alias |-> F[x]] : x \in DOMAIN F}
  <2>1. \A x \in DOMAIN F : [msg |-> x, alias |-> F[x]] \in A
    BY <1>2, ClaimsOf
  <2>2. \A c \in A : \E x \in DOMAIN F : c = [msg |-> x, alias |-> F[x]]
    BY <1>2, ClaimsOf
  <2> QED
    BY <2>1, <2>2
<1>4. A \subseteq ClaimRow /\ F \in BoxMaps
  BY <1>2, ClaimsOf DEF BoxMaps
<1> HIDE DEF A
<1>5. Quiet /\ sql' = [sql EXCEPT !.claims = A] /\ mem' = [mem EXCEPT !.claims = F]
  <2>1. [sql EXCEPT !.claims = A] \in Tables /\ [mem EXCEPT !.claims = F] \in MapsOfMemory
    BY <1>4 DEF StoresInv, Typed, Tables, MapsOfMemory
  <2> QED
    BY <1>1, <2>1, QuietCall DEF On, Release
<1> QED
  BY <1>3, <1>4, <1>5, ClaimsStep DEF ClaimsAgree

(* The messages replaced by others.                                        *)
LEMMA ReplacedOf ==
  ASSUME StoresInv
  PROVE /\ sql.superseded \subseteq SupersededRow /\ mem.superseded \in Maps(Msg, Msg)
        /\ \A m \in DOMAIN mem.superseded : [msg |-> m, by |-> mem.superseded[m]] \in sql.superseded
        /\ \A c \in sql.superseded : /\ c.msg \in DOMAIN mem.superseded /\ c.by = mem.superseded[c.msg]
                                     /\ c = [msg |-> c.msg, by |-> c.by]
<1>1. /\ sql.superseded \subseteq SupersededRow /\ mem.superseded \in Maps(Msg, Msg)
      /\ ReplacedAgree(sql.superseded, mem.superseded)
  BY DEF StoresInv, Typed, Tables, MapsOfMemory, NextMaps, Alike
<1> QED
  BY <1>1 DEF ReplacedAgree, SupersededRow

(* A later ask replaces an earlier one.                                    *)
LEMMA ReplaceStep ==
  ASSUME StoresInv, NEW m \in Msg, NEW by \in Msg, Replace(m, by)
  PROVE Good
<1> DEFINE row == [msg |-> m, by |-> by]
           A == {r \in sql.superseded : r.msg # m} \union {row}
           F == Mem!With(mem.superseded, m, by)
<1>1. /\ Sql!MarkSuperseded(sql, m, by) = Sql!Done([sql EXCEPT !.superseded = A], {}, None)
      /\ Mem!MarkSuperseded(mem, m, by) = Mem!Done([mem EXCEPT !.superseded = F], {}, None)
  BY DEF Sql!MarkSuperseded, Mem!MarkSuperseded
<1>2. /\ F \in Maps(Msg, Msg) /\ DOMAIN F = DOMAIN mem.superseded \union {m} /\ F[m] = by
      /\ \A x \in DOMAIN mem.superseded : x # m => F[x] = mem.superseded[x]
  <2>1. mem.superseded \in Maps(Msg, Msg)
    BY ReplacedOf
  <2>2. F \in Maps(Msg, Msg)
    BY <2>1, WithIs
  <2> QED
    BY <2>2 DEF Mem!With
<1> HIDE DEF F
<1>3. A = {[msg |-> x, by |-> F[x]] : x \in DOMAIN F}
  <2>1. \A x \in DOMAIN F : [msg |-> x, by |-> F[x]] \in A
    BY <1>2, ReplacedOf
  <2>2. \A c \in A : \E x \in DOMAIN F : c = [msg |-> x, by |-> F[x]]
    BY <1>2, ReplacedOf
  <2> QED
    BY <2>1, <2>2
<1>4. A \subseteq SupersededRow /\ F \in NextMaps
  BY <1>2, ReplacedOf DEF SupersededRow, NextMaps
<1> HIDE DEF A
<1>5. Quiet /\ sql' = [sql EXCEPT !.superseded = A] /\ mem' = [mem EXCEPT !.superseded = F]
  <2>1. [sql EXCEPT !.superseded = A] \in Tables /\ [mem EXCEPT !.superseded = F] \in MapsOfMemory
    BY <1>4 DEF StoresInv, Typed, Tables, MapsOfMemory
  <2> QED
    BY <1>1, <2>1, QuietCall DEF On, Replace
<1> QED
  BY <1>3, <1>4, <1>5, ReplacedStep DEF ReplacedAgree

(* Passes, the marks of what was shown, and the snapshot are one set in    *)
(* both.                                                                   *)
LEMMA SetsStep ==
  ASSUME StoresInv, Quiet, NEW P \in SUBSET (Msg \X Box), NEW S \in SUBSET (Msg \X Box), NEW R \in SUBSET Entry
  PROVE /\ sql' = [sql EXCEPT !.passes = P, !.surfaces = S, !.registry = R]
        /\ mem' = [mem EXCEPT !.passes = P, !.surfaces = S, !.registry = R]
        => Good
<1> HAVE /\ sql' = [sql EXCEPT !.passes = P, !.surfaces = S, !.registry = R]
         /\ mem' = [mem EXCEPT !.passes = P, !.surfaces = S, !.registry = R]
<1>1. /\ sql' \in Tables /\ sql'.superseded = sql.superseded
      /\ sql'.messages = sql.messages /\ sql'.deliveries = sql.deliveries /\ sql'.routes = sql.routes
      /\ sql'.awaiting = sql.awaiting /\ sql'.claims = sql.claims /\ sql'.intents = sql.intents
      /\ sql'.passes = P /\ sql'.surfaces = S /\ sql'.registry = R
  BY DEF StoresInv, Typed, Tables
<1>2. /\ mem' \in MapsOfMemory /\ mem'.superseded = mem.superseded /\ mem'.leases = mem.leases
      /\ mem'.messages = mem.messages /\ mem'.deliveries = mem.deliveries /\ mem'.routes = mem.routes
      /\ mem'.awaiting = mem.awaiting /\ mem'.claims = mem.claims /\ mem'.intents = mem.intents
      /\ mem'.passes = P /\ mem'.surfaces = S /\ mem'.registry = R
  BY DEF StoresInv, Typed, MapsOfMemory
<1> QED
  BY <1>1, <1>2, BesideStep DEF StoresInv, Alike, Grounded

(* The calls that write one of these sets.                                 *)
LEMMA SetsCall ==
  ASSUME StoresInv, NEW P \in SUBSET (Msg \X Box), NEW S \in SUBSET (Msg \X Box), NEW R \in SUBSET Entry,
         UNCHANGED used,
         Call(Sql!Done([sql EXCEPT !.passes = P, !.surfaces = S, !.registry = R], {}, None),
              Mem!Done([mem EXCEPT !.passes = P, !.surfaces = S, !.registry = R], {}, None))
  PROVE Good
<1> DEFINE s == [sql EXCEPT !.passes = P, !.surfaces = S, !.registry = R]
           f == [mem EXCEPT !.passes = P, !.surfaces = S, !.registry = R]
<1>1. s \in Tables /\ f \in MapsOfMemory
  BY DEF StoresInv, Typed, Tables, MapsOfMemory
<1>2. Call(Sql!Done(s, {}, None), Mem!Done(f, {}, None))
  OBVIOUS
<1> HIDE DEF s, f
<1>3. Quiet /\ sql' = s /\ mem' = f
  BY <1>1, <1>2, QuietCall
<1> QED
  BY <1>3, SetsStep DEF s, f

(* Passing a project ask on,                                               *)
LEMMA PassStep ==
  ASSUME StoresInv, NEW m \in Msg, NEW b \in Box,
         On(Sql!PassProject(sql, m, b), Mem!PassProject(mem, m, b))
  PROVE Good
<1> DEFINE P == sql.passes \union {<<m, b>>}
<1>1. /\ mem.passes = sql.passes /\ P \subseteq Msg \X Box
      /\ sql.surfaces \subseteq Msg \X Box /\ sql.registry \subseteq Entry
      /\ mem.surfaces = sql.surfaces /\ mem.registry = sql.registry
  BY DEF StoresInv, Typed, Tables, Alike
<1>2. /\ [sql EXCEPT !.passes = P] = [sql EXCEPT !.passes = P, !.surfaces = sql.surfaces, !.registry = sql.registry]
      /\ [mem EXCEPT !.passes = P] = [mem EXCEPT !.passes = P, !.surfaces = sql.surfaces, !.registry = sql.registry]
  BY <1>1 DEF StoresInv, Typed, Tables, MapsOfMemory
<1>3. /\ Sql!PassProject(sql, m, b) = Sql!Done([sql EXCEPT !.passes = P], {}, None)
      /\ Mem!PassProject(mem, m, b) = Mem!Done([mem EXCEPT !.passes = P], {}, None)
  BY <1>1 DEF Sql!PassProject, Mem!PassProject
<1>4. /\ Call(Sql!Done([sql EXCEPT !.passes = P, !.surfaces = sql.surfaces, !.registry = sql.registry], {}, None),
              Mem!Done([mem EXCEPT !.passes = P, !.surfaces = sql.surfaces, !.registry = sql.registry], {}, None))
      /\ UNCHANGED used
  BY <1>2, <1>3 DEF On
<1>5. P \in SUBSET (Msg \X Box) /\ sql.surfaces \in SUBSET (Msg \X Box) /\ sql.registry \in SUBSET Entry
  BY <1>1
<1> QED
  BY <1>4, <1>5, SetsCall

(* noting that it was shown,                                               *)
LEMMA ShowStep ==
  ASSUME StoresInv, NEW m \in Msg, NEW b \in Box, Show(m, b)
  PROVE Good
<1> DEFINE S == sql.surfaces \union {<<m, b>>}
<1>1. /\ mem.passes = sql.passes /\ S \subseteq Msg \X Box
      /\ sql.passes \subseteq Msg \X Box /\ sql.registry \subseteq Entry
      /\ mem.surfaces = sql.surfaces /\ mem.registry = sql.registry
  BY DEF StoresInv, Typed, Tables, Alike
<1>2. /\ [sql EXCEPT !.surfaces = S] = [sql EXCEPT !.passes = sql.passes, !.surfaces = S, !.registry = sql.registry]
      /\ [mem EXCEPT !.surfaces = S] = [mem EXCEPT !.passes = sql.passes, !.surfaces = S, !.registry = sql.registry]
  BY <1>1 DEF StoresInv, Typed, Tables, MapsOfMemory
<1>3. /\ Sql!MarkProjectSurfaced(sql, m, b) = Sql!Done([sql EXCEPT !.surfaces = S], {}, None)
      /\ Mem!MarkProjectSurfaced(mem, m, b) = Mem!Done([mem EXCEPT !.surfaces = S], {}, None)
  BY <1>1 DEF Sql!MarkProjectSurfaced, Mem!MarkProjectSurfaced
<1>4. /\ Call(Sql!Done([sql EXCEPT !.passes = sql.passes, !.surfaces = S, !.registry = sql.registry], {}, None),
              Mem!Done([mem EXCEPT !.passes = sql.passes, !.surfaces = S, !.registry = sql.registry], {}, None))
      /\ UNCHANGED used
  BY <1>2, <1>3 DEF On, Show
<1>5. sql.passes \in SUBSET (Msg \X Box) /\ S \in SUBSET (Msg \X Box) /\ sql.registry \in SUBSET Entry
  BY <1>1
<1> QED
  BY <1>4, <1>5, SetsCall

(* and saving the registry.                                                *)
LEMMA SaveEntriesStep ==
  ASSUME StoresInv, NEW R \in SUBSET Entry, SaveEntries(R)
  PROVE Good
<1>1. /\ mem.passes = sql.passes /\ sql.passes \subseteq Msg \X Box
      /\ sql.surfaces \subseteq Msg \X Box /\ mem.surfaces = sql.surfaces
  BY DEF StoresInv, Typed, Tables, Alike
<1>2. /\ [sql EXCEPT !.registry = R] = [sql EXCEPT !.passes = sql.passes, !.surfaces = sql.surfaces, !.registry = R]
      /\ [mem EXCEPT !.registry = R] = [mem EXCEPT !.passes = sql.passes, !.surfaces = sql.surfaces, !.registry = R]
  BY <1>1 DEF StoresInv, Typed, Tables, MapsOfMemory
<1>3. /\ Sql!SaveRegistry(sql, R) = Sql!Done([sql EXCEPT !.registry = R], {}, None)
      /\ Mem!SaveRegistry(mem, R) = Mem!Done([mem EXCEPT !.registry = R], {}, None)
  BY DEF Sql!SaveRegistry, Mem!SaveRegistry
<1>4. /\ Call(Sql!Done([sql EXCEPT !.passes = sql.passes, !.surfaces = sql.surfaces, !.registry = R], {}, None),
              Mem!Done([mem EXCEPT !.passes = sql.passes, !.surfaces = sql.surfaces, !.registry = R], {}, None))
      /\ UNCHANGED used
  BY <1>2, <1>3 DEF On, SaveEntries
<1>5. sql.passes \in SUBSET (Msg \X Box) /\ sql.surfaces \in SUBSET (Msg \X Box) /\ R \in SUBSET Entry
  BY <1>1
<1> QED
  BY <1>4, <1>5, SetsCall

(* The outbox.                                                             *)
LEMMA IntentsOf ==
  ASSUME StoresInv
  PROVE /\ sql.intents \subseteq IntentRow /\ mem.intents \in Maps(Intent, IntentRow)
        /\ \A o \in DOMAIN mem.intents : mem.intents[o] \in sql.intents /\ mem.intents[o].op = o
        /\ \A r \in sql.intents : r.op \in DOMAIN mem.intents /\ r = mem.intents[r.op]
<1>1. /\ sql.intents \subseteq IntentRow /\ mem.intents \in Maps(Intent, IntentRow)
      /\ IntentsAgree(sql.intents, mem.intents)
  BY DEF StoresInv, Typed, Tables, MapsOfMemory, IntentMaps, Alike
<1> QED
  BY <1>1 DEF IntentsAgree

(* The first intent of an operation stays.                                 *)
LEMMA QueueIntentStep ==
  ASSUME StoresInv, NEW o \in Intent, NEW b \in Box, QueueIntent(o, b)
  PROVE Good
<1> DEFINE row == [op |-> o, from |-> b, ts |-> now]
<1>1. (\E r \in sql.intents : r.op = o) <=> o \in DOMAIN mem.intents
  BY IntentsOf
<1>2. CASE o \in DOMAIN mem.intents
  <2>1. /\ Sql!QueueOutbound(sql, o, b, now) = Sql!Done(sql, {}, None)
        /\ Mem!QueueOutbound(mem, o, b, now) = Mem!Done(mem, {}, None)
    <3>1. [sql EXCEPT !.intents = sql.intents] = sql
      BY DEF StoresInv, Typed, Tables
    <3>2. Sql!QueueOutbound(sql, o, b, now) = Sql!Done([sql EXCEPT !.intents = sql.intents], {}, None)
      BY <1>1, <1>2 DEF Sql!QueueOutbound
    <3> QED
      BY <1>2, <3>1, <3>2 DEF Mem!QueueOutbound, Mem!Has
  <2> QED
    BY <2>1, LookCall DEF On, QueueIntent
<1>3. CASE o \notin DOMAIN mem.intents
  <2> DEFINE A == sql.intents \union {row}
             F == Mem!With(mem.intents, o, row)
  <2>1. /\ Sql!QueueOutbound(sql, o, b, now) = Sql!Done([sql EXCEPT !.intents = A], {}, None)
        /\ Mem!QueueOutbound(mem, o, b, now) = Mem!Done([mem EXCEPT !.intents = F], {}, None)
    BY <1>1, <1>3 DEF Sql!QueueOutbound, Mem!QueueOutbound, Mem!Has
  <2>2. row \in IntentRow /\ row.op = o
    BY DEF IntentRow, StoresInv, Typed
  <2> HIDE DEF row
  <2>3. /\ F \in Maps(Intent, IntentRow) /\ DOMAIN F = DOMAIN mem.intents \union {o} /\ F[o] = row
        /\ \A x \in DOMAIN mem.intents : x # o => F[x] = mem.intents[x]
    <3>1. mem.intents \in Maps(Intent, IntentRow)
      BY IntentsOf
    <3>2. F \in Maps(Intent, IntentRow)
      BY <2>2, <3>1, WithIs
    <3> QED
      BY <3>2 DEF Mem!With
  <2> HIDE DEF F
  <2>4. A = {F[x] : x \in DOMAIN F} /\ \A x \in DOMAIN F : F[x].op = x
    <3>1. \A x \in DOMAIN F : F[x] \in A /\ F[x].op = x
      BY <1>3, <2>2, <2>3, IntentsOf
    <3>2. \A r \in A : \E x \in DOMAIN F : r = F[x]
      <4>1. row = F[o] /\ o \in DOMAIN F
        BY <2>3
      <4>2. \A r \in sql.intents : r.op \in DOMAIN F /\ r = F[r.op]
        BY <1>3, <2>3, IntentsOf
      <4> QED
        BY <4>1, <4>2
    <3> QED
      BY <3>1, <3>2
  <2>5. A \subseteq IntentRow /\ F \in IntentMaps
    BY <2>2, <2>3, IntentsOf DEF IntentMaps
  <2> HIDE DEF A
  <2>6. Quiet /\ sql' = [sql EXCEPT !.intents = A] /\ mem' = [mem EXCEPT !.intents = F]
    <3>1. [sql EXCEPT !.intents = A] \in Tables /\ [mem EXCEPT !.intents = F] \in MapsOfMemory
      BY <2>5 DEF StoresInv, Typed, Tables, MapsOfMemory
    <3> QED
      BY <2>1, <3>1, QuietCall DEF On, QueueIntent
  <2> QED
    BY <2>4, <2>5, <2>6, IntentsStep DEF IntentsAgree
<1> QED
  BY <1>2, <1>3

(* What was replayed leaves the outbox.                                    *)
LEMMA DropIntentStep ==
  ASSUME StoresInv, NEW o \in Intent, DropIntent(o)
  PROVE Good
<1> DEFINE A == {r \in sql.intents : r.op # o}
           F == Mem!Without(mem.intents, {o})
<1>1. /\ Sql!DeleteOutbound(sql, o) = Sql!Done([sql EXCEPT !.intents = A], {}, None)
      /\ Mem!DeleteOutbound(mem, o) = Mem!Done([mem EXCEPT !.intents = F], {}, None)
  BY DEF Sql!DeleteOutbound, Mem!DeleteOutbound
<1>2. /\ F \in Maps(Intent, IntentRow) /\ DOMAIN F = DOMAIN mem.intents \ {o}
      /\ \A x \in DOMAIN mem.intents \ {o} : F[x] = mem.intents[x]
  <2>1. mem.intents \in Maps(Intent, IntentRow)
    BY IntentsOf
  <2>2. F \in Maps(Intent, IntentRow)
    BY <2>1, WithoutIs
  <2> QED
    BY <2>2 DEF Mem!Without, Mem!Restrict
<1> HIDE DEF F
<1>3. A = {F[x] : x \in DOMAIN F} /\ \A x \in DOMAIN F : F[x].op = x
  <2>1. \A x \in DOMAIN F : F[x] \in A /\ F[x].op = x
    BY <1>2, IntentsOf
  <2>2. \A r \in A : \E x \in DOMAIN F : r = F[x]
    BY <1>2, IntentsOf
  <2> QED
    BY <2>1, <2>2
<1>4. A \subseteq IntentRow /\ F \in IntentMaps
  BY <1>2, IntentsOf DEF IntentMaps
<1> HIDE DEF A
<1>5. Quiet /\ sql' = [sql EXCEPT !.intents = A] /\ mem' = [mem EXCEPT !.intents = F]
  <2>1. [sql EXCEPT !.intents = A] \in Tables /\ [mem EXCEPT !.intents = F] \in MapsOfMemory
    BY <1>4 DEF StoresInv, Typed, Tables, MapsOfMemory
  <2> QED
    BY <1>1, <2>1, QuietCall DEF On, DropIntent
<1> QED
  BY <1>3, <1>4, <1>5, IntentsStep DEF IntentsAgree

-----------------------------------------------------------------------------
(* Messages, their routes and their copies come and go.                    *)
LEMMA MessagesOf ==
  ASSUME StoresInv
  PROVE /\ sql.messages \subseteq MsgRow /\ mem.messages \in Maps(Msg, 0..LastSend)
        /\ DOMAIN mem.messages \subseteq used
        /\ \A m \in DOMAIN mem.messages : /\ [id |-> m, ts |-> mem.messages[m]] \in sql.messages
                                          /\ mem.messages[m] \in 0..LastSend
        /\ \A r \in sql.messages : /\ r.id \in DOMAIN mem.messages /\ r.ts = mem.messages[r.id]
                                   /\ r = [id |-> r.id, ts |-> r.ts]
<1>1. /\ sql.messages \subseteq MsgRow /\ mem.messages \in Maps(Msg, 0..LastSend)
      /\ MessagesAgree(sql.messages, mem.messages) /\ DOMAIN mem.messages \subseteq used
  BY DEF StoresInv, Typed, Tables, MapsOfMemory, TimeMaps, Alike, Grounded
<1>2. \A m \in DOMAIN mem.messages : mem.messages[m] \in 0..LastSend
  <2> DEFINE T == 0..LastSend
  <2>1. mem.messages \in Maps(Msg, T)
    BY <1>1
  <2> HIDE DEF T
  <2>2. mem.messages \in [DOMAIN mem.messages -> T]
    BY <2>1, MapsAreFunctions
  <2>3. \A m \in DOMAIN mem.messages : mem.messages[m] \in T
    BY <2>2
  <2> QED
    BY <2>3 DEF T
<1> QED
  BY <1>1, <1>2 DEF MessagesAgree, MsgRow

(* The routes.                                                             *)
LEMMA RoutesOf ==
  ASSUME StoresInv
  PROVE /\ sql.routes \subseteq RouteRow /\ mem.routes \in Maps(Msg, SUBSET Box)
        /\ DOMAIN mem.routes \subseteq used
        /\ \A m \in DOMAIN mem.routes : [msg |-> m, targets |-> mem.routes[m]] \in sql.routes
        /\ \A r \in sql.routes : /\ r.msg \in DOMAIN mem.routes /\ r.targets = mem.routes[r.msg]
                                 /\ r = [msg |-> r.msg, targets |-> r.targets]
<1>1. /\ sql.routes \subseteq RouteRow /\ mem.routes \in Maps(Msg, SUBSET Box)
      /\ RoutesAgree(sql.routes, mem.routes) /\ DOMAIN mem.routes \subseteq used
  BY DEF StoresInv, Typed, Tables, MapsOfMemory, RouteMaps, Alike, Grounded
<1> QED
  BY <1>1 DEF RoutesAgree, RouteRow

(* What a new message leaves behind: its row, and with a send its route.   *)
Appending(m, A, F, R, G) ==
  /\ sql' = [sql EXCEPT !.messages = A, !.routes = R]
  /\ mem' = [mem EXCEPT !.messages = F, !.routes = G]
  /\ agreed' = TRUE /\ moved' = {} /\ memMoved' = {}
  /\ used' = used \union {m} /\ UNCHANGED <<now, beside>>

Appends(m, A, F, R, G) ==
  /\ m \in Msg \ used
  /\ A \subseteq MsgRow /\ F \in TimeMaps /\ MessagesAgree(A, F)
  /\ R \subseteq RouteRow /\ G \in RouteMaps /\ RoutesAgree(R, G)
  /\ DOMAIN F = DOMAIN mem.messages \union {m}
  /\ DOMAIN G \subseteq DOMAIN mem.routes \union {m}

(* A new id has no copies, no lease and no ask: that is why it may be      *)
(* appended anywhere.                                                      *)
LEMMA AppendingStep ==
  ASSUME StoresInv, NEW m, NEW A, NEW F, NEW R, NEW G, Appends(m, A, F, R, G)
  PROVE Appending(m, A, F, R, G) => Good
<1> HAVE Appending(m, A, F, R, G)
<1>0. /\ sql' = [sql EXCEPT !.messages = A, !.routes = R]
      /\ mem' = [mem EXCEPT !.messages = F, !.routes = G]
      /\ agreed' = TRUE /\ moved' = {} /\ memMoved' = {}
      /\ used' = used \union {m} /\ UNCHANGED <<now, beside>>
  BY DEF Appending
<1>1. /\ sql' \in Tables /\ sql'.messages = A /\ sql'.routes = R
      /\ sql'.deliveries = sql.deliveries /\ sql'.superseded = sql.superseded
      /\ sql'.awaiting = sql.awaiting /\ sql'.claims = sql.claims /\ sql'.intents = sql.intents
      /\ sql'.passes = sql.passes /\ sql'.surfaces = sql.surfaces /\ sql'.registry = sql.registry
  BY <1>0 DEF StoresInv, Typed, Tables, Appends
<1>2. /\ mem' \in MapsOfMemory /\ mem'.messages = F /\ mem'.routes = G /\ mem'.leases = mem.leases
      /\ mem'.deliveries = mem.deliveries /\ mem'.superseded = mem.superseded
      /\ mem'.awaiting = mem.awaiting /\ mem'.claims = mem.claims /\ mem'.intents = mem.intents
      /\ mem'.passes = mem.passes /\ mem'.surfaces = mem.surfaces /\ mem'.registry = mem.registry
  BY <1>0 DEF StoresInv, Typed, MapsOfMemory, Appends
<1>3. Alike'
  BY <1>1, <1>2 DEF StoresInv, Alike, Appends
<1>4. Grounded'
  <2>1. DOMAIN F \subseteq used' /\ DOMAIN G \subseteq used' /\ DOMAIN mem.awaiting \subseteq Asks \intersect used'
    BY <1>0 DEF StoresInv, Grounded, Appends
  <2>2. \A k \in DOMAIN mem.deliveries : k[1] \in DOMAIN F /\ k[2] \in To[k[1]]
    BY DEF StoresInv, Grounded, Appends
  <2>3. \A k \in DOMAIN mem.leases : k[1] \in used' /\ (k[1] \in DOMAIN F => k \in DOMAIN mem.deliveries)
    BY <1>0 DEF StoresInv, Grounded, Appends
  <2> QED
    BY <1>2, <2>1, <2>2, <2>3 DEF StoresInv, Grounded
<1>5. Changed = {}
  BY <1>1 DEF Changed, Sql!InBox
<1>6. used' \subseteq Msg
  BY <1>0 DEF StoresInv, Typed, Appends
<1> QED
  BY <1>0, <1>1, <1>2, <1>3, <1>4, <1>5, <1>6 DEF Good, StoresInv, Typed

(* append and appendRouted, with an id not used before.                    *)
LEMMA AppendStep ==
  ASSUME StoresInv, NEW m \in Msg, Append(m)
  PROVE Good
<1> DEFINE row == [id |-> m, ts |-> now]
           A == sql.messages \union {row}
           F == Mem!With(mem.messages, m, now)
           route == [msg |-> m, targets |-> To[m]]
           R == sql.routes \union {route}
           G == Mem!With(mem.routes, m, To[m])
<1>1. m \notin used /\ now \in 0..LastSend
  BY StoresAssumption DEF Append, StoresInv, Typed
<1>2. m \notin DOMAIN mem.messages /\ m \notin DOMAIN mem.routes
  BY <1>1, MessagesOf, RoutesOf
<1>3. m \notin {r.id : r \in sql.messages} /\ ~ \E r \in sql.routes : r.msg = m
  BY <1>2, MessagesOf, RoutesOf
<1>4. A \subseteq MsgRow /\ F \in TimeMaps /\ MessagesAgree(A, F) /\ DOMAIN F = DOMAIN mem.messages \union {m}
  <2>1. mem.messages \in Maps(Msg, 0..LastSend)
    BY MessagesOf
  <2>2. F \in Maps(Msg, 0..LastSend)
    BY <1>1, <2>1, WithIs
  <2>3. /\ DOMAIN F = DOMAIN mem.messages \union {m} /\ F[m] = now
        /\ \A x \in DOMAIN mem.messages : x # m => F[x] = mem.messages[x]
    BY DEF Mem!With
  <2> HIDE DEF F
  <2>4. \A x \in DOMAIN F : [id |-> x, ts |-> F[x]] \in A
    BY <1>2, <2>3, MessagesOf
  <2>5. \A r \in A : \E x \in DOMAIN F : r = [id |-> x, ts |-> F[x]]
    <3>1. m \in DOMAIN F /\ row = [id |-> m, ts |-> F[m]]
      BY <2>3
    <3>2. \A r \in sql.messages : r.id \in DOMAIN F /\ r = [id |-> r.id, ts |-> F[r.id]]
      BY <1>2, <2>3, MessagesOf
    <3> QED
      BY <3>1, <3>2
  <2>6. A = {[id |-> x, ts |-> F[x]] : x \in DOMAIN F}
    BY <2>4, <2>5
  <2>7. A \subseteq MsgRow
    BY <1>1, MessagesOf DEF MsgRow
  <2> QED
    BY <2>2, <2>3, <2>6, <2>7 DEF MessagesAgree, TimeMaps
<1>5. R \subseteq RouteRow /\ G \in RouteMaps /\ RoutesAgree(R, G) /\ DOMAIN G = DOMAIN mem.routes \union {m}
  <2>1. mem.routes \in Maps(Msg, SUBSET Box) /\ To[m] \in SUBSET Box
    BY RoutesOf, StoresAssumption
  <2>2. G \in Maps(Msg, SUBSET Box)
    BY <2>1, WithIs
  <2>3. /\ DOMAIN G = DOMAIN mem.routes \union {m} /\ G[m] = To[m]
        /\ \A x \in DOMAIN mem.routes : x # m => G[x] = mem.routes[x]
    BY DEF Mem!With
  <2> HIDE DEF G
  <2>4. \A x \in DOMAIN G : [msg |-> x, targets |-> G[x]] \in R
    BY <1>2, <2>3, RoutesOf
  <2>5. \A r \in R : \E x \in DOMAIN G : r = [msg |-> x, targets |-> G[x]]
    <3>1. m \in DOMAIN G /\ route = [msg |-> m, targets |-> G[m]]
      BY <2>3
    <3>2. \A r \in sql.routes : r.msg \in DOMAIN G /\ r = [msg |-> r.msg, targets |-> G[r.msg]]
      BY <1>2, <2>3, RoutesOf
    <3> QED
      BY <3>1, <3>2
  <2>6. R = {[msg |-> x, targets |-> G[x]] : x \in DOMAIN G}
    BY <2>4, <2>5
  <2>7. R \subseteq RouteRow
    BY <2>1, RoutesOf DEF RouteRow
  <2> QED
    BY <2>2, <2>3, <2>6, <2>7 DEF RoutesAgree, RouteMaps
<1>6. used' = used \union {m}
  BY DEF Append
<1>7. /\ "routes" \in DOMAIN sql /\ "moved" \in DOMAIN sql /\ "out" \in DOMAIN sql
      /\ sql \in Tables /\ mem \in MapsOfMemory
  BY DEF StoresInv, Typed, Tables
<1>8. Sql!Append(sql, m, now) = Sql!Done([sql EXCEPT !.messages = A], {}, None)
  BY <1>3 DEF Sql!Append
<1>9. CASE m \in Sent
  <2>1. Call(Sql!AppendRouted(sql, m, To[m], now), Mem!AppendRouted(mem, m, To[m], now))
    BY <1>9 DEF Append
  <2>2. Mem!AppendRouted(mem, m, To[m], now) = Mem!Done([mem EXCEPT !.messages = F, !.routes = G], {}, None)
    BY <1>2 DEF Mem!AppendRouted, Mem!Has
  <2>3. Sql!AppendRouted(sql, m, To[m], now)
          = Sql!Done([Sql!Done([sql EXCEPT !.messages = A], {}, None) EXCEPT !.routes = R], {}, None)
    <3>1. Sql!Done([sql EXCEPT !.messages = A], {}, None).routes = sql.routes
      BY <1>7 DEF Sql!Done, Tables
    <3> HIDE DEF A
    <3> QED
      BY <1>3, <1>8, <3>1 DEF Sql!AppendRouted, Sql!SaveRoute
  <2> HIDE DEF A, F, R, G
  <2>4. Appending(m, A, F, R, G)
    <3> DEFINE s == [sql EXCEPT !.messages = A]
               sr == [sql EXCEPT !.messages = A, !.routes = R]
               f == [mem EXCEPT !.messages = F, !.routes = G]
    <3>1. s \in Tables /\ sr \in Tables /\ f \in MapsOfMemory
      BY <1>4, <1>5, <1>7 DEF Tables, MapsOfMemory
    <3>2. Sql!Done(s, {}, None) = s
      BY <3>1 DEF Sql!Done, Tables
    <3>3. Call(Sql!Done(sr, {}, None), Mem!Done(f, {}, None))
      BY <2>1, <2>2, <2>3, <3>2
    <3> HIDE DEF s, sr, f
    <3>4. /\ sql' = sr /\ mem' = f
          /\ agreed' = TRUE /\ moved' = {} /\ memMoved' = {} /\ UNCHANGED <<now, beside>>
      BY <3>1, <3>3, PlainCall
    <3> QED
      BY <1>6, <3>4 DEF Appending, sr, f
  <2>5. Appends(m, A, F, R, G)
    BY <1>1, <1>4, <1>5 DEF Appends
  <2> QED
    BY <2>4, <2>5, AppendingStep
<1>10. CASE m \notin Sent
  <2>1. Call(Sql!Append(sql, m, now), Mem!Append(mem, m, now))
    BY <1>10 DEF Append
  <2>2. Mem!Append(mem, m, now) = Mem!Done([mem EXCEPT !.messages = F], {}, None)
    BY <1>2 DEF Mem!Append, Mem!Has
  <2> HIDE DEF A, F
  <2>3. Appending(m, A, F, sql.routes, mem.routes)
    <3> DEFINE s == [sql EXCEPT !.messages = A]
               f == [mem EXCEPT !.messages = F]
    <3>1. s \in Tables /\ f \in MapsOfMemory
      BY <1>4, <1>7 DEF Tables, MapsOfMemory
    <3>2. /\ s = [sql EXCEPT !.messages = A, !.routes = sql.routes]
          /\ f = [mem EXCEPT !.messages = F, !.routes = mem.routes]
      BY <1>7 DEF Tables, MapsOfMemory
    <3>3. Call(Sql!Done(s, {}, None), Mem!Done(f, {}, None))
      BY <1>8, <2>1, <2>2
    <3> HIDE DEF s, f
    <3>4. /\ sql' = s /\ mem' = f
          /\ agreed' = TRUE /\ moved' = {} /\ memMoved' = {} /\ UNCHANGED <<now, beside>>
      BY <3>1, <3>3, PlainCall
    <3> QED
      BY <1>6, <3>2, <3>4 DEF Appending
  <2>4. Appends(m, A, F, sql.routes, mem.routes)
    BY <1>1, <1>4 DEF Appends, StoresInv, Alike, Typed, Tables, MapsOfMemory
  <2> QED
    BY <2>3, <2>4, AppendingStep
<1> QED
  BY <1>9, <1>10

(* A copy is in memory exactly when its row is in the file.                *)
LEMMA CopyOf ==
  ASSUME StoresInv, NEW m \in Msg, NEW b \in Box
  PROVE <<m, b>> \in DOMAIN mem.deliveries <=> \E r \in sql.deliveries : r.msg = m /\ r.box = b
<1>1. ASSUME <<m, b>> \in DOMAIN mem.deliveries PROVE \E r \in sql.deliveries : r.msg = m /\ r.box = b
  <2>1. PICK r \in sql.deliveries : Key(r) = <<m, b>>
    BY <1>1, CopiesOf
  <2> QED
    BY <2>1 DEF Key
<1>2. \A r \in sql.deliveries : r.msg = m /\ r.box = b => <<m, b>> \in DOMAIN mem.deliveries
  BY CopiesOf DEF Key
<1> QED
  BY <1>1, <1>2

(* enqueue: a copy once per address, with its message's time and no lease, *)
(* its event the change of the inbox.                                      *)
LEMMA FanOutStep ==
  ASSUME StoresInv, NEW m \in Msg, NEW b, FanOut(m, b)
  PROVE Good
<1>1. m \in DOMAIN mem.messages /\ b \in To[m] /\ b \in Box
  BY MessagesOf, StoresAssumption DEF FanOut, Appended
<1>2. On(Sql!Enqueue(sql, m, b), Mem!Enqueue(mem, m, b))
  BY DEF FanOut
<1>3. CASE <<m, b>> \in DOMAIN mem.deliveries
  <2>1. {r \in sql.deliveries : r.msg = m /\ r.box = b} # {}
    BY <1>1, <1>3, CopyOf
  <2>2. Sql!Enqueue(sql, m, b) = Sql!Done(sql, {}, None) /\ Mem!Enqueue(mem, m, b) = Mem!Done(mem, {}, None)
    BY <1>3, <2>1 DEF Sql!Enqueue, Mem!Enqueue, Mem!Has
  <2> QED
    BY <1>2, <2>2, LookCall DEF On
<1>4. CASE <<m, b>> \notin DOMAIN mem.deliveries
  <2> DEFINE ts == mem.messages[m]
             row == [msg |-> m, box |-> b, state |-> "queued", lease |-> None, until |-> 0, ts |-> ts]
             copy == [state |-> "queued", ts |-> ts]
             D == sql.deliveries \union {row}
             F == Mem!With(mem.deliveries, <<m, b>>, copy)
  <2>1. {r \in sql.deliveries : r.msg = m /\ r.box = b} = {}
    BY <1>1, <1>4, CopyOf
  <2>2. ts \in 0..LastSend
    BY <1>1, MessagesOf
  <2>3. Sql!Max({0} \union {r.ts : r \in {x \in sql.messages : x.id = m}}) = ts
    <3>1. {r.ts : r \in {x \in sql.messages : x.id = m}} = {ts}
      <4>1. [id |-> m, ts |-> ts] \in sql.messages
        BY <1>1, MessagesOf
      <4>2. \A r \in sql.messages : r.id = m => r.ts = ts
        BY MessagesOf
      <4> QED
        BY <4>1, <4>2
    <3> HIDE DEF ts
    <3>2. Sql!Max({0} \union {ts}) = ts
      BY <2>2 DEF Sql!Max
    <3> QED
      BY <3>1, <3>2
  <2>4. Sql!Enqueue(sql, m, b) = Sql!Done([sql EXCEPT !.deliveries = D], {b}, None)
    BY <2>1, <2>3 DEF Sql!Enqueue
  <2>5. Mem!Enqueue(mem, m, b) = Mem!Done([mem EXCEPT !.deliveries = F], {b}, None)
    BY <1>1, <1>4 DEF Mem!Enqueue, Mem!Has
  <2>6. row \in Row /\ Key(row) = <<m, b>> /\ Copy(row) = copy /\ row.state = "queued" /\ row.box = b /\ row.msg = m
    BY <1>1, <2>2, StoresAssumption DEF Row, State, Until, Key, Copy
  <2>7. /\ F \in Maps(Msg \X Box, [state : State, ts : 0..LastSend])
        /\ DOMAIN F = DOMAIN mem.deliveries \union {<<m, b>>} /\ F[<<m, b>>] = copy
        /\ \A k \in DOMAIN mem.deliveries : k # <<m, b>> => F[k] = mem.deliveries[k]
    <3>1. mem.deliveries \in Maps(Msg \X Box, [state : State, ts : 0..LastSend])
      BY CopiesOf DEF CopyMaps
    <3>2. copy \in [state : State, ts : 0..LastSend] /\ <<m, b>> \in Msg \X Box
      BY <1>1, <2>2 DEF State
    <3> HIDE DEF copy
    <3>3. F \in Maps(Msg \X Box, [state : State, ts : 0..LastSend])
      BY <3>1, <3>2, WithIs
    <3> QED
      BY <3>3 DEF Mem!With
  <2>8. LeaseAt(mem.leases, Key(row)) = [id |-> row.lease, until |-> row.until]
    <3>1. <<m, b>> \notin DOMAIN mem.leases
      BY <1>1, <1>4 DEF StoresInv, Grounded
    <3> QED
      BY <2>6, <3>1 DEF LeaseAt, FreeLease
  <2> HIDE DEF F, copy, ts, row
  <2>9. CopiesAgree(D, F, mem.leases)
    <3>1. \A r \in sql.deliveries : Key(r) # <<m, b>>
      BY <1>4, CopiesOf
    <3>2. DOMAIN F = {Key(r) : r \in D}
      BY <2>6, <2>7, CopiesOf
    <3>3. \A r \in D : F[Key(r)] = Copy(r)
      <4>1. \A r \in sql.deliveries : mem.deliveries[Key(r)] = Copy(r) /\ Key(r) \in DOMAIN mem.deliveries
        BY CopiesOf DEF CopiesAgree
      <4> QED
        BY <2>6, <2>7, <3>1, <4>1
    <3>4. \A r \in D : r.state \in Leasable => LeaseAt(mem.leases, Key(r)) = [id |-> r.lease, until |-> r.until]
      BY <2>8, CopiesOf
    <3>5. \A r, x \in D : Key(r) = Key(x) => r = x
      BY <2>6, <3>1, CopiesOf
    <3> QED
      BY <3>2, <3>3, <3>4, <3>5 DEF CopiesAgree
  <2>10. D \subseteq Row /\ F \in CopyMaps
    BY <2>6, <2>7, CopiesOf DEF CopyMaps
  <2>11. IsFiniteSet(DOMAIN F)
    BY <2>7, FS_AddElement DEF StoresInv, Grounded
  <2> HIDE DEF D
  <2>12. /\ sql' \in Tables /\ sql'.deliveries = D /\ sql'.messages = sql.messages
         /\ sql'.awaiting = sql.awaiting /\ sql'.claims = sql.claims /\ sql'.passes = sql.passes
         /\ sql'.superseded = sql.superseded /\ sql'.routes = sql.routes
         /\ sql'.intents = sql.intents /\ sql'.surfaces = sql.surfaces /\ sql'.registry = sql.registry
         /\ moved' = {b} /\ UNCHANGED <<used, now, beside>>
    BY <1>2, <2>4, <2>10, ZenonT(60) DEF On, Call, Sql!Done, StoresInv, Typed, Tables
  <2>13. /\ mem' \in MapsOfMemory /\ mem'.deliveries = F /\ mem'.leases = mem.leases /\ mem'.messages = mem.messages
         /\ mem'.awaiting = mem.awaiting /\ mem'.claims = mem.claims /\ mem'.passes = mem.passes
         /\ mem'.superseded = mem.superseded /\ mem'.routes = mem.routes
         /\ mem'.intents = mem.intents /\ mem'.surfaces = mem.surfaces /\ mem'.registry = mem.registry
         /\ memMoved' = {b}
    BY <1>2, <2>5, <2>10, ZenonT(60) DEF On, Call, Mem!Done, StoresInv, Typed, MapsOfMemory
  <2>14. agreed' = TRUE
    BY <1>2, <2>4, <2>5 DEF On, Call, Sql!Done, Mem!Done, StoresInv, Typed, Tables, MapsOfMemory
  <2>15. Alike'
    BY <2>9, <2>12, <2>13 DEF StoresInv, Alike
  <2>16. Grounded'
    <3>1. \A k \in DOMAIN F : k[1] \in DOMAIN mem.messages /\ k[2] \in To[k[1]]
      BY <1>1, <2>7 DEF StoresInv, Grounded
    <3>2. \A k \in DOMAIN mem.leases : k[1] \in used /\ (k[1] \in DOMAIN mem.messages => k \in DOMAIN F)
      BY <2>7 DEF StoresInv, Grounded
    <3> QED
      BY <2>11, <2>12, <2>13, <3>1, <3>2 DEF StoresInv, Grounded
  <2>17. Changed = {b}
    <3>1. m \notin Sql!Ids(Sql!InBox(sql, b))
      BY <2>1 DEF Sql!Ids, Sql!InBox
    <3>2. m \in Sql!Ids(Sql!InBox(sql', b))
      BY <2>6, <2>12 DEF Sql!Ids, Sql!InBox, Sql!PendingStates, D
    <3>3. \A c \in Box \ {b} : Sql!InBox(sql, c) = Sql!InBox(sql', c)
      BY <2>6, <2>12 DEF Sql!InBox, D
    <3> QED
      BY <1>1, <3>1, <3>2, <3>3 DEF Changed
  <2> QED
    BY <1>1, <2>12, <2>13, <2>14, <2>15, <2>16, <2>17 DEF Good, StoresInv, Typed
<1> QED
  BY <1>3, <1>4

(* The purge deletes the same messages from both, and all that is theirs,  *)
(* of which nothing was pending.                                           *)
LEMMA PurgeStep ==
  ASSUME StoresInv, NEW before \in Int, On(Sql!Purge(sql, before), Mem!Purge(mem, before))
  PROVE Good
<1> DEFINE dead == {r.id : r \in {x \in sql.messages :
                      /\ x.ts < before
                      /\ \A d \in sql.deliveries : d.msg = x.id => d.state \notin Sql!PendingStates
                      /\ ~ Sql!Alive(sql, x.id)}}
           gone == {m \in DOMAIN mem.messages :
                      /\ mem.messages[m] < before
                      /\ \A k \in DOMAIN mem.deliveries : k[1] = m => mem.deliveries[k].state \notin Mem!Live
                      /\ ~ Mem!Open(mem, m)}
           kept == {k \in DOMAIN mem.deliveries : k[1] \in gone}
           D == {r \in sql.deliveries : r.msg \notin gone}
           A == {a \in sql.awaiting : a.origin \notin gone}
           R == {r \in sql.routes : r.msg \notin gone}
           M == {r \in sql.messages : r.id \notin gone}
           FD == Mem!Without(mem.deliveries, kept)
           FA == Mem!Without(mem.awaiting, gone)
           FR == Mem!Without(mem.routes, gone)
           FM == Mem!Without(mem.messages, gone)
           s == [sql EXCEPT !.deliveries = D, !.awaiting = A, !.routes = R, !.messages = M]
           f == [mem EXCEPT !.messages = FM, !.awaiting = FA, !.routes = FR, !.deliveries = FD]
<1>1. \A m : Sql!Alive(sql, m) <=> Mem!Open(mem, m)
  BY AsksOf DEF Sql!Alive, Mem!Open, Mem!Has
<1>2. \A m : (\A d \in sql.deliveries : d.msg = m => d.state \notin Sql!PendingStates)
               <=> (\A k \in DOMAIN mem.deliveries : k[1] = m => mem.deliveries[k].state \notin Mem!Live)
  <2> TAKE m
  <2>1. /\ Sql!PendingStates = Mem!Live
        /\ \A r \in sql.deliveries : Key(r)[1] = r.msg
        /\ \A r \in sql.deliveries : Key(r) \in DOMAIN mem.deliveries /\ mem.deliveries[Key(r)].state = r.state
        /\ \A k \in DOMAIN mem.deliveries : \E r \in sql.deliveries : Key(r) = k
    BY CopiesOf DEF Key, Sql!PendingStates, Mem!Live
  <2>2. ASSUME \A d \in sql.deliveries : d.msg = m => d.state \notin Mem!Live,
               NEW k \in DOMAIN mem.deliveries, k[1] = m
        PROVE mem.deliveries[k].state \notin Mem!Live
    <3>1. PICK r \in sql.deliveries : Key(r) = k
      BY <2>1
    <3> QED
      BY <2>1, <2>2, <3>1
  <2>3. ASSUME \A k \in DOMAIN mem.deliveries : k[1] = m => mem.deliveries[k].state \notin Mem!Live,
               NEW d \in sql.deliveries, d.msg = m
        PROVE d.state \notin Mem!Live
    BY <2>1, <2>3
  <2> QED
    BY <2>1, <2>2, <2>3
<1>3. dead = gone
  <2>1. \A m \in gone : m \in dead
    <3> TAKE m \in gone
    <3>1. [id |-> m, ts |-> mem.messages[m]] \in sql.messages
      BY MessagesOf
    <3> QED
      BY <1>1, <1>2, <3>1
  <2>2. \A m \in dead : m \in gone
    <3> TAKE m \in dead
    <3>1. PICK r \in sql.messages : /\ r.id = m /\ r.ts < before
                                    /\ \A d \in sql.deliveries : d.msg = m => d.state \notin Sql!PendingStates
                                    /\ ~ Sql!Alive(sql, m)
      OBVIOUS
    <3> QED
      BY <1>1, <1>2, <3>1, MessagesOf
  <2> HIDE DEF dead, gone
  <2> QED
    BY <2>1, <2>2
<1>4. \A r \in sql.deliveries : r.msg \in gone => r.state \notin Sql!PendingStates
  BY <1>2
<1>p. PICK p : p = Mem!Cardinality(gone)
  OBVIOUS
<1>5. Sql!Purge(sql, before) = Sql!Done(s, {}, p)
  <2>1. p = Sql!Cardinality(dead)
    BY <1>3, <1>p, SameCardinality
  <2>2. Sql!Purge(sql, before)
          = Sql!Done([sql EXCEPT !.deliveries = {r \in sql.deliveries : r.msg \notin dead},
                                 !.awaiting = {a \in sql.awaiting : a.origin \notin dead},
                                 !.routes = {r \in sql.routes : r.msg \notin dead},
                                 !.messages = {r \in sql.messages : r.id \notin dead}],
                     {}, Sql!Cardinality(dead))
    BY DEF Sql!Purge
  <2> HIDE DEF dead, gone
  <2> QED
    BY <1>3, <2>1, <2>2
<1>6. Mem!Purge(mem, before) = Mem!Done(f, {}, p)
  BY <1>p DEF Mem!Purge
<1>7. /\ FD \in CopyMaps /\ DOMAIN FD = DOMAIN mem.deliveries \ kept
      /\ \A k \in DOMAIN FD : FD[k] = mem.deliveries[k]
  <2>1. mem.deliveries \in Maps(Msg \X Box, [state : State, ts : 0..LastSend])
    BY CopiesOf DEF CopyMaps
  <2>2. FD \in Maps(Msg \X Box, [state : State, ts : 0..LastSend])
    BY <2>1, WithoutIs
  <2> QED
    BY <2>2 DEF Mem!Without, Mem!Restrict, CopyMaps
<1>8. /\ FA \in AskMaps /\ DOMAIN FA = DOMAIN mem.awaiting \ gone
      /\ \A k \in DOMAIN FA : FA[k] = mem.awaiting[k]
  <2>1. mem.awaiting \in Maps(Msg, AskRow)
    BY AsksOf
  <2>2. FA \in Maps(Msg, AskRow)
    BY <2>1, WithoutIs
  <2> QED
    BY <2>2 DEF Mem!Without, Mem!Restrict, AskMaps
<1>9. /\ FR \in RouteMaps /\ DOMAIN FR = DOMAIN mem.routes \ gone
      /\ \A k \in DOMAIN FR : FR[k] = mem.routes[k]
  <2>1. mem.routes \in Maps(Msg, SUBSET Box)
    BY RoutesOf
  <2>2. FR \in Maps(Msg, SUBSET Box)
    BY <2>1, WithoutIs
  <2> QED
    BY <2>2 DEF Mem!Without, Mem!Restrict, RouteMaps
<1>10. /\ FM \in TimeMaps /\ DOMAIN FM = DOMAIN mem.messages \ gone
       /\ \A k \in DOMAIN FM : FM[k] = mem.messages[k]
  <2>1. mem.messages \in Maps(Msg, 0..LastSend)
    BY MessagesOf
  <2>2. FM \in Maps(Msg, 0..LastSend)
    BY <2>1, WithoutIs
  <2> QED
    BY <2>2 DEF Mem!Without, Mem!Restrict, TimeMaps
<1> HIDE DEF dead, gone, FD, FA, FR, FM
<1>11. MessagesAgree(M, FM)
  <2>1. \A m \in DOMAIN FM : [id |-> m, ts |-> FM[m]] \in M
    BY <1>10, MessagesOf
  <2>2. \A r \in M : \E m \in DOMAIN FM : r = [id |-> m, ts |-> FM[m]]
    BY <1>10, MessagesOf
  <2> QED
    BY <2>1, <2>2 DEF MessagesAgree
<1>12. RoutesAgree(R, FR)
  <2>1. \A m \in DOMAIN FR : [msg |-> m, targets |-> FR[m]] \in R
    BY <1>9, RoutesOf
  <2>2. \A r \in R : \E m \in DOMAIN FR : r = [msg |-> m, targets |-> FR[m]]
    BY <1>9, RoutesOf
  <2> QED
    BY <2>1, <2>2 DEF RoutesAgree
<1>13. AsksAgree(A, FA)
  <2>1. \A m \in DOMAIN FA : FA[m] \in A /\ FA[m].origin = m
    BY <1>8, AsksOf
  <2>2. \A a \in A : \E m \in DOMAIN FA : a = FA[m]
    BY <1>8, AsksOf
  <2> QED
    BY <2>1, <2>2 DEF AsksAgree
<1>14. CopiesAgree(D, FD, mem.leases)
  <2>1. \A r \in sql.deliveries : Key(r)[1] = r.msg
    BY DEF Key
  <2>2. DOMAIN FD = {Key(r) : r \in D}
    <3>1. \A r \in D : Key(r) \in DOMAIN FD
      BY <1>7, <2>1, CopiesOf
    <3>2. \A k \in DOMAIN FD : \E r \in D : k = Key(r)
      BY <1>7, <2>1, CopiesOf
    <3> QED
      BY <3>1, <3>2
  <2>3. \A r \in D : FD[Key(r)] = Copy(r)
    <3>1. \A r \in sql.deliveries : mem.deliveries[Key(r)] = Copy(r)
      BY CopiesOf DEF CopiesAgree
    <3>2. \A r \in D : Key(r) \in DOMAIN FD
      BY <2>2
    <3> QED
      BY <1>7, <3>1, <3>2
  <2>4. /\ \A r \in D : r.state \in Leasable => LeaseAt(mem.leases, Key(r)) = [id |-> r.lease, until |-> r.until]
        /\ \A r, x \in D : Key(r) = Key(x) => r = x
    BY CopiesOf
  <2> QED
    BY <2>2, <2>3, <2>4 DEF CopiesAgree
<1>15. D \subseteq Row /\ A \subseteq AskRow /\ R \subseteq RouteRow /\ M \subseteq MsgRow
  BY CopiesOf, AsksOf, RoutesOf, MessagesOf
<1> HIDE DEF D, A, R, M
<1>16. s \in Tables /\ f \in MapsOfMemory
  BY <1>7, <1>8, <1>9, <1>10, <1>15 DEF StoresInv, Typed, Tables, MapsOfMemory
<1>17. /\ sql' = s /\ mem' = f
       /\ agreed' = TRUE /\ moved' = {} /\ memMoved' = {} /\ UNCHANGED <<now, beside, used>>
  <2>1. Call(Sql!Done(s, {}, p), Mem!Done(f, {}, p)) /\ UNCHANGED used
    BY <1>5, <1>6 DEF On
  <2> HIDE DEF s, f
  <2> QED
    BY <1>16, <2>1, PlainCall
<1>18. /\ sql' \in Tables /\ sql'.messages = M /\ sql'.routes = R
       /\ sql'.deliveries = D /\ sql'.superseded = sql.superseded
       /\ sql'.awaiting = A /\ sql'.claims = sql.claims /\ sql'.intents = sql.intents
       /\ sql'.passes = sql.passes /\ sql'.surfaces = sql.surfaces /\ sql'.registry = sql.registry
  BY <1>16, <1>17 DEF StoresInv, Typed, Tables
<1>19. /\ mem' \in MapsOfMemory /\ mem'.messages = FM /\ mem'.routes = FR /\ mem'.leases = mem.leases
       /\ mem'.deliveries = FD /\ mem'.superseded = mem.superseded
       /\ mem'.awaiting = FA /\ mem'.claims = mem.claims /\ mem'.intents = mem.intents
       /\ mem'.passes = mem.passes /\ mem'.surfaces = mem.surfaces /\ mem'.registry = mem.registry
  BY <1>16, <1>17 DEF StoresInv, Typed, MapsOfMemory
<1>20. Alike'
  BY <1>11, <1>12, <1>13, <1>14, <1>18, <1>19 DEF StoresInv, Alike
<1>21. Grounded'
  <2>1. DOMAIN FM \subseteq used /\ DOMAIN FR \subseteq used /\ DOMAIN FA \subseteq Asks \intersect used
    BY <1>8, <1>9, <1>10 DEF StoresInv, Grounded
  <2>2. \A k \in DOMAIN FD : k[1] \in DOMAIN FM /\ k[2] \in To[k[1]]
    BY <1>7, <1>10 DEF StoresInv, Grounded
  <2>3. \A k \in DOMAIN mem.leases : k[1] \in used /\ (k[1] \in DOMAIN FM => k \in DOMAIN FD)
    BY <1>7, <1>10 DEF StoresInv, Grounded
  <2>4. IsFiniteSet(DOMAIN FD)
    BY <1>7, FS_Subset DEF StoresInv, Grounded
  <2> QED
    BY <1>17, <1>19, <2>1, <2>2, <2>3, <2>4 DEF Grounded
<1>22. Changed = {}
  <2>1. \A c \in Box : Sql!InBox(sql, c) = Sql!InBox(sql', c)
    BY <1>4, <1>18 DEF Sql!InBox, D
  <2> QED
    BY <2>1 DEF Changed
<1> QED
  BY <1>17, <1>18, <1>19, <1>20, <1>21, <1>22 DEF Good, StoresInv, Typed

-----------------------------------------------------------------------------
(* The marks a recipient leaves on its copy.                               *)
LEMMA MarkStep ==
  ASSUME StoresInv, NEW m \in Msg, NEW b \in Box, Mark(m, b)
  PROVE Good
<1>1. CASE On(Sql!MarkDelivered(sql, m, b), Mem!MarkDelivered(mem, m, b))
  BY <1>1, DeliveredStep
<1>2. CASE On(Sql!MarkConsumed(sql, m, b), Mem!MarkConsumed(mem, m, b))
  <2>1. /\ "consumed" \in {"consumed", "accepted", "declined"}
        /\ On(Sql!Settle(sql, m, b, "consumed"),
              Mem!Done(Mem!Put(mem, {<<m, b>>}, "consumed"),
                       Mem!IfSome(Mem!LiveKeys(mem, b) \intersect {<<m, b>>}, b), None))
    BY <1>2 DEF Sql!MarkConsumed, Mem!MarkConsumed
  <2> QED
    BY <2>1, SettleStep
<1>3. CASE On(Sql!MarkSurfaced(sql, m, b), Mem!MarkSurfaced(mem, m, b))
  BY <1>3, SurfacedStep
<1>4. ASSUME NEW yes \in BOOLEAN, On(Sql!SetConsent(sql, m, b, yes), Mem!SetConsent(mem, m, b, yes))
      PROVE Good
  <2> DEFINE st == IF yes THEN "accepted" ELSE "declined"
  <2>1. /\ st \in {"consumed", "accepted", "declined"}
        /\ On(Sql!Settle(sql, m, b, st),
              Mem!Done(Mem!Put(mem, {<<m, b>>}, st),
                       Mem!IfSome(Mem!LiveKeys(mem, b) \intersect {<<m, b>>}, b), None))
    BY <1>4 DEF Sql!SetConsent, Mem!SetConsent
  <2> HIDE DEF st
  <2> QED
    BY <2>1, SettleStep
<1> QED
  BY <1>1, <1>2, <1>3, <1>4 DEF Mark

(* A project ask is taken or passed on.                                    *)
LEMMA ShareStep ==
  ASSUME StoresInv, NEW m \in Msg, NEW b \in Box, Share(m, b)
  PROVE Good
BY ClaimProjectStep, PassStep DEF Share

(* The sweeper's two statements.                                           *)
LEMMA AgeStep ==
  ASSUME StoresInv, Age
  PROVE Good
<1>1. now - Tombstone \in Int /\ now - Retention \in Int
  BY StoresAssumption DEF StoresInv, Typed
<1> QED
  BY <1>1, TombstoneStep, PurgeStep DEF Age

(* Time passes and nothing moves.                                          *)
LEMMA TickStep ==
  ASSUME StoresInv, Tick
  PROVE Good
<1>1. now' \in 0..MaxClock /\ agreed' = TRUE /\ used \subseteq Msg
  BY StoresAssumption DEF Tick, StoresInv, Typed
<1> QED
  BY <1>1, LookStep DEF Tick

(* Every step keeps the invariant and mints its events; only an            *)
(* acknowledgement mints them in the file alone.                           *)
LEMMA StoresStep ==
  ASSUME StoresInv, Next
  PROVE Good \/ Acked
<1>1. \A m \in Msg : \A b \in To[m] : b \in Box
  BY StoresAssumption
<1>2. Inboxes \subseteq Box
  BY <1>1 DEF Inboxes
<1>3. Msgs \subseteq Msg /\ Leases \subseteq Lease /\ Shared \subseteq Msg
  BY StoresAssumption DEF Msgs, Leases
<1>4. ASSUME NEW m \in Msgs, Append(m) \/ \E b \in To[m] : (FanOut(m, b) \/ Mark(m, b))
      PROVE Good
  BY <1>1, <1>3, <1>4, AppendStep, FanOutStep, MarkStep
<1>5. ASSUME NEW m \in Msgs \intersect Asks,
             OpenAsk(m) \/ Chase(m) \/ \E by \in Msgs \ {m} : Replace(m, by)
      PROVE Good
  BY <1>3, <1>5, OpenAskStep, ChaseStep, ReplaceStep
<1>6. ASSUME NEW b \in Inboxes, Claim(b) \/ \E consume \in BOOLEAN : Read(b, consume)
      PROVE Good
  BY <1>2, <1>6, ClaimStep, ReadStep
<1>7. ASSUME NEW b \in Inboxes, NEW l \in Leases,
             TakeLease(b, l) \/ \E ids \in SUBSET Msg : Acknowledge(b, l, ids)
      PROVE Good \/ Acked
  BY <1>2, <1>3, <1>7, TakeLeaseStep, AcknowledgeStep
<1>8. ASSUME \/ \E m \in Shared : Release(m) \/ \E b \in Box : (Share(m, b) \/ Show(m, b))
             \/ \E o \in Intent : DropIntent(o) \/ \E b \in Inboxes : QueueIntent(o, b)
             \/ \E entries \in SUBSET Entry : SaveEntries(entries)
      PROVE Good
  BY <1>2, <1>3, <1>8, ReleaseStep, ShareStep, ShowStep, DropIntentStep, QueueIntentStep,
       SaveEntriesStep
<1> QED
  BY <1>4, <1>5, <1>6, <1>7, <1>8, AgeStep, TickStep DEF Next

(* Two empty stores agree.                                                 *)
LEMMA StoresStart ==
  ASSUME Init
  PROVE StoresInv
<1>1. \A S, T : <<>> \in Maps(S, T)
  <2> TAKE S, T
  <2>1. DOMAIN <<>> = {} /\ <<>> \in [{} -> T]
    OBVIOUS
  <2> QED
    BY <2>1, MapsAreFunctions
<1>2. DOMAIN <<>> = {}
  OBVIOUS
<1>3. sql \in Tables
  BY DEF Init, Sql!Empty, Tables
<1>4. mem \in MapsOfMemory
  BY <1>1 DEF Init, Mem!Empty, MapsOfMemory, CopyMaps, LeaseMaps, AskMaps, IntentMaps, TimeMaps,
              BoxMaps, NextMaps, RouteMaps
<1>5. Alike
  BY <1>2 DEF Init, Sql!Empty, Mem!Empty, Alike, MessagesAgree, CopiesAgree, AsksAgree, ClaimsAgree,
              ReplacedAgree, RoutesAgree, IntentsAgree
<1>6. Grounded
  BY <1>2, FS_EmptySet DEF Init, Mem!Empty, Grounded
<1> QED
  BY <1>3, <1>4, <1>5, <1>6, StoresAssumption DEF Init, StoresInv, Typed

(* The invariant is inductive.                                             *)
LEMMA StoresInductive ==
  ASSUME StoresInv, [Next]_vars
  PROVE StoresInv'
<1>1. CASE Next
  BY <1>1, StoresStep DEF Good, Acked
<1>2. CASE UNCHANGED vars
  BY <1>2 DEF vars, StoresInv, Typed, Alike, Grounded
<1> QED
  BY <1>1, <1>2

-----------------------------------------------------------------------------
(* What the invariant says of the rows, and of every query.                *)
LEMMA StoresTyped ==
  ASSUME StoresInv
  PROVE TypeOK
<1>1. \A r \in sql.messages : r.id \in used /\ r.ts \in 0..LastSend
  BY MessagesOf
<1>2. \A r \in sql.deliveries :
        /\ r.msg \in used /\ r.box \in To[r.msg] /\ r.state \in State
        /\ r.lease \in Lease \union {None} /\ r.until \in 0..(MaxClock + LeaseFor)
  <2> TAKE r \in sql.deliveries
  <2>1. Key(r) \in DOMAIN mem.deliveries /\ r \in Row
    BY CopiesOf
  <2>2. Key(r)[1] \in DOMAIN mem.messages /\ Key(r)[2] \in To[Key(r)[1]]
    BY <2>1 DEF StoresInv, Grounded
  <2> QED
    BY <2>1, <2>2, MessagesOf DEF Key, Row, Until
<1>3. \A a \in sql.awaiting : a.origin \in Asks \intersect used /\ a.stage \in 0..2
  BY AsksOf DEF AskRow
<1>4. \A r, x \in sql.deliveries : r.msg = x.msg /\ r.box = x.box => r = x
  BY CopiesOf DEF Key
<1>5. \A a, x \in sql.awaiting : a.origin = x.origin => a = x
  BY AsksOf
<1>6. \A c, x \in sql.claims : c.msg = x.msg => c = x
  BY ClaimsOf
<1>7. \A r, x \in sql.routes : r.msg \in used /\ (r.msg = x.msg => r = x)
  BY RoutesOf
<1>8. \A r, x \in sql.intents : r.op \in Intent /\ (r.op = x.op => r = x)
  BY IntentsOf DEF IntentRow
<1> QED
  BY <1>1, <1>2, <1>3, <1>4, <1>5, <1>6, <1>7, <1>8 DEF TypeOK, StoresInv, Typed

(* The rows of the file and the entries of memory.                         *)
LEMMA SameStateHolds ==
  ASSUME StoresInv
  PROVE SameState
<1>1. {<<r.id, r.ts>> : r \in sql.messages} = {<<m, mem.messages[m]>> : m \in DOMAIN mem.messages}
  <2>1. \A m \in DOMAIN mem.messages : \E r \in sql.messages : r.id = m /\ r.ts = mem.messages[m]
    <3> TAKE m \in DOMAIN mem.messages
    <3>1. [id |-> m, ts |-> mem.messages[m]] \in sql.messages
      BY MessagesOf
    <3> QED
      BY <3>1
  <2>2. \A r \in sql.messages : r.id \in DOMAIN mem.messages /\ r.ts = mem.messages[r.id]
    BY MessagesOf
  <2> QED
    BY <2>1, <2>2
<1>2. {<<r.msg, r.box, r.state, r.ts>> : r \in sql.deliveries}
        = {<<k[1], k[2], mem.deliveries[k].state, mem.deliveries[k].ts>> : k \in DOMAIN mem.deliveries}
  <2>1. \A r \in sql.deliveries :
          /\ Key(r) \in DOMAIN mem.deliveries /\ Key(r)[1] = r.msg /\ Key(r)[2] = r.box
          /\ mem.deliveries[Key(r)].state = r.state /\ mem.deliveries[Key(r)].ts = r.ts
    BY CopiesOf DEF Key
  <2>2. \A k \in DOMAIN mem.deliveries : \E r \in sql.deliveries : Key(r) = k
    BY CopiesOf
  <2> QED
    BY <2>1, <2>2
<1>3. sql.awaiting = {mem.awaiting[m] : m \in DOMAIN mem.awaiting}
  BY DEF StoresInv, Alike, AsksAgree
<1>4. \A r \in sql.deliveries : r.state \in {"queued", "delivered"} =>
        [id |-> r.lease, until |-> r.until] = LeaseInMem(<<r.msg, r.box>>)
  BY CopiesOf DEF LeaseInMem, LeaseAt, FreeLease, Key, Mem!Has, Leasable
<1> QED
  BY <1>1, <1>2, <1>3, <1>4 DEF SameState

(* What a restart redelivers: pending copies, and copies a host keeps of   *)
(* an ask still open.                                                      *)
LEMMA RecoverableMatched ==
  ASSUME StoresInv
  PROVE /\ Matched({r \in Sql!Joined(sql, sql.deliveries) : Sql!Recoverable(sql, r)}, Mem!RecoverableKeys(mem))
        /\ \A b : Matched({r \in Sql!Joined(sql, sql.deliveries) : r.box = b /\ Sql!Recoverable(sql, r)},
                          Mem!RecoverableKeys(mem) \intersect Mem!KeysOf(mem, b))
        /\ \A k \in Mem!RecoverableKeys(mem) : Mem!Has(mem.messages, k[1])
<1> DEFINE D == sql.deliveries
           keys == Mem!RecoverableKeys(mem)
<1>1. Sql!Joined(sql, D) = D /\ \A m \in Sql!Ids(D) : Mem!Has(mem.messages, m)
  BY NothingLostInJoin
<1>2. \A r \in D : /\ Key(r) \in DOMAIN mem.deliveries /\ mem.deliveries[Key(r)].state = r.state
                   /\ Key(r)[1] = r.msg /\ Key(r)[2] = r.box /\ Mem!Has(mem.messages, r.msg)
  BY <1>1, CopiesOf DEF Key, Sql!Ids
<1>3. \A m : Sql!Alive(sql, m) <=> Mem!Open(mem, m)
  BY AsksOf DEF Sql!Alive, Mem!Open, Mem!Has
<1>4. \A r \in D : Sql!Recoverable(sql, r) <=> Key(r) \in keys
  BY <1>2, <1>3 DEF Sql!Recoverable, Mem!RecoverableKeys, Sql!PendingStates, Mem!Live
<1>5. keys \subseteq DOMAIN mem.deliveries
  BY DEF Mem!RecoverableKeys
<1>6. \A k \in keys : Mem!Has(mem.messages, k[1])
  BY <1>5 DEF StoresInv, Grounded, Mem!Has
<1> HIDE DEF keys
<1>7. Matched({r \in D : Sql!Recoverable(sql, r)}, keys)
  BY <1>4, <1>5 DEF Matched
<1>8. \A b : Matched({r \in D : r.box = b /\ Sql!Recoverable(sql, r)}, keys \intersect Mem!KeysOf(mem, b))
  <2> TAKE b
  <2>1. \A r \in D : Key(r) \in Mem!KeysOf(mem, b) <=> r.box = b
    BY <1>2 DEF Mem!KeysOf
  <2>2. \A r \in D : r \in {x \in D : x.box = b /\ Sql!Recoverable(sql, x)}
                       <=> Key(r) \in keys \intersect Mem!KeysOf(mem, b)
    BY <1>4, <2>1
  <2> QED
    BY <1>5, <2>2 DEF Matched
<1> QED
  BY <1>1, <1>6, <1>7, <1>8 DEF keys

(* The queries over many rows.                                             *)
LEMMA SameAnswersHold ==
  ASSUME StoresInv
  PROVE SameAnswers
<1> DEFINE rows == {r \in sql.deliveries : r.state \in Sql!PendingStates}
           keys == {k \in DOMAIN mem.deliveries : mem.deliveries[k].state \in Mem!Live}
<1>1. Matched(rows, keys)
  BY CopiesOf DEF Matched, Sql!PendingStates, Mem!Live
<1>2. Sql!PendingAddresses(sql) = Mem!PendingAddresses(mem)
  <2>1. Sql!PendingAddresses(sql) = Sql!Boxes(rows) /\ Mem!PendingAddresses(mem) = {k[2] : k \in keys}
    BY DEF Sql!PendingAddresses, Mem!PendingAddresses
  <2> HIDE DEF rows, keys
  <2> QED
    BY <1>1, <2>1, MatchedAnswers
<1>3. Sql!RecoverableAddresses(sql) = Mem!RecoverableAddresses(mem)
  <2> DEFINE R == {r \in Sql!Joined(sql, sql.deliveries) : Sql!Recoverable(sql, r)}
  <2>1. Matched(R, Mem!RecoverableKeys(mem))
    BY RecoverableMatched
  <2>2. Sql!RecoverableAddresses(sql) = Sql!Boxes(R)
    BY DEF Sql!RecoverableAddresses
  <2> HIDE DEF R
  <2>3. Sql!Boxes(R) = {k[2] : k \in Mem!RecoverableKeys(mem)}
    BY <2>1, MatchedAnswers
  <2> QED
    BY <2>2, <2>3 DEF Mem!RecoverableAddresses
<1>4. \A b \in Box : Sql!RecoverableOf(sql, b) = Mem!RecoverableOf(mem, b)
  <2> TAKE b \in Box
  <2> DEFINE R == {r \in Sql!Joined(sql, sql.deliveries) : r.box = b /\ Sql!Recoverable(sql, r)}
             K == Mem!RecoverableKeys(mem) \intersect Mem!KeysOf(mem, b)
  <2>1. Matched(R, K)
    BY RecoverableMatched
  <2>2. \A m \in Mem!Ids(K) : Mem!Has(mem.messages, m)
    BY RecoverableMatched DEF Mem!Ids
  <2>3. Sql!RecoverableOf(sql, b) = Sql!Ids(R) /\ Mem!RecoverableOf(mem, b) = {m \in Mem!Ids(K) : Mem!Has(mem.messages, m)}
    BY DEF Sql!RecoverableOf, Mem!RecoverableOf
  <2> HIDE DEF R, K
  <2>4. Sql!Ids(R) = Mem!Ids(K)
    BY <2>1, MatchedAnswers
  <2> QED
    BY <2>2, <2>3, <2>4
<1>5. {a \in sql.awaiting : ~ a.closed} = {mem.awaiting[m] : m \in {x \in DOMAIN mem.awaiting : ~ mem.awaiting[x].closed}}
  BY AsksOf
<1>6. Sql!Inflight(sql) = Mem!Inflight(mem)
  <2>1. {<<r.msg, r.box, r.state>> : r \in {x \in sql.deliveries : x.state \in Sql!PendingStates}}
          = {<<k[1], k[2], mem.deliveries[k].state>> :
               k \in {x \in DOMAIN mem.deliveries : mem.deliveries[x].state \in Mem!Live}}
    <3>1. \A r \in sql.deliveries :
            /\ Key(r) \in DOMAIN mem.deliveries /\ Key(r)[1] = r.msg /\ Key(r)[2] = r.box
            /\ mem.deliveries[Key(r)].state = r.state
      BY CopiesOf DEF Key
    <3>2. \A k \in DOMAIN mem.deliveries : \E r \in sql.deliveries : Key(r) = k
      BY CopiesOf
    <3>3. Sql!PendingStates = Mem!Live
      BY DEF Sql!PendingStates, Mem!Live
    <3> QED
      BY <3>1, <3>2, <3>3
  <2> QED
    BY <1>5, <2>1 DEF Sql!Inflight, Mem!Inflight
<1>7. Sql!PastTtl(sql, now) = Mem!PastTtl(mem, now)
  <2>1. \A a \in Sql!PastTtl(sql, now) : a \in Mem!PastTtl(mem, now)
    BY AsksOf DEF Sql!PastTtl, Mem!PastTtl, Mem!Open, Mem!Has
  <2>2. \A a \in Mem!PastTtl(mem, now) : a \in Sql!PastTtl(sql, now)
    BY AsksOf DEF Sql!PastTtl, Mem!PastTtl, Mem!Open, Mem!Has
  <2> QED
    BY <2>1, <2>2
<1>8. \A m \in Msg : Sql!SupersededBy(sql, m) = Mem!SupersededBy(mem, m)
  <2> TAKE m \in Msg
  <2>1. CASE m \in DOMAIN mem.superseded
    <3>1. [msg |-> m, by |-> mem.superseded[m]] \in sql.superseded
      BY <2>1, ReplacedOf
    <3>2. \A r \in sql.superseded : r.msg = m => r.by = mem.superseded[m]
      BY ReplacedOf
    <3>3. {r.by : r \in {x \in sql.superseded : x.msg = m}} = {mem.superseded[m]}
      BY <3>1, <3>2
    <3> QED
      BY <2>1, <3>3 DEF Sql!SupersededBy, Mem!SupersededBy, Mem!Has
  <2>2. CASE m \notin DOMAIN mem.superseded
    <3>1. {x \in sql.superseded : x.msg = m} = {}
      BY <2>2, ReplacedOf
    <3> QED
      BY <2>2, <3>1 DEF Sql!SupersededBy, Mem!SupersededBy, Mem!Has
  <2> QED
    BY <2>1, <2>2
<1> QED
  BY <1>2, <1>3, <1>4, <1>6, <1>7, <1>8 DEF SameAnswers, StoresInv, Typed

(* The queries for one message.                                            *)
LEMMA SameRows ==
  ASSUME StoresInv, NEW m \in Msg
  PROVE /\ Sql!RouteFor(sql, m) = Mem!RouteFor(mem, m)
        /\ Sql!Get(sql, m) = Mem!Get(mem, m) /\ Sql!OriginOf(sql, m) = Mem!OriginOf(mem, m)
        /\ Sql!DeliveriesFor(sql, m) = Mem!DeliveriesFor(mem, m)
        /\ Sql!GetAwaiting(sql, m) = Mem!GetAwaiting(mem, m)
        /\ Sql!ProjectClaim(sql, m) = Mem!ProjectClaim(mem, m)
<1>1. Sql!RouteFor(sql, m) = Mem!RouteFor(mem, m)
  <2>1. CASE m \in DOMAIN mem.routes
    <3>1. [msg |-> m, targets |-> mem.routes[m]] \in sql.routes
      BY <2>1, RoutesOf
    <3>2. \A r \in sql.routes : r.msg = m => r.targets = mem.routes[m]
      BY RoutesOf
    <3>3. {r.targets : r \in {x \in sql.routes : x.msg = m}} = {mem.routes[m]}
      BY <3>1, <3>2
    <3> QED
      BY <2>1, <3>3 DEF Sql!RouteFor, Mem!RouteFor, Mem!Has
  <2>2. CASE m \notin DOMAIN mem.routes
    <3>1. {x \in sql.routes : x.msg = m} = {}
      BY <2>2, RoutesOf
    <3> QED
      BY <2>2, <3>1 DEF Sql!RouteFor, Mem!RouteFor, Mem!Has
  <2> QED
    BY <2>1, <2>2
<1>2. Sql!Get(sql, m) = Mem!Get(mem, m)
  <2>1. CASE m \in DOMAIN mem.messages
    <3>1. [id |-> m, ts |-> mem.messages[m]] \in sql.messages
      BY <2>1, MessagesOf
    <3>2. \A r \in sql.messages : r.id = m => r = [id |-> m, ts |-> mem.messages[m]]
      BY MessagesOf
    <3>3. {r \in sql.messages : r.id = m} = {[id |-> m, ts |-> mem.messages[m]]}
      BY <3>1, <3>2
    <3> QED
      BY <2>1, <3>3 DEF Sql!Get, Mem!Get, Mem!Has
  <2>2. CASE m \notin DOMAIN mem.messages
    BY <2>2, MessagesOf DEF Sql!Get, Mem!Get, Mem!Has
  <2> QED
    BY <2>1, <2>2
<1>3. Sql!OriginOf(sql, m) = Mem!OriginOf(mem, m)
  BY <1>2 DEF Sql!OriginOf, Mem!OriginOf
<1>4. Sql!DeliveriesFor(sql, m) = Mem!DeliveriesFor(mem, m)
  <2>1. \A r \in sql.deliveries :
          /\ Key(r) \in DOMAIN mem.deliveries /\ Key(r)[1] = r.msg /\ Key(r)[2] = r.box
          /\ mem.deliveries[Key(r)].state = r.state
    BY CopiesOf DEF Key
  <2>2. \A k \in DOMAIN mem.deliveries : \E r \in sql.deliveries : Key(r) = k
    BY CopiesOf
  <2> QED
    BY <2>1, <2>2 DEF Sql!DeliveriesFor, Mem!DeliveriesFor
<1>5. Sql!GetAwaiting(sql, m) = Mem!GetAwaiting(mem, m)
  <2>1. CASE m \in DOMAIN mem.awaiting
    <3>1. {a \in sql.awaiting : a.origin = m} = {mem.awaiting[m]}
      BY <2>1, AsksOf
    <3> QED
      BY <2>1, <3>1 DEF Sql!GetAwaiting, Mem!GetAwaiting, Mem!Has
  <2>2. CASE m \notin DOMAIN mem.awaiting
    BY <2>2, AsksOf DEF Sql!GetAwaiting, Mem!GetAwaiting, Mem!Has
  <2> QED
    BY <2>1, <2>2
<1>6. Sql!ProjectClaim(sql, m) = Mem!ProjectClaim(mem, m)
  <2>1. CASE m \in DOMAIN mem.claims
    <3>1. [msg |-> m, alias |-> mem.claims[m]] \in sql.claims
      BY <2>1, ClaimsOf
    <3>2. \A c \in sql.claims : c.msg = m => c.alias = mem.claims[m]
      BY ClaimsOf
    <3>3. {c.alias : c \in {x \in sql.claims : x.msg = m}} = {mem.claims[m]}
      BY <3>1, <3>2
    <3> QED
      BY <2>1, <3>3 DEF Sql!ProjectClaim, Mem!ProjectClaim, Mem!Has
  <2>2. CASE m \notin DOMAIN mem.claims
    <3>1. {x \in sql.claims : x.msg = m} = {}
      BY <2>2, ClaimsOf
    <3> QED
      BY <2>2, <3>1 DEF Sql!ProjectClaim, Mem!ProjectClaim, Mem!Has
  <2> QED
    BY <2>1, <2>2
<1> QED
  BY <1>1, <1>2, <1>3, <1>4, <1>5, <1>6

(* The queries over the tables beside the mailboxes, and the history.      *)
LEMMA SameRecordsHold ==
  ASSUME StoresInv
  PROVE SameRecords
<1>1. \A m \in Msg, b \in Box :
        /\ Sql!ProjectStanding(sql, m, b) = Mem!ProjectStanding(mem, m, b)
        /\ Sql!ProjectSurfaced(sql, m, b) <=> Mem!ProjectSurfaced(mem, m, b)
  <2> TAKE m \in Msg, b \in Box
  <2>1. [msg |-> m, alias |-> b] \in sql.claims <=> Mem!Has(mem.claims, m) /\ mem.claims[m] = b
    <3>1. \A c \in sql.claims : c.msg \in DOMAIN mem.claims /\ c.alias = mem.claims[c.msg]
      BY ClaimsOf
    <3>2. m \in DOMAIN mem.claims => [msg |-> m, alias |-> mem.claims[m]] \in sql.claims
      BY ClaimsOf
    <3>3. [msg |-> m, alias |-> b].msg = m /\ [msg |-> m, alias |-> b].alias = b
      OBVIOUS
    <3> QED
      BY <3>1, <3>2, <3>3 DEF Mem!Has
  <2>2. sql.passes = mem.passes /\ sql.surfaces = mem.surfaces
    BY DEF StoresInv, Alike
  <2>3. Sql!ProjectStanding(sql, m, b) = Mem!ProjectStanding(mem, m, b)
    BY <2>1, <2>2 DEF Sql!ProjectStanding, Mem!ProjectStanding
  <2>4. Sql!ProjectSurfaced(sql, m, b) <=> Mem!ProjectSurfaced(mem, m, b)
    BY <2>2 DEF Sql!ProjectSurfaced, Mem!ProjectSurfaced
  <2> QED
    BY <2>3, <2>4
<1>2. \A b \in Box : /\ Sql!PendingOutbound(sql, b) = Mem!PendingOutbound(mem, b)
                     /\ Sql!ProjectAddresses(sql, {b}) = Mem!ProjectAddresses(mem, {b})
  <2> TAKE b \in Box
  <2>1. Sql!PendingOutbound(sql, b) = Mem!PendingOutbound(mem, b)
    BY IntentsOf DEF Sql!PendingOutbound, Mem!PendingOutbound
  <2>2. (\E r \in sql.deliveries : r.box = b /\ r.state \in Sql!PendingStates)
          <=> (\E k \in DOMAIN mem.deliveries : k[2] = b /\ mem.deliveries[k].state \in Mem!Live)
    <3>1. \A r \in sql.deliveries :
            /\ Key(r) \in DOMAIN mem.deliveries /\ Key(r)[2] = r.box
            /\ mem.deliveries[Key(r)].state = r.state
      BY CopiesOf DEF Key
    <3>2. \A k \in DOMAIN mem.deliveries : \E r \in sql.deliveries : Key(r) = k
      BY CopiesOf
    <3>3. Sql!PendingStates = Mem!Live
      BY DEF Sql!PendingStates, Mem!Live
    <3>4. ASSUME NEW k \in DOMAIN mem.deliveries, k[2] = b /\ mem.deliveries[k].state \in Mem!Live
          PROVE \E r \in sql.deliveries : r.box = b /\ r.state \in Sql!PendingStates
      <4>1. PICK r \in sql.deliveries : Key(r) = k
        BY <3>2
      <4> QED
        BY <3>1, <3>3, <3>4, <4>1
    <3> QED
      BY <3>1, <3>3, <3>4
  <2>3. Sql!ProjectAddresses(sql, {b}) = Mem!ProjectAddresses(mem, {b})
    BY <2>2 DEF Sql!ProjectAddresses, Mem!ProjectAddresses, Sql!Boxes
  <2> QED
    BY <2>1, <2>3
<1>3. \A ts \in 0..now : Sql!History(sql, Msg, ts) = Mem!History(mem, Msg, ts)
  <2> TAKE ts \in 0..now
  <2>1. \A r \in Sql!History(sql, Msg, ts) : r \in Mem!History(mem, Msg, ts)
    <3> TAKE r \in Sql!History(sql, Msg, ts)
    <3>1. /\ r \in sql.messages /\ r.id \in Msg /\ r.ts >= ts
          /\ r.id \in DOMAIN mem.messages /\ r.ts = mem.messages[r.id] /\ r = [id |-> r.id, ts |-> r.ts]
      BY MessagesOf DEF Sql!History
    <3> QED
      BY <3>1 DEF Mem!History
  <2>2. \A r \in Mem!History(mem, Msg, ts) : r \in Sql!History(sql, Msg, ts)
    <3> TAKE r \in Mem!History(mem, Msg, ts)
    <3>1. PICK x \in DOMAIN mem.messages \intersect Msg : /\ mem.messages[x] >= ts
                                                         /\ r = [id |-> x, ts |-> mem.messages[x]]
      BY DEF Mem!History
    <3>2. r \in sql.messages /\ r.id = x /\ r.ts = mem.messages[x]
      BY <3>1, MessagesOf
    <3> QED
      BY <3>1, <3>2 DEF Sql!History
  <2> QED
    BY <2>1, <2>2
<1>4. Sql!PendingOutboundAll(sql) = Mem!PendingOutboundAll(mem)
  BY DEF Sql!PendingOutboundAll, Mem!PendingOutboundAll, StoresInv, Alike, IntentsAgree
<1>5. Sql!OpenAwaitings(sql) = Mem!OpenAwaitings(mem)
  BY AsksOf DEF Sql!OpenAwaitings, Mem!OpenAwaitings, Mem!Open, Mem!Has
<1>6. Sql!LoadRegistry(sql) = Mem!LoadRegistry(mem)
  BY DEF Sql!LoadRegistry, Mem!LoadRegistry, StoresInv, Alike
<1> QED
  BY <1>1, <1>2, <1>3, <1>4, <1>5, <1>6, SameRows DEF SameRecords

-----------------------------------------------------------------------------
(* The invariant holds of every behaviour of the two stores, with any      *)
(* number of messages, addresses, leases and intents and any clock.        *)
THEOREM StoresInvariant == Spec => []StoresInv
<1>1. Init => StoresInv
  BY StoresStart
<1>2. StoresInv /\ [Next]_vars => StoresInv'
  BY StoresInductive
<1> QED
  BY <1>1, <1>2, PTL DEF Spec

(* The schema of sqliteBackend.ts: rows of their types, one per key.       *)
THEOREM StoresTypes == Spec => []TypeOK
<1>1. StoresInv => TypeOK
  BY StoresTyped
<1> QED
  BY <1>1, StoresInvariant, PTL

(* memoryBackend.ts:4-5, "the SECOND implementation that exercises the     *)
(* StorageBackend contract": after any sequence of calls the two stores    *)
(* hold the same, and every call and every query has the same answer.      *)
THEOREM Agreement == Spec => []StoresAgree
<1>1. StoresInv => StoresAgree
  BY SameStateHolds, SameAnswersHold, SameRecordsHold DEF StoresAgree
<1> QED
  BY <1>1, StoresInvariant, PTL

(* base.ts:46-52: in the production store an address's event number moves  *)
(* exactly when the set of messages pending there changes.                 *)
THEOREM EventsMatchChanges == Spec => EventsAreChanges
<1>1. StoresInv /\ [Next]_vars =>
        [moved' = {b \in Box : Sql!Ids(Sql!InBox(sql, b)) # Sql!Ids(Sql!InBox(sql', b))}]_vars
  BY StoresStep DEF Good, Acked, Changed
<1> QED
  BY <1>1, StoresInvariant, PTL DEF Spec, EventsAreChanges

(* Memory mints the same events, but for an acknowledgement: where the     *)
(* file minted one and memory did not, a copy has just been persisted.     *)
THEOREM EventsAlike == Spec => SameEvents
<1>1. StoresInv /\ [Next]_vars =>
        [memMoved' # moved' =>
           /\ memMoved' = {}
           /\ \A b \in moved' : \E r \in sql'.deliveries :
                r.box = b /\ r.state = "persisted" /\ r \notin sql.deliveries]_vars
  BY StoresStep DEF Good, Acked
<1> QED
  BY <1>1, StoresInvariant, PTL DEF Spec, SameEvents
=============================================================================
