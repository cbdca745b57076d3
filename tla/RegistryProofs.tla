--------------------------- MODULE RegistryProofs ---------------------------
(***************************************************************************)
(* Registry for every set of aliases and sessions and every length of a    *)
(* run: the snapshot keeps the roster, the names of one session age        *)
(* together, a leave sticks, and the token on file is the one asked for.   *)
(***************************************************************************)
EXTENDS Registry, TLAPS

(* A restart reads the snapshot, so what is to hold of the roster must     *)
(* hold of the snapshot too, at all times: both are rosters that fit, with *)
(* the retired names left and the tokens in their files.                   *)
FitsIn(a, e, n) ==
  /\ e.seen <= n
  /\ e.sid \in Session \union {a}
  /\ e.service => e.sid = a

AgesTogether(r) ==
  \A a, b \in Alias :
    r[a] # None /\ r[b] # None /\ r[a].sid = r[b].sid /\ ~ r[a].left /\ ~ r[b].left
      => r[a].seen = r[b].seen

Typed(r) == r \in [Alias -> Entry \union {None}]
Fit(r, n) == Typed(r) /\ \A a \in Alias : r[a] # None => FitsIn(a, r[a], n)

LeftIn(r, gone) == \A a \in gone : r[a] # None => r[a].left
OnFile(r, f, lost) == \A a \in Alias : r[a] # None /\ a \notin lost => f[a] = r[a].token

SameOwner(e, f) ==
  /\ e.sid = f.sid /\ e.token = f.token /\ e.succeeded = f.succeeded
  /\ e.service = f.service /\ e.host = f.host

(* The snapshot t has what the roster r has, but for words heard since.    *)
Covers(t, r) ==
  \A a \in Alias :
    /\ r[a] = None <=> t[a] = None
    /\ r[a] # None => SameOwner(r[a], t[a]) /\ t[a].seen <= r[a].seen

Rosters ==
  /\ Fit(entries, now) /\ Fit(saved, now)
  /\ AgesTogether(entries) /\ AgesTogether(saved)
  /\ LeftIn(entries, retired) /\ LeftIn(saved, retired)
  /\ OnFile(saved, files, orphaned)

RegInv ==
  /\ TypeOK /\ Rosters
  /\ IF up THEN Covers(saved, entries) ELSE \A a \in Alias : entries[a] = None

-----------------------------------------------------------------------------
(* A roster t that is r after some of its aliases were heard at n.         *)
Heard(r, t, n) ==
  /\ Typed(t)
  /\ \A x \in Alias :
       /\ t[x] = None <=> r[x] = None
       /\ r[x] # None => /\ SameOwner(t[x], r[x]) /\ t[x].left = r[x].left
                         /\ t[x].seen \in {r[x].seen, n}

(* To be heard changes the entry's clock and nothing else of it. *)
LEMMA Reseen ==
  ASSUME NEW e \in Entry, NEW n \in 0..MaxClock
  PROVE  /\ [e EXCEPT !.seen = n] \in Entry
         /\ SameOwner([e EXCEPT !.seen = n], e)
         /\ [e EXCEPT !.seen = n].left = e.left
         /\ [e EXCEPT !.seen = n].seen = n
BY DEF Entry, SameOwner

(* The one entry of touchSiblings: who is heard, and what stays. *)
LEMMA TouchedEntry ==
  ASSUME NEW r, Typed(r), NEW s, NEW a \in Alias, now \in 0..MaxClock,
         NEW x \in Alias, r[x] # None
  PROVE  LET e == Touched(r, s, a)[x]
         IN /\ e \in Entry /\ SameOwner(e, r[x]) /\ e.left = r[x].left
            /\ x # a /\ r[x].sid = s /\ ~ r[x].left => e.seen = now
            /\ ~ (x # a /\ r[x].sid = s /\ ~ r[x].left) => e = r[x]
<1>1. r[x] \in Entry
  BY DEF Typed
<1>2. SameOwner(r[x], r[x])
  BY DEF SameOwner
<1>3. CASE x # a /\ r[x].sid = s /\ ~ r[x].left
  <2>1. Touched(r, s, a)[x] = [r[x] EXCEPT !.seen = now]
    BY <1>3 DEF Touched
  <2> QED
    BY <1>1, <1>3, <2>1, Reseen
<1>4. CASE ~ (x # a /\ r[x].sid = s /\ ~ r[x].left)
  <2>1. Touched(r, s, a)[x] = r[x]
    BY <1>4 DEF Touched
  <2> QED
    BY <1>1, <1>2, <1>4, <2>1
<1> QED
  BY <1>3, <1>4

(* touchSiblings as a whole. *)
LEMMA TouchedHeard ==
  ASSUME NEW r, Typed(r), NEW s, NEW a \in Alias, now \in 0..MaxClock
  PROVE  Heard(r, Touched(r, s, a), now)
<1>1. \A x \in Alias : r[x] = None => Touched(r, s, a)[x] = None
  BY DEF Touched
<1>2. \A x \in Alias : r[x] # None =>
        LET e == Touched(r, s, a)[x]
        IN /\ e \in Entry /\ SameOwner(e, r[x]) /\ e.left = r[x].left
           /\ e.seen \in {r[x].seen, now}
  BY TouchedEntry
<1>3. None \notin Entry
  BY RegistryAssumption
<1>4. Touched(r, s, a) = [x \in Alias |-> Touched(r, s, a)[x]]
  BY DEF Touched
<1>5. \A x \in Alias : Touched(r, s, a)[x] \in Entry \union {None}
  BY <1>1, <1>2
<1>6. Typed(Touched(r, s, a))
  BY <1>4, <1>5 DEF Typed
<1> QED
  BY <1>1, <1>2, <1>3, <1>6 DEF Heard

(* What is true of a roster stays true when some of its aliases are heard. *)
LEMMA HeardFits ==
  ASSUME NEW r, NEW t, Fit(r, now), Heard(r, t, now), now \in 0..MaxClock
  PROVE  /\ Fit(t, now)
         /\ \A gone \in SUBSET Alias : LeftIn(r, gone) => LeftIn(t, gone)
         /\ \A f, lost : OnFile(r, f, lost) => OnFile(t, f, lost)
         /\ \A u : Typed(u) /\ Covers(u, r) => Covers(u, t)
<1>1. Fit(t, now)
  BY DEF Fit, Heard, FitsIn, SameOwner
<1>2. \A gone \in SUBSET Alias : LeftIn(r, gone) => LeftIn(t, gone)
  BY DEF Heard, LeftIn
<1>3. \A f, lost : OnFile(r, f, lost) => OnFile(t, f, lost)
  BY DEF Heard, OnFile, SameOwner
<1>4. ASSUME NEW u, Typed(u), Covers(u, r)
      PROVE  Covers(u, t)
  <2> SUFFICES ASSUME NEW x \in Alias, r[x] # None
               PROVE  SameOwner(t[x], u[x]) /\ u[x].seen <= t[x].seen
    BY <1>4 DEF Covers, Heard
  <2>1. SameOwner(t[x], r[x]) /\ t[x].seen \in {r[x].seen, now} /\ r[x].seen <= now
    BY DEF Heard, Fit, FitsIn
  <2>2. SameOwner(r[x], u[x]) /\ u[x].seen <= r[x].seen /\ u[x] # None
    BY <1>4 DEF Covers
  <2>3. r[x].seen \in Nat /\ u[x].seen \in Nat
    BY <1>4, <2>2 DEF Fit, Typed, Entry
  <2> QED
    BY <2>1, <2>2, <2>3 DEF SameOwner
<1> QED
  BY <1>1, <1>2, <1>3, <1>4

(* A word of the session s through a: a is bound to e, its siblings are    *)
(* touched, and the names of one session still age together.  No alias     *)
(* but a itself can have a service's synthetic session id.                 *)
LEMMA SpokenFits ==
  ASSUME NEW r, Fit(r, now), AgesTogether(r), now \in 0..MaxClock,
         NEW a \in Alias, NEW e \in Entry, FitsIn(a, e, now), e.seen = now,
         NEW s, e.sid = s \/ e.sid = a
  PROVE  LET w == [r EXCEPT ![a] = e]
             t == Touched(w, s, a)
         IN Fit(w, now) /\ Heard(w, t, now) /\ Fit(t, now) /\ AgesTogether(t) /\ t[a] = e
<1> DEFINE w == [r EXCEPT ![a] = e]
           t == Touched(w, s, a)
<1>0. None \notin Entry
  BY RegistryAssumption
<1>1. Fit(w, now) /\ w[a] = e
  BY <1>0 DEF Fit, Typed
<1>2. Heard(w, t, now)
  BY <1>1, TouchedHeard DEF Fit
<1>3. Fit(t, now)
  BY <1>1, <1>2, HeardFits
<1>9. \A x \in Alias : w[x] # None =>
        /\ x # a /\ w[x].sid = s /\ ~ w[x].left => t[x].seen = now
        /\ ~ (x # a /\ w[x].sid = s /\ ~ w[x].left) => t[x] = w[x]
  <2>1. Typed(w)
    BY <1>1 DEF Fit
  <2> HIDE DEF w
  <2> QED
    BY <2>1, TouchedEntry
<1>4. t[a] = e
  BY <1>0, <1>1, <1>9
<1>5. ASSUME NEW b \in Alias, NEW c \in Alias, b # a, c # a, w[b] # None, w[c] # None,
             w[b].sid = w[c].sid, ~ w[b].left, ~ w[c].left
      PROVE  t[b].seen = t[c].seen
  <2>1. r[b] = w[b] /\ r[c] = w[c]
    BY <1>5 DEF Fit, Typed
  <2>2. w[b].seen = w[c].seen
    BY <1>5, <2>1 DEF AgesTogether
  <2> QED
    BY <1>5, <1>9, <2>2
<1>6. ASSUME NEW c \in Alias, c # a, w[c] # None, w[c].sid = e.sid, ~ w[c].left
      PROVE  t[c].seen = now
  <2>1. w[c].sid # a
    BY <1>1, <1>6, RegistryAssumption DEF Fit, FitsIn
  <2> QED
    BY <1>6, <1>9, <2>1
<1>7. \A x \in Alias : t[x] # None => w[x] # None /\ t[x].sid = w[x].sid /\ t[x].left = w[x].left
  BY <1>2 DEF Heard, SameOwner
<1>8. AgesTogether(t)
  <2> SUFFICES ASSUME NEW b \in Alias, NEW c \in Alias, t[b] # None, t[c] # None,
                      t[b].sid = t[c].sid, ~ t[b].left, ~ t[c].left
               PROVE  t[b].seen = t[c].seen
    BY DEF AgesTogether
  <2> HIDE DEF t, w
  <2> QED
    BY <1>1, <1>4, <1>5, <1>6, <1>7
<1> QED
  BY <1>1, <1>2, <1>3, <1>4, <1>8

-----------------------------------------------------------------------------
LEMMA InitRegistry == Init => RegInv
<1> SUFFICES ASSUME Init
             PROVE  RegInv
  OBVIOUS
<1>1. TypeOK
  <2>1. now \in 1..MaxClock /\ minted \in 0..MaxToken /\ crashes \in 0..MaxCrashes
    BY RegistryAssumption DEF Init
  <2>2. files \in [Alias -> 0..MaxToken]
    BY RegistryAssumption DEF Init, NoToken
  <2> QED
    BY <2>1, <2>2 DEF Init, TypeOK
<1>2. entries \in [Alias -> Entry \union {None}] /\ saved = entries
      /\ (\A a \in Alias : entries[a] = None) /\ retired = {}
  BY DEF Init
<1>3. Rosters
  BY <1>2 DEF Rosters, Fit, Typed, AgesTogether, LeftIn, OnFile
<1> QED
  BY <1>1, <1>2, <1>3 DEF RegInv, Init

(* What Registry.register makes of an entry fits, whoever held the alias.  *)
LEMMA BoundFits ==
  ASSUME RegInv, NEW s \in Session, NEW a \in Alias, NEW info \in {"session", "service", "host"},
         NEW token \in 1..MaxToken
  PROVE  LET e == Bound(s, a, info, token)
         IN /\ e \in Entry /\ FitsIn(a, e, now) /\ e.seen = now /\ ~ e.left /\ e.token = token
            /\ e.sid = (IF info = "service" THEN a ELSE s) \/ e.sid = a
<1> DEFINE e == Bound(s, a, info, token)
<1>1. entries[a] # None => entries[a] \in Entry /\ FitsIn(a, entries[a], now)
  BY DEF RegInv, Rosters, Fit, Typed
<1>2. now \in 0..MaxClock
  BY DEF RegInv, TypeOK
<1> DEFINE prev == entries[a]
           fresh == [sid |-> IF info = "service" THEN a ELSE s, seen |-> now, left |-> FALSE,
                     token |-> token, succeeded |-> None,
                     service |-> info = "service", host |-> info = "host"]
<1>3. fresh \in Entry /\ FitsIn(a, fresh, now)
  <2> DEFINE service == info = "service"
             host == info = "host"
             sid == IF service THEN a ELSE s
  <2>1. /\ service \in BOOLEAN /\ host \in BOOLEAN /\ sid \in Sid
        /\ sid \in Session \union {a} /\ (service => sid = a)
    BY DEF Sid
  <2>2. fresh = [sid |-> sid, seen |-> now, left |-> FALSE, token |-> token,
                 succeeded |-> None, service |-> service, host |-> host]
    OBVIOUS
  <2> HIDE DEF service, host, sid, fresh
  <2>3. fresh \in Entry
    BY <1>2, <2>1, <2>2 DEF Entry
  <2> QED
    BY <1>2, <2>1, <2>2, <2>3 DEF FitsIn
<1>4. CASE prev = None
  <2>1. e = fresh
    BY <1>4 DEF Bound
  <2> QED
    BY <1>3, <2>1
<1>5. CASE prev # None
  <2> DEFINE old == IF ~ prev.service /\ prev.sid # fresh.sid THEN prev.sid ELSE prev.succeeded
             own == IF prev.service THEN prev.sid ELSE fresh.sid
  <2>1. e = [sid |-> own, seen |-> now, left |-> FALSE, token |-> token, succeeded |-> old,
             service |-> fresh.service \/ prev.service, host |-> fresh.host \/ prev.host]
    BY <1>5 DEF Bound
  <2>2. /\ own \in Sid /\ old \in Sid \union {None} /\ prev.service \in BOOLEAN /\ prev.host \in BOOLEAN
        /\ own \in Session \union {a} /\ (prev.service => own = a)
    BY <1>1, <1>3, <1>5 DEF Entry, Sid, FitsIn
  <2>3. fresh.service = (info = "service") /\ (info = "service" => own = a)
        /\ (own = (IF info = "service" THEN a ELSE s) \/ own = a)
    BY <2>2
  <2>4. fresh.service \in BOOLEAN /\ fresh.host \in BOOLEAN
    OBVIOUS
  <2> HIDE DEF own, old, fresh, prev
  <2>5. e \in Entry
    BY <1>2, <2>1, <2>2, <2>4 DEF Entry
  <2>6. FitsIn(a, e, now)
    BY <1>2, <2>1, <2>2, <2>3 DEF FitsIn
  <2>7. e.seen = now /\ ~ e.left /\ e.token = token
        /\ (e.sid = (IF info = "service" THEN a ELSE s) \/ e.sid = a)
    BY <2>1, <2>3
  <2> QED
    BY <2>5, <2>6, <2>7
<1> QED
  BY <1>4, <1>5

(* Registry.register: the new roster is saved whole. *)
LEMMA RegisterKeeps ==
  ASSUME RegInv, NEW s \in Session, NEW a \in Alias, NEW info \in {"session", "service", "host"},
         Register(s, a, info)
  PROVE  RegInv'
<1> DEFINE sid == IF info = "service" THEN a ELSE s
           token == TokenFor(a)
           e == Bound(s, a, info, token)
           w == [entries EXCEPT ![a] = e]
           t == Touched(w, sid, a)
<1>1. /\ Fit(entries, now) /\ AgesTogether(entries) /\ LeftIn(entries, retired)
      /\ OnFile(saved, files, orphaned) /\ Typed(saved) /\ Covers(saved, entries)
      /\ up /\ now \in 0..MaxClock /\ None \notin Entry
  BY RegistryAssumption DEF RegInv, Rosters, TypeOK, Register, Fit
<1>2. token \in 1..MaxToken /\ (Known(a) => token = entries[a].token)
  <2>1. Known(a) => entries[a] \in Entry
    BY <1>1 DEF Fit, Typed, Known
  <2>2. Known(a) => token \in 1..MaxToken /\ token = entries[a].token
    BY <2>1 DEF TokenFor, Entry
  <2>3. ~ Known(a) => token \in 1..MaxToken
    BY RegistryAssumption DEF TokenFor, Register, RegInv, TypeOK
  <2> QED
    BY <2>2, <2>3
<1>3. e \in Entry /\ FitsIn(a, e, now) /\ e.seen = now /\ e.token = token
      /\ (e.sid = sid \/ e.sid = a)
  BY <1>2, BoundFits
<1>4. entries' = t /\ saved' = t
  BY DEF Register
<1>5. Fit(w, now) /\ Heard(w, t, now) /\ Fit(t, now) /\ AgesTogether(t) /\ t[a] = e
  BY <1>1, <1>3, SpokenFits
<1>6. \A x \in Alias \ {a} : w[x] = entries[x]
  BY <1>1 DEF Fit, Typed
<1>7. \A x \in Alias \ {a} :
        /\ t[x] = None <=> entries[x] = None
        /\ t[x] # None => t[x].left = entries[x].left /\ t[x].token = entries[x].token
  <2> HIDE DEF w, t
  <2> QED
    BY <1>5, <1>6 DEF Heard, SameOwner
<1> HIDE DEF e, w, t, token
<1>8. LeftIn(t, retired \ {a})
  BY <1>1, <1>7 DEF LeftIn, RegInv, TypeOK
<1>9. OnFile(t, files, orphaned')
  <2> SUFFICES ASSUME NEW x \in Alias, t[x] # None, x \notin orphaned'
               PROVE  files[x] = t[x].token
    BY DEF OnFile
  <2>1. CASE x # a
    <3>1. x \notin orphaned /\ entries[x] # None
      BY <1>7, <2>1 DEF Register
    <3>2. saved[x] # None /\ saved[x].token = entries[x].token
      BY <1>1, <3>1 DEF Covers, SameOwner
    <3> QED
      BY <1>1, <1>7, <2>1, <3>1, <3>2 DEF OnFile
  <2>2. CASE x = a
    BY <1>2, <1>3, <1>5, <2>2 DEF Register, Owns
  <2> QED
    BY <2>1, <2>2
<1>10. Covers(t, t)
  <2>1. \A x \in Alias : t[x] # None => t[x].seen \in Nat
    BY <1>5 DEF Fit, Typed, Entry
  <2> QED
    BY <2>1 DEF Covers, SameOwner
<1>11. /\ now' = now /\ up' = up /\ files' = files /\ retired' = retired \ {a}
       /\ orphaned' \subseteq Alias /\ minted' \in 0..MaxToken
       /\ answers' \in [Session -> Alias \union {None}]
  BY <1>2 DEF Register, RegInv, TypeOK, token
<1>12. TypeOK'
  BY <1>4, <1>5, <1>11 DEF Register, RegInv, TypeOK, Fit, Typed
<1>13. Rosters'
  BY <1>4, <1>5, <1>8, <1>9, <1>11 DEF Rosters
<1> QED
  BY <1>1, <1>4, <1>10, <1>11, <1>12, <1>13 DEF RegInv

(* heartbeat, touchByAct: a word heard through a, in the roster alone. *)
LEMMA WordKeeps ==
  ASSUME RegInv, up, NEW a \in Alias, entries[a] # None, NEW e \in Entry,
         SameOwner(e, entries[a]), e.seen = now, ~ e.left,
         entries' = Touched([entries EXCEPT ![a] = e], entries[a].sid, a),
         a \notin retired' /\ retired' \subseteq retired /\ retired \subseteq retired' \union {a},
         intents' \subseteq Alias,
         UNCHANGED <<up, saved, files, answers, minted, now, crashes, orphaned>>
  PROVE  RegInv'
<1> DEFINE w == [entries EXCEPT ![a] = e]
           t == Touched(w, entries[a].sid, a)
<1>1. /\ Fit(entries, now) /\ AgesTogether(entries) /\ LeftIn(entries, retired)
      /\ Fit(saved, now) /\ Covers(saved, entries) /\ LeftIn(saved, retired)
      /\ now \in 0..MaxClock /\ None \notin Entry
  BY RegistryAssumption DEF RegInv, Rosters, TypeOK
<1>2. FitsIn(a, e, now) /\ e.sid = entries[a].sid
  BY <1>1 DEF Fit, FitsIn, SameOwner, Typed, Entry
<1>3. Fit(w, now) /\ Heard(w, t, now) /\ Fit(t, now) /\ AgesTogether(t) /\ t[a] = e
  BY <1>1, <1>2, SpokenFits
<1>4. w[a] = e /\ \A x \in Alias \ {a} : w[x] = entries[x]
  BY <1>1 DEF Fit, Typed
<1> HIDE DEF w, t
<1>5. Covers(saved, w)
  <2> SUFFICES ASSUME NEW x \in Alias
               PROVE  /\ w[x] = None <=> saved[x] = None
                      /\ w[x] # None => SameOwner(w[x], saved[x]) /\ saved[x].seen <= w[x].seen
    BY DEF Covers
  <2>1. CASE x # a
    BY <1>1, <1>4, <2>1 DEF Covers
  <2>2. CASE x = a
    BY <1>1, <1>4, <2>2 DEF Covers, Fit, FitsIn, SameOwner
  <2> QED
    BY <2>1, <2>2
<1>6. Covers(saved, t)
  BY <1>1, <1>3, <1>5, HeardFits DEF Fit
<1>7. LeftIn(t, retired')
  BY <1>1, <1>3, <1>4 DEF LeftIn, Heard, RegInv, TypeOK
<1>8. LeftIn(saved, retired')
  BY <1>1 DEF LeftIn
<1>9. entries' = t
  BY DEF t, w
<1>10. TypeOK'
  BY <1>3, <1>9 DEF RegInv, TypeOK, Fit, Typed
<1>11. Rosters'
  BY <1>1, <1>3, <1>7, <1>8, <1>9 DEF Rosters, RegInv
<1> QED
  BY <1>6, <1>9, <1>10, <1>11 DEF RegInv

(* heartbeat brings the alias back; an act, or a send reconciled, does not. *)
LEMMA HeartbeatKeeps ==
  ASSUME RegInv, NEW a \in Alias, Heartbeat(a)
  PROVE  RegInv'
<1> DEFINE e == [entries[a] EXCEPT !.seen = now, !.left = FALSE]
<1>1. entries[a] \in Entry /\ entries[a] # None /\ now \in 0..MaxClock
  BY DEF Heartbeat, Known, RegInv, TypeOK
<1>2. e \in Entry /\ SameOwner(e, entries[a]) /\ e.seen = now /\ ~ e.left
  BY <1>1 DEF Entry, SameOwner
<1>3. entries' = Touched([entries EXCEPT ![a] = e], entries[a].sid, a)
  <2>1. [[entries EXCEPT ![a].seen = now] EXCEPT ![a].left = FALSE] = [entries EXCEPT ![a] = e]
    BY <1>1 DEF RegInv, TypeOK
  <2> QED
    BY <2>1 DEF Heartbeat
<1> HIDE DEF e
<1> QED
  BY <1>1, <1>2, <1>3, WordKeeps DEF Heartbeat, RegInv, TypeOK

LEMMA ActKeeps ==
  ASSUME RegInv, NEW a \in Alias, up, entries' = ActedAs(entries, a), intents' \subseteq intents,
         UNCHANGED <<up, saved, files, answers, minted, now, crashes, retired, orphaned>>
  PROVE  RegInv'
<1> DEFINE e == [entries[a] EXCEPT !.seen = now]
<1>1. CASE entries[a] = None \/ entries[a].left
  <2>1. entries' = entries
    BY <1>1 DEF ActedAs
  <2> QED
    BY <2>1 DEF RegInv, TypeOK, Rosters
<1>2. CASE entries[a] # None /\ ~ entries[a].left
  <2>1. entries[a] \in Entry /\ now \in 0..MaxClock
    BY <1>2 DEF RegInv, TypeOK
  <2>2. e \in Entry /\ SameOwner(e, entries[a]) /\ e.seen = now /\ ~ e.left
    BY <1>2, <2>1, Reseen
  <2>3. entries' = Touched([entries EXCEPT ![a] = e], entries[a].sid, a)
    BY <1>2 DEF ActedAs
  <2>4. a \notin retired
    BY <1>2 DEF RegInv, Rosters, LeftIn
  <2> HIDE DEF e
  <2> QED
    BY <1>2, <2>2, <2>3, <2>4, WordKeeps DEF RegInv, TypeOK
<1> QED
  BY <1>1, <1>2

(* Registry.leave: saved whole, like a registration. *)
LEMMA LeaveKeeps ==
  ASSUME RegInv, NEW a \in Alias, Leave(a)
  PROVE  RegInv'
<1> DEFINE e == [entries[a] EXCEPT !.left = TRUE, !.seen = 0]
           t == [entries EXCEPT ![a] = e]
<1>1. entries[a] \in Entry /\ entries[a] # None /\ now \in 0..MaxClock /\ None \notin Entry
  BY RegistryAssumption DEF Leave, Known, RegInv, TypeOK
<1>2. e \in Entry /\ SameOwner(e, entries[a]) /\ e.seen = 0 /\ e.left
  <2>1. 0 \in 0..MaxClock
    BY RegistryAssumption
  <2>2. e \in Entry
    BY <1>1, <2>1 DEF Entry
  <2>3. SameOwner(e, entries[a]) /\ e.seen = 0
    BY <1>1 DEF Entry, SameOwner
  <2>4. e.left
    BY <1>1 DEF Entry
  <2> QED
    BY <2>2, <2>3, <2>4
<1>3. entries' = t /\ saved' = t /\ up' = up /\ up
  <2>1. [[entries EXCEPT ![a].left = TRUE] EXCEPT ![a].seen = 0] = t
    BY <1>1 DEF RegInv, TypeOK
  <2> QED
    BY <2>1 DEF Leave
<1>4. t[a] = e /\ Typed(t) /\ \A x \in Alias \ {a} : t[x] = entries[x]
  BY <1>2 DEF RegInv, TypeOK, Typed
<1> HIDE DEF e, t
<1>5. Fit(t, now)
  BY <1>1, <1>2, <1>4 DEF Fit, FitsIn, SameOwner, RegInv, Rosters
<1>6. AgesTogether(t)
  BY <1>2, <1>4 DEF AgesTogether, RegInv, Rosters
<1>7. LeftIn(t, retired')
  BY <1>2, <1>4 DEF LeftIn, RegInv, Rosters, Leave, TypeOK
<1>8. OnFile(t, files, orphaned)
  BY <1>1, <1>2, <1>3, <1>4 DEF OnFile, RegInv, Rosters, Covers, SameOwner
<1>9. Covers(t, t)
  BY <1>5 DEF Fit, Typed, Entry, Covers, SameOwner
<1>10. TypeOK'
  BY <1>3, <1>4 DEF Leave, RegInv, TypeOK, Typed
<1>11. Rosters'
  BY <1>3, <1>5, <1>6, <1>7, <1>8 DEF Leave, Rosters
<1> QED
  BY <1>3, <1>9, <1>10, <1>11 DEF RegInv

(* The token is written, or its answer is lost. *)
LEMMA WriteTokenKeeps ==
  ASSUME RegInv, NEW s \in Session, WriteToken(s)
  PROVE  RegInv'
<1> DEFINE a == answers[s]
<1>1. a \in Alias /\ entries[a] # None /\ up
  BY DEF WriteToken, Known, RegInv, TypeOK
<1>2. entries[a].token \in 1..MaxToken /\ saved[a] # None /\ saved[a].token = entries[a].token
  BY <1>1 DEF RegInv, TypeOK, Entry, Covers, SameOwner
<1>3. OnFile(saved, files', orphaned')
  BY <1>1, <1>2 DEF WriteToken, OnFile, RegInv, Rosters, TypeOK
<1>4. TypeOK'
  BY <1>1, <1>2 DEF WriteToken, RegInv, TypeOK, roster
<1>5. Rosters'
  BY <1>3 DEF WriteToken, RegInv, Rosters, roster
<1> QED
  BY <1>4, <1>5 DEF WriteToken, RegInv, roster

(* A step that touches neither roster, token file nor history. *)
LEMMA OthersKeep ==
  ASSUME RegInv, UNCHANGED <<up, roster, files, minted, crashes, hist>>,
         now' \in 1..MaxClock, now <= now',
         answers' \in [Session -> Alias \union {None}], intents' \subseteq Alias
  PROVE  RegInv'
<1>1. TypeOK'
  BY DEF RegInv, TypeOK, roster, hist
<1>2. \A r : Fit(r, now) => Fit(r, now')
  <2> SUFFICES ASSUME NEW r, Fit(r, now), NEW a \in Alias, r[a] # None
               PROVE  FitsIn(a, r[a], now')
    BY DEF Fit
  <2>1. r[a].seen \in Nat /\ now \in Nat /\ now' \in Nat
    BY DEF Fit, Typed, Entry, RegInv, TypeOK
  <2> QED
    BY <2>1 DEF Fit, FitsIn
<1>3. Rosters'
  BY <1>2 DEF RegInv, Rosters, roster, hist
<1> QED
  BY <1>1, <1>3 DEF RegInv, roster

-----------------------------------------------------------------------------
(* Fewer aliases, the same entries: what a prune leaves fits. *)
LEMMA DroppedFits ==
  ASSUME NEW r, Fit(r, now), AgesTogether(r), LeftIn(r, retired),
         retired \subseteq Alias, NEW gone \in SUBSET Alias
  PROVE  LET t == Dropped(r, gone)
         IN /\ Fit(t, now) /\ AgesTogether(t) /\ LeftIn(t, retired \ gone)
            /\ Covers(t, t)
<1> DEFINE t == Dropped(r, gone)
<1>1. \A x \in Alias : t[x] = IF x \in gone THEN None ELSE r[x]
  BY DEF Dropped
<1>2. Typed(t)
  BY DEF Dropped, Fit, Typed
<1> HIDE DEF t
<1>3. Fit(t, now)
  BY <1>1, <1>2 DEF Fit
<1>4. AgesTogether(t)
  BY <1>1 DEF AgesTogether
<1>5. LeftIn(t, retired \ gone)
  <2> SUFFICES ASSUME NEW x \in retired \ gone, t[x] # None
               PROVE  t[x].left
    BY DEF LeftIn
  <2> QED
    BY <1>1 DEF LeftIn
<1>6. Covers(t, t)
  BY <1>2 DEF Covers, Typed, Entry, SameOwner
<1> QED
  BY <1>3, <1>4, <1>5, <1>6 DEF t

LEMMA PruneKeeps ==
  ASSUME RegInv, NEW mail \in SUBSET Alias, Prune(mail)
  PROVE  RegInv'
<1> DEFINE gone == {a \in Alias : Prunable(a, mail)}
           t == Dropped(entries, gone)
<1> HIDE DEF gone
<1>0. gone \in SUBSET Alias
  BY DEF gone
<1>1. /\ entries' = t /\ saved' = t /\ files' = Unlinked(gone) /\ up /\ up' = up
      /\ retired' = retired \ gone /\ orphaned' = orphaned \ gone
      /\ UNCHANGED <<answers, minted, intents, now, crashes>>
  BY DEF Prune, gone
<1>2. /\ Fit(t, now) /\ AgesTogether(t) /\ LeftIn(t, retired \ gone)
      /\ Covers(t, t)
  BY <1>0, DroppedFits DEF RegInv, Rosters, TypeOK
<1>3. OnFile(t, files', orphaned')
  BY <1>0, <1>1 DEF OnFile, Dropped, Unlinked, RegInv, Rosters, Covers, SameOwner
<1>4. files' \in [Alias -> 0..MaxToken]
  BY <1>1, RegistryAssumption DEF Unlinked, NoToken, RegInv, TypeOK
<1> HIDE DEF t
<1>5. TypeOK'
  BY <1>0, <1>1, <1>2, <1>4 DEF RegInv, TypeOK, Fit, Typed
<1>6. Rosters'
  BY <1>1, <1>2, <1>3 DEF Rosters
<1> QED
  BY <1>1, <1>2, <1>5, <1>6 DEF RegInv

(* The broker goes down, in the middle of a prune or at any other time. *)
LEMMA DownKeeps ==
  ASSUME RegInv, NEW gone \in SUBSET Alias, Down,
         files' = Unlinked(gone), orphaned' = orphaned \union gone,
         UNCHANGED <<saved, answers, minted, intents, now, retired>>
  PROVE  RegInv'
<1>1. OnFile(saved, files', orphaned')
  BY DEF OnFile, Unlinked, RegInv, Rosters
<1>2. entries' = [a \in Alias |-> None] /\ up' = FALSE
  BY DEF Down
<1>3. files' \in [Alias -> 0..MaxToken]
  BY RegistryAssumption DEF Unlinked, NoToken, RegInv, TypeOK
<1>4. crashes' \in 0..MaxCrashes
  BY RegistryAssumption DEF Down, RegInv, TypeOK
<1>5. TypeOK'
  BY <1>2, <1>3, <1>4 DEF RegInv, TypeOK
<1>6. Fit(entries', now) /\ AgesTogether(entries') /\ LeftIn(entries', retired)
  BY <1>2 DEF Fit, Typed, AgesTogether, LeftIn, RegInv, TypeOK
<1>7. Rosters'
  BY <1>1, <1>6 DEF RegInv, Rosters
<1> QED
  BY <1>2, <1>5, <1>7 DEF RegInv

LEMMA CrashKeeps ==
  ASSUME RegInv, Crash
  PROVE  RegInv'
<1>1. files' = Unlinked({}) /\ orphaned' = orphaned \union {}
  BY DEF Crash, Unlinked, RegInv, TypeOK
<1> QED
  BY <1>1, DownKeeps DEF Crash

-----------------------------------------------------------------------------
(* The spooled sends a boot replays: all names of a live sender's session  *)
(* that have not left are heard, so they go on ageing together; and who    *)
(* was heard in the snapshot was heard in the roster.                      *)
Speaks(r, senders, a) ==
  /\ r[a] # None /\ ~ r[a].left
  /\ \E x \in senders : r[x] # None /\ ~ r[x].left /\ r[x].sid = r[a].sid

LEMMA ReplayedEntry ==
  ASSUME NEW r, Typed(r), now \in 0..MaxClock, NEW senders \in SUBSET Alias,
         NEW a \in Alias, r[a] # None
  PROVE  LET e == Replayed(r, senders)[a]
         IN /\ e \in Entry /\ SameOwner(e, r[a]) /\ e.left = r[a].left
            /\ e.seen = IF Speaks(r, senders, a) THEN now ELSE r[a].seen
<1>1. r[a] \in Entry
  BY DEF Typed
<1>2. SameOwner(r[a], r[a])
  BY DEF SameOwner
<1>3. Replayed(r, senders)[a] =
        IF Speaks(r, senders, a) THEN [r[a] EXCEPT !.seen = now] ELSE r[a]
  BY DEF Replayed, Speaks
<1>4. CASE Speaks(r, senders, a)
  BY <1>1, <1>3, <1>4, Reseen
<1>5. CASE ~ Speaks(r, senders, a)
  BY <1>1, <1>2, <1>3, <1>5
<1> QED
  BY <1>4, <1>5

LEMMA ReplayedFits ==
  ASSUME NEW r, Fit(r, now), AgesTogether(r), now \in 0..MaxClock,
         NEW senders \in SUBSET Alias
  PROVE  LET t == Replayed(r, senders)
         IN Heard(r, t, now) /\ Fit(t, now) /\ AgesTogether(t)
<1> DEFINE t == Replayed(r, senders)
<1>0. None \notin Entry
  BY RegistryAssumption
<1>1. \A x \in Alias : r[x] = None => t[x] = None
  BY DEF Replayed
<1>2. \A x \in Alias : r[x] # None =>
        /\ t[x] \in Entry /\ SameOwner(t[x], r[x]) /\ t[x].left = r[x].left
        /\ t[x].seen = IF Speaks(r, senders, x) THEN now ELSE r[x].seen
  BY ReplayedEntry DEF Fit
<1>3. t = [x \in Alias |-> t[x]]
  BY DEF Replayed
<1> HIDE DEF t
<1>4. Typed(t)
  <2>1. \A x \in Alias : t[x] \in Entry \union {None}
    BY <1>1, <1>2
  <2> QED
    BY <1>3, <2>1 DEF Typed
<1>5. Heard(r, t, now)
  BY <1>0, <1>1, <1>2, <1>4 DEF Heard
<1>6. Fit(t, now)
  BY <1>5, HeardFits
<1>7. AgesTogether(t)
  <2> SUFFICES ASSUME NEW b \in Alias, NEW c \in Alias, t[b] # None, t[c] # None,
                      t[b].sid = t[c].sid, ~ t[b].left, ~ t[c].left
               PROVE  t[b].seen = t[c].seen
    BY DEF AgesTogether
  <2>1. r[b] # None /\ r[c] # None /\ r[b].sid = r[c].sid /\ ~ r[b].left /\ ~ r[c].left
    BY <1>1, <1>2 DEF SameOwner
  <2>2. Speaks(r, senders, b) <=> Speaks(r, senders, c)
    BY <2>1 DEF Speaks
  <2>3. r[b].seen = r[c].seen
    BY <2>1 DEF AgesTogether
  <2> QED
    BY <1>2, <2>1, <2>2, <2>3
<1> QED
  BY <1>5, <1>6, <1>7 DEF t

LEMMA BootKeeps ==
  ASSUME RegInv, Boot
  PROVE  RegInv'
<1> DEFINE t == Replayed(saved, intents)
<1>1. /\ Fit(saved, now) /\ AgesTogether(saved) /\ LeftIn(saved, retired)
      /\ OnFile(saved, files, orphaned) /\ now \in 0..MaxClock /\ intents \in SUBSET Alias
      /\ retired \in SUBSET Alias
  BY DEF RegInv, Rosters, TypeOK
<1>2. Heard(saved, t, now) /\ Fit(t, now) /\ AgesTogether(t)
  BY <1>1, ReplayedFits
<1>3. LeftIn(t, retired)
  BY <1>1, <1>2, HeardFits
<1>4. PICK u : /\ saved' = u
               /\ u = saved \/ \E before \in SUBSET intents : u = Replayed(saved, before)
  BY DEF Boot
<1>5. Fit(u, now) /\ AgesTogether(u) /\ LeftIn(u, retired) /\ OnFile(u, files, orphaned) /\ Covers(u, t)
  <2>1. CASE u = saved
    <3>1. Covers(saved, saved)
      BY <1>1 DEF Covers, SameOwner, Fit, Typed, Entry
    <3>2. Covers(saved, t)
      BY <1>1, <1>2, <3>1, HeardFits DEF Fit
    <3> QED
      BY <1>1, <2>1, <3>2
  <2>2. ASSUME NEW before \in SUBSET intents, u = Replayed(saved, before)
        PROVE  /\ Fit(u, now) /\ AgesTogether(u) /\ LeftIn(u, retired)
               /\ OnFile(u, files, orphaned) /\ Covers(u, t)
    <3>1. before \in SUBSET Alias
      BY <1>1
    <3>2. Heard(saved, u, now) /\ Fit(u, now) /\ AgesTogether(u)
      BY <1>1, <2>2, <3>1, ReplayedFits
    <3>3. LeftIn(u, retired) /\ OnFile(u, files, orphaned)
      BY <1>1, <3>2, HeardFits
    <3>4. Covers(u, t)
      <4> SUFFICES ASSUME NEW x \in Alias
                   PROVE  /\ t[x] = None <=> u[x] = None
                          /\ t[x] # None => SameOwner(t[x], u[x]) /\ u[x].seen <= t[x].seen
        BY DEF Covers
      <4>1. t[x] = None <=> u[x] = None
        BY <1>2, <3>2 DEF Heard
      <4>2. ASSUME t[x] # None
            PROVE  SameOwner(t[x], u[x]) /\ u[x].seen <= t[x].seen
        <5>1. saved[x] # None
          BY <1>2, <4>2 DEF Heard
        <5>2. /\ SameOwner(t[x], saved[x])
              /\ t[x].seen = IF Speaks(saved, intents, x) THEN now ELSE saved[x].seen
          BY <1>1, <5>1, ReplayedEntry DEF Fit
        <5>3. /\ SameOwner(u[x], saved[x])
              /\ u[x].seen = IF Speaks(saved, before, x) THEN now ELSE saved[x].seen
          BY <1>1, <2>2, <3>1, <5>1, ReplayedEntry DEF Fit
        <5>4. Speaks(saved, before, x) => Speaks(saved, intents, x)
          BY DEF Speaks
        <5>5. saved[x].seen \in Nat /\ now \in Nat /\ saved[x].seen <= now
          BY <1>1, <5>1 DEF Fit, FitsIn, Typed, Entry
        <5> QED
          BY <5>2, <5>3, <5>4, <5>5 DEF SameOwner
      <4> QED
        BY <4>1, <4>2
    <3> QED
      BY <3>2, <3>3, <3>4
  <2> QED
    BY <1>4, <2>1, <2>2
<1>6. entries' = t /\ up' /\ intents' \subseteq Alias
  BY <1>1 DEF Boot
<1> HIDE DEF t
<1>7. TypeOK'
  BY <1>2, <1>4, <1>5, <1>6 DEF Boot, RegInv, TypeOK, Fit, Typed
<1>8. Rosters'
  BY <1>2, <1>3, <1>4, <1>5, <1>6 DEF Boot, Rosters
<1> QED
  BY <1>4, <1>5, <1>6, <1>7, <1>8 DEF RegInv

(* A boot that dies leaves the retired owner it made up in the snapshot. *)
LEMMA BootDiesKeeps ==
  ASSUME RegInv, NEW s \in Session, NEW a \in Alias, BootDies(s, a)
  PROVE  RegInv'
<1> DEFINE token == IF files[a] # NoToken THEN files[a] ELSE minted + 1
           e == [sid |-> s, seen |-> 0, left |-> TRUE, token |-> token,
                 succeeded |-> None, service |-> FALSE, host |-> FALSE]
           t == [saved EXCEPT ![a] = e]
<1>1. token \in 1..MaxToken
  BY DEF BootDies, NoToken, RegInv, TypeOK
<1>2. saved' = t /\ ~ up /\ up' = up /\ entries' = entries /\ now' = now /\ files' = files
      /\ retired' = retired \union {a} /\ orphaned \subseteq orphaned'
      /\ orphaned' \subseteq orphaned \union {a} /\ (a \notin orphaned' => files[a] = token)
  BY <1>1 DEF BootDies
<1> HIDE DEF token
<1>3. e \in Entry /\ FitsIn(a, e, now) /\ e.left /\ e.token = token
  <2>1. 0 \in 0..MaxClock /\ 0 <= now
    BY RegistryAssumption DEF RegInv, TypeOK
  <2>2. e \in Entry
    BY <1>1, <2>1 DEF Entry, Sid
  <2> QED
    BY <2>1, <2>2 DEF FitsIn
<1> HIDE DEF e
<1>4. t[a] = e /\ Typed(t) /\ \A x \in Alias \ {a} : t[x] = saved[x]
  BY <1>3 DEF RegInv, TypeOK, Typed
<1> HIDE DEF t
<1>5. Fit(t, now)
  BY <1>3, <1>4 DEF Fit, RegInv, Rosters
<1>6. AgesTogether(t)
  BY <1>3, <1>4 DEF AgesTogether, RegInv, Rosters
<1>7. LeftIn(t, retired')
  BY <1>2, <1>3, <1>4 DEF LeftIn, RegInv, Rosters, TypeOK
<1>8. OnFile(t, files, orphaned')
  BY <1>2, <1>3, <1>4 DEF OnFile, RegInv, Rosters
<1>9. LeftIn(entries, retired')
  BY <1>2 DEF LeftIn, RegInv, TypeOK
<1>10. TypeOK'
  <2>1. minted' \in 0..MaxToken
    BY <1>1 DEF BootDies, RegInv, TypeOK, token
  <2>2. crashes' \in 0..MaxCrashes
    BY RegistryAssumption DEF BootDies, RegInv, TypeOK
  <2>3. intents' \subseteq Alias
    BY DEF BootDies, RegInv, TypeOK
  <2> QED
    BY <1>2, <1>4, <2>1, <2>2, <2>3 DEF BootDies, RegInv, TypeOK, Typed
<1>11. Rosters'
  BY <1>2, <1>5, <1>6, <1>7, <1>8, <1>9 DEF RegInv, Rosters
<1> QED
  BY <1>2, <1>10, <1>11 DEF RegInv

-----------------------------------------------------------------------------
LEMMA NextRegistry == RegInv /\ [Next]_vars => RegInv'
<1> SUFFICES ASSUME RegInv, [Next]_vars
             PROVE  RegInv'
  OBVIOUS
<1>1. ASSUME NEW s \in Session, NEW a \in Alias, BootDies(s, a)
      PROVE  RegInv'
  BY <1>1, BootDiesKeeps
<1>2. ASSUME NEW s \in Session, NEW a \in Alias,
             NEW info \in {"session", "service", "host"}, Register(s, a, info)
      PROVE  RegInv'
  BY <1>2, RegisterKeeps
<1>3. ASSUME NEW s \in Session, WriteToken(s)
      PROVE  RegInv'
  BY <1>3, WriteTokenKeeps
<1>4. ASSUME NEW s \in Session, GiveUp(s)
      PROVE  RegInv'
  BY <1>4, OthersKeep DEF GiveUp, RegInv, TypeOK
<1>5. ASSUME NEW a \in Alias, Heartbeat(a)
      PROVE  RegInv'
  BY <1>5, HeartbeatKeeps
<1>6. ASSUME NEW a \in Alias, Act(a) \/ Reconcile(a)
      PROVE  RegInv'
  BY <1>6, ActKeeps DEF Act, Reconcile
<1>7. ASSUME NEW a \in Alias, Leave(a)
      PROVE  RegInv'
  BY <1>7, LeaveKeeps
<1>8. ASSUME NEW a \in Alias, Spool(a)
      PROVE  RegInv'
  BY <1>8, OthersKeep DEF Spool, RegInv, TypeOK
<1>9. ASSUME NEW mail \in SUBSET Alias, Prune(mail)
      PROVE  RegInv'
  BY <1>9, PruneKeeps
<1>10. ASSUME NEW gone \in SUBSET Alias, PruneDies(gone)
       PROVE  RegInv'
  BY <1>10, DownKeeps DEF PruneDies
<1>11. ASSUME Crash
       PROVE  RegInv'
  BY <1>11, CrashKeeps
<1>12. ASSUME Boot
       PROVE  RegInv'
  BY <1>12, BootKeeps
<1>13. ASSUME Tick
       PROVE  RegInv'
  <2>1. now' \in 1..MaxClock /\ now <= now'
    BY <1>13, RegistryAssumption DEF Tick, RegInv, TypeOK
  <2> QED
    BY <1>13, <2>1, OthersKeep DEF Tick, RegInv, TypeOK
<1>14. CASE UNCHANGED vars
  <2>1. now <= now'
    BY <1>14 DEF vars, RegInv, TypeOK
  <2> QED
    BY <1>14, <2>1, OthersKeep DEF vars, roster, hist, RegInv, TypeOK
<1> QED
  BY <1>1, <1>2, <1>3, <1>4, <1>5, <1>6, <1>7, <1>8, <1>9, <1>10, <1>11, <1>12, <1>13, <1>14
     DEF Next

(* Two entries of one owner are equal but for what a word may change. *)
LEMMA SameButForWords ==
  ASSUME NEW e \in Entry, NEW f \in Entry, SameOwner(e, f)
  PROVE  [e EXCEPT !.seen = 0, !.left = FALSE] = [f EXCEPT !.seen = 0, !.left = FALSE]
BY DEF Entry, SameOwner

(* The invariant says all that the checked properties say. *)
LEMMA InvSays ==
  RegInv => SnapshotHoldsRoster /\ SiblingsAgeTogether /\ LeaveSticks /\ TokenIsOnFile
<1> SUFFICES ASSUME RegInv
             PROVE  SnapshotHoldsRoster /\ SiblingsAgeTogether /\ LeaveSticks /\ TokenIsOnFile
  OBVIOUS
<1>1. SnapshotHoldsRoster
  <2> SUFFICES ASSUME up, NEW a \in Alias
               PROVE  /\ Known(a) <=> saved[a] # None
                      /\ Known(a) =>
                           /\ [entries[a] EXCEPT !.seen = 0, !.left = FALSE]
                                = [saved[a] EXCEPT !.seen = 0, !.left = FALSE]
                           /\ saved[a].seen <= entries[a].seen
    BY DEF SnapshotHoldsRoster
  <2>1. /\ Known(a) <=> saved[a] # None
        /\ Known(a) => SameOwner(entries[a], saved[a]) /\ saved[a].seen <= entries[a].seen
    BY DEF RegInv, Covers, Known
  <2>2. Known(a) => entries[a] \in Entry /\ saved[a] \in Entry
    BY <2>1 DEF RegInv, TypeOK, Known
  <2> QED
    BY <2>1, <2>2, SameButForWords
<1>2. SiblingsAgeTogether
  BY DEF SiblingsAgeTogether, RegInv, Rosters, AgesTogether, Known
<1>3. LeaveSticks
  BY DEF LeaveSticks, RegInv, Rosters, LeftIn, Known
<1>4. TokenIsOnFile
  BY DEF TokenIsOnFile, RegInv, Rosters, OnFile, Covers, SameOwner, Known
<1> QED
  BY <1>1, <1>2, <1>3, <1>4

(* The roster, the snapshot and the token files hold values of their types *)
(* in every reachable state.                                               *)
THEOREM RegistryTypes == Spec => []TypeOK
<1>1. RegInv => TypeOK
  BY DEF RegInv
<1> QED
  BY InitRegistry, NextRegistry, <1>1, PTL DEF Spec

(* snapshotRegistry: a running broker's snapshot has its roster's aliases, *)
(* under the same owners and tokens, and no later word than the roster;    *)
(* through prunes and boots that die half-way too.                         *)
THEOREM SnapshotAlwaysHoldsRoster == Spec => []SnapshotHoldsRoster
  BY InitRegistry, NextRegistry, InvSays, PTL DEF Spec

(* touchSiblings and the replay of a boot: the names of one session that   *)
(* have not left were last heard at one time.                              *)
THEOREM SiblingsAlwaysAgeTogether == Spec => []SiblingsAgeTogether
  BY InitRegistry, NextRegistry, InvSays, PTL DEF Spec

(* leave: an alias that left is retired, in the roster and in whatever     *)
(* roster a restart reads, until it registers or beats itself.             *)
THEOREM LeaveAlwaysSticks == Spec => []LeaveSticks
  BY InitRegistry, NextRegistry, InvSays, PTL DEF Spec

(* requireOwner asks for the token that is on file, if the answer that     *)
(* carried it was not lost.                                                *)
THEOREM TokenAlwaysOnFile == Spec => []TokenIsOnFile
  BY InitRegistry, NextRegistry, InvSays, PTL DEF Spec

-----------------------------------------------------------------------------
(* What a registration makes of an alias on record leaves it its owner. *)
LEMMA RegisterStays ==
  ASSUME RegInv, NEW s \in Session, NEW a \in Alias, NEW info \in {"session", "service", "host"},
         Register(s, a, info), NEW b \in Alias
  PROVE  StaysWithOwner(b)
<1> DEFINE sid == IF info = "service" THEN a ELSE s
           token == TokenFor(a)
           e == Bound(s, a, info, token)
           w == [entries EXCEPT ![a] = e]
           t == Touched(w, sid, a)
<1>1. /\ Covers(saved, entries) /\ up /\ now \in 0..MaxClock /\ None \notin Entry
      /\ Fit(entries, now) /\ AgesTogether(entries)
  BY RegistryAssumption DEF RegInv, Rosters, TypeOK, Register
<1>2. entries[a] # None =>
        /\ e.token = entries[a].token
        /\ entries[a].host => e.host /\ e.sid = entries[a].sid
  <2> SUFFICES ASSUME entries[a] # None
               PROVE  /\ e.token = entries[a].token
                      /\ entries[a].host => e.host /\ e.sid = entries[a].sid
    OBVIOUS
  <2>1. entries[a] \in Entry /\ token = entries[a].token
    BY <1>1 DEF Fit, Typed, TokenFor, Known
  <2>2. entries[a].host => entries[a].sid = sid
    BY DEF Register, Known
  <2> QED
    BY <2>1, <2>2 DEF Bound, Entry
<1>3. token \in 1..MaxToken
  <2>1. Known(a) => entries[a] \in Entry
    BY <1>1 DEF Fit, Typed, Known
  <2>2. Known(a) => token \in 1..MaxToken
    BY <2>1 DEF TokenFor, Entry
  <2>3. ~ Known(a) => token \in 1..MaxToken
    BY RegistryAssumption DEF TokenFor, Register, RegInv, TypeOK
  <2> QED
    BY <2>2, <2>3
<1>4. e \in Entry /\ FitsIn(a, e, now) /\ e.seen = now /\ (e.sid = sid \/ e.sid = a)
  BY <1>3, BoundFits
<1>5. Heard(w, t, now) /\ t[a] = e
  BY <1>1, <1>4, SpokenFits
<1>6. \A x \in Alias \ {a} : w[x] = entries[x]
  BY <1>1 DEF Fit, Typed
<1>7. saved' = t
  BY DEF Register
<1> HIDE DEF e, w, t, token
<1>8. CASE b = a
  BY <1>1, <1>2, <1>5, <1>7, <1>8 DEF StaysWithOwner, Covers, SameOwner
<1>9. CASE b # a
  BY <1>1, <1>5, <1>6, <1>7, <1>9 DEF StaysWithOwner, Covers, Heard, SameOwner
<1> QED
  BY <1>8, <1>9

(* A boot that saves its replay saves who was there. *)
LEMMA BootStays ==
  ASSUME RegInv, Boot, NEW b \in Alias
  PROVE  StaysWithOwner(b)
<1>1. Fit(saved, now) /\ AgesTogether(saved) /\ now \in 0..MaxClock /\ intents \in SUBSET Alias
  BY DEF RegInv, Rosters, TypeOK
<1>2. saved' = saved \/ \E before \in SUBSET intents : saved' = Replayed(saved, before)
  BY DEF Boot
<1>3. CASE saved' = saved
  BY <1>3 DEF StaysWithOwner
<1>4. ASSUME NEW before \in SUBSET intents, saved' = Replayed(saved, before)
      PROVE  StaysWithOwner(b)
  <2>1. before \in SUBSET Alias
    BY <1>1
  <2>2. Heard(saved, saved', now)
    BY <1>1, <1>4, <2>1, ReplayedFits
  <2> QED
    BY <2>2 DEF StaysWithOwner, Heard, SameOwner
<1> QED
  BY <1>2, <1>3, <1>4

LEMMA EveryStepKeepsOwners ==
  ASSUME RegInv, [Next]_vars, NEW b \in Alias
  PROVE  StaysWithOwner(b)
<1>1. ASSUME NEW s \in Session, NEW a \in Alias, BootDies(s, a)
      PROVE  StaysWithOwner(b)
  BY <1>1 DEF BootDies, StaysWithOwner, RegInv, TypeOK
<1>2. ASSUME NEW s \in Session, NEW a \in Alias,
             NEW info \in {"session", "service", "host"}, Register(s, a, info)
      PROVE  StaysWithOwner(b)
  BY <1>2, RegisterStays
<1>3. ASSUME UNCHANGED saved
      PROVE  StaysWithOwner(b)
  BY <1>3 DEF StaysWithOwner
<1>4. ASSUME NEW a \in Alias, Leave(a)
      PROVE  StaysWithOwner(b)
  <2>1. saved'[b] # None => /\ entries[b] # None
                            /\ saved'[b].token = entries[b].token /\ saved'[b].sid = entries[b].sid
                            /\ saved'[b].host = entries[b].host
    BY <1>4 DEF Leave, Known, RegInv, TypeOK, Entry
  <2> QED
    BY <1>4, <2>1 DEF StaysWithOwner, RegInv, Covers, SameOwner, Leave
<1>5. ASSUME NEW mail \in SUBSET Alias, Prune(mail)
      PROVE  StaysWithOwner(b)
  BY <1>5 DEF Prune, Dropped, StaysWithOwner, RegInv, Covers, SameOwner
<1>6. CASE Boot
  BY <1>6, BootStays
<1>7. ASSUME NEW a \in Alias, Heartbeat(a) \/ Act(a) \/ Reconcile(a) \/ Spool(a)
      PROVE  UNCHANGED saved
  BY <1>7 DEF Heartbeat, Act, Reconcile, Spool, roster
<1>8. ASSUME NEW s \in Session, WriteToken(s) \/ GiveUp(s)
      PROVE  UNCHANGED saved
  BY <1>8 DEF WriteToken, GiveUp, roster
<1>9. ASSUME \/ \E gone \in SUBSET Alias : PruneDies(gone)
             \/ Crash \/ Tick \/ UNCHANGED vars
      PROVE  UNCHANGED saved
  BY <1>9 DEF PruneDies, Crash, Tick, vars, roster
<1> QED
  BY <1>1, <1>2, <1>3, <1>4, <1>5, <1>6, <1>7, <1>8, <1>9 DEF Next

(* register: over heartbeats, leaves, restarts and replays an alias on     *)
(* record keeps the token its sessions hold, and a host's alias its host.  *)
THEOREM OwnersAreKept == Spec => KeepsOwners
<1>1. RegInv /\ [Next]_vars => [\A a \in Alias : StaysWithOwner(a)]_vars
  BY EveryStepKeepsOwners
<1> QED
  BY InitRegistry, NextRegistry, <1>1, PTL DEF Spec, KeepsOwners
=============================================================================
