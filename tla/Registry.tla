------------------------------ MODULE Registry ------------------------------
(* The roster of aliases: the broker's entries, the snapshot it restarts   *)
(* from, and the token files by which the sessions of one user prove that  *)
(* an alias is theirs.  A session is heard through any alias it holds; an  *)
(* alias that left stays retired until it speaks for itself.               *)
EXTENDS Integers, FiniteSets

CONSTANTS
  Alias, Session,
  None,
  Offline,      \* seconds without a word after which an entry is offline
  Retention,    \* seconds after which an offline entry is pruned
  MaxClock, MaxToken, MaxCrashes    \* bounds

(* A service has a synthetic session id of its own, svc: and its alias.    *)
Sid == Session \union Alias
NoToken == 0
Entry == [sid : Sid, seen : 0..MaxClock, left : BOOLEAN, token : 1..MaxToken,
          succeeded : Sid \union {None}, service : BOOLEAN, host : BOOLEAN]

ASSUME RegistryAssumption ==
  /\ None \notin Alias \union Session \union Entry /\ Alias \intersect Session = {}
  /\ Offline \in Nat /\ Retention \in Nat
  /\ MaxClock \in Nat \ {0} /\ MaxToken \in Nat /\ MaxCrashes \in Nat

VARIABLES
  up,           \* whether a broker runs
  entries,      \* its roster, an entry or None per alias
  saved,        \* the registry_snapshot table
  files,        \* the token file of each alias
  answers,      \* per session, the alias whose registration it awaits
  minted,       \* tokens minted so far
  intents,      \* aliases with a send spooled while the broker was down
  now, crashes,
  retired,      \* history: aliases whose last own word was a leave
  orphaned      \* history: aliases whose token never reached its file

roster == <<entries, saved>>
hist == <<retired, orphaned>>
vars == <<up, entries, saved, files, answers, minted, intents, now, crashes,
          retired, orphaned>>

-----------------------------------------------------------------------------
Known(a) == entries[a] # None
Owns(a) == Known(a) => files[a] = entries[a].token
StatusOffline(e) == e.left \/ now - e.seen > Offline

(* Mutant: a sibling that has aged to offline is left alone.               *)
TouchedIfLive(r, s, a) ==
  [x \in Alias |-> IF x # a /\ r[x] # None /\ r[x].sid = s /\ ~ StatusOffline(r[x])
                     THEN [r[x] EXCEPT !.seen = now] ELSE r[x]]

(* touchSiblings: every other alias of the session that has not left.      *)
Touched(r, s, a) ==
  [x \in Alias |-> IF x # a /\ r[x] # None /\ r[x].sid = s /\ ~ r[x].left
                     THEN [r[x] EXCEPT !.seen = now] ELSE r[x]]

(* What a registration makes of the entry, given the one before it.        *)
Bound(s, a, info, token) ==
  LET prev == entries[a]
      fresh == [sid |-> IF info = "service" THEN a ELSE s, seen |-> now, left |-> FALSE,
                token |-> token, succeeded |-> None,
                service |-> info = "service", host |-> info = "host"]
  IN IF prev = None THEN fresh
     ELSE [fresh EXCEPT
             !.sid = IF prev.service THEN prev.sid ELSE @,
             !.succeeded = IF ~ prev.service /\ prev.sid # fresh.sid THEN prev.sid ELSE prev.succeeded,
             !.service = @ \/ prev.service,
             !.host = @ \/ prev.host]

(* Mutant: a token is minted at every call.                                *)
TokenAnew(a) == minted + 1

TokenFor(a) == IF Known(a) THEN entries[a].token ELSE minted + 1

Register(s, a, info) ==
  LET sid   == IF info = "service" THEN a ELSE s
      token == TokenFor(a)
  IN /\ up /\ answers[s] = None
     /\ Owns(a)
     /\ Known(a) => ~ (entries[a].host /\ entries[a].sid # sid)
     /\ Known(a) \/ minted < MaxToken
     /\ entries' = Touched([entries EXCEPT ![a] = Bound(s, a, info, token)], sid, a)
     /\ saved' = entries'
     /\ minted' = IF token > minted THEN token ELSE minted
     /\ answers' = [answers EXCEPT ![s] = a]
     /\ retired' = retired \ {a}
     /\ orphaned' = IF Known(a) THEN orphaned ELSE orphaned \union {a}
     /\ UNCHANGED <<up, files, intents, now, crashes>>

(* The response arrives and the client writes the token into its file; or  *)
(* it is lost, with the client or with its patience.                       *)
WriteToken(s) ==
  /\ answers[s] # None /\ up /\ Known(answers[s])
  /\ files' = [files EXCEPT ![answers[s]] = entries[answers[s]].token]
  /\ orphaned' = orphaned \ {answers[s]}
  /\ answers' = [answers EXCEPT ![s] = None]
  /\ UNCHANGED <<up, roster, minted, intents, now, crashes, retired>>

GiveUp(s) ==
  /\ answers[s] # None
  /\ answers' = [answers EXCEPT ![s] = None]
  /\ UNCHANGED <<up, roster, files, minted, intents, now, crashes, hist>>

Heartbeat(a) ==
  /\ up /\ Known(a) /\ Owns(a)
  /\ entries' = Touched([entries EXCEPT ![a].seen = now, ![a].left = FALSE], entries[a].sid, a)
  /\ retired' = retired \ {a}
  /\ UNCHANGED <<up, saved, files, answers, minted, intents, now, crashes, orphaned>>

(* Mutant: an act brings a retired alias back.                             *)
ActedAsBack(r, a) ==
  IF r[a] = None THEN r
  ELSE Touched([r EXCEPT ![a].seen = now, ![a].left = FALSE], r[a].sid, a)

(* touchByAct, for a send, a reply or a consent.                           *)
ActedAs(r, a) ==
  IF r[a] = None \/ r[a].left THEN r
  ELSE Touched([r EXCEPT ![a].seen = now], r[a].sid, a)

Act(a) ==
  /\ up /\ Known(a) /\ Owns(a)
  /\ entries' = ActedAs(entries, a)
  /\ UNCHANGED <<up, saved, files, answers, minted, intents, now, crashes, retired, orphaned>>

Leave(a) ==
  /\ up /\ Known(a) /\ Owns(a)
  /\ entries' = [entries EXCEPT ![a].left = TRUE, ![a].seen = 0]
  /\ saved' = entries'
  /\ retired' = retired \union {a}
  /\ UNCHANGED <<up, files, answers, minted, intents, now, crashes, orphaned>>

-----------------------------------------------------------------------------
(* pruneOffline: the token files go entry by entry, the snapshot last.     *)
(* Which aliases have recoverable mail, and are kept for it, is left open. *)
Prunable(a, mail) ==
  /\ Known(a)
  /\ entries[a].service => entries[a].seen = 0
  /\ StatusOffline(entries[a]) /\ entries[a].seen < now - Retention
  /\ a \notin mail /\ a \notin intents

Dropped(r, gone) == [a \in Alias |-> IF a \in gone THEN None ELSE r[a]]
Unlinked(gone) == [a \in Alias |-> IF a \in gone THEN NoToken ELSE files[a]]

(* Mutant: the roster is pruned without a snapshot.                        *)
PruneUnsaved(mail) ==
  LET gone == {a \in Alias : Prunable(a, mail)}
  IN /\ up /\ gone # {}
     /\ entries' = Dropped(entries, gone) /\ files' = Unlinked(gone)
     /\ retired' = retired \ gone /\ orphaned' = orphaned \ gone
     /\ UNCHANGED <<up, saved, answers, minted, intents, now, crashes>>

Prune(mail) ==
  LET gone == {a \in Alias : Prunable(a, mail)}
  IN /\ up /\ gone # {}
     /\ entries' = Dropped(entries, gone) /\ saved' = entries'
     /\ files' = Unlinked(gone)
     /\ retired' = retired \ gone /\ orphaned' = orphaned \ gone
     /\ UNCHANGED <<up, answers, minted, intents, now, crashes>>

Down ==
  /\ crashes < MaxCrashes /\ crashes' = crashes + 1
  /\ up' = FALSE
  /\ entries' = [a \in Alias |-> None]

PruneDies(gone) ==
  /\ up /\ gone # {} /\ \A a \in gone : Prunable(a, {})
  /\ files' = Unlinked(gone)
  /\ orphaned' = orphaned \union gone
  /\ Down
  /\ UNCHANGED <<saved, answers, minted, intents, now, retired>>

Crash ==
  /\ up /\ Down
  /\ UNCHANGED <<saved, files, answers, minted, intents, now, retired, orphaned>>

(* The snapshot decides what the new broker knows.  Then it replays the    *)
(* spooled sends: one by a known alias is an act of that alias, for any    *)
(* other a retired owner is made up and dropped again.                     *)
Replayed(r, senders) ==
  [a \in Alias |->
     IF r[a] # None /\ ~ r[a].left
          /\ \E x \in senders : r[x] # None /\ ~ r[x].left /\ r[x].sid = r[a].sid
       THEN [r[a] EXCEPT !.seen = now] ELSE r[a]]

Boot ==
  /\ ~ up /\ up' = TRUE
  /\ entries' = Replayed(saved, intents)
  /\ \E before \in SUBSET intents :
       saved' = IF \E a \in intents : saved[a] = None THEN Replayed(saved, before) ELSE saved
  /\ \E kept \in SUBSET intents : intents' = kept
  /\ UNCHANGED <<files, answers, minted, now, crashes, retired, orphaned>>

(* It dies between making up the owner and dropping it.                    *)
BootDies(s, a) ==
  LET token == IF files[a] # NoToken THEN files[a] ELSE minted + 1
  IN /\ ~ up /\ crashes < MaxCrashes /\ a \in intents /\ saved[a] = None
     /\ token <= MaxToken
     /\ crashes' = crashes + 1
     /\ saved' = [saved EXCEPT ![a] =
                    [sid |-> s, seen |-> 0, left |-> TRUE, token |-> token,
                     succeeded |-> None, service |-> FALSE, host |-> FALSE]]
     /\ IF token = files[a]
          THEN UNCHANGED <<minted, orphaned>>
          ELSE minted' = token /\ orphaned' = orphaned \union {a}
     /\ retired' = retired \union {a}
     /\ \E kept \in SUBSET intents : a \in kept /\ intents' = kept
     /\ UNCHANGED <<up, entries, files, answers, now>>

Spool(a) ==
  /\ ~ up /\ a \notin intents
  /\ intents' = intents \union {a}
  /\ UNCHANGED <<up, roster, files, answers, minted, now, crashes, hist>>

(* A client's register is followed by a reconcile, which sends what it     *)
(* spooled.                                                                *)
Reconcile(a) ==
  /\ up /\ a \in intents /\ Owns(a)
  /\ entries' = ActedAs(entries, a)
  /\ intents' = intents \ {a}
  /\ UNCHANGED <<up, saved, files, answers, minted, now, crashes, retired, orphaned>>

(* A registration is answered or given up within a tick.                   *)
Tick ==
  /\ now < MaxClock /\ \A s \in Session : answers[s] = None
  /\ now' = now + 1
  /\ UNCHANGED <<up, roster, files, answers, minted, intents, crashes, hist>>

Init ==
  /\ up = FALSE /\ entries = [a \in Alias |-> None] /\ saved = entries
  /\ files = [a \in Alias |-> NoToken] /\ answers = [s \in Session |-> None]
  /\ minted = 0 /\ intents = {} /\ now = 1 /\ crashes = 0
  /\ retired = {} /\ orphaned = {}

Next ==
  \/ \E s \in Session :
       \/ \E a \in Alias : BootDies(s, a)
       \/ \E a \in Alias, info \in {"session", "service", "host"} : Register(s, a, info)
       \/ WriteToken(s) \/ GiveUp(s)
  \/ \E a \in Alias :
       Heartbeat(a) \/ Act(a) \/ Leave(a) \/ Reconcile(a) \/ Spool(a)
  \/ \E mail \in SUBSET Alias : Prune(mail)
  \/ \E gone \in SUBSET Alias : PruneDies(gone)
  \/ Crash \/ Boot \/ Tick

Spec == Init /\ [][Next]_vars

-----------------------------------------------------------------------------
TypeOK ==
  /\ up \in BOOLEAN /\ minted \in 0..MaxToken /\ now \in 1..MaxClock /\ crashes \in 0..MaxCrashes
  /\ entries \in [Alias -> Entry \union {None}]
  /\ saved \in [Alias -> Entry \union {None}]
  /\ files \in [Alias -> 0..MaxToken]
  /\ answers \in [Session -> Alias \union {None}]
  /\ intents \subseteq Alias
  /\ retired \subseteq Alias /\ orphaned \subseteq Alias

(* "snapshots to durable storage on every change so a known alias survives *)
(* a broker restart" (registry.ts:5-6): the snapshot always has the same   *)
(* aliases under the same owners and tokens as the roster.                 *)
SnapshotHoldsRoster ==
  up => \A a \in Alias :
    /\ Known(a) <=> saved[a] # None
    /\ Known(a) =>
         /\ [entries[a] EXCEPT !.seen = 0, !.left = FALSE]
              = [saved[a] EXCEPT !.seen = 0, !.left = FALSE]
         /\ saved[a].seen <= entries[a].seen

(* "A liveness signal through ANY of a session's aliases speaks for all of *)
(* them" (registry.ts:184): two names of one session never age apart.      *)
SiblingsAgeTogether ==
  \A a, b \in Alias :
    Known(a) /\ Known(b) /\ entries[a].sid = entries[b].sid
      /\ ~ entries[a].left /\ ~ entries[b].left
    => entries[a].seen = entries[b].seen

(* "an explicit leave sticks" (registry.ts:192), over siblings' words,     *)
(* acts, replays and restarts, until the alias itself comes back.          *)
LeaveSticks == \A a \in retired : Known(a) => entries[a].left

(* The token the broker asks for is the one in the alias's file, unless    *)
(* the answer that carried it, or the snapshot that dropped it, was lost.  *)
TokenIsOnFile ==
  up => \A a \in Alias : Known(a) /\ a \notin orphaned => files[a] = entries[a].token

(* "A managed alias names one App Server thread owner. Letting its token   *)
(* move to another session" would leave nobody to consume for it           *)
(* (registry.ts:63-65): as long as an alias is on record, over restarts,   *)
(* replays and leaves, its token is the one its sessions hold, and a       *)
(* launcher's alias is that launcher's, whoever presents the token.        *)
StaysWithOwner(a) ==
  saved[a] # None /\ saved'[a] # None =>
    /\ saved'[a].token = saved[a].token
    /\ saved[a].host => saved'[a].host /\ saved'[a].sid = saved[a].sid

KeepsOwners == [][\A a \in Alias : StaysWithOwner(a)]_vars
=============================================================================
