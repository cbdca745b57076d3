------------------------------- MODULE Brokers -------------------------------
(* The broker as a process: a pidfile says who serves, a socket path leads *)
(* to whoever bound it last, and every process that has the store open     *)
(* keeps its own copy of the event counter and writes it back as it is.    *)
(* Process ids are used again, by brokers and by anything else.  Nothing   *)
(* keeps two starts apart, nor a degraded client from a broker that boots: *)
(* two history variables, which no guard reads, record that it happened.   *)
EXTENDS Integers, FiniteSets

CONSTANTS
  Pid, None,
  MaxClock, MaxMint, MaxKills     \* bounds

ASSUME BrokersAssumption ==
  /\ None \notin Pid
  /\ MaxClock \in Nat /\ MaxMint \in Nat /\ MaxKills \in Nat

VARIABLES
  run,        \* what runs under each pid
  pidfile,    \* the pid written there, or None
  socket,     \* who bound the socket path last, or None
  held,       \* each process's copy of the counter
  counter,    \* seq_state: the counter in the store
  top,        \* history: the largest number an address ever got, in address_seq
  now,
  raced,      \* history: two starts were past their look at the pidfile at
              \* one time, and a broker past that look has lived ever since
  shared,     \* history: two processes had the store open at one time, and
              \* none opened it alone since, the clock above every number
  minted, kills

os == <<run, pidfile, socket, raced>>
store == <<counter, top>>
vars == <<run, pidfile, socket, held, counter, top, now, raced, shared, minted, kills>>

Free == "free"
Unwritten == {"checked", "opened", "bound"}     \* past the look, not in the pidfile
Booting == Unwritten \union {"starting"}
Opened == {"opened", "bound", "up"}     \* the broker has the store open
Serving == {"bound", "up"}              \* the listener is there
Writers == Opened \union {"client"}     \* who mints

Larger(x, y) == IF x > y THEN x ELSE y
Alive(p) == p # None /\ run[p] # Free
Answers == socket # None /\ run[socket] \in Serving

Becomes(p, what) ==
  /\ run' = [run EXCEPT ![p] = what]
  /\ raced' = \/ \E q, r \in Pid : q # r /\ run'[q] \in Unwritten /\ run'[r] \in Unwritten
              \/ raced /\ \E q \in Pid : run'[q] \in Unwritten \union {"up"}

(* Its copy of the counter goes with it.                                   *)
Ends(p) == Becomes(p, Free) /\ held' = [held EXCEPT ![p] = 0]

-----------------------------------------------------------------------------
(* main, step by step.                                                     *)

Start(p) ==
  /\ run[p] = Free
  /\ Becomes(p, "starting")
  /\ UNCHANGED <<pidfile, socket, held, store, now, shared, minted, kills>>

(* Mutants: the socket alone is asked; any pidfile is believed.            *)
CheckSocket(p) ==
  /\ run[p] = "starting"
  /\ Becomes(p, IF socket = None THEN "checked" ELSE Free)
  /\ UNCHANGED <<pidfile, socket, held, store, now, shared, minted, kills>>

CheckOwnOnly(p) ==
  /\ run[p] = "starting"
  /\ Becomes(p, "checked")
  /\ UNCHANGED <<pidfile, socket, held, store, now, shared, minted, kills>>

CheckPidfile(p) ==
  /\ run[p] = "starting"
  /\ Becomes(p, IF pidfile # p /\ Alive(pidfile) THEN Free ELSE "checked")
  /\ UNCHANGED <<pidfile, socket, held, store, now, shared, minted, kills>>

(* Mutants: resumed from the store alone; resumed one below.               *)
ResumedFromStore == counter
ResumedBelow == Larger(counter, now) - 1

(* "resume from the persisted counter, floored to the boot clock"          *)
Resumed == Larger(counter, now)

(* A process opens the store.                                              *)
Opens(p) ==
  /\ held' = [held EXCEPT ![p] = Resumed]
  /\ shared' = \/ \E q \in Pid \ {p} : run[q] \in Writers
               \/ shared /\ top > now
  /\ UNCHANGED <<pidfile, socket, store, now, minted, kills>>

OpenStore(p) == run[p] = "checked" /\ Becomes(p, "opened") /\ Opens(p)

(* startBroker: unlink what is at the path, then bind it.                  *)
Bind(p) ==
  /\ run[p] = "opened"
  /\ Becomes(p, "bound") /\ socket' = p
  /\ UNCHANGED <<pidfile, held, store, now, shared, minted, kills>>

WritePidfile(p) ==
  /\ run[p] = "bound"
  /\ Becomes(p, "up") /\ pidfile' = p
  /\ UNCHANGED <<socket, held, store, now, shared, minted, kills>>

(* cleanup, on a signal: whatever pid is written there, the pidfile goes.  *)
(* A path that someone else bound since may go with the listener, or stay. *)
Cleanup(p) ==
  /\ run[p] = "up" /\ kills < MaxKills /\ kills' = kills + 1
  /\ Ends(p)
  /\ socket' \in IF socket = p THEN {None} ELSE {socket, None}
  /\ pidfile' = None
  /\ UNCHANGED <<store, now, shared, minted>>

Kill(p) ==
  /\ run[p] \in Booting \union {"up"} /\ kills < MaxKills /\ kills' = kills + 1
  /\ Ends(p)
  /\ UNCHANGED <<pidfile, socket, store, now, shared, minted>>

(* Other programs come and go; the machine does not run out of pids.       *)
OtherStarts(p) ==
  /\ run[p] = Free /\ \E q \in Pid \ {p} : run[q] = Free
  /\ Becomes(p, "other")
  /\ UNCHANGED <<pidfile, socket, held, store, now, shared, minted, kills>>

OtherEnds(p) ==
  /\ run[p] = "other"
  /\ Becomes(p, Free)
  /\ UNCHANGED <<pidfile, socket, held, store, now, shared, minted, kills>>

-----------------------------------------------------------------------------
(* The counter.  A bump is two statements: the counter, then the number of *)
(* the address.                                                            *)

Bump(n, whole) ==
  /\ minted < MaxMint /\ minted' = minted + 1
  /\ counter' = n
  /\ top' = IF whole THEN Larger(top, n) ELSE top

Mint(p) ==
  /\ run[p] \in Writers
  /\ held' = [held EXCEPT ![p] = @ + 1]
  /\ Bump(held[p] + 1, TRUE)
  /\ UNCHANGED <<os, now, shared, kills>>

MintDies(p) ==
  /\ run[p] \in Writers /\ kills < MaxKills /\ kills' = kills + 1
  /\ Ends(p)
  /\ Bump(held[p] + 1, FALSE)
  /\ UNCHANGED <<pidfile, socket, now, shared>>

(* A client whose request failed, for whatever reason, opens the store for *)
(* one operation, whoever else has it open by then.                        *)
DegradedOpens(p) ==
  /\ run[p] = Free /\ \E q \in Pid \ {p} : run[q] = Free
  /\ Becomes(p, "client") /\ Opens(p)

DegradedEnds(p) ==
  /\ run[p] = "client" /\ Ends(p)
  /\ UNCHANGED <<pidfile, socket, store, now, shared, minted, kills>>

(* The store is replaced by an empty one, when no more events than seconds *)
(* have passed.                                                            *)
StoreLost ==
  /\ \A p \in Pid : run[p] \notin Writers
  /\ counter > 0 /\ top <= now
  /\ counter' = 0
  /\ UNCHANGED <<os, held, top, now, shared, minted, kills>>

Tick ==
  /\ now < MaxClock /\ now' = now + 1
  /\ UNCHANGED <<os, held, store, shared, minted, kills>>

-----------------------------------------------------------------------------
Init ==
  /\ run = [p \in Pid |-> Free] /\ pidfile = None /\ socket = None
  /\ held = [p \in Pid |-> 0]
  /\ counter = 0 /\ top = 0
  /\ now = 0 /\ raced = FALSE /\ shared = FALSE /\ minted = 0 /\ kills = 0

Boots(p) == CheckPidfile(p) \/ OpenStore(p) \/ Bind(p) \/ WritePidfile(p)

Next ==
  \/ \E p \in Pid :
       \/ Start(p) \/ Boots(p) \/ Cleanup(p) \/ Kill(p)
       \/ OtherStarts(p) \/ OtherEnds(p) \/ DegradedOpens(p) \/ DegradedEnds(p)
       \/ Mint(p) \/ MintDies(p)
  \/ StoreLost \/ Tick

Spec == Init /\ [][Next]_vars

(* KeepAlive starts a broker again and again, under whatever pid is free,  *)
(* and what is started, or opens the store for one operation, runs on.     *)
FairSpec ==
  /\ Spec
  /\ SF_vars(\E p \in Pid : Start(p))
  /\ \A p \in Pid : WF_vars(Boots(p)) /\ WF_vars(DegradedEnds(p))

-----------------------------------------------------------------------------
TypeOK ==
  /\ run \in [Pid -> {Free, "other", "client", "up"} \union Booting]
  /\ pidfile \in Pid \union {None} /\ socket \in Pid \union {None}
  /\ held \in [Pid -> Nat] /\ counter \in Nat /\ top \in Nat
  /\ raced \in BOOLEAN /\ shared \in BOOLEAN
  /\ now \in 0..MaxClock /\ minted \in 0..MaxMint /\ kills \in 0..MaxKills

(* "Refuse to start a second broker over a live one -- otherwise [it]      *)
(* would unlink the live socket out from under it" (server.ts:240-241).    *)
(* Whatever pids were used again, whatever was killed at whatever step: at *)
(* most one broker has the store open, and once it listens the socket path *)
(* is its own, unless two starts were past their look at one time.  Once   *)
(* no broker is left it holds again.                                       *)
OneBrokerUnlessRaced ==
  \A p \in Pid : ~ raced /\ run[p] \in Opened =>
    /\ \A q \in Pid \ {p} : run[q] \notin Opened
    /\ run[p] \in Serving => socket = p

(* A process that has the store open gives an event its number.            *)
HandsOut(p) == run[p] \in Writers /\ run'[p] = run[p] /\ held'[p] # held[p]

(* "Cursor never rewinds [...] still mints above every seq handed out"     *)
(* (sqliteBackend.ts:228-229): over restarts, crashes between the two      *)
(* statements of a bump and a lost store, an event's number is above every *)
(* number handed out before.  Only two processes that have the store open  *)
(* at one time set it back, brokers or degraded clients, until the store   *)
(* is opened by one alone with the clock above every number.               *)
RewindsOnlyIfShared ==
  [][\A p \in Pid : HandsOut(p) => held'[p] > top \/ shared]_vars

(* A broker that is killed is replaced, once the pid it left in the        *)
(* pidfile is no longer taken for a broker's (server.ts:243), unless       *)
(* rivals are left: one that is in the pidfile keeps every start out after *)
(* the one that owns the socket was killed.                                *)
BrokerComesBack ==
  /\ <>[](pidfile = None \/ run[pidfile] \notin {"other", "client"})
  /\ <>[](~ raced)
  => []<>Answers

(* The same comment of server.ts, and daemonCtl.ts:6, "A double start is   *)
(* harmless (socket bind fails)": nobody takes the socket of a broker that *)
(* is up.                                                                  *)
LiveSocketStays ==
  [][\A p \in Pid : run[p] = "up" /\ socket = p /\ run'[p] = "up" => socket' = p]_vars

(* The comment of sqliteBackend.ts:228, as it stands.                      *)
CursorNeverRewinds ==
  [][\A p \in Pid : HandsOut(p) => held'[p] > top]_vars
=============================================================================
