---------------------------- MODULE ProjectMail ----------------------------
(***************************************************************************)
(* Asks addressed to a project directory: one shared delivery row, which   *)
(* every session that works in the directory reads, and per-alias marks    *)
(* (claims and passes) that decide who still owes an answer.               *)
(*                                                                         *)
(* Who owes what depends on the registry at the time of the read, so the   *)
(* registry is part of the state: aliases register, leave, fall quiet and  *)
(* are pruned.  A Router handler is synchronous and is one step.  All      *)
(* aliases here work in the directory; an alias always names the same      *)
(* session.  Clocks are left out: a session may fall quiet, an ask may be  *)
(* parked and a row may be retired at any time.                            *)
(***************************************************************************)
EXTENDS Naturals, FiniteSets

CONSTANTS
  Ask,        \* message ids of asks to the project
  Alias,      \* aliases of sessions working in the project
  SessionOf,  \* alias |-> session
  None

Session == {SessionOf[a] : a \in Alias}

ASSUME MailAssumption == None \notin Alias

VARIABLES
  reg,      \* registry: "absent", "here", or "left" (an explicit leave)
  quiet,    \* sessions not heard from within offlineS
  from,     \* messages: the sender, None before the send
  row,      \* deliveries: the one row under the project's address
  status,   \* awaiting
  claim,    \* project_claims
  passed,   \* project_passes
  handed,   \* aliases whose turn a deliver put the ask into
  working   \* aliases told "It's yours" and reachable ever since

registry == <<reg, quiet>>
board    == <<from, row, status, claim, passed>>
vars     == <<registry, board, handed, working>>

Pending == {"queued", "delivered"}

TypeOK ==
  /\ reg \in [Alias -> {"absent", "here", "left"}]
  /\ quiet \subseteq Session
  /\ from \in [Ask -> Alias \union {None}]
  /\ row \in [Ask -> {"none", "queued", "delivered", "consumed"}]
  /\ status \in [Ask -> {"none", "open", "responded", "parked", "cancelled"}]
  /\ claim \in [Ask -> Alias \union {None}]
  /\ passed \in [Ask -> SUBSET Alias]
  /\ handed \in [Ask -> SUBSET Alias]
  /\ working \in [Ask -> SUBSET Alias]

Known(a)      == reg[a] # "absent"
OnBoard(m)    == row[m] \in Pending
Sent(m)       == from[m] # None

(* Registry.statusOf is not "offline"; Router.claimStillHeld. *)
Reachable(a)  == reg[a] = "here" /\ SessionOf[a] \notin quiet
Siblings(a)   == {b \in Alias : Known(b) /\ SessionOf[b] = SessionOf[a]}

(* Router.stillOwedBy. *)
Owes(a, m) ==
  /\ Known(from[m]) => SessionOf[from[m]] # SessionOf[a]
  /\ claim[m] = a \/ a \notin passed[m]
  /\ claim[m] \in {None, a} \/ ~Reachable(claim[m])

(* Registry.touchByAct: an alias that left is not brought back. *)
TouchByAct(a) ==
  /\ quiet' = IF reg[a] = "here" THEN quiet \ {SessionOf[a]} ELSE quiet
  /\ UNCHANGED reg

Init ==
  /\ reg = [a \in Alias |-> "absent"] /\ quiet = {}
  /\ from = [m \in Ask |-> None]
  /\ row = [m \in Ask |-> "none"] /\ status = [m \in Ask |-> "none"]
  /\ claim = [m \in Ask |-> None] /\ passed = [m \in Ask |-> {}]
  /\ handed = [m \in Ask |-> {}] /\ working = [m \in Ask |-> {}]

-----------------------------------------------------------------------------
(* Router handlers.                                                        *)

(* Every alias the sending session has now is recorded as having passed. *)
Send(a, m) ==
  /\ Known(a) /\ ~Sent(m)
  /\ TouchByAct(a)
  /\ from' = [from EXCEPT ![m] = a]
  /\ row' = [row EXCEPT ![m] = "queued"]
  /\ status' = [status EXCEPT ![m] = "open"]
  /\ passed' = [passed EXCEPT ![m] = Siblings(a)]
  /\ UNCHANGED <<claim, handed, working>>

(* deliver: every queued row is claimed, and what the caller still owes is *)
(* handed to it.  The DeliverAgain mutant claims all that is pending.      *)
DeliverAgain(a) ==
  LET got == {m \in Ask : OnBoard(m)} IN
  /\ Known(a) /\ got # {}
  /\ row' = [m \in Ask |-> IF m \in got THEN "delivered" ELSE row[m]]
  /\ handed' = [m \in Ask |-> IF m \in got /\ Owes(a, m) THEN handed[m] \union {a} ELSE handed[m]]
  /\ UNCHANGED <<registry, from, status, claim, passed, working>>

Deliver(a) ==
  LET got == {m \in Ask : row[m] = "queued"} IN
  /\ Known(a) /\ got # {}
  /\ row' = [m \in Ask |-> IF m \in got THEN "delivered" ELSE row[m]]
  /\ handed' = [m \in Ask |-> IF m \in got /\ Owes(a, m) THEN handed[m] \union {a} ELSE handed[m]]
  /\ UNCHANGED <<registry, from, status, claim, passed, working>>

(* A consuming check takes what the caller owes off the board. *)
Consume(a) ==
  LET got == {m \in Ask : OnBoard(m) /\ Owes(a, m)} IN
  /\ Known(a) /\ got # {}
  /\ row' = [m \in Ask |-> IF m \in got THEN "consumed" ELSE row[m]]
  /\ UNCHANGED <<registry, from, status, claim, passed, handed, working>>

(* A stale claim is released, then whoever finds none wins.  touchByAct    *)
(* comes first, so a caller revives a claim held in its own session.  The  *)
(* AcceptOverLive mutant releases any claim of another.                    *)
Stale(holder) == ~(reg'[holder] = "here" /\ SessionOf[holder] \notin quiet')

(* Mutant: the claim is recorded under the session id. *)
TakeBySession(a, m, free) ==
  /\ claim' = IF free THEN [claim EXCEPT ![m] = SessionOf[a]] ELSE claim
  /\ working' = IF free /\ reg[a] = "here" THEN [working EXCEPT ![m] = @ \union {a}] ELSE working
  /\ UNCHANGED <<from, row, status, passed, handed>>

Take(a, m, free) ==
  /\ claim' = IF free THEN [claim EXCEPT ![m] = a] ELSE claim
  /\ working' = IF free /\ reg[a] = "here" THEN [working EXCEPT ![m] = @ \union {a}] ELSE working
  /\ UNCHANGED <<from, row, status, passed, handed>>

AcceptOverLive(a, m) ==
  /\ Known(a) /\ Sent(m)
  /\ TouchByAct(a)
  /\ Take(a, m, claim[m] # a)

Accept(a, m) ==
  /\ Known(a) /\ Sent(m)
  /\ TouchByAct(a)
  /\ Take(a, m, claim[m] = None \/ (claim[m] # a /\ Stale(claim[m])))

(* A decline is a pass.  It leaves a claim of the caller in place. *)
Decline(a, m) ==
  /\ Known(a) /\ Sent(m)
  /\ TouchByAct(a)
  /\ passed' = [passed EXCEPT ![m] = @ \union {a}]
  /\ UNCHANGED <<from, row, status, claim, handed, working>>

(* Any reply takes the ask off the board; a terminal one closes it.  The   *)
(* refusal of a reply to a cancelled ask writes the same row.  A replier   *)
(* need not be registered.  The ReplyOwnCopy mutant settles only a row     *)
(* under the replier's own alias.                                          *)
ReplyOwnCopy(a, m, terminal) ==
  /\ Sent(m)
  /\ TouchByAct(a)
  /\ status' = [status EXCEPT ![m] = IF terminal /\ @ = "open" THEN "responded" ELSE @]
  /\ UNCHANGED <<from, row, claim, passed, handed, working>>

Reply(a, m, terminal) ==
  /\ Sent(m)
  /\ TouchByAct(a)
  /\ status' = [status EXCEPT ![m] = IF terminal /\ @ = "open" THEN "responded" ELSE @]
  /\ row' = [row EXCEPT ![m] = "consumed"]
  /\ UNCHANGED <<from, claim, passed, handed, working>>

Cancel(m) ==
  /\ status[m] = "open"
  /\ status' = [status EXCEPT ![m] = "cancelled"]
  /\ row' = [row EXCEPT ![m] = IF OnBoard(m) THEN "consumed" ELSE @]
  /\ UNCHANGED <<registry, from, claim, passed, handed, working>>

-----------------------------------------------------------------------------
(* The sweeper and the registry.                                           *)

(* A TTL has run out, or the reply-by grace has. *)
Park(m) ==
  /\ status[m] = "open"
  /\ status' = [status EXCEPT ![m] = "parked"]
  /\ UNCHANGED <<registry, from, row, claim, passed, handed, working>>

(* tombstoneStale. *)
Retire(m) ==
  /\ OnBoard(m)
  /\ row' = [row EXCEPT ![m] = "consumed"]
  /\ UNCHANGED <<registry, from, status, claim, passed, handed, working>>

(* register, or a heartbeat of a known alias: either undoes a leave. *)
Appear(a) ==
  /\ reg' = [reg EXCEPT ![a] = "here"]
  /\ quiet' = quiet \ {SessionOf[a]}
  /\ UNCHANGED <<board, handed, working>>

Leave(a) ==
  /\ Known(a)
  /\ reg' = [reg EXCEPT ![a] = "left"]
  /\ working' = [m \in Ask |-> working[m] \ {a}]
  /\ UNCHANGED <<quiet, board, handed>>

FallQuiet(s) ==
  /\ s \notin quiet /\ \E a \in Alias : reg[a] = "here" /\ SessionOf[a] = s
  /\ quiet' = quiet \union {s}
  /\ working' = [m \in Ask |-> {a \in working[m] : SessionOf[a] # s}]
  /\ UNCHANGED <<reg, board, handed>>

(* pruneOffline; when the alias's own mailbox is empty is left open. *)
Prune(a) ==
  /\ Known(a) /\ ~Reachable(a)
  /\ reg' = [reg EXCEPT ![a] = "absent"]
  /\ UNCHANGED <<quiet, board, handed, working>>

Handlers == \E a \in Alias :
  \/ Deliver(a) \/ Consume(a)
  \/ \E m \in Ask :
       \/ Send(a, m) \/ Accept(a, m) \/ Decline(a, m)
       \/ \E terminal \in BOOLEAN : Reply(a, m, terminal)

Roster == \/ \E a \in Alias : Appear(a) \/ Leave(a) \/ Prune(a)
          \/ \E s \in Session : FallQuiet(s)

Next == Handlers \/ Roster \/ \E m \in Ask : Cancel(m) \/ Park(m) \/ Retire(m)

Spec == Init /\ [][Next]_vars

-----------------------------------------------------------------------------
(* PROPERTIES                                                              *)

(* A session that was told "It's yours" and has stayed reachable still     *)
(* holds the claim, so no second session is told the same meanwhile,       *)
(* whatever claims were released, revived or raced for in between.         *)
OneWorker == \A m \in Ask : working[m] \subseteq {claim[m]}

(* An ask that was answered or withdrawn is on nobody's board any more     *)
(* ("consume that too, or every other member keeps seeing an               *)
(* already-answered ask as pending").                                      *)
SettledLeavesBoard ==
  \A m \in Ask : status[m] \in {"responded", "cancelled"} => ~OnBoard(m)

(* Hooks put an ask into one session's turn only, however the members'     *)
(* deliveries interleave.                                                  *)
InjectedOnce == \A m \in Ask : Cardinality(handed[m]) <= 1

(* "the sender does not receive, owe, or get chased for its own project    *)
(* ask": no alias of the sending session has it put into its turn.         *)
SenderIsNotAsked ==
  \A m \in Ask : \A a \in handed[m] : SessionOf[a] # SessionOf[from[m]]
=============================================================================
