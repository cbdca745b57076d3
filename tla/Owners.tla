------------------------------- MODULE Owners -------------------------------
(* Which launcher delivers into which Codex thread, and under which alias: *)
(* the owners table that all launchers of a user share.  Acquiring a row   *)
(* is one transaction; whether an earlier owner still lives is told by its *)
(* process id, which any program may have by now.                          *)
EXTENDS FiniteSets, Naturals

CONSTANTS
  Pid, Thread, Alias,
  Uuid,       \* owner ids; one that nothing refers to any more is as good as new
  Derived,    \* the alias made of a thread's id
  None

Row == [pid : Pid, id : Uuid, alias : Alias, active : BOOLEAN]

ASSUME OwnersAssumption ==
  /\ IsFiniteSet(Pid) /\ IsFiniteSet(Thread)
  /\ Cardinality(Uuid) > Cardinality(Pid) + Cardinality(Thread)
  /\ Derived \in [Thread -> Alias]
  /\ None \notin Pid \union Thread \union Alias \union Uuid \union Row

VARIABLES
  owners,     \* the table: a row or None per thread
  at,         \* what runs under each pid
  thread, name, lease,    \* a launcher's thread, alias and owner id
  pending     \* the thread its TUI has moved to

launchers == <<at, thread, name, lease, pending>>
vars == <<owners, at, thread, name, lease, pending>>

Free == "free"
Hosts(p) == at[p] \in {"hosting", "stopping"}

-----------------------------------------------------------------------------
(* acquireOwner.  The caller p lives.                                      *)

Has(t) == owners[t] # None
Holds(t) == Has(t) /\ owners[t].active
Alive(p, q) == q = p \/ at[q] # Free

(* Mutant: a thread without a row has no alias of its own.                 *)
NameOnRow(t, requested) == IF requested # None \/ ~ Has(t) THEN requested ELSE owners[t].alias

NameFor(t, requested) ==
  IF requested # None THEN requested ELSE IF Has(t) THEN owners[t].alias ELSE Derived[t]

Rivals(t, a) == {u \in Thread \ {t} : Holds(u) /\ owners[u].alias = a}

(* Mutants: the thread alone is looked at; no exception for the lease that *)
(* is about to be replaced.                                                *)
RefusedForThread(p, t, a, replacing) == Holds(t) /\ Alive(p, owners[t].pid)
RefusedAlways(p, t, a, replacing) ==
  \/ Holds(t) /\ Alive(p, owners[t].pid)
  \/ \E u \in Rivals(t, a) : Alive(p, owners[u].pid)

Refused(p, t, a, replacing) ==
  \/ Holds(t) /\ Alive(p, owners[t].pid)
  \/ \E u \in Rivals(t, a) : Alive(p, owners[u].pid) /\ owners[u].id # replacing

Owned(p, t, a, id) ==
  [u \in Thread |-> IF u = t THEN [pid |-> p, id |-> id, alias |-> a, active |-> TRUE]
                    ELSE IF u \in Rivals(t, a) THEN [owners[u] EXCEPT !.active = FALSE]
                    ELSE owners[u]]

InUse == {owners[t].id : t \in {u \in Thread : Has(u)}} \union {lease[p] : p \in Pid}
NewId == CHOOSE id \in Uuid : id \notin InUse

(* release: only the row that still bears the owner's id.                  *)
Released(t, id) ==
  [u \in Thread |-> IF u = t /\ Has(u) /\ owners[u].id = id
                      THEN [owners[u] EXCEPT !.active = FALSE] ELSE owners[u]]

-----------------------------------------------------------------------------
Becomes(p, state, t, a, id) ==
  /\ at' = [at EXCEPT ![p] = state]
  /\ thread' = [thread EXCEPT ![p] = t] /\ name' = [name EXCEPT ![p] = a]
  /\ lease' = [lease EXCEPT ![p] = id]
  /\ pending' = [pending EXCEPT ![p] = None]

Ends(p) == Becomes(p, Free, None, None, None)

(* With --thread the row comes first, and without it there is no launch.   *)
Launch(p, t, requested) ==
  LET a == NameFor(t, requested)
  IN /\ at[p] = Free /\ ~ Refused(p, t, a, None)
     /\ owners' = Owned(p, t, a, NewId)
     /\ Becomes(p, "hosting", t, a, NewId)

(* Without it the App Server and the TUI run, under the alias, before the  *)
(* TUI has announced a thread of its own making.                           *)
LaunchBare(p, a) ==
  /\ at[p] = Free
  /\ Becomes(p, "waiting", None, a, None)
  /\ UNCHANGED owners

Announce(p, t) ==
  /\ at[p] = "waiting" /\ ~ Has(t)
  /\ IF Refused(p, t, name[p], None)
       THEN Ends(p) /\ UNCHANGED owners
       ELSE /\ owners' = Owned(p, t, name[p], NewId)
            /\ Becomes(p, "hosting", t, name[p], NewId)

(* The user moves to another thread, and back perhaps.                     *)
Notice(p, t) ==
  /\ at[p] = "hosting" /\ t # thread[p]
  /\ pending' = [pending EXCEPT ![p] = t]
  /\ UNCHANGED <<owners, at, thread, name, lease>>

(* The loop acquires the new row, switches and releases the old one in one *)
(* go.  A stop may have come while it awaited its connection.  A refusal   *)
(* is tried again.                                                         *)
Follow(p) ==
  /\ Hosts(p) /\ pending[p] # None
  /\ ~ Refused(p, pending[p], name[p], lease[p])
  /\ owners' = Owned(p, pending[p], name[p], NewId)
  /\ thread' = [thread EXCEPT ![p] = pending[p]]
  /\ lease' = [lease EXCEPT ![p] = NewId]
  /\ pending' = [pending EXCEPT ![p] = None]
  /\ UNCHANGED <<at, name>>

Stop(p) ==
  /\ at[p] \in {"waiting", "hosting"}
  /\ at' = [at EXCEPT ![p] = "stopping"]
  /\ UNCHANGED <<owners, thread, name, lease, pending>>

(* The App Server has ended.  The launcher lives on until its alias has    *)
(* left the registry, and to the table is like any other program.          *)
Release(p) ==
  /\ at[p] = "stopping"
  /\ owners' = IF lease[p] = None THEN owners ELSE Released(thread[p], lease[p])
  /\ Becomes(p, "other", None, None, None)

Crash(p) ==
  /\ at[p] \in {"waiting", "hosting", "stopping"}
  /\ Ends(p) /\ UNCHANGED owners

OtherStarts(p) == at[p] = Free /\ Becomes(p, "other", None, None, None) /\ UNCHANGED owners
OtherEnds(p) == at[p] = "other" /\ Ends(p) /\ UNCHANGED owners

-----------------------------------------------------------------------------
Init ==
  /\ owners = [t \in Thread |-> None]
  /\ at = [p \in Pid |-> Free]
  /\ thread = [p \in Pid |-> None] /\ name = [p \in Pid |-> None]
  /\ lease = [p \in Pid |-> None] /\ pending = [p \in Pid |-> None]

Next ==
  \E p \in Pid :
    \/ Follow(p) \/ Stop(p) \/ Release(p) \/ Crash(p)
    \/ OtherStarts(p) \/ OtherEnds(p)
    \/ \E a \in Alias : LaunchBare(p, a)
    \/ \E t \in Thread :
         \/ Announce(p, t) \/ Notice(p, t)
         \/ \E requested \in Alias \union {None} : Launch(p, t, requested)

Spec == Init /\ [][Next]_vars

(* The loop comes round every second.                                      *)
FairSpec == Spec /\ \A p \in Pid : WF_vars(Follow(p))

-----------------------------------------------------------------------------
TypeOK ==
  /\ owners \in [Thread -> Row \union {None}]
  /\ at \in [Pid -> {Free, "other", "waiting", "hosting", "stopping"}]
  /\ thread \in [Pid -> Thread \union {None}] /\ pending \in [Pid -> Thread \union {None}]
  /\ name \in [Pid -> Alias \union {None}] /\ lease \in [Pid -> Uuid \union {None}]

(* "One host process owns delivery for one Codex thread [...] and an old   *)
(* owner's release cannot delete its successor's row" (07-codex-host.md,   *)
(* Ownership): no two launchers deliver into one thread or under one       *)
(* alias, and whoever delivers has its own active row, over crashes,       *)
(* reused pids, switches of thread and late releases.                      *)
Delivers(p) == Hosts(p) /\ lease[p] # None

OneHost ==
  \A p \in Pid : Delivers(p) =>
    /\ owners[thread[p]] = [pid |-> p, id |-> lease[p], alias |-> name[p], active |-> TRUE]
    /\ \A q \in Pid \ {p} : Delivers(q) => thread[q] # thread[p] /\ name[q] # name[p]

(* "Keep the candidate pending [...] until it can be followed"             *)
(* (main.ts:341-342): a launcher whose user has moved to another thread    *)
(* does not wait there for good, unless others keep delivering into that   *)
(* thread, or some program keeps the pid of an owner that crashed.         *)
Squatted ==
  \E t \in Thread : Holds(t) /\
    LET q == owners[t].pid IN at[q] # Free /\ ~ (Delivers(q) /\ lease[q] = owners[t].id)

Waits(p, t) == at[p] = "hosting" /\ pending[p] = t
Elsewhere(p, t) == \E q \in Pid \ {p} : Delivers(q) /\ thread[q] = t

FollowsInTheEnd ==
  <>[]~Squatted =>
    \A p \in Pid, t \in Thread : <>[]Waits(p, t) => []<>Elsewhere(p, t)
=============================================================================
