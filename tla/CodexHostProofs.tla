-------------------------- MODULE CodexHostProofs --------------------------
(***************************************************************************)
(* CodexHost for every set of messages and threads and any number of       *)
(* mishaps and moves: only saved mail is acknowledged, and no mail is      *)
(* written twice into a thread.                                            *)
(*                                                                         *)
(* The last part proves of Owners that no other launcher delivers into the *)
(* thread meanwhile.                                                       *)
(***************************************************************************)
EXTENDS CodexHost, FiniteSetTheorems, SequenceTheorems, TLAPS

(* No delivery of this host is under way in the thread.                    *)
Quiet(t)  == turn[t] = None \/ turn[t] = {}
Virgin(t) == SavedIn(t) = {} /\ Quiet(t)

(* What the host believes of its thread's history is true, and complete    *)
(* whenever it counts as loaded, except while a delivery is awaited.       *)
Belief ==
  /\ cache \subseteq SavedIn(thread)
  /\ loaded /\ pc # "waiting" => SavedIn(thread) \subseteq cache /\ Quiet(thread)
  /\ pc \in {"polled", "leased"} => Quiet(thread)
  /\ pc \in {"starting", "waiting", "saved"} => loaded
  /\ pc = "waiting" => Quiet(thread) \/ turn[thread] = batch \ cache
  /\ pc = "waiting" => SavedIn(thread) \subseteq cache \union batch
  /\ pc = "saved" => batch \subseteq cache
  /\ pc = "off" => pending = None /\ news = <<>> /\ cache = {} /\ ~loaded

(* What a turn has yet to write is not in the history yet. *)
Unwritten ==
  /\ OncePerThread
  /\ \A t \in Thread : Busy(t) => turn[t] \intersect SavedIn(t) = {}

(* A thread that is announced as new has been delivered to by nobody, is   *)
(* announced so once, and before anything else is announced of it.         *)
Unheard(t) ==
  /\ thread # t
  /\ pending # None => pending.id # t
  /\ \A i \in 1..Len(news) : news[i].id # t

FreshIsEmpty ==
  /\ \A t \in TopLevel \ known : Virgin(t) /\ Unheard(t)
  /\ pending # None /\ pending.fresh => pending.id # thread /\ Virgin(pending.id)
  /\ \A i \in 1..Len(news) : news[i].fresh =>
       /\ news[i].id # thread /\ Virgin(news[i].id)
       /\ pending # None => pending.id # news[i].id
       /\ \A j \in 1..(i - 1) : news[j].id # news[i].id

HostInv == TypeOK /\ Belief /\ Unwritten /\ FreshIsEmpty

(* A session starts with an empty thread and nothing announced. *)
LEMMA InitHost == Init => HostInv
BY HostAssumption DEF Init, HostInv, TypeOK, Belief, Unwritten, FreshIsEmpty, OncePerThread,
   SavedIn, Quiet, Virgin, Busy, Unheard

(* What is announced comes last, if it comes at all.                       *)
LEMMA NewsGrows ==
  ASSUME TypeOK, NEW n \in Candidate, Announce(n)
  PROVE  /\ news' \in Seq(Candidate)
         /\ \A i \in 1..Len(news) : news'[i] = news[i]
         /\ \/ Len(news') = Len(news)
            \/ Len(news') = Len(news) + 1 /\ news'[Len(news) + 1] = n
<1>1. news \in Seq(Candidate) /\ Len(news) \in Nat
  BY LenProperties DEF TypeOK
<1>2. CASE linked
  <2>1. news' = Append(news, n)
    BY <1>2 DEF Announce
  <2> QED
    BY <1>1, <2>1, AppendProperties
<1>3. CASE ~linked
  <2>1. news' = news
    BY <1>3, Zenon DEF Announce
  <2> QED
    BY <1>1, <2>1, Zenon
<1> QED
  BY <1>2, <1>3

(* What is heard is the first of what was announced.                       *)
LEMMA NewsShrinks ==
  ASSUME TypeOK, news # <<>>
  PROVE  /\ Len(news) \in Nat /\ Len(news) > 0
         /\ Head(news) = news[1] /\ Head(news) \in Candidate
         /\ Tail(news) \in Seq(Candidate) /\ Len(Tail(news)) = Len(news) - 1
         /\ \A i \in 1..Len(Tail(news)) : Tail(news)[i] = news[i + 1]
<1>1. news \in Seq(Candidate) /\ Len(news) \in Nat
  BY LenProperties DEF TypeOK
<1> QED
  BY <1>1, HeadTailProperties, EmptySeq

(* Every step keeps the types. *)
LEMMA TypesKept == TypeOK /\ [Next]_vars => TypeOK'
<1> SUFFICES ASSUME TypeOK, [Next]_vars PROVE TypeOK'
  OBVIOUS
<1>0. Unlink => news' \in Seq(Candidate) /\ linked' = FALSE /\ tui' = tui /\ known' = known
  BY EmptySeq, Zenon DEF Unlink
<1> USE <1>0, HostAssumption, CandidateAssumption
    DEF TypeOK, screen, ears, memory, rows, server, bounds, Misses, Moves, Quit, LetGo, Forget
<1>1. ASSUME NEW t \in Thread, StartThread(t) PROVE TypeOK'
  <2>1. Started(t) \in Candidate
    BY DEF Started, Candidate
  <2>2. news' \in Seq(Candidate)
    BY <1>1, <2>1, NewsGrows DEF StartThread
  <2> QED
    BY <1>1, <2>2 DEF StartThread
<1>2. ASSUME NEW t \in Thread, ResumeThread(t) \/ SubagentGoal(t) PROVE TypeOK'
  <2>1. GoalEvent(t) \in Candidate
    BY DEF GoalEvent, Candidate
  <2>2. news' \in Seq(Candidate)
    BY <1>2, <2>1, NewsGrows DEF ResumeThread, SubagentGoal
  <2> QED
    BY <1>2, <2>2 DEF ResumeThread, SubagentGoal
<1>3. CASE UserTurn
  BY <1>3 DEF UserTurn
<1>4. CASE Hear
  <2>1. Head(news) \in Candidate /\ Tail(news) \in Seq(Candidate)
    BY <1>4, NewsShrinks DEF Hear
  <2> QED
    BY <1>4, <2>1 DEF Hear
<1>5. CASE Reconnect \/ Verify \/ Drop
  BY <1>5 DEF Reconnect, Verify, Drop, Candidate
<1>6. CASE Follow
  BY <1>6 DEF Follow, Switch, Candidate
<1>7. CASE Poll \/ TuiLeft
  BY <1>7 DEF Poll, TuiLeft
<1>8. CASE Lease
  BY <1>8 DEF Lease
<1>9. CASE Recall
  BY <1>9 DEF Recall, SavedIn
<1>10. CASE Land
  BY <1>10 DEF Land
<1>11. CASE SeeSaved
  BY <1>11 DEF SeeSaved, SavedIn
<1>12. CASE GiveUp
  <2>1. /\ news' \in Seq(Candidate) /\ linked' \in BOOLEAN /\ tui' = tui /\ known' = known
        /\ mishaps' \in 0..MaxMishaps /\ moves' = moves
    <3>1. CASE UNCHANGED <<screen, linked>>
      BY <1>12, <3>1 DEF GiveUp, Fails
    <3>2. CASE Unlink
      <4>1. news' \in Seq(Candidate) /\ linked' \in BOOLEAN /\ tui' = tui /\ known' = known
        BY <1>0, <3>2, Zenon
      <4>2. UNCHANGED <<mishaps, moves>> \/ Misses
        BY <1>12, Zenon DEF GiveUp, Fails
      <4>3. mishaps' \in 0..MaxMishaps /\ moves' = moves
        BY <4>2
      <4> QED
        BY <4>1, <4>3
    <3> QED
      BY <1>12, <3>1, <3>2, Zenon DEF GiveUp, Fails
  <2>2. /\ lease' \in [Mail -> {"free", "held", "stale"}] /\ row' = row
        /\ pc' = "loop" /\ asked' = None /\ batch' = {} /\ loaded' = FALSE /\ cache' = {}
        /\ thread' = thread /\ pending' = pending /\ turn' = turn /\ saved' = saved
    BY <1>12 DEF GiveUp
  <2> QED
    BY <2>1, <2>2
<1>13. CASE Acknowledge
  BY <1>13 DEF Acknowledge, Ack
<1>14. CASE RecallFails
  <2>1. UNCHANGED <<tui, known, news, linked>> \/ Unlink
    BY <1>14, Zenon DEF RecallFails
  <2>2. news' \in Seq(Candidate) /\ linked' \in BOOLEAN /\ tui' = tui /\ known' = known
    BY <1>0, <2>1, Zenon
  <2>3. UNCHANGED <<mishaps, moves>> \/ Misses
    BY <1>14, Zenon DEF RecallFails
  <2>4. mishaps' \in 0..MaxMishaps /\ moves' = moves
    BY <2>3
  <2>5. /\ lease' \in [Mail -> {"free", "held", "stale"}] /\ row' = row
        /\ pc' = "loop" /\ asked' = None /\ batch' = {} /\ UNCHANGED <<loaded, cache>>
        /\ thread' = thread /\ pending' = pending /\ turn' = turn /\ saved' = saved
    BY <1>14 DEF RecallFails
  <2> QED
    BY <2>2, <2>4, <2>5
<1>15. ASSUME NEW t \in Thread, Save(t) PROVE TypeOK'
  BY <1>15 DEF Save
<1>16. ASSUME NEW t \in Thread, EndTurn(t) PROVE TypeOK'
  BY <1>16 DEF EndTurn
<1>17. ASSUME NEW m \in Mail, SettledElsewhere(m) \/ Expire(m) PROVE TypeOK'
  BY <1>17 DEF SettledElsewhere, Expire
<1>18. CASE LoseLink
  <2>1. news' \in Seq(Candidate) /\ linked' \in BOOLEAN /\ tui' = tui /\ known' = known
    BY <1>0, <1>18, Zenon DEF LoseLink
  <2> QED
    BY <1>18, <2>1 DEF LoseLink
<1>21. CASE Crash
  <2>1. news' \in Seq(Candidate) /\ linked' \in BOOLEAN /\ tui' = tui /\ known' = known
    BY <1>0, <1>21, Zenon DEF Crash
  <2>2. turn' \in [Thread -> (SUBSET Mail) \union {None}] /\ saved' = saved /\ row' = row
    BY <1>21 DEF Crash
  <2>3. lease' \in [Mail -> {"free", "held", "stale"}] /\ thread' = thread
    BY <1>21 DEF Crash
  <2>4. mishaps' \in 0..MaxMishaps /\ moves' = moves
    BY <1>21 DEF Crash
  <2>5. /\ pc' = "off" /\ pending' = None /\ asked' = None /\ batch' = {}
        /\ loaded' = FALSE /\ cache' = {}
    BY <1>21 DEF Crash
  <2> QED
    BY <2>1, <2>2, <2>3, <2>4, <2>5
<1>19. ASSUME NEW t \in Thread, Launch(t) PROVE TypeOK'
  BY <1>19 DEF Launch
<1>20. CASE UNCHANGED vars
  BY <1>20 DEF vars
<1> QED
  BY <1>1, <1>2, <1>3, <1>4, <1>5, <1>6, <1>7, <1>8, <1>9, <1>10, <1>11, <1>12, <1>13, <1>14,
     <1>15, <1>16, <1>17, <1>18, <1>19, <1>20, <1>21 DEF Next, User, Launcher, Pump, AppServer

(* What no step of the App Server or of Land touches is what it was.       *)
LEMMA Untouched ==
  ASSUME UNCHANGED server, NEW t
  PROVE  /\ SavedIn(t)' = SavedIn(t) /\ Quiet(t)' = Quiet(t) /\ Busy(t)' = Busy(t)
         /\ Virgin(t)' = Virgin(t)
BY DEF server, SavedIn, Quiet, Busy, Virgin

(* Every step keeps the host's belief: a turn writes mail only where the   *)
(* host awaits it, a fresh thread is empty, and a failed delivery makes    *)
(* the host forget.                                                        *)
LEMMA BeliefKept == HostInv /\ [Next]_vars => Belief'
<1> SUFFICES ASSUME HostInv, [Next]_vars PROVE Belief'
  OBVIOUS
<1>0. Unlink => news' = <<>> /\ linked' = FALSE
  BY Zenon DEF Unlink
<1> USE <1>0, HostAssumption, CandidateAssumption
    DEF HostInv, Belief, screen, ears, memory, rows, server
<1>2. ASSUME NEW t \in Thread, StartThread(t) \/ ResumeThread(t) \/ SubagentGoal(t) PROVE Belief'
  BY <1>2, Untouched DEF StartThread, ResumeThread, SubagentGoal
<1>3. CASE UserTurn
  <2>1. tui \in Thread
    BY DEF TypeOK
  <2>2. \A t : SavedIn(t)' = SavedIn(t)
    BY <1>3 DEF UserTurn, SavedIn
  <2>3. turn'[thread] = turn[thread] \/ turn'[thread] = {}
    BY <1>3, <2>1 DEF UserTurn, TypeOK
  <2> QED
    BY <1>3, <2>2, <2>3 DEF UserTurn, Quiet
<1>4. CASE Hear \/ Reconnect \/ Verify \/ Drop
  BY <1>4, Untouched DEF Hear, Reconnect, Verify, Drop
<1>6. CASE Follow
  <2>1. CASE pending.id \in Foreign
    BY <1>6, <2>1, Untouched DEF Follow
  <2>2. CASE pending.id \notin Foreign
    <3>1. pending.fresh => Virgin(pending.id)
      BY <1>6 DEF Follow, FreshIsEmpty
    <3>2. thread' = pending.id /\ loaded' = pending.fresh /\ cache' = {} /\ pc' = "loop"
      BY <1>6, <2>2 DEF Follow, Switch
    <3>3. UNCHANGED server
      BY <1>6 DEF Follow
    <3> QED
      BY <3>1, <3>2, <3>3 DEF Virgin, SavedIn, Quiet, server
  <2> QED
    BY <2>1, <2>2
<1>7. CASE Poll
  BY <1>7, Untouched DEF Poll, Busy, Quiet
<1>8. CASE TuiLeft
  BY <1>8, Untouched DEF TuiLeft, Quit, Forget
<1>9. CASE Lease
  BY <1>9, Untouched DEF Lease
<1>10. CASE Recall
  BY <1>10, Untouched DEF Recall
<1>11. CASE Land
  <2>1. thread \in Thread /\ turn \in [Thread -> (SUBSET Mail) \union {None}]
    BY DEF TypeOK
  <2>2. turn'[thread] = batch \ cache
    BY <1>11, <2>1 DEF Land
  <2>3. SavedIn(thread)' = SavedIn(thread)
    BY <1>11 DEF Land, SavedIn
  <2> QED
    BY <1>11, <2>2, <2>3 DEF Land
<1>12. CASE SeeSaved
  <2>1. Quiet(thread)
    BY <1>12 DEF SeeSaved, Unwritten, Quiet, Busy, TypeOK
  <2> QED
    BY <1>12, <2>1, Untouched DEF SeeSaved
<1>13. CASE GiveUp
  BY <1>13, Untouched DEF GiveUp, Quit, Forget
<1>14. CASE Acknowledge
  BY <1>14, Untouched DEF Acknowledge, Ack
<1>15. CASE RecallFails
  BY <1>15, Untouched DEF RecallFails, Quit
<1>16. ASSUME NEW t \in Thread, Save(t) PROVE Belief'
  <2>1. ~Quiet(t) /\ turn'[t] = {}
    BY <1>16 DEF Save, Busy, Quiet, TypeOK
  <2>2. SavedIn(t)' = SavedIn(t) \union turn[t]
    BY <1>16 DEF Save, Busy, SavedIn, TypeOK
  <2>3. CASE t = thread
    <3>1. loaded => pc = "waiting" /\ turn[t] = batch \ cache
      BY <2>1, <2>3
    <3>2. pc \notin {"polled", "leased"}
      BY <2>1, <2>3
    <3> QED
      BY <1>16, <2>1, <2>2, <2>3, <3>1, <3>2 DEF Save, Quiet
  <2>4. CASE t # thread
    <3>1. turn'[thread] = turn[thread]
      BY <1>16, <2>4 DEF Save, TypeOK
    <3>2. SavedIn(thread)' = SavedIn(thread)
      BY <1>16, <2>4 DEF Save, SavedIn, TypeOK
    <3> QED
      BY <1>16, <3>1, <3>2 DEF Save, Quiet
  <2> QED
    BY <2>3, <2>4
<1>17. ASSUME NEW t \in Thread, EndTurn(t) PROVE Belief'
  <2>1. \A u : SavedIn(u)' = SavedIn(u)
    BY <1>17 DEF EndTurn, SavedIn
  <2>2. turn'[thread] = turn[thread] \/ turn'[thread] = None
    BY <1>17 DEF EndTurn, TypeOK
  <2> QED
    BY <1>17, <2>1, <2>2 DEF EndTurn, Quiet
<1>18. ASSUME NEW m \in Mail, SettledElsewhere(m) \/ Expire(m) PROVE Belief'
  BY <1>18, Untouched DEF SettledElsewhere, Expire
<1>19. CASE LoseLink
  BY <1>19, Untouched DEF LoseLink
<1>20. CASE Crash
  <2>1. \A u : SavedIn(u)' = SavedIn(u)
    BY <1>20 DEF Crash, SavedIn
  <2> QED
    BY <1>20, <2>1 DEF Crash, Forget
<1>21. ASSUME NEW t \in Thread, Launch(t) PROVE Belief'
  <2>1. t \notin known => Virgin(t)
    BY <1>21 DEF Launch, FreshIsEmpty
  <2>2. UNCHANGED server /\ thread' = t /\ loaded' = (t \notin known) /\ cache' = {} /\ pc' = "loop"
    BY <1>21 DEF Launch
  <2> QED
    BY <2>1, <2>2, Untouched DEF Virgin
<1>22. CASE UNCHANGED vars
  BY <1>22, Untouched DEF vars
<1> QED
  BY <1>2, <1>3, <1>4, <1>6, <1>7, <1>8, <1>9, <1>10, <1>11, <1>12, <1>13, <1>14,
     <1>15, <1>16, <1>17, <1>18, <1>19, <1>20, <1>21, <1>22
     DEF Next, User, Launcher, Pump, AppServer

(* Every step keeps mail from being written where it is already: a turn is *)
(* started with what the host, who knows the whole history, misses in it.  *)
LEMMA UnwrittenKept == HostInv /\ [Next]_vars => Unwritten'
<1> SUFFICES ASSUME HostInv, [Next]_vars PROVE Unwritten'
  OBVIOUS
<1> USE DEF HostInv, Unwritten, OncePerThread, server
<1>1. ASSUME UNCHANGED server PROVE Unwritten'
  BY <1>1, Untouched
<1>2. ASSUME UNCHANGED saved,
             \A t \in Thread : turn'[t] = turn[t] \/ turn'[t] = {} \/ turn'[t] = None
      PROVE  Unwritten'
  BY <1>2 DEF SavedIn, Busy
<1>3. CASE UserTurn
  BY <1>2, <1>3 DEF UserTurn, TypeOK
<1>4. ASSUME NEW t \in Thread, EndTurn(t) PROVE Unwritten'
  BY <1>2, <1>4 DEF EndTurn, TypeOK
<1>5. CASE Crash
  BY <1>2, <1>5 DEF Crash
<1>6. CASE Land
  <2>1. SavedIn(thread) \subseteq cache
    BY <1>6 DEF Land, Belief
  <2>2. \A t \in Thread : turn'[t] = IF t = thread THEN batch \ cache ELSE turn[t]
    BY <1>6 DEF Land, TypeOK
  <2>3. \A t : SavedIn(t)' = SavedIn(t) /\ UNCHANGED saved
    BY <1>6 DEF Land, SavedIn
  <2> QED
    BY <2>1, <2>2, <2>3 DEF Busy
<1>7. ASSUME NEW t \in Thread, Save(t) PROVE Unwritten'
  <2>1. turn[t] \subseteq Mail
    BY <1>7 DEF Save, Busy, TypeOK
  <2>2. \A m \in turn[t] : saved[t][m] = 0
    BY <1>7, <2>1 DEF Save, SavedIn, TypeOK
  <2>3. \A m \in Mail : saved'[t][m] = IF m \in turn[t] THEN 1 ELSE saved[t][m]
    BY <1>7, <2>1, <2>2 DEF Save, TypeOK
  <2>4. \A u \in Thread : u # t => saved'[u] = saved[u] /\ turn'[u] = turn[u]
    BY <1>7 DEF Save, TypeOK
  <2>5. turn'[t] = {}
    BY <1>7 DEF Save, TypeOK
  <2>6. OncePerThread'
    BY <2>3, <2>4
  <2>7. \A u \in Thread : u # t => SavedIn(u)' = SavedIn(u)
    BY <2>4 DEF SavedIn
  <2> QED
    BY <2>4, <2>5, <2>6, <2>7 DEF Busy
<1>8. ASSUME User PROVE Unwritten'
  BY <1>1, <1>3, <1>8 DEF User, StartThread, ResumeThread, SubagentGoal
<1>9. ASSUME Launcher PROVE Unwritten'
  BY <1>1, <1>9 DEF Launcher, Hear, Reconnect, Verify, Drop, Follow
<1>10. ASSUME Pump PROVE Unwritten'
  BY <1>1, <1>6, <1>10 DEF Pump, Poll, TuiLeft, Lease, Recall, SeeSaved, GiveUp
<1>11. ASSUME Acknowledge \/ RecallFails \/ LoseLink PROVE Unwritten'
  BY <1>1, <1>11 DEF Acknowledge, Ack, RecallFails, LoseLink
<1>12. ASSUME NEW m \in Mail, SettledElsewhere(m) \/ Expire(m) PROVE Unwritten'
  BY <1>1, <1>12 DEF SettledElsewhere, Expire
<1>13. ASSUME NEW t \in Thread, Launch(t) PROVE Unwritten'
  BY <1>1, <1>13 DEF Launch
<1>14. CASE UNCHANGED vars
  BY <1>1, <1>14 DEF vars
<1> QED
  BY <1>4, <1>5, <1>7, <1>8, <1>9, <1>10, <1>11, <1>12, <1>13, <1>14 DEF Next, AppServer

(* Only the host's deliveries write mail, and only into the host's thread. *)
LEMMA VirginKept ==
  ASSUME TypeOK, [Next]_vars, NEW t \in Thread, Virgin(t), t # thread
  PROVE  Virgin(t)'
<1> USE DEF server
<1>1. ASSUME UNCHANGED server PROVE Virgin(t)'
  BY <1>1, Untouched
<1>2. ASSUME saved'[t] = saved[t],
             turn'[t] = turn[t] \/ turn'[t] = {} \/ turn'[t] = None
      PROVE  Virgin(t)'
  BY <1>2 DEF Virgin, SavedIn, Quiet
<1>3. CASE User
  <2>1. CASE UserTurn
    BY <1>2, <2>1 DEF UserTurn, TypeOK
  <2> QED
    BY <1>1, <1>3, <2>1 DEF User, StartThread, ResumeThread, SubagentGoal
<1>4. CASE AppServer
  <2>1. PICK u \in Thread : Save(u) \/ EndTurn(u)
    BY <1>4 DEF AppServer
  <2>2. CASE EndTurn(u)
    BY <1>2, <2>2 DEF EndTurn, TypeOK
  <2>3. CASE Save(u)
    <3>1. u # t
      BY <2>3 DEF Save, Busy, Virgin, Quiet
    <3> QED
      BY <1>2, <2>3, <3>1 DEF Save, TypeOK
  <2> QED
    BY <2>1, <2>2, <2>3
<1>5. CASE Crash
  BY <1>2, <1>5 DEF Crash
<1>6. CASE Launcher
  BY <1>1, <1>6 DEF Launcher, Hear, Reconnect, Verify, Drop, Follow
<1>7. CASE Pump
  <2>1. CASE Land
    BY <1>2, <2>1 DEF Land, TypeOK
  <2> QED
    BY <1>1, <1>7, <2>1 DEF Pump, Poll, TuiLeft, Lease, Recall, SeeSaved, GiveUp
<1>8. CASE Acknowledge \/ RecallFails \/ LoseLink
  BY <1>1, <1>8 DEF Acknowledge, Ack, RecallFails, LoseLink
<1>9. ASSUME NEW m \in Mail, SettledElsewhere(m) \/ Expire(m) PROVE Virgin(t)'
  BY <1>1, <1>9 DEF SettledElsewhere, Expire
<1>10. ASSUME NEW u \in Thread, Launch(u) PROVE Virgin(t)'
  BY <1>1, <1>10 DEF Launch
<1>11. CASE UNCHANGED vars
  BY <1>1, <1>11 DEF vars
<1> QED
  BY <1>3, <1>4, <1>5, <1>6, <1>7, <1>8, <1>9, <1>10, <1>11 DEF Next

(* Every step keeps a fresh thread apart: what is announced as new was     *)
(* never heard of before, and what the host moves to is no longer news.    *)
LEMMA FreshKept == HostInv /\ [Next]_vars => FreshIsEmpty'
<1> SUFFICES ASSUME HostInv, [Next]_vars PROVE FreshIsEmpty'
  OBVIOUS
<1> USE HostAssumption, CandidateAssumption DEF HostInv
<1>0. /\ Len(news) \in Nat /\ news \in Seq(Candidate)
      /\ \A i \in 1..Len(news) : news[i] \in Candidate /\ news[i].id \in Thread
      /\ pending # None => pending.id \in Thread
  <2>1. news \in Seq(Candidate) /\ pending \in Candidate \union {None}
    BY DEF TypeOK
  <2>2. Len(news) \in Nat /\ \A i \in 1..Len(news) : news[i] \in Candidate
    BY <2>1, LenProperties, ElementOfSeq
  <2> QED
    BY <2>1, <2>2 DEF Candidate
<1>1. \A t \in Thread : Virgin(t) /\ t # thread => Virgin(t)'
  BY VirginKept
<1>2. ASSUME UNCHANGED <<known, thread, pending, news>> PROVE FreshIsEmpty'
  BY <1>0, <1>1, <1>2 DEF FreshIsEmpty, Unheard
<1>3. ASSUME UNCHANGED <<known, thread, pending>>, news' = <<>> PROVE FreshIsEmpty'
  <2>1. Len(news') = 0
    BY <1>3, EmptySeq
  <2> QED
    BY <1>0, <1>1, <1>3, <2>1 DEF FreshIsEmpty, Unheard
<1>4. ASSUME UNCHANGED <<known, thread, news>>, pending' = None PROVE FreshIsEmpty'
  BY <1>0, <1>1, <1>4 DEF FreshIsEmpty, Unheard
<1>5. Unlink => news' = <<>> /\ UNCHANGED known
  BY Zenon DEF Unlink
<1>6. ASSUME NEW t \in Thread, ResumeThread(t) \/ SubagentGoal(t) PROVE FreshIsEmpty'
  <2>1. GoalEvent(t) \in Candidate /\ ~GoalEvent(t).fresh /\ GoalEvent(t).id = t
    BY DEF GoalEvent, Candidate
  <2>2. t \notin TopLevel \ known /\ UNCHANGED <<known, thread, pending>>
    BY <1>6 DEF ResumeThread, SubagentGoal, ears
  <2>3. /\ news' \in Seq(Candidate)
        /\ \A i \in 1..Len(news) : news'[i] = news[i]
        /\ \/ Len(news') = Len(news)
           \/ Len(news') = Len(news) + 1 /\ news'[Len(news) + 1] = GoalEvent(t)
    BY <1>6, <2>1, NewsGrows DEF ResumeThread, SubagentGoal
  <2>4. \A i \in 1..Len(news') : \/ i \in 1..Len(news) /\ news'[i] = news[i]
                                 \/ ~news'[i].fresh /\ news'[i].id = t
    BY <1>0, <2>1, <2>3
  <2>5. \A u \in TopLevel \ known : Virgin(u)' /\ Unheard(u)'
    BY <1>0, <1>1, <2>2, <2>4 DEF FreshIsEmpty, Unheard
  <2>6. (pending # None /\ pending.fresh => pending.id # thread /\ Virgin(pending.id))'
    BY <1>0, <1>1, <2>2 DEF FreshIsEmpty
  <2>7. \A i \in 1..Len(news') : news'[i].fresh =>
          /\ i \in 1..Len(news) /\ news'[i] = news[i] /\ news[i].id # thread
          /\ \A j \in 1..(i - 1) : news'[j] = news[j]
    BY <1>0, <2>3, <2>4 DEF FreshIsEmpty
  <2>8. \A i \in 1..Len(news') : news'[i].fresh =>
          /\ \A u \in Thread : u = news'[i].id => Virgin(u)'
          /\ pending' # None => pending'.id # news'[i].id
          /\ \A j \in 1..(i - 1) : news'[j].id # news'[i].id
    BY <1>0, <1>1, <2>2, <2>7 DEF FreshIsEmpty
  <2> QED
    BY <1>0, <2>2, <2>5, <2>6, <2>7, <2>8 DEF FreshIsEmpty
<1>7. ASSUME NEW t \in Thread, StartThread(t) PROVE FreshIsEmpty'
  <2>1. Started(t) \in Candidate /\ Started(t).id = t
    BY DEF Started, Candidate
  <2>2. /\ Virgin(t) /\ Unheard(t) /\ known' = known \union {t}
        /\ UNCHANGED <<thread, pending>>
    BY <1>7 DEF StartThread, FreshIsEmpty, ears
  <2>3. /\ news' \in Seq(Candidate)
        /\ \A i \in 1..Len(news) : news'[i] = news[i]
        /\ \/ Len(news') = Len(news)
           \/ Len(news') = Len(news) + 1 /\ news'[Len(news) + 1] = Started(t)
    BY <1>7, <2>1, NewsGrows DEF StartThread
  <2>4. \A i \in 1..Len(news') : \/ i \in 1..Len(news) /\ news'[i] = news[i]
                                 \/ i = Len(news) + 1 /\ news'[i].id = t
    BY <1>0, <2>1, <2>3
  <2> QED
    BY <1>0, <1>1, <2>2, <2>4 DEF FreshIsEmpty, Unheard
<1>8. CASE Hear
  <2>1. /\ Len(news) > 0 /\ Head(news) = news[1]
        /\ Len(news') = Len(news) - 1 /\ \A i \in 1..Len(news') : news'[i] = news[i + 1]
    BY <1>8, NewsShrinks DEF Hear
  <2>2. /\ UNCHANGED <<known, thread>>
        /\ pending' = IF news[1].id # thread THEN news[1] ELSE pending
    BY <1>8, <2>1 DEF Hear
  <2>3. news[1].id \in Thread /\ \A i \in 1..Len(news') : i + 1 \in 1..Len(news)
    BY <1>0, <2>1
  <2>5. \A i \in 1..Len(news') : 1 \in 1..((i + 1) - 1)
    BY <1>0, <2>1
  <2>6. \A t \in TopLevel \ known : Virgin(t)' /\ Unheard(t)'
    BY <1>0, <1>1, <2>1, <2>2, <2>3 DEF FreshIsEmpty, Unheard
  <2>7. (pending # None /\ pending.fresh => pending.id # thread /\ Virgin(pending.id))'
    BY <1>0, <1>1, <2>1, <2>2, <2>3 DEF FreshIsEmpty
  <2>8. \A i \in 1..Len(news') : news'[i].fresh =>
          news[i + 1].fresh /\ news'[i].id = news[i + 1].id /\ news[i + 1].id \in Thread
    BY <1>0, <2>1, <2>3
  <2>9. \A i \in 1..Len(news') : news'[i].fresh =>
          news'[i].id # thread' /\ \A t \in Thread : t = news'[i].id => Virgin(t)'
    BY <1>1, <2>2, <2>3, <2>8 DEF FreshIsEmpty
  <2>10. \A i \in 1..Len(news') : news'[i].fresh =>
           /\ news[1].id # news[i + 1].id
           /\ pending # None => pending.id # news[i + 1].id
    BY <2>3, <2>5, <2>8 DEF FreshIsEmpty
  <2>11. \A i \in 1..Len(news') : news'[i].fresh /\ pending' # None => pending'.id # news'[i].id
    BY <2>2, <2>8, <2>10
  <2>12. ASSUME NEW i \in 1..Len(news'), news'[i].fresh, NEW j \in 1..(i - 1)
         PROVE  news'[j].id # news'[i].id
    <3>1. j \in 1..Len(news') /\ j + 1 \in 1..((i + 1) - 1)
      BY <1>0, <2>1
    <3>2. news'[j] = news[j + 1] /\ i + 1 \in 1..Len(news) /\ news[i + 1].fresh
      BY <2>1, <2>3, <2>8, <2>12, <3>1
    <3>3. news[j + 1].id # news[i + 1].id
      BY <3>1, <3>2 DEF FreshIsEmpty
    <3> QED
      BY <2>8, <2>12, <3>2, <3>3
  <2>13. \A i \in 1..Len(news') : news'[i].fresh => \A j \in 1..(i - 1) : news'[j].id # news'[i].id
    BY <2>12
  <2>14. \A i \in 1..Len(news') : news'[i].fresh => news'[i].id \in Thread
    BY <2>8
  <2>15. (\A i \in 1..Len(news) : news[i].fresh =>
            /\ news[i].id # thread /\ Virgin(news[i].id)
            /\ pending # None => pending.id # news[i].id
            /\ \A j \in 1..(i - 1) : news[j].id # news[i].id)'
    BY <2>9, <2>11, <2>13, <2>14
  <2>16. (\A t \in TopLevel \ known : Virgin(t) /\ Unheard(t))'
    BY <2>2, <2>6
  <2> QED
    BY <2>7, <2>15, <2>16 DEF FreshIsEmpty
<1>9. CASE Follow
  <2>1. CASE pending.id \in Foreign
    BY <1>2, <1>9, <2>1 DEF Follow, screen
  <2>2. CASE pending.id \notin Foreign
    <3>1. /\ pending # None /\ pending' = None /\ thread' = pending.id
          /\ UNCHANGED <<known, news>>
      BY <1>9, <2>2 DEF Follow, Switch, screen
    <3> QED
      BY <1>0, <1>1, <3>1 DEF FreshIsEmpty, Unheard
  <2> QED
    BY <2>1, <2>2
<1>10. ASSUME NEW t \in Thread, Launch(t) PROVE FreshIsEmpty'
  <2>1. /\ news = <<>> /\ news' = <<>> /\ pending' = None
        /\ thread' = t /\ known' = known \union {t}
    BY <1>10 DEF Launch, Belief, ears
  <2>2. Len(news') = 0
    BY <2>1, EmptySeq
  <2> QED
    BY <1>0, <1>1, <2>1, <2>2 DEF FreshIsEmpty, Unheard
<1>11. CASE Crash
  <2>1. news' = <<>> /\ pending' = None /\ UNCHANGED <<known, thread>>
    BY <1>5, <1>11, Zenon DEF Crash
  <2>2. Len(news') = 0
    BY <2>1, EmptySeq
  <2> QED
    BY <1>0, <1>1, <2>1, <2>2 DEF FreshIsEmpty, Unheard
<1>12. CASE LoseLink
  <2>1. news' = <<>> /\ UNCHANGED <<known, thread, pending>>
    BY <1>5, <1>12, Zenon DEF LoseLink
  <2> QED
    BY <1>3, <2>1
<1>13. CASE GiveUp \/ RecallFails
  <2>1. UNCHANGED <<screen, linked>> \/ Unlink
    BY <1>13, Zenon DEF GiveUp, Fails, RecallFails
  <2>2. UNCHANGED <<thread, pending>>
    BY <1>13 DEF GiveUp, RecallFails
  <2>3. UNCHANGED <<known, news>> \/ (news' = <<>> /\ UNCHANGED known)
    BY <1>5, <2>1 DEF screen
  <2> QED
    BY <1>2, <1>3, <2>2, <2>3
<1>14. CASE UserTurn \/ Reconnect \/ Verify \/ Drop
  BY <1>2, <1>4, <1>14 DEF UserTurn, Reconnect, Verify, Drop, screen, ears
<1>15. CASE Poll \/ TuiLeft \/ Lease \/ Recall \/ Land \/ SeeSaved
  BY <1>2, <1>15 DEF Poll, TuiLeft, Lease, Recall, Land, SeeSaved, screen, ears
<1>16. CASE Acknowledge \/ AppServer
  BY <1>2, <1>16 DEF Acknowledge, Ack, AppServer, Save, EndTurn, screen, ears
<1>17. ASSUME NEW m \in Mail, SettledElsewhere(m) \/ Expire(m) PROVE FreshIsEmpty'
  BY <1>2, <1>17 DEF SettledElsewhere, Expire, screen, ears
<1>18. CASE UNCHANGED vars
  BY <1>2, <1>18 DEF vars, screen, ears
<1> QED
  BY <1>6, <1>7, <1>8, <1>9, <1>10, <1>11, <1>12, <1>13, <1>14, <1>15, <1>16, <1>17, <1>18
     DEF Next, User, Launcher, Pump

(* The messages and threads in play are always of their kinds.             *)
THEOREM HostTypes == Spec => []TypeOK
<1>1. Init => TypeOK
  BY InitHost DEF HostInv
<1> QED
  BY <1>1, TypesKept, PTL DEF Spec

(* Types, belief, histories and news hold together in every state.         *)
THEOREM HostInvariant == Spec => []HostInv
<1>1. HostInv /\ [Next]_vars => HostInv'
  BY TypesKept, BeliefKept, UnwrittenKept, FreshKept DEF HostInv
<1> QED
  BY <1>1, InitHost, PTL DEF Spec

(* No mail is written twice into one thread, however often the host        *)
(* retried, was cut off, crashed or was moved between threads.             *)
THEOREM WrittenOnce == Spec => []OncePerThread
<1>1. HostInv => OncePerThread
  BY DEF HostInv, Unwritten
<1> QED
  BY <1>1, HostInvariant, PTL

(* Mail is acknowledged only when the history of the thread the host is on *)
(* holds it.                                                               *)
THEOREM SavedBeforeAck == Spec => AckedIsSaved
<1>1. HostInv /\ [Next]_vars =>
        [\A m \in Mail : row[m] # "persisted" /\ row'[m] = "persisted"
           => saved[thread][m] > 0]_vars
  <2> SUFFICES ASSUME HostInv, Next, NEW m \in Mail,
                      row[m] # "persisted", row'[m] = "persisted"
               PROVE  saved[thread][m] > 0
    BY DEF vars
  <2>1. CASE UNCHANGED row
    BY <2>1
  <2>2. ASSUME NEW n \in Mail, SettledElsewhere(n) PROVE FALSE
    BY <2>2 DEF SettledElsewhere, HostInv, TypeOK
  <2>3. ASSUME NEW part, part \subseteq batch, Ack(part) PROVE saved[thread][m] > 0
    <3>1. m \in batch /\ pc = "saved"
      BY <2>3 DEF Ack, HostInv, TypeOK
    <3> QED
      BY <3>1 DEF HostInv, Belief, SavedIn
  <2>4. CASE Acknowledge
    BY <2>3, <2>4 DEF Acknowledge
  <2>5. CASE User \/ AppServer
    BY <2>1, <2>5 DEF User, StartThread, ResumeThread, SubagentGoal, UserTurn, AppServer,
       Save, EndTurn, rows
  <2>6. CASE Launcher
    BY <2>1, <2>6 DEF Launcher, Hear, Reconnect, Verify, Drop, Follow, rows
  <2>7. CASE Pump \/ RecallFails
    BY <2>1, <2>7 DEF Pump, Poll, TuiLeft, Lease, Recall, Land, SeeSaved, GiveUp, Quit,
       RecallFails, rows
  <2>8. CASE LoseLink \/ Crash
    BY <2>1, <2>8 DEF LoseLink, Crash, rows
  <2>9. ASSUME NEW n \in Mail, Expire(n) PROVE saved[thread][m] > 0
    BY <2>1, <2>9 DEF Expire
  <2>10. ASSUME NEW t \in Thread, Launch(t) PROVE saved[thread][m] > 0
    BY <2>1, <2>10 DEF Launch, rows
  <2> QED
    BY <2>2, <2>4, <2>5, <2>6, <2>7, <2>8, <2>9, <2>10 DEF Next
<1> QED
  BY <1>1, HostInvariant, PTL DEF Spec, AckedIsSaved

-----------------------------------------------------------------------------
(***************************************************************************)
(* Owners for every finite set of pids and threads and every set of        *)
(* aliases: no two launchers deliver into one thread or under one alias.   *)
(* What CodexHost says of one launcher's thread, pending and lease, Owners *)
(* says of all launchers': here they are called into, wanted and token.    *)
(* OwnersAssumption is a hypothesis of each result, written out below.     *)
(***************************************************************************)
CONSTANTS Pid, Alias, Uuid, Derived
VARIABLES owners, at, into, name, wanted, token

O == INSTANCE Owners WITH thread <- into, pending <- wanted, lease <- token

OwnersConstants ==
  /\ IsFiniteSet(Pid) /\ IsFiniteSet(Thread)
  /\ Cardinality(Uuid) > Cardinality(Pid) + Cardinality(Thread)
  /\ Derived \in [Thread -> Alias]
  /\ None \notin Pid \union Thread \union Alias \union Uuid \union O!Row

(* OneHost alone is not inductive.  What keeps two names apart is the      *)
(* table: an alias has one active row.  What keeps a launcher's row its    *)
(* own while another follows its user is that no two owner ids are alike,  *)
(* since the exception for a lease under replacement goes by the id.       *)
RowOf(p) == [pid |-> p, id |-> token[p], alias |-> name[p], active |-> TRUE]

OwnsItsRow ==
  \A p \in Pid : token[p] # None =>
    /\ O!Hosts(p) /\ into[p] # None /\ name[p] # None
    /\ owners[into[p]] = RowOf(p)

Stages ==
  \A p \in Pid :
    /\ at[p] = "waiting" => name[p] # None
    /\ at[p] = "hosting" \/ wanted[p] # None => token[p] # None

LeasesApart == \A p, q \in Pid : token[p] # None /\ p # q => token[p] # token[q]

OneRowPerAlias ==
  \A t, u \in Thread : O!Holds(t) /\ O!Holds(u) /\ owners[t].alias = owners[u].alias => t = u

OwnersInv == O!TypeOK /\ OwnsItsRow /\ Stages /\ LeasesApart /\ OneRowPerAlias

LEMMA InitOwners == ASSUME OwnersConstants PROVE O!Init => OwnersInv
BY DEF O!Init, OwnersInv, O!TypeOK, OwnsItsRow, Stages, LeasesApart, OneRowPerAlias,
     O!Holds, O!Has, O!Free, OwnersConstants

(* The invariant says all that OneHost does. *)
LEMMA InvHost == ASSUME OwnersConstants PROVE OwnersInv => O!OneHost
<1> SUFFICES ASSUME OwnersInv, NEW p \in Pid, O!Delivers(p)
             PROVE  /\ owners[into[p]] = RowOf(p)
                    /\ \A q \in Pid \ {p} : O!Delivers(q) => into[q] # into[p] /\ name[q] # name[p]
  BY DEF O!OneHost, RowOf
<1>1. \A q \in Pid : O!Delivers(q) => /\ into[q] \in Thread /\ owners[into[q]] = RowOf(q)
                                    /\ O!Holds(into[q])
  <2> SUFFICES ASSUME NEW q \in Pid, O!Delivers(q)
               PROVE  /\ into[q] \in Thread /\ owners[into[q]] = RowOf(q)
                      /\ O!Holds(into[q])
    OBVIOUS
  <2>1. into[q] \in Thread /\ owners[into[q]] = RowOf(q)
    BY DEF OwnersInv, OwnsItsRow, O!TypeOK, O!Delivers
  <2>2. RowOf(q) \in O!Row
    BY DEF OwnersInv, OwnsItsRow, O!TypeOK, O!Delivers, RowOf, O!Row
  <2>3. O!Has(into[q])
    BY <2>1, <2>2 DEF O!Has, OwnersConstants
  <2>4. RowOf(q).active
    BY DEF RowOf
  <2> QED
    BY <2>1, <2>3, <2>4 DEF O!Holds
<1>2. \A q \in Pid : RowOf(q).pid = q /\ RowOf(q).alias = name[q]
  BY DEF RowOf
<1> QED
  BY <1>1, <1>2 DEF OwnersInv, OneRowPerAlias

-----------------------------------------------------------------------------
(* At most one id per row and one per launcher are referred to, so the     *)
(* pool has one that is not.                                               *)
LEMMA NewIdIsNew ==
  ASSUME OwnersConstants
  PROVE  O!TypeOK => O!NewId \in Uuid /\ O!NewId \notin O!InUse
<1> SUFFICES ASSUME O!TypeOK PROVE \E id \in Uuid : id \notin O!InUse
  BY DEF O!NewId
<1> DEFINE withRow == {u \in Thread : O!Has(u)}
           onRow == [t \in withRow |-> owners[t].id]
           rowIds == {owners[t].id : t \in withRow}
           leases == {token[p] : p \in Pid}
           onPid == [p \in Pid |-> token[p]]
<1>1. /\ IsFiniteSet(rowIds) /\ Cardinality(rowIds) <= Cardinality(Thread)
      /\ Cardinality(rowIds) \in Nat
  <2>1. IsFiniteSet(withRow) /\ Cardinality(withRow) <= Cardinality(Thread)
    BY FS_Subset DEF OwnersConstants
  <2>2. onRow \in Surjection(withRow, rowIds)
    BY DEF Surjection
  <2>3. IsFiniteSet(rowIds) /\ Cardinality(rowIds) <= Cardinality(withRow)
    BY <2>1, <2>2, FS_Surjection
  <2> QED
    BY <2>1, <2>3, FS_CardinalityType DEF OwnersConstants
<1>2. /\ IsFiniteSet(leases) /\ Cardinality(leases) <= Cardinality(Pid)
      /\ Cardinality(leases) \in Nat
  <2>1. onPid \in Surjection(Pid, leases)
    BY DEF Surjection
  <2>2. IsFiniteSet(leases) /\ Cardinality(leases) <= Cardinality(Pid)
    BY <2>1, FS_Surjection DEF OwnersConstants
  <2> QED
    BY <2>2, FS_CardinalityType
<1>3. /\ IsFiniteSet(O!InUse) /\ Cardinality(O!InUse) \in Nat
      /\ Cardinality(O!InUse) <= Cardinality(Pid) + Cardinality(Thread)
  <2>1. O!InUse = rowIds \cup leases
    BY DEF O!InUse
  <2>2. IsFiniteSet(rowIds \cap leases)
    BY <1>1, FS_Subset
  <2>3. Cardinality(rowIds \cap leases) \in Nat
    BY <2>2, FS_CardinalityType
  <2>4. /\ IsFiniteSet(O!InUse)
        /\ Cardinality(O!InUse) = Cardinality(rowIds) + Cardinality(leases)
                                  - Cardinality(rowIds \cap leases)
    BY <1>1, <1>2, <2>1, FS_Union
  <2>5. Cardinality(O!InUse) \in Nat /\ Cardinality(Pid) \in Nat /\ Cardinality(Thread) \in Nat
    BY <2>4, FS_CardinalityType DEF OwnersConstants
  <2> HIDE DEF rowIds, leases
  <2> QED
    BY <1>1, <1>2, <2>3, <2>4, <2>5
<1>4. Cardinality(Pid) \in Nat /\ Cardinality(Thread) \in Nat
  BY FS_CardinalityType DEF OwnersConstants
<1>5. ~ (Uuid \subseteq O!InUse)
  <2> SUFFICES ASSUME Uuid \subseteq O!InUse PROVE FALSE
    OBVIOUS
  <2>1. IsFiniteSet(Uuid) /\ Cardinality(Uuid) <= Cardinality(O!InUse)
    BY <1>3, FS_Subset
  <2>2. Cardinality(Uuid) \in Nat
    BY <2>1, FS_CardinalityType
  <2> QED
    BY <1>3, <1>4, <2>1, <2>2 DEF OwnersConstants
<1> QED
  BY <1>5
-----------------------------------------------------------------------------
(* What an acquisition leaves in the table. *)
LEMMA OwnedTypes ==
  ASSUME O!TypeOK, NEW p \in Pid, NEW t \in Thread, NEW a \in Alias, NEW id \in Uuid
  PROVE  O!Owned(p, t, a, id) \in [Thread -> O!Row \union {None}]
<1>1. ASSUME NEW u \in Thread
      PROVE  O!Owned(p, t, a, id)[u] \in O!Row \union {None}
  <2>1. CASE u = t
    BY <2>1 DEF O!Owned, O!Row
  <2>2. CASE u # t /\ u \in O!Rivals(t, a)
    <3>1. owners[u] \in O!Row
      BY <2>2 DEF O!Rivals, O!Holds, O!Has, O!TypeOK
    <3>2. [owners[u] EXCEPT !.active = FALSE] \in O!Row
      BY <3>1 DEF O!Row
    <3> QED
      BY <2>2, <3>2 DEF O!Owned
  <2>3. CASE u # t /\ u \notin O!Rivals(t, a)
    BY <2>3 DEF O!Owned, O!TypeOK
  <2> QED
    BY <2>1, <2>2, <2>3
<1>2. O!Owned(p, t, a, id) = [u \in Thread |-> O!Owned(p, t, a, id)[u]]
  BY DEF O!Owned
<1> QED
  BY <1>1, <1>2

(* The acquired row is the only active one of its alias; every other       *)
(* active row is as it was.                                                *)
LEMMA OwnedActive ==
  ASSUME O!TypeOK, NEW p \in Pid, NEW t \in Thread, NEW a \in Alias, NEW id \in Uuid,
         NEW u \in Thread, O!Owned(p, t, a, id)[u] # None, O!Owned(p, t, a, id)[u].active
  PROVE  \/ u = t
         \/ /\ u # t /\ O!Holds(u) /\ owners[u].alias # a
            /\ O!Owned(p, t, a, id)[u] = owners[u]
<1>1. CASE u = t
  BY <1>1
<1>2. CASE u # t /\ u \in O!Rivals(t, a)
  <2>1. owners[u] \in O!Row
    BY <1>2 DEF O!Rivals, O!Holds, O!Has, O!TypeOK
  <2>2. [owners[u] EXCEPT !.active = FALSE].active = FALSE
    BY <2>1 DEF O!Row
  <2>3. O!Owned(p, t, a, id)[u] = [owners[u] EXCEPT !.active = FALSE]
    BY <1>2 DEF O!Owned
  <2> QED
    BY <2>2, <2>3
<1>3. CASE u # t /\ u \notin O!Rivals(t, a)
  <2>1. O!Owned(p, t, a, id)[u] = owners[u]
    BY <1>3 DEF O!Owned
  <2> QED
    BY <1>3, <2>1 DEF O!Rivals, O!Holds, O!Has
<1> QED
  BY <1>1, <1>2, <1>3

(* A launcher p that may acquire, for a thread and an alias, takes no row  *)
(* away from another that delivers: the other lives, and its row bears an  *)
(* id other than the one p is about to replace.                            *)
LEMMA OthersKeepRows ==
  ASSUME OwnersConstants, OwnersInv, NEW p \in Pid, NEW t \in Thread, NEW a \in Alias, NEW id \in Uuid,
         ~ O!Refused(p, t, a, token[p]), NEW q \in Pid \ {p}, token[q] # None
  PROVE  /\ into[q] \in Thread /\ into[q] # t
         /\ O!Owned(p, t, a, id)[into[q]] = RowOf(q)
<1> DEFINE u == into[q]
<1>1. u \in Thread /\ owners[u] = RowOf(q) /\ at[q] # O!Free
  BY DEF OwnersInv, OwnsItsRow, O!TypeOK, O!Hosts, O!Free
<1>2. RowOf(q) \in O!Row
  BY DEF OwnersInv, OwnsItsRow, O!TypeOK, RowOf, O!Row
<1>3. O!Has(u)
  BY <1>1, <1>2 DEF O!Has, OwnersConstants
<1>4. RowOf(q).active /\ RowOf(q).pid = q /\ RowOf(q).id = token[q]
  BY DEF RowOf
<1>5. O!Holds(u) /\ O!Alive(p, owners[u].pid) /\ owners[u].id # token[p]
  BY <1>1, <1>3, <1>4 DEF O!Holds, O!Alive, OwnersInv, LeasesApart
<1>6. u # t /\ u \notin O!Rivals(t, a)
  BY <1>5 DEF O!Refused
<1>7. O!Owned(p, t, a, id)[u] = owners[u]
  BY <1>1, <1>6 DEF O!Owned
<1> QED
  BY <1>1, <1>6, <1>7

(* A launcher that acquires a row, at its launch, when its TUI announces a *)
(* thread or when it follows its user.                                     *)
Acquires(p, state, t, a) ==
  /\ ~ O!Refused(p, t, a, token[p])
  /\ owners' = O!Owned(p, t, a, O!NewId)
  /\ at' = [at EXCEPT ![p] = state]
  /\ into' = [into EXCEPT ![p] = t] /\ name' = [name EXCEPT ![p] = a]
  /\ token' = [token EXCEPT ![p] = O!NewId]
  /\ wanted' = [wanted EXCEPT ![p] = None]

LEMMA AcquireKeeps ==
  ASSUME OwnersConstants, OwnersInv, NEW p \in Pid, NEW t \in Thread, NEW a \in Alias,
         NEW state \in {"hosting", "stopping"}, Acquires(p, state, t, a)
  PROVE  OwnersInv'
<1>1. O!TypeOK /\ O!NewId \in Uuid /\ O!NewId \notin O!InUse /\ O!NewId # None
  BY NewIdIsNew DEF OwnersInv, OwnersConstants
<1>2. O!TypeOK'
  BY <1>1, OwnedTypes DEF Acquires, O!TypeOK
<1>3. RowOf(p)' = O!Owned(p, t, a, O!NewId)[t]
  BY <1>1 DEF Acquires, RowOf, O!Owned, O!TypeOK
<1>4. \A q \in Pid \ {p} :
        /\ at'[q] = at[q] /\ into'[q] = into[q] /\ name'[q] = name[q]
        /\ token'[q] = token[q] /\ wanted'[q] = wanted[q] /\ RowOf(q)' = RowOf(q)
  BY <1>1 DEF Acquires, RowOf, O!TypeOK
<1>5. /\ at'[p] = state /\ into'[p] = t /\ name'[p] = a /\ token'[p] = O!NewId
      /\ wanted'[p] = None
  BY <1>1 DEF Acquires, O!TypeOK
<1>6. OwnsItsRow'
  <2> SUFFICES ASSUME NEW q \in Pid, token'[q] # None
               PROVE  /\ O!Hosts(q)' /\ into'[q] # None /\ name'[q] # None
                      /\ owners'[into'[q]] = RowOf(q)'
    BY DEF OwnsItsRow
  <2>1. CASE q = p
    BY <1>3, <1>5, <2>1 DEF Acquires, O!Hosts, OwnersConstants
  <2>2. CASE q # p
    <3>1. O!Owned(p, t, a, O!NewId)[into[q]] = RowOf(q)
      BY <1>1, <1>4, <2>2, OthersKeepRows DEF Acquires
    <3>2. O!Hosts(q) /\ into[q] # None /\ name[q] # None
      BY <1>4, <2>2 DEF OwnersInv, OwnsItsRow
    <3> QED
      BY <1>4, <2>2, <3>1, <3>2 DEF Acquires, O!Hosts
  <2> QED
    BY <2>1, <2>2
<1>7. Stages'
  BY <1>1, <1>4, <1>5 DEF OwnersInv, Stages
<1>8. LeasesApart'
  BY <1>1, <1>4, <1>5 DEF OwnersInv, LeasesApart, O!InUse
<1>9. OneRowPerAlias'
  <2> SUFFICES ASSUME NEW u \in Thread, NEW v \in Thread, O!Holds(u)', O!Holds(v)',
                      owners'[u].alias = owners'[v].alias
               PROVE  u = v
    BY DEF OneRowPerAlias
  <2>1. owners' = O!Owned(p, t, a, O!NewId) /\ owners'[t].alias = a
    BY DEF Acquires, O!Owned
  <2>2. /\ O!Owned(p, t, a, O!NewId)[u] # None /\ O!Owned(p, t, a, O!NewId)[u].active
        /\ O!Owned(p, t, a, O!NewId)[v] # None /\ O!Owned(p, t, a, O!NewId)[v].active
    BY <2>1 DEF O!Holds, O!Has
  <2>3. \/ u = t
        \/ u # t /\ O!Holds(u) /\ owners[u].alias # a /\ owners'[u] = owners[u]
    BY <1>1, <2>1, <2>2, OwnedActive
  <2>4. \/ v = t
        \/ v # t /\ O!Holds(v) /\ owners[v].alias # a /\ owners'[v] = owners[v]
    BY <1>1, <2>1, <2>2, OwnedActive
  <2> QED
    BY <2>1, <2>3, <2>4 DEF OwnersInv, OneRowPerAlias
<1> QED
  BY <1>2, <1>6, <1>7, <1>8, <1>9 DEF OwnersInv

(* A program that is not, or no longer, an owner changes no row but its    *)
(* own, if it has one to give back.                                        *)
LEMMA EndKeeps ==
  ASSUME OwnersConstants, OwnersInv, NEW p \in Pid, NEW state \in {O!Free, "other"},
         O!Becomes(p, state, None, None, None),
         \/ UNCHANGED owners
         \/ token[p] # None /\ owners' = O!Released(into[p], token[p])
  PROVE  OwnersInv'
<1>1. \A q \in Pid \ {p} :
        /\ at'[q] = at[q] /\ into'[q] = into[q] /\ name'[q] = name[q]
        /\ token'[q] = token[q] /\ wanted'[q] = wanted[q] /\ RowOf(q)' = RowOf(q)
  BY DEF O!Becomes, RowOf, OwnersInv, O!TypeOK
<1>2. /\ at'[p] = state /\ token'[p] = None /\ wanted'[p] = None
  BY DEF O!Becomes, OwnersInv, O!TypeOK
<1>3. \A u \in Thread :
        \/ owners'[u] = owners[u]
        \/ /\ token[p] # None /\ u = into[p]
           /\ owners[u] \in O!Row /\ owners'[u] = [owners[u] EXCEPT !.active = FALSE]
  BY DEF O!Released, O!Has, OwnersInv, O!TypeOK
<1>4. owners' \in [Thread -> O!Row \union {None}]
  <2>1. ASSUME NEW u \in Thread PROVE owners'[u] \in O!Row \union {None}
    <3>1. CASE owners'[u] = owners[u]
      BY <3>1 DEF OwnersInv, O!TypeOK
    <3>2. ASSUME owners[u] \in O!Row, owners'[u] = [owners[u] EXCEPT !.active = FALSE]
          PROVE  owners'[u] \in O!Row
      BY <3>2 DEF O!Row
    <3> QED
      BY <1>3, <3>1, <3>2
  <2>2. owners' = [u \in Thread |-> owners'[u]]
    BY DEF O!Released, OwnersInv, O!TypeOK
  <2> QED
    BY <2>1, <2>2
<1>5. O!TypeOK'
  BY <1>4 DEF O!Becomes, OwnersInv, O!TypeOK
<1>6. \A u \in Thread : O!Holds(u)' => O!Holds(u) /\ owners'[u] = owners[u]
  <2> SUFFICES ASSUME NEW u \in Thread, O!Holds(u)'
               PROVE  O!Holds(u) /\ owners'[u] = owners[u]
    OBVIOUS
  <2>1. ASSUME owners[u] \in O!Row, owners'[u] = [owners[u] EXCEPT !.active = FALSE]
        PROVE  FALSE
    <3>1. owners'[u].active = FALSE
      BY <2>1 DEF O!Row
    <3> QED
      BY <3>1 DEF O!Holds
  <2> QED
    BY <1>3, <2>1 DEF O!Holds, O!Has
<1>7. OwnsItsRow'
  <2> SUFFICES ASSUME NEW q \in Pid, token'[q] # None
               PROVE  /\ O!Hosts(q)' /\ into'[q] # None /\ name'[q] # None
                      /\ owners'[into'[q]] = RowOf(q)'
    BY DEF OwnsItsRow
  <2>1. q # p
    BY <1>2
  <2>2. /\ O!Hosts(q) /\ into[q] # None /\ name[q] # None /\ into[q] \in Thread
        /\ owners[into[q]] = RowOf(q) /\ RowOf(q).pid = q
    BY <1>1, <2>1 DEF OwnersInv, OwnsItsRow, O!TypeOK, RowOf
  <2>3. token[p] # None => owners[into[p]].pid = p
    <3>1. token[p] # None => owners[into[p]] = RowOf(p)
      BY DEF OwnersInv, OwnsItsRow
    <3>2. RowOf(p).pid = p
      BY DEF RowOf
    <3> QED
      BY <3>1, <3>2
  <2>4. owners'[into[q]] = owners[into[q]]
    BY <1>3, <2>1, <2>2, <2>3
  <2> QED
    BY <1>1, <2>1, <2>2, <2>4 DEF O!Hosts
<1>8. Stages'
  BY <1>1, <1>2 DEF OwnersInv, Stages, O!Free
<1>9. LeasesApart'
  BY <1>1, <1>2 DEF OwnersInv, LeasesApart
<1>10. OneRowPerAlias'
  BY <1>6 DEF OwnersInv, OneRowPerAlias
<1> QED
  BY <1>5, <1>7, <1>8, <1>9, <1>10 DEF OwnersInv

-----------------------------------------------------------------------------
LEMMA NextOwners ==
  ASSUME OwnersConstants, OwnersInv, [O!Next]_O!vars
  PROVE  OwnersInv'
<1>1. ASSUME NEW p \in Pid, NEW t \in Thread, NEW r \in Alias \union {None}, O!Launch(p, t, r)
      PROVE  OwnersInv'
  <2> DEFINE a == O!NameFor(t, r)
  <2>1. a \in Alias
    BY DEF O!NameFor, O!Has, OwnersInv, O!TypeOK, O!Row, OwnersConstants
  <2>2. token[p] = None
    BY <1>1 DEF O!Launch, OwnersInv, OwnsItsRow, O!Hosts, O!Free
  <2>3. Acquires(p, "hosting", t, a)
    BY <1>1, <2>2 DEF O!Launch, Acquires, O!Becomes
  <2> QED
    BY <2>1, <2>3, AcquireKeeps
<1>2. ASSUME NEW p \in Pid, NEW a \in Alias, O!LaunchBare(p, a)
      PROVE  OwnersInv'
  <2>1. token[p] = None
    BY <1>2 DEF O!LaunchBare, OwnersInv, OwnsItsRow, O!Hosts, O!Free
  <2>2. O!TypeOK'
    BY <1>2 DEF O!LaunchBare, O!Becomes, OwnersInv, O!TypeOK
  <2>3. OwnsItsRow' /\ LeasesApart'
    BY <1>2, <2>1 DEF O!LaunchBare, O!Becomes, OwnersInv, O!TypeOK, OwnsItsRow, LeasesApart, O!Hosts, RowOf
  <2>4. Stages' /\ OneRowPerAlias'
    BY <1>2 DEF O!LaunchBare, O!Becomes, OwnersInv, O!TypeOK, Stages, OneRowPerAlias,
         O!Holds, O!Has, OwnersConstants
  <2> QED
    BY <2>2, <2>3, <2>4 DEF OwnersInv
<1>3. ASSUME NEW p \in Pid, NEW t \in Thread, O!Announce(p, t)
      PROVE  OwnersInv'
  <2>1. token[p] = None /\ name[p] \in Alias
    BY <1>3 DEF O!Announce, OwnersInv, OwnsItsRow, Stages, O!Hosts, O!TypeOK
  <2>2. CASE O!Refused(p, t, name[p], None)
    BY <1>3, <2>2, EndKeeps DEF O!Announce, O!Ends
  <2>3. CASE ~ O!Refused(p, t, name[p], None)
    <3>1. Acquires(p, "hosting", t, name[p])
      BY <1>3, <2>1, <2>3 DEF O!Announce, Acquires, O!Becomes
    <3> QED
      BY <2>1, <3>1, AcquireKeeps
  <2> QED
    BY <2>2, <2>3
<1>4. ASSUME NEW p \in Pid, O!Follow(p)
      PROVE  OwnersInv'
  <2>1. token[p] # None /\ wanted[p] \in Thread /\ name[p] \in Alias /\ at[p] \in {"hosting", "stopping"}
    BY <1>4 DEF O!Follow, O!Hosts, OwnersInv, OwnsItsRow, Stages, O!TypeOK
  <2>2. Acquires(p, at[p], wanted[p], name[p])
    BY <1>4, <2>1 DEF O!Follow, Acquires, OwnersInv, O!TypeOK
  <2> QED
    BY <2>1, <2>2, AcquireKeeps
<1>5. ASSUME NEW p \in Pid, NEW t \in Thread, O!Notice(p, t)
      PROVE  OwnersInv'
  BY <1>5 DEF O!Notice, OwnersInv, O!TypeOK, OwnsItsRow, Stages, LeasesApart, OneRowPerAlias,
              O!Holds, O!Has, O!Hosts, RowOf
<1>6. ASSUME NEW p \in Pid, O!Stop(p)
      PROVE  OwnersInv'
  BY <1>6 DEF O!Stop, OwnersInv, O!TypeOK, OwnsItsRow, Stages, LeasesApart, OneRowPerAlias,
              O!Holds, O!Has, O!Hosts, RowOf
<1>7. ASSUME NEW p \in Pid, O!Release(p)
      PROVE  OwnersInv'
  BY <1>7, EndKeeps DEF O!Release
<1>8. ASSUME NEW p \in Pid, O!Crash(p) \/ O!OtherStarts(p) \/ O!OtherEnds(p)
      PROVE  OwnersInv'
  BY <1>8, EndKeeps DEF O!Crash, O!OtherStarts, O!OtherEnds, O!Ends
<1>9. CASE UNCHANGED O!vars
  BY <1>9 DEF O!vars, OwnersInv, O!TypeOK, OwnsItsRow, Stages, LeasesApart, OneRowPerAlias,
              O!Holds, O!Has, O!Hosts, RowOf
<1> QED
  BY <1>1, <1>2, <1>3, <1>4, <1>5, <1>6, <1>7, <1>8, <1>9 DEF O!Next

(* The table and the launchers hold values of their types in every         *)
(* reachable state, and the fresh id that acquireOwner asks for exists.    *)
THEOREM OwnersTypes == OwnersConstants => (O!Spec => []O!TypeOK)
<1> SUFFICES ASSUME OwnersConstants PROVE O!Spec => []O!TypeOK
  OBVIOUS
<1>1. OwnersInv => O!TypeOK
  BY DEF OwnersInv
<1>2. OwnersInv /\ [O!Next]_O!vars => OwnersInv'
  BY NextOwners
<1> QED
  BY InitOwners, <1>1, <1>2, PTL DEF O!Spec

(* acquireOwner, release and the switch of threads: whoever delivers has   *)
(* its own active row, and no two deliver into one thread or under one     *)
(* alias, whatever crashes, reused pids and late releases come between.    *)
THEOREM OneHostAlways == OwnersConstants => (O!Spec => []O!OneHost)
<1> SUFFICES ASSUME OwnersConstants PROVE O!Spec => []O!OneHost
  OBVIOUS
<1>1. OwnersInv /\ [O!Next]_O!vars => OwnersInv'
  BY NextOwners
<1> QED
  BY InitOwners, InvHost, <1>1, PTL DEF O!Spec
=============================================================================
