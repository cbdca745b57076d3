# A TLA+ development for claude-ipc

claude-ipc lets coding-agent sessions on one machine send each other messages. A
broker process on a Unix socket keeps a mailbox per alias in one SQLite file; hooks
and a watcher inject mail into the sessions; a sweeper chases questions nobody has
answered. The hard part is not delivering a message but the promise around a
question (an "ask": a `query` or a `request`): the sender must end up with an answer,
a refusal, a withdrawal or a release, whatever the recipient, the broker and the
clock do in between.

Paths are relative to the repository; `src/src/...` is its `src/` directory.

## 1. The system

| part | state | operations | correct when |
|---|---|---|---|
| Router (`broker/router.ts`), directed asks | rows of `messages`, `deliveries`, `awaiting` | send, reply, cancel, check, deliver, lease, ack, snooze, accept, decline | an ask closes once, for a reason that matches what its sender was sent; a settled copy stays settled; a copy of an open ask leaves the recipient's sight only by the recipient's doing |
| Sweeper (`broker/sweeper.ts`) | `lastSweep` in `server.ts`; the `stage` of an awaiting row | tombstone, purge, TTL parking, nudge, last call, prune | the sender's deadline cannot be pushed out by the recipient; an ask is released once; the log stays bounded |
| Router, idempotent send | `messages.operation_id`, `message_routes`, `outbound_intents` | send with an operation id, repair, reconcile | a send attempted any number of times leaves one message with all its rows; no intent is lost |
| Client (`client.ts`) | its own in-flight request | send, timeout, degraded send/check/deliver straight on the file | success is reported only for a complete send |
| Project mailboxes (`router.ts`) | one delivery row per ask, `project_claims`, `project_passes` | send to a directory, deliver, consume, accept, decline, reply | one worker at a time; one injection; a settled ask is off everyone's board; the sender is not asked |
| Registry (`broker/registry.ts`) | instances in memory, a snapshot file | register, heartbeat, leave, touch, age, prune | an alias names one live session; names come back to their owner after a restart |
| SQLite storage (`storage/sqliteBackend.ts`) | the tables, the event counter | statements and small transactions | monotone row states, growing event numbers, an event exactly when an inbox changes |
| In-memory storage (`storage/memoryBackend.ts`) | the same in maps | the same interface | no caller can tell it from the SQLite one |
| Server, wire (`broker/server.ts`, `protocol.ts`) | connections, buffers, pidfile | accept, dispatch, write pump, boot, stop | frames whole and in order; one broker |
| Codex host (`codex/host.ts`) | thread, leased batch, cache of the thread's history | lease, persist into the thread, ack | each mail reaches the thread once and is acknowledged only then |
| Codex launcher (`codex/main.ts`) | lease files | acquireOwner, heartbeat, release | one owner per thread and alias |
| Session hooks (`hooks/*.ts`) | marker files | session start, prompt, turn end | an ask blocks the end of a turn once |
| Inbox watcher (`plugin/scripts/watch-inbox.sh`) | seen set, baseline | poll, wake | new mail wakes a session once |
| Alias store, project addresses | a file per session | normalise, save by rename | hooks and watcher go by the same name |
| CLI, MCP server, dashboard, monitor, badge, config, log | none that other parts read | argument parsing, printing, schemas, layout | |
| launchd (`launchd/*.plist`) | | restarts the broker | |

How they interact. Clients send one request per connection to the broker, which runs
one handler at a time to completion: bun runs the handlers on one thread and every
handler is synchronous, so a request is atomic with respect to other requests and to
the sweep, but NOT with respect to a crash between two statements, nor to other
processes that open the same file. Those are the degraded clients: when the socket is
refused, closed or silent beyond the timeout, a client runs the same statements itself
and leaves an intent in the outbox; the broker replays intents when it boots and when
a sender registers. The sweep runs on a timer and, should the timer die, inline in the
next request. Hosts and hooks take mail under a lease or a claim and settle it later,
when an answer, a cancel or the sweeper may already have settled it.

Hard behaviours, in the order of what they would cost a user:
1. an ask that is never released, or released and answered and reopened (deadlines
   computed from two clocks, five reasons to close, late answers after a parking);
2. a send that is half stored when the broker dies, retried by the client, by the
   broker's replay and by the agent, with a roster that has changed in between;
3. who owes an ask that was sent to everybody in a directory, when sessions come, go,
   fall quiet and come back under other names;
4. leases and acknowledgements against a thread that is switched;
5. two launchers, two brokers, two writers of one counter.
6. mail that was handed over, or blocked a turn, or woke a session, or did not: four
   programs that share files and run when they please;
7. two stores with one contract, of which the tests see the other one.
PROJECT.json lists each of them as a hazard at its line, with the properties that
would catch it; those without one say why.

## 2. The modules

| module | models | checked by | proved in |
|---|---|---|---|
| `AskLedger` | a directed ask inside the broker: handlers, rows, sweep | `MCAskLedger` | `AskLedgerProofs` |
| `AskContract` | the promise to a sender, abstractly | as `KeepsContract` of `AskLedger` | |
| `Outbox` | one send attempted by broker and degraded clients, one SQL statement per step | `MCOutbox` | `OutboxProofs` |
| `ProjectMail` | asks to a directory: shared row, claims, passes, registry | `MCProjectMail` | `ProjectMailProofs` |
| `CodexHost` | launcher and delivery host of a Codex session, await by await | `MCCodexHost` | `CodexHostProofs` |
| `SqliteStore`, `MemoryStore` | the two stores, an operator per call | | |
| `Stores` | both, given the same calls | `MCStores` | `StoresProofs` |
| `Registry` | roster, snapshot, token files, clients that register | `MCRegistry` | `RegistryProofs` |
| `Wake` | hooks, watcher, alias file and markers of one session | `MCWake` | `WakeProofs` |
| `Brokers` | broker processes: pidfile, socket, event counter | `MCBrokers` | `WireProofs`, last part |
| `Owners` | the table of Codex launchers | `MCOwners` | `CodexHostProofs`, last part |
| `Wire` | one connection, byte by byte | `MCWire` | `WireProofs` |

`AskLedger`, `Outbox` and `ProjectMail` cut the same handlers at different grains.
`AskLedger` takes a handler as one step and follows an ask over its whole life, with
clocks. `Outbox` follows only the send, but statement by statement and with a second
writer, because that is where a crash or a degraded client can cut in. `ProjectMail`
takes handlers as steps again and replaces clocks by free choice, because here the
registry decides; `Registry` has the clocks. `CodexHost` is the client of the lease and
ack handlers; of the broker it keeps one row and one lease per message, and leaves the
rest to `AskLedger`. `Owners` is what entitles `CodexHost` to assume that one host
delivers into a thread. `Stores` justifies that the tests speak for the SQLite file,
whose statements the first four modules take for granted. `Brokers` and `Wire` are what
entitles all of them to one broker and whole requests. `Wake` is the far end: what a
session hears of the mail the others have stored.

### AskLedger

| state | code |
|---|---|
| `messages[a]` | the row of `messages` (who, to whom, when), `Unsent`, or `Purged` |
| `deliveries[a]` | the one row of `deliveries`: state and lease expiry |
| `awaiting[a]` | the row of `awaiting`: `closed`/`closed_reason` as `status`, TTL, reply-by, `nudge_from`, `stage` |
| `posts[a]` | how many messages with `corr_id` = a were appended, by sort |
| `now`, `lastSweep` | the broker's clock and `lastSweep` of `server.ts` |
| `withdrawn` | asks for which a cancel has answered `cancelled: true` |

Each Router handler is one action with its early returns as guards; `Sweep` is
`tickSweeper` followed by `sweepReplyDeadlines`. A sweep treats each ask by itself, so
it is a map over asks; its jobs run in a fixed order and what an earlier job does to a
later one shows in the conditions (`PurgeDue` counts a copy the tombstone has just
retired, `Chased` skips an ask the TTL has just parked). The registry is constant here.
Sessions on the `Managed` list cannot consume by `check`, as in the code.

Points where the code is easy to misread and the model follows it:
- `setConsent` and `markConsumed` overwrite a row in ANY state, `markSurfaced` and
  `ackDelivery` do not; a second snooze of a surfaced copy is refused as
  "already settled" (`router.ts:996`), so a copy is snoozed at most once before it is
  accepted or settled: `NudgesAreEarned` counts on it;
- `deferNudge` has no `closed` condition: a late partial answer rewrites a closed row;
- a refused reply to a cancelled ask still consumes the row of the addressed alias,
  but not that of another alias of the same session (`RefuseReply`);
- `reply` is open to any alias, not only to the recipient.

### Outbox

`writer[w]` is where a process stands in the send: `looked` (operation id unknown),
`unspooled` (degraded, intent not yet written), `ready` (targets fixed), `routing`
(message stored, rows under way), `opening` (rows written, awaiting row to come),
`done`. The broker is the writer `Broker`; a degraded client is a writer under its own
operation. The client reserves the message id from the operation id, hence a message is
identified with its operation, and `Conflict` is the broker meeting an id that was
stored since its lookup. `Crash` and `Kill` lose a writer's record and nothing else;
every table survives, as SQLite commits each statement. A message and its route are
written in one transaction (`Append`). `serving` tells a request whose client still
waits from one whose client has hung up and from a replayed intent.

### ProjectMail

`row[m]` is the one delivery row under the project's address, `claim` and `passed` are
`project_claims` and `project_passes`. `reg` and `quiet` are what the registry knows of
an alias and whether its session was heard from within `offlineS`. `Owes` is
`Router.stillOwedBy`. `handed` and `working` are history: into whose turn a deliver put
the ask, and who was told "It's yours" and has been reachable since. This is the
broker's path. A degraded project deliver also returns rows that are already
`delivered` (`client.ts:339`): that second path is a listed hazard without a property.

### CodexHost

| state | code |
|---|---|
| `pc`, `batch` | where `pumpOnce` or the launcher's loop is awaiting, and the leased `messages` |
| `thread` | `activeThreadId` of the launcher, `options.threadId` of the host (set in one step) |
| `pending`, `asked` | `pendingThread`; the id whose `thread/read` is awaited |
| `loaded`, `cache` | `historyLoaded`, `persistedIds` |
| `linked` | `appServer !== undefined` |
| `row`, `lease` | this session's delivery rows or, for project mail, what the alias has surfaced; who reserves them |
| `tui`, `known`, `news` | what the user looks at, and the notifications under way on the connection |
| `turn`, `saved` | the App Server: what a running turn has yet to write; what the thread's history holds |

The launcher and the host run in one JavaScript thread, so a step is the code between
two awaits, and `Hear` (the notification handler) can run at each await. `Follow` reads
`pending` as it is after the await, as the code does. `requireCurrentThread` is the
guard `pending = None` of the steps that follow it and the action `TuiLeft`. A delivery
that fails is `GiveUp`: refused, ended, out of time or cut off, with the connection kept
or dropped, whether or not the request landed.

Of the App Server, which is not in the repository, the model assumes: a started turn
writes its tool output into the thread's history in one piece, or ends without; a
request that was not served when the host gave it up is never served; a turn is refused
while another runs in the thread; the App Server ends with its launcher. Without the
second, `OncePerThread` fails: a `turn/start` that is served after the host has read the
history again writes the mail a second time, and nothing in the code excludes that.
A lease on a project mailbox reserves nothing (`router.ts:601-611` only reads), a
personal one does. The threads other launchers own (`Foreign`) do not change; a host
that is asked to follow one waits with the candidate pending, as `main.ts:338-345` says
it should, and delivers nothing meanwhile.

### SqliteStore, MemoryStore and Stores

A store is a record of tables (sets of rows) or maps (functions on keys). Each call of
`StorageBackend` is an operator from store to store that also carries what the call
returned (`out`) and the addresses it gave a new event number (`moved`); an UPDATE
rewrites the rows its WHERE selects. `Stores` holds one of each (`sql`, `mem`), makes
every call on both and compares. `used` hands out message ids once, as the client does;
a send stores its message with the route it resolved to (`Sent`, `AppendRouted`), a
reply or notice without one; the supersede, claim and pass calls come for asks, as the
router makes them. Each store also has its outbox intents, the marks of project members
and the registry snapshot (`QueueIntent`, `DropIntent`, `Show`, `SaveEntries`), which no
mailbox call touches; the purge drops routes with their messages and leaves claims,
passes and marks behind, in both.

Where the two are written differently, the model follows each: memory keeps leases in a
map of their own and drops them whatever the state of the copy; it gives rows whose
message is gone to nobody but consumes them; `ackDelivery` mints no event there
(`base.ts:46-52` says it moves the address). `SameEvents` states that this last is the
only difference between the events of the two.

### Registry

| state | code |
|---|---|
| `entries[a]`, `up` | the broker's `entries`, as long as it runs |
| `saved` | the `registry_snapshot` table |
| `files[a]` | the token file of an alias, shared by the user's processes |
| `answers[s]` | the registration a session's client awaits |
| `intents` | aliases with a spooled send, which boot and reconcile replay |
| `retired`, `orphaned` | history: names that left and have not spoken since; names whose token never got to its file |

`Bound` is what `register` makes of an entry: a service keeps its session id, a takeover
marks the session before, a managed host's name is not taken by another session.
`Touched` is `touchSiblings`. Heartbeats and acts change `entries` only, everything else
also the snapshot. `PruneDies` is a broker that dies between the unlinked token files
and the snapshot, `BootDies` one that dies while it replays for a sender the registry
has forgotten (`restoreOutboxOwner` .. `dropRestoredOutboxOwner`). `status` is `left`
and an age, as `statusOf` has it.

### Wake

| state | code |
|---|---|
| `held`, `file` | the session's names in the roster; its alias file |
| `state[m]` | the copy of a message, as far as hooks and watcher see it |
| `job` | what the session's own hook or shell is at (they run one at a time) |
| `markers` | the files under `blocked/` |
| `baselined`, `seen` | the watcher's variable and its `seen` file |
| `silent` | a day without a word and without a touch of the alias file |
| `shown`, `woken`, `blocked` | history: put before the session, wake lines, turns held up |

`Deliver` claims and prints in one step of which the second half may not happen: a hook
that dies, or whose output is cut off, has claimed all the same. A degraded read sees one
box, a broker's all boxes of the session (`Boxes` and `{a}`). `Push` runs `decidePush`
and `applyPush` with any subset of markers written. `Tick` is one turn of the watcher's
loop with an answer; without one nothing changes and the loop comes round again.
`ReclaimStaleMarkers` deletes markers whose message is gone and alias files of sessions
that are not registered and untouched for a day.

### Brokers

`run[p]` is what runs under a process id and how far its boot has come (`CheckPidfile`,
`OpenStore`, `Bind`, `WritePidfile` in the order of `main`), `held[p]` its copy of the
event counter, `counter` the counter in the store and `top` the largest number that the
second statement of a bump has given an address (`MintDies` is a death between the two).
`StoreLost` is the case the boot clock floor is for: the file is replaced, and no more
events than seconds have passed. Other programs come and go and take freed ids. A broker
shuts down by a signal (`Cleanup`) or dies (`Kill`). A client whose request failed opens
the store for one operation (`DegradedOpens`, `Mint`, `DegradedEnds`).

Nothing in the code keeps two starts apart (`spawnBroker` and launchd both start brokers,
and the pidfile is read long before it is written), nor a degraded client from a broker
that boots in the meantime or that was only slow to answer. So nothing in the model does
either: any number of starts and degraded clients overlap at any step. Two history
variables, which no guard reads, record that it happened, and the properties speak of
them: `raced` from the moment two starts are both past their look at the pidfile until no
broker past that look is left; `shared` from the moment two processes have the
store open until one opens it alone with the clock past every number handed out.

### Owners

`owners[t]` is the row of a thread, `lease[p]` the owner id a launcher got, `pending[p]`
where its user has moved to. `Refused` and `Owned` are the checks and the writes of the
`BEGIN IMMEDIATE` transaction in `acquireOwner`, `Released` is `release`. A launcher that
starts with a thread acquires before anything else (`Launch`), one without waits for the
TUI's announcement (`LaunchBare`, `Announce`). `Follow` is the loop's switch: it acquires
the new row with `replacing` set to its own lease and then releases the old one. Any
program may have the process id of an owner that crashed.

### Wire

A byte is a triple (frame, declared length, place), which is enough to tell a whole frame
from anything else without inventing contents. `up` and `down` are the two socket
buffers, `outbound` and `outbox` what a write left over, `incoming` and `arrived` the two
decoders' buffers. A write takes what there is room for (`Taken`) and the rest waits for
a drain; a read takes any prefix. `Served`, `Fatal` and `Replies` are what the broker
makes of the frames in one chunk: a malformed one or one declared longer than
`MAX_FRAME_BYTES` drops the whole chunk, and an answer that no frame has room for ends the
connection after it. `Garbled` is what `FrameDecoder.push` throws on, at either end: a
frame that is too long, or a body that does not parse because it is spliced from two. The
client's verdict is its promise: resolved, failed (its decoder threw), timed out or
closed. The model also lets a client send what is too long for a frame, which
`encodeFrame` of `client.ts` refuses: the broker has to cope with any peer.

## 3. What is checked

Each property states something several steps, mostly of several actors, would have to
conspire to break. PROJECT.json pairs each with a plausible slip in one of the mapped
definitions under which TLC finds it violated.

| run | question | bounds |
|---|---|---|
| `ask_ledger` | Do closures, notices, deadlines and the copy stay consistent through every order of requests and sweeps, is the contract kept, does a chased ask close and a closed one get purged? | one ask, three aliases in two sessions, `MaxClock` 4, sent by instant `LastSend` = 0, `MaxAnswers` 1 of each sort |
| `outbox` | Is a reported send complete and is the outbox worked off? | an ask and a broadcast, one peer, `MaxMishaps` 2 |
| `project_mail` | One worker, one injection, settled asks off the board? | one ask, a session with two aliases and another session, no bound on steps |
| `codex_host` | Is mail acknowledged only once saved, saved once, and delivered in the end? | a personal and a project message, two threads and a subagent's, `MaxMishaps` 2, `MaxMoves` 2 |
| `stores` | Do the two stores hold the same and answer the same, and are events changes? | an ask and an inform for one box and two lease ids, or a project ask, two members, one outbox operation and one registry row (`beside`); `MaxClock` 1 |
| `registry` | Do roster, snapshot and token files agree, names of a session age together, leaves stick, aliases stay with their owners? | two aliases, two sessions, `MaxClock` 3, `MaxToken` 2, `MaxCrashes` 1 |
| `wake` | One block, one wake, and no unheard mail? | two asks, a derived, a chosen and a refused name, no bound on steps |
| `brokers` | One broker unless starts raced, growing event numbers unless a store was shared, and a broker again after every kill? | three process ids, `MaxClock` 1, `MaxMint` 2, `MaxKills` 2; starts and degraded clients overlap freely |
| `owners` | One host per thread and alias, and does a launcher follow its user? | three process ids, two threads, two aliases, six owner ids, no bound on steps |
| `wire` | Are frames whole and in order, and does every call end? | two requests, buffers of 3 bytes, `MaxFrame` 4, bodies of 1 to 5 bytes |

Why these bounds suffice. Asks do not share rows: a second ask can matter only where a
step touches many rows at once (check, deliver, lease, sweep), and the theorems of
section 5 cover any number of asks, as they cover broadcasts to any number of peers.
With `FinalGrace` 3 and reply-by 1 the nudge, the last call, the TTL and the tombstone
(2) fall due at different instants, and a sweep may also be late enough to find several
due at once; the retention window (2) ends within the clock, so every deadline in the
code is passed both before and after every other that can precede it. Mishaps in
`Outbox` are crashes, kills, timeouts, repeats and roster changes: two of them give a
crash during replay, a repeat after a kill, and a change of the roster between two
attempts. One unread request per operation is a bound: a repeat waits until the last one
has been read. In `CodexHost` two mishaps give a lost response followed by a crash, and
two moves a thread left and returned to; a third thread would add nothing a second does
not, since only the last candidate is kept. In `Stores` rows meet only through their
message or their box, and two messages in one box are the least that share either; two
lease ids are a lease and the one that overtakes it. Its tables beside the mailboxes
share nothing with leases or with a second message, so a behaviour works either those
tables or every message and lease (`beside`): two members, so that a claim of one meets
a pass or a claim of the other, and two instants, so that an operation is queued again
with a later intent.
`Registry` restarts once with stale snapshot times and lets a name be pruned and
registered again. `Brokers` has a third process id so that a broker can be replaced
while something else runs under the first one's, and so that a third is started while two
rivals are up; two mints are a number and the one that repeats it, and one tick separates
a boot clock above every number from one below. In `Owners` three ids are two rival
launchers and a program under a dead owner's id, and six owner ids are one more than the
table and the launchers can refer to. In `Wire` a buffer smaller than a frame, and bodies
of several sizes, one of them too long for a frame in either direction, make every cut of
a frame across writes and reads happen.

Deadlock checking is off in `Outbox`, where everybody may have finished, in `CodexHost`,
where nobody has to launch the next session, in `Registry` and `Brokers`, where the
bounds on clock, tokens, mints and kills end the run, and in `Wire`, where the
connection ends.

The type invariants of `AskLedger`, `Outbox`, `CodexHost` and `Registry` are not run: they
are proved (section 5).

Fairness. `AskLedger!FairSpec` assumes that the clock advances and that sweeps recur:
the sweep timer (`server.ts`) is backed by `selfHealingSweeps`, which runs an overdue
sweep inside the next request. `Outbox!FairSpec` assumes that a stopped broker is
started again (launchd's `KeepAlive`) and that a running one continues what it has
begun, starting with the replay at boot. `CodexHost!FairSpec` assumes that the launcher's
loop goes on (each await is bounded by a timeout), that the App Server works on each turn
and ends it, and that a lease runs out. `Wake!FairSpec` assumes that the watcher's loop
comes round and is answered, and that a hook that was run ends or dies; no turn has to be
opened. `Brokers!FairSpec` assumes that launchd starts a broker again and again (strong
fairness: a start under whatever process id is free at the time), that a process that
boots goes on, and that a degraded client's one operation ends. `Owners!FairSpec` assumes the launcher's one-second loop.
`Wire!FairSpec` assumes that the kernel moves bytes and both event loops handle what has
arrived; it does NOT assume the client's deadline, so `Answered` is about calls that end
by themselves. Nothing is assumed of agents, recipients or clients: nobody ever has to
read, answer, retry or cancel.

Conditions in properties. Some promises hold only where nobody has spoiled their
ground, and the property says so instead of the model leaving it out:
`NewMailWakes` excepts mail whose session has lost its name or got another watcher;
`BrokerComesBack` asks that the process id left in the pidfile is not kept by another
program for good, and that rivals are gone some day: while one that is in the pidfile
lives on, every start gives up, although the one that had the socket was killed;
`FollowsInTheEnd` asks the same of a crashed owner's id; `TokenIsOnFile` excepts names
whose token was lost on the way (`orphaned`). `OneBrokerUnlessRaced` and
`RewindsOnlyIfShared` name in their conditions the one way in which each is broken, so
they say that nothing else breaks it: no kill, stale pidfile or socket, reused process id,
half-done bump or lost store, and no number of starts and degraded clients one after the
other; and that it is mended once the condition has passed.

Refinement. `KeepsContract` is `AskContract!Spec` under the mapping `StandingOf`
(the message row and the awaiting row give the standing) and `HeardOf` (answers,
partial answers and refusals together). It says that a standing moves only along the
contract's edges, that an answer settles or leaves open but never reopens, and that
nothing is sent as an answer to an ask that was cancelled while open.

## 4. Where the code and its documentation differ

Two of these have a run that TLC finds violated; PROJECT.json quotes both sides.

| run | documented | what the code does |
|---|---|---|
| `wake_baseline` | "so new ipc mail wakes an idle session with no human turn", what was there before being handed over by the drain | the baseline is the first answer the watcher gets, whenever that is; mail that came after the drain and before it wakes nobody |
| `double_start` | "A double start is harmless (socket bind fails)" | both starts read no live pid; when the first is up and in the pidfile the second still unlinks its socket and binds the path |

The others have a configuration beside the runs, `tlc -config X.cfg MCY`, and TLC finds
each violated:

| configuration | documented | what the code does |
|---|---|---|
| `AskLedger_CancelRefusesLaterReplies` | after a cancel "a later reply to it is refused" (`mcpServer.ts:118`) | a cancel of a parked ask changes no row and still answers `cancelled: true`; a later reply is delivered |
| `AskLedger_CancelTellsWhoSaw` | "A recipient who SAW the ask is told it was withdrawn" (`router.ts:1148`) | not one who accepted it, or whose copy a partial answer or a read consumed |
| `Outbox_RetryAddsNoPeer` | "A retry must never add peers that appeared after the original send" (`router.ts:396`) | of two racing attempts the loser of `INSERT OR IGNORE` still enqueues its own targets |
| `Outbox_AnswerCloses` | "`ipc_reply` is terminal and closes it" (`docs/06-security-and-ops.md:115`) | the awaiting row is written last, with `INSERT OR REPLACE`; an answer that came before it is undone |
| `ProjectMail_SenderIsNotAsked` | "the sender does not receive, owe, or get chased for its own project ask" (`docs/07-codex-host.md:90`) | it does under an alias registered after the sending alias was pruned |
| `CodexHost_FollowsTui` | "A top-level switch changes the owner record [...] The next batch uses the new thread" (`docs/07-codex-host.md:75`) | going to another thread and back before the loop has followed leaves the host on the thread the user has left |
| `CodexHost_FollowsTopLevelOnly` | "reads a resume candidate before following it and ignores [...] subagents" (`docs/07-codex-host.md:73`) | the candidate read and the candidate followed can be different ones |
| `Brokers_CursorNeverRewinds` | "Cursor never rewinds: [...] still mints above every seq handed out" (`sqliteBackend.ts:228`) | each process that has the store open counts from its own copy and writes it as it is: two that overlap, brokers or degraded clients, hand out a number twice |
| `Wake_LiveSessionKeepsItsName` | "deleting a live session's alias file deafens it" and is avoided (`sweeper.ts:24`) | a session idle for the registry's retention is pruned and its untouched alias file goes with it, alive or not |

Met while modelling, without a configuration: a hook whose name was refused tells the
user the session id while the other hooks and the watcher go by the derived alias
(`sessionStart.ts:94`); the block marker of a project ask is one for all members, so only
the first is blocked (`stop.ts:112`); an alias file that outlives its session lets the
session drain a successor's box (`router.ts:761`); frames that are fine but share a
chunk with a malformed one are dropped with it; an answer over the frame limit is refused
after the request has been carried out, a consuming read included (`server.ts:87-96`);
a bare Codex launch runs under its alias before `acquireOwner` looks at it
(`main.ts:168-185`), and its late `leave` can retire the name its successor has just
taken, until the next heartbeat (`main.ts:361`).

## 5. What is proved

TLAPS proves, for every value of the constants that satisfies the named assumptions
(`LedgerAssumption`, `SentinelAssumption`, `OutboxAssumption`, `MailAssumption`,
`HostAssumption`, `CandidateAssumption`, `OwnersAssumption`, `BrokersAssumption`,
`RegistryAssumption`, `WakeAssumption`, `StoresAssumption`, `WireAssumption`: the windows
and sizes are numbers, a reply-by is a number or `None`, sentinels are not data, there are
more owner ids than the table and the launchers can refer to, a refusal fits a frame):

- `AskLedgerProofs`: `TypeCorrect`, `LedgerCorrect`, and from it `ReleaseOnTime`,
  `PostsMatchClosure`, `NudgesBounded`. None of the three is inductive alone.
  `LedgerInv` adds that the tables agree on which asks exist (`RowsAgree`); that an open
  ask has not had its last call, without which a sweep that finds `stage` = 2 would skip
  the release; that the last sweep is not in the future, so that a new ask's deadline
  lies after it; and a budget (`NudgeBudget`) in which a stage of 0 and a copy that
  can still be snoozed count as nudges to come. The action properties `ClosedForGood`,
  `SettledForGood`, `HiddenByRecipient` follow from it step by step, and
  `BrokerKeepsContract` shows the refinement: the empty tables are an initial state of
  `AskContract`, and each step of the ledger moves every ask along the contract's edges
  or leaves it (`StepMoves`), which needs `LedgerInv` to know that a stored ask has an
  awaiting row and a purged one was closed.
- `OutboxProofs`: `ReportedSendsAreComplete`, `OutboxLosesNothing`, `OutboxTypes`.
  `SendInv` strengthens completeness to every step of a writer: from `routing` on its
  message is stored, from `opening` on its rows are there; and it says of the
  broker's record that a replayed intent is one still to do (`BrokerOK`). The purge is
  why it holds only together: rows vanish, but never under a writer.
- `ProjectMailProofs`: `OneWorkerAlways`, `SettledOffBoard`, `InjectedAtMostOnce`,
  `MailTypes`.
  `WorkInv` adds that a worker is reachable, which is what an accept by somebody else
  tests before it releases a claim; `HandedInv` that nobody has been handed an ask
  whose row is still queued.
- `CodexHostProofs`: `SavedBeforeAck`, `WrittenOnce`, `HostTypes`. `HostInv` has three
  parts that need each other. `Belief`: the cache is true of the host's thread, and
  complete whenever it counts as loaded, except while a delivery is awaited.
  `Unwritten`: what a turn has yet to write is not in the history; a turn is started with
  exactly what a complete cache misses. `FreshIsEmpty`: a thread announced as new has
  been delivered to by nobody, is announced once and before any other event about it;
  this is what entitles `switchThread` to skip reading its history.
- `CodexHostProofs`, last part: `OneHostAlways`, `OwnersTypes`, of `Owners` through the
  instance `O`. The two belong together: `Owners` decides between launchers what
  `CodexHost` takes for granted of one, and both call the launcher's variables `thread`,
  `pending` and `lease`, so the instance calls them `into`, `wanted` and `token`; its
  assumption is the hypothesis `OwnersConstants`. `OwnersInv` says of each launcher with a
  lease that the row of its thread is its own to the letter (`OwnsItsRow`), that owner
  ids are pairwise different (`LeasesApart`: a row under replacement is let through by
  its id, so two launchers with one id could displace each other), and of the table that
  an alias has one active row (`OneRowPerAlias`). That a fresh id exists is an argument
  about cardinalities (`NewIdIsNew`): rows and launchers refer to fewer ids than there are.
- `StoresProofs`: `Agreement`, `EventsMatchChanges`, `EventsAlike`, `StoresTypes`, all from
  `StoresInvariant`. `TypeOK` and `StoresAgree` together are not inductive. Keys must be
  unique, or an UPDATE that meets two rows has one entry in memory to answer it; a copy's
  message must still be there, or the joins of SQLite lose a row that memory has; a message
  id must be new to every table and map (`Grounded`), or a first send finds a lease, a
  route or an ask of its own. And leases agree only where the copy can be leased
  (`CopiesAgree`): memory drops the lease of a settled copy where SQLite leaves it in the
  row, and what makes up for it is that no call makes such a copy leasable again. Each call has
  a lemma that it keeps the three parts of `StoresInv` and returns the same from both;
  the UPDATEs go through one lemma on rewriting rows (`RewriteAgrees`), the events through
  another (`RewriteMoves`). `SameStateHolds`, `SameAnswersHold` and `SameRecordsHold` then
  derive `StoresAgree`: two answers are counts, for which `SameCardinality` has the
  bijection between rows and keys.
- `WireProofs`: `WireIntact`, `WireTypes`, for any number of requests, any sizes and any
  buffer of the kernel. `WireInv` speaks of streams: what a decoder holds, what is in the
  socket and what the sender has yet to write are, joined, the frames that have not been
  decoded (`Stream`), up to the bytes that a side took with it when it let go (`lost`).
  Upwards these are the requests that were asked, downwards the replies to what was
  handled (`RequestsArrive`, `AnswersArrive`), and the requests handled are the first ones in order
  until a chunk is dropped (`InOrder`). `PumpKeepsOrder` is the hand-made backpressure: what
  a write takes and what it leaves over is what was there, in order. `DecodedFrames` says
  what the decoder makes of a prefix of a stream: the frames that are complete in it, and
  the rest of the stream; `FrontDeclares`, that what stands at the front of
  a stream declares the next frame's length. Wholeness follows for the client: what it decodes parses, and every frame the
  broker has written fits (`Proper`), so its decoder never throws. `ChunkServed` and `ChunkReplies` say what the broker does with a
  chunk of them. These are statements about functions that recur over data, and there is
  no induction rule to cite. They are proved by a least counterexample instead: the numbers at which
  a statement fails have a least member (`HasLeast`, from the library's theorems that
  numbers are well founded under `<`), and that member leads to a contradiction.
- `WireProofs`, last part, of `Brokers` through the instance `B`, under its assumption as a
  hypothesis: `OneBrokerAlways`, `CursorOnlyGrows` and `BrokersTypes`, with no assumption
  on when brokers are started or degraded clients come. `BrokerInv` follows a start
  through its four steps: unless starts have raced, who is up is in the pidfile, and once
  a start has passed its look at the pidfile nobody else is up or past it. `CursorInv`
  says that unless the store is shared one process at most has it open, and every number
  handed out is at most that one's copy of the counter and at most what a restart would
  resume from; a lost store is why the latter is about the larger of counter and boot
  clock and not about the counter.
- `RegistryProofs`: `SnapshotAlwaysHoldsRoster`, `SiblingsAlwaysAgeTogether`,
  `LeaveAlwaysSticks`, `TokenAlwaysOnFile`, `RegistryTypes`. A restart reads the snapshot,
  so `RegInv` asks of the snapshot what the properties ask of the roster: its names age
  together, its retired names have left, its tokens are in their files; and that it
  covers the roster while a broker is up. That nobody but a service itself has the
  service's synthetic session id (`FitsIn`) is why a session that registers a
  service's alias, and so touches its own siblings and not the service's, cannot part two
  names. `OwnersAreKept` is the action
  property `KeepsOwners`, and needs that the snapshot covers the roster, since a
  registration decides by the one and replaces the other.
- `WakeProofs`: `BlocksOnceAlways`, `WakesOnceAlways`, `WakeTypes`. An ask that held up a
  turn has its marker, or else is purged and in no pending push (`Pushed`). The second
  half is for a turn's end that looked at the mailbox before the purge and blocks after
  it: the sweep may then take the marker of a counted block, and only because no other
  push can still hold a purged ask is there no second one. What woke the session has been
  seen by this watcher (`Printed`).

TLC has checked each of the inductive invariants `OwnersInv`, `BrokerInv`, `CursorInv`,
`RegInv`, `WakeInv` and `StoresInv` on the instances of section 3. `WireInv`
asks for sequences of any length and is beyond TLC; of it TLC has checked what follows,
`TypeOK` and `Intact`.

Shape of every proof: `Init => IInv`; one step per action of `Next`, under it one per
part of the invariant the action can disturb, usually through a lemma of its own
(`SweepInv`, `ReplyInv`, `AcceptWork`, `Mover`); `IInv => property`; a temporal step.

Model-checked only: the liveness properties `ChasedAskCloses`, `ClosedAskIsPurged`,
`OutboxDrains`, `MailIsDelivered`, `NewMailWakes`, `BrokerComesBack`, `FollowsInTheEnd` and
`Answered`. The prover does not do liveness under fairness. Every other property of a
passing run is a theorem.

## 6. What is not modelled

- Message bodies, informs and replies to informs as acts of their own, refusals of
  malformed requests: no property here tells them apart.
- The delivery rows of the broker's own notices, once appended.
- A sweep that dies halfway: the last call is posted before its stage is written, so
  the broker that comes back posts it again (planned, `SweepCrash`).
- A degraded project deliver (`client.ts:339`), a second deliverer that `ProjectMail`
  lacks.
- `await`, the digest and the asks and history queries: reads that render.
- In the stores: the order in which rows of one instant are returned (results are
  sets), the lookup by operation id (`Outbox` has it), and with it the unique index on
  that id, on which `INSERT OR IGNORE` would also pass over a message: a second message of
  an operation is caught by the lookup (`router.ts:272`, `client.ts:206`), or has the first
  one's id, which is derived from the operation (`client.ts:270`, `400-402`); the JSON of
  intents and snapshots, and the schema migrations of an older file.
- In the watcher and the hooks: the sorts of mail that do not wake, the project box, the
  exit of an orphaned watcher, logs and all rendering.
- Most of the CLI, the MCP layer, the dashboard, the monitor, the badge and the log: no
  state that another part reads. What the CLI does to shared state (register from a
  shell, starting and stopping the broker) is in `Wake` and `Brokers`.

## 7. Plan

Done: `AskLedger` with `AskContract`, `Outbox`, `ProjectMail`, `CodexHost`, `Registry`,
`Stores`, `Wake`, `Brokers`, `Owners`, `Wire`. In order of importance what is left:

1. `SweepCrash`: the sweep of one ask split into its statements, with crashes in
   between. Question: which notices can be lost or doubled.
2. The degraded project deliver as a second deliverer of `ProjectMail`.
