# A TLA+ development of ClawZ

ClawZ runs autonomous agents behind a gateway.  This directory models the parts of it
whose correctness depends on interleavings, failures and long sequences of calls, checks
them with TLC on small instances and proves the central safety properties with TLAPS for
all instances.

## 1. The system

| Part | State | Operations | Talks to |
|---|---|---|---|
| Rooms (`clawz-gateway/src/routes/rooms.rs`) | `AppState.rooms`: per room a vector of messages; the `messages` table | `send_message`, `promote_message`, `list_messages`, `append_room_message` | Postgres, event bus, room turns |
| Room turns (`routes/room_turn.rs`) | `room_turn_inflight`, a set of room ids | `queue_room_agent_turn_if_needed`, `try_acquire_room_turn`, the spawned task, `release_room_turn` | worker `run_turn` |
| Turn coordinator (`clawz-worker/src/runtime/turn_coordinator.rs`) | `room_locks` | `run_turn`, `acquire_room_lock` (polling), `release_room_lock`; `orchestrate` in `service.rs` takes the same lock | agent runtimes |
| Chat sessions (`runtime/session_run.rs`, `runtime/agent.rs`) | one transcript per session; a pipeline context per call | `execute_agent_turn`, `/compact`, `/reset`, the loop of turns | session store, pipeline, memory |
| Pipeline (`runtime/pipeline.rs`, `runtime/steps/`) | `PipelineContext` | receive, retrieve, provider, tools, governance, persist, stream | provider router, tools, governance engine |
| Session stores (`memory/session_store.rs`, `memory/postgres_session_store.rs`) | a JSONL file or a row per session | load, save, compact, reset | file system, Postgres |
| Approvals (`governance/approval.rs`, `clawz-core/src/types/governance.rs`) | registry of `ApprovalRequest`s | `request`, `approve`, `reject`, `check_status`, `expire_stale` | gateway's proposal routes, MCP server |
| Governance engine (`governance/engine.rs`, `trust.rs`, `policy.rs`) | a cache of verdicts that live 5 s, policies, trust scores | `evaluate`, `update_trust`, `add_policy` | pipeline, room turns |
| Room turn admission (`service.rs`, `providers/cost.rs`) | one runtime per agent, with a cost tracker: entries and one attribution slot | `runtime_for`, `prepare_room_turn`, `record_cost`, `finalize_room_turn` | governance engine, turn coordinator |
| Constitution, council | amendments, votes | `propose`, `vote`, `decide`, `expire_stale` | - |
| Mesh (`mesh/manager.rs`, `heartbeat.rs`, `router.rs`) | peer table, heartbeats per path, path table, route cache | heartbeat, monitor and reaper tasks, `add_peer`, `remove_peer`, `receive_heartbeat`, `send_to_peer` | fleet |
| Cron (`cron/scheduler.rs`, `store.rs`) | jobs in memory, `jobs.json`, `jobs.lock` | ticks, `execute_cron_job`, create, delete | chat sessions, channels |
| Provider router (`providers/router.rs`, `registry.rs`, `cost.rs`) | a circuit breaker per provider, the ledger of costs | `route` with retries and fallbacks, `route_stream`, `check_budget`, `record` | pipeline, fan-out, providers |
| Teams, tools, tenants' admission | queues, containers, tickets | `assign_next`, `execute_tool`, `admit`/`release` | worker service |

The gateway and, in the usual deployment, the worker are one process of many tokio tasks.
Shared state is behind `RwLock`s that are held for a few lines at a time, and a handler
goes through several of them, with database statements and whole agent turns between.  An
HTTP handler whose client hangs up is dropped where it waits.  `PROJECT.json` lists every
component, the ones not modelled included, and every hazard with its line.

What makes each part correct:

* Rooms: messages are numbered without gaps, a reader that follows its cursor misses none
  it may see, a restart loses nothing but what is beyond the limits of the load, a retry
  with a UUID stores nothing twice.
* Turns: the turns of a room are serial; no gate outlives its owner; every call ends.
* Sessions: a provider always gets a well-formed conversation; refused replies are
  forgotten; what the model is reminded of was also remembered, where there is a durable
  memory; one reply at most exceeds the budget.
* Provider router: a failing provider is left alone until its timeout, a breaker follows
  the failures of all calls, the caps hold up to the calls on their way, every call ends.
* Room turn admission: a reason to refuse is heeded within the life of a verdict; what a
  turn spends is charged to the room that was admitted, and to no other.
* Cron: one tick at a time over all processes, no occurrence run twice once it was run to
  the end, the lock given back whatever fails, unless the process ends or cannot remove it.
* Mesh: the state of a path and its count agree, the manager's table, the heartbeats and
  the routes name the same peers, the router follows the heartbeats.
* Approvals: quorum of distinct voters, before the deadline, no vote revives a denied
  request, a replaced request is closed.

## 2. Modules

| Module | Models | Extends / instance of |
|---|---|---|
| `RoomSerial` | abstract: one turn at a time per room | - |
| `RoomTurns` | room messages, turns, both gates, storage, restarts | instances of `RoomSerial`: `Gate`, `Lock` |
| `AgentSession` | chat calls, the pipeline of a turn, session stores | - |
| `Proposals` | approval workflow and the handlers around it | - |
| `RoomTurns_proofs` | theorems about the messages of `RoomTurns` | `RoomTurns`, TLAPS |
| `RoomGates_proofs` | theorems about its gates | `RoomTurns_proofs` |
| `AgentSession_proofs` | theorems about `AgentSession` | `AgentSession`, TLAPS |
| `Proposals_proofs` | theorems about `Proposals` | `Proposals`, TLAPS |
| `Failover` | the provider router's breakers, retries, fallbacks and caps | - |
| `Failover_proofs` | theorems about `Failover` | `Failover`, TLAPS |
| `Verdicts` | the governance engine: scores, policies, the cache of verdicts | - |
| `TurnAdmission` | admission of room turns, runtimes, attribution of costs | composes `Verdicts` (EXTENDS) |
| `TurnAdmission_proofs` | theorems about both | `TurnAdmission`, TLAPS |
| `CronJobs` | schedulers, the job file and its lock, in several processes | - |
| `CronJobs_proofs` | theorems about `CronJobs` | `CronJobs`, TLAPS |
| `MeshPeers` | a mesh node's peers, heartbeats, routes and background tasks | - |
| `MeshPeers_proofs` | theorems about `MeshPeers` | `MeshPeers`, TLAPS |
| `MCRoomTurns`, `MCAgentSession`, `MCProposals`, `MCFailover`, `MCTurnAdmission`, `MCCronJobs`, `MCMeshPeers` | symmetry or constants for TLC | the module they are named after |

**RoomTurns.** A request is one handler call; `pc` is the point between two critical
sections where it waits.  `log` is `RoomRecord.messages`, `rows` the table, `inflight` and
`roomLock` the two gates.  `SendMessage`, `PromoteMessage`, `OrchestrateRoom` and `RunTurn`
are arrivals.  With a database an append is `FindDuplicate`, `SelectSeqNumber`,
`InsertRow`, `PushMessage`, four steps because other requests run between them; without
one it is `PushMessage` alone.  `QueueTurn`, `StartTurn`, `FinishTurn`, a second append
and `ReleaseTurn` are the turn's task.  `LockRoom`/`UnlockRoom` are the worker's side.
`Disconnect` drops a handler, `DatabaseFails` fails a statement (the INSERT may have been
committed all the same), `Restart` rebuilds vectors from the table and loses the rest: it
loads the rooms in `loaded`, as many as `LoadRooms` or, when the load fails, none, and of
each the first `LoadMessages` rows by number, equal numbers in any order (`Selected`).
`PolledRooms` are the rooms with a reader.  A client message id is a member of
`ClientIds`; the column takes those in `Uuids`, any other becomes NULL (`Parsed`), for
which neither the look-up nor the unique index applies.  The history `sent` keeps what
each caller sent, so that `StoredOnce` speaks of callers and not of the column.

**AgentSession.** A call is one `execute_agent_turn` (or a compaction, or a reset).
`Load`, then per turn `StartTurn`, `Prompt`, `ExecuteTools`, `Govern`, `Persist` in the
order of `build_pipeline`, then `Save` and, for the file store, `Write`: creating the file
empties it before it is written, so a crash or another call may come in between.  A
message is who produced it, in which turn, and its kind; text is left out.  A tool call
has an "output", what a tool returned, whose `tool_call_id` is empty, or a "result", an
error the step made and labelled itself.  `row` and `file` are both transcripts of a
session: with Postgres each operation asks anew whether its table is there (`UsesRow`) and
falls back to the file, so the two may differ and each load may find either (`Found`).
Every load, reset, save and write may fail; a failing write leaves nothing, a garbled file
or a prefix (`WriteSome`), and the history `torn` keeps the last message of such a prefix.
`backend[c]` is what `create_memory_backend` gave the call's runtime: `memory` is all that
databases hold, `scratch` what in-memory backends do, which a `Crash` empties.  Memory is
never read by a call, so one set for all databases and one for all in-process backends
lose nothing the properties tell apart.

**Proposals.** Each operation of `ApprovalWorkflow` is one action, since it holds the
registry's lock from beginning to end; a handler is a sequence of them (`pc`): an update
is `Read`, `Reject`, `RequestApproval`, `Answer`.  The clock is the set `late` of requests
whose deadline has passed; `Elapse` adds to it at any time.  `ExpireStale` stands for
`check_status` and `expire_stale`, public operations that only tests call.

**Failover.** A call is one `route` or `route_stream`; a place in `Calls` makes one after
another.  Its `pc` is what it waits for: the ledger (`Arrive` reads the day's total and
`CheckMonth` the month's), the breakers' lock (`Skip`, `Pass`, `RecordSuccess`,
`RecordFailure`), the provider (`ChatOk`, `ChatRetry`, `ChatFail`) or the ledger again
(`Bill`).  The time since `opened_at` is the set `due` of breakers whose timeout has
passed; `Expire` adds to it, opening takes out of it.  `Bill` is a
step of its own although `route` still holds the lock of the breakers there, which allows
more interleavings than the code.  A fallback chain never leaves its
provider, so providers share the ledger only.  `hits` counts requests sent while a breaker
is open, for `OpenDrains`.  `Drop` is a call that `FanOut` times out or whose client left.

**Verdicts** and **TurnAdmission.**  `Verdicts` is the engine: an evaluation is `Look`,
`ReadTrust`, `ReadPolicies`, `Store`, four sections under four locks, between which scores
and policies change (`UpdateTrust`, `AddPolicy`) and time passes.  The guardrails see the
same action for every room turn and are left out; of a policy only its effect on a key is
kept.  `TurnAdmission` puts the worker's turn around it: `Reuse`, `Rebuild` and `Build`
are `runtime_for`, `CheckBudget` to `Admit` or `Refuse` are `prepare_room_turn`, `Answer`
and `Record` the two halves of `record_cost`, `Finalize` clears the slot.  A direct chat
takes the runtime and goes straight to its turn.  A room turn is tested against the
budget only if its request brings a room snapshot with a cap: `CheckBudget` may let any
turn pass.  `Drop` ends a call where it waits.  The
histories `lowSince` and `policySince` say since when a reason to refuse holds, `mixed`
which calls had company on their runtime.

**CronJobs.**  A thread is a scheduler or an API call.  A tick is `Tick` (the interval
fires; the lock is taken or the tick skipped), `ListDue`, and for each due job `RunNext`,
`Get`, `Turn`, `Deliver`, `Mark`, `Snapshot`, `Write`, then `TickEnds`, which removes the
lock file or fails to.  A tick is skipped when the file is there, and also when it cannot
be created.  The history `orphaned` names the processes that left their lock file behind,
by ending in a tick or by a removal that failed.  Memory (`mem`), read at `Start`, and the
file are apart, as in the code: each process writes the whole file from its own memory.
Writes may fail, overlap, or be cut short by a `Crash`; `Torn` is a file that does not
parse, which `Start` takes for empty.

**MeshPeers.**  Each action is one section under one of four locks.  The heartbeat task is
`TickMissed`, `ListBeats`, and per peer and path `Receive`, `Upsert`, `Invalidate`, then
`ReadStatus` and `Apply`; the monitor is `ListPeers`, `Snapshot`, `MarkPath`, `Invalidate`,
`ReadDown`, `Apply`; the reaper `ListStale`, `Unpeer`, `Unbeat`, `Unroute`, `Forget`.
Calls add, remove and send to peers and answer for them, again and again.  Timeouts are
noticed at any tick, stale peers are any that are down, cached routes expire at any time.
`raced` is the history of peers that were added while they were being removed.

## 3. Runs

| Run | Instance | Shows |
|---|---|---|
| `RoomTurns` | 2 requests, 2 rooms (one without agents), 2 client ids of which 1 is a UUID, both backends, one request with an impatient client and failing statements, 1 restart that loads 1 room and 2 messages of it | types, `DurableBeforeVisible`, `StoredOnce`, `ForgottenBeyondLoad`, both refinements, `CallsSettle` |
| `RoomTurnsThree` | 3 requests on one room, no database, every client impatient, pages of 1 | `GateExact`, `LockExact`, `LogDense`, `NoMessageSkipped` |
| `RoomTurnsOverlap` | 2 requests, memory | violates `OneTurnPerRoom` |
| `RoomTurnsSeq` | 2 requests, Postgres | violates `NumbersIncrease` |
| `AgentSession` | 2 calls on 1 session, both stores, each runtime with or without a durable memory, 2 turns, budget 1, prices 0 and 2, keep 2, 1 crash | the six properties of sessions |
| `AgentSessionStale` | 2 calls | violates `ToolCallOnce` |
| `Proposals` | 2 requests, 4 calls, 2 approvers, both needed | the five properties of approvals |
| `Failover` | 2 calls at once, 1 provider with 1 fallback, threshold 2, 2 retries, caps 1 and 2, prices 0-2 | the six properties of the router |
| `TurnAdmission` | 2 calls, 1 agent, 2 rooms, cap and answers 1, scores 0-2, verdicts live 1 of 2 time units, 2 changes | the four properties of admission |
| `CronJobs` | 2 processes, 1 API call, 1 job every period of 2, window 3, times 0-3, 1 fault of any kind | the four properties of cron |
| `MeshPeers` | 1 peer with 1 path, 1 call at a time, suspect at 2 misses, down at 3 | the four properties of the mesh |
| `ProposalsTerminal` | 2 requests, 3 calls, 1 or 2 approvals needed | violates `TerminalStates` |

*Bounds.* Every race listed under "hazards" is between two requests on one room, session
or proposal; two reach each of them.  Three requests in one room add a waiter behind a
waiter and a reader that pages over two concurrent appends; the second room shows that
gates of different rooms do not interfere.  One client id of each kind suffices, because
ids are only compared for equality within a room.  A load of one room of two and two
messages of up to four leaves out rooms and messages, as 5,000 and 10,000 do.  Two turns
per chat are the least in which a turn meets the messages of an earlier one, and two calls
in sequence on a session let the second meet the transcript of the first.  Prices of 0 and
2 against a budget of 1 keep a call below it or overdraw it; that a price reaches it
exactly is left to the proof. The view of that run (`OfLiveCalls`) merges states that
differ in what an ended call held or in `ran`: no action reads either, and the properties
of the run either do not mention them or had to hold of the same values when the call was
alive.  Four calls let two votes, an update and a deletion (or two updates) overlap, and
two ids hold a request and its replacement. For the router, two calls at once are what it
takes for a success or a failure to be recorded after another call opened the breaker;
places are used again and again, so a breaker opens, half-opens and opens again any number
of times, and the caps are reached from any side.  A second provider would only multiply
the states. For admission, two calls of one agent are two turns, two chats, or one of
each, on one runtime or two; two rooms are needed to charge the wrong one, and a change
and its reversal are two changes.  With verdicts that live one unit a time of two lets a
verdict expire.  Two processes fight for the tick lock; time 3 with period 2 holds two
ticks with overlapping windows, and a run that takes longer than a tick.  A fault is a
crash, a failed write or a lock file that cannot be removed; one is enough to leave the
lock file or a torn file, and `LockFreed` makes an exception for the last and the first in
the tick's own process only.  In the mesh peers do not interact, and threads go round for
ever, so every task meets every other at every point; the thresholds keep their order, 2
and 3 for 3 and 5. Restarts and crashes are bounded by `MaxRestarts`, `MaxCrashes` and
`MaxFaults`; one of them already separates what is stored from what is not.  Every mutant
in `PROJECT.json` is a small slip in the code (a forgotten release, one vote too few, an
unindexed look-up) that its property detects on the same instance.

*Deadlock* is checked for `MeshPeers`, whose tasks never end.  Of the other modules,
`Failover` may stop when no call arrives and `CronJobs` when time has come to `MaxTime`;
in the rest the calls are finite and the system stops when all have settled.

*Fairness.* `RoomTurns` assumes weak fairness of `Proceed(q)` for every request: the tokio
runtime polls every task that is ready, and a task that is not dropped takes its next
step.  Nothing is assumed of clients, of the reader, of failures or of restarts.  A waiter
for the room lock polls every 25 ms and may find it taken each time; weak fairness
suffices because only finitely many calls can overtake it.  `Failover` assumes the same of
`Proceed(c)`: locks are fair, sleeps are finite, and the HTTP client gives up after 120 s;
no new call, no timeout of a breaker and no new day is assumed.  `CronJobs` assumes it of
each scheduler and each thread, but neither that time passes nor that a process crashes
or starts.  `MeshPeers` assumes it of the monitor (its interval fires for ever), of calls
that have started, and of the expiry of a cached route (time passes); nothing is asked of
the heartbeat task, of the reaper or of new calls.  The other modules state no liveness.

## 4. Where the code and its documents disagree

* `OneTurnPerRoom`: "serializes concurrent turns per room" (`turn_coordinator.rs`) holds of
  each gate separately (`GateSerial`, `LockSerial`) but not of the room, because the
  gateway's task sets `room_lock_held` without holding the worker's lock.
* `NumbersIncrease`: with a database the number of a message and its place in the vector come
  from different critical sections.  Without one, `LogDense` shows what is intended.
* `ToolCallOnce`: `extract_tool_calls` skips replies without tool calls and so finds and
  executes those of an earlier reply again.
* `TerminalStates`: `reject` and the expiry branch of `approve` do not look at the status.

More, seen while modelling and not given a run of their own:

* "When `client_message_id` is set and already exists for the room, returns the existing
  message sequence without inserting a duplicate" (`db.rs:1096`) holds of UUIDs only
  (`StoredOnce`).  `parse_client_message_id` (`postgres_store.rs:659`) drops any other id,
  and the web client sends `String(Date.now())` where there is no `crypto.randomUUID`
  (`ChatPanel.tsx:383`): a retry then stores a second message.
* "Rooms, messages (server-assigned `seq`), ... survive restarts" (`README.md:347`) holds up
  to 5,000 rooms and the 10,000 *oldest* messages of each (`postgres_store.rs:702,716`,
  `db.rs:1302`): in a longer room the newest messages are in the table but are no longer
  listed, and a load that fails leaves the gateway without rooms
  (`ForgottenBeyondLoad` says that nothing else is lost).
* The budget is tested before each turn "so we never exceed the cap" (`agent.rs:587`), and
  the API calls it a "Hard cap on accumulated USD spend" (`routes/agents.rs:129`).  The
  test knows what earlier turns cost, so the reply of the last turn may exceed the cap by
  almost its whole price.  `BudgetHolds` says that no more than that happens.
* A tool call's id is "used to correlate results" (`types/tool.rs:19`), but
  `ExecuteToolsStep` passes on what a tool returns (`tools.rs:196-200`), and the tools of
  the worker return an empty `tool_call_id` (`calculator.rs:101`, `shell.rs:187`); only the
  errors the step makes itself name their call.  A provider must tell the outputs of one
  reply apart by their order.  `PromptsAnswered` therefore speaks of the place of an
  outcome, right behind its reply, and not of its id.
* "Only approved messages are saved to durable storage" (`persist.rs:36`), but without a
  reachable database `create_memory_backend` (`sqlite.rs:541-579`) gives each runtime an
  in-process memory of its own (`service.rs:269`), which is lost with it while the
  transcript stays.  `RepliesRemembered` is stated for runtimes with a durable one.
* "Failure threshold exceeded - requests blocked until timeout elapses" (`router.rs:203`)
  and "retry with exponential backoff within circuit breaker limits"
  (`docs/user-manual.md:347`): the breaker is asked once per model, and the retries of a
  call that has passed go on although another call opened it meanwhile.  `OpenDrains`
  bounds how many.
* `PostgresSessionStore` takes the file whenever the query for its table fails, for that
  one operation: a session may be loaded from one place and saved to the other, and a
  later save may replace the longer of the two.
* `FileSessionStore` empties the file before it writes it: a write that fails leaves it
  empty, cut short, or with a last line that fails every later load of the session.
* `build_pipeline` (`agent.rs:401-437`) puts tools before governance, so the tools of a
  turn have run when governance denies it, while the manual (`docs/user-manual.md:143`)
  lets governance decide before.
* The manual's "half-open state tests recovery before full traffic resumes" is not what
  the router does: every call passes a half-open breaker, and a failed probe is one of
  `threshold` failures.  A successful stream neither closes a breaker nor is billed.
* A policy "takes effect on the next call to `evaluate`" (`engine.rs:201`) only if no
  verdict is cached for that call.  `deny_below_trust` is compared with `<`, and
  `update_trust` scales by 100 what its comment maps to 0-1000.  A cached verdict leaves
  no audit entry.
* `is_job_due` is to say whether a job "should fire within the last `tick_secs` window"
  (`scheduler.rs:27`), but a run less than a window old suppresses the next one: a job
  that is due at every tick runs at every second one.
* The tick lock is "multi-process safe" as far as exclusion goes (`TickExclusive`), but
  nobody removes the file of a process that crashed (or a file whose removal failed: the
  result is not looked at), and each process has its own memory
  of what was run, so two processes that tick after one another run the same occurrence.
* The diagram of `heartbeat.rs:9-14` leads from Down by a pong to Active; the code stays at
  Recovering however many pongs arrive, and one more miss makes a recovering path Active.
  A peer in state Discovered is not activated by `receive_heartbeat`.

## 5. Proofs

All theorems hold for any sets of rooms, requests, ids, calls and approvers and any
bounds; they use only the named assumptions of the modules (of `RoomTurns`: agent rooms
are rooms, the null client id is none, the backends are the two known ones, the bounds and
the limits of a load are naturals; of `Failover`: finitely many calls, positive
thresholds, chains and caps; of `Proposals`: the null id is none, approvers are finitely
many and `Required` is a set of naturals; of `Verdicts` and `TurnAdmission`: the
thresholds and the cap are naturals, a verdict lives for some time, changes of scores are
integers; of `AgentSession`: there is a session, the stores and the kinds of memory are
the known ones, turns, budget and what a compaction keeps are positive, prices are
naturals; of `CronJobs`: there is a process, processes and calls are apart, a schedule is
a set of naturals, the period is positive; of `MeshPeers`: the tasks are three and are no
callers, a path is suspect before it is down, and the null value is none of the values).

* **Numbering** (`RoomTurns_proofs`).  `LogDense` is not inductive: a message that enters
  the vector with a number already set would break it.  The invariant adds that only a
  request with a database is ever at the steps that set a number (`StepsOfBackend`), and
  `RowsNumbered`, that the numbers in the table are positive and bounded by one of them,
  which makes `NextSeq` a number.  `SpecTypeOK` and `SpecLogDense` follow.
* **Gates** (`RoomGates_proofs`).  Every step is classified by what it does to the gate: it
  keeps, takes, gives back or resets it.  `GateExact` is then inductive together with one
  fact: a retry's look-up copies the number and author of the stored row into the request,
  so only users' messages may carry client ids (`RepliesUnnamed`), else a reply could
  become a user's message and its task would no longer count as the owner.  `GateSerial`
  and `LockSerial`, the refinements of `RoomSerial`, use exactness in each step: `Enter`
  needs the gate empty, and it is empty because the room is not in the set.
* **Storage** (`RoomTurns_proofs`).  `StoredOnce` speaks of what callers sent, so it takes more
  than the guard of the INSERT, which gives `IndexUnique`: `IdsAreSent` ties a user's message
  and row to its caller's id, as far as the column takes it, along the whole append
  (converting twice changes nothing, `ParsedTwice`).
  `DurableBeforeVisible` needs `PushedIsStored` (who is about to push has its row, under the
  number it will push) and that rows only grow.  `ForgottenBeyondLoad` needs what a limited
  and ordered selection of a finite table leaves out: a row that is not selected meets a
  full selection of no larger numbers (`SelectedMisses`), and the previous theorem, under
  the same number.
* **The reader** (`RoomTurns_proofs`).  A page is not a prefix but the visible positions
  with fewer than `Limit` visible ones between the cursor and them, so the proof is on
  positions and cardinalities: a page has no gap below its last position
  (`PageIsClosed`).  `NoMessageSkipped` is inductive with `LogDense` once it is told that
  the cursor never passes the vector's end (`ReaderGiven`): what is appended next is
  numbered above every cursor that was handed out.
* **Sessions** (`AgentSession_proofs`).  A context is appended to, cut to its end and
  filtered.  A first part says what each of the three does to the *set* of its messages
  (`AppendSaves`, `SuffixIsSeq`, `RetainedSaves`) and to the outcomes behind its tool calls
  (`AppendAnswers`, `ResultsAnswer`, `SuffixAnswered`, and `PrefixIs` for what a failing
  write leaves); every later proof speaks of these
  only.  A second part says what a step does to a call (`CallStep`: it keeps its context,
  begins, loads, says, executes or declines), to a transcript, row or file
  (`TranscriptStep`: it stays, is emptied or becomes a prefix of what a call saves) and to
  the memories (`MemoryStep`: the durable one grows, the other grows or is emptied).
  `Latest`, a CHOOSE of a greatest position, needs that a bounded set of naturals has one:
  induction, which is taken from well-foundedness of `<` (`LeastNat`) because the provers cannot
  instantiate the library's induction theorems, which take a predicate.  On top of that:
  * `SpecTypeOK` with `TurnsCounted` (who starts a turn has one left), `SpecBudgetHolds`
    with `WithinBudget` (who prompts has not spent the budget);
  * `PromptsAnswered` from `ContextsAnswered`: between the provider and the tools only the
    last message may lack an outcome (`AnsweredButLast`), and the step that executes the
    latest tool calls, old or new, leaves none without one, but for the calls in `torn`;
  * `RepliesRemembered` from `ContextsRemembered`: the reply of the turn under way is the
    only one in a context that the memory may lack (`Unsaved`);
  * `HistoryKept` from `ContextsKept`, over the whole life of the call;
  * `RefusedNeverStored` from two invariants.  `TurnsApart`: nobody but a call holds a
    reply of the turn it is in.  `RefusedGone`: a denied turn is its call's last one, and
    its reply is in no context, no memory of either kind and no transcript.  The first is
    what makes the second inductive at the step that denies: the reply it removes from its
    own context could not have got anywhere else.
* **Approvals** (`Proposals_proofs`).  `IInv` adds to the types what a call on its way knows
  (`Underway`): its request exists, and an update that is about to open the replacement
  has closed the old one, which nothing reopens.  The steps are classified by what they do
  to the registry: nothing, one request replaced by a successor, several closed, one
  opened.  `granted = Cardinality(approvers)` is part of the types, and a lemma on
  cardinalities (`SignedCounts`) shows that signing keeps it; a quorum lasts because
  approvers are never removed.
* **Provider router** (`Failover_proofs`).  Steps are classified by what they do to a breaker
  (`BreakerStep`); `ClosedBelowThreshold` is inductive with the types and `OpenLasts` needs
  no more.  `SpendBounded` is not inductive.  `SpendInv` strengthens it: each call that
  passed the test has a place worth one answer, `spent + MaxPrice * |UnderWay|` stays below
  the cap plus all places, a call enters only while the spending is below the cap, and an
  answer that is billed gives its place up.  `OpenDrains` is a sum over calls: `Left(p)` is
  the set of attempts that calls on their way still have at a provider, and `DrainInv` says
  that requests sent and attempts left together stay within the bound.  A step that sends
  uses one of them up, the step that opens a breaker takes the tripping call's away, and no
  call gets new ones while the breaker is open.  `SpecStepsUsed` is what `CallsSettle`
  rests on besides the scheduler: a call has `StepsLeft(c)` steps, a round for each model
  that may follow in the chain and the rest of the present one; its own steps use them up
  and nothing but the next arrival gives it more.

* **Admission** (`TurnAdmission_proofs`).  `VerdictFresh` speaks of verdicts that were
  answered; `FreshInv` follows them from the look-up on: a permission, in the cache or in
  a caller's hands, was begun before every reason that holds against its key now
  (`Granted`), because the score and the policies were read after it was begun and a
  reason is noted when it comes up.  A cached permission is alive when it is looked up, so
  no reason that began after it can be as old as the property asks.  `ChargedOnlyAdmitted`
  needs that an admitted call keeps its runtime and room (`BegunStays`) and that slots and
  copies in flight name admitted rooms.  `ChargedApart` needs that two turns on a runtime
  know of each other (`Company`) and that an attribution was left by a turn under way or
  dropped (`SlotsLeft`): a direct chat that finds a runtime to itself finds its slot empty.
* **Cron** (`CronJobs_proofs`).  Every step is classified by what it does to ticks and lock
  (`TickStep`); `TickExclusive` is inductive with that and the types.  `NoRerun` is not:
  `RunInv` adds that what a tick has run is noted in `last_run_at` of a job that is still
  there (`Noted`), and that what it has still to run (`Pending`) is free of the occurrences
  that were run.  A due job has a window no earlier run reached into (`DueIsFresh`), which
  is where `last_run_at <= now - Window` is used.  A job that is deleted never comes back
  under its id.
* **Mesh** (`MeshPeers_proofs`).  `LadderAgrees` is inductive when read as the range of the
  table (`Ladder`), since each of the four transitions of a path maps agreeing states to
  agreeing states.  `Registered` needs `RegInv`: an addition and a removal of the same peer
  are under way together only if that was noted (`Apart`), a peer under removal has left
  the manager's table (`Gone`), a peer under addition has what was gone through (`Added`).
  All steps that neither add nor remove are one lemma (`QuietStep`).

Every invariant and action property of the passing runs, and both refinements, are
theorems.  Only model-checked are the liveness properties: `CallsSettle` (of both
modules), `LockFreed` and `RouterFollows`; they rest on fairness and ENABLED, which the
provers here do not reach.  The violations are TLC counterexamples.

## 6. Plan

1. Proofs: what the other liveness properties rest on besides fairness, as `SpecStepsUsed`
   does for `Failover` (a tick gets through its due jobs, a room request goes forward), and
   abstract specifications of the approvals and of the tick lock with their refinements.
2. `Convention` (constitution, council): votes and decisions from snapshots under separate
   locks; non-members' and repeated votes count.  Abstract specification: an amendment is
   decided once, by the votes cast.
3. `Admission` (tickets per tenant) and `TeamTasks` (queue, load and delegation).
4. A register per session that `AgentSession` implements when calls on a session do not
   overlap.

## 7. Not modelled

Formatting, prompts, embeddings and ranking; adapters of providers, channels, connectors
and clouds (pure I/O); event delivery to websockets; user interfaces and deployment files;
room membership changes; guardrails; the scores of routes; sub-agents spawned by a
pipeline.  A panic inside a task is not modelled.  The reasons are with each component in
`PROJECT.json`.
