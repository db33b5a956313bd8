------------------------------- MODULE RoomTurns -------------------------------
(***************************************************************************)
(* Messages and agent turns of multi-participant rooms.                    *)
(*                                                                         *)
(* A request is one call of a handler of the gateway (send_message,        *)
(* promote_message, orchestrate_room) or of the worker's run_turn.  Its pc *)
(* is where the handler waits between two steps that other requests may    *)
(* interleave with: every step below is one critical section of a tokio    *)
(* RwLock or one SQL statement.  A queued send_message goes on as the task *)
(* that spawn_room_agent_turn starts.                                      *)
(*                                                                         *)
(* The model's rooms start empty and their members stay; a side thread     *)
(* counts as private, and every caller and whoever it mentions is a member *)
(* of the room it names.  Agents answer as participants: the filter of     *)
(* append_room_message on foreign agents lets every message of the model   *)
(* through.                                                                *)
(***************************************************************************)
EXTENDS Integers, Sequences, FiniteSets

CONSTANTS
    Requests,       \* the calls that may arrive
    Rooms,
    AgentRooms,     \* the rooms with an agent participant
    PolledRooms,    \* the rooms with a member that polls list_messages
    ClientIds,      \* values of client_message_id a caller may send
    Uuids,          \* those among them that are UUIDs
    Impatient,      \* requests whose client may drop the connection
    Unlucky,        \* requests one of whose statements may fail
    Backends,       \* "memory", "postgres": AppState.db is None or Some
    Limit,          \* page size of list_messages
    LoadRooms,      \* rooms that a start of the gateway loads (5,000 in the code)
    LoadMessages,   \* messages that it loads of each room (10,000 in the code)
    MaxRestarts     \* bound on restarts of the gateway process

None == "none"      \* no client_message_id

ASSUME RoomsAssumption == Rooms # {} /\ AgentRooms \cup PolledRooms \subseteq Rooms
ASSUME ImpatientAssumption == Impatient \subseteq Requests
ASSUME UnluckyAssumption == Unlucky \subseteq Requests
ASSUME ClientIdsAssumption == Uuids \subseteq ClientIds /\ None \notin ClientIds
ASSUME BackendsAssumption == Backends \subseteq {"memory", "postgres"}
ASSUME BoundsAssumption ==
    {Limit, LoadRooms, LoadMessages} \subseteq Nat \ {0} /\ MaxRestarts \in Nat

VARIABLES
    backend,        \* whether the gateway has a database
    loaded,         \* the rooms in AppState.rooms
    log,            \* RoomRecord.messages, in the order of the vector
    rows,           \* the messages table
    inflight,       \* AppState.room_turn_inflight
    roomLock,       \* TurnCoordinator.room_locks
    pc,             \* where each request waits
    kind,           \* which handler it called
    room,           \* the room it named
    sent,           \* history: the client_message_id its caller sent
    msg,            \* the message it is appending
    cursor,         \* after_seq of a polling reader
    seen,           \* the messages the reader was given
    restarts

vars == <<backend, loaded, log, rows, inflight, roomLock, pc, kind, room, sent, msg,
          cursor, seen, restarts>>
stores == <<log, rows>>
gates == <<inflight, roomLock>>
reader == <<cursor, seen>>
call == <<kind, room, sent>>

Kinds == {"none", "send", "promote", "orchestrate", "direct"}
Senders == {"user", "agent", "system"}
Message == [from: Requests, sender: Senders, seq: Nat,
            vis: {"room", "private"}, cid: ClientIds \cup {None}]

AppendSteps == {"append", "select", "insert", "push"}
TaskSteps == {"spawned", "turn", "release"}
LockSteps == {"orchestrating", "unassigned"}
Settled == {"accepted", "conflict", "failed", "done", "gone", "abandoned"}
Steps == {"idle", "queue", "lock"} \cup AppendSteps \cup TaskSteps
            \cup LockSteps \cup Settled

Id(m) == <<m.from, m.sender>>
SeqsOf(ms) == {m.seq : m \in ms}
LogSet(r) == {log[r][i] : i \in 1 .. Len(log[r])}

\* Mutants: one below the largest, and the number of messages so far.
NextSeqDown(ms) ==
    LET seqs == SeqsOf(ms) \cup {0}
    IN  (CHOOSE n \in seqs : \A k \in seqs : k <= n) - 1
NextSeqCount(ms) == Cardinality(ms)

\* One more than the largest sequence number of a set of messages.
NextSeq(ms) ==
    LET seqs == SeqsOf(ms) \cup {0}
    IN  1 + (CHOOSE n \in seqs : \A k \in seqs : k <= n)

-------------------------------------------------------------------------------
(* Arrival of a call; a handler answers 404 for a room the gateway does not have *)

UserMessage(q, v, c) ==
    [from |-> q, sender |-> "user", seq |-> 0, vis |-> v, cid |-> c]

Arrive(q, k, r, c, step) ==
    /\ pc[q] = "idle"
    /\ pc' = [pc EXCEPT ![q] = step]
    /\ kind' = [kind EXCEPT ![q] = k]
    /\ room' = [room EXCEPT ![q] = r]
    /\ sent' = [sent EXCEPT ![q] = c]

\* send_message up to its call of append_room_message.
SendMessage(q, r, v, c) ==
    /\ r \in loaded
    /\ Arrive(q, "send", r, c, "append")
    /\ msg' = [msg EXCEPT ![q] = UserMessage(q, v, c)]
    /\ UNCHANGED <<backend, loaded, stores, gates, reader, restarts>>

\* promote_message copies a private message of a user; a request that governance
\* denies changes nothing and is left out.
PromoteMessage(q, r) ==
    /\ r \in loaded
    /\ \E m \in LogSet(r) : m.vis = "private" /\ m.sender = "user"
    /\ Arrive(q, "promote", r, None, "append")
    /\ msg' = [msg EXCEPT ![q] = UserMessage(q, "room", None)]
    /\ UNCHANGED <<backend, loaded, stores, gates, reader, restarts>>

\* orchestrate_room asks the worker to orchestrate, which waits for the room's
\* lock.  The run id it binds to the room only labels costs and is left out.
OrchestrateRoom(q, r) ==
    /\ r \in loaded
    /\ Arrive(q, "orchestrate", r, None, "lock")
    /\ UNCHANGED <<backend, loaded, stores, gates, msg, reader, restarts>>

\* A caller of the worker's control API runs a room turn without the gateway, which
\* need not know the room.
RunTurn(q, r) ==
    /\ Arrive(q, "direct", r, None, "lock")
    /\ UNCHANGED <<backend, loaded, stores, gates, msg, reader, restarts>>

-------------------------------------------------------------------------------
(* append_room_message *)

\* parse_client_message_id: the column is a UUID, and an id that is none becomes NULL.
Parsed(c) == IF c \in Uuids THEN c ELSE None

\* Mutant: neither the look-up nor the index compares client ids.
StoredUnindexed(q) == {}

\* The rows of the room that carry the message's client id; NULL equals nothing.
Stored(q) == {m \in rows[room[q]] : m.cid = Parsed(msg[q].cid) /\ m.cid # None}

\* With a database, the message is converted to a row, and the look-up of its client id
\* precedes the transaction.
FindDuplicate(q) ==
    /\ pc[q] = "append" /\ backend = "postgres"
    /\ \/ /\ Stored(q) = {}
          /\ msg' = [msg EXCEPT ![q].cid = Parsed(@)]
          /\ pc' = [pc EXCEPT ![q] = "select"]
       \/ \E m \in Stored(q) :
            /\ msg' = [msg EXCEPT ![q].seq = m.seq, ![q].from = m.from]
            /\ pc' = [pc EXCEPT ![q] = "push"]
    /\ UNCHANGED <<backend, loaded, stores, gates, call, reader, restarts>>

\* SELECT COALESCE(MAX(seq), 0) + 1 FROM messages.
SelectSeqNumber(q) ==
    /\ pc[q] = "select"
    /\ msg' = [msg EXCEPT ![q].seq = NextSeq(rows[room[q]])]
    /\ pc' = [pc EXCEPT ![q] = "insert"]
    /\ UNCHANGED <<backend, loaded, stores, gates, call, reader, restarts>>

\* INSERT and COMMIT; the unique index on (room_id, client_message_id) rejects
\* a second row with the same client id, and the handler answers with an error.
InsertRow(q) ==
    /\ pc[q] = "insert"
    /\ \/ /\ Stored(q) = {}
          /\ rows' = [rows EXCEPT ![room[q]] = @ \cup {msg[q]}]
          /\ pc' = [pc EXCEPT ![q] = "push"]
       \/ /\ Stored(q) # {}
          /\ pc' = [pc EXCEPT ![q] = "failed"]
          /\ UNCHANGED rows
    /\ UNCHANGED <<backend, loaded, log, gates, call, msg, reader, restarts>>

\* Where a handler goes once its message is in the vector.
AfterAppend(q) ==
    IF msg[q].sender # "user" THEN "release"
    ELSE IF kind[q] = "send" THEN "queue" ELSE "done"

\* Mutant: the vector is written first and the table after it.
PushStepFirst == "append"

\* Where the handler is when it takes the write lock on the rooms.
PushStep == IF backend = "memory" THEN "append" ELSE "push"

\* Under the write lock: number the message unless the database did, and push it.
PushMessage(q) ==
    /\ pc[q] = PushStep
    /\ LET r == room[q]
           seq == IF msg[q].seq = 0 THEN NextSeq(LogSet(r)) ELSE msg[q].seq
       IN  log' = [log EXCEPT ![r] = Append(@, [msg[q] EXCEPT !.seq = seq])]
    /\ pc' = [pc EXCEPT ![q] = AfterAppend(q)]
    /\ UNCHANGED <<backend, loaded, rows, gates, call, msg, reader, restarts>>

-------------------------------------------------------------------------------
(* The gateway's turn *)

\* Mutant: the gate admits a turn without looking whether one is in flight.
RoomFreeUnchecked(r) == TRUE

\* The test of try_acquire_room_turn, made under the same lock as the insert.
RoomFree(r) == r \notin inflight

\* queue_room_agent_turn_if_needed: accepted without a turn, a conflict, or the
\* room is reserved and the turn's task is spawned.
QueueTurn(q) ==
    /\ pc[q] = "queue"
    /\ \/ /\ room[q] \notin AgentRooms
          /\ pc' = [pc EXCEPT ![q] = "accepted"]
          /\ UNCHANGED inflight
       \/ /\ room[q] \in AgentRooms /\ ~RoomFree(room[q])
          /\ pc' = [pc EXCEPT ![q] = "conflict"]
          /\ UNCHANGED inflight
       \/ /\ room[q] \in AgentRooms /\ RoomFree(room[q])
          /\ inflight' = inflight \cup {room[q]}
          /\ pc' = [pc EXCEPT ![q] = "spawned"]
    /\ UNCHANGED <<backend, loaded, stores, roomLock, call, msg, reader, restarts>>

\* The task calls run_turn with room_lock_held: the worker takes no lock.
StartTurn(q) ==
    /\ pc[q] = "spawned"
    /\ pc' = [pc EXCEPT ![q] = "turn"]
    /\ UNCHANGED <<backend, loaded, stores, gates, call, msg, reader, restarts>>

\* The turn ends: the agent's reply, or the system's note that it failed.
FinishTurn(q) ==
    /\ pc[q] = "turn"
    /\ \E s \in {"agent", "system"} :
         msg' = [msg EXCEPT ![q] = [from |-> q, sender |-> s, seq |-> 0,
                                    vis |-> "room", cid |-> None]]
    /\ pc' = [pc EXCEPT ![q] = "append"]
    /\ UNCHANGED <<backend, loaded, stores, gates, call, reader, restarts>>

\* Mutant: the task ends without giving the reservation back.
InflightKept(q) == inflight

InflightAfter(q) == inflight \ {room[q]}

\* release_room_turn
ReleaseTurn(q) ==
    /\ pc[q] = "release"
    /\ inflight' = InflightAfter(q)
    /\ pc' = [pc EXCEPT ![q] = "done"]
    /\ UNCHANGED <<backend, loaded, stores, roomLock, call, msg, reader, restarts>>

-------------------------------------------------------------------------------
(* The worker's room lock *)

\* Mutant: the test is left out, as by a second poll that forgets it.
UnlockedUnchecked(r) == TRUE

Unlocked(r) == r \notin roomLock

\* acquire_room_lock polls until the room is free.  An orchestration without an
\* available member then runs no turn; a direct call always runs one.
LockRoom(q) ==
    /\ pc[q] = "lock"
    /\ Unlocked(room[q])
    /\ roomLock' = roomLock \cup {room[q]}
    /\ \/ pc' = [pc EXCEPT ![q] = "orchestrating"]
       \/ /\ kind[q] = "orchestrate"
          /\ pc' = [pc EXCEPT ![q] = "unassigned"]
    /\ UNCHANGED <<backend, loaded, stores, inflight, call, msg, reader, restarts>>

\* Mutant: an early return before the release.
LockKept(q) == roomLock

LockAfter(q) == roomLock \ {room[q]}

\* release_room_lock; the result of an orchestrated turn is not appended.
UnlockRoom(q) ==
    /\ pc[q] \in LockSteps
    /\ roomLock' = LockAfter(q)
    /\ pc' = [pc EXCEPT ![q] = "done"]
    /\ UNCHANGED <<backend, loaded, stores, inflight, call, msg, reader, restarts>>

-------------------------------------------------------------------------------
(* Environment *)

\* The client drops the connection and the server drops the handler's future.
\* A spawned task goes on; a lock taken by the handler is not given back.
Disconnect(q) ==
    /\ q \in Impatient
    /\ \/ /\ pc[q] \in {"queue", "lock"}
          /\ pc' = [pc EXCEPT ![q] = "gone"]
       \/ /\ pc[q] \in AppendSteps /\ msg[q].sender = "user"
          /\ pc' = [pc EXCEPT ![q] = "gone"]
       \/ /\ pc[q] \in LockSteps
          /\ pc' = [pc EXCEPT ![q] = "abandoned"]
    /\ UNCHANGED <<backend, loaded, stores, gates, call, msg, reader, restarts>>

\* A statement or its connection fails: a user's handler answers with an error, the task
\* of a turn goes on without its reply.  The INSERT may have been committed all the same;
\* persist_room fails when the message is in the vector already.
DatabaseFails(q) ==
    /\ q \in Unlucky /\ backend = "postgres"
    /\ \/ /\ pc[q] \in {"append", "select", "insert", "queue"}
          /\ UNCHANGED rows
       \/ /\ pc[q] = "insert" /\ Stored(q) = {}
          /\ rows' = [rows EXCEPT ![room[q]] = @ \cup {msg[q]}]
    /\ pc' = [pc EXCEPT ![q] = IF pc[q] \in AppendSteps /\ msg[q].sender # "user"
                               THEN "release" ELSE "failed"]
    /\ UNCHANGED <<backend, loaded, log, gates, call, msg, reader, restarts>>

\* SELECT * FROM messages ... ORDER BY seq LIMIT LoadMessages: rows of equal seq come in
\* any order, and those beyond the limit are of no smaller number.
Selected(table) ==
    LET size == Cardinality(table)
        count == IF size < LoadMessages THEN size ELSE LoadMessages
    IN  {s \in [1 .. count -> table] :
            /\ \A i, j \in 1 .. count : i < j => s[i] # s[j] /\ s[i].seq <= s[j].seq
            /\ \A m \in table : \/ \E i \in 1 .. count : s[i] = m
                                \/ \A i \in 1 .. count : s[i].seq <= m.seq}

\* Mutant: the table is read after seq 1 instead of after seq 0.
HydratedTail(r) == Selected({m \in rows[r] : m.seq > 1})

\* load_room_messages of a room that is loaded.
Hydrated(r) == Selected(rows[r])

\* The rooms a start may load: those of the latest activity, as many as LoadRooms; the
\* model has no clock and takes any.  A load that fails leaves the gateway without rooms.
Loads ==
    {{}} \cup {R \in SUBSET Rooms : Cardinality(R) = LoadRooms}
         \cup {R \in {Rooms} : Cardinality(R) < LoadRooms}

\* The gateway, with its worker in process, stops and starts again: what is
\* only in memory is lost and the rooms are loaded from the table.
Restart ==
    /\ backend = "postgres" /\ restarts < MaxRestarts
    /\ restarts' = restarts + 1
    /\ loaded' \in Loads
    /\ log' \in [Rooms -> {<<>>} \cup UNION {Hydrated(r) : r \in Rooms}]
    /\ \A r \in Rooms : IF r \in loaded' THEN log'[r] \in Hydrated(r) ELSE log'[r] = <<>>
    /\ inflight' = {} /\ roomLock' = {}
    /\ pc' = [q \in Requests |-> IF pc[q] \in (Settled \ {"abandoned"}) \cup {"idle"} THEN pc[q]
                                 ELSE "gone"]
    /\ UNCHANGED <<backend, rows, call, msg, reader>>

\* list_messages for a member who is neither author nor mentioned: the first
\* Limit visible messages beyond the cursor, in the order of the vector; the
\* caller's next cursor is the last one's seq.
Visible(r) == {i \in 1 .. Len(log[r]) : /\ log[r][i].seq > cursor[r]
                                        /\ log[r][i].vis = "room"}

\* Mutant: the newest visible messages instead of the next ones.
PageNewest(r) == {i \in Visible(r) : Cardinality({j \in Visible(r) : j > i}) < Limit}

Page(r) == {i \in Visible(r) : Cardinality({j \in Visible(r) : j < i}) < Limit}

ListMessages(r) ==
    /\ r \in PolledRooms \cap loaded
    /\ \E last \in Page(r) :
         /\ \A i \in Page(r) : i <= last
         /\ cursor' = [cursor EXCEPT ![r] = log[r][last].seq]
    /\ seen' = [seen EXCEPT ![r] = @ \cup {Id(log[r][i]) : i \in Page(r)}]
    /\ UNCHANGED <<backend, loaded, stores, gates, pc, call, msg, restarts>>

-------------------------------------------------------------------------------
Init ==
    /\ backend \in Backends
    /\ loaded = Rooms
    /\ log = [r \in Rooms |-> <<>>]
    /\ rows = [r \in Rooms |-> {}]
    /\ inflight = {} /\ roomLock = {}
    /\ pc = [q \in Requests |-> "idle"]
    /\ kind = [q \in Requests |-> "none"]
    /\ room = [q \in Requests |-> CHOOSE r \in Rooms : TRUE]
    /\ sent = [q \in Requests |-> None]
    /\ msg = [q \in Requests |-> UserMessage(q, "room", None)]
    /\ cursor = [r \in Rooms |-> 0]
    /\ seen = [r \in Rooms |-> {}]
    /\ restarts = 0

Arrivals(q) ==
    \E r \in Rooms :
        \/ \E v \in {"room", "private"}, c \in ClientIds \cup {None} :
             SendMessage(q, r, v, c)
        \/ PromoteMessage(q, r)
        \/ OrchestrateRoom(q, r)
        \/ RunTurn(q, r)

\* The steps of a request that has arrived, in the order it takes them.
Proceed(q) ==
    \/ FindDuplicate(q) \/ SelectSeqNumber(q) \/ InsertRow(q) \/ PushMessage(q)
    \/ QueueTurn(q) \/ StartTurn(q) \/ FinishTurn(q) \/ ReleaseTurn(q)
    \/ LockRoom(q) \/ UnlockRoom(q)

Next ==
    \/ \E q \in Requests : Arrivals(q) \/ Proceed(q) \/ Disconnect(q) \/ DatabaseFails(q)
    \/ \E r \in Rooms : ListMessages(r)
    \/ Restart

\* The runtime polls every task that is ready, so a request that can take its
\* next step takes it; nobody has to call, poll, hang up, fail or restart.  A waiter
\* for the room lock looks again every 25 ms, and may find the lock taken each
\* time it looks: it is served because the calls that overtake it are finite.
Fairness == \A q \in Requests : WF_vars(Proceed(q))

Spec == Init /\ [][Next]_vars /\ Fairness

-------------------------------------------------------------------------------
(* Properties *)

\* Types.
TypeOK ==
    /\ backend \in {"memory", "postgres"}
    /\ loaded \in SUBSET Rooms
    /\ log \in [Rooms -> Seq(Message)]
    /\ rows \in [Rooms -> SUBSET Message]
    /\ \A r \in Rooms : IsFiniteSet(rows[r])
    /\ inflight \in SUBSET Rooms
    /\ roomLock \in SUBSET Rooms
    /\ pc \in [Requests -> Steps]
    /\ kind \in [Requests -> Kinds]
    /\ room \in [Requests -> Rooms]
    /\ sent \in [Requests -> ClientIds \cup {None}]
    /\ msg \in [Requests -> Message]
    /\ cursor \in [Rooms -> Nat]
    /\ seen \in [Rooms -> SUBSET (Requests \X Senders)]
    /\ restarts \in 0 .. MaxRestarts

\* Where a request of each kind of store can be, with a message of which number.
StepsOfBackend ==
    /\ \A q \in Requests : pc[q] \in {"select", "insert", "push"} => backend = "postgres"
    /\ \A q \in Requests : pc[q] \in {"insert", "push"} => msg[q].seq >= 1
    /\ backend = "memory" => \A q \in Requests : pc[q] = "append" => msg[q].seq = 0

\* The numbers of the table are positive, and one of them (or 0) is the largest.
RowsNumbered ==
    \A r \in Rooms :
        /\ \A m \in rows[r] : m.seq >= 1
        /\ \E n \in SeqsOf(rows[r]) \cup {0} : \A k \in SeqsOf(rows[r]) \cup {0} : k <= n

\* A message has its row, under the number it has.
HasRow(m, r) == \E row \in rows[r] : Id(row) = Id(m) /\ row.seq = m.seq

\* A message that is about to be pushed has its row.
PushedIsStored == \A q \in Requests : pc[q] = "push" => HasRow(msg[q], room[q])

\* A message on its way into the table is its request's own; a user's message and a
\* user's row have the client id that was sent with them, as far as the column takes it.
IdsAreSent ==
    /\ \A q \in Requests :
          pc[q] \in {"append", "select", "insert"} =>
              /\ msg[q].from = q
              /\ msg[q].sender = "user" => Parsed(msg[q].cid) = Parsed(sent[q])
    /\ \A q \in Requests : pc[q] \in {"select", "insert"} => msg[q].cid = Parsed(msg[q].cid)
    /\ \A r \in Rooms : \A m \in rows[r] :
          /\ pc[m.from] # "idle"
          /\ m.sender = "user" => m.cid = Parsed(sent[m.from])

\* Only a user's message has a client id: a reply is never taken for a retry.
RepliesUnnamed ==
    /\ \A q \in Requests : msg[q].cid # None => msg[q].sender = "user"
    /\ \A r \in Rooms : \A m \in rows[r] : m.cid # None => m.sender = "user"

\* The request's task owns the gateway's reservation of its room.
HoldsGate(q) ==
    \/ pc[q] \in TaskSteps
    \/ pc[q] \in AppendSteps /\ msg[q].sender # "user"

\* The request owns the worker's lock of its room; a handler whose client left
\* in the middle of an orchestration still does.
HoldsLock(q) == pc[q] \in LockSteps \cup {"abandoned"}

\* The request's agent is at work.
InTurn(q) == pc[q] \in {"turn", "orchestrating"}

\* A room is reserved exactly while one task owns the reservation: two tasks
\* never share it, none outlives it, and none that ended leaves it behind
\* (room_turn.rs try_acquire_room_turn, release_room_turn).
GateExact ==
    /\ \A p, q \in Requests :
          HoldsGate(p) /\ HoldsGate(q) /\ room[p] = room[q] => p = q
    /\ \A q \in Requests : HoldsGate(q) => room[q] \in inflight
    /\ \A r \in inflight : \E q \in Requests : HoldsGate(q) /\ room[q] = r

\* The worker's lock is held by one caller at a time and is set while it is
\* (turn_coordinator.rs acquire_room_lock, release_room_lock, shared by
\* run_turn and orchestrate).
LockExact ==
    /\ \A p, q \in Requests :
          HoldsLock(p) /\ HoldsLock(q) /\ room[p] = room[q] => p = q
    /\ \A q \in Requests : HoldsLock(q) => room[q] \in roomLock
    /\ \A r \in roomLock : \E q \in Requests : HoldsLock(q) /\ room[q] = r

\* Without a database the messages of a room are numbered 1, 2, 3, ... in the
\* order of the vector, whoever appends them (rooms.rs next_seq).
LogDense ==
    backend = "memory" =>
        \A r \in Rooms : \A i \in 1 .. Len(log[r]) : log[r][i].seq = i

\* Without a database a member that pages through list_messages with the cursor
\* it was given is never led past a message it may see.
NoMessageSkipped ==
    backend = "memory" =>
        \A r \in Rooms : \A m \in LogSet(r) :
            m.vis = "room" /\ m.seq <= cursor[r] => Id(m) \in seen[r]

\* With a database, what a reader of the room can see is already in the table, under
\* the number the reader sees (rooms.rs append_room_message).
DurableBeforeVisible ==
    backend = "postgres" => \A r \in Rooms : \A m \in LogSet(r) : HasRow(m, r)

\* The unique index on (room_id, client_message_id).
IndexUnique ==
    \A r \in Rooms : \A m, n \in rows[r] : m.cid = n.cid /\ m.cid # None => m = n

\* Two rows of users whose callers sent the same client_message_id.
Retried(m, n) ==
    m.sender = "user" /\ n.sender = "user" /\ sent[m.from] = sent[n.from]

\* The table holds one row of a room for all the calls that sent the same UUID, however a
\* client and its retries interleave (db.rs append_message).
StoredOnce ==
    \A r \in Rooms : \A m, n \in rows[r] : Retried(m, n) /\ sent[m.from] \in Uuids => m = n

\* The room was not loaded, or LoadMessages messages of it with numbers no larger were.
BeyondLoad(m, r) ==
    \/ r \notin loaded
    \/ Len(log[r]) = LoadMessages /\ \A i \in 1 .. LoadMessages : log[r][i].seq <= m.seq

\* What could be read in a room disappears by a restart only, and only when it lies beyond
\* what a restart loads (postgres_store.rs load_all_rooms, hydrate_rooms_from_rows).
ForgottenBeyondLoad ==
    [][\A r \in Rooms : \A m \in LogSet(r) :
          Id(m) \notin {Id(n) : n \in LogSet(r)'} => restarts' > restarts /\ BeyondLoad(m, r)']_vars

\* The gateway's gate by itself runs the turns of a room one at a time.
GateActive == [r \in Rooms |-> {q \in Requests : HoldsGate(q) /\ room[q] = r}]
Gate == INSTANCE RoomSerial WITH Turns <- Requests, active <- GateActive
GateSerial == Gate!Spec

\* So does the worker's lock by itself.
LockActive == [r \in Rooms |-> {q \in Requests : HoldsLock(q) /\ room[q] = r}]
Lock == INSTANCE RoomSerial WITH Turns <- Requests, active <- LockActive
LockSerial == Lock!Spec

\* Every call comes to an end, with its task, unless it waits for a lock that a
\* handler took and did not give back because its client had gone.
Abandoned(r) == \E q \in Requests : pc[q] = "abandoned" /\ room[q] = r
CallsSettle ==
    \A q \in Requests :
        (pc[q] # "idle") ~> (pc[q] \in Settled \/ (pc[q] = "lock" /\ Abandoned(room[q])))

\* Claimed of the coordinator by turn_coordinator.rs ("serializes concurrent turns
\* per room") and of room_lock_held by dto.rs ("the caller already holds the per-room
\* turn lock"): at most one agent is at work in a room.
OneTurnPerRoom ==
    \A p, q \in Requests : InTurn(p) /\ InTurn(q) /\ room[p] = room[q] => p = q

\* Claimed of RoomMessageRecord::seq by lib.rs ("Monotonic sequence number within the
\* room"): in a room's vector the numbers increase.
NumbersIncrease ==
    \A r \in Rooms : \A i, j \in 1 .. Len(log[r]) : i < j => log[r][i].seq < log[r][j].seq

===============================================================================
