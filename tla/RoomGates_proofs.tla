---------------------------- MODULE RoomGates_proofs ---------------------------
(***************************************************************************)
(* The two gates of a room, for every number of requests, rooms and        *)
(* restarts.  Every step of the system leaves a gate alone, lets one       *)
(* request in, lets its owner out, or resets it with the process           *)
(* (GateStep, LockStep); that a gate is exact and that it implements       *)
(* RoomSerial both follow from these four effects.                         *)
(***************************************************************************)
EXTENDS RoomTurns_proofs

-------------------------------------------------------------------------------
(* The gateway's gate *)

GateKept ==
    /\ inflight' = inflight
    /\ \A p \in Requests : HoldsGate(p)' <=> HoldsGate(p)
    /\ \A p \in Requests : HoldsGate(p) => room'[p] = room[p]

GateTaken(q) ==
    /\ room[q] \notin inflight
    /\ inflight' = inflight \cup {room[q]}
    /\ room' = room
    /\ HoldsGate(q)'
    /\ \A p \in Requests \ {q} : HoldsGate(p)' <=> HoldsGate(p)

GateGiven(q) ==
    /\ HoldsGate(q) /\ ~HoldsGate(q)'
    /\ inflight' = inflight \ {room[q]}
    /\ room' = room
    /\ \A p \in Requests \ {q} : HoldsGate(p)' <=> HoldsGate(p)

GateReset == inflight' = {} /\ \A p \in Requests : ~HoldsGate(p)'

\* What a step does to the gateway's gate.
LEMMA GateStep ==
    ASSUME TypeOK, RepliesUnnamed, [Next]_vars
    PROVE  \/ GateKept
           \/ \E q \in Requests : GateTaken(q) \/ GateGiven(q)
           \/ GateReset
<1> USE DEF HoldsGate, AppendSteps, TaskSteps
<1>m. msg \in [Requests -> Message] /\ room \in [Requests -> Rooms] /\ pc \in [Requests -> Steps]
  BY DEF TypeOK
<1>1. ASSUME NEW q \in Requests, NEW r \in Rooms, NEW v \in {"room", "private"},
             NEW c \in ClientIds \cup {None}, SendMessage(q, r, v, c)
      PROVE  GateKept
  BY <1>m, <1>1 DEF GateKept, SendMessage, Arrive, gates, UserMessage
<1>2. ASSUME NEW q \in Requests, NEW r \in Rooms, PromoteMessage(q, r) PROVE GateKept
  BY <1>m, <1>2 DEF GateKept, PromoteMessage, Arrive, gates, UserMessage
<1>3. ASSUME NEW q \in Requests, NEW r \in Rooms, OrchestrateRoom(q, r) \/ RunTurn(q, r)
      PROVE  GateKept
  BY <1>m, <1>3 DEF GateKept, OrchestrateRoom, RunTurn, Arrive, gates
<1>4. ASSUME NEW q \in Requests, FindDuplicate(q) PROVE GateKept
  <2>1. \A p \in Requests : msg'[p].sender = msg[p].sender
    BY <1>4, DuplicateKeepsSender
  <2> QED
    BY <1>m, <1>4, <2>1 DEF GateKept, FindDuplicate, gates, call
<1>5. ASSUME NEW q \in Requests, SelectSeqNumber(q) PROVE GateKept
  <2> DEFINE next == NextSeq(rows[room[q]])
  <2>1. msg' = [msg EXCEPT ![q].seq = next]
    BY <1>5 DEF SelectSeqNumber
  <2> HIDE DEF next
  <2>2. \A p \in Requests : msg'[p].sender = msg[p].sender
    BY <1>m, <2>1 DEF Message
  <2> QED
    BY <1>m, <1>5, <2>2 DEF GateKept, SelectSeqNumber, gates, call
<1>6. ASSUME NEW q \in Requests, InsertRow(q) PROVE GateKept
  <2>1. msg[q].sender # "user" => Stored(q) = {}
    BY ClientIdsAssumption DEF RepliesUnnamed, Stored, Parsed
  <2> QED
    BY <1>m, <1>6, <2>1 DEF GateKept, InsertRow, gates, call
<1>7. ASSUME NEW q \in Requests, PushMessage(q) PROVE GateKept
  <2>1. pc[q] \in AppendSteps
    BY <1>7 DEF PushMessage, PushStep
  <2>2. pc' = [pc EXCEPT ![q] = AfterAppend(q)] /\ UNCHANGED <<inflight, room, msg>>
    BY <1>7 DEF PushMessage, gates, call
  <2>3. \/ msg[q].sender # "user" /\ AfterAppend(q) = "release"
        \/ msg[q].sender = "user" /\ AfterAppend(q) \in {"queue", "done"}
    BY DEF AfterAppend
  <2> QED
    BY <1>m, <2>1, <2>2, <2>3 DEF GateKept
<1>8. ASSUME NEW q \in Requests, QueueTurn(q) PROVE GateKept \/ GateTaken(q)
  BY <1>m, <1>8 DEF GateKept, GateTaken, QueueTurn, RoomFree, call
<1>9. ASSUME NEW q \in Requests, StartTurn(q) PROVE GateKept
  BY <1>m, <1>9 DEF GateKept, StartTurn, gates, call
<1>10. ASSUME NEW q \in Requests, FinishTurn(q) PROVE GateKept
  BY <1>m, <1>10 DEF GateKept, FinishTurn, gates, call
<1>11. ASSUME NEW q \in Requests, ReleaseTurn(q) PROVE GateGiven(q)
  BY <1>m, <1>11 DEF GateGiven, ReleaseTurn, InflightAfter, call
<1>12. ASSUME NEW q \in Requests, LockRoom(q) \/ UnlockRoom(q) PROVE GateKept
  BY <1>m, <1>12 DEF GateKept, LockRoom, UnlockRoom, LockSteps, call
<1>13. ASSUME NEW q \in Requests, Disconnect(q) PROVE GateKept
  BY <1>m, <1>13 DEF GateKept, Disconnect, LockSteps, gates, call
<1>17. ASSUME NEW q \in Requests, DatabaseFails(q) PROVE GateKept
  <2>1. /\ UNCHANGED <<inflight, room, msg>>
        /\ \A p \in Requests \ {q} : pc'[p] = pc[p]
    BY <1>m, <1>17 DEF DatabaseFails, gates, call
  <2>2. \/ pc[q] \in AppendSteps /\ msg[q].sender # "user" /\ pc'[q] = "release"
        \/ pc[q] \notin TaskSteps /\ ~(pc[q] \in AppendSteps /\ msg[q].sender # "user")
              /\ pc'[q] = "failed"
    BY <1>m, <1>17 DEF DatabaseFails
  <2> QED
    BY <2>1, <2>2 DEF GateKept
<1>14. ASSUME NEW r \in Rooms, ListMessages(r) PROVE GateKept
  BY <1>14 DEF GateKept, ListMessages, gates, call
<1>15. ASSUME Restart PROVE GateReset
  BY <1>m, <1>15 DEF GateReset, Restart, Settled
<1>16. CASE UNCHANGED vars
  BY <1>16 DEF GateKept, vars
<1> QED
  BY <1>1, <1>2, <1>3, <1>4, <1>5, <1>6, <1>7, <1>8, <1>9, <1>10, <1>11, <1>12, <1>13,
     <1>14, <1>15, <1>16, <1>17 DEF Next, Arrivals, Proceed

\* The gateway's gate is exact: a room is in flight if and only if one task owns the
\* reservation, and no two tasks own it together.
THEOREM SpecGateExact == Spec => []GateExact
<1>1. Init => GateExact
  BY DEF Init, GateExact, HoldsGate, TaskSteps, AppendSteps
<1>2. TypeOK /\ RepliesUnnamed /\ GateExact /\ [Next]_vars => GateExact'
  <2> SUFFICES ASSUME TypeOK, RepliesUnnamed, GateExact, [Next]_vars PROVE GateExact'
    OBVIOUS
  <2>1. CASE GateKept
    BY <2>1 DEF GateKept, GateExact
  <2>2. ASSUME NEW q \in Requests, GateTaken(q) PROVE GateExact'
    BY <2>2 DEF GateTaken, GateExact
  <2>3. ASSUME NEW q \in Requests, GateGiven(q) PROVE GateExact'
    BY <2>3 DEF GateGiven, GateExact
  <2>4. CASE GateReset
    BY <2>4 DEF GateReset, GateExact
  <2> QED
    BY <2>1, <2>2, <2>3, <2>4, GateStep
<1> QED
  BY <1>1, <1>2, SpecTypeOK, SpecRepliesUnnamed, PTL DEF Spec

\* The gateway's gate implements RoomSerial: seen by itself it runs the turns of a room
\* one at a time.
THEOREM SpecGateSerial == Spec => GateSerial
<1>1. Init => Gate!Init
  BY DEF Init, Gate!Init, GateActive, HoldsGate, TaskSteps, AppendSteps
<1>2. TypeOK /\ RepliesUnnamed /\ GateExact /\ [Next]_vars => [Gate!Next]_GateActive
  <2> SUFFICES ASSUME TypeOK, RepliesUnnamed, GateExact, [Next]_vars
               PROVE  [Gate!Next]_GateActive
    OBVIOUS
  <2>m. room \in [Requests -> Rooms]
    BY DEF TypeOK
  <2>1. CASE GateKept
    <3>1. \A r \in Rooms : {q \in Requests : HoldsGate(q)' /\ room'[q] = r}
                             = {q \in Requests : HoldsGate(q) /\ room[q] = r}
      BY <2>1 DEF GateKept
    <3> QED
      BY <3>1 DEF GateActive
  <2>2. ASSUME NEW q \in Requests, GateTaken(q) PROVE Gate!Enter(q, room[q])
    <3>1. GateActive[room[q]] = {}
      BY <2>2, <2>m DEF GateTaken, GateExact, GateActive
    <3>2. ~HoldsGate(q)
      BY <2>2, <2>m DEF GateTaken, GateExact
    <3>3. \A r \in Rooms : GateActive'[r] = IF r = room[q] THEN {q} ELSE GateActive[r]
      BY <2>2, <2>m, <3>1, <3>2 DEF GateTaken, GateActive
    <3>4. GateActive' = [GateActive EXCEPT ![room[q]] = {q}]
      BY <3>3 DEF GateActive
    <3> QED
      BY <3>1, <3>4 DEF Gate!Enter
  <2>3. ASSUME NEW q \in Requests, GateGiven(q) PROVE Gate!Leave(q, room[q])
    <3>1. GateActive[room[q]] = {q}
      BY <2>3, <2>m DEF GateGiven, GateExact, GateActive
    <3>2. \A r \in Rooms : GateActive'[r] = IF r = room[q] THEN {} ELSE GateActive[r]
      <4> SUFFICES ASSUME NEW r \in Rooms
                   PROVE  GateActive'[r] = IF r = room[q] THEN {} ELSE GateActive[r]
        OBVIOUS
      <4>1. CASE r = room[q]
        <5>1. \A p \in Requests : HoldsGate(p) /\ room[p] = r => p = q
          BY <2>3, <4>1 DEF GateGiven, GateExact
        <5> QED
          BY <2>3, <4>1, <5>1 DEF GateGiven, GateActive
      <4>2. CASE r # room[q]
        <5>1. \A p \in Requests : HoldsGate(p)' /\ room'[p] = r <=> HoldsGate(p) /\ room[p] = r
          BY <2>3, <4>2 DEF GateGiven
        <5> QED
          BY <4>2, <5>1 DEF GateActive
      <4> QED
        BY <4>1, <4>2
    <3>3. GateActive' = [GateActive EXCEPT ![room[q]] = {}]
      BY <3>2 DEF GateActive
    <3> QED
      BY <3>1, <3>3 DEF Gate!Leave
  <2>4. CASE GateReset
    BY <2>4 DEF GateReset, GateActive, Gate!Crash, Gate!Next
  <2> QED
    BY <2>m, <2>1, <2>2, <2>3, <2>4, GateStep DEF Gate!Next
<1> QED
  BY <1>1, <1>2, SpecTypeOK, SpecRepliesUnnamed, SpecGateExact, PTL DEF Spec, GateSerial, Gate!Spec

-------------------------------------------------------------------------------
(* The worker's lock *)

LockUntouched ==
    /\ roomLock' = roomLock
    /\ \A p \in Requests : HoldsLock(p)' <=> HoldsLock(p)
    /\ \A p \in Requests : HoldsLock(p) => room'[p] = room[p]

LockTaken(q) ==
    /\ room[q] \notin roomLock
    /\ roomLock' = roomLock \cup {room[q]}
    /\ room' = room
    /\ HoldsLock(q)'
    /\ \A p \in Requests \ {q} : HoldsLock(p)' <=> HoldsLock(p)

LockGiven(q) ==
    /\ HoldsLock(q) /\ ~HoldsLock(q)'
    /\ roomLock' = roomLock \ {room[q]}
    /\ room' = room
    /\ \A p \in Requests \ {q} : HoldsLock(p)' <=> HoldsLock(p)

LockReset == roomLock' = {} /\ \A p \in Requests : ~HoldsLock(p)'

\* What a step does to the worker's lock.
LEMMA LockStep ==
    ASSUME TypeOK, [Next]_vars
    PROVE  \/ LockUntouched
           \/ \E q \in Requests : LockTaken(q) \/ LockGiven(q)
           \/ LockReset
<1> USE DEF HoldsLock, LockSteps
<1>m. room \in [Requests -> Rooms] /\ pc \in [Requests -> Steps]
  BY DEF TypeOK
<1>1. ASSUME NEW q \in Requests, NEW r \in Rooms, NEW k, NEW c,
             NEW step \in {"append", "lock"}, Arrive(q, k, r, c, step), roomLock' = roomLock
      PROVE  LockUntouched
  BY <1>m, <1>1 DEF LockUntouched, Arrive
<1>2. CASE \E q \in Requests : Arrivals(q)
  BY <1>1, <1>2 DEF Arrivals, SendMessage, PromoteMessage, OrchestrateRoom, RunTurn, gates
<1>3. ASSUME NEW q \in Requests, NEW step \in Steps \ (LockSteps \cup {"abandoned"}),
             ~HoldsLock(q), pc' = [pc EXCEPT ![q] = step], UNCHANGED <<room, roomLock>>
      PROVE  LockUntouched
  BY <1>m, <1>3 DEF LockUntouched
<1>4. CASE \E q \in Requests : FindDuplicate(q) \/ SelectSeqNumber(q) \/ InsertRow(q)
  BY <1>3, <1>4 DEF FindDuplicate, SelectSeqNumber, InsertRow, gates, call, Steps, AppendSteps,
                    TaskSteps, Settled
<1>5. ASSUME NEW q \in Requests, PushMessage(q) PROVE LockUntouched
  <2>1. AfterAppend(q) \in {"release", "queue", "done"}
    BY DEF AfterAppend
  <2>2. pc[q] \in {"append", "push"}
    BY <1>5 DEF PushMessage, PushStep
  <2> QED
    BY <1>3, <1>5, <2>1, <2>2 DEF PushMessage, gates, call, Steps, TaskSteps, Settled
<1>6. CASE \E q \in Requests : QueueTurn(q) \/ StartTurn(q) \/ FinishTurn(q) \/ ReleaseTurn(q)
  BY <1>3, <1>6 DEF QueueTurn, StartTurn, FinishTurn, ReleaseTurn, gates, call, Steps,
                    AppendSteps, TaskSteps, Settled
<1>7. ASSUME NEW q \in Requests, LockRoom(q) PROVE LockTaken(q)
  BY <1>m, <1>7 DEF LockTaken, LockRoom, Unlocked, call
<1>8. ASSUME NEW q \in Requests, UnlockRoom(q) PROVE LockGiven(q)
  BY <1>m, <1>8 DEF LockGiven, UnlockRoom, LockAfter, call
<1>13. ASSUME NEW q \in Requests, DatabaseFails(q) PROVE LockUntouched
  <2>1. PICK step \in {"release", "failed"} : pc' = [pc EXCEPT ![q] = step]
    BY <1>13 DEF DatabaseFails
  <2>2. pc[q] \in {"append", "select", "insert", "queue"}
    BY <1>13 DEF DatabaseFails
  <2> QED
    BY <1>3, <1>13, <2>1, <2>2 DEF DatabaseFails, gates, call, Steps, TaskSteps, Settled
<1>9. ASSUME NEW q \in Requests, Disconnect(q) PROVE LockUntouched
  <2>1. CASE pc[q] \in LockSteps /\ pc' = [pc EXCEPT ![q] = "abandoned"]
    BY <1>m, <1>9, <2>1 DEF LockUntouched, Disconnect, gates, call
  <2>2. CASE pc[q] \notin LockSteps \cup {"abandoned"} /\ pc' = [pc EXCEPT ![q] = "gone"]
    BY <1>3, <1>9, <2>2 DEF Disconnect, gates, call, Steps, Settled
  <2> QED
    BY <1>9, <2>1, <2>2 DEF Disconnect, AppendSteps
<1>10. CASE (\E r \in Rooms : ListMessages(r)) \/ UNCHANGED vars
  BY <1>10 DEF LockUntouched, ListMessages, gates, call, vars
<1>11. ASSUME Restart PROVE LockReset
  BY <1>m, <1>11 DEF LockReset, Restart, Settled
<1> QED
  BY <1>2, <1>4, <1>5, <1>6, <1>7, <1>8, <1>9, <1>10, <1>11, <1>13 DEF Next, Proceed

\* The worker's lock is exact: it is set if and only if one caller, which may have lost
\* its client, holds it.
THEOREM SpecLockExact == Spec => []LockExact
<1>1. Init => LockExact
  BY DEF Init, LockExact, HoldsLock, LockSteps
<1>2. TypeOK /\ LockExact /\ [Next]_vars => LockExact'
  <2> SUFFICES ASSUME TypeOK, LockExact, [Next]_vars PROVE LockExact'
    OBVIOUS
  <2>1. CASE LockUntouched
    BY <2>1 DEF LockUntouched, LockExact
  <2>2. ASSUME NEW q \in Requests, LockTaken(q) PROVE LockExact'
    BY <2>2 DEF LockTaken, LockExact
  <2>3. ASSUME NEW q \in Requests, LockGiven(q) PROVE LockExact'
    BY <2>3 DEF LockGiven, LockExact
  <2>4. CASE LockReset
    BY <2>4 DEF LockReset, LockExact
  <2> QED
    BY <2>1, <2>2, <2>3, <2>4, LockStep
<1> QED
  BY <1>1, <1>2, SpecTypeOK, PTL DEF Spec

\* The worker's lock implements RoomSerial too.
THEOREM SpecLockSerial == Spec => LockSerial
<1>1. Init => Lock!Init
  BY DEF Init, Lock!Init, LockActive, HoldsLock, LockSteps
<1>2. TypeOK /\ LockExact /\ [Next]_vars => [Lock!Next]_LockActive
  <2> SUFFICES ASSUME TypeOK, LockExact, [Next]_vars
               PROVE  [Lock!Next]_LockActive
    OBVIOUS
  <2>m. room \in [Requests -> Rooms]
    BY DEF TypeOK
  <2>1. CASE LockUntouched
    <3>1. \A r \in Rooms : {q \in Requests : HoldsLock(q)' /\ room'[q] = r}
                             = {q \in Requests : HoldsLock(q) /\ room[q] = r}
      BY <2>1 DEF LockUntouched
    <3> QED
      BY <3>1 DEF LockActive
  <2>2. ASSUME NEW q \in Requests, LockTaken(q) PROVE Lock!Enter(q, room[q])
    <3>1. LockActive[room[q]] = {}
      BY <2>2, <2>m DEF LockTaken, LockExact, LockActive
    <3>2. ~HoldsLock(q)
      BY <2>2, <2>m DEF LockTaken, LockExact
    <3>3. \A r \in Rooms : LockActive'[r] = IF r = room[q] THEN {q} ELSE LockActive[r]
      BY <2>2, <2>m, <3>1, <3>2 DEF LockTaken, LockActive
    <3>4. LockActive' = [LockActive EXCEPT ![room[q]] = {q}]
      BY <3>3 DEF LockActive
    <3> QED
      BY <3>1, <3>4 DEF Lock!Enter
  <2>3. ASSUME NEW q \in Requests, LockGiven(q) PROVE Lock!Leave(q, room[q])
    <3>1. LockActive[room[q]] = {q}
      BY <2>3, <2>m DEF LockGiven, LockExact, LockActive
    <3>2. \A r \in Rooms : LockActive'[r] = IF r = room[q] THEN {} ELSE LockActive[r]
      <4> SUFFICES ASSUME NEW r \in Rooms
                   PROVE  LockActive'[r] = IF r = room[q] THEN {} ELSE LockActive[r]
        OBVIOUS
      <4>1. CASE r = room[q]
        <5>1. \A p \in Requests : HoldsLock(p) /\ room[p] = r => p = q
          BY <2>3, <4>1 DEF LockGiven, LockExact
        <5> QED
          BY <2>3, <4>1, <5>1 DEF LockGiven, LockActive
      <4>2. CASE r # room[q]
        <5>1. \A p \in Requests : HoldsLock(p)' /\ room'[p] = r <=> HoldsLock(p) /\ room[p] = r
          BY <2>3, <4>2 DEF LockGiven
        <5> QED
          BY <4>2, <5>1 DEF LockActive
      <4> QED
        BY <4>1, <4>2
    <3>3. LockActive' = [LockActive EXCEPT ![room[q]] = {}]
      BY <3>2 DEF LockActive
    <3> QED
      BY <3>1, <3>3 DEF Lock!Leave
  <2>4. CASE LockReset
    BY <2>4 DEF LockReset, LockActive, Lock!Crash, Lock!Next
  <2> QED
    BY <2>m, <2>1, <2>2, <2>3, <2>4, LockStep DEF Lock!Next
<1> QED
  BY <1>1, <1>2, SpecTypeOK, SpecLockExact, PTL DEF Spec, LockSerial, Lock!Spec

===============================================================================
