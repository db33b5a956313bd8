--------------------------- MODULE RoomTurns_proofs ---------------------------
(***************************************************************************)
(* Proofs about the messages of RoomTurns, for every number of requests,   *)
(* rooms, client ids and restarts: how they are numbered, what the table   *)
(* holds, what a reader is given and what a restart brings back.  The two  *)
(* gates of a room are proved in RoomGates_proofs.                         *)
(***************************************************************************)
EXTENDS RoomTurns, FiniteSetTheorems, SequenceTheorems, TLAPS

Numbering == TypeOK /\ StepsOfBackend /\ RowsNumbered /\ LogDense

-------------------------------------------------------------------------------
(* The number NextSeq gives *)

\* NextSeq is a positive number beyond those of the set, when one of these is the largest.
LEMMA NextSeqIsBeyond ==
    ASSUME NEW ms, \A m \in ms : m.seq \in Nat,
           \E n \in SeqsOf(ms) \cup {0} : \A k \in SeqsOf(ms) \cup {0} : k <= n
    PROVE  /\ NextSeq(ms) \in Nat
           /\ NextSeq(ms) >= 1
           /\ \A k \in SeqsOf(ms) \cup {0} : k < NextSeq(ms)
           /\ NextSeq(ms) - 1 \in SeqsOf(ms) \cup {0}
<1> DEFINE S == SeqsOf(ms) \cup {0}
           top == CHOOSE n \in S : \A k \in S : k <= n
<1>1. S \subseteq Nat
  BY DEF SeqsOf
<1>2. top \in S /\ \A k \in S : k <= top
  OBVIOUS
<1>3. NextSeq(ms) = 1 + top
  BY DEF NextSeq
<1> HIDE DEF top
<1>4. QED
  BY <1>1, <1>2, <1>3

\* In a log numbered 1, 2, 3, ... the next number is one more than its length.
LEMMA NextSeqOfDenseLog ==
    ASSUME NEW r \in Rooms, log[r] \in Seq(Message),
           \A i \in 1 .. Len(log[r]) : log[r][i].seq = i
    PROVE  NextSeq(LogSet(r)) = Len(log[r]) + 1
<1> DEFINE L == Len(log[r])
           S == SeqsOf(LogSet(r)) \cup {0}
           top == CHOOSE n \in S : \A k \in S : k <= n
<1>1. L \in Nat
  OBVIOUS
<1>2. S = 0 .. L
  <2>1. ASSUME NEW k \in S PROVE k \in 0 .. L
    BY <1>1, <2>1 DEF SeqsOf, LogSet
  <2>2. ASSUME NEW k \in 0 .. L PROVE k \in S
    <3>1. CASE k = 0
      BY <3>1
    <3>2. CASE k # 0
      <4>1. k \in 1 .. L /\ log[r][k] \in LogSet(r)
        BY <1>1, <2>2, <3>2 DEF LogSet
      <4>2. log[r][k].seq = k
        BY <4>1
      <4> QED
        BY <4>1, <4>2 DEF SeqsOf
    <3> QED
      BY <3>1, <3>2
  <2> QED
    BY <2>1, <2>2
<1>3. top = L
  <2> HIDE DEF S
  <2> QED
    BY <1>1, <1>2
<1>4. NextSeq(LogSet(r)) = 1 + top
  BY DEF NextSeq
<1> HIDE DEF top
<1> QED
  BY <1>1, <1>3, <1>4

-------------------------------------------------------------------------------
(* What a start reads of a table *)

\* A start reads as many rows as there are, up to the limit.
LEMMA SelectedIsSeq ==
    ASSUME NEW table \in SUBSET Message, IsFiniteSet(table), NEW s \in Selected(table)
    PROVE  /\ s \in Seq(Message) /\ Len(s) \in Nat
           /\ s \in [1 .. Len(s) -> table]
           /\ Len(s) = Cardinality(table) \/ Len(s) = LoadMessages
<1> DEFINE size == Cardinality(table)
           count == IF size < LoadMessages THEN size ELSE LoadMessages
<1>1. size \in Nat
  BY FS_CardinalityType
<1>2. count \in Nat /\ (count = size \/ count = LoadMessages)
  BY <1>1, BoundsAssumption
<1>3. s \in [1 .. count -> table]
  BY DEF Selected
<1> HIDE DEF size, count
<1>4. Len(s) = count
  BY <1>2, <1>3
<1>5. s \in [1 .. count -> Message]
  BY <1>3
<1>6. s \in UNION {[1 .. k -> Message] : k \in Nat}
  BY <1>2, <1>5, Zenon
<1>7. s \in Seq(Message)
  BY <1>6, SeqDef, Zenon
<1> QED
  BY <1>2, <1>3, <1>4, <1>7 DEF size

\* What it does not read is beyond the limit, and of no smaller number than all it reads.
LEMMA SelectedMisses ==
    ASSUME NEW table \in SUBSET Message, IsFiniteSet(table), NEW s \in Selected(table),
           NEW m \in table, \A i \in 1 .. Len(s) : s[i] # m
    PROVE  Len(s) = LoadMessages /\ \A i \in 1 .. Len(s) : s[i].seq <= m.seq
<1>1. s \in [1 .. Len(s) -> table] /\ Len(s) \in Nat
      /\ (Len(s) = Cardinality(table) \/ Len(s) = LoadMessages)
  BY SelectedIsSeq
<1> DEFINE n == Len(s)
<1>2. /\ \A i, j \in 1 .. n : i < j => s[i] # s[j]
      /\ (\E i \in 1 .. n : s[i] = m) \/ \A i \in 1 .. n : s[i].seq <= m.seq
  <2> DEFINE size == Cardinality(table)
             count == IF size < LoadMessages THEN size ELSE LoadMessages
  <2>1. count \in Nat
    BY FS_CardinalityType, BoundsAssumption
  <2>2. /\ s \in [1 .. count -> table]
        /\ \A i, j \in 1 .. count : i < j => s[i] # s[j] /\ s[i].seq <= s[j].seq
        /\ (\E i \in 1 .. count : s[i] = m) \/ \A i \in 1 .. count : s[i].seq <= m.seq
    BY DEF Selected
  <2> HIDE DEF count
  <2>3. Len(s) = count
    BY <2>1, <2>2
  <2> QED
    BY <2>2, <2>3
<1>3. n # Cardinality(table)
  <2> SUFFICES ASSUME n = Cardinality(table) PROVE FALSE
    OBVIOUS
  <2> HIDE DEF n
  <2>1. s \in Injection(1 .. n, table)
    <3>1. ASSUME NEW i \in 1 .. n, NEW j \in 1 .. n, s[i] = s[j] PROVE i = j
      BY <1>1, <1>2, <3>1 DEF n
    <3> QED
      BY <1>1, <3>1 DEF Injection, IsInjective, n
  <2>2. IsFiniteSet(1 .. n) /\ Cardinality(1 .. n) = n
    BY <1>1, FS_Interval DEF n
  <2>3. s \in Surjection(1 .. n, table)
    BY <2>1, <2>2, FS_Injection
  <2> QED
    BY <2>3 DEF Surjection, n
<1> QED
  BY <1>1, <1>2, <1>3

-------------------------------------------------------------------------------
(* Types and numbering *)

\* Writing the number a message has leaves it as it is.
LEMMA SameSeq == \A m \in Message : [m EXCEPT !.seq = m.seq] = m
BY DEF Message

\* Numbering a message again leaves a message.
LEMMA MessageExceptSeq ==
    ASSUME NEW m \in Message, NEW n \in Nat
    PROVE  [m EXCEPT !.seq = n] \in Message /\ [m EXCEPT !.seq = n].seq = n
BY DEF Message

LEMMA MessageExceptCid ==
    ASSUME NEW m \in Message, NEW c \in ClientIds \cup {None}
    PROVE  [m EXCEPT !.cid = c] \in Message /\ [m EXCEPT !.cid = c].seq = m.seq
BY DEF Message

\* One more row leaves the table typed, finite and numbered.
LEMMA AddRow ==
    ASSUME TypeOK, RowsNumbered, NEW q \in Requests, msg[q].seq >= 1,
           rows' = [rows EXCEPT ![room[q]] = @ \cup {msg[q]}]
    PROVE  /\ rows' \in [Rooms -> SUBSET Message]
           /\ \A r \in Rooms : IsFiniteSet(rows'[r])
           /\ RowsNumbered'
<1> DEFINE R == room[q]
<1>1. /\ R \in Rooms /\ msg[q] \in Message /\ rows \in [Rooms -> SUBSET Message]
      /\ rows'[R] = rows[R] \cup {msg[q]}
      /\ \A r \in Rooms \ {R} : rows'[r] = rows[r]
  BY DEF TypeOK
<1>2. msg[q].seq \in Nat /\ SeqsOf(rows[R]) \subseteq Nat
  BY <1>1 DEF Message, SeqsOf
<1>3. \A r \in Rooms : IsFiniteSet(rows'[r])
  <2>1. IsFiniteSet(rows[R] \cup {msg[q]})
    BY <1>1, FS_AddElement, Zenon DEF TypeOK
  <2> QED
    BY <1>1, <2>1 DEF TypeOK
<1>4. SeqsOf(rows'[R]) = SeqsOf(rows[R]) \cup {msg[q].seq}
  BY <1>1 DEF SeqsOf
<1>5. PICK n \in SeqsOf(rows[R]) \cup {0} : \A k \in SeqsOf(rows[R]) \cup {0} : k <= n
  BY <1>1 DEF RowsNumbered
<1>6. \E top \in SeqsOf(rows'[R]) \cup {0} : \A k \in SeqsOf(rows'[R]) \cup {0} : k <= top
  <2>1. CASE msg[q].seq <= n
    BY <1>4, <1>5, <2>1
  <2>2. CASE ~(msg[q].seq <= n)
    <3>1. \A k \in SeqsOf(rows'[R]) \cup {0} : k <= msg[q].seq
      BY <1>2, <1>4, <1>5, <2>2
    <3> QED
      BY <1>4, <3>1
  <2> QED
    BY <2>1, <2>2
<1>7. RowsNumbered'
  BY <1>1, <1>6 DEF RowsNumbered, SeqsOf
<1> QED
  BY <1>1, <1>3, <1>7

LEMMA InitNumbering == Init => Numbering
<1> SUFFICES ASSUME Init PROVE Numbering
  OBVIOUS
<1> USE RoomsAssumption, BackendsAssumption, BoundsAssumption, ClientIdsAssumption DEF Init
<1>1. (CHOOSE r \in Rooms : TRUE) \in Rooms
  OBVIOUS
<1>2. TypeOK
  <2>1. IsFiniteSet({})
    BY FS_EmptySet
  <2>2. msg \in [Requests -> Message]
    BY DEF UserMessage, Message, Senders
  <2>3. log \in [Rooms -> Seq(Message)]
    OBVIOUS
  <2>4. restarts \in 0 .. MaxRestarts
    OBVIOUS
  <2> QED
    BY <1>1, <2>1, <2>2, <2>3, <2>4 DEF TypeOK, Steps, Kinds
<1>3. StepsOfBackend
  BY DEF StepsOfBackend
<1>4. RowsNumbered
  BY DEF RowsNumbered, SeqsOf
<1>5. LogDense
  BY DEF LogDense
<1> QED
  BY <1>2, <1>3, <1>4, <1>5 DEF Numbering

LEMMA NextNumbering == Numbering /\ [Next]_vars => Numbering'
<1> SUFFICES ASSUME Numbering, [Next]_vars PROVE Numbering'
  OBVIOUS
<1> USE DEF Numbering, TypeOK, StepsOfBackend, RowsNumbered, LogDense
<1>m. \A q \in Requests : /\ msg[q] \in Message /\ pc[q] \in Steps /\ room[q] \in Rooms
                          /\ msg[q].seq \in Nat /\ msg[q].sender \in Senders
                          /\ msg[q].from \in Requests
  BY DEF Message
<1>r. \A r \in Rooms : rows[r] \in SUBSET Message /\ \A m \in rows[r] : m.seq \in Nat
  BY DEF Message
<1>1. ASSUME NEW q \in Requests, NEW r \in Rooms, NEW v \in {"room", "private"},
             NEW c \in ClientIds \cup {None}, SendMessage(q, r, v, c)
      PROVE  Numbering'
  <2>1. UserMessage(q, v, c) \in Message /\ UserMessage(q, v, c).seq = 0
    BY DEF UserMessage, Message, Senders
  <2> QED
    BY <1>1, <2>1 DEF SendMessage, Arrive, Steps, AppendSteps, Kinds, stores, gates, reader, SeqsOf
<1>2. ASSUME NEW q \in Requests, NEW r \in Rooms, PromoteMessage(q, r) PROVE Numbering'
  <2>1. UserMessage(q, "room", None) \in Message /\ UserMessage(q, "room", None).seq = 0
    BY DEF UserMessage, Message, Senders
  <2> QED
    BY <1>2, <2>1 DEF PromoteMessage, Arrive, Steps, AppendSteps, Kinds, stores, gates, reader, SeqsOf
<1>3. ASSUME NEW q \in Requests, NEW r \in Rooms, OrchestrateRoom(q, r) PROVE Numbering'
  BY <1>3 DEF OrchestrateRoom, Arrive, Steps, Kinds, stores, gates, reader, SeqsOf
<1>4. ASSUME NEW q \in Requests, NEW r \in Rooms, RunTurn(q, r) PROVE Numbering'
  BY <1>4 DEF RunTurn, Arrive, Steps, Kinds, stores, gates, reader, SeqsOf
<1>5. ASSUME NEW q \in Requests, FindDuplicate(q) PROVE Numbering'
  <2>1. CASE pc' = [pc EXCEPT ![q] = "select"] /\ msg' = [msg EXCEPT ![q].cid = Parsed(@)]
    <3> DEFINE c == Parsed(msg[q].cid)
    <3>1. c \in ClientIds \cup {None}
      BY ClientIdsAssumption DEF Parsed
    <3>2. msg' = [msg EXCEPT ![q].cid = c]
      BY <1>m, <2>1
    <3> HIDE DEF c
    <3>4. [msg[q] EXCEPT !.cid = c] \in Message /\ [msg[q] EXCEPT !.cid = c].seq = msg[q].seq
      BY <1>m, <3>1, MessageExceptCid
    <3>5. msg' = [msg EXCEPT ![q] = [msg[q] EXCEPT !.cid = c]]
      BY <1>m, <3>2
    <3>3. /\ msg' \in [Requests -> Message] /\ msg'[q].seq = msg[q].seq
          /\ \A p \in Requests \ {q} : msg'[p] = msg[p]
      BY <1>m, <3>4, <3>5
    <3> QED
      BY <1>5, <2>1, <3>3 DEF FindDuplicate, Steps, AppendSteps, stores, gates, call, reader, SeqsOf
  <2>2. ASSUME NEW m \in Stored(q), msg' = [msg EXCEPT ![q].seq = m.seq, ![q].from = m.from],
               pc' = [pc EXCEPT ![q] = "push"]
        PROVE  Numbering'
    <3>1. m \in Message /\ m.seq >= 1
      BY <1>m, <1>r, <2>2 DEF Stored
    <3>2. msg' \in [Requests -> Message]
      BY <2>2, <3>1 DEF Message
    <3>3. msg'[q].seq = m.seq /\ \A p \in Requests \ {q} : msg'[p] = msg[p]
      BY <2>2
    <3> QED
      BY <1>5, <2>2, <3>1, <3>2, <3>3 DEF FindDuplicate, Steps, AppendSteps, stores, gates, call, reader, SeqsOf
  <2> QED
    BY <1>5, <2>1, <2>2 DEF FindDuplicate
<1>6. ASSUME NEW q \in Requests, SelectSeqNumber(q) PROVE Numbering'
  <2> DEFINE next == NextSeq(rows[room[q]])
  <2>1. next \in Nat /\ next >= 1
    BY <1>m, <1>r, NextSeqIsBeyond
  <2>2. msg' = [msg EXCEPT ![q].seq = next]
    BY <1>6 DEF SelectSeqNumber
  <2> HIDE DEF next
  <2>3. [msg[q] EXCEPT !.seq = next] \in Message
    BY <1>m, <2>1, MessageExceptSeq
  <2>4. msg' \in [Requests -> Message] /\ msg'[q].seq = next
        /\ \A p \in Requests \ {q} : msg'[p] = msg[p]
    BY <1>m, <2>1, <2>2, <2>3 DEF Message
  <2> QED
    BY <1>6, <2>1, <2>4 DEF SelectSeqNumber, Steps, AppendSteps, stores, gates, call, reader, SeqsOf
<1>7. ASSUME NEW q \in Requests, InsertRow(q) PROVE Numbering'
  <2>1. CASE UNCHANGED rows
    BY <1>7, <2>1 DEF InsertRow, Steps, AppendSteps, Settled, gates, call, reader, SeqsOf
  <2>2. CASE /\ rows' = [rows EXCEPT ![room[q]] = @ \cup {msg[q]}]
             /\ pc' = [pc EXCEPT ![q] = "push"]
    <3>1. msg[q].seq >= 1
      BY <1>7 DEF InsertRow
    <3>2. StepsOfBackend'
      BY <1>7, <2>2 DEF InsertRow, gates, call, reader
    <3> QED
      BY <1>7, <2>2, <3>1, <3>2, AddRow DEF InsertRow, Steps, AppendSteps, gates, call, reader
  <2> QED
    BY <1>7, <2>1, <2>2 DEF InsertRow
<1>8. ASSUME NEW q \in Requests, PushMessage(q) PROVE Numbering'
  <2> DEFINE R == room[q]
             seq == IF msg[q].seq = 0 THEN NextSeq(LogSet(R)) ELSE msg[q].seq
             m == [msg[q] EXCEPT !.seq = seq]
  <2>1. R \in Rooms /\ log[R] \in Seq(Message)
    BY <1>m
  <2>2. backend = "memory" => seq = Len(log[R]) + 1
    BY <1>8, <2>1, NextSeqOfDenseLog DEF PushMessage, PushStep
  <2>3. seq \in Nat
    <3>1. CASE backend = "memory"
      BY <2>1, <2>2, <3>1
    <3>2. CASE backend = "postgres"
      BY <1>8, <1>m, <3>2 DEF PushMessage, PushStep
    <3> QED
      BY <3>1, <3>2
  <2>4. m \in Message
    BY <1>m, <2>3, MessageExceptSeq
  <2>5. log' = [log EXCEPT ![R] = Append(@, m)]
    BY <1>8 DEF PushMessage
  <2> HIDE DEF m, seq
  <2>6. log' \in [Rooms -> Seq(Message)]
    BY <2>1, <2>4, <2>5
  <2>7. m.seq = seq
    BY <1>m DEF m, Message
  <2>8. LogDense'
    <3> SUFFICES ASSUME backend' = "memory", NEW r \in Rooms, NEW i \in 1 .. Len(log'[r])
                 PROVE  log'[r][i].seq = i
      OBVIOUS
    <3>1. backend = "memory"
      BY <1>8 DEF PushMessage
    <3>2. CASE r # R
      BY <2>5, <3>1, <3>2
    <3>3. CASE r = R
      <4>1. log'[r] = Append(log[r], m)
        BY <2>1, <2>5, <3>3
      <4>2. Len(log'[r]) = Len(log[r]) + 1
        BY <2>1, <3>3, <4>1
      <4>3. CASE i <= Len(log[r])
        BY <2>1, <3>1, <3>3, <4>1, <4>3
      <4>4. CASE i = Len(log[r]) + 1
        BY <2>1, <2>2, <2>7, <3>1, <3>3, <4>1, <4>4
      <4> QED
        BY <2>1, <3>3, <4>2, <4>3, <4>4
    <3> QED
      BY <3>2, <3>3
  <2>9. AfterAppend(q) \in {"release", "queue", "done"}
    BY DEF AfterAppend
  <2>10. pc' = [pc EXCEPT ![q] = AfterAppend(q)]
    BY <1>8 DEF PushMessage
  <2>11. UNCHANGED <<backend, loaded, rows, inflight, roomLock, kind, room, sent, msg, cursor,
                     seen, restarts>>
    BY <1>8 DEF PushMessage, gates, call, reader
  <2>12. pc' \in [Requests -> Steps]
    BY <2>9, <2>10 DEF Steps, TaskSteps, Settled
  <2>13. StepsOfBackend'
    BY <2>9, <2>10, <2>11
  <2>14. RowsNumbered'
    BY <2>11 DEF SeqsOf
  <2> QED
    BY <2>6, <2>8, <2>11, <2>12, <2>13, <2>14
<1>9. ASSUME NEW q \in Requests, QueueTurn(q) PROVE Numbering'
  BY <1>9 DEF QueueTurn, Steps, TaskSteps, Settled, stores, call, reader, SeqsOf
<1>10. ASSUME NEW q \in Requests, StartTurn(q) PROVE Numbering'
  BY <1>10 DEF StartTurn, Steps, TaskSteps, stores, gates, call, reader, SeqsOf
<1>11. ASSUME NEW q \in Requests, FinishTurn(q) PROVE Numbering'
  <2>1. PICK s \in {"agent", "system"} :
          msg' = [msg EXCEPT ![q] = [from |-> q, sender |-> s, seq |-> 0,
                                     vis |-> "room", cid |-> None]]
    BY <1>11 DEF FinishTurn
  <2>2. msg' \in [Requests -> Message] /\ msg'[q].seq = 0
    BY <2>1 DEF Message, Senders
  <2> QED
    BY <1>11, <2>1, <2>2 DEF FinishTurn, Steps, AppendSteps, stores, gates, call, reader, SeqsOf
<1>12. ASSUME NEW q \in Requests, ReleaseTurn(q) PROVE Numbering'
  BY <1>12 DEF ReleaseTurn, InflightAfter, Steps, Settled, stores, call, reader, SeqsOf
<1>13. ASSUME NEW q \in Requests, LockRoom(q) PROVE Numbering'
  BY <1>13, <1>m DEF LockRoom, Steps, LockSteps, stores, call, reader, SeqsOf
<1>14. ASSUME NEW q \in Requests, UnlockRoom(q) PROVE Numbering'
  BY <1>14 DEF UnlockRoom, LockAfter, Steps, Settled, stores, call, reader, SeqsOf
<1>15. ASSUME NEW q \in Requests, Disconnect(q) PROVE Numbering'
  BY <1>15 DEF Disconnect, Steps, Settled, stores, gates, call, reader, SeqsOf
<1>19. ASSUME NEW q \in Requests, DatabaseFails(q) PROVE Numbering'
  <2>1. /\ pc' \in [Requests -> Steps]
        /\ pc'[q] \in {"release", "failed"} /\ \A p \in Requests \ {q} : pc'[p] = pc[p]
    BY <1>19 DEF DatabaseFails, Steps, TaskSteps, Settled
  <2>2. StepsOfBackend'
    BY <1>19, <2>1 DEF DatabaseFails
  <2>3. CASE UNCHANGED rows
    BY <1>19, <2>1, <2>2, <2>3 DEF DatabaseFails, gates, call, reader, SeqsOf
  <2>4. CASE pc[q] = "insert" /\ rows' = [rows EXCEPT ![room[q]] = @ \cup {msg[q]}]
    <3>1. msg[q].seq >= 1
      BY <2>4
    <3> QED
      BY <1>19, <2>1, <2>2, <2>4, <3>1, AddRow DEF DatabaseFails, gates, call, reader
  <2> QED
    BY <1>19, <2>3, <2>4 DEF DatabaseFails
<1>16. ASSUME NEW r \in Rooms, ListMessages(r) PROVE Numbering'
  <2>1. \A i \in 1 .. Len(log[r]) : log[r][i] \in Message
    OBVIOUS
  <2>2. Page(r) \subseteq 1 .. Len(log[r])
    BY DEF Page, Visible
  <2>3. cursor' \in [Rooms -> Nat]
    BY <1>16, <2>1, <2>2 DEF ListMessages, Message
  <2>4. seen' \in [Rooms -> SUBSET (Requests \X Senders)]
    <3>1. {Id(log[r][i]) : i \in Page(r)} \subseteq Requests \X Senders
      BY <2>1, <2>2 DEF Id, Message
    <3> QED
      BY <1>16, <3>1 DEF ListMessages
  <2>5. UNCHANGED <<backend, loaded, log, rows, inflight, roomLock, pc, kind, room, sent, msg,
                    restarts>>
    BY <1>16 DEF ListMessages, stores, gates, call
  <2> QED
    BY <2>3, <2>4, <2>5 DEF SeqsOf
<1>17. ASSUME Restart PROVE Numbering'
  <2>1. log' \in [Rooms -> Seq(Message)]
    <3>1. ASSUME NEW r \in Rooms PROVE log'[r] \in Seq(Message)
      <4>1. CASE r \in loaded'
        <5>1. log'[r] \in Selected(rows[r])
          BY <1>17, <4>1 DEF Restart, Hydrated
        <5> QED
          BY <1>r, <5>1, SelectedIsSeq
      <4>2. CASE r \notin loaded'
        <5>1. log'[r] = <<>>
          BY <1>17, <4>2 DEF Restart
        <5> QED
          BY <5>1
      <4> QED
        BY <4>1, <4>2
    <3> QED
      BY <1>17, <3>1 DEF Restart
  <2>6. loaded' \in SUBSET Rooms
    BY <1>17 DEF Restart, Loads
  <2>2. pc' \in [Requests -> Steps]
    BY <1>17, <1>m DEF Restart, Steps, Settled
  <2>3. \A q \in Requests : pc'[q] \in Settled \cup {"idle"}
    BY <1>17 DEF Restart, Settled
  <2>4. StepsOfBackend'
    BY <2>3 DEF Settled
  <2>5. restarts' \in 0 .. MaxRestarts
    BY <1>17, BoundsAssumption DEF Restart
  <2> QED
    BY <1>17, <2>1, <2>2, <2>4, <2>5, <2>6 DEF Restart, call, reader, SeqsOf
<1>18. CASE UNCHANGED vars
  BY <1>18 DEF vars, SeqsOf
<1> HIDE DEF Numbering, TypeOK, StepsOfBackend, RowsNumbered, LogDense
<1> QED
  BY <1>1, <1>2, <1>3, <1>4, <1>5, <1>6, <1>7, <1>8, <1>9, <1>10, <1>11, <1>12, <1>13,
     <1>14, <1>15, <1>16, <1>17, <1>18, <1>19 DEF Next, Arrivals, Proceed

\* Types, and the numbering of the room's messages: without a database the vector
\* is numbered 1, 2, 3, ... whatever the interleaving of the handlers.
THEOREM SpecNumbering == Spec => []Numbering
BY InitNumbering, NextNumbering, PTL DEF Spec

THEOREM SpecTypeOK == Spec => []TypeOK
<1>1. Numbering => TypeOK
  BY DEF Numbering
<1> QED
  BY <1>1, SpecNumbering, PTL

THEOREM SpecLogDense == Spec => []LogDense
<1>1. Numbering => LogDense
  BY DEF Numbering
<1> QED
  BY <1>1, SpecNumbering, PTL

-------------------------------------------------------------------------------
(* Client ids *)

\* The conversion of an id and its look-up change neither a message's sender nor, but for
\* the conversion, its client id; they change its author only to that of a stored one.
LEMMA DuplicateKeepsSender ==
    ASSUME TypeOK, NEW q \in Requests, FindDuplicate(q), NEW p \in Requests
    PROVE  /\ msg'[p].sender = msg[p].sender
           /\ msg'[p].cid = msg[p].cid \/ (p = q /\ msg'[p].cid = Parsed(msg[p].cid))
           /\ pc'[q] = "select" => msg'[p].from = msg[p].from /\ msg'[q].cid = Parsed(msg[q].cid)
<1>1. msg \in [Requests -> Message] /\ pc \in [Requests -> Steps]
  BY DEF TypeOK
<1>2. ASSUME msg' = [msg EXCEPT ![q].cid = Parsed(@)]
      PROVE  /\ msg'[p].sender = msg[p].sender
             /\ msg'[p].cid = msg[p].cid \/ (p = q /\ msg'[p].cid = Parsed(msg[p].cid))
             /\ msg'[p].from = msg[p].from /\ msg'[q].cid = Parsed(msg[q].cid)
  <2> DEFINE c == Parsed(msg[q].cid)
  <2>1. msg' = [msg EXCEPT ![q].cid = c]
    BY <1>1, <1>2
  <2> HIDE DEF c
  <2>2. msg'[q].cid = c /\ (p # q => msg'[p] = msg[p])
        /\ msg'[p].sender = msg[p].sender /\ msg'[p].from = msg[p].from
    BY <1>1, <2>1 DEF Message
  <2> QED
    BY <2>2 DEF c
<1>3. ASSUME NEW m, msg' = [msg EXCEPT ![q].seq = m.seq, ![q].from = m.from]
      PROVE  msg'[p].cid = msg[p].cid /\ msg'[p].sender = msg[p].sender
  <2> DEFINE s == m.seq
             f == m.from
  <2>1. msg' = [msg EXCEPT ![q].seq = s, ![q].from = f]
    BY <1>3
  <2> HIDE DEF s, f
  <2>2. CASE p # q
    BY <1>1, <2>1, <2>2
  <2>3. CASE p = q
    <3>1. msg'[q] = [[msg[q] EXCEPT !.seq = s] EXCEPT !.from = f]
      BY <1>1, <2>1
    <3> QED
      BY <1>1, <2>3, <3>1 DEF Message
  <2> QED
    BY <2>2, <2>3
<1>4. \/ msg' = [msg EXCEPT ![q].cid = Parsed(@)]
      \/ pc'[q] = "push" /\ \E m : msg' = [msg EXCEPT ![q].seq = m.seq, ![q].from = m.from]
  BY <1>1 DEF FindDuplicate
<1> QED
  BY <1>2, <1>3, <1>4

\* A reply carries no client id, in a handler or in the table.
LEMMA NextRepliesUnnamed ==
    TypeOK /\ RepliesUnnamed /\ [Next]_vars => RepliesUnnamed'
<1> SUFFICES ASSUME TypeOK, RepliesUnnamed, [Next]_vars PROVE RepliesUnnamed'
  OBVIOUS
<1> USE DEF RepliesUnnamed
<1>m. msg \in [Requests -> Message] /\ room \in [Requests -> Rooms]
      /\ rows \in [Rooms -> SUBSET Message]
  BY DEF TypeOK
<1>1. ASSUME NEW q \in Requests, NEW r \in Rooms, NEW v \in {"room", "private"},
             NEW c \in ClientIds \cup {None}, SendMessage(q, r, v, c)
      PROVE  RepliesUnnamed'
  BY <1>m, <1>1 DEF SendMessage, stores, UserMessage
<1>2. ASSUME NEW q \in Requests, NEW r \in Rooms, PromoteMessage(q, r) PROVE RepliesUnnamed'
  BY <1>m, <1>2 DEF PromoteMessage, stores, UserMessage
<1>3. ASSUME NEW q \in Requests, FindDuplicate(q) PROVE RepliesUnnamed'
  <2>1. \A p \in Requests : /\ msg'[p].sender = msg[p].sender
                            /\ msg'[p].cid \in {msg[p].cid, Parsed(msg[p].cid)}
    BY <1>3, DuplicateKeepsSender
  <2>2. Parsed(None) = None
    BY ClientIdsAssumption DEF Parsed
  <2> QED
    BY <1>3, <2>1, <2>2 DEF FindDuplicate, stores
<1>4. ASSUME NEW q \in Requests, SelectSeqNumber(q) PROVE RepliesUnnamed'
  <2> DEFINE next == NextSeq(rows[room[q]])
  <2>1. msg' = [msg EXCEPT ![q].seq = next] /\ rows' = rows
    BY <1>4 DEF SelectSeqNumber, stores
  <2> HIDE DEF next
  <2>2. \A p \in Requests : msg'[p].cid = msg[p].cid /\ msg'[p].sender = msg[p].sender
    BY <1>m, <2>1 DEF Message
  <2> QED
    BY <2>1, <2>2
<1>5. ASSUME NEW q \in Requests, InsertRow(q) \/ DatabaseFails(q) PROVE RepliesUnnamed'
  <2>1. msg' = msg
    BY <1>5 DEF InsertRow, DatabaseFails
  <2>2. ASSUME NEW r \in Rooms PROVE rows'[r] \subseteq rows[r] \cup {msg[q]}
    BY <1>m, <1>5 DEF InsertRow, DatabaseFails
  <2> QED
    BY <2>1, <2>2
<1>6. ASSUME NEW q \in Requests, FinishTurn(q) PROVE RepliesUnnamed'
  BY <1>m, <1>6 DEF FinishTurn, stores
<1>7. ASSUME UNCHANGED <<msg, rows>> PROVE RepliesUnnamed'
  BY <1>7
<1>8. CASE \E q \in Requests : \/ PushMessage(q) \/ QueueTurn(q) \/ StartTurn(q)
                               \/ ReleaseTurn(q) \/ LockRoom(q) \/ UnlockRoom(q)
                               \/ Disconnect(q)
  BY <1>7, <1>8 DEF PushMessage, QueueTurn, StartTurn, ReleaseTurn, LockRoom, UnlockRoom,
                    Disconnect, stores
<1>9. CASE \E r \in Rooms : ListMessages(r) \/ \E q \in Requests : OrchestrateRoom(q, r) \/ RunTurn(q, r)
  BY <1>7, <1>9 DEF ListMessages, OrchestrateRoom, RunTurn, stores
<1>10. CASE Restart \/ UNCHANGED vars
  BY <1>7, <1>10 DEF Restart, vars
<1> QED
  BY <1>1, <1>2, <1>3, <1>4, <1>5, <1>6, <1>8, <1>9, <1>10 DEF Next, Arrivals, Proceed

LEMMA SpecRepliesUnnamed == Spec => []RepliesUnnamed
<1>1. Init => RepliesUnnamed
  BY DEF Init, RepliesUnnamed, UserMessage
<1> QED
  BY <1>1, NextRepliesUnnamed, SpecTypeOK, PTL DEF Spec

-------------------------------------------------------------------------------
(* What a step does to the table and to the vectors *)

StoresKept == log' = log /\ rows' = rows

RowAdded(q) ==
    /\ pc[q] = "insert" /\ Stored(q) = {}
    /\ rows' = [rows EXCEPT ![room[q]] = @ \cup {msg[q]}]
    /\ log' = log

\* The message as it is pushed: with the number it has, or with the next one.
Numbered(q) ==
    [msg[q] EXCEPT !.seq = IF msg[q].seq = 0 THEN NextSeq(LogSet(room[q])) ELSE msg[q].seq]

MessagePushed(q) ==
    /\ pc[q] = PushStep
    /\ log' = [log EXCEPT ![room[q]] = Append(@, Numbered(q))]
    /\ rows' = rows /\ backend' = backend

LEMMA PushAppends ==
    ASSUME NEW q, MessagePushed(q)
    PROVE  \E m : log' = [log EXCEPT ![room[q]] = Append(@, m)]
BY DEF MessagePushed

LEMMA StoreStep ==
    ASSUME [Next]_vars
    PROVE  \/ StoresKept
           \/ \E q \in Requests : RowAdded(q) \/ MessagePushed(q)
           \/ Restart
<1>1. CASE \E q \in Requests : Arrivals(q)
  BY <1>1 DEF StoresKept, Arrivals, SendMessage, PromoteMessage, OrchestrateRoom, RunTurn, stores
<1>2. CASE \E q \in Requests :
              \/ FindDuplicate(q) \/ SelectSeqNumber(q) \/ QueueTurn(q) \/ StartTurn(q)
              \/ FinishTurn(q) \/ ReleaseTurn(q) \/ LockRoom(q) \/ UnlockRoom(q) \/ Disconnect(q)
  BY <1>2 DEF StoresKept, FindDuplicate, SelectSeqNumber, QueueTurn, StartTurn, FinishTurn,
              ReleaseTurn, LockRoom, UnlockRoom, Disconnect, stores
<1>3. ASSUME NEW q \in Requests, InsertRow(q) \/ DatabaseFails(q)
      PROVE  StoresKept \/ RowAdded(q)
  BY <1>3 DEF StoresKept, RowAdded, InsertRow, DatabaseFails
<1>4. ASSUME NEW q \in Requests, PushMessage(q) PROVE MessagePushed(q)
  BY <1>4 DEF MessagePushed, Numbered, PushMessage
<1>5. CASE (\E r \in Rooms : ListMessages(r)) \/ UNCHANGED vars
  BY <1>5 DEF StoresKept, ListMessages, stores, vars
<1> QED
  BY <1>1, <1>2, <1>3, <1>4, <1>5 DEF Next, Proceed

-------------------------------------------------------------------------------
(* One row per client id *)

Appending == {"append", "select", "insert"}

\* A step that touches no message, no row and no client id, and starts no append.
Quiet ==
    /\ msg' = msg /\ sent' = sent /\ rows' = rows
    /\ \A p \in Requests : pc'[p] \in Appending => pc'[p] = pc[p]
    /\ \A p \in Requests : pc[p] # "idle" => pc'[p] # "idle"

LEMMA ParsedTwice == \A c : Parsed(Parsed(c)) = Parsed(c)
BY ClientIdsAssumption DEF Parsed

\* What a caller sent as its message's client id is what its message, or its row, has.
LEMMA NextIdsAreSent == TypeOK /\ IdsAreSent /\ [Next]_vars => IdsAreSent'
<1> SUFFICES ASSUME TypeOK, IdsAreSent, [Next]_vars PROVE IdsAreSent'
  OBVIOUS
<1> USE DEF IdsAreSent, Appending
<1>m. /\ msg \in [Requests -> Message] /\ room \in [Requests -> Rooms]
      /\ pc \in [Requests -> Steps] /\ sent \in [Requests -> ClientIds \cup {None}]
      /\ rows \in [Rooms -> SUBSET Message]
      /\ \A r \in Rooms : \A m \in rows[r] : m.from \in Requests
  BY DEF TypeOK, Message
<1>1. ASSUME Quiet PROVE IdsAreSent'
  BY <1>m, <1>1 DEF Quiet
<1>2. ASSUME NEW q \in Requests, NEW r \in Rooms, NEW k, NEW v, NEW c,
             Arrive(q, k, r, c, "append"), rows' = rows,
             msg' = [msg EXCEPT ![q] = UserMessage(q, v, c)]
      PROVE  IdsAreSent'
  BY <1>m, <1>2 DEF Arrive, UserMessage
<1>3. ASSUME NEW q \in Requests, NEW r \in Rooms, NEW k, NEW c,
             Arrive(q, k, r, c, "lock"), rows' = rows, msg' = msg
      PROVE  IdsAreSent'
  BY <1>m, <1>3 DEF Arrive
<1>4. ASSUME NEW q \in Requests, NEW r \in Rooms, NEW v \in {"room", "private"},
             NEW c \in ClientIds \cup {None}, SendMessage(q, r, v, c)
      PROVE  IdsAreSent'
  BY <1>2, <1>4 DEF SendMessage, stores
<1>5. ASSUME NEW q \in Requests, NEW r \in Rooms, PromoteMessage(q, r) PROVE IdsAreSent'
  BY <1>2, <1>5 DEF PromoteMessage, stores
<1>6. ASSUME NEW q \in Requests, NEW r \in Rooms, OrchestrateRoom(q, r) \/ RunTurn(q, r)
      PROVE  IdsAreSent'
  BY <1>3, <1>6 DEF OrchestrateRoom, RunTurn, stores
<1>7. ASSUME NEW q \in Requests, FindDuplicate(q) PROVE IdsAreSent'
  <2>1. /\ rows' = rows /\ sent' = sent /\ pc[q] = "append"
        /\ \/ pc' = [pc EXCEPT ![q] = "select"]
           \/ pc' = [pc EXCEPT ![q] = "push"]
        /\ \A p \in Requests \ {q} : msg'[p] = msg[p]
    BY <1>m, <1>7 DEF FindDuplicate, stores, call
  <2>2. pc'[q] = "select" => /\ msg'[q].from = msg[q].from /\ msg'[q].sender = msg[q].sender
                             /\ msg'[q].cid = Parsed(msg[q].cid)
    BY <1>7, DuplicateKeepsSender
  <2> QED
    BY <1>m, <2>1, <2>2, ParsedTwice
<1>8. ASSUME NEW q \in Requests, SelectSeqNumber(q) PROVE IdsAreSent'
  <2> DEFINE next == NextSeq(rows[room[q]])
  <2>1. /\ msg' = [msg EXCEPT ![q].seq = next] /\ rows' = rows /\ sent' = sent
        /\ pc[q] = "select" /\ pc' = [pc EXCEPT ![q] = "insert"]
    BY <1>8 DEF SelectSeqNumber, stores, call
  <2> HIDE DEF next
  <2>2. \A p \in Requests : /\ msg'[p].cid = msg[p].cid /\ msg'[p].sender = msg[p].sender
                            /\ msg'[p].from = msg[p].from
    BY <1>m, <2>1 DEF Message
  <2> QED
    BY <1>m, <2>1, <2>2
<1>9. ASSUME NEW q \in Requests, InsertRow(q) \/ DatabaseFails(q) PROVE IdsAreSent'
  <2>1. /\ msg' = msg /\ sent' = sent
        /\ \A p \in Requests : pc'[p] \in Appending => pc'[p] = pc[p]
        /\ \A p \in Requests : pc[p] # "idle" => pc'[p] # "idle"
    BY <1>m, <1>9 DEF InsertRow, DatabaseFails, call, AppendSteps
  <2>2. \/ rows' = rows
        \/ pc[q] = "insert" /\ rows' = [rows EXCEPT ![room[q]] = @ \cup {msg[q]}]
    BY <1>9 DEF InsertRow, DatabaseFails
  <2>3. CASE rows' = rows
    BY <1>1, <2>1, <2>3 DEF Quiet
  <2>4. CASE pc[q] = "insert" /\ rows' = [rows EXCEPT ![room[q]] = @ \cup {msg[q]}]
    <3>1. /\ msg[q].from = q /\ pc'[q] # "idle"
          /\ msg[q].sender = "user" => msg[q].cid = Parsed(sent[q])
      BY <2>1, <2>4
    <3>2. ASSUME NEW r \in Rooms, NEW m \in rows'[r]
          PROVE  /\ pc'[m.from] # "idle"
                 /\ m.sender = "user" => m.cid = Parsed(sent'[m.from])
      <4>1. m \in rows[r] \/ m = msg[q]
        BY <1>m, <2>4, <3>2
      <4> QED
        BY <1>m, <2>1, <3>1, <4>1
    <3> QED
      BY <2>1, <3>2
  <2> QED
    BY <2>2, <2>3, <2>4
<1>10. ASSUME NEW q \in Requests, FinishTurn(q) PROVE IdsAreSent'
  BY <1>m, <1>10 DEF FinishTurn, stores, call
<1>11. ASSUME NEW q \in Requests, PushMessage(q) PROVE Quiet
  <2>1. AfterAppend(q) \in {"release", "queue", "done"}
    BY DEF AfterAppend
  <2> QED
    BY <1>m, <1>11, <2>1 DEF Quiet, PushMessage, call
<1>12. ASSUME NEW q \in Requests, \/ QueueTurn(q) \/ StartTurn(q) \/ ReleaseTurn(q)
                                 \/ LockRoom(q) \/ UnlockRoom(q) \/ Disconnect(q)
       PROVE  Quiet
  BY <1>m, <1>12 DEF Quiet, QueueTurn, StartTurn, ReleaseTurn, LockRoom, UnlockRoom, Disconnect,
                     stores, call
<1>13. CASE \E r \in Rooms : ListMessages(r)
  BY <1>1, <1>13 DEF Quiet, ListMessages, stores, call
<1>14. CASE Restart
  BY <1>m, <1>1, <1>14 DEF Quiet, Restart, call, Settled
<1>15. CASE UNCHANGED vars
  BY <1>1, <1>15 DEF Quiet, vars
<1> QED
  BY <1>1, <1>4, <1>5, <1>6, <1>7, <1>8, <1>9, <1>10, <1>11, <1>12, <1>13, <1>14, <1>15
     DEF Next, Arrivals, Proceed

LEMMA SpecIdsAreSent == Spec => []IdsAreSent
<1>1. Init => IdsAreSent
  BY DEF Init, IdsAreSent
<1> QED
  BY <1>1, NextIdsAreSent, SpecTypeOK, PTL DEF Spec

\* The index rejects the second insert of a client id even when both look-ups found nothing.
LEMMA SpecIndexUnique == Spec => []IndexUnique
<1>1. Init => IndexUnique
  BY DEF Init, IndexUnique
<1>2. TypeOK /\ IdsAreSent /\ IndexUnique /\ [Next]_vars => IndexUnique'
  <2> SUFFICES ASSUME TypeOK, IdsAreSent, IndexUnique, [Next]_vars PROVE IndexUnique'
    OBVIOUS
  <2>1. CASE rows' = rows
    BY <2>1 DEF IndexUnique
  <2>2. ASSUME NEW q \in Requests, RowAdded(q) PROVE IndexUnique'
    <3>1. rows' = [rows EXCEPT ![room[q]] = @ \cup {msg[q]}] /\ rows \in [Rooms -> SUBSET Message]
      BY <2>2 DEF RowAdded, TypeOK
    <3>2. msg[q].cid = Parsed(msg[q].cid)
      BY <2>2 DEF RowAdded, IdsAreSent
    <3>3. \A m \in rows[room[q]] : m.cid # None => m.cid # msg[q].cid
      BY <2>2, <3>2 DEF RowAdded, Stored
    <3> QED
      BY <3>1, <3>3 DEF IndexUnique
  <2> QED
    BY <2>1, <2>2, StoreStep DEF StoresKept, MessagePushed, Restart
<1> QED
  BY <1>1, <1>2, SpecTypeOK, SpecIdsAreSent, PTL DEF Spec

\* The table holds one row of a room for all the calls that sent the same UUID, whatever a
\* client and its retries do.
THEOREM SpecStoredOnce == Spec => []StoredOnce
<1>1. IdsAreSent /\ IndexUnique => StoredOnce
  <2> SUFFICES ASSUME IdsAreSent, IndexUnique, NEW r \in Rooms, NEW m \in rows[r],
                      NEW n \in rows[r], Retried(m, n), sent[m.from] \in Uuids
               PROVE  m = n
    BY DEF StoredOnce
  <2>1. m.cid = Parsed(sent[m.from]) /\ n.cid = Parsed(sent[m.from])
    BY DEF IdsAreSent, Retried
  <2>2. Parsed(sent[m.from]) # None
    BY ClientIdsAssumption DEF Parsed
  <2> QED
    BY <2>1, <2>2 DEF IndexUnique
<1> QED
  BY <1>1, SpecIdsAreSent, SpecIndexUnique, PTL

-------------------------------------------------------------------------------
(* Stored before visible *)

\* No step takes a row away.
LEMMA RowsGrow ==
    ASSUME TypeOK, [Next]_vars, NEW r \in Rooms
    PROVE  rows[r] \subseteq rows'[r]
<1>1. rows' = rows \/ \E q \in Requests : RowAdded(q)
  BY StoreStep DEF StoresKept, MessagePushed, Restart
<1>2. ASSUME NEW q \in Requests, NEW m, rows' = [rows EXCEPT ![room[q]] = @ \cup {m}]
      PROVE  rows[r] \subseteq rows'[r]
  BY <1>2 DEF TypeOK
<1> QED
  BY <1>1, <1>2 DEF RowAdded

\* A message on its way into the vector has its row: it was just inserted, or it is the
\* row that an earlier attempt with the same client id inserted.
LEMMA NextPushedIsStored ==
    TypeOK /\ RepliesUnnamed /\ PushedIsStored /\ [Next]_vars => PushedIsStored'
<1> SUFFICES ASSUME TypeOK, RepliesUnnamed, PushedIsStored, [Next]_vars,
                    NEW p \in Requests, pc'[p] = "push"
             PROVE  \E row \in rows'[room'[p]] : Id(row) = Id(msg'[p]) /\ row.seq = msg'[p].seq
  BY DEF PushedIsStored, HasRow
<1>m. msg \in [Requests -> Message] /\ room \in [Requests -> Rooms] /\ pc \in [Requests -> Steps]
      /\ rows \in [Rooms -> SUBSET Message]
  BY DEF TypeOK
<1>1. CASE pc[p] = "push" /\ msg'[p] = msg[p] /\ room'[p] = room[p]
  BY <1>1, <1>m, RowsGrow DEF PushedIsStored, HasRow
<1>2. CASE InsertRow(p)
  <2>1. pc[p] = "insert"
    BY <1>2 DEF InsertRow
  <2>2. rows' = [rows EXCEPT ![room[p]] = @ \cup {msg[p]}] /\ room' = room /\ msg' = msg
    BY <1>2, <1>m DEF InsertRow, call
  <2> QED
    BY <1>m, <2>2
<1>3. CASE FindDuplicate(p)
  <2>1. PICK m \in Stored(p) : msg' = [msg EXCEPT ![p].seq = m.seq, ![p].from = m.from]
    BY <1>3, <1>m DEF FindDuplicate
  <2>2. rows' = rows /\ room' = room
    BY <1>3 DEF FindDuplicate, stores, call
  <2>3. m \in rows[room[p]] /\ m.sender = "user" /\ msg[p].sender = "user"
    <3>1. m \in rows[room[p]] /\ m.cid # None /\ Parsed(msg[p].cid) # None
      BY <2>1 DEF Stored
    <3>2. msg[p].cid # None
      BY <3>1, ClientIdsAssumption DEF Parsed
    <3> QED
      BY <1>m, <3>1, <3>2 DEF RepliesUnnamed
  <2>4. msg'[p].from = m.from /\ msg'[p].seq = m.seq
    <3> DEFINE s == m.seq
               f == m.from
    <3>1. msg' = [msg EXCEPT ![p].seq = s, ![p].from = f]
      BY <2>1
    <3> HIDE DEF s, f
    <3>2. msg'[p] = [[msg[p] EXCEPT !.seq = s] EXCEPT !.from = f]
      BY <1>m, <3>1
    <3>3. msg'[p].from = f /\ msg'[p].seq = s
      BY <1>m, <3>2 DEF Message
    <3> QED
      BY <3>3 DEF f, s
  <2>5. msg'[p].sender = "user"
    BY <1>3, <2>3, DuplicateKeepsSender
  <2> QED
    BY <1>m, <2>2, <2>3, <2>4, <2>5 DEF Id
<1>4. ASSUME NEW q \in Requests, q # p,
             Arrivals(q) \/ Proceed(q) \/ Disconnect(q) \/ DatabaseFails(q)
      PROVE  pc[p] = pc'[p] /\ msg'[p] = msg[p] /\ room'[p] = room[p]
  <2>1. CASE Arrivals(q)
    BY <1>m, <1>4, <2>1 DEF Arrivals, SendMessage, PromoteMessage, OrchestrateRoom, RunTurn, Arrive
  <2>2. CASE SelectSeqNumber(q)
    <3> DEFINE next == NextSeq(rows[room[q]])
    <3>1. msg' = [msg EXCEPT ![q].seq = next] /\ pc' = [pc EXCEPT ![q] = "insert"] /\ room' = room
      BY <2>2 DEF SelectSeqNumber, call
    <3> HIDE DEF next
    <3> QED
      BY <1>m, <1>4, <3>1
  <2>3. CASE FindDuplicate(q)
    BY <1>m, <1>4, <2>3 DEF FindDuplicate, call
  <2>4. CASE InsertRow(q) \/ PushMessage(q) \/ QueueTurn(q) \/ StartTurn(q) \/ FinishTurn(q)
             \/ ReleaseTurn(q) \/ LockRoom(q) \/ UnlockRoom(q) \/ Disconnect(q)
             \/ DatabaseFails(q)
    BY <1>m, <1>4, <2>4 DEF InsertRow, PushMessage, QueueTurn, StartTurn, FinishTurn, ReleaseTurn,
                            LockRoom, UnlockRoom, Disconnect, DatabaseFails, call
  <2> QED
    BY <1>4, <2>1, <2>2, <2>3, <2>4 DEF Proceed
<1>5. ASSUME Arrivals(p) \/ Proceed(p) \/ Disconnect(p) \/ DatabaseFails(p)
      PROVE  InsertRow(p) \/ FindDuplicate(p)
  <2>1. CASE PushMessage(p)
    BY <1>m, <2>1 DEF PushMessage, AfterAppend
  <2>2. ~Arrivals(p)
    BY <1>m DEF Arrivals, SendMessage, PromoteMessage, OrchestrateRoom, RunTurn, Arrive
  <2>3. ~(SelectSeqNumber(p) \/ QueueTurn(p) \/ StartTurn(p) \/ FinishTurn(p)
          \/ ReleaseTurn(p) \/ LockRoom(p) \/ UnlockRoom(p) \/ Disconnect(p)
          \/ DatabaseFails(p))
    BY <1>m DEF SelectSeqNumber, QueueTurn, StartTurn, FinishTurn, ReleaseTurn,
                LockRoom, UnlockRoom, Disconnect, DatabaseFails
  <2> QED
    BY <1>5, <2>1, <2>2, <2>3 DEF Proceed
<1>6. ~Restart
  BY <1>m DEF Restart, Settled
<1>7. CASE (\E r \in Rooms : ListMessages(r)) \/ UNCHANGED vars
  BY <1>1, <1>7 DEF ListMessages, call, vars
<1> QED
  BY <1>1, <1>2, <1>3, <1>4, <1>5, <1>6, <1>7 DEF Next

LEMMA SpecPushedIsStored == Spec => []PushedIsStored
<1>1. Init => PushedIsStored
  BY DEF Init, PushedIsStored
<1> QED
  BY <1>1, NextPushedIsStored, SpecTypeOK, SpecRepliesUnnamed, PTL DEF Spec

\* With a database, what a reader of a room can see is already in the table, under the
\* number the reader sees.
THEOREM SpecDurableBeforeVisible == Spec => []DurableBeforeVisible
<1>1. Init => DurableBeforeVisible
  BY DEF Init, DurableBeforeVisible, LogSet
<1>2. Numbering /\ PushedIsStored /\ DurableBeforeVisible /\ [Next]_vars
        => DurableBeforeVisible'
  <2> SUFFICES ASSUME TypeOK, StepsOfBackend, PushedIsStored, DurableBeforeVisible, [Next]_vars,
                      backend' = "postgres", NEW r \in Rooms, NEW i \in 1 .. Len(log'[r])
               PROVE  \E row \in rows'[r] : Id(row) = Id(log'[r][i]) /\ row.seq = log'[r][i].seq
    BY DEF Numbering, DurableBeforeVisible, LogSet, HasRow
  <2>1. backend = "postgres"
    BY DEF Next, Arrivals, Proceed, SendMessage, PromoteMessage, OrchestrateRoom, RunTurn,
           FindDuplicate, SelectSeqNumber, InsertRow, PushMessage, QueueTurn, StartTurn,
           FinishTurn, ReleaseTurn, LockRoom, UnlockRoom, Disconnect, DatabaseFails, Restart,
           ListMessages, vars
  <2>2. ASSUME NEW j \in 1 .. Len(log[r]), log'[r][i] = log[r][j]
        PROVE  \E row \in rows'[r] : Id(row) = Id(log'[r][i]) /\ row.seq = log'[r][i].seq
    BY <2>1, <2>2, RowsGrow DEF DurableBeforeVisible, LogSet, HasRow
  <2>3. CASE log' = log
    BY <2>2, <2>3
  <2>4. ASSUME NEW q \in Requests, MessagePushed(q)
        PROVE  \E row \in rows'[r] : Id(row) = Id(log'[r][i]) /\ row.seq = log'[r][i].seq
    <3>0. pc[q] = "push" /\ msg[q] \in Message /\ msg[q].seq \in Nat /\ msg[q].seq # 0
      BY <2>1, <2>4 DEF MessagePushed, PushStep, TypeOK, Message, StepsOfBackend
    <3> DEFINE m == msg[q]
    <3>1. log' = [log EXCEPT ![room[q]] = Append(@, m)]
      <4>1. Numbered(q) = msg[q]
        BY <3>0, SameSeq DEF Numbered
      <4> QED
        BY <2>4, <4>1 DEF MessagePushed
    <3>3. HasRow(m, room[q])
      BY <3>0 DEF PushedIsStored
    <3>4. log \in [Rooms -> Seq(Message)] /\ room[q] \in Rooms /\ rows' = rows
      BY <2>4 DEF TypeOK, MessagePushed
    <3> HIDE DEF m
    <3>5. log' = [log EXCEPT ![room[q]] = Append(@, m)]
      BY <3>1
    <3>6. CASE r # room[q]
      BY <2>2, <3>4, <3>5, <3>6
    <3>7. CASE r = room[q] /\ i <= Len(log[r])
      <4>1. i \in 1 .. Len(log[r]) /\ log'[r][i] = log[r][i]
        BY <3>4, <3>5, <3>7
      <4> QED
        BY <2>2, <4>1
    <3>8. CASE r = room[q] /\ i = Len(log[r]) + 1
      <4>1. log'[r][i] = m
        BY <3>4, <3>5, <3>8
      <4> QED
        BY <3>3, <3>4, <3>8, <4>1 DEF HasRow
    <3>9. r = room[q] => Len(log'[r]) = Len(log[r]) + 1
      BY <3>4, <3>5
    <3> QED
      BY <3>4, <3>6, <3>7, <3>8, <3>9
  <2>5. CASE Restart
    <3>1. rows' = rows /\ rows[r] \in SUBSET Message /\ IsFiniteSet(rows[r])
      BY <2>5 DEF Restart, TypeOK
    <3>2. CASE r \in loaded'
      <4>1. log'[r] \in Selected(rows[r])
        BY <2>5, <3>2 DEF Restart, Hydrated
      <4>2. log'[r][i] \in rows[r]
        BY <3>1, <4>1, SelectedIsSeq
      <4> QED
        BY <3>1, <4>2
    <3>3. CASE r \notin loaded'
      BY <2>5, <3>3 DEF Restart
    <3> QED
      BY <3>2, <3>3
  <2> QED
    BY <2>3, <2>4, <2>5, StoreStep DEF StoresKept, RowAdded
<1> QED
  BY <1>1, <1>2, SpecNumbering, SpecPushedIsStored, PTL DEF Spec

-------------------------------------------------------------------------------
(* What a reader is given *)

\* Without a database the cursor of a reader stays within the vector, and what it may see
\* up to there it was given.
ReaderGiven ==
    backend = "memory" =>
        \A r \in Rooms :
            /\ cursor[r] <= Len(log[r])
            /\ \A i \in 1 .. Len(log[r]) :
                  log[r][i].vis = "room" /\ i <= cursor[r] => Id(log[r][i]) \in seen[r]

LEMMA ReaderStep ==
    ASSUME [Next]_vars
    PROVE  backend' = backend /\ (UNCHANGED reader \/ \E r \in Rooms : ListMessages(r))
<1>1. CASE \E q \in Requests : Arrivals(q)
  BY <1>1 DEF Arrivals, SendMessage, PromoteMessage, OrchestrateRoom, RunTurn
<1>2. CASE \E q \in Requests : Proceed(q) \/ Disconnect(q) \/ DatabaseFails(q)
  BY <1>2 DEF Proceed, FindDuplicate, SelectSeqNumber, InsertRow, PushMessage, QueueTurn,
              StartTurn, FinishTurn, ReleaseTurn, LockRoom, UnlockRoom, Disconnect, DatabaseFails
<1>3. CASE (\E r \in Rooms : ListMessages(r)) \/ Restart \/ UNCHANGED vars
  BY <1>3 DEF ListMessages, Restart, vars, reader
<1> QED
  BY <1>1, <1>2, <1>3 DEF Next

\* Without a database no step takes a message of a vector away or moves it.
LEMMA LogGrows ==
    ASSUME TypeOK, [Next]_vars, backend = "memory", NEW r \in Rooms
    PROVE  /\ Len(log[r]) <= Len(log'[r])
           /\ \A i \in 1 .. Len(log[r]) : log'[r][i] = log[r][i]
<1>1. log \in [Rooms -> Seq(Message)] /\ room \in [Requests -> Rooms]
  BY DEF TypeOK
<1>2. log' = log \/ \E q \in Requests : \E m : log' = [log EXCEPT ![room[q]] = Append(@, m)]
  <2>1. log' = log \/ \E q \in Requests : MessagePushed(q)
    BY StoreStep DEF StoresKept, RowAdded, Restart
  <2> QED
    BY <2>1, PushAppends
<1>3. ASSUME NEW q \in Requests, NEW m, log' = [log EXCEPT ![room[q]] = Append(@, m)]
      PROVE  /\ Len(log[r]) <= Len(log'[r])
             /\ \A i \in 1 .. Len(log[r]) : log'[r][i] = log[r][i]
  <2>1. CASE room[q] # r
    BY <1>1, <1>3, <2>1
  <2>2. CASE room[q] = r
    <3>1. log'[r] = Append(log[r], m) /\ log[r] \in Seq(Message)
      BY <1>1, <1>3, <2>2
    <3> QED
      BY <3>1
  <2> QED
    BY <2>1, <2>2
<1>4. CASE log' = log
  BY <1>1, <1>4
<1> QED
  BY <1>2, <1>3, <1>4

\* A page reaches from the cursor to its last message without a gap.
LEMMA PageIsClosed ==
    ASSUME TypeOK, NEW r \in Rooms, NEW last \in Page(r), NEW i \in Visible(r), i <= last
    PROVE  i \in Page(r)
<1> DEFINE Before(k) == {j \in Visible(r) : j < k}
<1>1. log[r] \in Seq(Message) /\ Visible(r) \subseteq 1 .. Len(log[r]) /\ Len(log[r]) \in Nat
  BY DEF TypeOK, Visible
<1>2. IsFiniteSet(Before(last))
  <2>1. IsFiniteSet(1 .. Len(log[r]))
    BY <1>1, FS_Interval
  <2> QED
    BY <1>1, <2>1, FS_Subset
<1>3. Before(i) \subseteq Before(last)
  BY <1>1 DEF Page
<1>4. Cardinality(Before(i)) <= Cardinality(Before(last)) /\ IsFiniteSet(Before(i))
  BY <1>2, <1>3, FS_Subset
<1>5. Cardinality(Before(i)) \in Nat /\ Cardinality(Before(last)) \in Nat
  BY <1>2, <1>4, FS_CardinalityType
<1>6. Cardinality(Before(last)) < Limit /\ Limit \in Nat
  BY BoundsAssumption DEF Page
<1>7. Cardinality(Before(i)) < Limit
  <2> HIDE DEF Before
  <2> QED
    BY <1>4, <1>5, <1>6
<1> QED
  BY <1>7 DEF Page

LEMMA NextReaderGiven == Numbering /\ ReaderGiven /\ [Next]_vars => ReaderGiven'
<1> SUFFICES ASSUME Numbering, ReaderGiven, [Next]_vars, backend' = "memory", NEW r \in Rooms
             PROVE  /\ cursor'[r] <= Len(log'[r])
                    /\ \A i \in 1 .. Len(log'[r]) :
                          log'[r][i].vis = "room" /\ i <= cursor'[r] => Id(log'[r][i]) \in seen'[r]
  BY DEF ReaderGiven, Id
<1>1. /\ TypeOK /\ backend = "memory"
      /\ \A i \in 1 .. Len(log[r]) : log[r][i].seq = i
  BY ReaderStep DEF Numbering, LogDense
<1>2. /\ log[r] \in Seq(Message) /\ cursor[r] \in Nat /\ Len(log[r]) \in Nat
      /\ cursor \in [Rooms -> Nat] /\ seen \in [Rooms -> SUBSET (Requests \X Senders)]
  BY <1>1 DEF TypeOK
<1>3. /\ cursor[r] <= Len(log[r])
      /\ \A i \in 1 .. Len(log[r]) :
            log[r][i].vis = "room" /\ i <= cursor[r] => Id(log[r][i]) \in seen[r]
  BY <1>1 DEF ReaderGiven
<1>4. Len(log'[r]) \in Nat
  BY NextNumbering DEF Numbering, TypeOK
<1>5. CASE UNCHANGED reader
  BY <1>1, <1>2, <1>3, <1>4, <1>5, LogGrows DEF reader, Id
<1>6. ASSUME NEW x \in Rooms, ListMessages(x)
      PROVE  /\ cursor'[r] <= Len(log'[r])
             /\ \A i \in 1 .. Len(log'[r]) :
                   log'[r][i].vis = "room" /\ i <= cursor'[r] => Id(log'[r][i]) \in seen'[r]
  <2>1. log' = log
    BY <1>6 DEF ListMessages, stores
  <2>2. CASE x # r
    BY <1>2, <1>3, <1>6, <2>1, <2>2 DEF ListMessages, Id
  <2>3. CASE x = r
    <3>1. PICK last \in Page(r) : cursor' = [cursor EXCEPT ![r] = log[r][last].seq]
      BY <1>6, <2>3 DEF ListMessages
    <3>2. last \in 1 .. Len(log[r]) /\ log[r][last].seq = last
      BY <1>1 DEF Page, Visible
    <3>3. cursor'[r] = last
      BY <1>2, <3>1, <3>2
    <3>4. seen'[r] = seen[r] \cup {Id(log[r][i]) : i \in Page(r)}
      BY <1>2, <1>6, <2>3 DEF ListMessages
    <3>5. ASSUME NEW i \in 1 .. Len(log[r]), log[r][i].vis = "room", i <= last
          PROVE  Id(log[r][i]) \in seen'[r]
      <4>1. CASE i <= cursor[r]
        BY <1>3, <3>4, <3>5, <4>1
      <4>2. CASE i > cursor[r]
        <5>1. i \in Visible(r)
          BY <1>1, <1>2, <3>5, <4>2 DEF Visible
        <5>2. i \in Page(r)
          BY <1>1, <3>5, <5>1, PageIsClosed
        <5> QED
          BY <3>4, <5>2
      <4> QED
        BY <1>2, <4>1, <4>2
    <3> QED
      BY <1>2, <2>1, <3>2, <3>3, <3>5 DEF Id
  <2> QED
    BY <2>2, <2>3
<1> QED
  BY <1>5, <1>6, ReaderStep

\* Without a database a member that pages through list_messages is never led past a
\* message it may see, whatever the page size and whoever appends meanwhile.
THEOREM SpecNoMessageSkipped == Spec => []NoMessageSkipped
<1>1. Init => ReaderGiven
  <2> SUFFICES ASSUME Init, NEW r \in Rooms
               PROVE  cursor[r] = 0 /\ Len(log[r]) = 0
    BY DEF ReaderGiven
  <2> QED
    BY DEF Init
<1>2. Numbering /\ ReaderGiven => NoMessageSkipped
  BY DEF Numbering, LogDense, ReaderGiven, NoMessageSkipped, LogSet
<1> QED
  BY <1>1, <1>2, NextReaderGiven, SpecNumbering, PTL DEF Spec

-------------------------------------------------------------------------------
(* Restart *)

\* What disappears from a room disappears by a restart that did not load the room or
\* loaded LoadMessages messages of it with numbers no larger.
THEOREM SpecForgottenBeyondLoad == Spec => ForgottenBeyondLoad
<1> DEFINE Kept(r) ==
               \A m \in LogSet(r) :
                   Id(m) \notin {Id(n) : n \in LogSet(r)'} => restarts' > restarts /\ BeyondLoad(m, r)'
<1>1. TypeOK /\ DurableBeforeVisible /\ [Next]_vars => [\A r \in Rooms : Kept(r)]_vars
  <2> SUFFICES ASSUME TypeOK, DurableBeforeVisible, [Next]_vars, NEW r \in Rooms,
                      NEW m \in LogSet(r)
               PROVE  \/ \E j \in 1 .. Len(log'[r]) : Id(log'[r][j]) = Id(m)
                      \/ restarts' > restarts /\ BeyondLoad(m, r)'
    BY DEF LogSet
  <2>0. PICK i \in 1 .. Len(log[r]) : m = log[r][i]
    BY DEF LogSet
  <2>1. CASE log' = log
    BY <2>0, <2>1
  <2>2. ASSUME NEW q \in Requests, MessagePushed(q)
        PROVE  \E j \in 1 .. Len(log'[r]) : Id(log'[r][j]) = Id(m)
    <3>1. PICK new : log' = [log EXCEPT ![room[q]] = Append(@, new)]
      BY <2>2, PushAppends
    <3>2. log \in [Rooms -> Seq(Message)]
      BY DEF TypeOK
    <3>3. i \in 1 .. Len(log'[r]) /\ log'[r][i] = log[r][i]
      BY <3>1, <3>2
    <3> QED
      BY <2>0, <3>3
  <2>3. ASSUME Restart
        PROVE  \/ \E j \in 1 .. Len(log'[r]) : Id(log'[r][j]) = Id(m)
               \/ restarts' > restarts /\ BeyondLoad(m, r)'
    <3>1. restarts' > restarts
      BY <2>3 DEF Restart, TypeOK
    <3>2. CASE r \notin loaded'
      BY <3>1, <3>2 DEF BeyondLoad
    <3>3. CASE r \in loaded'
      <4>1. log'[r] \in Selected(rows[r]) /\ backend = "postgres"
        BY <2>3, <3>3 DEF Restart, Hydrated
      <4>2. PICK row \in rows[r] : Id(row) = Id(m) /\ row.seq = m.seq
        BY <4>1 DEF DurableBeforeVisible, LogSet, HasRow
      <4>3. rows[r] \in SUBSET Message /\ IsFiniteSet(rows[r])
        BY DEF TypeOK
      <4>4. CASE \E j \in 1 .. Len(log'[r]) : log'[r][j] = row
        BY <4>2, <4>4
      <4>5. CASE \A j \in 1 .. Len(log'[r]) : log'[r][j] # row
        <5>1. Len(log'[r]) = LoadMessages
              /\ \A j \in 1 .. Len(log'[r]) : log'[r][j].seq <= row.seq
          BY <4>1, <4>3, <4>5, SelectedMisses
        <5> QED
          BY <3>1, <4>2, <5>1 DEF BeyondLoad
      <4> QED
        BY <4>4, <4>5
    <3> QED
      BY <3>2, <3>3
  <2> QED
    BY <2>1, <2>2, <2>3, StoreStep DEF StoresKept, RowAdded
<1> QED
  BY <1>1, SpecTypeOK, SpecDurableBeforeVisible, PTL DEF Spec, ForgottenBeyondLoad

====================
