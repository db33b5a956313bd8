-------------------------- MODULE MeshPeers_proofs --------------------------
(***************************************************************************)
(* Proofs about the peers of a mesh node: every table keeps its type, and  *)
(* the state of a path agrees with its count of misses for every number of *)
(* peers, paths and callers and for every pair of thresholds.              *)
(***************************************************************************)
EXTENDS MeshPeers, TLAPS

-----------------------------------------------------------------------------
(* The state machine of a path *)

\* A path's state and its count agree.
Agrees(b) == /\ b.status = "Active"     => b.missed < SuspectAt
             /\ b.status = "Suspect"    => b.missed >= SuspectAt
             /\ b.status = "Down"       => b.missed >= DownAt
             /\ b.status = "Recovering" => b.missed = 0

Agreeing == {b \in Beat : Agrees(b)}

LEMMA ReceivedAgrees == ASSUME NEW b \in Agreeing PROVE Received(b) \in Agreeing
BY MeshAssumption DEF Agreeing, Agrees, Beat, Healths, Received

LEMMA MissedAgrees == ASSUME NEW b \in Agreeing PROVE Missed(b) \in Agreeing
<1>1. b.missed \in 0..DownAt /\ SuspectAt \in Nat \ {0} /\ DownAt \in Nat /\ SuspectAt < DownAt
  BY MeshAssumption DEF Agreeing, Beat
<1>2. PICK n \in 0..DownAt : Missed(b) = [missed |-> n, status |-> Rung(n)]
  BY <1>1 DEF Missed
<1>3. /\ n < SuspectAt => Rung(n) = "Active"
      /\ n >= SuspectAt /\ n < DownAt => Rung(n) = "Suspect"
      /\ n >= DownAt => Rung(n) = "Down"
  BY <1>1 DEF Rung
<1>4. CASE n < SuspectAt
  BY <1>1, <1>2, <1>3, <1>4 DEF Agreeing, Agrees, Beat, Healths
<1>5. CASE n >= SuspectAt /\ n < DownAt
  BY <1>1, <1>2, <1>3, <1>5 DEF Agreeing, Agrees, Beat, Healths
<1>6. CASE n >= DownAt
  BY <1>1, <1>2, <1>3, <1>6 DEF Agreeing, Agrees, Beat, Healths
<1> QED
  BY <1>1, <1>4, <1>5, <1>6

LEMMA SuspectedAgrees == ASSUME NEW b \in Agreeing PROVE Suspected(b) \in Agreeing
BY MeshAssumption DEF Agreeing, Agrees, Beat, Healths, Suspected

\* Heartbeats are absent or agree: the inductive form of LadderAgrees.
Ladder == beats \in [Peers -> [Paths -> Agreeing] \cup {None}]

\* One path of a peer whose heartbeats are there goes on to another state.
LEMMA OneBeat ==
    ASSUME Ladder, NEW p, NEW q, NEW b, beats[p] # None,
           beats[p] \in [Paths -> Agreeing] /\ q \in Paths => b \in Agreeing
    PROVE  [beats EXCEPT ![p][q] = b] \in [Peers -> [Paths -> Agreeing] \cup {None}]
<1>1. CASE p \in Peers /\ q \in Paths
  BY <1>1 DEF Ladder
<1>2. CASE p \in Peers /\ q \notin Paths
  BY <1>2 DEF Ladder
<1>3. CASE p \notin Peers
  BY <1>3 DEF Ladder
<1> QED
  BY <1>1, <1>2, <1>3

\* Heartbeats that are there are told from those that are not, and stay.
LEMMA BeatsThere == \A f \in [Paths -> Agreeing] : f # None
<1>1. [Paths -> Agreeing] \subseteq [Paths -> Beat]
  BY DEF Agreeing
<1> QED
  BY <1>1, MeshAssumption

LEMMA OneBeatKept ==
    ASSUME Ladder, NEW p, NEW q, NEW b, beats[p] # None,
           beats[p] \in [Paths -> Agreeing] /\ q \in Paths => b \in Agreeing,
           beats' = [beats EXCEPT ![p][q] = b]
    PROVE  \A r \in Peers : beats[r] # None => beats'[r] # None
<1> SUFFICES ASSUME NEW r \in Peers, beats[r] # None, r = p PROVE beats'[r] # None
  BY DEF Ladder
<1>1. beats[r] \in [Paths -> Agreeing] /\ beats'[r] = [beats[r] EXCEPT ![q] = b]
  BY DEF Ladder
<1>2. beats'[r] \in [Paths -> Agreeing]
  <2>1. CASE q \in Paths
    BY <1>1, <2>1
  <2>2. CASE q \notin Paths
    BY <1>1, <2>2
  <2> QED
    BY <2>1, <2>2
<1> QED
  BY <1>2, BeatsThere

\* A path that is heard: nothing happens to a peer without heartbeats.
LEMMA HeardKept ==
    ASSUME Ladder, NEW p, NEW q,
           beats' = IF beats[p] = None THEN beats ELSE [beats EXCEPT ![p][q] = Received(@)]
    PROVE  \A r \in Peers : beats[r] # None => beats'[r] # None
<1>1. CASE beats[p] = None
  BY <1>1
<1>2. CASE beats[p] # None
  <2>1. beats[p] \in [Paths -> Agreeing] /\ q \in Paths => Received(beats[p][q]) \in Agreeing
    BY ReceivedAgrees
  <2> QED
    BY <1>2, <2>1, OneBeatKept
<1> QED
  BY <1>1, <1>2

LEMMA LadderNext == Ladder /\ [Next]_vars => Ladder'
<1> SUFFICES ASSUME Ladder, [Next]_vars PROVE Ladder'
  OBVIOUS
<1>1. CASE TickMissed
  BY <1>1, MissedAgrees DEF TickMissed, Ladder
<1>2. ASSUME NEW p \in Peers, NEW q \in Paths, MarkMissed(p, q) PROVE Ladder'
  BY <1>2, MissedAgrees DEF MarkMissed, Ladder
<1>3. ASSUME NEW p \in Peers, NEW q \in Paths, MarkSuspect(p, q) PROVE Ladder'
  BY <1>3, SuspectedAgrees DEF MarkSuspect, Ladder
<1>4. ASSUME NEW p, NEW q,
             beats' = IF beats[p] = None THEN beats ELSE [beats EXCEPT ![p][q] = Received(@)]
      PROVE  Ladder'
  BY <1>4, OneBeat, ReceivedAgrees DEF Ladder
<1>5. CASE Receive
  BY <1>4, <1>5 DEF Receive
<1>6. ASSUME NEW c \in Calls, Pong(c) PROVE Ladder'
  BY <1>4, <1>6 DEF Pong
<1>7. ASSUME NEW c \in Calls, AddPeer(c) PROVE Ladder'
  <2>1. [missed |-> 0, status |-> "Active"] \in Agreeing
    BY MeshAssumption DEF Agreeing, Agrees, Beat, Healths
  <2> QED
    BY <1>7, <2>1 DEF AddPeer, Ladder
<1>8. ASSUME NEW t \in Threads, NEW p, NEW l, Removes(t, p, l) PROVE Ladder'
  BY <1>8 DEF Removes, Ladder
<1>9. CASE UNCHANGED beats
  BY <1>9 DEF Ladder
<1>10. {Sender, Monitor, Reaper} \subseteq Threads /\ Calls \subseteq Threads
  BY DEF Threads, Tasks
<1>11. SendBeats => Ladder'
  BY <1>1, <1>5, <1>9
     DEF SendBeats, ListBeats, Pick, Upsert, Invalidate, ReadStatus, Apply, node
<1>12. Watch => Ladder'
  BY <1>9 DEF Watch, ListPeers, Pick, Snapshot, MarkPath, Invalidate, ReadDown, Apply, node
<1>13. Reap => Ladder'
  BY <1>8, <1>9, <1>10 DEF Reap, ListStale, Unpeer, Unbeat, Unroute, Forget, node
<1>14. ASSUME NEW c \in Calls, Arrive(c) PROVE Ladder'
  BY <1>6, <1>7, <1>8, <1>9, <1>10, <1>14 DEF Arrive, RemovePeer, Send, node
<1>15. ASSUME NEW c \in Calls, Serve(c) PROVE Ladder'
  BY <1>8, <1>9, <1>10, <1>15
     DEF Serve, Upsert, Invalidate, Insert, Unbeat, Unroute, Forget, MarkHealthy, Refresh,
         Activate, LookUp, Compute, Fill, node
<1>16. ASSUME NEW p \in Peers, Expire(p) PROVE Ladder'
  BY <1>9, <1>16 DEF Expire
<1>17. CASE UNCHANGED vars
  BY <1>9, <1>17 DEF vars, node
<1> QED
  BY <1>2, <1>3, <1>11, <1>12, <1>13, <1>14, <1>15, <1>16, <1>17 DEF Next

\* A path that is suspect, by misses or by decree, has missed at least SuspectAt times, one
\* that is down DownAt times, one that recovers has just been heard: whichever of the
\* heartbeat task, the callers and the removals moves it, and for every pair of thresholds.
THEOREM SpecLadderAgrees == Spec => []LadderAgrees
<1>1. Init => Ladder
  BY DEF Init, Ladder
<1>2. Ladder => LadderAgrees
  BY DEF Ladder, LadderAgrees, Agreeing, Agrees
<1> QED
  BY <1>1, <1>2, LadderNext, PTL DEF Spec

-----------------------------------------------------------------------------
(* Types *)

NodeOK == /\ peers \in [Peers -> States \cup {None}]
          /\ stats \in [Peers -> [Paths -> {"absent", "healthy", "unhealthy"}]]
          /\ cache \in [Peers -> Paths \cup {None}]
WalkOK == /\ pc \in [Threads -> Steps]
          /\ peer \in [Threads -> Peers \cup {None}]
          /\ path \in [Threads -> Paths \cup {None}]
          /\ todo \in [Threads -> SUBSET Peers] /\ left \in [Threads -> SUBSET Paths]
          /\ raced \subseteq Peers

\* What a thread has read is what its next step takes it for.
SawOK == /\ saw \in [Threads -> Healths \cup {"Online"} \cup Paths \cup {None}]
         /\ \A t \in Threads : /\ pc[t] = "apply" => saw[t] \in {"Online", "Suspect", "Down"}
                               /\ pc[t] = "fill" => saw[t] \in Paths

Typed == Ladder /\ NodeOK /\ WalkOK /\ SawOK

LEMMA TypedIsTypeOK == Typed => TypeOK
<1> SUFFICES ASSUME Typed PROVE TypeOK
  OBVIOUS
<1>1. beats \in [Peers -> [Paths -> Beat] \cup {None}]
  BY DEF Typed, Ladder, Agreeing
<1> QED
  BY <1>1 DEF Typed, NodeOK, WalkOK, SawOK, TypeOK

LEMMA TypedInit == Init => Typed
BY DEF Init, Typed, Ladder, NodeOK, WalkOK, SawOK, Steps, NoStats

LEMMA NodeOKNext == Typed /\ [Next]_vars => NodeOK'
<1> SUFFICES ASSUME NodeOK, SawOK, [Next]_vars PROVE NodeOK'
  BY DEF Typed
<1>0. /\ {Sender, Monitor, Reaper} \subseteq Threads /\ Calls \subseteq Threads
      /\ NoStats \in [Paths -> {"absent", "healthy", "unhealthy"}]
  BY DEF Threads, Tasks, NoStats
<1>1. ASSUME NEW t \in Threads, Upsert(t) PROVE NodeOK'
  BY <1>1 DEF Upsert, NodeOK
<1>2. ASSUME NEW t \in Threads, NEW a, NEW b, Invalidate(t, a, b) PROVE NodeOK'
  BY <1>2 DEF Invalidate, DropRoutes, NodeOK
<1>3. ASSUME NEW t \in Threads, Apply(t) PROVE NodeOK'
  BY <1>3 DEF Apply, StateOf, At, NodeOK, SawOK, States
<1>4. CASE MarkPath
  BY <1>4 DEF MarkPath, SetHealth, NodeOK
<1>5. ASSUME NEW t \in Threads, NEW p, NEW l, Removes(t, p, l), UNCHANGED <<stats, cache>>
      PROVE  NodeOK'
  BY <1>5 DEF Removes, NodeOK
<1>6. ASSUME NEW t \in Threads, Unbeat(t) \/ Unroute(t) \/ Forget(t) PROVE NodeOK'
  BY <1>0, <1>5, <1>6 DEF Unbeat, Unroute, Forget, DropRoutes, NodeOK
<1>7. ASSUME NEW c \in Calls, Insert(c) \/ MarkHealthy(c) \/ Refresh(c) \/ Activate(c)
      PROVE  NodeOK'
  <2>1. CASE Insert(c)
    BY <2>1 DEF Insert, NodeOK, States
  <2>2. CASE MarkHealthy(c)
    BY <2>2 DEF MarkHealthy, SetHealth, NodeOK
  <2>3. CASE Refresh(c)
    BY <2>3 DEF Refresh, DropRoutes, NodeOK
  <2>4. CASE Activate(c)
    BY <2>4 DEF Activate, NodeOK, States
  <2> QED
    BY <1>7, <2>1, <2>2, <2>3, <2>4
<1>8. ASSUME NEW c \in Calls, Fill(c) PROVE NodeOK'
  BY <1>0, <1>8 DEF Fill, At, NodeOK, SawOK
<1>9. ASSUME NEW p \in Peers, Expire(p) PROVE NodeOK'
  BY <1>9 DEF Expire, NodeOK
<1>10. CASE UNCHANGED <<peers, stats, cache>>
  BY <1>10 DEF NodeOK
<1>11. SendBeats => NodeOK'
  BY <1>0, <1>1, <1>2, <1>3, <1>10
     DEF SendBeats, TickMissed, ListBeats, Pick, Receive, ReadStatus, node
<1>12. Watch => NodeOK'
  BY <1>0, <1>2, <1>3, <1>4, <1>10 DEF Watch, ListPeers, Pick, Snapshot, ReadDown, node
<1>13. Reap => NodeOK'
  BY <1>0, <1>5, <1>6, <1>10 DEF Reap, ListStale, Unpeer, node
<1>14. ASSUME NEW c \in Calls, Arrive(c) PROVE NodeOK'
  BY <1>0, <1>5, <1>10, <1>14 DEF Arrive, AddPeer, RemovePeer, Pong, Send, node
<1>15. ASSUME NEW c \in Calls, Serve(c) PROVE NodeOK'
  BY <1>0, <1>1, <1>2, <1>6, <1>7, <1>8, <1>10, <1>15 DEF Serve, LookUp, Compute, node
<1>16. ASSUME NEW p \in Peers, NEW q \in Paths, MarkMissed(p, q) \/ MarkSuspect(p, q)
       PROVE  NodeOK'
  BY <1>10, <1>16 DEF MarkMissed, MarkSuspect
<1> QED
  BY <1>9, <1>10, <1>11, <1>12, <1>13, <1>14, <1>15, <1>16 DEF Next, vars, node

LEMMA WalkOKNext == Typed /\ [Next]_vars => WalkOK'
<1> SUFFICES ASSUME Typed, [Next]_vars PROVE WalkOK'
  OBVIOUS
<1>0. {Sender, Monitor, Reaper} \subseteq Threads /\ Calls \subseteq Threads
  BY DEF Threads, Tasks
<1> USE <1>0 DEF Typed, WalkOK, Goto, Steps
<1>1. ASSUME NEW t \in Threads, NEW l \in Steps, Pick(t, l) PROVE WalkOK'
  BY <1>1 DEF Pick
<1>2. ASSUME NEW t \in Threads, NEW a \in Steps, NEW b \in Steps, Invalidate(t, a, b)
      PROVE  WalkOK'
  BY <1>2 DEF Invalidate, NextPath
<1>3. ASSUME NEW t \in Threads, Upsert(t) \/ Apply(t) \/ Unbeat(t) \/ Unroute(t) \/ Forget(t)
      PROVE  WalkOK'
  BY <1>3 DEF Upsert, Apply, Unbeat, Unroute, Forget, NextPeer, walk
<1>4. SendBeats => WalkOK'
  BY <1>1, <1>2, <1>3
     DEF SendBeats, TickMissed, ListBeats, StartRound, Receive, ReadStatus, NextPeer, walk
<1>5. Watch => WalkOK'
  BY <1>1, <1>2, <1>3
     DEF Watch, ListPeers, StartRound, Snapshot, MarkPath, NextPath, ReadDown, NextPeer, walk
<1>6. Reap => WalkOK'
  BY <1>3 DEF Reap, ListStale, StartRound, Unpeer
<1>7. ASSUME NEW c \in Calls, Arrive(c) PROVE WalkOK'
  BY <1>7 DEF Arrive, AddPeer, RemovePeer, Pong, Send
<1>8. ASSUME NEW c \in Calls, Serve(c) PROVE WalkOK'
  <2>1. ASSUME Insert(c) \/ MarkHealthy(c) \/ Refresh(c) \/ Activate(c) \/ LookUp(c)
               \/ Compute(c) \/ Fill(c)
        PROVE  WalkOK'
    BY <2>1 DEF Insert, MarkHealthy, Refresh, Activate, LookUp, Compute, Fill, Return, walk
  <2> QED
    BY <1>2, <1>3, <1>8, <2>1 DEF Serve
<1>9. UNCHANGED <<pc, walk, raced>> => WalkOK'
  BY DEF walk
<1> QED
  BY <1>4, <1>5, <1>6, <1>7, <1>8, <1>9 DEF Next, Expire, MarkMissed, MarkSuspect, vars

LEMMA SawOKNext == Typed /\ [Next]_vars => SawOK'
<1> SUFFICES ASSUME WalkOK, SawOK, [Next]_vars PROVE SawOK'
  BY DEF Typed
<1>0. {Sender, Monitor, Reaper} \subseteq Threads /\ Calls \subseteq Threads
  BY DEF Threads, Tasks
\* A step that reads nothing goes on to no step that uses what was read.
<1>1. ASSUME NEW t \in Threads, NEW l, Goto(t, l), l \notin {"apply", "fill"}, UNCHANGED saw
      PROVE  SawOK'
  BY <1>1 DEF Goto, SawOK, WalkOK
<1>2. ASSUME NEW t \in Threads, NEW s, NEW l, Goto(t, l), saw' = [saw EXCEPT ![t] = s],
             \/ l = "apply" /\ s \in {"Online", "Suspect", "Down"}
             \/ l = "fill" /\ s \in Paths
             \/ l \notin {"apply", "fill"} /\ s \in Healths \cup Paths \cup {None}
      PROVE  SawOK'
  BY <1>2 DEF Goto, SawOK, WalkOK, Healths
<1>3. ASSUME NEW t \in Threads, Apply(t) PROVE SawOK'
  BY <1>2, <1>3 DEF Apply, NextPeer
<1>4. ASSUME NEW t \in Threads, NEW a \in Steps, NEW b \in Steps, Invalidate(t, a, b),
             {a, b} \cap {"apply", "fill"} = {}
      PROVE  SawOK'
  BY <1>1, <1>4 DEF Invalidate, NextPath
<1>5. ASSUME NEW t \in Threads, Upsert(t) \/ Unbeat(t) \/ Unroute(t) \/ Forget(t)
      PROVE  SawOK'
  BY <1>1, <1>5 DEF Upsert, Unbeat, Unroute, Forget, NextPeer, walk
<1>6. SendBeats => SawOK'
  <2>1. CASE ReadStatus
    <3>1. beats[peer[Sender]] # None => Overall(peer[Sender]) \in {"Online", "Suspect", "Down"}
      BY DEF Overall
    <3> QED
      BY <1>0, <1>1, <1>2, <2>1, <3>1 DEF ReadStatus, NextPeer
  <2> QED
    BY <1>0, <1>1, <1>3, <1>4, <1>5, <2>1
       DEF SendBeats, TickMissed, ListBeats, StartRound, Pick, Receive, walk, Steps
<1>7. Watch => SawOK'
  <2>1. CASE Snapshot
    BY <1>0, <1>1, <1>2, <2>1 DEF Snapshot, NextPath, Reported, Healths
  <2>2. CASE MarkPath \/ ReadDown
    BY <1>0, <1>1, <1>2, <2>2 DEF MarkPath, ReadDown, NextPeer
  <2> QED
    BY <1>0, <1>1, <1>3, <1>4, <2>1, <2>2 DEF Watch, ListPeers, StartRound, Pick, Steps
<1>8. Reap => SawOK'
  BY <1>0, <1>1, <1>5 DEF Reap, ListStale, StartRound, Unpeer
<1>9. ASSUME NEW c \in Calls, Arrive(c) PROVE SawOK'
  BY <1>0, <1>1, <1>9 DEF Arrive, AddPeer, RemovePeer, Pong, Send
<1>10. ASSUME NEW c \in Calls, Serve(c) PROVE SawOK'
  <2>1. CASE Insert(c) \/ MarkHealthy(c) \/ Refresh(c) \/ Activate(c) \/ LookUp(c)
    BY <1>0, <1>1, <2>1 DEF Insert, MarkHealthy, Refresh, Activate, LookUp, Return, walk
  <2>2. CASE Compute(c) \/ Fill(c)
    BY <1>0, <1>1, <1>2, <2>2 DEF Compute, Fill, Return
  <2> QED
    BY <1>0, <1>4, <1>5, <1>10, <2>1, <2>2 DEF Serve, Steps
<1>11. UNCHANGED <<pc, walk>> => SawOK'
  BY DEF SawOK, walk
<1> QED
  BY <1>6, <1>7, <1>8, <1>9, <1>10, <1>11 DEF Next, Expire, MarkMissed, MarkSuspect, vars

LEMMA TypedNext == Typed /\ [Next]_vars => Typed'
BY LadderNext, NodeOKNext, WalkOKNext, SawOKNext DEF Typed

\* The tables, the threads and what these have read keep their types: in particular the
\* manager's state of a peer is never a state only the heartbeats know.
THEOREM SpecTypeOK == Spec => []TypeOK
BY TypedInit, TypedNext, TypedIsTypeOK, PTL DEF Spec

-----------------------------------------------------------------------------
(* The registration of a peer *)

AddSteps    == {"upsert", "invalidate", "insert"}
RemoveSteps == {"unbeat", "unroute", "forget"}

\* A peer is added and removed at the same time only if that was noted.
Apart == \A p \in Peers \ raced : ~(Adding(p) /\ Removing(p))

\* A peer under removal has left the manager's table.
Gone == \A t \in Threads, p \in Peers \ raced :
           pc[t] \in RemoveSteps /\ peer[t] = p => peers[p] = None

\* A peer under addition has its heartbeats, and the paths that were gone through.
Added == \A c \in Calls, p \in Peers \ raced : pc[c] \in AddSteps /\ peer[c] = p =>
            /\ beats[p] # None
            /\ \A q \in Paths \ left[c] :
                  stats[p][q] = "absent" => pc[c] = "upsert" /\ path[c] = q
            /\ pc[c] = "insert" => left[c] = {}

RegInv == Apart /\ Gone /\ Added /\ Registered

LEMMA RegInvInit == Init => RegInv
<1> SUFFICES ASSUME Init PROVE RegInv
  OBVIOUS
<1>1. /\ \A t \in Threads : pc[t] = "idle" /\ peer[t] = None
      /\ \A p \in Peers : peers[p] = None
      /\ todo = [t \in Threads |-> {}]
      /\ Reaper \in Threads /\ Calls \subseteq Threads
  BY DEF Init, Threads, Tasks
<1> QED
  BY <1>1 DEF RegInv, Apart, Gone, Added, Registered, Adding, Removing, AddSteps, RemoveSteps

\* A step that takes nothing out of the heartbeats and the paths, adds nothing to the
\* manager's table and begins or carries on no addition and no removal.
Keeps == /\ \A p \in Peers : /\ peers[p] = None => peers'[p] = None
                             /\ beats[p] # None => beats'[p] # None
                             /\ \A q \in Paths : stats[p][q] # "absent" => stats'[p][q] # "absent"
         /\ raced' = raced /\ todo'[Reaper] \subseteq todo[Reaper]
Goes == /\ \A c \in Calls : pc'[c] \in AddSteps =>
              pc'[c] = pc[c] /\ peer'[c] = peer[c] /\ left'[c] = left[c] /\ path'[c] = path[c]
        /\ \A t \in Threads : pc'[t] \in RemoveSteps =>
              pc[t] \in RemoveSteps /\ peer'[t] = peer[t]

LEMMA QuietStep == RegInv /\ Keeps /\ Goes => RegInv'
<1> SUFFICES ASSUME RegInv, Keeps, Goes PROVE RegInv'
  OBVIOUS
<1>1. \A p \in Peers : Adding(p)' => Adding(p)
  BY DEF Adding, Goes, AddSteps
<1>2. \A p \in Peers : Removing(p)' => Removing(p)
  BY DEF Removing, Goes, Keeps, RemoveSteps
<1>3. Apart'
  BY <1>1, <1>2 DEF RegInv, Apart, Keeps
<1>4. Gone'
  BY DEF RegInv, Gone, Keeps, Goes
<1>5. Added'
  BY DEF RegInv, Added, Keeps, Goes
<1>6. Registered'
  BY DEF RegInv, Registered, Keeps
<1> QED
  BY <1>3, <1>4, <1>5, <1>6 DEF RegInv

\* The same for one thread that goes on to a step of neither.
LEMMA QuietThread ==
    ASSUME Typed, RegInv, Keeps, NEW t \in Threads, NEW l, pc' = [pc EXCEPT ![t] = l],
           l \notin RemoveSteps, t \in Calls => l \notin AddSteps,
           \A u \in Threads : u # t => /\ peer'[u] = peer[u] /\ left'[u] = left[u]
                                       /\ path'[u] = path[u]
    PROVE  RegInv'
<1>1. Goes
  BY DEF Goes, Typed, WalkOK, Threads
<1> QED
  BY <1>1, QuietStep

LEMMA RegInvNext == Typed /\ RegInv /\ [Next]_vars => RegInv'
<1> SUFFICES ASSUME Typed, RegInv, [Next]_vars PROVE RegInv'
  OBVIOUS
<1>0. /\ {Sender, Monitor, Reaper} \subseteq Threads /\ Calls \subseteq Threads
      /\ {Sender, Monitor, Reaper} \cap Calls = {}
      /\ Sender # Reaper /\ Monitor # Reaper /\ None \notin Peers \cup Paths
  BY MeshAssumption DEF Threads, Tasks
<1>n. None \notin States
  BY MeshAssumption
<1> USE DEF AddSteps, RemoveSteps
<1>1. SendBeats => RegInv'
  <2> SUFFICES ASSUME SendBeats PROVE RegInv'
    OBVIOUS
  <2>1. Keeps
    <3> USE <1>0 DEF Typed, NodeOK, WalkOK, SawOK, Ladder
    <3>1. CASE TickMissed
      <4>1. \A p \in Peers : beats[p] # None => beats'[p] \in [Paths -> Agreeing]
        BY <3>1, MissedAgrees DEF TickMissed
      <4> QED
        BY <3>1, <4>1, BeatsThere DEF TickMissed, Keeps, walk
    <3>2. CASE ListBeats \/ Pick(Sender, "receive") \/ ReadStatus
      <4>1. UNCHANGED <<peers, beats, stats, raced>>
            /\ \E ps : todo' = [todo EXCEPT ![Sender] = ps]
        BY <3>2 DEF ListBeats, StartRound, Pick, ReadStatus, walk, node
      <4> QED
        BY <4>1 DEF Keeps
    <3>3. CASE Receive
      <4>1. \A r \in Peers : beats[r] # None => beats'[r] # None
        BY <3>3, HeardKept DEF Receive
      <4> QED
        BY <3>3, <4>1 DEF Receive, Keeps, walk
    <3>4. CASE Upsert(Sender)
      BY <3>4 DEF Upsert, Keeps, walk
    <3>5. CASE Invalidate(Sender, "receive", "status") \/ Apply(Sender)
      BY <3>5 DEF Invalidate, Apply, Keeps
    <3> QED
      BY <3>1, <3>2, <3>3, <3>4, <3>5 DEF SendBeats
  <2>2. PICK l : l \notin RemoveSteps /\ pc' = [pc EXCEPT ![Sender] = l]
    BY DEF SendBeats, TickMissed, ListBeats, StartRound, Pick, Receive, Upsert, Invalidate,
           NextPath, ReadStatus, Apply, NextPeer, Goto
  <2>3. \A u \in Threads : u # Sender =>
           peer'[u] = peer[u] /\ left'[u] = left[u] /\ path'[u] = path[u]
    BY DEF SendBeats, TickMissed, ListBeats, StartRound, Pick, Receive, Upsert, Invalidate,
           NextPath, ReadStatus, Apply, NextPeer, walk, Typed, WalkOK
  <2> QED
    BY <1>0, <2>1, <2>2, <2>3, QuietThread
<1>2. Watch => RegInv'
  <2> SUFFICES ASSUME Watch PROVE RegInv'
    OBVIOUS
  <2>1. Keeps
    <3> USE <1>0 DEF Typed, NodeOK, WalkOK, SawOK, Ladder
    <3>1. CASE ListPeers \/ Pick(Monitor, "snapshot") \/ Snapshot \/ ReadDown
      BY <3>1 DEF ListPeers, StartRound, Pick, Snapshot, ReadDown, Keeps, node
    <3>2. CASE MarkPath
      BY <3>2 DEF MarkPath, SetHealth, Keeps
    <3>3. CASE Invalidate(Monitor, "snapshot", "isDown") \/ Apply(Monitor)
      BY <3>3 DEF Invalidate, Apply, Keeps
    <3> QED
      BY <3>1, <3>2, <3>3 DEF Watch
  <2>2. PICK l : l \notin RemoveSteps /\ pc' = [pc EXCEPT ![Monitor] = l]
    BY DEF Watch, ListPeers, StartRound, Pick, Snapshot, MarkPath, Invalidate, NextPath,
           ReadDown, Apply, NextPeer, Goto
  <2>3. \A u \in Threads : u # Monitor =>
           peer'[u] = peer[u] /\ left'[u] = left[u] /\ path'[u] = path[u]
    BY DEF Watch, ListPeers, StartRound, Pick, Snapshot, MarkPath, Invalidate, NextPath,
           ReadDown, Apply, NextPeer, Typed, WalkOK
  <2> QED
    BY <1>0, <2>1, <2>2, <2>3, QuietThread
\* A removal that begins notes the additions under way.
<1>3. CASE ListStale
  <2>1. PICK gone \in SUBSET Peers : todo' = [todo EXCEPT ![Reaper] = gone]
                                      /\ raced' = raced \cup {p \in gone : Adding(p)}
    BY <1>3 DEF ListStale, StartRound
  <2>2. /\ UNCHANGED <<peers, beats, stats, peer, path, left>>
        /\ \E l : l \notin AddSteps \cup RemoveSteps /\ pc' = [pc EXCEPT ![Reaper] = l]
        /\ todo'[Reaper] = gone
    BY <1>0, <1>3, <2>1 DEF ListStale, StartRound, Goto, node, Typed, WalkOK
  <2>3. \A t \in Threads : pc'[t] \in AddSteps \cup RemoveSteps => pc'[t] = pc[t]
    BY <2>2 DEF Typed, WalkOK
  <2>4. Apart'
    BY <1>0, <2>1, <2>2, <2>3 DEF RegInv, Apart, Adding, Removing
  <2>5. Gone' /\ Added' /\ Registered'
    BY <1>0, <2>1, <2>2, <2>3 DEF RegInv, Gone, Added, Registered
  <2> QED
    BY <2>4, <2>5 DEF RegInv
\* The table loses the peer first.
<1>4. ASSUME NEW t \in Threads, NEW p \in Peers, t \in Calls \/ p \in todo[Reaper],
             peers' = [peers EXCEPT ![p] = None], UNCHANGED <<beats, stats, left, path>>,
             peer' = [peer EXCEPT ![t] = p], pc' = [pc EXCEPT ![t] = "unbeat"],
             todo'[Reaper] \subseteq todo[Reaper],
             raced' = IF Adding(p) /\ t \in Calls THEN raced \cup {p} ELSE raced
      PROVE  RegInv'
  <2>1. \A u \in Threads : u # t => pc'[u] = pc[u] /\ peer'[u] = peer[u]
    BY <1>4 DEF Typed, WalkOK
  <2>2. pc'[t] = "unbeat" /\ peer'[t] = p /\ raced \subseteq raced'
    BY <1>4 DEF Typed, WalkOK
  <2>3. \A q \in Peers : Adding(q)' => Adding(q)
    BY <1>0, <2>1, <2>2 DEF Adding
  <2>4. \A q \in Peers : Removing(q)' => Removing(q) \/ q = p
    BY <1>4, <2>1, <2>2 DEF Removing
  <2>5. Apart'
    <3>1. t \notin Calls => Removing(p)
      BY <1>4 DEF Removing
    <3> QED
      BY <1>4, <2>2, <2>3, <2>4, <3>1 DEF RegInv, Apart
  <2>6. Gone'
    BY <1>4, <2>1, <2>2 DEF RegInv, Gone, Typed, NodeOK
  <2>7. Added'
    BY <1>0, <1>4, <2>1, <2>2 DEF RegInv, Added
  <2>8. Registered'
    BY <1>4, <2>2 DEF RegInv, Registered, Typed, NodeOK
  <2> QED
    BY <2>5, <2>6, <2>7, <2>8 DEF RegInv
<1>5. CASE Unpeer
  <2>1. PICK p \in todo[Reaper] :
          /\ Removes(Reaper, p, "unpeer")
          /\ peer' = [peer EXCEPT ![Reaper] = p] /\ todo' = [todo EXCEPT ![Reaper] = @ \ {p}]
    BY <1>5 DEF Unpeer
  <2>2. p \in Peers /\ todo'[Reaper] \subseteq todo[Reaper]
    BY <1>0, <2>1 DEF Typed, WalkOK
  <2> QED
    BY <1>0, <1>4, <1>5, <2>1, <2>2 DEF Unpeer, Removes, Section, Goto
<1>6. ASSUME NEW c \in Calls, RemovePeer(c) PROVE RegInv'
  <2>1. PICK p \in Peers : /\ Removes(c, p, "unpeer")
                           /\ peer' = [peer EXCEPT ![c] = p]
                           /\ raced' = IF Adding(p) THEN raced \cup {p} ELSE raced
    BY <1>6 DEF RemovePeer
  <2> QED
    BY <1>0, <1>4, <1>6, <2>1 DEF RemovePeer, Removes, Section, Goto
\* What is taken out next belongs to a peer nobody adds.
<1>7. ASSUME NEW t \in Threads, Unbeat(t) \/ Unroute(t) PROVE RegInv'
  <2>1. /\ UNCHANGED <<peers, peer, path, todo, left, raced>> /\ pc[t] \in RemoveSteps
        /\ \E l \in RemoveSteps : pc' = [pc EXCEPT ![t] = l]
    BY <1>7 DEF Unbeat, Unroute, Removes, Section, Goto, At, walk
  <2>2. \A p \in Peers, q \in Paths :
           p # peer[t] => stats'[p][q] = stats[p][q]
    BY <1>7 DEF Unbeat, Unroute, Removes, Section, Typed, NodeOK, Ladder
  <2>b. \A p \in Peers : p # peer[t] => beats'[p] = beats[p]
    BY <1>7 DEF Unbeat, Unroute, Removes, Section, Typed, Ladder
  <2>3. \A u \in Threads : /\ pc'[u] \in RemoveSteps <=> pc[u] \in RemoveSteps
                           /\ pc[u] \in AddSteps => pc'[u] = pc[u]
                           /\ pc'[u] \in AddSteps => pc'[u] = pc[u]
    BY <2>1 DEF Typed, WalkOK
  <2>4. \A p \in Peers \ raced : p = peer[t] => ~Adding(p) /\ peers[p] = None
    BY <2>1 DEF RegInv, Apart, Gone, Removing
  <2>5. Apart' /\ Gone'
    BY <2>1, <2>3, <1>0 DEF RegInv, Apart, Gone, Adding, Removing
  <2>6. Added'
    BY <1>0, <2>1, <2>2, <2>b, <2>3, <2>4 DEF RegInv, Added, Adding
  <2>7. Registered'
    BY <2>1, <2>2, <2>b, <2>4 DEF RegInv, Registered
  <2> QED
    BY <2>5, <2>6, <2>7 DEF RegInv
<1>8. ASSUME NEW t \in Threads, Forget(t) PROVE RegInv'
  <2>1. Keeps
    BY <1>8 DEF Forget, Keeps
  <2>2. PICK l : l \notin AddSteps \cup RemoveSteps /\ pc' = [pc EXCEPT ![t] = l]
    BY <1>8 DEF Forget, NextPeer, Goto
  <2>3. \A u \in Threads : u # t => /\ peer'[u] = peer[u] /\ left'[u] = left[u]
                                    /\ path'[u] = path[u]
    BY <1>8 DEF Forget, NextPeer, Typed, WalkOK
  <2> QED
    BY <2>1, <2>2, <2>3, QuietThread
\* An addition that begins notes the removals under way.
<1>9. ASSUME NEW c \in Calls, AddPeer(c) PROVE RegInv'
  <2>1. PICK p \in Peers, q \in Paths :
          /\ beats' = [beats EXCEPT ![p] =
                         IF @ = None THEN [r \in Paths |-> [missed |-> 0, status |-> "Active"]]
                         ELSE @]
          /\ peer' = [peer EXCEPT ![c] = p]
          /\ path' = [path EXCEPT ![c] = q] /\ left' = [left EXCEPT ![c] = Paths \ {q}]
          /\ raced' = IF Removing(p) THEN raced \cup {p} ELSE raced
    BY <1>9 DEF AddPeer
  <2>2. /\ UNCHANGED <<peers, stats, todo>> /\ pc' = [pc EXCEPT ![c] = "upsert"]
        /\ raced \subseteq raced'
    BY <1>9, <2>1 DEF AddPeer, Goto
  <2>3. /\ \A u \in Threads : u # c => /\ pc'[u] = pc[u] /\ peer'[u] = peer[u]
                                       /\ path'[u] = path[u] /\ left'[u] = left[u]
        /\ pc'[c] = "upsert" /\ peer'[c] = p /\ path'[c] = q /\ left'[c] = Paths \ {q}
    BY <1>0, <2>1, <2>2 DEF Typed, WalkOK
  <2>4. /\ \A r \in Peers : beats[r] # None => beats'[r] # None
        /\ beats'[p] # None
    <3>1. [r \in Paths |-> [missed |-> 0, status |-> "Active"]] # None
      BY MeshAssumption DEF Beat, Healths
    <3> QED
      BY <2>1, <3>1 DEF Typed, Ladder
  <2>5. Apart'
    BY <1>0, <2>1, <2>2, <2>3 DEF RegInv, Apart, Adding, Removing
  <2>6. Gone' /\ Added' /\ Registered'
    BY <1>0, <2>2, <2>3, <2>4 DEF RegInv, Gone, Added, Registered
  <2> QED
    BY <2>5, <2>6 DEF RegInv
\* An addition goes on: the paths first, the table last.
<1>10. ASSUME NEW c \in Calls, Upsert(c) \/ Invalidate(c, "upsert", "insert") PROVE RegInv'
  <2>1. /\ UNCHANGED <<peers, beats, peer, todo, raced>> /\ pc[c] \in AddSteps
        /\ \E l \in AddSteps : pc' = [pc EXCEPT ![c] = l]
        /\ \A p \in Peers, q \in Paths : stats[p][q] # "absent" => stats'[p][q] # "absent"
    BY <1>10 DEF Upsert, Invalidate, NextPath, Goto, At, walk, Typed, NodeOK
  <2>2. \A u \in Threads : /\ pc'[u] \in RemoveSteps <=> pc[u] \in RemoveSteps
                           /\ pc'[u] \in AddSteps <=> pc[u] \in AddSteps
                           /\ u # c => /\ pc'[u] = pc[u] /\ path'[u] = path[u]
                                       /\ left'[u] = left[u]
    BY <1>10, <2>1 DEF Upsert, Invalidate, NextPath, walk, Typed, WalkOK
  <2>3. Apart' /\ Gone' /\ Registered'
    BY <2>1, <2>2 DEF RegInv, Apart, Gone, Registered, Adding, Removing
  <2>4. Added'
    <3> SUFFICES ASSUME NEW d \in Calls, NEW p \in Peers \ raced, pc[d] \in AddSteps,
                        peer[d] = p
                 PROVE  /\ beats[p] # None
                        /\ \A q \in Paths \ left'[d] :
                              stats'[p][q] = "absent" => pc'[d] = "upsert" /\ path'[d] = q
                        /\ pc'[d] = "insert" => left'[d] = {}
      <4>1. ASSUME NEW d \in Calls, NEW p \in Peers \ raced, pc'[d] \in AddSteps, peer'[d] = p
            PROVE  pc[d] \in AddSteps /\ peer[d] = p
        BY <1>0, <2>1, <2>2, <4>1
      <4> QED
        BY <2>1, <4>1 DEF Added
    <3>1. /\ beats[p] # None
          /\ \A q \in Paths \ left[d] :
                stats[p][q] = "absent" => pc[d] = "upsert" /\ path[d] = q
          /\ pc[d] = "insert" => left[d] = {}
      BY DEF RegInv, Added
    <3>2. CASE d # c
      BY <1>0, <2>1, <2>2, <3>1, <3>2
    <3>3. CASE d = c /\ Upsert(c)
      <4>1. /\ pc'[c] = "invalidate" /\ left'[c] = left[c] /\ path'[c] = path[c]
            /\ path[c] \in Paths => stats'[peer[c]][path[c]] # "absent"
        BY <1>0, <3>3 DEF Upsert, Goto, walk, Typed, WalkOK, NodeOK
      <4> QED
        BY <2>1, <3>1, <3>3, <4>1
    <3>4. CASE d = c /\ Invalidate(c, "upsert", "insert")
      <4>1. /\ pc[c] = "invalidate" /\ stats' = stats
            /\ \/ \E r \in left[c] : /\ path'[c] = r /\ left'[c] = left[c] \ {r}
                                      /\ pc'[c] = "upsert"
               \/ left[c] = {} /\ left'[c] = {} /\ pc'[c] = "insert"
        BY <1>0, <3>4 DEF Invalidate, NextPath, Goto, At, Typed, WalkOK
      <4> QED
        BY <3>1, <3>4, <4>1
    <3> QED
      BY <1>10, <3>2, <3>3, <3>4
  <2> QED
    BY <2>3, <2>4 DEF RegInv
<1>11. ASSUME NEW c \in Calls, Insert(c) PROVE RegInv'
  <2>1. /\ UNCHANGED <<beats, stats, todo, left, raced>> /\ pc[c] = "insert"
        /\ peers' = [peers EXCEPT ![peer[c]] = "Discovered"]
        /\ pc' = [pc EXCEPT ![c] = "idle"]
        /\ peer' = [peer EXCEPT ![c] = None] /\ path' = [path EXCEPT ![c] = None]
    BY <1>11 DEF Insert, Return, Goto, At
  <2>2. \A u \in Threads : /\ pc'[u] \in AddSteps \cup RemoveSteps => u # c
                           /\ u # c => /\ pc'[u] = pc[u] /\ peer'[u] = peer[u]
                                       /\ path'[u] = path[u]
    BY <2>1 DEF Typed, WalkOK
  <2>3. Apart'
    BY <1>0, <2>1, <2>2 DEF RegInv, Apart, Adding, Removing
  <2>4. \A p \in Peers : p # peer[c] => peers'[p] = peers[p]
    BY <2>1 DEF Typed, NodeOK
  <2>5. \A p \in Peers \ raced : p = peer[c] =>
           ~Removing(p) /\ beats[p] # None /\ \A q \in Paths : stats[p][q] # "absent"
    BY <1>0, <2>1 DEF RegInv, Apart, Added, Adding
  <2>6. Gone'
    BY <2>1, <2>2, <2>4, <2>5 DEF RegInv, Gone, Removing
  <2>7. Added'
    BY <1>0, <2>1, <2>2 DEF RegInv, Added
  <2>8. Registered'
    BY <2>1, <2>4, <2>5 DEF RegInv, Registered
  <2> QED
    BY <2>3, <2>6, <2>7, <2>8 DEF RegInv
<1>12. ASSUME NEW c \in Calls, Pong(c) \/ Send(c) PROVE RegInv'
  <2>1. Keeps
    <3>1. \A r \in Peers : beats[r] # None => beats'[r] # None
      BY <1>12, HeardKept DEF Pong, Send, node, Typed
    <3> QED
      BY <1>12, <3>1 DEF Pong, Send, node, Keeps
  <2>2. PICK l : l \notin AddSteps \cup RemoveSteps /\ pc' = [pc EXCEPT ![c] = l]
    BY <1>12 DEF Pong, Send, Goto
  <2>3. \A u \in Threads : u # c => /\ peer'[u] = peer[u] /\ left'[u] = left[u]
                                    /\ path'[u] = path[u]
    BY <1>12 DEF Pong, Send, Typed, WalkOK
  <2> QED
    BY <1>0, <2>1, <2>2, <2>3, QuietThread
<1>13. ASSUME NEW c \in Calls, \/ MarkHealthy(c) \/ Refresh(c) \/ Activate(c)
                              \/ LookUp(c) \/ Compute(c) \/ Fill(c)
       PROVE  RegInv'
  <2>1. Keeps
    <3> USE DEF Keeps, Typed, NodeOK
    <3>1. CASE MarkHealthy(c)
      <4>1. \A p \in Peers, q \in Paths : stats[p][q] # "absent" => stats'[p][q] # "absent"
        BY <3>1 DEF MarkHealthy, SetHealth
      <4> QED
        BY <3>1, <4>1 DEF MarkHealthy, walk
    <3>2. CASE Refresh(c) \/ Activate(c)
      BY <1>n, <3>2 DEF Refresh, Activate, States, walk
    <3>3. CASE LookUp(c) \/ Compute(c) \/ Fill(c)
      BY <3>3 DEF LookUp, Compute, Fill, node
    <3> QED
      BY <1>13, <3>1, <3>2, <3>3
  <2>2. PICK l : l \notin AddSteps \cup RemoveSteps /\ pc' = [pc EXCEPT ![c] = l]
    BY <1>13 DEF MarkHealthy, Refresh, Activate, LookUp, Compute, Fill, Return, Goto
  <2>3. \A u \in Threads : u # c => /\ peer'[u] = peer[u] /\ left'[u] = left[u]
                                    /\ path'[u] = path[u]
    BY <1>13 DEF MarkHealthy, Refresh, Activate, LookUp, Compute, Fill, Return, walk,
                 Typed, WalkOK
  <2> QED
    BY <1>0, <2>1, <2>2, <2>3, QuietThread
<1>14. ASSUME NEW p \in Peers, \/ Expire(p)
                              \/ \E q \in Paths : MarkMissed(p, q) \/ MarkSuspect(p, q)
       PROVE  RegInv'
  <2>1. Keeps
    <3>1. CASE Expire(p)
      BY <3>1 DEF Expire, Keeps, walk
    <3>2. CASE \E q \in Paths : MarkMissed(p, q) \/ MarkSuspect(p, q)
      <4>1. UNCHANGED <<peers, stats, walk, raced>>
        BY <3>2 DEF MarkMissed, MarkSuspect
      <4>2. \A r \in Peers : beats[r] # None => beats'[r] # None
        <5>1. PICK q \in Paths : /\ beats' = [beats EXCEPT ![p][q] = Missed(@)]
                                    \/ beats' = [beats EXCEPT ![p][q] = Suspected(@)]
                                 /\ beats[p] # None
          BY <3>2 DEF MarkMissed, MarkSuspect
        <5>2. Missed(beats[p][q]) \in Agreeing /\ Suspected(beats[p][q]) \in Agreeing
          BY <5>1, MissedAgrees, SuspectedAgrees DEF Typed, Ladder
        <5> QED
          BY <5>1, <5>2, OneBeatKept DEF Typed
      <4> QED
        BY <4>1, <4>2 DEF Keeps, walk
    <3> QED
      BY <1>14, <3>1, <3>2
  <2>2. Goes
    BY <1>14 DEF Expire, MarkMissed, MarkSuspect, walk, Goes
  <2> QED
    BY <2>1, <2>2, QuietStep
<1>15. CASE UNCHANGED vars
  BY <1>15, QuietStep DEF vars, node, walk, Keeps, Goes
<1> QED
  BY <1>0, <1>1, <1>2, <1>3, <1>5, <1>6, <1>7, <1>8, <1>9, <1>10, <1>11, <1>12, <1>13, <1>14,
     <1>15 DEF Next, Reap, Arrive, Serve

\* A peer in the manager's table has its heartbeats and all its paths, with any number of
\* callers that add and remove peers while the tasks walk over the tables, unless the peer
\* was added while it was being removed: a removal takes the table's entry first and an
\* addition makes it last, so the table never runs ahead of the other three maps.
THEOREM SpecRegistered == Spec => []Registered
<1>1. RegInv => Registered
  BY DEF RegInv
<1> QED
  BY <1>1, TypedInit, TypedNext, RegInvInit, RegInvNext, PTL DEF Spec
=============================================================================
