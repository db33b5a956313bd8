----------------------------- MODULE MeshPeers ------------------------------
(***************************************************************************)
(* A mesh node's view of its peers: the manager's table, the heartbeat     *)
(* protocol's path states and the router's path table and route cache,     *)
(* four maps behind four locks.  Three background tasks and the callers    *)
(* walk over them one lock at a time.                                      *)
(*                                                                         *)
(* A thread is one of the tasks or a caller; every step is one section     *)
(* under one lock.  Time is left out: a timeout may be noticed at any tick,*)
(* a peer that is down may have been silent long enough to be reaped, and a*)
(* cached route may expire at any moment.  Scores choose any healthy path, *)
(* for one type of traffic.                                                *)
(***************************************************************************)
EXTENDS Integers

CONSTANTS Peers, Paths, Calls,
          Sender, Monitor, Reaper,   \* the heartbeat, health and reaper tasks
          SuspectAt, DownAt,         \* misses after which a path is Suspect, Down
          None

Tasks   == {Sender, Monitor, Reaper}
Threads == Tasks \cup Calls

Healths == {"Active", "Suspect", "Down", "Recovering"}
Beat    == [missed : 0..DownAt, status : Healths]
States  == {"Discovered", "Active", "Suspect", "Down"}

ASSUME MeshAssumption ==
    /\ SuspectAt \in Nat \ {0} /\ DownAt \in Nat /\ SuspectAt < DownAt
    /\ None \notin Peers \cup Paths \cup States /\ None \notin [Paths -> Beat]
    /\ Sender # Monitor /\ Monitor # Reaper /\ Reaper # Sender /\ Tasks \cap Calls = {}

VARIABLES peers,     \* peers[p]: the state of p in the manager's table, None if absent
          beats,     \* beats[p]: the heartbeat state of p's paths, None if absent
          stats,     \* stats[p][q]: the router's entry of a path
          cache,     \* cache[p]: the cached route to p that has not expired
          pc, peer, path,   \* of a thread: where it is, the peer and path at hand
          todo, left,       \* the peers and paths it has still to visit
          saw,       \* what it read under the last lock
          raced      \* history: peers added and removed at the same time

node    == <<peers, beats, stats, cache>>
walk    == <<peer, path, todo, left, saw>>
vars    == <<node, pc, walk, raced>>

NoStats == [q \in Paths |-> "absent"]

Steps == {"idle", "list", "pick", "invalidate",           \* walking
          "receive", "upsert", "status", "apply",         \* the heartbeat task
          "snapshot", "mark", "isDown",                   \* the monitor
          "unbeat", "unroute", "forget",                  \* a removal
          "insert",                                       \* an addition
          "healthy", "refresh", "activate",               \* a pong
          "lookup", "compute", "fill"}                    \* a message

TypeOK ==
    /\ peers \in [Peers -> States \cup {None}]
    /\ beats \in [Peers -> [Paths -> Beat] \cup {None}]
    /\ stats \in [Peers -> [Paths -> {"absent", "healthy", "unhealthy"}]]
    /\ cache \in [Peers -> Paths \cup {None}]
    /\ pc \in [Threads -> Steps]
    /\ peer \in [Threads -> Peers \cup {None}] /\ path \in [Threads -> Paths \cup {None}]
    /\ todo \in [Threads -> SUBSET Peers] /\ left \in [Threads -> SUBSET Paths]
    /\ saw \in [Threads -> Healths \cup {"Online"} \cup Paths \cup {None}]
    /\ raced \subseteq Peers

Init ==
    /\ peers = [p \in Peers |-> None]
    /\ beats = [p \in Peers |-> None]
    /\ stats = [p \in Peers |-> NoStats]
    /\ cache = [p \in Peers |-> None]
    /\ pc = [t \in Threads |-> "idle"]
    /\ peer = [t \in Threads |-> None] /\ path = [t \in Threads |-> None]
    /\ todo = [t \in Threads |-> {}] /\ left = [t \in Threads |-> {}]
    /\ saw = [t \in Threads |-> None]
    /\ raced = {}

Goto(t, l) == pc' = [pc EXCEPT ![t] = l]
At(t, l)   == pc[t] = l
Return(c)  == /\ Goto(c, "idle")
              /\ peer' = [peer EXCEPT ![c] = None] /\ path' = [path EXCEPT ![c] = None]

-----------------------------------------------------------------------------
(* The state machine of a path. *)

Received(b) ==
    [missed |-> 0,
     status |-> IF b.status \in {"Down", "Recovering"} THEN "Recovering" ELSE "Active"]

Rung(n) == CASE n < SuspectAt -> "Active"
             [] n >= SuspectAt /\ n < DownAt -> "Suspect"
             [] OTHER -> "Down"

\* Misses are counted up to DownAt, beyond which they tell nothing apart.
Missed(b) == LET n == IF b.missed < DownAt THEN b.missed + 1 ELSE DownAt IN
             [missed |-> n, status |-> Rung(n)]

Usable == {"Active", "Recovering"}

\* What a reader finds of a path, and of a peer as a whole; None if it is unknown.
StatusOf(p, q) == IF beats[p] = None THEN None ELSE beats[p][q].status

\* (Mutant: the count is left behind, and the next miss brings the path back.)
SuspectedOnly(b) == [b EXCEPT !.status = "Suspect"]
Suspected(b) == [missed |-> IF b.missed < SuspectAt THEN SuspectAt ELSE b.missed,
                 status |-> "Suspect"]

Overall(p) ==
    LET statuses == {StatusOf(p, q) : q \in Paths} IN
    CASE beats[p] = None -> None
      [] "Active" \in statuses -> "Online"
      [] "Active" \notin statuses /\ statuses \cap {"Suspect", "Recovering"} # {} -> "Suspect"
      [] OTHER -> "Down"

MarkMissed(p, q) ==
    /\ beats[p] # None
    /\ beats' = [beats EXCEPT ![p][q] = Missed(@)]
    /\ UNCHANGED <<peers, stats, cache, pc, walk, raced>>

MarkSuspect(p, q) ==
    /\ beats[p] # None
    /\ beats' = [beats EXCEPT ![p][q] = Suspected(@)]
    /\ UNCHANGED <<peers, stats, cache, pc, walk, raced>>

-----------------------------------------------------------------------------
(* Walking over peers and paths. *)

\* The next peer of a task, with the first of its paths.
Pick(t, first) ==
    /\ At(t, "pick")
    /\ \E p \in todo[t], q \in Paths :
         /\ peer' = [peer EXCEPT ![t] = p] /\ todo' = [todo EXCEPT ![t] = @ \ {p}]
         /\ path' = [path EXCEPT ![t] = q] /\ left' = [left EXCEPT ![t] = Paths \ {q}]
    /\ Goto(t, first)
    /\ UNCHANGED <<node, saw, raced>>

\* On to the next path of the peer at hand, or to what follows the last one.
NextPath(t, first, after) ==
    \/ \E q \in left[t] :
         /\ path' = [path EXCEPT ![t] = q] /\ left' = [left EXCEPT ![t] = @ \ {q}]
         /\ Goto(t, first)
    \/ /\ left[t] = {}
       /\ path' = [path EXCEPT ![t] = None] /\ UNCHANGED left
       /\ Goto(t, after)

\* On to the next peer, or to the end of the round.
NextPeer(t) ==
    /\ peer' = [peer EXCEPT ![t] = None]
    /\ Goto(t, IF todo[t] = {} THEN "idle" ELSE "pick")

StartRound(t, ps) ==
    /\ todo' = [todo EXCEPT ![t] = ps]
    /\ Goto(t, IF ps = {} THEN "idle" ELSE "pick")

\* Every change of the path table is followed by a second section that drops the
\* cached routes to the peer.
DropRoutes(t) == cache' = [cache EXCEPT ![peer[t]] = None]

Invalidate(t, first, after) ==
    /\ At(t, "invalidate")
    /\ DropRoutes(t) /\ NextPath(t, first, after)
    /\ UNCHANGED <<peers, beats, stats, peer, todo, saw, raced>>

\* mark_path_healthy and mark_path_unhealthy leave an entry that is not there alone.
SetHealth(p, q, health) ==
    stats' = [stats EXCEPT ![p][q] = IF @ = "absent" THEN @ ELSE health]

\* upsert_path makes an entry, healthy, or leaves the health of the one that is there.
Upsert(t) ==
    /\ At(t, "upsert")
    /\ stats' = [stats EXCEPT ![peer[t]][path[t]] = IF @ = "absent" THEN "healthy" ELSE @]
    /\ Goto(t, "invalidate")
    /\ UNCHANGED <<peers, beats, cache, walk, raced>>

\* A peer with an active path is online; the manager calls that Active.  (Mutant: the
\* heartbeat's word is taken over.)
StateSame(status) == status
StateOf(status)   == IF status = "Online" THEN "Active" ELSE status

\* The manager's state of a peer follows the heartbeat's, as it was read before.
Apply(t) ==
    LET p == peer[t] IN
    /\ At(t, "apply")
    /\ peers' = [peers EXCEPT ![p] =
                   IF @ = None THEN None ELSE StateOf(saw[t])]
    /\ saw' = [saw EXCEPT ![t] = None]
    /\ NextPeer(t)
    /\ UNCHANGED <<beats, stats, cache, path, todo, left, raced>>

-----------------------------------------------------------------------------
(* The heartbeat task. *)

\* A path that was pinged and has not answered in time has missed; a path that is
\* down is not asked.
TickMissed ==
    /\ At(Sender, "idle")
    /\ \E late \in SUBSET (Peers \X Paths) :
         beats' = [p \in Peers |->
                     IF beats[p] = None THEN None
                     ELSE [q \in Paths |->
                             IF <<p, q>> \in late /\ beats[p][q].status # "Down"
                             THEN Missed(beats[p][q]) ELSE beats[p][q]]]
    /\ Goto(Sender, "list")
    /\ UNCHANGED <<peers, stats, cache, walk, raced>>

ListBeats ==
    /\ At(Sender, "list")
    /\ StartRound(Sender, {p \in Peers : beats[p] # None})
    /\ UNCHANGED <<node, peer, path, left, saw, raced>>

\* The ping is answered on the spot.
Receive ==
    LET p == peer[Sender]  q == path[Sender] IN
    /\ At(Sender, "receive")
    /\ beats' = IF beats[p] = None THEN beats ELSE [beats EXCEPT ![p][q] = Received(@)]
    /\ Goto(Sender, "upsert")
    /\ UNCHANGED <<peers, stats, cache, walk, raced>>

ReadStatus ==
    LET p == peer[Sender] IN
    /\ At(Sender, "status")
    /\ \/ /\ beats[p] = None
          /\ NextPeer(Sender) /\ UNCHANGED saw
       \/ /\ beats[p] # None
          /\ saw' = [saw EXCEPT ![Sender] = Overall(p)]
          /\ Goto(Sender, "apply") /\ UNCHANGED peer
    /\ UNCHANGED <<node, path, todo, left, raced>>

SendBeats == \/ TickMissed \/ ListBeats \/ Pick(Sender, "receive")
             \/ Receive \/ Upsert(Sender) \/ Invalidate(Sender, "receive", "status")
             \/ ReadStatus \/ Apply(Sender)

-----------------------------------------------------------------------------
(* The health monitor. *)

ListPeers ==
    /\ At(Monitor, "idle")
    /\ peers # [p \in Peers |-> None]
    /\ StartRound(Monitor, {p \in Peers : peers[p] # None})
    /\ UNCHANGED <<node, peer, path, left, saw, raced>>

\* What the router is told of a path; a suspect path keeps the health it has.
\* (Mutant: a path that recovers is not reported.)
ReportedLess == {"Down", "Active"}
Reported     == {"Down", "Active", "Recovering"}

Snapshot ==
    LET p == peer[Monitor]  q == path[Monitor] IN
    /\ At(Monitor, "snapshot")
    /\ \/ /\ StatusOf(p, q) \in Reported
          /\ saw' = [saw EXCEPT ![Monitor] = StatusOf(p, q)]
          /\ Goto(Monitor, "mark") /\ UNCHANGED <<path, left>>
       \/ /\ StatusOf(p, q) \notin Reported
          /\ NextPath(Monitor, "snapshot", "isDown") /\ UNCHANGED saw
    /\ UNCHANGED <<node, peer, todo, raced>>

MarkPath ==
    /\ At(Monitor, "mark")
    /\ SetHealth(peer[Monitor], path[Monitor],
                 IF saw[Monitor] = "Down" THEN "unhealthy" ELSE "healthy")
    /\ saw' = [saw EXCEPT ![Monitor] = None]
    /\ Goto(Monitor, "invalidate")
    /\ UNCHANGED <<peers, beats, cache, peer, path, todo, left, raced>>

ReadDown ==
    LET p == peer[Monitor] IN
    /\ At(Monitor, "isDown")
    /\ \/ /\ Overall(p) = "Down"
          /\ saw' = [saw EXCEPT ![Monitor] = "Down"]
          /\ Goto(Monitor, "apply") /\ UNCHANGED peer
       \/ /\ Overall(p) # "Down"
          /\ NextPeer(Monitor) /\ UNCHANGED saw
    /\ UNCHANGED <<node, path, todo, left, raced>>

Watch == \/ ListPeers \/ Pick(Monitor, "snapshot") \/ Snapshot \/ MarkPath
         \/ Invalidate(Monitor, "snapshot", "isDown")
         \/ ReadDown \/ Apply(Monitor)

-----------------------------------------------------------------------------
(* Removals, by the reaper or by a call. *)

Adding(p)   == \E c \in Calls : peer[c] = p /\ pc[c] \in {"upsert", "invalidate", "insert"}
Removing(p) == \/ \E t \in Threads : peer[t] = p /\ pc[t] \in {"unbeat", "unroute", "forget"}
               \/ p \in todo[Reaper]

\* Which peers are reaped is decided here, and not looked at again.
ListStale ==
    /\ At(Reaper, "idle")
    /\ \E gone \in SUBSET {p \in Peers : peers[p] = "Down"} :
         /\ gone # {} /\ StartRound(Reaper, gone)
         /\ raced' = raced \cup {p \in gone : Adding(p)}
    /\ UNCHANGED <<node, peer, path, left, saw>>

\* A removal goes through the maps in this order.  (Mutant: heartbeats first.)
SectionSwapped(l) == IF l = "unpeer" THEN "unbeat" ELSE "unpeer"
Section(l) == l

Removes(t, p, l) ==
    \/ /\ Section(l) = "unpeer"
       /\ peers' = [peers EXCEPT ![p] = None]
       /\ UNCHANGED beats
    \/ /\ Section(l) = "unbeat"
       /\ beats' = [beats EXCEPT ![p] = None]
       /\ UNCHANGED peers

Unpeer ==
    /\ At(Reaper, "pick")
    /\ \E p \in todo[Reaper] :
         /\ Removes(Reaper, p, "unpeer")
         /\ peer' = [peer EXCEPT ![Reaper] = p] /\ todo' = [todo EXCEPT ![Reaper] = @ \ {p}]
    /\ Goto(Reaper, "unbeat")
    /\ UNCHANGED <<stats, cache, path, left, saw, raced>>

RemovePeer(c) ==
    /\ At(c, "idle")
    /\ \E p \in Peers :
         /\ Removes(c, p, "unpeer")
         /\ peer' = [peer EXCEPT ![c] = p]
         /\ raced' = IF Adding(p) THEN raced \cup {p} ELSE raced
    /\ Goto(c, "unbeat")
    /\ UNCHANGED <<stats, cache, path, todo, left, saw>>

Unbeat(t) ==
    /\ At(t, "unbeat") /\ Removes(t, peer[t], "unbeat")
    /\ Goto(t, "unroute")
    /\ UNCHANGED <<stats, cache, walk, raced>>

Unroute(t) ==
    /\ At(t, "unroute")
    /\ stats' = [stats EXCEPT ![peer[t]] = NoStats]
    /\ Goto(t, "forget")
    /\ UNCHANGED <<peers, beats, cache, walk, raced>>

\* The end of a removal.
Forget(t) ==
    /\ At(t, "forget")
    /\ DropRoutes(t) /\ NextPeer(t)
    /\ UNCHANGED <<peers, beats, stats, path, todo, left, saw, raced>>

Reap == \/ ListStale \/ Unpeer \/ Unbeat(Reaper) \/ Unroute(Reaper) \/ Forget(Reaper)

-----------------------------------------------------------------------------
(* The other calls of the manager.  A call that has ended is a new one. *)

\* Heartbeats that are already there are kept; the peer is listed last.
AddPeer(c) ==
    /\ At(c, "idle")
    /\ \E p \in Peers, q \in Paths :
         /\ beats' = [beats EXCEPT ![p] =
                        IF @ = None THEN [r \in Paths |-> [missed |-> 0, status |-> "Active"]]
                        ELSE @]
         /\ peer' = [peer EXCEPT ![c] = p]
         /\ path' = [path EXCEPT ![c] = q] /\ left' = [left EXCEPT ![c] = Paths \ {q}]
         /\ raced' = IF Removing(p) THEN raced \cup {p} ELSE raced
    /\ Goto(c, "upsert")
    /\ UNCHANGED <<peers, stats, cache, todo, saw>>

Insert(c) ==
    /\ At(c, "insert")
    /\ peers' = [peers EXCEPT ![peer[c]] = "Discovered"]
    /\ Return(c)
    /\ UNCHANGED <<beats, stats, cache, todo, left, saw, raced>>

\* receive_heartbeat, in four sections.
Pong(c) ==
    /\ At(c, "idle")
    /\ \E p \in Peers, q \in Paths :
         /\ beats' = IF beats[p] = None THEN beats ELSE [beats EXCEPT ![p][q] = Received(@)]
         /\ peer' = [peer EXCEPT ![c] = p] /\ path' = [path EXCEPT ![c] = q]
    /\ Goto(c, "healthy")
    /\ UNCHANGED <<peers, stats, cache, todo, left, saw, raced>>

MarkHealthy(c) ==
    /\ At(c, "healthy")
    /\ SetHealth(peer[c], path[c], "healthy")
    /\ Goto(c, "refresh")
    /\ UNCHANGED <<peers, beats, cache, walk, raced>>

Refresh(c) ==
    /\ At(c, "refresh")
    /\ DropRoutes(c) /\ Goto(c, "activate")
    /\ UNCHANGED <<peers, beats, stats, walk, raced>>

Activate(c) ==
    /\ At(c, "activate")
    /\ peers' = [peers EXCEPT ![peer[c]] = IF @ = "Suspect" THEN "Active" ELSE @]
    /\ Return(c)
    /\ UNCHANGED <<beats, stats, cache, todo, left, saw, raced>>

\* send_to_peer: the peer must be reachable when it is looked at.
Send(c) ==
    /\ At(c, "idle")
    /\ \E p \in Peers : peers[p] \in {"Active", "Suspect"} /\ peer' = [peer EXCEPT ![c] = p]
    /\ Goto(c, "lookup")
    /\ UNCHANGED <<node, path, todo, left, saw, raced>>

\* select_path: the cache, then the path table, then the cache again.
LookUp(c) ==
    /\ At(c, "lookup")
    /\ \/ cache[peer[c]] # None /\ Return(c)
       \/ cache[peer[c]] = None /\ Goto(c, "compute") /\ UNCHANGED <<peer, path>>
    /\ UNCHANGED <<node, todo, left, saw, raced>>

Compute(c) ==
    LET healthy == {q \in Paths : stats[peer[c]][q] = "healthy"} IN
    /\ At(c, "compute")
    /\ \/ /\ \E q \in healthy : saw' = [saw EXCEPT ![c] = q]
          /\ Goto(c, "fill") /\ UNCHANGED <<peer, path>>
       \/ /\ healthy = {}
          /\ Return(c) /\ UNCHANGED saw
    /\ UNCHANGED <<node, todo, left, raced>>

Fill(c) ==
    /\ At(c, "fill")
    /\ cache' = [cache EXCEPT ![peer[c]] = saw[c]]
    /\ saw' = [saw EXCEPT ![c] = None]
    /\ Return(c)
    /\ UNCHANGED <<peers, beats, stats, todo, left, raced>>

Arrive(c) == AddPeer(c) \/ RemovePeer(c) \/ Pong(c) \/ Send(c)
Serve(c)  == \/ Upsert(c) \/ Invalidate(c, "upsert", "insert") \/ Insert(c)
             \/ Unbeat(c) \/ Unroute(c) \/ Forget(c)
             \/ MarkHealthy(c) \/ Refresh(c) \/ Activate(c)
             \/ LookUp(c) \/ Compute(c) \/ Fill(c)

-----------------------------------------------------------------------------
(* Time. *)

\* An entry past its time to live is neither used nor kept.
Expire(p) ==
    /\ cache[p] # None
    /\ cache' = [cache EXCEPT ![p] = None]
    /\ UNCHANGED <<peers, beats, stats, pc, walk, raced>>

Next ==
    \/ SendBeats \/ Watch \/ Reap
    \/ \E c \in Calls : Arrive(c) \/ Serve(c)
    \/ \E p \in Peers : Expire(p) \/ \E q \in Paths : MarkMissed(p, q) \/ MarkSuspect(p, q)

\* The monitor's interval fires for ever, calls that have started go on, time passes.
\* Nothing is asked of the heartbeat task and the reaper.
Fairness == /\ WF_vars(Watch)
            /\ \A c \in Calls : WF_vars(Serve(c))
            /\ \A p \in Peers : WF_vars(Expire(p))

Spec == Init /\ [][Next]_vars /\ Fairness

-----------------------------------------------------------------------------
(* Properties *)

\* The state of a path and its count of misses agree, whoever moves it: a path that is
\* suspect, by misses or by decree, does not come back by missing once more.
LadderAgrees ==
    \A p \in Peers : beats[p] # None => \A q \in Paths : LET b == beats[p][q] IN
        /\ b.status = "Active"     => b.missed < SuspectAt
        /\ b.status = "Suspect"    => b.missed >= SuspectAt
        /\ b.status = "Down"       => b.missed >= DownAt
        /\ b.status = "Recovering" => b.missed = 0

\* A peer of the manager's table has its heartbeats and its paths, whatever the tasks
\* do meanwhile, unless it was added while it was being removed.
Registered ==
    \A p \in Peers \ raced : peers[p] # None =>
        beats[p] # None /\ \A q \in Paths : stats[p][q] # "absent"

\* The router follows the heartbeats: a path that stays down is in the end no longer
\* routed to, not by a cached route either, and one that stays usable is healthy.
Stays(p, q, healths) ==
    <>[](peers[p] # None /\ StatusOf(p, q) \in healths)
RouterFollows ==
    \A p \in Peers, q \in Paths :
        /\ Stays(p, q, {"Down"}) => <>[](cache[p] # q)
        /\ Stays(p, q, Usable) => <>[](stats[p][q] # "unhealthy")
=============================================================================
