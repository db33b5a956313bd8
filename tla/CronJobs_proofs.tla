---------------------------- MODULE CronJobs_proofs ----------------------------
(***************************************************************************)
(* Proofs about CronJobs: types, the exclusion of ticks by the lock file,  *)
(* and that no tick runs an occurrence again.                              *)
(***************************************************************************)
EXTENDS CronJobs, TLAPS

\* What a table of jobs is made of.
LEMMA TableParts ==
    ASSUME NEW m \in Tables
    PROVE  /\ DOMAIN m \subseteq Jobs
           /\ \A j \in DOMAIN m : m[j] \in Times \cup {Never}
BY DEF Tables

\* A job of a table is marked.
LEMMA TableMarked ==
    ASSUME NEW m \in Tables, NEW j \in DOMAIN m, NEW n \in Times
    PROVE  [m EXCEPT ![j] = n] \in Tables
<1>1. PICK js \in SUBSET Jobs : m \in [js -> Times \cup {Never}]
  BY DEF Tables
<1>2. [m EXCEPT ![j] = n] \in [js -> Times \cup {Never}]
  BY <1>1
<1> QED
  BY <1>2 DEF Tables

\* A job is added to a table.
LEMMA TableExtended ==
    ASSUME NEW m \in Tables, NEW j \in Jobs
    PROVE  [i \in DOMAIN m \cup {j} |-> IF i = j THEN Never ELSE m[i]] \in Tables
<1> DEFINE js == DOMAIN m \cup {j}
<1>1. js \in SUBSET Jobs
  BY TableParts
<1>2. [i \in js |-> IF i = j THEN Never ELSE m[i]] \in [js -> Times \cup {Never}]
  BY TableParts
<1> QED
  BY <1>1, <1>2 DEF Tables

\* A job is taken out of a table.
LEMMA TableReduced ==
    ASSUME NEW m \in Tables, NEW j
    PROVE  [i \in DOMAIN m \ {j} |-> m[i]] \in Tables
<1> DEFINE js == DOMAIN m \ {j}
<1>1. js \in SUBSET Jobs
  BY TableParts
<1>2. [i \in js |-> m[i]] \in [js -> Times \cup {Never}]
  BY TableParts
<1> QED
  BY <1>1, <1>2 DEF Tables

LEMMA NoJobsIsTable == NoJobs \in Tables
<1>1. NoJobs \in [{} -> Times \cup {Never}]
  BY DEF NoJobs
<1> QED
  BY <1>1 DEF Tables

\* The occurrences in a window that has begun are times.
LEMMA WindowTimes ==
    ASSUME NEW j \in Jobs, NEW t \in Times
    PROVE  InWindow(j, t) \subseteq Times
BY CronAssumption DEF InWindow, Times

-----------------------------------------------------------------------------
(* Types *)

\* A thread that runs a job knows it, and schedulers are threads of their process.
AtHand ==
    /\ \A p \in Procs : host[p] = p
    /\ \A t \in Threads : pc[t] \in Running => job[t] \in Jobs

Typed == TypeOK /\ AtHand

LEMMA TypedInit == Init => Typed
<1> SUFFICES ASSUME Init PROVE Typed
  OBVIOUS
<1>1. file \in Tables
  <2>1. PICK js \in SUBSET Jobs : file = [j \in js |-> Never]
    BY DEF Init
  <2>2. file \in [js -> Times \cup {Never}]
    BY <2>1
  <2> QED
    BY <2>2 DEF Tables
<1>2. 0 \in Times
  BY CronAssumption DEF Times
<1>3. (CHOOSE p \in Procs : TRUE) \in Procs
  BY CronAssumption
<1> QED
  BY <1>1, <1>2, <1>3, NoJobsIsTable, CronAssumption
     DEF Init, Typed, TypeOK, AtHand, Threads, Running, Saving

\* The next place of a thread when its job is settled.
LEMMA SettledPlaces ==
    ASSUME NEW t \in Threads
    PROVE  /\ t \in Procs => Settled(t) = "next"
           /\ t \notin Procs => Settled(t) = "done"
BY DEF Settled

LEMMA TypedNext == Typed /\ [Next]_vars => Typed'
<1> SUFFICES ASSUME Typed, [Next]_vars PROVE Typed'
  OBVIOUS
<1> USE DEF Typed
<1>0. /\ now \in Times /\ 0 \in Times /\ Procs \cap Calls = {}
      /\ Procs \subseteq Threads /\ Calls \subseteq Threads /\ Period \in Nat
  BY CronAssumption DEF TypeOK, Times, Threads
<1>1. ASSUME NEW p \in Procs, Tick(p) \/ RunNext(p) \/ TickEnds(p) PROVE Typed'
  <2>1. CASE Tick(p)
    BY <1>0, <2>1 DEF Tick, TypeOK, AtHand, Goto, disk, Running, Saving
  <2>2. CASE RunNext(p)
    BY <1>0, <2>2 DEF RunNext, TypeOK, AtHand, Goto, disk, Running, Saving
  <2>3. CASE TickEnds(p)
    <3>1. /\ lock' \in Procs \cup {None} /\ orphaned' \subseteq Procs
          /\ faults' \in 0..MaxFaults
      BY <2>3, CronAssumption DEF TickEnds, TypeOK, LockDropped
    <3> QED
      BY <1>0, <2>3, <3>1 DEF TickEnds, TypeOK, AtHand, Goto, disk, Running, Saving
  <2> QED
    BY <1>1, <2>1, <2>2, <2>3
<1>2. ASSUME NEW p \in Procs, ListDue(p) PROVE Typed'
  <2>1. {j \in DOMAIN mem[p] : IsJobDue(j, mem[p][j], now)} \subseteq Jobs
    BY TableParts DEF TypeOK
  <2> QED
    BY <1>0, <1>2, <2>1 DEF ListDue, TypeOK, AtHand, Goto, disk, Running, Saving
<1>3. ASSUME NEW t \in Threads, Get(t) \/ Turn(t) \/ Deliver(t) PROVE Typed'
  BY <1>0, <1>3, SettledPlaces
     DEF Get, Turn, Deliver, TypeOK, AtHand, Goto, disk, sched, Running, Saving, Threads
<1>4. ASSUME NEW t \in Threads, Mark(t) PROVE Typed'
  <2>1. job[t] \in Jobs /\ host[t] \in Procs /\ mem[host[t]] \in Tables
    BY <1>4 DEF Mark, Running, AtHand, TypeOK
  <2>2. mem' \in [Procs -> Tables]
    <3>1. CASE job[t] \in DOMAIN mem[host[t]]
      <4>1. [mem[host[t]] EXCEPT ![job[t]] = now] \in Tables
        BY <1>0, <2>1, <3>1, TableMarked
      <4> QED
        BY <1>4, <2>1, <3>1, <4>1 DEF Mark, TypeOK
    <3>2. CASE job[t] \notin DOMAIN mem[host[t]]
      BY <1>4, <3>2 DEF Mark, TypeOK
    <3> QED
      BY <3>1, <3>2
  <2>3. served' \subseteq Procs \X Jobs \X Times
    <3>1. CASE t \in Procs
      <4>1. host[t] = t /\ at[t] \in Times
        BY <3>1 DEF AtHand, TypeOK
      <4>2. InWindow(job[t], at[host[t]]) \subseteq Times
        BY <2>1, <4>1, WindowTimes
      <4> QED
        BY <1>4, <2>1, <3>1, <4>2 DEF Mark, TypeOK
    <3>2. CASE t \notin Procs
      BY <1>4, <3>2 DEF Mark, TypeOK
    <3> QED
      BY <3>1, <3>2
  <2> QED
    BY <1>0, <1>4, <2>2, <2>3, SettledPlaces
       DEF Mark, TypeOK, AtHand, Goto, disk, sched, Running, Saving, Threads
<1>5. ASSUME NEW t \in Threads, Snapshot(t) PROVE Typed'
  BY <1>0, <1>5 DEF Snapshot, TypeOK, AtHand, Goto, disk, sched, Running, Saving
<1>6. ASSUME NEW t \in Threads, Write(t) PROVE Typed'
  <2>1. snap' \in [Threads -> Tables \cup {Torn}]
    BY <1>6, NoJobsIsTable DEF Write, TypeOK
  <2> QED
    BY <1>0, <1>6, <2>1, CronAssumption, SettledPlaces
       DEF Write, TypeOK, AtHand, Goto, disk, sched, Running, Saving, Threads
<1>7. ASSUME NEW c \in Calls, NEW p \in Procs, Create(c, p) PROVE Typed'
  <2>1. PICK j \in Jobs :
          /\ mem' = [mem EXCEPT ![p] =
                       [i \in DOMAIN @ \cup {j} |-> IF i = j THEN Never ELSE @[i]]]
          /\ job' = [job EXCEPT ![c] = j]
    BY <1>7 DEF Create
  <2>2. mem' \in [Procs -> Tables]
    <3>1. [i \in DOMAIN mem[p] \cup {j} |-> IF i = j THEN Never ELSE mem[p][i]] \in Tables
      <4>1. mem[p] \in Tables
        BY DEF TypeOK
      <4> QED
        BY ONLY <4>1, j \in Jobs, TableExtended
    <3> QED
      BY <2>1, <3>1 DEF TypeOK
  <2> QED
    BY <1>0, <1>7, <2>1, <2>2
       DEF Create, Arrive, TypeOK, AtHand, Goto, disk, sched, Running, Saving
<1>8. ASSUME NEW c \in Calls, NEW p \in Procs, Delete(c, p) PROVE Typed'
  <2>1. PICK j \in DOMAIN mem[p] :
          /\ mem' = [mem EXCEPT ![p] = [i \in DOMAIN @ \ {j} |-> @[i]]]
          /\ job' = [job EXCEPT ![c] = j]
    BY <1>8 DEF Delete
  <2>2. mem' \in [Procs -> Tables] /\ j \in Jobs
    BY <2>1, TableReduced, TableParts DEF TypeOK
  <2> QED
    BY <1>0, <1>8, <2>1, <2>2
       DEF Delete, Arrive, TypeOK, AtHand, Goto, disk, sched, Running, Saving
<1>9. ASSUME NEW c \in Calls, NEW p \in Procs, RunNow(c, p) PROVE Typed'
  <2>1. DOMAIN mem[p] \subseteq Jobs
    BY TableParts DEF TypeOK
  <2> QED
    BY <1>0, <1>9, <2>1
       DEF RunNow, Arrive, TypeOK, AtHand, Goto, disk, sched, Running, Saving
<1>10. CASE Elapse
  BY <1>0, <1>10, CronAssumption
     DEF Elapse, TypeOK, AtHand, disk, sched, Times
<1>11. ASSUME NEW p \in Procs, Crash(p) PROVE Typed'
  BY <1>0, <1>11, NoJobsIsTable, CronAssumption
     DEF Crash, TypeOK, AtHand, Running, Saving, Threads
<1>12. ASSUME NEW p \in Procs, Start(p) PROVE Typed'
  <2>1. mem' \in [Procs -> Tables]
    BY <1>12, NoJobsIsTable DEF Start, TypeOK
  <2> QED
    BY <1>0, <1>12, <2>1 DEF Start, TypeOK, AtHand, disk, Times
<1>13. CASE UNCHANGED vars
  BY <1>13 DEF vars, disk, sched, TypeOK, AtHand
<1> QED
  BY <1>1, <1>2, <1>3, <1>4, <1>5, <1>6, <1>7, <1>8, <1>9, <1>10, <1>11, <1>12, <1>13
     DEF Next, Execute, Schedule

\* Every variable of the cron scheduler keeps its type, for any jobs, schedules,
\* processes and calls.
THEOREM SpecTypeOK == Spec => []TypeOK
<1>1. Spec => []Typed
  BY TypedInit, TypedNext, PTL DEF Spec
<1> QED
  BY <1>1, PTL DEF Typed

-----------------------------------------------------------------------------
(* The lock file *)

\* What a step does to the threads of a tick and to the lock: nothing, p takes the
\* lock that was free and begins, or p is no longer in a tick.
TickStep ==
    \/ /\ lock' = lock
       /\ \A q \in Procs : InTick(q)' => InTick(q)
    \/ \E p \in Procs :
         /\ lock = None /\ lock' = p
         /\ \A q \in Procs \ {p} : InTick(q)' => InTick(q)
    \/ \E p \in Procs :
         /\ InTick(p) /\ ~InTick(p)'
         /\ \A q \in Procs \ {p} : InTick(q)' => InTick(q)

LEMMA EveryStepIsTickStep ==
    ASSUME Typed, [Next]_vars
    PROVE  TickStep
<1> USE DEF Typed
<1>0. /\ Procs \cap Calls = {} /\ Procs \subseteq Threads /\ Calls \subseteq Threads
      /\ \A p \in Procs : host[p] = p
  BY CronAssumption DEF Threads, AtHand
<1>1. ASSUME NEW p \in Procs, Tick(p) PROVE TickStep
  BY <1>0, <1>1 DEF Tick, TickStep, TypeOK, Goto, InTick, LockFree, Running, Saving
<1>2. ASSUME NEW p \in Procs, ListDue(p) \/ RunNext(p) PROVE TickStep
  BY <1>0, <1>2 DEF ListDue, RunNext, TickStep, TypeOK, Goto, InTick, Running, Saving
<1>3. ASSUME NEW p \in Procs, TickEnds(p) PROVE TickStep
  BY <1>0, <1>3 DEF TickEnds, TickStep, TypeOK, Goto, InTick, Running, Saving
<1>4. ASSUME NEW t \in Threads, Execute(t) PROVE TickStep
  <2>1. pc[t] \in Running \cup Saving
    BY <1>4 DEF Execute, Get, Turn, Deliver, Mark, Snapshot, Write, Running, Saving
  <2>2. lock' = lock
    BY <1>4 DEF Execute, Get, Turn, Deliver, Mark, Snapshot, Write, sched
  <2>3. \E l : pc' = [pc EXCEPT ![t] = l]
    BY <1>4 DEF Execute, Get, Turn, Deliver, Mark, Snapshot, Write, Goto
  <2> QED
    BY <1>0, <2>1, <2>2, <2>3 DEF TickStep, TypeOK, InTick
<1>5. ASSUME NEW c \in Calls, NEW p \in Procs, Create(c, p) \/ Delete(c, p) \/ RunNow(c, p)
      PROVE TickStep
  <2>1. lock' = lock
    BY <1>5 DEF Create, Delete, RunNow, sched
  <2>2. \E l : pc' = [pc EXCEPT ![c] = l]
    BY <1>5 DEF Create, Delete, RunNow, Goto
  <2> QED
    BY <1>0, <2>1, <2>2 DEF TickStep, TypeOK, InTick
<1>6. ASSUME NEW p \in Procs, Crash(p) PROVE TickStep
  BY <1>0, <1>6 DEF Crash, TickStep, TypeOK, InTick, Running, Saving
<1>7. ASSUME NEW p \in Procs, Start(p) PROVE TickStep
  BY <1>7 DEF Start, TickStep, InTick
<1>8. CASE Elapse \/ UNCHANGED vars
  BY <1>8 DEF Elapse, vars, sched, TickStep, InTick
<1> QED
  BY <1>1, <1>2, <1>3, <1>4, <1>5, <1>6, <1>7, <1>8 DEF Next, Schedule

\* Ticks exclude each other over all processes, whatever crashes or fails.
THEOREM SpecTickExclusive == Spec => []TickExclusive
<1>1. Init => TickExclusive
  BY DEF Init, TickExclusive, InTick, Threads, Running, Saving
<1>2. Typed /\ TickExclusive /\ [Next]_vars => TickExclusive'
  <2> SUFFICES ASSUME Typed, TickExclusive, [Next]_vars, NEW p \in Procs, InTick(p)'
               PROVE  lock' = p
    BY DEF TickExclusive
  <2>1. TickStep
    BY EveryStepIsTickStep
  <2>2. None \notin Procs
    BY CronAssumption
  <2> QED
    BY <2>1, <2>2 DEF TickStep, TickExclusive
<1>3. Spec => []Typed
  BY TypedInit, TypedNext, PTL DEF Spec
<1> QED
  BY <1>1, <1>2, <1>3, PTL DEF Spec

-----------------------------------------------------------------------------
(* Occurrences *)

\* What ticks have run is remembered: by the last run of a job that is still there,
\* and, while a tick is under way, by what it has still to run.
Ran(p, j, o) == <<p, j, o>> \in served

Alive   == \A p \in Procs \ up : pc[p] = "wait"
Past    == /\ \A p \in Procs : at[p] <= now
           /\ \A p \in Procs, j \in Jobs, o \in Times : Ran(p, j, o) => p \in up /\ o <= now
Noted   == \A p \in Procs, j \in Jobs, o \in Times :
              Ran(p, j, o) /\ j \in DOMAIN mem[p] => mem[p][j] # Never /\ o <= mem[p][j]
Pending == \A p \in Procs, j \in Jobs, o \in Times :
              Ran(p, j, o) /\ j \in todo[p] => o \notin InWindow(j, at[p])
Current == \A p \in Procs : pc[p] \in Running =>
              /\ job[p] \notin todo[p]
              /\ \A o \in Times : Ran(p, job[p], o) => o \notin InWindow(job[p], at[p])

RunInv == Alive /\ Past /\ Noted /\ Pending /\ Current

LEMMA RunInvInit == Init => RunInv
<1> SUFFICES ASSUME Init PROVE RunInv
  OBVIOUS
<1>1. served = {} /\ up = Procs /\ now = 0 /\ at = [p \in Procs |-> 0]
      /\ \A p \in Procs : pc[p] = "wait"
  BY DEF Init, Threads
<1> QED
  BY <1>1 DEF RunInv, Alive, Past, Noted, Pending, Current, Ran, Running

\* A job that is due has a window that no earlier run reached into.
LEMMA DueIsFresh ==
    ASSUME Typed, Noted, NEW p \in Procs, NEW j \in DOMAIN mem[p],
           IsJobDue(j, mem[p][j], now), NEW o \in Times, Ran(p, j, o)
    PROVE  o \notin InWindow(j, now)
<1>1. j \in Jobs /\ mem[p][j] \in Times \cup {Never}
  BY TableParts DEF Typed, TypeOK
<1>2. mem[p][j] # Never /\ o <= mem[p][j] /\ mem[p][j] <= now - Window
  BY <1>1 DEF Noted, IsJobDue
<1>3. Window \in Int /\ now \in Int /\ o \in Int /\ mem[p][j] \in Int
  BY <1>1, CronAssumption DEF Window, Typed, TypeOK, Times, Never
<1> QED
  BY <1>2, <1>3 DEF InWindow

\* A step that leaves the memory, the ticks and the record of runs alone, and moves a
\* thread that is not about to run another job.
LEMMA QuietStep ==
    ASSUME Typed, RunInv, UNCHANGED <<now, up, mem, at, todo, served>>,
           NEW t \in Threads, NEW l, pc' = [pc EXCEPT ![t] = l],
           t \in Procs /\ l \in Running => pc[t] \in Running,
           t \in Procs => t \in up,
           \A q \in Procs : pc[q] \in Running => job'[q] = job[q]
    PROVE  RunInv'
<1> USE DEF Typed, RunInv
<1>1. Alive'
  BY DEF Alive, TypeOK
<1>2. Past' /\ Noted' /\ Pending'
  BY DEF Past, Noted, Pending, Ran, InWindow
<1>3. Current'
  BY DEF Current, Ran, InWindow, TypeOK
<1> QED
  BY <1>1, <1>2, <1>3

LEMMA RunInvNext == Typed /\ RunInv /\ [Next]_vars => RunInv'
<1> SUFFICES ASSUME Typed, RunInv, [Next]_vars PROVE RunInv'
  OBVIOUS
<1>0. /\ Procs \cap Calls = {} /\ Procs \subseteq Threads /\ Calls \subseteq Threads
      /\ \A p \in Procs : host[p] = p
      /\ now \in Int /\ \A o \in Times : o \in Int
      /\ pc \in [Threads -> {"wait", "list", "next", "done"} \cup Running \cup Saving]
  BY CronAssumption DEF Threads, Typed, AtHand, TypeOK, Times
<1>u. \A p \in Procs : pc[p] # "wait" => p \in up
  BY DEF RunInv, Alive
<1>1. ASSUME NEW p \in Procs, Tick(p) PROVE RunInv'
  <2>1. CASE LockFree /\ lock' = p /\ Goto(p, "list")
    BY <1>0, <1>1, <2>1, QuietStep DEF Tick, Goto, Running, disk
  <2>2. CASE UNCHANGED <<lock, pc>>
    BY <1>1, <2>2
       DEF Tick, disk, RunInv, Alive, Past, Noted, Pending, Current, Ran, InWindow
  <2> QED
    BY <1>1, <2>1, <2>2 DEF Tick
<1>2. ASSUME NEW p \in Procs, ListDue(p) PROVE RunInv'
  <2>1. /\ UNCHANGED <<now, up, mem, job, served>> /\ p \in up
        /\ pc' = [pc EXCEPT ![p] = "next"]
        /\ at' = [at EXCEPT ![p] = now]
        /\ todo' = [todo EXCEPT ![p] = {j \in DOMAIN mem[p] : IsJobDue(j, mem[p][j], now)}]
    BY <1>2, <1>u DEF ListDue, Goto
  <2>2. Alive' /\ Past' /\ Noted'
    BY <1>0, <2>1 DEF RunInv, Alive, Past, Noted, Ran, Typed, TypeOK
  <2>3. Pending'
    <3> SUFFICES ASSUME NEW q \in Procs, NEW j \in Jobs, NEW o \in Times,
                        Ran(q, j, o), j \in todo'[q]
                 PROVE  o \notin InWindow(j, at'[q])
      BY <2>1 DEF Pending, Ran, InWindow
    <3>1. CASE q = p
      <4>1. j \in DOMAIN mem[p] /\ IsJobDue(j, mem[p][j], now) /\ at'[p] = now
        BY <2>1, <3>1 DEF Typed, TypeOK
      <4> QED
        BY <3>1, <4>1, DueIsFresh DEF RunInv
    <3>2. CASE q # p
      BY <2>1, <3>2 DEF RunInv, Pending, Typed, TypeOK
    <3> QED
      BY <3>1, <3>2
  <2>4. Current'
    BY <1>0, <2>1 DEF RunInv, Current, Ran, InWindow, Running, Typed, TypeOK
  <2> QED
    BY <2>2, <2>3, <2>4 DEF RunInv
<1>3. ASSUME NEW p \in Procs, RunNext(p) PROVE RunInv'
  <2>1. PICK j \in todo[p] : /\ todo' = [todo EXCEPT ![p] = @ \ {j}]
                              /\ job' = [job EXCEPT ![p] = j]
    BY <1>3 DEF RunNext
  <2>2. /\ UNCHANGED <<now, up, mem, at, served>> /\ p \in up
        /\ pc' = [pc EXCEPT ![p] = "get"] /\ j \in Jobs
    BY <1>3, <1>u, <2>1 DEF RunNext, Goto, Typed, TypeOK
  <2>3. Alive' /\ Past' /\ Noted'
    BY <1>0, <2>2 DEF RunInv, Alive, Past, Noted, Ran
  <2>4. Pending'
    BY <2>1, <2>2 DEF RunInv, Pending, Ran, InWindow, Typed, TypeOK
  <2>5. Current'
    <3> SUFFICES ASSUME NEW q \in Procs, pc'[q] \in Running
                 PROVE  /\ job'[q] \notin todo'[q]
                        /\ \A o \in Times :
                             <<q, job'[q], o>> \in served => o \notin InWindow(job'[q], at[q])
      BY <2>2 DEF Current, Ran, InWindow
    <3>1. CASE q = p
      <4>1. job'[q] = j /\ todo'[q] = todo[q] \ {j}
        BY <2>1, <3>1 DEF Typed, TypeOK, Threads
      <4> QED
        BY <2>1, <2>2, <3>1, <4>1 DEF RunInv, Pending, Ran
    <3>2. CASE q # p
      <4>1. job'[q] = job[q] /\ todo'[q] = todo[q] /\ pc[q] \in Running
        BY <1>0, <2>1, <2>2, <3>2 DEF Typed, TypeOK
      <4> QED
        BY <2>2, <4>1 DEF RunInv, Current, Ran
    <3> QED
      BY <3>1, <3>2
  <2> QED
    BY <2>3, <2>4, <2>5 DEF RunInv
<1>4. ASSUME NEW p \in Procs, TickEnds(p) PROVE RunInv'
  <2>1. /\ UNCHANGED <<now, up, mem, todo, served>> /\ p \in up /\ todo[p] = {}
        /\ pc' = [pc EXCEPT ![p] = "wait"]
        /\ at' = [at EXCEPT ![p] = 0] /\ job' = [job EXCEPT ![p] = None]
    BY <1>4, <1>u DEF TickEnds, Goto, disk
  <2>2. now >= 0
    BY CronAssumption DEF Typed, TypeOK, Times
  <2>3. Alive' /\ Past' /\ Noted'
    BY <1>0, <2>1, <2>2 DEF RunInv, Alive, Past, Noted, Ran, Typed, TypeOK
  <2>4. Pending'
    BY <2>1 DEF RunInv, Pending, Ran, InWindow, Typed, TypeOK
  <2>5. Current'
    BY <1>0, <2>1 DEF RunInv, Current, Ran, InWindow, Running, Typed, TypeOK
  <2> QED
    BY <2>3, <2>4, <2>5 DEF RunInv
<1>5. ASSUME NEW t \in Threads, Get(t) \/ Turn(t) \/ Deliver(t) \/ Snapshot(t) \/ Write(t)
      PROVE  RunInv'
  <2>1. /\ UNCHANGED <<now, up, mem, at, todo, served, job>> /\ pc[t] \in Running \cup Saving
        /\ pc[t] # "wait"
    BY <1>5 DEF Get, Turn, Deliver, Snapshot, Write, sched, Running, Saving
  <2>2. PICK l : /\ pc' = [pc EXCEPT ![t] = l]
                 /\ t \in Procs => (l \in Running => pc[t] \in Running)
    <3>1. t \in Procs => Settled(t) \notin Running
      BY DEF Settled, Running
    <3> QED
      BY <1>5, <3>1 DEF Get, Turn, Deliver, Snapshot, Write, Goto, Running
  <2> QED
    BY <1>u, <2>1, <2>2, QuietStep
<1>6. ASSUME NEW t \in Threads, Mark(t) PROVE RunInv'
  <2> DEFINE p == host[t]
             j == job[t]
  <2>1. /\ UNCHANGED <<now, up, at, todo, job>> /\ pc[t] = "mark"
        /\ p \in Procs /\ j \in Jobs /\ mem[p] \in Tables /\ now \in Times
    BY <1>6 DEF Mark, sched, Running, Typed, AtHand, TypeOK
  <2>2. PICK l : pc' = [pc EXCEPT ![t] = l] /\ (t \in Procs => l \notin Running)
    <3>1. t \in Procs => Settled(t) \notin Running
      BY DEF Settled, Running
    <3> QED
      BY <1>6, <3>1 DEF Mark, Goto, Running
  <2>3. mem' = IF j \in DOMAIN mem[p] THEN [mem EXCEPT ![p][j] = now] ELSE mem
    BY <1>6 DEF Mark
  <2>4. /\ \A q \in Procs, i \in Jobs, o \in Times :
              Ran(q, i, o)' => \/ Ran(q, i, o)
                               \/ q = t /\ t = p /\ i = j /\ o \in InWindow(j, at[p])
    BY <1>0, <1>6 DEF Mark, Ran
  <2>5. t \in Procs => t \in up /\ j \notin todo[t]
    BY <1>u, <2>1 DEF RunInv, Current, Running
  <2>6. \A o \in InWindow(j, at[p]) : o <= now
    BY <1>0, <2>1, CronAssumption DEF InWindow, RunInv, Past, Typed, TypeOK, Times
  <2>7. Alive' /\ Past'
    BY <1>0, <2>1, <2>2, <2>4, <2>5, <2>6 DEF RunInv, Alive, Past
  <2>8. Noted'
    <3> SUFFICES ASSUME NEW q \in Procs, NEW i \in Jobs, NEW o \in Times,
                        Ran(q, i, o)', i \in DOMAIN mem'[q]
                 PROVE  mem'[q][i] # Never /\ o <= mem'[q][i]
      BY DEF Noted
    <3>1. o <= now /\ now # Never
      BY <1>0, <2>1, <2>4, <2>6 DEF RunInv, Past, Never, Times
    <3>2. mem[q] \in Tables
      BY DEF Typed, TypeOK
    <3>3. CASE q = p /\ i = j /\ j \in DOMAIN mem[p]
      <4>1. mem'[q][i] = now
        BY <2>1, <2>3, <3>3 DEF Typed, TypeOK
      <4> QED
        BY <3>1, <4>1
    <3>4. CASE ~(q = p /\ i = j /\ j \in DOMAIN mem[p])
      <4>1. mem'[q][i] = mem[q][i] /\ DOMAIN mem'[q] = DOMAIN mem[q]
        BY <2>1, <2>3, <3>4 DEF Typed, TypeOK
      <4>2. Ran(q, i, o)
        BY <2>4, <3>4, <4>1
      <4> QED
        BY <4>1, <4>2 DEF RunInv, Noted
    <3> QED
      BY <3>3, <3>4
  <2>9. Pending'
    BY <2>1, <2>4, <2>5 DEF RunInv, Pending, InWindow
  <2>10. Current'
    <3> SUFFICES ASSUME NEW q \in Procs, pc'[q] \in Running
                 PROVE  /\ job[q] \notin todo[q]
                        /\ \A o \in Times :
                             <<q, job[q], o>> \in served' => o \notin InWindow(job[q], at[q])
      BY <2>1 DEF Current, Ran, InWindow
    <3>1. q # t /\ pc[q] \in Running
      BY <1>0, <2>2
    <3>2. job[q] \in Jobs
      BY <1>0, <3>1 DEF Typed, AtHand
    <3> QED
      BY <2>4, <3>1, <3>2 DEF RunInv, Current, Ran
  <2> QED
    BY <2>7, <2>8, <2>9, <2>10 DEF RunInv
<1>7. ASSUME NEW c \in Calls, NEW p \in Procs, Create(c, p) PROVE RunInv'
  <2>1. PICK j \in Jobs :
          /\ j \notin Known
          /\ mem' = [mem EXCEPT ![p] =
                       [i \in DOMAIN @ \cup {j} |-> IF i = j THEN Never ELSE @[i]]]
          /\ job' = [job EXCEPT ![c] = j]
    BY <1>7 DEF Create
  <2>2. /\ UNCHANGED <<now, up, at, todo, served>> /\ pc' = [pc EXCEPT ![c] = "snapshot"]
        /\ c \notin Procs
    BY <1>0, <1>7 DEF Create, sched, Goto
  <2>3. \A q \in Procs, o \in Times : ~Ran(q, j, o)
    <3> SUFFICES ASSUME NEW q \in Procs, NEW o \in Times, <<q, j, o>> \in served
                 PROVE  FALSE
      BY DEF Ran
    <3>1. \A s \in served : s[2] # j
      BY <2>1 DEF Known
    <3>2. <<q, j, o>>[2] # j
      BY <3>1, Zenon
    <3> QED
      BY <3>2
  <2>4. Alive' /\ Past' /\ Pending'
    BY <1>0, <2>2 DEF RunInv, Alive, Past, Pending, Ran, InWindow
  <2>5. Noted'
    <3> SUFFICES ASSUME NEW q \in Procs, NEW i \in Jobs, NEW o \in Times,
                        Ran(q, i, o), i \in DOMAIN mem'[q]
                 PROVE  mem'[q][i] # Never /\ o <= mem'[q][i]
      BY <2>2 DEF Noted, Ran
    <3>1. i # j
      BY <2>3
    <3>2. i \in DOMAIN mem[q] /\ mem'[q][i] = mem[q][i]
      BY <2>1, <3>1 DEF Typed, TypeOK
    <3> QED
      BY <3>2 DEF RunInv, Noted
  <2>6. Current'
    BY <1>0, <2>1, <2>2 DEF RunInv, Current, Ran, InWindow, Typed, TypeOK
  <2> QED
    BY <2>4, <2>5, <2>6 DEF RunInv
<1>8. ASSUME NEW c \in Calls, NEW p \in Procs, Delete(c, p) PROVE RunInv'
  <2>1. PICK j \in DOMAIN mem[p] :
          /\ mem' = [mem EXCEPT ![p] = [i \in DOMAIN @ \ {j} |-> @[i]]]
          /\ job' = [job EXCEPT ![c] = j]
    BY <1>8 DEF Delete
  <2>2. /\ UNCHANGED <<now, up, at, todo, served>> /\ pc' = [pc EXCEPT ![c] = "snapshot"]
        /\ c \notin Procs
    BY <1>0, <1>8 DEF Delete, sched, Goto
  <2>3. Alive' /\ Past' /\ Pending'
    BY <1>0, <2>2 DEF RunInv, Alive, Past, Pending, Ran, InWindow
  <2>4. Noted'
    <3> SUFFICES ASSUME NEW q \in Procs, NEW i \in Jobs, NEW o \in Times,
                        Ran(q, i, o), i \in DOMAIN mem'[q]
                 PROVE  mem'[q][i] # Never /\ o <= mem'[q][i]
      BY <2>2 DEF Noted, Ran
    <3>1. i \in DOMAIN mem[q] /\ mem'[q][i] = mem[q][i]
      BY <2>1 DEF Typed, TypeOK
    <3> QED
      BY <3>1 DEF RunInv, Noted
  <2>5. Current'
    BY <1>0, <2>1, <2>2 DEF RunInv, Current, Ran, InWindow, Typed, TypeOK
  <2> QED
    BY <2>3, <2>4, <2>5 DEF RunInv
<1>9. ASSUME NEW c \in Calls, NEW p \in Procs, RunNow(c, p) PROVE RunInv'
  <2>1. PICK j \in DOMAIN mem[p] : job' = [job EXCEPT ![c] = j]
    BY <1>9 DEF RunNow
  <2>2. /\ UNCHANGED <<now, up, mem, at, todo, served>> /\ pc' = [pc EXCEPT ![c] = "get"]
        /\ c \notin Procs /\ \A q \in Procs : job'[q] = job[q]
    BY <1>0, <1>9, <2>1 DEF RunNow, sched, Goto, Typed, TypeOK
  <2> QED
    BY <1>0, <2>2, QuietStep
<1>10. CASE Elapse
  BY <1>0, <1>10 DEF Elapse, sched, RunInv, Alive, Past, Noted, Pending, Current, Ran,
                     InWindow, Typed, TypeOK, Times
<1>11. ASSUME NEW p \in Procs, Crash(p) PROVE RunInv'
  <2>1. /\ UNCHANGED now /\ up' = up \ {p}
        /\ mem' = [mem EXCEPT ![p] = NoJobs] /\ at' = [at EXCEPT ![p] = 0]
        /\ todo' = [todo EXCEPT ![p] = {}] /\ job' = [job EXCEPT ![p] = None]
        /\ served' = {s \in served : s[1] # p}
    BY <1>11 DEF Crash
  <2>2. \A q \in Procs : pc'[q] = IF q = p THEN "wait" ELSE pc[q]
    BY <1>0, <1>11 DEF Crash
  <2>3. \A q \in Procs, j \in Jobs, o \in Times : Ran(q, j, o)' => Ran(q, j, o) /\ q # p
    BY <2>1 DEF Ran
  <2>4. now >= 0
    BY CronAssumption DEF Typed, TypeOK, Times
  <2>5. Alive' /\ Past'
    BY <2>1, <2>2, <2>3, <2>4 DEF RunInv, Alive, Past, Typed, TypeOK
  <2>6. Noted' /\ Pending'
    BY <2>1, <2>3 DEF RunInv, Noted, Pending, InWindow, Typed, TypeOK
  <2>7. Current'
    <3> SUFFICES ASSUME NEW q \in Procs, pc'[q] \in Running
                 PROVE  /\ job'[q] \notin todo'[q]
                        /\ \A o \in Times :
                             <<q, job'[q], o>> \in served' => o \notin InWindow(job'[q], at'[q])
      BY DEF Current, Ran, InWindow
    <3>1. q # p /\ pc[q] \in Running
      BY <2>2 DEF Running
    <3>2. job'[q] = job[q] /\ todo'[q] = todo[q] /\ at'[q] = at[q] /\ job[q] \in Jobs
      BY <1>0, <2>1, <3>1 DEF Typed, AtHand, TypeOK
    <3> QED
      BY <2>3, <3>1, <3>2 DEF RunInv, Current, Ran
  <2> QED
    BY <2>5, <2>6, <2>7 DEF RunInv
<1>12. ASSUME NEW p \in Procs, Start(p) PROVE RunInv'
  <2>1. /\ UNCHANGED <<now, at, todo, pc, job, served>> /\ up' = up \cup {p} /\ p \notin up
        /\ \A q \in Procs \ {p} : mem'[q] = mem[q]
    BY <1>12 DEF Start, Typed, TypeOK
  <2>2. Noted'
    BY <2>1 DEF RunInv, Past, Noted, Ran
  <2> QED
    BY <2>1, <2>2 DEF RunInv, Alive, Past, Pending, Current, Ran, InWindow
<1>13. CASE UNCHANGED vars
  BY <1>13 DEF vars, sched, RunInv, Alive, Past, Noted, Pending, Current, Ran, InWindow
<1> QED
  BY <1>1, <1>2, <1>3, <1>4, <1>5, <1>6, <1>7, <1>8, <1>9, <1>10, <1>11, <1>12, <1>13
     DEF Next, Execute, Schedule

\* No tick starts a job again for an occurrence that an earlier tick of its process ran
\* to the end, for any schedules and however the windows overlap.
THEOREM SpecNoRerun == Spec => []NoRerun
<1>1. Typed /\ RunInv => NoRerun
  BY DEF Typed, RunInv, Current, NoRerun, RanBefore, Ran
<1>2. Spec => [](Typed /\ RunInv)
  BY TypedInit, TypedNext, RunInvInit, RunInvNext, PTL DEF Spec
<1> QED
  BY <1>1, <1>2, PTL

================================================================================
