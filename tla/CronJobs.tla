------------------------------ MODULE CronJobs ------------------------------
(***************************************************************************)
(* The cron scheduler of the worker and its job file.                      *)
(*                                                                         *)
(* Every process that embeds the worker (the worker itself, a gateway with *)
(* an embedded one) keeps the jobs in memory, reads jobs.json once when it *)
(* starts and rewrites the whole file after each change.  Its scheduler    *)
(* wakes up every Period, takes jobs.lock by creating it, and runs the     *)
(* jobs that are due one after another; the API runs, creates and deletes  *)
(* jobs at the same time.                                                  *)
(*                                                                         *)
(* A thread is a scheduler, named by its process, or a call of the API.    *)
(* Jobs are taken as enabled and their expressions as valid: any other is  *)
(* never due.  Schedules are sets of points of a discrete time.            *)
(***************************************************************************)
EXTENDS Integers, FiniteSets

CONSTANTS Procs,        \* processes that share the job file
          Calls,        \* calls of the API
          Jobs,         \* ids a created job may get
          Delivering,   \* the jobs with a delivery channel
          Occurs,       \* Occurs[j]: the times at which j is scheduled
          Period,       \* tick_secs
          Slack,        \* the seconds by which the window exceeds the period
          MaxTime, MaxFaults,
          Torn,         \* a file cut short: nothing can be parsed
          None          \* no process, no job

ASSUME CronAssumption ==
    /\ Procs # {} /\ Procs \cap Calls = {} /\ None \notin Procs \cup Jobs
    /\ Delivering \subseteq Jobs
    /\ Occurs \in [Jobs -> SUBSET Nat]
    /\ Period \in Nat \ {0} /\ Slack \in Nat
    /\ MaxTime \in Nat /\ MaxFaults \in Nat

VARIABLES now,
          up,       \* the processes that run
          mem,      \* mem[p]: last_run_at of the jobs p knows (FileJobStore.inner)
          file,     \* what jobs.json holds, or Torn
          lock,     \* the process that created jobs.lock, None if there is no such file
          wake,     \* wake[p]: when the interval of p fires next
          at,       \* at[p]: the time of the tick of p
          todo,     \* todo[p]: the jobs of the tick still to run
          pc, host, job,  \* of a thread: where it is, its process, its job
          snap,     \* what a thread is about to write to the file
          served,   \* history: <<process, job, occurrence>> run to the end by a tick
          orphaned, \* history: the processes that ended while they held the lock file, or
                    \* could not remove it
          faults

disk   == <<file, snap>>
sched  == <<lock, wake, at, todo, orphaned>>
vars   == <<now, up, mem, sched, disk, pc, host, job, served, faults>>

Times   == 0..MaxTime
Never   == -1
Threads == Procs \cup Calls
Window  == Period + Slack

Running == {"get", "turn", "deliver", "mark"}
Saving  == {"snapshot", "write"}
InTick(p) == pc[p] \in {"list", "next"} \cup Running \cup Saving

\* What a process can know of the jobs: when each of them was run last.
Tables == UNION {[js -> Times \cup {Never}] : js \in SUBSET Jobs}
NoJobs == [j \in {} |-> Never]

TypeOK ==
    /\ now \in Times /\ faults \in 0..MaxFaults
    /\ up \subseteq Procs
    /\ mem \in [Procs -> Tables]
    /\ file \in Tables \cup {Torn} /\ snap \in [Threads -> Tables \cup {Torn}]
    /\ lock \in Procs \cup {None}
    /\ wake \in [Procs -> Nat] /\ at \in [Procs -> Times]
    /\ todo \in [Procs -> SUBSET Jobs] /\ orphaned \subseteq Procs
    /\ pc \in [Threads -> {"wait", "list", "next", "done"} \cup Running \cup Saving]
    /\ \A p \in Procs : pc[p] # "done"
    /\ \A c \in Calls : pc[c] \notin {"list", "next"}
    /\ host \in [Threads -> Procs] /\ job \in [Threads -> Jobs \cup {None}]
    /\ served \subseteq Procs \X Jobs \X Times

Init ==
    /\ now = 0 /\ faults = 0
    /\ up = Procs
    /\ \E js \in SUBSET Jobs : file = [j \in js |-> Never]
    /\ mem = [p \in Procs |-> file]
    /\ snap = [t \in Threads |-> NoJobs]
    /\ lock = None
    /\ wake = [p \in Procs |-> 0] /\ at = [p \in Procs |-> 0]
    /\ todo = [p \in Procs |-> {}] /\ orphaned = {}
    /\ pc = [t \in Threads |-> "wait"]
    /\ host = [t \in Threads |-> IF t \in Procs THEN t ELSE CHOOSE p \in Procs : TRUE]
    /\ job = [t \in Threads |-> None]
    /\ served = {}

(***************************************************************************)
(* Which jobs are due.  The window reaches back a little further than one  *)
(* tick, so that a late tick misses nothing; a run inside the window means *)
(* that the window has been served.                                        *)
(***************************************************************************)
InWindow(j, t) == {o \in Occurs[j] : t - Window < o /\ o <= t}

\* Mutant: the last run is not looked at.
IsJobDueAgain(j, last, t) == InWindow(j, t) # {}

IsJobDue(j, last, t) ==
    /\ last = Never \/ last <= t - Window
    /\ InWindow(j, t) # {}

Goto(t, l) == pc' = [pc EXCEPT ![t] = l]

\* The end of execute_cron_job, with or without an error: the scheduler logs it
\* and goes on with the next job, a call answers.
SettledNext(t) == "next"  \* mutant

Settled(t) == IF t \in Procs THEN "next" ELSE "done"

-----------------------------------------------------------------------------
(* The scheduler. *)

\* create_new succeeds when there is no such file; the mutant opens an existing one.
LockFreeAlways == TRUE
LockFree == lock = None

\* The lock file is removed when the tick returns; the mutant forgets to.
LockKept == lock
LockDropped == None

\* The interval fires.  Ticks that were missed fire at once, one after another.  A tick
\* is skipped when the lock file is there, and also when its directory or the file
\* itself cannot be created.
Tick(p) ==
    /\ p \in up /\ pc[p] = "wait" /\ wake[p] <= now
    /\ \/ /\ LockFree
          /\ lock' = p /\ Goto(p, "list")
          /\ UNCHANGED wake
       \/ /\ wake' = [wake EXCEPT ![p] = @ + Period]
          /\ UNCHANGED <<lock, pc>>
    /\ UNCHANGED <<now, up, mem, disk, at, todo, host, job, served, orphaned, faults>>

ListDue(p) ==
    /\ pc[p] = "list"
    /\ at' = [at EXCEPT ![p] = now]
    /\ todo' = [todo EXCEPT ![p] =
                  {j \in DOMAIN mem[p] : IsJobDue(j, mem[p][j], now)}]
    /\ Goto(p, "next")
    /\ UNCHANGED <<now, up, mem, disk, lock, wake, host, job, served, orphaned, faults>>

RunNext(p) ==
    /\ pc[p] = "next"
    /\ \E j \in todo[p] :
         /\ todo' = [todo EXCEPT ![p] = @ \ {j}]
         /\ job' = [job EXCEPT ![p] = j]
    /\ Goto(p, "get")
    /\ UNCHANGED <<now, up, mem, disk, lock, wake, at, host, served, orphaned, faults>>

\* The result of the removal is not looked at.
TickEnds(p) ==
    /\ pc[p] = "next" /\ todo[p] = {}
    /\ \/ lock' = LockDropped /\ UNCHANGED <<orphaned, faults>>
       \/ /\ faults < MaxFaults
          /\ faults' = faults + 1
          /\ orphaned' = orphaned \cup {p}
          /\ UNCHANGED lock
    /\ wake' = [wake EXCEPT ![p] = @ + Period]
    /\ job' = [job EXCEPT ![p] = None]
    /\ at' = [at EXCEPT ![p] = 0]
    /\ Goto(p, "wait")
    /\ UNCHANGED <<now, up, mem, disk, todo, host, served>>

-----------------------------------------------------------------------------
(* execute_cron_job, of a tick or of a call. *)

Get(t) ==
    /\ pc[t] = "get"
    /\ Goto(t, IF job[t] \in DOMAIN mem[host[t]] THEN "turn" ELSE Settled(t))
    /\ UNCHANGED <<now, up, mem, disk, sched, host, job, served, faults>>

\* The agent's turn, which may fail.
Turn(t) ==
    /\ pc[t] = "turn"
    /\ \/ Goto(t, IF job[t] \in Delivering THEN "deliver" ELSE "mark")
       \/ Goto(t, Settled(t))
    /\ UNCHANGED <<now, up, mem, disk, sched, host, job, served, faults>>

Deliver(t) ==
    /\ pc[t] = "deliver"
    /\ \/ Goto(t, "mark")
       \/ Goto(t, Settled(t))
    /\ UNCHANGED <<now, up, mem, disk, sched, host, job, served, faults>>

\* mark_run: only now is the run remembered.  The job may have been deleted since.
Mark(t) ==
    LET p == host[t] IN
    /\ pc[t] = "mark"
    /\ \/ /\ job[t] \in DOMAIN mem[p]
          /\ mem' = [mem EXCEPT ![p][job[t]] = now]
          /\ Goto(t, "snapshot")
       \/ /\ job[t] \notin DOMAIN mem[p]
          /\ Goto(t, Settled(t))
          /\ UNCHANGED mem
    /\ served' = IF t \in Procs
                 THEN served \cup {<<p, job[t], o>> : o \in InWindow(job[t], at[p])}
                 ELSE served
    /\ UNCHANGED <<now, up, disk, sched, host, job, faults>>

\* persist takes a copy of the jobs under the lock and writes the file without it.
Snapshot(t) ==
    /\ pc[t] = "snapshot"
    /\ snap' = [snap EXCEPT ![t] = mem[host[t]]]
    /\ Goto(t, "write")
    /\ UNCHANGED <<now, up, mem, file, sched, host, job, served, faults>>

Writers(t) == {u \in Threads \ {t} : pc[u] = "write"}

\* Writes that overlap may leave a mixture, whichever ends last.  A write that fails
\* leaves the file as it was, or cut short.
Write(t) ==
    /\ pc[t] = "write"
    /\ \E spoilt \in SUBSET Writers(t) :
         snap' = [u \in Threads |-> IF u = t THEN NoJobs
                                   ELSE IF u \in spoilt THEN Torn ELSE snap[u]]
    /\ \/ file' = snap[t] /\ UNCHANGED faults
       \/ /\ faults < MaxFaults
          /\ faults' = faults + 1
          /\ file' \in {file, Torn}
    /\ Goto(t, Settled(t))
    /\ UNCHANGED <<now, up, mem, sched, host, job, served>>

-----------------------------------------------------------------------------
(* The API. *)

Known == (UNION {DOMAIN mem[p] : p \in Procs}) \cup {job[t] : t \in Threads}
         \cup {s[2] : s \in served}

Arrive(c, p) == c \in Calls /\ pc[c] = "wait" /\ p \in up
                /\ host' = [host EXCEPT ![c] = p]

\* A new job has an id nobody has seen.
Create(c, p) ==
    /\ Arrive(c, p)
    /\ \E j \in Jobs :
         /\ j \notin Known /\ (file = Torn \/ j \notin DOMAIN file)
         /\ mem' = [mem EXCEPT ![p] =
                      [i \in DOMAIN @ \cup {j} |-> IF i = j THEN Never ELSE @[i]]]
         /\ job' = [job EXCEPT ![c] = j]
    /\ Goto(c, "snapshot")
    /\ UNCHANGED <<now, up, disk, sched, served, faults>>

Delete(c, p) ==
    /\ Arrive(c, p)
    /\ \E j \in DOMAIN mem[p] :
         /\ mem' = [mem EXCEPT ![p] = [i \in DOMAIN @ \ {j} |-> @[i]]]
         /\ job' = [job EXCEPT ![c] = j]
    /\ Goto(c, "snapshot")
    /\ UNCHANGED <<now, up, disk, sched, served, faults>>

RunNow(c, p) ==
    /\ Arrive(c, p)
    /\ \E j \in DOMAIN mem[p] : job' = [job EXCEPT ![c] = j]
    /\ Goto(c, "get")
    /\ UNCHANGED <<now, up, mem, disk, sched, served, faults>>

-----------------------------------------------------------------------------
(* Time, crashes and restarts. *)

Elapse ==
    /\ now < MaxTime
    /\ now' = now + 1
    /\ UNCHANGED <<up, mem, sched, disk, pc, host, job, served, faults>>

\* A process ends where it is.  Nobody removes its lock file, and a file it was
\* writing is left truncated.
Crash(p) ==
    LET gone == {t \in Threads : host[t] = p /\ pc[t] # "wait"} IN
    /\ p \in up /\ faults < MaxFaults
    /\ faults' = faults + 1
    /\ up' = up \ {p}
    /\ \/ UNCHANGED file
       \/ /\ \E t \in gone : pc[t] = "write"
          /\ file' = Torn
    /\ pc' = [t \in Threads |->
                IF t = p THEN "wait" ELSE IF t \in gone THEN "done" ELSE pc[t]]
    /\ snap' = [t \in Threads |-> IF t \in gone THEN NoJobs ELSE snap[t]]
    /\ todo' = [todo EXCEPT ![p] = {}]
    /\ job' = [job EXCEPT ![p] = None]
    /\ at' = [at EXCEPT ![p] = 0]
    /\ mem' = [mem EXCEPT ![p] = NoJobs]
    /\ served' = {s \in served : s[1] # p}
    /\ orphaned' = IF lock = p THEN orphaned \cup {p} ELSE orphaned
    /\ UNCHANGED <<now, lock, wake, host>>

\* FileJobStore::open takes a file it cannot parse, because it is cut short or being
\* written, for an empty one.
Start(p) ==
    /\ p \notin up
    /\ up' = up \cup {p}
    /\ \/ mem' = [mem EXCEPT ![p] = IF file = Torn THEN NoJobs ELSE file]
       \/ Writers(p) # {} /\ mem' = [mem EXCEPT ![p] = NoJobs]
    /\ wake' = [wake EXCEPT ![p] = now]
    /\ UNCHANGED <<now, disk, lock, at, todo, pc, host, job, served, orphaned, faults>>

-----------------------------------------------------------------------------
Execute(t) == Get(t) \/ Turn(t) \/ Deliver(t) \/ Mark(t) \/ Snapshot(t) \/ Write(t)
Schedule(p) == Tick(p) \/ ListDue(p) \/ RunNext(p) \/ TickEnds(p)

Next ==
    \/ \E p \in Procs : Schedule(p) \/ Crash(p) \/ Start(p)
    \/ \E t \in Threads : Execute(t)
    \/ \E c \in Calls, p \in Procs : Create(c, p) \/ Delete(c, p) \/ RunNow(c, p)
    \/ Elapse

\* The runtime polls every task that is ready, and a turn or a delivery ends by
\* itself (both are bounded by the timeouts of the HTTP client).
Fairness == /\ \A p \in Procs : WF_vars(Schedule(p))
            /\ \A t \in Threads : WF_vars(Execute(t))

Spec == Init /\ [][Next]_vars /\ Fairness

-----------------------------------------------------------------------------
(* Properties *)

\* A tick never starts a job again for an occurrence that an earlier tick of the
\* same process ran to the end: the windows of consecutive ticks overlap, and what
\* keeps them apart is last_run_at, set at the end of the run and not at its start.
RanBefore(p) == {o \in Times : <<p, job[p], o>> \in served}
NoRerun ==
    \A p \in Procs : pc[p] \in Running => RanBefore(p) \cap InWindow(job[p], at[p]) = {}

\* Two ticks never overlap, in whichever processes, and a process that is in a tick
\* owns the lock file: a tick that was skipped or has ended removes nobody's lock.
TickExclusive == \A p \in Procs : InTick(p) => lock = p

\* A tick ends and gives the lock file back, whatever fails in it, a turn, a delivery or
\* the write of the job file, and whatever happens to other processes.  Only a process
\* that ends in its own tick, or cannot remove the file, leaves it behind.
LockFreed == \A p \in Procs : InTick(p) ~> ~InTick(p) /\ (lock = p => p \in orphaned)
=============================================================================
