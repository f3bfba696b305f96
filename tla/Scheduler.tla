------------------------------ MODULE Scheduler ------------------------------
(***************************************************************************)
(* scheduler/cron.go: the schedulers of several processes that all have    *)
(* the job of ONE name, and the goroutines that execute it.  A goroutine   *)
(* comes from cron, which the module models from its use, or from Trigger. *)
(* Singleton keeps the runs of one Job object apart, Distributed the runs  *)
(* of the processes, through the lock of LeaseLock: every process has one  *)
(* lock.Redis object and so one owner ID.                                  *)
(*                                                                         *)
(* The scheduler's mutex covers Add, Remove, Start and Trigger's look-up;  *)
(* Stop and Shutdown drop it to wait for running jobs.  A handler that     *)
(* panics ends its process: cron.New has no Recover, and neither has       *)
(* executeJob.                                                             *)
(***************************************************************************)
EXTENDS Naturals, FiniteSets

CONSTANTS Process,     \* the processes, one scheduler each
          Thread,      \* goroutines for executeJob
          Home,        \* Home[t]: the process of goroutine t
          Managed,     \* the processes whose scheduler is called: those of
                       \* the others have the job, run and are left alone
          MaxAdds,     \* bound: Job objects of the name added to a process
          MaxEntries,  \* bound: cron entries of one Job object
          Singleton,   \* Job.Singleton
          Distributed, \* Job.Distributed, with a locker
          RetryCount,  \* Job.RetryCount
          Timeout,     \* Job.Timeout, in ticks
          Interval,    \* Job.RetryInterval, in ticks
          LockTTL,     \* WithLockTTL, in ticks
          Minute,      \* the minute added to a Timeout that exceeds it
          Nobody       \* no owner

ASSUME SchedulerAssumption ==
  /\ Home \in [Thread -> Process]
  /\ Managed \subseteq Process
  /\ MaxAdds \in Nat \ {0}
  /\ MaxEntries \in Nat \ {0}
  /\ Singleton \in BOOLEAN
  /\ Distributed \in BOOLEAN
  /\ RetryCount \in Nat
  /\ Timeout \in Nat \ {0}
  /\ Interval \in Nat
  /\ LockTTL \in Nat \ {0}
  /\ Minute \in Nat \ {0}
  /\ Nobody \notin Process

VARIABLES up,       \* the process lives
          listed,   \* s.jobs has the name
          added,    \* how many Job objects of the name were added: the last
                    \* is the listed one
          running,  \* s.running
          closed,   \* s.closed
          cronOn,   \* cron fires
          entries,  \* entries[p][j]: cron's entries for Job object j
          busy,     \* busy[p][j]: Job object j is in JobStateRunning
          stopping, \* a call of Stop waits
          quit,     \* how far Shutdown is
          drained,  \* the goroutine in Shutdown found wg at zero
          owner,    \* the process whose owner ID the lock's key stores
          left,     \* ticks before the key expires
          held,     \* the process's held map has the key
          pc,       \* where each goroutine is
          of,       \* the Job object it executes
          via,      \* who started it
          attempt,  \* runs of the handler that have failed
          spent     \* ticks since it was granted the lock

api == <<up, listed, added, running, closed>>
cron == <<cronOn, entries>>
ends == <<stopping, quit, drained>>
lock == <<owner, left, held>>
what == <<of, via>>
progress == <<attempt, spent>>

vars == <<api, cron, ends, lock, busy, pc, what, progress>>

Key == INSTANCE LeaseLock WITH Owner <- Process, holder <- owner

-----------------------------------------------------------------------------
JobObject == 1 .. MaxAdds

\* The ttl executeJob asks for.
TTL == IF Timeout > LockTTL THEN Timeout + Minute ELSE LockTTL

\* What runWithRetry takes at most.
Span == (RetryCount + 1) * Timeout + RetryCount * Interval

\* In runWithRetry, and from the grant to the release of the lock.
Active == {"running", "sleeping"}
Granted == Active \cup {"hooking", "unlocking", "deleting", "resending"}

\* From tryStart to finish, and from wg.Add to wg.Done.
Started == Granted \cup {"locking", "finishing"}

At(p, S) == {t \in Thread : Home[t] = p /\ pc[t] \in S}

\* cron's own count of what it started.
Fired(p) == {t \in At(p, Started \cup {"spawned"}) : via[t] = "cron"}

TypeOK ==
  /\ up \in [Process -> BOOLEAN]
  /\ listed \in [Process -> BOOLEAN]
  /\ added \in [Process -> 0 .. MaxAdds]
  /\ running \in [Process -> BOOLEAN]
  /\ closed \in [Process -> BOOLEAN]
  /\ cronOn \in [Process -> BOOLEAN]
  /\ entries \in [Process -> [JobObject -> 0 .. MaxEntries]]
  /\ busy \in [Process -> [JobObject -> BOOLEAN]]
  /\ stopping \in [Process -> BOOLEAN]
  /\ quit \in [Process -> {"no", "cron", "jobs", "done", "timeout"}]
  /\ drained \in [Process -> BOOLEAN]
  /\ owner \in Process \cup {Nobody}
  /\ left \in 0 .. TTL
  /\ held \in [Process -> BOOLEAN]
  /\ pc \in [Thread -> Started \cup {"idle", "spawned", "dead"}]
  /\ of \in [Thread -> JobObject]
  /\ via \in [Thread -> {"cron", "trigger"}]
  /\ attempt \in [Thread -> 0 .. RetryCount]
  /\ spent \in [Thread -> 0 .. Span]

Init ==
  /\ up = [p \in Process |-> TRUE]
  /\ listed = [p \in Process |-> p \notin Managed]
  /\ added = [p \in Process |-> IF p \in Managed THEN 0 ELSE 1]
  /\ running = [p \in Process |-> p \notin Managed]
  /\ closed = [p \in Process |-> FALSE]
  /\ cronOn = [p \in Process |-> p \notin Managed]
  /\ entries = [p \in Process |-> [j \in JobObject |->
                                    IF j = 1 /\ p \notin Managed THEN 1 ELSE 0]]
  /\ busy = [p \in Process |-> [j \in JobObject |-> FALSE]]
  /\ stopping = [p \in Process |-> FALSE]
  /\ quit = [p \in Process |-> "no"]
  /\ drained = [p \in Process |-> FALSE]
  /\ Key!Init
  /\ held = [p \in Process |-> FALSE]
  /\ pc = [t \in Thread |-> "idle"]
  /\ of = [t \in Thread |-> 1]
  /\ via = [t \in Thread |-> "cron"]
  /\ attempt = [t \in Thread |-> 0]
  /\ spent = [t \in Thread |-> 0]

Goto(t, s) == pc' = [pc EXCEPT ![t] = s]

\* registerJob: one more cron entry, and the Job object remembers only its ID.
Register(p, j) ==
  /\ entries[p][j] < MaxEntries
  /\ entries' = [entries EXCEPT ![p][j] = @ + 1]

-----------------------------------------------------------------------------
(* The Scheduler interface.                                                *)

\* A new Job object; a running scheduler registers it at once.
Add(p) ==
  /\ up[p] /\ ~ closed[p] /\ ~ listed[p]
  /\ added[p] < MaxAdds
  /\ added' = [added EXCEPT ![p] = @ + 1]
  /\ listed' = [listed EXCEPT ![p] = TRUE]
  /\ IF running[p] THEN Register(p, added[p] + 1) ELSE UNCHANGED entries
  /\ UNCHANGED <<up, running, closed, cronOn, ends, lock, busy, pc, what, progress>>

\* The Job object goes from the map, and its last entry from cron, if running.
Remove(p) ==
  /\ up[p] /\ listed[p]
  /\ listed' = [listed EXCEPT ![p] = FALSE]
  /\ IF running[p] /\ entries[p][added[p]] > 0
     THEN entries' = [entries EXCEPT ![p][added[p]] = @ - 1]
     ELSE UNCHANGED entries
  /\ UNCHANGED <<up, added, running, closed, cronOn, ends, lock, busy, pc, what,
                 progress>>

\* All jobs of the map are registered, whether they were before or not.
Start(p) ==
  /\ up[p] /\ ~ closed[p] /\ ~ running[p]
  /\ IF listed[p] THEN Register(p, added[p]) ELSE UNCHANGED entries
  /\ cronOn' = [cronOn EXCEPT ![p] = TRUE]
  /\ running' = [running EXCEPT ![p] = TRUE]
  /\ UNCHANGED <<up, listed, added, closed, ends, lock, busy, pc, what, progress>>

\* Stop turns cron off and waits.  One call of it at a time.
Stop(p) ==
  /\ up[p] /\ running[p] /\ ~ closed[p] /\ ~ stopping[p]
  /\ cronOn' = [cronOn EXCEPT ![p] = FALSE]
  /\ stopping' = [stopping EXCEPT ![p] = TRUE]
  /\ UNCHANGED <<api, entries, quit, drained, lock, busy, pc, what, progress>>

\* Mutant of Stopped: Stop does not wait.
StoppedAtOnce(p) ==
  /\ stopping[p]
  /\ running' = [running EXCEPT ![p] = FALSE]
  /\ stopping' = [stopping EXCEPT ![p] = FALSE]
  /\ UNCHANGED <<up, listed, added, closed, cron, quit, drained, lock, busy, pc,
                 what, progress>>

\* What cron started has ended.
Stopped(p) ==
  /\ stopping[p]
  /\ Fired(p) = {}
  /\ running' = [running EXCEPT ![p] = FALSE]
  /\ stopping' = [stopping EXCEPT ![p] = FALSE]
  /\ UNCHANGED <<up, listed, added, closed, cron, quit, drained, lock, busy, pc,
                 what, progress>>

\* Mutant of Shutdown: cron goes on.
ShutdownFiring(p) ==
  /\ up[p] /\ ~ closed[p]
  /\ closed' = [closed EXCEPT ![p] = TRUE]
  /\ quit' = [quit EXCEPT ![p] = "cron"]
  /\ UNCHANGED <<up, listed, added, running, cron, stopping, drained, lock,
                 busy, pc, what, progress>>

\* Shutdown closes the scheduler and turns cron off; a second call returns nil.
Shutdown(p) ==
  /\ up[p] /\ ~ closed[p]
  /\ closed' = [closed EXCEPT ![p] = TRUE]
  /\ cronOn' = [cronOn EXCEPT ![p] = FALSE]
  /\ quit' = [quit EXCEPT ![p] = "cron"]
  /\ UNCHANGED <<up, listed, added, running, entries, stopping, drained, lock,
                 busy, pc, what, progress>>

\* The goroutine Shutdown starts: wg is at zero.
Drained(p) ==
  /\ up[p] /\ quit[p] # "no" /\ ~ drained[p]
  /\ At(p, Started) = {}
  /\ drained' = [drained EXCEPT ![p] = TRUE]
  /\ UNCHANGED <<api, cron, stopping, quit, lock, busy, pc, what, progress>>

\* The first select: what cron started has ended.
CronDone(p) ==
  /\ quit[p] = "cron"
  /\ Fired(p) = {}
  /\ quit' = [quit EXCEPT ![p] = "jobs"]
  /\ UNCHANGED <<api, cron, stopping, drained, lock, busy, pc, what, progress>>

\* The second select: Shutdown returns nil.
JobsDone(p) ==
  /\ quit[p] = "jobs"
  /\ drained[p]
  /\ quit' = [quit EXCEPT ![p] = "done"]
  /\ running' = [running EXCEPT ![p] = FALSE]
  /\ UNCHANGED <<up, listed, added, closed, cron, stopping, drained, lock, busy,
                 pc, what, progress>>

\* Shutdown's context is done first.
ShutdownTimeout(p) ==
  /\ quit[p] \in {"cron", "jobs"}
  /\ quit' = [quit EXCEPT ![p] = "timeout"]
  /\ UNCHANGED <<api, cron, stopping, drained, lock, busy, pc, what, progress>>

-----------------------------------------------------------------------------
(* executeJob.                                                             *)

Spawn(t, j, v) ==
  /\ pc[t] = "idle"
  /\ Goto(t, "spawned")
  /\ of' = [of EXCEPT ![t] = j]
  /\ via' = [via EXCEPT ![t] = v]
  /\ UNCHANGED <<api, cron, ends, lock, busy, progress>>

\* An entry's time has come.
Fire(t) ==
  /\ cronOn[Home[t]]
  /\ \E j \in JobObject : entries[Home[t]][j] > 0 /\ Spawn(t, j, "cron")

\* Trigger looks the Job object up and starts a goroutine of its own.
Trigger(t) ==
  /\ Home[t] \in Managed
  /\ up[Home[t]] /\ listed[Home[t]] /\ ~ closed[Home[t]]
  /\ Spawn(t, added[Home[t]], "trigger")

\* Mutant of Begin: finish is deferred before tryStart is asked.
BeginDeferred(t) ==
  /\ pc[t] = "spawned"
  /\ IF Singleton /\ busy[Home[t]][of[t]]
     THEN /\ Goto(t, "idle")
          /\ busy' = [busy EXCEPT ![Home[t]][of[t]] = FALSE]
     ELSE /\ Goto(t, IF Distributed THEN "locking" ELSE "hooking")
          /\ busy' = IF Singleton THEN [busy EXCEPT ![Home[t]][of[t]] = TRUE] ELSE busy
  /\ UNCHANGED <<api, cron, ends, lock, what, progress>>

\* wg.Add, and tryStart for a Singleton: the run is skipped if it is taken.
Begin(t) ==
  /\ pc[t] = "spawned"
  /\ IF Singleton /\ busy[Home[t]][of[t]]
     THEN Goto(t, "idle") /\ UNCHANGED busy
     ELSE /\ Goto(t, IF Distributed THEN "locking" ELSE "hooking")
          /\ busy' = IF Singleton THEN [busy EXCEPT ![Home[t]][of[t]] = TRUE] ELSE busy
  /\ UNCHANGED <<api, cron, ends, lock, what, progress>>

\* TryLock finds the key free; the reply may be lost, and the run is skipped.
LockGranted(t) ==
  /\ pc[t] = "locking"
  /\ left' = TTL
  /\ Key!Acquire(Home[t])
  /\ \/ Goto(t, "hooking") /\ held' = [held EXCEPT ![Home[t]] = TRUE]
     \/ Goto(t, "finishing") /\ UNCHANGED held
  /\ UNCHANGED <<api, cron, ends, busy, what, progress>>

\* TryLock returns false or an error.
LockRefused(t) ==
  /\ pc[t] = "locking"
  /\ Goto(t, "finishing")
  /\ UNCHANGED <<api, cron, ends, lock, busy, what, progress>>

\* The deferred calls begin with Unlock, if the lock was taken.
Leave(t) == Goto(t, IF Distributed THEN "unlocking" ELSE "finishing")

\* The before hooks let the run go on, or not.
BeforeHooks(t) ==
  /\ pc[t] = "hooking"
  /\ Goto(t, "running") \/ Leave(t)
  /\ UNCHANGED <<api, cron, ends, lock, busy, what, progress>>

\* The handler returns nil, or an error at the last attempt.
HandlerEnds(t) ==
  /\ pc[t] = "running"
  /\ Leave(t)
  /\ UNCHANGED <<api, cron, ends, lock, busy, what, progress>>

\* Mutant of HandlerFails: one attempt too many.
HandlerFailsOffByOne(t) ==
  /\ pc[t] = "running"
  /\ attempt[t] <= RetryCount
  /\ Goto(t, "sleeping")
  /\ UNCHANGED <<api, cron, ends, lock, busy, what, progress>>

\* The handler returns an error, with an attempt left.
HandlerFails(t) ==
  /\ pc[t] = "running"
  /\ attempt[t] < RetryCount
  /\ Goto(t, "sleeping")
  /\ UNCHANGED <<api, cron, ends, lock, busy, what, progress>>

NextAttempt(t) ==
  /\ pc[t] = "sleeping"
  /\ attempt' = [attempt EXCEPT ![t] = @ + 1]
  /\ Goto(t, "running")
  /\ UNCHANGED <<api, cron, ends, lock, busy, what, spent>>

\* Unlock's check of the held map.
Unlock(t) ==
  /\ pc[t] = "unlocking"
  /\ Goto(t, IF held[Home[t]] THEN "deleting" ELSE "finishing")
  /\ UNCHANGED <<api, cron, ends, lock, busy, what, progress>>

\* Mutant of Delete: the script does not compare the owner.
DeleteAny(t) ==
  /\ pc[t] \in {"deleting", "resending"}
  /\ owner' = Nobody
  /\ left' = 0
  /\ \/ Goto(t, "finishing") /\ held' = [held EXCEPT ![Home[t]] = FALSE]
     \/ pc[t] = "deleting" /\ Goto(t, "resending") /\ UNCHANGED held
  /\ UNCHANGED <<api, cron, ends, busy, what, progress>>

\* Its script, which deletes the key if the process owns it.  Then the reply
\* arrives, or is lost and the script is sent again, once.
Delete(t) ==
  /\ pc[t] \in {"deleting", "resending"}
  /\ Key!Release(Home[t]) \/ (owner # Home[t] /\ UNCHANGED <<owner, left>>)
  /\ \/ Goto(t, "finishing") /\ held' = [held EXCEPT ![Home[t]] = FALSE]
     \/ pc[t] = "deleting" /\ Goto(t, "resending") /\ UNCHANGED held
  /\ UNCHANGED <<api, cron, ends, busy, what, progress>>

\* The script is not run, or not known to have run: the error is logged.
DeleteFails(t) ==
  /\ pc[t] \in {"deleting", "resending"}
  /\ Goto(t, "finishing")
  /\ UNCHANGED <<api, cron, ends, lock, busy, what, progress>>

\* The deferred finish and wg.Done.
Finish(t) ==
  /\ pc[t] = "finishing"
  /\ busy' = IF Singleton THEN [busy EXCEPT ![Home[t]][of[t]] = FALSE] ELSE busy
  /\ Goto(t, "idle")
  /\ attempt' = [attempt EXCEPT ![t] = 0]
  /\ spent' = [spent EXCEPT ![t] = 0]
  /\ UNCHANGED <<api, cron, ends, lock, what>>

-----------------------------------------------------------------------------
\* A process dies, by a handler's panic or otherwise, and its memory is gone.
Crash(p) ==
  /\ up[p]
  /\ up' = [up EXCEPT ![p] = FALSE]
  /\ listed' = [listed EXCEPT ![p] = FALSE]
  /\ running' = [running EXCEPT ![p] = FALSE]
  /\ closed' = [closed EXCEPT ![p] = FALSE]
  /\ cronOn' = [cronOn EXCEPT ![p] = FALSE]
  /\ entries' = [entries EXCEPT ![p] = [j \in JobObject |-> 0]]
  /\ busy' = [busy EXCEPT ![p] = [j \in JobObject |-> FALSE]]
  /\ stopping' = [stopping EXCEPT ![p] = FALSE]
  /\ quit' = [quit EXCEPT ![p] = "no"]
  /\ drained' = [drained EXCEPT ![p] = FALSE]
  /\ held' = [held EXCEPT ![p] = FALSE]
  /\ pc' = [t \in Thread |-> IF Home[t] = p THEN "dead" ELSE pc[t]]
  /\ UNCHANGED <<added, owner, left, what, progress>>

\* How many ticks a run can have had the lock where it is, if hooks are quick
\* and handlers obey their context: runWithRetry gives every attempt a timeout
\* of its own.  Releasing the lock may take what is left of the time.
Due(t) ==
  CASE pc[t] = "hooking"  -> 0
    [] pc[t] = "running"  -> (attempt[t] + 1) * Timeout + attempt[t] * Interval
    [] pc[t] = "sleeping" -> (attempt[t] + 1) * (Timeout + Interval)
    [] OTHER              -> Span

\* A tick of the lock server's clock.
Tick ==
  /\ \A t \in Thread : pc[t] \in Granted => spent[t] < Due(t)
  /\ Key!Elapse
  /\ spent' = [t \in Thread |-> IF pc[t] \in Granted THEN spent[t] + 1 ELSE spent[t]]
  /\ UNCHANGED <<api, cron, ends, held, busy, pc, what, attempt>>

Execute(t) ==
  \/ Begin(t) \/ LockGranted(t) \/ LockRefused(t) \/ BeforeHooks(t)
  \/ HandlerEnds(t) \/ HandlerFails(t) \/ NextAttempt(t)
  \/ Unlock(t) \/ Delete(t) \/ DeleteFails(t) \/ Finish(t)

Ending(p) == Stopped(p) \/ Drained(p) \/ CronDone(p) \/ JobsDone(p)

Interface(p) ==
  \/ Add(p) \/ Remove(p) \/ Start(p) \/ Stop(p) \/ Shutdown(p)
  \/ ShutdownTimeout(p)

Next ==
  \/ Tick
  \/ \E p \in Managed : Interface(p)
  \/ \E p \in Process : Ending(p) \/ Crash(p)
  \/ \E t \in Thread : Fire(t) \/ Trigger(t) \/ Execute(t)

Spec == Init /\ [][Next]_vars

\* Goroutines run on, the clock runs, and a waiting Stop or Shutdown sees what
\* it waits for.  Nobody has to call anything.
LiveSpec ==
  /\ Spec
  /\ WF_vars(Tick)
  /\ \A t \in Thread : WF_vars(Execute(t))
  /\ \A p \in Process : WF_vars(Ending(p))

-----------------------------------------------------------------------------
(* Properties.                                                             *)

\* scheduler.go: "a distributed lock: of several instances only one executes
\* the job".  As long as a process has one Job object of the name (a second
\* one defeats Singleton, and with it the lock the process shares), no two
\* goroutines of all the processes run it at a time.
OneRun ==
  Distributed /\ (\A p \in Process : added[p] <= 1)
    => Cardinality({t \in Thread : pc[t] \in Active}) <= 1

\* What OneRun needs: a Singleton whose retries all fit in the lock's ttl.
FitsTTL == Singleton /\ Span < TTL

\* job.go: tryStart "guarantees the singleton".  A Job object is running just
\* as long as one goroutine executes it: no path out of executeJob leaves it
\* running for ever, and none sets it free for a second goroutine.
BusyIsOne ==
  Singleton =>
    \A p \in Process, j \in JobObject :
      /\ Cardinality({t \in At(p, Started) : of[t] = j}) <= 1
      /\ busy[p][j] <=> \E t \in At(p, Started) : of[t] = j

\* Job objects run one at a time in a process, and one of them at a time in all
\* the processes together.
RunsAreOne == TypeOK /\ BusyIsOne /\ (FitsTTL => OneRun)

\* README: "graceful shutdown waits for running jobs".  A scheduler that says
\* it does not run fires no job, and none that cron started is still at work:
\* after Stop, and after a Shutdown that returned nil.
StoppedIsQuiet ==
  \A p \in Process : ~ running[p] => ~ cronOn[p] /\ Fired(p) = {}

\* The flags of a scheduler tell what its goroutines do.
FlagsTrue == BusyIsOne /\ StoppedIsQuiet

\* Stop returns, and so does Shutdown without the help of its context: new
\* runs do not keep them waiting.
Quiesces ==
  \A p \in Process :
    stopping[p] \/ quit[p] \in {"cron", "jobs"}
      ~> ~ stopping[p] /\ quit[p] \notin {"cron", "jobs"}
=============================================================================
