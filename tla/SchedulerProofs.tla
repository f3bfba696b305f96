--------------------------- MODULE SchedulerProofs ---------------------------
(* Theorems about Scheduler, for any processes, goroutines, times and flags. *)
EXTENDS Scheduler, FiniteSetTheorems, TLAPS

-----------------------------------------------------------------------------
(* The inductive invariants.                                               *)

\* What the types need: a run's counters start at zero, a retry is within the
\* limit, a listed job has a Job object, and a key is free without a lease.
Counts ==
  /\ \A t \in Thread :
       /\ pc[t] \in {"idle", "spawned", "locking"} =>
            attempt[t] = 0 /\ spent[t] = 0
       /\ pc[t] = "sleeping" => attempt[t] < RetryCount
  /\ \A p \in Process : listed[p] => added[p] > 0
  /\ owner = Nobody <=> left = 0

Typed == TypeOK /\ Counts

\* A goroutine that executes Job object j of process p, between tryStart and
\* finish.
Executes(t, p, j) == pc[t] \in Started /\ Home[t] = p /\ of[t] = j

\* A Job object is busy for the one goroutine that executes it.
Alone(p, j) ==
  /\ \A s, t \in Thread : Executes(s, p, j) /\ Executes(t, p, j) => s = t
  /\ busy[p][j] <=> \E t \in Thread : Executes(t, p, j)

\* No goroutine that cron started is at work in process p.
NoneFired(p) ==
  \A t \in Thread :
    Home[t] = p /\ pc[t] \in Started \cup {"spawned"} => via[t] # "cron"

\* Cron is off from the moment Stop or Shutdown said so, and nobody can start
\* it before they are done.
Quiet(p) ==
  /\ ~ running[p] => ~ cronOn[p] /\ NoneFired(p)
  /\ stopping[p] => ~ cronOn[p] /\ (running[p] \/ closed[p])
  /\ closed[p] => ~ cronOn[p]
  /\ quit[p] # "no" => closed[p]
  /\ quit[p] = "jobs" => NoneFired(p)

\* Only a Job object that was added is registered, and only one that is
\* registered or listed is executed.
Known ==
  /\ \A p \in Process, j \in JobObject : entries[p][j] > 0 => j <= added[p]
  /\ \A t \in Thread :
       pc[t] \notin {"idle", "dead"} => of[t] <= added[Home[t]]

\* A run has the key, and what its lease has left and the time it has had make
\* up the whole ttl.
Holding == Active \cup {"hooking"}

Holds(t) == pc[t] \in Holding => owner = Home[t] /\ left + spent[t] >= TTL

OneEach == Distributed /\ \A p \in Process : added[p] <= 1

Leased == OneEach => \A t \in Thread : Holds(t)

-----------------------------------------------------------------------------
(* Typing.                                                                 *)

\* The lease executeJob asks for, and the time a run may take.
LEMMA TTLType == TTL \in Nat \ {0}
BY SchedulerAssumption DEF TTL

LEMMA SpanType == Span \in Nat
BY SchedulerAssumption DEF Span

\* A product of naturals grows with its factor.
LEMMA TimesMonotone ==
  ASSUME NEW a \in Nat, NEW b \in Nat, NEW c \in Nat, a <= b
  PROVE  a * c \in Nat /\ b * c \in Nat /\ a * c <= b * c
<1> DEFINE d == b - a
<1>1. d \in Nat /\ b = a + d OBVIOUS
<1>2. d * c \in Nat OBVIOUS
<1>3. b * c = a * c + d * c BY <1>1
<1> QED BY <1>2, <1>3

\* Wherever a run is, its time is within the whole of it.
LEMMA DueBound ==
  ASSUME Typed, NEW t \in Thread
  PROVE  Due(t) \in Nat /\ Due(t) <= Span
<1> DEFINE a == attempt[t]
<1>0. /\ RetryCount \in Nat /\ Timeout \in Nat /\ Interval \in Nat
      /\ a \in Nat /\ a <= RetryCount
  BY SchedulerAssumption DEF Typed, TypeOK
<1> DEFINE R == RetryCount + 1
<1>1. CASE pc[t] = "hooking" BY <1>1, SpanType DEF Due
<1>2. CASE pc[t] = "running"
  <2>1. (a + 1) * Timeout \in Nat /\ (a + 1) * Timeout <= R * Timeout
        /\ R * Timeout \in Nat
    BY <1>0, TimesMonotone
  <2>2. a * Interval \in Nat /\ a * Interval <= RetryCount * Interval
        /\ RetryCount * Interval \in Nat
    BY <1>0, TimesMonotone
  <2>3. Due(t) = (a + 1) * Timeout + a * Interval BY <1>2 DEF Due
  <2>4. Span = R * Timeout + RetryCount * Interval BY DEF Span
  <2> HIDE DEF a, R
  <2> QED BY <2>1, <2>2, <2>3, <2>4
<1>3. CASE pc[t] = "sleeping"
  <2>0. a + 1 <= RetryCount BY <1>0, <1>3 DEF Typed, Counts
  <2>1. (a + 1) * Timeout \in Nat /\ (a + 1) * Timeout <= R * Timeout
        /\ R * Timeout \in Nat
    BY <1>0, TimesMonotone
  <2>2. /\ (a + 1) * Interval \in Nat
        /\ (a + 1) * Interval <= RetryCount * Interval
        /\ RetryCount * Interval \in Nat
    BY <1>0, <2>0, TimesMonotone
  <2>3. Due(t) = (a + 1) * (Timeout + Interval) BY <1>3 DEF Due
  <2>4. Span = R * Timeout + RetryCount * Interval BY DEF Span
  <2>5. (a + 1) * (Timeout + Interval) = (a + 1) * Timeout + (a + 1) * Interval
    BY <1>0
  <2> HIDE DEF a, R
  <2> QED BY <2>1, <2>2, <2>3, <2>4, <2>5
<1>4. CASE pc[t] \notin {"hooking", "running", "sleeping"}
  BY <1>4, SpanType DEF Due
<1> QED BY <1>1, <1>2, <1>3, <1>4

LEMMA InitTyped == Init => Typed
<1> SUFFICES ASSUME Init PROVE Typed
  OBVIOUS
<1>0. /\ SchedulerAssumption /\ TTL \in Nat \ {0} /\ Span \in Nat
      /\ 1 \in JobObject
  BY SchedulerAssumption, TTLType, SpanType DEF JobObject
<1>1. owner = Nobody /\ left = 0 BY DEF Init, Key!Init
<1>2. /\ entries \in [Process -> [JobObject -> 0 .. MaxEntries]]
      /\ busy \in [Process -> [JobObject -> BOOLEAN]]
      /\ added \in [Process -> 0 .. MaxAdds]
  BY <1>0 DEF Init, SchedulerAssumption
<1>3. TypeOK BY <1>0, <1>1, <1>2 DEF Init, TypeOK
<1>4. ASSUME NEW p \in Process, listed[p] PROVE added[p] > 0
  <2>1. p \notin Managed BY <1>4, Zenon DEF Init
  <2>2. added[p] = 1 BY <2>1 DEF Init
  <2> QED BY <2>2
<1>5. \A t \in Thread : pc[t] = "idle" /\ attempt[t] = 0 /\ spent[t] = 0
  BY DEF Init
<1>6. Counts BY <1>1, <1>4, <1>5 DEF Counts
<1> QED BY <1>3, <1>6 DEF Typed

\* One entry's count, or one Job object's flag, is written.
LEMMA SetEntry ==
  ASSUME entries \in [Process -> [JobObject -> 0 .. MaxEntries]],
         NEW p \in Process, NEW j \in JobObject, NEW n \in 0 .. MaxEntries
  PROVE  [entries EXCEPT ![p][j] = n]
           \in [Process -> [JobObject -> 0 .. MaxEntries]]
OBVIOUS

LEMMA SetBusy ==
  ASSUME busy \in [Process -> [JobObject -> BOOLEAN]],
         NEW p \in Process, NEW j \in JobObject, NEW b \in BOOLEAN
  PROVE  [busy EXCEPT ![p][j] = b] \in [Process -> [JobObject -> BOOLEAN]]
OBVIOUS

\* A registration, and a removal of the last one.
LEMMA EntriesTyped ==
  ASSUME TypeOK, NEW p \in Process, NEW j \in JobObject,
         \/ Register(p, j)
         \/ entries[p][j] > 0 /\ entries' = [entries EXCEPT ![p][j] = @ - 1]
  PROVE  entries' \in [Process -> [JobObject -> 0 .. MaxEntries]]
<1>0. entries[p][j] \in 0 .. MaxEntries /\ MaxEntries \in Nat
  BY SchedulerAssumption DEF TypeOK
<1>1. CASE Register(p, j)
  <2>1. entries[p][j] + 1 \in 0 .. MaxEntries BY <1>0, <1>1 DEF Register
  <2>2. entries' = [entries EXCEPT ![p][j] = entries[p][j] + 1]
    BY <1>1 DEF Register
  <2> QED BY <2>1, <2>2, SetEntry DEF TypeOK
<1>2. CASE entries[p][j] > 0 /\ entries' = [entries EXCEPT ![p][j] = @ - 1]
  <2>1. entries[p][j] - 1 \in 0 .. MaxEntries BY <1>0, <1>2
  <2>2. entries' = [entries EXCEPT ![p][j] = entries[p][j] - 1] BY <1>2
  <2> QED BY <2>1, <2>2, SetEntry DEF TypeOK
<1> QED BY <1>1, <1>2

\* What the scheduler's own operations leave alone.
LEMMA InterfaceTyped ==
  ASSUME Typed, NEW p \in Process, Interface(p) \/ Ending(p)
  PROVE  Typed'
<1>1. CASE Add(p)
  <2>1. added[p] \in Nat /\ added[p] + 1 \in JobObject /\ MaxAdds \in Nat
    BY <1>1, SchedulerAssumption DEF Add, Typed, TypeOK, JobObject
  <2>2. added[p] + 1 \in 0 .. MaxAdds BY <2>1 DEF JobObject
  <2>3. entries' \in [Process -> [JobObject -> 0 .. MaxEntries]]
    BY <1>1, <2>1, EntriesTyped DEF Add, Typed, TypeOK
  <2>4. /\ added' = [added EXCEPT ![p] = added[p] + 1]
        /\ listed' = [listed EXCEPT ![p] = TRUE]
        /\ UNCHANGED <<up, running, closed, cronOn, ends, lock, busy, pc,
                       what, progress>>
    BY <1>1 DEF Add
  <2>5. TypeOK'
    BY <2>2, <2>3, <2>4 DEF Typed, TypeOK, ends, lock, what, progress
  <2>6. Counts'
    BY <2>1, <2>2, <2>4 DEF Typed, TypeOK, Counts, ends, lock, what, progress
  <2> QED BY <2>5, <2>6 DEF Typed
<1>2. CASE Remove(p)
  <2>1. added[p] \in JobObject
    BY <1>2, SchedulerAssumption DEF Remove, Typed, TypeOK, Counts, JobObject
  <2>2. entries' \in [Process -> [JobObject -> 0 .. MaxEntries]]
    BY <1>2, <2>1, EntriesTyped DEF Remove, Typed, TypeOK
  <2> QED BY <1>2, <2>2
          DEF Remove, Typed, TypeOK, Counts, ends, lock, what, progress
<1>3. CASE Start(p)
  <2>1. listed[p] => added[p] \in JobObject
    BY SchedulerAssumption DEF Typed, TypeOK, Counts, JobObject
  <2>2. entries' \in [Process -> [JobObject -> 0 .. MaxEntries]]
    BY <1>3, <2>1, EntriesTyped DEF Start, Typed, TypeOK
  <2> QED BY <1>3, <2>2
          DEF Start, Typed, TypeOK, Counts, ends, lock, what, progress
<1> USE DEF Typed, TypeOK, Counts, api, cron, ends, lock, what, progress
<1>4. CASE Stop(p) BY <1>4 DEF Stop
<1>5. CASE Shutdown(p) BY <1>5 DEF Shutdown
<1>6. CASE ShutdownTimeout(p) BY <1>6 DEF ShutdownTimeout
<1>7. CASE Stopped(p) BY <1>7 DEF Stopped
<1>8. CASE Drained(p) BY <1>8 DEF Drained
<1>9. CASE CronDone(p) BY <1>9 DEF CronDone
<1>10. CASE JobsDone(p) BY <1>10 DEF JobsDone
<1> QED BY <1>1, <1>2, <1>3, <1>4, <1>5, <1>6, <1>7, <1>8, <1>9, <1>10, Zenon
    DEF Interface, Ending

LEMMA ExecuteTyped ==
  ASSUME Typed, NEW t \in Thread, Fire(t) \/ Trigger(t) \/ Execute(t)
  PROVE  Typed'
<1> USE SchedulerAssumption, TTLType, SpanType
    DEF Typed, TypeOK, Counts, Goto, Leave, Started, Granted, Active,
        api, cron, ends, lock, what, progress
<1>1. CASE Fire(t) BY <1>1 DEF Fire, Spawn
<1>2. CASE Trigger(t)
  <2>1. added[Home[t]] \in JobObject BY <1>2 DEF Trigger, JobObject
  <2> QED BY <1>2, <2>1 DEF Trigger, Spawn
<1>3. CASE Begin(t)
  <2>1. busy' \in [Process -> [JobObject -> BOOLEAN]]
    <3>1. CASE UNCHANGED busy BY <3>1
    <3>2. CASE busy' = [busy EXCEPT ![Home[t]][of[t]] = TRUE]
      BY <3>2, SetBusy
    <3> QED BY <1>3, <3>1, <3>2 DEF Begin
  <2>2. pc' \in [Thread -> Started \cup {"idle", "spawned", "dead"}]
    BY <1>3 DEF Begin
  <2>3. pc' = [pc EXCEPT ![t] = pc'[t]]
        /\ pc'[t] \in {"idle", "locking", "hooking"} /\ pc[t] = "spawned"
    BY <1>3 DEF Begin
  <2> QED BY <1>3, <2>1, <2>2, <2>3 DEF Begin
<1>4. CASE LockGranted(t)
  <2>1. /\ owner' = Home[t] /\ left' = TTL /\ Home[t] \in Process
        /\ owner' # Nobody /\ pc[t] = "locking"
    BY <1>4 DEF LockGranted, Key!Acquire
  <2>2. /\ pc' \in [Thread -> Started \cup {"idle", "spawned", "dead"}]
        /\ held' \in [Process -> BOOLEAN]
        /\ pc' = [pc EXCEPT ![t] = pc'[t]]
        /\ pc'[t] \in {"hooking", "finishing"}
    BY <1>4, <2>1 DEF LockGranted
  <2> QED BY <1>4, <2>1, <2>2 DEF LockGranted
<1>5. CASE LockRefused(t) BY <1>5 DEF LockRefused
<1>6. CASE BeforeHooks(t) BY <1>6 DEF BeforeHooks
<1>7. CASE HandlerEnds(t) BY <1>7 DEF HandlerEnds
<1>8. CASE HandlerFails(t) BY <1>8 DEF HandlerFails
<1>9. CASE NextAttempt(t) BY <1>9 DEF NextAttempt
<1>10. CASE Unlock(t) BY <1>10 DEF Unlock
<1>11. CASE Delete(t)
  <2>1. \/ owner' = Nobody /\ left' = 0
        \/ UNCHANGED <<owner, left>>
    BY <1>11 DEF Delete, Key!Release
  <2>2. /\ pc' \in [Thread -> Started \cup {"idle", "spawned", "dead"}]
        /\ held' \in [Process -> BOOLEAN]
        /\ pc' = [pc EXCEPT ![t] = pc'[t]]
        /\ pc'[t] \in {"resending", "finishing"}
    BY <1>11 DEF Delete
  <2> QED BY <1>11, <2>1, <2>2 DEF Delete
<1>12. CASE DeleteFails(t) BY <1>12 DEF DeleteFails
<1>13. CASE Finish(t) BY <1>13 DEF Finish
<1> QED BY <1>1, <1>2, <1>3, <1>4, <1>5, <1>6, <1>7, <1>8, <1>9, <1>10, <1>11,
           <1>12, <1>13, Zenon DEF Execute

LEMMA NextTyped == Typed /\ [Next]_vars => Typed'
<1> SUFFICES ASSUME Typed, [Next]_vars PROVE Typed'
  OBVIOUS
<1> USE DEF api, cron, ends, lock, what, progress
<1>1. CASE UNCHANGED vars BY <1>1 DEF vars, Typed, TypeOK, Counts
<1>2. CASE Tick
  <2>1. \A t \in Thread : pc[t] \in Granted => spent[t] + 1 \in 0 .. Span
    <3> SUFFICES ASSUME NEW t \in Thread, pc[t] \in Granted
                 PROVE  spent[t] + 1 \in 0 .. Span
      OBVIOUS
    <3>1. spent[t] < Due(t) BY <1>2 DEF Tick
    <3>2. spent[t] \in Nat BY SpanType DEF Typed, TypeOK
    <3> QED BY <3>1, <3>2, DueBound, SpanType
  <2>2. spent' \in [Thread -> 0 .. Span]
    BY <1>2, <2>1 DEF Tick, Typed, TypeOK
  <2>3. /\ owner # Nobody /\ left' = left - 1
        /\ owner' = IF left' = 0 THEN Nobody ELSE owner
    BY <1>2 DEF Tick, Key!Elapse
  <2>4. left' \in 0 .. TTL /\ owner' \in Process \cup {Nobody}
        /\ (owner' = Nobody <=> left' = 0)
    BY <2>3, TTLType DEF Typed, TypeOK, Counts
  <2>5. \A t \in Thread :
          pc[t] \in {"idle", "spawned", "locking"} => spent'[t] = 0
    BY <1>2 DEF Tick, Typed, Counts, Granted, Active, TypeOK
  <2> QED BY <1>2, <2>2, <2>4, <2>5 DEF Tick, Typed, TypeOK, Counts
<1>3. ASSUME NEW p \in Process, Crash(p) PROVE Typed'
  BY <1>3, SchedulerAssumption DEF Crash, Typed, TypeOK, Counts, JobObject
<1>4. ASSUME NEW p \in Process, Interface(p) \/ Ending(p) PROVE Typed'
  BY <1>4, InterfaceTyped
<1>5. ASSUME NEW t \in Thread, Fire(t) \/ Trigger(t) \/ Execute(t) PROVE Typed'
  BY <1>5, ExecuteTyped
<1>6. Managed \subseteq Process BY SchedulerAssumption
<1> QED BY <1>1, <1>2, <1>3, <1>4, <1>5, <1>6 DEF Next

-----------------------------------------------------------------------------
(* One goroutine for a Job object.                                         *)

\* What is known of a Job object is about its flag and who executes it.
LEMMA AloneFrame ==
  ASSUME NEW p \in Process, NEW j \in JobObject, Alone(p, j),
         busy'[p][j] = busy[p][j],
         \A t \in Thread : Executes(t, p, j)' <=> Executes(t, p, j)
  PROVE  Alone(p, j)'
BY DEF Alone

\* A goroutine that is past tryStart, and stays short of finish.
Works(t) ==
  \/ LockGranted(t) \/ LockRefused(t) \/ BeforeHooks(t) \/ HandlerEnds(t)
  \/ HandlerFails(t) \/ NextAttempt(t) \/ Unlock(t) \/ Delete(t)
  \/ DeleteFails(t)

LEMMA WorksStarted ==
  ASSUME TypeOK, NEW t \in Thread, Works(t)
  PROVE  /\ pc[t] \in Started /\ pc'[t] \in Started
         /\ \A s \in Thread \ {t} : pc'[s] = pc[s]
         /\ UNCHANGED <<api, cron, ends, busy, what>>
BY DEF TypeOK, Goto, Leave, Started, Granted, Active, Works, LockGranted,
       LockRefused, BeforeHooks, HandlerEnds, HandlerFails, NextAttempt, Unlock,
       Delete, DeleteFails

\* Begin takes a Job object that nobody executes.
LEMMA BeginAlone ==
  ASSUME Typed, Singleton, NEW t \in Thread, Begin(t),
         NEW p \in Process, NEW j \in JobObject, Alone(p, j)
  PROVE  Alone(p, j)'
<1>1. /\ pc[t] = "spawned" /\ UNCHANGED <<of, via>>
      /\ \A s \in Thread \ {t} : pc'[s] = pc[s]
      /\ Home[t] \in Process /\ of[t] \in JobObject
  BY SchedulerAssumption DEF Begin, Goto, Typed, TypeOK, what
<1>2. \A s \in Thread \ {t} : Executes(s, p, j)' <=> Executes(s, p, j)
  BY <1>1 DEF Executes
<1>3. ~ Executes(t, p, j) BY <1>1 DEF Executes, Started, Granted, Active
<1>4. CASE busy[Home[t]][of[t]]
  <2>1. pc'[t] = "idle" /\ UNCHANGED busy
    BY <1>4 DEF Begin, Goto, Typed, TypeOK
  <2>2. ~ Executes(t, p, j)' BY <2>1 DEF Executes, Started, Granted, Active
  <2> QED BY <1>2, <1>3, <2>1, <2>2, AloneFrame
<1>5. CASE ~ busy[Home[t]][of[t]]
  <2>1. /\ pc'[t] \in {"locking", "hooking"}
        /\ busy' = [busy EXCEPT ![Home[t]][of[t]] = TRUE]
    BY <1>5 DEF Begin, Goto, Typed, TypeOK
  <2>2. pc'[t] \in Started BY <2>1 DEF Started, Granted
  <2>3. CASE p = Home[t] /\ j = of[t]
    <3>1. Executes(t, p, j)' BY <1>1, <2>2, <2>3 DEF Executes
    <3>2. busy'[p][j] BY <1>1, <2>1, <2>3 DEF Typed, TypeOK
    <3>3. \A s \in Thread : ~ Executes(s, p, j) BY <1>5, <2>3 DEF Alone
    <3>4. \A s \in Thread \ {t} : ~ Executes(s, p, j)' BY <1>2, <3>3
    <3> QED BY <3>1, <3>2, <3>4 DEF Alone
  <2>4. CASE ~ (p = Home[t] /\ j = of[t])
    <3>1. ~ Executes(t, p, j)' BY <1>1, <2>4 DEF Executes
    <3>2. busy'[p][j] = busy[p][j] BY <1>1, <2>1, <2>4 DEF Typed, TypeOK
    <3> QED BY <1>2, <1>3, <3>1, <3>2, AloneFrame
  <2> QED BY <2>3, <2>4
<1> QED BY <1>4, <1>5

\* Finish sets it free when the one that executes it is done.
LEMMA FinishAlone ==
  ASSUME Typed, Singleton, NEW t \in Thread, Finish(t),
         NEW p \in Process, NEW j \in JobObject, Alone(p, j)
  PROVE  Alone(p, j)'
<1>1. /\ pc[t] = "finishing" /\ pc'[t] = "idle" /\ UNCHANGED <<of, via>>
      /\ \A s \in Thread \ {t} : pc'[s] = pc[s]
      /\ Home[t] \in Process /\ of[t] \in JobObject
      /\ busy' = [busy EXCEPT ![Home[t]][of[t]] = FALSE]
  BY SchedulerAssumption DEF Finish, Goto, Typed, TypeOK, what
<1>2. \A s \in Thread \ {t} : Executes(s, p, j)' <=> Executes(s, p, j)
  BY <1>1 DEF Executes
<1>3. ~ Executes(t, p, j)' BY <1>1 DEF Executes, Started, Granted, Active
<1>4. CASE p = Home[t] /\ j = of[t]
  <2>1. Executes(t, p, j) BY <1>1, <1>4 DEF Executes, Started
  <2>2. \A s \in Thread : Executes(s, p, j) => s = t BY <2>1 DEF Alone
  <2>3. \A s \in Thread : ~ Executes(s, p, j)' BY <1>2, <1>3, <2>2
  <2>4. ~ busy'[p][j] BY <1>1, <1>4 DEF Typed, TypeOK
  <2> QED BY <2>3, <2>4 DEF Alone
<1>5. CASE ~ (p = Home[t] /\ j = of[t])
  <2>1. ~ Executes(t, p, j) BY <1>1, <1>5 DEF Executes
  <2>2. busy'[p][j] = busy[p][j] BY <1>1, <1>5 DEF Typed, TypeOK
  <2> QED BY <1>2, <1>3, <2>1, <2>2, AloneFrame
<1> QED BY <1>4, <1>5

LEMMA CrashAlone ==
  ASSUME Typed, NEW q \in Process, Crash(q),
         NEW p \in Process, NEW j \in JobObject, Alone(p, j)
  PROVE  Alone(p, j)'
<1>1. /\ UNCHANGED of
      /\ busy' = [busy EXCEPT ![q] = [i \in JobObject |-> FALSE]]
      /\ pc' = [t \in Thread |-> IF Home[t] = q THEN "dead" ELSE pc[t]]
  BY DEF Crash, what
<1>2. CASE p = q
  <2>1. \A t \in Thread : ~ Executes(t, p, j)'
    BY <1>1, <1>2 DEF Executes, Started, Granted, Active
  <2>2. ~ busy'[p][j] BY <1>1, <1>2 DEF Typed, TypeOK
  <2> QED BY <2>1, <2>2 DEF Alone
<1>3. CASE p # q
  <2>1. \A t \in Thread : Executes(t, p, j)' <=> Executes(t, p, j)
    BY <1>1, <1>3 DEF Executes
  <2>2. busy'[p][j] = busy[p][j] BY <1>1, <1>3 DEF Typed, TypeOK
  <2> QED BY <2>1, <2>2, AloneFrame
<1> QED BY <1>2, <1>3

\* The scheduler's own operations, and the clock, leave the goroutines alone.
LEMMA InterfaceLeaves ==
  ASSUME NEW p \in Process, Interface(p) \/ Ending(p)
  PROVE  UNCHANGED <<busy, pc, of, via, owner, left, spent>>
BY DEF Interface, Ending, Add, Remove, Start, Stop, Stopped, Shutdown, Drained,
       CronDone, JobsDone, ShutdownTimeout, lock, what, progress

\* A goroutine is spawned where none was at work.
LEMMA SpawnLeaves ==
  ASSUME TypeOK, NEW t \in Thread, Fire(t) \/ Trigger(t)
  PROVE  /\ pc[t] = "idle" /\ pc'[t] = "spawned"
         /\ \A s \in Thread \ {t} :
              pc'[s] = pc[s] /\ of'[s] = of[s] /\ via'[s] = via[s]
         /\ UNCHANGED <<api, cron, ends, lock, busy, progress>>
BY DEF Fire, Trigger, Spawn, Goto, TypeOK

LEMMA NextAlone ==
  ASSUME Typed, Singleton, [Next]_vars,
         NEW p \in Process, NEW j \in JobObject, Alone(p, j)
  PROVE  Alone(p, j)'
<1>1. ASSUME UNCHANGED <<busy, pc, of>> PROVE Alone(p, j)'
  BY <1>1, AloneFrame DEF Executes
<1>2. CASE UNCHANGED vars \/ Tick
  BY <1>1, <1>2 DEF vars, what, Tick
<1>3. ASSUME NEW q \in Process, Interface(q) \/ Ending(q) PROVE Alone(p, j)'
  BY <1>1, <1>3, InterfaceLeaves
<1>4. ASSUME NEW q \in Process, Crash(q) PROVE Alone(p, j)'
  BY <1>4, CrashAlone
<1>5. ASSUME NEW t \in Thread, Fire(t) \/ Trigger(t) PROVE Alone(p, j)'
  <2>1. \A s \in Thread : Executes(s, p, j)' <=> Executes(s, p, j)
    <3>1. \A s \in Thread \ {t} : Executes(s, p, j)' <=> Executes(s, p, j)
      BY <1>5, SpawnLeaves DEF Typed, Executes
    <3>2. ~ Executes(t, p, j) /\ ~ Executes(t, p, j)'
      BY <1>5, SpawnLeaves DEF Typed, Executes, Started, Granted, Active
    <3> QED BY <3>1, <3>2
  <2>2. UNCHANGED busy BY <1>5, SpawnLeaves DEF Typed
  <2> QED BY <2>1, <2>2, AloneFrame
<1>6. ASSUME NEW t \in Thread, Works(t) PROVE Alone(p, j)'
  <2>1. \A s \in Thread : Executes(s, p, j)' <=> Executes(s, p, j)
    BY <1>6, WorksStarted DEF Typed, Executes, what
  <2>2. UNCHANGED busy BY <1>6, WorksStarted DEF Typed
  <2> QED BY <2>1, <2>2, AloneFrame
<1>7. ASSUME NEW t \in Thread, Execute(t) PROVE Alone(p, j)'
  BY <1>6, <1>7, BeginAlone, FinishAlone DEF Execute, Works
<1>8. Managed \subseteq Process BY SchedulerAssumption
<1> QED BY <1>2, <1>3, <1>4, <1>5, <1>7, <1>8 DEF Next

-----------------------------------------------------------------------------
(* A scheduler that does not run is quiet.                                 *)

Flags(p) == <<running[p], cronOn[p], stopping[p], closed[p], quit[p]>>

\* No goroutine of cron's comes but by Fire.
LEMMA NoneFiredKept ==
  ASSUME TypeOK, NEW p \in Process, NoneFired(p), [Next]_vars,
         \A t \in Thread : Home[t] = p => ~ Fire(t)
  PROVE  NoneFired(p)'
<1> DEFINE Mine(t) == Home[t] = p /\ pc[t] \in Started \cup {"spawned"}
<1>1. ASSUME UNCHANGED via, \A t \in Thread : Mine(t)' => Mine(t)
      PROVE  NoneFired(p)'
  BY <1>1 DEF NoneFired
<1>2. CASE UNCHANGED vars \/ Tick
  BY <1>1, <1>2 DEF vars, what, Tick
<1>3. ASSUME NEW q \in Process, Interface(q) \/ Ending(q) PROVE NoneFired(p)'
  BY <1>1, <1>3, InterfaceLeaves
<1>4. ASSUME NEW q \in Process, Crash(q) PROVE NoneFired(p)'
  <2>1. \A t \in Thread : Mine(t)' => Mine(t)
    BY <1>4 DEF Crash, Started, Granted, Active
  <2> QED BY <1>1, <1>4, <2>1 DEF Crash, what
<1>5. ASSUME NEW t \in Thread, Fire(t) \/ Trigger(t) PROVE NoneFired(p)'
  <2>1. Home[t] = p => via'[t] = "trigger"
    BY <1>5 DEF Trigger, Spawn, TypeOK
  <2>2. \A s \in Thread \ {t} : Mine(s)' = Mine(s) /\ via'[s] = via[s]
    BY <1>5, SpawnLeaves
  <2> QED BY <2>1, <2>2 DEF NoneFired
<1>6. ASSUME NEW t \in Thread, Execute(t) PROVE NoneFired(p)'
  <2>1. CASE Works(t) BY <1>1, <2>1, WorksStarted DEF what
  <2>2. CASE Begin(t)
    BY <1>1, <2>2 DEF Begin, Goto, TypeOK, what
  <2>3. CASE Finish(t)
    BY <1>1, <2>3 DEF Finish, Goto, TypeOK, what, Started
  <2> QED BY <1>6, <2>1, <2>2, <2>3 DEF Execute, Works
<1>7. Managed \subseteq Process BY SchedulerAssumption
<1> QED BY <1>2, <1>3, <1>4, <1>5, <1>6, <1>7 DEF Next

LEMMA FiredEmpty ==
  ASSUME NEW p \in Process PROVE Fired(p) = {} <=> NoneFired(p)
BY DEF Fired, At, NoneFired

\* What an operation of another process's scheduler, or a goroutine, does not
\* write.
LEMMA FlagsKept ==
  ASSUME TypeOK, [Next]_vars, NEW p \in Process,
         ~ Interface(p), ~ Ending(p), ~ Crash(p)
  PROVE  UNCHANGED Flags(p)
<1> USE DEF Flags, TypeOK, api, cron, ends
<1>1. CASE UNCHANGED vars \/ Tick BY <1>1 DEF vars, Tick
<1>2. ASSUME NEW q \in Process \ {p}, Interface(q) PROVE UNCHANGED Flags(p)
  BY <1>2 DEF Interface, Add, Remove, Start, Stop, Shutdown, ShutdownTimeout
<1>3. ASSUME NEW q \in Process \ {p}, Ending(q) PROVE UNCHANGED Flags(p)
  BY <1>3 DEF Ending, Stopped, Drained, CronDone, JobsDone
<1>4. ASSUME NEW q \in Process \ {p}, Crash(q) PROVE UNCHANGED Flags(p)
  BY <1>4 DEF Crash
<1>5. ASSUME NEW t \in Thread, Fire(t) \/ Trigger(t) \/ Execute(t)
      PROVE  UNCHANGED Flags(p)
  BY <1>5, SpawnLeaves, WorksStarted DEF Execute, Works, Begin, Finish
<1>6. Managed \subseteq Process BY SchedulerAssumption
<1> QED BY <1>1, <1>2, <1>3, <1>4, <1>5, <1>6 DEF Next

LEMMA NextQuiet ==
  ASSUME TypeOK, [Next]_vars, NEW p \in Process, Quiet(p)
  PROVE  Quiet(p)'
<1>1. CASE Interface(p) \/ Ending(p)
  <2>1. NoneFired(p)' <=> NoneFired(p)
    BY <1>1, InterfaceLeaves DEF NoneFired
  <2> USE <2>1, FiredEmpty DEF Quiet, TypeOK, api, cron, ends
  <2> HIDE DEF NoneFired
  <2>2. CASE Add(p) BY <2>2 DEF Add
  <2>3. CASE Remove(p) BY <2>3 DEF Remove
  <2>4. CASE Start(p) BY <2>4 DEF Start
  <2>5. CASE Stop(p) BY <2>5 DEF Stop
  <2>6. CASE Shutdown(p) BY <2>6 DEF Shutdown
  <2>7. CASE ShutdownTimeout(p) BY <2>7 DEF ShutdownTimeout
  <2>8. CASE Stopped(p) BY <2>8 DEF Stopped
  <2>9. CASE Drained(p) BY <2>9 DEF Drained
  <2>10. CASE CronDone(p) BY <2>10 DEF CronDone
  <2>11. CASE JobsDone(p) BY <2>11 DEF JobsDone
  <2> QED BY <1>1, <2>2, <2>3, <2>4, <2>5, <2>6, <2>7, <2>8, <2>9, <2>10, <2>11
          DEF Interface, Ending
<1>2. CASE Crash(p)
  <2>1. NoneFired(p)'
    BY <1>2 DEF Crash, NoneFired, Started, Granted, Active
  <2> QED BY <1>2, <2>1 DEF Crash, Quiet, TypeOK
<1>3. CASE ~ Interface(p) /\ ~ Ending(p) /\ ~ Crash(p)
  <2>1. UNCHANGED Flags(p) BY <1>3, FlagsKept
  <2>2. CASE \A t \in Thread : Home[t] = p => ~ Fire(t)
    <3>1. NoneFired(p) => NoneFired(p)' BY <2>2, NoneFiredKept
    <3> QED BY <2>1, <3>1 DEF Flags, Quiet
  <2>3. CASE \E t \in Thread : Home[t] = p /\ Fire(t)
    <3>1. cronOn[p] BY <2>3 DEF Fire
    <3> QED BY <2>1, <3>1 DEF Flags, Quiet
  <2> QED BY <2>2, <2>3
<1> QED BY <1>1, <1>2, <1>3

-----------------------------------------------------------------------------
(* The job objects there are.                                              *)

LEMMA NextKnown == Typed /\ Known /\ [Next]_vars => Known'
<1> SUFFICES ASSUME Typed, Known, [Next]_vars PROVE Known'
  OBVIOUS
<1>0. /\ Managed \subseteq Process /\ Home \in [Thread -> Process]
      /\ \A p \in Process : added[p] \in Nat
      /\ \A j \in JobObject : j \in Nat
  BY SchedulerAssumption DEF Typed, TypeOK, JobObject
<1>1. ASSUME UNCHANGED entries, UNCHANGED added, UNCHANGED of,
             \A t \in Thread :
               pc'[t] \notin {"idle", "dead"} => pc[t] \notin {"idle", "dead"}
      PROVE  Known'
  BY <1>1 DEF Known
<1>2. CASE UNCHANGED vars \/ Tick
  BY <1>1, <1>2 DEF vars, api, cron, what, Tick
<1>3. ASSUME NEW q \in Process, Interface(q) \/ Ending(q) PROVE Known'
  <2>1. \A p \in Process : added'[p] \in Nat /\ added'[p] >= added[p]
    BY <1>0, <1>3 DEF Interface, Ending, Add, Remove, Start, Stop, Stopped,
       Shutdown, Drained, CronDone, JobsDone, ShutdownTimeout, api, Typed,
       TypeOK
  <2>2. ASSUME NEW p \in Process, NEW j \in JobObject, entries'[p][j] > 0
        PROVE  j <= added'[p]
    <3>1. CASE entries'[p][j] = entries[p][j]
      BY <1>0, <2>1, <2>2, <3>1 DEF Known
    <3>2. CASE Add(q)
      <4>1. CASE p = q /\ j = added[q] + 1
        BY <3>2, <4>1 DEF Add, Typed, TypeOK
      <4>2. CASE ~ (p = q /\ j = added[q] + 1)
        <5>1. entries'[p][j] = entries[p][j]
          BY <3>2, <4>2 DEF Add, Register, Typed, TypeOK
        <5> QED BY <3>1, <5>1
      <4> QED BY <4>1, <4>2
    <3>3. CASE Remove(q)
      <4>1. CASE p = q /\ j = added[q]
        BY <1>0, <2>1, <4>1
      <4>2. CASE ~ (p = q /\ j = added[q])
        <5>1. entries'[p][j] = entries[p][j]
          BY <3>3, <4>2 DEF Remove, Typed, TypeOK
        <5> QED BY <3>1, <5>1
      <4> QED BY <4>1, <4>2
    <3>4. CASE Start(q)
      <4>1. CASE p = q /\ j = added[q]
        BY <1>0, <2>1, <4>1
      <4>2. CASE ~ (p = q /\ j = added[q])
        <5>1. entries'[p][j] = entries[p][j]
          BY <3>4, <4>2 DEF Start, Register, Typed, TypeOK
        <5> QED BY <3>1, <5>1
      <4> QED BY <4>1, <4>2
    <3>5. CASE ~ Add(q) /\ ~ Remove(q) /\ ~ Start(q)
      <4>1. UNCHANGED entries
        BY <1>3, <3>5 DEF Interface, Ending, Stop, Stopped, Shutdown, Drained,
             CronDone, JobsDone, ShutdownTimeout, cron
      <4> QED BY <3>1, <4>1
    <3> QED BY <3>2, <3>3, <3>4, <3>5
  <2>3. UNCHANGED <<pc, of>> BY <1>3, InterfaceLeaves
  <2> QED BY <1>0, <2>1, <2>2, <2>3 DEF Known, Typed, TypeOK
<1>4. ASSUME NEW q \in Process, Crash(q) PROVE Known'
  <2>1. \A p \in Process, j \in JobObject :
          entries'[p][j] > 0 => entries[p][j] > 0
    BY <1>4 DEF Crash, Typed, TypeOK
  <2> QED BY <1>4, <2>1 DEF Crash, Known, what
<1>5. ASSUME NEW t \in Thread, Fire(t) \/ Trigger(t) PROVE Known'
  <2>1. of'[t] <= added[Home[t]]
    BY <1>0, <1>5 DEF Fire, Trigger, Spawn, Known, Typed, TypeOK
  <2> QED BY <1>5, <2>1, SpawnLeaves DEF Known, Typed, api, cron
<1>6. ASSUME NEW t \in Thread, Execute(t) PROVE Known'
  <2>1. CASE Works(t)
    BY <1>1, <2>1, WorksStarted
       DEF Typed, api, cron, what, Started, Granted, Active
  <2>2. CASE Begin(t)
    BY <1>1, <2>2 DEF Begin, Goto, Typed, TypeOK, api, cron, what
  <2>3. CASE Finish(t)
    BY <1>1, <2>3 DEF Finish, Goto, Typed, TypeOK, api, cron, what
  <2> QED BY <1>6, <2>1, <2>2, <2>3 DEF Execute, Works
<1> QED BY <1>0, <1>2, <1>3, <1>4, <1>5, <1>6 DEF Next

-----------------------------------------------------------------------------
(* One run of all the processes.                                           *)

SchedInv == /\ Typed
            /\ Singleton => \A p \in Process, j \in JobObject : Alone(p, j)
            /\ \A p \in Process : Quiet(p)
            /\ Known

\* With one Job object of the name in a process, what executes there is one
\* goroutine.
LEMMA OneHere ==
  ASSUME SchedInv, Singleton, OneEach, NEW s \in Thread, NEW t \in Thread,
         pc[s] \in Started, pc[t] \in Started, Home[s] = Home[t]
  PROVE  s = t
<1>1. Home[s] \in Process /\ Home[t] \in Process
  BY SchedulerAssumption
<1>2. /\ of[s] \in JobObject /\ of[t] \in JobObject
      /\ added[Home[s]] \in Nat /\ added[Home[s]] <= 1
  BY <1>1, SchedulerAssumption DEF SchedInv, Typed, TypeOK, OneEach
<1>3. of[s] <= added[Home[s]] /\ of[t] <= added[Home[s]]
  BY DEF SchedInv, Known, Started, Granted, Active
<1>4. of[s] = 1 /\ of[t] = 1 BY <1>2, <1>3 DEF JobObject
<1>5. Executes(s, Home[s], 1) /\ Executes(t, Home[s], 1)
  BY <1>4 DEF Executes
<1> QED BY <1>1, <1>2, <1>4, <1>5 DEF SchedInv, Alone

\* Job objects are never forgotten.
LEMMA OneEachBefore ==
  ASSUME Typed, [Next]_vars, OneEach'
  PROVE  OneEach
<1>1. \A p \in Process : added[p] \in Nat
  BY SchedulerAssumption DEF Typed, TypeOK
<1>2. \A p \in Process : added'[p] \in Nat /\ added[p] <= added'[p]
  <2>1. CASE UNCHANGED added BY <1>1, <2>1
  <2>2. ASSUME NEW q \in Process, Add(q)
        PROVE  \A p \in Process : added'[p] \in Nat /\ added[p] <= added'[p]
    BY <1>1, <2>2 DEF Add, Typed, TypeOK
  <2>3. CASE \A q \in Process : ~ Add(q)
    <3>1. UNCHANGED added
      BY <2>3, SchedulerAssumption
      DEF Next, vars, Tick, Interface, Ending, Execute, Remove, Start, Stop,
          Stopped, Shutdown, Drained, CronDone, JobsDone, ShutdownTimeout,
          Crash, Fire, Trigger, Spawn, Begin, LockGranted, LockRefused,
          BeforeHooks, HandlerEnds, HandlerFails, NextAttempt, Unlock, Delete,
          DeleteFails, Finish, api
    <3> QED BY <2>1, <3>1
  <2> QED BY <2>2, <2>3
<1> QED BY <1>1, <1>2 DEF OneEach

\* The clock: the lease and the time a run has had move together, and the run
\* is over before the lease is.
LEMMA TickLeased ==
  ASSUME Typed, Span < TTL, \A t \in Thread : Holds(t), Tick,
         NEW t \in Thread
  PROVE  Holds(t)'
<1> SUFFICES ASSUME pc'[t] \in Holding
             PROVE  owner' = Home[t] /\ left' + spent'[t] >= TTL
  BY DEF Holds
<1>1. pc[t] \in Holding /\ pc[t] \in Granted
  BY DEF Tick, Holding, Granted
<1>2. owner = Home[t] /\ left + spent[t] >= TTL BY <1>1 DEF Holds
<1>3. spent[t] < Due(t) /\ spent'[t] = spent[t] + 1
  BY <1>1 DEF Tick, Typed, TypeOK
<1>4. left' = left - 1 /\ owner' = IF left' = 0 THEN Nobody ELSE owner
  BY DEF Tick, Key!Elapse
<1>5. /\ left \in Nat /\ spent[t] \in Nat /\ TTL \in Nat /\ Span \in Nat
      /\ Due(t) \in Nat /\ Due(t) <= Span
  BY TTLType, SpanType, DueBound DEF Typed, TypeOK
<1>6. left' # 0 BY <1>2, <1>3, <1>4, <1>5
<1> QED BY <1>2, <1>3, <1>4, <1>5, <1>6

\* Who takes the key finds it free, so that nobody runs; who gives it back is
\* the only one that executes in its process.
LEMMA ExecuteLeased ==
  ASSUME SchedInv, Singleton, OneEach, \A s \in Thread : Holds(s),
         NEW t \in Thread, Execute(t), NEW s \in Thread
  PROVE  Holds(s)'
<1> SUFFICES ASSUME pc'[s] \in Holding
             PROVE  owner' = Home[s] /\ left' + spent'[s] >= TTL
  BY DEF Holds
<1> USE DEF SchedInv, Typed, TypeOK, Goto, Leave, lock, Holding, Active
<1>0. /\ Distributed /\ Home[s] \in Process /\ Home[t] \in Process
      /\ TTL \in Nat /\ Nobody \notin Process /\ spent[s] \in Nat
  BY SchedulerAssumption, TTLType, SpanType DEF OneEach
<1>1. ASSUME pc[s] \in Holding, UNCHANGED <<owner, left>>, spent'[s] = spent[s]
      PROVE  owner' = Home[s] /\ left' + spent'[s] >= TTL
  BY <1>1 DEF Holds
<1>2. CASE LockGranted(t)
  <2>1. /\ owner = Nobody /\ owner' = Home[t] /\ left' = TTL
        /\ UNCHANGED spent
    BY <1>2 DEF LockGranted, Key!Acquire, progress
  <2>2. pc[s] \notin Holding BY <1>0, <2>1 DEF Holds
  <2>3. s = t BY <1>2, <2>2 DEF LockGranted
  <2> QED BY <1>0, <2>1, <2>3
<1>3. CASE Delete(t)
  <2>1. pc[t] \in {"deleting", "resending"} /\ pc'[t] \notin Holding
    BY <1>3 DEF Delete
  <2>2. s # t /\ pc[s] \in Holding BY <1>3, <2>1 DEF Delete
  <2>3. Home[s] # Home[t]
    BY <2>1, <2>2, OneHere DEF Started, Granted
  <2>4. owner = Home[s] BY <2>2 DEF Holds
  <2>5. UNCHANGED <<owner, left, spent>>
    BY <1>3, <2>3, <2>4 DEF Delete, Key!Release, progress
  <2> QED BY <1>1, <2>2, <2>5
<1>4. CASE Begin(t)
  <2>1. pc'[t] \notin Holding BY <1>0, <1>4 DEF Begin
  <2> QED BY <1>1, <1>4, <2>1 DEF Begin, progress
<1>5. CASE Finish(t)
  <2>1. s # t BY <1>5 DEF Finish
  <2> QED BY <1>1, <1>5, <2>1 DEF Finish, progress
<1>6. CASE LockRefused(t) BY <1>1, <1>6 DEF LockRefused, progress
<1>7. CASE BeforeHooks(t) BY <1>1, <1>7 DEF BeforeHooks, progress
<1>8. CASE HandlerEnds(t) BY <1>1, <1>8 DEF HandlerEnds, progress
<1>9. CASE HandlerFails(t) BY <1>1, <1>9 DEF HandlerFails, progress
<1>10. CASE NextAttempt(t) BY <1>1, <1>10 DEF NextAttempt
<1>11. CASE Unlock(t) BY <1>1, <1>11 DEF Unlock, progress
<1>12. CASE DeleteFails(t) BY <1>1, <1>12 DEF DeleteFails, progress
<1> QED BY <1>2, <1>3, <1>4, <1>5, <1>6, <1>7, <1>8, <1>9, <1>10, <1>11, <1>12
        DEF Execute

LEMMA NextLeased ==
  FitsTTL /\ SchedInv /\ Leased /\ [Next]_vars => Leased'
<1> SUFFICES ASSUME FitsTTL, SchedInv, Leased, [Next]_vars, OneEach',
                    NEW s \in Thread
             PROVE  Holds(s)'
  BY DEF Leased
<1>0. OneEach /\ \A t \in Thread : Holds(t)
  BY OneEachBefore DEF SchedInv, Leased
<1>1. ASSUME UNCHANGED <<owner, left, spent>>,
             pc'[s] \in Holding => pc[s] \in Holding
      PROVE  Holds(s)'
  BY <1>0, <1>1 DEF Holds
<1>2. CASE UNCHANGED vars BY <1>1, <1>2 DEF vars, lock, progress
<1>3. CASE Tick BY <1>0, <1>3, TickLeased DEF SchedInv, FitsTTL
<1>4. ASSUME NEW q \in Process, Interface(q) \/ Ending(q) PROVE Holds(s)'
  BY <1>1, <1>4, InterfaceLeaves
<1>5. ASSUME NEW q \in Process, Crash(q) PROVE Holds(s)'
  BY <1>1, <1>5 DEF Crash, progress, Holding, Active
<1>6. ASSUME NEW t \in Thread, Fire(t) \/ Trigger(t) PROVE Holds(s)'
  <2>1. pc'[s] \in Holding => pc[s] \in Holding
    BY <1>6, SpawnLeaves DEF SchedInv, Typed, Holding, Active
  <2> QED BY <1>1, <1>6, <2>1, SpawnLeaves DEF SchedInv, Typed, lock, progress
<1>7. ASSUME NEW t \in Thread, Execute(t) PROVE Holds(s)'
  BY <1>0, <1>7, ExecuteLeased DEF FitsTTL
<1>8. Managed \subseteq Process BY SchedulerAssumption
<1> QED BY <1>2, <1>3, <1>4, <1>5, <1>6, <1>7, <1>8 DEF Next

-----------------------------------------------------------------------------
(* The theorems.                                                           *)

\* A set without two elements counts at most one.
LEMMA AtMostOne ==
  ASSUME NEW S, \A x, y \in S : x = y
  PROVE  Cardinality(S) <= 1
<1>1. CASE S = {} BY <1>1, FS_EmptySet
<1>2. CASE S # {}
  <2>1. PICK x \in S : TRUE BY <1>2
  <2>2. S = {x} BY <2>1
  <2> QED BY <2>2, FS_Singleton
<1> QED BY <1>1, <1>2

\* Every variable of every operation, goroutine and tick keeps to its values,
\* a run's attempts and its time with the lock to their limits.
THEOREM TypeCorrect == Spec => []Typed
BY InitTyped, NextTyped, PTL DEF Spec

LEMMA InitSched == Init => SchedInv /\ Leased
<1> SUFFICES ASSUME Init PROVE SchedInv /\ Leased
  OBVIOUS
<1>1. \A t \in Thread : pc[t] = "idle" BY DEF Init
<1>2. ASSUME NEW p \in Process, NEW j \in JobObject PROVE Alone(p, j)
  BY <1>1 DEF Init, Alone, Executes, Started, Granted, Active
<1>3. ASSUME NEW p \in Process PROVE Quiet(p)
  <2>1. NoneFired(p) BY <1>1 DEF NoneFired, Started, Granted, Active
  <2>2. ~ stopping[p] /\ ~ closed[p] /\ quit[p] = "no" BY DEF Init
  <2>3. ~ running[p] => ~ cronOn[p] BY DEF Init
  <2> QED BY <2>1, <2>2, <2>3 DEF Quiet
<1>4. \A p \in Process, j \in JobObject : entries[p][j] > 0 => j <= added[p]
  <2> SUFFICES ASSUME NEW p \in Process, NEW j \in JobObject,
                      entries[p][j] > 0
               PROVE  j <= added[p]
    OBVIOUS
  <2>1. entries[p][j] = IF j = 1 /\ p \notin Managed THEN 1 ELSE 0
    BY DEF Init
  <2>2. j = 1 /\ p \notin Managed BY <2>1
  <2> QED BY <2>2 DEF Init
<1>5. Known BY <1>1, <1>4 DEF Known
<1>6. Leased BY <1>1 DEF Leased, Holds, Holding, Active
<1> QED BY <1>2, <1>3, <1>5, <1>6, InitTyped DEF SchedInv

LEMMA NextSched == SchedInv /\ [Next]_vars => SchedInv'
<1> SUFFICES ASSUME SchedInv, [Next]_vars PROVE SchedInv'
  OBVIOUS
<1>1. Typed' BY NextTyped DEF SchedInv
<1>2. Known' BY NextKnown DEF SchedInv
<1>3. ASSUME NEW p \in Process PROVE Quiet(p)'
  BY NextQuiet DEF SchedInv, Typed
<1>4. ASSUME Singleton, NEW p \in Process, NEW j \in JobObject
      PROVE  Alone(p, j)'
  BY <1>4, NextAlone DEF SchedInv
<1> QED BY <1>1, <1>2, <1>3, <1>4 DEF SchedInv

\* A scheduler's invariant, whatever the flags and the times of its job.
THEOREM SchedAlways == Spec => []SchedInv
BY InitSched, NextSched, PTL DEF Spec

LEMMA BusyOne == SchedInv => BusyIsOne
<1> SUFFICES ASSUME SchedInv, Singleton, NEW p \in Process, NEW j \in JobObject
             PROVE  /\ Cardinality({t \in At(p, Started) : of[t] = j}) <= 1
                    /\ busy[p][j] <=> \E t \in At(p, Started) : of[t] = j
  BY DEF BusyIsOne
<1>1. Alone(p, j) BY DEF SchedInv
<1>2. \A t \in Thread : Executes(t, p, j) <=> t \in At(p, Started) /\ of[t] = j
  BY DEF Executes, At
<1>3. \A x, y \in {t \in At(p, Started) : of[t] = j} : x = y
  BY <1>1, <1>2 DEF Alone, At
<1>4. Cardinality({t \in At(p, Started) : of[t] = j}) <= 1
  BY <1>3, AtMostOne
<1>5. busy[p][j] <=> \E t \in At(p, Started) : of[t] = j
  BY <1>1, <1>2 DEF Alone, At
<1> QED BY <1>4, <1>5

\* tryStart and finish: a Singleton's Job object is busy for the one goroutine
\* that executes it, and a scheduler that does not run fires no job and has
\* none of cron's still at work.
THEOREM FlagsAreTrue == Spec => []FlagsTrue
<1>1. SchedInv => StoppedIsQuiet
  BY FiredEmpty DEF SchedInv, Quiet, StoppedIsQuiet
<1>2. SchedInv => FlagsTrue BY <1>1, BusyOne DEF FlagsTrue
<1> QED BY <1>2, SchedAlways, PTL

\* executeJob: the distributed lock keeps the runs of all the processes apart,
\* when the job is a Singleton of one Job object in each process and its
\* retries all fit in the ttl of the lock.
THEOREM RunsAreSingle == Spec => []RunsAreOne
<1>1. FitsTTL /\ SchedInv /\ Leased => OneRun
  <2> SUFFICES ASSUME FitsTTL, SchedInv, Leased, OneEach
               PROVE  Cardinality({t \in Thread : pc[t] \in Active}) <= 1
    BY DEF OneRun, OneEach
  <2>1. ASSUME NEW s \in Thread, NEW t \in Thread,
               pc[s] \in Active, pc[t] \in Active
        PROVE  s = t
    <3>1. owner = Home[s] /\ owner = Home[t]
      BY <2>1 DEF Leased, Holds, Holding
    <3>2. pc[s] \in Started /\ pc[t] \in Started
      BY <2>1 DEF Started, Granted
    <3> QED BY <3>1, <3>2, OneHere DEF FitsTTL
  <2>2. \A x, y \in {t \in Thread : pc[t] \in Active} : x = y BY <2>1
  <2> QED BY <2>2, AtMostOne
<1>2. FitsTTL => (Spec => []Leased)
  <2> SUFFICES ASSUME FitsTTL PROVE Spec => []Leased
    OBVIOUS
  <2>1. Init => Leased BY InitSched
  <2>2. SchedInv /\ Leased /\ [Next]_vars => Leased' BY NextLeased
  <2> QED BY <2>1, <2>2, SchedAlways, PTL DEF Spec
<1>3. CASE FitsTTL
  <2>1. SchedInv /\ Leased => RunsAreOne
    BY <1>1, <1>3, BusyOne DEF RunsAreOne, SchedInv, Typed
  <2>2. Spec => []Leased BY <1>2, <1>3
  <2> QED BY <2>1, <2>2, SchedAlways, PTL
<1>4. CASE ~ FitsTTL
  <2>1. SchedInv => RunsAreOne
    BY <1>4, BusyOne DEF RunsAreOne, SchedInv, Typed
  <2> QED BY <2>1, SchedAlways, PTL
<1> QED BY <1>3, <1>4
=============================================================================
