-------------------------------- MODULE Saga --------------------------------
(***************************************************************************)
(* saga/saga.go: the executions of one Saga object, which its mutex takes  *)
(* one at a time.  An execution runs the steps in order, each with its     *)
(* retries, and after a failure compensates the completed steps in reverse *)
(* order.  Its state is saved to a store at four points and nowhere else;  *)
(* every save is allowed to fail, and uses the execution's own context,    *)
(* which the timeout or the caller may have ended.                         *)
(***************************************************************************)
EXTENDS Integers

CONSTANTS Execution,  \* the calls of Execute
          N,          \* the number of steps
          Bare,       \* the steps without a Compensate function
          RetryCount, \* WithRetry
          Free,       \* the value of an unlocked mutex
          Faults      \* of {"store", "late", "panic", "dirty", "crash"}

Step == 1 .. N

ASSUME SagaAssumption ==
  /\ N \in Nat \ {0}
  /\ Bare \subseteq Step
  /\ RetryCount \in Int
  /\ Free \notin Execution
  /\ Faults \subseteq {"store", "late", "panic", "dirty", "crash"}

VARIABLES mutex,   \* the execution that holds s.mu
          pc,      \* where each execution is
          cur,     \* the step it runs, or the next one to compensate
          attempt, \* the attempt it is at, from 0
          status,  \* state.Status in memory
          results, \* state.StepResults[...].Status in memory
          done,    \* completedSteps
          ctx,     \* its context is not done yet
          effect,  \* what the steps' actions did and nothing has undone
          stored   \* state.Status in the store

vars == <<mutex, pc, cur, attempt, status, results, done, ctx, effect, stored>>

memory == <<cur, attempt, status, results, done>>

-----------------------------------------------------------------------------
SagaStatus == {"pending", "running", "completed", "failed", "compensating",
               "compensated", "compensate_failed"}

IsTerminal == {"completed", "compensated", "compensate_failed"}

StepStatus == {"pending", "running", "completed", "failed", "compensating",
               "compensated", "compensate_failed"}

Over == {"returned", "panicked", "dead"}

TypeOK ==
  /\ mutex \in Execution \cup {Free}
  /\ pc \in [Execution -> Over \cup {"idle", "locking", "starting", "stepping",
                                     "acting", "retrying", "turning", "undoing",
                                     "ending"}]
  /\ cur \in [Execution -> 0 .. N + 1]
  /\ attempt \in [Execution -> Nat]
  /\ status \in [Execution -> SagaStatus]
  /\ results \in [Execution -> [Step -> StepStatus]]
  /\ done \in [Execution -> 0 .. N]
  /\ ctx \in [Execution -> BOOLEAN]
  /\ effect \in [Execution -> [Step -> BOOLEAN]]
  /\ stored \in [Execution -> SagaStatus]

Init ==
  /\ mutex = Free
  /\ pc = [e \in Execution |-> "idle"]
  /\ cur = [e \in Execution |-> 1]
  /\ attempt = [e \in Execution |-> 0]
  /\ status = [e \in Execution |-> "pending"]
  /\ results = [e \in Execution |-> [k \in Step |-> "pending"]]
  /\ done = [e \in Execution |-> 0]
  /\ ctx = [e \in Execution |-> TRUE]
  /\ effect = [e \in Execution |-> [k \in Step |-> FALSE]]
  /\ stored = [e \in Execution |-> "pending"]

Goto(e, s) == pc' = [pc EXCEPT ![e] = s]

\* store.Save: its error is logged.  A context that is done is such an error
\* for Redis, and none for a store that does not look at it.
Save(e, s) ==
  \/ stored' = [stored EXCEPT ![e] = s]
  \/ ("store" \in Faults \/ ~ ctx[e]) /\ UNCHANGED stored

-----------------------------------------------------------------------------
\* Execute is called, and waits for the mutex.
Call(e) ==
  /\ pc[e] = "idle"
  /\ Goto(e, "locking")
  /\ UNCHANGED <<mutex, memory, ctx, effect, stored>>

Lock(e) ==
  /\ pc[e] = "locking"
  /\ mutex = Free
  /\ mutex' = e
  /\ Goto(e, "starting")
  /\ UNCHANGED <<memory, ctx, effect, stored>>

\* The initial state is saved, as running.
Start(e) ==
  /\ pc[e] = "starting"
  /\ status' = [status EXCEPT ![e] = "running"]
  /\ Save(e, "running")
  /\ Goto(e, "stepping")
  /\ UNCHANGED <<mutex, cur, attempt, results, done, ctx, effect>>

\* The timeout is over, or the caller's context is done.
Expire(e) ==
  /\ "late" \in Faults
  /\ pc[e] \notin Over
  /\ ctx[e]
  /\ ctx' = [ctx EXCEPT ![e] = FALSE]
  /\ UNCHANGED <<mutex, pc, memory, effect, stored>>

\* The head of the loop, with a step left: it starts, unless the context is
\* done.  A negative RetryCount leaves executeStepWithRetry's loop empty: it
\* returns nil without a call of the action.
StartStep(e) ==
  /\ pc[e] = "stepping"
  /\ cur[e] <= N
  /\ ctx[e]
  /\ attempt' = [attempt EXCEPT ![e] = 0]
  /\ IF RetryCount >= 0
     THEN /\ results' = [results EXCEPT ![e][cur[e]] = "running"]
          /\ Goto(e, "acting")
          /\ UNCHANGED <<cur, done>>
     ELSE /\ results' = [results EXCEPT ![e][cur[e]] = "completed"]
          /\ done' = [done EXCEPT ![e] = cur[e]]
          /\ cur' = [cur EXCEPT ![e] = cur[e] + 1]
          /\ UNCHANGED pc
  /\ UNCHANGED <<mutex, status, ctx, effect, stored>>

\* The head of the loop with the context done: the saga fails between steps.
StopSteps(e) ==
  /\ pc[e] = "stepping"
  /\ cur[e] <= N
  /\ ~ ctx[e]
  /\ Goto(e, "turning")
  /\ UNCHANGED <<mutex, memory, ctx, effect, stored>>

\* Mutant of ActionOK: the step after this one counts as completed.
ActionOKOffByOne(e) ==
  /\ pc[e] = "acting"
  /\ effect' = [effect EXCEPT ![e][cur[e]] = TRUE]
  /\ results' = [results EXCEPT ![e][cur[e]] = "completed"]
  /\ done' = [done EXCEPT ![e] = cur[e] + 1]
  /\ cur' = [cur EXCEPT ![e] = cur[e] + 1]
  /\ Goto(e, "stepping")
  /\ UNCHANGED <<mutex, attempt, status, ctx, stored>>

\* The action succeeds.
ActionOK(e) ==
  /\ pc[e] = "acting"
  /\ effect' = [effect EXCEPT ![e][cur[e]] = TRUE]
  /\ results' = [results EXCEPT ![e][cur[e]] = "completed"]
  /\ done' = [done EXCEPT ![e] = cur[e]]
  /\ cur' = [cur EXCEPT ![e] = cur[e] + 1]
  /\ Goto(e, "stepping")
  /\ UNCHANGED <<mutex, attempt, status, ctx, stored>>

\* The step has failed for good.
StepFailed(e) ==
  /\ results' = [results EXCEPT ![e][cur[e]] = "failed"]
  /\ Goto(e, "turning")

\* The action fails: another attempt, or none left.  A "dirty" failure comes
\* after the effect, as a call does whose answer is lost.
ActionFails(e) ==
  /\ pc[e] = "acting"
  /\ IF attempt[e] < RetryCount THEN Goto(e, "retrying") /\ UNCHANGED results
                                ELSE StepFailed(e)
  /\ \/ UNCHANGED effect
     \/ "dirty" \in Faults /\ effect' = [effect EXCEPT ![e][cur[e]] = TRUE]
  /\ UNCHANGED <<mutex, cur, attempt, status, done, ctx, stored>>

\* retryDelay is over: the next attempt.
Retry(e) ==
  /\ pc[e] = "retrying"
  /\ attempt' = [attempt EXCEPT ![e] = attempt[e] + 1]
  /\ Goto(e, "acting")
  /\ UNCHANGED <<mutex, cur, status, results, done, ctx, effect, stored>>

\* The context is done during the delay: no further attempt.
GiveUp(e) ==
  /\ pc[e] = "retrying"
  /\ ~ ctx[e]
  /\ StepFailed(e)
  /\ UNCHANGED <<mutex, cur, attempt, status, done, ctx, effect, stored>>

\* All steps are completed.
Succeed(e) ==
  /\ pc[e] = "stepping"
  /\ cur[e] = N + 1
  /\ status' = [status EXCEPT ![e] = "completed"]
  /\ Goto(e, "ending")
  /\ UNCHANGED <<mutex, cur, attempt, results, done, ctx, effect, stored>>

-----------------------------------------------------------------------------
\* Mutant of Turn: the loop misses the last completed step.
TurnOffByOne(e) ==
  /\ pc[e] = "turning"
  /\ status' = [status EXCEPT ![e] = "compensating"]
  /\ Save(e, "compensating")
  /\ cur' = [cur EXCEPT ![e] = IF done[e] > 0 THEN done[e] - 1 ELSE 0]
  /\ Goto(e, "undoing")
  /\ UNCHANGED <<mutex, attempt, results, done, ctx, effect>>

\* Mutant of Turn: the status to come is saved.
TurnEarly(e) ==
  /\ pc[e] = "turning"
  /\ status' = [status EXCEPT ![e] = "compensating"]
  /\ Save(e, "compensated")
  /\ cur' = [cur EXCEPT ![e] = done[e]]
  /\ Goto(e, "undoing")
  /\ UNCHANGED <<mutex, attempt, results, done, ctx, effect>>

\* The state is saved as compensating; the loop starts at the last completed
\* step, so that a step that failed is not compensated.
Turn(e) ==
  /\ pc[e] = "turning"
  /\ status' = [status EXCEPT ![e] = "compensating"]
  /\ Save(e, "compensating")
  /\ cur' = [cur EXCEPT ![e] = done[e]]
  /\ Goto(e, "undoing")
  /\ UNCHANGED <<mutex, attempt, results, done, ctx, effect>>

\* Mutant of Compensate: the first step is compensated first.
CompensateForward(e) ==
  /\ pc[e] = "undoing"
  /\ cur[e] > 0
  /\ LET k == done[e] - cur[e] + 1
     IN  /\ results' = [results EXCEPT ![e][k] = "compensated"]
         /\ effect' = [effect EXCEPT ![e][k] = (k \in Bare) /\ @]
  /\ cur' = [cur EXCEPT ![e] = cur[e] - 1]
  /\ UNCHANGED <<mutex, pc, attempt, status, done, ctx, stored>>

\* The next step back: nothing to call, or Compensate succeeds.
Compensate(e) ==
  /\ pc[e] = "undoing"
  /\ cur[e] > 0
  /\ results' = [results EXCEPT ![e][cur[e]] = "compensated"]
  /\ IF cur[e] \in Bare THEN UNCHANGED effect
                        ELSE effect' = [effect EXCEPT ![e][cur[e]] = FALSE]
  /\ cur' = [cur EXCEPT ![e] = cur[e] - 1]
  /\ UNCHANGED <<mutex, pc, attempt, status, done, ctx, stored>>

\* Mutant of CompensateFails: the failure is not recorded.
CompensateFailsUnseen(e) ==
  /\ pc[e] = "undoing"
  /\ cur[e] > 0
  /\ cur[e] \notin Bare
  /\ results' = [results EXCEPT ![e][cur[e]] = "compensated"]
  /\ cur' = [cur EXCEPT ![e] = cur[e] - 1]
  /\ UNCHANGED <<mutex, pc, attempt, status, done, ctx, effect, stored>>

\* Compensate fails, once: it is not tried again, and the loop goes on.
CompensateFails(e) ==
  /\ pc[e] = "undoing"
  /\ cur[e] > 0
  /\ cur[e] \notin Bare
  /\ results' = [results EXCEPT ![e][cur[e]] = "compensate_failed"]
  /\ cur' = [cur EXCEPT ![e] = cur[e] - 1]
  /\ UNCHANGED <<mutex, pc, attempt, status, done, ctx, effect, stored>>

\* The loop is over; one failed compensation makes the saga's status.
Undone(e) ==
  /\ pc[e] = "undoing"
  /\ cur[e] = 0
  /\ status' = [status EXCEPT ![e] =
       IF \E k \in Step : results[e][k] = "compensate_failed"
       THEN "compensate_failed" ELSE "compensated"]
  /\ Goto(e, "ending")
  /\ UNCHANGED <<mutex, cur, attempt, results, done, ctx, effect, stored>>

\* The final state is saved, and the deferred Unlock lets the next one in.
Return(e) ==
  /\ pc[e] = "ending"
  /\ Save(e, status[e])
  /\ mutex' = Free
  /\ Goto(e, "returned")
  /\ UNCHANGED <<memory, ctx, effect>>

\* Mutant of Panic: the mutex is not released on the way out.
PanicLocked(e) ==
  /\ "panic" \in Faults
  /\ pc[e] = "acting"
  /\ Goto(e, "panicked")
  /\ UNCHANGED <<mutex, memory, ctx, effect, stored>>

\* An action or a Compensate function panics: the deferred Unlock is all that
\* runs on the way out.
Panic(e) ==
  /\ "panic" \in Faults
  /\ \/ pc[e] = "acting" /\ UNCHANGED results
     \/ /\ pc[e] = "undoing" /\ cur[e] \in Step \ Bare
        /\ results' = [results EXCEPT ![e][cur[e]] = "compensating"]
  /\ mutex' = Free
  /\ Goto(e, "panicked")
  /\ UNCHANGED <<cur, attempt, status, done, ctx, effect, stored>>

\* The process dies; nothing reads the store when it is back.
Crash ==
  /\ "crash" \in Faults
  /\ \E e \in Execution : pc[e] \notin Over
  /\ pc' = [e \in Execution |-> IF pc[e] \in Over THEN pc[e] ELSE "dead"]
  /\ mutex' = Free
  /\ UNCHANGED <<memory, ctx, effect, stored>>

Forward(e) ==
  \/ Lock(e) \/ Start(e) \/ StartStep(e) \/ StopSteps(e) \/ ActionOK(e)
  \/ ActionFails(e) \/ Retry(e) \/ GiveUp(e) \/ Succeed(e)

Backward(e) ==
  Turn(e) \/ Compensate(e) \/ CompensateFails(e) \/ Undone(e) \/ Return(e)

Next ==
  \/ Crash
  \/ \E e \in Execution :
       Call(e) \/ Expire(e) \/ Forward(e) \/ Backward(e) \/ Panic(e)

Spec == Init /\ [][Next]_vars

\* Actions, compensations and saves end, and a free mutex goes to a waiter.
LiveSpec ==
  /\ Spec
  /\ \A e \in Execution : WF_vars(Forward(e)) /\ WF_vars(Backward(e))

-----------------------------------------------------------------------------
(* Properties.                                                             *)

\* saga.go: "compensation guarantees eventual consistency".  What an execution
\* returns is what it did: all of its steps, or nothing that could be undone,
\* whatever failed, expired or was retried on the way.  The step that failed
\* is not compensated: what a dirty failure of its action did stays.
AllOrNothing ==
  \A e \in Execution :
    pc[e] = "returned" =>
      /\ status[e] = "completed" => \A k \in Step : effect[e][k]
      /\ status[e] = "compensated" =>
           \A k \in Step \ Bare : effect[e][k] => results[e][k] = "failed"

\* An effect that stays behind without the saga having completed is known: its
\* step is the one that failed, or says that its compensation failed, and then
\* the saga says so too.
NoSilentEffect ==
  \A e \in Execution :
    pc[e] = "returned" /\ status[e] # "completed" =>
      \A k \in Step \ Bare :
        effect[e][k] =>
          \/ results[e][k] = "failed"
          \/ results[e][k] = status[e] /\ status[e] = "compensate_failed"

\* step.go: "in reverse order".  While a step is compensated, none of the steps
\* after it stands: each was undone or has failed to be.
ReverseOrder ==
  \A e \in Execution : \A j, k \in Step :
    j < k /\ results[e][j] \in {"compensating", "compensated", "compensate_failed"}
      => results[e][k] # "completed"

\* The store is never ahead of the execution: a terminal status in it is the
\* one the execution returned.
StoredIsTrue ==
  \A e \in Execution :
    stored[e] \in IsTerminal => pc[e] = "returned" /\ status[e] = stored[e]

\* Steps have the status, the attempts and the order the code can give them.
StepsSound == TypeOK /\ ReverseOrder

\* What an execution says, in its result and in the store, is what is so.
SagaHonest == NoSilentEffect /\ StoredIsTrue

\* An execution ends: neither the retries nor the mutex hold it for ever.
Ends == \A e \in Execution : pc[e] = "locking" ~> pc[e] \in Over
=============================================================================
