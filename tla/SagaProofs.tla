------------------------------ MODULE SagaProofs ------------------------------
(* Theorems about Saga, for any executions, steps and faults.              *)
EXTENDS Saga, TLAPS

-----------------------------------------------------------------------------
(* The inductive invariant: what is known of an execution's steps, by the  *)
(* place the execution is at.                                              *)

\* A step nothing has been done about.
Untouched(e, k) == results[e][k] = "pending" /\ ~ effect[e][k]

\* A step that counts as completed: its action ran, unless the loop of the
\* attempts was empty.
Stands(e, k) ==
  results[e][k] = "completed" /\ (RetryCount >= 0 => effect[e][k])

\* A step that was not completed: an effect of it is one of a failed action.
NeverStood(e, k) ==
  /\ results[e][k] \in {"pending", "failed"}
  /\ effect[e][k] => results[e][k] = "failed"

\* A step the compensation came by.
Settled(e, k) ==
  \/ results[e][k] = "compensated" /\ (k \in Bare \/ ~ effect[e][k])
  \/ results[e][k] = "compensate_failed"

\* Where the execution is among its steps.
InPlace(e) ==
  /\ pc[e] \notin Over \cup {"undoing", "ending"} =>
       cur[e] \in 1 .. N + 1 /\ done[e] = cur[e] - 1
  /\ pc[e] \in {"acting", "retrying", "turning"} => cur[e] <= N
  /\ pc[e] \in {"acting", "retrying"} => RetryCount >= 0
  /\ pc[e] = "undoing" => cur[e] <= done[e]

\* Up to the turn: the steps before cur stand, those after it are untouched.
GoingForward(e) ==
  /\ \A k \in Step : k < cur[e] => Stands(e, k)
  /\ \A k \in Step : k > cur[e] => Untouched(e, k)
  /\ pc[e] \in {"acting", "retrying"} => results[e][cur[e]] = "running"
  /\ pc[e] = "turning" => NeverStood(e, cur[e])
  /\ pc[e] \in {"idle", "locking", "starting", "stepping"} /\ cur[e] <= N =>
       Untouched(e, cur[e])

\* From the turn on: the steps up to cur stand, the later ones do not.
GoingBack(e) ==
  \A k \in Step :
    /\ k <= cur[e] => Stands(e, k)
    /\ cur[e] < k /\ k <= done[e] => Settled(e, k)
    /\ k > done[e] => NeverStood(e, k)

\* At the end: everything stands, or nothing that could be undone, or the
\* saga's status says so.
AtEnd(e) ==
  /\ status[e] \in IsTerminal
  /\ status[e] = "completed" => \A k \in Step : Stands(e, k)
  /\ status[e] # "completed" =>
       \A k \in Step : NeverStood(e, k) \/ Settled(e, k)
  /\ status[e] = "compensated" =>
       \A k \in Step : results[e][k] # "compensate_failed"

Ordered(e) ==
  \A j, k \in Step :
    /\ j < k
    /\ results[e][j] \in {"compensating", "compensated", "compensate_failed"}
    => results[e][k] # "completed"

Faithful(e) ==
  /\ pc[e] \notin Over \cup {"undoing", "ending"} => GoingForward(e)
  /\ pc[e] = "undoing" => GoingBack(e)
  /\ pc[e] \in {"ending", "returned"} => AtEnd(e)
  /\ pc[e] \in {"panicked", "dead"} => Ordered(e)

SagaInv == /\ TypeOK
           /\ \A e \in Execution : InPlace(e)
           /\ \A e \in Execution : Faithful(e)

-----------------------------------------------------------------------------
(* Typing.                                                                 *)

LEMMA InitTyped == Init => TypeOK
BY SagaAssumption DEF Init, TypeOK, Step, Over, SagaStatus, StepStatus

\* One step's status, or its effect, is written.
LEMMA SetResult ==
  ASSUME results \in [Execution -> [Step -> StepStatus]],
         NEW e \in Execution, NEW k \in Step, NEW s \in StepStatus
  PROVE  [results EXCEPT ![e][k] = s] \in [Execution -> [Step -> StepStatus]]
OBVIOUS

LEMMA SetEffect ==
  ASSUME effect \in [Execution -> [Step -> BOOLEAN]],
         NEW e \in Execution, NEW k \in Step, NEW b \in BOOLEAN
  PROVE  [effect EXCEPT ![e][k] = b] \in [Execution -> [Step -> BOOLEAN]]
OBVIOUS

\* The step an execution is at is one of its steps when it acts or undoes.
LEMMA InRange ==
  ASSUME TypeOK, NEW e \in Execution, InPlace(e)
  PROVE  /\ pc[e] = "stepping" /\ cur[e] <= N => cur[e] \in Step
         /\ pc[e] \in {"acting", "retrying"} => cur[e] \in Step
         /\ pc[e] = "undoing" /\ cur[e] > 0 => cur[e] \in Step
         /\ cur[e] \in Step => /\ cur[e] \in 0 .. N
                               /\ cur[e] + 1 \in 0 .. N + 1
                               /\ cur[e] - 1 \in 0 .. N + 1
BY SagaAssumption DEF InPlace, TypeOK, Over, Step

\* The steps' number stays in its range because an execution that acts has a
\* step left, and one that turns back has completed only steps there are.
LEMMA NextTyped ==
  TypeOK /\ (\A e \in Execution : InPlace(e)) /\ [Next]_vars => TypeOK'
<1> SUFFICES ASSUME TypeOK, \A e \in Execution : InPlace(e), [Next]_vars
             PROVE  TypeOK'
  OBVIOUS
<1> USE SagaAssumption DEF TypeOK, Step, Over, SagaStatus, Goto, Save, memory
<1>1. CASE UNCHANGED vars BY <1>1 DEF vars
<1>2. CASE Crash BY <1>2 DEF Crash
<1>3. ASSUME NEW e \in Execution, Call(e) PROVE TypeOK' BY <1>3 DEF Call
<1>4. ASSUME NEW e \in Execution, Expire(e) PROVE TypeOK' BY <1>4 DEF Expire
<1>5. ASSUME NEW e \in Execution, Forward(e) PROVE TypeOK'
  <2>0. {"running", "completed", "failed"} \subseteq StepStatus
    BY DEF StepStatus
  <2>1. CASE Lock(e) BY <2>1 DEF Lock
  <2>2. CASE Start(e) BY <2>2 DEF Start
  <2>3. CASE StartStep(e)
    <3>k. cur[e] \in Step BY <2>3, InRange DEF StartStep
    <3>1. CASE RetryCount >= 0
      <4>0. results' = [results EXCEPT ![e][cur[e]] = "running"]
        BY <2>3, <3>1 DEF StartStep
      <4>1. results' \in [Execution -> [Step -> StepStatus]]
        BY <2>0, <3>k, <4>0, SetResult
      <4> QED BY <2>3, <3>1, <4>1 DEF StartStep
    <3>2. CASE ~ (RetryCount >= 0)
      <4>0. results' = [results EXCEPT ![e][cur[e]] = "completed"]
        BY <2>3, <3>2 DEF StartStep
      <4>1. results' \in [Execution -> [Step -> StepStatus]]
        BY <2>0, <3>k, <4>0, SetResult
      <4>2. cur[e] \in 0 .. N /\ cur[e] + 1 \in 0 .. N + 1 BY <3>k, InRange
      <4>3. /\ done' = [done EXCEPT ![e] = cur[e]]
            /\ cur' = [cur EXCEPT ![e] = cur[e] + 1]
            /\ attempt' = [attempt EXCEPT ![e] = 0]
            /\ UNCHANGED <<pc, mutex, status, ctx, effect, stored>>
        BY <2>3, <3>2 DEF StartStep
      <4> QED BY <4>1, <4>2, <4>3
    <3> QED BY <3>1, <3>2
  <2>4. CASE StopSteps(e) BY <2>4 DEF StopSteps
  <2>5. CASE ActionOK(e)
    <3>k. cur[e] \in Step BY <2>5, InRange DEF ActionOK
    <3>1. results' \in [Execution -> [Step -> StepStatus]]
      BY <2>5, <2>0, <3>k, SetResult DEF ActionOK
    <3>2. effect' \in [Execution -> [Step -> BOOLEAN]]
      BY <2>5, <3>k, SetEffect DEF ActionOK
    <3> QED BY <2>5, <3>k, <3>1, <3>2 DEF ActionOK
  <2>6. CASE ActionFails(e)
    <3>k. cur[e] \in Step BY <2>6, InRange DEF ActionFails
    <3>1. results' \in [Execution -> [Step -> StepStatus]]
      <4>1. CASE UNCHANGED results BY <4>1
      <4>2. CASE results' = [results EXCEPT ![e][cur[e]] = "failed"]
        BY <4>2, <2>0, <3>k, SetResult
      <4> QED BY <2>6, <4>1, <4>2 DEF ActionFails, StepFailed
    <3>2. effect' \in [Execution -> [Step -> BOOLEAN]]
      <4>1. CASE UNCHANGED effect BY <4>1
      <4>2. CASE effect' = [effect EXCEPT ![e][cur[e]] = TRUE]
        BY <4>2, <3>k, SetEffect
      <4> QED BY <2>6, <4>1, <4>2 DEF ActionFails
    <3> QED BY <2>6, <3>1, <3>2 DEF ActionFails, StepFailed
  <2>7. CASE Retry(e) BY <2>7 DEF Retry
  <2>8. CASE GiveUp(e)
    <3>k. cur[e] \in Step BY <2>8, InRange DEF GiveUp
    <3>1. results' \in [Execution -> [Step -> StepStatus]]
      BY <2>8, <2>0, <3>k, SetResult DEF GiveUp, StepFailed
    <3> QED BY <2>8, <3>1 DEF GiveUp, StepFailed
  <2>9. CASE Succeed(e) BY <2>9 DEF Succeed
  <2> QED BY <1>5, <2>1, <2>2, <2>3, <2>4, <2>5, <2>6, <2>7, <2>8, <2>9
      DEF Forward
<1>6. ASSUME NEW e \in Execution, Backward(e) PROVE TypeOK'
  <2>0. {"compensated", "compensate_failed"} \subseteq StepStatus
    BY DEF StepStatus
  <2>1. CASE Turn(e)
    <3>1. done[e] \in 0 .. N + 1 OBVIOUS
    <3> QED BY <2>1, <3>1 DEF Turn
  <2>2. CASE Compensate(e)
    <3>k. cur[e] \in Step BY <2>2, InRange DEF Compensate
    <3>1. results' \in [Execution -> [Step -> StepStatus]]
      BY <2>2, <2>0, <3>k, SetResult DEF Compensate
    <3>2. effect' \in [Execution -> [Step -> BOOLEAN]]
      <4>1. CASE UNCHANGED effect BY <4>1
      <4>2. CASE effect' = [effect EXCEPT ![e][cur[e]] = FALSE]
        BY <4>2, <3>k, SetEffect
      <4> QED BY <2>2, <4>1, <4>2 DEF Compensate
    <3> QED BY <2>2, <3>k, <3>1, <3>2 DEF Compensate
  <2>3. CASE CompensateFails(e)
    <3>k. cur[e] \in Step BY <2>3, InRange DEF CompensateFails
    <3>1. results' \in [Execution -> [Step -> StepStatus]]
      BY <2>3, <2>0, <3>k, SetResult DEF CompensateFails
    <3> QED BY <2>3, <3>k, <3>1 DEF CompensateFails
  <2>4. CASE Undone(e) BY <2>4 DEF Undone
  <2>5. CASE Return(e) BY <2>5 DEF Return
  <2> QED BY <1>6, <2>1, <2>2, <2>3, <2>4, <2>5 DEF Backward
<1>7. ASSUME NEW e \in Execution, Panic(e) PROVE TypeOK'
  <2>1. results' \in [Execution -> [Step -> StepStatus]]
    <3>1. CASE UNCHANGED results BY <3>1
    <3>2. CASE /\ cur[e] \in Step
               /\ results' = [results EXCEPT ![e][cur[e]] = "compensating"]
      <4>1. "compensating" \in StepStatus BY DEF StepStatus
      <4> QED BY <3>2, <4>1, SetResult
    <3> QED BY <1>7, <3>1, <3>2 DEF Panic
  <2> QED BY <1>7, <2>1 DEF Panic
<1> QED BY <1>1, <1>2, <1>3, <1>4, <1>5, <1>6, <1>7 DEF Next
-----------------------------------------------------------------------------
(* The place among the steps.                                              *)

\* What is known of an execution is about its own variables only.
LEMMA InPlaceFrame ==
  ASSUME NEW f \in Execution, InPlace(f),
         pc'[f] = pc[f], cur'[f] = cur[f], done'[f] = done[f]
  PROVE  InPlace(f)'
BY DEF InPlace

LEMMA InitInPlace == Init => \A e \in Execution : InPlace(e)
<1> SUFFICES ASSUME Init, NEW e \in Execution PROVE InPlace(e)
  OBVIOUS
<1>1. pc[e] = "idle" /\ cur[e] = 1 /\ done[e] = 0 BY DEF Init
<1>2. N \in Nat BY SagaAssumption
<1> QED BY <1>1, <1>2 DEF InPlace, Over

LEMMA ForwardInPlace ==
  ASSUME TypeOK, NEW e \in Execution, InPlace(e), Forward(e)
  PROVE  InPlace(e)'
<1> USE SagaAssumption DEF InPlace, TypeOK, Over, Goto, memory, Save
<1>1. CASE Lock(e) BY <1>1 DEF Lock
<1>2. CASE Start(e) BY <1>2 DEF Start
<1>3. CASE StartStep(e) BY <1>3 DEF StartStep
<1>4. CASE StopSteps(e) BY <1>4 DEF StopSteps
<1>5. CASE ActionOK(e) BY <1>5 DEF ActionOK
<1>6. CASE ActionFails(e) BY <1>6 DEF ActionFails, StepFailed
<1>7. CASE Retry(e) BY <1>7 DEF Retry
<1>8. CASE GiveUp(e) BY <1>8 DEF GiveUp, StepFailed
<1>9. CASE Succeed(e) BY <1>9 DEF Succeed
<1> QED BY <1>1, <1>2, <1>3, <1>4, <1>5, <1>6, <1>7, <1>8, <1>9, Zenon
    DEF Forward

LEMMA BackwardInPlace ==
  ASSUME TypeOK, NEW e \in Execution, InPlace(e), Backward(e)
  PROVE  InPlace(e)'
<1> USE SagaAssumption DEF InPlace, TypeOK, Over, Goto, memory, Save
<1>1. CASE Turn(e) BY <1>1 DEF Turn
<1>2. CASE Compensate(e) BY <1>2 DEF Compensate
<1>3. CASE CompensateFails(e) BY <1>3 DEF CompensateFails
<1>4. CASE Undone(e) BY <1>4 DEF Undone
<1>5. CASE Return(e) BY <1>5 DEF Return
<1> QED BY <1>1, <1>2, <1>3, <1>4, <1>5 DEF Backward

\* What is known of an execution is about these.
Slice(e) ==
  <<pc[e], cur[e], status[e], results[e], done[e], effect[e], stored[e]>>

\* An execution writes its own state and the mutex.
LEMMA OthersStand ==
  ASSUME TypeOK, NEW e \in Execution,
         Call(e) \/ Expire(e) \/ Forward(e) \/ Backward(e) \/ Panic(e),
         NEW f \in Execution \ {e}
  PROVE  UNCHANGED Slice(f)
<1> USE DEF Slice, TypeOK, Goto, memory, Save
<1>1. CASE Lock(e) BY <1>1 DEF Lock
<1>2. CASE Start(e) BY <1>2 DEF Start
<1>3. CASE StartStep(e) BY <1>3 DEF StartStep
<1>4. CASE StopSteps(e) BY <1>4 DEF StopSteps
<1>5. CASE ActionOK(e) BY <1>5 DEF ActionOK
<1>6. CASE ActionFails(e) BY <1>6 DEF ActionFails, StepFailed
<1>7. CASE Retry(e) BY <1>7 DEF Retry
<1>8. CASE GiveUp(e) BY <1>8 DEF GiveUp, StepFailed
<1>9. CASE Succeed(e) BY <1>9 DEF Succeed
<1>10. CASE Turn(e) BY <1>10 DEF Turn
<1>11. CASE Compensate(e) BY <1>11 DEF Compensate
<1>12. CASE CompensateFails(e) BY <1>12 DEF CompensateFails
<1>13. CASE Undone(e) BY <1>13 DEF Undone
<1>14. CASE Return(e) BY <1>14 DEF Return
<1>15. CASE Call(e) BY <1>15 DEF Call
<1>16. CASE Expire(e) BY <1>16 DEF Expire
<1>17. CASE Panic(e) BY <1>17 DEF Panic
<1> QED BY <1>1, <1>2, <1>3, <1>4, <1>5, <1>6, <1>7, <1>8, <1>9, <1>10, <1>11,
           <1>12, <1>13, <1>14, <1>15, <1>16, <1>17, Zenon
    DEF Forward, Backward

LEMMA FaithfulFrame ==
  ASSUME NEW f \in Execution, Faithful(f), UNCHANGED Slice(f)
  PROVE  Faithful(f)'
BY DEF Slice, Faithful, GoingForward, GoingBack, AtEnd, Ordered, Stands,
       Untouched, NeverStood, Settled

-----------------------------------------------------------------------------
(* The steps' fate.                                                        *)

LEMMA InitFaithful == Init => \A e \in Execution : Faithful(e)
<1> SUFFICES ASSUME Init, NEW e \in Execution PROVE Faithful(e)
  OBVIOUS
<1>1. pc[e] = "idle" /\ cur[e] = 1 BY DEF Init
<1>2. \A k \in Step : Untouched(e, k) BY DEF Init, Untouched
<1>3. N \in Nat \ {0} BY SagaAssumption
<1> QED BY <1>1, <1>2, <1>3 DEF Faithful, GoingForward, Step

\* The order holds by the place: nothing has been undone before the turn, only
\* the last steps after it, and all or none at the end.
LEMMA FaithfulOrdered ==
  ASSUME TypeOK, NEW e \in Execution, InPlace(e), Faithful(e)
  PROVE  Ordered(e)
<1> DEFINE WasUndone(j) ==
      results[e][j] \in {"compensating", "compensated", "compensate_failed"}
<1>1. N \in Nat \ {0} /\ Step = 1 .. N BY SagaAssumption DEF Step
<1>2. CASE pc[e] \notin Over \cup {"undoing", "ending"}
  <2> SUFFICES ASSUME NEW k \in Step PROVE ~ WasUndone(k)
    BY DEF Ordered
  <2>1. GoingForward(e) /\ cur[e] \in 1 .. N + 1 BY <1>2 DEF Faithful, InPlace
  <2>2. CASE k < cur[e] BY <2>1, <2>2 DEF GoingForward, Stands
  <2>3. CASE k > cur[e] BY <2>1, <2>3 DEF GoingForward, Untouched
  <2>4. CASE k = cur[e]
    <3>1. pc[e] \in {"idle", "locking", "starting", "stepping", "acting",
                    "retrying", "turning"}
      BY <1>2 DEF TypeOK, Over
    <3> QED BY <1>1, <2>1, <2>4, <3>1 DEF GoingForward, Untouched, NeverStood
  <2> QED BY <1>1, <2>1, <2>2, <2>3, <2>4
<1>3. CASE pc[e] = "undoing"
  <2> SUFFICES ASSUME NEW j \in Step, NEW k \in Step, j < k, WasUndone(j)
               PROVE  results[e][k] # "completed"
    BY DEF Ordered
  <2>1. GoingBack(e) /\ cur[e] \in Int /\ done[e] \in Int
    BY <1>1, <1>3 DEF Faithful, TypeOK
  <2>2. ~ (j <= cur[e]) BY <2>1 DEF GoingBack, Stands
  <2>3. cur[e] < k BY <1>1, <2>1, <2>2
  <2>4. Settled(e, k) \/ NeverStood(e, k) BY <1>1, <2>1, <2>3 DEF GoingBack
  <2> QED BY <2>4 DEF Settled, NeverStood
<1>4. CASE pc[e] \in {"ending", "returned"}
  <2>1. AtEnd(e) BY <1>4 DEF Faithful
  <2> QED BY <2>1 DEF AtEnd, Stands, Settled, NeverStood, Ordered
<1>5. CASE pc[e] \in {"panicked", "dead"}
  BY <1>5 DEF Faithful
<1> QED BY <1>2, <1>3, <1>4, <1>5 DEF Over

\* A step that fails for good leaves the execution at the turn, with the steps
\* before it standing and those after it untouched.
LEMMA StepFailedFaithful ==
  ASSUME TypeOK, NEW e \in Execution, GoingForward(e), cur[e] \in Step,
         StepFailed(e), UNCHANGED cur,
         \/ UNCHANGED effect
         \/ effect' = [effect EXCEPT ![e][cur[e]] = TRUE]
  PROVE  Faithful(e)'
<1>1. pc'[e] = "turning" BY DEF StepFailed, Goto, TypeOK
<1>2. \A k \in Step :
        results'[e][k] = IF k = cur[e] THEN "failed" ELSE results[e][k]
  BY DEF StepFailed, TypeOK
<1>3. \A k \in Step : k # cur[e] => effect'[e][k] = effect[e][k]
  BY DEF TypeOK
<1>4. cur'[e] = cur[e] /\ cur[e] \in Int BY SagaAssumption DEF Step
<1>5. (\A k \in Step : k < cur[e] => Stands(e, k))'
  BY <1>2, <1>3, <1>4, SagaAssumption DEF GoingForward, Stands, Step
<1>6. (\A k \in Step : k > cur[e] => Untouched(e, k))'
  BY <1>2, <1>3, <1>4, SagaAssumption DEF GoingForward, Untouched, Step
<1>7. NeverStood(e, cur[e])' BY <1>2, <1>4 DEF NeverStood
<1> QED BY <1>1, <1>5, <1>6, <1>7 DEF Faithful, GoingForward, Over

LEMMA ForwardFaithful ==
  ASSUME TypeOK, NEW e \in Execution, InPlace(e), Faithful(e), Forward(e)
  PROVE  Faithful(e)'
<1> USE DEF TypeOK, Goto, memory, Save
<1>0. N \in Nat \ {0} /\ RetryCount \in Int BY SagaAssumption
<1>k. pc[e] \notin Over \cup {"undoing", "ending"} => cur[e] \in 1 .. N + 1
  BY DEF InPlace
<1>1. CASE Lock(e)
  BY <1>1 DEF Lock, Faithful, GoingForward, Stands, Untouched, Over
<1>2. CASE Start(e)
  BY <1>2 DEF Start, Faithful, GoingForward, Stands, Untouched, Over
<1>3. CASE StartStep(e)
  BY <1>0, <1>k, <1>3
  DEF StartStep, Faithful, GoingForward, Stands, Untouched, Over, Step
<1>4. CASE StopSteps(e)
  BY <1>4 DEF StopSteps, Faithful, GoingForward, Stands, Untouched,
              NeverStood, Over
<1>5. CASE ActionOK(e)
  BY <1>0, <1>k, <1>5
  DEF ActionOK, Faithful, GoingForward, Stands, Untouched, Over, Step
<1>6. CASE ActionFails(e)
  <2>k. cur[e] \in Step /\ GoingForward(e)
    BY <1>6, InRange DEF ActionFails, Faithful, Over
  <2>1. CASE StepFailed(e)
    BY <1>6, <2>k, <2>1, StepFailedFaithful DEF ActionFails
  <2>2. CASE Goto(e, "retrying") /\ UNCHANGED results
    <3>1. pc'[e] = "retrying" /\ cur' = cur /\ pc[e] = "acting"
      BY <1>6, <2>2 DEF ActionFails
    <3>2. \A k \in Step : k # cur[e] => effect'[e][k] = effect[e][k]
      BY <1>6 DEF ActionFails
    <3>3. (\A k \in Step : k < cur[e] => Stands(e, k))'
      BY <1>0, <2>k, <2>2, <3>1, <3>2 DEF GoingForward, Stands, Step
    <3>4. (\A k \in Step : k > cur[e] => Untouched(e, k))'
      BY <1>0, <2>k, <2>2, <3>1, <3>2 DEF GoingForward, Untouched, Step
    <3> QED BY <2>k, <2>2, <3>1, <3>3, <3>4 DEF Faithful, GoingForward, Over
  <2> QED BY <1>6, <2>1, <2>2 DEF ActionFails
<1>7. CASE Retry(e)
  BY <1>7 DEF Retry, Faithful, GoingForward, Stands, Untouched, Over
<1>8. CASE GiveUp(e)
  <2>k. cur[e] \in Step /\ GoingForward(e)
    BY <1>8, InRange DEF GiveUp, Faithful, Over
  <2> QED BY <1>8, <2>k, StepFailedFaithful DEF GiveUp
<1>9. CASE Succeed(e)
  BY <1>0, <1>k, <1>9
  DEF Succeed, Faithful, GoingForward, AtEnd, IsTerminal, Stands, Over, Step
<1> QED BY <1>1, <1>2, <1>3, <1>4, <1>5, <1>6, <1>7, <1>8, <1>9, Zenon
    DEF Forward

\* What was not completed is never compensated, what was is compensated once,
\* from the last: the loop's step moves from the standing ones to the settled.
LEMMA BackwardFaithful ==
  ASSUME TypeOK, NEW e \in Execution, InPlace(e), Faithful(e), Backward(e)
  PROVE  Faithful(e)'
<1>0. N \in Nat \ {0} /\ Step = 1 .. N BY SagaAssumption DEF Step
<1>1. CASE Turn(e)
  <2>1. /\ pc[e] = "turning"
        /\ pc' = [pc EXCEPT ![e] = "undoing"]
        /\ cur' = [cur EXCEPT ![e] = done[e]]
        /\ UNCHANGED <<results, done, effect>>
    BY <1>1 DEF Turn, Goto
  <2>2. pc'[e] = "undoing" /\ cur'[e] = done[e] BY <2>1 DEF TypeOK
  <2>3. GoingForward(e) /\ done[e] = cur[e] - 1 /\ cur[e] \in 1 .. N
    BY <1>0, <2>1 DEF Faithful, InPlace, Over
  <2>4. ASSUME NEW k \in Step
        PROVE  /\ k <= done[e] => Stands(e, k)
               /\ k > done[e] => NeverStood(e, k)
    <3>1. k <= done[e] => Stands(e, k) BY <1>0, <2>3 DEF GoingForward
    <3>2. k > cur[e] => NeverStood(e, k)
      BY <2>3 DEF GoingForward, Untouched, NeverStood
    <3>3. NeverStood(e, cur[e]) BY <2>1, <2>3 DEF GoingForward
    <3>4. k > done[e] => k > cur[e] \/ k = cur[e] BY <1>0, <2>3
    <3> QED BY <3>1, <3>2, <3>3, <3>4
  <2>5. GoingBack(e)'
    BY <1>0, <2>1, <2>2, <2>3, <2>4 DEF GoingBack, Stands, NeverStood
  <2> QED BY <2>2, <2>5 DEF Faithful, Over
<1>2. CASE Compensate(e) \/ CompensateFails(e)
  <2>1. /\ pc[e] = "undoing" /\ cur[e] \in Step
        /\ cur' = [cur EXCEPT ![e] = cur[e] - 1]
        /\ UNCHANGED <<pc, done>>
    BY <1>2, InRange DEF Compensate, CompensateFails
  <2>2. /\ pc'[e] = "undoing" /\ cur'[e] = cur[e] - 1 /\ done'[e] = done[e]
        /\ cur[e] <= done[e] /\ done[e] \in 0 .. N
        /\ GoingBack(e)
    BY <2>1 DEF TypeOK, InPlace, Faithful
  <2>3. \A k \in Step : k # cur[e] => /\ results'[e][k] = results[e][k]
                                      /\ effect'[e][k] = effect[e][k]
    BY <1>2 DEF Compensate, CompensateFails, TypeOK
  <2>4. ASSUME NEW k \in Step, k = cur[e] PROVE Settled(e, k)'
    <3>1. CASE Compensate(e)
      <4>1. results'[e][k] = "compensated"
        BY <2>1, <2>4, <3>1 DEF Compensate, TypeOK
      <4>2. k \in Bare \/ ~ effect'[e][k]
        BY <2>1, <2>4, <3>1 DEF Compensate, TypeOK
      <4> QED BY <4>1, <4>2 DEF Settled
    <3>2. CASE CompensateFails(e)
      BY <2>1, <2>4, <3>2 DEF CompensateFails, Settled, TypeOK
    <3> QED BY <1>2, <3>1, <3>2
  <2>5. ASSUME NEW k \in Step
        PROVE  /\ k <= cur'[e] => Stands(e, k)'
               /\ cur'[e] < k /\ k <= done'[e] => Settled(e, k)'
               /\ k > done'[e] => NeverStood(e, k)'
    <3>1. CASE k = cur[e] BY <1>0, <2>1, <2>2, <2>4, <3>1
    <3>2. CASE k < cur[e]
      <4>1. Stands(e, k) BY <1>0, <2>1, <2>2, <3>2 DEF GoingBack
      <4>2. Stands(e, k)' BY <1>0, <2>1, <2>3, <3>2, <4>1 DEF Stands
      <4> QED BY <1>0, <2>1, <2>2, <3>2, <4>2
    <3>3. CASE k > cur[e]
      <4>1. /\ k <= done[e] => Settled(e, k)
            /\ k > done[e] => NeverStood(e, k)
        BY <2>2, <3>3 DEF GoingBack
      <4>2. results'[e][k] = results[e][k] /\ effect'[e][k] = effect[e][k]
        BY <1>0, <2>1, <2>3, <3>3
      <4>3. /\ Settled(e, k) => Settled(e, k)'
            /\ NeverStood(e, k) => NeverStood(e, k)'
        BY <4>2 DEF Settled, NeverStood
      <4> QED BY <1>0, <2>1, <2>2, <3>3, <4>1, <4>3
    <3> QED BY <1>0, <2>1, <3>1, <3>2, <3>3
  <2>6. GoingBack(e)' BY <2>5 DEF GoingBack
  <2> QED BY <2>2, <2>6 DEF Faithful, Over
<1>3. CASE Undone(e)
  <2>1. /\ pc[e] = "undoing" /\ cur[e] = 0 /\ GoingBack(e)
        /\ pc' = [pc EXCEPT ![e] = "ending"]
        /\ UNCHANGED <<results, effect>>
    BY <1>3 DEF Undone, Goto, Faithful
  <2>2. pc'[e] = "ending" BY <2>1 DEF TypeOK
  <2>3. status'[e] = IF \E k \in Step : results[e][k] = "compensate_failed"
                     THEN "compensate_failed" ELSE "compensated"
    BY <1>3 DEF Undone, TypeOK
  <2>4. ASSUME NEW k \in Step PROVE NeverStood(e, k) \/ Settled(e, k)
    <3>1. done[e] \in Int BY <1>0 DEF TypeOK
    <3> QED BY <1>0, <2>1, <3>1 DEF GoingBack
  <2>5. AtEnd(e)'
    BY <2>1, <2>3, <2>4 DEF AtEnd, IsTerminal, NeverStood, Settled
  <2> QED BY <2>2, <2>5 DEF Faithful, Over
<1>4. CASE Return(e)
  <2>1. /\ pc[e] = "ending" /\ AtEnd(e)
        /\ pc' = [pc EXCEPT ![e] = "returned"]
        /\ UNCHANGED <<status, results, effect>>
    BY <1>4 DEF Return, Goto, Faithful, memory
  <2>2. pc'[e] = "returned" BY <2>1 DEF TypeOK
  <2>3. AtEnd(e)' BY <2>1 DEF AtEnd, Stands, NeverStood, Settled
  <2> QED BY <2>2, <2>3 DEF Faithful, Over
<1> QED BY <1>1, <1>2, <1>3, <1>4 DEF Backward

\* A call, or the end of the context, changes nothing of this; a panic stops
\* the execution where it is.
LEMMA ElsewhereKept ==
  ASSUME TypeOK, NEW e \in Execution, InPlace(e), Faithful(e),
         Call(e) \/ Expire(e) \/ Panic(e)
  PROVE  InPlace(e)' /\ Faithful(e)'
<1>1. CASE Call(e)
  BY <1>1 DEF Call, Goto, memory, TypeOK, InPlace, Faithful, GoingForward,
              Stands, Untouched, Over
<1>2. CASE Expire(e)
  <2>1. UNCHANGED Slice(e) BY <1>2 DEF Expire, memory, Slice
  <2>2. Faithful(e)' BY <2>1, FaithfulFrame
  <2>3. InPlace(e)' BY <2>1, InPlaceFrame DEF Slice
  <2> QED BY <2>2, <2>3
<1>3. CASE Panic(e)
  <2>1. pc'[e] = "panicked" /\ UNCHANGED <<cur, done>>
    BY <1>3 DEF Panic, Goto, TypeOK
  <2>2. Ordered(e)'
    <3>1. CASE UNCHANGED results
      BY <3>1, FaithfulOrdered DEF Ordered
    <3>2. CASE /\ pc[e] = "undoing" /\ cur[e] \in Step
               /\ results' = [results EXCEPT ![e][cur[e]] = "compensating"]
      <4>1. GoingBack(e) /\ done[e] \in Int /\ Step \subseteq Int
        BY <3>2, SagaAssumption DEF Faithful, TypeOK, Step
      <4>2. \A k \in Step : results'[e][k] =
              IF k = cur[e] THEN "compensating" ELSE results[e][k]
        BY <3>2 DEF TypeOK
      <4>3. \A k \in Step : k < cur[e] => results'[e][k] = "completed"
        BY <3>2, <4>1, <4>2 DEF GoingBack, Stands
      <4>4. \A k \in Step : k > cur[e] => results'[e][k] # "completed"
        <5> SUFFICES ASSUME NEW k \in Step, k > cur[e]
                     PROVE  results'[e][k] # "completed"
          OBVIOUS
        <5>1. Settled(e, k) \/ NeverStood(e, k)
          BY <3>2, <4>1 DEF GoingBack
        <5> QED BY <3>2, <4>1, <4>2, <5>1 DEF Settled, NeverStood
      <4>5. ASSUME NEW j \in Step, NEW k \in Step, j < k,
                   results'[e][j] \in {"compensating", "compensated",
                                       "compensate_failed"}
            PROVE  results'[e][k] # "completed"
        <5>1. ~ (j < cur[e]) BY <4>3, <4>5
        <5>2. k > cur[e] BY <3>2, <4>1, <4>5, <5>1
        <5> QED BY <4>4, <5>2
      <4> QED BY <4>5 DEF Ordered
    <3> QED BY <1>3, <3>1, <3>2 DEF Panic
  <2> QED BY <2>1, <2>2 DEF InPlace, Faithful, Over
<1> QED BY <1>1, <1>2, <1>3

\* A crash stops every execution where it is.
LEMMA CrashKept ==
  ASSUME TypeOK, NEW e \in Execution, InPlace(e), Faithful(e), Crash
  PROVE  InPlace(e)' /\ Faithful(e)'
<1>1. CASE pc[e] \in Over
  <2>1. UNCHANGED Slice(e) BY <1>1 DEF Crash, memory, Slice
  <2>2. Faithful(e)' BY <2>1, FaithfulFrame
  <2>3. InPlace(e)' BY <2>1, InPlaceFrame DEF Slice
  <2> QED BY <2>2, <2>3
<1>2. CASE pc[e] \notin Over
  <2>1. pc'[e] = "dead" /\ UNCHANGED results BY <1>2 DEF Crash, memory
  <2>2. Ordered(e)' BY <2>1, FaithfulOrdered DEF Ordered
  <2> QED BY <2>1, <2>2 DEF InPlace, Faithful, Over
<1> QED BY <1>1, <1>2

LEMMA NextSaga == SagaInv /\ [Next]_vars => SagaInv'
<1> SUFFICES ASSUME TypeOK, \A e \in Execution : InPlace(e),
                    \A e \in Execution : Faithful(e), [Next]_vars,
                    NEW f \in Execution
             PROVE  InPlace(f)' /\ Faithful(f)'
  BY NextTyped DEF SagaInv
<1>0. InPlace(f) /\ Faithful(f) OBVIOUS
<1>1. ASSUME UNCHANGED Slice(f) PROVE InPlace(f)' /\ Faithful(f)'
  <2>1. Faithful(f)' BY <1>0, <1>1, FaithfulFrame
  <2>2. InPlace(f)' BY <1>0, <1>1, InPlaceFrame DEF Slice
  <2> QED BY <2>1, <2>2
<1>2. CASE UNCHANGED vars BY <1>1, <1>2 DEF vars, Slice
<1>3. CASE Crash BY <1>0, <1>3, CrashKept
<1>4. ASSUME NEW e \in Execution,
             Call(e) \/ Expire(e) \/ Forward(e) \/ Backward(e) \/ Panic(e)
      PROVE  InPlace(f)' /\ Faithful(f)'
  <2>1. CASE f # e
    <3>1. UNCHANGED Slice(f) BY <1>4, <2>1, OthersStand
    <3> QED BY <1>1, <3>1
  <2>2. CASE f = e /\ (Call(e) \/ Expire(e) \/ Panic(e))
    BY <1>0, <2>2, ElsewhereKept
  <2>3. CASE f = e /\ Forward(e)
    BY <1>0, <2>3, ForwardInPlace, ForwardFaithful
  <2>4. CASE f = e /\ Backward(e)
    BY <1>0, <2>4, BackwardInPlace, BackwardFaithful
  <2> QED BY <1>4, <2>1, <2>2, <2>3, <2>4
<1> QED BY <1>2, <1>3, <1>4 DEF Next

-----------------------------------------------------------------------------
(* The store.                                                              *)

\* What is saved before the last save is no terminal status, and the last one
\* saves the status returned, which is the last state there is.
LEMMA NextStored ==
  TypeOK /\ StoredIsTrue /\ [Next]_vars => StoredIsTrue'
<1> SUFFICES ASSUME TypeOK, StoredIsTrue, [Next]_vars, NEW f \in Execution
             PROVE  (stored[f] \in IsTerminal =>
                       pc[f] = "returned" /\ status[f] = stored[f])'
  BY DEF StoredIsTrue
<1> DEFINE Own == stored[f] \in IsTerminal =>
                    pc[f] = "returned" /\ status[f] = stored[f]
<1>0. Own BY DEF StoredIsTrue
<1>1. ASSUME UNCHANGED Slice(f) PROVE Own' BY <1>0, <1>1 DEF Slice
<1>2. ASSUME stored'[f] = stored[f], pc[f] # "returned" PROVE Own'
  BY <1>0, <1>2
<1>3. ASSUME stored'[f] \in {stored[f], "running", "compensating"},
             pc[f] # "returned"
      PROVE  Own'
  BY <1>0, <1>3 DEF IsTerminal
<1> SUFFICES Own' OBVIOUS
<1> HIDE DEF Own
<1>4. CASE UNCHANGED vars BY <1>1, <1>4 DEF vars, memory, Slice
<1>5. CASE Crash
  <2>1. CASE pc[f] \in Over BY <1>1, <1>5, <2>1 DEF Crash, memory, Slice
  <2>2. CASE pc[f] \notin Over BY <1>2, <1>5, <2>2 DEF Crash, Over
  <2> QED BY <2>1, <2>2
<1>6. ASSUME NEW e \in Execution,
             Call(e) \/ Expire(e) \/ Forward(e) \/ Backward(e) \/ Panic(e)
      PROVE  Own'
  <2>1. CASE f # e
    <3>1. UNCHANGED Slice(f) BY <1>6, <2>1, OthersStand
    <3> QED BY <1>1, <3>1
  <2>2. CASE f = e
    <3>1. CASE Expire(f) BY <1>1, <3>1 DEF Expire, memory, Slice
    <3>2. CASE Call(f) BY <1>2, <3>2 DEF Call
    <3>3. CASE Panic(f) BY <1>2, <3>3 DEF Panic
    <3>4. CASE Forward(f)
      <4>1. CASE Start(f) BY <1>3, <4>1 DEF Start, Save, TypeOK
      <4>2. CASE ~ Start(f)
        BY <1>2, <3>4, <4>2
        DEF Forward, Lock, StartStep, StopSteps, ActionOK, ActionFails, Retry,
            GiveUp, Succeed
      <4> QED BY <4>1, <4>2
    <3>5. CASE Backward(f)
      <4>1. CASE Turn(f) BY <1>3, <4>1 DEF Turn, Save, TypeOK
      <4>2. CASE Return(f)
        <5>1. /\ pc'[f] = "returned" /\ pc[f] # "returned"
              /\ status'[f] = status[f]
              /\ stored'[f] \in {stored[f], status[f]}
          BY <4>2 DEF Return, Goto, Save, memory, TypeOK
        <5> QED BY <1>0, <5>1 DEF Own
      <4>3. CASE Compensate(f) \/ CompensateFails(f) \/ Undone(f)
        BY <1>2, <4>3 DEF Compensate, CompensateFails, Undone
      <4> QED BY <3>5, <4>1, <4>2, <4>3 DEF Backward
    <3> QED BY <1>6, <2>2, <3>1, <3>2, <3>3, <3>4, <3>5
  <2> QED BY <2>1, <2>2
<1> QED BY <1>4, <1>5, <1>6 DEF Next

-----------------------------------------------------------------------------
(* The theorems.                                                           *)

\* The invariant holds from the initial state on.
THEOREM SagaAlways == Spec => []SagaInv
<1>1. Init => SagaInv BY InitTyped, InitInPlace, InitFaithful DEF SagaInv
<1> QED BY <1>1, NextSaga, PTL DEF Spec

\* Execute, every step of it: each variable keeps to its values, and a step is
\* undone only when none after it stands, in whatever place the execution is
\* stopped by a panic or a crash.
THEOREM StepsAreSound == Spec => []StepsSound
<1>1. SagaInv => StepsSound
  <2> SUFFICES ASSUME SagaInv PROVE TypeOK /\ \A e \in Execution : Ordered(e)
    BY DEF StepsSound, ReverseOrder, Ordered
  <2> QED BY FaithfulOrdered DEF SagaInv
<1> QED BY <1>1, SagaAlways, PTL

\* What a returned execution leaves behind is in its result, and the store is
\* never ahead of it.
THEOREM SagaIsHonest == Spec => []SagaHonest
<1>1. SagaInv => NoSilentEffect
  <2> SUFFICES ASSUME SagaInv, NEW e \in Execution, pc[e] = "returned",
                      status[e] # "completed", NEW k \in Step \ Bare,
                      effect[e][k]
               PROVE  \/ results[e][k] = "failed"
                      \/ /\ results[e][k] = status[e]
                          /\ status[e] = "compensate_failed"
    BY DEF NoSilentEffect
  <2>1. AtEnd(e) BY DEF SagaInv, Faithful
  <2>2. NeverStood(e, k) \/ Settled(e, k) BY <2>1 DEF AtEnd
  <2>3. CASE results[e][k] = "compensate_failed"
    BY <2>1, <2>3 DEF AtEnd, IsTerminal
  <2> QED BY <2>2, <2>3 DEF NeverStood, Settled
<1>2. Init => StoredIsTrue BY DEF Init, StoredIsTrue, IsTerminal
<1>3. SagaInv => TypeOK BY DEF SagaInv
<1>4. Spec => []StoredIsTrue
  BY <1>2, <1>3, NextStored, SagaAlways, PTL DEF Spec
<1>5. NoSilentEffect /\ StoredIsTrue => SagaHonest BY DEF SagaHonest
<1> QED BY <1>1, <1>4, <1>5, SagaAlways, PTL

\* Execute: a completed saga did all of its steps, a compensated one left
\* nothing that could be undone.  WithRetry with a negative number makes
\* executeStepWithRetry's loop empty, and a step completes whose action was not
\* called: the theorem is about the others.
THEOREM AllOrNothingHolds ==
  ASSUME RetryCount >= 0
  PROVE  Spec => []AllOrNothing
<1>1. SagaInv => AllOrNothing
  <2> SUFFICES ASSUME SagaInv, NEW e \in Execution, pc[e] = "returned"
               PROVE  /\ status[e] = "completed" => \A k \in Step : effect[e][k]
                      /\ status[e] = "compensated" =>
                           \A k \in Step \ Bare :
                             effect[e][k] => results[e][k] = "failed"
    BY DEF AllOrNothing
  <2>1. AtEnd(e) BY DEF SagaInv, Faithful
  <2> QED BY <2>1 DEF AtEnd, Stands, NeverStood, Settled
<1> QED BY <1>1, SagaAlways, PTL

=============================================================================
