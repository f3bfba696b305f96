-------------------------- MODULE MiddlewareProofs ---------------------------
(***************************************************************************)
(* Theorems about the middlewares around a handler: those of Idempotency,  *)
(* for any number of requests and any timeouts, and those of Chain, for any*)
(* number of attempts, any requests, tokens, addresses and set-ups.        *)
(*                                                                         *)
(* The two have no state in common.  The invariant of Chain, ChainInv, is  *)
(* one of every attempt on its own: where its goroutines are and what there*)
(* is by then (Placed), who wrote what to the response (Written), where the*)
(* answer comes from (Answered); and of the attempts in their order        *)
(* (Retried): the client went on from one because it was answered by       *)
(* something it retries, or because no later one can matter.               *)
(***************************************************************************)
EXTENDS Chain, Idempotency, FiniteSetTheorems, TLAPS

-----------------------------------------------------------------------------
(* Idempotency: typing.                                                    *)

\* A request has the handler's outcome in hand when it stores it; without this
\* typing is not inductive, for a panic is no outcome a result can hold.
HasOutcome == \A r \in Request : pc[r] = "saving" => ran[r] \in Outcome

TypeInv == TypeOK /\ HasOutcome

LEMMA InitTyped == Init => TypeInv
<1> SUFFICES ASSUME Init PROVE TypeInv
  OBVIOUS
<1>1. EntriesTyped
  <2>1. resultLeft \in 0 .. ResultTTL /\ lockLeft \in 0 .. LockTimeout
    BY IdempotencyAssumption DEF Init
  <2>2. stored \in Outcome \cup {None} /\ locked \in BOOLEAN
    BY DEF Init
  <2> QED BY <2>1, <2>2 DEF EntriesTyped
<1>2. RequestsTyped
  BY IdempotencyAssumption
  DEF Init, RequestsTyped, Place, Outcome, AnswerKind, Replay, Section, None
<1>3. HasOutcome
  BY DEF Init, HasOutcome
<1> QED BY <1>1, <1>2, <1>3 DEF TypeOK, TypeInv

\* Each action keeps the variables in their types, the numbers in their bounds
\* included.
LEMMA NextTyped == TypeInv /\ [Next]_vars => TypeOK'
<1> SUFFICES ASSUME TypeInv, [Next]_vars PROVE TypeOK'
  OBVIOUS
<1> USE IdempotencyAssumption
    DEF TypeInv, TypeOK, Place, Outcome, AnswerKind, Replay, Section, None,
        Goto, Finish
<1>1. ASSUME NEW r \in Request, Arrive(r) PROVE TypeOK'
  <2>1. UNCHANGED <<stored, resultLeft, locked, lockLeft>>
    BY <1>1 DEF Arrive, result, lock
  <2>2. RequestsTyped'
    BY <1>1 DEF Arrive, RequestsTyped, EntriesTyped
  <2> QED BY <2>1, <2>2 DEF EntriesTyped
<1>2. ASSUME NEW r \in Request, Get(r) PROVE TypeOK'
  <2>1. UNCHANGED <<stored, resultLeft, locked, lockLeft>>
    BY <1>2 DEF Get, result, lock
  <2>2. RequestsTyped'
    BY <1>2, <2>1 DEF Get, RequestsTyped, EntriesTyped, StoreError, Decode
  <2> QED BY <2>1, <2>2 DEF EntriesTyped
<1>3. ASSUME NEW r \in Request, Exists(r) PROVE TypeOK'
  <2>1. UNCHANGED <<stored, resultLeft, locked, lockLeft>>
    BY <1>3 DEF Exists, result, lock
  <2>2. RequestsTyped'
    BY <1>3 DEF Exists, RequestsTyped, EntriesTyped, StoreError
  <2> QED BY <2>1, <2>2 DEF EntriesTyped
<1>4. ASSUME NEW r \in Request, SetNX(r) PROVE TypeOK'
  <2>1. EntriesTyped'
    <3>1. resultLeft' \in 0 .. ResultTTL /\ lockLeft' \in 0 .. LockTimeout
      BY <1>4 DEF SetNX, result, lock, EntriesTyped
    <3>2. stored' \in Outcome \cup {None}
      BY <1>4 DEF SetNX, result, EntriesTyped, RequestsTyped
    <3>3. locked' \in BOOLEAN
      BY <1>4 DEF SetNX, lock, EntriesTyped
    <3> QED BY <3>1, <3>2, <3>3 DEF EntriesTyped
  <2>2. RequestsTyped'
    BY <1>4 DEF SetNX, RequestsTyped, StoreError
  <2> QED BY <2>1, <2>2
<1>5. ASSUME NEW r \in Request, Handle(r) PROVE TypeOK'
  <2>1. UNCHANGED <<stored, resultLeft, locked, lockLeft>>
    BY <1>5 DEF Handle, result, lock
  <2>2. RequestsTyped'
    BY <1>5 DEF Handle, RequestsTyped, EntriesTyped
  <2> QED BY <2>1, <2>2 DEF EntriesTyped
<1>6. ASSUME NEW r \in Request, Save(r) PROVE TypeOK'
  <2>1. EntriesTyped'
    <3>1. resultLeft' \in 0 .. ResultTTL /\ lockLeft' \in 0 .. LockTimeout
      BY <1>6 DEF Save, result, lock, EntriesTyped
    <3>2. stored' \in Outcome \cup {None}
      BY <1>6 DEF Save, result, EntriesTyped, HasOutcome
    <3>3. locked' \in BOOLEAN
      BY <1>6 DEF Save, lock, EntriesTyped
    <3> QED BY <3>1, <3>2, <3>3 DEF EntriesTyped
  <2>2. RequestsTyped'
    BY <1>6 DEF Save, RequestsTyped
  <2> QED BY <2>1, <2>2
<1>7. ASSUME NEW r \in Request, DelLock(r) PROVE TypeOK'
  <2>1. EntriesTyped'
    <3>1. resultLeft' \in 0 .. ResultTTL /\ lockLeft' \in 0 .. LockTimeout
      BY <1>7 DEF DelLock, result, lock, EntriesTyped
    <3>2. stored' \in Outcome \cup {None}
      BY <1>7 DEF DelLock, result, EntriesTyped, RequestsTyped
    <3>3. locked' \in BOOLEAN
      BY <1>7 DEF DelLock, lock, EntriesTyped
    <3> QED BY <3>1, <3>2, <3>3 DEF EntriesTyped
  <2>2. RequestsTyped'
    BY <1>7 DEF DelLock, RequestsTyped
  <2> QED BY <2>1, <2>2
<1>8. ASSUME NEW r \in Request, Bypass(r) PROVE TypeOK'
  <2>1. UNCHANGED <<stored, resultLeft, locked, lockLeft>>
    BY <1>8 DEF Bypass, result, lock
  <2>2. RequestsTyped'
    BY <1>8 DEF Bypass, RequestsTyped, EntriesTyped
  <2> QED BY <2>1, <2>2 DEF EntriesTyped
<1>9. ASSUME NEW r \in Request, Crash(r) PROVE TypeOK'
  <2>1. UNCHANGED <<stored, resultLeft, locked, lockLeft>>
    BY <1>9 DEF Crash, result, lock
  <2>2. RequestsTyped'
    BY <1>9 DEF Crash, RequestsTyped, EntriesTyped
  <2> QED BY <2>1, <2>2 DEF EntriesTyped
<1>10. CASE Tick
  <2>1. EntriesTyped'
    BY <1>10 DEF Tick, EntriesTyped
  <2>2. RequestsTyped'
    <3>1. UNCHANGED <<pc, ran, answer>> /\ late' \in [Request -> BOOLEAN]
      BY <1>10 DEF Tick, RequestsTyped
    <3>2. \A r \in Request :
            pc[r] \in Section => spent[r] + 1 \in 0 .. HandlerMax
      BY <1>10 DEF Tick, RequestsTyped
    <3>3. spent' \in [Request -> 0 .. HandlerMax]
      BY <1>10, <3>2 DEF Tick, RequestsTyped
    <3> QED BY <3>1, <3>3 DEF RequestsTyped
  <2> QED BY <2>1, <2>2
<1>11. CASE UNCHANGED vars
  BY <1>11 DEF vars, result, lock, EntriesTyped, RequestsTyped
<1> QED BY <1>1, <1>2, <1>3, <1>4, <1>5, <1>6, <1>7, <1>8, <1>9, <1>10, <1>11
    DEF Next, Serve

\* The outcome is in hand from the end of the handler on.
LEMMA NextHasOutcome == TypeInv /\ [Next]_vars => HasOutcome'
<1> SUFFICES ASSUME TypeInv, [Next]_vars PROVE HasOutcome'
  OBVIOUS
<1> USE DEF TypeInv, TypeOK, RequestsTyped, HasOutcome, Goto, Finish, StoreError
<1>1. ASSUME NEW r \in Request, Arrive(r) PROVE HasOutcome'
  BY <1>1 DEF Arrive
<1>2. ASSUME NEW r \in Request, Get(r) PROVE HasOutcome'
  BY <1>2 DEF Get
<1>3. ASSUME NEW r \in Request, Exists(r) PROVE HasOutcome'
  BY <1>3 DEF Exists
<1>4. ASSUME NEW r \in Request, SetNX(r) PROVE HasOutcome'
  BY <1>4 DEF SetNX
<1>5. ASSUME NEW r \in Request, Handle(r) PROVE HasOutcome'
  BY <1>5 DEF Handle
<1>6. ASSUME NEW r \in Request, Save(r) PROVE HasOutcome'
  BY <1>6 DEF Save
<1>7. ASSUME NEW r \in Request, DelLock(r) PROVE HasOutcome'
  BY <1>7 DEF DelLock
<1>8. ASSUME NEW r \in Request, Bypass(r) PROVE HasOutcome'
  BY <1>8 DEF Bypass
<1>9. ASSUME NEW r \in Request, Crash(r) PROVE HasOutcome'
  BY <1>9 DEF Crash
<1>10. CASE UNCHANGED <<pc, ran>>
  BY <1>10
<1> QED BY <1>1, <1>2, <1>3, <1>4, <1>5, <1>6, <1>7, <1>8, <1>9, <1>10
    DEF Next, Serve, Tick, vars

LEMMA NextTypeInv == TypeInv /\ [Next]_vars => TypeInv'
BY NextTyped, NextHasOutcome DEF TypeInv

\* Type correctness.
THEOREM TypeCorrect == Spec => []TypeOK
<1>1. TypeInv => TypeOK BY DEF TypeInv
<1> QED BY InitTyped, NextTypeInv, <1>1, PTL DEF Spec

-----------------------------------------------------------------------------
(* No two handlers at a time.                                              *)

\* The requests that were granted the lock and are not over.
Granted == {r \in Request : pc[r] \in Section}

\* The request that the lock entry is of: it came in with the entry, and the two
\* have aged together since.
Owner(r) ==
  /\ locked /\ lockLeft > 0 /\ r \in Granted
  /\ lockLeft + spent[r] = LockTimeout

\* Every granted request but the owner of the lock has a request to answer for
\* it that outlived the timeout.
Paid == \/ Cardinality(Granted) <= Cardinality(Overran)
        \/ /\ Cardinality(Granted) <= 1 + Cardinality(Overran)
           /\ \E r \in Request : Owner(r)

\* Before its grant a request has used none of its time.
Unspent ==
  \A r \in Request :
    pc[r] \in {"idle", "getting", "checking", "locking"} => spent[r] = 0

\* Without the lock only those run that may.
Skips == \A r \in Request : pc[r] = "bypassing" => r \in SkipOnError

OverlapInv == TypeInv /\ Paid /\ Unspent /\ Skips

LEMMA CardsAre ==
  ASSUME NEW S \in SUBSET Request, NEW T \in SUBSET S
  PROVE  /\ Cardinality(S) \in Nat /\ Cardinality(T) \in Nat
         /\ Cardinality(T) <= Cardinality(S)
         /\ S # T => Cardinality(T) < Cardinality(S)
<1>1. IsFiniteSet(S) /\ IsFiniteSet(T)
  BY IdempotencyAssumption, FS_Subset
<1>2. Cardinality(S) \in Nat /\ Cardinality(T) \in Nat
  BY <1>1, FS_CardinalityType
<1> QED BY <1>1, <1>2, FS_Subset

LEMMA CardsJoin ==
  ASSUME NEW S \in SUBSET Request, NEW r \in Request
  PROVE  Cardinality(S \cup {r}) <= Cardinality(S) + 1
<1>1. IsFiniteSet(S) BY IdempotencyAssumption, FS_Subset
<1>2. Cardinality(S) \in Nat BY <1>1, FS_CardinalityType
<1> QED BY <1>1, <1>2, FS_AddElement

LEMMA InitOverlap == Init => OverlapInv
<1> SUFFICES ASSUME Init PROVE OverlapInv
  OBVIOUS
<1>1. Granted = {} BY DEF Init, Granted, Section
<1>2. Overran \in SUBSET Request BY DEF Overran
<1>3. Cardinality(Granted) = 0 /\ Cardinality(Overran) \in Nat
  BY <1>1, <1>2, CardsAre, FS_EmptySet
<1>4. Paid BY <1>3 DEF Paid
<1> QED BY <1>4, InitTyped DEF Init, OverlapInv, Unspent, Skips

\* Time only adds to those that outlived the timeout.
LEMMA OverranGrows ==
  ASSUME OverlapInv, [Next]_vars
  PROVE  Overran \in SUBSET Overran' /\ Overran' \in SUBSET Request
BY IdempotencyAssumption
   DEF OverlapInv, TypeInv, TypeOK, RequestsTyped, Overran, Next, vars, Tick,
       Arrive, Serve, Crash, Get, Exists, SetNX, Handle, Save, DelLock, Bypass

\* A granted request that goes, whatever becomes of the lock, is one less.
LEMMA LeavesPaid ==
  ASSUME OverlapInv, [Next]_vars, NEW r \in Request,
         r \in Granted, r \notin Granted', Granted' \in SUBSET Granted
  PROVE  Paid'
<1>1. /\ Granted \in SUBSET Request /\ Granted' # Granted
      /\ Overran \in SUBSET Overran' /\ Overran' \in SUBSET Request
  BY OverranGrows DEF Granted
<1>2. /\ Cardinality(Granted) \in Nat /\ Cardinality(Granted') \in Nat
      /\ Cardinality(Granted') < Cardinality(Granted)
      /\ Cardinality(Overran) \in Nat /\ Cardinality(Overran') \in Nat
      /\ Cardinality(Overran) <= Cardinality(Overran')
  BY <1>1, CardsAre
<1>3. Cardinality(Granted) <= 1 + Cardinality(Overran)
  BY <1>2 DEF OverlapInv, Paid
<1>4. Cardinality(Granted') <= Cardinality(Overran')
  BY <1>2, <1>3
<1> QED BY <1>4 DEF Paid

\* Nobody comes or goes, and the lock stays.
LEMMA StaysPaid ==
  ASSUME OverlapInv, Granted' = Granted, UNCHANGED <<lock, spent>>
  PROVE  Paid'
<1>1. Overran' = Overran BY DEF Overran
<1> QED BY <1>1 DEF OverlapInv, Paid, Owner, lock

LEMMA GrantPaid ==
  ASSUME OverlapInv, OverlapInv, NEW r \in Request, SetNX(r)
  PROVE  Paid'
<1> USE DEF OverlapInv, TypeInv, TypeOK, RequestsTyped, EntriesTyped
<1>0. r \notin Granted /\ spent[r] = 0 /\ UNCHANGED spent
  BY DEF SetNX, Granted, Section, Unspent
<1>1. Overran' = Overran BY <1>0 DEF Overran
<1>2. /\ Cardinality(Overran) \in Nat /\ Cardinality(Granted) \in Nat
  BY CardsAre DEF Overran, Granted
<1>3. CASE Granted' = Granted /\ UNCHANGED lock
  BY <1>0, <1>3, StaysPaid
<1>4. CASE ~ locked /\ Granted' = Granted
  <2>1. Cardinality(Granted) <= Cardinality(Overran)
    BY <1>4 DEF Paid, Owner
  <2> QED BY <1>1, <1>4, <2>1 DEF Paid
<1>5. CASE /\ ~ locked /\ locked' = TRUE /\ lockLeft' = LockTimeout
           /\ Goto(r, "handling")
  <2>1. Cardinality(Granted) <= Cardinality(Overran)
    BY <1>5 DEF Paid, Owner
  <2>2. Granted' = Granted \cup {r}
    BY <1>5 DEF Goto, Granted, Section
  <2>3. Cardinality(Granted') <= Cardinality(Granted) + 1
    BY <2>2, CardsJoin DEF Granted
  <2>4. Granted' \in SUBSET Request BY DEF Granted
  <2>5. Cardinality(Granted') \in Nat BY <2>4, CardsAre
  <2>6. Cardinality(Granted') <= 1 + Cardinality(Overran')
    BY <1>1, <1>2, <2>1, <2>3, <2>5
  <2>7. Owner(r)'
    BY <1>0, <1>5, <2>2, IdempotencyAssumption DEF Owner
  <2> QED BY <2>6, <2>7 DEF Paid
<1>6. CASE StoreError(r) \/ Finish(r, "conflict")
  <2>1. Granted' = Granted
    BY <1>0, <1>6 DEF StoreError, Finish, Goto, Granted, Section
  <2> QED BY <1>3, <1>4, <2>1 DEF SetNX
<1> QED BY <1>5, <1>6 DEF SetNX

\* When the lock expires its owner has outlived it.
LEMMA TickPaid ==
  ASSUME OverlapInv, Tick
  PROVE  Paid'
<1> USE DEF OverlapInv, TypeInv, TypeOK, RequestsTyped, EntriesTyped
<1>1. Granted' = Granted /\ Granted \in SUBSET Request
  BY DEF Tick, Granted
<1>2. Overran \in SUBSET Overran' /\ Overran' \in SUBSET Request
  BY OverranGrows DEF Next
<1>3. /\ Cardinality(Granted) \in Nat
      /\ Cardinality(Overran) \in Nat /\ Cardinality(Overran') \in Nat
      /\ Cardinality(Overran) <= Cardinality(Overran')
      /\ Overran # Overran' => Cardinality(Overran) < Cardinality(Overran')
  BY <1>1, <1>2, CardsAre
<1>4. CASE Cardinality(Granted) <= Cardinality(Overran)
  <2>1. Cardinality(Granted) <= Cardinality(Overran') BY <1>3, <1>4
  <2> QED BY <1>1, <2>1 DEF Paid
<1>5. ASSUME Cardinality(Granted) <= 1 + Cardinality(Overran),
             NEW r \in Request, Owner(r)
      PROVE  Paid'
  <2>1. /\ lockLeft \in Nat /\ spent[r] \in Nat /\ lockLeft > 0
        /\ lockLeft + spent[r] = LockTimeout /\ LockTimeout \in Nat
    BY <1>5, IdempotencyAssumption DEF Owner
  <2>2. spent'[r] = spent[r] + 1 /\ lockLeft' = lockLeft - 1
    BY <1>5, <2>1 DEF Tick, Owner, Granted
  <2>3. CASE lockLeft = 1
    <3>1. r \notin Overran /\ r \in Overran' BY <2>1, <2>2, <2>3 DEF Overran
    <3>2. Cardinality(Overran) < Cardinality(Overran') BY <1>3, <3>1
    <3>3. Cardinality(Granted) <= Cardinality(Overran')
      BY <1>3, <1>5, <3>2
    <3> QED BY <1>1, <3>3 DEF Paid
  <2>4. CASE lockLeft # 1
    <3>1. locked' BY <1>5, <2>4 DEF Tick, Owner
    <3>2. lockLeft' > 0 /\ lockLeft' + spent'[r] = LockTimeout
      BY <2>1, <2>2, <2>4
    <3>3. Owner(r)' BY <1>1, <1>5, <3>1, <3>2 DEF Owner
    <3>4. Cardinality(Granted) <= 1 + Cardinality(Overran')
      BY <1>3, <1>5
    <3> QED BY <1>1, <3>3, <3>4 DEF Paid
  <2> QED BY <2>3, <2>4
<1> QED BY <1>4, <1>5 DEF Paid

LEMMA NextPaid == OverlapInv /\ [Next]_vars => Paid'
<1> SUFFICES ASSUME OverlapInv, [Next]_vars PROVE Paid'
  OBVIOUS
<1> USE DEF OverlapInv, TypeInv, TypeOK, RequestsTyped
<1>1. ASSUME NEW r \in Request, \A q \in Request \ {r} : pc'[q] = pc[q],
             pc[r] \in Section, pc'[r] \notin Section
      PROVE  Paid'
  BY <1>1, LeavesPaid DEF Granted
<1>2. CASE UNCHANGED vars
  BY <1>2, StaysPaid DEF vars, Granted, lock
<1>3. CASE Tick BY <1>3, TickPaid
<1>4. ASSUME NEW r \in Request, Arrive(r) \/ Get(r) \/ Exists(r) \/ Bypass(r)
      PROVE  Paid'
  <2>1. Granted' = Granted
    BY <1>4 DEF Arrive, Get, Exists, Bypass, StoreError, Finish, Goto, Granted,
                Section
  <2> QED BY <1>4, <2>1, StaysPaid DEF Arrive, Get, Exists, Bypass
<1>5. ASSUME NEW r \in Request, SetNX(r) PROVE Paid' BY <1>5, GrantPaid
<1>6. ASSUME NEW r \in Request, Handle(r) \/ Save(r) \/ DelLock(r) \/ Crash(r)
      PROVE  Paid'
  <2>1. \A q \in Request \ {r} : pc'[q] = pc[q]
    BY <1>6 DEF Handle, Save, DelLock, Crash, Finish, Goto
  <2>2. CASE pc[r] \in Section /\ pc'[r] \notin Section
    BY <1>1, <2>1, <2>2
  <2>3. CASE ~ (pc[r] \in Section /\ pc'[r] \notin Section)
    <3>1. Granted' = Granted /\ ~ DelLock(r)
      BY <1>6, <2>1, <2>3
      DEF Handle, Save, DelLock, Crash, Finish, Goto, Granted, Section
    <3> QED BY <1>6, <3>1, StaysPaid DEF Handle, Save, Crash
  <2> QED BY <2>2, <2>3
<1> QED BY <1>2, <1>3, <1>4, <1>5, <1>6 DEF Next, Serve

LEMMA NextOverlap == OverlapInv /\ [Next]_vars => OverlapInv'
<1> SUFFICES ASSUME OverlapInv, [Next]_vars PROVE OverlapInv'
  OBVIOUS
<1>0. TypeInv' /\ Paid' BY NextTypeInv, NextPaid DEF OverlapInv
<1> SUFFICES (Unspent /\ Skips)'
  BY <1>0 DEF OverlapInv
<1> USE DEF OverlapInv, Unspent, Skips, TypeInv, TypeOK, RequestsTyped, Goto,
            Finish, StoreError
<1>1. ASSUME NEW r \in Request, Arrive(r) PROVE (Unspent /\ Skips)'
  BY <1>1 DEF Arrive
<1>2. ASSUME NEW r \in Request, Crash(r) PROVE (Unspent /\ Skips)'
  BY <1>2 DEF Crash
<1>3. ASSUME NEW r \in Request, Serve(r) PROVE (Unspent /\ Skips)'
  <2>1. CASE Get(r) BY <2>1 DEF Get
  <2>2. CASE Exists(r) BY <2>2 DEF Exists
  <2>3. CASE SetNX(r) BY <2>3 DEF SetNX
  <2>4. CASE Handle(r) BY <2>4 DEF Handle
  <2>5. CASE Save(r) BY <2>5 DEF Save
  <2>6. CASE DelLock(r) BY <2>6 DEF DelLock
  <2>7. CASE Bypass(r) BY <2>7 DEF Bypass
  <2> QED BY <1>3, <2>1, <2>2, <2>3, <2>4, <2>5, <2>6, <2>7 DEF Serve
<1>4. CASE Tick BY <1>4 DEF Tick, Section
<1>5. CASE UNCHANGED vars BY <1>5 DEF vars
<1> QED BY <1>1, <1>2, <1>3, <1>4, <1>5 DEF Next

\* SETNX, the timeout and DEL of a lock without an owner: one granted request is
\* served at a time, and one more for each that outlived the timeout, for any
\* number of requests, failing calls, panics and crashes; and only those run
\* without the lock whose middleware skips errors of the store.
THEOREM NeverOverlap == Spec => []NoOverlap
<1>1. OverlapInv => NoOverlap
  <2> SUFFICES ASSUME OverlapInv
               PROVE  Cardinality(Granted) <= 1 + Cardinality(Overran)
    BY DEF NoOverlap, Granted, OverlapInv, Skips
  <2>1. Cardinality(Granted) \in Nat /\ Cardinality(Overran) \in Nat
    BY CardsAre DEF Granted, Overran
  <2> QED BY <2>1 DEF OverlapInv, Paid
<1> QED BY InitOverlap, NextOverlap, <1>1, PTL DEF Spec

-----------------------------------------------------------------------------
(* A stored result is final.                                               *)

\* A request that came after the result gets it, or the conflict of the second
\* check, or the error of the store: it never reaches the lock.
LateInv ==
  \A r \in Request : late[r] =>
    /\ stored # None
    /\ pc[r] \in {"getting", "checking", "done", "bypassing"}
    /\ pc[r] = "bypassing" => r \in SkipOnError

FinalInv == TypeInv /\ LateInv

LEMMA InitFinal == Init => FinalInv
BY InitTyped DEF Init, FinalInv, LateInv

LEMMA NextFinal == FinalInv /\ [Next]_vars => FinalInv'
<1> SUFFICES ASSUME FinalInv, [Next]_vars PROVE FinalInv'
  OBVIOUS
<1>0. TypeInv' BY NextTypeInv DEF FinalInv
<1> SUFFICES LateInv'
  BY <1>0 DEF FinalInv
<1> USE DEF FinalInv, LateInv, TypeInv, TypeOK, EntriesTyped, RequestsTyped,
            Goto, Finish, StoreError, result, None
<1>1. ASSUME NEW r \in Request, Arrive(r) PROVE LateInv'
  BY <1>1 DEF Arrive
<1>2. ASSUME NEW r \in Request, Get(r) PROVE LateInv'
  BY <1>2 DEF Get
<1>3. ASSUME NEW r \in Request, Exists(r) PROVE LateInv'
  BY <1>3 DEF Exists
<1>4. ASSUME NEW r \in Request, SetNX(r) PROVE LateInv'
  BY <1>4 DEF SetNX
<1>5. ASSUME NEW r \in Request, Handle(r) PROVE LateInv'
  BY <1>5 DEF Handle
<1>6. ASSUME NEW r \in Request, Save(r) PROVE LateInv'
  BY <1>6 DEF Save, HasOutcome, Outcome
<1>7. ASSUME NEW r \in Request, DelLock(r) PROVE LateInv'
  BY <1>7 DEF DelLock
<1>8. ASSUME NEW r \in Request, Bypass(r) PROVE LateInv'
  BY <1>8 DEF Bypass
<1>9. ASSUME NEW r \in Request, Crash(r) PROVE LateInv'
  BY <1>9 DEF Crash
<1>10. CASE Tick
  BY <1>10 DEF Tick
<1>11. CASE UNCHANGED vars
  BY <1>11 DEF vars
<1> QED BY <1>1, <1>2, <1>3, <1>4, <1>5, <1>6, <1>7, <1>8, <1>9, <1>10, <1>11
    DEF Next, Serve

\* A request that comes in after the result was stored never runs the handler
\* while the result lives, unless its middleware skips the check on errors.
THEOREM Final == Spec => []StoredIsFinal
<1>1. FinalInv => StoredIsFinal
  BY DEF FinalInv, LateInv, StoredIsFinal, Section
<1> QED BY InitFinal, NextFinal, <1>1, PTL DEF Spec

-----------------------------------------------------------------------------
(* A replay is true.                                                       *)

\* A request runs the handler once: no run overwrites what another one left.
NotRunYet ==
  \A r \in Request :
    pc[r] \in {"idle", "getting", "checking", "locking", "bypassing",
              "handling"}
      => ran[r] = None

\* What is stored is how a run ended, of a request that may be dead by now.
StoredIsRun == stored # None => \E q \in Request : ran[q] = stored

ReplayInv == TypeInv /\ NotRunYet /\ StoredIsRun /\ ReplayIsTrue

LEMMA InitReplay == Init => ReplayInv
BY InitTyped DEF Init, ReplayInv, NotRunYet, StoredIsRun, ReplayIsTrue, None

LEMMA NextRun ==
  ASSUME TypeInv, NotRunYet, [Next]_vars
  PROVE  /\ NotRunYet'
         /\ \A q \in Request : ran[q] # None => ran'[q] = ran[q]
<1> DEFINE Kept == /\ NotRunYet'
                   /\ \A q \in Request : ran[q] # None => ran'[q] = ran[q]
<1> USE DEF TypeInv, TypeOK, RequestsTyped, NotRunYet, Goto, Finish, StoreError
<1>1. CASE UNCHANGED <<pc, ran>> BY <1>1
<1>2. ASSUME NEW r \in Request, Arrive(r) PROVE Kept BY <1>2 DEF Arrive
<1>3. ASSUME NEW r \in Request, Crash(r) PROVE Kept BY <1>3 DEF Crash
<1>4. ASSUME NEW r \in Request, Serve(r) PROVE Kept
  <2>1. CASE Get(r) BY <2>1 DEF Get
  <2>2. CASE Exists(r) BY <2>2 DEF Exists
  <2>3. CASE SetNX(r) BY <2>3 DEF SetNX
  <2>4. CASE Handle(r) BY <2>4 DEF Handle
  <2>5. CASE Save(r) BY <2>5 DEF Save
  <2>6. CASE DelLock(r) BY <2>6 DEF DelLock
  <2>7. CASE Bypass(r) BY <2>7 DEF Bypass
  <2> QED BY <1>4, <2>1, <2>2, <2>3, <2>4, <2>5, <2>6, <2>7 DEF Serve
<1> QED BY <1>1, <1>2, <1>3, <1>4 DEF Next, Tick, vars

\* A stored result is written by the request whose run it is.
LEMMA NextStoredRun ==
  ASSUME ReplayInv, [Next]_vars
  PROVE  StoredIsRun'
<1>0. \A q \in Request : ran[q] # None => ran'[q] = ran[q]
  BY NextRun DEF ReplayInv
<1>1. CASE stored' \in {stored, None}
  BY <1>0, <1>1 DEF ReplayInv, StoredIsRun
<1>2. ASSUME NEW r \in Request, Save(r) PROVE StoredIsRun'
  <2>1. CASE stored' = ran[r]
    <3>1. ran'[r] = ran[r] BY <1>2 DEF Save
    <3> QED BY <2>1, <3>1 DEF StoredIsRun
  <2>2. CASE UNCHANGED stored BY <1>1, <2>2
  <2> QED BY <1>2, <2>1, <2>2 DEF Save, result
<1>3. CASE \A r \in Request : ~ Save(r)
  <2>1. stored' \in {stored, None}
    BY <1>3 DEF Next, Serve, vars, Tick, Arrive, Crash, Get, Exists, SetNX,
                Handle, DelLock, Bypass, result
  <2> QED BY <1>1, <2>1
<1> QED BY <1>2, <1>3

\* A replay is decoded from the result that is stored at its read.
LEMMA NextReplay ==
  ASSUME ReplayInv, [Next]_vars
  PROVE  ReplayIsTrue'
<1>0. /\ \A q \in Request : ran[q] # None => ran'[q] = ran[q]
      /\ answer \in [Request -> AnswerKind]
  BY NextRun DEF ReplayInv, TypeInv, TypeOK, RequestsTyped
<1> DEFINE Backed(a) ==
             /\ a = "replay_ok" => \E q \in Request : ran[q] = "ok"
             /\ a = "replay_raw" => \E q \in Request : ran[q] \in {"ok", "mute"}
             /\ a = "replay_error" => \E q \in Request : ran[q] = "error"
             /\ a = "replay_mute" => \E q \in Request : ran[q] = "mute"
<1>1. ASSUME NEW a, Backed(a) PROVE Backed(a)'
  BY <1>0, <1>1 DEF None
<1>2. ASSUME NEW r \in Request PROVE Backed(answer[r])
  BY DEF ReplayInv, ReplayIsTrue
<1>3. ASSUME NEW r \in Request, Get(r), answer'[r] = Decode(stored),
             stored # None
      PROVE  Backed(answer'[r])
  <2>1. PICK q \in Request : ran[q] = stored BY <1>3 DEF ReplayInv, StoredIsRun
  <2>2. stored \in Outcome
    BY <1>3 DEF ReplayInv, TypeInv, TypeOK, EntriesTyped
  <2>3. /\ answer'[r] = "replay_ok" => stored = "ok"
        /\ answer'[r] = "replay_raw" => stored \in {"ok", "mute"}
        /\ answer'[r] = "replay_error" => stored = "error"
        /\ answer'[r] = "replay_mute" => stored = "mute"
    BY <1>3, <2>2 DEF Decode, Outcome
  <2>4. CASE answer'[r] = "replay_ok" BY <2>1, <2>3, <2>4
  <2>5. CASE answer'[r] = "replay_raw" BY <2>1, <2>3, <2>5
  <2>6. CASE answer'[r] = "replay_error" BY <2>1, <2>3, <2>6
  <2>7. CASE answer'[r] = "replay_mute" BY <2>1, <2>3, <2>7
  <2> QED BY <2>4, <2>5, <2>6, <2>7
<1>4. ASSUME NEW r \in Request
      PROVE  answer'[r] \notin Replay \/ Backed(answer'[r])
  <2>1. CASE answer'[r] = answer[r] BY <1>2, <2>1
  <2>2. ASSUME NEW s \in Request, Get(s)
        PROVE  answer'[r] \notin Replay \/ Backed(answer'[r])
    <3>1. CASE s = r /\ stored # None /\ answer'[r] = Decode(stored)
      BY <1>3, <2>2, <3>1
    <3>2. CASE UNCHANGED answer \/ s # r
      <4>1. answer'[r] = answer[r]
        BY <1>0, <2>2, <3>2 DEF Get, Finish, StoreError
      <4> QED BY <2>1, <4>1
    <3>3. CASE s = r /\ answer'[r] = "failure" BY <3>3
    <3> QED BY <1>0, <2>2, <3>1, <3>2, <3>3 DEF Get, Finish, StoreError
  <2>3. CASE \A s \in Request : ~ Get(s)
    <3>1. answer'[r] \in {answer[r], "own", "conflict", "failure", "broken"}
      BY <1>0, <2>3
      DEF Next, Serve, vars, Tick, Arrive, Crash, Exists, SetNX, Handle, Save,
          DelLock, Bypass, Finish, StoreError
    <3> QED BY <2>1, <3>1
  <2> QED BY <2>2, <2>3
<1> USE DEF Replay
<1>5. ASSUME NEW r \in Request PROVE Backed(answer[r])'
  <2>1. CASE answer'[r] \notin Replay BY <2>1
  <2>2. CASE Backed(answer'[r])
    BY <1>0, <2>2 DEF None
  <2> QED BY <1>4, <2>1, <2>2
<1> QED BY <1>5 DEF ReplayIsTrue

\* A replay, whatever was lost, corrupted or repeated, says how a run of the
\* handler ended: none tells a success that never was.
THEOREM ReplaysAreTrue == Spec => []ReplayIsTrue
<1>1. ReplayInv /\ [Next]_vars => ReplayInv'
  BY NextTypeInv, NextRun, NextStoredRun, NextReplay DEF ReplayInv
<1>2. ReplayInv => ReplayIsTrue BY DEF ReplayInv
<1> QED BY InitReplay, <1>1, <1>2, PTL DEF Spec

-----------------------------------------------------------------------------
(* The chain: tables.                                                      *)

LEMMA CodesAre ==
  CodeNames = {"Success", "Unknown", "Canceled", "Timeout", "Unauthorized",
    "Forbidden", "TokenExpired", "TokenInvalid", "InvalidParam",
    "MissingParam", "ValidationFailed", "NotFound", "AlreadyExists",
    "Conflict", "ResourceExhausted", "Internal", "NotImplemented",
    "DatabaseError", "ServiceUnavailable", "UpstreamError"}
BY DEF CodeNames, Codes

\* The class of a code is kept on its way through a gRPC status.
LEMMA ClassesSurvive ==
  \A c \in CodeNames \ {"Success"} :
    /\ UnifiedErrorHandler(GRPCError(BusinessError(c))) \div 100
         = Codes[c].http \div 100
    /\ ShowsOwnMessage(BusinessError(c)) =>
         Codes[c].http < 500 \/ c \in {"Unknown", "Timeout"}
<1>1. \A c \in CodeNames \ {"Success"} :
        GRPCError(BusinessError(c)) = StatusError(Codes[c].grpc)
  BY CodesAre
     DEF GRPCError, BusinessError, Codes, Code, GRPCStatus, ExtractCode
<1>2. \A c \in CodeNames \ {"Success"} :
        ShowsOwnMessage(BusinessError(c)) =>
          Codes[c].http < 500 \/ c \in {"Unknown", "Timeout"}
  BY CodesAre DEF ShowsOwnMessage, BusinessError, ExtractCode, Codes, Code
<1> QED
  BY <1>1, <1>2, CodesAre
     DEF UnifiedErrorHandler, StatusError, FromGRPCStatus, Codes, Code

LEMMA RetriesSurvive ==
  \A g \in GRPCCodes \ {"Aborted"} :
    DefaultGRPCRetryable(StatusError(g)) =>
      DefaultGRPCRetryable(StatusError(HTTPToGRPCCode(GRPCCodeToHTTP(g))))
<1> SUFFICES ASSUME NEW g \in {"Unavailable", "ResourceExhausted",
                               "DeadlineExceeded"}
             PROVE  HTTPToGRPCCode(GRPCCodeToHTTP(g)) \in
                      {"Unavailable", "ResourceExhausted", "Aborted",
                       "DeadlineExceeded"}
  BY DEF DefaultGRPCRetryable, StatusError
<1>1. GRPCCodeToHTTP(g) = CASE g = "Unavailable" -> 503
                            [] g = "ResourceExhausted" -> 429
                            [] g = "DeadlineExceeded" -> 504
  BY DEF GRPCCodeToHTTP, FromGRPCStatus, Codes, Code
<1> QED BY <1>1 DEF HTTPToGRPCCode

-----------------------------------------------------------------------------
\* The doors.
LEMMA ValidIsGood ==
  ASSUME NEW tok \in Tokens \cup Forged
  PROVE  Validate(tok) <=> Good(tok)
<1>1. tok # NoToken BY NoTokenAssumption
<1> QED BY <1>1 DEF Validate, Parses, ValidateCachedToken, StoreGet, Good

LEMMA DoorsDo ==
  ASSUME now \in Nat
  PROVE  DoorsAgree
<1> SUFFICES ASSUME NEW tok \in Tokens \cup Forged
             PROVE
    LET Carry(f) == [form |-> f, tok |-> tok, internal |-> TRUE,
                     path |-> <<>>]
    IN
    /\ \A f \in Forms :
         "Success" \in Verdicts(Carry(f), "default", NoAuthorizer)
                         \cup JWTVerdicts(Carry(f)) => Good(tok)
    /\ Good(tok) => Verdicts(Carry("Bearer"), "default", NoAuthorizer)
                      \cup JWTVerdicts(Carry("Bearer")) = {"Success"}
    /\ "Success" \notin Verdicts(Carry("Bearer"), "default", AdminsOnly)
    /\ Good(tok) => Verdicts(Carry("Bearer"), "custom", AdminsOnly) =
                      {IF tok.sub \in Admins THEN "Success" ELSE "Forbidden"}
  BY DEF DoorsAgree
<1> DEFINE Carry(f) == [form |-> f, tok |-> tok, internal |-> TRUE,
                        path |-> <<>>]
<1>1. tok # NoToken /\ (Validate(tok) <=> Good(tok)) /\ ~ Validate(NoToken)
  BY NoTokenAssumption, ValidIsGood DEF Validate
<1>2. tok.exp \in Int
  BY AuthAssumption DEF Tokens, Forged, Token
<1>3. Good(tok) => ~ (now > tok.exp)
  BY <1>2 DEF Good
<1> DEFINE D(creds, mapper, a) == Door(FALSE, creds, mapper, a)
<1> DEFINE Cs(f) == {HTTPCredentials(Carry(f)), GRPCCredentials(Carry(f)),
                     EndpointCredentials(Carry(f)), BearerExtractor(Carry(f)),
                     GRPCBearerExtractor(Carry(f))}
<1>4. \A f \in Forms : \A c \in Cs(f) :
        c \in {NoCreds, Creds("bearer", tok), Creds("api_key", tok),
               Creds("", tok)}
  <2> TAKE f \in Forms
  <2>1. Carry(f).form = f /\ Carry(f).tok = tok OBVIOUS
  <2> HIDE DEF Carry
  <2>2. HTTPCredentials(Carry(f)) \in {NoCreds, Creds("bearer", tok),
                                       Creds("api_key", tok)}
    BY <2>1 DEF HTTPCredentials, Forms
  <2>3. GRPCCredentials(Carry(f)) \in {NoCreds, Creds("bearer", tok),
                                       Creds("api_key", tok)}
    BY <2>1 DEF GRPCCredentials, Forms
  <2>4. EndpointCredentials(Carry(f)) \in {NoCreds, Creds("bearer", tok),
                                           Creds("", tok)}
    BY <2>1 DEF EndpointCredentials, Forms
  <2>5. BearerExtractor(Carry(f)) \in {NoCreds, Creds("bearer", tok)}
    BY <2>1 DEF BearerExtractor, Forms
  <2>6. GRPCBearerExtractor(Carry(f)) \in {NoCreds, Creds("bearer", tok)}
    BY <2>1 DEF GRPCBearerExtractor, Forms
  <2> QED BY <2>2, <2>3, <2>4, <2>5, <2>6
<1>5. ASSUME NEW type \in {"bearer", "api_key", "", "none"},
             NEW t \in {tok, NoToken},
             NEW mapper, NEW a, D(Creds(type, t), mapper, a) = "Success"
      PROVE  Good(tok)
  <2>1. Authenticate(mapper, Creds(type, t))
    <3> SUFFICES ASSUME ~ Authenticate(mapper, Creds(type, t))
                 PROVE  D(Creds(type, t), mapper, a) = "Unauthorized"
      BY <1>5
    <3> QED BY DEF Door
  <2>2. Validate(t) BY <2>1 DEF Authenticate, Creds
  <2> QED BY <1>1, <2>2
<1>55. \A c \in Cs("Bearer") : c = Creds("bearer", tok)
  BY DEF HTTPCredentials, GRPCCredentials, EndpointCredentials,
     BearerExtractor, GRPCBearerExtractor
<1>6. ASSUME Good(tok), NEW mapper, NEW a
      PROVE  D(Creds("bearer", tok), mapper, a) =
               IF Authorize(a, MapClaims(mapper, tok))
               THEN "Success" ELSE "Forbidden"
  BY <1>1, <1>3, <1>6
     DEF Door, Authenticate, Creds, IsExpired, MapClaims
<1>7. \A mapper : /\ Authorize(NoAuthorizer, MapClaims(mapper, tok))
                  /\ Authorize(AdminsOnly, MapClaims(mapper, tok)) <=>
                       mapper = "custom" /\ tok.sub \in Admins
  BY DEF Authorize, NoAuthorizer, AdminsOnly, MapClaims, HasAllRoles, HasAnyRole
<1>8. \A f, mapper, a :
        Verdicts(Carry(f), mapper, a) = {D(c, mapper, a) : c \in Cs(f)}
  <2> TAKE f, mapper, a
  <2>1. Verdicts(Carry(f), mapper, a) =
          {D(HTTPCredentials(Carry(f)), mapper, a),
           D(GRPCCredentials(Carry(f)), mapper, a),
           D(EndpointCredentials(Carry(f)), mapper, a),
           D(BearerExtractor(Carry(f)), mapper, a),
           D(GRPCBearerExtractor(Carry(f)), mapper, a)}
    <3> HIDE DEF Carry
    <3> QED BY Zenon DEF Verdicts, HTTPDoor, UnaryDoor, StreamDoor, EndpointDoor
  <2> HIDE DEF Carry, D
  <2> QED BY <2>1
<1>9. \A mapper, a : Verdicts(Carry("Bearer"), mapper, a) =
        {D(Creds("bearer", tok), mapper, a)}
  <2> TAKE mapper, a
  <2>1. Cs("Bearer") = {Creds("bearer", tok)} BY <1>55
  <2> HIDE DEF Cs, D, Carry
  <2> QED BY <2>1, <1>8
<1>10. \A f : \A v \in JWTVerdicts(Carry(f)) : v = "Success" => Good(tok)
  BY <1>1 DEF JWTVerdicts, JWTParser, JWTHTTP, JWTUnary, JWTStream, JWTVerdict,
     IsWhitelisted, NoList, ExtractToken
<1>11. Good(tok) => JWTVerdicts(Carry("Bearer")) = {"Success"}
  BY <1>1 DEF JWTVerdicts, JWTParser, JWTHTTP, JWTUnary, JWTStream, JWTVerdict,
     ExtractToken
<1>12. ASSUME NEW f \in Forms,
              "Success" \in Verdicts(Carry(f), "default", NoAuthorizer)
                              \cup JWTVerdicts(Carry(f))
       PROVE  Good(tok)
  <2>1. CASE "Success" \in JWTVerdicts(Carry(f)) BY <1>10, <2>1
  <2>2. CASE "Success" \in Verdicts(Carry(f), "default", NoAuthorizer)
    <3> HIDE DEF Cs, D, Carry
    <3>1. PICK c \in Cs(f) : D(c, "default", NoAuthorizer) = "Success"
      BY <2>2, <1>8
    <3>2. \E type \in {"bearer", "api_key", "", "none"}, t \in {tok, NoToken} :
            c = Creds(type, t)
      BY <1>4 DEF NoCreds
    <3> QED BY <1>5, <3>1, <3>2
  <2> QED BY <1>12, <2>1, <2>2
<1>13. Good(tok) => Verdicts(Carry("Bearer"), "default", NoAuthorizer)
                      \cup JWTVerdicts(Carry("Bearer")) = {"Success"}
  <2> HIDE DEF D, Carry
  <2> QED BY <1>6, <1>7, <1>9, <1>11
<1>14. "Success" \notin Verdicts(Carry("Bearer"), "default", AdminsOnly)
  <2> SUFFICES ASSUME "Success" \in Verdicts(Carry("Bearer"), "default",
                                             AdminsOnly)
               PROVE  FALSE
    OBVIOUS
  <2>1. D(Creds("bearer", tok), "default", AdminsOnly) = "Success" BY <1>9
  <2>2. Good(tok) BY <1>5, <2>1 DEF Creds
  <2> QED BY <1>6, <1>7, <2>1, <2>2
<1>15. Good(tok) => Verdicts(Carry("Bearer"), "custom", AdminsOnly) =
                      {IF tok.sub \in Admins THEN "Success" ELSE "Forbidden"}
  <2> HIDE DEF D, Carry
  <2> QED BY <1>6, <1>7, <1>9
<1> QED BY <1>12, <1>13, <1>14, <1>15

-----------------------------------------------------------------------------
\* Whose request it is.
LEMMA MaxIs ==
  ASSUME NEW T \in SUBSET (1 .. 2), T # {}
  PROVE  Max(T) \in T /\ \A y \in T : y <= Max(T)
<1>1. \E x \in T : \A y \in T : x >= y
  <2>1. CASE 2 \in T BY <2>1
  <2>2. CASE 2 \notin T
    <3>1. \A x \in T : x = 1 BY <2>2
    <3>2. 1 \in T BY <3>1
    <3>3. \A y \in T : 1 >= y BY <3>1
    <3> QED BY <3>2, <3>3
  <2> QED BY <2>1, <2>2
<1> QED BY <1>1 DEF Max

LEMMA NearestIsTold ==
  ASSUME NEW peer \in Addrs, NEW r \in IPRequests(peer),
         NEW nets \in SUBSET Addrs
  PROVE
    LET o == TrustedProxies(nets)
        ip == ExtractFromHTTP(r, o)
    IN
    /\ ip \in Addrs
    /\ r.md => \A p \in {o, TrustAll} :
                 ExtractFromGRPC(r, p) = ExtractFromHTTP(r, p)
    /\ ~(\E i \in DOMAIN r.xff : r.xff[i] = Junk)
         /\ (\E a \in Addrs : IsFirstStranger(r, o, a))
         => IsFirstStranger(r, o, ip)
<1> DEFINE o == TrustedProxies(nets)
           ip == ExtractFromHTTP(r, o)
<1>1. /\ r.peer = peer /\ peer # NoIP
      /\ r.xff \in UNION {[1 .. n -> Hosts] : n \in 0 .. 2}
  BY ClientIPAssumption DEF IPRequests
<1>2. PICK n \in 0 .. 2 : r.xff \in [1 .. n -> Hosts] BY <1>1
<1>3. r.xff \in Seq(Hosts) /\ Len(r.xff) = n /\ DOMAIN r.xff = 1 .. n
      /\ \A i \in 1 .. n : r.xff[i] \in Hosts
  BY <1>2
<1>4. ip \in Addrs
  BY <1>1 DEF ExtractFromHTTP, FromHeaders, IsValidIP
<1>5. r.md => \A p \in {o, TrustAll} :
                ExtractFromGRPC(r, p) = ExtractFromHTTP(r, p)
  BY <1>1 DEF ExtractFromGRPC, ExtractFromHTTP
<1>6. ASSUME ~ (\E i \in DOMAIN r.xff : r.xff[i] = Junk),
             NEW a \in Addrs, IsFirstStranger(r, o, a)
      PROVE  IsFirstStranger(r, o, ip)
  <2> DEFINE hops == Append(r.xff, r.peer)
  <2>1. Len(hops) = n + 1 /\ hops[n + 1] = peer
        /\ \A i \in 1 .. n : hops[i] = r.xff[i]
    BY <1>1, <1>3
  <2>2. PICK i \in 1 .. n + 1 :
          /\ hops[i] = a /\ a # NoIP /\ ~ IsTrustedProxy(o, a)
          /\ \A j \in i + 1 .. n + 1 :
               hops[j] = NoIP \/ IsTrustedProxy(o, hops[j])
    BY <1>6, <2>1 DEF IsFirstStranger
  <2> HIDE DEF hops
  <2>3. CASE ~ IsTrustedProxy(o, peer)
    <3>1. ip = peer BY <1>1, <2>3 DEF ExtractFromHTTP
    <3>2. n + 1 \in 1 .. Len(hops) /\ \A j \in n + 1 + 1 .. Len(hops) : FALSE
      BY <2>1
    <3> QED BY <1>1, <2>1, <2>3, <3>1, <3>2 DEF IsFirstStranger, hops
  <2>4. CASE IsTrustedProxy(o, peer)
    <3> DEFINE others == {k \in 1 .. Len(r.xff) :
                   r.xff[k] # NoIP /\ ~IsTrustedProxy(o, r.xff[k])}
               m == Max(others)
    <3>1. i \in 1 .. n
      <4>1. i # n + 1 BY <2>1, <2>2, <2>4
      <4> QED BY <4>1
    <3>2. i \in others /\ others \in SUBSET (1 .. 2)
      BY <1>3, <2>1, <2>2, <3>1
    <3>3. m \in others /\ \A y \in others : y <= m
      BY <3>2, MaxIs
    <3> HIDE DEF m
    <3>4. ~ o.all BY <2>2 DEF IsTrustedProxy
    <3>5. Forwarded(r, o) = r.xff[m]
      BY <1>3, <3>1, <3>2, <3>4
         DEF Forwarded, ParseXForwardedForWithTrust, m
    <3>6. m \in 1 .. n /\ r.xff[m] \in Addrs
      BY <1>3, <1>6, <3>3 DEF Hosts
    <3>7. ip = r.xff[m]
      BY <1>1, <2>4, <3>5, <3>6 DEF ExtractFromHTTP, FromHeaders, IsValidIP
    <3>8. \A j \in m + 1 .. n + 1 :
            hops[j] = NoIP \/ IsTrustedProxy(o, hops[j])
      <4> TAKE j \in m + 1 .. n + 1
      <4>1. CASE j = n + 1 BY <2>1, <2>4, <4>1
      <4>2. CASE j # n + 1
        <5>1. j \in 1 .. n /\ j > m BY <3>6, <4>2
        <5>2. j \notin others BY <3>3, <3>6, <5>1
        <5> QED BY <1>3, <2>1, <5>1, <5>2
      <4> QED BY <4>1, <4>2
    <3> HIDE DEF o, ip
    <3>9. /\ m \in 1 .. Len(hops) /\ hops[m] = ip /\ ip # NoIP
          /\ ~ IsTrustedProxy(o, ip)
      BY <2>1, <3>3, <3>6, <3>7
    <3> QED BY <2>1, <3>8, <3>9 DEF IsFirstStranger, hops
  <2> QED BY <2>3, <2>4
<1> QED BY <1>4, <1>5, <1>6

LEMMA NearestIs ==
  ASSUME req.peer \in Addrs
  PROVE  ClientIsNearest
<1> SUFFICES ASSUME NEW r \in IPRequests(req.peer), NEW nets \in SUBSET Addrs
             PROVE
    LET o == TrustedProxies(nets)
        ip == ExtractFromHTTP(r, o)
    IN
    /\ r.md => \A p \in {o, TrustAll} :
                 ExtractFromGRPC(r, p) = ExtractFromHTTP(r, p)
    /\ ~(\E i \in DOMAIN r.xff : r.xff[i] = Junk)
         /\ (\E a \in Addrs : IsFirstStranger(r, o, a))
         => IsFirstStranger(r, o, ip)
    /\ \A mode \in {"allow", "deny"} :
         /\ ~IsAllowed(ACL(Addrs, Denied, mode), ip) <=> ip \in Denied
         /\ \A c \in {Country[a] : a \in Addrs} \ {NoIP} :
              CheckCountry(ACL({c}, {}, mode), ip) <=>
                CountryOf(ip) = c \/ mode = "allow"
  BY DEF ClientIsNearest
<1> DEFINE o == TrustedProxies(nets)
           ip == ExtractFromHTTP(r, o)
<1>1. /\ ip \in Addrs
      /\ r.md => \A p \in {o, TrustAll} :
                   ExtractFromGRPC(r, p) = ExtractFromHTTP(r, p)
      /\ ~(\E i \in DOMAIN r.xff : r.xff[i] = Junk)
           /\ (\E a \in Addrs : IsFirstStranger(r, o, a))
           => IsFirstStranger(r, o, ip)
  BY NearestIsTold
<1> HIDE DEF o, ip
<1>2. \A mode \in {"allow", "deny"} :
        /\ ~IsAllowed(ACL(Addrs, Denied, mode), ip) <=> ip \in Denied
        /\ \A c \in {Country[a] : a \in Addrs} \ {NoIP} :
             CheckCountry(ACL({c}, {}, mode), ip) <=>
               CountryOf(ip) = c \/ mode = "allow"
  BY <1>1 DEF IsAllowed, ACL, IsValidIP, CheckCountry, CountryIsAllowed
<1> QED BY <1>1, <1>2 DEF o, ip

-----------------------------------------------------------------------------
\* What a handler, or a door before it, may have said.
Outs ==
  IF HTTP THEN {Response(c) : c \in {"Success", "Conflict",
                  "ServiceUnavailable", "Internal", "Unauthorized",
                  "Forbidden"}}
  ELSE HandlerErrors \cup {PlainError}
         \cup {StatusError(g) : g \in {"Internal", "Unauthenticated",
                                       "PermissionDenied"}}

InLock == {"lock", "make", "pick", "send", "in", "unlock"}
Ts == {"m", "h"}
AttTyped(a) ==
  a \in [m : {"none", "gate", "run", "wait", "hung", "gone"} \cup InLock,
         h : {"none", "gate", "run", "hung", "done"} \cup InLock,
         late : BOOLEAN, out : {NoAnswer} \cup Outs,
         ans : {NoAnswer} \cup {Response(c) : c \in CodeNames}
                 \cup {Answer(o) : o \in Outs} \cup {Answer(TimedOut)},
         ch : Nat, made : Nat, full : SUBSET Nat, on : [Ts -> Nat],
         wrote : BOOLEAN, sent : BOOLEAN,
         head : {"none", "Success", "Conflict", "ServiceUnavailable",
                 "Internal", "Unauthorized", "Forbidden"},
         body : SUBSET Ts]

\* Which goroutine is where, and what there is by then.
Placed(a) ==
  /\ a.h # "none" \/ a.m \in {"wait"} \cup InLock => cfg.timed
  /\ a.h \in InLock \/ a.m \in InLock => HTTP
  /\ a.m \in {"none", "gate", "run", "hung"} => a.h = "none"
  /\ a.m \in {"run", "hung"} => ~ cfg.timed
  /\ a.m \in {"wait"} \cup InLock => a.h # "none"
  /\ a.m = "gate" /\ cfg.timed => HTTP
  /\ a.h = "gate" => ~ HTTP
  /\ a.m = "gone" => a.h \notin InLock
  /\ a.h \in {"gate", "run", "hung"} \/ (a.h = "none" /\ a.m # "gone") =>
       a.out = NoAnswer
  /\ a.h \in InLock \cup {"done"} => a.out # NoAnswer
  /\ a.late => a.m \in {"wait", "gone"} \cup InLock
  /\ a.m \in InLock => a.late
  /\ (a.ans # NoAnswer) <=> (a.m = "gone")

\* The response of the HTTP timeout: whoever writes its status writes it once.
Written(a) ==
  /\ a.wrote => a.h \in InLock \cup {"done"} \/ (a.m = "gone" /\ ~ cfg.timed)
  /\ a.head = "none" <=> ~ a.wrote /\ "m" \notin a.body
  /\ "m" \in a.body => a.head = "ServiceUnavailable"
  /\ a.wrote /\ a.head = "Success" => IsOK(a.out) \/ a.out = Recovered
  /\ "m" \in a.body => a.m \in {"unlock", "gone"}
  /\ a.wrote /\ "m" \notin a.body /\ a.out # Recovered =>
       a.head = a.out.name
  /\ a.h = "unlock" => a.wrote
  /\ a.h = "done" /\ a.m # "gone" /\ HTTP => a.wrote
  /\ a.sent => "h" \in a.body
  /\ a.m = "unlock" => a.head # "none"
  /\ a.h = "done" /\ HTTP /\ ~ a.late => a.out = Recovered \/ "h" \in a.body

\* Where the answer comes from.
Answered(a) ==
  a.m = "gone" =>
    /\ ~ a.late => /\ \/ a.ans = Answer(a.out)
                      \/ HTTP /\ a.wrote /\ a.out = Recovered
                   /\ a.out \in Outs /\ a.h \in {"none", "done"}
    /\ HTTP /\ cfg.timed /\ a.h = "none" => ~ IsOK(a.out)
    /\ IsOK(a.ans) => \/ a.h \in {"none", "done"} /\ IsOK(a.out)
                      \/ HTTP /\ a.wrote /\ a.out = Recovered
                      \/ cfg.proto = "fallback" /\ a.late

Attempted(a) == AttTyped(a) /\ Placed(a) /\ Written(a) /\ Answered(a)

\* An attempt the client has gone on from was answered by something it
\* retries, unless the server died, its answer was lost or the client may not
\* go on.
MovedOn(i) == i < cli.n \/ (i = cli.n /\ cli.pc = "wait")
Later(i) == {j \in Attempt : j > i}
Retried ==
  /\ cli = [pc |-> cli.pc, n |-> cli.n, ans |-> cli.ans]
  /\ cli.n \in Attempt /\ (cli.pc = "wait" => cli.n < MaxAttempts)
  /\ \A i \in Attempt : i > cli.n \/ (i = cli.n /\ cli.pc = "check") =>
       att[i] = NoAttempt
  /\ \A i \in Attempt : MovedOn(i) =>
       \/ att[i].m = "gone" /\ Retryable(att[i].ans)
       \/ ~ up /\ \A j \in Later(i) : att[j].out = NoAnswer
       \/ expired /\ \A j \in Later(i) : att[j] = NoAttempt
       \/ i \in cut

ChainInv ==
  /\ cfg \in Configs /\ req \in Requests /\ now \in Nat
  /\ att = [i \in Attempt |-> att[i]]
  /\ \A i \in Attempt : Attempted(att[i])
  /\ Retried
  /\ PanicContained

LEMMA ConfigIs ==
  ASSUME cfg \in Configs
  PROVE  /\ cfg.proto \in {"http", "grpc", "gateway", "endpoint", "fallback"}
         /\ cfg.proto = "gateway" => cfg.mapped
BY ChainAssumption

LEMMA SaidIs ==
  ASSUME cfg \in Configs
  PROVE  /\ Recovered \in Outs /\ ~ IsOK(Recovered)
         /\ \A err \in HandlerErrors : Returned(err) \in Outs
         /\ Verdict # "Success" =>
              Refusal(Verdict) \in Outs /\ ~ IsOK(Refusal(Verdict))
<1>1. cfg.proto \in {"http", "grpc", "gateway", "endpoint", "fallback"}
  BY ConfigIs
<1>2. Recovered \in Outs /\ ~ IsOK(Recovered)
  BY <1>1 DEF Recovered, Outs, HTTP, InProcess, IsOK, Response, PlainError,
     StatusError
<1>3. \A err \in HandlerErrors : Returned(err) \in Outs
  BY <1>1 DEF HandlerErrors, Returned, Outs, HTTP, ExtractCode, NoErr,
     BusinessError
<1>4. Verdict \in {"Success", "Unauthorized", "Forbidden"}
  BY <1>1 DEF Verdict, AuthVerdict, IPVerdict, HTTPDoor, UnaryDoor,
     EndpointDoor, Door
<1>5. /\ Codes["Unauthorized"].grpc = "Unauthenticated"
      /\ Codes["Forbidden"].grpc = "PermissionDenied"
  BY DEF Codes, Code
<1>6. \A code \in {"Unauthorized", "Forbidden"} :
        Refusal(code) \in Outs /\ ~ IsOK(Refusal(code))
  BY <1>1, <1>5 DEF Refusal, Outs, HTTP, InProcess, IsOK, Response,
     PlainError, StatusError
<1> QED BY <1>2, <1>3, <1>4, <1>6

LEMMA AnswersAre ==
  ASSUME cfg \in Configs, NEW o \in Outs
  PROVE  /\ o # NoAnswer /\ Answer(o) # NoAnswer
         /\ IsOK(Answer(o)) <=> IsOK(o)
         /\ IsOK(o) => ~ Retryable(Answer(o))
         /\ cfg.proto = "gateway" =>
              Codes[Answer(o).name].http \div 100 =
                IF o.kind = "status" THEN 5
                ELSE Codes[ExtractCode(o)].http \div 100
<1>1. /\ cfg.proto \in {"http", "grpc", "gateway", "endpoint", "fallback"}
      /\ cfg.proto = "gateway" => cfg.mapped
  BY ConfigIs
<1>2. /\ Codes["Success"].http = 200 /\ Codes["Success"].grpc = "OK"
      /\ Codes["Conflict"].grpc = "Aborted"
      /\ Codes["ServiceUnavailable"].grpc = "Unavailable"
      /\ Codes["Internal"].grpc = "Internal"
      /\ Codes["Internal"].http = 500 /\ Codes["Conflict"].http = 409
      /\ Codes["ServiceUnavailable"].http = 503
  BY DEF Codes, Code
<1>3. o \in {Response(c) : c \in {"Success", "Conflict", "ServiceUnavailable",
                                  "Internal", "Unauthorized", "Forbidden"}}
           \cup {NoErr, BusinessError("Conflict"),
                 BusinessError("ServiceUnavailable"), PlainError}
           \cup {StatusError(g) : g \in {"Internal", "Unauthenticated",
                                         "PermissionDenied"}}
      /\ (HTTP <=> \E c : o = Response(c))
  BY DEF Outs, HandlerErrors, HTTP, Response, NoErr, BusinessError, PlainError,
     StatusError
<1>4. o # NoAnswer
  BY <1>3 DEF NoAnswer, Response, NoErr, BusinessError, PlainError, StatusError
<1>5. CASE HTTP
  <2>1. Answer(o) = o BY <1>5 DEF Answer, HTTP
  <2>2. PICK c : o = Response(c) BY <1>3, <1>5
  <2>3. IsOK(o) => ~ Retryable(o)
    BY <1>2, <1>5, <2>2 DEF IsOK, Retryable, HTTP, HTTPRetry, Response,
       DefaultHTTPRetryable, RetryOnConnectionError
  <2> QED BY <1>4, <1>5, <2>1, <2>3 DEF HTTP
<1>6. CASE cfg.proto \in {"endpoint", "fallback"}
  <2>1. Answer(o) = o BY <1>6 DEF Answer
  <2> QED BY <1>4, <1>6, <2>1 DEF Retryable, EndpointRetry
<1>7. ASSUME ~ HTTP
      PROVE  /\ Wire(MapResponse(o)) # NoAnswer
             /\ IsOK(Wire(MapResponse(o))) <=> IsOK(o)
             /\ IsOK(Wire(MapResponse(o))) => Wire(MapResponse(o)) = NoErr
             /\ cfg.mapped => Wire(MapResponse(o)) = GRPCError(o)
             /\ GRPCError(o) =
                  CASE o = NoErr -> NoErr
                    [] o = BusinessError("Conflict") -> StatusError("Aborted")
                    [] o = BusinessError("ServiceUnavailable") ->
                         StatusError("Unavailable")
                    [] OTHER -> StatusError("Internal")
  <2>1. o \in {NoErr, BusinessError("Conflict"),
                 BusinessError("ServiceUnavailable"), PlainError}
           \cup {StatusError(g) : g \in {"Internal", "Unauthenticated",
                                         "PermissionDenied"}}
    BY <1>3, <1>7
  <2>2. GRPCError(o) =
          CASE o = NoErr -> NoErr
            [] o = BusinessError("Conflict") -> StatusError("Aborted")
            [] o = BusinessError("ServiceUnavailable") ->
                 StatusError("Unavailable")
            [] OTHER -> StatusError("Internal")
    BY <1>2, <2>1 DEF GRPCError, GRPCStatus, ExtractCode, NoErr,
       BusinessError, PlainError, StatusError
  <2>3. /\ GRPCError(o) \in {NoErr} \cup
             {StatusError(g) : g \in {"Aborted", "Unavailable", "Internal"}}
        /\ GRPCError(o) = NoErr <=> o = NoErr
        /\ IsOK(o) <=> o = NoErr
    BY <2>1, <2>2 DEF IsOK, NoErr, BusinessError, PlainError, StatusError
  <2>4. Wire(GRPCError(o)) = GRPCError(o)
    BY <2>3 DEF Wire, NoErr, StatusError
  <2>5. /\ Wire(o) # NoAnswer /\ (IsOK(Wire(o)) <=> IsOK(o))
        /\ IsOK(Wire(o)) => Wire(o) = NoErr
    BY <2>1 DEF Wire, IsOK, NoAnswer, NoErr, BusinessError, PlainError,
       StatusError
  <2>6. /\ GRPCError(o) # NoAnswer /\ (IsOK(GRPCError(o)) <=> IsOK(o))
        /\ IsOK(GRPCError(o)) => GRPCError(o) = NoErr
    BY <2>3 DEF IsOK, NoAnswer, NoErr, StatusError
  <2> QED BY <2>2, <2>4, <2>5, <2>6 DEF MapResponse
<1>8. CASE cfg.proto = "grpc"
  <2>1. Answer(o) = Wire(MapResponse(o)) BY <1>8 DEF Answer
  <2>2. ~ HTTP BY <1>8 DEF HTTP
  <2> QED BY <1>4, <1>7, <1>8, <2>1, <2>2 DEF Retryable, GRPCRetry
<1>9. CASE cfg.proto = "gateway"
  <2>1. /\ ~ HTTP /\ Answer(o) = Response(FromGRPCError(GRPCError(o)))
        /\ Wire(MapResponse(o)) = GRPCError(o)
    BY <1>1, <1>7, <1>9 DEF HTTP, Answer
  <2>2. o \in {NoErr, BusinessError("Conflict"),
                 BusinessError("ServiceUnavailable"), PlainError}
           \cup {StatusError(g) : g \in {"Internal", "Unauthenticated",
                                         "PermissionDenied"}}
    BY <1>3, <2>1
  <2>3. Answer(o) = Response(CASE o = NoErr -> "Success"
                    [] o = BusinessError("Conflict") -> "Conflict"
                    [] o = BusinessError("ServiceUnavailable") ->
                         "ServiceUnavailable"
                    [] OTHER -> "Internal")
    BY <1>7, <2>1 DEF FromGRPCError, FromGRPCStatus, NoErr, StatusError
  <2>4. Answer(o) # NoAnswer /\ (IsOK(Answer(o)) <=> IsOK(o))
    BY <2>2, <2>3 DEF NoAnswer, IsOK, Response, NoErr, BusinessError,
       PlainError, StatusError
  <2>5. IsOK(o) => ~ Retryable(Answer(o))
    <3>1. PICK c : Answer(o) = Response(c) BY <2>3
    <3>2. IsOK(o) => c = "Success" BY <2>4, <3>1 DEF IsOK, Response
    <3>3. ~ HTTPRetry(Response("Success"))
      BY <1>2 DEF HTTPRetry, Response, DefaultHTTPRetryable,
         RetryOnConnectionError
    <3> QED BY <1>9, <3>1, <3>2, <3>3 DEF Retryable
  <2>6. Codes[Answer(o).name].http \div 100 =
          IF o.kind = "status" THEN 5
          ELSE Codes[ExtractCode(o)].http \div 100
    BY <1>2, <2>2, <2>3 DEF Response, ExtractCode, NoErr, BusinessError,
       PlainError, StatusError
  <2> QED BY <1>4, <2>4, <2>5, <2>6
<1> QED BY <1>1, <1>5, <1>6, <1>8, <1>9 DEF HTTP

LEMMA TimedOutIs ==
  ASSUME cfg \in Configs
  PROVE  /\ Answer(TimedOut) # NoAnswer
         /\ IsOK(Answer(TimedOut)) => HTTP \/ cfg.proto = "fallback"
<1>1. /\ cfg.proto \in {"http", "grpc", "gateway", "endpoint", "fallback"}
      /\ cfg.proto = "gateway" => cfg.mapped
  BY ConfigIs
<1>2. Codes["Internal"].grpc = "Internal" BY DEF Codes, Code
<1>3. GRPCError(StatusError("DeadlineExceeded")) = StatusError("Internal")
  BY <1>2 DEF GRPCError, GRPCStatus, ExtractCode, StatusError
<1>4. \A g \in {"DeadlineExceeded", "Internal"} :
        /\ Wire(StatusError(g)) = StatusError(g)
        /\ FromGRPCError(StatusError(g)) \in {"Timeout", "Internal"}
  BY DEF Wire, StatusError, FromGRPCError, FromGRPCStatus
<1>5. MapResponse(StatusError("DeadlineExceeded")) \in
        {StatusError("DeadlineExceeded"), StatusError("Internal")}
  BY <1>3 DEF MapResponse
<1>6. CASE cfg.proto \in {"http", "grpc", "gateway"}
  <2>1. TimedOut = StatusError("DeadlineExceeded") BY <1>6 DEF TimedOut
  <2> QED BY <1>4, <1>5, <1>6, <2>1
         DEF Answer, IsOK, NoAnswer, HTTP, Response, StatusError
<1>7. CASE cfg.proto \in {"endpoint", "fallback"}
  BY <1>7 DEF Answer, TimedOut, CtxErr, Fallback, NoAnswer, IsOK
<1> QED BY <1>1, <1>6, <1>7

-----------------------------------------------------------------------------
\* The server: one attempt changes, and an answered one keeps its answer.
LEMMA ServerKeeps ==
  ASSUME ChainInv, NEW i \in Attempt, NEW b, SetAtt(i, b), Attempted(b), up,
         UnchangedButAtt, att[i].m # "none",
         att[i].m = "gone" => b.m = "gone" /\ b.ans = att[i].ans
  PROVE  ChainInv'
<1>1. /\ att' = [att EXCEPT ![i] = b] /\ att = [j \in Attempt |-> att[j]]
      /\ UNCHANGED <<cfg, req, cli, expired, cut, up, now>>
  BY DEF ChainInv, SetAtt, UnchangedButAtt, authVars
<1>2. /\ att'[i] = b /\ \A j \in Attempt \ {i} : att'[j] = att[j]
      /\ att' = [j \in Attempt |-> att'[j]]
  BY <1>1
<1>3. \A j \in Attempt : Attempted(att[j])' <=> Attempted(att'[j])
  BY <1>1 DEF Attempted, AttTyped, Placed, Written, Answered, Outs, HTTP,
     Response, HandlerErrors, Answer, TimedOut, Recovered, InProcess, IsOK,
     Wire, MapResponse, GRPCError
<1>4. \A j \in Attempt : Attempted(att'[j])
  BY <1>1, <1>2 DEF ChainInv
<1>5. Retried'
  <2>1. \A r : Retryable(r)' <=> Retryable(r)
    BY <1>1 DEF Retryable, HTTPRetry, GRPCRetry, EndpointRetry
  <2>2. att[i] # NoAttempt BY DEF NoAttempt
  <2>3. /\ cli.n \in Attempt
        /\ cli = [pc |-> cli.pc, n |-> cli.n, ans |-> cli.ans]
        /\ cli.pc = "wait" => cli.n < MaxAttempts
        /\ \A j \in Attempt : j > cli.n \/ (j = cli.n /\ cli.pc = "check") =>
             att'[j] = NoAttempt
    BY <1>2, <2>2 DEF ChainInv, Retried
  <2>4. ASSUME NEW j \in Attempt, MovedOn(j)
        PROVE  \/ att'[j].m = "gone" /\ Retryable(att'[j].ans)
               \/ expired /\ \A k \in Later(j) : att'[k] = NoAttempt
               \/ j \in cut
    <3>1. \/ att[j].m = "gone" /\ Retryable(att[j].ans)
          \/ expired /\ \A k \in Later(j) : att[k] = NoAttempt
          \/ j \in cut
      BY <2>4 DEF ChainInv, Retried
    <3> QED BY <1>2, <2>2, <3>1 DEF Later
  <2>5. \A j : MovedOn(j)' <=> MovedOn(j) BY <1>1 DEF MovedOn
  <2> QED BY <1>1, <2>1, <2>3, <2>4, <2>5 DEF Retried, Later
<1> QED BY <1>1, <1>2, <1>3, <1>4, <1>5 DEF ChainInv, PanicContained

\* What is inside the timeout returned.
LEMMA Returns ==
  ASSUME cfg \in Configs, NEW a, Attempted(a), NEW t \in Ts,
         a[t] \in {"gate", "run"}, t = "h" => ~ HTTP,
         NEW err \in Outs, a[t] = "gate" => ~ IsOK(err)
  PROVE  /\ Attempted(Return(a, t, err))
         /\ a.m # "none"
         /\ a.m = "gone" => /\ Return(a, t, err).m = "gone"
                            /\ Return(a, t, err).ans = a.ans
<1> USE DEF Attempted
<1>1. /\ err # NoAnswer /\ Answer(err) # NoAnswer
      /\ (IsOK(Answer(err)) <=> IsOK(err))
  BY AnswersAre
<1>2. CASE t = "h"
  <2>1. a.h \in {"gate", "run"} BY <1>2
  <2>2. PICK b : b = Return(a, t, err) OBVIOUS
  <2>3. b = [a EXCEPT !.h = "done", !.out = err] BY <1>2, <2>2 DEF Return
  <2>4. AttTyped(b) BY <2>3 DEF AttTyped
  <2>5. /\ b.m = a.m /\ b.h = "done" /\ b.late = a.late /\ b.out = err
        /\ b.ans = a.ans /\ b.wrote = a.wrote /\ b.sent = a.sent
        /\ b.head = a.head /\ b.body = a.body
    BY <2>3 DEF AttTyped
  <2>6. Placed(b) BY <1>1, <2>1, <2>5 DEF Placed, InLock
  <2>7. Written(b) BY <1>2, <2>1, <2>5 DEF Written, InLock, Placed
  <2>8. Answered(b) BY <1>2, <2>1, <2>5 DEF Answered, InLock, Written
  <2> QED BY <2>1, <2>2, <2>4, <2>5, <2>6, <2>7, <2>8 DEF Placed
<1>3. CASE t = "m"
  <2>1. a.m \in {"gate", "run"} BY <1>3
  <2>2. PICK b : b = Return(a, t, err) OBVIOUS
  <2>3. b = [a EXCEPT !.m = "gone", !.out = err, !.ans = Answer(err)]
    BY <1>3, <2>2 DEF Return
  <2>4. AttTyped(b) BY <2>3 DEF AttTyped
  <2>5. /\ b.m = "gone" /\ b.h = a.h /\ b.late = a.late /\ b.out = err
        /\ b.ans = Answer(err) /\ b.wrote = a.wrote /\ b.sent = a.sent
        /\ b.head = a.head /\ b.body = a.body
    BY <2>3 DEF AttTyped
  <2>6. a.h = "none" /\ ~ a.late /\ (a.m = "run" => ~ cfg.timed)
    BY <2>1 DEF Placed, InLock
  <2>7. Placed(b) BY <1>1, <2>1, <2>5, <2>6 DEF Placed, InLock
  <2>8. Written(b) BY <2>1, <2>5, <2>6 DEF Written, InLock
  <2>9. Answered(b) BY <1>1, <1>3, <2>1, <2>5, <2>6 DEF Answered
  <2> QED BY <2>1, <2>2, <2>4, <2>7, <2>8, <2>9
<1> QED BY <1>2, <1>3 DEF Ts

LEMMA NextGate ==
  ASSUME ChainInv, NEW i \in Attempt, NEW t \in Ts, Gate(i, t)
  PROVE  ChainInv'
<1>1. PICK a : a = att[i] OBVIOUS
<1>2. /\ Attempted(a) /\ up /\ a[t] = "gate" /\ UnchangedButAtt
      /\ cfg \in Configs
      /\ SetAtt(i,
           IF Verdict # "Success" THEN Return(a, t, Refusal(Verdict))
           ELSE IF HTTP /\ cfg.timed THEN [a EXCEPT !.m = "wait", !.h = "run"]
           ELSE [a EXCEPT ![t] = "run"])
  BY <1>1 DEF Gate, ChainInv
<1>3. t = "h" => ~ HTTP BY <1>2 DEF Attempted, Placed
<1>4. CASE Verdict # "Success"
  <2>1. PICK b : b = Return(a, t, Refusal(Verdict)) OBVIOUS
  <2>2. Refusal(Verdict) \in Outs /\ ~ IsOK(Refusal(Verdict))
    BY <1>2, <1>4, SaidIs
  <2>3. PICK err \in Outs : err = Refusal(Verdict) BY <2>2
  <2>4. /\ Attempted(b) /\ a.m # "none"
        /\ a.m = "gone" => b.m = "gone" /\ b.ans = a.ans
    BY <1>2, <1>3, <2>1, <2>2, <2>3, Returns
  <2>5. SetAtt(i, b) BY <1>2, <1>4, <2>1
  <2> QED BY <1>1, <1>2, <2>4, <2>5, ServerKeeps
<1>5. CASE Verdict = "Success" /\ HTTP /\ cfg.timed
  <2>1. t = "m" BY <1>3, <1>5 DEF Ts
  <2>2. PICK b : b = [a EXCEPT !.m = "wait", !.h = "run"] OBVIOUS
  <2>3. AttTyped(b) BY <1>2, <2>2 DEF Attempted, AttTyped
  <2>4. /\ b.m = "wait" /\ b.h = "run" /\ b.late = a.late /\ b.out = a.out
        /\ b.ans = a.ans /\ b.wrote = a.wrote /\ b.sent = a.sent
        /\ b.head = a.head /\ b.body = a.body
    BY <1>2, <2>2 DEF Attempted, AttTyped
  <2>5. a.m = "gate" /\ a.h = "none" BY <1>2, <2>1 DEF Attempted, Placed
  <2>6. Placed(b) BY <1>2, <1>5, <2>4, <2>5 DEF Attempted, Placed, InLock
  <2>7. Written(b) BY <1>2, <2>4, <2>5 DEF Attempted, Written, InLock
  <2>8. Attempted(b) BY <2>3, <2>4, <2>6, <2>7 DEF Attempted, Answered
  <2>9. SetAtt(i, b) BY <1>2, <1>5, <2>2
  <2> QED BY <1>1, <1>2, <2>5, <2>8, <2>9, ServerKeeps
<1>6. CASE Verdict = "Success" /\ ~ (HTTP /\ cfg.timed)
  <2>1. PICK b : b = [a EXCEPT ![t] = "run"] OBVIOUS
  <2>2. /\ AttTyped(b) /\ b[t] = "run" /\ \A u \in Ts \ {t} : b[u] = a[u]
        /\ b.late = a.late /\ b.out = a.out
        /\ b.ans = a.ans /\ b.wrote = a.wrote /\ b.sent = a.sent
        /\ b.head = a.head /\ b.body = a.body
    BY <1>2, <2>1 DEF Attempted, AttTyped, Ts
  <2>3. ASSUME t = "m" PROVE Attempted(b)
    <3>1. /\ b.m = "run" /\ b.h = a.h /\ a.m = "gate" /\ a.h = "none"
          /\ ~ cfg.timed
      BY <1>2, <1>6, <2>2, <2>3 DEF Attempted, Placed, Ts
    <3>2. Placed(b) BY <1>2, <2>2, <3>1 DEF Attempted, Placed, InLock
    <3>3. Written(b) BY <1>2, <2>2, <3>1 DEF Attempted, Written, InLock
    <3> QED BY <2>2, <3>1, <3>2, <3>3 DEF Attempted, Answered
  <2>4. ASSUME t = "h" PROVE Attempted(b)
    <3>1. b.h = "run" /\ b.m = a.m /\ a.h = "gate"
      BY <1>2, <2>2, <2>4 DEF Ts
    <3>2. Placed(b) BY <1>2, <2>2, <3>1 DEF Attempted, Placed, InLock
    <3>3. Written(b) BY <1>2, <2>2, <3>1 DEF Attempted, Written, InLock
    <3>4. Answered(b) BY <1>2, <2>2, <3>1 DEF Attempted, Answered
    <3> QED BY <2>2, <3>1, <3>2, <3>3, <3>4 DEF Attempted
  <2>5. a.m # "none" /\ (a.m = "gone" => b.m = "gone" /\ b.ans = a.ans)
    BY <1>2, <2>2 DEF Attempted, Placed, Ts
  <2>6. SetAtt(i, b) BY <1>2, <1>6, <2>1
  <2> QED BY <1>1, <1>2, <2>3, <2>4, <2>5, <2>6, ServerKeeps DEF Ts
<1> QED BY <1>4, <1>5, <1>6

\* Over HTTP a handler inside the timeout goes to write what it says.
LEMMA WritesNext ==
  ASSUME cfg \in Configs, HTTP, NEW a, Attempted(a), NEW err \in Outs,
         a.h = "run" \/ (a.h = "lock" /\ a.wrote /\ err = Recovered)
  PROVE  /\ Attempted([a EXCEPT !.h = Writing(a), !.out = err])
         /\ a.m # "none"
<1> USE DEF Attempted
<1>1. err # NoAnswer BY AnswersAre
<1>2. PICK b : b = [a EXCEPT !.h = Writing(a), !.out = err] OBVIOUS
<1>3. Writing(a) = (IF a.m = "gone" THEN "done" ELSE "lock") BY DEF Writing
<1>4. AttTyped(b) BY <1>2, <1>3 DEF AttTyped, InLock
<1>5. /\ b.m = a.m /\ b.h = Writing(a) /\ b.late = a.late /\ b.out = err
      /\ b.ans = a.ans /\ b.wrote = a.wrote /\ b.sent = a.sent
      /\ b.head = a.head /\ b.body = a.body
  BY <1>2 DEF AttTyped
<1>6. Placed(b) BY <1>1, <1>3, <1>5 DEF Placed, InLock
<1>7. Written(b) BY <1>3, <1>5 DEF Written, Placed, Answered, InLock
<1>8. Answered(b) BY <1>3, <1>5 DEF Answered, Placed, Written, InLock
<1> QED BY <1>2, <1>4, <1>6, <1>7, <1>8 DEF Placed, InLock

LEMMA HandlerSays ==
  ASSUME ChainInv, NEW i \in Attempt, NEW t \in Ts, NEW err \in Outs,
         NEW a, a = att[i], up, UnchangedButAtt,
         SetAtt(i, IF HTTP /\ t = "h"
                   THEN [a EXCEPT !.h = Writing(a), !.out = err]
                   ELSE Return(a, t, err)),
         a[t] = "run" \/ (t = "h" /\ a.h = "lock" /\ a.wrote
                            /\ err = Recovered)
  PROVE  ChainInv'
<1>1. Attempted(a) /\ cfg \in Configs BY DEF ChainInv
<1>2. CASE HTTP /\ t = "h"
  <2>1. PICK b : b = [a EXCEPT !.h = Writing(a), !.out = err] OBVIOUS
  <2>2. a.h = "run" \/ (a.h = "lock" /\ a.wrote /\ err = Recovered)
    BY <1>2
  <2>3. Attempted(b) /\ a.m # "none"
    BY <1>1, <1>2, <2>1, <2>2, WritesNext
  <2>4. b.m = a.m /\ b.ans = a.ans
    BY <1>1, <2>1 DEF Attempted, AttTyped
  <2>5. SetAtt(i, b) BY <1>2, <2>1
  <2> QED BY <2>3, <2>4, <2>5, ServerKeeps
<1>3. CASE ~ (HTTP /\ t = "h")
  <2>1. a[t] = "run" /\ (t = "h" => ~ HTTP)
    BY <1>1, <1>3 DEF Attempted, Placed, InLock
  <2>2. PICK b : b = Return(a, t, err) OBVIOUS
  <2>3. /\ Attempted(b) /\ a.m # "none"
        /\ a.m = "gone" => b.m = "gone" /\ b.ans = a.ans
    BY <1>1, <2>1, <2>2, Returns
  <2>4. SetAtt(i, b) BY <1>3, <2>2
  <2> QED BY <2>3, <2>4, ServerKeeps
<1> QED BY <1>2, <1>3

LEMMA NextReturns ==
  ASSUME ChainInv, NEW i \in Attempt, NEW t \in Ts, HandlerReturns(i, t)
  PROVE  ChainInv'
<1>1. PICK a : a = att[i] OBVIOUS
<1>2. /\ up /\ UnchangedButAtt /\ cfg \in Configs /\ a[t] = "run"
      /\ \E e \in HandlerErrors :
           SetAtt(i, IF HTTP /\ t = "h"
                     THEN [a EXCEPT !.h = Writing(a), !.out = Returned(e)]
                     ELSE Return(a, t, Returned(e)))
  BY <1>1 DEF HandlerReturns, ChainInv
<1>3. PICK e \in HandlerErrors :
        SetAtt(i, IF HTTP /\ t = "h"
                  THEN [a EXCEPT !.h = Writing(a), !.out = Returned(e)]
                  ELSE Return(a, t, Returned(e)))
  BY <1>2
<1>4. PICK err \in Outs : err = Returned(e) BY <1>2, SaidIs
<1>5. SetAtt(i, IF HTTP /\ t = "h"
                THEN [a EXCEPT !.h = Writing(a), !.out = err]
                ELSE Return(a, t, err))
  BY <1>3, <1>4
<1> QED BY <1>1, <1>2, <1>5, HandlerSays

\* A panic that nothing recovers: the attempts stay as they are.
LEMMA NextPanics ==
  ASSUME ChainInv, NEW i \in Attempt, NEW t \in Ts, HandlerPanics(i, t)
  PROVE  ChainInv'
<1>1. PICK a : a = att[i] OBVIOUS
<1>2. /\ Attempted(a) /\ up /\ cfg \in Configs
      /\ UNCHANGED <<authVars, cfg, req, cli, expired, cut>>
      /\ a[t] = "run" \/ (t = "h" /\ a.h = "lock" /\ a.wrote)
  BY <1>1 DEF HandlerPanics, ChainInv
<1>3. CASE t = "m" \/ cfg.inner
  <2>1. PICK err \in Outs : err = Recovered BY <1>2, SaidIs
  <2>2. /\ UNCHANGED up
        /\ SetAtt(i, IF HTTP /\ t = "h"
                     THEN [a EXCEPT !.h = Writing(a), !.out = Recovered]
                     ELSE Return(a, t, Recovered))
    BY <1>1, <1>3 DEF HandlerPanics
  <2>3. SetAtt(i, IF HTTP /\ t = "h"
                  THEN [a EXCEPT !.h = Writing(a), !.out = err]
                  ELSE Return(a, t, err))
    BY <2>1, <2>2
  <2>4. UnchangedButAtt BY <1>2, <2>2 DEF UnchangedButAtt
  <2> QED BY <1>1, <1>2, <2>1, <2>3, <2>4, HandlerSays
<1>4. CASE ~ (t = "m" \/ cfg.inner)
  <2>1. up' = FALSE /\ UNCHANGED att /\ t = "h"
    BY <1>4 DEF HandlerPanics, Ts
  <2>2. cfg.timed BY <1>2, <2>1 DEF Attempted, Placed
  <2>3. \A j \in Attempt : Attempted(att[j])' <=> Attempted(att[j])
    BY <1>2, <2>1 DEF Attempted, AttTyped, Placed, Written, Answered, Outs,
       HTTP, Response, HandlerErrors, Answer, TimedOut, Recovered, InProcess,
       IsOK, Wire, MapResponse, GRPCError
  <2>4. Retried'
    <3>1. \A r : Retryable(r)' <=> Retryable(r)
      BY <1>2 DEF Retryable, HTTPRetry, GRPCRetry, EndpointRetry
    <3>2. \A j : MovedOn(j)' <=> MovedOn(j) BY <1>2 DEF MovedOn
    <3> QED BY <1>2, <2>1, <3>1, <3>2 DEF ChainInv, Retried
  <2> QED BY <1>2, <1>4, <2>1, <2>2, <2>3, <2>4
          DEF ChainInv, PanicContained, authVars
<1> QED BY <1>3, <1>4

\* A handler that panics after its status, without a timeout.
LEMMA NextPanicsAfterHead ==
  ASSUME ChainInv, NEW i \in Attempt, PanicsAfterHead(i)
  PROVE  ChainInv'
<1>1. PICK a : a = att[i] OBVIOUS
<1>2. /\ Attempted(a) /\ up /\ HTTP /\ a.m = "run" /\ UnchangedButAtt
      /\ cfg \in Configs
  BY <1>1 DEF PanicsAfterHead, ChainInv
<1>3. PICK err \in HandlerErrors :
        SetAtt(i, [a EXCEPT !.m = "gone", !.out = Recovered, !.wrote = TRUE,
                            !.head = Returned(err).name,
                            !.ans = Returned(err)])
  BY <1>1 DEF PanicsAfterHead
<1>4. PICK code \in {"Success", "Conflict", "ServiceUnavailable"} :
        Returned(err) = Response(code)
  BY <1>2 DEF HandlerErrors, Returned, ExtractCode, NoErr, BusinessError
<1>5. PICK out, ans : out = Recovered /\ ans = Response(code) OBVIOUS
<1>6. PICK b : b = [a EXCEPT !.m = "gone", !.out = out, !.wrote = TRUE,
                             !.head = code, !.ans = ans]
  OBVIOUS
<1>7. SetAtt(i, b)
  <2>1. Returned(err).name = code BY <1>4 DEF Response
  <2> QED BY <1>3, <1>4, <1>5, <1>6, <2>1
<1>8. /\ out \in Outs /\ out # NoAnswer /\ ~ IsOK(out)
      /\ ans # NoAnswer /\ code \in CodeNames
  BY <1>2, <1>5, SaidIs, AnswersAre, CodesAre DEF Response, NoAnswer
<1>9. AttTyped(b)
  <2>1. ans \in {Response(c) : c \in CodeNames} BY <1>5, <1>8
  <2> QED BY <1>2, <1>6, <1>8, <2>1 DEF Attempted, AttTyped
<1>10. /\ b.m = "gone" /\ b.h = a.h /\ b.late = a.late /\ b.out = out
       /\ b.ans = ans /\ b.wrote /\ b.sent = a.sent
       /\ b.head = code /\ b.body = a.body
  BY <1>2, <1>6 DEF Attempted, AttTyped
<1>11. a.h = "none" /\ ~ a.late /\ ~ cfg.timed /\ "m" \notin a.body
  BY <1>2 DEF Attempted, Placed, Written, InLock
<1>12. Placed(b) BY <1>2, <1>8, <1>10, <1>11 DEF Attempted, Placed, InLock
<1>13. Written(b)
  BY <1>2, <1>5, <1>8, <1>10, <1>11 DEF Attempted, Written, InLock
<1>14. Answered(b) BY <1>2, <1>5, <1>8, <1>10, <1>11 DEF Answered
<1>15. a.m # "none" /\ a.m # "gone" BY <1>2
<1>16. Attempted(b) BY <1>9, <1>12, <1>13, <1>14 DEF Attempted
<1> QED BY <1>1, <1>2, <1>7, <1>15, <1>16, ServerKeeps

LEMMA NextHangs ==
  ASSUME ChainInv, NEW i \in Attempt, NEW t \in Ts, HandlerHangs(i, t)
  PROVE  ChainInv'
<1>1. PICK a, b : a = att[i] /\ b = [a EXCEPT ![t] = "hung"] OBVIOUS
<1>2. Attempted(a) /\ up /\ a[t] = "run" /\ UnchangedButAtt /\ SetAtt(i, b)
  BY <1>1 DEF HandlerHangs, ChainInv
<1>3. /\ AttTyped(b) /\ b[t] = "hung" /\ \A u \in Ts \ {t} : b[u] = a[u]
      /\ b.late = a.late /\ b.out = a.out
      /\ b.ans = a.ans /\ b.wrote = a.wrote /\ b.sent = a.sent
      /\ b.head = a.head /\ b.body = a.body
  BY <1>1, <1>2 DEF Attempted, AttTyped, Ts
<1>4. CASE t = "m"
  <2>1. b.m = "hung" /\ b.h = a.h /\ a.m = "run" BY <1>2, <1>3, <1>4 DEF Ts
  <2>2. Placed(b) BY <1>2, <1>3, <2>1 DEF Attempted, Placed, InLock
  <2>3. Written(b) BY <1>2, <1>3, <2>1 DEF Attempted, Written, InLock
  <2> QED BY <1>1, <1>2, <1>3, <2>1, <2>2, <2>3, ServerKeeps
         DEF Attempted, Answered
<1>5. CASE t = "h"
  <2>1. b.h = "hung" /\ b.m = a.m /\ a.h = "run" BY <1>2, <1>3, <1>5 DEF Ts
  <2>2. Placed(b) BY <1>2, <1>3, <2>1 DEF Attempted, Placed, InLock
  <2>3. Written(b) BY <1>2, <1>3, <2>1 DEF Attempted, Written, InLock
  <2>4. Answered(b) BY <1>2, <1>3, <2>1 DEF Attempted, Answered
  <2>5. Attempted(b) /\ a.m # "none"
    BY <1>2, <1>3, <2>1, <2>2, <2>3, <2>4 DEF Attempted, Placed
  <2> QED BY <1>1, <1>2, <1>3, <2>1, <2>5, ServerKeeps
<1> QED BY <1>4, <1>5 DEF Ts

-----------------------------------------------------------------------------
\* The timeout.
LEMMA Overs ==
  ASSUME cfg \in Configs, NEW a, Attempted(a), a.m \in {"wait"} \cup InLock,
         NEW ans, ans # NoAnswer,
         ans \in {Response(c) : c \in CodeNames}
                   \cup {Answer(o) : o \in Outs} \cup {Answer(TimedOut)},
         ~ a.late => /\ a.h = "done"
                     /\ \/ ans = Answer(a.out)
                        \/ HTTP /\ a.wrote /\ a.out = Recovered,
         IsOK(ans) => \/ a.h = "done" /\ IsOK(a.out)
                      \/ HTTP /\ a.wrote /\ (IsOK(a.out) \/ a.out = Recovered)
                      \/ cfg.proto = "fallback" /\ a.late
  PROVE  Attempted(Over(a, ans))
<1> USE DEF Attempted
<1>1. PICK b : b = Over(a, ans) OBVIOUS
<1> DEFINE h == IF a.h \in {"gate", "run", "hung"} THEN a.h ELSE "done"
<1>2. b = [a EXCEPT !.m = "gone", !.ans = ans, !.ch = 0, !.full = {},
                    !.on = NoAttempt.on, !.sent = FALSE, !.h = h]
  BY <1>1 DEF Over, AttTyped
<1>3. NoAttempt.on \in [Ts -> Nat] BY DEF NoAttempt, Ts
<1>4. AttTyped(b)
  <2>1. h \in {"gate", "run", "hung", "done"} OBVIOUS
  <2> HIDE DEF h
  <2> QED BY <1>2, <1>3, <2>1 DEF AttTyped
<1>5. /\ b.m = "gone" /\ b.h = h /\ b.late = a.late /\ b.out = a.out
      /\ b.ans = ans /\ b.wrote = a.wrote /\ b.sent = FALSE
      /\ b.head = a.head /\ b.body = a.body
  BY <1>2 DEF AttTyped
<1>6. a.h # "none" BY DEF Placed
<1>7. a.h \in {"gate", "run", "hung", "done"} \cup InLock
  BY <1>6 DEF AttTyped
<1>8. Placed(b) BY <1>5, <1>6, <1>7 DEF Placed, InLock
<1>9. Written(b) BY <1>5, <1>7 DEF Written, InLock
<1>10. a.h = "done" => a.out \in Outs BY DEF Placed, AttTyped
<1>11. Answered(b) BY <1>5, <1>6, <1>7, <1>10 DEF Answered, Written, InLock
<1> QED BY <1>1, <1>4, <1>8, <1>9, <1>11

LEMMA NextDeadline ==
  ASSUME ChainInv, NEW i \in Attempt, Deadline(i)
  PROVE  ChainInv'
<1>1. PICK a, b : a = att[i] /\ b = [a EXCEPT !.late = TRUE] OBVIOUS
<1>2. Attempted(a) /\ up /\ a.m = "wait" /\ UnchangedButAtt /\ SetAtt(i, b)
  BY <1>1 DEF Deadline, ChainInv
<1>3. /\ AttTyped(b) /\ b.m = "wait" /\ b.h = a.h /\ b.late /\ b.out = a.out
      /\ b.ans = a.ans /\ b.wrote = a.wrote /\ b.sent = a.sent
      /\ b.head = a.head /\ b.body = a.body
  BY <1>1, <1>2 DEF Attempted, AttTyped
<1>4. Placed(b) BY <1>2, <1>3 DEF Attempted, Placed, InLock
<1>5. Written(b) BY <1>2, <1>3 DEF Attempted, Written
<1> QED BY <1>1, <1>2, <1>3, <1>4, <1>5, ServerKeeps DEF Attempted, Answered

LEMMA NextGiveUp ==
  ASSUME ChainInv, NEW i \in Attempt, GiveUp(i)
  PROVE  ChainInv'
<1>1. PICK a : a = att[i] OBVIOUS
<1>2. /\ Attempted(a) /\ up /\ a.m = "wait" /\ a.late /\ UnchangedButAtt
      /\ cfg \in Configs
      /\ SetAtt(i, IF HTTP THEN [a EXCEPT !.m = "lock"]
                   ELSE Over(a, Answer(TimedOut)))
  BY <1>1 DEF GiveUp, ChainInv
<1>3. CASE HTTP
  <2>1. PICK b : b = [a EXCEPT !.m = "lock"] OBVIOUS
  <2>2. /\ AttTyped(b) /\ b.m = "lock" /\ b.h = a.h /\ b.late /\ b.out = a.out
        /\ b.ans = a.ans /\ b.wrote = a.wrote /\ b.sent = a.sent
        /\ b.head = a.head /\ b.body = a.body
    BY <1>2, <2>1 DEF Attempted, AttTyped, InLock
  <2>3. Placed(b) BY <1>2, <1>3, <2>2 DEF Attempted, Placed, InLock
  <2>4. Written(b) BY <1>2, <2>2 DEF Attempted, Written
  <2>5. SetAtt(i, b) BY <1>2, <1>3, <2>1
  <2> QED BY <1>1, <1>2, <2>2, <2>3, <2>4, <2>5, ServerKeeps
         DEF Attempted, Answered
<1>4. CASE ~ HTTP
  <2>1. PICK ans : ans = Answer(TimedOut) OBVIOUS
  <2>2. PICK b : b = Over(a, ans) OBVIOUS
  <2>3. ans # NoAnswer /\ (IsOK(ans) => cfg.proto = "fallback")
    BY <1>2, <1>4, <2>1, TimedOutIs
  <2>4. Attempted(b) BY <1>2, <2>1, <2>2, <2>3, Overs
  <2>5. SetAtt(i, b) BY <1>2, <1>4, <2>1, <2>2
  <2> QED BY <1>1, <1>2, <2>4, <2>5, ServerKeeps
<1> QED BY <1>3, <1>4

LEMMA NextTakeResult ==
  ASSUME ChainInv, NEW i \in Attempt, TakeResult(i)
  PROVE  ChainInv'
<1>1. PICK a : a = att[i] OBVIOUS
<1>2. PICK ans : ans = (IF HTTP THEN HeadOf(a) ELSE Answer(a.out)) OBVIOUS
<1>3. PICK b : b = Over(a, ans) OBVIOUS
<1>4. /\ Attempted(a) /\ up /\ a.m = "wait" /\ a.h = "done" /\ UnchangedButAtt
      /\ cfg \in Configs /\ SetAtt(i, b)
  BY <1>1, <1>2, <1>3 DEF TakeResult, ChainInv
<1>5. a.out \in Outs BY <1>4 DEF Attempted, Placed, AttTyped
<1>6. CASE ~ HTTP
  <2>1. ans = Answer(a.out) BY <1>2, <1>6
  <2>2. ans # NoAnswer /\ (IsOK(ans) <=> IsOK(a.out))
    BY <1>4, <1>5, <2>1, AnswersAre
  <2>3. Attempted(b) BY <1>3, <1>4, <1>5, <2>1, <2>2, Overs
  <2> QED BY <1>1, <1>4, <2>3, ServerKeeps
<1>7. CASE HTTP
  <2>1. a.wrote /\ "m" \notin a.body /\ a.head # "none"
    BY <1>4, <1>7 DEF Attempted, Written
  <2>2. ans = Response(a.head) BY <1>2, <1>7, <2>1 DEF HeadOf
  <2>3. a.head \in CodeNames BY <1>4, <2>1, CodesAre DEF Attempted, AttTyped
  <2>4. ans # NoAnswer /\ (IsOK(ans) => a.head = "Success")
    BY <2>2 DEF Response, NoAnswer, IsOK
  <2>5. ans = Answer(a.out) \/ a.out = Recovered
    <3>1. ASSUME a.out # Recovered PROVE ans = Answer(a.out)
      <4>1. a.head = a.out.name
        BY <1>4, <2>1, <3>1 DEF Attempted, Written
      <4>2. Response(a.out.name) = a.out BY <1>5, <1>7 DEF Outs, Response
      <4> QED BY <1>7, <2>2, <4>1, <4>2 DEF Answer, HTTP
    <3> QED BY <3>1
  <2>6. a.head = "Success" => IsOK(a.out) \/ a.out = Recovered
    BY <1>4, <2>1 DEF Attempted, Written
  <2>7. Attempted(b)
    BY <1>3, <1>4, <1>7, <2>1, <2>2, <2>3, <2>4, <2>5, <2>6, Overs
  <2> QED BY <1>1, <1>4, <2>7, ServerKeeps
<1> QED BY <1>6, <1>7

\* The lock: nothing else of the attempt changes.
LEMMA Locks ==
  ASSUME ChainInv, NEW i \in Attempt, NEW t \in Ts, NEW b,
         SetAtt(i, b), UnchangedButAtt, up, AttTyped(b),
         att[i][t] \in InLock \ {"unlock"}, b[t] \in InLock \ {"unlock"},
         \A u \in Ts \ {t} : b[u] = att[i][u],
         b.late = att[i].late, b.out = att[i].out, b.ans = att[i].ans,
         b.wrote = att[i].wrote, b.sent = att[i].sent,
         b.head = att[i].head, b.body = att[i].body
  PROVE  ChainInv'
<1>1. PICK a : a = att[i] OBVIOUS
<1>2. Attempted(a) BY <1>1 DEF ChainInv
<1>3. CASE t = "m"
  <2>1. /\ a.m \in InLock \ {"unlock"} /\ b.m \in InLock \ {"unlock"}
        /\ b.h = a.h
    BY <1>1, <1>3 DEF Ts
  <2>2. Placed(b) BY <1>1, <1>2, <2>1 DEF Attempted, Placed, InLock
  <2>3. Written(b) BY <1>1, <1>2, <2>1 DEF Attempted, Written, InLock
  <2>4. Answered(b) BY <2>1 DEF Answered, InLock
  <2> QED BY <1>1, <2>1, <2>2, <2>3, <2>4, ServerKeeps DEF Attempted, InLock
<1>4. CASE t = "h"
  <2>1. /\ a.h \in InLock \ {"unlock"} /\ b.h \in InLock \ {"unlock"}
        /\ b.m = a.m
    BY <1>1, <1>4 DEF Ts
  <2>2. Placed(b) BY <1>1, <1>2, <2>1 DEF Attempted, Placed, InLock
  <2>3. Written(b) BY <1>1, <1>2, <2>1 DEF Attempted, Written, InLock
  <2>4. a.m # "gone" /\ a.m # "none" BY <1>2, <2>1 DEF Attempted, Placed, InLock
  <2> QED BY <1>1, <2>1, <2>2, <2>3, <2>4, ServerKeeps DEF Attempted, Answered
<1> QED BY <1>3, <1>4 DEF Ts

LEMMA NextLock ==
  ASSUME ChainInv, NEW i \in Attempt, NEW t \in Ts,
         \/ LockChannel(i, t) \/ MakeChannel(i, t) \/ PickChannel(i, t)
         \/ SendToken(i, t)
  PROVE  ChainInv'
<1>1. PICK a : a = att[i] OBVIOUS
<1>2. /\ Attempted(a) /\ up /\ UnchangedButAtt
      /\ a[t] \in InLock \ {"in", "unlock"}
  BY <1>1 DEF LockChannel, MakeChannel, PickChannel, SendToken, ChainInv,
     InLock
<1> USE DEF Attempted, Ts
<1>3. CASE LockChannel(i, t)
  <2>1. PICK spot \in {"make", "pick"} : SetAtt(i, [a EXCEPT ![t] = spot])
    BY <1>1, <1>3 DEF LockChannel
  <2>2. PICK b : b = [a EXCEPT ![t] = spot] OBVIOUS
  <2>3. /\ AttTyped(b) /\ b[t] = spot /\ \A u \in Ts \ {t} : b[u] = a[u]
        /\ b.late = a.late /\ b.out = a.out /\ b.ans = a.ans
        /\ b.wrote = a.wrote /\ b.sent = a.sent
        /\ b.head = a.head /\ b.body = a.body
    BY <1>2, <2>2 DEF AttTyped, InLock
  <2>4. /\ a[t] \in InLock \ {"unlock"} /\ b[t] \in InLock \ {"unlock"}
        /\ SetAtt(i, b)
    BY <1>2, <2>1, <2>2, <2>3 DEF InLock
  <2> QED BY <1>1, <1>2, <2>3, <2>4, Locks
<1>4. CASE MakeChannel(i, t)
  <2>0. PICK n \in Nat : n = a.made + 1 BY <1>2 DEF AttTyped
  <2>1. PICK b : b = [a EXCEPT ![t] = "pick", !.made = n, !.ch = n]
    OBVIOUS
  <2>2. SetAtt(i, b)
    <3>1. CASE t = "m"
      <4>1. b = [a EXCEPT ![t] = "pick", !.made = @ + 1, !.ch = a.made + 1]
        BY <1>2, <2>0, <2>1, <3>1 DEF AttTyped
      <4> QED BY <1>1, <1>4, <4>1 DEF MakeChannel
    <3>2. CASE t = "h"
      <4>1. b = [a EXCEPT ![t] = "pick", !.made = @ + 1, !.ch = a.made + 1]
        BY <1>2, <2>0, <2>1, <3>2 DEF AttTyped
      <4> QED BY <1>1, <1>4, <4>1 DEF MakeChannel
    <3> QED BY <3>1, <3>2
  <2>3. /\ AttTyped(b) /\ b[t] = "pick" /\ \A u \in Ts \ {t} : b[u] = a[u]
        /\ b.late = a.late /\ b.out = a.out /\ b.ans = a.ans
        /\ b.wrote = a.wrote /\ b.sent = a.sent
        /\ b.head = a.head /\ b.body = a.body
    <3>1. CASE t = "m" BY <1>2, <2>1, <3>1 DEF AttTyped, InLock
    <3>2. CASE t = "h" BY <1>2, <2>1, <3>2 DEF AttTyped, InLock
    <3> QED BY <3>1, <3>2
  <2>4. a[t] \in InLock \ {"unlock"} /\ b[t] \in InLock \ {"unlock"}
    BY <1>2, <2>3 DEF InLock
  <2> QED BY <1>1, <1>2, <2>2, <2>3, <2>4, Locks
<1>5. CASE PickChannel(i, t)
  <2>1. PICK b : b = [a EXCEPT ![t] = "send", !.on[t] = a.ch] OBVIOUS
  <2>2. SetAtt(i, b) BY <1>1, <1>5, <2>1 DEF PickChannel
  <2>3. /\ AttTyped(b) /\ b[t] = "send" /\ \A u \in Ts \ {t} : b[u] = a[u]
        /\ b.late = a.late /\ b.out = a.out /\ b.ans = a.ans
        /\ b.wrote = a.wrote /\ b.sent = a.sent
        /\ b.head = a.head /\ b.body = a.body
    <3>1. CASE t = "m" BY <1>2, <2>1, <3>1 DEF AttTyped, InLock
    <3>2. CASE t = "h" BY <1>2, <2>1, <3>2 DEF AttTyped, InLock
    <3> QED BY <3>1, <3>2
  <2>4. a[t] \in InLock \ {"unlock"} /\ b[t] \in InLock \ {"unlock"}
    BY <1>2, <2>3 DEF InLock
  <2> QED BY <1>1, <1>2, <2>2, <2>3, <2>4, Locks
<1>6. CASE SendToken(i, t)
  <2>1. PICK b : b = [a EXCEPT ![t] = "in", !.full = @ \cup {a.on[t]}]
    OBVIOUS
  <2>2. SetAtt(i, b) BY <1>1, <1>6, <2>1 DEF SendToken
  <2>3. /\ AttTyped(b) /\ b[t] = "in" /\ \A u \in Ts \ {t} : b[u] = a[u]
        /\ b.late = a.late /\ b.out = a.out /\ b.ans = a.ans
        /\ b.wrote = a.wrote /\ b.sent = a.sent
        /\ b.head = a.head /\ b.body = a.body
    <3>1. CASE t = "m" BY <1>2, <2>1, <3>1 DEF AttTyped, InLock
    <3>2. CASE t = "h" BY <1>2, <2>1, <3>2 DEF AttTyped, InLock
    <3> QED BY <3>1, <3>2
  <2>4. a[t] \in InLock \ {"unlock"} /\ b[t] \in InLock \ {"unlock"}
    BY <1>2, <2>3 DEF InLock
  <2> QED BY <1>1, <1>2, <2>2, <2>3, <2>4, Locks
<1> QED BY <1>3, <1>4, <1>5, <1>6

\* The lock's owner writes.
LEMMA NextCritical ==
  ASSUME ChainInv, NEW i \in Attempt, NEW t \in Ts, Critical(i, t)
  PROVE  ChainInv'
<1>1. PICK a : a = att[i] OBVIOUS
<1>2. /\ Attempted(a) /\ up /\ UnchangedButAtt /\ cfg \in Configs
      /\ a[t] = "in"
      /\ SetAtt(i, [ (IF t = "m" THEN Write503(a)
                      ELSE IF a.wrote /\ a.out # Recovered THEN Write(a)
                      ELSE WriteHeader(a)) EXCEPT ![t] = "unlock"])
  BY <1>1 DEF Critical, ChainInv
<1> USE DEF Attempted
<1>3. CASE t = "m"
  <2>1. PICK body, head :
          /\ body = (IF a.wrote THEN a.body ELSE a.body \cup {"m"})
          /\ head = (IF a.wrote \/ a.head # "none" THEN a.head
                     ELSE "ServiceUnavailable")
    OBVIOUS
  <2>2. PICK b : b = [a EXCEPT !.body = body, !.head = head, !.m = "unlock"]
    OBVIOUS
  <2>3. b = [Write503(a) EXCEPT !.m = "unlock"]
    BY <1>2, <2>1, <2>2 DEF AttTyped, Write503, WriteHead, WriteBody
  <2>4. SetAtt(i, b) BY <1>2, <1>3, <2>3
  <2>5. body \in SUBSET Ts
        /\ head \in {"none", "Success", "Conflict", "ServiceUnavailable",
                     "Internal", "Unauthorized", "Forbidden"}
    BY <1>2, <2>1 DEF AttTyped, Ts
  <2>6. AttTyped(b) BY <1>2, <2>2, <2>5 DEF AttTyped, InLock
  <2>7. /\ b.m = "unlock" /\ b.h = a.h /\ b.late = a.late /\ b.out = a.out
        /\ b.ans = a.ans /\ b.wrote = a.wrote /\ b.sent = a.sent
        /\ b.head = head /\ b.body = body
    BY <1>2, <2>2 DEF AttTyped
  <2>8. a.m = "in" BY <1>2, <1>3
  <2>9. Placed(b) BY <1>2, <2>7, <2>8 DEF Placed, InLock
  <2>10. Written(b) BY <1>2, <2>1, <2>7, <2>8 DEF Written, InLock
  <2> QED BY <1>1, <1>2, <2>4, <2>6, <2>7, <2>8, <2>9, <2>10, ServerKeeps
          DEF Answered
<1>4. CASE t = "h"
  <2>1. /\ a.h = "in" /\ HTTP /\ a.out \in Outs /\ a.m # "gone" /\ a.m # "none"
    BY <1>2, <1>4 DEF Placed, InLock, AttTyped
  <2>2. /\ a.out.name \in {"Success", "Conflict", "ServiceUnavailable",
                           "Internal", "Unauthorized", "Forbidden"}
    BY <2>1 DEF Outs, Response
  <2>3. CASE a.wrote /\ a.out # Recovered
    <3>1. PICK body \in SUBSET Ts : body = a.body \cup {"h"}
      BY <1>2 DEF AttTyped, Ts
    <3>2. PICK b : b = [a EXCEPT !.wrote = TRUE, !.sent = TRUE, !.body = body,
                                 !.h = "unlock"]
      OBVIOUS
    <3>3. a.head # "none" BY <1>2, <2>3 DEF Written
    <3>4. b = [Write(a) EXCEPT !.h = "unlock"]
      BY <1>2, <3>1, <3>2, <3>3 DEF AttTyped, Write, WriteBody
    <3>5. SetAtt(i, b) BY <1>2, <1>4, <2>3, <3>4
    <3>6. AttTyped(b) BY <1>2, <3>2 DEF AttTyped, InLock
    <3>7. /\ b.m = a.m /\ b.h = "unlock" /\ b.late = a.late /\ b.out = a.out
          /\ b.ans = a.ans /\ b.wrote /\ b.sent
          /\ b.head = a.head /\ b.body = body
      BY <1>2, <3>2 DEF AttTyped
    <3>8. Placed(b) BY <1>2, <2>1, <3>7 DEF Placed, InLock
    <3>9. Written(b) BY <1>2, <2>1, <2>3, <3>1, <3>7 DEF Written, InLock
    <3> QED BY <1>1, <1>2, <2>1, <3>5, <3>6, <3>7, <3>8, <3>9, ServerKeeps
            DEF Answered
  <2>4. CASE ~ (a.wrote /\ a.out # Recovered)
    <3>1. PICK head : head = (IF a.wrote \/ a.head # "none" THEN a.head
                              ELSE a.out.name)
      OBVIOUS
    <3>2. PICK b : b = [a EXCEPT !.wrote = TRUE, !.head = head, !.h = "unlock"]
      OBVIOUS
    <3>3. b = [WriteHeader(a) EXCEPT !.h = "unlock"]
      <4>1. CASE a.wrote
        BY <1>2, <3>1, <3>2, <4>1 DEF AttTyped, WriteHeader
      <4>2. CASE ~ a.wrote
        BY <1>2, <3>1, <3>2, <4>2 DEF AttTyped, WriteHeader, WriteHead
      <4> QED BY <4>1, <4>2
    <3>4. SetAtt(i, b) BY <1>2, <1>4, <2>4, <3>3
    <3>5. head \in {"none", "Success", "Conflict", "ServiceUnavailable",
                    "Internal", "Unauthorized", "Forbidden"}
      BY <1>2, <2>2, <3>1 DEF AttTyped
    <3>6. AttTyped(b) BY <1>2, <3>2, <3>5 DEF AttTyped, InLock
    <3>7. /\ b.m = a.m /\ b.h = "unlock" /\ b.late = a.late /\ b.out = a.out
          /\ b.ans = a.ans /\ b.wrote /\ b.sent = a.sent
          /\ b.head = head /\ b.body = a.body
      BY <1>2, <3>2 DEF AttTyped
    <3>8. Placed(b) BY <1>2, <2>1, <3>7 DEF Placed, InLock
    <3>9. Written(b)
      BY <1>2, <2>1, <2>2, <2>4, <3>1, <3>7 DEF Written, InLock, IsOK
    <3> QED BY <1>1, <1>2, <2>1, <3>4, <3>6, <3>7, <3>8, <3>9, ServerKeeps
            DEF Answered
  <2> QED BY <2>3, <2>4
<1> QED BY <1>3, <1>4 DEF Ts

LEMMA NextUnlock ==
  ASSUME ChainInv, NEW i \in Attempt, NEW t \in Ts, Unlock(i, t)
  PROVE  ChainInv'
<1>1. PICK a : a = att[i] OBVIOUS
<1>2. /\ Attempted(a) /\ up /\ UnchangedButAtt /\ cfg \in Configs
      /\ a[t] = "unlock"
  BY <1>1 DEF Unlock, ChainInv
<1> USE DEF Attempted
<1>3. CASE t = "m"
  <2>1. a.m = "unlock" /\ a.head # "none" /\ HTTP /\ a.late
    BY <1>2, <1>3 DEF Written, Placed, InLock
  <2>2. PICK ans : ans = Response(a.head) OBVIOUS
  <2>3. PICK b : b = Over(a, ans) OBVIOUS
  <2>4. SetAtt(i, b) BY <1>1, <1>3, <2>1, <2>2, <2>3 DEF Unlock, HeadOf
  <2>5. a.head \in CodeNames BY <1>2, <2>1, CodesAre DEF AttTyped
  <2>6. ans # NoAnswer /\ (IsOK(ans) => a.head = "Success")
    BY <2>2 DEF Response, NoAnswer, IsOK
  <2>7. a.head = "Success" => a.wrote /\ (IsOK(a.out) \/ a.out = Recovered)
    BY <1>2 DEF Written
  <2>8. Attempted(b) BY <1>2, <2>1, <2>2, <2>3, <2>5, <2>6, <2>7, Overs
                     DEF InLock
  <2> QED BY <1>1, <1>2, <2>1, <2>4, <2>8, ServerKeeps
<1>4. CASE t = "h"
  <2>1. /\ a.h = "unlock" /\ HTTP /\ a.m # "gone" /\ a.m # "none"
    BY <1>2, <1>4 DEF Placed, InLock
  <2>2. PICK spot, full :
          /\ spot = (IF a.out = Recovered \/ a.sent THEN "done" ELSE "lock")
          /\ full = a.full \ {a.ch}
    OBVIOUS
  <2>3. PICK b : b = [a EXCEPT !.full = full, !.h = spot] OBVIOUS
  <2>4. SetAtt(i, b)
    BY <1>1, <1>4, <2>2, <2>3 DEF Unlock
  <2>5. full \in SUBSET Nat /\ spot \in {"done", "lock"}
    BY <1>2, <2>2 DEF AttTyped
  <2>6. AttTyped(b) BY <1>2, <2>3, <2>5 DEF AttTyped, InLock
  <2>7. /\ b.m = a.m /\ b.h = spot /\ b.late = a.late /\ b.out = a.out
        /\ b.ans = a.ans /\ b.wrote = a.wrote /\ b.sent = a.sent
        /\ b.head = a.head /\ b.body = a.body
    BY <1>2, <2>3 DEF AttTyped
  <2>8. Placed(b) BY <1>2, <2>1, <2>5, <2>7 DEF Placed, InLock
  <2>9. Written(b) BY <1>2, <2>1, <2>2, <2>5, <2>7 DEF Written, InLock
  <2> QED BY <1>1, <1>2, <2>1, <2>4, <2>6, <2>7, <2>8, <2>9, ServerKeeps
          DEF Answered
<1> QED BY <1>3, <1>4 DEF Ts

-----------------------------------------------------------------------------
\* The client: the attempts stay as they are but for the one it makes.
LEMMA AttemptedKept ==
  ASSUME UNCHANGED cfg
  PROVE  /\ \A a : Attempted(a)' <=> Attempted(a)
         /\ \A r : Retryable(r)' <=> Retryable(r)
<1>1. \A a : Attempted(a)' <=> Attempted(a)
  BY DEF Attempted, AttTyped, Placed, Written, Answered, Outs, HTTP,
     Response, HandlerErrors, Answer, TimedOut, Recovered, InProcess, IsOK,
     Wire, MapResponse, GRPCError
<1>2. \A r : Retryable(r)' <=> Retryable(r)
  BY DEF Retryable, HTTPRetry, GRPCRetry, EndpointRetry
<1> QED BY <1>1, <1>2

LEMMA ClientKeeps ==
  ASSUME ChainInv, UNCHANGED <<cfg, req, att, up>>, now' \in Nat, Retried'
  PROVE  ChainInv'
<1>1. \A a : Attempted(a)' <=> Attempted(a) BY AttemptedKept
<1>2. \A i \in Attempt : Attempted(att[i])'
  <2> TAKE i \in Attempt
  <2>1. PICK a : a = att[i] OBVIOUS
  <2>2. Attempted(a)' BY <1>1, <2>1 DEF ChainInv
  <2> QED BY <2>1, <2>2
<1> QED BY <1>2 DEF ChainInv, PanicContained

LEMMA NextSend ==
  ASSUME ChainInv, SendAttempt
  PROVE  ChainInv'
<1>1. /\ cli.pc = "check" /\ ~ expired /\ cfg \in Configs
      /\ cli' = [cli EXCEPT !.pc = "sent"]
      /\ UNCHANGED <<cfg, req, expired, cut, up, now>>
      /\ cli = [pc |-> cli.pc, n |-> cli.n, ans |-> cli.ans]
      /\ cli.n \in Attempt /\ att = [i \in Attempt |-> att[i]]
  BY DEF SendAttempt, ChainInv, Retried, authVars
<1>2. cli'.pc = "sent" /\ cli'.n = cli.n /\ cli' = [pc |-> "sent",
        n |-> cli.n, ans |-> cli.ans]
  BY <1>1
<1>3. PICK b : b = (IF cfg.timed /\ ~ HTTP
                    THEN [NoAttempt EXCEPT !.m = "wait", !.h = "gate"]
                    ELSE [NoAttempt EXCEPT !.m = "gate"])
  OBVIOUS
<1>4. SetAtt(cli.n, b) BY <1>3 DEF SendAttempt
<1>5. att'[cli.n] = b /\ \A j \in Attempt \ {cli.n} : att'[j] = att[j]
  BY <1>1, <1>4 DEF SetAtt
<1>6. att' = [j \in Attempt |-> att'[j]] BY <1>1, <1>4 DEF SetAtt
<1>7. Attempted(b)
  <2>1. /\ b.m \in {"wait", "gate"} /\ b.h \in {"none", "gate"}
        /\ b.m = "wait" <=> b.h = "gate"
        /\ b.m = "wait" => cfg.timed /\ ~ HTTP
        /\ b.m = "gate" /\ cfg.timed => HTTP
        /\ b.late = FALSE /\ b.out = NoAnswer /\ b.ans = NoAnswer
        /\ b.wrote = FALSE /\ b.sent = FALSE
        /\ b.head = "none" /\ b.body = {}
    BY <1>3 DEF NoAttempt
  <2>2. AttTyped(b)
    <3>1. [u \in {"m", "h"} |-> 0] \in [Ts -> Nat] BY DEF Ts
    <3> QED BY <1>3, <3>1 DEF NoAttempt, AttTyped
  <2>3. Placed(b) BY <2>1 DEF Placed, InLock
  <2>4. Written(b) BY <2>1 DEF Written, InLock
  <2> QED BY <2>1, <2>2, <2>3, <2>4 DEF Attempted, Answered
<1>8. \A j \in Attempt : Attempted(att'[j])
  BY <1>5, <1>7 DEF ChainInv
<1>9. \A j \in Attempt : Attempted(att[j])'
  <2> TAKE j \in Attempt
  <2>1. PICK a : a = att'[j] OBVIOUS
  <2>2. Attempted(a)' BY <1>1, <1>8, <2>1, AttemptedKept
  <2> QED BY <2>1, <2>2
<1>10. b.out = NoAnswer BY <1>3 DEF NoAttempt
<1>11. Retried'
  <2>1. \A r : Retryable(r)' <=> Retryable(r) BY <1>1, AttemptedKept
  <2>2. \A j \in Attempt : j > cli.n => att'[j] = NoAttempt
    BY <1>1, <1>5 DEF ChainInv, Retried, Attempt
  <2>3. ASSUME NEW j \in Attempt, j < cli.n
        PROVE  \/ att'[j].m = "gone" /\ Retryable(att'[j].ans)
               \/ ~ up /\ \A k \in Later(j) : att'[k].out = NoAnswer
               \/ j \in cut
    <3>1. \/ att[j].m = "gone" /\ Retryable(att[j].ans)
          \/ ~ up /\ \A k \in Later(j) : att[k].out = NoAnswer
          \/ j \in cut
      BY <1>1, <2>3 DEF ChainInv, Retried, MovedOn
    <3>2. att'[j] = att[j] BY <1>1, <1>5, <2>3 DEF Attempt
    <3> QED BY <1>5, <1>10, <3>1, <3>2 DEF Later
  <2>4. \A j \in Attempt : MovedOn(j)' <=> j < cli.n
    BY <1>2 DEF MovedOn
  <2> QED BY <1>1, <1>2, <2>1, <2>2, <2>3, <2>4 DEF Retried, Later, Attempt
<1> QED BY <1>1, <1>6, <1>9, <1>11 DEF ChainInv, PanicContained

LEMMA NextReceive ==
  ASSUME ChainInv, Receive
  PROVE  ChainInv'
<1>1. /\ cli.pc = "sent" /\ cli.n \in Attempt
      /\ UNCHANGED <<cfg, req, expired, cut, att, up, now>> /\ now \in Nat
      /\ cli = [pc |-> cli.pc, n |-> cli.n, ans |-> cli.ans]
      /\ \A j \in Attempt : j > cli.n => att[j] = NoAttempt
  BY DEF Receive, ChainInv, Retried, authVars
<1>2. PICK ans \in {att[cli.n].ans, Lost} :
        /\ IF ans = Lost
           THEN ~ InProcess /\ (~ up \/ expired \/ cli.n \in cut)
           ELSE ans # NoAnswer
        /\ IF Retryable(ans) /\ cli.n < MaxAttempts
           THEN cli' = [cli EXCEPT !.pc = "wait"]
           ELSE cli' = [cli EXCEPT !.pc = "done", !.ans = ans]
  BY DEF Receive, EndCall
<1>3. /\ cli'.n = cli.n /\ cli'.pc \in {"wait", "done"}
      /\ cli' = [pc |-> cli'.pc, n |-> cli'.n, ans |-> cli'.ans]
      /\ cli'.pc = "wait" => Retryable(ans) /\ cli.n < MaxAttempts
  BY <1>1, <1>2
<1>4. Retried'
  <2>1. \A r : Retryable(r)' <=> Retryable(r) BY <1>1, AttemptedKept
  <2>2. \A j \in Attempt : j < cli.n => MovedOn(j) BY DEF MovedOn
  <2>3. ASSUME cli'.pc = "wait"
        PROVE  \/ att[cli.n].m = "gone" /\ Retryable(att[cli.n].ans)
               \/ ~ up /\ \A k \in Later(cli.n) : att[k].out = NoAnswer
               \/ expired /\ \A k \in Later(cli.n) : att[k] = NoAttempt
               \/ cli.n \in cut
    <3>1. \A k \in Later(cli.n) : att[k] = NoAttempt /\ NoAttempt.out = NoAnswer
      BY <1>1 DEF Later, NoAttempt
    <3>2. CASE ans = Lost BY <1>2, <3>1, <3>2
    <3>3. CASE ans # Lost
      <4>1. ans = att[cli.n].ans /\ ans # NoAnswer BY <1>2, <3>3
      <4>2. att[cli.n].m = "gone"
        BY <1>1, <4>1 DEF ChainInv, Attempted, Placed
      <4> QED BY <1>3, <2>3, <4>1, <4>2
    <3> QED BY <3>2, <3>3
  <2>4. \A j \in Attempt :
          MovedOn(j)' => j < cli.n \/ (j = cli.n /\ cli'.pc = "wait")
    BY <1>3 DEF MovedOn
  <2>5. \A j \in Attempt : MovedOn(j)' =>
          \/ att[j].m = "gone" /\ Retryable(att[j].ans)
          \/ ~ up /\ \A k \in Later(j) : att[k].out = NoAnswer
          \/ expired /\ \A k \in Later(j) : att[k] = NoAttempt
          \/ j \in cut
    BY <2>2, <2>3, <2>4 DEF ChainInv, Retried
  <2>6. \A j \in Attempt :
          ~ (j = cli'.n /\ cli'.pc = "check") BY <1>3
  <2> QED BY <1>1, <1>3, <2>1, <2>5, <2>6 DEF Retried, Later, Attempt
<1> QED BY <1>1, <1>4, ClientKeeps

LEMMA NextBackoff ==
  ASSUME ChainInv, Backoff
  PROVE  ChainInv'
<1>1. /\ cli.pc = "wait" /\ cli.n \in Attempt /\ cli.n < MaxAttempts
      /\ UNCHANGED <<cfg, req, expired, cut, att, up, now>> /\ now \in Nat
      /\ cli = [pc |-> cli.pc, n |-> cli.n, ans |-> cli.ans]
      /\ cli' = [cli EXCEPT !.pc = "check", !.n = @ + 1]
      /\ \A j \in Attempt : j > cli.n => att[j] = NoAttempt
  BY DEF Backoff, ChainInv, Retried, authVars
<1>2. /\ cli'.n = cli.n + 1 /\ cli'.pc = "check" /\ cli'.n \in Attempt
      /\ cli' = [pc |-> cli'.pc, n |-> cli'.n, ans |-> cli'.ans]
  <2>1. cli.n + 1 \in Attempt BY <1>1, ChainAssumption DEF Attempt
  <2> QED BY <1>1, <2>1
<1>3. Retried'
  <2>1. \A r : Retryable(r)' <=> Retryable(r) BY <1>1, AttemptedKept
  <2>2. \A j \in Attempt : MovedOn(j)' => MovedOn(j)
    BY <1>1, <1>2 DEF MovedOn, Attempt
  <2>3. \A j \in Attempt : MovedOn(j)' =>
          \/ att[j].m = "gone" /\ Retryable(att[j].ans)
          \/ ~ up /\ \A k \in Later(j) : att[k].out = NoAnswer
          \/ expired /\ \A k \in Later(j) : att[k] = NoAttempt
          \/ j \in cut
    BY <2>2 DEF ChainInv, Retried
  <2>4. \A j \in Attempt : j > cli'.n \/ j = cli'.n => att[j] = NoAttempt
    BY <1>1, <1>2 DEF Attempt
  <2> QED BY <1>1, <1>2, <2>1, <2>3, <2>4 DEF Retried, Later, Attempt
<1> QED BY <1>1, <1>3, ClientKeeps

LEMMA NextAbandon ==
  ASSUME ChainInv, Abandon \/ ClientDeadline \/ ConnectionBreaks
  PROVE  ChainInv'
<1>1. /\ cli.n \in Attempt /\ UNCHANGED <<cfg, req, att, up, now>>
      /\ now \in Nat /\ (expired => expired') /\ cut \subseteq cut'
      /\ cli = [pc |-> cli.pc, n |-> cli.n, ans |-> cli.ans]
      /\ \/ cli' = [cli EXCEPT !.pc = "done", !.ans = CtxErr]
         \/ cli' = cli
  BY DEF Abandon, ClientDeadline, ConnectionBreaks, EndCall, ChainInv, Retried,
     authVars
<1>2. /\ cli'.n = cli.n /\ cli'.pc \in {"done", cli.pc}
      /\ cli' = [pc |-> cli'.pc, n |-> cli'.n, ans |-> cli'.ans]
  BY <1>1
<1>3. Retried'
  <2>1. \A r : Retryable(r)' <=> Retryable(r) BY <1>1, AttemptedKept
  <2>2. \A j \in Attempt : MovedOn(j)' => MovedOn(j)
    BY <1>2 DEF MovedOn
  <2>3. \A j \in Attempt : MovedOn(j)' =>
          \/ att[j].m = "gone" /\ Retryable(att[j].ans)
          \/ ~ up /\ \A k \in Later(j) : att[k].out = NoAnswer
          \/ expired' /\ \A k \in Later(j) : att[k] = NoAttempt
          \/ j \in cut'
    BY <1>1, <2>2 DEF ChainInv, Retried
  <2>4. \A j \in Attempt :
          j > cli'.n \/ (j = cli'.n /\ cli'.pc = "check") =>
            att[j] = NoAttempt
    BY <1>2 DEF ChainInv, Retried
  <2>5. cli'.pc = "wait" => cli'.n < MaxAttempts
    BY <1>2 DEF ChainInv, Retried
  <2> QED BY <1>1, <1>2, <2>1, <2>3, <2>4, <2>5 DEF Retried, Later, Attempt
<1> QED BY <1>1, <1>3, ClientKeeps

LEMMA RetriedKept ==
  ASSUME Retried, UNCHANGED <<cfg, cli, expired, cut, att, up>>
  PROVE  Retried'
<1>1. \A r : Retryable(r)' <=> Retryable(r) BY AttemptedKept
<1>2. \A j : MovedOn(j)' <=> MovedOn(j) BY DEF MovedOn
<1> QED BY <1>1, <1>2 DEF Retried, Later, Attempt

LEMMA ChainNextKeeps ==
  ASSUME ChainInv, [ChainNext]_chainVars
  PROVE  ChainInv'
<1>1. ASSUME NEW i \in Attempt, Server(i) PROVE ChainInv'
  <2>1. ASSUME NEW t \in Ts, Goroutine(i, t) PROVE ChainInv'
    BY <2>1, NextGate, NextReturns, NextPanics, NextHangs, NextLock,
       NextCritical, NextUnlock DEF Goroutine
  <2> QED BY <1>1, <2>1, NextPanicsAfterHead, NextDeadline, NextGiveUp,
             NextTakeResult DEF Server, Ts
<1>2. CASE Client
  BY <1>2, NextSend, NextReceive, NextBackoff, NextAbandon DEF Client
<1>3. CASE ClientDeadline \/ ConnectionBreaks BY <1>3, NextAbandon
<1>4. CASE AuthNext /\ UNCHANGED callVars
  <2>1. now' \in Nat
    BY <1>4 DEF ChainInv, AuthNext, Generate, Refresh, Revoke, StoreForgets,
       AuthTick, authVars
  <2>2. UNCHANGED <<cfg, req, cli, expired, cut, att, up>>
    BY <1>4 DEF callVars
  <2>3. Retried' BY <2>2, RetriedKept DEF ChainInv
  <2> QED BY <2>1, <2>2, <2>3, ClientKeeps
<1>5. CASE UNCHANGED chainVars
  <2>1. UNCHANGED <<cfg, req, cli, expired, cut, att, up, now>>
    BY <1>5 DEF chainVars, callVars, authVars
  <2>2. Retried' /\ now' \in Nat BY <2>1, RetriedKept DEF ChainInv
  <2> QED BY <2>1, <2>2, ClientKeeps
<1> QED BY <1>1, <1>2, <1>3, <1>4, <1>5 DEF ChainNext

LEMMA ChainInitKeeps == ChainInit => ChainInv
<1> SUFFICES ASSUME ChainInit PROVE ChainInv
  OBVIOUS
<1>1. /\ cfg \in Configs /\ req \in Requests /\ now = 0 /\ up = TRUE
      /\ cli = [pc |-> "check", n |-> 1, ans |-> NoAnswer]
      /\ att = [i \in Attempt |-> NoAttempt]
  BY DEF ChainInit, AuthInit
<1>2. Attempted(NoAttempt)
  <2>1. [u \in {"m", "h"} |-> 0] \in [Ts -> Nat] BY DEF Ts
  <2>2. AttTyped(NoAttempt) BY <2>1 DEF AttTyped, NoAttempt
  <2>3. Placed(NoAttempt) BY DEF Placed, NoAttempt, InLock
  <2>4. Written(NoAttempt) BY DEF Written, NoAttempt, InLock
  <2>5. Answered(NoAttempt) BY DEF Answered, NoAttempt
  <2> QED BY <2>2, <2>3, <2>4, <2>5 DEF Attempted
<1>3. 1 \in Attempt BY ChainAssumption DEF Attempt
<1>4. \A i \in Attempt : ~ MovedOn(i) BY <1>1 DEF MovedOn, Attempt
<1>5. Retried BY <1>1, <1>3, <1>4 DEF Retried
<1> QED BY <1>1, <1>2, <1>5 DEF ChainInv, PanicContained

-----------------------------------------------------------------------------
LEMMA InvIsSound ==
  ASSUME ChainInv
  PROVE  AnswersSound
<1>1. HonestAnswer
  <2> SUFFICES ASSUME NEW i \in Attempt, NEW a, a = att[i]
               PROVE
      /\ "m" \in a.body => a.head = "ServiceUnavailable" \/ a.made = 2
      /\ IsOK(a.ans) =>
           \/ IsOK(a.out)
           \/ cfg.proto = "fallback" /\ a.late
           \/ HTTP /\ a.out = Recovered /\ a.wrote
      /\ IsOK(a.ans) /\ HTTP /\ cfg.timed /\ "h" \notin a.body =>
           a.late \/ a.out = Recovered
    BY DEF HonestAnswer
  <2>1. Attempted(a) /\ cfg \in Configs BY DEF ChainInv
  <2>2. IsOK(a.ans) => a.m = "gone"
    BY <2>1 DEF Attempted, Placed, IsOK, NoAnswer
  <2>3. ~ a.late /\ a.m = "gone" =>
          \/ IsOK(a.ans) <=> IsOK(a.out)
          \/ HTTP /\ a.wrote /\ a.out = Recovered
    BY <2>1, AnswersAre DEF Attempted, Answered
  <2> QED BY <2>1, <2>2, <2>3 DEF Attempted, Answered, Written
<1>2. DoneTwiceOnlyIfLate
  <2> SUFFICES ASSUME NEW i \in Attempt, NEW j \in Attempt, i < j,
                      IsOK(att[i].out), IsOK(att[j].out), ~ att[i].late,
                      i \notin cut
               PROVE  FALSE
    BY DEF DoneTwiceOnlyIfLate
  <2>1. Attempted(att[i]) /\ cfg \in Configs /\ cli.n \in Attempt
    BY DEF ChainInv, Retried
  <2>2. att[j].out # NoAnswer BY DEF IsOK, NoAnswer
  <2>3. att[j] # NoAttempt BY <2>2 DEF NoAttempt
  <2>4. j <= cli.n BY <2>1, <2>3 DEF ChainInv, Retried, Attempt
  <2>5. MovedOn(i) /\ j \in Later(i)
    BY <2>1, <2>4 DEF MovedOn, Later, Attempt
  <2>6. att[i].m = "gone" /\ Retryable(att[i].ans)
    BY <2>2, <2>3, <2>5 DEF ChainInv, Retried
  <2>7. att[i].ans = Answer(att[i].out) /\ att[i].out \in Outs
    BY <2>1, <2>6, SaidIs DEF Attempted, Answered
  <2> QED BY <2>1, <2>6, <2>7, AnswersAre
<1> QED BY <1>1, <1>2 DEF AnswersSound, ChainInv

LEMMA InvAgrees ==
  ASSUME ChainInv
  PROVE  EdgesAgree
<1>1. DoorsAgree BY DoorsDo DEF ChainInv
<1>2. ClientIsNearest BY NearestIs, ChainAssumption DEF ChainInv
<1>3. CodesSurvive
  <2>1. ASSUME NEW i \in Attempt, cfg.proto = "gateway",
               att[i].ans # NoAnswer, ~ att[i].late
        PROVE  Codes[att[i].ans.name].http \div 100 =
                 IF att[i].out.kind = "status" THEN 5
                 ELSE Codes[ExtractCode(att[i].out)].http \div 100
    <3>1. Attempted(att[i]) /\ cfg \in Configs BY DEF ChainInv
    <3>2. att[i].ans = Answer(att[i].out) /\ att[i].out \in Outs
      BY <2>1, <3>1 DEF Attempted, Placed, Answered, HTTP
    <3>3. PICK o \in Outs : o = att[i].out BY <3>2
    <3> QED BY <2>1, <3>1, <3>2, <3>3, AnswersAre
  <2> QED BY <2>1, ClassesSurvive, RetriesSurvive DEF CodesSurvive
<1> QED BY <1>1, <1>2, <1>3 DEF EdgesAgree

\* The inductive invariant of a call: where both goroutines of an attempt are,
\* what is in the response by then, where its answer came from, and why the
\* client went on to the next attempt (timeout/http.go: HTTPMiddleware,
\* retry/http.go: Do).
THEOREM ChainAlways == ChainSpec => []ChainInv
BY ChainInitKeeps, ChainNextKeeps, PTL DEF ChainSpec

\* What the caller is told is so, the handler works twice for one call only
\* when it was too late the first time or its answer was lost, and a panic takes
\* the process down only out of a timeout without a recovery inside, for any
\* number of attempts, any requests and any set-ups (timeout/http.go:
\* HTTPMiddleware, retry/middleware.go: EndpointMiddleware, recovery/http.go:
\* HTTPMiddleware).
THEOREM AnswersAreSound == ChainSpec => []AnswersSound
BY ChainAlways, InvIsSound, PTL

\* No door opens to a token that is not good and all open to a good one, the
\* client's address is the nearest that is not a proxy's, over HTTP as over
\* gRPC, and a code keeps its class on its way through the gateway
\* (auth/http.go: HTTPMiddleware, clientip/http.go: extractFromHTTP,
\* response/grpc.go: GRPCError).
THEOREM EdgesDoAgree == ChainSpec => []EdgesAgree
BY ChainAlways, InvAgrees, PTL
=============================================================================
