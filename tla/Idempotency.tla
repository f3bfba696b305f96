---------------------------- MODULE Idempotency ----------------------------
(***************************************************************************)
(* middleware/idempotency: requests that carry ONE idempotency key, and    *)
(* the two entries the store keeps for it in a KV server they share: the   *)
(* result (prefix+key) and the processing lock (prefix+"lock:"+key).       *)
(*                                                                         *)
(* A request reads the result, checks it again, takes the lock, runs the   *)
(* handler, stores the result, deletes the lock: each of these is a round  *)
(* trip on its own, so other requests run in between, the process can die, *)
(* and a call can fail before or after the server did what it asks.  The   *)
(* lock's value is always "1": it has no owner.  The three middlewares     *)
(* (HTTP, gRPC, Endpoint) share this control and differ in what a stored   *)
(* result says of a failed handler.                                        *)
(***************************************************************************)
EXTENDS Naturals, FiniteSets

CONSTANTS Request,     \* deliveries of the request, duplicates included
          LockTimeout, \* WithLockTimeout, in ticks
          ResultTTL,   \* WithTTL, in ticks
          HandlerMax,  \* most ticks from the grant to the end of the request
          SkipOnError, \* those served by a middleware WithSkipOnError(true)
          Transport,   \* "http", "grpc" or "endpoint"
          Faults       \* of {"kv", "corrupt", "panic", "crash"}: what happens

ASSUME IdempotencyAssumption ==
  /\ IsFiniteSet(Request)
  /\ LockTimeout \in Nat \ {0}
  /\ ResultTTL \in Nat \ {0}
  /\ HandlerMax \in Nat
  /\ SkipOnError \subseteq Request
  /\ Transport \in {"http", "grpc", "endpoint"}
  /\ Faults \subseteq {"kv", "corrupt", "panic", "crash"}

VARIABLES stored,     \* what the result entry holds, or None
          resultLeft, \* ticks before it expires
          locked,     \* the lock entry exists
          lockLeft,   \* ticks before it expires, 0: never
          pc,         \* where each request is
          ran,        \* how each request's run of the handler ended
          answer,     \* what each request was answered
          spent,      \* ticks since the request was granted the lock
          late        \* the request came in after the stored result

vars == <<stored, resultLeft, locked, lockLeft, pc, ran, answer, spent, late>>

-----------------------------------------------------------------------------
\* A handler ends well, with an error, or with an error whose message is empty.
Outcome == {"ok", "error", "mute"}

None == "none"

\* What the stored result is answered with: the response that was written, its
\* JSON text, the error, or an error without a message.
Replay == {"replay_ok", "replay_raw", "replay_error", "replay_mute"}

\* own: what the request's own run of the handler returned.
AnswerKind == {None, "own", "conflict", "failure", "broken"} \cup Replay

Section == {"handling", "saving", "unlocking"}

Place == Section \cup
           {"idle", "getting", "checking", "locking", "bypassing", "done"}

EntriesTyped ==
  /\ stored \in Outcome \cup {None}
  /\ resultLeft \in 0 .. ResultTTL
  /\ locked \in BOOLEAN
  /\ lockLeft \in 0 .. LockTimeout

RequestsTyped ==
  /\ pc \in [Request -> Place]
  /\ ran \in [Request -> Outcome \cup {None, "panic"}]
  /\ answer \in [Request -> AnswerKind]
  /\ spent \in [Request -> 0 .. HandlerMax]
  /\ late \in [Request -> BOOLEAN]

TypeOK == EntriesTyped /\ RequestsTyped

Init ==
  /\ stored = None
  /\ resultLeft = 0
  /\ locked = FALSE
  /\ lockLeft = 0
  /\ pc = [r \in Request |-> "idle"]
  /\ ran = [r \in Request |-> None]
  /\ answer = [r \in Request |-> None]
  /\ spent = [r \in Request |-> 0]
  /\ late = [r \in Request |-> FALSE]

result == <<stored, resultLeft>>
lock == <<locked, lockLeft>>

Goto(r, s) == pc' = [pc EXCEPT ![r] = s]

Finish(r, a) == Goto(r, "done") /\ answer' = [answer EXCEPT ![r] = a]

\* Mutant of Decode: the stored error is not looked at.
DecodeBlindly(out) == IF Transport = "http" THEN "replay_ok" ELSE "replay_raw"

\* What the middleware makes of a stored result.  HTTP writes again what was
\* written.  gRPC and Endpoint stored json.Marshal of the response and return
\* that text, a []byte, where the handler returned its message (no gRPC codec
\* takes it); an error without a message they take for a response, with no text.
Decode(out) ==
  CASE out = "error" -> "replay_error"
    [] out = "ok"    -> IF Transport = "http" THEN "replay_ok" ELSE "replay_raw"
    [] out = "mute"  -> IF Transport = "http" THEN "replay_mute" ELSE "replay_raw"

\* The store reported an error: go on without the check, or fail.
StoreError(r) ==
  IF r \in SkipOnError THEN Goto(r, "bypassing") /\ UNCHANGED answer
                       ELSE Finish(r, "failure")

-----------------------------------------------------------------------------
\* A request with the key comes in.
Arrive(r) ==
  /\ pc[r] = "idle"
  /\ Goto(r, "getting")
  /\ late' = [late EXCEPT ![r] = stored # None]
  /\ UNCHANGED <<result, lock, ran, answer, spent>>

\* store.Get: the stored result is the answer.  An error of the KV server
\* counts as "no result"; one of DecodeResult does not.
Get(r) ==
  /\ pc[r] = "getting"
  /\ \/ stored # None /\ Finish(r, Decode(stored))
     \/ stored = None /\ Goto(r, "checking") /\ UNCHANGED answer
     \/ "kv" \in Faults /\ Goto(r, "checking") /\ UNCHANGED answer
     \/ "corrupt" \in Faults /\ stored # None /\ StoreError(r)
  /\ UNCHANGED <<result, lock, ran, spent, late>>

\* Mutant of Exists: the result is not looked for again.
ExistsSkipped(r) ==
  /\ pc[r] = "checking"
  /\ Goto(r, "locking")
  /\ UNCHANGED <<result, lock, ran, answer, spent, late>>

\* The first half of store.SetNX: no lock if there is a result by now.
Exists(r) ==
  /\ pc[r] = "checking"
  /\ \/ stored # None /\ Finish(r, "conflict")
     \/ stored = None /\ Goto(r, "locking") /\ UNCHANGED answer
     \/ "kv" \in Faults /\ StoreError(r)
  /\ UNCHANGED <<result, lock, ran, spent, late>>

\* Mutant of SetNX: SET where SETNX should be.
SetAnyway(r) ==
  /\ pc[r] = "locking"
  /\ locked' = TRUE
  /\ lockLeft' = LockTimeout
  /\ Goto(r, "handling")
  /\ UNCHANGED <<result, ran, answer, spent, late>>

\* Mutant of SetNX: the lock has no timeout.
SetForEver(r) ==
  /\ pc[r] = "locking"
  /\ ~ locked
  /\ locked' = TRUE
  /\ lockLeft' = 0
  /\ Goto(r, "handling")
  /\ UNCHANGED <<result, ran, answer, spent, late>>

\* The second half: SETNX of the lock.
SetNX(r) ==
  /\ pc[r] = "locking"
  /\ \/ /\ ~ locked
        /\ locked' = TRUE
        /\ lockLeft' = LockTimeout
        /\ \/ Goto(r, "handling") /\ UNCHANGED answer
           \/ "kv" \in Faults /\ StoreError(r)      \* the reply is lost
     \/ locked /\ Finish(r, "conflict") /\ UNCHANGED lock
     \/ "kv" \in Faults /\ StoreError(r) /\ UNCHANGED lock
  /\ UNCHANGED <<result, ran, spent, late>>

\* Mutant of Handle: a panic is recovered, and its result stored.
HandlePanic(r) ==
  /\ pc[r] = "handling"
  /\ \E out \in Outcome \cup {"panic"} : ran' = [ran EXCEPT ![r] = out]
  /\ Goto(r, "saving")
  /\ UNCHANGED <<result, lock, answer, spent, late>>

\* The handler runs to its end.  A panic passes through the middleware.
Handle(r) ==
  /\ pc[r] = "handling"
  /\ \/ \E out \in Outcome :
          ran' = [ran EXCEPT ![r] = out] /\ Goto(r, "saving") /\ UNCHANGED answer
     \/ /\ "panic" \in Faults
        /\ ran' = [ran EXCEPT ![r] = "panic"]
        /\ Finish(r, "broken")
  /\ UNCHANGED <<result, lock, spent, late>>

\* The first half of store.Set.  An error is logged, and the lock stays.
Save(r) ==
  /\ pc[r] = "saving"
  /\ \/ /\ stored' = ran[r]
        /\ resultLeft' = ResultTTL
        /\ \/ Goto(r, "unlocking") /\ UNCHANGED answer
           \/ "kv" \in Faults /\ Finish(r, "own")
     \/ "kv" \in Faults /\ Finish(r, "own") /\ UNCHANGED result
  /\ UNCHANGED <<lock, ran, spent, late>>

\* The second half: DEL of the lock, whoever took it; an error is ignored.
DelLock(r) ==
  /\ pc[r] = "unlocking"
  /\ \/ locked' = FALSE /\ lockLeft' = 0
     \/ "kv" \in Faults /\ UNCHANGED lock
  /\ Finish(r, "own")
  /\ UNCHANGED <<result, ran, spent, late>>

\* The handler runs without any check, and its result is not stored.
Bypass(r) ==
  /\ pc[r] = "bypassing"
  /\ \E out \in Outcome : ran' = [ran EXCEPT ![r] = out]
  /\ Finish(r, "own")
  /\ UNCHANGED <<result, lock, spent, late>>

\* The process that serves the request dies.
Crash(r) ==
  /\ "crash" \in Faults
  /\ pc[r] \notin {"idle", "done"}
  /\ Finish(r, "broken")
  /\ UNCHANGED <<result, lock, ran, spent, late>>

\* The KV server's clock.  A granted request takes at most HandlerMax ticks.
Tick ==
  /\ \A r \in Request : pc[r] \in Section => spent[r] < HandlerMax
  /\ spent' = [r \in Request |-> IF pc[r] \in Section THEN spent[r] + 1 ELSE spent[r]]
  /\ lockLeft' = IF lockLeft > 0 THEN lockLeft - 1 ELSE 0
  /\ locked' = (locked /\ lockLeft # 1)
  /\ resultLeft' = IF resultLeft > 0 THEN resultLeft - 1 ELSE 0
  /\ IF resultLeft = 1
     THEN stored' = None /\ late' = [r \in Request |-> FALSE]
     ELSE UNCHANGED <<stored, late>>
  /\ UNCHANGED <<pc, ran, answer>>

Serve(r) ==
  \/ Get(r) \/ Exists(r) \/ SetNX(r) \/ Handle(r) \/ Save(r) \/ DelLock(r)
  \/ Bypass(r)

Next == Tick \/ \E r \in Request : Arrive(r) \/ Serve(r) \/ Crash(r)

Spec == Init /\ [][Next]_vars

\* The clock runs, and a request that was accepted is served: the handler
\* returns and every KV call ends.
LiveSpec ==
  /\ Spec
  /\ WF_vars(Tick)
  /\ \A r \in Request : WF_vars(Serve(r))

-----------------------------------------------------------------------------
(* Properties.                                                             *)

\* The requests whose handler outlived the lock's timeout.
Overran == {r \in Request : spent[r] >= LockTimeout}

\* "Another request with the key is in progress" is no accident of timing: of the
\* requests that were granted the lock one is served at a time, whatever calls
\* fail and whichever processes die, and one more for each that outlived the
\* timeout of the lock, which has no owner: its DEL frees the lock of the next.
\* Without the lock a handler runs only WithSkipOnError.
NoOverlap ==
  /\ Cardinality({r \in Request : pc[r] \in Section}) <= 1 + Cardinality(Overran)
  /\ \A r \in Request : pc[r] = "bypassing" => r \in SkipOnError

\* README: a repeated request does not run again.  One that comes in once the
\* result is stored never runs the handler while the result lives, not even when
\* its first read of the result fails (without WithSkipOnError: then the second
\* one runs it too).
StoredIsFinal ==
  \A r \in Request :
    late[r] => /\ pc[r] \notin Section
               /\ pc[r] = "bypassing" => r \in SkipOnError

\* A replay tells how a run of the handler ended.  Only HTTP also replays what
\* the run returned: over gRPC and Endpoint a replay is the JSON text of a
\* response (which grpc.go:20, "return the earlier result directly", is not), and
\* that of an error without a message is empty.
ReplayIsTrue ==
  \A r \in Request :
    /\ answer[r] = "replay_ok" => \E q \in Request : ran[q] = "ok"
    /\ answer[r] = "replay_raw" => \E q \in Request : ran[q] \in {"ok", "mute"}
    /\ answer[r] = "replay_error" => \E q \in Request : ran[q] = "error"
    /\ answer[r] = "replay_mute" => \E q \in Request : ran[q] = "mute"

\* A client that is told "in progress" and comes back finds the lock gone at
\* last, although a panic, a crash or a failed Set leaves it behind.
LockFreed == locked ~> ~ locked
=============================================================================
