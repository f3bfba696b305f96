------------------------------ MODULE RateLimit ------------------------------
(***************************************************************************)
(* middleware/ratelimit: the limiters of NewLimiter and the middlewares    *)
(* that ask one before a request.  Token bucket, sliding window and fixed  *)
(* window keep their state under a mutex; the distributed limiter keeps a  *)
(* counter in a Cache and counts with two calls, IncrementBy and then, by  *)
(* the first of a window, Expire.  A waiting request takes the mutex a     *)
(* second time, or asks for the TTL, to know how long to sleep.            *)
(*                                                                         *)
(* One limiter, or none: then the callers use the cache at will.  A tick   *)
(* is the shortest sleep, and rates are tokens in a tick.                  *)
(***************************************************************************)
EXTENDS Cache, Sequences

CONSTANTS Counter,   \* the key of the distributed limiter
          Transport, \* Transport[c]: how the request arrives
          Rate,      \* tokens in a tick
          Capacity,  \* of the bucket
          Limit,     \* requests in a window
          Window,    \* in ticks
          Poll,      \* the sleep when the TTL is not known
          MaxCalls   \* bound on the requests

ASSUME RateLimitAssumption ==
  /\ Counter \in Key \ {LockKey}
  /\ Transport \in [Caller -> {"endpoint", "http", "grpc", "stream"}]
  /\ Rate \in Nat \ {0} /\ Capacity \in Nat \ {0}
  /\ Limit \in Nat \ {0} /\ Window \in 1 .. MaxTTL
  /\ Poll \in Nat \ {0}
  /\ MaxValue > Limit + 1
  /\ MaxCalls \in Nat

VARIABLES kind,    \* Config.Algorithm, or "none"
          tokens,  \* the bucket's tokens at its last update
          since,   \* ticks since that update, or since the window began
          count,   \* the requests of the fixed window
          stamps,  \* the ages of the requests in the sliding window
          step,    \* where each request is in the limiter
          want,    \* the permits it wants
          waits,   \* it waits until it gets them
          timer,   \* ticks it still sleeps
          granted, \* the answer of an AllowN that has yet to set the expiry
          calls,   \* requests so far
          passed,  \* passed[a]: the permits granted in the last a + 1 ticks; a
                   \* request that passes because IncrementBy failed has none
          undated  \* a first request of a window failed to set the expiry, or
                   \* was counted, heard an error and did not try

limiter == <<tokens, since, count, stamps>>
requests == <<step, want, waits, timer, granted>>
limitVars == <<kind, limiter, requests, calls, passed, undated>>
vars == <<cacheVars, limitVars>>

-----------------------------------------------------------------------------
Kinds == {"token_bucket", "sliding_window", "fixed_window", "distributed"}

\* Validate: what NewLimiter takes.
Valid(k) ==
  IF k = "token_bucket" THEN Rate > 0 /\ Capacity > 0
  ELSE Limit > 0 /\ Window > 0

Age == 0 .. Window

Least(a, b) == IF a < b THEN a ELSE b

LimitTypeOK ==
  /\ TypeOK
  /\ kind \in Kinds \cup {"none"}
  /\ tokens \in 0 .. Capacity
  /\ since \in 0 .. Window + Capacity
  /\ count \in 0 .. Limit
  /\ stamps \in Seq(0 .. Window + 1) /\ Len(stamps) <= Limit
  /\ step \in [Caller -> {"idle", "trying", "dating", "denied", "sleeping",
                          "dead"}]
  /\ want \in [Caller -> 1 .. 2]
  /\ waits \in [Caller -> BOOLEAN]
  /\ timer \in [Caller -> Nat]
  /\ granted \in [Caller -> BOOLEAN]
  /\ calls \in 0 .. MaxCalls
  /\ passed \in [Age -> Nat]
  /\ undated \in BOOLEAN

NewTokenBucket == tokens = Capacity
NewSlidingWindow == stamps = <<>>
NewFixedWindow == since = 0 /\ count = 0

\* NewLimiter: a full bucket, an empty window, a window that begins now.
Init ==
  /\ CacheInit
  /\ kind \in {k \in Kinds : Valid(k)} \cup {"none"}
  /\ kind \in Kinds \ {"distributed"} => type = "memory"
  /\ NewTokenBucket /\ NewSlidingWindow /\ NewFixedWindow
  /\ step = [c \in Caller |-> "idle"]
  /\ want = [c \in Caller |-> 1]
  /\ waits = [c \in Caller |-> FALSE]
  /\ timer = [c \in Caller |-> 0]
  /\ granted = [c \in Caller |-> FALSE]
  /\ calls = 0
  /\ passed = [a \in Age |-> 0]
  /\ undated = FALSE
-----------------------------------------------------------------------------
(* What the middlewares make of the limiter's answer.                      *)

EndpointMiddleware(ok) == IF ok THEN "next" ELSE "ErrRateLimited"

HTTPMiddleware(ok) == IF ok THEN "next" ELSE "429"

UnaryServerInterceptor(ok) == IF ok THEN "next" ELSE "ResourceExhausted"

StreamServerInterceptor(ok) == IF ok THEN "next" ELSE "ResourceExhausted"

\* A waiting middleware learns only that the context ended.
EndpointMiddlewareWithWait(ended) == IF ended THEN "ctx.Err" ELSE "next"

HTTPMiddlewareWithWait(ended) == IF ended THEN "504" ELSE "next"

UnaryServerInterceptorWithWait(ended) ==
  IF ended THEN "DeadlineExceeded" ELSE "next"

Reply(c, ok) ==
  CASE Transport[c] = "endpoint" ->
         IF waits[c] THEN EndpointMiddlewareWithWait(~ ok)
         ELSE EndpointMiddleware(ok)
    [] Transport[c] = "http" ->
         IF waits[c] THEN HTTPMiddlewareWithWait(~ ok) ELSE HTTPMiddleware(ok)
    [] Transport[c] = "grpc" ->
         IF waits[c] THEN UnaryServerInterceptorWithWait(~ ok)
         ELSE UnaryServerInterceptor(ok)
    [] OTHER -> StreamServerInterceptor(ok)

\* The request is let pass or refused, or sleeps and tries again.
Answered(c, ok) ==
  /\ step' = [step EXCEPT ![c] = IF ~ ok /\ waits[c] THEN "denied" ELSE "idle"]
  /\ LET n == IF Reply(c, ok) = "next" /\ ok THEN want[c] ELSE 0
     IN  passed' = [a \in Age |-> passed[a] + n]

\* A request asks for n permits; the stream interceptor does not wait.
Request(c, n, w) ==
  /\ kind # "none"
  /\ step[c] = "idle"
  /\ calls < MaxCalls
  /\ w => Transport[c] # "stream"
  /\ calls' = calls + 1
  /\ step' = [step EXCEPT ![c] = "trying"]
  /\ want' = [want EXCEPT ![c] = n]
  /\ waits' = [waits EXCEPT ![c] = w]
  /\ UNCHANGED <<cacheVars, kind, limiter, timer, granted, passed, undated>>

\* A local limiter decides under its mutex.
Local(c) ==
  /\ step[c] = "trying"
  /\ UNCHANGED <<cacheVars, kind, want, waits, timer, granted, calls, undated>>
-----------------------------------------------------------------------------
(* Token bucket.                                                           *)

\* Mutant of refill: the bucket overflows.
refillOver == tokens + since * Rate

refill == Least(tokens + since * Rate, Capacity)

TokenAllowN(c) ==
  /\ kind = "token_bucket"
  /\ Local(c)
  /\ LET ok == refill >= want[c]
     IN  /\ tokens' = refill - IF ok THEN want[c] ELSE 0
         /\ Answered(c, ok)
  /\ since' = 0
  /\ UNCHANGED <<count, stamps>>

\* The tokens that another request may have taken or brought since.
TokenWait(c) == (want[c] - tokens) \div Rate
-----------------------------------------------------------------------------
(* Sliding window.                                                         *)

\* cleanup counts the timestamps before the cutoff, up to the first that is not.
slidingCleanup(i) ==
  /\ \A j \in 1 .. i : stamps[j] > Window
  /\ i < Len(stamps) => stamps[i + 1] <= Window

SlidingAllowN(c) ==
  /\ kind = "sliding_window"
  /\ Local(c)
  /\ \E i \in 0 .. Len(stamps) :
       LET kept == SubSeq(stamps, i + 1, Len(stamps))
           ok == Len(kept) + want[c] <= Limit
       IN  /\ slidingCleanup(i)
           /\ stamps' = kept \o IF ok THEN [j \in 1 .. want[c] |-> 0] ELSE <<>>
           /\ Answered(c, ok)
  /\ UNCHANGED <<tokens, since, count>>

\* The oldest timestamp may be past the window by now.
SlidingWait == IF stamps = <<>> THEN 1 ELSE Window - Head(stamps)
-----------------------------------------------------------------------------
(* Fixed window.                                                           *)

\* Mutant of FixedAllowN: the window never starts anew.
FixedAllowNOnce(c) ==
  /\ kind = "fixed_window"
  /\ Local(c)
  /\ LET ok == count + want[c] <= Limit
     IN  /\ count' = count + IF ok THEN want[c] ELSE 0
         /\ Answered(c, ok)
  /\ UNCHANGED <<tokens, since, stamps>>

FixedAllowN(c) ==
  /\ kind = "fixed_window"
  /\ Local(c)
  /\ LET over == since >= Window
         base == IF over THEN 0 ELSE count
         ok == base + want[c] <= Limit
     IN  /\ since' = IF over THEN 0 ELSE since
         /\ count' = base + IF ok THEN want[c] ELSE 0
         /\ Answered(c, ok)
  /\ UNCHANGED <<tokens, stamps>>

FixedWait == Window - since
-----------------------------------------------------------------------------
(* The distributed limiter.                                                *)

\* The request that made the counter has to set its expiry.
First(c) == data'[Counter].value = want[c]

\* Mutant of AllowNWithKey: any first request of the limit sets the expiry.
AllowNTooLate(c) ==
  /\ kind = "distributed"
  /\ step[c] = "trying"
  /\ IncrementBy(Counter, want[c])
  /\ LET n == data'[Counter].value
     IN  IF n = want[c] + 1
         THEN /\ step' = [step EXCEPT ![c] = "dating"]
              /\ granted' = [granted EXCEPT ![c] = n <= Limit]
              /\ UNCHANGED passed
         ELSE /\ Answered(c, n <= Limit)
              /\ UNCHANGED granted
  /\ UNCHANGED <<kind, limiter, want, waits, timer, calls, undated>>

\* IncrementBy; a count sent twice is not the first any more.
AllowNWithKey(c) ==
  /\ kind = "distributed"
  /\ step[c] = "trying"
  /\ IncrementBy(Counter, want[c])
  /\ LET n == data'[Counter].value
     IN  IF First(c)
         THEN /\ step' = [step EXCEPT ![c] = "dating"]
              /\ granted' = [granted EXCEPT ![c] = n <= Limit]
              /\ UNCHANGED <<passed, undated>>
         ELSE /\ Answered(c, n <= Limit)
              /\ undated' = (undated \/ (~ Live(Counter) /\ n # want[c]))
              /\ UNCHANGED granted
  /\ UNCHANGED <<kind, limiter, want, waits, timer, calls>>

\* Expire, whose error is ignored.
Date(c) ==
  /\ step[c] = "dating"
  /\ \/ Expire(Counter, Window) /\ UNCHANGED undated
     \/ /\ "kv" \in Faults \/ data[Counter] = None
        /\ undated' = TRUE
        /\ UNCHANGED cacheVars
  /\ Answered(c, granted[c])
  /\ granted' = [granted EXCEPT ![c] = FALSE]
  /\ UNCHANGED <<kind, limiter, want, waits, timer, calls>>

\* IncrementBy answers an error: the request passes without a permit.  The
\* server may have counted it, and then nobody sets the expiry of a counter that
\* it made.
FailOpen(c) ==
  /\ kind = "distributed" /\ type = "redis"
  /\ "kv" \in Faults
  /\ step[c] = "trying"
  /\ \/ UNCHANGED <<cacheVars, undated>>
     \/ /\ IncrementBy(Counter, want[c])
        /\ undated' = (undated \/ ~ Live(Counter))
  /\ step' = [step EXCEPT ![c] = "idle"]
  /\ UNCHANGED <<kind, limiter, want, waits, timer, granted, calls, passed>>

\* The process dies between the two calls.
Crash(c) ==
  /\ "crash" \in Faults
  /\ step[c] = "dating"
  /\ step' = [step EXCEPT ![c] = "dead"]
  /\ granted' = [granted EXCEPT ![c] = FALSE]
  /\ undated' = TRUE
  /\ UNCHANGED <<cacheVars, kind, limiter, want, waits, timer, calls, passed>>

DistributedWait == IF TTL(Counter) <= 0 THEN Poll ELSE TTL(Counter)
-----------------------------------------------------------------------------
(* Waiting.                                                                *)

\* WaitN computes its sleep in a second critical section, or a second call.
Sleep(c) ==
  LET sleep == CASE kind = "token_bucket" -> TokenWait(c)
                 [] kind = "sliding_window" -> SlidingWait
                 [] kind = "fixed_window" -> FixedWait
                 [] OTHER -> DistributedWait
  IN  /\ step[c] = "denied"
      /\ step' = [step EXCEPT ![c] = "sleeping"]
      /\ timer' = [timer EXCEPT ![c] = IF sleep < 1 THEN 1 ELSE sleep]
      /\ UNCHANGED <<cacheVars, kind, limiter, want, waits, granted, calls,
                     passed, undated>>

\* time.After fires.
Wake(c) ==
  /\ step[c] = "sleeping"
  /\ timer[c] = 0
  /\ step' = [step EXCEPT ![c] = "trying"]
  /\ UNCHANGED <<cacheVars, kind, limiter, want, waits, timer, granted, calls,
                 passed, undated>>

\* ctx.Done: the request is answered an error.
Cancel(c) ==
  /\ step[c] = "sleeping"
  /\ step' = [step EXCEPT ![c] = "idle"]
  /\ timer' = [timer EXCEPT ![c] = 0]
  /\ UNCHANGED <<cacheVars, kind, limiter, want, waits, granted, calls, passed,
                 undated>>

\* The clock, for the cache, the limiter and the sleepers.  The age of the
\* last update, and of a timestamp, stops where more of it changes nothing.
Tick ==
  /\ kind # "none"
  /\ Elapse
  /\ since' = Least(since + 1, Window + Capacity)
  /\ stamps' = [i \in DOMAIN stamps |-> Least(stamps[i] + 1, Window + 1)]
  /\ timer' = [c \in Caller |-> IF timer[c] > 0 THEN timer[c] - 1 ELSE 0]
  /\ passed' = [a \in Age |-> IF a = 0 THEN 0 ELSE passed[a - 1]]
  /\ UNCHANGED <<kind, tokens, count, step, want, waits, granted, calls,
                 undated>>

Try(c) == TokenAllowN(c) \/ SlidingAllowN(c) \/ FixedAllowN(c)
          \/ AllowNWithKey(c)

Next ==
  \/ kind = "none" /\ CacheNext /\ UNCHANGED limitVars
  \/ \E c \in Caller :
       \/ \E n \in 1 .. 2, w \in BOOLEAN : Request(c, n, w)
       \/ Try(c)
       \/ Date(c)
       \/ FailOpen(c)
       \/ Crash(c)
       \/ Sleep(c)
       \/ Wake(c)
       \/ Cancel(c)
  \/ kind = "distributed" /\ cleanup /\ UNCHANGED limitVars
  \/ Tick

Spec == Init /\ [][Next]_vars

\* The goroutines run and time passes.
LiveSpec ==
  /\ Spec
  /\ WF_vars(Tick)
  /\ \A c \in Caller : /\ WF_vars(Try(c))
                       /\ WF_vars(Date(c))
                       /\ WF_vars(Sleep(c))
                       /\ WF_vars(Wake(c))
-----------------------------------------------------------------------------
(* Properties.                                                             *)

\* ratelimit.go, on what each limiter is for: a bucket lets through no more
\* than it holds and what it gets meanwhile; a sliding window keeps its limit
\* in every window; a fixed one, and the counter of the distributed limiter,
\* let two limits through around a window's end, and never more.  Those are the
\* permits: when the cache cannot be reached the distributed limiter lets every
\* request pass, and bounds nothing.
WindowBound ==
  /\ kind = "token_bucket" =>
       \A n \in Age : passed[n] <= Capacity + n * Rate
  /\ kind = "sliding_window" => passed[Window] <= Limit
  /\ kind \in {"fixed_window", "distributed"} => passed[Window - 1] <= 2 * Limit

\* A counter that never expires, and nobody who is about to change that.
Orphan ==
  /\ kind = "distributed"
  /\ data[Counter].left = Forever
  /\ \A c \in Caller : step[c] # "dating"

\* AllowNWithKey sets the expiry in a second call, and only when its count is
\* the first: a Redis counter is left without expiry only when that call did
\* not come about, was not made because the count was lost on the way back, or
\* when go-redis had counted the first request twice.
OrphanCause == Orphan /\ type = "redis" => undated

\* The counters of the limiters bound what passes, and the distributed one
\* does not stay for ever.
CounterSound == WindowBound /\ OrphanCause

\* Other requests come to the limiter and are done with it, again and again.
Overtaken(c) ==
  \E d \in Caller \ {c} : []<>(step[d] = "idle") /\ []<>(step[d] # "idle")

\* WaitN blocks until the request may pass, and then it does: a request within
\* the limit that waits gets in or is cancelled, also when all the others wait,
\* unless the window's counter lost its expiry.  As long as others come they may
\* overtake it for ever: no limiter queues its requests.
WaiterServed ==
  \A c \in Caller :
    \/ Overtaken(c)
    \/ (step[c] = "denied" /\ want[c] <= Least(Limit, Capacity))
         ~> (step[c] \in {"idle", "dead"} \/ Orphan)
=============================================================================
