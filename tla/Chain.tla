-------------------------------- MODULE Chain --------------------------------
(***************************************************************************)
(* One call from a client that retries (middleware/retry) through the      *)
(* chain a server puts around its handler: recovery, the doors of Auth,    *)
(* the access list of ClientIP, timeout, the mapping of errors of Status.  *)
(* The order is the one transport/http, grpc and gateway build, or one of  *)
(* an endpoint's:                                                          *)
(*   http               recovery, auth, ACL, timeout, handler              *)
(*   grpc, gateway      recovery, response, timeout, ACL, auth, handler    *)
(*   endpoint, fallback recovery, timeout, auth, handler                   *)
(* The timeout middleware runs what is inside it in a goroutine of its own *)
(* and stops waiting for it at the deadline; the goroutine goes on, also   *)
(* while the client tries again.                                           *)
(*                                                                         *)
(* Every attempt is a record with two goroutines: m, the one that serves   *)
(* the request, and h, the one the timeout middleware starts.  Over HTTP   *)
(* both write to the response under the lock of timeoutWriter, whose       *)
(* channel the first Lock makes: ch is the channel m.ch holds (0 for nil), *)
(* made how many were made, full those with a token in them.               *)
(***************************************************************************)
EXTENDS Auth, Status, ClientIP

CONSTANTS
  MaxAttempts, \* of the retry configuration
  Requests,    \* what the client may send
  Configs,     \* how client and server may be set up
  Denied,      \* the addresses of the deny list
  Public,      \* the paths made public: exact, or by prefix
  Methods,     \* the methods registered, as paths
  MethodOptions, ServiceOptions \* what their protobuf options say of auth

ASSUME ChainAssumption ==
  /\ MaxAttempts \in Nat \ {0} /\ Denied \subseteq Addrs
  /\ \A r \in Requests : r.peer \in Addrs
  /\ \A c \in Configs :
       /\ c.proto \in {"http", "grpc", "gateway", "endpoint", "fallback"}
       /\ c.proto = "gateway" => c.mapped

VARIABLES
  cfg,     \* the set-up
  req,     \* the request
  cli,     \* the client: where it is, the attempt, the answer
  expired, \* the client's context is done
  cut,     \* the attempts whose connection broke before the answer was read
  att,     \* the attempts
  up       \* the server's process lives

callVars == <<cfg, req, cli, expired, cut, att, up>>
chainVars == <<authVars, callVars>>

Attempt == 1..MaxAttempts
HTTP == cfg.proto = "http"
InProcess == cfg.proto \in {"endpoint", "fallback"}

\* Answers: an error or none, the status of an HTTP response, a lost
\* connection.
NoAnswer == [kind |-> "none", name |-> "Internal"]
Lost == [kind |-> "lost", name |-> "Internal"]
Response(code) == [kind |-> "http", name |-> code]
CtxErr == [kind |-> "context", name |-> "Timeout"]
Fallback == [kind |-> "fallback", name |-> "Success"]
IsOK(ans) == ans.name = "Success"

NoAttempt == [
  m |-> "none", h |-> "none",     \* where the goroutines are
  late |-> FALSE,                 \* the context of the attempt is done
  out |-> NoAnswer, ans |-> NoAnswer, \* what the handler, and the server, said
  ch |-> 0, made |-> 0, full |-> {}, on |-> [t \in {"m", "h"} |-> 0],
  wrote |-> FALSE, sent |-> FALSE, \* the handler wrote; wrote its body
  head |-> "none", body |-> {}]    \* the response: its status, whose text

\* Tokens come and go, or (a bound of the check: not every set-up with every
\* history of the store) the user's token was stored and stays.
ChainInit ==
  /\ cfg \in Configs /\ req \in Requests
  /\ IF cfg.churn THEN AuthInit
     ELSE /\ now = 0 /\ authStore = TRUE
          /\ \E tok \in Tokens :
               /\ tok.iat = 0 /\ tok.exp > MaxTime
               /\ store = [k \in Keys |->
                             IF k = CacheKey(tok) THEN tok ELSE NoToken]
  /\ cli = [pc |-> "check", n |-> 1, ans |-> NoAnswer]
  /\ expired = FALSE /\ cut = {} /\ up = TRUE
  /\ att = [i \in Attempt |-> NoAttempt]

-----------------------------------------------------------------------------
\* The doors, in the order of the server.
Carried == [form |-> "Bearer", tok |-> req.tok]
Authorizer == [roles |-> IF cfg.admin THEN {"admin"} ELSE {}, all |-> FALSE]
Listed == ACL({}, Denied, "allow")

\* The gateway discovers the public methods; the gRPC server does not, for
\* nothing calls the function of its options that would.
Skipped ==
  CASE InProcess -> FALSE
    [] cfg.proto = "gateway" ->
         GatewaySkipper(Public.exact, Public.prefixes,
           PublicMethods(Methods, ServiceOptions, MethodOptions), req)
    [] OTHER -> PublicSkipper(Public.exact, Public.prefixes, req)

AuthVerdict ==
  CASE HTTP -> HTTPDoor(Skipped, Carried, "custom", Authorizer)
    [] InProcess -> EndpointDoor(Skipped, Carried, "custom", Authorizer)
    [] OTHER -> UnaryDoor(Skipped, Carried, "custom", Authorizer)

IPVerdict ==
  LET proxies == TrustedProxies({})
      allowed ==
        CASE InProcess -> TRUE
          [] HTTP -> ACLHTTP(Listed, ExtractFromHTTP(req, proxies), req)
          [] OTHER -> ACLGRPC(Listed, ExtractFromGRPC(req, proxies))
  IN  IF allowed THEN "Success" ELSE "Forbidden"

Verdict ==
  LET order == IF HTTP THEN <<AuthVerdict, IPVerdict>>
                       ELSE <<IPVerdict, AuthVerdict>>
  IN  IF order[1] # "Success" THEN order[1] ELSE order[2]

\* What a refusal, and a handler's error, is as the chain's return value.
Refusal(code) ==
  CASE HTTP -> Response(code)
    [] InProcess -> PlainError
    [] OTHER -> StatusError(Codes[code].grpc)

\* What the caller is told: over HTTP the status; over gRPC the status of the
\* error, which response.UnaryServerInterceptor maps first when it is there,
\* and which is Unknown for an error that is no status; over the gateway the
\* HTTP status of that.
Wire(err) == IF err.kind \in {"nil", "status"} THEN err
             ELSE StatusError("Unknown")
MapResponse(err) == IF cfg.mapped THEN GRPCError(err) ELSE err
Answer(err) ==
  CASE cfg.proto = "grpc" -> Wire(MapResponse(err))
    [] cfg.proto = "gateway" ->
         Response(FromGRPCError(Wire(MapResponse(err))))
    [] OTHER -> err

\* A recovered panic.
Recovered ==
  CASE HTTP -> Response("Internal")
    [] InProcess -> PlainError
    [] OTHER -> StatusError("Internal")

\* A deadline that passed.
TimedOut ==
  CASE cfg.proto = "endpoint" -> CtxErr
    [] cfg.proto = "fallback" -> Fallback
    [] OTHER -> StatusError("DeadlineExceeded")

\* What a handler may return.
HandlerErrors == {NoErr, BusinessError("Conflict"),
                  BusinessError("ServiceUnavailable")}
Returned(err) == IF HTTP THEN Response(ExtractCode(err)) ELSE err

-----------------------------------------------------------------------------
\* The server.

SetAtt(i, a) == att' = [att EXCEPT ![i] = a]
UnchangedButAtt == UNCHANGED <<authVars, cfg, req, cli, expired, cut, up>>

\* What is inside the timeout returned err, in goroutine t.
Return(a, t, err) ==
  IF t = "h" THEN [a EXCEPT !.h = "done", !.out = err]
  ELSE [a EXCEPT !.m = "gone", !.out = err, !.ans = Answer(err)]

\* The middleware returned, and the response with it: what the handler still
\* writes, and waits for, nobody sees any more.
Over(a, ans) ==
  [a EXCEPT !.m = "gone", !.ans = ans, !.ch = 0, !.full = {},
            !.on = NoAttempt.on, !.sent = FALSE,
            !.h = IF @ \in {"gate", "run", "hung"} THEN @ ELSE "done"]

\* The goroutine that meets the doors meets them; behind them the handler
\* runs, over HTTP in the goroutine the timeout middleware starts now.
Gate(i, t) ==
  LET a == att[i] IN
  /\ up /\ a[t] = "gate"
  /\ SetAtt(i,
       IF Verdict # "Success" THEN Return(a, t, Refusal(Verdict))
       ELSE IF HTTP /\ cfg.timed THEN [a EXCEPT !.m = "wait", !.h = "run"]
       ELSE [a EXCEPT ![t] = "run"])
  /\ UnchangedButAtt

\* A handler writes while there is a response to write to.
Writing(a) == IF a.m = "gone" THEN "done" ELSE "lock"

\* The handler returns: over HTTP, inside the timeout, by writing.
HandlerReturns(i, t) ==
  /\ up /\ att[i][t] = "run"
  /\ \E err \in HandlerErrors :
       SetAtt(i, IF HTTP /\ t = "h"
                 THEN [att[i] EXCEPT !.h = Writing(att[i]),
                                     !.out = Returned(err)]
                 ELSE Return(att[i], t, Returned(err)))
  /\ UnchangedButAtt

\* Mutant of HandlerPanics: nothing recovers it.
HandlerPanicsOuter(i, t) ==
  /\ up /\ att[i][t] = "run"
  /\ up' = FALSE
  /\ UNCHANGED <<authVars, cfg, req, cli, expired, cut, att>>
\* The handler panics, inside an HTTP timeout perhaps after its status: a
\* recovery inside the timeout, or around a handler without one, makes an answer
\* of it; in the goroutine of the timeout nothing else does, and the process
\* dies.
HandlerPanics(i, t) ==
  /\ up
  /\ att[i][t] = "run" \/ (t = "h" /\ att[i].h = "lock" /\ att[i].wrote)
  /\ IF t = "m" \/ cfg.inner
     THEN /\ SetAtt(i, IF HTTP /\ t = "h"
                       THEN [att[i] EXCEPT !.h = Writing(att[i]),
                                           !.out = Recovered]
                       ELSE Return(att[i], t, Recovered))
          /\ UNCHANGED up
     ELSE up' = FALSE /\ UNCHANGED att
  /\ UNCHANGED <<authVars, cfg, req, cli, expired, cut>>

\* The handler panics without a timeout around it, over HTTP, after it wrote a
\* status: the one the recovery writes is too late.
PanicsAfterHead(i) ==
  /\ up /\ HTTP /\ att[i].m = "run"
  /\ \E err \in HandlerErrors :
       SetAtt(i, [att[i] EXCEPT !.m = "gone", !.out = Recovered, !.wrote = TRUE,
                                !.head = Returned(err).name,
                                !.ans = Returned(err)])
  /\ UnchangedButAtt

\* The handler never returns.
HandlerHangs(i, t) ==
  /\ up /\ att[i][t] = "run"
  /\ SetAtt(i, [att[i] EXCEPT ![t] = "hung"])
  /\ UnchangedButAtt

\* The context of the attempt is done: the timeout's, or one it was cut to.
Deadline(i) ==
  /\ up /\ cfg.timed /\ att[i].m = "wait" /\ ~att[i].late
  /\ SetAtt(i, [att[i] EXCEPT !.late = TRUE])
  /\ UnchangedButAtt

\* The select of the timeout middlewares: the deadline, over HTTP with a
\* status to write under the lock ...
GiveUp(i) ==
  /\ up /\ att[i].m = "wait" /\ att[i].late
  /\ SetAtt(i, IF HTTP THEN [att[i] EXCEPT !.m = "lock"]
               ELSE Over(att[i], Answer(TimedOut)))
  /\ UnchangedButAtt

\* What net/http sends: the first status, 200 when none was written.
HeadOf(a) == Response(IF a.head = "none" THEN "Success" ELSE a.head)

\* ... or the end of the handler, whichever select picks when both are there.
\* Over HTTP the answer is what was written, also before a panic.
TakeResult(i) ==
  LET a == att[i] IN
  /\ up /\ a.m = "wait" /\ a.h = "done"
  /\ SetAtt(i, Over(a, IF HTTP THEN HeadOf(a) ELSE Answer(a.out)))
  /\ UnchangedButAtt

\* mutex.Lock: the channel is made by whoever finds none, without a lock.
LockChannel(i, t) ==
  /\ up /\ att[i][t] = "lock"
  /\ SetAtt(i, [att[i] EXCEPT ![t] = IF att[i].ch = 0 THEN "make" ELSE "pick"])
  /\ UnchangedButAtt
MakeChannel(i, t) ==
  /\ up /\ att[i][t] = "make"
  /\ SetAtt(i, [att[i] EXCEPT ![t] = "pick", !.made = @ + 1,
                              !.ch = att[i].made + 1])
  /\ UnchangedButAtt
PickChannel(i, t) ==
  /\ up /\ att[i][t] = "pick"
  /\ SetAtt(i, [att[i] EXCEPT ![t] = "send", !.on[t] = att[i].ch])
  /\ UnchangedButAtt
SendToken(i, t) ==
  /\ up /\ att[i][t] = "send" /\ att[i].on[t] \notin att[i].full
  /\ SetAtt(i, [att[i] EXCEPT ![t] = "in", !.full = @ \cup {att[i].on[t]}])
  /\ UnchangedButAtt

\* The response writer: the first status counts.
WriteHead(a, code) == IF a.head = "none" THEN [a EXCEPT !.head = code] ELSE a
WriteBody(a, who) ==
  [a EXCEPT !.body = @ \cup {who},
            !.head = IF @ = "none" THEN "Success" ELSE @]

\* Mutant of Write503: what the handler wrote is not looked at.
Write503Always(a) == WriteBody(WriteHead(a, "ServiceUnavailable"), "m")
\* The middleware at the deadline: nothing if the handler wrote already.
Write503(a) ==
  IF a.wrote THEN a
  ELSE WriteBody(WriteHead(a, "ServiceUnavailable"), "m")

\* timeoutWriter.WriteHeader and then Write, by the handler.
WriteHeader(a) ==
  IF a.wrote THEN a
  ELSE WriteHead([a EXCEPT !.wrote = TRUE], a.out.name)
Write(a) == WriteBody([a EXCEPT !.wrote = TRUE, !.sent = TRUE], "h")

Critical(i, t) ==
  LET a == att[i] IN
  /\ up /\ a[t] = "in"
  /\ SetAtt(i, [ (IF t = "m" THEN Write503(a)
                  ELSE IF a.wrote /\ a.out # Recovered THEN Write(a)
                  ELSE WriteHeader(a)) EXCEPT ![t] = "unlock"])
  /\ UnchangedButAtt

\* mutex.Unlock receives from the channel there is now.  The handler locks
\* again to write its body, and returns after that.
Unlock(i, t) ==
  LET a == att[i]
      freed == [a EXCEPT !.full = @ \ {a.ch}]
  IN
  /\ up /\ a[t] = "unlock" /\ a.ch \in a.full
  /\ SetAtt(i, IF t = "m"
               THEN Over(a, HeadOf(a))
               ELSE IF a.out = Recovered \/ a.sent
               THEN [freed EXCEPT !.h = "done"]
               ELSE [freed EXCEPT !.h = "lock"])
  /\ UnchangedButAtt

-----------------------------------------------------------------------------
\* The client.

\* HTTPClient retries a lost connection, 5xx and 429; the interceptor and the
\* endpoint middleware what the configuration says, which is everything by
\* default.
HTTPRetry(ans) ==
  LET status == IF ans.kind = "lost" THEN 0 ELSE Codes[ans.name].http
  IN  IF cfg.always THEN DefaultHTTPRetryable(status)
      ELSE RetryOnConnectionError(status)
GRPCRetry(ans) ==
  ~IsOK(ans) /\ (cfg.always \/ DefaultGRPCRetryable(ans))
EndpointRetry(ans) == ~IsOK(ans) /\ cfg.always
Retryable(ans) ==
  CASE cfg.proto \in {"http", "gateway"} -> HTTPRetry(ans)
    [] cfg.proto = "grpc" -> GRPCRetry(ans)
    [] OTHER -> EndpointRetry(ans)

\* An endpoint's caller lives and dies with the endpoint.
Running == InProcess => up
EndCall(ans) == cli' = [cli EXCEPT !.pc = "done", !.ans = ans]

\* The loop: the context is looked at, and the request sent.
SendAttempt ==
  /\ cli.pc = "check" /\ ~expired /\ Running
  /\ cli' = [cli EXCEPT !.pc = "sent"]
  /\ SetAtt(cli.n,
            IF cfg.timed /\ ~HTTP
            THEN [NoAttempt EXCEPT !.m = "wait", !.h = "gate"]
            ELSE [NoAttempt EXCEPT !.m = "gate"])
  /\ UNCHANGED <<authVars, cfg, req, expired, cut, up>>

\* Mutant of Receive: a lost connection is not reported.
ReceiveFromLiving ==
  /\ cli.pc = "sent" /\ att[cli.n].ans # NoAnswer /\ cli.n \notin cut
  /\ IF Retryable(att[cli.n].ans) /\ cli.n < MaxAttempts
     THEN cli' = [cli EXCEPT !.pc = "wait"]
     ELSE EndCall(att[cli.n].ans)
  /\ UNCHANGED <<authVars, cfg, req, expired, cut, att, up>>
\* The answer, or none because the server died, the connection broke or the
\* client's context is done: it is returned, or there is another attempt to wait
\* for.
Receive ==
  /\ cli.pc = "sent" /\ Running
  /\ \E ans \in {att[cli.n].ans, Lost} :
       /\ IF ans = Lost THEN ~InProcess /\ (~up \/ expired \/ cli.n \in cut)
          ELSE ans # NoAnswer /\ cli.n \notin cut
       /\ IF Retryable(ans) /\ cli.n < MaxAttempts
          THEN cli' = [cli EXCEPT !.pc = "wait"]
          ELSE EndCall(ans)
  /\ UNCHANGED <<authVars, cfg, req, expired, cut, att, up>>

\* The connection of the attempt breaks, before, while or after a server that
\* lives does its work.
ConnectionBreaks ==
  /\ cfg.breaks /\ ~InProcess /\ cli.pc = "sent" /\ cli.n \notin cut
  /\ cut' = cut \cup {cli.n}
  /\ UNCHANGED <<authVars, cfg, req, cli, expired, att, up>>

Backoff ==
  /\ cli.pc = "wait" /\ Running
  /\ cli' = [cli EXCEPT !.pc = "check", !.n = @ + 1]
  /\ UNCHANGED <<authVars, cfg, req, expired, cut, att, up>>

\* The context is done before an attempt or while the client waits.
Abandon ==
  /\ cli.pc \in {"check", "wait"} /\ expired /\ Running
  /\ EndCall(CtxErr)
  /\ UNCHANGED <<authVars, cfg, req, expired, cut, att, up>>

\* The deadline of the client passes.
ClientDeadline ==
  /\ cfg.deadline /\ ~expired /\ cli.pc # "done"
  /\ expired' = TRUE
  /\ UNCHANGED <<authVars, cfg, req, cli, cut, att, up>>

-----------------------------------------------------------------------------
Goroutine(i, t) ==
  \/ Gate(i, t)
  \/ HandlerReturns(i, t) \/ HandlerPanics(i, t) \/ HandlerHangs(i, t)
  \/ LockChannel(i, t) \/ MakeChannel(i, t) \/ PickChannel(i, t)
  \/ SendToken(i, t) \/ Critical(i, t) \/ Unlock(i, t)

Server(i) ==
  \/ \E t \in {"m", "h"} : Goroutine(i, t)
  \/ PanicsAfterHead(i)
  \/ Deadline(i) \/ GiveUp(i) \/ TakeResult(i)

Client == SendAttempt \/ Receive \/ Backoff \/ Abandon

ChainNext ==
  \/ \E i \in Attempt : Server(i)
  \/ Client
  \/ ClientDeadline \/ ConnectionBreaks
  \/ cfg.churn /\ AuthNext /\ UNCHANGED callVars

\* Goroutines are scheduled, timers fire, and the client runs; nobody is bound
\* to issue tokens or to lose them, a client's deadline may be far away and a
\* connection may hold.
Fairness ==
  /\ WF_chainVars(Client)
  /\ \A i \in Attempt :
       /\ WF_chainVars(Goroutine(i, "m")) /\ WF_chainVars(Goroutine(i, "h"))
       /\ WF_chainVars(Deadline(i))
       /\ WF_chainVars(GiveUp(i) \/ TakeResult(i))

ChainSpec == ChainInit /\ [][ChainNext]_chainVars /\ Fairness
-----------------------------------------------------------------------------
\* A token is good when this service signed it, it has not expired, and, where
\* there is a store, it is the token last stored for its second and not
\* forgotten.
Good(tok) ==
  tok.signed /\ now < tok.exp /\ (authStore => store[CacheKey(tok)] = tok)

Forms == {"Bearer", "bearer", "raw", "query", "context", "apikey", "none"}
NoAuthorizer == [roles |-> {}, all |-> FALSE]
AdminsOnly == [roles |-> {"admin"}, all |-> TRUE]
NoList == [header |-> FALSE, paths |-> {}]
Verdicts(c, mapper, a) ==
  {HTTPDoor(FALSE, c, mapper, a), UnaryDoor(FALSE, c, mapper, a),
   StreamDoor(FALSE, c, mapper, a), EndpointDoor(FALSE, c, mapper, a),
   Door(FALSE, BearerExtractor(c), mapper, a),
   Door(FALSE, GRPCBearerExtractor(c), mapper, a)}
JWTVerdicts(c) ==
  {JWTParser(NoList, c), JWTHTTP(NoList, c), JWTUnary(NoList, c),
   JWTStream(NoList, c)}

\* Whatever door a token is shown at, in whatever form, it opens only if it is
\* good; every door of auth and of auth/jwt opens to a good one in a Bearer
\* header; and behind an authoriser nobody gets in by the default mapper,
\* which finds no roles, and the administrators do by one that does; asked of
\* every history of the store, which the call itself does not touch
\* (auth/http.go:34, auth/grpc.go:37, auth/middleware.go:26,
\* auth/jwt/middleware.go:60, auth/jwt/jwt.go:158).
DoorsAgree ==
  att[1] = NoAttempt =>
  \A tok \in Tokens \cup Forged :
    LET Carry(f) == [form |-> f, tok |-> tok, internal |-> TRUE,
                     path |-> <<>>]
    IN
    /\ \A f \in Forms :
         "Success" \in Verdicts(Carry(f), "default", NoAuthorizer)
                         \cup JWTVerdicts(Carry(f)) => Good(tok)
    /\ Good(tok) => Verdicts(Carry("Bearer"), "default", NoAuthorizer)
                      \cup JWTVerdicts(Carry("Bearer")) = {"Success"}
    /\ "Success" \notin Verdicts(Carry("Bearer"), "default", AdminsOnly)
    /\ Good(tok) => Verdicts(Carry("Bearer"), "custom", AdminsOnly) =
                      {IF tok.sub \in Admins THEN "Success" ELSE "Forbidden"}

\* What the caller is told is so.  The text of the timeout is in an answer only
\* under the timeout's status, unless two goroutines made the lock's channel;
\* success is said for a handler that succeeded, but for a fallback at the
\* deadline and a handler that panicked after its status; and it is cut short
\* only by a deadline or such a panic (middleware/timeout/http.go:54,
\* middleware/timeout/endpoint.go:118, middleware/recovery/http.go:49).
HonestAnswer ==
  \A i \in Attempt :
    LET a == att[i] IN
    /\ "m" \in a.body => a.head = "ServiceUnavailable" \/ a.made = 2
    /\ IsOK(a.ans) =>
         \/ IsOK(a.out)
         \/ cfg.proto = "fallback" /\ a.late
         \/ HTTP /\ a.out = Recovered /\ a.wrote
    /\ IsOK(a.ans) /\ HTTP /\ cfg.timed /\ "h" \notin a.body =>
         a.late \/ a.out = Recovered

\* The handler does its work twice for one call only when the first time was
\* too late for its deadline, or when its answer was lost on the way: nothing
\* else makes a client ask again for what was done, whatever the mapping of
\* errors and codes between handler and client.  The client does ask again for
\* work done in time when the connection breaks, and has no means to tell
\* (middleware/retry/http.go:81, middleware/retry/grpc.go:48,
\* middleware/retry/middleware.go:77, middleware/timeout/grpc.go:56).
DoneTwiceOnlyIfLate ==
  \A i, j \in Attempt :
    i < j /\ IsOK(att[i].out) /\ IsOK(att[j].out) =>
      att[i].late \/ i \in cut

\* A panic takes the process down only out of the goroutine of a timeout that
\* has no recovery inside it (middleware/recovery/http.go:30,
\* middleware/timeout/http.go:49).
PanicContained == up \/ (cfg.timed /\ ~cfg.inner)

AnswersSound == HonestAnswer /\ DoneTwiceOnlyIfLate /\ PanicContained

\* The one way a timed call does not return: the lock was made twice, and the
\* goroutine of the request waits for a token somebody else received.
Jammed == att[cli.n].made = 2 /\ att[cli.n].m # "gone"
\* Ways out of anybody's hands: a handler that never returns without a timeout
\* around it, and a caller that died with its endpoint.
Forsaken == (~cfg.timed /\ att[cli.n].m = "hung") \/ ~Running

\* Every call ends: the client gets an answer or gives up, unless the lock of
\* the timeout jams or nobody watches the handler (middleware/retry/http.go:67,
\* middleware/timeout/http.go:98).
CallReturns == <>(cli.pc = "done" \/ Jammed \/ Forsaken)

-----------------------------------------------------------------------------
\* The tables, over headers of at most two hops.

Hosts == Addrs \cup {NoIP, Junk}
IPRequests(peer) ==
  [peer : {peer}, xff : UNION {[1..n -> Hosts] : n \in 0..2},
   real : Hosts, md : BOOLEAN]

\* A client's address is never of its own making: with proxies named, it is
\* the peer, unless that is one of them, and then the nearest hop that is not,
\* if it is an address; HTTP and gRPC agree on it, the deny list wins, and an
\* address without a country is one the mode decides
\* (request/clientip/http.go:52, grpc.go:91, clientip.go:150, acl.go:119).
\* Asked once of every peer, before it is served.
ClientIsNearest ==
  att[1] = NoAttempt /\ now = 0 =>
  \A r \in IPRequests(req.peer), nets \in SUBSET Addrs :
    LET o == TrustedProxies(nets)
        ip == ExtractFromHTTP(r, o)
    IN
    /\ r.md => \A p \in {o, TrustAll} :
                 ExtractFromGRPC(r, p) = ExtractFromHTTP(r, p)
    /\ ~(\E i \in DOMAIN r.xff : r.xff[i] = Junk)
         /\ (\E a \in Addrs : IsFirstStranger(r, o, a))
         => IsFirstStranger(r, o, ip)
    /\ \A mode \in {"allow", "deny"} :
         /\ ~IsAllowed(ACL(Addrs, Denied, mode), ip) <=> ip \in Denied
         /\ \A c \in {Country[a] : a \in Addrs} \ {NoIP} :
              CheckCountry(ACL({c}, {}, mode), ip) <=>
                CountryOf(ip) = c \/ mode = "allow"

\* What the handler says of its error reaches the caller of the gateway: the
\* answer in time is of the class (4xx, 5xx) the code itself has, of every
\* code in the table; but a refusal by the doors, which is a status already,
\* comes out of the mapping as Internal.  The text of an error is only told with
\* an answer that blames the caller, but that of Unknown and of Timeout.  A
\* code a gRPC client retries is one it retries after it was told over HTTP,
\* but Aborted (response/grpc.go:15, error.go:120,
\* transport/gateway/server/server.go:98).
CodesSurvive ==
  /\ \A i \in Attempt :
       LET a == att[i] IN
       cfg.proto = "gateway" /\ a.ans # NoAnswer /\ ~a.late =>
         Codes[a.ans.name].http \div 100 =
           IF a.out.kind = "status" THEN 5
           ELSE Codes[ExtractCode(a.out)].http \div 100
  /\ cfg.proto = "gateway" /\ att[1] = NoAttempt =>
       \A c \in CodeNames \ {"Success"} :
         /\ UnifiedErrorHandler(GRPCError(BusinessError(c))) \div 100
              = Codes[c].http \div 100
         /\ ShowsOwnMessage(BusinessError(c)) =>
              Codes[c].http < 500 \/ c \in {"Unknown", "Timeout"}
  /\ cfg.proto = "gateway" /\ att[1] = NoAttempt =>
       \A g \in GRPCCodes \ {"Aborted"} :
         DefaultGRPCRetryable(StatusError(g)) =>
           DefaultGRPCRetryable(StatusError(HTTPToGRPCCode(GRPCCodeToHTTP(g))))

\* What HTTP and gRPC make of one request, on the way in and on the way out,
\* agrees.
EdgesAgree == DoorsAgree /\ ClientIsNearest /\ CodesSurvive
=============================================================================
