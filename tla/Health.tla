------------------------------- MODULE Health -------------------------------
(***************************************************************************)
(* The health checks of transport/health: the checkers, what a Health says  *)
(* of a list of them, and its HTTP and gRPC faces.                          *)
(*                                                                         *)
(* A checker is a record of its name and of the status it reports.  The     *)
(* checkers of a probe run at the same time and each writes its result      *)
(* under its name, so that of two with one name the later is kept: what a   *)
(* probe says is one of a SET of statuses.                                  *)
(***************************************************************************)
EXTENDS Naturals, Sequences, FiniteSets

Up == "UP"
Down == "DOWN"
Unknown == "UNKNOWN"
Statuses == {Up, Down, Unknown}

\* DOWN outweighs UNKNOWN, which outweighs UP.
Overall(S) ==
  IF Down \in S THEN Down ELSE IF Unknown \in S THEN Unknown ELSE Up

Checker(name, status) == [name |-> name, status |-> status]

\* A checker over anything that answers a ping: *sql.DB, redis, gorm.
PingChecker(name, fails) == Checker(name, IF fails THEN Down ELSE Up)

\* Runs its checkers one after the other and reports the worst of them.
CompositeChecker(name, checkers) ==
  Checker(name, Overall({c.status : c \in checkers}))

\* Mutant of RunChecks: a checker that cannot tell counts for a healthy one.
RunChecksHopeful(checkers) ==
  {IF Down \in {c.status : c \in checkers} THEN Down ELSE Up}

\* The checkers run at the same time, one result is kept for each name.
RunChecks(checkers) ==
  LET names == {c.name : c \in checkers}
      kept == {w \in [names -> Statuses] :
                 \A n \in names : Checker(n, w[n]) \in checkers}
  IN {Overall({w[n] : n \in names}) : w \in kept}

HTTPCode(status) == IF status = Up THEN 200 ELSE 503

\* The handlers of /healthz and /readyz: only GET is answered.
HTTPProbe(method, status) ==
  IF method # "GET" THEN 405 ELSE HTTPCode(status)

\* The middleware takes the two paths of the probes from the application.
Middleware(path, liveness, readiness, next) ==
  CASE path = "/healthz" -> HTTPCode(liveness)
    [] path = "/readyz"  -> HTTPCode(readiness)
    [] OTHER             -> next

ConvertStatus(status) ==
  CASE status = Up   -> "SERVING"
    [] status = Down -> "NOT_SERVING"
    [] OTHER         -> "UNKNOWN"

\* grpc.health.v1: a status set by hand outranks the checkers.
GRPCProbe(overrides, service, liveness, readiness) ==
  IF service \in DOMAIN overrides THEN overrides[service]
  ELSE CASE service \in {"", "readiness"} -> ConvertStatus(readiness)
         [] service = "liveness"          -> ConvertStatus(liveness)
         [] OTHER                         -> "NOT_FOUND"

SetServingStatus(overrides, service, status) ==
  [s \in DOMAIN overrides \cup {service} |->
     IF s = service THEN status ELSE overrides[s]]

ClearServingStatus(overrides, service) ==
  [s \in DOMAIN overrides \ {service} |-> overrides[s]]
=============================================================================
