------------------------------ MODULE AppProofs ------------------------------
(***************************************************************************)
(* Theorems about App, for every set of configurations.                     *)
(*                                                                         *)
(* What Consul has of a service is either in the registry's list, or a call *)
(* of its own to Consul failed; by the time a server's doors are closed the *)
(* list is empty, so that what Consul still sends calls to is blamed.  A    *)
(* request is served behind an open door, or behind one whose Stop waits    *)
(* for it.  What a probe says follows from the operators of Health.         *)
(***************************************************************************)
EXTENDS App, FiniteSetTheorems, TLAPS

-----------------------------------------------------------------------------
(* Sequences *)

LEMMA InRange ==
  ASSUME NEW S, NEW q \in Seq(S)
  PROVE  \A x : x \in Range(q) <=> \E i \in 1..Len(q) : x = q[i]
<1>1. DOMAIN q = 1..Len(q)
  BY SMT
<1> QED
  BY <1>1 DEF Range

\* What the registry's loop has left, and what it registered, as sets.
LEMMA RangeTail ==
  ASSUME NEW S, NEW q \in Seq(S), q # <<>>
  PROVE  /\ Tail(q) \in Seq(S) /\ Head(q) \in S /\ Head(q) \in Range(q)
         /\ Range(q) = Range(Tail(q)) \cup {Head(q)}
<1>1. Tail(q) \in Seq(S) /\ Head(q) \in S /\ Len(q) \in Nat \ {0}
  BY SMT
<1>2. Head(q) \in Range(q)
  BY <1>1, InRange
<1>3. ASSUME NEW x \in Range(q)
      PROVE  x \in Range(Tail(q)) \cup {Head(q)}
  <2>1. PICK i \in 1..Len(q) : x = q[i]
    BY <1>3 DEF Range
  <2>2. CASE i = 1
    BY <2>1, <2>2
  <2>3. CASE i # 1
    <3>1. i - 1 \in 1..Len(Tail(q)) /\ Tail(q)[i - 1] = q[i]
      BY <1>1, <2>1, <2>3
    <3>2. Tail(q)[i - 1] \in Range(Tail(q))
      BY <1>1, <3>1, InRange
    <3> QED
      BY <2>1, <3>1, <3>2
  <2> QED
    BY <2>2, <2>3
<1>4. ASSUME NEW x \in Range(Tail(q))
      PROVE  x \in Range(q)
  <2>1. PICK i \in 1..Len(Tail(q)) : x = Tail(q)[i]
    BY <1>1, <1>4 DEF Range
  <2>2. i + 1 \in 1..Len(q) /\ q[i + 1] = Tail(q)[i]
    BY <1>1, <2>1
  <2> QED
    BY <2>1, <2>2 DEF Range
<1> QED
  BY <1>1, <1>2, <1>3, <1>4

LEMMA RangeAppend ==
  ASSUME NEW S, NEW q \in Seq(S), NEW e \in S
  PROVE  Append(q, e) \in Seq(S) /\ Range(Append(q, e)) = Range(q) \cup {e}
<1>1. Append(q, e) \in Seq(S) /\ Len(Append(q, e)) = Len(q) + 1
      /\ Len(q) \in Nat
  BY SMT
<1>2. ASSUME NEW x \in Range(Append(q, e))
      PROVE  x \in Range(q) \cup {e}
  <2>1. PICK i \in 1..(Len(q) + 1) : x = Append(q, e)[i]
    BY <1>1, <1>2 DEF Range
  <2>2. CASE i = Len(q) + 1
    BY <1>1, <2>1, <2>2
  <2>3. CASE i # Len(q) + 1
    <3>1. i \in 1..Len(q) /\ x = q[i]
      BY <1>1, <2>1, <2>3
    <3> QED
      BY <3>1 DEF Range
  <2> QED
    BY <2>2, <2>3
<1>3. ASSUME NEW x \in Range(q)
      PROVE  x \in Range(Append(q, e))
  <2>1. PICK i \in 1..Len(q) : x = q[i]
    BY <1>3 DEF Range
  <2>2. i \in 1..Len(Append(q, e)) /\ Append(q, e)[i] = q[i]
    BY <1>1, <2>1
  <2> QED
    BY <2>1, <2>2, <1>1 DEF Range
<1>4. e \in Range(Append(q, e))
  <2>1. Len(q) + 1 \in 1..Len(Append(q, e))
        /\ Append(q, e)[Len(q) + 1] = e
    BY <1>1
  <2> QED
    BY <2>1, <1>1 DEF Range
<1> QED
  BY <1>1, <1>2, <1>3, <1>4

-----------------------------------------------------------------------------
(* What Consul is told of a service *)

\* The protocol is grpc for what answers gRPC where Consul is to find it: then
\* the address and the check are those of the gRPC port, and it is a TCP check
\* or one that speaks gRPC.  Any check goes to a door of the service.
LEMMA RecordFacts ==
  ASSUME NEW how \in {"server", "address"}, NEW s \in Kinds
  PROVE  LET r == Records[how][s]
             d == r.check.addr.port
         IN /\ d \in DoorsOf(s)
            /\ r.check.type \in {"tcp", "http", "grpc"}
            /\ r.check.type = "http" => d = Web(s) /\ s \in HasWeb
            /\ r.check.type = "grpc" => d = RPC(s) /\ s \in HasRPC
            /\ "grpc" \in r.tags =>
                 /\ s \in HasRPC /\ r.addr.port = RPC(s) /\ d = RPC(s)
                 /\ r.check.type \in {"tcp", "grpc"}
            /\ how = "address" => r.check.type = "tcp"
<1> DEFINE r == Registered(Service(how, s))
<1>1. Records[how][s] = r
  BY DEF Records
<1>2. NoPort \notin Doors
  BY AppAssumption
<1>3. /\ s \in HasWeb => Web(s) \in Doors /\ Web(s) # NoPort
                         /\ Web(s)[1] = s
      /\ s \in HasRPC => RPC(s) \in Doors /\ RPC(s) # NoPort
                         /\ RPC(s)[1] = s
  BY <1>2 DEF Doors, Web, RPC
<1>4. s # Nameless
  BY DEF Kinds, Nameless
<1>5. CASE how = "address"
  <2> DEFINE main == IF s \in HasRPC THEN RPC(s) ELSE Web(s)
             proto == IF s \in HasRPC THEN "grpc" ELSE "http"
  <2>1. Service(how, s) = AddService(s, Address("0.0.0.0", main), proto)
    BY <1>4, <1>5 DEF Service, Server
  <2>2. r = Registration(Address("127.0.0.1", main), proto,
                         Endpoint("tcp", Address("127.0.0.1", main)))
    BY <2>1 DEF Registered, RegisterWithProtocol, AddService, Localhost,
                Address, TCPCheck
  <2>3. /\ r.addr.port = main /\ r.check.addr.port = main
        /\ r.check.type = "tcp"
        /\ r.tags = ServiceConfig(proto).tags \cup {proto}
    BY <2>2 DEF Registration, Endpoint, Address
  <2>4. s \notin HasRPC => "grpc" \notin r.tags
    BY <2>3 DEF ServiceConfig
  <2>5. s \in HasRPC \/ s \in HasWeb
    BY DEF Kinds, HasRPC, HasWeb
  <2> QED
    BY <1>1, <1>3, <1>5, <2>3, <2>4, <2>5 DEF DoorsOf
<1>6. CASE how = "server"
  <2> DEFINE main == IF s \in HasRPC THEN RPC(s) ELSE Web(s)
             probed == IF s \in HasWeb THEN Web(s) ELSE RPC(s)
             type == IF s \in HasWeb THEN "http" ELSE "grpc"
             own == Endpoint(type, Address("", probed))
  <2>0. s \in HasRPC \/ s \in HasWeb
    BY DEF Kinds, HasRPC, HasWeb
  <2>1. Service(how, s) =
          AddServerWithProtocol(s, Server(s), type)
    <3>1. InferProtocol(Server(s)) = type
      BY DEF InferProtocol, Server, Endpoint
    <3> QED
      BY <1>4, <1>6, <3>1 DEF Service, AddServer
  <2>2. /\ Server(s).addr = Address("0.0.0.0", main)
        /\ Server(s).endpoint = own
    BY DEF Server
  <2>3. Service(how, s) = [name |-> s, addr |-> Address("0.0.0.0", main),
                           protocol |-> type, endpoint |-> own]
    BY <2>1, <2>2 DEF AddServerWithProtocol
  <2>4. own # NoEndpoint
    BY DEF NoEndpoint, Endpoint
  <2>5. probed # NoPort
    BY <1>3, <2>0
  <2>6. CheckFromEndpoint(Address("127.0.0.1", main), own) =
          Endpoint(type, Address("127.0.0.1", probed))
    BY <2>4, <2>5 DEF CheckFromEndpoint, Endpoint, Address
  <2>7. r = Registration(Address("127.0.0.1", main), type,
                         Endpoint(type, Address("127.0.0.1", probed)))
    <3> HIDE DEF main, type, own, probed
    <3>1. /\ Service(how, s).protocol = type /\ Service(how, s).endpoint = own
          /\ Service(how, s).addr = Address("0.0.0.0", main)
      BY <2>3
    <3>2. r = RegisterWithHealthEndpoint(Service(how, s))
      BY <2>4, <3>1 DEF Registered
    <3>3. Localhost(Address("0.0.0.0", main)) = Address("127.0.0.1", main)
      BY DEF Localhost, Address
    <3> QED
      BY <2>6, <3>1, <3>2, <3>3 DEF RegisterWithHealthEndpoint
  <2>8. /\ r.addr.port = main /\ r.check.addr.port = probed
        /\ r.check.type = type
        /\ r.tags = ServiceConfig(type).tags \cup {type}
    BY <2>7 DEF Registration, Endpoint, Address
  <2>9. s \in HasWeb => "grpc" \notin r.tags
    BY <2>8 DEF ServiceConfig
  <2>a. probed \in DoorsOf(s)
    BY <1>3, <2>0 DEF DoorsOf
  <2>b. /\ type \in {"http", "grpc"}
        /\ type = "http" => probed = Web(s) /\ s \in HasWeb
        /\ type = "grpc" => probed = RPC(s) /\ s \in HasRPC
    BY <2>0
  <2>c. "grpc" \in r.tags => /\ s \in HasRPC /\ r.addr.port = RPC(s)
                             /\ r.check.addr.port = RPC(s)
                             /\ type = "grpc"
    <3>1. s \in HasWeb \/ (s \in HasRPC /\ main = RPC(s) /\ probed = RPC(s)
                            /\ type = "grpc")
      BY <2>0
    <3> QED
      BY <2>8, <2>9, <3>1
  <2> QED
    BY <1>1, <1>6, <2>8, <2>a, <2>b, <2>c
<1> QED
  BY <1>5, <1>6

-----------------------------------------------------------------------------
(* What a probe says *)

\* A health without checkers is up.
LEMMA NoChecker == RunChecks({}) = {Up}
<1> DEFINE names == {c.name : c \in {}}
           kept == {w \in [names -> Statuses] :
                      \A n \in names : Checker(n, w[n]) \in {}}
           none == [n \in names |-> Up]
<1>1. names = {}
  OBVIOUS
<1>2. none \in kept
  BY <1>1
<1>3. \A w \in kept : Overall({w[n] : n \in names}) = Up
  BY <1>1 DEF Overall, Up, Down, Unknown
<1>4. RunChecks({}) = {Overall({w[n] : n \in names}) : w \in kept}
  BY DEF RunChecks
<1> HIDE DEF kept
<1> QED
  BY <1>2, <1>3, <1>4

\* Two checkers of different names: both count.
LEMMA TwoCheckers ==
  ASSUME NEW x \in Statuses, NEW y \in Statuses, NEW m, NEW n, m # n
  PROVE  RunChecks({Checker(m, x), Checker(n, y)}) = {Overall({x, y})}
<1> DEFINE checkers == {Checker(m, x), Checker(n, y)}
           names == {c.name : c \in checkers}
           kept == {w \in [names -> Statuses] :
                      \A k \in names : Checker(k, w[k]) \in checkers}
           both == [k \in names |-> IF k = m THEN x ELSE y]
<1>1. names = {m, n}
  BY DEF Checker
<1>2. Checker(m, both[m]) = Checker(m, x) /\ Checker(n, both[n]) = Checker(n, y)
  BY <1>1
<1>3. both \in kept
  BY <1>1, <1>2
<1>4. ASSUME NEW w \in kept
      PROVE  {w[k] : k \in names} = {x, y}
  <2>1. Checker(m, w[m]) \in checkers /\ Checker(n, w[n]) \in checkers
    BY <1>1
  <2>2. w[m] = x /\ w[n] = y
    BY <2>1 DEF Checker
  <2> QED
    BY <1>1, <2>2
<1>5. RunChecks(checkers) = {Overall({w[k] : k \in names}) : w \in kept}
  BY DEF RunChecks
<1>6. \A w \in kept : Overall({w[k] : k \in names}) = Overall({x, y})
  BY <1>4
<1> HIDE DEF kept, both, checkers
<1>7. RunChecks(checkers) = {Overall({x, y})}
  BY <1>3, <1>5, <1>6
<1> QED
  BY <1>7 DEF checkers

\* One checker decides alone.
LEMMA OneChecker ==
  ASSUME NEW n, NEW x \in Statuses
  PROVE  RunChecks({Checker(n, x)}) = {x}
<1> DEFINE names == {c.name : c \in {Checker(n, x)}}
           kept == {w \in [names -> Statuses] :
                      \A k \in names : Checker(k, w[k]) \in {Checker(n, x)}}
           only == [k \in names |-> x]
<1>1. names = {n}
  BY DEF Checker
<1>2. only \in kept
  BY <1>1
<1>3. ASSUME NEW w \in kept
      PROVE  {w[k] : k \in names} = {x}
  BY <1>1 DEF Checker
<1>4. Overall({x}) = x
  BY DEF Overall, Statuses, Up, Down, Unknown
<1>5. RunChecks({Checker(n, x)}) =
        {Overall({w[k] : k \in names}) : w \in kept}
  BY DEF RunChecks
<1>6. \A w \in kept : Overall({w[k] : k \in names}) = x
  BY <1>3, <1>4
<1> HIDE DEF kept, only
<1> QED
  BY <1>2, <1>5, <1>6

\* The probes of a server whose dependencies are up.
LEMMA ProbesUp ==
  ASSUME deps = Up
  PROVE  Liveness = Up /\ Readiness = Up
<1>1. Liveness = Up
  BY NoChecker DEF Liveness
<1>2. PingChecker("deps", deps = Down) = Checker("deps", Up)
  BY DEF PingChecker, Up, Down
<1>3. RunChecks({PingChecker("deps", deps = Down)}) = {Up}
  BY <1>2, OneChecker DEF Statuses
<1> QED
  BY <1>1, <1>3 DEF Readiness

\* A status set by hand counts for its own name, until it is cleared.
LEMMA ByHand ==
  ASSUME NEW r \in Statuses
  PROVE  LET set == SetServingStatus(<<>>, "readiness", "SERVING")
             cleared == ClearServingStatus(set, "readiness")
         IN /\ GRPCProbe(set, "readiness", Up, r) = "SERVING"
            /\ \A o \in {<<>>, set, cleared} :
                 GRPCProbe(o, "", Up, r) = ConvertStatus(r)
            /\ GRPCProbe(<<>>, "readiness", Up, r) = ConvertStatus(r)
<1> DEFINE set == SetServingStatus(<<>>, "readiness", "SERVING")
           cleared == ClearServingStatus(set, "readiness")
<1>1. DOMAIN <<>> = {}
  OBVIOUS
<1>2. DOMAIN set = {"readiness"} /\ set["readiness"] = "SERVING"
  BY <1>1 DEF SetServingStatus
<1>3. DOMAIN cleared = {}
  BY <1>2 DEF ClearServingStatus
<1>4. GRPCProbe(set, "readiness", Up, r) = "SERVING"
  BY <1>2 DEF GRPCProbe
<1>5. ASSUME NEW o, "" \notin DOMAIN o
      PROVE  GRPCProbe(o, "", Up, r) = ConvertStatus(r)
  BY <1>5 DEF GRPCProbe
<1>6. "" \notin DOMAIN <<>> /\ "" \notin DOMAIN set /\ "" \notin DOMAIN cleared
  BY <1>1, <1>2, <1>3
<1>7. GRPCProbe(<<>>, "readiness", Up, r) = ConvertStatus(r)
  BY <1>1 DEF GRPCProbe
<1> HIDE DEF set, cleared
<1>8. \A o \in {<<>>, set, cleared} : GRPCProbe(o, "", Up, r) = ConvertStatus(r)
  BY <1>5, <1>6
<1> QED
  BY <1>4, <1>7, <1>8 DEF set, cleared

LEMMA TwoFaces ==
  ASSUME NEW x \in Statuses, NEW y \in Statuses
  PROVE  LET r == Overall({x, y})
         IN /\ r \in Statuses
            /\ HTTPProbe("GET", r) = 200 <=> x = Up /\ y = Up
            /\ ConvertStatus(r) = "SERVING" <=> HTTPCode(r) = 200
            /\ Down \in {x, y} => ConvertStatus(r) = "NOT_SERVING"
BY DEF Overall, Statuses, HTTPProbe, HTTPCode, ConvertStatus, Up, Down, Unknown

\* What a probe answers about two checkers, in every state: HTTP and gRPC say
\* the same, and who is down is not outvoted (health.go).
LEMMA Agreement ==
  ASSUME NEW x \in Statuses, NEW y \in Statuses
  PROVE  LET a == RunChecks({Checker("a", x), Checker("b", y)})
             b == RunChecks({CompositeChecker("c", {Checker("a", x),
                                                    Checker("b", y)})})
         IN /\ Cardinality(a) = 1 /\ a = b
            /\ \A r \in a : r = Overall({x, y})
<1>1. RunChecks({Checker("a", x), Checker("b", y)}) = {Overall({x, y})}
  BY TwoCheckers
<1>2. {c.status : c \in {Checker("a", x), Checker("b", y)}} = {x, y}
  BY DEF Checker
<1>3. CompositeChecker("c", {Checker("a", x), Checker("b", y)})
        = Checker("c", Overall({x, y}))
  BY <1>2 DEF CompositeChecker
<1>4. RunChecks({Checker("c", Overall({x, y}))}) = {Overall({x, y})}
  BY TwoFaces, OneChecker
<1>5. Cardinality({Overall({x, y})}) = 1
  BY FS_Singleton
<1> QED
  BY <1>1, <1>3, <1>4, <1>5

\* The HTTP and the gRPC face of a Health agree with each other and with its
\* checkers, whatever they report (health.go:181, grpc.go).
THEOREM ProbesAlwaysAgree == Spec => []ProbesAgree
<1>1. ProbesAgree
  <2> SUFFICES ASSUME NEW x \in Statuses, NEW y \in Statuses
      PROVE  LET a == RunChecks({Checker("a", x), Checker("b", y)})
                 b == RunChecks({CompositeChecker("c", {Checker("a", x),
                                                        Checker("b", y)})})
             IN /\ Cardinality(a) = 1 /\ a = b
                /\ \A r \in a :
                     /\ HTTPProbe("GET", r) = 200 <=> x = Up /\ y = Up
                     /\ GRPCProbe(<<>>, "readiness", Up, r) = "SERVING"
                          <=> HTTPCode(r) = 200
                     /\ Down \in {x, y} =>
                          GRPCProbe(<<>>, "", Up, r) = "NOT_SERVING"
                     /\ LET set == SetServingStatus(<<>>, "readiness",
                                                    "SERVING")
                            cleared == ClearServingStatus(set, "readiness")
                        IN /\ GRPCProbe(set, "readiness", Up, r) = "SERVING"
                           /\ \A o \in {set, cleared} :
                                GRPCProbe(o, "", Up, r) = ConvertStatus(r)
    BY DEF ProbesAgree
  <2> DEFINE r == Overall({x, y})
  <2>1. /\ r \in Statuses
        /\ HTTPProbe("GET", r) = 200 <=> x = Up /\ y = Up
        /\ ConvertStatus(r) = "SERVING" <=> HTTPCode(r) = 200
        /\ Down \in {x, y} => ConvertStatus(r) = "NOT_SERVING"
    BY TwoFaces
  <2> HIDE DEF r
  <2>2. /\ GRPCProbe(SetServingStatus(<<>>, "readiness", "SERVING"),
                     "readiness", Up, r) = "SERVING"
        /\ \A o \in {<<>>, SetServingStatus(<<>>, "readiness", "SERVING"),
                     ClearServingStatus(SetServingStatus(<<>>, "readiness",
                                                         "SERVING"),
                                        "readiness")} :
             GRPCProbe(o, "", Up, r) = ConvertStatus(r)
        /\ GRPCProbe(<<>>, "readiness", Up, r) = ConvertStatus(r)
    BY <2>1, ByHand
  <2>3. /\ Cardinality(RunChecks({Checker("a", x), Checker("b", y)})) = 1
        /\ RunChecks({Checker("a", x), Checker("b", y)}) =
             RunChecks({CompositeChecker("c", {Checker("a", x),
                                               Checker("b", y)})})
        /\ \A k \in RunChecks({Checker("a", x), Checker("b", y)}) : k = r
    BY Agreement DEF r
  <2> DEFINE a == RunChecks({Checker("a", x), Checker("b", y)})
             b == RunChecks({CompositeChecker("c", {Checker("a", x),
                                                    Checker("b", y)})})
             set == SetServingStatus(<<>>, "readiness", "SERVING")
             cleared == ClearServingStatus(set, "readiness")
  <2> HIDE DEF a, b, set, cleared
  <2>4. Cardinality(a) = 1 /\ a = b /\ \A k \in a : k = r
    BY <2>3 DEF a, b
  <2>5. /\ GRPCProbe(set, "readiness", Up, r) = "SERVING"
        /\ \A o \in {<<>>, set, cleared} :
             GRPCProbe(o, "", Up, r) = ConvertStatus(r)
    BY <2>2 DEF set, cleared
  <2>6. /\ HTTPProbe("GET", r) = 200 <=> x = Up /\ y = Up
        /\ GRPCProbe(<<>>, "readiness", Up, r) = "SERVING"
             <=> HTTPCode(r) = 200
        /\ Down \in {x, y} => GRPCProbe(<<>>, "", Up, r) = "NOT_SERVING"
        /\ GRPCProbe(set, "readiness", Up, r) = "SERVING"
        /\ \A o \in {set, cleared} : GRPCProbe(o, "", Up, r) = ConvertStatus(r)
    BY <2>1, <2>2, <2>5
  <2>7. /\ Cardinality(a) = 1 /\ a = b
        /\ \A k \in a :
             /\ HTTPProbe("GET", k) = 200 <=> x = Up /\ y = Up
             /\ GRPCProbe(<<>>, "readiness", Up, k) = "SERVING"
                  <=> HTTPCode(k) = 200
             /\ Down \in {x, y} => GRPCProbe(<<>>, "", Up, k) = "NOT_SERVING"
             /\ GRPCProbe(set, "readiness", Up, k) = "SERVING"
             /\ \A o \in {set, cleared} :
                  GRPCProbe(o, "", Up, k) = ConvertStatus(k)
    BY <2>4, <2>6
  <2> QED
    BY <2>7 DEF a, b, set, cleared
<1> QED
  BY <1>1, PTL

-----------------------------------------------------------------------------
(* The invariant *)

Places == {"idle", "starting", "registering", "rollback", "waiting",
           "unregistering", "stopping", "cleanup", "returned", "failed",
           "killed", "exited"}
Starts == {"none", "spawned", "connecting", "done"}
Stops == {"none", "web", "webWait", "rpc", "rpcWait", "done"}
DoorStates == {"none", "made", "open", "broken", "closing", "shut"}
Known == {"absent", "new", "critical", "passing"}

AppTyped ==
  /\ cfg \in Configs /\ pc \in Places
  /\ ids \in Seq(Kinds) /\ todo \in Seq(Kinds \cup {Nameless})
  /\ blame \subseteq Kinds /\ consul \in [Kinds -> Known]
  /\ cancelled \in BOOLEAN /\ expired \in BOOLEAN
  /\ start \in [Kinds -> Starts] /\ stop \in [Kinds -> Stops]
  /\ door \in [Doors -> DoorStates] /\ busy \in [Doors -> BOOLEAN]
  /\ deps \in {Up, Down}

\* What the loop that takes services off Consul has left is what is still
\* there, but for the services whose own call failed.
TakenBack ==
  pc \in {"rollback", "unregistering"} =>
    /\ Range(todo) \subseteq Kinds
    /\ \A s \in Kinds : consul[s] # "absent" => s \in Range(todo) \cup blame

\* Once the servers are told to stop the registry's list is empty; before that
\* no server is being stopped.
Late == pc \in {"stopping", "cleanup", "returned"}
Ordered ==
  /\ Late => ids = <<>>
  /\ ~Late /\ ~Dead => \A s \in Kinds : stop[s] = "none"

\* What Consul found passing at a gRPC port still takes calls.
PassingOpen ==
  \A s \in Kinds :
    consul[s] = "passing" /\ "grpc" \in Record(s).tags /\ s \notin blame
    /\ ~Dead => door[RPC(s)] \in {"made", "open"}

\* The HTTP server of a Start that is not over is not made yet; nobody waits
\* for an HTTP server that was not made.
Fresh ==
  /\ pc \in {"idle", "starting"} => \A s \in Kinds : start[s] = "none"
  /\ ~Dead =>
       \A s \in HasWeb :
         /\ start[s] # "done" => door[Web(s)] = "none"
         /\ stop[s] = "webWait" => door[Web(s)] # "none"

\* While there is time a request is behind an open door, or behind one whose
\* Stop waits for it.
WaitAt(d) == IF d[2] = "web" THEN "webWait" ELSE "rpcWait"
Watched ==
  ~expired /\ ~Dead =>
    \A d \in Doors : busy[d] =>
      \/ door[d] = "open"
      \/ door[d] = "closing" /\ stop[d[1]] = WaitAt(d)

Stopped ==
  pc \in {"cleanup", "returned"} /\ ~expired =>
    \A s \in Kinds : stop[s] = "done"

AppInv ==
  /\ AppTyped
  /\ OrphanCause /\ TakenBack /\ Ordered /\ PassingOpen
  /\ Fresh /\ Watched /\ Stopped

LEMMA NamelessRefused ==
  ASSUME NEW how
  PROVE  Refused(Service(how, Nameless))
BY DEF Service, AddService, Refused

LEMMA DoorFacts ==
  /\ \A s \in HasWeb : s \in Kinds /\ Web(s) \in Doors /\ Web(s)[1] = s
                       /\ Web(s)[2] = "web"
  /\ \A s \in HasRPC : s \in Kinds /\ RPC(s) \in Doors /\ RPC(s)[1] = s
                       /\ RPC(s)[2] = "rpc"
  /\ \A d \in Doors : \/ d[1] \in HasWeb /\ d = Web(d[1]) /\ d[2] = "web"
                      \/ d[1] \in HasRPC /\ d = RPC(d[1]) /\ d[2] = "rpc"
  /\ \A s \in Kinds : DoorsOf(s) \subseteq Doors
                      /\ \A d \in DoorsOf(s) : d[1] = s
  /\ \A s, k \in Kinds : Web(s) # RPC(k)
BY DEF HasWeb, HasRPC, Kinds, Doors, Web, RPC, DoorsOf

LEMMA InitApp == Init => AppInv
<1> SUFFICES ASSUME Init PROVE AppInv
  OBVIOUS
<1>1. AppTyped
  <2>1. cfg \in Configs /\ pc \in Places /\ deps \in {Up, Down}
        /\ cancelled \in BOOLEAN /\ expired \in BOOLEAN /\ blame \subseteq Kinds
    BY DEF Init, Places
  <2>2. ids \in Seq(Kinds) /\ todo \in Seq(Kinds \cup {Nameless})
    BY DEF Init
  <2>3. consul \in [Kinds -> Known] /\ start \in [Kinds -> Starts]
        /\ stop \in [Kinds -> Stops]
    BY DEF Init, Known, Starts, Stops
  <2>4. door \in [Doors -> DoorStates] /\ busy \in [Doors -> BOOLEAN]
    BY DEF Init, DoorStates
  <2> QED
    BY <2>1, <2>2, <2>3, <2>4 DEF AppTyped
<1>2. OrphanCause /\ TakenBack /\ Ordered /\ Stopped
  BY DEF Init, OrphanCause, TakenBack, Ordered, Stopped, Late, Dead
<1>3. PassingOpen
  BY DEF Init, PassingOpen
<1>4. Fresh /\ Watched
  <2>1. /\ \A s \in Kinds : start[s] = "none" /\ stop[s] = "none"
        /\ \A d \in Doors : door[d] = "none" /\ ~busy[d]
    BY DEF Init
  <2> QED
    BY <2>1, DoorFacts DEF Fresh, Watched
<1> QED
  BY <1>1, <1>2, <1>3, <1>4 DEF AppInv

LEMMA Joined ==
  ASSUME NEW S, NEW a \in Seq(S), NEW b \in Seq(S), NEW c \in Seq(S),
         NEW d \in Seq(S)
  PROVE  a \o b \o c \o d \in Seq(S)
<1>1. a \o b \in Seq(S)
  OBVIOUS
<1>2. (a \o b) \o c \in Seq(S)
  BY <1>1
<1> QED
  BY <1>2

\* What is added to the registry.
LEMMA AddedTypes ==
  ASSUME AppTyped
  PROVE  Services \in Seq(Kinds \cup {Nameless})
<1>1. \A s \in Kinds \cup {Nameless} : Added(s) \in Seq(Kinds \cup {Nameless})
  <2> SUFFICES ASSUME NEW s \in Kinds \cup {Nameless}
               PROVE  Added(s) \in Seq(Kinds \cup {Nameless})
    OBVIOUS
  <2>1. Added(s) = <<s>> \/ Added(s) = <<>>
    BY DEF Added
  <2>2. <<s>> \in Seq(Kinds \cup {Nameless})
        /\ <<>> \in Seq(Kinds \cup {Nameless})
    OBVIOUS
  <2> QED
    BY <2>1, <2>2
<1>2. {"grpc", "gateway", "http"} \subseteq Kinds
  BY DEF Kinds
<1> QED
  BY <1>1, <1>2, Joined DEF Services

\* What the configuration is registered as.
LEMMA RecordOf ==
  ASSUME AppTyped, NEW s \in Kinds
  PROVE  LET r == Record(s)
             d == r.check.addr.port
         IN /\ d \in DoorsOf(s)
            /\ r.check.type \in {"tcp", "http", "grpc"}
            /\ r.check.type = "http" => d = Web(s) /\ s \in HasWeb
            /\ r.check.type = "grpc" => d = RPC(s) /\ s \in HasRPC
            /\ "grpc" \in r.tags =>
                 /\ s \in HasRPC /\ r.addr.port = RPC(s) /\ d = RPC(s)
                 /\ r.check.type \in {"tcp", "grpc"}
            /\ cfg.how = "address" => r.check.type = "tcp"
<1>1. cfg.how \in {"server", "address"}
  BY AppAssumption DEF AppTyped
<1> QED
  BY <1>1, RecordFacts DEF Record

-----------------------------------------------------------------------------
(* The steps of Run and of the registry *)

\* What a step keeps that leaves the registry and Consul alone.
LEMMA BooksKept ==
  ASSUME AppInv, UNCHANGED <<pc, todo, ids, consul, blame>>
  PROVE  OrphanCause' /\ TakenBack'
BY DEF AppInv, OrphanCause, TakenBack

\* What a step keeps that leaves the servers alone.
LEMMA ServersKept ==
  ASSUME AppInv, UNCHANGED <<expired, start, stop, door, busy>>,
         Dead' <=> Dead,
         pc' \in {"idle", "starting"} => pc \in {"idle", "starting"},
         pc' \in {"cleanup", "returned"} => pc \in {"cleanup", "returned"}
  PROVE  Fresh' /\ Watched' /\ Stopped'
<1>1. Fresh'
  BY DEF AppInv, Fresh
<1>2. Watched'
  BY DEF AppInv, Watched, WaitAt
<1>3. Stopped'
  BY DEF AppInv, Stopped
<1> QED
  BY <1>1, <1>2, <1>3

LEMMA PassingKept ==
  ASSUME AppInv, UNCHANGED <<cfg, consul, door>>, blame \subseteq blame',
         Dead => Dead'
  PROVE  PassingOpen'
<1>1. \A s : Record(s)' = Record(s)
  BY DEF Record
<1> QED
  BY <1>1 DEF AppInv, PassingOpen

LEMMA RunStep ==
  ASSUME AppInv, Run \/ Drain \/ Cleanup
  PROVE  AppInv'
<1> USE DEF AppInv
<1>1. /\ UNCHANGED <<cfg, registryVars, cancelled, expired, serverVars, deps>>
      /\ \/ pc = "idle" /\ pc' \in {"starting", "failed"}
         \/ /\ pc = "stopping" /\ pc' = "cleanup"
            /\ expired \/ \A s \in Kinds : stop[s] = "done"
         \/ pc = "cleanup" /\ pc' = "returned"
  BY DEF Run, Drain, Cleanup
<1>2. AppTyped'
  BY <1>1 DEF AppTyped, Places, registryVars, serverVars
<1>3. OrphanCause' /\ TakenBack' /\ Ordered'
  BY <1>1 DEF OrphanCause, TakenBack, Ordered, Late, Dead, registryVars,
              serverVars
<1>4. ~Dead /\ ~Dead'
  BY <1>1 DEF Dead
<1>5. PassingOpen'
  BY <1>1, <1>4, PassingKept DEF registryVars, serverVars
<1>6. Fresh'
  BY <1>1, <1>4 DEF Fresh, serverVars
<1>7. Watched'
  BY <1>1, <1>4 DEF Watched, WaitAt, serverVars
<1>8. Stopped'
  BY <1>1 DEF Stopped, serverVars
<1> QED
  BY <1>2, <1>3, <1>5, <1>6, <1>7, <1>8

LEMMA StartAllStep ==
  ASSUME AppInv, StartAll
  PROVE  AppInv'
<1> USE DEF AppInv
<1>1. /\ UNCHANGED <<cfg, ids, consul, blame, cancelled, expired, stop, door,
                     busy, deps>>
      /\ pc = "starting" /\ pc' = "registering"
      /\ todo' = Services
      /\ start' = [s \in Kinds |->
                     IF s \in cfg.servers THEN "spawned" ELSE "none"]
  BY DEF StartAll
<1>2. AppTyped'
  <2>1. todo' \in Seq(Kinds \cup {Nameless})
    BY <1>1, AddedTypes
  <2>2. start' \in [Kinds -> Starts]
    BY <1>1 DEF Starts
  <2> QED
    BY <1>1, <2>1, <2>2 DEF AppTyped, Places
<1>3. OrphanCause' /\ TakenBack' /\ Ordered'
  BY <1>1 DEF OrphanCause, TakenBack, Ordered, Late, Dead
<1>4. ~Dead /\ ~Dead'
  BY <1>1 DEF Dead
<1>5. PassingOpen'
  BY <1>1, <1>4, PassingKept
<1>6. Fresh'
  BY <1>1, <1>4, DoorFacts DEF Fresh
<1>7. Watched'
  BY <1>1, <1>4 DEF Watched, WaitAt
<1>8. Stopped'
  BY <1>1 DEF Stopped
<1> QED
  BY <1>2, <1>3, <1>5, <1>6, <1>7, <1>8

\* RegisterAll: what it registers it writes down, and what it registered it
\* takes off again when a service fails.
LEMMA RegisterStep ==
  ASSUME AppInv, Register
  PROVE  AppInv'
<1> USE DEF AppInv
<1> DEFINE s == Head(todo)
           Done == /\ s \in Kinds
                   /\ consul' = [consul EXCEPT ![s] = "new"]
                   /\ ids' = Append(ids, s) /\ todo' = Tail(todo)
                   /\ UNCHANGED <<pc, blame>>
           Back == /\ pc' = "rollback" /\ todo' = ids
                   /\ UNCHANGED <<ids, consul, blame>>
           Lost == /\ s \in Kinds
                   /\ consul' = [consul EXCEPT ![s] = "new"]
                   /\ blame' = blame \cup {s}
                   /\ pc' = "rollback" /\ todo' = ids /\ UNCHANGED ids
<1>1. /\ pc = "registering" /\ todo # <<>>
      /\ UNCHANGED <<cfg, cancelled, expired, start, stop, door, busy, deps>>
  BY DEF Register, serverVars
<1>2. s \in Kinds \cup {Nameless} /\ Tail(todo) \in Seq(Kinds \cup {Nameless})
  BY <1>1, RangeTail DEF AppTyped
<1>3. ~Refused(Service(cfg.how, s)) => s \in Kinds
  BY <1>2, NamelessRefused
<1>4. Done \/ Back \/ Lost
  <2> HIDE DEF s
  <2> QED
    BY <1>3 DEF Register, RollBack, s
<1>5. ~Dead /\ ~Dead' /\ ~Late /\ ~Late'
  BY <1>1, <1>4 DEF Dead, Late
<1>6. ids \in Seq(Kinds) /\ ids \in Seq(Kinds \cup {Nameless})
  BY DEF AppTyped
<1> HIDE DEF s
<1>7. CASE Done
  <2>1. ids' \in Seq(Kinds) /\ Range(ids') = Range(ids) \cup {s}
    BY <1>6, <1>7, RangeAppend
  <2>2. consul' \in [Kinds -> Known] /\ consul'[s] = "new"
        /\ \A k \in Kinds \ {s} : consul'[k] = consul[k]
    BY <1>7 DEF AppTyped, Known
  <2>3. AppTyped'
    BY <1>1, <1>2, <1>7, <2>1, <2>2 DEF AppTyped, s
  <2>4. OrphanCause'
    BY <1>7, <2>1, <2>2 DEF OrphanCause
  <2>5. TakenBack' /\ Ordered'
    BY <1>1, <1>5, <1>7 DEF TakenBack, Ordered, Late
  <2>6. PassingOpen'
    <3>1. \A k : Record(k)' = Record(k)
      BY <1>1 DEF Record
    <3>2. \A k \in Kinds : consul'[k] = "passing" => consul[k] = "passing"
      BY <2>2
    <3> QED
      BY <1>1, <1>5, <1>7, <3>1, <3>2 DEF PassingOpen
  <2>7. Fresh' /\ Watched' /\ Stopped'
    BY <1>1, <1>5, <1>7, ServersKept
  <2> QED
    BY <2>3, <2>4, <2>5, <2>6, <2>7
<1>8. CASE Back
  <2>1. AppTyped'
    BY <1>1, <1>6, <1>8 DEF AppTyped, Places
  <2>2. Range(ids) \subseteq Kinds
    BY <1>6, InRange
  <2>3. OrphanCause' /\ TakenBack' /\ Ordered'
    BY <1>1, <1>5, <1>8, <2>2 DEF OrphanCause, TakenBack, Ordered, Late
  <2>4. PassingOpen'
    BY <1>1, <1>5, <1>8, PassingKept
  <2>5. Fresh' /\ Watched' /\ Stopped'
    BY <1>1, <1>5, <1>8, ServersKept
  <2> QED
    BY <2>1, <2>3, <2>4, <2>5
<1>9. CASE Lost
  <2>1. consul' \in [Kinds -> Known] /\ consul'[s] = "new"
        /\ \A k \in Kinds \ {s} : consul'[k] = consul[k]
    BY <1>9 DEF AppTyped, Known
  <2>2. AppTyped'
    BY <1>1, <1>6, <1>9, <2>1 DEF AppTyped, Places
  <2>3. Range(ids) \subseteq Kinds
    BY <1>6, InRange
  <2>4. OrphanCause'
    BY <1>9, <2>1 DEF OrphanCause
  <2>5. TakenBack' /\ Ordered'
    BY <1>1, <1>5, <1>9, <2>1, <2>3, <2>4
       DEF OrphanCause, TakenBack, Ordered, Late
  <2>6. PassingOpen'
    <3>1. \A k : Record(k)' = Record(k)
      BY <1>1 DEF Record
    <3>2. \A k \in Kinds : consul'[k] = "passing" => consul[k] = "passing"
      BY <2>1
    <3> QED
      BY <1>1, <1>5, <1>9, <3>1, <3>2 DEF PassingOpen
  <2>7. Fresh' /\ Watched' /\ Stopped'
    BY <1>1, <1>5, <1>9, ServersKept
  <2> QED
    BY <2>2, <2>4, <2>5, <2>6, <2>7
<1> QED
  BY <1>4, <1>7, <1>8, <1>9

\* unregisterAllLocked: a service leaves Consul or is blamed.
LEMMA UnregisterStep ==
  ASSUME AppInv, Unregister
  PROVE  AppInv'
<1> USE DEF AppInv
<1> DEFINE s == Head(todo)
<1>1. /\ pc \in {"rollback", "unregistering"} /\ todo # <<>>
      /\ todo' = Tail(todo)
      /\ UNCHANGED <<cfg, pc, ids, cancelled, expired, start, stop, door, busy,
                     deps>>
      /\ \/ consul' = [consul EXCEPT ![s] = "absent"] /\ blame' = blame
         \/ blame' = blame \cup {s} /\ consul' = consul
  BY DEF Unregister, serverVars
<1>2. /\ todo' \in Seq(Kinds \cup {Nameless}) /\ s \in Range(todo)
      /\ Range(todo) = Range(todo') \cup {s}
  BY <1>1, RangeTail DEF AppTyped
<1>3. s \in Kinds /\ Range(todo') \subseteq Kinds
  BY <1>1, <1>2 DEF TakenBack
<1> HIDE DEF s
<1>4. /\ consul' \in [Kinds -> Known] /\ blame' \subseteq Kinds
      /\ blame \subseteq blame'
      /\ \A k \in Kinds \ {s} : consul'[k] = consul[k]
      /\ consul'[s] = "absent" \/ (s \in blame' /\ consul' = consul)
  BY <1>1, <1>3 DEF AppTyped, Known
<1>5. AppTyped'
  BY <1>1, <1>2, <1>4 DEF AppTyped
<1>6. OrphanCause'
  BY <1>1, <1>3, <1>4 DEF OrphanCause
<1>7. TakenBack'
  BY <1>1, <1>2, <1>3, <1>4 DEF TakenBack
<1>8. ~Dead /\ ~Dead' /\ Ordered'
  BY <1>1 DEF Dead, Ordered, Late
<1>9. PassingOpen'
  <2>1. \A k : Record(k)' = Record(k)
    BY <1>1 DEF Record
  <2>2. \A k \in Kinds : consul'[k] = "passing" => consul[k] = "passing"
    BY <1>4
  <2> QED
    BY <1>1, <1>4, <1>8, <2>1, <2>2 DEF PassingOpen
<1>10. Fresh' /\ Watched' /\ Stopped'
  BY <1>1, <1>8, ServersKept
<1> QED
  BY <1>5, <1>6, <1>7, <1>8, <1>9, <1>10

LEMMA HookReturnsStep ==
  ASSUME AppInv, HookReturns
  PROVE  AppInv'
<1> USE DEF AppInv
<1>1. /\ pc \in {"registering", "rollback", "unregistering"} /\ todo = <<>>
      /\ UNCHANGED <<cfg, todo, consul, blame, cancelled, expired, start, door,
                     busy, deps>>
  BY DEF HookReturns
<1>2. Range(todo) = {} /\ Range(<<>>) = {}
  <2>1. <<>> \in Seq(Kinds) /\ 1..Len(<<>>) = {}
    OBVIOUS
  <2>2. Range(<<>>) = {}
    BY <2>1, InRange
  <2> QED
    BY <1>1, <2>2
<1>3. ~Dead /\ ~Late /\ \A s \in Kinds : stop[s] = "none"
  BY <1>1 DEF Dead, Late, Ordered
<1>4. CASE pc \in {"registering", "rollback"}
  <2>1. /\ pc' = "waiting" /\ stop' = stop
        /\ ids' = IF pc = "registering" THEN ids ELSE <<>>
    BY <1>4 DEF HookReturns
  <2>2. ids' \in Seq(Kinds)
    BY <2>1 DEF AppTyped
  <2>3. AppTyped'
    BY <1>1, <2>1, <2>2 DEF AppTyped, Places
  <2>4. OrphanCause'
    <3>1. CASE pc = "registering"
      BY <1>1, <2>1, <3>1 DEF OrphanCause
    <3>2. CASE pc = "rollback"
      BY <1>1, <1>2, <2>1, <3>2 DEF OrphanCause, TakenBack
    <3> QED
      BY <1>4, <3>1, <3>2
  <2>5. TakenBack' /\ Ordered' /\ ~Dead'
    BY <1>3, <2>1 DEF TakenBack, Ordered, Late, Dead
  <2>6. PassingOpen'
    BY <1>1, <1>3, PassingKept
  <2>7. Fresh' /\ Watched' /\ Stopped'
    BY <1>1, <1>3, <2>1, <2>5, ServersKept
  <2> QED
    BY <2>3, <2>4, <2>5, <2>6, <2>7
<1>5. CASE pc = "unregistering"
  <2>1. /\ pc' = "stopping" /\ ids' = <<>>
        /\ stop' = [s \in Kinds |->
                      IF s \notin cfg.servers THEN "done"
                      ELSE IF s \in HasWeb THEN "web" ELSE "rpc"]
    BY <1>5 DEF HookReturns
  <2>2. stop' \in [Kinds -> Stops]
    BY <2>1 DEF Stops
  <2>3. AppTyped'
    BY <1>1, <2>1, <2>2 DEF AppTyped, Places
  <2>4. OrphanCause'
    BY <1>1, <1>2, <1>5, <2>1 DEF OrphanCause, TakenBack
  <2>5. TakenBack' /\ Ordered' /\ ~Dead' /\ Stopped'
    BY <2>1 DEF TakenBack, Ordered, Late, Dead, Stopped
  <2>6. PassingOpen'
    BY <1>1, <1>3, PassingKept
  <2>7. Fresh'
    <3>1. \A s \in HasWeb : stop'[s] # "webWait"
      BY <2>1, DoorFacts
    <3> QED
      BY <1>1, <1>3, <2>1, <3>1 DEF Fresh
  <2>8. Watched'
    <3>1. ASSUME ~expired, NEW d \in Doors, busy[d]
          PROVE  door[d] = "open"
      BY <1>3, <3>1, DoorFacts DEF Watched, WaitAt, HasWeb, HasRPC, Kinds
    <3> QED
      BY <1>1, <3>1 DEF Watched
  <2> QED
    BY <2>3, <2>4, <2>5, <2>6, <2>7, <2>8
<1> QED
  BY <1>1, <1>4, <1>5

LEMMA ShutdownStep ==
  ASSUME AppInv, Shutdown
  PROVE  AppInv'
<1> USE DEF AppInv
<1>1. /\ pc = "waiting" /\ pc' = "unregistering" /\ todo' = ids
      /\ UNCHANGED <<cfg, ids, consul, blame, cancelled, expired, start, stop,
                     door, busy, deps>>
  BY DEF Shutdown, serverVars
<1>2. ids \in Seq(Kinds) /\ ids \in Seq(Kinds \cup {Nameless})
      /\ Range(ids) \subseteq Kinds
  BY InRange DEF AppTyped
<1>3. AppTyped'
  BY <1>1, <1>2 DEF AppTyped, Places
<1>4. OrphanCause' /\ TakenBack' /\ Ordered'
  BY <1>1, <1>2 DEF OrphanCause, TakenBack, Ordered, Late, Dead
<1>5. ~Dead /\ ~Dead'
  BY <1>1 DEF Dead
<1>6. PassingOpen'
  BY <1>1, <1>5, PassingKept
<1>7. Fresh' /\ Watched' /\ Stopped'
  BY <1>1, <1>5, ServersKept
<1> QED
  BY <1>3, <1>4, <1>6, <1>7

\* The process dies, of a signal or at its end.
LEMMA DieStep ==
  ASSUME AppInv, NEW how \in {"killed", "exited"}, Die(how)
  PROVE  AppInv'
<1> USE DEF AppInv
<1>1. /\ pc' = how
      /\ UNCHANGED <<cfg, todo, ids, consul, blame, cancelled, expired, deps>>
      /\ door' = [d \in Doors |-> "shut"] /\ busy' = [d \in Doors |-> FALSE]
      /\ start' = [s \in Kinds |-> "none"] /\ stop' = [s \in Kinds |-> "done"]
  BY DEF Die, registryVars
<1>2. /\ door' \in [Doors -> DoorStates] /\ busy' \in [Doors -> BOOLEAN]
      /\ start' \in [Kinds -> Starts] /\ stop' \in [Kinds -> Stops]
  BY <1>1 DEF DoorStates, Starts, Stops
<1>3. AppTyped'
  BY <1>1, <1>2 DEF AppTyped, Places
<1>4. Dead'
  BY <1>1 DEF Dead
<1>5. OrphanCause' /\ TakenBack' /\ Ordered'
  BY <1>1, <1>4 DEF OrphanCause, TakenBack, Ordered, Late
<1>6. PassingOpen' /\ Fresh' /\ Watched' /\ Stopped'
  BY <1>1, <1>4 DEF PassingOpen, Fresh, Watched, Stopped
<1> QED
  BY <1>3, <1>5, <1>6

\* What comes from outside: a call of Stop, the timeout, a dependency.
LEMMA OutsideStep ==
  ASSUME AppInv, Stop \/ Expire \/ DepsChange
  PROVE  AppInv'
<1> USE DEF AppInv
<1>1. /\ UNCHANGED <<cfg, pc, todo, ids, consul, blame, start, stop, door,
                     busy>>
      /\ cancelled' \in BOOLEAN /\ expired' \in BOOLEAN
      /\ deps' \in {Up, Down} /\ (expired => expired')
  BY DEF Stop, Expire, DepsChange, registryVars, serverVars, AppTyped
<1>2. AppTyped'
  BY <1>1 DEF AppTyped
<1>3. OrphanCause' /\ TakenBack'
  BY <1>1, BooksKept
<1>4. Ordered' /\ (Dead' <=> Dead)
  BY <1>1 DEF Ordered, Late, Dead
<1>5. PassingOpen'
  BY <1>1, <1>4, PassingKept
<1>6. Fresh'
  BY <1>1, <1>4 DEF Fresh
<1>7. Watched'
  BY <1>1, <1>4 DEF Watched, WaitAt
<1>8. Stopped'
  BY <1>1 DEF Stopped
<1> QED
  BY <1>2, <1>3, <1>4, <1>5, <1>6, <1>7, <1>8

-----------------------------------------------------------------------------
(* The steps of the servers *)

\* A Start opens doors and closes none, and touches none that was opened.
LEMMA StartKeeps ==
  ASSUME AppInv,
         UNCHANGED <<cfg, pc, todo, ids, consul, blame, cancelled, expired,
                     stop, busy, deps>>,
         start' \in [Kinds -> Starts], door' \in [Doors -> DoorStates],
         \A s \in HasRPC : \/ door'[RPC(s)] = door[RPC(s)]
                           \/ door'[RPC(s)] \in {"made", "open"},
         ~Dead => \A d \in Doors : \/ door'[d] = door[d]
                                   \/ door[d] \in {"none", "made"},
         Fresh'
  PROVE  AppInv'
<1> USE DEF AppInv
<1>1. AppTyped'
  BY DEF AppTyped
<1>2. OrphanCause' /\ TakenBack' /\ Ordered'
  BY BooksKept DEF Ordered, Late, Dead
<1>3. (Dead' <=> Dead) /\ \A k : Record(k)' = Record(k)
  BY DEF Dead, Record
<1>4. PassingOpen'
  <2> SUFFICES ASSUME NEW s \in Kinds, consul[s] = "passing",
                      "grpc" \in Record(s).tags, s \notin blame, ~Dead
               PROVE  door'[RPC(s)] \in {"made", "open"}
    BY <1>3 DEF PassingOpen
  <2>1. s \in HasRPC
    BY RecordOf
  <2>2. door[RPC(s)] \in {"made", "open"}
    BY DEF PassingOpen
  <2> QED
    BY <2>1, <2>2
<1>5. Watched'
  <2> SUFFICES ASSUME ~expired, ~Dead, NEW d \in Doors, busy[d]
               PROVE  \/ door'[d] = "open"
                      \/ door'[d] = "closing" /\ stop[d[1]] = WaitAt(d)
    BY <1>3 DEF Watched, WaitAt
  <2>1. door[d] \notin {"none", "made"}
    BY DEF Watched
  <2> QED
    BY <2>1 DEF Watched
<1>6. Stopped'
  BY DEF Stopped
<1> QED
  BY <1>1, <1>2, <1>4, <1>5, <1>6

LEMMA StartRPCStep ==
  ASSUME AppInv, NEW s \in Kinds, StartRPC(s)
  PROVE  AppInv'
<1> USE DEF AppInv
<1>1. /\ start[s] = "spawned" /\ s \in HasRPC
      /\ UNCHANGED <<cfg, pc, todo, ids, consul, blame, cancelled, expired,
                     stop, busy, deps>>
      /\ \/ door[RPC(s)] = "none" /\ door' = [door EXCEPT ![RPC(s)] = "made"]
         \/ door' = door
      /\ \/ start' = [start EXCEPT ![s] = "connecting"]
         \/ start' = [start EXCEPT ![s] = "done"]
  BY DEF StartRPC, registryVars
<1>2. RPC(s) \in Doors /\ \A k \in HasWeb : Web(k) # RPC(s) /\ Web(k) \in Doors
  BY <1>1, DoorFacts
<1>3. /\ start' \in [Kinds -> Starts]
      /\ \A k \in Kinds \ {s} : start'[k] = start[k]
  BY <1>1 DEF AppTyped, Starts
<1>4. /\ door' \in [Doors -> DoorStates]
      /\ \A d \in Doors \ {RPC(s)} : door'[d] = door[d]
      /\ door'[RPC(s)] = door[RPC(s)]
         \/ (door[RPC(s)] = "none" /\ door'[RPC(s)] = "made")
  BY <1>1, <1>2 DEF AppTyped, DoorStates
<1>5. \A k \in HasRPC : \/ door'[RPC(k)] = door[RPC(k)]
                        \/ door'[RPC(k)] \in {"made", "open"}
  BY <1>4, DoorFacts
<1>6. \A d \in Doors : door'[d] = door[d] \/ door[d] \in {"none", "made"}
  BY <1>4
<1>7. Fresh'
  <2>1. pc' \notin {"idle", "starting"}
    BY <1>1 DEF Fresh
  <2>2. \A k \in HasWeb : door'[Web(k)] = door[Web(k)]
    BY <1>2, <1>4
  <2>3. \A k \in HasWeb : start'[k] # "done" => start[k] # "done"
    BY <1>1, <1>3, DoorFacts
  <2> QED
    BY <1>1, <2>1, <2>2, <2>3 DEF Fresh, Dead
<1> QED
  BY <1>1, <1>3, <1>4, <1>5, <1>6, <1>7, StartKeeps

LEMMA StartWebStep ==
  ASSUME AppInv, NEW s \in Kinds, StartWeb(s)
  PROVE  AppInv'
<1> USE DEF AppInv
<1>1. /\ s \in HasWeb /\ start[s] \in {"spawned", "connecting"}
      /\ UNCHANGED <<cfg, pc, todo, ids, consul, blame, cancelled, expired,
                     stop, busy, deps>>
      /\ start' = [start EXCEPT ![s] = "done"]
      /\ door' = [door EXCEPT ![Web(s)] = "made"] \/ door' = door
  BY DEF StartWeb, registryVars
<1>2. /\ Web(s) \in Doors /\ \A k \in HasRPC : RPC(k) # Web(s)
      /\ \A k \in HasWeb : k # s => Web(k) # Web(s)
  BY <1>1, DoorFacts
<1>3. /\ start' \in [Kinds -> Starts] /\ start'[s] = "done"
      /\ \A k \in Kinds \ {s} : start'[k] = start[k]
  BY <1>1 DEF AppTyped, Starts
<1>4. /\ door' \in [Doors -> DoorStates]
      /\ \A d \in Doors \ {Web(s)} : door'[d] = door[d]
  BY <1>1, <1>2 DEF AppTyped, DoorStates
<1>5. \A k \in HasRPC : door'[RPC(k)] = door[RPC(k)]
  BY <1>2, <1>4, DoorFacts
<1>6. ~Dead => \A d \in Doors : \/ door'[d] = door[d]
                                \/ door[d] \in {"none", "made"}
  BY <1>1, <1>4 DEF Fresh
<1>7. Fresh'
  <2>1. pc' \notin {"idle", "starting"}
    BY <1>1 DEF Fresh
  <2>2. \A k \in HasWeb \ {s} : door'[Web(k)] = door[Web(k)]
                                /\ start'[k] = start[k]
    BY <1>2, <1>3, <1>4, DoorFacts
  <2> QED
    BY <1>1, <1>3, <2>1, <2>2 DEF Fresh, Dead
<1> QED
  BY <1>1, <1>3, <1>4, <1>5, <1>6, <1>7, StartKeeps

LEMMA ServeStep ==
  ASSUME AppInv, NEW d \in Doors, Serve(d)
  PROVE  AppInv'
<1> USE DEF AppInv
<1>1. /\ door[d] = "made"
      /\ UNCHANGED <<cfg, pc, todo, ids, consul, blame, cancelled, expired,
                     start, stop, busy, deps>>
      /\ \/ door' = [door EXCEPT ![d] = "open"]
         \/ d[2] = "web" /\ door' = [door EXCEPT ![d] = "broken"]
  BY DEF Serve, registryVars
<1>2. /\ door' \in [Doors -> DoorStates] /\ start' \in [Kinds -> Starts]
      /\ \A e \in Doors \ {d} : door'[e] = door[e]
      /\ door'[d] = "open" \/ d[2] = "web"
  BY <1>1 DEF AppTyped, DoorStates
<1>3. \A s \in HasRPC : \/ door'[RPC(s)] = door[RPC(s)]
                        \/ door'[RPC(s)] \in {"made", "open"}
  BY <1>2, DoorFacts
<1>4. Fresh'
  <2>1. ~Dead => \A s \in HasWeb :
                   /\ start[s] # "done" => door'[Web(s)] = "none"
                   /\ stop[s] = "webWait" => door'[Web(s)] # "none"
    BY <1>1, <1>2, DoorFacts DEF Fresh
  <2> QED
    BY <1>1, <2>1 DEF Fresh, Dead
<1> QED
  BY <1>1, <1>2, <1>3, <1>4, StartKeeps

\* Handlers come in through open doors only.
LEMMA HandlerStep ==
  ASSUME AppInv, NEW d \in Doors, Arrive(d) \/ Leave(d)
  PROVE  AppInv'
<1> USE DEF AppInv
<1>1. /\ UNCHANGED <<cfg, pc, todo, ids, consul, blame, cancelled, expired,
                     start, stop, door, deps>>
      /\ \/ door[d] = "open" /\ busy' = [busy EXCEPT ![d] = TRUE]
         \/ busy' = [busy EXCEPT ![d] = FALSE]
  BY DEF Arrive, Leave, registryVars
<1>2. /\ busy' \in [Doors -> BOOLEAN]
      /\ \A e \in Doors : busy'[e] => busy[e] \/ door[e] = "open"
  BY <1>1 DEF AppTyped
<1>3. AppTyped'
  BY <1>1, <1>2 DEF AppTyped
<1>4. OrphanCause' /\ TakenBack' /\ Ordered' /\ (Dead' <=> Dead)
  BY <1>1, BooksKept DEF Ordered, Late, Dead
<1>5. PassingOpen'
  BY <1>1, <1>4, PassingKept
<1>6. Fresh' /\ Stopped'
  BY <1>1, <1>4 DEF Fresh, Stopped
<1>7. Watched'
  BY <1>1, <1>2, <1>4 DEF Watched, WaitAt
<1> QED
  BY <1>3, <1>4, <1>5, <1>6, <1>7

\* A Stop runs when nothing but blamed services is left on Consul.
LEMMA StopKeeps ==
  ASSUME AppInv, NEW s \in Kinds, stop[s] # "none",
         UNCHANGED <<cfg, pc, todo, ids, consul, blame, cancelled, expired,
                     start, busy, deps>>,
         stop' \in [Kinds -> Stops], door' \in [Doors -> DoorStates],
         Fresh', Watched', Stopped'
  PROVE  AppInv'
<1> USE DEF AppInv
<1>1. AppTyped'
  BY DEF AppTyped
<1>2. Late \/ Dead
  BY DEF Ordered
<1>3. OrphanCause' /\ TakenBack' /\ Ordered' /\ (Dead' <=> Dead)
  BY <1>2, BooksKept DEF Ordered, Late, Dead
<1>4. PassingOpen'
  <2>1. CASE Dead
    BY <1>3, <2>1 DEF PassingOpen
  <2>2. CASE Late
    <3>1. ids = <<>> /\ Range(<<>>) = {}
      <4>1. <<>> \in Seq(Kinds) /\ 1..Len(<<>>) = {}
        OBVIOUS
      <4> QED
        BY <2>2, <4>1, InRange DEF Ordered
    <3>2. \A k \in Kinds : consul[k] # "absent" => k \in blame
      BY <3>1 DEF OrphanCause
    <3> QED
      BY <3>2 DEF PassingOpen
  <2> QED
    BY <1>2, <2>1, <2>2
<1> QED
  BY <1>1, <1>3, <1>4

LEMMA CloseDoorStep ==
  ASSUME AppInv, NEW s \in Kinds, NEW d \in DoorsOf(s), CloseDoor(s, d)
  PROVE  AppInv'
<1> USE DEF AppInv
<1>1. /\ stop[s] = d[2]
      /\ UNCHANGED <<cfg, pc, todo, ids, consul, blame, cancelled, expired,
                     start, busy, deps>>
      /\ \/ /\ door[d] = "none" /\ door' = door
            /\ \/ stop' = [stop EXCEPT ![s] = "rpc"]
               \/ stop' = [stop EXCEPT ![s] = "done"]
         \/ /\ door[d] # "none" /\ door' = [door EXCEPT ![d] = "closing"]
            /\ stop' = [stop EXCEPT ![s] = WaitAt(d)]
  BY DEF CloseDoor, AfterWeb, WaitAt, registryVars
<1>2. /\ d \in Doors /\ d[1] = s /\ d[2] \in {"web", "rpc"}
      /\ s \in HasWeb \/ d[2] = "rpc"
  BY DoorFacts
<1>3. /\ WaitAt(d) \in {"webWait", "rpcWait"}
      /\ WaitAt(d) = "webWait" => d = Web(s) /\ s \in HasWeb
  BY <1>2, DoorFacts DEF WaitAt
<1>4. /\ stop' \in [Kinds -> Stops]
      /\ \A k \in Kinds \ {s} : stop'[k] = stop[k]
      /\ stop'[s] = "webWait" => door'[d] = "closing" /\ d = Web(s)
  <2>1. PICK w \in {"rpc", "done", "webWait", "rpcWait"} :
          /\ stop' = [stop EXCEPT ![s] = w]
          /\ w = "webWait" => /\ door' = [door EXCEPT ![d] = "closing"]
                             /\ d = Web(s)
    <3> DEFINE Goes(w) == /\ stop' = [stop EXCEPT ![s] = w]
                          /\ w = "webWait" =>
                               /\ door' = [door EXCEPT ![d] = "closing"]
                               /\ d = Web(s)
    <3>1. CASE stop' = [stop EXCEPT ![s] = "rpc"]
      <4>1. Goes("rpc")
        BY <3>1
      <4> QED
        BY <4>1
    <3>2. CASE stop' = [stop EXCEPT ![s] = "done"]
      <4>1. Goes("done")
        BY <3>2
      <4> QED
        BY <4>1
    <3>3. CASE /\ door' = [door EXCEPT ![d] = "closing"]
               /\ stop' = [stop EXCEPT ![s] = WaitAt(d)]
      <4>1. Goes(WaitAt(d))
        BY <1>3, <3>3
      <4> QED
        BY <1>3, <4>1
    <3> QED
      BY <1>1, <3>1, <3>2, <3>3
  <2>2. /\ stop' \in [Kinds -> Stops] /\ stop'[s] = w
        /\ \A k \in Kinds \ {s} : stop'[k] = stop[k]
    BY <2>1 DEF AppTyped, Stops
  <2>3. w = "webWait" => door'[d] = "closing" /\ d = Web(s)
    BY <1>2, <2>1 DEF AppTyped
  <2> QED
    BY <2>2, <2>3
<1>5. /\ door' \in [Doors -> DoorStates]
      /\ \A e \in Doors \ {d} : door'[e] = door[e]
      /\ door[d] = "none" => door'[d] = "none"
      /\ door[d] # "none" => door'[d] = "closing" /\ stop'[s] = WaitAt(d)
  BY <1>1, <1>2 DEF AppTyped, DoorStates
<1>6. (Dead' <=> Dead) /\ stop[s] \notin {"none", "done", "webWait", "rpcWait"}
  BY <1>1, <1>2 DEF Dead
<1>7. Fresh'
  <2>1. ASSUME ~Dead, NEW k \in HasWeb
        PROVE  /\ start[k] # "done" => door'[Web(k)] = "none"
               /\ stop'[k] = "webWait" => door'[Web(k)] # "none"
    <3>1. k \in Kinds /\ Web(k) \in Doors
      BY DoorFacts
    <3>2. start[k] # "done" => door'[Web(k)] = "none"
      BY <1>5, <2>1, <3>1 DEF Fresh
    <3>3. stop'[k] = "webWait" => door'[Web(k)] # "none"
      BY <1>4, <1>5, <2>1, <3>1 DEF Fresh
    <3> QED
      BY <3>2, <3>3
  <2> QED
    BY <1>1, <1>6, <2>1 DEF Fresh
<1>8. Watched'
  <2>1. ASSUME ~expired, ~Dead, NEW e \in Doors, busy[e]
        PROVE  \/ door'[e] = "open"
               \/ door'[e] = "closing" /\ stop'[e[1]] = WaitAt(e)
    <3>1. \/ door[e] = "open"
          \/ door[e] = "closing" /\ stop[e[1]] = WaitAt(e)
      BY <2>1 DEF Watched
    <3>2. CASE e = d
      BY <1>2, <1>5, <3>1, <3>2
    <3>3. CASE e # d
      BY <1>4, <1>5, <1>6, <3>1, <3>3, DoorFacts DEF WaitAt
    <3> QED
      BY <3>2, <3>3
  <2> QED
    BY <1>1, <1>6, <2>1 DEF Watched, WaitAt
<1>9. Stopped'
  BY <1>1, <1>6 DEF Stopped
<1> QED
  BY <1>1, <1>4, <1>5, <1>6, <1>7, <1>8, <1>9, StopKeeps

\* Shutdown and GracefulStop return when nobody is behind the door any more.
LEMMA StoppedStep ==
  ASSUME AppInv, NEW s \in Kinds, WebStopped(s) \/ RPCStopped(s)
  PROVE  AppInv'
<1> USE DEF AppInv
<1> DEFINE d == IF stop[s] = "webWait" THEN Web(s) ELSE RPC(s)
<1>1. /\ stop[s] \in {"webWait", "rpcWait"}
      /\ UNCHANGED <<cfg, pc, todo, ids, consul, blame, cancelled, expired,
                     start, busy, deps>>
      /\ stop' = [stop EXCEPT ![s] = "rpc"]
         \/ stop' = [stop EXCEPT ![s] = "done"]
      /\ door' = [door EXCEPT ![d] = "shut"] \/ door' = door
      /\ ~expired => ~busy[d]
  BY DEF WebStopped, RPCStopped, AfterWeb, registryVars
<1>2. /\ stop' \in [Kinds -> Stops] /\ stop'[s] \in {"rpc", "done"}
      /\ \A k \in Kinds \ {s} : stop'[k] = stop[k]
  BY <1>1 DEF AppTyped, Stops
<1>3. d \in {Web(s), RPC(s)}
  OBVIOUS
<1>4. \A e \in Doors : e[1] = s => e \in {Web(s), RPC(s)}
  BY DoorFacts
<1>5. /\ door' \in [Doors -> DoorStates]
      /\ \A e \in Doors : e = d \/ door'[e] = door[e]
      /\ \A e \in Doors : e = d => door'[e] \in {"shut", door[e]}
  <2> HIDE DEF d
  <2> QED
    BY <1>1 DEF AppTyped, DoorStates
<1>6. (Dead' <=> Dead) /\ stop[s] \notin {"none", "done"}
  BY <1>1 DEF Dead
<1>7. Fresh'
  <2>1. ASSUME ~Dead, NEW k \in HasWeb
        PROVE  /\ start[k] # "done" => door'[Web(k)] = "none"
               /\ stop'[k] = "webWait" => door'[Web(k)] # "none"
    <3>1. k \in Kinds /\ Web(k) \in Doors /\ Web(k) # RPC(s)
          /\ (k # s => Web(k) # Web(s))
      BY DoorFacts DEF Web, RPC
    <3>2. CASE Web(k) = d
      <4>1. k = s /\ stop[s] = "webWait"
        BY <3>1, <3>2
      <4> QED
        BY <1>2, <2>1, <3>1, <4>1 DEF Fresh
    <3>3. CASE Web(k) # d
      <4>1. door'[Web(k)] = door[Web(k)]
        BY <1>5, <3>1, <3>3
      <4> QED
        BY <1>2, <2>1, <3>1, <4>1 DEF Fresh
    <3> QED
      BY <3>2, <3>3
  <2> QED
    BY <1>1, <1>6, <2>1 DEF Fresh
<1>8. Watched'
  <2>1. ASSUME ~expired, ~Dead, NEW e \in Doors, busy[e]
        PROVE  \/ door'[e] = "open"
               \/ door'[e] = "closing" /\ stop'[e[1]] = WaitAt(e)
    <3>1. \/ door[e] = "open"
          \/ door[e] = "closing" /\ stop[e[1]] = WaitAt(e)
      BY <2>1 DEF Watched
    <3>2. e # d /\ door'[e] = door[e]
      BY <1>1, <1>5, <2>1
    <3>3. e[1] = s => stop[s] # WaitAt(e)
      <4> SUFFICES ASSUME e[1] = s, stop[s] = WaitAt(e)
                   PROVE  FALSE
        OBVIOUS
      <4>1. \/ e = Web(s) /\ e[2] = "web"
            \/ e = RPC(s) /\ e[2] = "rpc"
        BY DoorFacts
      <4> QED
        BY <3>2, <4>1 DEF WaitAt
    <3>4. e[1] \in Kinds
      BY DoorFacts
    <3> QED
      BY <1>2, <3>1, <3>2, <3>3, <3>4
  <2> QED
    BY <1>1, <1>6, <2>1 DEF Watched, WaitAt
<1>9. Stopped'
  BY <1>1, <1>6 DEF Stopped
<1> QED
  BY <1>1, <1>2, <1>5, <1>6, <1>7, <1>8, <1>9, StopKeeps

-----------------------------------------------------------------------------
(* Consul's steps *)

\* What passes at a gRPC port has a door there that takes calls.
LEMMA GRPCAnswer ==
  ASSUME AppTyped, NEW s \in Kinds, "grpc" \in Record(s).tags,
         Answers(Record(s).check)
  PROVE  door[RPC(s)] \in {"made", "open"}
<1> DEFINE check == Record(s).check
<1>1. check.addr.port = RPC(s) /\ check.type \in {"tcp", "grpc"}
  BY RecordOf
<1> HIDE DEF check
<1>2. Answers(check)
  BY DEF check
<1> QED
  BY <1>1, <1>2 DEF Answers

\* A probe of a server that is well is answered.
LEMMA WellAnswers ==
  ASSUME AppTyped, NEW s \in Kinds, Well(s)
  PROVE  Answers(Record(s).check)
<1> DEFINE check == Record(s).check
           d == check.addr.port
<1>1. /\ d \in DoorsOf(s) /\ check.type \in {"tcp", "http", "grpc"}
      /\ check.type = "http" => d = Web(s) /\ s \in HasWeb
      /\ check.type = "grpc" => d = RPC(s) /\ s \in HasRPC
      /\ cfg.how = "address" => check.type = "tcp"
  BY RecordOf
<1>2. door[d] = "open" /\ deps = Up
  BY <1>1 DEF Well
<1>7. check.type = "tcp" \/ ~Behind(d)
  <2>1. cfg.how \in {"server", "address"}
    BY AppAssumption DEF AppTyped
  <2> HIDE DEF check
  <2> QED
    BY <1>1, <2>1 DEF Well
<1> HIDE DEF check
<1>3. ASSUME check.type = "tcp"
      PROVE  Answers(check)
  BY <1>2, <1>3 DEF Answers
<1>4. ASSUME check.type = "http"
      PROVE  Answers(check)
  <2>1. d[2] = "web"
    BY <1>1, <1>4, DoorFacts
  <2>2. Middleware("/healthz", Liveness, Readiness, 404) = 200
    BY <1>2, ProbesUp DEF Middleware, HTTPCode
  <2> QED
    BY <1>2, <1>4, <1>7, <2>1, <2>2 DEF Answers
<1>5. ASSUME check.type = "grpc"
      PROVE  Answers(check)
  <2>1. d[2] = "rpc"
    BY <1>1, <1>5, DoorFacts
  <2>2. DOMAIN <<>> = {}
    OBVIOUS
  <2>3. GRPCProbe(<<>>, "", Liveness, Readiness) = ConvertStatus(Up)
    BY <1>2, <2>2, ProbesUp DEF GRPCProbe
  <2>4. ConvertStatus(Up) = "SERVING"
    BY DEF ConvertStatus, Up, Down
  <2> QED
    BY <1>2, <1>5, <1>7, <2>1, <2>3, <2>4 DEF Answers
<1>6. Answers(check)
  BY <1>1, <1>3, <1>4, <1>5
<1> QED
  BY <1>6 DEF check

LEMMA AgentStep ==
  ASSUME AppInv, NEW s \in Kinds, Probe(s) \/ Reap(s)
  PROVE  AppInv'
<1> USE DEF AppInv
<1>1. /\ consul[s] # "absent"
      /\ UNCHANGED <<cfg, pc, todo, ids, blame, cancelled, expired, start, stop,
                     door, busy, deps>>
  BY DEF Probe, Reap, serverVars
<1>2. PICK v \in Known :
        /\ consul' = [consul EXCEPT ![s] = v]
        /\ v = "passing" => Answers(Record(s).check)
  <2>1. CASE Probe(s)
    <3>1. PICK v \in {"passing", "critical"} :
            v = IF Answers(Record(s).check) THEN "passing" ELSE "critical"
      OBVIOUS
    <3> QED
      BY <2>1, <3>1 DEF Probe, Known
  <2>2. CASE Reap(s)
    BY <2>2 DEF Reap, Known
  <2> QED
    BY <2>1, <2>2
<1>3. /\ consul' \in [Kinds -> Known] /\ consul'[s] = v
      /\ \A k \in Kinds \ {s} : consul'[k] = consul[k]
  BY <1>2 DEF AppTyped
<1>4. AppTyped'
  BY <1>1, <1>3 DEF AppTyped
<1>5. OrphanCause' /\ TakenBack'
  BY <1>1, <1>3 DEF OrphanCause, TakenBack
<1>6. Ordered' /\ (Dead' <=> Dead)
  BY <1>1 DEF Ordered, Late, Dead
<1>7. PassingOpen'
  <2>1. \A k : Record(k)' = Record(k)
    BY <1>1 DEF Record
  <2>2. ASSUME v = "passing", "grpc" \in Record(s).tags
        PROVE  door[RPC(s)] \in {"made", "open"}
    BY <1>2, <2>2, GRPCAnswer
  <2> QED
    BY <1>1, <1>3, <1>6, <2>1, <2>2 DEF PassingOpen
<1>8. Fresh' /\ Watched' /\ Stopped'
  BY <1>1, <1>6, ServersKept
<1> QED
  BY <1>4, <1>5, <1>6, <1>7, <1>8

-----------------------------------------------------------------------------
(* The theorems *)

LEMMA NextApp == AppInv /\ [Next]_vars => AppInv'
<1> SUFFICES ASSUME AppInv, [Next]_vars
             PROVE  AppInv'
  OBVIOUS
<1>1. CASE Main
  <2>1. \/ Run \/ Drain \/ Cleanup \/ StartAll \/ Register \/ Unregister
        \/ HookReturns \/ Shutdown \/ Die("killed") \/ Die("exited")
    BY <1>1 DEF Main, Registry, ContextDone, Signal, Exit
  <2> QED
    BY <2>1, RunStep, StartAllStep, RegisterStep, UnregisterStep,
       HookReturnsStep, ShutdownStep, DieStep
<1>2. CASE Stop \/ Expire \/ DepsChange
  BY <1>2, OutsideStep
<1>3. ASSUME NEW s \in Kinds, Starting(s)
      PROVE  AppInv'
  BY <1>3, StartRPCStep, StartWebStep, ServeStep, DoorFacts DEF Starting
<1>4. ASSUME NEW s \in Kinds, Stopping(s)
      PROVE  AppInv'
  BY <1>4, CloseDoorStep, StoppedStep DEF Stopping
<1>5. ASSUME NEW s \in Kinds, Agent(s)
      PROVE  AppInv'
  BY <1>5, AgentStep DEF Agent
<1>6. ASSUME NEW d \in Doors, Arrive(d) \/ Leave(d)
      PROVE  AppInv'
  BY <1>6, HandlerStep
<1>7. CASE UNCHANGED vars
  <2>1. UNCHANGED <<cfg, pc, todo, ids, consul, blame, cancelled, expired,
                    start, stop, door, busy, deps>>
    BY <1>7 DEF vars, registryVars, serverVars
  <2>2. AppTyped'
    BY <2>1 DEF AppInv, AppTyped
  <2>3. OrphanCause' /\ TakenBack'
    BY <2>1, BooksKept
  <2>4. Ordered' /\ (Dead' <=> Dead)
    BY <2>1 DEF AppInv, Ordered, Late, Dead
  <2>5. PassingOpen'
    BY <2>1, <2>4, PassingKept
  <2>6. Fresh' /\ Watched' /\ Stopped'
    BY <2>1, <2>4, ServersKept
  <2> QED
    BY <2>2, <2>3, <2>4, <2>5, <2>6 DEF AppInv
<1> QED
  BY <1>1, <1>2, <1>3, <1>4, <1>5, <1>6, <1>7 DEF Next

\* The invariant holds, whatever fails and in whatever order the goroutines of
\* the servers, the registry and Consul take their steps.
THEOREM AppAlways == Spec => []AppInv
BY InitApp, NextApp, PTL DEF Spec

\* No cleanup runs while a server still waits for a request, unless the
\* graceful timeout passed (app.go, waitForShutdown before runCleanups).
THEOREM CleanupIsQuiet == Spec => []CleanupQuiet
<1>1. AppInv => CleanupQuiet
  <2> SUFFICES ASSUME AppInv, pc \in {"cleanup", "returned"}, ~expired,
                      NEW d \in Doors, busy[d]
               PROVE  door[d] = "open" /\ stop[d[1]] = "done"
    BY DEF CleanupQuiet
  <2>1. d[1] \in Kinds /\ ~Dead
    BY DoorFacts DEF Dead
  <2>2. stop[d[1]] = "done"
    BY <2>1 DEF AppInv, Stopped
  <2> QED
    BY <2>1, <2>2 DEF AppInv, Watched, WaitAt
<1> QED
  BY <1>1, AppAlways, PTL

\* What Consul has is in the registry's list or the service's own call failed,
\* and what Discover answers takes gRPC calls (registry.go, consul.go).
THEOREM ConsulIsTrue == Spec => []ConsulTrue
<1>1. AppInv => FoundIsOpen
  <2> SUFFICES ASSUME AppInv, NEW s \in Range(ids) \cup blame,
                      Record(s).addr \in
                        Discover({t \in {Record(s)} : consul[s] = "passing"})
               PROVE  /\ Record(s).addr.port[2] = "rpc"
                      /\ \/ door[Record(s).addr.port] \in {"made", "open"}
                         \/ s \in blame \/ Dead
    BY DEF FoundIsOpen
  <2>1. s \in Kinds
    BY InRange DEF AppInv, AppTyped
  <2>2. consul[s] = "passing" /\ "grpc" \in Record(s).tags
    BY DEF Discover
  <2>3. s \in HasRPC /\ Record(s).addr.port = RPC(s)
    BY <2>1, <2>2, RecordOf DEF AppInv
  <2>4. door[RPC(s)] \in {"made", "open"} \/ s \in blame \/ Dead
    BY <2>1, <2>2 DEF AppInv, PassingOpen
  <2> QED
    BY <2>3, <2>4, DoorFacts
<1>2. AppInv => ConsulTrue
  BY <1>1 DEF AppInv, ConsulTrue
<1> QED
  BY <1>2, AppAlways, PTL

\* What Consul has for critical was not well when it was last probed.
SickKnown == \A s \in Kinds : consul[s] = "critical" => s \in sick

LEMMA ConsulSteps ==
  ASSUME [Next]_vars
  PROVE  \/ UNCHANGED <<consul, sick>>
         \/ Register \/ Unregister
         \/ \E k \in Kinds : Probe(k) \/ Reap(k)
BY DEF Next, vars, Main, Registry, ContextDone, Signal, Exit, Agent,
       Starting, Stopping, Run, StartAll, HookReturns, Shutdown, Die,
       Stop, Expire, DepsChange, Drain, Cleanup, StartRPC, StartWeb,
       Serve, Arrive, Leave, CloseDoor, WebStopped, RPCStopped,
       registryVars

LEMMA NextSick == AppTyped /\ SickKnown /\ [Next]_vars => SickKnown'
<1> SUFFICES ASSUME AppTyped, SickKnown, [Next]_vars
             PROVE  SickKnown'
  OBVIOUS
<1>1. consul \in [Kinds -> Known]
  BY DEF AppTyped
<1>2. CASE UNCHANGED <<consul, sick>>
  BY <1>2 DEF SickKnown
<1>3. CASE Register
  <2>1. PICK k : \/ consul' = [consul EXCEPT ![k] = "new"]
                 \/ UNCHANGED consul
    BY <1>3 DEF Register, RollBack
  <2>2. UNCHANGED sick
    BY <1>3 DEF Register
  <2> QED
    BY <1>1, <2>1, <2>2 DEF SickKnown
<1>4. CASE Unregister
  <2>1. PICK k : \/ consul' = [consul EXCEPT ![k] = "absent"]
                 \/ UNCHANGED consul
    BY <1>4 DEF Unregister
  <2>2. UNCHANGED sick
    BY <1>4 DEF Unregister
  <2> QED
    BY <1>1, <2>1, <2>2 DEF SickKnown
<1>5. ASSUME NEW k \in Kinds, Probe(k)
      PROVE  SickKnown'
  <2>1. CASE Well(k)
    <3>1. /\ consul' = [consul EXCEPT ![k] = "passing"]
          /\ sick' = sick \ {k}
      BY <1>5, <2>1, WellAnswers DEF Probe
    <3> QED
      BY <1>1, <3>1 DEF SickKnown
  <2>2. CASE ~Well(k)
    <3>1. PICK v : consul' = [consul EXCEPT ![k] = v]
      BY <1>5 DEF Probe
    <3>2. sick' = sick \cup {k}
      BY <1>5, <2>2 DEF Probe
    <3> QED
      BY <1>1, <3>1, <3>2 DEF SickKnown
  <2> QED
    BY <2>1, <2>2
<1>6. ASSUME NEW k \in Kinds, Reap(k)
      PROVE  SickKnown'
  <2>1. consul' = [consul EXCEPT ![k] = "absent"] /\ sick' = sick
    BY <1>6 DEF Reap
  <2> QED
    BY <1>1, <2>1 DEF SickKnown
<1> QED
  BY <1>2, <1>3, <1>4, <1>5, <1>6, ConsulSteps

\* Consul removes no server that was well when it was last probed: a probe of
\* such a server passes, whatever protocol it speaks and however it was named
\* (consul.go), and Consul removes by the last probe.
THEOREM HealthyAlwaysStays == Spec => HealthyStays
<1> DEFINE Keeps ==
      \A s \in Kinds :
        /\ consul[s] # "absent" /\ consul'[s] = "absent"
        /\ pc \notin {"rollback", "unregistering"}
        => s \in sick
<1>1. Init => SickKnown
  BY DEF Init, SickKnown
<1>2. AppTyped /\ SickKnown /\ [Next]_vars => Keeps
  <2> SUFFICES ASSUME AppTyped, SickKnown, [Next]_vars, NEW s \in Kinds,
                      consul[s] # "absent", consul'[s] = "absent",
                      pc \notin {"rollback", "unregistering"}
               PROVE  s \in sick
    BY DEF Keeps
  <2>1. consul \in [Kinds -> Known]
    BY DEF AppTyped
  <2>2. ~UNCHANGED consul
    OBVIOUS
  <2>3. ~Register
    <3> SUFFICES ASSUME Register PROVE FALSE
      OBVIOUS
    <3>1. PICK k : \/ consul' = [consul EXCEPT ![k] = "new"]
                   \/ UNCHANGED consul
      BY DEF Register, RollBack
    <3> QED
      BY <2>1, <3>1
  <2>4. ~Unregister
    BY DEF Unregister
  <2>5. PICK k \in Kinds : Probe(k) \/ Reap(k)
    BY <2>2, <2>3, <2>4, ConsulSteps
  <2>6. ~Probe(k)
    <3> SUFFICES ASSUME Probe(k) PROVE FALSE
      OBVIOUS
    <3>1. PICK v \in {"passing", "critical"} :
            v = IF Answers(Record(k).check) THEN "passing" ELSE "critical"
      OBVIOUS
    <3>2. consul' = [consul EXCEPT ![k] = v]
      BY <3>1 DEF Probe
    <3> QED
      BY <2>1, <3>2
  <2>7. /\ consul[k] = "critical"
        /\ consul' = [consul EXCEPT ![k] = "absent"]
    BY <2>5, <2>6 DEF Reap
  <2>8. k = s
    BY <2>1, <2>7
  <2> QED
    BY <2>7, <2>8 DEF SickKnown
<1>3. AppTyped /\ SickKnown /\ [Next]_vars => [Keeps]_vars
  BY <1>2
<1>4. AppInv => AppTyped
  BY DEF AppInv
<1> QED
  BY <1>1, <1>3, <1>4, NextSick, AppAlways, PTL DEF Spec, HealthyStays
=============================================================================
