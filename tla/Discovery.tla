------------------------------ MODULE Discovery ------------------------------
(***************************************************************************)
(* What discovery/ tells Consul of a service and what it asks back: the     *)
(* service a ServiceRegistry makes of a server, its registration with the   *)
(* health check, and Discover.                                              *)
(*                                                                         *)
(* An address is a record of a host and of a port; NoPort stands for an     *)
(* address that cannot be parsed or is empty.                               *)
(***************************************************************************)
EXTENDS Naturals, Sequences, FiniteSets

CONSTANT NoPort

Address(host, port) == [host |-> host, port |-> port]
NoAddress == Address("", NoPort)

Endpoint(type, addr) == [type |-> type, addr |-> addr]
NoEndpoint == Endpoint("none", NoAddress)

\* The metadata of a protocol, after SetDefaults; none for another protocol.
ServiceConfig(protocol) ==
  CASE protocol = "http" -> [protocol |-> "http", tags |-> {"http", "v1"}]
    [] protocol = "grpc" -> [protocol |-> "grpc", tags |-> {"grpc", "v1"}]
    [] OTHER             -> [protocol |-> "", tags |-> {}]

\* Mutant of InferProtocol: whatever its health check is, a server speaks gRPC.
InferProtocolGRPC(server) == "grpc"

\* By the health endpoint, or else by what the server's name contains.
InferProtocol(server) ==
  IF server.endpoint.type \in {"grpc", "http"} THEN server.endpoint.type
  ELSE IF server.name = "http" THEN "http" ELSE "grpc"

AddService(name, addr, protocol) ==
  [name |-> name, addr |-> addr, protocol |-> protocol,
   endpoint |-> NoEndpoint]

AddServerWithProtocol(name, server, protocol) ==
  [name |-> name, addr |-> server.addr, protocol |-> protocol,
   endpoint |-> server.endpoint]

AddServer(name, server) ==
  AddServerWithProtocol(name, server, InferProtocol(server))

\* What RegisterWithProtocol and RegisterWithHealthEndpoint refuse unasked.
Refused(info) ==
  \/ info.name = ""
  \/ info.addr.port = NoPort
  \/ ServiceConfig(info.protocol).protocol = ""

Localhost(addr) ==
  IF addr.host = "0.0.0.0" THEN Address("127.0.0.1", addr.port) ELSE addr

TCPCheck(addr) == Endpoint("tcp", addr)

\* Mutant of CheckFromEndpoint: the check goes to the port of the service.
CheckServicePort(addr, endpoint) ==
  Endpoint(IF endpoint = NoEndpoint THEN "tcp" ELSE endpoint.type, addr)

\* The check goes to the endpoint's own address, where that can be parsed; to
\* the service's host where the endpoint listens on every interface.
CheckFromEndpoint(addr, endpoint) ==
  LET own == IF endpoint.addr.port = NoPort THEN addr ELSE endpoint.addr
      host == IF own.host \in {"", "0.0.0.0"} THEN addr.host ELSE own.host
  IN IF endpoint = NoEndpoint THEN TCPCheck(addr)
     ELSE Endpoint(IF endpoint.type \in {"http", "grpc"}
                   THEN endpoint.type ELSE "tcp", Address(host, own.port))

Registration(addr, protocol, check) ==
  [addr |-> addr, tags |-> ServiceConfig(protocol).tags \cup {protocol},
   check |-> check]

RegisterWithProtocol(info) ==
  LET addr == Localhost(info.addr)
  IN Registration(addr, info.protocol, TCPCheck(addr))

RegisterWithHealthEndpoint(info) ==
  LET addr == Localhost(info.addr)
  IN Registration(addr, info.protocol,
                  CheckFromEndpoint(addr, info.endpoint))

\* What RegisterAll has Consul keep of a service.
Registered(info) ==
  IF info.endpoint = NoEndpoint THEN RegisterWithProtocol(info)
  ELSE RegisterWithHealthEndpoint(info)

\* The addresses found among the services whose check passes: those with the
\* tag grpc.
Discover(passing) == {s.addr : s \in {t \in passing : "grpc" \in t.tags}}
=============================================================================
