-------------------------------- MODULE MCApp --------------------------------
(***************************************************************************)
(* An HTTP server alone, with a gRPC server, or a gateway; registered as    *)
(* servers or by address; followed by a service that Consul refuses or not; *)
(* Consul may fail; the probes may be behind authentication.                 *)
(***************************************************************************)
EXTENDS App

MCConfigs ==
  {c \in [servers : {{"http"}, {"grpc", "http"}, {"gateway"}},
          how : {"server", "address"}, nameless : BOOLEAN, flaky : BOOLEAN,
          guarded : BOOLEAN, churn : BOOLEAN] :
     /\ c.churn => c.how = "server" /\ ~c.flaky /\ ~c.nameless
     /\ c.nameless => c.servers # {"http"}
     /\ c.guarded => /\ c.servers # {"gateway"} /\ c.how = "server"
                     /\ ~c.flaky /\ ~c.nameless}
=============================================================================
