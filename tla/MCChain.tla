------------------------------- MODULE MCChain -------------------------------
(***************************************************************************)
(* A call of at most two attempts, by a user who may hold a token or not,  *)
(* from an address that is allowed or denied.                              *)
(***************************************************************************)
EXTENDS Chain

MCCountry == [a \in Addrs |-> IF a = "other" THEN NoIP ELSE "XX"]

Order == <<"api", "order">>
Ping == <<"api", "ping">>
Login == <<"open", "login">>
MCPublic == [exact |-> {}, prefixes |-> {<<"open">>}]
MCMethods == {Order, Ping, Login}
MCServiceOptions == [m \in MCMethods |-> [public |-> FALSE]]
MCMethodOptions == [m \in MCMethods |-> [has |-> m = Ping, public |-> TRUE]]

\* A good token while the store keeps it, a forged one, a path that is public
\* by prefix or by discovery without any, and a good token from a denied
\* address.
Held == Token("user", 0, 2)
Request(tok, path, peer) ==
  [tok |-> tok, path |-> path, peer |-> peer, xff |-> <<>>,
   real |-> NoIP, md |-> TRUE]
MCRequests == {
  Request(Held, Order, "near"),
  Request([Held EXCEPT !.signed = FALSE], Order, "near"),
  Request(NoToken, Login, "near"), Request(NoToken, Ping, "near"),
  Request(Held, Order, "far")}

\* HTTP without an error mapping, gRPC with and without, the gateway with; the
\* retry policy and the deadline of the client are free.  A connection breaks
\* where the lock of the HTTP timeout takes no part, and tokens come and go in
\* the set-ups with the fewest other choices.
MCConfigs ==
  {c \in [proto : {"http", "grpc", "gateway", "endpoint", "fallback"},
          timed : BOOLEAN, inner : BOOLEAN, mapped : BOOLEAN,
          always : BOOLEAN, admin : BOOLEAN, deadline : BOOLEAN,
          churn : BOOLEAN, breaks : BOOLEAN] :
     /\ c.churn => /\ c.proto \in {"http", "grpc"} /\ c.always
                   /\ ~c.mapped /\ ~c.inner /\ ~c.deadline
                   /\ c.timed <=> c.proto = "grpc"
     /\ c.admin => c.churn
     /\ c.proto \in {"http", "endpoint", "fallback"} => ~c.mapped
     /\ c.proto = "gateway" => c.mapped
     /\ c.proto = "fallback" => c.timed
     /\ ~c.timed => ~c.inner
     /\ c.deadline => c.always /\ ~c.inner
     /\ c.breaks => /\ c.proto \in {"http", "grpc", "gateway"}
                    /\ ~c.deadline /\ ~c.churn /\ ~c.inner
                    /\ c.proto = "http" => ~c.timed}
=============================================================================
