------------------------------ MODULE ClientIP ------------------------------
(***************************************************************************)
(* request/clientip: whose request this is, and whether that address may   *)
(* come in.  Addresses are members of a small set, a network is the set of *)
(* the addresses it contains; NoIP is the empty address and Junk text that *)
(* does not parse.  A request is a record: the peer it comes from, the     *)
(* entries of its X-Forwarded-For header (a sequence, empty when there is  *)
(* none), its X-Real-IP header and, for gRPC, whether it carries metadata. *)
(***************************************************************************)
EXTENDS Naturals, Sequences, SequencesExt, FiniteSetsExt

CONSTANTS
  Addrs,      \* the addresses
  NoIP, Junk, \* no address; text that is no address
  Country     \* the country of an address, NoIP when the lookup fails

ASSUME ClientIPAssumption ==
  /\ {NoIP, Junk} \cap Addrs = {}
  /\ NoIP # Junk
  /\ DOMAIN Country = Addrs

IsValidIP(ip) == ip \in Addrs

\* options.go: which proxies are believed.
TrustAll == [all |-> TRUE, nets |-> {}]
TrustedProxies(nets) == [all |-> FALSE, nets |-> nets]
IsTrustedProxy(o, ip) == o.all \/ ip \in o.nets

\* The client by the header alone: its first entry.
ParseXForwardedFor(xff) == IF xff = <<>> THEN NoIP ELSE Head(xff)

\* Mutant of ParseXForwardedForWithTrust: the list is read from the left.
ParseXForwardedForLeft(xff, o) ==
  LET others == {i \in 1..Len(xff) :
                   xff[i] # NoIP /\ ~IsTrustedProxy(o, xff[i])}
  IN  CASE xff = <<>> -> NoIP
        [] others # {} -> xff[Min(others)]
        [] OTHER -> Head(xff)
\* The client by the proxies that are believed: from the right, the first
\* entry that is not blank and not one of them; the first one if all are.
ParseXForwardedForWithTrust(xff, o) ==
  LET others == {i \in 1..Len(xff) :
                   xff[i] # NoIP /\ ~IsTrustedProxy(o, xff[i])}
  IN  CASE xff = <<>> -> NoIP
        [] others # {} -> xff[Max(others)]
        [] OTHER -> Head(xff)

Forwarded(r, o) ==
  IF o.all THEN ParseXForwardedFor(r.xff)
  ELSE ParseXForwardedForWithTrust(r.xff, o)

\* The first of the two headers that gives an address, else the peer.
FromHeaders(r, o) ==
  IF IsValidIP(Forwarded(r, o)) THEN Forwarded(r, o)
  ELSE IF IsValidIP(r.real) THEN r.real ELSE r.peer

\* http.go
ExtractFromHTTP(r, o) ==
  IF IsTrustedProxy(o, r.peer) THEN FromHeaders(r, o) ELSE r.peer

\* grpc.go: the peer may be unknown, and there may be no metadata.
ExtractFromGRPC(r, o) ==
  IF (r.peer # NoIP /\ ~IsTrustedProxy(o, r.peer)) \/ ~r.md THEN r.peer
  ELSE FromHeaders(r, o)

\* geo.go and the middlewares: the country is known when the lookup succeeds.
CountryOf(ip) == IF IsValidIP(ip) THEN Country[ip] ELSE NoIP

\* acl.go: the lists win over the mode, and the deny list over the allow list.
ACL(allow, deny, mode) == [allow |-> allow, deny |-> deny, mode |-> mode]
IsAllowed(acl, ip) ==
  /\ IsValidIP(ip)
  /\ ip \notin acl.deny
  /\ ip \in acl.allow \/ acl.mode = "allow"

CountryIsAllowed(acl, country) ==
  /\ country \notin acl.deny
  /\ country \in acl.allow \/ acl.mode = "allow"

\* An address without a country passes unless the mode denies.
CheckCountry(acl, ip) ==
  IF CountryOf(ip) = NoIP THEN acl.mode = "allow"
  ELSE CountryIsAllowed(acl, CountryOf(ip))

\* The middlewares: HTTP falls back on the peer when clientip did not run
\* (ip = NoIP), gRPC does not and so refuses.
ACLHTTP(acl, ip, r) == IsAllowed(acl, IF ip = NoIP THEN r.peer ELSE ip)
ACLGRPC(acl, ip) == IsAllowed(acl, ip)

-----------------------------------------------------------------------------
\* The reference: the address every hop to the right of which is a proxy that
\* is believed.  The hops are the entries of the header that are not blank,
\* then the peer.
IsFirstStranger(r, o, ip) ==
  LET hops == Append(r.xff, r.peer) IN
  \E i \in 1..Len(hops) :
    /\ hops[i] = ip /\ ip # NoIP
    /\ ~IsTrustedProxy(o, ip)
    /\ \A j \in i + 1..Len(hops) :
         hops[j] = NoIP \/ IsTrustedProxy(o, hops[j])
=============================================================================
