-------------------------------- MODULE Auth --------------------------------
(***************************************************************************)
(* auth and auth/jwt: the tokens a service signs, the store that may take  *)
(* them back, and the doors of the service: the middlewares that read a    *)
(* request's credentials, authenticate them and authorise the principal.   *)
(*                                                                         *)
(* A token is a record: subject, second of issue, second of expiry, and    *)
(* whether this service signed it.  The store keeps one token per subject  *)
(* and second of issue (buildCacheKey), until the token expires; the store *)
(* is somebody else's, and may refuse a write or forget an entry.  Time is *)
(* counted in seconds.                                                     *)
(***************************************************************************)
EXTENDS Integers, FiniteSets, Sequences

CONSTANTS
  Subjects,      \* the users
  Admins,        \* the users a claims mapper gives the role to
  Lives,         \* the lifetimes a token may be given, in seconds
  RefreshWindow, \* how long after its expiry a token is to be refreshed
  MaxTime,       \* bound on the clock
  NoToken        \* no token

ASSUME AuthAssumption ==
  /\ Admins \subseteq Subjects
  /\ Lives \subseteq Nat \ {0} /\ Lives # {}
  /\ RefreshWindow \in Nat /\ MaxTime \in Nat

VARIABLES
  now,       \* the clock
  store,     \* the token of a subject and second of issue, as Set wrote it
  authStore  \* whether the service has a token store at all

authVars == <<now, store, authStore>>

Token(s, iat, life) ==
  [sub |-> s, iat |-> iat, exp |-> iat + life, signed |-> TRUE]
Tokens == {Token(s, t, l) : s \in Subjects, t \in 0..MaxTime, l \in Lives}
Forged == {[tok EXCEPT !.signed = FALSE] : tok \in Tokens}

ASSUME NoTokenAssumption == NoToken \notin Tokens \cup Forged

CacheKey(tok) == <<tok.sub, tok.iat>>
Keys == Subjects \X (0..MaxTime)

\* The store's answer: an entry lives as long as the token it holds.
StoreGet(key) ==
  IF store[key] # NoToken /\ now < store[key].exp THEN store[key] ELSE NoToken

\* The parser of the jwt library, as the code calls it: signature and expiry.
Parses(tok) == tok.signed /\ now < tok.exp

\* validateCachedToken: the store must hold this very token.
ValidateCachedToken(tok) == authStore => StoreGet(CacheKey(tok)) = tok

\* Mutant of Validate: the store is not asked.
ValidateNoStore(tok) == tok # NoToken /\ Parses(tok)
Validate(tok) == tok # NoToken /\ Parses(tok) /\ ValidateCachedToken(tok)

-----------------------------------------------------------------------------
\* Tokens in and out of the store.

\* Generate signs a token of this second and stores it; that the store did
\* not take it is only logged.
Generate(tok) ==
  /\ tok.signed /\ tok.iat = now
  /\ store' \in IF authStore
                THEN {store, [store EXCEPT ![CacheKey(tok)] = tok]}
                ELSE {store}
  /\ UNCHANGED <<now, authStore>>

\* GenerateWithDuration signs and stores nothing: a token of Tokens that no
\* Generate wrote to the store is one of these.

\* Refresh: a token that validates is exchanged for a new one; one that does
\* not is parsed again, which fails for an expired one as Validate did, so
\* that only a token the store took back gets past it, and such a token is
\* inside the refresh window because it has not expired.
RefreshAllowed(old) ==
  \/ Validate(old)
  \/ Parses(old) /\ now - old.exp <= RefreshWindow
Refresh(old, new) == RefreshAllowed(old) /\ Generate(new)

\* Revoke logs the keys somebody should delete, and deletes none.
Revoke(s) == UNCHANGED authVars

\* The store forgets: an eviction, a restart, or an operator who deletes what
\* Revoke logged.
StoreForgets(key) ==
  /\ store[key] # NoToken
  /\ store' = [store EXCEPT ![key] = NoToken]
  /\ UNCHANGED <<now, authStore>>

AuthTick ==
  /\ now < MaxTime
  /\ now' = now + 1
  /\ UNCHANGED <<store, authStore>>

AuthInit ==
  /\ now = 0
  /\ store = [k \in Keys |-> NoToken]
  /\ authStore \in BOOLEAN

AuthNext ==
  \/ \E tok \in Tokens : Generate(tok)
  \/ \E old, new \in Tokens : Refresh(old, new)
  \/ \E s \in Subjects : Revoke(s)
  \/ \E k \in Keys : StoreForgets(k)
  \/ AuthTick

-----------------------------------------------------------------------------
\* Who need not show anything.  A path or method is a sequence of segments;
\* the lists are sets of those.

IsPrefixOf(p, s) == Len(p) <= Len(s) /\ SubSeq(s, 1, Len(p)) = p

\* auth/jwt/whitelist.go: the internal header, in the metadata only, or a
\* prefix of the path or method.
IsWhitelisted(w, c) ==
  \/ w.header /\ c.internal
  \/ \E p \in w.paths : IsPrefixOf(p, c.path)

\* The public paths and methods of the servers: exactly, or by a prefix that
\* ends in a star; the gateway adds the methods it discovered.
PublicSkipper(exact, prefixes, c) ==
  c.path \in exact \/ \E p \in prefixes : IsPrefixOf(p, c.path)
GatewaySkipper(exact, prefixes, discovered, c) ==
  PublicSkipper(exact, prefixes, c) \/ c.path \in discovered

\* auth/discovery.go: the options of a method, when it has any, replace those
\* of its service.
Discovered(service, method) ==
  IF method.has THEN method.public ELSE service.public
PublicMethods(methods, service, options) ==
  {m \in methods : Discovered(service[m], options[m])}

-----------------------------------------------------------------------------
\* What a request carries: the form of its authorization header ("Bearer",
\* "bearer" in another case, "raw" without a scheme, "none"), the token in it,
\* and whether the token comes as an API key or in the query instead.

Creds(type, tok) == [type |-> type, tok |-> tok]
NoCreds == Creds("none", NoToken)

\* auth/http.go: the scheme is compared as it is spelled.
HTTPCredentials(c) ==
  CASE c.form = "Bearer" -> Creds("bearer", c.tok)
    [] c.form = "apikey" -> Creds("api_key", c.tok)
    [] c.form = "query" -> Creds("bearer", c.tok)
    [] OTHER -> NoCreds
BearerExtractor(c) ==
  IF c.form = "Bearer" THEN Creds("bearer", c.tok) ELSE NoCreds

\* auth/grpc.go: the scheme is compared in lower case, there is no query.
GRPCCredentials(c) ==
  CASE c.form \in {"Bearer", "bearer"} -> Creds("bearer", c.tok)
    [] c.form = "apikey" -> Creds("api_key", c.tok)
    [] OTHER -> NoCreds
GRPCBearerExtractor(c) ==
  IF c.form \in {"Bearer", "bearer"} THEN Creds("bearer", c.tok) ELSE NoCreds

\* auth/middleware.go: the credentials the caller put into the context, or
\* those of the request itself; the type may have been left out.
EndpointCredentials(c) ==
  CASE c.form = "context" -> Creds("", c.tok)
    [] c.form = "Bearer" -> Creds("bearer", c.tok)
    [] OTHER -> NoCreds

\* auth/jwt: the header with or without a scheme in any case; a token put
\* into the context.
ExtractToken(c) ==
  IF c.form \in {"Bearer", "bearer", "raw", "context"} THEN c.tok ELSE NoToken

\* auth/jwt/authenticator.go: the default claims mapper reads no roles out of
\* the standard claims, which are what Validate parses.
MapClaims(mapper, tok) ==
  [id |-> tok.sub, exp |-> tok.exp,
   roles |-> IF mapper = "custom" /\ tok.sub \in Admins
             THEN {"admin"} ELSE {}]
IsExpired(p) == now > p.exp

Authenticate(mapper, creds) ==
  /\ creds.type \in {"", "bearer"}
  /\ Validate(creds.tok)
  /\ ~IsExpired(MapClaims(mapper, creds.tok))

\* auth/authorizer.go: any, or all, of the roles or permissions required.
HasAnyRole(p, roles) == roles \cap p.roles # {}
HasAllRoles(p, roles) == roles \subseteq p.roles
Authorize(a, p) ==
  \/ a.roles = {}
  \/ IF a.all THEN HasAllRoles(p, a.roles) ELSE HasAnyRole(p, a.roles)

\* The middlewares of auth: Success, or the answer that turns a request away.
Door(skip, creds, mapper, authorizer) ==
  IF skip THEN "Success"
  ELSE IF creds.type = "none" \/ ~Authenticate(mapper, creds)
  THEN "Unauthorized"
  ELSE IF Authorize(authorizer, MapClaims(mapper, creds.tok))
  THEN "Success" ELSE "Forbidden"
HTTPDoor(skip, c, mapper, a) == Door(skip, HTTPCredentials(c), mapper, a)
UnaryDoor(skip, c, mapper, a) == Door(skip, GRPCCredentials(c), mapper, a)
StreamDoor(skip, c, mapper, a) == Door(skip, GRPCCredentials(c), mapper, a)
EndpointDoor(skip, c, mapper, a) ==
  Door(skip, EndpointCredentials(c), mapper, a)

\* The middlewares of auth/jwt have a whitelist, and neither principal nor
\* authoriser.  The internal header is read from gRPC metadata only: over
\* HTTP it opens nothing.
JWTVerdict(white, c) ==
  IF white \/ Validate(ExtractToken(c)) THEN "Success" ELSE "Unauthorized"
JWTParser(w, c) == JWTVerdict(IsWhitelisted(w, c), c)
JWTHTTP(w, c) ==
  JWTVerdict(IsWhitelisted([w EXCEPT !.header = FALSE], c), c)
JWTUnary(w, c) == JWTVerdict(IsWhitelisted(w, c), c)
JWTStream(w, c) == JWTVerdict(IsWhitelisted(w, c), c)
=============================================================================
