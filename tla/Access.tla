-------------------------------- MODULE Access --------------------------------
(***************************************************************************)
(* Who gets as far as the request handler: the routes and servers of       *)
(* internal/install, the middleware of internal/auth/auth.go and the keys  *)
(* of internal/auth/public_key_provider.go, which are fetched from a URL   *)
(* and kept by the jwx library's cache.                                    *)
(*                                                                         *)
(* The cache is external: it fetches the keys when they are first needed   *)
(* and again from time to time, and keeps what it has when a fetch fails.  *)
(* So is the library's check of a signature: a key of the set verifies a   *)
(* token that names its key id and its algorithm.  The program asks for    *)
(* the library's defaults; whether it then tries every key of a key id or  *)
(* only the first is left open.  auth.New drops the error of an unusable   *)
(* key URL; the URL is taken to be usable here.                            *)
(***************************************************************************)
EXTENDS Naturals, Sequences

CONSTANTS
  Kids,          \* key ids
  KeySets,       \* the sets of keys the URL may serve
  Capabilities,  \* capabilities of tokens and of the service
  NotFetched     \* stands for the keys before a fetch

Servers == {"primary", "alternate"}
NoAlg   == ""

AlgMap == [RSA |-> <<"RS256", "RS384", "RS512">>, EC |-> <<"ES256", "ES384", "ES512">>]

\* AlgMap does not have every type of key.
KeyTypes == {"RSA", "EC", "OKP"}
Algs == {AlgMap[kty][n] : kty \in {"RSA", "EC"}, n \in 1..3} \cup {"EdDSA"}
Keys == [kid : Kids, kty : KeyTypes, alg : Algs \cup {NoAlg}]

\* nth: its place among the keys made of one key
CachedKeys == [kid : Kids, kty : KeyTypes, alg : Algs, nth : 1..3]

ASSUME AccessAssumption ==
  /\ KeySets \subseteq SUBSET Keys
  /\ \A keySet \in KeySets : \A key, other \in keySet : key.kid = other.kid => key = other
  /\ NotFetched \notin KeySets

\* user and password: do they agree with the configuration?
Credentials ==
  [scheme : {"none"}] \cup [scheme : {"basic"}, user : BOOLEAN, password : BOOLEAN] \cup
  [scheme : {"bearer"}, kid : Kids, alg : Algs, capabilities : SUBSET Capabilities]

\* atRoute: is it a POST to the path of the configuration?
Requests == [server : Servers, atRoute : BOOLEAN, cred : Credentials]

VARIABLES
  isBasic, server, serviceCapabilities, \* the configuration
  triesEvery, \* does the library try every key of a key id, or the first?
  published, \* the keys at the URL
  cache,     \* what GetPostFetcher made of the keys fetched last
  answer,    \* keys on their way from the URL to the cache
  since,     \* history: the sets published since those of the cache were read
  sinceAsked \* history: the sets published since those of answer were read

config == <<isBasic, server, serviceCapabilities, triesEvery>>
vars   == <<config, published, cache, answer, since, sinceAsked>>

TypeOK ==
  /\ isBasic \in BOOLEAN /\ triesEvery \in BOOLEAN
  /\ server \in Servers /\ serviceCapabilities \subseteq Capabilities
  /\ published \in KeySets /\ answer \in KeySets \cup {NotFetched}
  /\ cache = NotFetched \/ cache \subseteq CachedKeys
  /\ since \subseteq KeySets /\ sinceAsked \subseteq KeySets

\* provideConfig ends the program unless the server is one of the two.
Init ==
  /\ isBasic \in BOOLEAN /\ server \in Servers /\ triesEvery \in BOOLEAN
  /\ serviceCapabilities \in SUBSET Capabilities
  /\ published \in KeySets
  /\ cache = NotFetched /\ answer = NotFetched
  /\ since = {} /\ sinceAsked = {}

-------------------------------------------------------------------------------
(***************************************************************************)
(* The keys.                                                               *)
(***************************************************************************)
HasAlgorithm(key) == key.alg # NoAlg

Cached(key, alg, nth) == [kid |-> key.kid, kty |-> key.kty, alg |-> alg, nth |-> nth]

Copies(key) ==
  IF key.kty \in DOMAIN AlgMap
  THEN {Cached(key, AlgMap[key.kty][n], n) : n \in DOMAIN AlgMap[key.kty]}
  ELSE {}

\* A key that has an algorithm is kept, another is copied for each algorithm of
\* its type: the library verifies with keys that have one.
GetPostFetcher(keySet) ==
  {Cached(key, key.alg, 1) : key \in {k \in keySet : HasAlgorithm(k)}} \cup
  UNION {Copies(key) : key \in {k \in keySet : ~HasAlgorithm(k)}}

\* The issuer of the tokens changes its keys.
Publish(keySet) ==
  /\ keySet # published
  /\ published' = keySet
  /\ since' = since \cup {keySet} /\ sinceAsked' = sinceAsked \cup {keySet}
  /\ UNCHANGED <<config, cache, answer>>

\* A refresh reads the keys ...
Ask ==
  /\ ~isBasic /\ answer = NotFetched
  /\ answer' = published /\ sinceAsked' = {published}
  /\ UNCHANGED <<config, published, cache, since>>

\* ... and puts them into the cache, or fails.
Refreshed ==
  /\ answer # NotFetched
  /\ cache' = GetPostFetcher(answer) /\ since' = sinceAsked
  /\ answer' = NotFetched
  /\ UNCHANGED <<config, published, sinceAsked>>

RefreshFails ==
  /\ answer # NotFetched
  /\ answer' = NotFetched
  /\ UNCHANGED <<config, published, cache, since, sinceAsked>>

-------------------------------------------------------------------------------
(***************************************************************************)
(* The middleware in front of the handler.                                 *)
(***************************************************************************)
\* Mutant: a token needs all the capabilities of the service.
checkAllCapabilities(capabilities) == serviceCapabilities \subseteq capabilities

\* Mutant: it is the token that may have none.
checkCapabilitiesOfNone(capabilities) ==
  \/ capabilities = {}
  \/ \E capability \in capabilities : capability \in serviceCapabilities

checkCapabilities(capabilities) ==
  \/ serviceCapabilities = {}
  \/ \E capability \in capabilities : capability \in serviceCapabilities

Verifies(keySet, cred) ==
  \E k \in keySet : k.kid = cred.kid /\ k.alg = cred.alg /\ (triesEvery \/ k.nth = 1)

\* What the validator answers a request that has the route; bad credentials are
\* also what the parsers make of a scheme that is not theirs, of a token whose
\* signature they cannot check, and of keys they cannot get.
Middleware(cred) ==
  IF isBasic
  THEN IF cred.scheme = "basic" /\ cred.user /\ cred.password
       THEN "handler" ELSE "bad_credentials"
  ELSE IF cred.scheme # "bearer" \/ cache = NotFetched \/ ~Verifies(cache, cred)
       THEN "bad_credentials"
       ELSE IF checkCapabilities(cred.capabilities) THEN "handler" ELSE "unauthorized"

\* What becomes of a request now.  One of the two servers has the route.
Outcome(r) == IF r.server = server /\ r.atRoute THEN Middleware(r.cred) ELSE "not_routed"

\* The first request that brings a token fetches the keys before it is judged.
FirstToken ==
  /\ ~isBasic /\ cache = NotFetched
  /\ cache' = GetPostFetcher(published) /\ since' = {published}
  /\ UNCHANGED <<config, published, answer, sinceAsked>>

Next == \/ \E keySet \in KeySets : Publish(keySet)
        \/ Ask \/ Refreshed \/ RefreshFails
        \/ FirstToken

Spec == Init /\ [][Next]_vars

-------------------------------------------------------------------------------
(***************************************************************************)
(* Properties.                                                             *)
(***************************************************************************)
\* The tokens a key is for: of its algorithm or, when it names none, of one of
\* its type's: of the usual one, and of the others if the library tries them.
Signs(key, cred) ==
  /\ cred.scheme = "bearer" /\ key.kid = cred.kid
  /\ \/ key.alg = cred.alg
     \/ /\ key.alg = NoAlg
        /\ \/ key.kty = "RSA" /\ cred.alg = "RS256"
           \/ key.kty = "EC"  /\ cred.alg = "ES256"
           \/ triesEvery /\ key.kty = "RSA" /\ cred.alg \in {"RS384", "RS512"}
           \/ triesEvery /\ key.kty = "EC"  /\ cred.alg \in {"ES384", "ES512"}

SignedFrom(keySet, cred) == \E key \in keySet : Signs(key, cred)

Entitled(cred) ==
  serviceCapabilities # {} => cred.capabilities \cap serviceCapabilities # {}

\* The handler is reached only at the route of the configuration and with its
\* user and password or with a token: one that has a capability of the service
\* and the signature of a key which was published at some time since the keys in
\* the cache were read (auth.go:82-176, routes.go:65-83).
OnlyAuthorisedReach ==
  \A r \in Requests : Outcome(r) = "handler" =>
    /\ r.server = server /\ r.atRoute
    /\ IF isBasic THEN r.cred.scheme = "basic" /\ r.cred.user /\ r.cred.password
       ELSE /\ \E keySet \in since : SignedFrom(keySet, r.cred)
            /\ Entitled(r.cred)

\* Once keys have been fetched, a request with a token is not turned away while
\* the issuer rotates its keys and refreshes fail or come late, if the key that
\* signed it is in all the sets published since those in the cache were read,
\* whether or not they name its algorithm (public_key_provider.go:39-77).
RotationKeepsAccess ==
  ~isBasic /\ cache # NotFetched =>
    \A r \in Requests :
      /\ r.server = server /\ r.atRoute /\ r.cred.scheme = "bearer"
      /\ \A keySet \in since : SignedFrom(keySet, r.cred)
      /\ Entitled(r.cred)
      => Outcome(r) = "handler"
===============================================================================
