----------------------------- MODULE AccessProofs -----------------------------
(***************************************************************************)
(* Safety of Access for any keys, key ids and capabilities, and however    *)
(* the issuer's changes and the refreshes of the cache are ordered.        *)
(***************************************************************************)
EXTENDS Access, TLAPS

(***************************************************************************)
(* GetPostFetcher against its reference: the copies it makes verify the    *)
(* tokens the keys it is given are for, no others.                         *)
(***************************************************************************)
LEMMA AlgMapValues ==
  /\ DOMAIN AlgMap = {"RSA", "EC"}
  /\ DOMAIN AlgMap["RSA"] = 1..3 /\ DOMAIN AlgMap["EC"] = 1..3
  /\ AlgMap["RSA"][1] = "RS256" /\ AlgMap["RSA"][2] = "RS384" /\ AlgMap["RSA"][3] = "RS512"
  /\ AlgMap["EC"][1] = "ES256" /\ AlgMap["EC"][2] = "ES384" /\ AlgMap["EC"][3] = "ES512"
  /\ \A t \in DOMAIN AlgMap : \A n \in 1..3 : AlgMap[t][n] \in Algs
  /\ NoAlg \notin Algs
<1>1. /\ DOMAIN AlgMap = {"RSA", "EC"}
      /\ DOMAIN AlgMap["RSA"] = 1..3 /\ DOMAIN AlgMap["EC"] = 1..3
      /\ AlgMap["RSA"][1] = "RS256" /\ AlgMap["RSA"][2] = "RS384" /\ AlgMap["RSA"][3] = "RS512"
      /\ AlgMap["EC"][1] = "ES256" /\ AlgMap["EC"][2] = "ES384" /\ AlgMap["EC"][3] = "ES512"
  BY DEF AlgMap
<1>2. \A t \in DOMAIN AlgMap : \A n \in 1..3 : AlgMap[t][n] \in Algs
  BY <1>1 DEF Algs
<1>3. Algs = {"RS256", "RS384", "RS512", "ES256", "ES384", "ES512", "EdDSA"}
  BY <1>1 DEF Algs
<1> QED
  BY <1>1, <1>2, <1>3 DEF NoAlg

LEMMA FetcherTypes ==
  ASSUME NEW keySet \in KeySets
  PROVE  GetPostFetcher(keySet) \subseteq CachedKeys
<1>1. keySet \subseteq Keys
  BY AccessAssumption
<1>2. ASSUME NEW key \in keySet, HasAlgorithm(key)
      PROVE  Cached(key, key.alg, 1) \in CachedKeys
  BY <1>1, <1>2 DEF HasAlgorithm, Keys, Cached, CachedKeys
<1>3. ASSUME NEW key \in keySet, NEW k \in Copies(key)
      PROVE  k \in CachedKeys
  <2>1. key.kid \in Kids /\ key.kty \in KeyTypes
    BY <1>1 DEF Keys
  <2>2. PICK n \in 1..3 : k = Cached(key, AlgMap[key.kty][n], n) /\ key.kty \in DOMAIN AlgMap
    BY <1>3, AlgMapValues DEF Copies
  <2> QED
    BY <2>1, <2>2, AlgMapValues DEF Cached, CachedKeys
<1> QED
  BY <1>2, <1>3 DEF GetPostFetcher

LEMMA FetcherIsFaithful ==
  ASSUME NEW keySet \in KeySets, NEW cred \in Credentials, cred.scheme = "bearer"
  PROVE  Verifies(GetPostFetcher(keySet), cred) <=> SignedFrom(keySet, cred)
<1>1. cred.alg \in Algs /\ cred.alg # NoAlg
  BY AlgMapValues DEF Credentials
<1>2. ASSUME NEW k \in GetPostFetcher(keySet), k.kid = cred.kid, k.alg = cred.alg,
             triesEvery \/ k.nth = 1
      PROVE  SignedFrom(keySet, cred)
  <2>1. ASSUME NEW key \in keySet, HasAlgorithm(key), k = Cached(key, key.alg, 1)
        PROVE  SignedFrom(keySet, cred)
    BY <1>2, <2>1 DEF SignedFrom, Signs, Cached
  <2>2. ASSUME NEW key \in keySet, ~HasAlgorithm(key), k \in Copies(key)
        PROVE  SignedFrom(keySet, cred)
    <3>1. PICK n \in 1..3 : k = Cached(key, AlgMap[key.kty][n], n) /\ key.kty \in DOMAIN AlgMap
      BY <2>2, AlgMapValues DEF Copies
    <3>2. key.kid = cred.kid /\ cred.alg = AlgMap[key.kty][n] /\ (triesEvery \/ n = 1)
      BY <1>2, <3>1 DEF Cached
    <3>3. Signs(key, cred)
      BY <2>2, <3>1, <3>2, AlgMapValues DEF Signs, HasAlgorithm
    <3> QED
      BY <3>3 DEF SignedFrom
  <2> QED
    BY <1>2, <2>1, <2>2 DEF GetPostFetcher
<1>3. ASSUME NEW key \in keySet, Signs(key, cred)
      PROVE  Verifies(GetPostFetcher(keySet), cred)
  <2>1. CASE HasAlgorithm(key)
    <3>1. Cached(key, key.alg, 1) \in GetPostFetcher(keySet)
      BY <2>1 DEF GetPostFetcher
    <3> QED
      BY <1>3, <2>1, <3>1 DEF Signs, Verifies, HasAlgorithm, Cached
  <2>2. CASE ~HasAlgorithm(key)
    <3>1. PICK n \in 1..3 : /\ key.kty \in DOMAIN AlgMap
                            /\ cred.alg = AlgMap[key.kty][n]
                            /\ triesEvery \/ n = 1
      BY <1>1, <1>3, <2>2, AlgMapValues DEF Signs, HasAlgorithm
    <3>2. Cached(key, cred.alg, n) \in Copies(key)
      BY <3>1, AlgMapValues DEF Copies
    <3>3. Cached(key, cred.alg, n) \in GetPostFetcher(keySet)
      BY <2>2, <3>2 DEF GetPostFetcher
    <3> QED
      BY <1>3, <3>1, <3>3 DEF Signs, Verifies, Cached
  <2> QED
    BY <2>1, <2>2
<1> QED
  BY <1>2, <1>3 DEF Verifies, SignedFrom

-------------------------------------------------------------------------------
(***************************************************************************)
(* The inductive invariant: what is in the cache was made of one of the    *)
(* sets published since it was read, and so will what is on its way.       *)
(***************************************************************************)
SourceInv ==
  /\ cache # NotFetched => ~isBasic /\ \E keySet \in since : cache = GetPostFetcher(keySet)
  /\ answer # NotFetched => ~isBasic /\ answer \in sinceAsked

AccessInv == TypeOK /\ SourceInv

LEMMA AccessInit == Init => AccessInv
BY DEF Init, AccessInv, TypeOK, SourceInv

LEMMA AccessStep ==
  ASSUME AccessInv, [Next]_vars
  PROVE  AccessInv'
<1> USE DEF AccessInv, TypeOK, SourceInv, config
<1>1. ASSUME NEW keySet \in KeySets, Publish(keySet) PROVE AccessInv'
  BY <1>1 DEF Publish
<1>2. CASE Ask
  BY <1>2 DEF Ask
<1>3. CASE Refreshed
  <2>1. answer \in KeySets /\ answer \in sinceAsked /\ ~isBasic
    BY <1>3 DEF Refreshed
  <2>2. cache' \subseteq CachedKeys
    BY <1>3, <2>1, FetcherTypes DEF Refreshed
  <2> QED
    BY <1>3, <2>1, <2>2 DEF Refreshed
<1>4. CASE RefreshFails
  BY <1>4 DEF RefreshFails
<1>5. CASE FirstToken
  <2>1. cache' \subseteq CachedKeys
    BY <1>5, FetcherTypes DEF FirstToken
  <2> QED
    BY <1>5, <2>1 DEF FirstToken
<1>6. CASE UNCHANGED vars
  BY <1>6 DEF vars
<1> QED
  BY <1>1, <1>2, <1>3, <1>4, <1>5, <1>6 DEF Next

THEOREM AccessSafety == Spec => []AccessInv
<1>1. AccessInv /\ [Next]_vars => AccessInv'
  BY AccessStep
<1> QED
  BY AccessInit, <1>1, PTL DEF Spec

\* Every variable keeps its type; every key of the cache has an algorithm
\* (public_key_provider.go:39-77).
THEOREM TypeCorrect == Spec => []TypeOK
BY AccessSafety, PTL DEF AccessInv

LEMMA Capable ==
  ASSUME NEW cred, cred.scheme = "bearer"
  PROVE  checkCapabilities(cred.capabilities) <=> Entitled(cred)
BY DEF checkCapabilities, Entitled

\* Only requests with the configured user and password, or with a token a
\* published key signed and one of the service's capabilities, reach the handler
\* (auth.go:82-176, routes.go:65-83).
THEOREM OnlyAuthorised == Spec => []OnlyAuthorisedReach
<1>1. ASSUME AccessInv, NEW r \in Requests, Outcome(r) = "handler"
      PROVE  /\ r.server = server /\ r.atRoute
             /\ IF isBasic THEN r.cred.scheme = "basic" /\ r.cred.user /\ r.cred.password
                ELSE /\ \E keySet \in since : SignedFrom(keySet, r.cred)
                     /\ Entitled(r.cred)
  <2>1. r.server = server /\ r.atRoute /\ Middleware(r.cred) = "handler"
    BY <1>1 DEF Outcome
  <2>2. CASE isBasic
    BY <2>1, <2>2 DEF Middleware
  <2>3. CASE ~isBasic
    <3>1. /\ r.cred.scheme = "bearer" /\ cache # NotFetched
          /\ Verifies(cache, r.cred) /\ checkCapabilities(r.cred.capabilities)
      BY <2>1, <2>3 DEF Middleware
    <3>2. PICK keySet \in since : cache = GetPostFetcher(keySet)
      BY <1>1, <3>1 DEF AccessInv, SourceInv
    <3>3. keySet \in KeySets /\ r.cred \in Credentials
      BY <1>1, <3>2 DEF AccessInv, TypeOK, Requests
    <3>4. SignedFrom(keySet, r.cred)
      BY <3>1, <3>2, <3>3, FetcherIsFaithful
    <3> QED
      BY <2>1, <2>3, <3>1, <3>2, <3>4, Capable
  <2> QED
    BY <2>2, <2>3
<1>2. AccessInv => OnlyAuthorisedReach
  BY <1>1 DEF OnlyAuthorisedReach
<1> QED
  BY <1>2, AccessSafety, PTL

\* A token whose key is published throughout keeps its access while keys rotate
\* and refreshes fail (public_key_provider.go:39-77).
THEOREM AccessSurvivesRotation == Spec => []RotationKeepsAccess
<1>1. ASSUME AccessInv, ~isBasic, cache # NotFetched, NEW r \in Requests,
             r.server = server, r.atRoute, r.cred.scheme = "bearer",
             \A keySet \in since : SignedFrom(keySet, r.cred),
             Entitled(r.cred)
      PROVE  Outcome(r) = "handler"
  <2>1. PICK keySet \in since : cache = GetPostFetcher(keySet)
    BY <1>1 DEF AccessInv, SourceInv
  <2>2. keySet \in KeySets /\ r.cred \in Credentials
    BY <1>1, <2>1 DEF AccessInv, TypeOK, Requests
  <2>3. Verifies(cache, r.cred)
    BY <1>1, <2>1, <2>2, FetcherIsFaithful
  <2> QED
    BY <1>1, <2>3, Capable DEF Outcome, Middleware
<1>2. AccessInv => RotationKeepsAccess
  BY <1>1 DEF RotationKeepsAccess
<1> QED
  BY <1>2, AccessSafety, PTL
===============================================================================
