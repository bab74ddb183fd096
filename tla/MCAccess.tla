------------------------------- MODULE MCAccess -------------------------------
(***************************************************************************)
(* An instance of Access for TLC: an issuer that rotates from one key to   *)
(* another of a different type, with both in between, names algorithms or  *)
(* does not, and has a key of a type that AlgMap does not have.            *)
(***************************************************************************)
EXTENDS Access

CONSTANTS k1, k2

Key(k, t, a) == [kid |-> k, kty |-> t, alg |-> a]

MCKeySets == {
  {Key(k1, "RSA", NoAlg)},
  {Key(k1, "RSA", NoAlg), Key(k2, "EC", "ES256")},
  {Key(k2, "EC", "ES256")},
  {Key(k1, "OKP", NoAlg), Key(k2, "EC", NoAlg)}
}
===============================================================================
