---------------------------- MODULE MCAdmission ----------------------------
(***************************************************************************)
(* Admission for TLC: small tier configurations that share a key, differ   *)
(* in the window only, or are refused by the limiter's constructor, and    *)
(* tenants and paths with and without colons that meet in one key.         *)
(***************************************************************************)
EXTENDS Admission

MCTenants == {<<"a">>, <<"a", "GET", "/y">>, Global}
MCEndpoints == {<<"GET", "/x">>, <<"GET", "/y", "GET", "/x">>}

Config(s, n, w, r) == [strategy |-> s, capacity |-> n, windowMs |-> w, refillRate |-> r]

MCConfigs ==
  { Config("token-bucket", 1, Missing, Missing),
    Config("token-bucket", 1, Missing, 0),
    Config("sliding-window", 2, 1000, Missing),
    Config("sliding-window", 2, Missing, Missing) }
=============================================================================
