------------------------------ MODULE WitSvid ------------------------------
(***************************************************************************)
(* internal/witsvid: the WIT-SVID.md sweep over one decoded token.         *)
(*                                                                         *)
(* Header and sub, exp, aud as in JwtSvid, nbf as exp.  cnf is a record of *)
(* jwk, which is a record of private (it has a member with private or      *)
(* symmetric key material) and alg.  iss is what url.Parse makes of it:    *)
(* parses, https, host (there is one), query and fragment ("none", "empty" *)
(* or "set"); of an empty iss, that it parses and no more, and Malformed   *)
(* is one that is no string.                                               *)
(***************************************************************************)
EXTENDS JwtSvid

\* stringMember and the test its callers make of the string.
CheckWitHeader(h) ==
    Judge("WITKidPresent", h.kid = "set", "")
    \o Judge("WITTypWitJWT", h.typ = "wit+jwt", "")
    \o Judge("WITAlgWhitelist", h.alg = "allowed", "")
    \o Judge("WITHeaderNoAdditional", ~h.extra, "")

\* Mutant: a jwk without an alg returns before it is failed.
CheckJwkAlgIfSet(jwk) ==
    Judge("WITCnfJWKPublic", ~jwk.private, "")
    \o IF jwk.alg = None
       THEN << >>
       ELSE Judge("WITCnfJWKAlg", jwk.alg = "allowed", "")

CheckJwk(jwk) ==
    Judge("WITCnfJWKPublic", ~jwk.private, "")
    \o Judge("WITCnfJWKAlg", jwk.alg = "allowed", "")

CheckCnf(p) ==
    LET isJwk == p.cnf # Malformed /\ p.cnf.jwk \notin {None, Malformed}
    IN  IF p.cnf = None
        THEN Fail("WITCnfPresent", "")
        ELSE Pass("WITCnfPresent", "")
             \o Judge("WITCnfJWK", isJwk, "")
             \o IF isJwk THEN CheckJwk(p.cnf.jwk) ELSE << >>

\* Mutant: a nbf of the wrong type is taken for none.
CheckNbfLenient(p, build, clock) ==
    IF p.nbf \in {None, Malformed}
    THEN << >>
    ELSE Judge("WITNbfNotInFuture", ~IsFuture(build, p.nbf, clock), "")

CheckNbf(p, build, clock) ==
    IF p.nbf = None
    THEN << >>
    ELSE Judge("WITNbfNotInFuture",
               p.nbf # Malformed /\ ~IsFuture(build, p.nbf, clock), "")

IsOIDCDiscoverable(iss) ==
    iss.parses /\ iss.https /\ iss.host /\ iss.query # "set" /\ iss.fragment # "set"

CheckIss(p) ==
    IF p.iss = None
    THEN << >>
    ELSE Judge("WITIssNotOIDC", p.iss # Malformed /\ ~IsOIDCDiscoverable(p.iss), "")

CheckNoAud(p) == Judge("WITNoAud", p.aud = None, "")
---------------------------------------------------------------------------
(* What WIT-SVID.md says, without an order or an early return.             *)

\* The clauses of WIT-SVID.md about a decoded token, each as a fact about its
\* members at one moment.  An issuer with an empty query or fragment counts as
\* one without.
WitTruth(t, clock) ==
    LET h == t.header
        p == t.payload
        jwk == IF p.cnf \in {None, Malformed} THEN None ELSE p.cnf.jwk
        noJwk == jwk \in {None, Malformed}
    IN  [ WITCompactSerialization |-> TRUE,
          WITKidPresent |-> h.kid = "set",
          WITTypWitJWT |-> h.typ = "wit+jwt",
          WITAlgWhitelist |-> h.alg = "allowed",
          WITHeaderNoAdditional |-> ~h.extra,
          WITSubPresent |-> p.sub \notin {None, Malformed},
          WITCnfPresent |-> p.cnf # None,
          WITCnfJWK |-> ~noJwk,
          WITCnfJWKPublic |-> ~noJwk /\ ~jwk.private,
          WITCnfJWKAlg |-> ~noJwk /\ jwk.alg = "allowed",
          WITExpPresent |-> p.exp # None,
          WITExpNotInPast |-> p.exp \notin {None, Malformed} /\ p.exp >= clock,
          WITNbfNotInFuture |-> p.nbf \notin {None, Malformed} /\ p.nbf <= clock,
          WITIssNotOIDC |->
              p.iss # None /\ p.iss # Malformed
              /\ ~( /\ p.iss.parses /\ p.iss.https /\ p.iss.host
                    /\ "set" \notin {p.iss.query, p.iss.fragment} ),
          WITNoAud |-> p.aud = None ]

\* The clauses that bind it: nbf and iss are optional.
WitDemands(t) ==
    WitSvidClauses
    \ ((IF t.payload.nbf = None THEN {"WITNbfNotInFuture"} ELSE {})
       \cup IF t.payload.iss = None THEN {"WITIssNotOIDC"} ELSE {})
=============================================================================
