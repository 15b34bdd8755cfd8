------------------------------ MODULE JwtSvid ------------------------------
(***************************************************************************)
(* internal/jwtsvid: the JWT-SVID.md sweep over one decoded token.         *)
(*                                                                         *)
(* Header: alg is "allowed" or another string, typ is "JWT", "JOSE",       *)
(* "wit+jwt" or another string, kid is "set", extra says that there are    *)
(* other members.  Claims: sub is an IdText, exp a date, aud a record of   *)
(* form ("string", "array" or "other") and values, each "set", "empty" or  *)
(* "bad" (no string).                                                      *)
(***************************************************************************)
EXTENDS SpiffeId, Jose

CheckJwtHeader(h) ==
    Judge("JWTHeaderClosedSet", ~h.extra, "")
    \o Judge("JWTAlgWhitelist", h.alg = "allowed", "")
    \o IF h.typ = None
       THEN << >>
       ELSE Judge("JWTTypValue", h.typ \in {"JWT", "JOSE"}, "")

\* The clause about the presence of sub, and the SPIFFE-ID sweep over it.
CheckSub(clause, p) ==
    IF p.sub \in {None, Malformed}
    THEN Fail(clause, "")
    ELSE Pass(clause, "") \o IdCheck(p.sub)

\* extractAud: an array with anything but non-empty strings in it is not valid
\* and has no values.
ExtractAud(p) ==
    LET strings == ToSet(p.aud.values) \subseteq {"set"}
    IN  CASE p.aud = None -> [present |-> FALSE, valid |-> TRUE, values |-> << >>]
          [] p.aud # None /\ p.aud.form = "string" ->
               [present |-> TRUE, valid |-> TRUE,
                values |-> IF strings THEN p.aud.values ELSE << >>]
          [] p.aud # None /\ p.aud.form = "array" ->
               [present |-> TRUE, valid |-> strings,
                values |-> IF strings THEN p.aud.values ELSE << >>]
          [] OTHER -> [present |-> TRUE, valid |-> FALSE, values |-> << >>]

CheckAud(p) ==
    LET aud == ExtractAud(p)
    IN  Judge("JWTAudPresent", aud.present /\ aud.valid /\ aud.values # << >>, "")
        \o IF aud.values = << >>
           THEN << >>
           ELSE Judge("JWTAudSingleRecommended", Len(aud.values) = 1, "")

\* Mutant: the return after an absent exp is missing before the PASS.
CheckExpGoesOn(present, notInPast, p, build, clock) ==
    (IF p.exp = None THEN Fail(present, "") ELSE << >>)
    \o Pass(present, "")
    \o IF p.exp = None
       THEN << >>
       ELSE Judge(notInPast, p.exp # Malformed /\ ~IsPast(build, p.exp, clock), "")

\* What checkClaims and witsvid.checkExp share: exp is there, and not past.
CheckExp(present, notInPast, p, build, clock) ==
    Judge(present, p.exp # None, "")
    \o IF p.exp = None
       THEN << >>
       ELSE Judge(notInPast, p.exp # Malformed /\ ~IsPast(build, p.exp, clock), "")
---------------------------------------------------------------------------
(* What JWT-SVID.md says, without an order or an early return.             *)

\* The values aud stands for: a string is one value, unless it is empty.
Audiences(aud) == IF aud = None THEN << >> ELSE aud.values

\* The clauses of JWT-SVID.md about a decoded token, each as a fact about its
\* members at one moment.
JwtTruth(t, clock) ==
    LET h == t.header
        p == t.payload
        auds == Audiences(p.aud)
    IN  [ JWTCompactSerialization |-> TRUE,
          JWTAlgWhitelist |-> h.alg = "allowed",
          JWTTypValue |-> h.typ \in {"JWT", "JOSE"},
          JWTHeaderClosedSet |-> ~h.extra,
          JWTSubPresent |-> p.sub \notin {None, Malformed},
          JWTAudPresent |->
              auds # << >> /\ \A i \in DOMAIN auds : auds[i] = "set",
          JWTAudSingleRecommended |-> auds = <<"set">>,
          JWTExpPresent |-> p.exp # None,
          JWTExpNotInPast |-> p.exp \notin {None, Malformed} /\ p.exp >= clock ]

\* The clauses that bind it.
JwtDemands(t) ==
    JwtSvidClauses \ IF t.header.typ = None THEN {"JWTTypValue"} ELSE {}
=============================================================================
