---------------------------- MODULE TokenProofs ----------------------------
(***************************************************************************)
(* For every token, clock and build: what a verdict on a date is worth,    *)
(* exact to the leeway for the dates a time.Time can hold and upside down  *)
(* for all later ones; and what the reports of `scc jwt-svid` and          *)
(* `scc wit-svid` say, whose dates are judged at two moments of the run.   *)
(***************************************************************************)
EXTENDS TokenCommand, ReportProofs

---------------------------------------------------------------------------
(* Dates.                                                                  *)

Build == {"amd64", "arm64"}

\* Truncation toward zero loses less than a second.
LEMMA TruncatedIsClose ==
    ASSUME NEW date \in Int
    PROVE  /\ Truncated(date) \in Int
           /\ date >= 0 => /\ 2 * Truncated(date) <= date
                           /\ date <= 2 * Truncated(date) + 1
                           /\ Truncated(date) >= 0
           /\ date < 0 => /\ date <= 2 * Truncated(date)
                          /\ 2 * Truncated(date) <= date + 1
                          /\ Truncated(date) <= 0
  <1>1. CASE date >= 0
    <2>1. Truncated(date) = date \div 2
      BY <1>1 DEF Truncated
    <2> QED BY <1>1, <2>1
  <1>2. CASE date < 0
    <2> DEFINE half == (-date) \div 2
    <2>1. Truncated(date) = -half
      BY <1>2 DEF Truncated
    <2>2. half \in Int /\ 2 * half <= -date /\ -date <= 2 * half + 1 /\ half >= 0
      BY <1>2
    <2> HIDE DEF half
    <2> QED BY <1>2, <2>1, <2>2
  <1> QED BY <1>1, <1>2

\* A date a time.Time can hold keeps its value to the second, in every build.
LEMMA DateIsKept ==
    ASSUME NEW build \in Build, NEW date \in Int, Representable(date)
    PROVE  Unix(UnixClaim(build, date)) = 2 * (Truncated(date) + Epoch)
  <1> DEFINE sec == Truncated(date)
  <1>1. /\ sec \in Int
        /\ date >= 0 => 2 * sec <= date /\ sec >= 0
        /\ date < 0 => date <= 2 * sec /\ sec <= 0
    BY TruncatedIsClose
  <1>2. date >= 2 * MinSec /\ date <= 2 * (MaxSec - Epoch) + 1
    BY WidthAssumption DEF Representable, MinSec
  <1> HIDE DEF sec
  <1>3. sec \in MinSec..(MaxSec - Epoch)
    BY <1>1, <1>2, WidthAssumption DEF MinSec
  <1> USE DEF sec
  <1>4. UnixClaim(build, date) = Truncated(date)
    BY <1>3, WidthAssumption DEF UnixClaim, MinSec
  <1> QED BY <1>3, <1>4, WidthAssumption DEF Unix, Plus, MinSec

\* An exp judged past was past, to the letter; one that is not so judged was
\* past by no more than the leeway (jwtsvid.checkClaims, witsvid.checkExp).
THEOREM PastIsExact ==
    ASSUME NEW build \in Build, NEW exp \in Int, NEW moment \in Nat,
           Representable(exp), moment > 2 * Leeway
    PROVE  /\ IsPast(build, exp, moment) => exp < moment
           /\ ~IsPast(build, exp, moment) => moment - exp <= 2 * Leeway
  <1> DEFINE sec == Truncated(exp)
  <1>1. Unix(UnixClaim(build, exp)) = 2 * (sec + Epoch)
    BY DateIsKept
  <1>2. /\ sec \in Int
        /\ exp >= 0 => 2 * sec <= exp /\ exp <= 2 * sec + 1
        /\ exp < 0 => exp <= 2 * sec /\ sec <= 0
    BY TruncatedIsClose
  <1> HIDE DEF sec
  <1>3. IsPast(build, exp, moment) <=> moment - 2 * Leeway > 2 * sec
    BY <1>1, <1>2, WidthAssumption DEF IsPast, Now
  <1> QED BY <1>2, <1>3, WidthAssumption

\* A nbf judged to be in the future was later than the leeway allows; one that
\* is not so judged was in the future by no more than the leeway and the fraction
\* of a second (witsvid.checkNbf).
THEOREM FutureIsExact ==
    ASSUME NEW build \in Build, NEW nbf \in Int, NEW moment \in Nat,
           Representable(nbf)
    PROVE  /\ IsFuture(build, nbf, moment) => nbf > moment + 2 * Leeway
           /\ ~IsFuture(build, nbf, moment) => nbf - moment <= 2 * Leeway + 1
  <1> DEFINE sec == Truncated(nbf)
  <1>1. Unix(UnixClaim(build, nbf)) = 2 * (sec + Epoch)
    BY DateIsKept
  <1>2. /\ sec \in Int
        /\ nbf >= 0 => 2 * sec <= nbf /\ nbf <= 2 * sec + 1
        /\ nbf < 0 => nbf <= 2 * sec /\ sec <= 0
    BY TruncatedIsClose
  <1> HIDE DEF sec
  <1>3. IsFuture(build, nbf, moment) <=> 2 * sec > moment + 2 * Leeway
    BY <1>1, <1>2, WidthAssumption DEF IsFuture, Now
  <1> QED BY <1>2, <1>3, WidthAssumption

\* A date too late for a time.Time is judged past and never in the future, in
\* every build: an exp that is hardly ever reached fails, and a nbf that is
\* hardly ever reached passes.
THEOREM FarDatesAreTakenForPast ==
    ASSUME NEW build \in Build, NEW date \in Int, NEW moment \in Nat,
           date > 2 * (MaxSec - Epoch) + 1
    PROVE  /\ IsPast(build, date, moment)
           /\ ~IsFuture(build, date, moment)
  <1>1. Truncated(date) \in Int /\ Truncated(date) > MaxSec - Epoch
    <2>1. date >= 0
      BY WidthAssumption
    <2>2. Truncated(date) \in Int /\ date <= 2 * Truncated(date) + 1
      BY <2>1, TruncatedIsClose
    <2> QED BY <2>2, WidthAssumption
  <1>2. UnixClaim(build, date) \in {MinSec} \cup (MaxSec - Epoch + 1)..MaxSec
    BY <1>1, WidthAssumption DEF UnixClaim, MinSec
  <1>3. Unix(UnixClaim(build, date)) \in Int /\ Unix(UnixClaim(build, date)) < 0
    <2>1. CASE UnixClaim(build, date) = MinSec
      BY <2>1, WidthAssumption DEF Unix, Plus, MinSec
    <2>2. CASE UnixClaim(build, date) \in (MaxSec - Epoch + 1)..MaxSec
      BY <2>2, WidthAssumption DEF Unix, Plus
    <2> QED BY <1>2, <2>1, <2>2
  <1> QED BY <1>3, WidthAssumption DEF IsPast, IsFuture, Now

---------------------------------------------------------------------------
(* The documents, clause by clause.                                        *)

\* The payload has a JSON Web Key.
IsJwk(p) == p.cnf \notin {None, Malformed} /\ p.cnf.jwk \notin {None, Malformed}

LEMMA JwtTruthParts ==
  ASSUME NEW t, NEW x
  PROVE  /\ JwtTruth(t, x)["JWTCompactSerialization"]
         /\ JwtTruth(t, x)["JWTAlgWhitelist"] <=> (t.header.alg = "allowed")
         /\ JwtTruth(t, x)["JWTTypValue"] <=> (t.header.typ \in {"JWT", "JOSE"})
         /\ JwtTruth(t, x)["JWTHeaderClosedSet"] <=> (~t.header.extra)
         /\ JwtTruth(t, x)["JWTSubPresent"] <=> (t.payload.sub \notin {None, Malformed})
         /\ JwtTruth(t, x)["JWTAudPresent"] <=> (Audiences(t.payload.aud) # << >> /\ \A i \in DOMAIN Audiences(t.payload.aud) : Audiences(t.payload.aud)[i] = "set")
         /\ JwtTruth(t, x)["JWTAudSingleRecommended"] <=> (Audiences(t.payload.aud) = <<"set">>)
         /\ JwtTruth(t, x)["JWTExpPresent"] <=> (t.payload.exp # None)
         /\ JwtTruth(t, x)["JWTExpNotInPast"] <=> (t.payload.exp \notin {None, Malformed} /\ t.payload.exp >= x)
         /\ DOMAIN JwtTruth(t, x) = JwtSvidClauses
  <1>1. JwtTruth(t, x)["JWTCompactSerialization"]
    BY DEF JwtTruth
  <1>2. JwtTruth(t, x)["JWTAlgWhitelist"] <=> (t.header.alg = "allowed")
    BY DEF JwtTruth
  <1>3. JwtTruth(t, x)["JWTTypValue"] <=> (t.header.typ \in {"JWT", "JOSE"})
    BY DEF JwtTruth
  <1>4. JwtTruth(t, x)["JWTHeaderClosedSet"] <=> (~t.header.extra)
    BY DEF JwtTruth
  <1>5. JwtTruth(t, x)["JWTSubPresent"] <=> (t.payload.sub \notin {None, Malformed})
    BY DEF JwtTruth
  <1>6. JwtTruth(t, x)["JWTAudPresent"] <=> (Audiences(t.payload.aud) # << >> /\ \A i \in DOMAIN Audiences(t.payload.aud) : Audiences(t.payload.aud)[i] = "set")
    BY DEF JwtTruth
  <1>7. JwtTruth(t, x)["JWTAudSingleRecommended"] <=> (Audiences(t.payload.aud) = <<"set">>)
    BY DEF JwtTruth
  <1>8. JwtTruth(t, x)["JWTExpPresent"] <=> (t.payload.exp # None)
    BY DEF JwtTruth
  <1>9. JwtTruth(t, x)["JWTExpNotInPast"] <=> (t.payload.exp \notin {None, Malformed} /\ t.payload.exp >= x)
    BY DEF JwtTruth
  <1>10. DOMAIN JwtTruth(t, x) = JwtSvidClauses
    BY DEF JwtTruth, JwtSvidClauses
  <1> QED
    BY <1>1, <1>2, <1>3, <1>4, <1>5, <1>6, <1>7, <1>8, <1>9, <1>10

LEMMA WitTruthParts ==
  ASSUME NEW t, NEW x
  PROVE  /\ WitTruth(t, x)["WITCompactSerialization"]
         /\ WitTruth(t, x)["WITKidPresent"] <=> (t.header.kid = "set")
         /\ WitTruth(t, x)["WITTypWitJWT"] <=> (t.header.typ = "wit+jwt")
         /\ WitTruth(t, x)["WITAlgWhitelist"] <=> (t.header.alg = "allowed")
         /\ WitTruth(t, x)["WITHeaderNoAdditional"] <=> (~t.header.extra)
         /\ WitTruth(t, x)["WITSubPresent"] <=> (t.payload.sub \notin {None, Malformed})
         /\ WitTruth(t, x)["WITCnfPresent"] <=> (t.payload.cnf # None)
         /\ WitTruth(t, x)["WITCnfJWK"] <=> (IsJwk(t.payload))
         /\ WitTruth(t, x)["WITCnfJWKPublic"] <=> (IsJwk(t.payload) /\ ~t.payload.cnf.jwk.private)
         /\ WitTruth(t, x)["WITCnfJWKAlg"] <=> (IsJwk(t.payload) /\ t.payload.cnf.jwk.alg = "allowed")
         /\ WitTruth(t, x)["WITExpPresent"] <=> (t.payload.exp # None)
         /\ WitTruth(t, x)["WITExpNotInPast"] <=> (t.payload.exp \notin {None, Malformed} /\ t.payload.exp >= x)
         /\ WitTruth(t, x)["WITNbfNotInFuture"] <=> (t.payload.nbf \notin {None, Malformed} /\ t.payload.nbf <= x)
         /\ WitTruth(t, x)["WITIssNotOIDC"] <=> (t.payload.iss \notin {None, Malformed} /\ ~IsOIDCDiscoverable(t.payload.iss))
         /\ WitTruth(t, x)["WITNoAud"] <=> (t.payload.aud = None)
         /\ DOMAIN WitTruth(t, x) = WitSvidClauses
  <1>1. WitTruth(t, x)["WITCompactSerialization"]
    BY DEF WitTruth, IsJwk, IsOIDCDiscoverable
  <1>2. WitTruth(t, x)["WITKidPresent"] <=> (t.header.kid = "set")
    BY DEF WitTruth, IsJwk, IsOIDCDiscoverable
  <1>3. WitTruth(t, x)["WITTypWitJWT"] <=> (t.header.typ = "wit+jwt")
    BY DEF WitTruth, IsJwk, IsOIDCDiscoverable
  <1>4. WitTruth(t, x)["WITAlgWhitelist"] <=> (t.header.alg = "allowed")
    BY DEF WitTruth, IsJwk, IsOIDCDiscoverable
  <1>5. WitTruth(t, x)["WITHeaderNoAdditional"] <=> (~t.header.extra)
    BY DEF WitTruth, IsJwk, IsOIDCDiscoverable
  <1>6. WitTruth(t, x)["WITSubPresent"] <=> (t.payload.sub \notin {None, Malformed})
    BY DEF WitTruth, IsJwk, IsOIDCDiscoverable
  <1>7. WitTruth(t, x)["WITCnfPresent"] <=> (t.payload.cnf # None)
    BY DEF WitTruth, IsJwk, IsOIDCDiscoverable
  <1>8. WitTruth(t, x)["WITCnfJWK"] <=> (IsJwk(t.payload))
    BY DEF WitTruth, IsJwk, IsOIDCDiscoverable
  <1>9. WitTruth(t, x)["WITCnfJWKPublic"] <=> (IsJwk(t.payload) /\ ~t.payload.cnf.jwk.private)
    BY DEF WitTruth, IsJwk, IsOIDCDiscoverable
  <1>10. WitTruth(t, x)["WITCnfJWKAlg"] <=> (IsJwk(t.payload) /\ t.payload.cnf.jwk.alg = "allowed")
    BY DEF WitTruth, IsJwk, IsOIDCDiscoverable
  <1>11. WitTruth(t, x)["WITExpPresent"] <=> (t.payload.exp # None)
    BY DEF WitTruth, IsJwk, IsOIDCDiscoverable
  <1>12. WitTruth(t, x)["WITExpNotInPast"] <=> (t.payload.exp \notin {None, Malformed} /\ t.payload.exp >= x)
    BY DEF WitTruth, IsJwk, IsOIDCDiscoverable
  <1>13. WitTruth(t, x)["WITNbfNotInFuture"] <=> (t.payload.nbf \notin {None, Malformed} /\ t.payload.nbf <= x)
    BY DEF WitTruth, IsJwk, IsOIDCDiscoverable
  <1>14. WitTruth(t, x)["WITIssNotOIDC"] <=> (t.payload.iss \notin {None, Malformed} /\ ~IsOIDCDiscoverable(t.payload.iss))
    BY DEF WitTruth, IsJwk, IsOIDCDiscoverable
  <1>15. WitTruth(t, x)["WITNoAud"] <=> (t.payload.aud = None)
    BY DEF WitTruth, IsJwk, IsOIDCDiscoverable
  <1>16. DOMAIN WitTruth(t, x) = WitSvidClauses
    BY DEF WitTruth, WitSvidClauses
  <1> QED
    BY <1>1, <1>2, <1>3, <1>4, <1>5, <1>6, <1>7, <1>8, <1>9, <1>10, <1>11, <1>12, <1>13, <1>14, <1>15, <1>16

---------------------------------------------------------------------------
(* The checks, one by one: which clauses each judges, and that it judges    *)
(* as the documents do, an exp at moment e and a nbf at moment n.          *)

NotJudgedPast(i, e) ==
    LET exp == i.token.payload.exp
    IN  exp \notin {None, Malformed} /\ ~IsPast(i.build, exp, e)

NotJudgedFuture(i, n) ==
    LET nbf == i.token.payload.nbf
    IN  nbf \notin {None, Malformed} /\ ~IsFuture(i.build, nbf, n)

\* T has the clauses of JWT-SVID.md that come out true.
JwtTold(i, e, T) ==
    \A c \in JwtSvidClauses :
        c \in T <=> IF c = "JWTExpNotInPast" THEN NotJudgedPast(i, e)
                    ELSE JwtTruth(i.token, e)[c]

\* And of WIT-SVID.md.
WitTold(i, e, n, T) ==
    \A c \in WitSvidClauses :
        c \in T <=> IF c = "WITExpNotInPast" THEN NotJudgedPast(i, e)
                    ELSE IF c = "WITNbfNotInFuture" THEN NotJudgedFuture(i, n)
                    ELSE WitTruth(i.token, e)[c]

JwtHeaderJudged(h) ==
    {"JWTHeaderClosedSet", "JWTAlgWhitelist"} \cup IF h.typ = None THEN {} ELSE {"JWTTypValue"}

SubJudged(clause, p) ==
    {clause} \cup IF p.sub \in {None, Malformed} THEN {} ELSE IdJudged(p.sub)

AudJudged(p) ==
    {"JWTAudPresent"}
    \cup IF ExtractAud(p).values = << >> THEN {} ELSE {"JWTAudSingleRecommended"}

ExpJudged(present, notInPast, p) == {present} \cup IF p.exp = None THEN {} ELSE {notInPast}

WitHeaderJudged ==
    {"WITKidPresent", "WITTypWitJWT", "WITAlgWhitelist", "WITHeaderNoAdditional"}

CnfJudged(p) ==
    {"WITCnfPresent"}
    \cup IF p.cnf = None THEN {}
         ELSE {"WITCnfJWK"} \cup IF IsJwk(p) THEN {"WITCnfJWKPublic", "WITCnfJWKAlg"} ELSE {}

NbfJudged(p) == IF p.nbf = None THEN {} ELSE {"WITNbfNotInFuture"}

IssJudged(p) == IF p.iss = None THEN {} ELSE {"WITIssNotOIDC"}

LEMMA TokenClauses == JwtSvidClauses \subseteq Clause /\ WitSvidClauses \subseteq Clause
  BY DEF Clause

LEMMA JwtHeaderJudges ==
  ASSUME NEW i, NEW e, NEW T, JwtTold(i, e, T)
  PROVE  Judges(CheckJwtHeader(i.token.header), JwtHeaderJudged(i.token.header), T)
  <1> DEFINE h == i.token.header
             j1 == Judge("JWTHeaderClosedSet", ~h.extra, "")
             j2 == Judge("JWTAlgWhitelist", h.alg = "allowed", "")
             j3 == Judge("JWTTypValue", h.typ \in {"JWT", "JOSE"}, "")
  <1>1. ~h.extra <=> "JWTHeaderClosedSet" \in T
    BY JwtTruthParts DEF JwtTold, JwtSvidClauses
  <1>2. h.alg = "allowed" <=> "JWTAlgWhitelist" \in T
    BY JwtTruthParts DEF JwtTold, JwtSvidClauses
  <1>3. h.typ \in {"JWT", "JOSE"} <=> "JWTTypValue" \in T
    BY JwtTruthParts DEF JwtTold, JwtSvidClauses
  <1>4. /\ "JWTHeaderClosedSet" \in Clause /\ "JWTAlgWhitelist" \in Clause
        /\ "JWTTypValue" \in Clause
    BY TokenClauses DEF JwtSvidClauses
  <1>5. Judges(j1, {"JWTHeaderClosedSet"}, T)
    BY <1>1, <1>4, JudgeJudges, Zenon
  <1>6. Judges(j2, {"JWTAlgWhitelist"}, T)
    BY <1>2, <1>4, JudgeJudges, Zenon
  <1>7. Judges(j3, {"JWTTypValue"}, T)
    BY <1>3, <1>4, JudgeJudges, Zenon
  <1>8. CheckJwtHeader(h) = j1 \o j2 \o IF h.typ = None THEN << >> ELSE j3
    BY Zenon DEF CheckJwtHeader
  <1> HIDE DEF j1, j2, j3
  <1>9. CASE h.typ = None
    <2>1. Judges(j1 \o j2 \o << >>, {"JWTHeaderClosedSet"} \cup {"JWTAlgWhitelist"} \cup {}, T)
      BY <1>5, <1>6, NoneJudges, BothJudge
    <2>2. JwtHeaderJudged(h) = {"JWTHeaderClosedSet"} \cup {"JWTAlgWhitelist"} \cup {}
      BY <1>9 DEF JwtHeaderJudged
    <2> QED
      BY <2>1, <2>2, <1>8, <1>9, Zenon
  <1>10. CASE h.typ # None
    <2>1. Judges(j1 \o j2 \o j3,
                 {"JWTHeaderClosedSet"} \cup {"JWTAlgWhitelist"} \cup {"JWTTypValue"}, T)
      BY <1>5, <1>6, <1>7, BothJudge
    <2>2. JwtHeaderJudged(h) = {"JWTHeaderClosedSet"} \cup {"JWTAlgWhitelist"} \cup {"JWTTypValue"}
      BY <1>10 DEF JwtHeaderJudged
    <2> QED
      BY <2>1, <2>2, <1>8, <1>10, Zenon
  <1> QED
    BY <1>9, <1>10

LEMMA SubJudges ==
  ASSUME NEW p, p.sub \in {None, Malformed} \cup IdText, NEW T,
         NEW clause \in Clause \ SpiffeIdClauses,
         clause \in T <=> p.sub \notin {None, Malformed},
         p.sub \notin {None, Malformed} => IdTold(p.sub, T)
  PROVE  Judges(CheckSub(clause, p), SubJudged(clause, p), T)
  <1>1. CASE p.sub \in {None, Malformed}
    <2>1. Judges(Fail(clause, ""), {clause}, T)
      BY <1>1, FailJudges, Zenon
    <2>2. SubJudged(clause, p) = {clause}
      BY <1>1 DEF SubJudged
    <2> QED
      BY <1>1, <2>1, <2>2, Zenon DEF CheckSub
  <1>2. CASE p.sub \notin {None, Malformed}
    <2>1. Judges(Pass(clause, ""), {clause}, T)
      BY <1>2, PassJudges, Zenon
    <2>2. Judges(IdCheck(p.sub), IdJudged(p.sub), T)
      BY <1>2, IdCheckJudges
    <2>3. {clause} \cap IdJudged(p.sub) = {}
      BY DEF IdJudged, SpiffeIdClauses, PathRules, NameRules
    <2>4. Judges(Pass(clause, "") \o IdCheck(p.sub), {clause} \cup IdJudged(p.sub), T)
      BY <2>1, <2>2, <2>3, BothJudge, Zenon
    <2> QED
      BY <1>2, <2>4, Zenon DEF CheckSub, SubJudged
  <1> QED
    BY <1>1, <1>2

\* extractAud finds the audiences, unless there is something else among them.
LEMMA AudienceFacts ==
  ASSUME NEW p, Claims(p)
  PROVE  LET aud == ExtractAud(p)
             auds == Audiences(p.aud)
         IN  /\ (aud.present /\ aud.valid /\ aud.values # << >>)
                  <=> auds # << >> /\ \A k \in DOMAIN auds : auds[k] = "set"
             /\ aud.values # << >> => (Len(aud.values) = 1 <=> auds = <<"set">>)
  <1> DEFINE aud == ExtractAud(p)
             auds == Audiences(p.aud)
             strings == ToSet(p.aud.values) \subseteq {"set"}
  <1>1. CASE p.aud = None
    <2>1. aud = [present |-> FALSE, valid |-> TRUE, values |-> << >>] /\ auds = << >>
      BY <1>1, Zenon DEF ExtractAud, Audiences
    <2>2. ~aud.present /\ aud.values = << >> /\ auds = << >>
      BY <2>1
    <2> HIDE DEF aud, auds
    <2> QED
      BY <2>2 DEF aud, auds
  <1>2. CASE p.aud # None
    <2>1. /\ auds = p.aud.values /\ auds \in Seq({"set", "empty", "bad"})
          /\ p.aud.form \notin {"string", "array"} => auds = << >>
      BY <1>2 DEF Claims, Audiences
    <2>2. strings <=> \A k \in DOMAIN auds : auds[k] = "set"
      BY <2>1 DEF ToSet
    <2>3. /\ strings => aud.values = p.aud.values \/ aud.values = << >>
          /\ ~strings => aud.values = << >>
          /\ p.aud.form \in {"string", "array"} /\ strings =>
               aud.present /\ aud.valid /\ aud.values = p.aud.values
          /\ p.aud.form \notin {"string", "array"} => aud.values = << >>
      <3>1. CASE p.aud.form = "string"
        <4>1. aud = [present |-> TRUE, valid |-> TRUE,
                     values |-> IF strings THEN p.aud.values ELSE << >>]
          BY <1>2, <3>1, Zenon DEF ExtractAud
        <4>2. /\ aud.present /\ aud.valid
              /\ aud.values = IF strings THEN p.aud.values ELSE << >>
          BY <4>1
        <4> HIDE DEF aud, strings
        <4> QED
          BY <3>1, <4>2
      <3>2. CASE p.aud.form = "array"
        <4>1. aud = [present |-> TRUE, valid |-> strings,
                     values |-> IF strings THEN p.aud.values ELSE << >>]
          BY <1>2, <3>2, Zenon DEF ExtractAud
        <4>2. aud.present /\ aud.values = IF strings THEN p.aud.values ELSE << >>
          BY <4>1
        <4>3. ASSUME strings PROVE aud.valid
          <5>1. strings = TRUE
            BY <4>3
          <5> HIDE DEF strings
          <5>2. aud = [present |-> TRUE, valid |-> TRUE,
                       values |-> IF strings THEN p.aud.values ELSE << >>]
            BY <4>1, <5>1, Zenon
          <5> HIDE DEF aud
          <5> QED
            BY <5>2
        <4> HIDE DEF aud, strings
        <4> QED
          BY <3>2, <4>2, <4>3
      <3>3. CASE p.aud.form \notin {"string", "array"}
        <4>1. aud = [present |-> TRUE, valid |-> FALSE, values |-> << >>]
          BY <1>2, <3>3, Zenon DEF ExtractAud
        <4> QED
          BY <3>3, <4>1
      <3> QED
        BY <3>1, <3>2, <3>3
    <2>4. ASSUME strings, Len(auds) = 1
          PROVE  auds = <<"set">>
      <3>1. \A k \in DOMAIN auds : auds[k] = "set"
        BY <2>2, <2>4
      <3>2. auds[1] = "set"
        BY <2>1, <2>4, <3>1
      <3> HIDE DEF auds, strings
      <3> QED
        BY <2>1, <2>4, <3>2
    <2>5. auds = <<"set">> => Len(auds) = 1
      OBVIOUS
    <2> HIDE DEF aud, strings, auds
    <2> QED
      BY <2>1, <2>2, <2>3, <2>4, <2>5 DEF aud, auds
  <1> QED
    BY <1>1, <1>2

LEMMA AudJudges ==
  ASSUME NEW i, Claims(i.token.payload), NEW e, NEW T, JwtTold(i, e, T)
  PROVE  Judges(CheckAud(i.token.payload), AudJudged(i.token.payload), T)
  <1> DEFINE p == i.token.payload
             aud == ExtractAud(p)
             j1 == Judge("JWTAudPresent", aud.present /\ aud.valid /\ aud.values # << >>, "")
             j2 == Judge("JWTAudSingleRecommended", Len(aud.values) = 1, "")
  <1>1. "JWTAudPresent" \in T <=> JwtTruth(i.token, e)["JWTAudPresent"]
    BY DEF JwtTold, JwtSvidClauses
  <1>2. "JWTAudSingleRecommended" \in T <=> JwtTruth(i.token, e)["JWTAudSingleRecommended"]
    BY DEF JwtTold, JwtSvidClauses
  <1>3. (aud.present /\ aud.valid /\ aud.values # << >>) <=> "JWTAudPresent" \in T
    <2>1. JwtTruth(i.token, e)["JWTAudPresent"] <=>
            Audiences(p.aud) # << >> /\ \A k \in DOMAIN Audiences(p.aud) : Audiences(p.aud)[k] = "set"
      BY JwtTruthParts
    <2>2. (aud.present /\ aud.valid /\ aud.values # << >>) <=>
            Audiences(p.aud) # << >> /\ \A k \in DOMAIN Audiences(p.aud) : Audiences(p.aud)[k] = "set"
      BY AudienceFacts
    <2> HIDE DEF aud
    <2> QED
      BY <1>1, <2>1, <2>2, Zenon
  <1>4. aud.values # << >> => (Len(aud.values) = 1 <=> "JWTAudSingleRecommended" \in T)
    <2>1. JwtTruth(i.token, e)["JWTAudSingleRecommended"] <=> Audiences(p.aud) = <<"set">>
      BY JwtTruthParts
    <2>2. aud.values # << >> => (Len(aud.values) = 1 <=> Audiences(p.aud) = <<"set">>)
      BY AudienceFacts
    <2> HIDE DEF aud
    <2> QED
      BY <1>2, <2>1, <2>2, Zenon
  <1>5. "JWTAudPresent" \in Clause /\ "JWTAudSingleRecommended" \in Clause
    BY TokenClauses DEF JwtSvidClauses
  <1>6. Judges(j1, {"JWTAudPresent"}, T)
    BY <1>3, <1>5, JudgeJudges, Zenon
  <1>7. CheckAud(p) = j1 \o IF aud.values = << >> THEN << >> ELSE j2
    BY Zenon DEF CheckAud
  <1>8. CASE aud.values = << >>
    <2> HIDE DEF j1
    <2>1. Judges(j1 \o << >>, {"JWTAudPresent"} \cup {}, T)
      BY <1>6, NoneJudges, BothJudge
    <2>2. AudJudged(p) = {"JWTAudPresent"} \cup {}
      BY <1>8, Zenon DEF AudJudged
    <2> QED
      BY <2>1, <2>2, <1>7, <1>8, Zenon
  <1>9. CASE aud.values # << >>
    <2>1. Judges(j2, {"JWTAudSingleRecommended"}, T)
      BY <1>4, <1>5, <1>9, JudgeJudges, Zenon
    <2> HIDE DEF j1, j2
    <2>2. Judges(j1 \o j2, {"JWTAudPresent"} \cup {"JWTAudSingleRecommended"}, T)
      BY <1>6, <2>1, BothJudge
    <2>3. AudJudged(p) = {"JWTAudPresent"} \cup {"JWTAudSingleRecommended"}
      BY <1>9, Zenon DEF AudJudged
    <2> QED
      BY <2>2, <2>3, <1>7, <1>9, Zenon
  <1> QED
    BY <1>8, <1>9

LEMMA ExpJudges ==
  ASSUME NEW i, NEW e, NEW T,
         NEW present \in Clause, NEW notInPast \in Clause, present # notInPast,
         present \in T <=> i.token.payload.exp # None,
         notInPast \in T <=> NotJudgedPast(i, e)
  PROVE  Judges(CheckExp(present, notInPast, i.token.payload, i.build, e),
                ExpJudged(present, notInPast, i.token.payload), T)
  <1> DEFINE p == i.token.payload
             j1 == Judge(present, p.exp # None, "")
             j2 == Judge(notInPast, p.exp # Malformed /\ ~IsPast(i.build, p.exp, e), "")
  <1>1. Judges(j1, {present}, T)
    BY JudgeJudges, Zenon
  <1>2. CheckExp(present, notInPast, p, i.build, e)
          = j1 \o IF p.exp = None THEN << >> ELSE j2
    BY Zenon DEF CheckExp
  <1>3. CASE p.exp = None
    <2> HIDE DEF j1
    <2>1. Judges(j1 \o << >>, {present} \cup {}, T)
      BY <1>1, NoneJudges, BothJudge
    <2> QED
      BY <2>1, <1>2, <1>3, Zenon DEF ExpJudged
  <1>4. CASE p.exp # None
    <2>1. (p.exp # Malformed /\ ~IsPast(i.build, p.exp, e)) <=> notInPast \in T
      BY <1>4, Zenon DEF NotJudgedPast
    <2>2. Judges(j2, {notInPast}, T)
      BY <2>1, JudgeJudges, Zenon
    <2> HIDE DEF j1, j2
    <2>3. {present} \cap {notInPast} = {}
      OBVIOUS
    <2>4. Judges(j1 \o j2, {present} \cup {notInPast}, T)
      BY <1>1, <2>2, <2>3, BothJudge, Zenon
    <2> QED
      BY <2>4, <1>2, <1>4, Zenon DEF ExpJudged
  <1> QED
    BY <1>3, <1>4

LEMMA WitHeaderJudges ==
  ASSUME NEW i, NEW e, NEW n, NEW T, WitTold(i, e, n, T)
  PROVE  Judges(CheckWitHeader(i.token.header), WitHeaderJudged, T)
  <1> DEFINE h == i.token.header
             j1 == Judge("WITKidPresent", h.kid = "set", "")
             j2 == Judge("WITTypWitJWT", h.typ = "wit+jwt", "")
             j3 == Judge("WITAlgWhitelist", h.alg = "allowed", "")
             j4 == Judge("WITHeaderNoAdditional", ~h.extra, "")
  <1>1. h.kid = "set" <=> "WITKidPresent" \in T
    BY WitTruthParts DEF WitTold, WitSvidClauses
  <1>2. h.typ = "wit+jwt" <=> "WITTypWitJWT" \in T
    BY WitTruthParts DEF WitTold, WitSvidClauses
  <1>3. h.alg = "allowed" <=> "WITAlgWhitelist" \in T
    BY WitTruthParts DEF WitTold, WitSvidClauses
  <1>4. ~h.extra <=> "WITHeaderNoAdditional" \in T
    BY WitTruthParts DEF WitTold, WitSvidClauses
  <1>5. /\ "WITKidPresent" \in Clause /\ "WITTypWitJWT" \in Clause
        /\ "WITAlgWhitelist" \in Clause /\ "WITHeaderNoAdditional" \in Clause
    BY TokenClauses DEF WitSvidClauses
  <1>6. Judges(j1, {"WITKidPresent"}, T)
    BY <1>1, <1>5, JudgeJudges, Zenon
  <1>7. Judges(j2, {"WITTypWitJWT"}, T)
    BY <1>2, <1>5, JudgeJudges, Zenon
  <1>8. Judges(j3, {"WITAlgWhitelist"}, T)
    BY <1>3, <1>5, JudgeJudges, Zenon
  <1>9. Judges(j4, {"WITHeaderNoAdditional"}, T)
    BY <1>4, <1>5, JudgeJudges, Zenon
  <1>10. CheckWitHeader(h) = j1 \o j2 \o j3 \o j4
    BY Zenon DEF CheckWitHeader
  <1> HIDE DEF j1, j2, j3, j4
  <1>11. Judges(j1 \o j2, {"WITKidPresent"} \cup {"WITTypWitJWT"}, T)
    BY <1>6, <1>7, BothJudge
  <1>12. Judges(j1 \o j2 \o j3,
                {"WITKidPresent"} \cup {"WITTypWitJWT"} \cup {"WITAlgWhitelist"}, T)
    BY <1>8, <1>11, BothJudge
  <1>13. Judges(j1 \o j2 \o j3 \o j4,
                {"WITKidPresent"} \cup {"WITTypWitJWT"} \cup {"WITAlgWhitelist"}
                  \cup {"WITHeaderNoAdditional"}, T)
    BY <1>9, <1>12, BothJudge
  <1>14. WitHeaderJudged = {"WITKidPresent"} \cup {"WITTypWitJWT"} \cup {"WITAlgWhitelist"}
                             \cup {"WITHeaderNoAdditional"}
    BY DEF WitHeaderJudged
  <1> QED
    BY <1>10, <1>13, <1>14, Zenon

LEMMA JwkJudges ==
  ASSUME NEW i, NEW e, NEW n, NEW T, WitTold(i, e, n, T), IsJwk(i.token.payload)
  PROVE  Judges(CheckJwk(i.token.payload.cnf.jwk), {"WITCnfJWKPublic", "WITCnfJWKAlg"}, T)
  <1> DEFINE jwk == i.token.payload.cnf.jwk
             j1 == Judge("WITCnfJWKPublic", ~jwk.private, "")
             j2 == Judge("WITCnfJWKAlg", jwk.alg = "allowed", "")
  <1>1. ~jwk.private <=> "WITCnfJWKPublic" \in T
    BY WitTruthParts DEF WitTold, WitSvidClauses
  <1>2. jwk.alg = "allowed" <=> "WITCnfJWKAlg" \in T
    BY WitTruthParts DEF WitTold, WitSvidClauses
  <1>3. "WITCnfJWKPublic" \in Clause /\ "WITCnfJWKAlg" \in Clause
    BY TokenClauses DEF WitSvidClauses
  <1>4. Judges(j1, {"WITCnfJWKPublic"}, T)
    BY <1>1, <1>3, JudgeJudges, Zenon
  <1>5. Judges(j2, {"WITCnfJWKAlg"}, T)
    BY <1>2, <1>3, JudgeJudges, Zenon
  <1>6. CheckJwk(jwk) = j1 \o j2
    BY Zenon DEF CheckJwk
  <1> HIDE DEF j1, j2
  <1>7. Judges(j1 \o j2, {"WITCnfJWKPublic"} \cup {"WITCnfJWKAlg"}, T)
    BY <1>4, <1>5, BothJudge
  <1>8. {"WITCnfJWKPublic", "WITCnfJWKAlg"} = {"WITCnfJWKPublic"} \cup {"WITCnfJWKAlg"}
    OBVIOUS
  <1> QED
    BY <1>6, <1>7, <1>8, Zenon

LEMMA CnfJudges ==
  ASSUME NEW i, NEW e, NEW n, NEW T, WitTold(i, e, n, T)
  PROVE  Judges(CheckCnf(i.token.payload), CnfJudged(i.token.payload), T)
  <1> DEFINE p == i.token.payload
             isJwk == p.cnf # Malformed /\ p.cnf.jwk \notin {None, Malformed}
             j1 == Pass("WITCnfPresent", "")
             j2 == Judge("WITCnfJWK", isJwk, "")
             j3 == CheckJwk(p.cnf.jwk)
  <1>1. p.cnf # None <=> "WITCnfPresent" \in T
    BY WitTruthParts DEF WitTold, WitSvidClauses
  <1>2. IsJwk(p) <=> "WITCnfJWK" \in T
    BY WitTruthParts DEF WitTold, WitSvidClauses
  <1>3. "WITCnfPresent" \in Clause /\ "WITCnfJWK" \in Clause
    BY TokenClauses DEF WitSvidClauses
  <1>4. CASE p.cnf = None
    <2>1. Judges(Fail("WITCnfPresent", ""), {"WITCnfPresent"}, T)
      BY <1>1, <1>3, <1>4, FailJudges, Zenon
    <2>2. CnfJudged(p) = {"WITCnfPresent"}
      BY <1>4 DEF CnfJudged
    <2> QED
      BY <1>4, <2>1, <2>2, Zenon DEF CheckCnf
  <1>5. CASE p.cnf # None
    <2>1. isJwk <=> IsJwk(p)
      BY <1>5 DEF IsJwk
    <2>2. Judges(j1, {"WITCnfPresent"}, T)
      BY <1>1, <1>3, <1>5, PassJudges, Zenon
    <2>3. Judges(j2, {"WITCnfJWK"}, T)
      BY <1>2, <1>3, <2>1, JudgeJudges, Zenon
    <2>4. CheckCnf(p) = j1 \o j2 \o IF isJwk THEN j3 ELSE << >>
      BY <1>5, Zenon DEF CheckCnf
    <2>5. IsJwk(p) => Judges(j3, {"WITCnfJWKPublic", "WITCnfJWKAlg"}, T)
      BY JwkJudges
    <2> HIDE DEF j1, j2, j3, isJwk
    <2>6. Judges(j1 \o j2, {"WITCnfPresent"} \cup {"WITCnfJWK"}, T)
      BY <2>2, <2>3, BothJudge
    <2>7. CASE IsJwk(p)
      <3>1. Judges(j1 \o j2 \o j3, {"WITCnfPresent"} \cup {"WITCnfJWK"}
                                     \cup {"WITCnfJWKPublic", "WITCnfJWKAlg"}, T)
        BY <2>5, <2>6, <2>7, BothJudge
      <3>2. CnfJudged(p) = {"WITCnfPresent"} \cup {"WITCnfJWK"}
                             \cup {"WITCnfJWKPublic", "WITCnfJWKAlg"}
        BY <1>5, <2>7 DEF CnfJudged
      <3> QED
        BY <2>1, <2>4, <2>7, <3>1, <3>2, Zenon
    <2>8. CASE ~IsJwk(p)
      <3>1. Judges(j1 \o j2 \o << >>, {"WITCnfPresent"} \cup {"WITCnfJWK"} \cup {}, T)
        BY <2>6, NoneJudges, BothJudge
      <3>2. CnfJudged(p) = {"WITCnfPresent"} \cup {"WITCnfJWK"} \cup {}
        BY <1>5, <2>8 DEF CnfJudged
      <3> QED
        BY <2>1, <2>4, <2>8, <3>1, <3>2, Zenon
    <2> QED
      BY <2>7, <2>8
  <1> QED
    BY <1>4, <1>5

LEMMA NbfJudges ==
  ASSUME NEW i, NEW e, NEW n, NEW T, WitTold(i, e, n, T)
  PROVE  Judges(CheckNbf(i.token.payload, i.build, n), NbfJudged(i.token.payload), T)
  <1> DEFINE p == i.token.payload
  <1>1. CASE p.nbf = None
    <2>1. NbfJudged(p) = {}
      BY <1>1, Zenon DEF NbfJudged
    <2> QED
      BY <1>1, <2>1, NoneJudges, Zenon DEF CheckNbf
  <1>2. CASE p.nbf # None
    <2>1. "WITNbfNotInFuture" \in Clause
      BY TokenClauses DEF WitSvidClauses
    <2>2. "WITNbfNotInFuture" \in T <=> NotJudgedFuture(i, n)
      BY DEF WitTold, WitSvidClauses
    <2>3. (p.nbf # Malformed /\ ~IsFuture(i.build, p.nbf, n)) <=> "WITNbfNotInFuture" \in T
      BY <1>2, <2>2, Zenon DEF NotJudgedFuture
    <2>4. NbfJudged(p) = {"WITNbfNotInFuture"}
      BY <1>2, Zenon DEF NbfJudged
    <2> QED
      BY <1>2, <2>1, <2>3, <2>4, JudgeJudges, Zenon DEF CheckNbf
  <1> QED
    BY <1>1, <1>2

LEMMA IssJudges ==
  ASSUME NEW i, NEW e, NEW n, NEW T, WitTold(i, e, n, T)
  PROVE  Judges(CheckIss(i.token.payload), IssJudged(i.token.payload), T)
  <1> DEFINE p == i.token.payload
  <1>1. CASE p.iss = None
    <2>1. IssJudged(p) = {}
      BY <1>1, Zenon DEF IssJudged
    <2> QED
      BY <1>1, <2>1, NoneJudges, Zenon DEF CheckIss
  <1>2. CASE p.iss # None
    <2>1. "WITIssNotOIDC" \in Clause
      BY TokenClauses DEF WitSvidClauses
    <2>2. "WITIssNotOIDC" \in T <=> WitTruth(i.token, e)["WITIssNotOIDC"]
      BY DEF WitTold, WitSvidClauses
    <2>3. (p.iss # Malformed /\ ~IsOIDCDiscoverable(p.iss)) <=> "WITIssNotOIDC" \in T
      BY <1>2, <2>2, WitTruthParts
    <2>4. IssJudged(p) = {"WITIssNotOIDC"}
      BY <1>2, Zenon DEF IssJudged
    <2> QED
      BY <1>2, <2>1, <2>3, <2>4, JudgeJudges, Zenon DEF CheckIss
  <1> QED
    BY <1>1, <1>2

LEMMA NoAudJudges ==
  ASSUME NEW i, NEW e, NEW n, NEW T, WitTold(i, e, n, T)
  PROVE  Judges(CheckNoAud(i.token.payload), {"WITNoAud"}, T)
  <1>1. "WITNoAud" \in Clause
    BY TokenClauses DEF WitSvidClauses
  <1>2. i.token.payload.aud = None <=> "WITNoAud" \in T
    BY WitTruthParts DEF WitTold, WitSvidClauses
  <1> QED
    BY <1>1, <1>2, JudgeJudges, Zenon DEF CheckNoAud

---------------------------------------------------------------------------
(* A whole sweep: what it has judged before each step, and what the exp it  *)
(* reads at moment e and the nbf it reads at moment n make of the clauses.   *)

CompactOf(i) ==
    IF i.cmd = "jwt-svid" THEN "JWTCompactSerialization" ELSE "WITCompactSerialization"

HasId(i) == i.token.payload.sub \notin {None, Malformed}

JwtIn(i, e) ==
    {c \in JwtSvidClauses : IF c = "JWTExpNotInPast" THEN NotJudgedPast(i, e)
                            ELSE JwtTruth(i.token, e)[c]}

WitIn(i, e, n) ==
    {c \in WitSvidClauses : IF c = "WITExpNotInPast" THEN NotJudgedPast(i, e)
                            ELSE IF c = "WITNbfNotInFuture" THEN NotJudgedFuture(i, n)
                            ELSE WitTruth(i.token, e)[c]}

OwnTold(i, e, n) == IF i.cmd = "jwt-svid" THEN JwtIn(i, e) ELSE WitIn(i, e, n)

ToldAt(i, e, n) ==
    IF ~Decodes(i.token) THEN {}
    ELSE OwnTold(i, e, n) \cup IF HasId(i) THEN IdTrue(i.token.payload.sub) ELSE {}

LEMMA DocumentsApart ==
  /\ JwtSvidClauses \cap SpiffeIdClauses = {}
  /\ WitSvidClauses \cap SpiffeIdClauses = {}
  BY DEF JwtSvidClauses, WitSvidClauses, SpiffeIdClauses

LEMMA IdTrueAreIdClauses ==
  ASSUME NEW t
  PROVE  IdTrue(t) \subseteq SpiffeIdClauses
  BY DEF IdTrue

\* The clauses of either document are in or out for its own reason.
LEMMA ToldIs ==
  ASSUME NEW i, NEW e, NEW n, Decodes(i.token)
  PROVE  /\ i.cmd = "jwt-svid" => JwtTold(i, e, ToldAt(i, e, n))
         /\ i.cmd # "jwt-svid" => WitTold(i, e, n, ToldAt(i, e, n))
         /\ HasId(i) => IdTold(i.token.payload.sub, ToldAt(i, e, n))
  <1> DEFINE T == ToldAt(i, e, n)
             ids == IF HasId(i) THEN IdTrue(i.token.payload.sub) ELSE {}
  <1>1. T = OwnTold(i, e, n) \cup ids
    BY DEF ToldAt
  <1>2. ids \subseteq SpiffeIdClauses
    BY IdTrueAreIdClauses
  <1>3. JwtIn(i, e) \subseteq JwtSvidClauses /\ WitIn(i, e, n) \subseteq WitSvidClauses
    BY DEF JwtIn, WitIn
  <1>4. ASSUME i.cmd = "jwt-svid", NEW c \in JwtSvidClauses
        PROVE  c \in T <=> c \in JwtIn(i, e)
    <2>1. OwnTold(i, e, n) = JwtIn(i, e)
      BY <1>4, Zenon DEF OwnTold
    <2>2. c \notin ids
      BY <1>2, <1>4, DocumentsApart
    <2> HIDE DEF T, ids
    <2> QED
      BY <1>1, <2>1, <2>2
  <1>5. ASSUME i.cmd # "jwt-svid", NEW c \in WitSvidClauses
        PROVE  c \in T <=> c \in WitIn(i, e, n)
    <2>1. OwnTold(i, e, n) = WitIn(i, e, n)
      BY <1>5, Zenon DEF OwnTold
    <2>2. c \notin ids
      BY <1>2, <1>5, DocumentsApart
    <2> HIDE DEF T, ids
    <2> QED
      BY <1>1, <2>1, <2>2
  <1>6. ASSUME HasId(i), NEW c \in SpiffeIdClauses
        PROVE  c \in T <=> c \in IdTrue(i.token.payload.sub)
    <2>1. ids = IdTrue(i.token.payload.sub)
      BY <1>6, Zenon
    <2>2. OwnTold(i, e, n) = JwtIn(i, e) \/ OwnTold(i, e, n) = WitIn(i, e, n)
      BY Zenon DEF OwnTold
    <2>3. c \notin OwnTold(i, e, n)
      BY <1>3, <1>6, <2>2, DocumentsApart
    <2> HIDE DEF T, ids
    <2> QED
      BY <1>1, <2>1, <2>3
  <1> HIDE DEF T, ids
  <1>7. ASSUME i.cmd = "jwt-svid"
        PROVE  JwtTold(i, e, T)
    <2>1. ASSUME NEW c \in JwtSvidClauses
          PROVE  c \in T <=> IF c = "JWTExpNotInPast" THEN NotJudgedPast(i, e)
                             ELSE JwtTruth(i.token, e)[c]
      BY <1>4, <1>7, <2>1, Zenon DEF JwtIn
    <2> QED
      BY <2>1, Zenon DEF JwtTold
  <1>8. ASSUME i.cmd # "jwt-svid"
        PROVE  WitTold(i, e, n, T)
    <2>1. ASSUME NEW c \in WitSvidClauses
          PROVE  c \in T <=> IF c = "WITExpNotInPast" THEN NotJudgedPast(i, e)
                             ELSE IF c = "WITNbfNotInFuture" THEN NotJudgedFuture(i, n)
                             ELSE WitTruth(i.token, e)[c]
      BY <1>5, <1>8, <2>1, Zenon DEF WitIn
    <2> QED
      BY <2>1, Zenon DEF WitTold
  <1>9. HasId(i) => IdTold(i.token.payload.sub, T)
    BY <1>6, IdTrueIsTold
  <1> QED
    BY <1>7, <1>8, <1>9 DEF T

Dated == {"JWTExpNotInPast", "WITExpNotInPast", "WITNbfNotInFuture"}

\* Nothing but exp and nbf depends on the moment.
LEMMA TimelessJwt ==
  ASSUME NEW t, NEW x, NEW y, NEW c \in JwtSvidClauses \ Dated
  PROVE  JwtTruth(t, x)[c] <=> JwtTruth(t, y)[c]
  BY JwtTruthParts DEF JwtSvidClauses, Dated

LEMMA TimelessWit ==
  ASSUME NEW t, NEW x, NEW y, NEW c \in WitSvidClauses \ Dated
  PROVE  WitTruth(t, x)[c] <=> WitTruth(t, y)[c]
  BY WitTruthParts DEF WitSvidClauses, Dated

\* Reading a date later changes what is told of that date only.
LEMMA ToldLater ==
  ASSUME NEW i, NEW e, NEW n, NEW f, NEW m, NEW c,
         c \notin Dated \/ (e = f /\ c # "WITNbfNotInFuture")
  PROVE  c \in ToldAt(i, e, n) <=> c \in ToldAt(i, f, m)
  <1>1. CASE ~Decodes(i.token)
    BY <1>1 DEF ToldAt
  <1>2. CASE Decodes(i.token)
    <2> DEFINE ids == IF HasId(i) THEN IdTrue(i.token.payload.sub) ELSE {}
    <2>1. /\ ToldAt(i, e, n) = OwnTold(i, e, n) \cup ids
          /\ ToldAt(i, f, m) = OwnTold(i, f, m) \cup ids
      BY <1>2, Zenon DEF ToldAt
    <2>2. c \in JwtIn(i, e) <=> c \in JwtIn(i, f)
      <3>1. CASE e = f
        BY <3>1, Zenon
      <3>2. CASE c \notin JwtSvidClauses
        BY <3>2 DEF JwtIn
      <3>3. CASE c \in JwtSvidClauses \ Dated
        <4>1. c # "JWTExpNotInPast"
          BY <3>3 DEF Dated
        <4> QED
          BY <3>3, <4>1, TimelessJwt, Zenon DEF JwtIn
      <3> QED
        BY <3>1, <3>2, <3>3
    <2>3. c \in WitIn(i, e, n) <=> c \in WitIn(i, f, m)
      <3>1. CASE e = f /\ c # "WITNbfNotInFuture"
        BY <3>1, Zenon DEF WitIn
      <3>2. CASE c \notin WitSvidClauses
        BY <3>2 DEF WitIn
      <3>3. CASE c \in WitSvidClauses \ Dated
        <4>1. c # "WITExpNotInPast" /\ c # "WITNbfNotInFuture"
          BY <3>3 DEF Dated
        <4> QED
          BY <3>3, <4>1, TimelessWit, Zenon DEF WitIn
      <3> QED
        BY <3>1, <3>2, <3>3
    <2>4. c \in OwnTold(i, e, n) <=> c \in OwnTold(i, f, m)
      BY <2>2, <2>3, Zenon DEF OwnTold
    <2> HIDE DEF ids
    <2> QED
      BY <2>1, <2>4, Zenon
  <1> QED
    BY <1>1, <1>2

LEMMA JudgesAgree ==
  ASSUME NEW r, NEW D, NEW T, NEW U, Judges(r, D, T),
         \A c \in D : c \in T <=> c \in U
  PROVE  Judges(r, D, U)
  <1>1. ASSUME NEW k \in DOMAIN r
        PROVE  r[k] = Verdict(r[k].clause, r[k].clause \in U, NoTag)
    <2>1. r[k].clause \in D /\ r[k] = Verdict(r[k].clause, r[k].clause \in T, NoTag)
      BY DEF Judges
    <2>2. r[k].clause \in T <=> r[k].clause \in U
      BY <2>1
    <2> QED
      BY <2>1, <2>2, Zenon DEF Verdict
  <1> QED
    BY <1>1 DEF Judges

JwtHeaderDone(i) == {"JWTCompactSerialization"} \cup JwtHeaderJudged(i.token.header)

JwtSubDone(i) == JwtHeaderDone(i) \cup SubJudged("JWTSubPresent", i.token.payload)

JwtAudDone(i) == JwtSubDone(i) \cup AudJudged(i.token.payload)

JwtDone(i) == JwtAudDone(i) \cup ExpJudged("JWTExpPresent", "JWTExpNotInPast", i.token.payload)

WitHeaderDone(i) == {"WITCompactSerialization"} \cup WitHeaderJudged

WitSubDone(i) == WitHeaderDone(i) \cup SubJudged("WITSubPresent", i.token.payload)

WitCnfDone(i) == WitSubDone(i) \cup CnfJudged(i.token.payload)

WitExpDone(i) == WitCnfDone(i) \cup ExpJudged("WITExpPresent", "WITExpNotInPast", i.token.payload)

WitNbfDone(i) == WitExpDone(i) \cup NbfJudged(i.token.payload)

WitIssDone(i) == WitNbfDone(i) \cup IssJudged(i.token.payload)

WitDone(i) == WitIssDone(i) \cup {"WITNoAud"}

\* What the report of the whole command is about.
Judged(i) ==
    IF ~Decodes(i.token) THEN {CompactOf(i)}
    ELSE IF i.cmd = "jwt-svid" THEN JwtDone(i) ELSE WitDone(i)

JwtSteps == {"jwtSub", "jwtAud", "jwtExp"}

WitSteps == {"witSub", "witCnf", "witExp", "witNbf", "witIss", "witAud"}

\* What the report is about before a step.
SoFar(i, step) ==
    CASE step = "header" -> {CompactOf(i)}
      [] step = "jwtSub" -> JwtHeaderDone(i)
      [] step = "jwtAud" -> JwtSubDone(i)
      [] step = "jwtExp" -> JwtAudDone(i)
      [] step = "witSub" -> WitHeaderDone(i)
      [] step = "witCnf" -> WitSubDone(i)
      [] step = "witExp" -> WitCnfDone(i)
      [] step = "witNbf" -> WitExpDone(i)
      [] step = "witIss" -> WitNbfDone(i)
      [] step = "witAud" -> WitIssDone(i)
      [] step \in {"emit", "done"} -> Judged(i)

LEMMA SoFarIs ==
  ASSUME NEW i
  PROVE  /\ SoFar(i, "header") = {CompactOf(i)}
         /\ SoFar(i, "jwtSub") = JwtHeaderDone(i)
         /\ SoFar(i, "jwtAud") = JwtSubDone(i)
         /\ SoFar(i, "jwtExp") = JwtAudDone(i)
         /\ SoFar(i, "witSub") = WitHeaderDone(i)
         /\ SoFar(i, "witCnf") = WitSubDone(i)
         /\ SoFar(i, "witExp") = WitCnfDone(i)
         /\ SoFar(i, "witNbf") = WitExpDone(i)
         /\ SoFar(i, "witIss") = WitNbfDone(i)
         /\ SoFar(i, "witAud") = WitIssDone(i)
         /\ SoFar(i, "emit") = Judged(i)
         /\ SoFar(i, "done") = Judged(i)
  BY DEF SoFar

LEMMA IdJudgedAreIdClauses ==
  ASSUME NEW t
  PROVE  IdJudged(t) \subseteq SpiffeIdClauses
  BY DEF IdJudged, SpiffeIdClauses, PathRules, NameRules

\* Which clauses a step may judge; no two steps have one in common.
LEMMA JwtParts ==
  ASSUME NEW i
  PROVE  /\ JwtHeaderDone(i) \subseteq {"JWTCompactSerialization", "JWTHeaderClosedSet",
                                        "JWTAlgWhitelist", "JWTTypValue"}
         /\ SubJudged("JWTSubPresent", i.token.payload)
              \subseteq {"JWTSubPresent"} \cup SpiffeIdClauses
         /\ AudJudged(i.token.payload) \subseteq {"JWTAudPresent", "JWTAudSingleRecommended"}
         /\ ExpJudged("JWTExpPresent", "JWTExpNotInPast", i.token.payload)
              \subseteq {"JWTExpPresent", "JWTExpNotInPast"}
  <1>1. SubJudged("JWTSubPresent", i.token.payload) \subseteq {"JWTSubPresent"} \cup SpiffeIdClauses
    BY IdJudgedAreIdClauses DEF SubJudged
  <1> QED
    BY <1>1 DEF JwtHeaderDone, JwtHeaderJudged, AudJudged, ExpJudged

LEMMA WitParts ==
  ASSUME NEW i
  PROVE  /\ WitHeaderDone(i) \subseteq {"WITCompactSerialization", "WITKidPresent",
                              "WITTypWitJWT", "WITAlgWhitelist", "WITHeaderNoAdditional"}
         /\ SubJudged("WITSubPresent", i.token.payload)
              \subseteq {"WITSubPresent"} \cup SpiffeIdClauses
         /\ CnfJudged(i.token.payload)
              \subseteq {"WITCnfPresent", "WITCnfJWK", "WITCnfJWKPublic", "WITCnfJWKAlg"}
         /\ ExpJudged("WITExpPresent", "WITExpNotInPast", i.token.payload)
              \subseteq {"WITExpPresent", "WITExpNotInPast"}
         /\ NbfJudged(i.token.payload) \subseteq {"WITNbfNotInFuture"}
         /\ IssJudged(i.token.payload) \subseteq {"WITIssNotOIDC"}
  <1>1. SubJudged("WITSubPresent", i.token.payload) \subseteq {"WITSubPresent"} \cup SpiffeIdClauses
    BY IdJudgedAreIdClauses DEF SubJudged
  <1> QED
    BY <1>1 DEF WitHeaderDone, WitHeaderJudged, CnfJudged, ExpJudged, NbfJudged, IssJudged

LEMMA JwtApart ==
  ASSUME NEW i
  PROVE  /\ {"JWTCompactSerialization"} \cap JwtHeaderJudged(i.token.header) = {}
         /\ JwtHeaderDone(i) \cap SubJudged("JWTSubPresent", i.token.payload) = {}
         /\ JwtSubDone(i) \cap AudJudged(i.token.payload) = {}
         /\ JwtAudDone(i)
              \cap ExpJudged("JWTExpPresent", "JWTExpNotInPast", i.token.payload) = {}
         /\ JwtAudDone(i) \cap Dated = {}
  <1>1. {"JWTCompactSerialization"} \cap JwtHeaderJudged(i.token.header) = {}
    BY DEF JwtHeaderJudged
  <1>2. JwtHeaderDone(i) \cap SubJudged("JWTSubPresent", i.token.payload) = {}
    BY JwtParts DEF SpiffeIdClauses
  <1>3. JwtSubDone(i) \subseteq {"JWTCompactSerialization", "JWTHeaderClosedSet",
                 "JWTAlgWhitelist", "JWTTypValue", "JWTSubPresent"} \cup SpiffeIdClauses
    BY JwtParts DEF JwtSubDone
  <1>4. JwtSubDone(i) \cap AudJudged(i.token.payload) = {}
    BY <1>3, JwtParts DEF SpiffeIdClauses
  <1>5. JwtAudDone(i) \subseteq {"JWTCompactSerialization", "JWTHeaderClosedSet",
                 "JWTAlgWhitelist", "JWTTypValue", "JWTSubPresent", "JWTAudPresent",
                 "JWTAudSingleRecommended"} \cup SpiffeIdClauses
    BY <1>3, JwtParts DEF JwtAudDone
  <1>6. JwtAudDone(i) \cap ExpJudged("JWTExpPresent", "JWTExpNotInPast", i.token.payload) = {}
    BY <1>5, JwtParts DEF SpiffeIdClauses
  <1>7. JwtAudDone(i) \cap Dated = {}
    BY <1>5 DEF SpiffeIdClauses, Dated
  <1> QED
    BY <1>1, <1>2, <1>4, <1>6, <1>7

LEMMA WitApart ==
  ASSUME NEW i
  PROVE  /\ {"WITCompactSerialization"} \cap WitHeaderJudged = {}
         /\ WitHeaderDone(i) \cap SubJudged("WITSubPresent", i.token.payload) = {}
         /\ WitSubDone(i) \cap CnfJudged(i.token.payload) = {}
         /\ WitCnfDone(i)
              \cap ExpJudged("WITExpPresent", "WITExpNotInPast", i.token.payload) = {}
         /\ WitCnfDone(i) \cap Dated = {}
         /\ WitExpDone(i) \cap NbfJudged(i.token.payload) = {}
         /\ "WITNbfNotInFuture" \notin WitExpDone(i)
         /\ WitNbfDone(i) \cap IssJudged(i.token.payload) = {}
         /\ WitIssDone(i) \cap {"WITNoAud"} = {}
  <1> DEFINE S1 == {"WITCompactSerialization", "WITKidPresent", "WITTypWitJWT",
                    "WITAlgWhitelist", "WITHeaderNoAdditional", "WITSubPresent"}
                   \cup SpiffeIdClauses
             S2 == {"WITCnfPresent", "WITCnfJWK", "WITCnfJWKPublic", "WITCnfJWKAlg"}
             S3 == {"WITExpPresent", "WITExpNotInPast"}
  <1>1. {"WITCompactSerialization"} \cap WitHeaderJudged = {}
    BY DEF WitHeaderJudged
  <1>2. WitHeaderDone(i) \cap SubJudged("WITSubPresent", i.token.payload) = {}
    BY WitParts DEF SpiffeIdClauses
  <1>3. WitSubDone(i) \subseteq S1
    BY WitParts DEF WitSubDone
  <1>4. WitCnfDone(i) \subseteq S1 \cup S2
    BY <1>3, WitParts DEF WitCnfDone
  <1>5. WitExpDone(i) \subseteq S1 \cup S2 \cup S3
    BY <1>4, WitParts DEF WitExpDone
  <1>6. WitNbfDone(i) \subseteq S1 \cup S2 \cup S3 \cup {"WITNbfNotInFuture"}
    BY <1>5, WitParts DEF WitNbfDone
  <1>7. WitIssDone(i) \subseteq S1 \cup S2 \cup S3 \cup {"WITNbfNotInFuture", "WITIssNotOIDC"}
    BY <1>6, WitParts DEF WitIssDone
  <1>8. WitSubDone(i) \cap CnfJudged(i.token.payload) = {}
    BY <1>3, WitParts DEF SpiffeIdClauses
  <1>9. WitCnfDone(i) \cap ExpJudged("WITExpPresent", "WITExpNotInPast", i.token.payload) = {}
    BY <1>4, WitParts DEF SpiffeIdClauses
  <1>10. WitCnfDone(i) \cap Dated = {}
    BY <1>4 DEF SpiffeIdClauses, Dated
  <1>11. "WITNbfNotInFuture" \notin WitExpDone(i)
    BY <1>5 DEF SpiffeIdClauses
  <1>12. WitExpDone(i) \cap NbfJudged(i.token.payload) = {}
    BY <1>11, WitParts
  <1>13. WitNbfDone(i) \cap IssJudged(i.token.payload) = {}
    BY <1>6, WitParts DEF SpiffeIdClauses
  <1>14. WitIssDone(i) \cap {"WITNoAud"} = {}
    BY <1>7 DEF SpiffeIdClauses
  <1> QED
    BY <1>1, <1>2, <1>8, <1>9, <1>10, <1>11, <1>12, <1>13, <1>14

---------------------------------------------------------------------------
(* The inductive invariant: at every step there are two moments of the run  *)
(* for which the report is exactly what the clauses judged so far deserve.   *)

Steps == {"header"} \cup JwtSteps \cup WitSteps \cup {"emit", "done"}

NotStarted == pc = "args" /\ report = << >> /\ exit = -1

\* There is no report without a token.
Refused == pc = "done" /\ ~inv.usable /\ report = << >> /\ exit = 2

Stage ==
    /\ pc \in Steps
    /\ inv.usable
    /\ pc \notin {"emit", "done"} => Decodes(Token)
    /\ pc \in JwtSteps => inv.cmd = "jwt-svid"
    /\ pc \in WitSteps => inv.cmd # "jwt-svid"
    /\ exit = IF pc = "done" THEN EmitOf(report, inv.format, inv.writable) ELSE -1

Judging ==
    /\ Stage
    /\ \E e, n \in Lifetime : Judges(report, SoFar(inv, pc), ToldAt(inv, e, n))

IInv ==
    /\ inv \in Invocations
    /\ began \in StartTimes
    /\ clock \in began..MaxClock
    /\ NotStarted \/ Refused \/ Judging

LEMMA Moments ==
  ASSUME IInv
  PROVE  /\ began \in Nat /\ clock \in Nat /\ began > 2 * Leeway
         /\ began \in Lifetime /\ clock \in Lifetime /\ Lifetime \subseteq Nat
         /\ \A x \in Lifetime : x > 2 * Leeway
  <1>1. began \in Nat /\ began > 2 * Leeway
    BY ClockAssumption, WidthAssumption DEF IInv
  <1>2. clock \in Nat /\ began <= clock
    BY <1>1, ClockAssumption DEF IInv
  <1> QED
    BY <1>1, <1>2, WidthAssumption DEF Lifetime

LEMMA TheToken ==
  ASSUME IInv
  PROVE  /\ inv.cmd \in {"jwt-svid", "wit-svid"}
         /\ inv.build \in Build
         /\ Decodes(inv.token) => Claims(inv.token.payload)
         /\ Token = inv.token
         /\ Compact = CompactOf(inv)
  BY InvocationAssumption DEF IInv, Build, Token, Compact, CompactOf

LEMMA TheSub ==
  ASSUME IInv, Decodes(Token), HasId(inv)
  PROVE  Token.payload.sub \in IdText
  BY TheToken DEF Claims, HasId

LEMMA InitIInv == Init => IInv
  <1> SUFFICES ASSUME Init PROVE IInv
    OBVIOUS
  <1>1. began \in Nat /\ MaxClock \in Nat /\ began <= MaxClock
    BY ClockAssumption, WidthAssumption DEF Init
  <1> QED
    BY <1>1 DEF Init, IInv, NotStarted

\* A check leaves step from for step to, and its lines are about clauses the
\* report is not about yet.
LEMMA CheckStep ==
  ASSUME IInv, Stage, NEW from, NEW to \in Steps \ {"done"}, NEW a, NEW E,
         NEW e \in Lifetime, NEW n \in Lifetime,
         Judges(report, SoFar(inv, from), ToldAt(inv, e, n)),
         Judges(a, E, ToldAt(inv, e, n)),
         SoFar(inv, from) \cap E = {},
         SoFar(inv, to) = SoFar(inv, from) \cup E,
         to # "emit" => Decodes(Token),
         to \in JwtSteps => inv.cmd = "jwt-svid",
         to \in WitSteps => inv.cmd # "jwt-svid",
         pc # "done",
         Check(from, to, a)
  PROVE  IInv'
  <1>1. /\ pc' = to /\ report' = report \o a
        /\ inv' = inv /\ clock' = clock /\ began' = began /\ exit' = exit
    BY DEF Check
  <1>2. Judges(report \o a, SoFar(inv, to), ToldAt(inv, e, n))
    <2>1. Judges(report \o a, SoFar(inv, from) \cup E, ToldAt(inv, e, n))
      BY BothJudge
    <2> QED
      BY <2>1, Zenon
  <1>3. Lifetime' = Lifetime
    BY <1>1 DEF Lifetime
  <1>4. Judges(report', SoFar(inv', pc'), ToldAt(inv', e, n))
    BY <1>1, <1>2, Zenon
  <1>5. Stage'
    <2>1. exit = -1 /\ inv.usable
      BY DEF Stage
    <2>2. to # "done" /\ to \in Steps
      OBVIOUS
    <2> QED
      BY <1>1, <2>1, <2>2, Zenon DEF Stage, Token
  <1>6. Judging'
    BY <1>3, <1>4, <1>5, Zenon DEF Judging
  <1> QED
    BY <1>1, <1>6, Zenon DEF IInv

\* The lines of a date are about the moment it is read, and the earlier lines
\* are not about that date.
LEMMA ReadLater ==
  ASSUME NEW i, NEW r, NEW D, NEW e, NEW n, Judges(r, D, ToldAt(i, e, n)),
         NEW f, NEW m, D \cap Dated = {} \/ (e = f /\ "WITNbfNotInFuture" \notin D)
  PROVE  Judges(r, D, ToldAt(i, f, m))
  <1>1. \A c \in D : c \in ToldAt(i, e, n) <=> c \in ToldAt(i, f, m)
    BY ToldLater
  <1> QED
    BY <1>1, JudgesAgree

LEMMA TickStep ==
  ASSUME IInv, Tick
  PROVE  IInv'
  <1>1. /\ inv' = inv /\ began' = began /\ report' = report /\ exit' = exit /\ pc' = pc
        /\ clock' = clock + 1 /\ clock < MaxClock
    BY DEF Tick
  <1>2. clock' \in began'..MaxClock
    BY <1>1, Moments, ClockAssumption DEF IInv
  <1>3. Lifetime \subseteq Lifetime'
    BY <1>1, Moments DEF Lifetime
  <1>4. NotStarted => NotStarted'
    BY <1>1 DEF NotStarted
  <1>5. Refused => Refused'
    BY <1>1 DEF Refused
  <1>6. ASSUME Judging PROVE Judging'
    <2>1. Stage'
      BY <1>1, <1>6 DEF Judging, Stage, Token
    <2>2. PICK e, n \in Lifetime : Judges(report, SoFar(inv, pc), ToldAt(inv, e, n))
      BY <1>6 DEF Judging
    <2>3. e \in Lifetime' /\ n \in Lifetime'
      BY <1>3
    <2>4. Judges(report', SoFar(inv', pc'), ToldAt(inv', e, n))
      BY <1>1, <2>2, Zenon
    <2> QED
      BY <2>1, <2>3, <2>4, Zenon DEF Judging
  <1> QED
    BY <1>1, <1>2, <1>4, <1>5, <1>6 DEF IInv

LEMMA UsageErrorStep ==
  ASSUME IInv, UsageError
  PROVE  IInv'
  <1>1. /\ pc = "args" /\ pc' = "done" /\ exit' = 2 /\ ~inv.usable
        /\ inv' = inv /\ began' = began /\ report' = report /\ clock' = clock
    BY DEF UsageError, Quit
  <1>2. "args" \notin Steps
    BY DEF Steps, JwtSteps, WitSteps
  <1>3. NotStarted
    BY <1>1, <1>2 DEF IInv, Refused, Judging, Stage
  <1> QED
    BY <1>1, <1>3 DEF IInv, NotStarted, Refused

LEMMA EmitStep ==
  ASSUME IInv, Emit
  PROVE  IInv'
  <1>1. /\ pc = "emit" /\ pc' = "done" /\ exit' = EmitOf(report, inv.format, inv.writable)
        /\ inv' = inv /\ began' = began /\ report' = report /\ clock' = clock
    BY DEF Emit, Quit
  <1>2. Judging
    BY <1>1 DEF IInv, NotStarted, Refused
  <1>3. PICK e, n \in Lifetime : Judges(report, SoFar(inv, pc), ToldAt(inv, e, n))
    BY <1>2 DEF Judging
  <1>4. SoFar(inv, "emit") = SoFar(inv, "done")
    BY SoFarIs
  <1>5. Judges(report', SoFar(inv', pc'), ToldAt(inv', e, n))
    BY <1>1, <1>3, <1>4, Zenon
  <1>6. Lifetime' = Lifetime
    BY <1>1 DEF Lifetime
  <1>7. Stage'
    BY <1>1, <1>2 DEF Judging, Stage, Steps, JwtSteps, WitSteps
  <1>8. Judging'
    BY <1>5, <1>6, <1>7, Zenon DEF Judging
  <1> QED
    BY <1>1, <1>8, Zenon DEF IInv

LEMMA AtStep ==
  ASSUME IInv, NEW step \in Steps \ {"done"}, pc = step
  PROVE  /\ Stage /\ pc # "done"
         /\ step # "emit" => Decodes(inv.token)
         /\ step \in JwtSteps => inv.cmd = "jwt-svid"
         /\ step \in WitSteps => inv.cmd # "jwt-svid"
         /\ \E e, n \in Lifetime : Judges(report, SoFar(inv, step), ToldAt(inv, e, n))
  <1>1. "args" \notin Steps
    BY DEF Steps, JwtSteps, WitSteps
  <1>2. Judging
    BY <1>1 DEF IInv, NotStarted, Refused
  <1> QED
    BY <1>2, Zenon DEF Judging, Stage, Token

\* Before there is a report.
LEMMA AtArgs ==
  ASSUME IInv, pc = "args", inv.usable
  PROVE  report = << >> /\ exit = -1
  <1>1. "args" \notin Steps
    BY DEF Steps, JwtSteps, WitSteps
  <1> QED
    BY <1>1 DEF IInv, NotStarted, Refused, Judging, Stage

\* The first line.
LEMMA FirstLine ==
  ASSUME IInv, NEW to \in {"header", "emit"}, NEW a,
         inv.usable, to = "header" <=> Decodes(inv.token),
         Judges(a, {CompactOf(inv)}, ToldAt(inv, clock, clock)),
         Check("args", to, a)
  PROVE  IInv'
  <1>1. /\ pc = "args" /\ pc' = to /\ report' = report \o a
        /\ inv' = inv /\ clock' = clock /\ began' = began /\ exit' = exit
    BY DEF Check
  <1>2. report = << >> /\ exit = -1
    BY <1>1, AtArgs
  <1>3. report' = a
    BY <1>1, <1>2 DEF Judges
  <1>4. SoFar(inv, to) = {CompactOf(inv)}
    <2>1. Judged(inv) = {CompactOf(inv)} \/ Decodes(inv.token)
      BY Zenon DEF Judged
    <2> QED
      BY <2>1, SoFarIs
  <1>5. Judges(report', SoFar(inv', pc'), ToldAt(inv', clock, clock))
    BY <1>1, <1>3, <1>4, Zenon
  <1>6. clock \in Lifetime'
    BY <1>1, Moments DEF Lifetime
  <1>7. Stage'
    <2>1. to \in Steps /\ to \notin JwtSteps /\ to \notin WitSteps /\ to # "done"
      BY DEF Steps, JwtSteps, WitSteps
    <2>2. to # "emit" => Decodes(inv.token)
      OBVIOUS
    <2> QED
      BY <1>1, <1>2, <2>1, <2>2, Zenon DEF Stage, Token
  <1>8. Judging'
    BY <1>5, <1>6, <1>7, Zenon DEF Judging
  <1> QED
    BY <1>1, <1>8, Zenon DEF IInv

LEMMA DecodeFailsStep ==
  ASSUME IInv, DecodeFails
  PROVE  IInv'
  <1> DEFINE a == Fail(Compact, "")
  <1>1. inv.usable /\ ~Decodes(inv.token) /\ Check("args", "emit", a)
    BY DEF DecodeFails, Token
  <1>2. CompactOf(inv) \in Clause
    BY TokenClauses DEF CompactOf, JwtSvidClauses, WitSvidClauses
  <1>3. CompactOf(inv) \notin ToldAt(inv, clock, clock)
    BY <1>1 DEF ToldAt
  <1>4. Judges(Fail(CompactOf(inv), ""), {CompactOf(inv)}, ToldAt(inv, clock, clock))
    BY <1>2, <1>3, FailJudges, Zenon
  <1>5. Judges(a, {CompactOf(inv)}, ToldAt(inv, clock, clock))
    BY <1>4, TheToken, Zenon
  <1> HIDE DEF a
  <1>6. "emit" \in {"header", "emit"} /\ ("emit" = "header" <=> Decodes(inv.token))
    BY <1>1
  <1> QED
    BY <1>1, <1>5, <1>6, FirstLine, Zenon

LEMMA DecodeStep ==
  ASSUME IInv, Decode
  PROVE  IInv'
  <1> DEFINE a == Pass(Compact, "")
             T == ToldAt(inv, clock, clock)
  <1>1. inv.usable /\ Decodes(inv.token) /\ Check("args", "header", a)
    BY DEF Decode, Token
  <1>2. CompactOf(inv) \in Clause
    BY TokenClauses DEF CompactOf, JwtSvidClauses, WitSvidClauses
  <1>3. CompactOf(inv) \in T
    <2>1. CASE inv.cmd = "jwt-svid"
      <3>1. JwtTold(inv, clock, T)
        BY <1>1, <2>1, ToldIs
      <3>2. "JWTCompactSerialization" \in T
        BY <3>1, JwtTruthParts DEF JwtTold, JwtSvidClauses
      <3> QED
        BY <2>1, <3>2, Zenon DEF CompactOf
    <2>2. CASE inv.cmd # "jwt-svid"
      <3>1. WitTold(inv, clock, clock, T)
        BY <1>1, <2>2, ToldIs
      <3>2. "WITCompactSerialization" \in T
        BY <3>1, WitTruthParts DEF WitTold, WitSvidClauses
      <3> QED
        BY <2>2, <3>2, Zenon DEF CompactOf
    <2> QED
      BY <2>1, <2>2
  <1> HIDE DEF T
  <1>4. Judges(Pass(CompactOf(inv), ""), {CompactOf(inv)}, T)
    BY <1>2, <1>3, PassJudges, Zenon
  <1>5. Judges(a, {CompactOf(inv)}, T)
    BY <1>4, TheToken, Zenon
  <1> USE DEF T
  <1> HIDE DEF a
  <1>6. "header" \in {"header", "emit"} /\ ("header" = "header" <=> Decodes(inv.token))
    BY <1>1
  <1> QED
    BY <1>1, <1>5, <1>6, FirstLine, Zenon

---------------------------------------------------------------------------
(* jwtsvid.Check, call by call.                                            *)

LEMMA JwtHeaderStep ==
  ASSUME IInv, JwtHeader
  PROVE  IInv'
  <1> DEFINE a == CheckJwtHeader(inv.token.header)
             E == JwtHeaderJudged(inv.token.header)
  <1>1. pc = "header" /\ Check("header", "jwtSub", a) /\ inv.cmd = "jwt-svid"
    BY DEF JwtHeader, Check, Token
  <1>2. "header" \in Steps \ {"done"} /\ "header" # "emit"
    BY DEF Steps, JwtSteps, WitSteps
  <1>3. Stage /\ pc # "done" /\ Decodes(inv.token) /\ inv.cmd = "jwt-svid"
    BY <1>1, <1>2, AtStep, Zenon
  <1>4. PICK e, n \in Lifetime : Judges(report, SoFar(inv, "header"), ToldAt(inv, e, n))
    BY <1>1, <1>2, AtStep, Zenon
  <1>5. SoFar(inv, "header") = {"JWTCompactSerialization"} /\ SoFar(inv, "jwtSub") = JwtHeaderDone(inv)
    BY <1>3, SoFarIs, Zenon DEF CompactOf
  <1> DEFINE T == ToldAt(inv, e, n)
  <1>6. JwtTold(inv, e, T)
    BY <1>3, ToldIs
  <1>7. e \in Lifetime /\ n \in Lifetime /\ Judges(report, SoFar(inv, "header"), T)
    BY <1>4
  <1>8. Judges(a, E, T)
    BY <1>6, JwtHeaderJudges, Zenon
  <1> HIDE DEF T
  <1>9. SoFar(inv, "header") \cap E = {}
    BY <1>5, JwtApart, Zenon
  <1>10. SoFar(inv, "jwtSub") = SoFar(inv, "header") \cup E
    BY <1>5, Zenon DEF JwtHeaderDone
  <1> HIDE DEF a, E
  <1> USE DEF T
  <1>11. "jwtSub" \in Steps \ {"done"} /\ "jwtSub" \notin WitSteps
    BY DEF Steps, JwtSteps, WitSteps
  <1> QED
    BY <1>1, <1>3, <1>7, <1>8, <1>9, <1>10, <1>11, CheckStep, Zenon DEF Token

LEMMA JwtSubStep ==
  ASSUME IInv, JwtSub
  PROVE  IInv'
  <1> DEFINE a == CheckSub("JWTSubPresent", inv.token.payload)
             E == SubJudged("JWTSubPresent", inv.token.payload)
  <1>1. pc = "jwtSub" /\ Check("jwtSub", "jwtAud", a)
    BY DEF JwtSub, Check, Token
  <1>2. "jwtSub" \in Steps \ {"done"} /\ "jwtSub" # "emit" /\ "jwtSub" \in JwtSteps
    BY DEF Steps, JwtSteps, WitSteps
  <1>3. Stage /\ pc # "done" /\ Decodes(inv.token) /\ inv.cmd = "jwt-svid"
    BY <1>1, <1>2, AtStep, Zenon
  <1>4. PICK e, n \in Lifetime : Judges(report, SoFar(inv, "jwtSub"), ToldAt(inv, e, n))
    BY <1>1, <1>2, AtStep, Zenon
  <1>5. SoFar(inv, "jwtSub") = JwtHeaderDone(inv) /\ SoFar(inv, "jwtAud") = JwtSubDone(inv)
    BY SoFarIs
  <1> DEFINE T == ToldAt(inv, e, n)
  <1>6. JwtTold(inv, e, T)
    BY <1>3, ToldIs
  <1>7. e \in Lifetime /\ n \in Lifetime /\ Judges(report, SoFar(inv, "jwtSub"), T)
    BY <1>4
  <1>8. Judges(a, E, T)
    <2>1. "JWTSubPresent" \in T <=> inv.token.payload.sub \notin {None, Malformed}
      BY <1>6, JwtTruthParts DEF JwtTold, JwtSvidClauses
    <2>2. inv.token.payload.sub \notin {None, Malformed} => IdTold(inv.token.payload.sub, T)
      BY <1>3, ToldIs DEF HasId
    <2>3. inv.token.payload.sub \in {None, Malformed} \cup IdText
      BY <1>3, TheToken DEF Claims
    <2>4. "JWTSubPresent" \in Clause \ SpiffeIdClauses
      BY TokenClauses DEF JwtSvidClauses, SpiffeIdClauses
    <2> HIDE DEF T
    <2> QED
      BY <2>1, <2>2, <2>3, <2>4, SubJudges, Zenon
  <1> HIDE DEF T
  <1>9. SoFar(inv, "jwtSub") \cap E = {}
    BY <1>5, JwtApart, Zenon
  <1>10. SoFar(inv, "jwtAud") = SoFar(inv, "jwtSub") \cup E
    BY <1>5, Zenon DEF JwtSubDone
  <1> HIDE DEF a, E
  <1> USE DEF T
  <1>11. "jwtAud" \in Steps \ {"done"} /\ "jwtAud" \notin WitSteps
    BY DEF Steps, JwtSteps, WitSteps
  <1> QED
    BY <1>1, <1>3, <1>7, <1>8, <1>9, <1>10, <1>11, CheckStep, Zenon DEF Token

LEMMA JwtAudStep ==
  ASSUME IInv, JwtAud
  PROVE  IInv'
  <1> DEFINE a == CheckAud(inv.token.payload)
             E == AudJudged(inv.token.payload)
  <1>1. pc = "jwtAud" /\ Check("jwtAud", "jwtExp", a)
    BY DEF JwtAud, Check, Token
  <1>2. "jwtAud" \in Steps \ {"done"} /\ "jwtAud" # "emit" /\ "jwtAud" \in JwtSteps
    BY DEF Steps, JwtSteps, WitSteps
  <1>3. Stage /\ pc # "done" /\ Decodes(inv.token) /\ inv.cmd = "jwt-svid"
    BY <1>1, <1>2, AtStep, Zenon
  <1>4. PICK e, n \in Lifetime : Judges(report, SoFar(inv, "jwtAud"), ToldAt(inv, e, n))
    BY <1>1, <1>2, AtStep, Zenon
  <1>5. SoFar(inv, "jwtAud") = JwtSubDone(inv) /\ SoFar(inv, "jwtExp") = JwtAudDone(inv)
    BY SoFarIs
  <1> DEFINE T == ToldAt(inv, e, n)
  <1>6. JwtTold(inv, e, T)
    BY <1>3, ToldIs
  <1>7. e \in Lifetime /\ n \in Lifetime /\ Judges(report, SoFar(inv, "jwtAud"), T)
    BY <1>4
  <1>8. Judges(a, E, T)
    <2>1. Claims(inv.token.payload)
      BY <1>3, TheToken
    <2> QED
      BY <1>6, <2>1, AudJudges, Zenon
  <1> HIDE DEF T
  <1>9. SoFar(inv, "jwtAud") \cap E = {}
    BY <1>5, JwtApart, Zenon
  <1>10. SoFar(inv, "jwtExp") = SoFar(inv, "jwtAud") \cup E
    BY <1>5, Zenon DEF JwtAudDone
  <1> HIDE DEF a, E
  <1> USE DEF T
  <1>11. "jwtExp" \in Steps \ {"done"} /\ "jwtExp" \notin WitSteps
    BY DEF Steps, JwtSteps, WitSteps
  <1> QED
    BY <1>1, <1>3, <1>7, <1>8, <1>9, <1>10, <1>11, CheckStep, Zenon DEF Token

LEMMA JwtExpStep ==
  ASSUME IInv, JwtExp
  PROVE  IInv'
  <1> DEFINE a == CheckExp("JWTExpPresent", "JWTExpNotInPast", inv.token.payload, inv.build, clock)
             E == ExpJudged("JWTExpPresent", "JWTExpNotInPast", inv.token.payload)
  <1>1. pc = "jwtExp" /\ Check("jwtExp", "emit", a)
    BY DEF JwtExp, Check, Token
  <1>2. "jwtExp" \in Steps \ {"done"} /\ "jwtExp" # "emit" /\ "jwtExp" \in JwtSteps
    BY DEF Steps, JwtSteps, WitSteps
  <1>3. Stage /\ pc # "done" /\ Decodes(inv.token) /\ inv.cmd = "jwt-svid"
    BY <1>1, <1>2, AtStep, Zenon
  <1>4. PICK e, n \in Lifetime : Judges(report, SoFar(inv, "jwtExp"), ToldAt(inv, e, n))
    BY <1>1, <1>2, AtStep, Zenon
  <1>5. SoFar(inv, "jwtExp") = JwtAudDone(inv) /\ SoFar(inv, "emit") = JwtDone(inv)
    BY <1>3, SoFarIs, Zenon DEF Judged
  <1> DEFINE T == ToldAt(inv, clock, n)
  <1>6. JwtTold(inv, clock, T)
    BY <1>3, ToldIs
  <1>7. Judges(report, SoFar(inv, "jwtExp"), T)
    <2>1. SoFar(inv, "jwtExp") \cap Dated = {}
      BY <1>5, JwtApart, Zenon
    <2> QED
      BY <1>4, <2>1, ReadLater, Zenon
  <1>8. Judges(a, E, T)
    <2>1. "JWTExpPresent" \in T <=> inv.token.payload.exp # None
      BY <1>6, JwtTruthParts DEF JwtTold, JwtSvidClauses
    <2>2. "JWTExpNotInPast" \in T <=> NotJudgedPast(inv, clock)
      BY <1>6 DEF JwtTold, JwtSvidClauses
    <2>3. /\ "JWTExpPresent" \in Clause /\ "JWTExpNotInPast" \in Clause
          /\ "JWTExpPresent" # "JWTExpNotInPast"
      BY TokenClauses DEF JwtSvidClauses
    <2> HIDE DEF T
    <2> QED
      BY <2>1, <2>2, <2>3, ExpJudges, Zenon
  <1> HIDE DEF T
  <1>9. SoFar(inv, "jwtExp") \cap E = {}
    BY <1>5, JwtApart, Zenon
  <1>10. SoFar(inv, "emit") = SoFar(inv, "jwtExp") \cup E
    BY <1>5, Zenon DEF JwtDone
  <1> HIDE DEF a, E
  <1> USE DEF T
  <1>11. "emit" \in Steps \ {"done"} /\ "emit" \notin WitSteps
    BY DEF Steps, JwtSteps, WitSteps
  <1>12. clock \in Lifetime
    BY Moments
  <1> QED
    BY <1>1, <1>3, <1>4, <1>7, <1>8, <1>9, <1>10, <1>11, <1>12, CheckStep, Zenon DEF Token

---------------------------------------------------------------------------
(* witsvid.Check, call by call.                                            *)

LEMMA WitHeaderStep ==
  ASSUME IInv, WitHeader
  PROVE  IInv'
  <1> DEFINE a == CheckWitHeader(inv.token.header)
             E == WitHeaderJudged
  <1>1. pc = "header" /\ Check("header", "witSub", a) /\ inv.cmd # "jwt-svid"
    BY DEF WitHeader, Check, Token
  <1>2. "header" \in Steps \ {"done"} /\ "header" # "emit"
    BY DEF Steps, JwtSteps, WitSteps
  <1>3. Stage /\ pc # "done" /\ Decodes(inv.token) /\ inv.cmd # "jwt-svid"
    BY <1>1, <1>2, AtStep, Zenon
  <1>4. PICK e, n \in Lifetime : Judges(report, SoFar(inv, "header"), ToldAt(inv, e, n))
    BY <1>1, <1>2, AtStep, Zenon
  <1>5. SoFar(inv, "header") = {"WITCompactSerialization"} /\ SoFar(inv, "witSub") = WitHeaderDone(inv)
    BY <1>3, SoFarIs, Zenon DEF CompactOf
  <1> DEFINE T == ToldAt(inv, e, n)
  <1>6. WitTold(inv, e, n, T)
    BY <1>3, ToldIs
  <1>7. e \in Lifetime /\ n \in Lifetime /\ Judges(report, SoFar(inv, "header"), T)
    BY <1>4
  <1>8. Judges(a, E, T)
    BY <1>6, WitHeaderJudges, Zenon
  <1> HIDE DEF T
  <1>9. SoFar(inv, "header") \cap E = {}
    BY <1>5, WitApart, Zenon
  <1>10. SoFar(inv, "witSub") = SoFar(inv, "header") \cup E
    BY <1>5, Zenon DEF WitHeaderDone
  <1> HIDE DEF a, E
  <1> USE DEF T
  <1>11. "witSub" \in Steps \ {"done"} /\ "witSub" \notin JwtSteps
    BY DEF Steps, JwtSteps, WitSteps
  <1> QED
    BY <1>1, <1>3, <1>7, <1>8, <1>9, <1>10, <1>11, CheckStep, Zenon DEF Token

LEMMA WitSubStep ==
  ASSUME IInv, WitSub
  PROVE  IInv'
  <1> DEFINE a == CheckSub("WITSubPresent", inv.token.payload)
             E == SubJudged("WITSubPresent", inv.token.payload)
  <1>1. pc = "witSub" /\ Check("witSub", "witCnf", a)
    BY DEF WitSub, Check, Token
  <1>2. "witSub" \in Steps \ {"done"} /\ "witSub" # "emit" /\ "witSub" \in WitSteps
    BY DEF Steps, JwtSteps, WitSteps
  <1>3. Stage /\ pc # "done" /\ Decodes(inv.token) /\ inv.cmd # "jwt-svid"
    BY <1>1, <1>2, AtStep, Zenon
  <1>4. PICK e, n \in Lifetime : Judges(report, SoFar(inv, "witSub"), ToldAt(inv, e, n))
    BY <1>1, <1>2, AtStep, Zenon
  <1>5. SoFar(inv, "witSub") = WitHeaderDone(inv) /\ SoFar(inv, "witCnf") = WitSubDone(inv)
    BY SoFarIs
  <1> DEFINE T == ToldAt(inv, e, n)
  <1>6. WitTold(inv, e, n, T)
    BY <1>3, ToldIs
  <1>7. e \in Lifetime /\ n \in Lifetime /\ Judges(report, SoFar(inv, "witSub"), T)
    BY <1>4
  <1>8. Judges(a, E, T)
    <2>1. "WITSubPresent" \in T <=> inv.token.payload.sub \notin {None, Malformed}
      BY <1>6, WitTruthParts DEF WitTold, WitSvidClauses
    <2>2. inv.token.payload.sub \notin {None, Malformed} => IdTold(inv.token.payload.sub, T)
      BY <1>3, ToldIs DEF HasId
    <2>3. inv.token.payload.sub \in {None, Malformed} \cup IdText
      BY <1>3, TheToken DEF Claims
    <2>4. "WITSubPresent" \in Clause \ SpiffeIdClauses
      BY TokenClauses DEF WitSvidClauses, SpiffeIdClauses
    <2> HIDE DEF T
    <2> QED
      BY <2>1, <2>2, <2>3, <2>4, SubJudges, Zenon
  <1> HIDE DEF T
  <1>9. SoFar(inv, "witSub") \cap E = {}
    BY <1>5, WitApart, Zenon
  <1>10. SoFar(inv, "witCnf") = SoFar(inv, "witSub") \cup E
    BY <1>5, Zenon DEF WitSubDone
  <1> HIDE DEF a, E
  <1> USE DEF T
  <1>11. "witCnf" \in Steps \ {"done"} /\ "witCnf" \notin JwtSteps
    BY DEF Steps, JwtSteps, WitSteps
  <1> QED
    BY <1>1, <1>3, <1>7, <1>8, <1>9, <1>10, <1>11, CheckStep, Zenon DEF Token

LEMMA WitCnfStep ==
  ASSUME IInv, WitCnf
  PROVE  IInv'
  <1> DEFINE a == CheckCnf(inv.token.payload)
             E == CnfJudged(inv.token.payload)
  <1>1. pc = "witCnf" /\ Check("witCnf", "witExp", a)
    BY DEF WitCnf, Check, Token
  <1>2. "witCnf" \in Steps \ {"done"} /\ "witCnf" # "emit" /\ "witCnf" \in WitSteps
    BY DEF Steps, JwtSteps, WitSteps
  <1>3. Stage /\ pc # "done" /\ Decodes(inv.token) /\ inv.cmd # "jwt-svid"
    BY <1>1, <1>2, AtStep, Zenon
  <1>4. PICK e, n \in Lifetime : Judges(report, SoFar(inv, "witCnf"), ToldAt(inv, e, n))
    BY <1>1, <1>2, AtStep, Zenon
  <1>5. SoFar(inv, "witCnf") = WitSubDone(inv) /\ SoFar(inv, "witExp") = WitCnfDone(inv)
    BY SoFarIs
  <1> DEFINE T == ToldAt(inv, e, n)
  <1>6. WitTold(inv, e, n, T)
    BY <1>3, ToldIs
  <1>7. e \in Lifetime /\ n \in Lifetime /\ Judges(report, SoFar(inv, "witCnf"), T)
    BY <1>4
  <1>8. Judges(a, E, T)
    BY <1>6, CnfJudges, Zenon
  <1> HIDE DEF T
  <1>9. SoFar(inv, "witCnf") \cap E = {}
    BY <1>5, WitApart, Zenon
  <1>10. SoFar(inv, "witExp") = SoFar(inv, "witCnf") \cup E
    BY <1>5, Zenon DEF WitCnfDone
  <1> HIDE DEF a, E
  <1> USE DEF T
  <1>11. "witExp" \in Steps \ {"done"} /\ "witExp" \notin JwtSteps
    BY DEF Steps, JwtSteps, WitSteps
  <1> QED
    BY <1>1, <1>3, <1>7, <1>8, <1>9, <1>10, <1>11, CheckStep, Zenon DEF Token

LEMMA WitExpStep ==
  ASSUME IInv, WitExp
  PROVE  IInv'
  <1> DEFINE a == CheckExp("WITExpPresent", "WITExpNotInPast", inv.token.payload, inv.build, clock)
             E == ExpJudged("WITExpPresent", "WITExpNotInPast", inv.token.payload)
  <1>1. pc = "witExp" /\ Check("witExp", "witNbf", a)
    BY DEF WitExp, Check, Token
  <1>2. "witExp" \in Steps \ {"done"} /\ "witExp" # "emit" /\ "witExp" \in WitSteps
    BY DEF Steps, JwtSteps, WitSteps
  <1>3. Stage /\ pc # "done" /\ Decodes(inv.token) /\ inv.cmd # "jwt-svid"
    BY <1>1, <1>2, AtStep, Zenon
  <1>4. PICK e, n \in Lifetime : Judges(report, SoFar(inv, "witExp"), ToldAt(inv, e, n))
    BY <1>1, <1>2, AtStep, Zenon
  <1>5. SoFar(inv, "witExp") = WitCnfDone(inv) /\ SoFar(inv, "witNbf") = WitExpDone(inv)
    BY SoFarIs
  <1> DEFINE T == ToldAt(inv, clock, n)
  <1>6. WitTold(inv, clock, n, T)
    BY <1>3, ToldIs
  <1>7. Judges(report, SoFar(inv, "witExp"), T)
    <2>1. SoFar(inv, "witExp") \cap Dated = {}
      BY <1>5, WitApart, Zenon
    <2> QED
      BY <1>4, <2>1, ReadLater, Zenon
  <1>8. Judges(a, E, T)
    <2>1. "WITExpPresent" \in T <=> inv.token.payload.exp # None
      BY <1>6, WitTruthParts DEF WitTold, WitSvidClauses
    <2>2. "WITExpNotInPast" \in T <=> NotJudgedPast(inv, clock)
      BY <1>6 DEF WitTold, WitSvidClauses
    <2>3. /\ "WITExpPresent" \in Clause /\ "WITExpNotInPast" \in Clause
          /\ "WITExpPresent" # "WITExpNotInPast"
      BY TokenClauses DEF WitSvidClauses
    <2> HIDE DEF T
    <2> QED
      BY <2>1, <2>2, <2>3, ExpJudges, Zenon
  <1> HIDE DEF T
  <1>9. SoFar(inv, "witExp") \cap E = {}
    BY <1>5, WitApart, Zenon
  <1>10. SoFar(inv, "witNbf") = SoFar(inv, "witExp") \cup E
    BY <1>5, Zenon DEF WitExpDone
  <1> HIDE DEF a, E
  <1> USE DEF T
  <1>11. "witNbf" \in Steps \ {"done"} /\ "witNbf" \notin JwtSteps
    BY DEF Steps, JwtSteps, WitSteps
  <1>12. clock \in Lifetime
    BY Moments
  <1> QED
    BY <1>1, <1>3, <1>4, <1>7, <1>8, <1>9, <1>10, <1>11, <1>12, CheckStep, Zenon DEF Token

LEMMA WitNbfStep ==
  ASSUME IInv, WitNbf
  PROVE  IInv'
  <1> DEFINE a == CheckNbf(inv.token.payload, inv.build, clock)
             E == NbfJudged(inv.token.payload)
  <1>1. pc = "witNbf" /\ Check("witNbf", "witIss", a)
    BY DEF WitNbf, Check, Token
  <1>2. "witNbf" \in Steps \ {"done"} /\ "witNbf" # "emit" /\ "witNbf" \in WitSteps
    BY DEF Steps, JwtSteps, WitSteps
  <1>3. Stage /\ pc # "done" /\ Decodes(inv.token) /\ inv.cmd # "jwt-svid"
    BY <1>1, <1>2, AtStep, Zenon
  <1>4. PICK e, n \in Lifetime : Judges(report, SoFar(inv, "witNbf"), ToldAt(inv, e, n))
    BY <1>1, <1>2, AtStep, Zenon
  <1>5. SoFar(inv, "witNbf") = WitExpDone(inv) /\ SoFar(inv, "witIss") = WitNbfDone(inv)
    BY SoFarIs
  <1> DEFINE T == ToldAt(inv, e, clock)
  <1>6. WitTold(inv, e, clock, T)
    BY <1>3, ToldIs
  <1>7. Judges(report, SoFar(inv, "witNbf"), T)
    <2>1. "WITNbfNotInFuture" \notin SoFar(inv, "witNbf")
      BY <1>5, WitApart, Zenon
    <2> QED
      BY <1>4, <2>1, ReadLater, Zenon
  <1>8. Judges(a, E, T)
    BY <1>6, NbfJudges, Zenon
  <1> HIDE DEF T
  <1>9. SoFar(inv, "witNbf") \cap E = {}
    BY <1>5, WitApart, Zenon
  <1>10. SoFar(inv, "witIss") = SoFar(inv, "witNbf") \cup E
    BY <1>5, Zenon DEF WitNbfDone
  <1> HIDE DEF a, E
  <1> USE DEF T
  <1>11. "witIss" \in Steps \ {"done"} /\ "witIss" \notin JwtSteps
    BY DEF Steps, JwtSteps, WitSteps
  <1>12. clock \in Lifetime
    BY Moments
  <1> QED
    BY <1>1, <1>3, <1>4, <1>7, <1>8, <1>9, <1>10, <1>11, <1>12, CheckStep, Zenon DEF Token

LEMMA WitIssStep ==
  ASSUME IInv, WitIss
  PROVE  IInv'
  <1> DEFINE a == CheckIss(inv.token.payload)
             E == IssJudged(inv.token.payload)
  <1>1. pc = "witIss" /\ Check("witIss", "witAud", a)
    BY DEF WitIss, Check, Token
  <1>2. "witIss" \in Steps \ {"done"} /\ "witIss" # "emit" /\ "witIss" \in WitSteps
    BY DEF Steps, JwtSteps, WitSteps
  <1>3. Stage /\ pc # "done" /\ Decodes(inv.token) /\ inv.cmd # "jwt-svid"
    BY <1>1, <1>2, AtStep, Zenon
  <1>4. PICK e, n \in Lifetime : Judges(report, SoFar(inv, "witIss"), ToldAt(inv, e, n))
    BY <1>1, <1>2, AtStep, Zenon
  <1>5. SoFar(inv, "witIss") = WitNbfDone(inv) /\ SoFar(inv, "witAud") = WitIssDone(inv)
    BY SoFarIs
  <1> DEFINE T == ToldAt(inv, e, n)
  <1>6. WitTold(inv, e, n, T)
    BY <1>3, ToldIs
  <1>7. e \in Lifetime /\ n \in Lifetime /\ Judges(report, SoFar(inv, "witIss"), T)
    BY <1>4
  <1>8. Judges(a, E, T)
    BY <1>6, IssJudges, Zenon
  <1> HIDE DEF T
  <1>9. SoFar(inv, "witIss") \cap E = {}
    BY <1>5, WitApart, Zenon
  <1>10. SoFar(inv, "witAud") = SoFar(inv, "witIss") \cup E
    BY <1>5, Zenon DEF WitIssDone
  <1> HIDE DEF a, E
  <1> USE DEF T
  <1>11. "witAud" \in Steps \ {"done"} /\ "witAud" \notin JwtSteps
    BY DEF Steps, JwtSteps, WitSteps
  <1> QED
    BY <1>1, <1>3, <1>7, <1>8, <1>9, <1>10, <1>11, CheckStep, Zenon DEF Token

LEMMA WitAudStep ==
  ASSUME IInv, WitAud
  PROVE  IInv'
  <1> DEFINE a == CheckNoAud(inv.token.payload)
             E == {"WITNoAud"}
  <1>1. pc = "witAud" /\ Check("witAud", "emit", a)
    BY DEF WitAud, Check, Token
  <1>2. "witAud" \in Steps \ {"done"} /\ "witAud" # "emit" /\ "witAud" \in WitSteps
    BY DEF Steps, JwtSteps, WitSteps
  <1>3. Stage /\ pc # "done" /\ Decodes(inv.token) /\ inv.cmd # "jwt-svid"
    BY <1>1, <1>2, AtStep, Zenon
  <1>4. PICK e, n \in Lifetime : Judges(report, SoFar(inv, "witAud"), ToldAt(inv, e, n))
    BY <1>1, <1>2, AtStep, Zenon
  <1>5. SoFar(inv, "witAud") = WitIssDone(inv) /\ SoFar(inv, "emit") = WitDone(inv)
    BY <1>3, SoFarIs, Zenon DEF Judged
  <1> DEFINE T == ToldAt(inv, e, n)
  <1>6. WitTold(inv, e, n, T)
    BY <1>3, ToldIs
  <1>7. e \in Lifetime /\ n \in Lifetime /\ Judges(report, SoFar(inv, "witAud"), T)
    BY <1>4
  <1>8. Judges(a, E, T)
    BY <1>6, NoAudJudges, Zenon
  <1> HIDE DEF T
  <1>9. SoFar(inv, "witAud") \cap E = {}
    BY <1>5, WitApart, Zenon
  <1>10. SoFar(inv, "emit") = SoFar(inv, "witAud") \cup E
    BY <1>5, Zenon DEF WitDone
  <1> HIDE DEF a, E
  <1> USE DEF T
  <1>11. "emit" \in Steps \ {"done"} /\ "emit" \notin JwtSteps
    BY DEF Steps, JwtSteps, WitSteps
  <1> QED
    BY <1>1, <1>3, <1>7, <1>8, <1>9, <1>10, <1>11, CheckStep, Zenon DEF Token

LEMMA StepIInv == IInv /\ [Next]_vars => IInv'
  <1> SUFFICES ASSUME IInv, [Next]_vars PROVE IInv'
    OBVIOUS
  <1>1. CASE UNCHANGED vars
    <2>1. UNCHANGED <<inv, clock, began, report, exit, pc>>
      BY <1>1 DEF vars
    <2>2. Lifetime' = Lifetime
      BY <2>1 DEF Lifetime
    <2>3. Stage <=> Stage'
      BY <2>1 DEF Stage, Token
    <2>4. Judging => Judging'
      BY <2>1, <2>2, <2>3, Zenon DEF Judging
    <2>5. (NotStarted => NotStarted') /\ (Refused => Refused')
      BY <2>1 DEF NotStarted, Refused
    <2> QED
      BY <2>1, <2>4, <2>5 DEF IInv
  <1>2. CASE Next
    <2>1. CASE Tick BY <2>1, TickStep
    <2>2. CASE UsageError BY <2>2, UsageErrorStep
    <2>3. CASE DecodeFails BY <2>3, DecodeFailsStep
    <2>4. CASE Decode BY <2>4, DecodeStep
    <2>5. CASE JwtHeader BY <2>5, JwtHeaderStep
    <2>6. CASE JwtSub BY <2>6, JwtSubStep
    <2>7. CASE JwtAud BY <2>7, JwtAudStep
    <2>8. CASE JwtExp BY <2>8, JwtExpStep
    <2>9. CASE WitHeader BY <2>9, WitHeaderStep
    <2>10. CASE WitSub BY <2>10, WitSubStep
    <2>11. CASE WitCnf BY <2>11, WitCnfStep
    <2>12. CASE WitExp BY <2>12, WitExpStep
    <2>13. CASE WitNbf BY <2>13, WitNbfStep
    <2>14. CASE WitIss BY <2>14, WitIssStep
    <2>15. CASE WitAud BY <2>15, WitAudStep
    <2>16. CASE Emit BY <2>16, EmitStep
    <2>17. CASE Terminated BY <1>1, <2>17 DEF Terminated
    <2> QED
      BY <1>2, <2>1, <2>2, <2>3, <2>4, <2>5, <2>6, <2>7, <2>8, <2>9, <2>10, <2>11, <2>12,
         <2>13, <2>14, <2>15, <2>16, <2>17 DEF Next
  <1> QED
    BY <1>1, <1>2

THEOREM IInvHolds == Spec => []IInv
  BY InitIInv, StepIInv, PTL DEF Spec

---------------------------------------------------------------------------
(* What such a report says.                                                *)

LEMMA EachLine ==
  ASSUME NEW r, NEW D, NEW T, Judges(r, D, T)
  PROVE  /\ r \in Seq(Assertion)
         /\ \A k \in DOMAIN r : r[k].clause \in D /\ (r[k].status = "pass" <=> r[k].clause \in T)
         /\ \A k, l \in DOMAIN r : r[k].clause = r[l].clause => k = l
         /\ D \subseteq {r[k].clause : k \in DOMAIN r}
  <1>1. \A k \in DOMAIN r : r[k].clause \in D /\ (r[k].status = "pass" <=> r[k].clause \in T)
    BY VerdictStatus DEF Judges
  <1>2. ASSUME NEW k \in DOMAIN r, NEW l \in DOMAIN r, r[k].clause = r[l].clause
        PROVE  k = l
    <2>1. TopicOf(r[k]) = TopicOf(r[l])
      BY <1>2, JudgesTopics, Zenon
    <2> QED
      BY <2>1 DEF Judges, NoneTwice
  <1> QED
    BY <1>1, <1>2 DEF Judges

\* The clauses of the command's own document.
OwnClauses(i) == IF i.cmd = "jwt-svid" THEN JwtSvidClauses ELSE WitSvidClauses

IdClausesOf(i) == IF HasId(i) THEN SpiffeIdClauses ELSE {}

LEMMA JwtDoneIs ==
  ASSUME NEW i
  PROVE  JwtDone(i) \subseteq JwtSvidClauses \cup IdClausesOf(i)
  <1>1. SubJudged("JWTSubPresent", i.token.payload) \subseteq {"JWTSubPresent"} \cup IdClausesOf(i)
    BY IdJudgedAreIdClauses DEF SubJudged, IdClausesOf, HasId
  <1> QED
    BY <1>1, JwtParts DEF JwtDone, JwtAudDone, JwtSubDone, JwtSvidClauses

LEMMA WitDoneIs ==
  ASSUME NEW i
  PROVE  WitDone(i) \subseteq WitSvidClauses \cup IdClausesOf(i)
  <1>1. SubJudged("WITSubPresent", i.token.payload) \subseteq {"WITSubPresent"} \cup IdClausesOf(i)
    BY IdJudgedAreIdClauses DEF SubJudged, IdClausesOf, HasId
  <1>2. WitCnfDone(i) \subseteq WitSvidClauses \cup IdClausesOf(i)
    BY <1>1, WitParts DEF WitCnfDone, WitSubDone, WitSvidClauses
  <1> QED
    BY <1>2, WitParts DEF WitDone, WitIssDone, WitNbfDone, WitExpDone, WitSvidClauses

LEMMA SoFarIsOfTheDocuments ==
  ASSUME IInv, Stage, Decodes(inv.token)
  PROVE  SoFar(inv, pc) \subseteq OwnClauses(inv) \cup IdClausesOf(inv)
  <1>1. CASE inv.cmd = "jwt-svid"
    <2>1. pc \in {"header", "emit", "done"} \cup JwtSteps
      BY <1>1 DEF Stage, Steps
    <2>2. SoFar(inv, pc) \in {{CompactOf(inv)}, JwtHeaderDone(inv), JwtSubDone(inv),
                              JwtAudDone(inv), Judged(inv)}
      BY <2>1, SoFarIs DEF JwtSteps
    <2>3. Judged(inv) = JwtDone(inv) /\ CompactOf(inv) = "JWTCompactSerialization"
      BY <1>1, Zenon DEF Judged, CompactOf
    <2>4. SoFar(inv, pc) \subseteq JwtDone(inv)
      BY <2>2, <2>3 DEF JwtDone, JwtAudDone, JwtSubDone, JwtHeaderDone
    <2>5. OwnClauses(inv) = JwtSvidClauses
      BY <1>1, Zenon DEF OwnClauses
    <2> QED
      BY <2>4, <2>5, JwtDoneIs
  <1>2. CASE inv.cmd # "jwt-svid"
    <2>1. pc \in {"header", "emit", "done"} \cup WitSteps
      BY <1>2 DEF Stage, Steps
    <2>2. SoFar(inv, pc) \in {{CompactOf(inv)}, WitHeaderDone(inv), WitSubDone(inv),
                              WitCnfDone(inv), WitExpDone(inv), WitNbfDone(inv),
                              WitIssDone(inv), Judged(inv)}
      BY <2>1, SoFarIs DEF WitSteps
    <2>3. Judged(inv) = WitDone(inv) /\ CompactOf(inv) = "WITCompactSerialization"
      BY <1>2, Zenon DEF Judged, CompactOf
    <2>4. SoFar(inv, pc) \subseteq WitDone(inv)
      BY <2>2, <2>3 DEF WitDone, WitIssDone, WitNbfDone, WitExpDone, WitCnfDone, WitSubDone,
                        WitHeaderDone
    <2>5. OwnClauses(inv) = WitSvidClauses
      BY <1>2, Zenon DEF OwnClauses
    <2> QED
      BY <2>4, <2>5, WitDoneIs
  <1> QED
    BY <1>1, <1>2

\* Together takes a clause from the document that has it.
LEMMA TogetherIs ==
  ASSUME NEW f, NEW g, DOMAIN f \cap DOMAIN g = {}
  PROVE  /\ DOMAIN Together(f, g) = DOMAIN f \cup DOMAIN g
         /\ \A c \in DOMAIN f : Together(f, g)[c] = f[c]
         /\ \A c \in DOMAIN g : Together(f, g)[c] = g[c]
  BY DEF Together

LEMMA OwnTruthIs ==
  ASSUME NEW x
  PROVE  DOMAIN TokenTruth(x) = OwnClauses(inv)
  <1>1. CASE inv.cmd = "jwt-svid"
    <2>1. TokenTruth(x) = JwtTruth(Token, x) /\ OwnClauses(inv) = JwtSvidClauses
      BY <1>1, Zenon DEF TokenTruth, OwnClauses
    <2>2. DOMAIN JwtTruth(Token, x) = JwtSvidClauses
      BY JwtTruthParts
    <2> QED
      BY <2>1, <2>2, Zenon
  <1>2. CASE inv.cmd # "jwt-svid"
    <2>1. TokenTruth(x) = WitTruth(Token, x) /\ OwnClauses(inv) = WitSvidClauses
      BY <1>2, Zenon DEF TokenTruth, OwnClauses
    <2>2. DOMAIN WitTruth(Token, x) = WitSvidClauses
      BY WitTruthParts
    <2> QED
      BY <2>1, <2>2, Zenon
  <1> QED
    BY <1>1, <1>2

LEMMA TruthIs ==
  ASSUME Decodes(Token), NEW x
  PROVE  /\ DOMAIN Truth(x) = OwnClauses(inv) \cup IdClausesOf(inv)
         /\ \A c \in OwnClauses(inv) : Truth(x)[c] = TokenTruth(x)[c]
         /\ \A c \in IdClausesOf(inv) : Truth(x)[c] = IdTruth(Token.payload.sub)[c]
  <1>1. DOMAIN TokenTruth(x) = OwnClauses(inv)
    BY OwnTruthIs
  <1>2. DOMAIN IdTruth(Token.payload.sub) = SpiffeIdClauses
    BY IdTruthParts
  <1>3. OwnClauses(inv) \cap SpiffeIdClauses = {}
    BY DocumentsApart DEF OwnClauses
  <1>4. HasSub <=> HasId(inv)
    BY DEF HasSub, HasId, Token
  <1>5. CASE HasId(inv)
    <2>1. Truth(x) = Together(TokenTruth(x), IdTruth(Token.payload.sub))
      BY <1>4, <1>5, Zenon DEF Truth
    <2>2. IdClausesOf(inv) = SpiffeIdClauses
      BY <1>5, Zenon DEF IdClausesOf
    <2> DEFINE f == TokenTruth(x)
               g == IdTruth(Token.payload.sub)
    <2>3. DOMAIN f \cap DOMAIN g = {}
      BY <1>1, <1>2, <1>3, Zenon
    <2> HIDE DEF f, g
    <2>4. /\ DOMAIN Together(f, g) = DOMAIN f \cup DOMAIN g
          /\ \A c \in DOMAIN f : Together(f, g)[c] = f[c]
          /\ \A c \in DOMAIN g : Together(f, g)[c] = g[c]
      BY <2>3, TogetherIs, Zenon
    <2>5. Truth(x) = Together(f, g)
      BY <2>1 DEF f, g
    <2>6. DOMAIN f = OwnClauses(inv) /\ DOMAIN g = IdClausesOf(inv)
      BY <1>1, <1>2, <2>2 DEF f, g
    <2>7. /\ DOMAIN Truth(x) = OwnClauses(inv) \cup IdClausesOf(inv)
          /\ \A c \in OwnClauses(inv) : Truth(x)[c] = f[c]
          /\ \A c \in IdClausesOf(inv) : Truth(x)[c] = g[c]
      BY <2>4, <2>5, <2>6
    <2> QED
      BY <2>7 DEF f, g
  <1>6. CASE ~HasId(inv)
    <2>1. Truth(x) = TokenTruth(x)
      BY <1>4, <1>6, Zenon DEF Truth
    <2>2. IdClausesOf(inv) = {}
      BY <1>6, Zenon DEF IdClausesOf
    <2> QED
      BY <2>1, <2>2, <1>1
  <1> QED
    BY <1>5, <1>6

\* What is made of exp at moment e.
LEMMA ExpTold ==
  ASSUME IInv, Decodes(Token), NEW e \in Lifetime, DateKept(Token.payload.exp)
  PROVE  LET exp == Token.payload.exp
         IN  /\ NotJudgedPast(inv, e) =>
                  exp \notin {None, Malformed} /\ exp \in Int /\ e - exp <= 2 * Leeway
             /\ ~NotJudgedPast(inv, e) => ~(exp \notin {None, Malformed} /\ exp >= e)
  <1> DEFINE exp == Token.payload.exp
  <1>1. exp \in {None, Malformed} \cup Int /\ inv.build \in Build /\ Token = inv.token
    BY TheToken DEF Claims, Token
  <1>2. e \in Nat /\ e > 2 * Leeway
    BY Moments
  <1>3. NotJudgedPast(inv, e) <=> exp \notin {None, Malformed} /\ ~IsPast(inv.build, exp, e)
    BY <1>1 DEF NotJudgedPast
  <1>4. CASE exp \in {None, Malformed}
    BY <1>3, <1>4
  <1>5. CASE exp \notin {None, Malformed}
    <2>1. exp \in Int /\ Representable(exp)
      BY <1>1, <1>5 DEF DateKept
    <2>2. IsPast(inv.build, exp, e) => exp < e
      BY <1>1, <1>2, <2>1, PastIsExact
    <2>3. ~IsPast(inv.build, exp, e) => e - exp <= 2 * Leeway
      BY <1>1, <1>2, <2>1, PastIsExact
    <2> HIDE DEF exp
    <2> QED
      BY <1>2, <1>3, <1>5, <2>1, <2>2, <2>3 DEF exp
  <1> QED
    BY <1>4, <1>5

\* What is made of nbf at moment n.
LEMMA NbfTold ==
  ASSUME IInv, Decodes(Token), NEW n \in Lifetime, DateKept(Token.payload.nbf)
  PROVE  LET nbf == Token.payload.nbf
         IN  /\ NotJudgedFuture(inv, n) =>
                  nbf \notin {None, Malformed} /\ nbf \in Int /\ nbf - n <= 2 * Leeway + 1
             /\ ~NotJudgedFuture(inv, n) => ~(nbf \notin {None, Malformed} /\ nbf <= n)
  <1> DEFINE nbf == Token.payload.nbf
  <1>1. nbf \in {None, Malformed} \cup Int /\ inv.build \in Build /\ Token = inv.token
    BY TheToken DEF Claims, Token
  <1>2. n \in Nat
    BY Moments
  <1>3. NotJudgedFuture(inv, n) <=> nbf \notin {None, Malformed} /\ ~IsFuture(inv.build, nbf, n)
    BY <1>1 DEF NotJudgedFuture
  <1>4. CASE nbf \in {None, Malformed}
    BY <1>3, <1>4
  <1>5. CASE nbf \notin {None, Malformed}
    <2>1. nbf \in Int /\ Representable(nbf)
      BY <1>1, <1>5 DEF DateKept
    <2>2. IsFuture(inv.build, nbf, n) => nbf > n + 2 * Leeway
      BY <1>1, <1>2, <2>1, FutureIsExact
    <2>3. ~IsFuture(inv.build, nbf, n) => nbf - n <= 2 * Leeway + 1
      BY <1>1, <1>2, <2>1, FutureIsExact
    <2> HIDE DEF nbf
    <2> QED
      BY <1>2, <1>3, <1>5, <2>1, <2>2, <2>3, WidthAssumption DEF nbf
  <1> QED
    BY <1>4, <1>5

\* The clauses about dates, at the moment x.
LEMMA DatedTruth ==
  ASSUME Decodes(Token), NEW x
  PROVE  LET p == Token.payload
         IN  /\ \A c \in OwnClauses(inv) \cap Expiry :
                  /\ c \in DOMAIN Truth(x)
                  /\ Truth(x)[c] <=> p.exp \notin {None, Malformed} /\ p.exp >= x
             /\ "WITNbfNotInFuture" \in OwnClauses(inv) =>
                  /\ "WITNbfNotInFuture" \in DOMAIN Truth(x)
                  /\ Truth(x)["WITNbfNotInFuture"]
                       <=> p.nbf \notin {None, Malformed} /\ p.nbf <= x
  <1>1. CASE inv.cmd = "jwt-svid"
    <2>1. OwnClauses(inv) = JwtSvidClauses /\ TokenTruth(x) = JwtTruth(Token, x)
      BY <1>1, Zenon DEF OwnClauses, TokenTruth
    <2>2. OwnClauses(inv) \cap Expiry = {"JWTExpNotInPast"}
      BY <2>1 DEF JwtSvidClauses, Expiry
    <2>3. "WITNbfNotInFuture" \notin OwnClauses(inv)
      BY <2>1 DEF JwtSvidClauses
    <2>4. /\ "JWTExpNotInPast" \in DOMAIN Truth(x)
          /\ Truth(x)["JWTExpNotInPast"] = JwtTruth(Token, x)["JWTExpNotInPast"]
      BY <2>1, <2>2, TruthIs
    <2>5. JwtTruth(Token, x)["JWTExpNotInPast"]
            <=> Token.payload.exp \notin {None, Malformed} /\ Token.payload.exp >= x
      BY JwtTruthParts
    <2> QED
      BY <2>2, <2>3, <2>4, <2>5
  <1>2. CASE inv.cmd # "jwt-svid"
    <2>1. OwnClauses(inv) = WitSvidClauses /\ TokenTruth(x) = WitTruth(Token, x)
      BY <1>2, Zenon DEF OwnClauses, TokenTruth
    <2>2. OwnClauses(inv) \cap Expiry = {"WITExpNotInPast"}
      BY <2>1 DEF WitSvidClauses, Expiry
    <2>3. "WITNbfNotInFuture" \in OwnClauses(inv)
      BY <2>1 DEF WitSvidClauses
    <2>4. /\ "WITExpNotInPast" \in DOMAIN Truth(x)
          /\ Truth(x)["WITExpNotInPast"] = WitTruth(Token, x)["WITExpNotInPast"]
          /\ "WITNbfNotInFuture" \in DOMAIN Truth(x)
          /\ Truth(x)["WITNbfNotInFuture"] = WitTruth(Token, x)["WITNbfNotInFuture"]
      BY <2>1, <2>2, <2>3, TruthIs
    <2>5. WitTruth(Token, x)["WITExpNotInPast"]
            <=> Token.payload.exp \notin {None, Malformed} /\ Token.payload.exp >= x
      BY WitTruthParts
    <2>6. WitTruth(Token, x)["WITNbfNotInFuture"]
            <=> Token.payload.nbf \notin {None, Malformed} /\ Token.payload.nbf <= x
      BY WitTruthParts
    <2> QED
      BY <2>2, <2>3, <2>4, <2>5, <2>6
  <1> QED
    BY <1>1, <1>2

\* A clause that is not about a date holds at one moment if it does at another.
LEMMA NotDated ==
  ASSUME NEW c, c \notin Dated, NEW x
  PROVE  HoldsWithLeeway(c, x) <=> Holds(c, x)
  <1>1. c \notin Expiry /\ c # "WITNbfNotInFuture"
    BY DEF Dated, Expiry
  <1> QED
    BY <1>1, Zenon DEF HoldsWithLeeway, Holds

LEMMA StaticTold ==
  ASSUME IInv, Decodes(Token), NEW e, NEW n, NEW x,
         NEW c \in OwnClauses(inv) \cup IdClausesOf(inv), c \notin Dated
  PROVE  /\ c \in ToldAt(inv, e, n) => Holds(c, x)
         /\ c \in DOMAIN Truth(x)
         /\ \/ Holds(c, x) => c \in ToldAt(inv, e, n)
            \/ c \in NewPathRules /\ HasRaw(Token.payload.sub.path)
  <1> DEFINE T == ToldAt(inv, e, n)
  <1>1. Token = inv.token
    BY DEF Token
  <1>2. c \in DOMAIN Truth(x)
    BY TruthIs
  <1>3. Holds(c, x) <=> Truth(x)[c]
    BY <1>2 DEF Holds
  <1>4. CASE c \in OwnClauses(inv) /\ inv.cmd = "jwt-svid"
    <2>1. c \in JwtSvidClauses /\ c # "JWTExpNotInPast"
      BY <1>4 DEF OwnClauses, Dated
    <2>2. JwtTold(inv, e, T)
      BY <1>1, <1>4, ToldIs
    <2>3. c \in T <=> JwtTruth(inv.token, e)[c]
      BY <2>1, <2>2, Zenon DEF JwtTold
    <2>4. Truth(x)[c] = JwtTruth(inv.token, x)[c]
      BY <1>1, <1>4, TruthIs, Zenon DEF TokenTruth
    <2>5. JwtTruth(inv.token, e)[c] <=> JwtTruth(inv.token, x)[c]
      BY <2>1, TimelessJwt
    <2> HIDE DEF T
    <2> QED
      BY <1>2, <1>3, <2>3, <2>4, <2>5, Zenon DEF T
  <1>5. CASE c \in OwnClauses(inv) /\ inv.cmd # "jwt-svid"
    <2>1. c \in WitSvidClauses /\ c # "WITExpNotInPast" /\ c # "WITNbfNotInFuture"
      BY <1>5 DEF OwnClauses, Dated
    <2>2. WitTold(inv, e, n, T)
      BY <1>1, <1>5, ToldIs
    <2>3. c \in T <=> WitTruth(inv.token, e)[c]
      BY <2>1, <2>2, Zenon DEF WitTold
    <2>4. Truth(x)[c] = WitTruth(inv.token, x)[c]
      BY <1>1, <1>5, TruthIs, Zenon DEF TokenTruth
    <2>5. WitTruth(inv.token, e)[c] <=> WitTruth(inv.token, x)[c]
      BY <2>1, TimelessWit
    <2> HIDE DEF T
    <2> QED
      BY <1>2, <1>3, <2>3, <2>4, <2>5, Zenon DEF T
  <1>6. CASE c \in IdClausesOf(inv)
    <2>1. HasId(inv) /\ c \in SpiffeIdClauses
      BY <1>6 DEF IdClausesOf
    <2>2. IdTold(Token.payload.sub, T)
      BY <1>1, <2>1, ToldIs
    <2>3. Truth(x)[c] = IdTruth(Token.payload.sub)[c]
      BY <1>6, TruthIs
    <2>4. /\ c \in T => IdTruth(Token.payload.sub)[c]
          /\ \/ IdTruth(Token.payload.sub)[c] => c \in T
             \/ c \in NewPathRules /\ HasRaw(Token.payload.sub.path)
      BY <2>1, <2>2, TheSub, IdToldIsTrue
    <2> HIDE DEF T
    <2> QED
      BY <1>2, <1>3, <2>3, <2>4, Zenon DEF T
  <1> QED
    BY <1>4, <1>5, <1>6

\* And a clause about a date within the leeway, or not to the letter.
LEMMA DatedTold ==
  ASSUME IInv, Decodes(Token), DatesKept, NEW e \in Lifetime, NEW n \in Lifetime,
         NEW c \in OwnClauses(inv), c \in Dated
  PROVE  /\ c \in Expiry /\ c \in ToldAt(inv, e, n) =>
              /\ Token.payload.exp \notin {None, Malformed} /\ Token.payload.exp \in Int
              /\ e - Token.payload.exp <= 2 * Leeway
         /\ c \in Expiry /\ c \notin ToldAt(inv, e, n) =>
              c \in DOMAIN Truth(e) /\ ~Holds(c, e)
         /\ c \notin Expiry => c = "WITNbfNotInFuture" /\ inv.cmd # "jwt-svid"
         /\ c \notin Expiry /\ c \in ToldAt(inv, e, n) =>
              /\ Token.payload.nbf \notin {None, Malformed} /\ Token.payload.nbf \in Int
              /\ Token.payload.nbf - n <= 2 * Leeway + 1
         /\ c \notin Expiry /\ c \notin ToldAt(inv, e, n) =>
              c \in DOMAIN Truth(n) /\ ~Holds(c, n)
  <1> DEFINE T == ToldAt(inv, e, n)
  <1>1. Token = inv.token
    BY DEF Token
  <1>2. CASE c \in Expiry
    <2>1. c \in T <=> NotJudgedPast(inv, e)
      <3>1. CASE inv.cmd = "jwt-svid"
        <4>1. c = "JWTExpNotInPast" /\ c \in JwtSvidClauses
          BY <1>2, <3>1 DEF OwnClauses, JwtSvidClauses, Expiry
        <4>2. JwtTold(inv, e, T)
          BY <1>1, <3>1, ToldIs
        <4> QED
          BY <4>1, <4>2, Zenon DEF JwtTold
      <3>2. CASE inv.cmd # "jwt-svid"
        <4>1. c = "WITExpNotInPast" /\ c \in WitSvidClauses
          BY <1>2, <3>2 DEF OwnClauses, WitSvidClauses, Expiry
        <4>2. WitTold(inv, e, n, T)
          BY <1>1, <3>2, ToldIs
        <4> QED
          BY <4>1, <4>2, Zenon DEF WitTold
      <3> QED
        BY <3>1, <3>2
    <2>2. DateKept(Token.payload.exp)
      BY DEF DatesKept
    <2>3. c \in DOMAIN Truth(e)
      BY <1>2, DatedTruth
    <2>4. Truth(e)[c] <=> Token.payload.exp \notin {None, Malformed} /\ Token.payload.exp >= e
      BY <1>2, DatedTruth
    <2>5. NotJudgedPast(inv, e) =>
            /\ Token.payload.exp \notin {None, Malformed} /\ Token.payload.exp \in Int
            /\ e - Token.payload.exp <= 2 * Leeway
      BY <2>2, ExpTold
    <2>6. ~NotJudgedPast(inv, e) => ~Truth(e)[c]
      BY <2>2, <2>4, ExpTold
    <2> HIDE DEF T
    <2> QED
      BY <1>2, <2>1, <2>3, <2>5, <2>6, Zenon DEF T, Holds
  <1>3. CASE c \notin Expiry
    <2>1. c = "WITNbfNotInFuture"
      BY <1>3 DEF Dated, Expiry
    <2>2. inv.cmd # "jwt-svid"
      BY <2>1 DEF OwnClauses, JwtSvidClauses
    <2>3. c \in T <=> NotJudgedFuture(inv, n)
      <3>1. c \in WitSvidClauses /\ c # "WITExpNotInPast"
        BY <2>1 DEF WitSvidClauses
      <3>2. WitTold(inv, e, n, T)
        BY <1>1, <2>2, ToldIs
      <3> QED
        BY <2>1, <3>1, <3>2, Zenon DEF WitTold
    <2>4. DateKept(Token.payload.nbf)
      <3>1. inv.cmd = "wit-svid"
        BY <2>2, TheToken
      <3> QED
        BY <3>1 DEF DatesKept
    <2>5. c \in DOMAIN Truth(n)
      BY <2>1, DatedTruth
    <2>6. Truth(n)[c] <=> Token.payload.nbf \notin {None, Malformed} /\ Token.payload.nbf <= n
      BY <2>1, DatedTruth
    <2>7. NotJudgedFuture(inv, n) =>
            /\ Token.payload.nbf \notin {None, Malformed} /\ Token.payload.nbf \in Int
            /\ Token.payload.nbf - n <= 2 * Leeway + 1
      BY <2>4, NbfTold
    <2>8. ~NotJudgedFuture(inv, n) => ~Truth(n)[c]
      BY <2>4, <2>6, NbfTold
    <2> HIDE DEF T
    <2> QED
      BY <1>3, <2>1, <2>2, <2>3, <2>5, <2>7, <2>8, Zenon DEF T, Holds
  <1> QED
    BY <1>2, <1>3

LEMMA LeewayOfExp ==
  ASSUME NEW c \in Expiry, NEW x, Token.payload.exp \notin {None, Malformed}
  PROVE  HoldsWithLeeway(c, x) <=> x - Token.payload.exp <= 2 * Leeway
  <1>1. c # "WITNbfNotInFuture"
    BY DEF Expiry
  <1> QED
    BY <1>1, Zenon DEF HoldsWithLeeway

LEMMA LeewayOfNbf ==
  ASSUME NEW x, Token.payload.nbf \notin {None, Malformed}
  PROVE  HoldsWithLeeway("WITNbfNotInFuture", x)
           <=> Token.payload.nbf - x <= 2 * Leeway + 1
  <1>1. "WITNbfNotInFuture" \notin Expiry
    BY DEF Expiry
  <1> QED
    BY <1>1, Zenon DEF HoldsWithLeeway

\* A line of the report, as ReportIsTruthful has it.
LEMMA LineIsTrue ==
  ASSUME IInv, Judging, NEW k \in DOMAIN report
  PROVE  LET c == report[k].clause
         IN  \/ IF report[k].status = "pass"
                THEN \E x \in Lifetime : HoldsWithLeeway(c, x)
                ELSE \E x \in Lifetime : c \in DOMAIN Truth(x) /\ ~Holds(c, x)
             \/ BlamesNewPath(Token.payload.sub, report[k])
             \/ c \in Expiry \cup {"WITNbfNotInFuture"} /\ ~DatesKept
  <1> DEFINE c == report[k].clause
  <1>1. PICK e, n \in Lifetime : Judges(report, SoFar(inv, pc), ToldAt(inv, e, n))
    BY DEF Judging
  <1> DEFINE T == ToldAt(inv, e, n)
  <1>2. c \in SoFar(inv, pc) /\ (report[k].status = "pass" <=> c \in T)
    BY <1>1, EachLine
  <1>3. Stage /\ Token = inv.token
    BY DEF Judging, Token
  <1>4. CASE ~Decodes(Token)
    <2>1. pc \in {"emit", "done"}
      BY <1>3, <1>4 DEF Stage
    <2>2. SoFar(inv, pc) = {CompactOf(inv)}
      BY <1>3, <1>4, <2>1, SoFarIs DEF Judged
    <2>3. T = {}
      BY <1>3, <1>4, Zenon DEF ToldAt
    <2>4. c = Compact
      BY <1>2, <2>2, TheToken
    <2>5. Truth(e) = [d \in {Compact} |-> FALSE]
      BY <1>4, Zenon DEF Truth
    <2>6. c \in DOMAIN Truth(e) /\ ~Truth(e)[c]
      BY <2>4, <2>5
    <2>7. c \in DOMAIN Truth(e) /\ ~Holds(c, e)
      BY <2>6 DEF Holds
    <2>8. report[k].status # "pass"
      BY <1>2, <2>3
    <2> HIDE DEF c, T
    <2> QED
      BY <2>7, <2>8 DEF c
  <1>5. CASE Decodes(Token) /\ c \notin Dated
    <2>1. c \in OwnClauses(inv) \cup IdClausesOf(inv)
      BY <1>2, <1>3, <1>5, SoFarIsOfTheDocuments
    <2>2. /\ c \in T => Holds(c, e)
          /\ c \in DOMAIN Truth(e)
          /\ \/ Holds(c, e) => c \in T
             \/ c \in NewPathRules /\ HasRaw(Token.payload.sub.path)
      BY <1>5, <2>1, StaticTold
    <2>3. HoldsWithLeeway(c, e) <=> Holds(c, e)
      BY <1>5, NotDated
    <2>4. c \in NewPathRules /\ HasRaw(Token.payload.sub.path) /\ report[k].status # "pass"
            => BlamesNewPath(Token.payload.sub, report[k])
      BY DEF BlamesNewPath, NewPathRules
    <2> HIDE DEF c, T
    <2> QED
      BY <1>2, <2>2, <2>3, <2>4 DEF c
  <1>6. CASE Decodes(Token) /\ c \in Dated /\ DatesKept
    <2>1. c \in OwnClauses(inv)
      <3>1. c \notin IdClausesOf(inv)
        BY <1>6 DEF Dated, IdClausesOf, SpiffeIdClauses
      <3> QED
        BY <1>2, <1>3, <1>6, <3>1, SoFarIsOfTheDocuments
    <2>2. CASE c \in Expiry
      <3>1. c \in T => /\ Token.payload.exp \notin {None, Malformed}
                       /\ e - Token.payload.exp <= 2 * Leeway
        BY <1>6, <2>1, <2>2, DatedTold
      <3>2. c \notin T => c \in DOMAIN Truth(e) /\ ~Holds(c, e)
        BY <1>6, <2>1, <2>2, DatedTold
      <3>3. c \in T => HoldsWithLeeway(c, e)
        BY <2>2, <3>1, LeewayOfExp
      <3> HIDE DEF c, T
      <3> QED
        BY <1>2, <3>2, <3>3 DEF c
    <2>3. CASE c \notin Expiry
      <3>1. c \in T => /\ Token.payload.nbf \notin {None, Malformed}
                       /\ Token.payload.nbf - n <= 2 * Leeway + 1
        BY <1>6, <2>1, <2>3, DatedTold
      <3>2. c \notin T => c \in DOMAIN Truth(n) /\ ~Holds(c, n)
        BY <1>6, <2>1, <2>3, DatedTold
      <3>3. c = "WITNbfNotInFuture"
        BY <1>6, <2>1, <2>3, DatedTold
      <3>4. c \in T => HoldsWithLeeway(c, n)
        BY <3>1, <3>3, LeewayOfNbf
      <3> HIDE DEF c, T
      <3> QED
        BY <1>2, <3>2, <3>4 DEF c
    <2> QED
      BY <2>2, <2>3
  <1>7. CASE c \in Dated /\ ~DatesKept
    BY <1>7 DEF Dated, Expiry
  <1> QED
    BY <1>4, <1>5, <1>6, <1>7

LEMMA CompactIsFatal == CompactOf(inv) \notin ShouldClauses
  BY DEF CompactOf, ShouldClauses

\* If no fatal clause was found not to hold, none that binds the token has been
\* left out.
LEMMA NothingFailed ==
  ASSUME IInv, NEW e, NEW n, \A c \in Judged(inv) \ ShouldClauses : c \in ToldAt(inv, e, n)
  PROVE  Decodes(Token) /\ Demanded \subseteq Judged(inv)
  <1> DEFINE T == ToldAt(inv, e, n)
             p == inv.token.payload
  <1>1. Token = inv.token
    BY DEF Token
  <1>2. Decodes(inv.token)
    <2>1. SUFFICES ASSUME ~Decodes(inv.token) PROVE FALSE
      OBVIOUS
    <2>2. Judged(inv) = {CompactOf(inv)} /\ T = {}
      BY <2>1, Zenon DEF Judged, ToldAt
    <2> QED
      BY <2>2, CompactIsFatal
  <1>3. ASSUME HasId(inv), IdJudged(p.sub) \subseteq Judged(inv)
        PROVE  IdJudged(p.sub) = SpiffeIdClauses
    <2>1. IdTold(p.sub, T)
      BY <1>2, <1>3, ToldIs
    <2>2. \A c \in IdJudged(p.sub) \ ShouldClauses : c \in T
      BY <1>3
    <2> QED
      BY <2>1, <2>2, IdLeavesOutForAReason
  <1>4. CASE inv.cmd = "jwt-svid"
    <2>1. Judged(inv) = JwtDone(inv)
      BY <1>2, <1>4, Zenon DEF Judged
    <2>2. JwtTold(inv, e, T)
      BY <1>2, <1>4, ToldIs
    <2>3. /\ "JWTSubPresent" \in JwtDone(inv) \ ShouldClauses
          /\ "JWTAudPresent" \in JwtDone(inv) \ ShouldClauses
          /\ "JWTExpPresent" \in JwtDone(inv) \ ShouldClauses
      BY DEF JwtDone, JwtAudDone, JwtSubDone, SubJudged, AudJudged, ExpJudged, ShouldClauses
    <2>4. "JWTSubPresent" \in T /\ "JWTAudPresent" \in T /\ "JWTExpPresent" \in T
      BY <2>1, <2>3
    <2> HIDE DEF T
    <2>5. p.sub \notin {None, Malformed}
      BY <2>2, <2>4, JwtTruthParts DEF JwtTold, JwtSvidClauses
    <2>6. p.exp # None
      BY <2>2, <2>4, JwtTruthParts DEF JwtTold, JwtSvidClauses
    <2>7. ExtractAud(p).values # << >>
      <3>1. JwtTruth(inv.token, e)["JWTAudPresent"]
        BY <2>2, <2>4 DEF JwtTold, JwtSvidClauses
      <3>2. Audiences(p.aud) # << >> /\ \A k \in DOMAIN Audiences(p.aud) : Audiences(p.aud)[k] = "set"
        BY <3>1, JwtTruthParts
      <3>3. Claims(p)
        BY <1>2, TheToken
      <3> QED
        BY <3>2, <3>3, AudienceFacts
    <2>8. SubJudged("JWTSubPresent", p) = {"JWTSubPresent"} \cup IdJudged(p.sub)
      BY <2>5, Zenon DEF SubJudged
    <2>9. AudJudged(p) = {"JWTAudPresent", "JWTAudSingleRecommended"}
      BY <2>7 DEF AudJudged
    <2>10. ExpJudged("JWTExpPresent", "JWTExpNotInPast", p) = {"JWTExpPresent", "JWTExpNotInPast"}
      BY <2>6 DEF ExpJudged
    <2>11. SpiffeIdClauses \subseteq JwtDone(inv)
      <3>1. IdJudged(p.sub) \subseteq JwtDone(inv)
        BY <2>8 DEF JwtDone, JwtAudDone, JwtSubDone
      <3>2. IdJudged(p.sub) = SpiffeIdClauses
        BY <1>3, <2>1, <2>5, <3>1 DEF HasId
      <3> QED
        BY <3>1, <3>2
    <2>12. Demanded = JwtDemands(inv.token) \cup SpiffeIdClauses
      BY <1>1, <1>2, <1>4, Zenon DEF Demanded
    <2>13. JwtDemands(inv.token) \subseteq JwtDone(inv)
      <3>1. JwtDone(inv) = JwtHeaderDone(inv) \cup SubJudged("JWTSubPresent", p)
                \cup AudJudged(p) \cup ExpJudged("JWTExpPresent", "JWTExpNotInPast", p)
        BY DEF JwtDone, JwtAudDone, JwtSubDone
      <3> QED
        BY <3>1, <2>8, <2>9, <2>10 DEF JwtDemands, JwtSvidClauses, JwtHeaderDone, JwtHeaderJudged
    <2> QED
      BY <1>1, <1>2, <2>1, <2>11, <2>12, <2>13
  <1>5. CASE inv.cmd # "jwt-svid"
    <2>1. Judged(inv) = WitDone(inv)
      BY <1>2, <1>5, Zenon DEF Judged
    <2>2. WitTold(inv, e, n, T)
      BY <1>2, <1>5, ToldIs
    <2>3. /\ "WITSubPresent" \in WitDone(inv) \ ShouldClauses
          /\ "WITCnfPresent" \in WitDone(inv) \ ShouldClauses
          /\ "WITExpPresent" \in WitDone(inv) \ ShouldClauses
      BY DEF WitDone, WitIssDone, WitNbfDone, WitExpDone, WitCnfDone, WitSubDone, SubJudged,
             CnfJudged, ExpJudged, ShouldClauses
    <2>4. "WITSubPresent" \in T /\ "WITCnfPresent" \in T /\ "WITExpPresent" \in T
      BY <2>1, <2>3
    <2> USE DEF T
    <2> HIDE DEF T
    <2>5. p.sub \notin {None, Malformed}
      BY <2>2, <2>4, WitTruthParts DEF WitTold, WitSvidClauses
    <2>6. p.exp # None
      BY <2>2, <2>4, WitTruthParts DEF WitTold, WitSvidClauses
    <2>7. p.cnf # None
      BY <2>2, <2>4, WitTruthParts DEF WitTold, WitSvidClauses
    <2>8. "WITCnfJWK" \in WitDone(inv) \ ShouldClauses
      BY <2>7 DEF WitDone, WitIssDone, WitNbfDone, WitExpDone, WitCnfDone, CnfJudged, ShouldClauses
    <2>9. "WITCnfJWK" \in T
      BY <2>1, <2>8 DEF T
    <2>10. IsJwk(p)
      BY <2>2, <2>9, WitTruthParts DEF WitTold, WitSvidClauses
    <2>11. SubJudged("WITSubPresent", p) = {"WITSubPresent"} \cup IdJudged(p.sub)
      BY <2>5, Zenon DEF SubJudged
    <2>12. CnfJudged(p) = {"WITCnfPresent", "WITCnfJWK", "WITCnfJWKPublic", "WITCnfJWKAlg"}
      BY <2>7, <2>10 DEF CnfJudged
    <2>13. ExpJudged("WITExpPresent", "WITExpNotInPast", p) = {"WITExpPresent", "WITExpNotInPast"}
      BY <2>6 DEF ExpJudged
    <2>14. SpiffeIdClauses \subseteq WitDone(inv)
      <3>1. IdJudged(p.sub) \subseteq WitDone(inv)
        BY <2>11 DEF WitDone, WitIssDone, WitNbfDone, WitExpDone, WitCnfDone, WitSubDone
      <3>2. IdJudged(p.sub) = SpiffeIdClauses
        BY <1>3, <2>1, <2>5, <3>1 DEF HasId
      <3> QED
        BY <3>1, <3>2
    <2>15. Demanded = WitDemands(inv.token) \cup SpiffeIdClauses
      BY <1>1, <1>2, <1>5, Zenon DEF Demanded
    <2>16. WitDemands(inv.token) \subseteq WitDone(inv)
      <3>1. WitDone(inv) = WitHeaderDone(inv) \cup SubJudged("WITSubPresent", p)
                \cup CnfJudged(p) \cup ExpJudged("WITExpPresent", "WITExpNotInPast", p)
                \cup NbfJudged(p) \cup IssJudged(p) \cup {"WITNoAud"}
        BY DEF WitDone, WitIssDone, WitNbfDone, WitExpDone, WitCnfDone, WitSubDone
      <3> QED
        BY <3>1, <2>11, <2>12, <2>13
           DEF WitDemands, WitSvidClauses, WitHeaderDone, WitHeaderJudged, NbfJudged, IssJudged
    <2> QED
      BY <1>1, <1>2, <2>1, <2>14, <2>15, <2>16
  <1> QED
    BY <1>4, <1>5

\* Every clause that was judged binds the token, the clauses of an ID perhaps
\* besides.
LEMMA JudgedIsDemanded ==
  ASSUME IInv
  PROVE  Judged(inv) \subseteq Demanded
  <1>1. Token = inv.token
    BY DEF Token
  <1>2. CASE ~Decodes(inv.token)
    <2>1. Judged(inv) = {CompactOf(inv)} /\ Demanded = {Compact}
      BY <1>1, <1>2, Zenon DEF Judged, Demanded
    <2> QED
      BY <2>1, TheToken
  <1>3. CASE Decodes(inv.token) /\ inv.cmd = "jwt-svid"
    <2>1. /\ Judged(inv) = JwtDone(inv)
          /\ Demanded = JwtDemands(inv.token) \cup SpiffeIdClauses
      BY <1>1, <1>3, Zenon DEF Judged, Demanded
    <2>2. IdClausesOf(inv) \subseteq SpiffeIdClauses
      BY DEF IdClausesOf
    <2>3. JwtDone(inv) \subseteq JwtSvidClauses \cup SpiffeIdClauses
      BY <2>2, JwtDoneIs
    <2>4. ASSUME inv.token.header.typ = None
          PROVE  "JWTTypValue" \notin JwtDone(inv)
      <3>1. "JWTTypValue" \notin JwtHeaderDone(inv)
        BY <2>4 DEF JwtHeaderDone, JwtHeaderJudged
      <3> QED
        BY <3>1, JwtParts DEF JwtDone, JwtAudDone, JwtSubDone, SpiffeIdClauses
    <2> QED
      BY <2>1, <2>3, <2>4 DEF JwtDemands
  <1>4. CASE Decodes(inv.token) /\ inv.cmd # "jwt-svid"
    <2>1. /\ Judged(inv) = WitDone(inv)
          /\ Demanded = WitDemands(inv.token) \cup SpiffeIdClauses
      BY <1>1, <1>4, Zenon DEF Judged, Demanded
    <2>2. IdClausesOf(inv) \subseteq SpiffeIdClauses
      BY DEF IdClausesOf
    <2>3. WitDone(inv) \subseteq WitSvidClauses \cup SpiffeIdClauses
      BY <2>2, WitDoneIs
    <2>4. /\ inv.token.payload.nbf = None => "WITNbfNotInFuture" \notin NbfJudged(inv.token.payload)
          /\ inv.token.payload.iss = None => "WITIssNotOIDC" \notin IssJudged(inv.token.payload)
      BY DEF NbfJudged, IssJudged
    <2>5. "WITNbfNotInFuture" \notin WitExpDone(inv)
      BY WitApart
    <2>6. "WITIssNotOIDC" \notin WitNbfDone(inv)
      BY WitParts DEF WitNbfDone, WitExpDone, WitCnfDone, WitSubDone, SpiffeIdClauses
    <2>7. /\ inv.token.payload.nbf = None => "WITNbfNotInFuture" \notin WitDone(inv)
          /\ inv.token.payload.iss = None => "WITIssNotOIDC" \notin WitDone(inv)
      BY <2>4, <2>5, <2>6, WitParts DEF WitDone, WitIssDone, WitNbfDone
    <2> QED
      BY <2>1, <2>3, <2>7 DEF WitDemands
  <1> QED
    BY <1>2, <1>3, <1>4

---------------------------------------------------------------------------
(* The properties.                                                         *)

LEMMA ExitCodes ==
  ASSUME NEW r, NEW format, NEW writable
  PROVE  /\ EmitOf(r, format, writable) \in {0, 1, 2}
         /\ EmitOf(r, format, writable) = 0 => ~Failed(r)
         /\ EmitOf(r, format, writable) = 1 => Failed(r)
         /\ EmitOf(r, format, writable) = 2 => ~Renders(format, writable)
  BY DEF EmitOf, ExitOf

LEMMA IInvTypeOK == IInv => TypeOK
  <1> SUFFICES ASSUME IInv PROVE TypeOK
    OBVIOUS
  <1>1. began \in StartTimes /\ clock \in began..MaxClock
    BY DEF IInv
  <1>2. CASE NotStarted
    BY <1>1, <1>2, Concatenation DEF NotStarted, TypeOK
  <1>3. CASE Refused
    BY <1>1, <1>3, Concatenation DEF Refused, TypeOK
  <1>4. CASE Judging
    <2>1. report \in Seq(Assertion)
      BY <1>4, EachLine DEF Judging
    <2>2. exit \in {-1, 0, 1, 2} /\ (exit # -1 <=> pc = "done")
      BY <1>4, ExitCodes DEF Judging, Stage
    <2> QED
      BY <1>1, <2>1, <2>2 DEF TypeOK
  <1> QED
    BY <1>2, <1>3, <1>4 DEF IInv

LEMMA IInvOneLine == IInv => OneLinePerClause
  <1> SUFFICES ASSUME IInv PROVE OneLinePerClause
    OBVIOUS
  <1>1. CASE report = << >>
    BY <1>1 DEF OneLinePerClause
  <1>2. CASE Judging
    BY <1>2, EachLine DEF Judging, OneLinePerClause
  <1> QED
    BY <1>1, <1>2 DEF IInv, NotStarted, Refused

LEMMA IInvTruthful == IInv => ReportIsTruthful
  <1> SUFFICES ASSUME IInv PROVE ReportIsTruthful
    OBVIOUS
  <1>1. CASE report = << >>
    BY <1>1 DEF ReportIsTruthful
  <1>2. CASE Judging
    BY <1>2, LineIsTrue DEF ReportIsTruthful
  <1> QED
    BY <1>1, <1>2 DEF IInv, NotStarted, Refused

\* At the end, with an exit code other than that of a usage error.
LEMMA AtTheEnd ==
  ASSUME IInv, pc = "done", inv.usable
  PROVE  /\ exit = EmitOf(report, inv.format, inv.writable)
         /\ Judging
         /\ \E e, n \in Lifetime : Judges(report, Judged(inv), ToldAt(inv, e, n))
  <1>1. Judging
    BY DEF IInv, NotStarted, Refused
  <1>2. SoFar(inv, pc) = Judged(inv)
    BY SoFarIs
  <1>3. exit = EmitOf(report, inv.format, inv.writable)
    BY <1>1 DEF Judging, Stage
  <1> QED
    BY <1>1, <1>2, <1>3, Zenon DEF Judging

LEMMA IInvNothingLeftOut == IInv => NothingLeftOut
  <1> SUFFICES ASSUME IInv, pc = "done", exit = 0 PROVE Demanded \subseteq Evaluated
    BY DEF NothingLeftOut
  <1>1. inv.usable
    BY DEF IInv, NotStarted, Refused, Judging, Stage
  <1>2. PICK e, n \in Lifetime : Judges(report, Judged(inv), ToldAt(inv, e, n))
    BY <1>1, AtTheEnd
  <1>3. ~Failed(report)
    BY <1>1, AtTheEnd, ExitCodes
  <1>4. \A c \in Judged(inv) \ ShouldClauses : c \in ToldAt(inv, e, n)
    BY <1>2, <1>3, JudgesFailed
  <1>5. Demanded \subseteq Judged(inv)
    BY <1>4, NothingFailed
  <1>6. Judged(inv) \subseteq Evaluated
    BY <1>2, EachLine DEF Evaluated
  <1> QED
    BY <1>5, <1>6

LEMMA MustsAre == Musts = Demanded \ ShouldClauses
  BY DEF Musts, Severity

\* The exp was read at e and the nbf at n; if the token has a validity period at
\* all, one moment between the two stands for both.
LEMMA OneMoment ==
  ASSUME IInv, NEW e \in Lifetime, NEW n \in Lifetime, NEW exp \in Int, NEW nbf \in Int,
         e - exp <= 2 * Leeway, nbf - n <= 2 * Leeway + 1, nbf <= exp
  PROVE  \E x \in Lifetime : x - exp <= 2 * Leeway /\ nbf - x <= 2 * Leeway + 1
  <1>1. /\ e \in Nat /\ n \in Nat /\ began \in Nat /\ clock \in Nat
        /\ began <= e /\ e <= clock /\ began <= n /\ n <= clock
    BY Moments DEF Lifetime
  <1>2. CASE nbf - e <= 2 * Leeway + 1
    BY <1>2
  <1>3. CASE nbf - e > 2 * Leeway + 1
    <2> DEFINE x == nbf - (2 * Leeway + 1)
    <2>1. x \in Int /\ x > e /\ x <= n
      BY <1>1, <1>3, WidthAssumption
    <2>2. x \in Lifetime
      BY <1>1, <2>1 DEF Lifetime
    <2>3. x - exp <= 2 * Leeway /\ nbf - x <= 2 * Leeway + 1
      BY WidthAssumption
    <2> QED
      BY <2>2, <2>3
  <1> QED
    BY <1>1, <1>2, <1>3, WidthAssumption

\* Passing: a moment at which every MUST held.
LEMMA PassesAtAMoment ==
  ASSUME IInv, DatesKept, Orderly, NEW e \in Lifetime, NEW n \in Lifetime,
         \A c \in Judged(inv) \ ShouldClauses : c \in ToldAt(inv, e, n)
  PROVE  \E x \in Lifetime : \A c \in Musts : HoldsWithLeeway(c, x)
  <1> DEFINE p == Token.payload
             T == ToldAt(inv, e, n)
  <1>1. Decodes(Token) /\ Demanded \subseteq Judged(inv) /\ Token = inv.token
    BY NothingFailed DEF Token
  <1>2. \A c \in Musts : c \in T
    BY <1>1, MustsAre
  <1>3. Musts \subseteq OwnClauses(inv) \cup IdClausesOf(inv)
    <2>1. CASE inv.cmd = "jwt-svid"
      <3>1. Judged(inv) = JwtDone(inv) /\ OwnClauses(inv) = JwtSvidClauses
        BY <1>1, <2>1, Zenon DEF Judged, OwnClauses
      <3> QED
        BY <1>1, <3>1, MustsAre, JwtDoneIs
    <2>2. CASE inv.cmd # "jwt-svid"
      <3>1. Judged(inv) = WitDone(inv) /\ OwnClauses(inv) = WitSvidClauses
        BY <1>1, <2>2, Zenon DEF Judged, OwnClauses
      <3> QED
        BY <1>1, <3>1, MustsAre, WitDoneIs
    <2> QED
      BY <2>1, <2>2
  <1>4. ASSUME NEW c \in Musts, c \notin Dated, NEW x
        PROVE  HoldsWithLeeway(c, x)
    <2>1. Holds(c, x)
      BY <1>1, <1>2, <1>3, <1>4, StaticTold
    <2> QED
      BY <1>4, <2>1, NotDated
  <1>5. ASSUME NEW c \in Musts, c \in Dated
        PROVE  c \in OwnClauses(inv)
    BY <1>3, <1>5 DEF Dated, IdClausesOf, SpiffeIdClauses
  <1>6. ASSUME NEW c \in Musts, c \in Expiry
        PROVE  p.exp \notin {None, Malformed} /\ p.exp \in Int /\ e - p.exp <= 2 * Leeway
    <2>1. c \in Dated
      BY <1>6 DEF Dated, Expiry
    <2> HIDE DEF p, T
    <2> QED
      BY <1>1, <1>2, <1>5, <1>6, <2>1, DatedTold DEF p, T
  <1>7. ASSUME "WITNbfNotInFuture" \in Musts
        PROVE  /\ p.nbf \notin {None, Malformed} /\ p.nbf \in Int
               /\ p.nbf - n <= 2 * Leeway + 1
               /\ inv.cmd # "jwt-svid"
    <2>1. "WITNbfNotInFuture" \in Dated /\ "WITNbfNotInFuture" \notin Expiry
      BY DEF Dated, Expiry
    <2> HIDE DEF p, T
    <2> QED
      BY <1>1, <1>2, <1>5, <1>7, <2>1, DatedTold DEF p, T
  <1>8. Dated = Expiry \cup {"WITNbfNotInFuture"}
    BY DEF Dated, Expiry
  <1> HIDE DEF T
  <1>9. CASE "WITNbfNotInFuture" \notin Musts
    <2>1. ASSUME NEW c \in Musts
          PROVE  HoldsWithLeeway(c, e)
      <3>1. CASE c \in Expiry
        BY <1>6, <3>1, LeewayOfExp
      <3>2. CASE c \notin Expiry
        BY <1>4, <1>8, <1>9, <3>2
      <3> QED
        BY <3>1, <3>2
    <2> QED
      BY <2>1
  <1>10. CASE "WITNbfNotInFuture" \in Musts /\ \A c \in Expiry : c \notin Musts
    <2>1. ASSUME NEW c \in Musts
          PROVE  HoldsWithLeeway(c, n)
      <3>1. CASE c = "WITNbfNotInFuture"
        BY <1>7, <3>1, LeewayOfNbf
      <3>2. CASE c # "WITNbfNotInFuture"
        BY <1>4, <1>8, <1>10, <3>2
      <3> QED
        BY <3>1, <3>2
    <2> QED
      BY <2>1
  <1>11. CASE "WITNbfNotInFuture" \in Musts /\ \E c \in Expiry : c \in Musts
    <2>1. p.exp \notin {None, Malformed} /\ p.exp \in Int /\ e - p.exp <= 2 * Leeway
      BY <1>6, <1>11
    <2>2. /\ p.nbf \notin {None, Malformed} /\ p.nbf \in Int
          /\ p.nbf - n <= 2 * Leeway + 1
      BY <1>7, <1>11
    <2>3. inv.cmd = "wit-svid"
      BY <1>7, <1>11, TheToken
    <2>4. p.nbf <= p.exp
      BY <1>1, <2>1, <2>2, <2>3 DEF Orderly
    <2> HIDE DEF p
    <2>5. PICK x \in Lifetime : x - p.exp <= 2 * Leeway /\ p.nbf - x <= 2 * Leeway + 1
      BY <2>1, <2>2, <2>4, OneMoment
    <2> USE DEF p
    <2>6. ASSUME NEW c \in Musts
          PROVE  HoldsWithLeeway(c, x)
      <3>1. CASE c = "WITNbfNotInFuture"
        BY <2>2, <2>5, <3>1, LeewayOfNbf
      <3>2. CASE c \in Expiry
        BY <2>1, <2>5, <3>2, LeewayOfExp
      <3>3. CASE c \notin Dated
        BY <1>4, <3>3
      <3> QED
        BY <1>8, <3>1, <3>2, <3>3
    <2> QED
      BY <2>6
  <1> QED
    BY <1>9, <1>10, <1>11

\* Failing: a moment at which some MUST did not.
LEMMA FailsAtAMoment ==
  ASSUME IInv, DatesKept, NEW e \in Lifetime, NEW n \in Lifetime,
         NEW c \in Judged(inv) \ ShouldClauses, c \notin ToldAt(inv, e, n)
  PROVE  \E x \in Lifetime : \E d \in Musts : ~Holds(d, x)
  <1>1. c \in Musts
    BY JudgedIsDemanded, MustsAre
  <1>2. Token = inv.token
    BY DEF Token
  <1>3. CASE ~Decodes(Token)
    <2>1. c = Compact
      <3>1. Judged(inv) = {CompactOf(inv)}
        BY <1>2, <1>3, Zenon DEF Judged
      <3> QED
        BY <3>1, TheToken
    <2>2. Truth(e) = [d \in {Compact} |-> FALSE]
      BY <1>3, Zenon DEF Truth
    <2>3. ~Truth(e)[c]
      BY <2>1, <2>2
    <2>4. ~Holds(c, e)
      BY <2>3 DEF Holds
    <2> QED
      BY <1>1, <2>4
  <1>4. CASE Decodes(Token)
    <2>1. c \in OwnClauses(inv) \cup IdClausesOf(inv)
      <3>1. CASE inv.cmd = "jwt-svid"
        <4>1. Judged(inv) = JwtDone(inv) /\ OwnClauses(inv) = JwtSvidClauses
          BY <1>2, <1>4, <3>1, Zenon DEF Judged, OwnClauses
        <4> QED
          BY <4>1, JwtDoneIs
      <3>2. CASE inv.cmd # "jwt-svid"
        <4>1. Judged(inv) = WitDone(inv) /\ OwnClauses(inv) = WitSvidClauses
          BY <1>2, <1>4, <3>2, Zenon DEF Judged, OwnClauses
        <4> QED
          BY <4>1, WitDoneIs
      <3> QED
        BY <3>1, <3>2
    <2>2. CASE c \in OwnClauses(inv) /\ c \in Dated
      <3>1. (c \in Expiry => ~Holds(c, e)) /\ (c \notin Expiry => ~Holds(c, n))
        BY <1>4, <2>2, DatedTold
      <3> QED
        BY <1>1, <3>1
    <2>3. CASE c \in OwnClauses(inv) /\ c \notin Dated
      <3>1. c \notin NewPathRules
        BY <2>3 DEF OwnClauses, JwtSvidClauses, WitSvidClauses, NewPathRules
      <3>2. ~Holds(c, e)
        BY <1>4, <2>3, <3>1, StaticTold
      <3> QED
        BY <1>1, <3>2
    <2>4. CASE c \in IdClausesOf(inv)
      <3>1. HasId(inv) /\ c \in SpiffeIdClauses
        BY <2>4 DEF IdClausesOf
      <3>2. IdTold(Token.payload.sub, ToldAt(inv, e, n))
        BY <1>2, <1>4, <3>1, ToldIs
      <3>3. PICK d \in SpiffeIdClauses \ ShouldClauses : ~IdTruth(Token.payload.sub)[d]
        BY <1>4, <3>1, <3>2, TheSub, IdFailsForAReason
      <3>4. d \in IdClausesOf(inv)
        BY <3>1, <3>3 DEF IdClausesOf
      <3>5. Truth(e)[d] = IdTruth(Token.payload.sub)[d]
        BY <1>4, <3>4, TruthIs
      <3>6. ~Holds(d, e)
        BY <3>3, <3>5 DEF Holds
      <3>7. d \in Musts
        BY <1>4, <3>3, MustsAre DEF Demanded
      <3> QED
        BY <3>6, <3>7
    <2> QED
      BY <2>1, <2>2, <2>3, <2>4
  <1> QED
    BY <1>3, <1>4

LEMMA IInvVerdict == IInv => VerdictAtAMoment
  <1> SUFFICES ASSUME IInv, pc = "done", inv.usable, DatesKept, Orderly
               PROVE  /\ exit = 0 => \E x \in Lifetime : \A c \in Musts : HoldsWithLeeway(c, x)
                      /\ exit = 1 => \E x \in Lifetime : \E c \in Musts : ~Holds(c, x)
                      /\ exit = 2 => ~Renders(inv.format, inv.writable)
    BY DEF VerdictAtAMoment
  <1>1. PICK e, n \in Lifetime : Judges(report, Judged(inv), ToldAt(inv, e, n))
    BY AtTheEnd
  <1>2. Failed(report) <=> \E c \in Judged(inv) \ ShouldClauses : c \notin ToldAt(inv, e, n)
    BY <1>1, JudgesFailed
  <1>3. exit = 0 => \E x \in Lifetime : \A c \in Musts : HoldsWithLeeway(c, x)
    <2> SUFFICES ASSUME exit = 0
                 PROVE  \E x \in Lifetime : \A c \in Musts : HoldsWithLeeway(c, x)
      OBVIOUS
    <2>1. ~Failed(report)
      BY AtTheEnd, ExitCodes
    <2> QED
      BY <1>2, <2>1, PassesAtAMoment
  <1>4. exit = 1 => \E x \in Lifetime : \E c \in Musts : ~Holds(c, x)
    <2> SUFFICES ASSUME exit = 1
                 PROVE  \E x \in Lifetime : \E c \in Musts : ~Holds(c, x)
      OBVIOUS
    <2>1. Failed(report)
      BY AtTheEnd, ExitCodes
    <2> QED
      BY <1>2, <2>1, FailsAtAMoment
  <1>5. exit = 2 => ~Renders(inv.format, inv.writable)
    BY AtTheEnd, ExitCodes
  <1> QED
    BY <1>3, <1>4, <1>5

\* The types of the state, and an exit code exactly when the command has ended.
THEOREM TypeCorrect == Spec => []TypeOK
  BY IInvHolds, IInvTypeOK, PTL

\* The sweep never judges a clause twice.
THEOREM OneLineEach == Spec => []OneLinePerClause
  BY IInvHolds, IInvOneLine, PTL

\* Each line is true of the token at a moment of the run.
THEOREM Truthful == Spec => []ReportIsTruthful
  BY IInvHolds, IInvTruthful, PTL

\* Exit 0 is earned: the early returns all come after a failed MUST.
THEOREM NoneLeftOut == Spec => []NothingLeftOut
  BY IInvHolds, IInvNothingLeftOut, PTL

\* Although exp and nbf are read at two moments, the exit code is a verdict on
\* one moment of the run.
THEOREM OneMomentVerdict == Spec => []VerdictAtAMoment
  BY IInvHolds, IInvVerdict, PTL
=============================================================================
