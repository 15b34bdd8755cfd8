----------------------------- MODULE SweepProofs -----------------------------
(***************************************************************************)
(* For every command line of `scc id` and `scc x509-svid`, every text and  *)
(* every certificate: the report is true, complete when the exit code is   *)
(* 0, and without doubles, and the exit code is the verdict.  The argument *)
(* is that at every step what is in the report and what is ahead are       *)
(* together one fixed report (IInv), and that report is a verdict on the   *)
(* artifact (WholeJudges).                                                 *)
(***************************************************************************)
EXTENDS SweepCommand, ReportProofs

---------------------------------------------------------------------------
(* x509svid.Check: the clauses it judges, for every certificate.           *)

\* T holds the clauses of X509-SVID.md that are true of c.
SvidTold(c, T) ==
    /\ "X509URISANCountOne" \in T <=> Len(c.uris) = 1
    /\ "X509LeafCAFalse" \in T <=> c.bcValid /\ ~c.isCA
    /\ "X509SigningCATrue" \in T <=> c.bcValid /\ c.isCA
    /\ "X509KeyUsageCritical" \in T <=> c.kuExt = "critical"
    /\ "X509LeafDigitalSignature" \in T <=> "digitalSignature" \in c.ku
    /\ "X509LeafNoKeyCertSign" \in T
          <=> "keyCertSign" \notin c.ku /\ "cRLSign" \notin c.ku
    /\ "X509SigningKeyCertSign" \in T <=> "keyCertSign" \in c.ku
    /\ "X509SigningNoOtherKeyUsage" \in T <=> c.ku \ {"keyCertSign", "cRLSign"} = {}
    /\ "X509LeafEKURecommended" \in T <=> HasEKU(c)
    /\ "X509EKUServerAndClient" \in T <=> "serverAuth" \in c.eku /\ "clientAuth" \in c.eku
    /\ "X509SANCriticalWhenNoSubject" \in T <=> c.sanExt = "critical"
    /\ "X509LeafNonRootPath" \in T
          <=> Len(c.uris) = 1 /\ c.uris[1].path \notin {<< >>, <<"empty">>}
    /\ "X509SigningNoPath" \in T
          <=> Len(c.uris) = 1 /\ c.uris[1].path \in {<< >>, <<"empty">>}

\* What each check comes to.
BasicJudged(c) == IF c.isCA THEN {"X509SigningCATrue"} ELSE {"X509LeafCAFalse"}

KeyUsageJudged(c) ==
    {"X509KeyUsageCritical"}
    \cup IF c.kuExt = "absent" THEN {}
         ELSE IF c.isCA THEN {"X509SigningKeyCertSign", "X509SigningNoOtherKeyUsage"}
              ELSE {"X509LeafDigitalSignature", "X509LeafNoKeyCertSign"}

EKUJudged(c) ==
    IF c.isCA THEN {}
    ELSE {"X509LeafEKURecommended"} \cup IF HasEKU(c) THEN {"X509EKUServerAndClient"} ELSE {}

SANJudged(c) ==
    IF c.subject # NoName \/ c.sanExt = "absent" THEN {} ELSE {"X509SANCriticalWhenNoSubject"}

PathJudged(c, t) ==
    IF ~ParseSucceeds(t) THEN {}
    ELSE IF c.isCA THEN {"X509SigningNoPath"} ELSE {"X509LeafNonRootPath"}

LEMMA SvidClauses == X509SvidClauses \subseteq Clause
  BY DEF Clause

LEMMA URISANJudges ==
  ASSUME NEW c, NEW T, SvidTold(c, T)
  PROVE  Judges(CheckURISAN(c), {"X509URISANCountOne"}, T)
  <1>1. "X509URISANCountOne" \in Clause
    BY SvidClauses DEF X509SvidClauses
  <1>2. Len(c.uris) = 1 <=> "X509URISANCountOne" \in T
    BY DEF SvidTold
  <1> QED
    BY <1>1, <1>2, JudgeJudges, Zenon DEF CheckURISAN

LEMMA BasicConstraintsJudges ==
  ASSUME NEW c, NEW T, SvidTold(c, T)
  PROVE  Judges(CheckBasicConstraints(c), BasicJudged(c), T)
  <1>1. "X509LeafCAFalse" \in Clause /\ "X509SigningCATrue" \in Clause
    BY SvidClauses DEF X509SvidClauses
  <1>2. /\ (c.bcValid /\ ~c.isCA) <=> "X509LeafCAFalse" \in T
        /\ (c.bcValid /\ c.isCA) <=> "X509SigningCATrue" \in T
    BY DEF SvidTold
  <1>3. /\ Judges(Judge("X509LeafCAFalse", c.bcValid /\ ~c.isCA, ""), {"X509LeafCAFalse"}, T)
        /\ Judges(Judge("X509SigningCATrue", c.bcValid /\ c.isCA, ""), {"X509SigningCATrue"}, T)
    BY <1>1, <1>2, JudgeJudges, Zenon
  <1> QED
    BY <1>3, Zenon DEF CheckBasicConstraints, IsLeaf, BasicJudged

LEMMA KeyUsageJudges ==
  ASSUME NEW c, NEW T, SvidTold(c, T)
  PROVE  Judges(CheckKeyUsage(c), KeyUsageJudged(c), T)
  <1> DEFINE j1 == Judge("X509KeyUsageCritical", c.kuExt = "critical", "")
             j2 == Judge("X509LeafDigitalSignature", "digitalSignature" \in c.ku, "")
             j3 == Judge("X509LeafNoKeyCertSign",
                         c.ku \cap {"keyCertSign", "cRLSign"} = {}, "")
             j4 == Judge("X509SigningKeyCertSign", "keyCertSign" \in c.ku, "")
             j5 == Judge("X509SigningNoOtherKeyUsage",
                         c.ku \subseteq {"keyCertSign", "cRLSign"}, "")
  <1>1. /\ "X509KeyUsageCritical" \in Clause /\ "X509LeafDigitalSignature" \in Clause
        /\ "X509LeafNoKeyCertSign" \in Clause /\ "X509SigningKeyCertSign" \in Clause
        /\ "X509SigningNoOtherKeyUsage" \in Clause
    BY SvidClauses DEF X509SvidClauses
  <1>2. /\ c.kuExt = "critical" <=> "X509KeyUsageCritical" \in T
        /\ "digitalSignature" \in c.ku <=> "X509LeafDigitalSignature" \in T
        /\ "keyCertSign" \in c.ku <=> "X509SigningKeyCertSign" \in T
    BY DEF SvidTold
  <1>3. c.ku \cap {"keyCertSign", "cRLSign"} = {} <=> "X509LeafNoKeyCertSign" \in T
    BY DEF SvidTold
  <1>4. c.ku \subseteq {"keyCertSign", "cRLSign"} <=> "X509SigningNoOtherKeyUsage" \in T
    BY DEF SvidTold
  <1>5. /\ Judges(j1, {"X509KeyUsageCritical"}, T)
        /\ Judges(j2, {"X509LeafDigitalSignature"}, T)
        /\ Judges(j4, {"X509SigningKeyCertSign"}, T)
    BY <1>1, <1>2, JudgeJudges, Zenon
  <1>6. Judges(j3, {"X509LeafNoKeyCertSign"}, T)
    BY <1>1, <1>3, JudgeJudges, Zenon
  <1>7. Judges(j5, {"X509SigningNoOtherKeyUsage"}, T)
    BY <1>1, <1>4, JudgeJudges, Zenon
  <1>8. /\ c.kuExt = "absent" => CheckKeyUsage(c) = j1 \o << >>
        /\ c.kuExt # "absent" /\ ~c.isCA => CheckKeyUsage(c) = j1 \o (j2 \o j3)
        /\ c.kuExt # "absent" /\ c.isCA => CheckKeyUsage(c) = j1 \o (j4 \o j5)
    BY Zenon DEF CheckKeyUsage, IsLeaf
  <1> HIDE DEF j1, j2, j3, j4, j5
  <1>9. CASE c.kuExt = "absent"
    <2>1. Judges(j1 \o << >>, {"X509KeyUsageCritical"} \cup {}, T)
      BY <1>5, NoneJudges, BothJudge
    <2> QED
      BY <2>1, <1>8, <1>9, Zenon DEF KeyUsageJudged
  <1>10. CASE c.kuExt # "absent" /\ ~c.isCA
    <2>1. Judges(j1 \o (j2 \o j3),
                 {"X509KeyUsageCritical"}
                 \cup ({"X509LeafDigitalSignature"} \cup {"X509LeafNoKeyCertSign"}), T)
      BY <1>5, <1>6, BothJudge
    <2>2. KeyUsageJudged(c) = {"X509KeyUsageCritical"}
                 \cup ({"X509LeafDigitalSignature"} \cup {"X509LeafNoKeyCertSign"})
      BY <1>10 DEF KeyUsageJudged
    <2> QED
      BY <2>1, <2>2, <1>8, <1>10, Zenon
  <1>11. CASE c.kuExt # "absent" /\ c.isCA
    <2>1. Judges(j1 \o (j4 \o j5),
                 {"X509KeyUsageCritical"}
                 \cup ({"X509SigningKeyCertSign"} \cup {"X509SigningNoOtherKeyUsage"}), T)
      BY <1>5, <1>7, BothJudge
    <2>2. KeyUsageJudged(c) = {"X509KeyUsageCritical"}
                 \cup ({"X509SigningKeyCertSign"} \cup {"X509SigningNoOtherKeyUsage"})
      BY <1>11 DEF KeyUsageJudged
    <2> QED
      BY <2>1, <2>2, <1>8, <1>11, Zenon
  <1> QED
    BY <1>9, <1>10, <1>11

LEMMA EKUJudges ==
  ASSUME NEW c, NEW T, SvidTold(c, T)
  PROVE  Judges(CheckEKU(c), EKUJudged(c), T)
  <1> DEFINE none == Fail("X509LeafEKURecommended", "")
             some == Pass("X509LeafEKURecommended", "")
             both == Judge("X509EKUServerAndClient",
                           {"serverAuth", "clientAuth"} \subseteq c.eku, "")
  <1>1. "X509LeafEKURecommended" \in Clause /\ "X509EKUServerAndClient" \in Clause
    BY SvidClauses DEF X509SvidClauses
  <1>2. HasEKU(c) <=> "X509LeafEKURecommended" \in T
    BY DEF SvidTold
  <1>3. {"serverAuth", "clientAuth"} \subseteq c.eku <=> "X509EKUServerAndClient" \in T
    BY DEF SvidTold
  <1>4. /\ c.isCA => CheckEKU(c) = << >>
        /\ ~c.isCA /\ ~HasEKU(c) => CheckEKU(c) = none
        /\ ~c.isCA /\ HasEKU(c) => CheckEKU(c) = some \o both
    BY Zenon DEF CheckEKU, IsLeaf, HasEKU
  <1>5. CASE c.isCA
    BY <1>4, <1>5, NoneJudges, Zenon DEF EKUJudged
  <1>6. CASE ~c.isCA /\ ~HasEKU(c)
    <2>1. Judges(none, {"X509LeafEKURecommended"}, T)
      BY <1>1, <1>2, <1>6, FailJudges, Zenon
    <2>2. EKUJudged(c) = {"X509LeafEKURecommended"}
      BY <1>6 DEF EKUJudged
    <2> QED
      BY <2>1, <2>2, <1>4, <1>6, Zenon
  <1>7. CASE ~c.isCA /\ HasEKU(c)
    <2>1. Judges(some, {"X509LeafEKURecommended"}, T)
      BY <1>1, <1>2, <1>7, PassJudges, Zenon
    <2>2. Judges(both, {"X509EKUServerAndClient"}, T)
      BY <1>1, <1>3, JudgeJudges, Zenon
    <2> HIDE DEF some, both
    <2>3. Judges(some \o both, {"X509LeafEKURecommended"} \cup {"X509EKUServerAndClient"}, T)
      BY <2>1, <2>2, BothJudge
    <2>4. EKUJudged(c) = {"X509LeafEKURecommended"} \cup {"X509EKUServerAndClient"}
      BY <1>7 DEF EKUJudged
    <2> QED
      BY <2>3, <2>4, <1>4, <1>7, Zenon
  <1> QED
    BY <1>5, <1>6, <1>7

LEMMA SANCriticalJudges ==
  ASSUME NEW c, NEW T, SvidTold(c, T)
  PROVE  Judges(CheckSANCritical(c), SANJudged(c), T)
  <1>1. "X509SANCriticalWhenNoSubject" \in Clause
    BY SvidClauses DEF X509SvidClauses
  <1>2. c.sanExt = "critical" <=> "X509SANCriticalWhenNoSubject" \in T
    BY DEF SvidTold
  <1>3. Judges(Judge("X509SANCriticalWhenNoSubject", c.sanExt = "critical", ""),
               {"X509SANCriticalWhenNoSubject"}, T)
    BY <1>1, <1>2, JudgeJudges, Zenon
  <1> QED
    BY <1>3, NoneJudges, Zenon DEF CheckSANCritical, SANJudged

---------------------------------------------------------------------------
(* The URI as it was written, and as checkSPIFFEID prints it.              *)

LEMMA ReserialisedIs ==
  ASSUME NEW u \in IdText
  PROVE  /\ Reserialised(u).parses = u.parses /\ Reserialised(u).scheme = u.scheme
         /\ Reserialised(u).user = u.user /\ Reserialised(u).td = u.td
         /\ Reserialised(u).colon = u.colon /\ Reserialised(u).query = u.query
         /\ Reserialised(u).long = u.longString
         /\ Reserialised(u).path = EscapedPath(u)
         /\ EscapedPath(Reserialised(u)) = EscapedPath(u)
         /\ Reserialised(u).fragment = IF u.fragment = "empty" THEN "none" ELSE u.fragment
  BY DEF IdText, Reserialised, EscapedPath

\* On the way to id.Check a SAN loses a "#" with nothing after it, and its length
\* becomes another.
AsWritten(u, T) ==
    {c \in SpiffeIdClauses :
        CASE c = "IDNoQueryFragment" -> c \in T /\ u.fragment # "empty"
          [] c = "IDLengthLimit" -> ~u.long
          [] OTHER -> c \in T}

LEMMA AsWrittenIs ==
  ASSUME NEW u, NEW T
  PROVE  /\ \A c \in SpiffeIdClauses \ {"IDNoQueryFragment", "IDLengthLimit"} :
               c \in AsWritten(u, T) <=> c \in T
         /\ "IDNoQueryFragment" \in AsWritten(u, T)
               <=> "IDNoQueryFragment" \in T /\ u.fragment # "empty"
         /\ "IDLengthLimit" \in AsWritten(u, T) <=> ~u.long
  BY DEF AsWritten, SpiffeIdClauses

LEMMA ReserialisedTold ==
  ASSUME NEW u \in IdText, NEW T, IdTold(Reserialised(u), T)
  PROVE  IdTold(u, AsWritten(u, T))
  <1> DEFINE W == AsWritten(u, T)
  <1>a. PICK t : t = Reserialised(u)
    OBVIOUS
  <1>b. PICK p : p = EscapedPath(u)
    OBVIOUS
  <1>1. /\ t.parses = u.parses /\ t.scheme = u.scheme /\ t.user = u.user /\ t.td = u.td
        /\ t.colon = u.colon /\ t.query = u.query
        /\ t.fragment = IF u.fragment = "empty" THEN "none" ELSE u.fragment
        /\ EscapedPath(t) = p
    BY <1>a, <1>b, ReserialisedIs
  <1>2. IdTold(t, T)
    BY <1>a
  <1>3. "IDNoQueryFragment" \in W <=> u.query = "none" /\ u.fragment = "none"
    <2>1. "IDNoQueryFragment" \in T <=> t.query = "none" /\ t.fragment = "none"
      BY <1>2 DEF IdTold
    <2>2. "IDNoQueryFragment" \in W <=> "IDNoQueryFragment" \in T /\ u.fragment # "empty"
      BY AsWrittenIs
    <2> HIDE DEF W
    <2> QED
      BY <2>1, <2>2, <1>1
  <1>4. "IDLengthLimit" \in W <=> ~u.long
    BY AsWrittenIs
  <1>5. /\ "IDPathNoPercent" \in T <=> \A i \in DOMAIN p : p[i] # "percent"
        /\ "IDPathNoEmptyOrDot" \in T <=> \A i \in DOMAIN p : p[i] \notin {"empty", "dot"}
        /\ "IDPathNoTrailingSlash" \in T <=> p = << >> \/ p[Len(p)] # "empty"
        /\ "IDPathSegmentCharset" \in T
               <=> \A i \in DOMAIN p : p[i] \in {"empty", "dot", "ok"}
    BY <1>1, <1>2, Zenon DEF IdTold
  <1>6. /\ "IDSchemeSpiffe" \in T <=> u.parses /\ u.scheme = "spiffe"
        /\ "IDNoUserinfo" \in T <=> ~u.user
        /\ "IDNoPort" \in T <=> u.colon = "none"
        /\ "IDTrustDomainNonEmpty" \in T <=> u.td # ""
        /\ "IDTrustDomainLowercase" \in T <=> u.td \notin UpperNames
        /\ "IDTrustDomainCharset" \in T <=> u.td \notin BadCharNames
        /\ "IDTrustDomainLengthLimit" \in T <=> u.td \notin LongNames
    BY <1>1, <1>2, Zenon DEF IdTold
  <1>7. /\ "IDSchemeSpiffe" \in W <=> "IDSchemeSpiffe" \in T
        /\ "IDNoUserinfo" \in W <=> "IDNoUserinfo" \in T
        /\ "IDNoPort" \in W <=> "IDNoPort" \in T
        /\ "IDTrustDomainNonEmpty" \in W <=> "IDTrustDomainNonEmpty" \in T
        /\ "IDTrustDomainLowercase" \in W <=> "IDTrustDomainLowercase" \in T
        /\ "IDTrustDomainCharset" \in W <=> "IDTrustDomainCharset" \in T
        /\ "IDTrustDomainLengthLimit" \in W <=> "IDTrustDomainLengthLimit" \in T
        /\ "IDPathNoPercent" \in W <=> "IDPathNoPercent" \in T
        /\ "IDPathNoEmptyOrDot" \in W <=> "IDPathNoEmptyOrDot" \in T
        /\ "IDPathNoTrailingSlash" \in W <=> "IDPathNoTrailingSlash" \in T
        /\ "IDPathSegmentCharset" \in W <=> "IDPathSegmentCharset" \in T
    <2>1. \A c \in SpiffeIdClauses \ {"IDNoQueryFragment", "IDLengthLimit"} : c \in W <=> c \in T
      BY AsWrittenIs
    <2> HIDE DEF W
    <2> QED
      BY <2>1 DEF SpiffeIdClauses
  <1> HIDE DEF W
  <1>8. /\ "IDSchemeSpiffe" \in W <=> u.parses /\ u.scheme = "spiffe"
        /\ "IDNoUserinfo" \in W <=> ~u.user
        /\ "IDNoPort" \in W <=> u.colon = "none"
        /\ "IDTrustDomainNonEmpty" \in W <=> u.td # ""
        /\ "IDTrustDomainLowercase" \in W <=> u.td \notin UpperNames
        /\ "IDTrustDomainCharset" \in W <=> u.td \notin BadCharNames
        /\ "IDTrustDomainLengthLimit" \in W <=> u.td \notin LongNames
    BY <1>6, <1>7
  <1>9. /\ "IDPathNoPercent" \in W <=> \A i \in DOMAIN p : p[i] # "percent"
        /\ "IDPathNoEmptyOrDot" \in W <=> \A i \in DOMAIN p : p[i] \notin {"empty", "dot"}
        /\ "IDPathNoTrailingSlash" \in W <=> p = << >> \/ p[Len(p)] # "empty"
        /\ "IDPathSegmentCharset" \in W
               <=> \A i \in DOMAIN p : p[i] \in {"empty", "dot", "ok"}
    BY <1>5, <1>7
  <1>10. IdTold(u, W)
    BY <1>3, <1>4, <1>8, <1>9, <1>b, Zenon DEF IdTold
  <1> QED
    BY <1>10 DEF W

\* Whether the path is the root is the same of the path escaped.
LEMMA RootStaysRoot ==
  ASSUME NEW t \in IdText
  PROVE  EscapedPath(t) \in {<< >>, <<"empty">>} <=> t.path \in {<< >>, <<"empty">>}
  <1>1. PICK p, w : p = EscapedPath(t) /\ w = t.path
    OBVIOUS
  <1>2. CASE ~HasRaw(t.path)
    <2>1. p = w
      BY <1>1, <1>2, EscapedAnew
    <2> QED
      BY <1>1, <2>1
  <1>3. CASE HasRaw(t.path)
    <2>1. PICK i \in DOMAIN p : p[i] = "percent"
      BY <1>1, <1>3, EscapedAnew
    <2>2. PICK j \in DOMAIN w : w[j] \in {"raw", "mixed"}
      BY <1>1, <1>3, EscapedAnew
    <2>3. p \notin {<< >>, <<"empty">>}
      BY <2>1
    <2>4. w \notin {<< >>, <<"empty">>}
      BY <2>2
    <2> QED
      BY <1>1, <2>3, <2>4
  <1> QED
    BY <1>2, <1>3

---------------------------------------------------------------------------
(* What the sweep over a certificate tells is what is true of it.          *)

SvidTrue(c) == {x \in X509SvidClauses : SvidTruth(c)[x]}

LEMMA SvidTruthParts ==
  ASSUME NEW c
  PROVE  /\ SvidTruth(c)["X509URISANCountOne"] <=> (Len(c.uris) = 1)
         /\ SvidTruth(c)["X509LeafCAFalse"] <=> (c.bcValid /\ ~c.isCA)
         /\ SvidTruth(c)["X509SigningCATrue"] <=> (c.bcValid /\ c.isCA)
         /\ SvidTruth(c)["X509KeyUsageCritical"] <=> (c.kuExt = "critical")
         /\ SvidTruth(c)["X509LeafDigitalSignature"] <=> ("digitalSignature" \in c.ku)
         /\ SvidTruth(c)["X509LeafNoKeyCertSign"] <=> ("keyCertSign" \notin c.ku /\ "cRLSign" \notin c.ku)
         /\ SvidTruth(c)["X509SigningKeyCertSign"] <=> ("keyCertSign" \in c.ku)
         /\ SvidTruth(c)["X509SigningNoOtherKeyUsage"] <=> (c.ku \ {"keyCertSign", "cRLSign"} = {})
         /\ SvidTruth(c)["X509LeafEKURecommended"] <=> (HasEKU(c))
         /\ SvidTruth(c)["X509EKUServerAndClient"] <=> ("serverAuth" \in c.eku /\ "clientAuth" \in c.eku)
         /\ SvidTruth(c)["X509SANCriticalWhenNoSubject"] <=> (c.sanExt = "critical")
         /\ SvidTruth(c)["X509LeafNonRootPath"] <=> (Len(c.uris) = 1 /\ c.uris[1].path \notin {<< >>, <<"empty">>})
         /\ SvidTruth(c)["X509SigningNoPath"] <=> (Len(c.uris) = 1 /\ c.uris[1].path \in {<< >>, <<"empty">>})
         /\ DOMAIN SvidTruth(c) = X509SvidClauses
  BY DEF SvidTruth, X509SvidClauses

LEMMA SvidTrueIsTold ==
  ASSUME NEW c, NEW T, \A x \in X509SvidClauses : x \in T <=> x \in SvidTrue(c)
  PROVE  SvidTold(c, T)
  <1>1. ASSUME NEW x \in X509SvidClauses
        PROVE  x \in T <=> SvidTruth(c)[x]
    BY DEF SvidTrue
  <1>2. "X509URISANCountOne" \in T <=> Len(c.uris) = 1
    <2>1. "X509URISANCountOne" \in T <=> SvidTruth(c)["X509URISANCountOne"]
      BY <1>1 DEF X509SvidClauses
    <2> QED
      BY <2>1, SvidTruthParts
  <1>3. "X509LeafCAFalse" \in T <=> c.bcValid /\ ~c.isCA
    <2>1. "X509LeafCAFalse" \in T <=> SvidTruth(c)["X509LeafCAFalse"]
      BY <1>1 DEF X509SvidClauses
    <2> QED
      BY <2>1, SvidTruthParts
  <1>4. "X509SigningCATrue" \in T <=> c.bcValid /\ c.isCA
    <2>1. "X509SigningCATrue" \in T <=> SvidTruth(c)["X509SigningCATrue"]
      BY <1>1 DEF X509SvidClauses
    <2> QED
      BY <2>1, SvidTruthParts
  <1>5. "X509KeyUsageCritical" \in T <=> c.kuExt = "critical"
    <2>1. "X509KeyUsageCritical" \in T <=> SvidTruth(c)["X509KeyUsageCritical"]
      BY <1>1 DEF X509SvidClauses
    <2> QED
      BY <2>1, SvidTruthParts
  <1>6. "X509LeafDigitalSignature" \in T <=> "digitalSignature" \in c.ku
    <2>1. "X509LeafDigitalSignature" \in T <=> SvidTruth(c)["X509LeafDigitalSignature"]
      BY <1>1 DEF X509SvidClauses
    <2> QED
      BY <2>1, SvidTruthParts
  <1>7. "X509LeafNoKeyCertSign" \in T <=> "keyCertSign" \notin c.ku /\ "cRLSign" \notin c.ku
    <2>1. "X509LeafNoKeyCertSign" \in T <=> SvidTruth(c)["X509LeafNoKeyCertSign"]
      BY <1>1 DEF X509SvidClauses
    <2> QED
      BY <2>1, SvidTruthParts
  <1>8. "X509SigningKeyCertSign" \in T <=> "keyCertSign" \in c.ku
    <2>1. "X509SigningKeyCertSign" \in T <=> SvidTruth(c)["X509SigningKeyCertSign"]
      BY <1>1 DEF X509SvidClauses
    <2> QED
      BY <2>1, SvidTruthParts
  <1>9. "X509SigningNoOtherKeyUsage" \in T <=> c.ku \ {"keyCertSign", "cRLSign"} = {}
    <2>1. "X509SigningNoOtherKeyUsage" \in T <=> SvidTruth(c)["X509SigningNoOtherKeyUsage"]
      BY <1>1 DEF X509SvidClauses
    <2> QED
      BY <2>1, SvidTruthParts
  <1>10. "X509LeafEKURecommended" \in T <=> HasEKU(c)
    <2>1. "X509LeafEKURecommended" \in T <=> SvidTruth(c)["X509LeafEKURecommended"]
      BY <1>1 DEF X509SvidClauses
    <2> QED
      BY <2>1, SvidTruthParts
  <1>11. "X509EKUServerAndClient" \in T <=> "serverAuth" \in c.eku /\ "clientAuth" \in c.eku
    <2>1. "X509EKUServerAndClient" \in T <=> SvidTruth(c)["X509EKUServerAndClient"]
      BY <1>1 DEF X509SvidClauses
    <2> QED
      BY <2>1, SvidTruthParts
  <1>12. "X509SANCriticalWhenNoSubject" \in T <=> c.sanExt = "critical"
    <2>1. "X509SANCriticalWhenNoSubject" \in T <=> SvidTruth(c)["X509SANCriticalWhenNoSubject"]
      BY <1>1 DEF X509SvidClauses
    <2> QED
      BY <2>1, SvidTruthParts
  <1>13. "X509LeafNonRootPath" \in T <=> Len(c.uris) = 1 /\ c.uris[1].path \notin {<< >>, <<"empty">>}
    <2>1. "X509LeafNonRootPath" \in T <=> SvidTruth(c)["X509LeafNonRootPath"]
      BY <1>1 DEF X509SvidClauses
    <2> QED
      BY <2>1, SvidTruthParts
  <1>14. "X509SigningNoPath" \in T <=> Len(c.uris) = 1 /\ c.uris[1].path \in {<< >>, <<"empty">>}
    <2>1. "X509SigningNoPath" \in T <=> SvidTruth(c)["X509SigningNoPath"]
      BY <1>1 DEF X509SvidClauses
    <2> QED
      BY <2>1, SvidTruthParts
  <1> QED
    BY <1>2, <1>3, <1>4, <1>5, <1>6, <1>7, <1>8, <1>9, <1>10, <1>11, <1>12, <1>13, <1>14, Zenon DEF SvidTold

LEMMA SvidToldIsTrue ==
  ASSUME NEW c, NEW T, SvidTold(c, T), NEW x \in X509SvidClauses
  PROVE  x \in T <=> SvidTruth(c)[x]
  <1>1. CASE x = "X509URISANCountOne"
    BY <1>1, SvidTruthParts DEF SvidTold
  <1>2. CASE x = "X509LeafCAFalse"
    BY <1>2, SvidTruthParts DEF SvidTold
  <1>3. CASE x = "X509SigningCATrue"
    BY <1>3, SvidTruthParts DEF SvidTold
  <1>4. CASE x = "X509KeyUsageCritical"
    BY <1>4, SvidTruthParts DEF SvidTold
  <1>5. CASE x = "X509LeafDigitalSignature"
    BY <1>5, SvidTruthParts DEF SvidTold
  <1>6. CASE x = "X509LeafNoKeyCertSign"
    BY <1>6, SvidTruthParts DEF SvidTold
  <1>7. CASE x = "X509SigningKeyCertSign"
    BY <1>7, SvidTruthParts DEF SvidTold
  <1>8. CASE x = "X509SigningNoOtherKeyUsage"
    BY <1>8, SvidTruthParts DEF SvidTold
  <1>9. CASE x = "X509LeafEKURecommended"
    BY <1>9, SvidTruthParts DEF SvidTold
  <1>10. CASE x = "X509EKUServerAndClient"
    BY <1>10, SvidTruthParts DEF SvidTold
  <1>11. CASE x = "X509SANCriticalWhenNoSubject"
    BY <1>11, SvidTruthParts DEF SvidTold
  <1>12. CASE x = "X509LeafNonRootPath"
    BY <1>12, SvidTruthParts DEF SvidTold
  <1>13. CASE x = "X509SigningNoPath"
    BY <1>13, SvidTruthParts DEF SvidTold
  <1> QED
    BY <1>1, <1>2, <1>3, <1>4, <1>5, <1>6, <1>7, <1>8, <1>9, <1>10, <1>11, <1>12, <1>13 DEF X509SvidClauses

---------------------------------------------------------------------------
(* The whole sweep over a certificate.                                     *)

SvidPathJudged(c) ==
    IF Len(c.uris) # 1 THEN {}
    ELSE IdJudged(Reserialised(c.uris[1])) \cup PathJudged(c, Reserialised(c.uris[1]))

SvidJudged(c) ==
    {"X509URISANCountOne"} \cup BasicJudged(c) \cup KeyUsageJudged(c) \cup EKUJudged(c)
    \cup SANJudged(c) \cup SvidPathJudged(c)

\* T holds what id.Check makes of the one URI, if there is one.
UriTold(c, T) == Len(c.uris) = 1 => IdTold(Reserialised(c.uris[1]), T)

LEMMA TheUri ==
  ASSUME NEW c, ParsedCertificate(c), Len(c.uris) = 1
  PROVE  c.uris[1] \in IdText
  BY DEF ParsedCertificate

LEMMA SvidPathJudges ==
  ASSUME NEW c, ParsedCertificate(c), Len(c.uris) = 1, NEW T, SvidTold(c, T)
  PROVE  LET t == Reserialised(c.uris[1]) IN Judges(CheckSvidPath(c, t), PathJudged(c, t), T)
  <1> DEFINE u == c.uris[1]
             t == Reserialised(u)
             raw == EscapedPath(t)
             j1 == Judge("X509LeafNonRootPath", raw \notin {<< >>, <<"empty">>}, "")
             j2 == Judge("X509SigningNoPath", raw \in {<< >>, <<"empty">>}, "")
  <1>1. "X509LeafNonRootPath" \in Clause /\ "X509SigningNoPath" \in Clause
    BY SvidClauses DEF X509SvidClauses
  <1>2. raw \in {<< >>, <<"empty">>} <=> u.path \in {<< >>, <<"empty">>}
    <2>1. u \in IdText
      BY TheUri
    <2>2. raw = EscapedPath(u)
      BY <2>1, ReserialisedIs
    <2>3. EscapedPath(u) \in {<< >>, <<"empty">>} <=> u.path \in {<< >>, <<"empty">>}
      BY <2>1, RootStaysRoot
    <2> QED
      BY <2>2, <2>3, Zenon
  <1>3. raw \notin {<< >>, <<"empty">>} <=> "X509LeafNonRootPath" \in T
    BY <1>2, Zenon DEF SvidTold
  <1>4. raw \in {<< >>, <<"empty">>} <=> "X509SigningNoPath" \in T
    BY <1>2, Zenon DEF SvidTold
  <1>5. Judges(j1, {"X509LeafNonRootPath"}, T)
    BY <1>1, <1>3, JudgeJudges, Zenon
  <1>6. Judges(j2, {"X509SigningNoPath"}, T)
    BY <1>1, <1>4, JudgeJudges, Zenon
  <1>7. /\ ~ParseSucceeds(t) => CheckSvidPath(c, t) = << >>
        /\ ParseSucceeds(t) /\ ~c.isCA => CheckSvidPath(c, t) = j1
        /\ ParseSucceeds(t) /\ c.isCA => CheckSvidPath(c, t) = j2
    BY Zenon DEF CheckSvidPath, IsLeaf
  <1> HIDE DEF t, j1, j2
  <1>8. Judges(CheckSvidPath(c, t), PathJudged(c, t), T)
    BY <1>5, <1>6, <1>7, NoneJudges, Zenon DEF PathJudged
  <1> QED
    BY <1>8 DEF t

LEMMA X509CheckJudges ==
  ASSUME NEW c, ParsedCertificate(c), NEW T, SvidTold(c, T), UriTold(c, T)
  PROVE  Judges(X509Check(c), SvidJudged(c), T)
  <1> DEFINE t == Reserialised(c.uris[1])
             c1 == CheckURISAN(c)
             c2 == CheckBasicConstraints(c)
             c3 == CheckKeyUsage(c)
             c4 == CheckEKU(c)
             c5 == CheckSANCritical(c)
             c6 == IF Len(c.uris) = 1 THEN CheckSpiffeId(c, t) ELSE << >>
             D2 == BasicJudged(c)
             D3 == KeyUsageJudged(c)
             D4 == EKUJudged(c)
             D5 == SANJudged(c)
             D6 == SvidPathJudged(c)
  <1>1. /\ Judges(c1, {"X509URISANCountOne"}, T) /\ Judges(c2, D2, T) /\ Judges(c3, D3, T)
        /\ Judges(c4, D4, T) /\ Judges(c5, D5, T)
    BY URISANJudges, BasicConstraintsJudges, KeyUsageJudges, EKUJudges, SANCriticalJudges
  <1>2. /\ D2 \subseteq {"X509SigningCATrue", "X509LeafCAFalse"}
        /\ D3 \subseteq {"X509KeyUsageCritical", "X509SigningKeyCertSign",
                        "X509SigningNoOtherKeyUsage", "X509LeafDigitalSignature",
                        "X509LeafNoKeyCertSign"}
        /\ D4 \subseteq {"X509LeafEKURecommended", "X509EKUServerAndClient"}
        /\ D5 \subseteq {"X509SANCriticalWhenNoSubject"}
    BY DEF BasicJudged, KeyUsageJudged, EKUJudged, SANJudged
  <1>3. /\ IdJudged(t) \subseteq SpiffeIdClauses
        /\ PathJudged(c, t) \subseteq {"X509SigningNoPath", "X509LeafNonRootPath"}
    BY DEF IdJudged, PathJudged, SpiffeIdClauses, PathRules, NameRules
  <1>4. D6 \subseteq SpiffeIdClauses \cup {"X509SigningNoPath", "X509LeafNonRootPath"}
    BY <1>3 DEF SvidPathJudged
  <1>5. Judges(c6, D6, T)
    <2>1. CASE Len(c.uris) # 1
      BY <2>1, NoneJudges, Zenon DEF SvidPathJudged
    <2>2. CASE Len(c.uris) = 1
      <3>2. Judges(IdCheck(t), IdJudged(t), T)
        BY <2>2, IdCheckJudges DEF UriTold
      <3>3. Judges(CheckSvidPath(c, t), PathJudged(c, t), T)
        BY <2>2, SvidPathJudges
      <3>4. IdJudged(t) \cap PathJudged(c, t) = {}
        BY <1>3 DEF SpiffeIdClauses
      <3>5. Judges(IdCheck(t) \o CheckSvidPath(c, t), IdJudged(t) \cup PathJudged(c, t), T)
        BY <3>2, <3>3, <3>4, BothJudge
      <3> QED
        BY <3>5, <2>2, Zenon DEF SvidPathJudged, CheckSpiffeId
    <2> QED
      BY <2>1, <2>2
  <1>6. X509Check(c) = c1 \o c2 \o c3 \o c4 \o c5 \o c6
    BY DEF X509Check
  <1> HIDE DEF c1, c2, c3, c4, c5, c6, D2, D3, D4, D5, D6
  <1>7. /\ {"X509URISANCountOne"} \cap D2 = {}
        /\ ({"X509URISANCountOne"} \cup D2) \cap D3 = {}
        /\ ({"X509URISANCountOne"} \cup D2 \cup D3) \cap D4 = {}
        /\ ({"X509URISANCountOne"} \cup D2 \cup D3 \cup D4) \cap D5 = {}
        /\ ({"X509URISANCountOne"} \cup D2 \cup D3 \cup D4 \cup D5) \cap D6 = {}
    BY <1>2, <1>4 DEF SpiffeIdClauses
  <1>8. Judges(c1 \o c2, {"X509URISANCountOne"} \cup D2, T)
    BY <1>1, <1>7, BothJudge
  <1>9. Judges(c1 \o c2 \o c3, {"X509URISANCountOne"} \cup D2 \cup D3, T)
    BY <1>1, <1>7, <1>8, BothJudge
  <1>10. Judges(c1 \o c2 \o c3 \o c4, {"X509URISANCountOne"} \cup D2 \cup D3 \cup D4, T)
    BY <1>1, <1>7, <1>9, BothJudge
  <1>11. Judges(c1 \o c2 \o c3 \o c4 \o c5,
                {"X509URISANCountOne"} \cup D2 \cup D3 \cup D4 \cup D5, T)
    BY <1>1, <1>7, <1>10, BothJudge
  <1>12. Judges(c1 \o c2 \o c3 \o c4 \o c5 \o c6,
                {"X509URISANCountOne"} \cup D2 \cup D3 \cup D4 \cup D5 \cup D6, T)
    BY <1>5, <1>7, <1>11, BothJudge
  <1> QED
    BY <1>6, <1>12, Zenon DEF SvidJudged, D2, D3, D4, D5, D6

---------------------------------------------------------------------------
(* That report is a verdict on the certificate.                            *)

CertDemands(c) == SvidDemands(c) \cup IF Len(c.uris) = 1 THEN SpiffeIdClauses ELSE {}

\* H holds what the documents say of the certificate and its URI as written.
CertTrue(c, H) ==
    /\ \A x \in X509SvidClauses : x \in H <=> SvidTruth(c)[x]
    /\ Len(c.uris) = 1 => \A x \in SpiffeIdClauses : x \in H <=> IdTruth(c.uris[1])[x]

LEMMA JudgedAreDemanded ==
  ASSUME NEW c
  PROVE  SvidJudged(c) \subseteq CertDemands(c)
  <1>1. BasicJudged(c) \subseteq SvidDemands(c)
    BY DEF BasicJudged, SvidDemands
  <1>2. KeyUsageJudged(c) \subseteq SvidDemands(c)
    BY DEF KeyUsageJudged, SvidDemands
  <1>3. EKUJudged(c) \subseteq SvidDemands(c)
    BY DEF EKUJudged, SvidDemands
  <1>4. SANJudged(c) \subseteq SvidDemands(c)
    BY DEF SANJudged, SvidDemands
  <1>5. SvidPathJudged(c) \subseteq CertDemands(c)
    <2>1. PathJudged(c, Reserialised(c.uris[1])) \subseteq SvidDemands(c)
      BY DEF PathJudged, SvidDemands
    <2>2. IdJudged(Reserialised(c.uris[1])) \subseteq SpiffeIdClauses
      BY DEF IdJudged, SpiffeIdClauses, PathRules, NameRules
    <2> QED
      BY <2>1, <2>2 DEF SvidPathJudged, CertDemands
  <1>6. "X509URISANCountOne" \in SvidDemands(c)
    BY DEF SvidDemands
  <1> QED
    BY <1>1, <1>2, <1>3, <1>4, <1>5, <1>6 DEF SvidJudged, CertDemands

\* Whatever a check skipped for lack of input, another MUST has failed.
LEMMA LeftOutForAReason ==
  ASSUME NEW c, ParsedCertificate(c), NEW T, SvidTold(c, T), UriTold(c, T),
         \A x \in SvidJudged(c) \ ShouldClauses : x \in T
  PROVE  CertDemands(c) \subseteq SvidJudged(c)
  <1> DEFINE t == Reserialised(c.uris[1])
  <1>1. "X509URISANCountOne" \in SvidJudged(c) \ ShouldClauses
    BY DEF SvidJudged, ShouldClauses
  <1>2. Len(c.uris) = 1
    BY <1>1 DEF SvidTold
  <1>3. c.sanExt # "absent"
    BY <1>2 DEF ParsedCertificate
  <1>4. "X509KeyUsageCritical" \in SvidJudged(c) \ ShouldClauses
    BY DEF SvidJudged, KeyUsageJudged, ShouldClauses
  <1>5. c.kuExt # "absent"
    BY <1>4 DEF SvidTold
  <1>6. SvidPathJudged(c) = IdJudged(t) \cup PathJudged(c, t)
    BY <1>2 DEF SvidPathJudged
  <1>7. IdJudged(t) = SpiffeIdClauses /\ ParseSucceeds(t)
    <2>1. \A x \in IdJudged(t) \ ShouldClauses : x \in T
      BY <1>6 DEF SvidJudged
    <2> QED
      BY <2>1, <1>2, IdLeavesOutForAReason DEF UriTold
  <1> HIDE DEF t
  <1>8. SpiffeIdClauses \subseteq SvidJudged(c)
    BY <1>6, <1>7 DEF SvidJudged
  <1>9. CASE c.isCA
    <2>1. /\ BasicJudged(c) = {"X509SigningCATrue"}
          /\ KeyUsageJudged(c) = {"X509KeyUsageCritical", "X509SigningKeyCertSign",
                                  "X509SigningNoOtherKeyUsage"}
          /\ PathJudged(c, t) = {"X509SigningNoPath"}
      BY <1>5, <1>7, <1>9 DEF BasicJudged, KeyUsageJudged, PathJudged
    <2>2. SvidDemands(c) \subseteq
            {"X509URISANCountOne", "X509KeyUsageCritical", "X509SigningCATrue",
             "X509SigningKeyCertSign", "X509SigningNoOtherKeyUsage", "X509SigningNoPath"}
            \cup SANJudged(c)
      BY <1>3, <1>9 DEF SvidDemands, SANJudged
    <2> QED
      BY <2>1, <2>2, <1>2, <1>6, <1>8 DEF CertDemands, SvidJudged
  <1>10. CASE ~c.isCA
    <2>1. /\ BasicJudged(c) = {"X509LeafCAFalse"}
          /\ KeyUsageJudged(c) = {"X509KeyUsageCritical", "X509LeafDigitalSignature",
                                  "X509LeafNoKeyCertSign"}
          /\ PathJudged(c, t) = {"X509LeafNonRootPath"}
      BY <1>5, <1>7, <1>10 DEF BasicJudged, KeyUsageJudged, PathJudged
    <2>2. SvidDemands(c) \subseteq
            {"X509URISANCountOne", "X509KeyUsageCritical", "X509LeafCAFalse",
             "X509LeafDigitalSignature", "X509LeafNoKeyCertSign", "X509LeafNonRootPath"}
            \cup SANJudged(c) \cup EKUJudged(c)
      BY <1>3, <1>10 DEF SvidDemands, SANJudged, EKUJudged
    <2> QED
      BY <2>1, <2>2, <1>2, <1>6, <1>8 DEF CertDemands, SvidJudged
  <1> QED
    BY <1>9, <1>10

LEMMA SvidJudgedNames ==
  ASSUME NEW c
  PROVE  SvidJudged(c) \subseteq X509SvidClauses \cup IF Len(c.uris) = 1 THEN SpiffeIdClauses ELSE {}
  <1>1. BasicJudged(c) \cup KeyUsageJudged(c) \cup EKUJudged(c) \cup SANJudged(c)
          \subseteq X509SvidClauses
    BY DEF BasicJudged, KeyUsageJudged, EKUJudged, SANJudged, X509SvidClauses
  <1>2. /\ IdJudged(Reserialised(c.uris[1])) \subseteq SpiffeIdClauses
        /\ PathJudged(c, Reserialised(c.uris[1])) \subseteq X509SvidClauses
    BY DEF IdJudged, PathJudged, SpiffeIdClauses, PathRules, NameRules, X509SvidClauses
  <1>3. "X509URISANCountOne" \in X509SvidClauses
    BY DEF X509SvidClauses
  <1> QED
    BY <1>1, <1>2, <1>3 DEF SvidJudged, SvidPathJudged

\* Each line is true of the certificate as written, but for those of a URI that
\* net/url has changed.
LEMMA CertLinesTrue ==
  ASSUME NEW c, ParsedCertificate(c), NEW T, SvidTold(c, T), UriTold(c, T),
         NEW H, CertTrue(c, H), NEW x \in SvidJudged(c)
  PROVE  \/ x \in T <=> x \in H
         \/ x \notin T /\ x \in NewPathRules /\ Len(c.uris) = 1 /\ HasRaw(c.uris[1].path)
         \/ x = "IDNoQueryFragment" /\ Len(c.uris) = 1 /\ c.uris[1].fragment = "empty"
         \/ x = "IDLengthLimit" /\ Len(c.uris) = 1 /\ c.uris[1].long # c.uris[1].longString
  <1>1. CASE x \in X509SvidClauses
    BY <1>1, SvidToldIsTrue DEF CertTrue
  <1>2. CASE x \in SpiffeIdClauses /\ Len(c.uris) = 1
    <2> DEFINE u == c.uris[1]
               W == AsWritten(u, T)
    <2>1. u \in IdText
      BY <1>2, TheUri
    <2>2. IdTold(u, W)
      BY <1>2, <2>1, ReserialisedTold DEF UriTold
    <2>3. \/ x \in W <=> IdTruth(u)[x]
          \/ x \notin W /\ x \in NewPathRules /\ HasRaw(u.path)
      BY <1>2, <2>1, <2>2, IdToldIsTrue
    <2>4. \/ x \in W <=> x \in T
          \/ x = "IDNoQueryFragment" /\ u.fragment = "empty"
          \/ x = "IDLengthLimit" /\ u.long # u.longString
      <3>1. CASE x \notin {"IDNoQueryFragment", "IDLengthLimit"}
        BY <1>2, <3>1, AsWrittenIs
      <3>2. CASE x = "IDNoQueryFragment"
        BY <3>2, AsWrittenIs
      <3>3. CASE x = "IDLengthLimit"
        <4>1. x \in T <=> ~Reserialised(u).long
          BY <1>2, <3>3 DEF UriTold, IdTold
        <4>2. x \in W <=> ~u.long
          BY <3>3, AsWrittenIs
        <4>3. Reserialised(u).long = u.longString /\ u.long \in BOOLEAN /\ u.longString \in BOOLEAN
          BY <2>1, ReserialisedIs DEF IdText
        <4> QED
          BY <3>3, <4>1, <4>2, <4>3
      <3> QED
        BY <3>1, <3>2, <3>3
    <2>5. x \in H <=> IdTruth(u)[x]
      BY <1>2 DEF CertTrue
    <2> HIDE DEF W
    <2> QED
      BY <1>2, <2>3, <2>4, <2>5
  <1> QED
    BY <1>1, <1>2, SvidJudgedNames

\* The report fails exactly when the certificate breaks a MUST that binds it.
LEMMA CertVerdict ==
  ASSUME NEW c, ParsedCertificate(c), NEW T, SvidTold(c, T), UriTold(c, T),
         NEW H, CertTrue(c, H), NEW r, Judges(r, SvidJudged(c), T)
  PROVE  /\ ~Failed(r) => CertDemands(c) \subseteq SvidJudged(c)
         /\ \/ Failed(r) <=> \E x \in CertDemands(c) \ ShouldClauses : x \notin H
            \/ Len(c.uris) = 1 /\ c.uris[1].fragment = "empty"
  <1> DEFINE D == SvidJudged(c)
             M == CertDemands(c)
             u == c.uris[1]
  <1>1. D \subseteq M
    BY JudgedAreDemanded
  <1>2. (\A x \in D \ ShouldClauses : x \in T) => M \subseteq D
    BY LeftOutForAReason
  <1>3. ~Failed(r) => M \subseteq D
    BY <1>2, JudgesFailed
  <1>4. ASSUME ~(Len(c.uris) = 1 /\ u.fragment = "empty")
        PROVE  Failed(r) <=> \E x \in M \ ShouldClauses : x \notin H
    <2> DEFINE W == AsWritten(u, T)
    <2>1. Len(c.uris) = 1 => u \in IdText /\ IdTold(u, W)
      BY TheUri, ReserialisedTold DEF UriTold
    <2>a. Len(c.uris) = 1 => \A x \in SpiffeIdClauses \ ShouldClauses : x \in W <=> x \in T
      <3> SUFFICES ASSUME Len(c.uris) = 1, NEW x \in SpiffeIdClauses \ ShouldClauses
                   PROVE  x \in W <=> x \in T
        OBVIOUS
      <3>1. x # "IDLengthLimit"
        BY DEF ShouldClauses
      <3> QED
        BY <3>1, <1>4, AsWrittenIs
    <2> HIDE DEF W
    <2>2. ASSUME NEW x \in D \ ShouldClauses, x \in T
          PROVE  x \in H
      <3>1. CASE x \in X509SvidClauses
        BY <3>1, <2>2, SvidToldIsTrue DEF CertTrue
      <3>2. CASE x \in SpiffeIdClauses /\ Len(c.uris) = 1
        <4>1. x \in W
          BY <3>2, <2>a, <2>2
        <4> QED
          BY <3>2, <4>1, <2>1, IdToldIsTrue DEF CertTrue
      <3> QED
        BY <3>1, <3>2, SvidJudgedNames
    <2>3. ASSUME NEW x \in D \ ShouldClauses, x \notin T
          PROVE  \E d \in M \ ShouldClauses : d \notin H
      <3>1. CASE x \in X509SvidClauses
        <4>1. x \notin H
          BY <3>1, <2>3, SvidToldIsTrue DEF CertTrue
        <4> QED
          BY <4>1, <1>1
      <3>2. CASE x \in SpiffeIdClauses /\ Len(c.uris) = 1
        <4>0. x \notin W /\ x \in SpiffeIdClauses \ ShouldClauses
          BY <3>2, <2>a, <2>3
        <4>1. PICK d \in SpiffeIdClauses \ ShouldClauses : ~IdTruth(u)[d]
          BY <3>2, <4>0, <2>1, IdFailsForAReason
        <4>2. d \notin H
          BY <4>1, <3>2 DEF CertTrue
        <4>3. d \in M
          BY <3>2 DEF CertDemands
        <4> QED
          BY <4>1, <4>2, <4>3
      <3> QED
        BY <3>1, <3>2, SvidJudgedNames
    <2> HIDE DEF D, M
    <2>4. (D \cap T) \ ShouldClauses \subseteq H
      BY <2>2
    <2>5. \A x \in D \ ShouldClauses : x \notin T => \E d \in M \ ShouldClauses : d \notin H
      BY <2>3
    <2>6. Judges(r, D, T)
      BY DEF D
    <2> QED
      BY <1>1, <1>2, <2>4, <2>5, <2>6, VerdictIsExact
  <1> QED
    BY <1>3, <1>4

---------------------------------------------------------------------------
(* The report of an invocation, whole and from each step on.               *)

LoadedOf(i) == IF i.file.readable THEN ParseCert(i.file) ELSE None

LoadsOf(i) == i.usable /\ (i.cmd = "id" \/ LoadedOf(i) # None)

\* The text id.Check is handed, if it is called.
HasText(i) == i.cmd = "id" \/ Len(LoadedOf(i).uris) = 1

TextOf(i) == IF i.cmd = "id" THEN i.text ELSE Reserialised(LoadedOf(i).uris[1])

Whole(i) == IF i.cmd = "id" THEN IdCheck(i.text) ELSE X509Check(LoadedOf(i))

AtSvidPath(i) == IF i.cmd = "id" THEN << >> ELSE CheckSvidPath(LoadedOf(i), TextOf(i))

AtLength(i) == CheckLength(TextOf(i)) \o AtSvidPath(i)

AtPath(i) == CheckPath(TextOf(i)) \o AtLength(i)

AtAuthority(i) == CheckAuthority(TextOf(i)) \o AtPath(i)

AtParse(i) ==
    IF TextOf(i).parses
    THEN CheckScheme(TextOf(i)) \o AtAuthority(i)
    ELSE Fail("IDSchemeSpiffe", "") \o AtSvidPath(i)

AtQuery(i) == CheckQueryFragment(TextOf(i)) \o AtParse(i)

AtText(i) == IF Len(LoadedOf(i).uris) = 1 THEN AtQuery(i) ELSE << >>

AtSANCritical(i) == CheckSANCritical(LoadedOf(i)) \o AtText(i)

AtEKU(i) == CheckEKU(LoadedOf(i)) \o AtSANCritical(i)

AtKeyUsage(i) == CheckKeyUsage(LoadedOf(i)) \o AtEKU(i)

AtBasicConstraints(i) == CheckBasicConstraints(LoadedOf(i)) \o AtKeyUsage(i)

AtURISAN(i) == CheckURISAN(LoadedOf(i)) \o AtBasicConstraints(i)

\* What is still to be written when the program is at step.
Ahead(i, step) ==
    CASE step = "uriSAN" -> AtURISAN(i)
      [] step = "basicConstraints" -> AtBasicConstraints(i)
      [] step = "keyUsage" -> AtKeyUsage(i)
      [] step = "eku" -> AtEKU(i)
      [] step = "sanCritical" -> AtSANCritical(i)
      [] step \in {"spiffeId", "query"} -> AtQuery(i)
      [] step = "parse" -> AtParse(i)
      [] step = "authority" -> AtAuthority(i)
      [] step = "path" -> AtPath(i)
      [] step = "length" -> AtLength(i)
      [] step = "svidPath" -> AtSvidPath(i)
      [] step \in {"emit", "done"} -> << >>

LEMMA CertificateOf ==
  ASSUME NEW i \in Invocations, LoadsOf(i), i.cmd # "id"
  PROVE  ParsedCertificate(LoadedOf(i)) /\ LoadedOf(i) # None /\ i.cmd = "x509-svid"
  BY InvocationAssumption DEF LoadsOf, LoadedOf

LEMMA IdChecksAppend ==
  ASSUME NEW t
  PROVE  /\ CheckQueryFragment(t) \in Seq(Assertion)
         /\ t.parses => CheckScheme(t) \in Seq(Assertion)
         /\ ~t.parses => Fail("IDSchemeSpiffe", "") \in Seq(Assertion)
         /\ CheckAuthority(t) \in Seq(Assertion)
         /\ CheckPath(t) \in Seq(Assertion)
         /\ CheckLength(t) \in Seq(Assertion)
         /\ IdCheck(t) \in Seq(Assertion)
  <1>1. IdTold(t, IdTrue(t))
    BY IdTrueIsTold
  <1> QED
    BY <1>1, QueryFragmentJudges, SchemeJudges, NoSchemeJudges, AuthorityJudges, PathJudges,
       LengthJudges, IdCheckJudges DEF Judges

LEMMA SvidChecksAppend ==
  ASSUME NEW c, ParsedCertificate(c)
  PROVE  /\ CheckURISAN(c) \in Seq(Assertion)
         /\ CheckBasicConstraints(c) \in Seq(Assertion)
         /\ CheckKeyUsage(c) \in Seq(Assertion)
         /\ CheckEKU(c) \in Seq(Assertion)
         /\ CheckSANCritical(c) \in Seq(Assertion)
         /\ Len(c.uris) = 1 => CheckSvidPath(c, Reserialised(c.uris[1])) \in Seq(Assertion)
  <1>1. SvidTold(c, SvidTrue(c))
    BY SvidTrueIsTold
  <1> QED
    BY <1>1, URISANJudges, BasicConstraintsJudges, KeyUsageJudges, EKUJudges,
       SANCriticalJudges, SvidPathJudges DEF Judges

LEMMA TextAheadType ==
  ASSUME NEW i \in Invocations, LoadsOf(i), HasText(i)
  PROVE  /\ AtSvidPath(i) \in Seq(Assertion) /\ AtLength(i) \in Seq(Assertion)
         /\ AtPath(i) \in Seq(Assertion) /\ AtAuthority(i) \in Seq(Assertion)
         /\ AtParse(i) \in Seq(Assertion) /\ AtQuery(i) \in Seq(Assertion)
  <1> DEFINE t == TextOf(i)
  <1>1. /\ CheckQueryFragment(t) \in Seq(Assertion)
        /\ t.parses => CheckScheme(t) \in Seq(Assertion)
        /\ ~t.parses => Fail("IDSchemeSpiffe", "") \in Seq(Assertion)
        /\ CheckAuthority(t) \in Seq(Assertion)
        /\ CheckPath(t) \in Seq(Assertion)
        /\ CheckLength(t) \in Seq(Assertion)
    BY IdChecksAppend
  <1>2. AtSvidPath(i) \in Seq(Assertion)
    <2>1. CASE i.cmd = "id"
      BY <2>1, Concatenation, Zenon DEF AtSvidPath
    <2>2. CASE i.cmd # "id"
      BY <2>2, CertificateOf, SvidChecksAppend, Zenon DEF AtSvidPath, TextOf, HasText
    <2> QED
      BY <2>1, <2>2
  <1>3. AtLength(i) \in Seq(Assertion)
    BY <1>1, <1>2, Concatenation, Zenon DEF AtLength
  <1>4. AtPath(i) \in Seq(Assertion)
    BY <1>1, <1>3, Concatenation, Zenon DEF AtPath
  <1>5. AtAuthority(i) \in Seq(Assertion)
    BY <1>1, <1>4, Concatenation, Zenon DEF AtAuthority
  <1>6. AtParse(i) \in Seq(Assertion)
    BY <1>1, <1>2, <1>5, Concatenation, Zenon DEF AtParse
  <1>7. AtQuery(i) \in Seq(Assertion)
    BY <1>1, <1>6, Concatenation, Zenon DEF AtQuery
  <1> QED
    BY <1>2, <1>3, <1>4, <1>5, <1>6, <1>7

LEMMA CertificateAheadType ==
  ASSUME NEW i \in Invocations, LoadsOf(i), i.cmd # "id"
  PROVE  /\ AtText(i) \in Seq(Assertion) /\ AtSANCritical(i) \in Seq(Assertion)
         /\ AtEKU(i) \in Seq(Assertion) /\ AtKeyUsage(i) \in Seq(Assertion)
         /\ AtBasicConstraints(i) \in Seq(Assertion) /\ AtURISAN(i) \in Seq(Assertion)
  <1> DEFINE c == LoadedOf(i)
  <1>1. /\ CheckURISAN(c) \in Seq(Assertion)
        /\ CheckBasicConstraints(c) \in Seq(Assertion)
        /\ CheckKeyUsage(c) \in Seq(Assertion)
        /\ CheckEKU(c) \in Seq(Assertion)
        /\ CheckSANCritical(c) \in Seq(Assertion)
    BY CertificateOf, SvidChecksAppend
  <1>2. AtText(i) \in Seq(Assertion)
    BY TextAheadType, Concatenation, Zenon DEF AtText, HasText
  <1>3. AtSANCritical(i) \in Seq(Assertion)
    BY <1>1, <1>2, Concatenation, Zenon DEF AtSANCritical
  <1>4. AtEKU(i) \in Seq(Assertion)
    BY <1>1, <1>3, Concatenation, Zenon DEF AtEKU
  <1>5. AtKeyUsage(i) \in Seq(Assertion)
    BY <1>1, <1>4, Concatenation, Zenon DEF AtKeyUsage
  <1>6. AtBasicConstraints(i) \in Seq(Assertion)
    BY <1>1, <1>5, Concatenation, Zenon DEF AtBasicConstraints
  <1>7. AtURISAN(i) \in Seq(Assertion)
    BY <1>1, <1>6, Concatenation, Zenon DEF AtURISAN
  <1> QED
    BY <1>2, <1>3, <1>4, <1>5, <1>6, <1>7

LEMMA Assoc ==
  ASSUME NEW a \in Seq(Assertion), NEW b \in Seq(Assertion), NEW c \in Seq(Assertion)
  PROVE  (a \o b) \o c = a \o (b \o c)
  BY ConcatAssociative

LEMMA NothingMore ==
  ASSUME NEW a \in Seq(Assertion)
  PROVE  a \o << >> = a /\ << >> \o a = a
  BY ConcatEmptySeq

\* s in the middle of a report may be written with what is before it or with
\* what is after it.
Associates(s) == \A x, y \in Seq(Assertion) : (x \o s) \o y = x \o (s \o y)

LEMMA AllAssociate ==
  ASSUME NEW s \in Seq(Assertion)
  PROVE  Associates(s)
  BY Assoc, Zenon DEF Associates

\* The steps of id.Check are id.Check.
LEMMA QueryIsIdCheck ==
  ASSUME NEW i \in Invocations, LoadsOf(i), HasText(i)
  PROVE  AtQuery(i) = IdCheck(TextOf(i)) \o AtSvidPath(i)
  <1> DEFINE t == TextOf(i)
             c1 == CheckQueryFragment(t)
             c2 == CheckScheme(t)
             c3 == CheckAuthority(t)
             c4 == CheckPath(t)
             c5 == CheckLength(t)
             none == Fail("IDSchemeSpiffe", "")
             rest == AtSvidPath(i)
  <1>1. /\ c1 \in Seq(Assertion)
        /\ t.parses => c2 \in Seq(Assertion)
        /\ ~t.parses => none \in Seq(Assertion)
        /\ c3 \in Seq(Assertion) /\ c4 \in Seq(Assertion) /\ c5 \in Seq(Assertion)
    BY IdChecksAppend
  <1>2. rest \in Seq(Assertion)
    BY TextAheadType
  <1>3. IdCheck(t) = c1 \o IF ~t.parses THEN none ELSE c2 \o c3 \o c4 \o c5
    BY DEF IdCheck
  <1>4. AtQuery(i) = c1 \o IF t.parses THEN c2 \o (c3 \o (c4 \o (c5 \o rest))) ELSE none \o rest
    BY DEF AtQuery, AtParse, AtAuthority, AtPath, AtLength
  <1> HIDE DEF c1, c2, c3, c4, c5, none, rest
  <1>5. CASE ~t.parses
    <2>1. none \in Seq(Assertion) /\ c1 \in Seq(Assertion)
      BY <1>1, <1>5
    <2>2. (c1 \o none) \o rest = c1 \o (none \o rest)
      BY <2>1, <1>2, Assoc, Zenon
    <2> QED
      BY <2>2, <1>3, <1>4, <1>5, Zenon DEF rest
  <1>6. CASE t.parses
    <2>1. c2 \in Seq(Assertion)
      BY <1>1, <1>6
    <2>2. PICK m \in Seq(Assertion) : m = c2 \o c3 \o c4 \o c5
      BY <2>1, <1>1, Concatenation
    <2>3. c2 \o c3 \in Seq(Assertion) /\ c4 \o (c5 \o rest) \in Seq(Assertion)
      BY <2>1, <1>1, <1>2, Concatenation
    <2>4. c2 \o c3 \o c4 \in Seq(Assertion) /\ c5 \o rest \in Seq(Assertion)
      BY <2>1, <1>1, <1>2, Concatenation
    <2>5. Associates(m)
      BY AllAssociate
    <2>6. Associates(c3)
      BY <1>1, AllAssociate
    <2>7. Associates(c4)
      BY <1>1, AllAssociate
    <2>8. Associates(c5)
      BY <1>1, AllAssociate
    <2>9. c1 \in Seq(Assertion)
      BY <1>1
    <2>10. (c1 \o m) \o rest = c1 \o (m \o rest)
      BY <1>2, <2>5, <2>9, Zenon DEF Associates
    <2>11. c2 \o c3 \o c4 \o c5 \o rest = c2 \o c3 \o c4 \o (c5 \o rest)
      BY <1>2, <2>4, <2>8, Zenon DEF Associates
    <2>12. c2 \o c3 \o c4 \o (c5 \o rest) = c2 \o c3 \o (c4 \o (c5 \o rest))
      BY <2>3, <2>4, <2>7, Zenon DEF Associates
    <2>13. c2 \o c3 \o (c4 \o (c5 \o rest)) = c2 \o (c3 \o (c4 \o (c5 \o rest)))
      BY <2>1, <2>3, <2>6, Zenon DEF Associates
    <2> QED
      BY <2>2, <2>10, <2>11, <2>12, <2>13, <1>3, <1>4, <1>6, Zenon DEF rest
  <1> QED
    BY <1>5, <1>6

\* The steps of `scc x509-svid` are x509svid.Check.
LEMMA StepsAreX509Check ==
  ASSUME NEW i \in Invocations, LoadsOf(i), i.cmd # "id"
  PROVE  AtURISAN(i) = X509Check(LoadedOf(i))
  <1> DEFINE c == LoadedOf(i)
             c1 == CheckURISAN(c)
             c2 == CheckBasicConstraints(c)
             c3 == CheckKeyUsage(c)
             c4 == CheckEKU(c)
             c5 == CheckSANCritical(c)
             c6 == AtText(i)
  <1>1. /\ c1 \in Seq(Assertion) /\ c2 \in Seq(Assertion) /\ c3 \in Seq(Assertion)
        /\ c4 \in Seq(Assertion) /\ c5 \in Seq(Assertion) /\ c6 \in Seq(Assertion)
    BY CertificateOf, SvidChecksAppend, CertificateAheadType
  <1>2. c6 = IF Len(c.uris) = 1 THEN CheckSpiffeId(c, Reserialised(c.uris[1])) ELSE << >>
    <2>1. CASE Len(c.uris) = 1
      <3>1. AtQuery(i) = IdCheck(TextOf(i)) \o AtSvidPath(i)
        BY <2>1, QueryIsIdCheck DEF HasText
      <3> QED
        BY <3>1, <2>1, Zenon DEF AtText, CheckSpiffeId, TextOf, AtSvidPath
    <2>2. CASE Len(c.uris) # 1
      BY <2>2, Zenon DEF AtText
    <2> QED
      BY <2>1, <2>2
  <1>3. X509Check(c) = c1 \o c2 \o c3 \o c4 \o c5 \o c6
    BY <1>2, Zenon DEF X509Check
  <1>4. AtURISAN(i) = c1 \o (c2 \o (c3 \o (c4 \o (c5 \o c6))))
    BY DEF AtURISAN, AtBasicConstraints, AtKeyUsage, AtEKU, AtSANCritical
  <1> HIDE DEF c1, c2, c3, c4, c5, c6
  <1>5. c1 \o c2 \in Seq(Assertion) /\ c3 \o (c4 \o (c5 \o c6)) \in Seq(Assertion)
    BY <1>1, Concatenation
  <1>6. c1 \o c2 \o c3 \in Seq(Assertion) /\ c4 \o (c5 \o c6) \in Seq(Assertion)
    BY <1>1, Concatenation
  <1>7. c1 \o c2 \o c3 \o c4 \in Seq(Assertion) /\ c5 \o c6 \in Seq(Assertion)
    BY <1>1, Concatenation
  <1>8. c1 \in Seq(Assertion)
    BY <1>1
  <1>9. c6 \in Seq(Assertion)
    BY <1>1
  <1>10. Associates(c2)
    BY <1>1, AllAssociate
  <1>11. Associates(c3)
    BY <1>1, AllAssociate
  <1>12. Associates(c4)
    BY <1>1, AllAssociate
  <1>13. Associates(c5)
    BY <1>1, AllAssociate
  <1>14. c1 \o c2 \o c3 \o c4 \o c5 \o c6 = c1 \o c2 \o c3 \o c4 \o (c5 \o c6)
    BY <1>7, <1>9, <1>13, Zenon DEF Associates
  <1>15. c1 \o c2 \o c3 \o c4 \o (c5 \o c6) = c1 \o c2 \o c3 \o (c4 \o (c5 \o c6))
    BY <1>6, <1>7, <1>12, Zenon DEF Associates
  <1>16. c1 \o c2 \o c3 \o (c4 \o (c5 \o c6)) = c1 \o c2 \o (c3 \o (c4 \o (c5 \o c6)))
    BY <1>5, <1>6, <1>11, Zenon DEF Associates
  <1>17. c1 \o c2 \o (c3 \o (c4 \o (c5 \o c6))) = c1 \o (c2 \o (c3 \o (c4 \o (c5 \o c6))))
    BY <1>5, <1>8, <1>10, Zenon DEF Associates
  <1> QED
    BY <1>3, <1>4, <1>14, <1>15, <1>16, <1>17, Zenon

\* At the first check, all of the report is ahead.
LEMMA AllAhead ==
  ASSUME NEW i \in Invocations, LoadsOf(i)
  PROVE  /\ i.cmd = "id" => Ahead(i, "query") = Whole(i)
         /\ i.cmd # "id" => Ahead(i, "uriSAN") = Whole(i)
  <1>1. CASE i.cmd = "id"
    <2>1. AtQuery(i) = IdCheck(TextOf(i)) \o << >>
      BY <1>1, QueryIsIdCheck, Zenon DEF HasText, AtSvidPath
    <2>2. IdCheck(TextOf(i)) \in Seq(Assertion)
      BY <1>1, IdChecksAppend DEF HasText
    <2>3. AtQuery(i) = IdCheck(TextOf(i))
      BY <2>1, <2>2, NothingMore
    <2>4. Ahead(i, "query") = AtQuery(i)
      BY DEF Ahead
    <2> QED
      BY <2>3, <2>4, <1>1, Zenon DEF Whole, TextOf
  <1>2. CASE i.cmd # "id"
    <2>1. Ahead(i, "uriSAN") = AtURISAN(i)
      BY DEF Ahead
    <2> QED
      BY <2>1, <1>2, StepsAreX509Check, Zenon DEF Whole
  <1> QED
    BY <1>1, <1>2

---------------------------------------------------------------------------
(* The inductive invariant: what is written and what is still ahead are,   *)
(* at every step, the one report this invocation has.                      *)

CertificateSteps ==
    {"uriSAN", "basicConstraints", "keyUsage", "eku", "sanCritical", "spiffeId", "svidPath"}

TextSteps == {"query", "parse", "authority", "path", "length", "svidPath"}

Steps == CertificateSteps \cup TextSteps \cup {"emit", "done"}

NotStarted == pc = "args" /\ exit = -1 /\ report = << >>

Refused == pc = "done" /\ exit = 2 /\ report = << >> /\ ~LoadsOf(inv)

Judging ==
    /\ pc \in Steps
    /\ LoadsOf(inv)
    /\ report \in Seq(Assertion)
    /\ report \o Ahead(inv, pc) = Whole(inv)
    /\ inv.cmd # "id" => cert = LoadedOf(inv)
    /\ pc \in CertificateSteps => inv.cmd # "id"
    /\ pc \in TextSteps \cup {"spiffeId"} => HasText(inv)
    /\ pc \in TextSteps => text = TextOf(inv)
    /\ exit = IF pc = "done" THEN EmitOf(report, inv.format, inv.writable) ELSE -1

IInv == inv \in Invocations /\ (NotStarted \/ Refused \/ Judging)

LEMMA LoadedIs == Loaded = LoadedOf(inv) /\ (Loads <=> LoadsOf(inv))
  BY DEF Loaded, LoadedOf, Loads, LoadsOf

LEMMA InitIInv == Init => IInv
  BY DEF Init, IInv, NotStarted

\* Writing the next lines of the report.
LEMMA WrittenOn ==
  ASSUME NEW r \in Seq(Assertion), NEW a \in Seq(Assertion), NEW rest \in Seq(Assertion)
  PROVE  r \o a \in Seq(Assertion) /\ (r \o a) \o rest = r \o (a \o rest)
  BY Concatenation, Assoc

\* A check leaves for the step to; it writes a, and that is what was ahead of
\* it but not of to.
LEMMA CheckStep ==
  ASSUME inv \in Invocations, Judging, pc # "done",
         NEW to \in Steps \ {"done"}, NEW a \in Seq(Assertion),
         Ahead(inv, to) \in Seq(Assertion),
         Ahead(inv, pc) = a \o Ahead(inv, to),
         to \in CertificateSteps => inv.cmd # "id",
         to \in TextSteps \cup {"spiffeId"} => HasText(inv),
         to \in TextSteps => text = TextOf(inv),
         pc' = to, report' = report \o a, UNCHANGED <<inv, cert, text, exit>>
  PROVE  IInv'
  <1>0. report \in Seq(Assertion)
    BY DEF Judging
  <1>1. report' \in Seq(Assertion) /\ report' \o Ahead(inv, to) = report \o Ahead(inv, pc)
    <2>1. /\ report \o a \in Seq(Assertion)
          /\ (report \o a) \o Ahead(inv, to) = report \o (a \o Ahead(inv, to))
      BY <1>0, WrittenOn
    <2> QED
      BY <2>1
  <1>2. report' \o Ahead(inv', pc') = Whole(inv')
    BY <1>1 DEF Judging
  <1>3. exit' = -1 /\ pc' # "done"
    BY DEF Judging
  <1>4. Judging'
    BY <1>1, <1>2, <1>3 DEF Judging
  <1> QED
    BY <1>4 DEF IInv

\* The checks of x509-svid that read the certificate.
LEMMA CertificateCheck ==
  ASSUME IInv,
         URISAN \/ BasicConstraints \/ KeyUsage \/ EKU \/ SANCritical
  PROVE  IInv'
  <1> DEFINE c == LoadedOf(inv)
  <1>1. /\ inv \in Invocations /\ Judging
        /\ pc \in {"uriSAN", "basicConstraints", "keyUsage", "eku", "sanCritical"}
    BY DEF IInv, NotStarted, Refused, URISAN, BasicConstraints, KeyUsage, EKU,
           SANCritical, Check
  <1>2. LoadsOf(inv) /\ inv.cmd # "id" /\ cert = c
    BY <1>1 DEF Judging, CertificateSteps
  <1>3. /\ CheckURISAN(c) \in Seq(Assertion) /\ CheckBasicConstraints(c) \in Seq(Assertion)
        /\ CheckKeyUsage(c) \in Seq(Assertion) /\ CheckEKU(c) \in Seq(Assertion)
        /\ CheckSANCritical(c) \in Seq(Assertion)
    BY <1>1, <1>2, CertificateOf, SvidChecksAppend
  <1>4. /\ AtBasicConstraints(inv) \in Seq(Assertion) /\ AtKeyUsage(inv) \in Seq(Assertion)
        /\ AtEKU(inv) \in Seq(Assertion) /\ AtSANCritical(inv) \in Seq(Assertion)
        /\ AtText(inv) \in Seq(Assertion)
    BY <1>1, <1>2, CertificateAheadType
  <1> HIDE DEF c
  <1>5. CASE URISAN
    <2>1. /\ Ahead(inv, "uriSAN") = CheckURISAN(c) \o Ahead(inv, "basicConstraints")
          /\ Ahead(inv, "basicConstraints") = AtBasicConstraints(inv)
      BY Zenon DEF Ahead, AtURISAN, c
    <2> QED
      BY <1>1, <1>2, <1>3, <1>4, <1>5, <2>1, CheckStep
         DEF URISAN, Check, Steps, CertificateSteps, TextSteps
  <1>6. CASE BasicConstraints
    <2>1. /\ Ahead(inv, "basicConstraints") = CheckBasicConstraints(c) \o Ahead(inv, "keyUsage")
          /\ Ahead(inv, "keyUsage") = AtKeyUsage(inv)
      BY Zenon DEF Ahead, AtBasicConstraints, c
    <2> QED
      BY <1>1, <1>2, <1>3, <1>4, <1>6, <2>1, CheckStep
         DEF BasicConstraints, Check, Steps, CertificateSteps, TextSteps
  <1>7. CASE KeyUsage
    <2>1. /\ Ahead(inv, "keyUsage") = CheckKeyUsage(c) \o Ahead(inv, "eku")
          /\ Ahead(inv, "eku") = AtEKU(inv)
      BY Zenon DEF Ahead, AtKeyUsage, c
    <2> QED
      BY <1>1, <1>2, <1>3, <1>4, <1>7, <2>1, CheckStep
         DEF KeyUsage, Check, Steps, CertificateSteps, TextSteps
  <1>8. CASE EKU
    <2>1. /\ Ahead(inv, "eku") = CheckEKU(c) \o Ahead(inv, "sanCritical")
          /\ Ahead(inv, "sanCritical") = AtSANCritical(inv)
      BY Zenon DEF Ahead, AtEKU, c
    <2> QED
      BY <1>1, <1>2, <1>3, <1>4, <1>8, <2>1, CheckStep
         DEF EKU, Check, Steps, CertificateSteps, TextSteps
  <1>9. CASE SANCritical
    <2>1. Ahead(inv, "sanCritical") = CheckSANCritical(c) \o AtText(inv)
      BY Zenon DEF Ahead, AtSANCritical, c
    <2>2. CASE Len(c.uris) = 1
      <3>1. AtText(inv) = Ahead(inv, "spiffeId")
        BY <2>2 DEF Ahead, AtText, c
      <3>2. HasText(inv)
        BY <2>2 DEF HasText, c
      <3> QED
        BY <1>1, <1>2, <1>3, <1>4, <1>9, <2>1, <2>2, <3>1, <3>2, CheckStep
           DEF SANCritical, Check, Steps, CertificateSteps, TextSteps
    <2>3. CASE Len(c.uris) # 1
      <3>1. AtText(inv) = Ahead(inv, "emit")
        BY <2>3 DEF Ahead, AtText, c
      <3> QED
        BY <1>1, <1>2, <1>3, <1>4, <1>9, <2>1, <2>3, <3>1, CheckStep
           DEF SANCritical, Check, Steps, CertificateSteps, TextSteps
    <2> QED
      BY <2>2, <2>3
  <1> QED
    BY <1>5, <1>6, <1>7, <1>8, <1>9

\* The checks of id.Check, on the argument or on the SAN.
LEMMA TextCheck ==
  ASSUME IInv,
         QueryFragment \/ ParseFails \/ Scheme \/ Authority \/ Path \/ Length \/ SvidPath
  PROVE  IInv'
  <1> DEFINE t == TextOf(inv)
             fail == Fail("IDSchemeSpiffe", "")
             after == AtSvidPath(inv)
  <1>1. inv \in Invocations /\ Judging /\ pc \in TextSteps
    BY DEF IInv, NotStarted, Refused, QueryFragment, ParseFails, Scheme, Authority, Path,
           Length, SvidPath, Check, TextSteps
  <1>2. LoadsOf(inv) /\ HasText(inv) /\ text = t /\ text = TextOf(inv) /\ inv.cmd \in {"id", "x509-svid"}
    BY <1>1, InvocationAssumption DEF Judging
  <1>3. /\ CheckQueryFragment(t) \in Seq(Assertion)
        /\ t.parses => CheckScheme(t) \in Seq(Assertion)
        /\ ~t.parses => fail \in Seq(Assertion)
        /\ CheckAuthority(t) \in Seq(Assertion) /\ CheckPath(t) \in Seq(Assertion)
        /\ CheckLength(t) \in Seq(Assertion)
    BY <1>1, <1>2, IdChecksAppend
  <1>4. /\ after \in Seq(Assertion) /\ AtLength(inv) \in Seq(Assertion)
        /\ AtPath(inv) \in Seq(Assertion) /\ AtAuthority(inv) \in Seq(Assertion)
        /\ AtParse(inv) \in Seq(Assertion)
    BY <1>1, <1>2, TextAheadType
  <1>5. Ahead(inv, AfterIdCheck) = after
    BY <1>2, Zenon DEF Ahead, AfterIdCheck, AtSvidPath
  <1>6. /\ AfterIdCheck \in {"emit", "svidPath"}
        /\ AfterIdCheck = "svidPath" => inv.cmd # "id"
    BY <1>2 DEF AfterIdCheck
  <1>7. CASE QueryFragment
    <2>1. /\ Ahead(inv, "query") = CheckQueryFragment(t) \o Ahead(inv, "parse")
          /\ Ahead(inv, "parse") = AtParse(inv)
      BY Zenon DEF Ahead, AtQuery
    <2> HIDE DEF t, fail, after
    <2> QED
      BY <1>1, <1>2, <1>3, <1>4, <1>7, <2>1, CheckStep
         DEF QueryFragment, Check, Steps, CertificateSteps, TextSteps
  <1>8. CASE ParseFails
    <2>1. ~t.parses /\ report' = report \o fail
      BY <1>2, <1>8 DEF ParseFails
    <2>2. Ahead(inv, "parse") = fail \o Ahead(inv, AfterIdCheck)
      BY <1>5, <2>1, Zenon DEF Ahead, AtParse
    <2> HIDE DEF t, fail, after
    <2> QED
      BY <1>1, <1>2, <1>3, <1>4, <1>5, <1>6, <1>8, <2>1, <2>2, CheckStep
         DEF ParseFails, Steps, CertificateSteps, TextSteps
  <1>9. CASE Scheme
    <2>1. t.parses
      BY <1>2, <1>9 DEF Scheme
    <2>2. /\ Ahead(inv, "parse") = CheckScheme(t) \o Ahead(inv, "authority")
          /\ Ahead(inv, "authority") = AtAuthority(inv)
      BY <2>1, Zenon DEF Ahead, AtParse
    <2> HIDE DEF t, fail, after
    <2> QED
      BY <1>1, <1>2, <1>3, <1>4, <1>9, <2>1, <2>2, CheckStep
         DEF Scheme, Check, Steps, CertificateSteps, TextSteps
  <1>10. CASE Authority
    <2>1. /\ Ahead(inv, "authority") = CheckAuthority(t) \o Ahead(inv, "path")
          /\ Ahead(inv, "path") = AtPath(inv)
      BY Zenon DEF Ahead, AtAuthority
    <2> HIDE DEF t, fail, after
    <2> QED
      BY <1>1, <1>2, <1>3, <1>4, <1>10, <2>1, CheckStep
         DEF Authority, Check, Steps, CertificateSteps, TextSteps
  <1>11. CASE Path
    <2>1. /\ Ahead(inv, "path") = CheckPath(t) \o Ahead(inv, "length")
          /\ Ahead(inv, "length") = AtLength(inv)
      BY Zenon DEF Ahead, AtPath
    <2> HIDE DEF t, fail, after
    <2> QED
      BY <1>1, <1>2, <1>3, <1>4, <1>11, <2>1, CheckStep
         DEF Path, Check, Steps, CertificateSteps, TextSteps
  <1>12. CASE Length
    <2>1. Ahead(inv, "length") = CheckLength(t) \o Ahead(inv, AfterIdCheck)
      BY <1>5, Zenon DEF Ahead, AtLength
    <2> HIDE DEF t, fail, after
    <2> QED
      BY <1>1, <1>2, <1>3, <1>4, <1>5, <1>6, <1>12, <2>1, CheckStep
         DEF Length, Check, Steps, CertificateSteps, TextSteps
  <1>13. CASE SvidPath
    <2>1. pc = "svidPath" /\ inv.cmd # "id" /\ cert = LoadedOf(inv)
      BY <1>1, <1>13 DEF SvidPath, Check, Judging, CertificateSteps
    <2>2. Ahead(inv, "svidPath") = CheckSvidPath(cert, t) /\ Ahead(inv, "emit") = << >>
      BY <2>1, Zenon DEF Ahead, AtSvidPath
    <2>3. CheckSvidPath(cert, t) \in Seq(Assertion) /\ << >> \in Seq(Assertion)
      <3>1. after = CheckSvidPath(cert, t)
        BY <2>1, Zenon DEF AtSvidPath
      <3> QED
        BY <1>4, <3>1, Concatenation
    <2>4. CheckSvidPath(cert, t) = CheckSvidPath(cert, t) \o Ahead(inv, "emit")
      BY <2>2, <2>3, NothingMore
    <2> HIDE DEF t, fail, after
    <2> QED
      BY <1>1, <1>2, <1>13, <2>1, <2>2, <2>3, <2>4, CheckStep
         DEF SvidPath, Check, Steps, CertificateSteps, TextSteps
  <1> QED
    BY <1>7, <1>8, <1>9, <1>10, <1>11, <1>12, <1>13

\* The first step: the artifact is at hand or there is no report.
LEMMA FirstStep ==
  ASSUME IInv, UsageError \/ StartId \/ LoadCertificate \/ LoadFails
  PROVE  IInv'
  <1>1. inv \in Invocations /\ pc = "args" /\ exit = -1 /\ report = << >>
    BY DEF IInv, Judging, Steps, CertificateSteps, TextSteps, NotStarted, Refused,
           UsageError, StartId, LoadCertificate, LoadFails, Quit
  <1>2. CASE UsageError
    BY <1>1, <1>2 DEF UsageError, Quit, IInv, Refused, LoadsOf
  <1>3. CASE LoadFails
    BY <1>1, <1>3, LoadedIs DEF LoadFails, Quit, IInv, Refused, LoadsOf
  <1>4. CASE StartId
    <2>1. LoadsOf(inv) /\ HasText(inv) /\ inv.cmd = "id" /\ text' = TextOf(inv)
      BY <1>4 DEF StartId, LoadsOf, HasText, TextOf
    <2>2. Ahead(inv, "query") = Whole(inv) /\ Ahead(inv, "query") = AtQuery(inv)
      BY <1>1, <2>1, AllAhead DEF Ahead
    <2>3. << >> \o Ahead(inv, "query") = Whole(inv) /\ << >> \in Seq(Assertion)
      BY <1>1, <2>1, <2>2, TextAheadType, NothingMore
    <2>4. pc' = "query" /\ inv' = inv /\ report' = << >> /\ exit' = -1
      BY <1>1, <1>4 DEF StartId
    <2>5. Judging'
      BY <2>1, <2>3, <2>4 DEF Judging, Steps, CertificateSteps, TextSteps
    <2> QED
      BY <1>1, <2>4, <2>5 DEF IInv
  <1>5. CASE LoadCertificate
    <2>1. LoadsOf(inv) /\ inv.cmd # "id" /\ cert' = LoadedOf(inv)
      BY <1>5, LoadedIs DEF LoadCertificate, LoadsOf
    <2>2. Ahead(inv, "uriSAN") = Whole(inv) /\ Ahead(inv, "uriSAN") = AtURISAN(inv)
      BY <1>1, <2>1, AllAhead DEF Ahead
    <2>3. << >> \o Ahead(inv, "uriSAN") = Whole(inv) /\ << >> \in Seq(Assertion)
      BY <1>1, <2>1, <2>2, CertificateAheadType, NothingMore
    <2>4. pc' = "uriSAN" /\ inv' = inv /\ report' = << >> /\ exit' = -1
      BY <1>1, <1>5 DEF LoadCertificate
    <2>5. Judging'
      BY <2>1, <2>3, <2>4 DEF Judging, Steps, CertificateSteps, TextSteps
    <2> QED
      BY <1>1, <2>4, <2>5 DEF IInv
  <1> QED
    BY <1>2, <1>3, <1>4, <1>5

\* The steps that write nothing: the SAN becomes the text, and the exit.
LEMMA QuietStep ==
  ASSUME IInv, SpiffeIdOfSan \/ Emit \/ UNCHANGED vars
  PROVE  IInv'
  <1>1. CASE SpiffeIdOfSan
    <2>1. /\ inv \in Invocations /\ Judging /\ pc = "spiffeId" /\ pc' = "query"
          /\ UNCHANGED <<inv, cert, report, exit>>
      BY <1>1 DEF IInv, NotStarted, Refused, SpiffeIdOfSan
    <2>2. inv.cmd # "id" /\ HasText(inv) /\ text' = TextOf(inv)
      BY <1>1, <2>1 DEF Judging, SpiffeIdOfSan, CertificateSteps, TextOf
    <2>3. Ahead(inv, "spiffeId") = Ahead(inv, "query")
      BY DEF Ahead
    <2>4. Judging'
      BY <2>1, <2>2, <2>3 DEF Judging, Steps, CertificateSteps, TextSteps
    <2> QED
      BY <2>1, <2>4 DEF IInv
  <1>2. CASE Emit
    <2>1. /\ inv \in Invocations /\ Judging /\ pc = "emit" /\ pc' = "done"
          /\ UNCHANGED <<inv, cert, text, report>>
          /\ exit' = EmitOf(report, inv.format, inv.writable)
      BY <1>2 DEF IInv, NotStarted, Refused, Emit, Quit
    <2>2. Ahead(inv, "emit") = Ahead(inv, "done")
      BY DEF Ahead
    <2>3. Judging'
      BY <2>1, <2>2 DEF Judging, Steps, CertificateSteps, TextSteps
    <2> QED
      BY <2>1, <2>3 DEF IInv
  <1>3. CASE UNCHANGED vars
    BY <1>3 DEF IInv, NotStarted, Refused, Judging, vars
  <1> QED
    BY <1>1, <1>2, <1>3

LEMMA NextIInv == IInv /\ [Next]_vars => IInv'
  BY FirstStep, CertificateCheck, TextCheck, QuietStep DEF Next, Terminated

\* At every step, what is written is the beginning of the one report this
\* invocation has, and what the steps ahead write is the rest of it.
THEOREM Inductive == Spec => []IInv
  BY InitIInv, NextIInv, PTL DEF Spec

---------------------------------------------------------------------------
(* What the one report says.                                               *)

\* The clauses it comes to, those that come out true, those that bind the
\* artifact, and those that are true of the artifact as written.
JudgedOf(i) == IF i.cmd = "id" THEN IdJudged(i.text) ELSE SvidJudged(LoadedOf(i))

ToldOfCertificate(c) ==
    SvidTrue(c) \cup IF Len(c.uris) = 1 THEN IdTrue(Reserialised(c.uris[1])) ELSE {}

ToldOf(i) == IF i.cmd = "id" THEN IdTrue(i.text) ELSE ToldOfCertificate(LoadedOf(i))

DemandsOf(i) == IF i.cmd = "id" THEN SpiffeIdClauses ELSE CertDemands(LoadedOf(i))

TrueOfCertificate(c) ==
    {x \in X509SvidClauses : SvidTruth(c)[x]}
    \cup IF Len(c.uris) = 1 THEN {x \in SpiffeIdClauses : IdTruth(c.uris[1])[x]} ELSE {}

TrueOf(i) ==
    IF i.cmd = "id" THEN {x \in SpiffeIdClauses : IdTruth(i.text)[x]}
    ELSE TrueOfCertificate(LoadedOf(i))

WrittenOf(i) == IF i.cmd = "id" THEN i.text ELSE LoadedOf(i).uris[1]

ResizedOf(i) ==
    /\ i.cmd # "id" /\ Len(LoadedOf(i).uris) = 1
    /\ LoadedOf(i).uris[1].long # LoadedOf(i).uris[1].longString

EmptyFragmentOf(i) ==
    i.cmd # "id" /\ Len(LoadedOf(i).uris) = 1 /\ LoadedOf(i).uris[1].fragment = "empty"

\* No clause is in both documents.
LEMMA TwoDocuments == X509SvidClauses \cap SpiffeIdClauses = {}
  BY DEF X509SvidClauses, SpiffeIdClauses

LEMMA CertificateTold ==
  ASSUME NEW c
  PROVE  /\ SvidTold(c, ToldOfCertificate(c))
         /\ UriTold(c, ToldOfCertificate(c))
         /\ CertTrue(c, TrueOfCertificate(c))
  <1> DEFINE T == ToldOfCertificate(c)
             t == Reserialised(c.uris[1])
  <1>1. \A x \in X509SvidClauses : x \in T <=> x \in SvidTrue(c)
    BY TwoDocuments DEF ToldOfCertificate, IdTrue
  <1>2. Len(c.uris) = 1 => \A x \in SpiffeIdClauses : x \in T <=> x \in IdTrue(t)
    BY TwoDocuments DEF ToldOfCertificate, SvidTrue
  <1>3. CertTrue(c, TrueOfCertificate(c))
    BY TwoDocuments DEF CertTrue, TrueOfCertificate
  <1> HIDE DEF T
  <1>4. SvidTold(c, T)
    BY <1>1, SvidTrueIsTold
  <1>5. UriTold(c, T)
    BY <1>2, IdTrueIsTold DEF UriTold
  <1> QED
    BY <1>3, <1>4, <1>5 DEF T

LEMMA IdToldOf ==
  ASSUME NEW i \in Invocations, i.cmd = "id"
  PROVE  IdTold(i.text, IdTrue(i.text)) /\ i.text \in IdText
  BY IdTrueIsTold, InvocationAssumption

LEMMA WholeJudges ==
  ASSUME NEW i \in Invocations, LoadsOf(i)
  PROVE  Judges(Whole(i), JudgedOf(i), ToldOf(i))
  <1>1. CASE i.cmd = "id"
    BY <1>1, IdToldOf, IdCheckJudges DEF Whole, JudgedOf, ToldOf
  <1>2. CASE i.cmd # "id"
    BY <1>2, CertificateOf, CertificateTold, X509CheckJudges DEF Whole, JudgedOf, ToldOf
  <1> QED
    BY <1>1, <1>2

\* A line of the report is true of the artifact as written, but for those of a text
\* that net/url has changed.
LEMMA LinesTrue ==
  ASSUME NEW i \in Invocations, LoadsOf(i), NEW x \in JudgedOf(i)
  PROVE  \/ x \in ToldOf(i) <=> x \in TrueOf(i)
         \/ x \notin ToldOf(i) /\ x \in NewPathRules /\ HasRaw(WrittenOf(i).path)
         \/ x = "IDNoQueryFragment" /\ EmptyFragmentOf(i)
         \/ x = "IDLengthLimit" /\ ResizedOf(i)
  <1>1. CASE i.cmd = "id"
    <2> DEFINE t == i.text
    <2>1. x \in SpiffeIdClauses
      BY <1>1 DEF JudgedOf, IdJudged, SpiffeIdClauses, PathRules, NameRules
    <2>2. /\ x \in IdTrue(t) => IdTruth(t)[x]
          /\ \/ IdTruth(t)[x] => x \in IdTrue(t)
             \/ x \in NewPathRules /\ HasRaw(t.path)
      BY <1>1, <2>1, IdToldOf, IdToldIsTrue
    <2>3. x \in TrueOf(i) <=> IdTruth(t)[x]
      BY <1>1, <2>1 DEF TrueOf
    <2> QED
      BY <1>1, <2>2, <2>3 DEF ToldOf, WrittenOf
  <1>2. CASE i.cmd # "id"
    BY <1>2, CertificateOf, CertificateTold, CertLinesTrue
       DEF JudgedOf, ToldOf, TrueOf, WrittenOf, EmptyFragmentOf, ResizedOf
  <1> QED
    BY <1>1, <1>2

\* The report fails exactly when the artifact breaks a MUST that binds it, and
\* leaves nothing out when it does not fail.
LEMMA WholeVerdict ==
  ASSUME NEW i \in Invocations, LoadsOf(i)
  PROVE  /\ ~Failed(Whole(i)) => DemandsOf(i) \subseteq JudgedOf(i)
         /\ \/ Failed(Whole(i)) <=> \E x \in DemandsOf(i) \ ShouldClauses : x \notin TrueOf(i)
            \/ EmptyFragmentOf(i)
  <1>1. CASE i.cmd = "id"
    <2> DEFINE t == i.text
               D == IdJudged(t)
               T == IdTrue(t)
               M == SpiffeIdClauses
               H == {x \in SpiffeIdClauses : IdTruth(t)[x]}
               r == Whole(i)
    <2>1. IdTold(t, T) /\ Judges(r, D, T)
      BY <1>1, IdToldOf, WholeJudges DEF JudgedOf, ToldOf
    <2>2. D \subseteq M
      BY DEF IdJudged, SpiffeIdClauses, PathRules, NameRules
    <2>3. (D \cap T) \ ShouldClauses \subseteq H
      BY <1>1, <2>1, <2>2, IdToldOf, IdToldIsTrue
    <2>4. \A x \in D \ ShouldClauses : x \notin T => \E d \in M \ ShouldClauses : d \notin H
      <3> SUFFICES ASSUME NEW x \in D \ ShouldClauses, x \notin T
                   PROVE  \E d \in M \ ShouldClauses : d \notin H
        OBVIOUS
      <3>1. x \in SpiffeIdClauses \ ShouldClauses
        BY <2>2
      <3>2. PICK d \in SpiffeIdClauses \ ShouldClauses : ~IdTruth(t)[d]
        BY <1>1, <2>1, <3>1, IdToldOf, IdFailsForAReason
      <3> QED
        BY <3>2
    <2>5. (\A x \in D \ ShouldClauses : x \in T) => M \subseteq D
      BY <2>1, IdLeavesOutForAReason
    <2>6. /\ DemandsOf(i) = M /\ JudgedOf(i) = D /\ TrueOf(i) = H
      BY <1>1 DEF DemandsOf, JudgedOf, TrueOf
    <2> HIDE DEF D, T, M, H, r
    <2>7. /\ Failed(r) <=> \E x \in M \ ShouldClauses : x \notin H
          /\ ~Failed(r) => M \subseteq D
      BY <2>1, <2>2, <2>3, <2>4, <2>5, VerdictIsExact
    <2> QED
      BY <2>6, <2>7 DEF r
  <1>2. CASE i.cmd # "id"
    <2> DEFINE c == LoadedOf(i)
    <2>1. /\ ParsedCertificate(c) /\ SvidTold(c, ToldOf(i)) /\ UriTold(c, ToldOf(i))
          /\ CertTrue(c, TrueOf(i)) /\ Judges(Whole(i), SvidJudged(c), ToldOf(i))
      BY <1>2, CertificateOf, CertificateTold, WholeJudges DEF ToldOf, TrueOf, JudgedOf
    <2>2. /\ DemandsOf(i) = CertDemands(c) /\ JudgedOf(i) = SvidJudged(c)
          /\ EmptyFragmentOf(i) <=> Len(c.uris) = 1 /\ c.uris[1].fragment = "empty"
      BY <1>2 DEF DemandsOf, JudgedOf, EmptyFragmentOf
    <2> HIDE DEF c
    <2> QED
      BY <2>1, <2>2, CertVerdict
  <1> QED
    BY <1>1, <1>2

---------------------------------------------------------------------------
(* What the invariant says of the report and the exit code.                *)

LEMMA AheadType ==
  ASSUME inv \in Invocations, Judging
  PROVE  Ahead(inv, pc) \in Seq(Assertion)
  <1>1. LoadsOf(inv) /\ pc \in Steps
    BY DEF Judging
  <1>2. CASE pc \in {"emit", "done"}
    BY <1>2, Concatenation DEF Ahead
  <1>3. CASE pc \in TextSteps \cup {"spiffeId"}
    <2>1. HasText(inv)
      BY <1>3 DEF Judging
    <2>2. /\ AtSvidPath(inv) \in Seq(Assertion) /\ AtLength(inv) \in Seq(Assertion)
          /\ AtPath(inv) \in Seq(Assertion) /\ AtAuthority(inv) \in Seq(Assertion)
          /\ AtParse(inv) \in Seq(Assertion) /\ AtQuery(inv) \in Seq(Assertion)
      BY <1>1, <2>1, TextAheadType
    <2> QED
      BY <1>3, <2>2 DEF Ahead, TextSteps
  <1>4. CASE pc \in {"uriSAN", "basicConstraints", "keyUsage", "eku", "sanCritical"}
    <2>1. inv.cmd # "id"
      BY <1>4 DEF Judging, CertificateSteps
    <2>2. /\ AtSANCritical(inv) \in Seq(Assertion) /\ AtEKU(inv) \in Seq(Assertion)
          /\ AtKeyUsage(inv) \in Seq(Assertion) /\ AtBasicConstraints(inv) \in Seq(Assertion)
          /\ AtURISAN(inv) \in Seq(Assertion)
      BY <1>1, <2>1, CertificateAheadType
    <2> QED
      BY <1>4, <2>2 DEF Ahead
  <1> QED
    BY <1>1, <1>2, <1>3, <1>4 DEF Steps, CertificateSteps, TextSteps

\* Every line written so far is a line of the one report.
LEMMA ReportMeaning ==
  ASSUME inv \in Invocations, Judging
  PROVE  /\ \A i \in DOMAIN report : report[i].clause \in JudgedOf(inv)
         /\ \A i \in DOMAIN report :
              report[i].status = "pass" <=> report[i].clause \in ToldOf(inv)
         /\ \A i, j \in DOMAIN report : report[i].clause = report[j].clause => i = j
  <1>1. Judges(Whole(inv), JudgedOf(inv), ToldOf(inv))
    BY WholeJudges DEF Judging
  <1>2. Ahead(inv, pc) \in Seq(Assertion)
    BY AheadType
  <1>3. report \in Seq(Assertion) /\ report \o Ahead(inv, pc) = Whole(inv)
    BY DEF Judging
  <1>4. Judges(report \o Ahead(inv, pc), JudgedOf(inv), ToldOf(inv))
    BY <1>1, <1>3
  <1> QED
    BY <1>2, <1>3, <1>4, PartJudges

\* At the end it is all of it.
LEMMA ReportIsWhole ==
  ASSUME inv \in Invocations, Judging, pc = "done"
  PROVE  report = Whole(inv) /\ exit = EmitOf(report, inv.format, inv.writable)
  <1>1. Ahead(inv, pc) = << >>
    BY DEF Ahead
  <1>2. report \in Seq(Assertion) /\ report \o Ahead(inv, pc) = Whole(inv)
    BY DEF Judging
  <1>3. report \o << >> = Whole(inv)
    BY <1>1, <1>2
  <1>4. report = Whole(inv)
    BY <1>2, <1>3, NothingMore
  <1> QED
    BY <1>4 DEF Judging

\* Truth and Demanded are said of the certificate the program holds.
LEMMA TruthIs ==
  ASSUME inv \in Invocations, Judging, pc # "args"
  PROVE  /\ Demanded = DemandsOf(inv)
         /\ \A x \in DemandsOf(inv) : Truth[x] <=> x \in TrueOf(inv)
  <1>1. inv.cmd \in {"id", "x509-svid"} /\ (inv.cmd # "id" => cert = LoadedOf(inv))
    BY InvocationAssumption DEF Judging
  <1>2. CASE inv.cmd = "id"
    <2>1. Demanded = SpiffeIdClauses /\ Truth = IdTruth(inv.text)
      BY <1>2 DEF Demanded, Truth
    <2>2. /\ DemandsOf(inv) = SpiffeIdClauses
          /\ TrueOf(inv) = {x \in SpiffeIdClauses : IdTruth(inv.text)[x]}
      BY <1>2 DEF DemandsOf, TrueOf
    <2> QED
      BY <2>1, <2>2
  <1>3. CASE inv.cmd # "id" /\ Len(cert.uris) = 1
    <2> DEFINE f == SvidTruth(cert)
               g == IdTruth(cert.uris[1])
    <2>1. Demanded = SvidDemands(cert) \cup SpiffeIdClauses /\ Truth = Together(f, g)
      BY <1>1, <1>3 DEF Demanded, Truth
    <2>2. /\ DemandsOf(inv) = SvidDemands(cert) \cup SpiffeIdClauses
          /\ TrueOf(inv) = {x \in X509SvidClauses : SvidTruth(cert)[x]}
                           \cup {x \in SpiffeIdClauses : IdTruth(cert.uris[1])[x]}
      BY <1>1, <1>3 DEF DemandsOf, CertDemands, TrueOf, TrueOfCertificate
    <2>3. SvidDemands(cert) \subseteq X509SvidClauses
      BY DEF SvidDemands, X509SvidClauses
    <2>4. DOMAIN f = X509SvidClauses /\ DOMAIN g = SpiffeIdClauses
      BY SvidTruthParts, IdTruthParts
    <2> HIDE DEF f, g
    <2>5. \A x \in X509SvidClauses : Together(f, g)[x] = f[x]
      BY <2>4 DEF Together
    <2>6. \A x \in SpiffeIdClauses : Together(f, g)[x] = g[x]
      BY <2>4, TwoDocuments DEF Together
    <2> QED
      BY <2>1, <2>2, <2>3, <2>5, <2>6, TwoDocuments DEF f, g
  <1>4. CASE inv.cmd # "id" /\ Len(cert.uris) # 1
    <2>1. Demanded = SvidDemands(cert) /\ Truth = SvidTruth(cert)
      BY <1>1, <1>4 DEF Demanded, Truth
    <2>2. /\ DemandsOf(inv) = SvidDemands(cert)
          /\ TrueOf(inv) = {x \in X509SvidClauses : SvidTruth(cert)[x]}
      BY <1>1, <1>4 DEF DemandsOf, CertDemands, TrueOf, TrueOfCertificate
    <2>3. SvidDemands(cert) \subseteq X509SvidClauses
      BY DEF SvidDemands, X509SvidClauses
    <2> QED
      BY <2>1, <2>2, <2>3
  <1> QED
    BY <1>2, <1>3, <1>4

LEMMA JudgedIsDemanded ==
  ASSUME NEW i
  PROVE  JudgedOf(i) \subseteq DemandsOf(i)
  <1>1. IdJudged(i.text) \subseteq SpiffeIdClauses
    BY DEF IdJudged, SpiffeIdClauses, PathRules, NameRules
  <1> QED
    BY <1>1, JudgedAreDemanded DEF JudgedOf, DemandsOf

LEMMA WrittenIs ==
  ASSUME inv \in Invocations, Judging
  PROVE  /\ Written = WrittenOf(inv)
         /\ EmptyFragmentSan <=> EmptyFragmentOf(inv)
         /\ ResizedSan <=> ResizedOf(inv)
  <1>1. inv.cmd \in {"id", "x509-svid"} /\ (inv.cmd # "id" => cert = LoadedOf(inv))
    BY InvocationAssumption DEF Judging
  <1>2. Written = WrittenOf(inv)
    BY <1>1 DEF Written, WrittenOf
  <1> QED
    BY <1>1, <1>2 DEF EmptyFragmentSan, EmptyFragmentOf, ResizedSan, ResizedOf, WrittenOf

---------------------------------------------------------------------------
(* The theorems.                                                           *)

\* The state is well typed: the report holds assertions of known clauses, and
\* there is an exit code of the usage text exactly when the command has ended.
THEOREM TypeCorrect == Spec => []TypeOK
  <1>1. IInv => inv.cmd \in {"id", "x509-svid"}
    BY InvocationAssumption DEF IInv
  <1>2. IInv => report \in Seq(Assertion)
    BY Concatenation DEF IInv, NotStarted, Refused, Judging
  <1>3. ASSUME IInv
        PROVE  exit \in {-1, 0, 1, 2} /\ (exit # -1 <=> pc = "done")
    <2>1. CASE NotStarted \/ Refused
      BY <2>1 DEF NotStarted, Refused
    <2>2. CASE Judging
      <3>1. exit = IF pc = "done" THEN EmitOf(report, inv.format, inv.writable) ELSE -1
        BY <2>2 DEF Judging
      <3>2. EmitOf(report, inv.format, inv.writable) \in {0, 1, 2}
        BY DEF EmitOf, ExitOf
      <3> QED
        BY <3>1, <3>2
    <2> QED
      BY <1>3, <2>1, <2>2 DEF IInv
  <1>4. IInv => TypeOK
    BY <1>1, <1>2, <1>3 DEF TypeOK
  <1> QED
    BY <1>4, Inductive, PTL

\* Every line of the report is true of the artifact as it was written, at every
\* moment of the sweep, but for a FAIL that blames a path escaped anew and for the
\* fragment and the length of a SAN that String has changed.
THEOREM Truthful == Spec => []ReportIsTruthful
  <1>1. ASSUME IInv, NotStarted \/ Refused
        PROVE  ReportIsTruthful
    BY <1>1 DEF NotStarted, Refused, ReportIsTruthful
  <1>2. ASSUME IInv, Judging
        PROVE  ReportIsTruthful
    <2>1. inv \in Invocations /\ LoadsOf(inv) /\ pc # "args"
      BY <1>2 DEF IInv, Judging, Steps, CertificateSteps, TextSteps
    <2> SUFFICES ASSUME NEW k \in DOMAIN report
                 PROVE  \/ report[k].status = "pass" <=> Truth[report[k].clause]
                        \/ BlamesNewPath(Written, report[k])
                        \/ report[k].clause = "IDNoQueryFragment" /\ EmptyFragmentSan
                        \/ report[k].clause = "IDLengthLimit" /\ ResizedSan
      BY DEF ReportIsTruthful
    <2> DEFINE x == report[k].clause
    <2>2. x \in JudgedOf(inv) /\ (report[k].status = "pass" <=> x \in ToldOf(inv))
      BY <1>2, <2>1, ReportMeaning
    <2>3. Truth[x] <=> x \in TrueOf(inv)
      BY <1>2, <2>1, <2>2, TruthIs, JudgedIsDemanded
    <2>4. \/ x \in ToldOf(inv) <=> x \in TrueOf(inv)
          \/ x \notin ToldOf(inv) /\ x \in NewPathRules /\ HasRaw(WrittenOf(inv).path)
          \/ x = "IDNoQueryFragment" /\ EmptyFragmentOf(inv)
          \/ x = "IDLengthLimit" /\ ResizedOf(inv)
      BY <2>1, <2>2, LinesTrue
    <2>5. /\ Written = WrittenOf(inv)
          /\ EmptyFragmentSan <=> EmptyFragmentOf(inv)
          /\ ResizedSan <=> ResizedOf(inv)
      BY <1>2, <2>1, WrittenIs
    <2>6. x \notin ToldOf(inv) /\ x \in NewPathRules /\ HasRaw(Written.path)
            => BlamesNewPath(Written, report[k])
      BY <2>2 DEF BlamesNewPath, NewPathRules
    <2> QED
      BY <2>2, <2>3, <2>4, <2>5, <2>6
  <1>3. IInv => ReportIsTruthful
    BY <1>1, <1>2 DEF IInv
  <1> QED
    BY <1>3, Inductive, PTL

\* No sweep judges a clause twice.
THEOREM OneLineEach == Spec => []OneLinePerClause
  <1>1. ASSUME IInv, NotStarted \/ Refused
        PROVE  OneLinePerClause
    BY <1>1 DEF NotStarted, Refused, OneLinePerClause
  <1>2. ASSUME IInv, Judging
        PROVE  OneLinePerClause
    BY <1>2, ReportMeaning DEF IInv, OneLinePerClause
  <1>3. IInv => OneLinePerClause
    BY <1>1, <1>2 DEF IInv
  <1> QED
    BY <1>3, Inductive, PTL

\* Exit 0 is earned: every clause that binds the artifact has its line.
THEOREM NoneLeftOut == Spec => []NothingLeftOut
  <1>1. ASSUME IInv, pc = "done", exit = 0
        PROVE  Demanded \subseteq Evaluated
    <2>1. inv \in Invocations /\ Judging
      BY <1>1 DEF IInv, NotStarted, Refused
    <2>2. LoadsOf(inv)
      BY <2>1 DEF Judging
    <2>3. report = Whole(inv) /\ exit = EmitOf(report, inv.format, inv.writable)
      BY <1>1, <2>1, ReportIsWhole
    <2>4. ~Failed(Whole(inv))
      BY <1>1, <2>3 DEF EmitOf, ExitOf
    <2>5. DemandsOf(inv) \subseteq JudgedOf(inv)
      BY <2>1, <2>2, <2>4, WholeVerdict
    <2>6. \A c \in JudgedOf(inv) : \E k \in DOMAIN report : report[k].clause = c
      BY <2>1, <2>2, <2>3, WholeJudges DEF Judges
    <2>7. Demanded = DemandsOf(inv)
      BY <1>1, <2>1, TruthIs
    <2> QED
      BY <2>5, <2>6, <2>7 DEF Evaluated
  <1>2. IInv => NothingLeftOut
    BY <1>1 DEF NothingLeftOut
  <1> QED
    BY <1>2, Inductive, PTL

\* The exit code is the verdict: 1 exactly if a MUST that binds the artifact does
\* not hold, whatever the checks left out for lack of input.
THEOREM ExitIsVerdict == Spec => []ExitIsCompliance
  <1>1. ASSUME IInv, pc = "done", Loads, Renders(inv.format, inv.writable), ~EmptyFragmentSan
        PROVE  exit = IF Compliant THEN 0 ELSE 1
    <2>1. inv \in Invocations /\ Judging /\ LoadsOf(inv)
      BY <1>1, LoadedIs DEF IInv, NotStarted, Refused
    <2>2. report = Whole(inv) /\ exit = EmitOf(report, inv.format, inv.writable)
      BY <1>1, <2>1, ReportIsWhole
    <2>3. ~EmptyFragmentOf(inv)
      BY <1>1, <2>1, WrittenIs
    <2>4. Failed(report) <=> \E x \in DemandsOf(inv) \ ShouldClauses : x \notin TrueOf(inv)
      BY <2>1, <2>2, <2>3, WholeVerdict
    <2>5. /\ Demanded = DemandsOf(inv)
          /\ \A x \in DemandsOf(inv) : Truth[x] <=> x \in TrueOf(inv)
      BY <1>1, <2>1, TruthIs
    <2>6. Compliant <=> \A x \in DemandsOf(inv) : x \notin ShouldClauses => x \in TrueOf(inv)
      BY <2>5 DEF Compliant, Severity
    <2>7. Failed(report) <=> ~Compliant
      BY <2>4, <2>6
    <2>8. exit = IF Failed(report) THEN 1 ELSE 0
      BY <1>1, <2>2 DEF EmitOf, ExitOf
    <2> QED
      BY <2>7, <2>8
  <1>2. IInv => ExitIsCompliance
    BY <1>1 DEF ExitIsCompliance
  <1> QED
    BY <1>2, Inductive, PTL
=============================================================================
