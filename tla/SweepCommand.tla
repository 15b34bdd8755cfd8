---------------------------- MODULE SweepCommand ----------------------------
(***************************************************************************)
(* One run of `scc id` or `scc x509-svid`: cmd/scc parses the arguments,   *)
(* loads the artifact, runs the checks one after the other and emits the   *)
(* report with an exit code.  Each check function is an action; id.Check   *)
(* is the same four steps whether it judges the argument of `scc id` or    *)
(* the URI SAN of a certificate.                                           *)
(***************************************************************************)
EXTENDS X509Svid, FiniteSets

CONSTANT Invocations   \* the command lines considered, each a record
                       \*   cmd      "id" or "x509-svid"
                       \*   usable   the flags parse and leave one argument
                       \*   text     the argument of `scc id`
                       \*   file     the file `scc x509-svid` is given
                       \*   format   "text", "json", "sarif" or another
                       \*   writable writing to stdout succeeds

\* What crypto/x509 makes of a certificate: its URIs come out of a SAN.
ParsedCertificate(c) ==
    /\ c.uris \in Seq(IdText)
    /\ c.sanExt = "absent" => c.uris = << >>

ASSUME InvocationAssumption ==
    \A i \in Invocations :
        /\ i.cmd \in {"id", "x509-svid"}
        /\ i.cmd = "id" => i.text \in IdText
        /\ i.cmd = "x509-svid" /\ ParseCert(i.file) # None =>
               ParsedCertificate(ParseCert(i.file))

VARIABLES
    inv,      \* the invocation
    cert,     \* the certificate under check, once loaded
    text,     \* the text id.Check is called on
    report,   \* the assertions so far
    exit,     \* the process exit code, -1 while it runs
    pc

vars == <<inv, cert, text, report, exit, pc>>

Init ==
    /\ inv \in Invocations
    /\ cert = None
    /\ text = None
    /\ report = << >>
    /\ exit = -1
    /\ pc = "args"

---------------------------------------------------------------------------

\* The process returns code without a report (a message on stderr).
Quit(from, code) ==
    /\ pc = from
    /\ pc' = "done"
    /\ exit' = code
    /\ UNCHANGED <<inv, cert, text, report>>

\* A check: append what it asserts and go on.
Check(from, to, assertions) ==
    /\ pc = from
    /\ pc' = to
    /\ report' = report \o assertions
    /\ UNCHANGED <<inv, cert, text, exit>>

UsageError == Quit("args", 2) /\ ~inv.usable

StartId ==
    /\ pc = "args" /\ inv.usable /\ inv.cmd = "id"
    /\ text' = inv.text
    /\ pc' = "query"
    /\ UNCHANGED <<inv, cert, report, exit>>

\* x509svid.CheckFile: os.ReadFile, parseCert.
Loaded == IF inv.file.readable THEN ParseCert(inv.file) ELSE None

LoadCertificate ==
    /\ pc = "args" /\ inv.usable /\ inv.cmd = "x509-svid"
    /\ Loaded # None
    /\ cert' = Loaded
    /\ pc' = "uriSAN"
    /\ UNCHANGED <<inv, text, report, exit>>

LoadFails ==
    /\ Quit("args", 2)
    /\ inv.usable /\ inv.cmd = "x509-svid" /\ Loaded = None

URISAN == Check("uriSAN", "basicConstraints", CheckURISAN(cert))

BasicConstraints == Check("basicConstraints", "keyUsage", CheckBasicConstraints(cert))

KeyUsage == Check("keyUsage", "eku", CheckKeyUsage(cert))

EKU == Check("eku", "sanCritical", CheckEKU(cert))

SANCritical ==
    Check("sanCritical", IF Len(cert.uris) = 1 THEN "spiffeId" ELSE "emit",
          CheckSANCritical(cert))

\* checkSPIFFEID hands id.Check the URI as re-serialised by u.String().
SpiffeIdOfSan ==
    /\ pc = "spiffeId"
    /\ text' = Reserialised(cert.uris[1])
    /\ pc' = "query"
    /\ UNCHANGED <<inv, cert, report, exit>>

AfterIdCheck == IF inv.cmd = "id" THEN "emit" ELSE "svidPath"

QueryFragment == Check("query", "parse", CheckQueryFragment(text))

ParseFails ==
    /\ pc = "parse" /\ ~text.parses
    /\ report' = report \o Fail("IDSchemeSpiffe", "")
    /\ pc' = AfterIdCheck
    /\ UNCHANGED <<inv, text, cert, exit>>

Scheme == Check("parse", "authority", CheckScheme(text)) /\ text.parses

Authority == Check("authority", "path", CheckAuthority(text))

Path == Check("path", "length", CheckPath(text))

Length == Check("length", AfterIdCheck, CheckLength(text))

SvidPath == Check("svidPath", "emit", CheckSvidPath(cert, text))

\* Mutant: the exit code is the number of failed assertions.
EmitCount ==
    Quit("emit", IF Renders(inv.format, inv.writable)
                 THEN Cardinality({i \in DOMAIN report : report[i].status = "fail"})
                 ELSE 2)

Emit == Quit("emit", EmitOf(report, inv.format, inv.writable))

Terminated == pc = "done" /\ UNCHANGED vars

Next ==
    \/ UsageError \/ StartId \/ LoadCertificate \/ LoadFails
    \/ URISAN \/ BasicConstraints \/ KeyUsage \/ EKU \/ SANCritical
    \/ SpiffeIdOfSan
    \/ QueryFragment \/ ParseFails \/ Scheme \/ Authority \/ Path \/ Length
    \/ SvidPath
    \/ Emit
    \/ Terminated

Spec == Init /\ [][Next]_vars
---------------------------------------------------------------------------
(* What the standards say of the artifact, read off the artifact itself.   *)

HasEKU(c) == c.eku # {} \/ c.ekuUnknown

\* The clauses of X509-SVID.md, each as a fact about the certificate.
SvidTruth(c) ==
    LET roots == {<< >>, <<"empty">>}
        one == Len(c.uris) = 1
    IN  [ X509URISANCountOne |-> one,
          X509LeafCAFalse |-> c.bcValid /\ ~c.isCA,
          X509SigningCATrue |-> c.bcValid /\ c.isCA,
          X509KeyUsageCritical |-> c.kuExt = "critical",
          X509LeafDigitalSignature |-> "digitalSignature" \in c.ku,
          X509LeafNoKeyCertSign |-> "keyCertSign" \notin c.ku /\ "cRLSign" \notin c.ku,
          X509SigningKeyCertSign |-> "keyCertSign" \in c.ku,
          X509SigningNoOtherKeyUsage |-> c.ku \ {"keyCertSign", "cRLSign"} = {},
          X509LeafEKURecommended |-> HasEKU(c),
          X509EKUServerAndClient |-> "serverAuth" \in c.eku /\ "clientAuth" \in c.eku,
          X509SANCriticalWhenNoSubject |-> c.sanExt = "critical",
          X509LeafNonRootPath |-> one /\ c.uris[1].path \notin roots,
          X509SigningNoPath |-> one /\ c.uris[1].path \in roots ]

Truth ==
    CASE inv.cmd = "id" -> IdTruth(inv.text)
      [] inv.cmd = "x509-svid" /\ Len(cert.uris) = 1 ->
           Together(SvidTruth(cert), IdTruth(cert.uris[1]))
      [] OTHER -> SvidTruth(cert)

\* The X509-SVID.md clauses that bind this certificate: by its Basic
\* Constraints, by its having an EKU, by its having no Subject.
SvidDemands(c) ==
    {"X509URISANCountOne", "X509KeyUsageCritical"}
    \cup (IF c.subject = NoName THEN {"X509SANCriticalWhenNoSubject"} ELSE {})
    \cup IF c.isCA
         THEN {"X509SigningCATrue", "X509SigningKeyCertSign",
               "X509SigningNoOtherKeyUsage", "X509SigningNoPath"}
         ELSE {"X509LeafCAFalse", "X509LeafDigitalSignature",
               "X509LeafNoKeyCertSign", "X509LeafEKURecommended",
               "X509LeafNonRootPath"}
              \cup IF HasEKU(c) THEN {"X509EKUServerAndClient"} ELSE {}

Demanded ==
    CASE inv.cmd = "id" -> SpiffeIdClauses
      [] inv.cmd = "x509-svid" /\ Len(cert.uris) = 1 ->
           SvidDemands(cert) \cup SpiffeIdClauses
      [] OTHER -> SvidDemands(cert)

Compliant == \A c \in Demanded : Severity(c) = "MUST" => Truth[c]

Evaluated == {report[i].clause : i \in DOMAIN report}

\* The invocation has an artifact to judge.
Loads == inv.usable /\ (inv.cmd = "id" \/ Loaded # None)

\* The SPIFFE ID as it was written, once there is one.
Written == IF inv.cmd = "id" THEN inv.text ELSE cert.uris[1]

\* A SAN whose "#" is gone before id.Check sees it (FragmentIsSeen).
EmptyFragmentSan ==
    inv.cmd = "x509-svid" /\ Len(cert.uris) = 1 /\ Written.fragment = "empty"

\* A SAN that net/url writes on the other side of 2048 bytes.
ResizedSan ==
    /\ inv.cmd = "x509-svid" /\ Len(cert.uris) = 1
    /\ Written.long # Written.longString

---------------------------------------------------------------------------

\* The report holds assertions of known clauses, and there is an exit code of
\* the usage text exactly when the command has ended.
TypeOK ==
    /\ inv.cmd \in {"id", "x509-svid"}
    /\ report \in Seq(Assertion)
    /\ exit \in {-1, 0, 1, 2}
    /\ exit # -1 <=> pc = "done"

\* Every line of the report is true of the artifact: a PASS only where the
\* clause holds, a FAIL or WARN only where it does not, whatever earlier
\* checks returned early.  The exceptions are where the text judged is not the
\* text written: a FAIL of a path that EscapedPath escapes anew, and of a SAN
\* what String makes of it, which may have lost its "#" (FragmentIsSeen below)
\* or have another length.
ReportIsTruthful ==
    \A i \in DOMAIN report :
        LET c == report[i].clause
        IN  \/ report[i].status = "pass" <=> Truth[c]
            \/ BlamesNewPath(Written, report[i])
            \/ c = "IDNoQueryFragment" /\ EmptyFragmentSan
            \/ c = "IDLengthLimit" /\ ResizedSan

\* The exit code is the verdict: whenever there is an artifact and the
\* renderer works, 1 if a MUST clause that binds it does not hold, else 0
\* (cmd/scc/main.go:2-4), also when checks were skipped for lack of input.
ExitIsCompliance ==
    pc = "done" /\ Loads /\ Renders(inv.format, inv.writable) /\ ~EmptyFragmentSan
        => exit = IF Compliant THEN 0 ELSE 1

\* Exit 0 is earned: no clause that binds the artifact was left out of the
\* report by an early return.
NothingLeftOut == pc = "done" /\ exit = 0 => Demanded \subseteq Evaluated

\* "one line per checked clause" (README): no sweep judges a clause twice.
OneLinePerClause ==
    \A i, j \in DOMAIN report : report[i].clause = report[j].clause => i = j

\* The doc of package id: it "operates on the raw URI text so it can be
\* exercised from a string or from the SAN of an X.509-SVID".  So an ID with a
\* "#" in it never passes the clause that forbids one.
FragmentIsSeen ==
    \A i \in DOMAIN report :
        report[i].clause = "IDNoQueryFragment" /\ report[i].status = "pass"
            => Written.fragment = "none"
=============================================================================
