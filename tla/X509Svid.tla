------------------------------ MODULE X509Svid ------------------------------
(***************************************************************************)
(* internal/x509svid: the X509-SVID.md sweep over one parsed certificate.  *)
(*                                                                         *)
(* A certificate is the record of the crypto/x509 fields the checks read:  *)
(*   isCA, bcValid     Basic Constraints; a CA certificate always has      *)
(*                     bcValid, the parser sets both from one extension    *)
(*   kuExt, ku         the Key Usage extension and its bits ({} if absent) *)
(*   eku, ekuUnknown   the purposes Go knows, and whether there are others *)
(*   subject           its DN; NoName has no attributes                    *)
(*   sanExt, uris      the SAN extension and its URIs (<<>> if absent)     *)
(* and, for credentialfolder, the names, key identifiers and signature     *)
(* declared there.  An extension is "absent", "plain" or "critical".       *)
(***************************************************************************)
EXTENDS SpiffeId, Integers

CONSTANT None        \* no value: what x509.ParseCertificate rejects, and
                     \* what is not there yet

NoName == ""

\* parseCert: the first CERTIFICATE block is the certificate, even when it
\* does not parse and a later one would; without one the file is read as DER.
ParseCert(file) ==
    LET i == SelectInSeq(file.blocks, LAMBDA b : b.type = "CERTIFICATE")
    IN  IF i # 0 THEN file.blocks[i].cert ELSE file.der

IsLeaf(cert) == ~cert.isCA

CheckURISAN(cert) == Judge("X509URISANCountOne", Len(cert.uris) = 1, "")

CheckBasicConstraints(cert) ==
    IF IsLeaf(cert)
    THEN Judge("X509LeafCAFalse", cert.bcValid /\ ~cert.isCA, "")
    ELSE Judge("X509SigningCATrue", cert.bcValid /\ cert.isCA, "")

\* Mutant: an absent extension returns before anything is recorded.
CheckKeyUsageIfPresent(cert) ==
    IF cert.kuExt = "absent"
    THEN << >>
    ELSE Judge("X509KeyUsageCritical", cert.kuExt = "critical", "")
         \o IF IsLeaf(cert)
            THEN Judge("X509LeafDigitalSignature", "digitalSignature" \in cert.ku, "")
                 \o Judge("X509LeafNoKeyCertSign",
                          cert.ku \cap {"keyCertSign", "cRLSign"} = {}, "")
            ELSE Judge("X509SigningKeyCertSign", "keyCertSign" \in cert.ku, "")
                 \o Judge("X509SigningNoOtherKeyUsage",
                          cert.ku \subseteq {"keyCertSign", "cRLSign"}, "")

\* An absent extension is one failure; its bits are not judged.
CheckKeyUsage(cert) ==
    Judge("X509KeyUsageCritical", cert.kuExt = "critical", "")
    \o CASE cert.kuExt = "absent" -> << >>
         [] cert.kuExt # "absent" /\ IsLeaf(cert) ->
              Judge("X509LeafDigitalSignature", "digitalSignature" \in cert.ku, "")
              \o Judge("X509LeafNoKeyCertSign",
                       cert.ku \cap {"keyCertSign", "cRLSign"} = {}, "")
         [] cert.kuExt # "absent" /\ ~IsLeaf(cert) ->
              Judge("X509SigningKeyCertSign", "keyCertSign" \in cert.ku, "")
              \o Judge("X509SigningNoOtherKeyUsage",
                       cert.ku \subseteq {"keyCertSign", "cRLSign"}, "")

\* Mutant: presence is read off ExtKeyUsage alone, and an extension of unknown
\* purposes needs nothing else.
CheckEKUKnown(cert) ==
    CASE ~IsLeaf(cert) -> << >>
      [] IsLeaf(cert) /\ cert.eku = {} /\ ~cert.ekuUnknown ->
           Fail("X509LeafEKURecommended", "")
      [] OTHER ->
           Pass("X509LeafEKURecommended", "")
           \o IF cert.eku = {} THEN << >>
              ELSE Judge("X509EKUServerAndClient",
                         {"serverAuth", "clientAuth"} \subseteq cert.eku, "")

CheckEKU(cert) ==
    CASE ~IsLeaf(cert) -> << >>
      [] IsLeaf(cert) /\ cert.eku = {} /\ ~cert.ekuUnknown ->
           Fail("X509LeafEKURecommended", "")
      [] OTHER ->
           Pass("X509LeafEKURecommended", "")
           \o Judge("X509EKUServerAndClient",
                    {"serverAuth", "clientAuth"} \subseteq cert.eku, "")

CheckSANCritical(cert) ==
    IF cert.subject # NoName \/ cert.sanExt = "absent"
    THEN << >>
    ELSE Judge("X509SANCriticalWhenNoSubject", cert.sanExt = "critical", "")

\* The part of checkSPIFFEID after id.Check: text is u.String(), and the path
\* clauses need an id.Parse that succeeds.
CheckSvidPath(cert, text) ==
    CASE ~ParseSucceeds(text) -> << >>
      [] ParseSucceeds(text) /\ IsLeaf(cert) ->
           Judge("X509LeafNonRootPath",
                 EscapedPath(text) \notin {<< >>, <<"empty">>}, "")
      [] ParseSucceeds(text) /\ ~IsLeaf(cert) ->
           Judge("X509SigningNoPath",
                 EscapedPath(text) \in {<< >>, <<"empty">>}, "")

CheckSpiffeId(cert, text) == IdCheck(text) \o CheckSvidPath(cert, text)

\* x509svid.Check: the SPIFFE ID is checked only when there is exactly one.
X509Check(cert) ==
    CheckURISAN(cert) \o CheckBasicConstraints(cert) \o CheckKeyUsage(cert)
    \o CheckEKU(cert) \o CheckSANCritical(cert)
    \o IF Len(cert.uris) = 1
       THEN CheckSpiffeId(cert, Reserialised(cert.uris[1]))
       ELSE << >>
=============================================================================
