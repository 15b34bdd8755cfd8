---------------------------- MODULE FolderChecks ----------------------------
(***************************************************************************)
(* internal/credentialfolder: the checks of one credential folder, once    *)
(* its files have been read.                                               *)
(*                                                                         *)
(* The content of a file is what splitPEM makes of its bytes (PemSplit):   *)
(*   blocks    the PEM blocks, each with its type, whether it has PEM      *)
(*             headers, and its body                                       *)
(*   stray     interBlock: there is other data than blocks and white space *)
(*   empty     it has no bytes at all                                      *)
(* A body is a DER value.  Those crypto/x509 parses as certificates are    *)
(* the domain of Cert, those it parses as PKCS#8 the domain of Key; to the *)
(* fields X509Svid reads, a certificate adds                               *)
(*   issuer    the DN of its issuer                                        *)
(*   aki, ski  authority and subject key identifiers, NoKeyId if absent    *)
(*   pub       its public key                                              *)
(*   sig       its signature under its own key: "valid", "wrong", or       *)
(*             "refused" (an algorithm crypto/x509 does not verify)        *)
(***************************************************************************)
EXTENDS X509Svid

CONSTANTS
    CredentialBundleName,    \* "credential-bundle.private-key.x509.pem"
    TrustDomainOf,           \* the names with TrustBundleSuffix, each to its
                             \* <trust-domain> part
    Body,                    \* the DER values blocks carry
    Cert,                    \* those that are certificates, to their fields
    Key                      \* those that are PKCS#8 keys, to their public
                             \* key, or None for a key type without one

TrustBundleName == DOMAIN TrustDomainOf
SpecName == {CredentialBundleName} \cup TrustBundleName

ASSUME FolderAssumption ==
    /\ CredentialBundleName \notin TrustBundleName
    /\ SpecName \subseteq Tags
    /\ TrustDomainOf \in [TrustBundleName -> TrustDomains]
    /\ DOMAIN Cert \cup DOMAIN Key \subseteq Body

NoKeyId == ""

Block == [type : {"PRIVATE KEY", "CERTIFICATE", "OTHER"}, headers : BOOLEAN, body : Body]

Content == [blocks : Seq(Block), stray : BOOLEAN, empty : BOOLEAN]

NoContent == [blocks |-> << >>, stray |-> FALSE, empty |-> TRUE]

IsCert(b) == b.type = "CERTIFICATE" /\ b.body \in DOMAIN Cert

\* The certificates in the files' contents; malformed ones are skipped.
Anchors(contents) ==
    { b.body : b \in { d \in UNION {ToSet(c.blocks) : c \in contents} : IsCert(d) } }

RawOf(bundles) == {tb.raw : tb \in bundles}

IssuedBy(c, a) ==
    /\ Cert[c].issuer = Cert[a].subject
    /\ \/ NoKeyId \in {Cert[c].aki, Cert[a].ski}
       \/ Cert[c].aki = Cert[a].ski

\* A signature crypto/x509 refuses to verify still counts as self-signed.
IsSelfSigned(c) ==
    Cert[c].issuer = Cert[c].subject /\ Cert[c].sig \in {"valid", "refused"}

---------------------------------------------------------------------------

\* cred is None when the folder lists no credential bundle.
CheckPresence(cred, trust) ==
    Judge("FSDCredentialBundlePresent", cred # None /\ ~cred.problem,
          CredentialBundleName)
    \o Judge("FSDTrustBundlePresent", trust # << >>, "")

CheckFileShape(tag, content, allowed) ==
    LET blocks == ToSet(content.blocks)
    IN  Judge("FSDNoOtherBlockTypes", \A b \in blocks : b.type \in allowed, tag)
        \o Judge("FSDNoInterBlockData", ~content.stray, tag)
        \o Judge("FSDNoPEMHeaders", \A b \in blocks : ~b.headers, tag)

\* The public key of the first block, None when checkPrivateKey fails it.
PublicKey(b) ==
    IF b.type = "PRIVATE KEY" /\ b.body \in DOMAIN Key THEN Key[b.body] ELSE None

CheckPrivateKey(b) ==
    Judge("FSDCredentialBundlePrivateKey", PublicKey(b) # None, CredentialBundleName)

\* With the key omitted the chain starts at block 1, else at block 2.
ChainBlocks(blocks) == IF blocks[1].type = "CERTIFICATE" THEN blocks ELSE Tail(blocks)

CheckChainBlocks(chainBlocks) ==
    Judge("FSDCredentialBundleCertificates", \A b \in ToSet(chainBlocks) : IsCert(b),
          CredentialBundleName)

\* The chain checkCredentialBundle returns, << >> for nil: only a chain without
\* holes is checked any further.
ChainOf(blocks) ==
    IF /\ blocks # << >>
       /\ \A b \in ToSet(ChainBlocks(blocks)) : IsCert(b)
    THEN [i \in DOMAIN ChainBlocks(blocks) |-> ChainBlocks(blocks)[i].body]
    ELSE << >>

CheckChainOrder(chain) ==
    Judge("FSDCredentialBundleChainOrder",
          \A i \in 1..(Len(chain) - 1) : IssuedBy(chain[i], chain[i + 1]),
          CredentialBundleName)

CheckLeafKey(leaf, key) ==
    Judge("FSDCredentialBundleLeafKey", Cert[leaf].pub = key, CredentialBundleName)

\* The X509-SVID.md sweep on a scratch report, folded into one SHOULD.  A CA
\* leaf never reaches the sweep, which would judge it as a signing certificate.
CheckLeafSVID(leaf) ==
    Judge("FSDCredentialBundleLeafSVID",
          ~Cert[leaf].isCA /\ ~Failed(X509Check(Cert[leaf])), CredentialBundleName)

CheckNoTrustAnchor(chain, anchors) ==
    Judge("FSDCredentialBundleNoTrustAnchor",
          \A c \in ToSet(chain) : ~IsSelfSigned(c) /\ c \notin anchors,
          CredentialBundleName)

CheckChain(chain, key, anchors) ==
    CheckChainOrder(chain)
    \o (IF key # None THEN CheckLeafKey(chain[1], key) ELSE << >>)
    \o CheckLeafSVID(chain[1])
    \o CheckNoTrustAnchor(chain, anchors)

CheckCredentialBundle(raw, anchors) ==
    LET blocks == raw.blocks
        chain == ChainOf(blocks)
    IN  Judge("FSDCredentialBundleBlocks", Len(blocks) >= 2, CredentialBundleName)
        \o CheckFileShape(CredentialBundleName, raw, {"PRIVATE KEY", "CERTIFICATE"})
        \o (IF blocks = << >> THEN << >> ELSE CheckPrivateKey(blocks[1]))
        \o (IF blocks = << >> \/ ChainBlocks(blocks) = << >> THEN << >>
            ELSE CheckChainBlocks(ChainBlocks(blocks)))
        \o (IF chain = << >> THEN << >>
            ELSE CheckChain(chain, PublicKey(blocks[1]), anchors))

---------------------------------------------------------------------------

\* One trust bundle: its name first, then why it could not be read, or its
\* content unless that is redacted (empty).
CheckTrustBundleName(name) ==
    Judge("FSDTrustBundleName", TrustDomainOf[name] # "", name)
    \o CheckTrustDomain(name, TrustDomainOf[name])

CheckTrustBundleContent(name, raw) ==
    LET certs == {b \in ToSet(raw.blocks) : b.type = "CERTIFICATE"}
    IN  CheckFileShape(name, raw, {"CERTIFICATE"})
        \o Judge("FSDTrustBundleCertificates",
                 certs # {} /\ \A b \in certs : IsCert(b), name)

\* Mutant: an unreadable bundle is passed over like a redacted one.
CheckTrustBundleReadable(tb) ==
    CheckTrustBundleName(tb.name)
    \o CASE tb.problem -> << >>
         [] ~tb.problem /\ tb.raw.empty -> Pass("FSDTrustBundleCertificates", tb.name)
         [] OTHER -> CheckTrustBundleContent(tb.name, tb.raw)

\* Mutant: the return after the problem is missing.
CheckTrustBundleGoesOn(tb) ==
    CheckTrustBundleName(tb.name)
    \o (IF tb.problem THEN Fail("FSDTrustBundleCertificates", tb.name) ELSE << >>)
    \o (IF tb.raw.empty THEN Pass("FSDTrustBundleCertificates", tb.name)
        ELSE CheckTrustBundleContent(tb.name, tb.raw))

CheckTrustBundle(tb) ==
    CheckTrustBundleName(tb.name)
    \o CASE tb.problem -> Fail("FSDTrustBundleCertificates", tb.name)
         [] ~tb.problem /\ tb.raw.empty -> Pass("FSDTrustBundleCertificates", tb.name)
         [] OTHER -> CheckTrustBundleContent(tb.name, tb.raw)

---------------------------------------------------------------------------

\* ownTrustDomainUsable tests u.Port(), which is "" after a bare colon.
OwnTrustDomainUsable(u) ==
    u.scheme = "spiffe" /\ ~u.user /\ u.colon # "port" /\ u.td # ""

\* Whether the leaf names a trust domain to look up a bundle for.
IdentifiesBundle(leaf) ==
    Len(Cert[leaf].uris) = 1 /\ OwnTrustDomainUsable(Cert[leaf].uris[1])

\* The listed bundle of that trust domain: none or one.
OwnBundle(leaf, trust) ==
    { tb \in ToSet(trust) : TrustDomainOf[tb.name] = Cert[leaf].uris[1].td }

\* No assertion when there is no anchor at all, nor when the chain carries its
\* own (checkNoTrustAnchor has failed it).
CheckChainComplete(chain, anchors) ==
    IF anchors = {} \/ IsSelfSigned(Last(chain))
    THEN << >>
    ELSE Judge("FSDCredentialBundleChainComplete",
               \E a \in anchors : IssuedBy(Last(chain), a), CredentialBundleName)

\* Mutant: without a bundle of its own the chain is not matched at all.
CheckOwnTrustBundleOnly(chain, trust) ==
    LET own == OwnBundle(chain[1], trust)
    IN  IF ~IdentifiesBundle(chain[1])
        THEN << >>
        ELSE Judge("FSDOwnTrustBundle", own # {}, "")
             \o CheckChainComplete(chain, Anchors(RawOf(own)))

\* The chain is matched against its own bundle's anchors, and against every
\* anchor in the folder when that bundle is unidentified, missing or anchorless.
CheckOwnTrustBundle(chain, trust) ==
    LET all == Anchors(RawOf(ToSet(trust)))
        own == OwnBundle(chain[1], trust)
        ownAnchors == Anchors(RawOf(own))
    IN  IF ~IdentifiesBundle(chain[1])
        THEN CheckChainComplete(chain, all)
        ELSE Judge("FSDOwnTrustBundle", own # {}, "")
             \o CheckChainComplete(chain, IF ownAnchors = {} THEN all ELSE ownAnchors)
=============================================================================
