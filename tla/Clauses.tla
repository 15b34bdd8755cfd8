------------------------------ MODULE Clauses ------------------------------
(***************************************************************************)
(* The citation table of internal/spec/clauses.go.  A clause is its Go     *)
(* identifier; its document, section and text are data no check branches   *)
(* on, its severity decides whether a failure is fatal (Report.tla).       *)
(***************************************************************************)

SpiffeIdClauses ==
    { "IDSchemeSpiffe", "IDNoQueryFragment", "IDTrustDomainNonEmpty",
      "IDNoUserinfo", "IDNoPort", "IDTrustDomainLowercase",
      "IDTrustDomainCharset", "IDPathNoPercent", "IDPathNoEmptyOrDot",
      "IDPathNoTrailingSlash", "IDPathSegmentCharset", "IDLengthLimit",
      "IDTrustDomainLengthLimit" }

X509SvidClauses ==
    { "X509URISANCountOne", "X509LeafNonRootPath",
      "X509SANCriticalWhenNoSubject", "X509SigningNoPath",
      "X509SigningCATrue", "X509LeafCAFalse", "X509KeyUsageCritical",
      "X509SigningKeyCertSign", "X509SigningNoOtherKeyUsage",
      "X509LeafDigitalSignature", "X509LeafNoKeyCertSign",
      "X509LeafEKURecommended", "X509EKUServerAndClient" }

FilesystemClauses ==
    { "FSDCredentialBundlePresent", "FSDTrustBundlePresent",
      "FSDCredentialBundleBlocks", "FSDCredentialBundlePrivateKey",
      "FSDCredentialBundleCertificates", "FSDCredentialBundleChainOrder",
      "FSDCredentialBundleLeafKey", "FSDCredentialBundleLeafSVID",
      "FSDCredentialBundleChainComplete", "FSDCredentialBundleNoTrustAnchor",
      "FSDNoOtherBlockTypes", "FSDNoInterBlockData", "FSDNoPEMHeaders",
      "FSDTrustBundleName", "FSDTrustBundleCertificates",
      "FSDOwnTrustBundle" }

JwtSvidClauses ==
    { "JWTCompactSerialization", "JWTAlgWhitelist", "JWTTypValue",
      "JWTHeaderClosedSet", "JWTSubPresent", "JWTAudPresent",
      "JWTAudSingleRecommended", "JWTExpPresent", "JWTExpNotInPast" }

WitSvidClauses ==
    { "WITCompactSerialization", "WITKidPresent", "WITTypWitJWT",
      "WITAlgWhitelist", "WITHeaderNoAdditional", "WITSubPresent",
      "WITCnfPresent", "WITCnfJWK", "WITCnfJWKPublic", "WITCnfJWKAlg",
      "WITExpPresent", "WITExpNotInPast", "WITNbfNotInFuture",
      "WITIssNotOIDC", "WITNoAud" }

BundleClauses ==
    { "BundleKeysPresent", "BundleKeyKTYSet", "BundleKeyUseSet",
      "BundleKeyUseKnown", "BundleSequenceMonotonic",
      "BundleRefreshHintInteger", "BundleX509X5CPresent",
      "BundleX509SelfSigned", "BundleX509NoKid", "BundleJWTKidPresent",
      "BundleWITKidPresent", "BundleKIDUnique" }

BundleMapClauses ==
    { "BundleMapTrustDomainsPresent", "BundleMapEntryIsBundle",
      "BundleMapTrustDomainsUnique", "BundleMapNoRefreshHint" }

FederationClauses ==
    { "FedURLPresent", "FedProfilePresent", "FedTrustDomainPresent",
      "FedProfileKnown", "FedURLSchemeHTTPS", "FedURLNoUserinfo",
      "FedWebNoExtraParams", "FedSpiffeEndpointID",
      "FedSpiffeSelfServingBundle" }

WorkloadEndpointClauses ==
    { "WEURI", "WEScheme", "WEUnixNoAuthority", "WEUnixAbsolutePath",
      "WEUnixNoOtherComponents", "WETCPHostIP", "WETCPPort",
      "WETCPNoOtherComponents", "WETCPLocalHost" }

BrokerEndpointClauses ==
    { "BEURI", "BEScheme", "BEUnixNoAuthority", "BEUnixAbsolutePath",
      "BEUnixNoOtherComponents", "BETCPHost", "BETCPPort",
      "BETCPNoOtherComponents" }

Clause ==
    SpiffeIdClauses \cup X509SvidClauses \cup JwtSvidClauses
    \cup WitSvidClauses \cup BundleClauses \cup BundleMapClauses
    \cup FederationClauses \cup WorkloadEndpointClauses
    \cup FilesystemClauses \cup BrokerEndpointClauses

\* The clauses registered at SeveritySHOULD.
ShouldClauses ==
    { "IDLengthLimit", "X509LeafEKURecommended", "JWTAudSingleRecommended",
      "WITHeaderNoAdditional", "WITIssNotOIDC", "BundleKeyUseKnown",
      "BundleSequenceMonotonic", "BundleRefreshHintInteger",
      "BundleX509SelfSigned", "BundleMapNoRefreshHint", "FedWebNoExtraParams",
      "FedSpiffeSelfServingBundle", "WETCPLocalHost",
      "FSDCredentialBundleLeafSVID" }

Severity(c) == IF c \in ShouldClauses THEN "SHOULD" ELSE "MUST"
=============================================================================
