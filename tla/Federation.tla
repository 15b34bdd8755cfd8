----------------------------- MODULE Federation -----------------------------
(***************************************************************************)
(* internal/federation: the checks of a bundle endpoint configuration.     *)
(*                                                                         *)
(* A configuration is the record of the five flags:                        *)
(*   url           None when empty, else what url.Parse makes of it        *)
(*   profile       "" or the profile                                       *)
(*   trustDomain   a member of TrustDomains, "" when not set               *)
(*   endpointId    None when empty, else a text as in SpiffeId             *)
(*   bundle        None when no path is set, else the file it names        *)
(***************************************************************************)
EXTENDS TrustBundle, SpiffeId

CONSTANT Folded       \* trust domain names to their strings.EqualFold class

Url == [parses : BOOLEAN, https : BOOLEAN, user : BOOLEAN]

Profile == {"", "https_web", "https_spiffe", "other"}

ASSUME EndpointTagAssumption == {"trust_domain", "endpoint bundle"} \subseteq Tags

\* The flags, and what the bundle file holds if it loads.
IsConfig(cfg) ==
    /\ cfg.profile \in Profile
    /\ cfg.trustDomain \in TrustDomains
    /\ cfg.endpointId \in IdText \cup {None}
    /\ cfg.bundle # None /\ cfg.bundle.readable /\ cfg.bundle.decodes =>
           cfg.bundle.bundle \in Bundle

CheckRequired(cfg) ==
    Judge("FedURLPresent", cfg.url # None, "")
    \o Judge("FedProfilePresent", cfg.profile # "", "")
    \o Judge("FedTrustDomainPresent", cfg.trustDomain # "", "")
    \o IF cfg.trustDomain = "" THEN << >>
       ELSE CheckTrustDomain("trust_domain", cfg.trustDomain)

CheckProfile(cfg) ==
    IF cfg.profile = "" THEN << >>
    ELSE Judge("FedProfileKnown", cfg.profile # "other", "")

CheckURL(cfg) ==
    CASE cfg.url = None -> << >>
      [] cfg.url # None /\ ~cfg.url.parses -> Fail("FedURLSchemeHTTPS", "")
      [] OTHER -> Judge("FedURLSchemeHTTPS", cfg.url.https, "")
                  \o Judge("FedURLNoUserinfo", ~cfg.url.user, "")

CheckWebParams(cfg) ==
    Judge("FedWebNoExtraParams", cfg.endpointId = None /\ cfg.bundle = None, "")

\* The endpoint's SPIFFE ID is in the trust domain of the bundle; two names
\* that are not there are the same.
SelfServing(cfg) ==
    /\ ParseSucceeds(cfg.endpointId)
    /\ Folded[cfg.endpointId.td] = Folded[cfg.trustDomain]

CheckSPIFFEParams(cfg) ==
    IF cfg.endpointId = None
    THEN Fail("FedSpiffeEndpointID", "")
    ELSE Pass("FedSpiffeEndpointID", "")
         \o IdCheck(cfg.endpointId)
         \o IF SelfServing(cfg)
            THEN Judge("FedSpiffeSelfServingBundle", cfg.bundle # None, "")
            ELSE << >>

\* checkBootstrapBundle is called, and has a bundle.
Bootstraps(cfg) == cfg.profile = "https_spiffe" /\ cfg.bundle # None

---------------------------------------------------------------------------

\* §5 and what it defers to, of a configuration whose bundle can be read.
GoodConfig(cfg) ==
    /\ cfg.url # None
    /\ cfg.url.parses /\ cfg.url.https /\ ~cfg.url.user
    /\ cfg.profile \in {"https_web", "https_spiffe"}
    /\ GoodTrustDomain(cfg.trustDomain)
    /\ cfg.profile = "https_spiffe" =>
         /\ cfg.endpointId # None
         /\ \A c \in SpiffeIdClauses \ ShouldClauses : IdTruth(cfg.endpointId)[c]
         /\ cfg.bundle # None => GoodBundle(cfg.bundle.bundle)
=============================================================================
