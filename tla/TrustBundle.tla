---------------------------- MODULE TrustBundle ----------------------------
(***************************************************************************)
(* internal/bundle: the checks of one SPIFFE bundle, a JWK Set, as         *)
(* DecodeJSON leaves it.                                                   *)
(*                                                                         *)
(* A bundle is a record:                                                   *)
(*   shape      of its "keys": "absent", "array", or "other" than an array *)
(*   keys       the entries of the array, None for one that is no object   *)
(*   sequence, hint   "absent", "good" (written as a non-negative integer) *)
(*              or "bad" (anything else)                                   *)
(* and an entry is one too:                                                *)
(*   kty        "set" (a non-empty string) or "unset"                      *)
(*   use        an SVID type, "unknown" for another non-empty string,      *)
(*              "unset" for everything else                                *)
(*   kid        a member of Kids, "absent", or "bad" (empty, or no string) *)
(*   x5c        "bad" unless it is an array of one string that is base64   *)
(*              (white space aside) of a certificate; then the certificate *)
(*              is "selfSigned" or "issued" by another                     *)
(***************************************************************************)
EXTENDS Report, Functions

CONSTANTS
    None,             \* what is not there, and what is of another type
    Kids,             \* key ids, non-empty strings
    KeyTag(_, _)      \* KeyTag(tag, i): the tag of entry i of the bundle with
                      \* that tag, as qualify makes it

ASSUME KidAssumption == {"absent", "bad"} \cap Kids = {}

Jwk ==
    [kty : {"set", "unset"},
     use : {"x509-svid", "jwt-svid", "wit-svid", "unknown", "unset"},
     kid : Kids \cup {"absent", "bad"},
     x5c : {"selfSigned", "issued", "bad"}]

Bundle ==
    [shape : {"absent", "array", "other"}, keys : Seq(Jwk \cup {None}),
     sequence : {"absent", "good", "bad"}, hint : {"absent", "good", "bad"}]

---------------------------------------------------------------------------

\* A "keys" that is there but is no array gets both lines.
CheckKeysPresent(tag, b) ==
    (IF b.shape = "absent" THEN << >> ELSE Pass("BundleKeysPresent", tag))
    \o (IF b.shape = "array" THEN << >> ELSE Fail("BundleKeysPresent", tag))

\* In a bundle map the refresh hint is the map's.
CheckHint(tag, b, inMap) ==
    IF inMap
    THEN Judge("BundleMapNoRefreshHint", b.hint = "absent", tag)
    ELSE Judge("BundleRefreshHintInteger", b.hint = "good", tag)

\* What check asserts before its loop over the entries.
CheckHead(tag, b, inMap) ==
    CheckKeysPresent(tag, b)
    \o IF b.shape # "array" THEN << >>
       ELSE Judge("BundleSequenceMonotonic", b.sequence = "good", tag)
            \o CheckHint(tag, b, inMap)

\* Mutant: the return after a failed x5c is missing.
CheckX509EntryGoesOn(tag, jwk) ==
    Judge("BundleX509NoKid", jwk.kid = "absent", tag)
    \o (IF jwk.x5c = "bad" THEN Fail("BundleX509X5CPresent", tag) ELSE << >>)
    \o Pass("BundleX509X5CPresent", tag)
    \o Judge("BundleX509SelfSigned", jwk.x5c = "selfSigned", tag)

CheckX509Entry(tag, jwk) ==
    Judge("BundleX509NoKid", jwk.kid = "absent", tag)
    \o IF jwk.x5c = "bad"
       THEN Fail("BundleX509X5CPresent", tag)
       ELSE Pass("BundleX509X5CPresent", tag)
            \o Judge("BundleX509SelfSigned", jwk.x5c = "selfSigned", tag)

\* The kid clause each token-signing use has.
KidClause ==
    [use \in {"jwt-svid", "wit-svid"} |->
        IF use = "jwt-svid" THEN "BundleJWTKidPresent" ELSE "BundleWITKidPresent"]

\* An unset use ends the checks of the entry, an unset kty does not.
CheckJWK(tag, jwk) ==
    Judge("BundleKeyKTYSet", jwk.kty = "set", tag)
    \o Judge("BundleKeyUseSet", jwk.use # "unset", tag)
    \o CASE jwk.use = "unset" -> << >>
         [] jwk.use = "unknown" -> Fail("BundleKeyUseKnown", tag)
         [] jwk.use = "x509-svid" ->
              Pass("BundleKeyUseKnown", tag) \o CheckX509Entry(tag, jwk)
         [] jwk.use \in DOMAIN KidClause ->
              Pass("BundleKeyUseKnown", tag)
              \o Judge(KidClause[jwk.use], jwk.kid \in Kids, tag)

\* One turn of check's loop.
CheckEntry(tag, jwk) ==
    IF jwk = None THEN Fail("BundleKeyKTYSet", tag) ELSE CheckJWK(tag, jwk)

\* Mutant: an entry that failed its kty adds no kid.
KidOfWhole(jwk) ==
    IF /\ jwk # None
       /\ jwk.kty = "set"
       /\ jwk.use \in DOMAIN KidClause
       /\ jwk.kid \in Kids
    THEN <<jwk.kid>> ELSE << >>

\* The kid checkJWK returns, appended to kids unless it is "".
KidOf(jwk) ==
    IF jwk # None /\ jwk.use \in DOMAIN KidClause /\ jwk.kid \in Kids
    THEN <<jwk.kid>> ELSE << >>

\* No assertion for a bundle without kids.
CheckKIDUniqueness(tag, kids) ==
    IF kids = << >> THEN << >>
    ELSE Judge("BundleKIDUnique", IsInjective(kids), tag)

---------------------------------------------------------------------------
(* What the documents ask of a bundle, entry by entry.                     *)

GoodEntry(jwk) ==
    /\ jwk # None
    /\ jwk.kty = "set"
    /\ jwk.use # "unset"
    /\ jwk.use = "x509-svid" => jwk.kid = "absent" /\ jwk.x5c # "bad"
    /\ jwk.use \in {"jwt-svid", "wit-svid"} => jwk.kid \in Kids

\* The entries that sign tokens under a kid, and those that share theirs.
Keyed(b) ==
    { i \in DOMAIN b.keys : /\ b.keys[i] # None
                            /\ b.keys[i].use \in {"jwt-svid", "wit-svid"}
                            /\ b.keys[i].kid \in Kids }

KidsClash(b) == \E i, j \in Keyed(b) : i # j /\ b.keys[i].kid = b.keys[j].kid

GoodBundle(b) ==
    /\ b.shape = "array"
    /\ \A i \in DOMAIN b.keys : GoodEntry(b.keys[i])
    /\ ~KidsClash(b)
=============================================================================
