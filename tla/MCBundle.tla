------------------------------ MODULE MCBundle ------------------------------
(***************************************************************************)
(* BundleCommand for TLC: every bundle of at most three entries out of     *)
(* thirteen; maps of at most three members, names repeated; and every      *)
(* configuration over a few values of each flag.                           *)
(***************************************************************************)
EXTENDS BundleCommand

MCTrustDomains == {"", "td", "Td", "peer"}
MCUpperNames == {"Td"}
MCBadCharNames == {"Td"}
MCLongNames == {}
MCFolded == [t \in MCTrustDomains |-> IF t = "Td" THEN "td" ELSE t]

MCKids == {"a", "b"}

BundleTags == {"", "endpoint bundle"} \cup { "td" \o t : t \in MCTrustDomains }
MCNameTag(name) == "td" \o name
MCKeyTag(t, e) == t \o ".keys" \o ToString(e)
MCTags ==
    BundleTags \cup {"trust_domain"} \cup { MCKeyTag(t, e) : t \in BundleTags, e \in 1..3 }

X509(kid, x5c) == [kty |-> "set", use |-> "x509-svid", kid |-> kid, x5c |-> x5c]
Token(use, kid) == [kty |-> "set", use |-> use, kid |-> kid, x5c |-> "bad"]

Entries ==
    { None, X509("absent", "selfSigned"), X509("absent", "issued"),
      X509("a", "selfSigned"), X509("absent", "bad"),
      Token("jwt-svid", "a"), Token("jwt-svid", "b"), Token("wit-svid", "a"),
      Token("jwt-svid", "absent"), Token("wit-svid", "bad"),
      Token("unknown", "a"), Token("unset", "a"),
      [Token("jwt-svid", "a") EXCEPT !.kty = "unset"] }

Set(keys) == [shape |-> "array", keys |-> keys, sequence |-> "good", hint |-> "good"]
NoSet(shape) == [Set(<< >>) EXCEPT !.shape = shape]

A == Set(<<Token("jwt-svid", "a")>>)

BundlesMC ==
    { Set(k) : k \in UNION {[1..e -> Entries] : e \in 0..3} }
    \cup { [A EXCEPT !.sequence = s, !.hint = h] :
             s, h \in {"absent", "good", "bad"} }
    \cup { NoSet("absent"), NoSet("other") }

File(field, value) == ("readable" :> TRUE) @@ ("decodes" :> TRUE) @@ (field :> value)
BadFiles(field, value) ==
    { [File(field, value) EXCEPT !.readable = FALSE],
      [File(field, value) EXCEPT !.decodes = FALSE] }

\* Map entries, among them two that share a kid with each other's bundle.
MapMembers ==
    [name : MCTrustDomains,
     entry : {None, A, Set(<<Token("wit-svid", "a"), Token("jwt-svid", "a")>>),
              Set(<<None, Token("jwt-svid", "absent")>>),
              [A EXCEPT !.hint = "absent"], NoSet("other")}]
FewMembers ==
    [name : {"td", "peer"}, entry : {None, A, [A EXCEPT !.hint = "absent"]}]

Object(members) == [object |-> TRUE, members |-> members]
NoObject == [object |-> FALSE, members |-> << >>]

Objects ==
    { Object(m) : m \in UNION {[1..e -> MapMembers] : e \in 0..2} }
    \cup { Object(m) : m \in [1..3 -> FewMembers] }
FewObjects == { Object(m) : m \in UNION {[1..e -> FewMembers] : e \in 0..1} } \cup {NoObject}

Maps ==
    { <<o>> : o \in Objects } \cup {<< >>, <<NoObject>>}
    \cup (FewObjects \X FewObjects)

Plain ==
    [parses |-> TRUE, scheme |-> "spiffe", user |-> FALSE, td |-> "td",
     colon |-> "none", path |-> <<"ok">>, escaped |-> <<"ok">>, query |-> "none",
     fragment |-> "none", long |-> FALSE, longString |-> FALSE]

EndpointIds ==
    { None, Plain, [Plain EXCEPT !.td = "Td"], [Plain EXCEPT !.td = "peer"],
      [Plain EXCEPT !.td = ""], [Plain EXCEPT !.parses = FALSE],
      [Plain EXCEPT !.scheme = "other"], [Plain EXCEPT !.user = TRUE],
      [Plain EXCEPT !.path = <<"percent", "raw">>, !.escaped = <<"ok", "percent">>] }

Configs ==
    [url : {None} \cup Url, profile : Profile, trustDomain : {"", "td", "Td"},
     endpointId : EndpointIds,
     bundle : {None, File("bundle", A), File("bundle", Set(<<None>>))}
              \cup BadFiles("bundle", A)]

Invocation(cmd, usable, file, cfg) ==
    [cmd |-> cmd, usable |-> usable, file |-> file, cfg |-> cfg]

MCInvocations ==
    { Invocation("bundle", TRUE, File("bundle", b), None) : b \in BundlesMC }
    \cup { Invocation("bundle-map", TRUE, File("map", m), None) : m \in Maps }
    \cup { Invocation("federation", TRUE, None, c) : c \in Configs }
    \cup { Invocation("bundle", u, f, None) : u \in BOOLEAN, f \in BadFiles("bundle", A) }
    \cup { Invocation("bundle-map", u, f, None) : u \in BOOLEAN, f \in BadFiles("map", << >>) }
=============================================================================
