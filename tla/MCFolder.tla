------------------------------ MODULE MCFolder ------------------------------
(***************************************************************************)
(* CredentialFolder for TLC: a small certificate world and two families of *)
(* timelines, one of many single folders (Contents) and one of a few       *)
(* folders in all the orders a provisioner may publish them (Rotations).   *)
(*                                                                         *)
(* R is a root, I an intermediate below it, L leaves; S is another root    *)
(* with R's name but its own key, O an old root whose signature cannot be  *)
(* verified.                                                               *)
(***************************************************************************)
EXTENDS CredentialFolder

MCTrustDomains == {"", "own", "peer", "Bad"}
MCUpperNames == {"Bad"}
MCBadCharNames == {"Bad"}
MCLongNames == {}

\* ".spiffe-trust-bundle..." and "Bad.spiffe-trust-bundle..." sort before
\* "credential-bundle...", "note" is any other file.
MCNameOrder == <<"noname", "badname", "cred", "note", "own", "peer">>
MCTrustDomainOf ==
    [n \in {"noname", "badname", "own", "peer"} |->
        CASE n = "noname" -> "" [] n = "badname" -> "Bad" [] OTHER -> n]
MCTags == {"", "noname", "badname", "cred", "own", "peer"}

Uri(td, colon, path) ==
    [parses |-> TRUE, scheme |-> "spiffe", user |-> FALSE, td |-> td,
     colon |-> colon, path |-> path, escaped |-> path, query |-> "none",
     fragment |-> "none", long |-> FALSE, longString |-> FALSE]

LeafCert(issuer, aki, uris) ==
    [isCA |-> FALSE, bcValid |-> TRUE, kuExt |-> "critical",
     ku |-> {"digitalSignature"}, eku |-> {"serverAuth", "clientAuth"},
     ekuUnknown |-> FALSE, subject |-> "leaf", sanExt |-> "critical",
     uris |-> uris, issuer |-> issuer, aki |-> aki, ski |-> NoKeyId,
     pub |-> "k1", sig |-> "wrong"]

CaCert(subject, ski, issuer, aki, sig) ==
    [isCA |-> TRUE, bcValid |-> TRUE, kuExt |-> "critical",
     ku |-> {"keyCertSign"}, eku |-> {}, ekuUnknown |-> FALSE,
     subject |-> subject, sanExt |-> "absent", uris |-> << >>,
     issuer |-> issuer, aki |-> aki, ski |-> ski, pub |-> "kca", sig |-> sig]

MCCert ==
    [ R |-> CaCert("r", "kr", "r", "kr", "valid"),
      S |-> CaCert("r", "ks", "r", "ks", "valid"),
      O |-> CaCert("o", NoKeyId, "o", NoKeyId, "refused"),
      I |-> CaCert("i", "ki", "r", "kr", "wrong"),
      L |-> LeafCert("i", "ki", <<Uri("own", "none", <<"ok">>)>>),
      LR |-> LeafCert("r", "kr", <<Uri("own", "none", <<"ok">>)>>),
      LS |-> LeafCert("r", "ks", <<Uri("own", "none", <<"ok">>)>>),
      LO |-> LeafCert("o", NoKeyId, <<Uri("peer", "none", << >>)>>),
      LColon |-> LeafCert("r", NoKeyId, <<Uri("own", "bare", <<"ok">>)>>),
      LPort |-> LeafCert("r", NoKeyId, <<Uri("own", "port", <<"ok">>)>>),
      LNoId |-> LeafCert("r", NoKeyId, << >>),
      LCa |-> [CaCert("sub", "k1", "r", "kr", "wrong") EXCEPT !.pub = "k1"] ]

MCKey == [K1 |-> "k1", K2 |-> "k2", KX |-> None]
MCBody == DOMAIN MCCert \cup DOMAIN MCKey \cup {"junk"}

K(body) == [type |-> "PRIVATE KEY", headers |-> FALSE, body |-> body]
C(body) == [type |-> "CERTIFICATE", headers |-> FALSE, body |-> body]
Other == [type |-> "OTHER", headers |-> FALSE, body |-> "junk"]

Pem(blocks) == [blocks |-> blocks, stray |-> FALSE, empty |-> FALSE]
WithText(content) == [content EXCEPT !.stray = TRUE]
WithHeaders(content) ==
    [content EXCEPT !.blocks[Len(content.blocks)].headers = TRUE]

File(content) == [kind |-> "file", content |-> content]
Odd(kind) == [kind |-> kind, content |-> NoContent]

Whole(node) == [listable |-> TRUE, node |-> node]
Unlistable == [listable |-> FALSE, node |-> << >>]

Empty == [blocks |-> << >>, stray |-> FALSE, empty |-> TRUE]
White == Pem(<< >>)

---------------------------------------------------------------------------
(* Single folders.                                                         *)

CredBlocks ==
    {K("K1"), K("K2"), K("KX"), K("junk"), C("L"), C("LR"), C("I"), C("R"),
     C("junk"), Other}

Good == Pem(<<K("K1"), C("L"), C("I")>>)
GoodR == Pem(<<K("K1"), C("LR")>>)

\* Every credential bundle of at most three of these blocks, and some others.
CredPems ==
    { Pem(b) : b \in UNION {[1..n -> CredBlocks] : n \in 1..3} }
    \cup { Pem(<<K("K1"), C(l)>>) : l \in {"LO", "LColon", "LPort", "LNoId", "LCa"} }
    \cup { Pem(<<K("K1"), C("L"), C("I"), C(r)>>) : r \in {"R", "S", "L"} }
    \cup { Pem(<<K("K1"), C("LO"), C("O")>>), White, Empty, WithText(Good),
           WithText(White), WithHeaders(Good), WithHeaders(GoodR) }

CredNodes ==
    { File(c) : c \in CredPems }
    \cup { Odd(k) : k \in Kind \ {"file"} }

\* Trust bundles around it: each a function from names to nodes.
Root == File(Pem(<<C("R")>>))

TrustFolders ==
    { [own |-> Root],
      [own |-> Root, peer |-> File(Pem(<<C("O"), C("S")>>))],
      [own |-> File(Pem(<<C("S")>>)), peer |-> Root],
      [own |-> File(Pem(<<C("I")>>))],
      [own |-> File(Empty)],
      [own |-> File(Empty), peer |-> Root],
      [peer |-> Root] }

TrustNodes ==
    {Root, File(Empty), File(White), File(Pem(<<C("R"), Other>>)),
     File(Pem(<<C("junk")>>)), File(Pem(<<C("R"), C("junk")>>)),
     File(Pem(<<Other>>)), File(WithText(Pem(<<C("R")>>))),
     File(WithHeaders(Pem(<<C("R")>>)))}
    \cup { Odd(k) : k \in Kind \ {"file"} }

FewCreds == {File(Good), File(GoodR), File(Empty), Odd("dangling")}

Folders1 ==
    { ("cred" :> c) @@ t : c \in CredNodes, t \in TrustFolders }
    \cup { ("cred" :> c) @@ [own |-> t, peer |-> u] :
             c \in FewCreds, t \in TrustNodes, u \in TrustNodes }
    \cup { ("cred" :> c) @@ ("own" :> Root) @@ (n :> t) :
             c \in FewCreds, n \in {"noname", "badname", "note"}, t \in TrustNodes }
    \cup TrustFolders
    \cup { << >>, "note" :> Odd("fifo") }
    \cup { "cred" :> c : c \in CredNodes }

SingleFolders == { <<Whole(f)>> : f \in Folders1 } \cup { <<Unlistable>> }

---------------------------------------------------------------------------
(* Folders a provisioner may publish one after the other.                  *)

\* Two generations of a credential under two roots of one name, both
\* compliant; then a removal, a redaction, and one state of each other kind.
OldFolder == [cred |-> File(GoodR), own |-> Root, peer |-> Root]
NewFolder ==
    [cred |-> File(Pem(<<K("K1"), C("LS")>>)), own |-> File(Pem(<<C("S")>>)),
     peer |-> Root]
Removed == [note |-> File(Empty), own |-> Root]
Redacted == [cred |-> File(Empty), own |-> File(Empty), peer |-> Root]
Dirs == [cred |-> File(GoodR), own |-> Odd("dir"), peer |-> Odd("sealed")]
Fifos == [cred |-> Odd("fifo"), own |-> Odd("fifo"), peer |-> Root]
Flaky == [cred |-> Odd("flaky"), own |-> Odd("dangling"), peer |-> Odd("big")]

SomeFolders ==
    { Whole(f) : f \in {OldFolder, NewFolder, Removed, Redacted, Dirs, Fifos, Flaky} }
    \cup {Unlistable}

Middle == {Whole(NewFolder), Whole(Removed), Whole(Fifos)}

Rotations ==
    {<<f>> : f \in SomeFolders} \cup (SomeFolders \X SomeFolders)
    \cup { <<Whole(OldFolder), f, g>> : f \in Middle, g \in SomeFolders }

OneRotation == { <<Whole(OldFolder), Whole(NewFolder)>> }
=============================================================================
