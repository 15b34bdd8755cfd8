------------------------------ MODULE Folders ------------------------------
(***************************************************************************)
(* The folder a provisioning system writes, as the checker's file system   *)
(* calls find it (external), and what §2 of SPIFFE_Filesystem_Delivery.md, *)
(* as spec/clauses.go cites it, demands of what was read from it.          *)
(***************************************************************************)
EXTENDS FolderChecks

CONSTANTS
    NameOrder,     \* the names in a folder, in the order ReadDir lists them
    Timelines      \* the sequences of folders considered

Name == ToSet(NameOrder)

\* What a name is, as fs.Stat, Open and Read find it: a regular "file" that
\* can be read, is "sealed" (no permission), "flaky" (the read fails) or over
\* maxFileSize ("big"); a "dir", a "fifo", or a "dangling" link.
Kind == {"file", "sealed", "flaky", "big", "dir", "fifo", "dangling"}

Node == [kind : Kind, content : Content]

\* node maps the names in the folder; an unlistable one is unreadable itself.
IsFolder(f) ==
    /\ f.listable \in BOOLEAN
    /\ DOMAIN f.node \subseteq Name
    /\ \A n \in DOMAIN f.node : f.node[n] \in Node

IsTimeline(t) ==
    Len(t) \in Nat \ {0} /\ \A v \in 1..Len(t) : IsFolder(t[v])

ASSUME TimelineAssumption ==
    /\ NameOrder \in Seq(Name)
    /\ SpecName \subseteq Name
    /\ \A t \in Timelines : IsTimeline(t)

\* What is known of one file: its content, or that there is a problem with it.
Finding == [problem : BOOLEAN, raw : Content]

Unreadable == [problem |-> TRUE, raw |-> NoContent]

\* What one undisturbed look at a name finds.
FindingOf(node) ==
    IF node.kind = "file" THEN [problem |-> FALSE, raw |-> node.content] ELSE Unreadable

Look(folder, name) ==
    IF name \in DOMAIN folder.node THEN FindingOf(folder.node[name]) ELSE Unreadable

---------------------------------------------------------------------------
(* A view maps the spec-named files of a folder to findings.               *)

\* §2.2: readable, and redacted or nothing but bare CERTIFICATE blocks, one at
\* least, that hold certificates.
GoodTrustBundle(finding) ==
    /\ ~finding.problem
    /\ \/ finding.raw.empty
       \/ /\ finding.raw.blocks # << >> /\ ~finding.raw.stray
          /\ \A i \in DOMAIN finding.raw.blocks :
                 IsCert(finding.raw.blocks[i]) /\ ~finding.raw.blocks[i].headers

\* The anchors a chain ends at: its own trust domain's, else the folder's.
ChainAnchors(leaf, view) ==
    LET bundles == DOMAIN view \cap TrustBundleName
        own == { n \in bundles : IdentifiesBundle(leaf)
                                 /\ TrustDomainOf[n] = Cert[leaf].uris[1].td }
        AnchorsOf(names) == Anchors({view[n].raw : n \in names})
    IN  IF AnchorsOf(own) = {} THEN AnchorsOf(bundles) ELSE AnchorsOf(own)

\* §2.1: the key, then the leaf it belongs to, then its issuers in order, up
\* to but without an anchor; and a bundle for the leaf's trust domain.
GoodCredential(raw, view) ==
    LET b == raw.blocks
        leaf == b[2].body
        last == b[Len(b)].body
        anchors == Anchors({view[n].raw : n \in DOMAIN view \cap TrustBundleName})
    IN  /\ Len(b) >= 2
        /\ ~raw.stray
        /\ \A i \in DOMAIN b : ~b[i].headers
        /\ PublicKey(b[1]) # None
        /\ \A i \in 2..Len(b) : IsCert(b[i])
        /\ \A i \in 2..(Len(b) - 1) : IssuedBy(b[i].body, b[i + 1].body)
        /\ Cert[leaf].pub = PublicKey(b[1])
        /\ \A i \in 2..Len(b) : ~IsSelfSigned(b[i].body) /\ b[i].body \notin anchors
        /\ IdentifiesBundle(leaf) =>
               \E n \in DOMAIN view \cap TrustBundleName :
                   TrustDomainOf[n] = Cert[leaf].uris[1].td
        /\ \/ anchors = {}
           \/ \E a \in ChainAnchors(leaf, view) : IssuedBy(last, a)

\* Every MUST of §2 holds.  That the leaf is an X.509-SVID is only a SHOULD.
Compliant(view) ==
    /\ CredentialBundleName \in DOMAIN view
    /\ ~view[CredentialBundleName].problem
    /\ \/ view[CredentialBundleName].raw.empty
       \/ GoodCredential(view[CredentialBundleName].raw, view)
    /\ DOMAIN view \cap TrustBundleName # {}
    /\ \A n \in DOMAIN view \cap TrustBundleName :
           GoodTrustDomain(TrustDomainOf[n]) /\ GoodTrustBundle(view[n])

VerdictOf(view) == IF Compliant(view) THEN 0 ELSE 1

\* The view one undisturbed look at the whole folder would give.
ViewOf(folder) == [n \in DOMAIN folder.node \cap SpecName |-> Look(folder, n)]
=============================================================================
