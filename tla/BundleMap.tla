----------------------------- MODULE BundleMap -----------------------------
(***************************************************************************)
(* internal/bundlemap: the two readings of one bundle map document.        *)
(*                                                                         *)
(* A document is the sequence of its "trust_domains" members, none or      *)
(* several: each is an object or something else, and an object has members *)
(* in the order written, names repeated as written.                        *)
(***************************************************************************)
EXTENDS TrustBundle, SpiffeId

CONSTANT NameTag(_)      \* trust_domains[name], as Check makes it

ASSUME NameTagAssumption ==
    \A s, t \in TrustDomains :
        NameTag(s) \in Tags /\ (NameTag(s) = NameTag(t) => s = t)

Member == [name : TrustDomains, entry : Bundle \cup {None}]

MapDocument == Seq([object : BOOLEAN, members : Seq(Member)])

Names(members) == [i \in DOMAIN members |-> members[i].name]

\* encoding/json (external) keeps the last of the members with one name.
Decoded(members) ==
    [n \in ToSet(Names(members)) |->
        members[CHOOSE i \in DOMAIN members :
                    /\ members[i].name = n
                    /\ \A j \in DOMAIN members : members[j].name = n => j <= i].entry]

\* Mutant: the names are those of the decoded map, where none is repeated.
TrustDomainNamesOnce(doc) ==
    FoldLeft(LAMBDA names, o : IF o.object THEN SetToSeq(ToSet(Names(o.members))) ELSE << >>,
             << >>, doc)

\* trustDomainNames: every occurrence of the key replaces the names.
TrustDomainNames(doc) ==
    FoldLeft(LAMBDA names, o : IF o.object THEN Names(o.members) ELSE << >>, << >>, doc)

\* Mutant: a name stays where it was seen last.
DistinctLast(names) ==
    FoldLeft(LAMBDA out, n : Append(SelectSeq(out, LAMBDA m : m # n), n), << >>, names)

\* First-seen order.
Distinct(names) ==
    FoldLeft(LAMBDA out, n : IF Contains(out, n) THEN out ELSE Append(out, n),
             << >>, names)

IsMap(doc) == doc # << >> /\ Last(doc).object

CheckTrustDomainsPresent(doc) == Judge("BundleMapTrustDomainsPresent", IsMap(doc), "")

\* No assertion for an empty map.
CheckUniqueness(names) ==
    IF names = << >> THEN << >>
    ELSE Judge("BundleMapTrustDomainsUnique", IsInjective(names), "")

\* The entry's own part; a bundle is handed on.
CheckMapEntry(name, entry) ==
    CheckTrustDomain(NameTag(name), name)
    \o Judge("BundleMapEntryIsBundle", entry # None, NameTag(name))

---------------------------------------------------------------------------

\* §5.1.1, of the document as written.
GoodMap(doc) ==
    /\ IsMap(doc)
    /\ LET members == Last(doc).members
       IN  /\ \A i, j \in DOMAIN members : members[i].name = members[j].name => i = j
           /\ \A i \in DOMAIN members : /\ GoodTrustDomain(members[i].name)
                                        /\ members[i].entry # None
                                        /\ GoodBundle(members[i].entry)
=============================================================================
