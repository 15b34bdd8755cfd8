---------------------------- MODULE BundleProofs ----------------------------
(***************************************************************************)
(* For every bundle, every bundle map and every federation configuration:  *)
(* every entry of every bundle is judged, once, whatever is wrong with the *)
(* one before it; the verdict on duplicate key ids is exact and about one  *)
(* bundle; a map is reported in the order of the file; and the exit code   *)
(* is the verdict on the artifact as a whole.                              *)
(*                                                                         *)
(* Before the invariant come the names of a map, as the folds of BundleMap *)
(* compute them; after it, what each check writes and tells, what of the   *)
(* report is new when it does, and one lemma per action.                   *)
(***************************************************************************)
EXTENDS BundleCommand, ReportProofs, FiniteSetTheorems

---------------------------------------------------------------------------
(* The two folds of a map's names.  A fold goes through the sets of        *)
(* positions; what it has after position m is what it makes of 1..m.       *)

LEMMA MaxIs ==
  ASSUME NEW S, S \subseteq Int, NEW x \in S, \A y \in S : x >= y
  PROVE  Max(S) = x
  <1>1. \A z \in S : (\A y \in S : z >= y) => z = x
    OBVIOUS
  <1>2. \E z \in S : \A y \in S : z >= y
    OBVIOUS
  <1> QED
    BY <1>1, <1>2, Zenon DEF Max

\* Every position of a document is the last of those up to it.
LEMMA LastPosition ==
  ASSUME NEW len \in Nat, NEW m \in 1..len
  PROVE  /\ 1..m \in SUBSET (1..len)
         /\ 1..m # {}
         /\ Max(1..m) = m
         /\ (1..m) \ {m} = 1..(m - 1)
  <1>1. Max(1..m) = m
    <2>1. 1..m \subseteq Int /\ m \in 1..m /\ \A y \in 1..m : m >= y
      OBVIOUS
    <2> QED
      BY <2>1, MaxIs
  <1>2. (1..m) \ {m} = 1..(m - 1)
    OBVIOUS
  <1> QED
    BY <1>1, <1>2

DistinctStep(out, x) == IF Contains(out, x) THEN out ELSE Append(out, x)

\* What the fold makes of the positions in s.
DistinctAt(f, names, s) ==
    IF s = {} THEN << >> ELSE DistinctStep(f[s \ {Max(s)}], names[Max(s)])

IsDistinctFold(f, names) == f = [s \in SUBSET DOMAIN names |-> DistinctAt(f, names, s)]

DistinctFold(names) == CHOOSE f : IsDistinctFold(f, names)

LEMMA DistinctIsFold ==
  ASSUME NEW names
  PROVE  Distinct(names) = DistinctFold(names)[DOMAIN names]
  BY Zenon DEF Distinct, DistinctFold, IsDistinctFold, DistinctAt, DistinctStep, FoldLeft,
     MapThenFoldSet

\* There is such a fold up to every position.
LEMMA DistinctFoldUpTo ==
  ASSUME NEW names, NEW m \in Nat
  PROVE  \E f : f = [s \in SUBSET (1..m) |-> DistinctAt(f, names, s)]
  <1> DEFINE Upto(k) == \E f : f = [s \in SUBSET (1..k) |-> DistinctAt(f, names, s)]
             T == {k \in Nat : ~Upto(k)}
  <1>1. Upto(0)
    <2> DEFINE f == [s \in SUBSET (1..0) |-> << >>]
    <2>1. ASSUME NEW s \in SUBSET (1..0)
          PROVE  DistinctAt(f, names, s) = << >>
      <3>1. s = {}
        OBVIOUS
      <3> QED
        BY <3>1, Zenon DEF DistinctAt
    <2>2. f = [s \in SUBSET (1..0) |-> DistinctAt(f, names, s)]
      BY <2>1, Zenon
    <2> QED
      BY <2>2, Zenon
  <1>2. ASSUME NEW k \in Nat, Upto(k)
        PROVE  Upto(k + 1)
    <2>1. PICK f : f = [s \in SUBSET (1..k) |-> DistinctAt(f, names, s)]
      BY <1>2, Zenon
    <2> DEFINE last(s) == DistinctStep(f[s \ {k + 1}], names[k + 1])
               g == [s \in SUBSET (1..(k + 1)) |-> IF k + 1 \in s THEN last(s) ELSE f[s]]
    <2>2. ASSUME NEW s \in SUBSET (1..(k + 1))
          PROVE  g[s] = DistinctAt(g, names, s)
      <3>1. CASE k + 1 \in s
        <4>1. Max(s) = k + 1
          <5>1. s \subseteq Int /\ k + 1 \in s /\ \A y \in s : k + 1 >= y
            BY <3>1
          <5> QED
            BY <5>1, MaxIs
        <4>2. /\ s \ {k + 1} \in SUBSET (1..(k + 1))
              /\ k + 1 \notin s \ {k + 1}
          OBVIOUS
        <4>3. g[s \ {k + 1}] = f[s \ {k + 1}]
          BY <4>2, Zenon
        <4>4. s # {}
          BY <3>1
        <4>5. g[s] = last(s)
          BY <3>1, Zenon
        <4> QED
          BY <4>1, <4>3, <4>4, <4>5, Zenon DEF DistinctAt
      <3>2. CASE k + 1 \notin s
        <4>1. s \in SUBSET (1..k)
          BY <3>2
        <4>2. g[s] = DistinctAt(f, names, s)
          BY <2>1, <3>2, <4>1, Zenon
        <4>3. /\ s \ {Max(s)} \in SUBSET (1..(k + 1))
              /\ k + 1 \notin s \ {Max(s)}
          BY <3>2
        <4>4. g[s \ {Max(s)}] = f[s \ {Max(s)}]
          BY <4>3, Zenon
        <4> QED
          BY <4>2, <4>4, Zenon DEF DistinctAt
      <3> QED
        BY <3>1, <3>2
    <2>3. g = [s \in SUBSET (1..(k + 1)) |-> g[s]]
      BY Zenon
    <2>4. g = [s \in SUBSET (1..(k + 1)) |-> DistinctAt(g, names, s)]
      BY <2>2, <2>3, Zenon
    <2> QED
      BY <2>4, Zenon
  <1> HIDE DEF Upto
  <1>3. ASSUME T # {}
        PROVE  FALSE
    <2>1. PICK k \in T : \A y \in T : k <= y
      BY <1>3, LeastNat, Zenon
    <2>2. k # 0 /\ k \in Nat
      BY <1>1, <2>1
    <2>3. k - 1 \in Nat /\ k - 1 \notin T
      BY <2>1, <2>2
    <2>4. Upto(k)
      <3>1. Upto(k - 1)
        BY <2>3
      <3>2. Upto((k - 1) + 1)
        BY <2>3, <3>1, <1>2, Zenon
      <3>3. (k - 1) + 1 = k
        BY <2>2
      <3> QED
        BY <3>2, <3>3
    <2> QED
      BY <2>1, <2>4
  <1>4. Upto(m)
    BY <1>3
  <1> QED
    BY <1>4 DEF Upto

\* What it has after position m.
SeenUpTo(names, m) == DistinctFold(names)[1..m]

LEMMA DistinctSteps ==
  ASSUME NEW S, NEW names \in Seq(S)
  PROVE  /\ Distinct(names) = SeenUpTo(names, Len(names))
         /\ SeenUpTo(names, 0) = << >>
         /\ \A m \in DOMAIN names :
              SeenUpTo(names, m) = DistinctStep(SeenUpTo(names, m - 1), names[m])
  <1>1. DOMAIN names = 1..Len(names) /\ Len(names) \in Nat
    OBVIOUS
  <1> DEFINE f == DistinctFold(names)
  <1>2. f = [s \in SUBSET DOMAIN names |-> DistinctAt(f, names, s)]
    <2>1. \E g : g = [s \in SUBSET (1..Len(names)) |-> DistinctAt(g, names, s)]
      BY <1>1, DistinctFoldUpTo, Zenon
    <2>2. \E g : IsDistinctFold(g, names)
      BY <2>1, <1>1, Zenon DEF IsDistinctFold
    <2>3. IsDistinctFold(f, names)
      BY <2>2, Zenon DEF DistinctFold
    <2> QED
      BY <2>3, Zenon DEF IsDistinctFold
  <1> HIDE DEF f
  <1>3. \A s \in SUBSET DOMAIN names : f[s] = DistinctAt(f, names, s)
    BY <1>2, Zenon
  <1>4. SeenUpTo(names, 0) = << >>
    <2>1. 1..0 = {} /\ 1..0 \in SUBSET DOMAIN names
      OBVIOUS
    <2>2. f[1..0] = << >>
      BY <2>1, <1>3, Zenon DEF DistinctAt
    <2> QED
      BY <2>2 DEF SeenUpTo, f
  <1>5. ASSUME NEW m \in DOMAIN names
        PROVE  SeenUpTo(names, m) = DistinctStep(SeenUpTo(names, m - 1), names[m])
    <2>1. /\ 1..m \in SUBSET DOMAIN names /\ 1..m # {} /\ Max(1..m) = m
          /\ (1..m) \ {m} = 1..(m - 1)
      BY <1>1, LastPosition
    <2>2. f[1..m] = DistinctStep(f[1..(m - 1)], names[m])
      BY <2>1, <1>3, Zenon DEF DistinctAt
    <2> QED
      BY <2>2, Zenon DEF SeenUpTo, f
  <1>6. Distinct(names) = SeenUpTo(names, Len(names))
    BY <1>1, DistinctIsFold, Zenon DEF SeenUpTo
  <1> QED
    BY <1>4, <1>5, <1>6

\* The name at l is first seen after the one at k.
SeenAfter(names, l, k) == k < l /\ \A j \in 1..k : names[j] # names[l]

\* out has the names up to position m, each once, in first-seen order.
FirstSeen(out, names, m) ==
    /\ \A p, q \in DOMAIN out : out[p] = out[q] => p = q
    /\ \A p \in DOMAIN out : \E k \in 1..m : out[p] = names[k]
    /\ \A k \in 1..m : \E p \in DOMAIN out : out[p] = names[k]
    /\ \A k, l \in 1..m : \A p, q \in DOMAIN out :
         SeenAfter(names, l, k) /\ out[p] = names[k] /\ out[q] = names[l] => p < q

LEMMA FirstSeenStep ==
  ASSUME NEW S, NEW names \in Seq(S), NEW m \in DOMAIN names,
         NEW out \in Seq(S), FirstSeen(out, names, m - 1)
  PROVE  /\ DistinctStep(out, names[m]) \in Seq(S)
         /\ FirstSeen(DistinctStep(out, names[m]), names, m)
  <1>1. m \in Nat \ {0} /\ names[m] \in S
    OBVIOUS
  <1>2. \A k \in 1..m : k \in 1..(m - 1) \/ k = m
    BY <1>1
  <1>3. \A k \in 1..(m - 1) : k \in 1..m /\ k < m
    BY <1>1
  <1>4. CASE Contains(out, names[m])
    <2>1. DistinctStep(out, names[m]) = out
      BY <1>4, Zenon DEF DistinctStep
    <2>2. PICK r \in DOMAIN out : out[r] = names[m]
      BY <1>4 DEF Contains
    <2>3. PICK h \in 1..(m - 1) : names[h] = names[m]
      BY <2>2 DEF FirstSeen
    <2>4. \A p \in DOMAIN out : \E k \in 1..m : out[p] = names[k]
      BY <1>3 DEF FirstSeen
    <2>5. \A k \in 1..m : \E p \in DOMAIN out : out[p] = names[k]
      BY <1>2, <2>2 DEF FirstSeen
    <2>6. ASSUME NEW k \in 1..m, NEW l \in 1..m, NEW p \in DOMAIN out, NEW q \in DOMAIN out,
                 SeenAfter(names, l, k), out[p] = names[k], out[q] = names[l]
          PROVE  p < q
      <3>1. k \in 1..(m - 1)
        BY <2>6, <1>1 DEF SeenAfter
      <3>2. CASE l \in 1..(m - 1)
        BY <2>6, <3>1, <3>2 DEF FirstSeen
      <3>3. CASE l = m
        <4>1. SeenAfter(names, h, k)
          <5>1. \A j \in 1..k : names[j] # names[h]
            BY <2>6, <2>3, <3>3 DEF SeenAfter
          <5>2. ~(h \in 1..k)
            BY <5>1
          <5> QED
            BY <5>1, <5>2, <3>1 DEF SeenAfter
        <4>2. out[q] = names[h]
          BY <2>6, <2>3, <3>3
        <4> QED
          BY <2>6, <3>1, <4>1, <4>2 DEF FirstSeen
      <3> QED
        BY <1>2, <3>2, <3>3
    <2>7. FirstSeen(out, names, m)
      BY <2>4, <2>5, <2>6 DEF FirstSeen
    <2> QED
      BY <2>1, <2>7
  <1>5. CASE ~Contains(out, names[m])
    <2> DEFINE new == Append(out, names[m])
    <2>1. DistinctStep(out, names[m]) = new
      BY <1>5, Zenon DEF DistinctStep
    <2>2. /\ new \in Seq(S)
          /\ Len(out) \in Nat /\ DOMAIN out = 1..Len(out)
          /\ DOMAIN new = 1..(Len(out) + 1)
          /\ \A p \in DOMAIN out : p \in DOMAIN new /\ new[p] = out[p]
          /\ new[Len(out) + 1] = names[m]
      BY <1>1
    <2> HIDE DEF new
    <2>3. \A p \in DOMAIN new : p \in DOMAIN out \/ p = Len(out) + 1
      BY <2>2
    <2>4. \A p \in DOMAIN out : out[p] # names[m]
      BY <1>5, <2>2 DEF Contains
    <2>5. \A k \in 1..(m - 1) : names[k] # names[m]
      BY <2>4 DEF FirstSeen
    <2>6. \A p, q \in DOMAIN new : new[p] = new[q] => p = q
      <3>1. \A p, q \in DOMAIN out : out[p] = out[q] => p = q
        BY DEF FirstSeen
      <3> QED
        BY <2>2, <2>3, <2>4, <3>1
    <2>7. \A p \in DOMAIN new : \E k \in 1..m : new[p] = names[k]
      <3>1. \A p \in DOMAIN out : \E k \in 1..m : out[p] = names[k]
        BY <1>3 DEF FirstSeen
      <3>2. m \in 1..m
        BY <1>1
      <3> QED
        BY <2>2, <2>3, <3>1, <3>2
    <2>8. \A k \in 1..m : \E p \in DOMAIN new : new[p] = names[k]
      <3>1. \A k \in 1..(m - 1) : \E p \in DOMAIN out : out[p] = names[k]
        BY DEF FirstSeen
      <3>2. Len(out) + 1 \in DOMAIN new
        BY <2>2
      <3> QED
        BY <1>2, <2>2, <3>1, <3>2
    <2>9. ASSUME NEW k \in 1..m, NEW l \in 1..m, NEW p \in DOMAIN new, NEW q \in DOMAIN new,
                 SeenAfter(names, l, k), new[p] = names[k], new[q] = names[l]
          PROVE  p < q
      <3>1. k \in 1..(m - 1)
        BY <2>9, <1>1 DEF SeenAfter
      <3>2. p \in DOMAIN out /\ out[p] = names[k]
        BY <2>2, <2>3, <2>5, <2>9, <3>1
      <3>3. CASE l \in 1..(m - 1)
        <4>1. q \in DOMAIN out /\ out[q] = names[l]
          BY <2>2, <2>3, <2>5, <2>9, <3>3
        <4> QED
          BY <2>9, <3>1, <3>2, <3>3, <4>1 DEF FirstSeen
      <3>4. CASE l = m
        <4>1. q = Len(out) + 1
          BY <2>2, <2>3, <2>4, <2>9, <3>4
        <4> QED
          BY <3>2, <2>2, <4>1
      <3> QED
        BY <1>2, <3>3, <3>4
    <2>10. FirstSeen(new, names, m)
      BY <2>6, <2>7, <2>8, <2>9 DEF FirstSeen
    <2> QED
      BY <2>1, <2>2, <2>10
  <1> QED
    BY <1>4, <1>5

\* Distinct: every name once, in the order they are first seen in.
LEMMA DistinctIsFirstSeen ==
  ASSUME NEW S, NEW names \in Seq(S)
  PROVE  Distinct(names) \in Seq(S) /\ FirstSeen(Distinct(names), names, Len(names))
  <1> DEFINE Good(m) == /\ SeenUpTo(names, m) \in Seq(S)
                        /\ FirstSeen(SeenUpTo(names, m), names, m)
             T == {m \in 0..Len(names) : ~Good(m)}
  <1>1. DOMAIN names = 1..Len(names) /\ Len(names) \in Nat
    OBVIOUS
  <1>2. Good(0)
    <2>1. SeenUpTo(names, 0) = << >>
      BY DistinctSteps, Zenon
    <2>2. << >> \in Seq(S) /\ FirstSeen(<< >>, names, 0)
      BY DEF FirstSeen
    <2> QED
      BY <2>1, <2>2, Zenon
  <1>3. ASSUME NEW m \in DOMAIN names, Good(m - 1)
        PROVE  Good(m)
    <2>1. SeenUpTo(names, m) = DistinctStep(SeenUpTo(names, m - 1), names[m])
      BY DistinctSteps, Zenon
    <2> DEFINE out == SeenUpTo(names, m - 1)
    <2>2. out \in Seq(S) /\ FirstSeen(out, names, m - 1)
      BY <1>3
    <2> HIDE DEF out
    <2>3. /\ DistinctStep(out, names[m]) \in Seq(S)
          /\ FirstSeen(DistinctStep(out, names[m]), names, m)
      BY <2>2, FirstSeenStep
    <2> QED
      BY <2>1, <2>3, Zenon DEF out
  <1> HIDE DEF Good
  <1>4. ASSUME T # {}
        PROVE  FALSE
    <2>1. T \subseteq Nat
      OBVIOUS
    <2>2. PICK m \in T : \A y \in T : m <= y
      BY <1>4, <2>1, LeastNat, Zenon
    <2>3. m # 0 /\ m \in 0..Len(names)
      BY <1>2, <2>2
    <2>4. m \in DOMAIN names /\ m - 1 \in 0..Len(names) /\ ~(m <= m - 1)
      BY <1>1, <2>3
    <2>5. Good(m - 1)
      BY <2>2, <2>4
    <2>6. Good(m)
      BY <1>3, <2>4, <2>5
    <2> QED
      BY <2>2, <2>6
  <1>5. Good(Len(names))
    BY <1>1, <1>4
  <1>6. Distinct(names) = SeenUpTo(names, Len(names))
    BY DistinctSteps, Zenon
  <1> QED
    BY <1>5, <1>6, Zenon DEF Good

---------------------------------------------------------------------------
(* The same for the last object of a document.                             *)

NamesOfMember(o) == IF o.object THEN Names(o.members) ELSE << >>

NamesAt(doc, s) == IF s = {} THEN << >> ELSE NamesOfMember(doc[Max(s)])

LEMMA NamesIsFold ==
  ASSUME NEW doc
  PROVE  TrustDomainNames(doc)
           = (CHOOSE f : f = [s \in SUBSET DOMAIN doc |-> NamesAt(doc, s)])[DOMAIN doc]
  BY Zenon DEF TrustDomainNames, NamesOfMember, NamesAt, FoldLeft, MapThenFoldSet

\* trustDomainNames: the names of the last "trust_domains" alone.
LEMMA NamesOfLast ==
  ASSUME NEW S, NEW doc \in Seq(S), doc # << >>
  PROVE  TrustDomainNames(doc) = NamesOfMember(Last(doc))
  <1>1. DOMAIN doc = 1..Len(doc) /\ Len(doc) \in Nat /\ Len(doc) \in 1..Len(doc)
    OBVIOUS
  <1> DEFINE f == CHOOSE g : g = [s \in SUBSET DOMAIN doc |-> NamesAt(doc, s)]
  <1>2. f = [s \in SUBSET DOMAIN doc |-> NamesAt(doc, s)]
    BY Zenon
  <1> HIDE DEF f
  <1>3. DOMAIN doc \in SUBSET DOMAIN doc
    OBVIOUS
  <1>4. f[DOMAIN doc] = NamesAt(doc, DOMAIN doc)
    BY <1>2, <1>3, Zenon
  <1>5. 1..Len(doc) # {} /\ Max(1..Len(doc)) = Len(doc)
    BY <1>1, LastPosition
  <1>6. f[DOMAIN doc] = NamesOfMember(doc[Len(doc)])
    BY <1>1, <1>4, <1>5, Zenon DEF NamesAt
  <1> QED
    BY <1>6, NamesIsFold, Zenon DEF f, Last
---------------------------------------------------------------------------
(* The members of a map that bundlemap.Check visits.                       *)

NamesOf(v) == TrustDomainNames(v.file.map)

VisitedOf(v) == Distinct(NamesOf(v))

EntriesOf(v) == Decoded(Last(v.file.map).members)

NameAt(v, m) == VisitedOf(v)[m]

EntryAt(v, m) == EntriesOf(v)[NameAt(v, m)]

TagAt(v, m) == NameTag(NameAt(v, m))

GoodMember(v, m) ==
    /\ GoodTrustDomain(NameAt(v, m))
    /\ EntryAt(v, m) # None /\ GoodBundle(EntryAt(v, m))

---------------------------------------------------------------------------
(* What the checks write about.                                            *)

HeadClauses ==
    {"BundleKeysPresent", "BundleSequenceMonotonic", "BundleMapNoRefreshHint",
     "BundleRefreshHintInteger"}

EntryClauses ==
    {"BundleKeyKTYSet", "BundleKeyUseSet", "BundleKeyUseKnown", "BundleX509NoKid",
     "BundleX509X5CPresent", "BundleX509SelfSigned", "BundleJWTKidPresent",
     "BundleWITKidPresent"}

MemberClauses == TrustDomainRules \cup {"BundleMapEntryIsBundle"}

\* Of the entries before entry k of the bundle with tag t.
EntryTopics(t, b, k) ==
    UNION {On(EntryClauses, KeyTag(t, e)) : e \in {x \in DOMAIN b.keys : x < k}}

PartTopics(t, b, k) == On(HeadClauses, t) \cup EntryTopics(t, b, k)

WholeTopics(t, b) == PartTopics(t, b, Len(b.keys) + 1) \cup On({"BundleKIDUnique"}, t)

MemberTopics(v, m) ==
    On(MemberClauses, TagAt(v, m))
    \cup IF EntryAt(v, m) = None THEN {} ELSE WholeTopics(TagAt(v, m), EntryAt(v, m))

\* Of the members before member k.
MapTopics(v, k) ==
    On({"BundleMapTrustDomainsPresent", "BundleMapTrustDomainsUnique"}, NoTag)
    \cup UNION {MemberTopics(v, m) : m \in {x \in DOMAIN VisitedOf(v) : x < k}}

\* Of the configuration, before federation.Check goes on at `at`.
FedClauses(at) ==
    CASE at = "profile" -> {"FedURLPresent", "FedProfilePresent", "FedTrustDomainPresent"}
      [] at = "url" ->
           {"FedURLPresent", "FedProfilePresent", "FedTrustDomainPresent", "FedProfileKnown"}
      [] at = "params" ->
           {"FedURLPresent", "FedProfilePresent", "FedTrustDomainPresent", "FedProfileKnown",
            "FedURLSchemeHTTPS", "FedURLNoUserinfo"}
      [] OTHER -> FederationClauses \cup SpiffeIdClauses

FedTopics(at) == On(FedClauses(at), NoTag) \cup On(TrustDomainRules, "trust_domain")

\* What has been written when bundle.check is called, in a map on member k.
TopicsBefore(v, k) ==
    CASE v.cmd = "bundle" -> {}
      [] v.cmd = "bundle-map" -> MapTopics(v, k) \cup On(MemberClauses, TagAt(v, k))
      [] OTHER -> FedTopics("bootstrap")

---------------------------------------------------------------------------
(* When the report has failed.                                             *)

MapSpoiled(v, k) ==
    \/ ~IsInjective(NamesOf(v))
    \/ \E m \in DOMAIN VisitedOf(v) : m < k /\ ~GoodMember(v, m)

GoodUrl(url) == url # None /\ url.parses /\ url.https /\ ~url.user

GoodEndpoint(cfg) ==
    cfg.profile = "https_spiffe" =>
        /\ cfg.endpointId # None
        /\ \A c \in SpiffeIdClauses \ ShouldClauses : IdTruth(cfg.endpointId)[c]

FedSpoiled(cfg, at) ==
    \/ cfg.url = None \/ cfg.profile = "" \/ ~GoodTrustDomain(cfg.trustDomain)
    \/ at # "profile" /\ cfg.profile = "other"
    \/ at \notin {"profile", "url"} /\ ~GoodUrl(cfg.url)
    \/ at \notin {"profile", "url", "params"} /\ ~GoodEndpoint(cfg)

\* When bundle.check is called.
SpoiledBefore(v, k) ==
    CASE v.cmd = "bundle" -> FALSE
      [] v.cmd = "bundle-map" -> MapSpoiled(v, k) \/ ~GoodTrustDomain(NameAt(v, k))
      [] OTHER -> FedSpoiled(v.cfg, "bootstrap")

---------------------------------------------------------------------------
(* The inductive invariant.                                                *)

\* Two lines about the same are the two of a "keys" that is no array.
OnceEach(r) ==
    \A k, l \in DOMAIN r :
        k < l /\ TopicOf(r[k]) = TopicOf(r[l])
        => /\ r[k].clause = "BundleKeysPresent"
           /\ r[k].status = "pass" /\ r[l].status = "fail"

\* A line on key ids is about those of the bundle it names.
KidLines(v, r) ==
    \A k \in DOMAIN r : r[k].clause = "BundleKIDUnique" =>
        \A x \in BundlesOf(v) : x.tag = r[k].about =>
            /\ Keyed(x.b) # {}
            /\ r[k].status = "fail" <=> KidsClash(x.b)

\* The members come in the order they are visited in; where there is no map, there
\* are none.
InOrder(v, r) ==
    IF Loads(v.file) /\ IsMap(v.file.map)
    THEN \A k, l \in DOMAIN r : \A p, q \in DOMAIN VisitedOf(v) :
            /\ r[k].clause = "BundleMapEntryIsBundle" /\ r[k].about = TagAt(v, p)
            /\ r[l].clause = "BundleMapEntryIsBundle" /\ r[l].about = TagAt(v, q)
            /\ p < q
            => k < l
    ELSE \A k \in DOMAIN r : r[k].clause # "BundleMapEntryIsBundle"

WellWritten(v, r) ==
    /\ r \in Seq(Assertion)
    /\ OnceEach(r)
    /\ KidLines(v, r)
    /\ v.cmd = "bundle-map" => InOrder(v, r)

\* The entries before entry k have their line.
EntriesLined(r, t, b, k) ==
    \A e \in DOMAIN b.keys : e < k => Topic("BundleKeyKTYSet", KeyTag(t, e)) \in Topics(r)

\* The bundle has its lines.
Lined(r, t, b) ==
    b.shape = "array" =>
        /\ EntriesLined(r, t, b, Len(b.keys) + 1)
        /\ Keyed(b) # {} => Topic("BundleKIDUnique", t) \in Topics(r)

MembersLined(v, r, k) ==
    \A m \in DOMAIN VisitedOf(v) :
        m < k /\ EntryAt(v, m) # None => Lined(r, TagAt(v, m), EntryAt(v, m))

\* ks are the ids of the token-signing entries before entry k, one each.
KidsAre(ks, b, k) ==
    \E f \in [DOMAIN ks -> {e \in Keyed(b) : e < k}] :
        /\ \A x, y \in DOMAIN ks : f[x] = f[y] => x = y
        /\ \A e \in Keyed(b) : e < k => \E x \in DOMAIN ks : f[x] = e
        /\ \A x \in DOMAIN ks : ks[x] = b.keys[f[x]].kid

\* The report is about nothing but X, and has failed exactly if `bad`.
So(r, X, bad) == Topics(r) \subseteq X /\ (Failed(r) <=> bad)

NotStarted == pc = "args" /\ report = << >> /\ n = 1

InMapCheck ==
    /\ inv.cmd = "bundle-map" /\ Loads(inv.file) /\ IsMap(inv.file.map)
    /\ pc = "unique" =>
         /\ n = 1
         /\ So(report, On({"BundleMapTrustDomainsPresent"}, NoTag), FALSE)
    /\ pc = "entry" =>
         /\ n <= Len(VisitedOf(inv)) + 1
         /\ So(report, MapTopics(inv, n), MapSpoiled(inv, n))
         /\ MembersLined(inv, report, n)

InFedCheck ==
    /\ inv.cmd = "federation"
    /\ So(report, FedTopics(pc), FedSpoiled(inv.cfg, pc))

\* bundle.check has been called, on a bundle of the artifact.
Called ==
    CASE inv.cmd = "bundle" ->
           /\ Loads(inv.file)
           /\ tag = "" /\ bundle = inv.file.bundle
      [] inv.cmd = "bundle-map" ->
           /\ Loads(inv.file) /\ IsMap(inv.file.map)
           /\ n \in DOMAIN VisitedOf(inv)
           /\ tag = TagAt(inv, n) /\ bundle = EntryAt(inv, n) /\ bundle # None
           /\ MembersLined(inv, report, n)
      [] inv.cmd = "federation" ->
           /\ Bootstraps(inv.cfg) /\ Loads(inv.cfg.bundle)
           /\ tag = "endpoint bundle" /\ bundle = inv.cfg.bundle.bundle

InBundleCheck ==
    /\ Called
    /\ bundle \in Bundle
    /\ pc = "head" =>
         /\ i = 1 /\ kids = << >>
         /\ So(report, TopicsBefore(inv, n), SpoiledBefore(inv, n))
    /\ pc = "keys" =>
         /\ bundle.shape = "array" /\ i <= Len(bundle.keys) + 1
         /\ So(report, TopicsBefore(inv, n) \cup PartTopics(tag, bundle, i),
               SpoiledBefore(inv, n) \/ \E e \in DOMAIN bundle.keys :
                                            e < i /\ ~GoodEntry(bundle.keys[e]))
         /\ EntriesLined(report, tag, bundle, i)
         /\ KidsAre(kids, bundle, i)

Finished ==
    /\ Failed(report) <=> ~Compliant
    /\ \A x \in BundlesOf(inv) : Lined(report, x.tag, x.b)

Stages ==
    \/ NotStarted
    \/ pc \in {"unique", "entry"} /\ InMapCheck
    \/ pc \in {"profile", "url", "params", "bootstrap"} /\ InFedCheck
    \/ pc \in {"head", "keys"} /\ InBundleCheck
    \/ pc = "emit" /\ Finished
    \/ pc = "done" /\ exit = ExitOf(report) /\ Finished
    \/ pc = "done" /\ exit = 2

IInv ==
    /\ inv \in Invocations
    /\ TypeOK
    /\ pc # "done" => exit = -1
    /\ WellWritten(inv, report)
    /\ Stages
---------------------------------------------------------------------------
(* What a map that is one consists of.                                     *)

MembersOf(v) == Last(v.file.map).members

LEMMA MemberParts ==
  ASSUME NEW o \in Member
  PROVE  o.name \in TrustDomains /\ o.entry \in Bundle \cup {None}
  BY DEF Member

LEMMA MapParts ==
  ASSUME NEW v \in Invocations, v.cmd = "bundle-map", Loads(v.file), IsMap(v.file.map)
  PROVE  /\ MembersOf(v) \in Seq(Member)
         /\ NamesOf(v) \in Seq(TrustDomains)
         /\ DOMAIN NamesOf(v) = DOMAIN MembersOf(v)
         /\ \A k \in DOMAIN MembersOf(v) : NamesOf(v)[k] = MembersOf(v)[k].name
         /\ NamesOf(v) = Names(MembersOf(v))
  <1> DEFINE doc == v.file.map
             O == [object : BOOLEAN, members : Seq(Member)]
  <1>1. doc \in Seq(O)
    BY InvocationAssumption DEF MapDocument
  <1>2. doc # << >> /\ Last(doc).object
    BY DEF IsMap
  <1> HIDE DEF doc, O
  <1>3. Last(doc) \in O
    BY <1>1, <1>2 DEF Last
  <1>4. Last(doc).members \in Seq(Member)
    BY <1>3 DEF O
  <1>5. MembersOf(v) \in Seq(Member)
    BY <1>4 DEF MembersOf, doc
  <1>6. NamesOf(v) = NamesOfMember(Last(doc))
    BY <1>1, <1>2, NamesOfLast DEF NamesOf, doc
  <1>7. NamesOf(v) = Names(MembersOf(v))
    <2>1. MembersOf(v) = Last(doc).members
      BY DEF MembersOf, doc
    <2>2. NamesOf(v) = IF Last(doc).object THEN Names(Last(doc).members) ELSE << >>
      BY <1>6 DEF NamesOfMember
    <2> QED
      BY <1>2, <2>1, <2>2, Zenon
  <1>8. PICK M : M = MembersOf(v)
    OBVIOUS
  <1>9. M \in Seq(Member) /\ \A k \in DOMAIN M : M[k].name \in TrustDomains
    BY <1>5, <1>8, MemberParts
  <1>10. /\ Names(M) \in Seq(TrustDomains) /\ DOMAIN Names(M) = DOMAIN M
         /\ \A k \in DOMAIN M : Names(M)[k] = M[k].name
    BY <1>9 DEF Names
  <1> QED
    BY <1>5, <1>7, <1>8, <1>10

LEMMA VisitedParts ==
  ASSUME NEW v \in Invocations, v.cmd = "bundle-map", Loads(v.file), IsMap(v.file.map)
  PROVE  /\ VisitedOf(v) \in Seq(TrustDomains)
         /\ FirstSeen(VisitedOf(v), NamesOf(v), Len(NamesOf(v)))
  BY MapParts, DistinctIsFirstSeen DEF VisitedOf

\* The last of the members with one name.
LEMMA LastNamed ==
  ASSUME NEW M \in Seq(Member), NEW h \in DOMAIN M
  PROVE  \E k \in DOMAIN M : /\ M[k].name = M[h].name
                             /\ \A j \in DOMAIN M : M[j].name = M[h].name => j <= k
  <1> DEFINE N == {k \in DOMAIN M : M[k].name = M[h].name}
             T == {Len(M) - k : k \in N}
  <1>1. DOMAIN M = 1..Len(M) /\ Len(M) \in Nat
    OBVIOUS
  <1>2. T \subseteq Nat /\ T # {}
    BY <1>1
  <1>3. PICK x \in T : \A y \in T : x <= y
    BY <1>2, LeastNat, Zenon
  <1>4. PICK k \in N : x = Len(M) - k
    BY <1>3
  <1>5. \A j \in N : Len(M) - k <= Len(M) - j
    BY <1>3, <1>4
  <1>6. \A j \in N : j <= k
    BY <1>1, <1>5
  <1> QED
    BY <1>6

LEMMA DecodedParts ==
  ASSUME NEW M \in Seq(Member)
  PROVE  /\ DOMAIN Decoded(M) = {M[k].name : k \in DOMAIN M}
         /\ \A h \in DOMAIN M : \E k \in DOMAIN M : /\ M[k].name = M[h].name
                                                    /\ Decoded(M)[M[h].name] = M[k].entry
  <1> DEFINE lastOf(name, k) == /\ M[k].name = name
                                /\ \A j \in DOMAIN M : M[j].name = name => j <= k
             entry(name) == M[CHOOSE k \in DOMAIN M : lastOf(name, k)].entry
  <1>1. Decoded(M) = [name \in ToSet(Names(M)) |-> entry(name)]
    BY Zenon DEF Decoded
  <1>2. ToSet(Names(M)) = {M[k].name : k \in DOMAIN M}
    BY DEF ToSet, Names
  <1>3. ASSUME NEW h \in DOMAIN M
        PROVE  \E k \in DOMAIN M : M[k].name = M[h].name /\ entry(M[h].name) = M[k].entry
    <2>1. \E k \in DOMAIN M : lastOf(M[h].name, k)
      BY LastNamed, Zenon
    <2>2. PICK k : k = CHOOSE j \in DOMAIN M : lastOf(M[h].name, j)
      OBVIOUS
    <2>3. k \in DOMAIN M /\ lastOf(M[h].name, k)
      BY <2>1, <2>2, Zenon
    <2> QED
      BY <2>2, <2>3, Zenon
  <1> HIDE DEF entry
  <1>4. \A h \in DOMAIN M : Decoded(M)[M[h].name] = entry(M[h].name)
    BY <1>1, <1>2, Zenon
  <1>5. DOMAIN Decoded(M) = {M[k].name : k \in DOMAIN M}
    BY <1>1, <1>2, Zenon
  <1> QED
    BY <1>3, <1>4, <1>5, Zenon

\* Every member that is visited is in the document, and the other way round.
LEMMA EntriesAre ==
  ASSUME NEW v \in Invocations, v.cmd = "bundle-map", Loads(v.file), IsMap(v.file.map)
  PROVE  /\ \A m \in DOMAIN VisitedOf(v) : \E k \in DOMAIN MembersOf(v) :
               /\ NameAt(v, m) = MembersOf(v)[k].name
               /\ EntryAt(v, m) = MembersOf(v)[k].entry
         /\ \A k \in DOMAIN MembersOf(v) : \E m \in DOMAIN VisitedOf(v) :
               NameAt(v, m) = MembersOf(v)[k].name
         /\ \A m, p \in DOMAIN VisitedOf(v) : NameAt(v, m) = NameAt(v, p) => m = p
         /\ DOMAIN EntriesOf(v) = {NameAt(v, m) : m \in DOMAIN VisitedOf(v)}
         /\ \A m \in DOMAIN VisitedOf(v) :
               /\ NameAt(v, m) \in TrustDomains
               /\ EntryAt(v, m) \in Bundle \cup {None}
  <1>1. PICK M : M = MembersOf(v)
    OBVIOUS
  <1>2. PICK V : V = VisitedOf(v)
    OBVIOUS
  <1>3. /\ M \in Seq(Member) /\ DOMAIN NamesOf(v) = DOMAIN M
        /\ \A k \in DOMAIN M : NamesOf(v)[k] = M[k].name
        /\ DOMAIN NamesOf(v) = 1..Len(NamesOf(v))
    BY <1>1, MapParts
  <1>4. V \in Seq(TrustDomains) /\ FirstSeen(V, NamesOf(v), Len(NamesOf(v)))
    BY <1>2, VisitedParts
  <1>5. \A m \in DOMAIN V : NameAt(v, m) = V[m] /\ NameAt(v, m) \in TrustDomains
    BY <1>2, <1>4 DEF NameAt
  <1>6. \A m, p \in DOMAIN V : NameAt(v, m) = NameAt(v, p) => m = p
    BY <1>4, <1>5 DEF FirstSeen
  <1>7. ASSUME NEW m \in DOMAIN V
        PROVE  \E k \in DOMAIN M : NameAt(v, m) = M[k].name
    <2>1. PICK k \in 1..Len(NamesOf(v)) : V[m] = NamesOf(v)[k]
      BY <1>4 DEF FirstSeen
    <2>2. k \in DOMAIN M /\ NamesOf(v)[k] = M[k].name
      BY <1>3, <2>1
    <2> QED
      BY <1>5, <2>1, <2>2
  <1>8. \A k \in DOMAIN M : \E m \in DOMAIN V : NameAt(v, m) = M[k].name
    BY <1>3, <1>4, <1>5 DEF FirstSeen
  <1>9. EntriesOf(v) = Decoded(M)
    BY <1>1 DEF EntriesOf, MembersOf
  <1>10. DOMAIN EntriesOf(v) = {M[k].name : k \in DOMAIN M}
    BY <1>3, <1>9, DecodedParts, Zenon
  <1>11. DOMAIN EntriesOf(v) = {NameAt(v, m) : m \in DOMAIN V}
    BY <1>7, <1>8, <1>10
  <1>12. \A k \in DOMAIN M : M[k].entry \in Bundle \cup {None}
    <2>1. M \in Seq(Member)
      BY <1>3
    <2> QED
      BY <2>1, MemberParts
  <1>13. ASSUME NEW m \in DOMAIN V
         PROVE  /\ \E k \in DOMAIN M : NameAt(v, m) = M[k].name /\ EntryAt(v, m) = M[k].entry
                /\ EntryAt(v, m) \in Bundle \cup {None}
    <2>1. PICK h \in DOMAIN M : NameAt(v, m) = M[h].name
      BY <1>7
    <2>2. PICK k \in DOMAIN M : M[k].name = M[h].name /\ Decoded(M)[M[h].name] = M[k].entry
      BY <1>3, DecodedParts
    <2>3. EntryAt(v, m) = M[k].entry
      BY <2>1, <2>2, <1>9 DEF EntryAt
    <2> QED
      BY <2>1, <2>2, <2>3, <1>12
  <1> QED
    BY <1>1, <1>2, <1>5, <1>6, <1>8, <1>11, <1>13

\* The map as written is good if what is visited is and no name is repeated.
LEMMA GoodMapIs ==
  ASSUME NEW v \in Invocations, v.cmd = "bundle-map", Loads(v.file), IsMap(v.file.map)
  PROVE  GoodMap(v.file.map) <=>
           /\ IsInjective(NamesOf(v))
           /\ \A m \in DOMAIN VisitedOf(v) : GoodMember(v, m)
  <1>1. PICK M : M = MembersOf(v)
    OBVIOUS
  <1> DEFINE once == \A x, y \in DOMAIN M : M[x].name = M[y].name => x = y
             good == \A x \in DOMAIN M : /\ GoodTrustDomain(M[x].name)
                                         /\ M[x].entry # None /\ GoodBundle(M[x].entry)
  <1>2. GoodMap(v.file.map) <=> once /\ good
    BY <1>1, Zenon DEF GoodMap, MembersOf
  <1>3. IsInjective(NamesOf(v)) <=> once
    BY <1>1, MapParts DEF IsInjective
  <1>4. ASSUME once, NEW m \in DOMAIN VisitedOf(v), NEW k \in DOMAIN M,
               NameAt(v, m) = M[k].name
        PROVE  EntryAt(v, m) = M[k].entry
    <2>1. PICK j \in DOMAIN M : NameAt(v, m) = M[j].name /\ EntryAt(v, m) = M[j].entry
      BY <1>1, EntriesAre, Zenon
    <2>2. j = k
      BY <1>4, <2>1
    <2> QED
      BY <2>1, <2>2
  <1>5. ASSUME once, good, NEW m \in DOMAIN VisitedOf(v)
        PROVE  GoodMember(v, m)
    <2>1. PICK k \in DOMAIN M : NameAt(v, m) = M[k].name /\ EntryAt(v, m) = M[k].entry
      BY <1>1, EntriesAre
    <2> QED
      BY <1>5, <2>1, Zenon DEF GoodMember
  <1>6. ASSUME once, \A m \in DOMAIN VisitedOf(v) : GoodMember(v, m), NEW k \in DOMAIN M
        PROVE  /\ GoodTrustDomain(M[k].name)
               /\ M[k].entry # None /\ GoodBundle(M[k].entry)
    <2>1. PICK m \in DOMAIN VisitedOf(v) : NameAt(v, m) = M[k].name
      BY <1>1, EntriesAre
    <2>2. EntryAt(v, m) = M[k].entry
      BY <1>4, <1>6, <2>1
    <2>3. GoodMember(v, m)
      BY <1>6
    <2> QED
      BY <2>1, <2>2, <2>3, Zenon DEF GoodMember
  <1> HIDE DEF once
  <1> QED
    BY <1>2, <1>3, <1>5, <1>6

\* No two visited members have the same tag.
LEMMA TagsAre ==
  ASSUME NEW v \in Invocations, v.cmd = "bundle-map", Loads(v.file), IsMap(v.file.map)
  PROVE  /\ \A m \in DOMAIN VisitedOf(v) : TagAt(v, m) \in Tags
         /\ \A m, p \in DOMAIN VisitedOf(v) : TagAt(v, m) = TagAt(v, p) => m = p
  BY EntriesAre, NameTagAssumption DEF TagAt

---------------------------------------------------------------------------
(* The bundles of an artifact.                                             *)

EndpointTag == "endpoint bundle"

LEMMA BundlesOfFile ==
  ASSUME NEW v, v.cmd = "bundle"
  PROVE  /\ Loads(v.file) => BundlesOf(v) = {[tag |-> NoTag, b |-> v.file.bundle]}
         /\ ~Loads(v.file) => BundlesOf(v) = {}
  BY Zenon DEF BundlesOf, NoTag

LEMMA BundlesOfConfig ==
  ASSUME NEW v, v.cmd = "federation"
  PROVE  /\ Bootstraps(v.cfg) /\ Loads(v.cfg.bundle) =>
              BundlesOf(v) = {[tag |-> EndpointTag, b |-> v.cfg.bundle.bundle]}
         /\ ~(Bootstraps(v.cfg) /\ Loads(v.cfg.bundle)) => BundlesOf(v) = {}
  <1>1. "federation" # "bundle" /\ "federation" # "bundle-map"
    OBVIOUS
  <1> QED
    BY <1>1, Zenon DEF BundlesOf, EndpointTag

LEMMA BundlesOfMap ==
  ASSUME NEW v \in Invocations, v.cmd = "bundle-map"
  PROVE  /\ ~(Loads(v.file) /\ IsMap(v.file.map)) => BundlesOf(v) = {}
         /\ Loads(v.file) /\ IsMap(v.file.map) =>
              /\ \A x \in BundlesOf(v) : \E m \in DOMAIN VisitedOf(v) :
                    /\ x = [tag |-> TagAt(v, m), b |-> EntryAt(v, m)]
                    /\ EntryAt(v, m) # None
              /\ \A m \in DOMAIN VisitedOf(v) : EntryAt(v, m) # None =>
                    [tag |-> TagAt(v, m), b |-> EntryAt(v, m)] \in BundlesOf(v)
  <1>1. "federation" # "bundle-map" /\ "bundle" # "bundle-map"
    OBVIOUS
  <1>2. ~(Loads(v.file) /\ IsMap(v.file.map)) => BundlesOf(v) = {}
    BY <1>1, Zenon DEF BundlesOf
  <1>3. ASSUME Loads(v.file), IsMap(v.file.map)
        PROVE  BundlesOf(v) = { [tag |-> NameTag(name), b |-> EntriesOf(v)[name]] :
                                name \in {m \in DOMAIN EntriesOf(v) : EntriesOf(v)[m] # None} }
    BY <1>1, <1>3, Zenon DEF BundlesOf, EntriesOf
  <1>4. ASSUME Loads(v.file), IsMap(v.file.map)
        PROVE  DOMAIN EntriesOf(v) = {NameAt(v, m) : m \in DOMAIN VisitedOf(v)}
    BY <1>4, EntriesAre
  <1>5. ASSUME Loads(v.file), IsMap(v.file.map), NEW x \in BundlesOf(v)
        PROVE  \E m \in DOMAIN VisitedOf(v) :
                 /\ x = [tag |-> TagAt(v, m), b |-> EntryAt(v, m)]
                 /\ EntryAt(v, m) # None
    <2>1. PICK name \in DOMAIN EntriesOf(v) :
            EntriesOf(v)[name] # None /\ x = [tag |-> NameTag(name), b |-> EntriesOf(v)[name]]
      BY <1>5, <1>3, Zenon
    <2>2. PICK m \in DOMAIN VisitedOf(v) : name = NameAt(v, m)
      BY <1>5, <1>4, <2>1, Zenon
    <2> QED
      BY <2>1, <2>2, Zenon DEF TagAt, EntryAt
  <1>6. ASSUME Loads(v.file), IsMap(v.file.map), NEW m \in DOMAIN VisitedOf(v),
               EntryAt(v, m) # None
        PROVE  [tag |-> TagAt(v, m), b |-> EntryAt(v, m)] \in BundlesOf(v)
    <2>1. NameAt(v, m) \in DOMAIN EntriesOf(v) /\ EntriesOf(v)[NameAt(v, m)] # None
      BY <1>6, <1>4, Zenon DEF EntryAt
    <2> QED
      BY <1>6, <1>3, <2>1, Zenon DEF TagAt, EntryAt
  <1> QED
    BY <1>2, <1>5, <1>6

\* They are bundles, and a tag names one of them.
LEMMA BundlesAre ==
  ASSUME NEW v \in Invocations
  PROVE  /\ \A x \in BundlesOf(v) : x.b \in Bundle /\ x.tag \in Tags
         /\ \A x, y \in BundlesOf(v) : x.tag = y.tag => x = y
  <1>1. CASE v.cmd = "bundle"
    <2>1. Loads(v.file) => v.file.bundle \in Bundle
      BY <1>1, InvocationAssumption
    <2>2. ASSUME NEW x \in BundlesOf(v)
          PROVE  Loads(v.file) /\ x = [tag |-> NoTag, b |-> v.file.bundle]
      BY <1>1, <2>2, BundlesOfFile
    <2> QED
      BY <2>1, <2>2, NoTagIsATag
  <1>2. CASE v.cmd = "federation"
    <2>1. /\ Bootstraps(v.cfg) /\ Loads(v.cfg.bundle) => v.cfg.bundle.bundle \in Bundle
          /\ EndpointTag \in Tags
      BY <1>2, InvocationAssumption, EndpointTagAssumption
         DEF IsConfig, Bootstraps, Loads, EndpointTag
    <2>2. ASSUME NEW x \in BundlesOf(v)
          PROVE  /\ Bootstraps(v.cfg) /\ Loads(v.cfg.bundle)
                 /\ x = [tag |-> EndpointTag, b |-> v.cfg.bundle.bundle]
      BY <1>2, <2>2, BundlesOfConfig
    <2> QED
      BY <2>1, <2>2
  <1>3. CASE v.cmd = "bundle-map"
    <2>1. ASSUME NEW x \in BundlesOf(v)
          PROVE  /\ Loads(v.file) /\ IsMap(v.file.map)
                 /\ \E m \in DOMAIN VisitedOf(v) :
                      /\ x = [tag |-> TagAt(v, m), b |-> EntryAt(v, m)]
                      /\ EntryAt(v, m) # None
      BY <1>3, <2>1, BundlesOfMap
    <2>2. ASSUME NEW x \in BundlesOf(v)
          PROVE  x.b \in Bundle /\ x.tag \in Tags
      <3>1. PICK m \in DOMAIN VisitedOf(v) :
              /\ x = [tag |-> TagAt(v, m), b |-> EntryAt(v, m)]
              /\ EntryAt(v, m) # None
        BY <2>1
      <3>2. x.tag = TagAt(v, m) /\ x.b = EntryAt(v, m)
        BY <3>1
      <3>3. EntryAt(v, m) \in Bundle \cup {None}
        BY <1>3, <2>1, EntriesAre, Zenon
      <3>4. TagAt(v, m) \in Tags
        BY <1>3, <2>1, TagsAre, Zenon
      <3> QED
        BY <3>1, <3>2, <3>3, <3>4
    <2>3. ASSUME NEW x \in BundlesOf(v), NEW y \in BundlesOf(v), x.tag = y.tag
          PROVE  x = y
      <3>1. PICK m \in DOMAIN VisitedOf(v) : x = [tag |-> TagAt(v, m), b |-> EntryAt(v, m)]
        BY <2>1
      <3>2. PICK p \in DOMAIN VisitedOf(v) : y = [tag |-> TagAt(v, p), b |-> EntryAt(v, p)]
        BY <2>1
      <3>3. TagAt(v, m) = TagAt(v, p)
        BY <2>3, <3>1, <3>2
      <3>4. m = p
        BY <1>3, <2>1, <3>3, TagsAre
      <3> QED
        BY <3>1, <3>2, <3>4
    <2> QED
      BY <2>2, <2>3
  <1> QED
    BY <1>1, <1>2, <1>3, InvocationAssumption
---------------------------------------------------------------------------
(* bundle.check, piece by piece: what each writes, and when it fails.      *)

LEMMA BothWrite ==
  ASSUME NEW s, NEW u, NEW C, NEW D, NEW t,
         Writes(s, C, t), Writes(u, D, t), C \cap D = {}
  PROVE  /\ Writes(s \o u, C \cup D, t)
         /\ Failed(s \o u) <=> Failed(s) \/ Failed(u)
         /\ Topics(s) \subseteq Topics(s \o u)
  <1>1. s \in Seq(Assertion) /\ u \in Seq(Assertion)
    BY DEF Writes
  <1>2. Failed(s \o u) <=> Failed(s) \/ Failed(u)
    BY <1>1, FailedOfBoth
  <1>3. Topics(s \o u) = Topics(s) \cup Topics(u)
    BY <1>1, TopicsOfBoth
  <1>4. Writes(s \o u, C \cup D, t)
    BY WritesBoth
  <1> QED
    BY <1>2, <1>3, <1>4

LEMMA BundleClausesAre ==
  /\ HeadClauses \cup EntryClauses \cup {"BundleKIDUnique"} \subseteq Clause
  /\ {"BundleKeysPresent", "BundleKIDUnique", "BundleKeyKTYSet", "BundleKeyUseSet",
      "BundleX509NoKid", "BundleX509X5CPresent", "BundleJWTKidPresent",
      "BundleWITKidPresent"} \cap ShouldClauses = {}
  /\ {"BundleSequenceMonotonic", "BundleRefreshHintInteger", "BundleMapNoRefreshHint",
      "BundleKeyUseKnown", "BundleX509SelfSigned"} \subseteq ShouldClauses
  <1>1. HeadClauses \cup EntryClauses \cup {"BundleKIDUnique"}
          \subseteq BundleClauses \cup BundleMapClauses
    BY DEF HeadClauses, EntryClauses, BundleClauses, BundleMapClauses
  <1>2. BundleClauses \cup BundleMapClauses \subseteq Clause
    BY DEF Clause
  <1> QED
    BY <1>1, <1>2 DEF ShouldClauses

\* The lines of one clause.
LEMMA OneOf ==
  ASSUME NEW c \in Clause, NEW t \in Tags
  PROVE  /\ \A holds : Writes(Judge(c, holds, t), {c}, t)
         /\ Writes(Pass(c, t), {c}, t) /\ Writes(Fail(c, t), {c}, t)
         /\ c \notin ShouldClauses =>
              /\ \A holds : Failed(Judge(c, holds, t)) <=> ~holds
              /\ ~Failed(Pass(c, t)) /\ Failed(Fail(c, t))
         /\ c \in ShouldClauses =>
              /\ \A holds : ~Failed(Judge(c, holds, t))
              /\ ~Failed(Pass(c, t)) /\ ~Failed(Fail(c, t))
  <1>1. /\ \A holds : Writes(Judge(c, holds, t), {c}, t)
        /\ Writes(Pass(c, t), {c}, t) /\ Writes(Fail(c, t), {c}, t)
    BY WritesOne
  <1>2. ASSUME c \notin ShouldClauses
        PROVE  /\ \A holds : Failed(Judge(c, holds, t)) <=> ~holds
               /\ ~Failed(Pass(c, t)) /\ Failed(Fail(c, t))
    BY <1>2, JudgeFails, Zenon
  <1>3. ASSUME c \in ShouldClauses
        PROVE  /\ \A holds : ~Failed(Judge(c, holds, t))
               /\ ~Failed(Pass(c, t)) /\ ~Failed(Fail(c, t))
    <2>1. \A holds : ~Failed(Judge(c, holds, t))
      BY <1>3, ShouldNeverFails, Zenon
    <2>2. Judge(c, TRUE, t) = Pass(c, t) /\ Judge(c, FALSE, t) = Fail(c, t)
      BY DEF Judge
    <2> QED
      BY <2>1, <2>2, Zenon
  <1> QED
    BY <1>1, <1>2, <1>3, Zenon

\* With an array for "keys" the head of a bundle never fails.
LEMMA HeadTells ==
  ASSUME NEW t \in Tags, NEW b, b.shape = "array", NEW inMap
  PROVE  /\ Writes(CheckHead(t, b, inMap), HeadClauses, t)
         /\ ~Failed(CheckHead(t, b, inMap))
  <1> DEFINE j1 == Pass("BundleKeysPresent", t)
             j2 == Judge("BundleSequenceMonotonic", b.sequence = "good", t)
             j3 == CheckHint(t, b, inMap)
             C3 == {"BundleMapNoRefreshHint", "BundleRefreshHintInteger"}
  <1>1. /\ "BundleKeysPresent" \in Clause \ ShouldClauses
        /\ "BundleSequenceMonotonic" \in Clause \cap ShouldClauses
        /\ "BundleMapNoRefreshHint" \in Clause \cap ShouldClauses
        /\ "BundleRefreshHintInteger" \in Clause \cap ShouldClauses
    BY BundleClausesAre DEF HeadClauses
  <1>2. /\ Writes(j1, {"BundleKeysPresent"}, t) /\ ~Failed(j1)
        /\ Writes(j2, {"BundleSequenceMonotonic"}, t) /\ ~Failed(j2)
    BY <1>1, OneOf, Zenon
  <1>3. Writes(j3, C3, t) /\ ~Failed(j3)
    <2>1. /\ Writes(Judge("BundleMapNoRefreshHint", b.hint = "absent", t),
                    {"BundleMapNoRefreshHint"}, t)
          /\ ~Failed(Judge("BundleMapNoRefreshHint", b.hint = "absent", t))
          /\ Writes(Judge("BundleRefreshHintInteger", b.hint = "good", t),
                    {"BundleRefreshHintInteger"}, t)
          /\ ~Failed(Judge("BundleRefreshHintInteger", b.hint = "good", t))
      BY <1>1, OneOf, Zenon
    <2>2. {"BundleMapNoRefreshHint"} \subseteq C3 /\ {"BundleRefreshHintInteger"} \subseteq C3
      OBVIOUS
    <2> HIDE DEF C3
    <2>3. /\ Writes(Judge("BundleMapNoRefreshHint", b.hint = "absent", t), C3, t)
          /\ Writes(Judge("BundleRefreshHintInteger", b.hint = "good", t), C3, t)
      BY <2>1, <2>2, WritesMore
    <2> QED
      BY <2>1, <2>3, Zenon DEF CheckHint
  <1>4. CheckKeysPresent(t, b) = j1 \o << >>
    BY DEF CheckKeysPresent
  <1>5. j1 \o << >> = j1
    <2>1. j1 \in Seq(Assertion)
      BY <1>2 DEF Writes
    <2> HIDE DEF j1
    <2> QED
      BY <2>1
  <1>6. CheckHead(t, b, inMap) = j1 \o (j2 \o j3)
    BY <1>4, <1>5 DEF CheckHead
  <1>7. /\ {"BundleSequenceMonotonic"} \cap C3 = {}
        /\ {"BundleKeysPresent"} \cap ({"BundleSequenceMonotonic"} \cup C3) = {}
        /\ {"BundleKeysPresent"} \cup ({"BundleSequenceMonotonic"} \cup C3) \subseteq HeadClauses
    BY DEF HeadClauses
  <1> HIDE DEF j1, j2, j3, C3
  <1>8. Writes(j2 \o j3, {"BundleSequenceMonotonic"} \cup C3, t) /\ ~Failed(j2 \o j3)
    BY <1>2, <1>3, <1>7, BothWrite
  <1>9. /\ Writes(j1 \o (j2 \o j3),
                  {"BundleKeysPresent"} \cup ({"BundleSequenceMonotonic"} \cup C3), t)
        /\ ~Failed(j1 \o (j2 \o j3))
    BY <1>2, <1>7, <1>8, BothWrite
  <1>10. Writes(j1 \o (j2 \o j3), HeadClauses, t)
    BY <1>7, <1>9, WritesMore
  <1> QED
    BY <1>6, <1>9, <1>10

\* Without, it is about "keys" alone and has failed: one line, or two, the
\* failure last.
LEMMA NoHeadTells ==
  ASSUME NEW t \in Tags, NEW b, b.shape # "array", NEW inMap
  PROVE  /\ CheckHead(t, b, inMap) \in Seq(Assertion)
         /\ Topics(CheckHead(t, b, inMap)) \subseteq On(HeadClauses, t)
         /\ OnceEach(CheckHead(t, b, inMap))
         /\ Failed(CheckHead(t, b, inMap))
  <1>1. PICK p : p = Verdict("BundleKeysPresent", TRUE, t)
    OBVIOUS
  <1>2. PICK f : f = Verdict("BundleKeysPresent", FALSE, t)
    OBVIOUS
  <1>3. "BundleKeysPresent" \in Clause /\ "BundleKeysPresent" \notin ShouldClauses
        /\ "BundleKeysPresent" \in HeadClauses
    BY BundleClausesAre DEF HeadClauses
  <1>4. p \in Assertion /\ f \in Assertion
    BY <1>1, <1>2, <1>3, VerdictType
  <1>5. /\ p.status = "pass" /\ p.clause = "BundleKeysPresent" /\ p.about = t
        /\ f.status = "fail" /\ f.clause = "BundleKeysPresent" /\ f.about = t
    <2>1. p = [status |-> "pass", clause |-> "BundleKeysPresent", about |-> t]
      BY <1>1 DEF Verdict
    <2>2. f = [status |-> "fail", clause |-> "BundleKeysPresent", about |-> t]
      BY <1>2, <1>3 DEF Verdict, Severity
    <2> QED
      BY <2>1, <2>2
  <1>6. CheckKeysPresent(t, b) = (IF b.shape = "absent" THEN << >> ELSE <<p>>) \o <<f>>
    BY <1>1, <1>2, PassIsVerdict, Zenon DEF CheckKeysPresent
  <1>7. CheckHead(t, b, inMap) = CheckKeysPresent(t, b) \o << >>
    BY DEF CheckHead
  <1>8. PICK o, q : o = <<f>> /\ q = <<p>>
    OBVIOUS
  <1>9. /\ o \in Seq(Assertion) /\ DOMAIN o = {1} /\ o[1] = f /\ Len(o) = 1
        /\ q \in Seq(Assertion) /\ DOMAIN q = {1} /\ q[1] = p /\ Len(q) = 1
    BY <1>4, <1>8
  <1>10. \E r : /\ CheckHead(t, b, inMap) = r /\ r \in Seq(Assertion)
                /\ \/ DOMAIN r = {1} /\ r[1] = f
                   \/ DOMAIN r = {1, 2} /\ r[1] = p /\ r[2] = f
    <2>1. CASE b.shape = "absent"
      <3>1. CheckKeysPresent(t, b) = << >> \o o
        BY <1>6, <1>8, <2>1
      <3>2. << >> \o o = o /\ o \o << >> = o
        BY <1>9
      <3> QED
        BY <1>7, <1>9, <3>1, <3>2
    <2>2. CASE b.shape # "absent"
      <3>1. CheckKeysPresent(t, b) = q \o o
        BY <1>6, <1>8, <2>2
      <3>2. PICK r : r = q \o o
        OBVIOUS
      <3>3. r \in Seq(Assertion) /\ DOMAIN r = {1, 2} /\ r[1] = p /\ r[2] = f
        <4>1. /\ q \o o \in Seq(Assertion)
              /\ DOMAIN (q \o o) = 1..(Len(q) + Len(o))
              /\ \A k \in DOMAIN q : (q \o o)[k] = q[k]
              /\ \A k \in DOMAIN o : (q \o o)[Len(q) + k] = o[k]
          BY <1>9, LinesOfBoth
        <4>2. DOMAIN r = 1..2 /\ r[1] = q[1] /\ r[1 + 1] = o[1]
          BY <1>9, <3>2, <4>1
        <4> QED
          BY <1>9, <3>2, <4>1, <4>2
      <3>4. r \o << >> = r
        BY <3>3
      <3> QED
        BY <1>7, <3>1, <3>2, <3>3, <3>4
    <2> QED
      BY <2>1, <2>2
  <1>11. TopicOf(p) \in On(HeadClauses, t) /\ TopicOf(f) \in On(HeadClauses, t)
    BY <1>3, <1>5 DEF TopicOf, On
  <1>12. ASSUME NEW r \in Seq(Assertion), DOMAIN r = {1}, r[1] = f
         PROVE  /\ r \in Seq(Assertion) /\ Topics(r) \subseteq On(HeadClauses, t)
                /\ OnceEach(r) /\ Failed(r)
    <2>1. Topics(r) \subseteq On(HeadClauses, t)
      BY <1>11, <1>12 DEF Topics
    <2>2. OnceEach(r) /\ Failed(r)
      BY <1>5, <1>12 DEF OnceEach, Failed
    <2> QED
      BY <2>1, <2>2
  <1>13. ASSUME NEW r \in Seq(Assertion), DOMAIN r = {1, 2}, r[1] = p, r[2] = f
         PROVE  /\ r \in Seq(Assertion) /\ Topics(r) \subseteq On(HeadClauses, t)
                /\ OnceEach(r) /\ Failed(r)
    <2>1. Topics(r) \subseteq On(HeadClauses, t)
      BY <1>11, <1>13 DEF Topics
    <2>2. OnceEach(r) /\ Failed(r)
      BY <1>5, <1>13 DEF OnceEach, Failed
    <2> QED
      BY <2>1, <2>2
  <1> QED
    BY <1>10, <1>12, <1>13

X509Clauses == {"BundleX509NoKid", "BundleX509X5CPresent", "BundleX509SelfSigned"}

LEMMA X509Tells ==
  ASSUME NEW t \in Tags, NEW jwk
  PROVE  /\ Writes(CheckX509Entry(t, jwk), X509Clauses, t)
         /\ Failed(CheckX509Entry(t, jwk)) <=> ~(jwk.kid = "absent" /\ jwk.x5c # "bad")
  <1> DEFINE j1 == Judge("BundleX509NoKid", jwk.kid = "absent", t)
             j2 == Fail("BundleX509X5CPresent", t)
             j3 == Pass("BundleX509X5CPresent", t)
             j4 == Judge("BundleX509SelfSigned", jwk.x5c = "selfSigned", t)
  <1>1. /\ "BundleX509NoKid" \in Clause \ ShouldClauses
        /\ "BundleX509X5CPresent" \in Clause \ ShouldClauses
        /\ "BundleX509SelfSigned" \in Clause \cap ShouldClauses
    BY BundleClausesAre DEF EntryClauses
  <1>2. /\ Writes(j1, {"BundleX509NoKid"}, t) /\ (Failed(j1) <=> ~(jwk.kid = "absent"))
        /\ Writes(j2, {"BundleX509X5CPresent"}, t) /\ Failed(j2)
        /\ Writes(j3, {"BundleX509X5CPresent"}, t) /\ ~Failed(j3)
        /\ Writes(j4, {"BundleX509SelfSigned"}, t) /\ ~Failed(j4)
    BY <1>1, OneOf, Zenon
  <1>3. CheckX509Entry(t, jwk) = j1 \o (IF jwk.x5c = "bad" THEN j2 ELSE j3 \o j4)
    BY DEF CheckX509Entry
  <1>4. /\ {"BundleX509X5CPresent"} \cap {"BundleX509SelfSigned"} = {}
        /\ {"BundleX509NoKid"} \cap {"BundleX509X5CPresent"} = {}
        /\ {"BundleX509NoKid"} \cap ({"BundleX509X5CPresent"} \cup {"BundleX509SelfSigned"}) = {}
        /\ {"BundleX509NoKid"} \cup {"BundleX509X5CPresent"} \subseteq X509Clauses
        /\ {"BundleX509NoKid"} \cup ({"BundleX509X5CPresent"} \cup {"BundleX509SelfSigned"})
             \subseteq X509Clauses
    BY DEF X509Clauses
  <1> DEFINE C34 == {"BundleX509X5CPresent"} \cup {"BundleX509SelfSigned"}
  <1> HIDE DEF j1, j2, j3, j4
  <1>5. /\ Writes(j3 \o j4, {"BundleX509X5CPresent"} \cup {"BundleX509SelfSigned"}, t)
        /\ ~Failed(j3 \o j4)
    BY <1>2, <1>4, BothWrite
  <1>6. /\ Writes(j1 \o (j3 \o j4), {"BundleX509NoKid"} \cup
                    ({"BundleX509X5CPresent"} \cup {"BundleX509SelfSigned"}), t)
        /\ Failed(j1 \o (j3 \o j4)) <=> ~(jwk.kid = "absent")
    <2>1. Writes(j3 \o j4, C34, t) /\ Writes(j1, {"BundleX509NoKid"}, t)
          /\ {"BundleX509NoKid"} \cap C34 = {}
      BY <1>2, <1>4, <1>5
    <2> HIDE DEF C34
    <2>2. /\ Writes(j1 \o (j3 \o j4), {"BundleX509NoKid"} \cup C34, t)
          /\ Failed(j1 \o (j3 \o j4)) <=> Failed(j1) \/ Failed(j3 \o j4)
      BY <2>1, BothWrite
    <2> QED
      BY <2>2, <1>2, <1>5, Zenon DEF C34
  <1>7. /\ Writes(j1 \o j2, {"BundleX509NoKid"} \cup {"BundleX509X5CPresent"}, t)
        /\ Failed(j1 \o j2)
    BY <1>2, <1>4, BothWrite
  <1>8. Writes(j1 \o (j3 \o j4), X509Clauses, t) /\ Writes(j1 \o j2, X509Clauses, t)
    BY <1>4, <1>6, <1>7, WritesMore
  <1> QED
    BY <1>3, <1>6, <1>7, <1>8, Zenon

LEMMA TokenUses ==
  /\ DOMAIN KidClause = {"jwt-svid", "wit-svid"}
  /\ \A use \in DOMAIN KidClause :
       KidClause[use] \in {"BundleJWTKidPresent", "BundleWITKidPresent"}
  BY DEF KidClause

\* What CheckJWK writes after the first two lines.
UseLines(t, jwk) ==
    CASE jwk.use = "unset" -> << >>
      [] jwk.use = "unknown" -> Fail("BundleKeyUseKnown", t)
      [] jwk.use = "x509-svid" -> Pass("BundleKeyUseKnown", t) \o CheckX509Entry(t, jwk)
      [] jwk.use \in DOMAIN KidClause ->
           Pass("BundleKeyUseKnown", t)
           \o Judge(KidClause[jwk.use], jwk.kid \in Kids, t)

UseClauses ==
    {"BundleKeyUseKnown", "BundleJWTKidPresent", "BundleWITKidPresent"} \cup X509Clauses

GoodUse(jwk) ==
    /\ jwk.use = "x509-svid" => jwk.kid = "absent" /\ jwk.x5c # "bad"
    /\ jwk.use \in {"jwt-svid", "wit-svid"} => jwk.kid \in Kids

LEMMA UseTells ==
  ASSUME NEW t \in Tags, NEW jwk \in Jwk
  PROVE  /\ Writes(UseLines(t, jwk), UseClauses, t)
         /\ Failed(UseLines(t, jwk)) <=> ~GoodUse(jwk)
  <1> DEFINE known == Pass("BundleKeyUseKnown", t)
             unknown == Fail("BundleKeyUseKnown", t)
             x == CheckX509Entry(t, jwk)
             kid == Judge(KidClause[jwk.use], jwk.kid \in Kids, t)
             K == {"BundleKeyUseKnown"}
  <1>1. /\ "BundleKeyUseKnown" \in Clause \cap ShouldClauses
        /\ "BundleJWTKidPresent" \in Clause \ ShouldClauses
        /\ "BundleWITKidPresent" \in Clause \ ShouldClauses
    BY BundleClausesAre DEF EntryClauses
  <1>2. /\ Writes(known, K, t) /\ ~Failed(known)
        /\ Writes(unknown, K, t) /\ ~Failed(unknown)
    BY <1>1, OneOf, Zenon
  <1>3. /\ Writes(x, X509Clauses, t)
        /\ Failed(x) <=> ~(jwk.kid = "absent" /\ jwk.x5c # "bad")
    BY X509Tells, Zenon
  <1>4. K \subseteq UseClauses
    BY DEF UseClauses
  <1>5. jwk.use \in {"x509-svid", "jwt-svid", "wit-svid", "unknown", "unset"}
    BY DEF Jwk
  <1>6. CASE jwk.use = "unset"
    <2>1. UseLines(t, jwk) = << >>
      <3>1. jwk.use # "unknown" /\ jwk.use # "x509-svid" /\ jwk.use \notin DOMAIN KidClause
        BY <1>6, TokenUses
      <3> QED
        BY <1>6, <3>1, Zenon DEF UseLines
    <2>2. GoodUse(jwk)
      BY <1>6 DEF GoodUse
    <2> QED
      BY <2>1, <2>2, NoLine, WritesNone
  <1>7. CASE jwk.use = "unknown"
    <2>1. UseLines(t, jwk) = unknown
      <3>1. jwk.use # "unset" /\ jwk.use # "x509-svid" /\ jwk.use \notin DOMAIN KidClause
        BY <1>7, TokenUses
      <3> QED
        BY <1>7, <3>1, Zenon DEF UseLines
    <2>2. GoodUse(jwk)
      BY <1>7 DEF GoodUse
    <2> HIDE DEF unknown, K
    <2> QED
      BY <2>1, <2>2, <1>2, <1>4, WritesMore
  <1>8. CASE jwk.use = "x509-svid"
    <2>1. UseLines(t, jwk) = known \o x
      <3>1. jwk.use # "unset" /\ jwk.use # "unknown" /\ jwk.use \notin DOMAIN KidClause
        BY <1>8, TokenUses
      <3> QED
        BY <1>8, <3>1, Zenon DEF UseLines
    <2>2. GoodUse(jwk) <=> (jwk.kid = "absent" /\ jwk.x5c # "bad")
      BY <1>8 DEF GoodUse
    <2>3. K \cap X509Clauses = {} /\ K \cup X509Clauses \subseteq UseClauses
      BY DEF X509Clauses, UseClauses
    <2> HIDE DEF known, x, K
    <2>4. /\ Writes(known \o x, K \cup X509Clauses, t)
          /\ Failed(known \o x) <=> Failed(known) \/ Failed(x)
      BY <1>2, <1>3, <2>3, BothWrite
    <2>5. Writes(known \o x, UseClauses, t)
      BY <2>3, <2>4, WritesMore
    <2> QED
      BY <2>1, <2>2, <2>4, <2>5, <1>2, <1>3, Zenon
  <1>9. CASE jwk.use \in {"jwt-svid", "wit-svid"}
    <2>1. jwk.use \in DOMAIN KidClause
      BY <1>9, TokenUses
    <2>2. UseLines(t, jwk) = known \o kid
      <3>1. jwk.use # "unset" /\ jwk.use # "unknown" /\ jwk.use # "x509-svid"
        BY <1>9
      <3> QED
        BY <2>1, <3>1, Zenon DEF UseLines
    <2>3. GoodUse(jwk) <=> jwk.kid \in Kids
      BY <1>9 DEF GoodUse
    <2>4. PICK c : c = KidClause[jwk.use]
      OBVIOUS
    <2>5. c \in {"BundleJWTKidPresent", "BundleWITKidPresent"}
      BY <2>1, <2>4, TokenUses
    <2>6. c \in Clause /\ c \notin ShouldClauses
      BY <1>1, <2>5
    <2>7. Writes(kid, {c}, t) /\ (Failed(kid) <=> ~(jwk.kid \in Kids))
      BY <2>4, <2>6, OneOf, Zenon
    <2>8. K \cap {c} = {} /\ K \cup {c} \subseteq UseClauses
      BY <2>5 DEF UseClauses
    <2> HIDE DEF known, kid, K
    <2>9. /\ Writes(known \o kid, K \cup {c}, t)
          /\ Failed(known \o kid) <=> Failed(known) \/ Failed(kid)
      BY <1>2, <2>7, <2>8, BothWrite
    <2>10. Writes(known \o kid, UseClauses, t)
      BY <2>8, <2>9, WritesMore
    <2> QED
      BY <2>2, <2>3, <2>7, <2>9, <2>10, <1>2, Zenon
  <1> QED
    BY <1>5, <1>6, <1>7, <1>8, <1>9

\* One turn of the loop: the entry gets its kty line, and fails if anything
\* that binds it does not hold.
LEMMA EntryTells ==
  ASSUME NEW t \in Tags, NEW jwk \in Jwk \cup {None}
  PROVE  /\ Writes(CheckEntry(t, jwk), EntryClauses, t)
         /\ Failed(CheckEntry(t, jwk)) <=> ~GoodEntry(jwk)
         /\ Topic("BundleKeyKTYSet", t) \in Topics(CheckEntry(t, jwk))
  <1> DEFINE none == Fail("BundleKeyKTYSet", t)
             j1 == Judge("BundleKeyKTYSet", jwk.kty = "set", t)
             j2 == Judge("BundleKeyUseSet", jwk.use # "unset", t)
             j3 == UseLines(t, jwk)
             K1 == {"BundleKeyKTYSet"}
             K2 == {"BundleKeyUseSet"}
  <1>1. /\ "BundleKeyKTYSet" \in Clause \ ShouldClauses
        /\ "BundleKeyUseSet" \in Clause \ ShouldClauses
    BY BundleClausesAre DEF EntryClauses
  <1>2. /\ Writes(none, K1, t) /\ Failed(none)
        /\ Writes(j1, K1, t) /\ (Failed(j1) <=> ~(jwk.kty = "set"))
        /\ Writes(j2, K2, t) /\ (Failed(j2) <=> ~(jwk.use # "unset"))
    BY <1>1, OneOf, Zenon
  <1>3. Topic("BundleKeyKTYSet", t) \in Topics(none) /\ Topic("BundleKeyKTYSet", t) \in Topics(j1)
    BY TopicOfOne
  <1>4. /\ K1 \cap K2 = {} /\ (K1 \cup K2) \cap UseClauses = {}
        /\ K1 \cup K2 \cup UseClauses \subseteq EntryClauses /\ K1 \subseteq EntryClauses
    BY DEF UseClauses, X509Clauses, EntryClauses
  <1>5. CASE jwk = None
    <2>1. CheckEntry(t, jwk) = none
      BY <1>5 DEF CheckEntry
    <2>2. ~GoodEntry(jwk)
      BY <1>5 DEF GoodEntry
    <2> HIDE DEF none, K1
    <2>3. Writes(none, EntryClauses, t)
      BY <1>2, <1>4, WritesMore
    <2> QED
      BY <2>1, <2>2, <2>3, <1>2, <1>3
  <1>6. CASE jwk # None
    <2>1. jwk \in Jwk
      BY <1>6
    <2>2. CheckEntry(t, jwk) = j1 \o j2 \o j3
      BY <1>6, Zenon DEF CheckEntry, CheckJWK, UseLines
    <2>3. GoodEntry(jwk) <=> jwk.kty = "set" /\ jwk.use # "unset" /\ GoodUse(jwk)
      BY <1>6, Zenon DEF GoodEntry, GoodUse
    <2>4. Writes(j3, UseClauses, t) /\ (Failed(j3) <=> ~GoodUse(jwk))
      BY <2>1, UseTells
    <2> HIDE DEF j1, j2, j3, K1, K2
    <2>5. /\ Writes(j1 \o j2, K1 \cup K2, t)
          /\ Failed(j1 \o j2) <=> Failed(j1) \/ Failed(j2)
          /\ Topics(j1) \subseteq Topics(j1 \o j2)
      BY <1>2, <1>4, BothWrite
    <2>6. /\ Writes(j1 \o j2 \o j3, K1 \cup K2 \cup UseClauses, t)
          /\ Failed(j1 \o j2 \o j3) <=> Failed(j1 \o j2) \/ Failed(j3)
          /\ Topics(j1 \o j2) \subseteq Topics(j1 \o j2 \o j3)
      BY <2>4, <2>5, <1>4, BothWrite
    <2>7. Writes(j1 \o j2 \o j3, EntryClauses, t)
      BY <2>6, <1>4, WritesMore
    <2>8. Failed(j1 \o j2 \o j3) <=> ~GoodEntry(jwk)
      BY <2>3, <2>4, <2>5, <2>6, <1>2, Zenon
    <2>9. Topic("BundleKeyKTYSet", t) \in Topics(j1 \o j2 \o j3)
      BY <1>3, <2>5, <2>6
    <2> QED
      BY <2>2, <2>7, <2>8, <2>9
  <1> QED
    BY <1>5, <1>6

---------------------------------------------------------------------------
(* The kids that are collected.                                            *)

LEMMA KidOfKeyed ==
  ASSUME NEW b \in Bundle, NEW k \in DOMAIN b.keys
  PROVE  /\ k \in Keyed(b) => KidOf(b.keys[k]) = <<b.keys[k].kid>> /\ b.keys[k].kid \in Kids
         /\ k \notin Keyed(b) => KidOf(b.keys[k]) = << >>
  <1>1. k \in Keyed(b) <=> /\ b.keys[k] # None
                           /\ b.keys[k].use \in {"jwt-svid", "wit-svid"}
                           /\ b.keys[k].kid \in Kids
    BY DEF Keyed
  <1>2. DOMAIN KidClause = {"jwt-svid", "wit-svid"}
    BY TokenUses
  <1> QED
    BY <1>1, <1>2, Zenon DEF KidOf

LEMMA KidsAreStep ==
  ASSUME NEW b \in Bundle, NEW k \in DOMAIN b.keys, NEW ks \in Seq(Kids), KidsAre(ks, b, k)
  PROVE  /\ ks \o KidOf(b.keys[k]) \in Seq(Kids)
         /\ KidsAre(ks \o KidOf(b.keys[k]), b, k + 1)
  <1>1. b.keys \in Seq(Jwk \cup {None})
    BY DEF Bundle
  <1>2. DOMAIN b.keys \subseteq Int /\ k \in Int
    BY <1>1
  <1>3. Keyed(b) \subseteq Int
    BY <1>2 DEF Keyed
  <1>4. PICK f \in [DOMAIN ks -> {e \in Keyed(b) : e < k}] :
          /\ \A x, y \in DOMAIN ks : f[x] = f[y] => x = y
          /\ \A e \in Keyed(b) : e < k => \E x \in DOMAIN ks : f[x] = e
          /\ \A x \in DOMAIN ks : ks[x] = b.keys[f[x]].kid
    BY DEF KidsAre
  <1>5. \A x \in DOMAIN ks : f[x] \in Keyed(b) /\ f[x] < k
    BY <1>4
  <1>6. CASE k \notin Keyed(b)
    <2>1. ks \o KidOf(b.keys[k]) = ks
      <3>1. KidOf(b.keys[k]) = << >>
        BY <1>6, KidOfKeyed
      <3>2. ks \o << >> = ks
        OBVIOUS
      <3> QED
        BY <3>1, <3>2
    <2>2. \A e \in Keyed(b) : e < k + 1 <=> e < k
      BY <1>2, <1>3, <1>6
    <2>3. f \in [DOMAIN ks -> {e \in Keyed(b) : e < k + 1}]
      BY <1>4, <2>2
    <2>4. KidsAre(ks, b, k + 1)
      BY <1>4, <2>2, <2>3 DEF KidsAre
    <2> QED
      BY <2>1, <2>4
  <1>7. CASE k \in Keyed(b)
    <2> DEFINE kid == b.keys[k].kid
               all == Append(ks, kid)
               g == [x \in 1..(Len(ks) + 1) |-> IF x = Len(ks) + 1 THEN k ELSE f[x]]
    <2>1. kid \in Kids
      BY <1>7, KidOfKeyed
    <2>2. ks \o KidOf(b.keys[k]) = all
      <3>1. KidOf(b.keys[k]) = <<kid>>
        BY <1>7, KidOfKeyed
      <3>2. ks \o <<kid>> = all
        BY <2>1
      <3> QED
        BY <3>1, <3>2
    <2>3. /\ all \in Seq(Kids) /\ DOMAIN all = 1..(Len(ks) + 1)
          /\ DOMAIN ks = 1..Len(ks) /\ Len(ks) \in Nat
          /\ all[Len(ks) + 1] = kid
          /\ \A x \in DOMAIN ks : all[x] = ks[x]
      BY <2>1
    <2>4. \A x \in DOMAIN all : x \in DOMAIN ks \/ x = Len(ks) + 1
      BY <2>3
    <2>5. /\ DOMAIN g = DOMAIN all
          /\ g[Len(ks) + 1] = k
          /\ \A x \in DOMAIN ks : g[x] = f[x]
      BY <2>3
    <2> HIDE DEF all, g
    <2>6. \A x \in DOMAIN all : g[x] \in Keyed(b) /\ g[x] < k + 1
      BY <1>2, <1>3, <1>5, <1>7, <2>4, <2>5
    <2>7. g \in [DOMAIN all -> {e \in Keyed(b) : e < k + 1}]
      BY <2>3, <2>6 DEF g
    <2>8. \A x, y \in DOMAIN all : g[x] = g[y] => x = y
      BY <1>2, <1>4, <1>5, <2>4, <2>5
    <2>9. ASSUME NEW e \in Keyed(b), e < k + 1
          PROVE  \E x \in DOMAIN all : g[x] = e
      <3>1. CASE e = k
        <4>1. Len(ks) + 1 \in DOMAIN all
          BY <2>3
        <4> QED
          BY <3>1, <4>1, <2>5
      <3>2. CASE e # k
        <4>1. e < k
          BY <1>2, <1>3, <2>9, <3>2
        <4>2. PICK x \in DOMAIN ks : f[x] = e
          BY <1>4, <4>1
        <4>3. x \in DOMAIN all
          BY <2>3
        <4> QED
          BY <4>2, <4>3, <2>5
      <3> QED
        BY <3>1, <3>2
    <2>10. \A x \in DOMAIN all : all[x] = b.keys[g[x]].kid
      BY <1>4, <2>3, <2>4, <2>5
    <2>11. KidsAre(all, b, k + 1)
      BY <2>7, <2>8, <2>9, <2>10 DEF KidsAre
    <2> QED
      BY <2>2, <2>3, <2>11
  <1> QED
    BY <1>6, <1>7

LEMMA NoKidsYet ==
  ASSUME NEW b \in Bundle
  PROVE  KidsAre(<< >>, b, 1)
  <1>1. b.keys \in Seq(Jwk \cup {None})
    BY DEF Bundle
  <1>2. \A e \in DOMAIN b.keys : ~(e < 1)
    BY <1>1
  <1>3. \A e \in Keyed(b) : ~(e < 1)
    BY <1>2 DEF Keyed
  <1>4. << >> \in [DOMAIN << >> -> {e \in Keyed(b) : e < 1}] /\ DOMAIN << >> = {}
    OBVIOUS
  <1> QED
    BY <1>3, <1>4 DEF KidsAre

\* At the end of the loop they decide on duplicates.
LEMMA KidsDecide ==
  ASSUME NEW b \in Bundle, NEW ks \in Seq(Kids), KidsAre(ks, b, Len(b.keys) + 1)
  PROVE  /\ ks = << >> <=> Keyed(b) = {}
         /\ IsInjective(ks) <=> ~KidsClash(b)
  <1>1. b.keys \in Seq(Jwk \cup {None})
    BY DEF Bundle
  <1>2. \A e \in DOMAIN b.keys : e < Len(b.keys) + 1
    BY <1>1
  <1>3. \A e \in Keyed(b) : e < Len(b.keys) + 1
    BY <1>2 DEF Keyed
  <1>4. PICK f \in [DOMAIN ks -> {e \in Keyed(b) : e < Len(b.keys) + 1}] :
          /\ \A x, y \in DOMAIN ks : f[x] = f[y] => x = y
          /\ \A e \in Keyed(b) : e < Len(b.keys) + 1 => \E x \in DOMAIN ks : f[x] = e
          /\ \A x \in DOMAIN ks : ks[x] = b.keys[f[x]].kid
    BY DEF KidsAre
  <1>5. \A x \in DOMAIN ks : f[x] \in Keyed(b)
    BY <1>4
  <1>6. \A e \in Keyed(b) : \E x \in DOMAIN ks : f[x] = e
    BY <1>3, <1>4
  <1>7. ks = << >> <=> Keyed(b) = {}
    <2>1. ks = << >> <=> DOMAIN ks = {}
      OBVIOUS
    <2> QED
      BY <2>1, <1>5, <1>6
  <1>8. ASSUME KidsClash(b)
        PROVE  ~IsInjective(ks)
    <2>1. PICK e, h \in Keyed(b) : e # h /\ b.keys[e].kid = b.keys[h].kid
      BY <1>8 DEF KidsClash
    <2>2. PICK x \in DOMAIN ks : f[x] = e
      BY <1>6
    <2>3. PICK y \in DOMAIN ks : f[y] = h
      BY <1>6
    <2>4. x # y /\ ks[x] = ks[y]
      BY <1>4, <2>1, <2>2, <2>3
    <2> QED
      BY <2>4 DEF IsInjective
  <1>9. ASSUME ~IsInjective(ks)
        PROVE  KidsClash(b)
    <2>1. PICK x, y \in DOMAIN ks : ks[x] = ks[y] /\ x # y
      BY <1>9 DEF IsInjective
    <2>2. f[x] # f[y] /\ b.keys[f[x]].kid = b.keys[f[y]].kid
      BY <1>4, <2>1
    <2> QED
      BY <1>5, <2>2 DEF KidsClash
  <1> QED
    BY <1>7, <1>8, <1>9

LEMMA KidsTell ==
  ASSUME NEW t \in Tags, NEW b \in Bundle, NEW ks \in Seq(Kids), KidsAre(ks, b, Len(b.keys) + 1)
  PROVE  /\ Writes(CheckKIDUniqueness(t, ks), {"BundleKIDUnique"}, t)
         /\ Failed(CheckKIDUniqueness(t, ks)) <=> KidsClash(b)
         /\ Keyed(b) # {} => Topic("BundleKIDUnique", t) \in Topics(CheckKIDUniqueness(t, ks))
         /\ \A k \in DOMAIN CheckKIDUniqueness(t, ks) :
              LET line == CheckKIDUniqueness(t, ks)[k]
              IN  Keyed(b) # {} /\ (line.status = "fail" <=> KidsClash(b))
  <1> DEFINE j == Judge("BundleKIDUnique", IsInjective(ks), t)
  <1>1. "BundleKIDUnique" \in Clause \ ShouldClauses
    BY BundleClausesAre
  <1>2. Writes(j, {"BundleKIDUnique"}, t) /\ (Failed(j) <=> ~IsInjective(ks))
    BY <1>1, OneOf, Zenon
  <1>3. /\ ks = << >> <=> Keyed(b) = {}
        /\ IsInjective(ks) <=> ~KidsClash(b)
    BY KidsDecide
  <1>4. Topic("BundleKIDUnique", t) \in Topics(j)
    BY TopicOfOne, Zenon
  <1>5. CASE ks = << >>
    <2>1. CheckKIDUniqueness(t, ks) = << >>
      BY <1>5, Zenon DEF CheckKIDUniqueness
    <2>2. ~KidsClash(b)
      BY <1>3, <1>5 DEF KidsClash
    <2>3. DOMAIN << >> = {}
      OBVIOUS
    <2> QED
      BY <2>1, <2>2, <2>3, <1>3, <1>5, NoLine, WritesNone, Zenon
  <1>6. CASE ks # << >>
    <2>1. CheckKIDUniqueness(t, ks) = j
      BY <1>6, Zenon DEF CheckKIDUniqueness
    <2>2. PICK a : a = Verdict("BundleKIDUnique", IsInjective(ks), t)
      OBVIOUS
    <2>3. j = <<a>>
      BY <2>2, JudgeIsVerdict, Zenon
    <2>4. a.status = "fail" <=> ~IsInjective(ks)
      <3>1. Failed(<<a>>) <=> a.status = "fail"
        BY OneLine
      <3> QED
        BY <3>1, <2>3, <1>2, Zenon
    <2>5. \A k \in DOMAIN j : j[k] = a
      BY <2>3
    <2> HIDE DEF j
    <2>6. \A k \in DOMAIN j : Keyed(b) # {} /\ (j[k].status = "fail" <=> KidsClash(b))
      BY <2>4, <2>5, <1>3, <1>6
    <2> QED
      BY <2>1, <2>6, <1>2, <1>3, <1>4, Zenon
  <1> QED
    BY <1>5, <1>6

---------------------------------------------------------------------------
(* Reports whose lines are about different things, but for "keys".         *)

Within(r, X) == r \in Seq(Assertion) /\ OnceEach(r) /\ Topics(r) \subseteq X

LEMMA WritesWithin ==
  ASSUME NEW r, NEW C, NEW t, Writes(r, C, t)
  PROVE  Within(r, On(C, t))
  <1>1. r \in Seq(Assertion) /\ NoneTwice(r) /\ Topics(r) \subseteq On(C, t)
    BY DEF Writes
  <1>2. DOMAIN r \subseteq Int
    BY <1>1
  <1>3. \A k, l \in DOMAIN r : TopicOf(r[k]) = TopicOf(r[l]) => ~(k < l)
    BY <1>1, <1>2 DEF NoneTwice
  <1> QED
    BY <1>1, <1>3 DEF Within, OnceEach

LEMMA WithinMore ==
  ASSUME NEW r, NEW X, NEW Y, Within(r, X), X \subseteq Y
  PROVE  Within(r, Y)
  BY DEF Within

LEMMA BothWithin ==
  ASSUME NEW s, NEW u, NEW X, NEW Y, Within(s, X), Within(u, Y), X \cap Y = {}
  PROVE  /\ Within(s \o u, X \cup Y)
         /\ Failed(s \o u) <=> Failed(s) \/ Failed(u)
         /\ Topics(s \o u) = Topics(s) \cup Topics(u)
  <1>1. /\ s \in Seq(Assertion) /\ u \in Seq(Assertion)
        /\ OnceEach(s) /\ OnceEach(u)
        /\ Topics(s) \subseteq X /\ Topics(u) \subseteq Y
    BY DEF Within
  <1>2. Failed(s \o u) <=> Failed(s) \/ Failed(u)
    BY <1>1, FailedOfBoth
  <1>3. Topics(s \o u) = Topics(s) \cup Topics(u)
    BY <1>1, TopicsOfBoth
  <1>4. s \o u \in Seq(Assertion)
    BY <1>1, EitherFails
  <1>5. ASSUME NEW k \in DOMAIN (s \o u)
        PROVE  \/ k \in DOMAIN s /\ (s \o u)[k] = s[k] /\ TopicOf(s[k]) \in X
               \/ /\ k - Len(s) \in DOMAIN u /\ (s \o u)[k] = u[k - Len(s)]
                  /\ TopicOf(u[k - Len(s)]) \in Y
    BY <1>1, LinesOfBoth DEF Topics
  <1>6. ASSUME NEW k \in DOMAIN (s \o u), NEW l \in DOMAIN (s \o u), k < l,
               TopicOf((s \o u)[k]) = TopicOf((s \o u)[l])
        PROVE  /\ (s \o u)[k].clause = "BundleKeysPresent"
               /\ (s \o u)[k].status = "pass" /\ (s \o u)[l].status = "fail"
    <2>1. k \in Int /\ l \in Int /\ Len(s) \in Int
      BY <1>1, LinesOfBoth
    <2>2. CASE k \in DOMAIN s /\ (s \o u)[k] = s[k] /\ l \in DOMAIN s /\ (s \o u)[l] = s[l]
      <3>1. TopicOf(s[k]) = TopicOf(s[l])
        BY <1>6, <2>2
      <3>2. /\ s[k].clause = "BundleKeysPresent"
            /\ s[k].status = "pass" /\ s[l].status = "fail"
        BY <1>1, <1>6, <2>2, <3>1 DEF OnceEach
      <3> QED
        BY <2>2, <3>2
    <2>3. CASE /\ k - Len(s) \in DOMAIN u /\ (s \o u)[k] = u[k - Len(s)]
               /\ l - Len(s) \in DOMAIN u /\ (s \o u)[l] = u[l - Len(s)]
      <3>1. PICK x, y : x = k - Len(s) /\ y = l - Len(s)
        OBVIOUS
      <3>2. x \in DOMAIN u /\ y \in DOMAIN u /\ x < y /\ TopicOf(u[x]) = TopicOf(u[y])
        BY <1>6, <2>1, <2>3, <3>1
      <3>3. /\ u[x].clause = "BundleKeysPresent"
            /\ u[x].status = "pass" /\ u[y].status = "fail"
        BY <1>1, <3>2 DEF OnceEach
      <3> QED
        BY <2>3, <3>1, <3>3
    <2>4. ASSUME NEW x \in X, NEW y \in Y
          PROVE  x # y
      OBVIOUS
    <2> QED
      BY <1>5, <1>6, <2>2, <2>3, <2>4
  <1>7. OnceEach(s \o u)
    BY <1>6 DEF OnceEach
  <1> QED
    BY <1>1, <1>2, <1>3, <1>4, <1>7 DEF Within

LEMMA NothingWithin ==
  ASSUME NEW X
  PROVE  Within(<< >>, X)
  <1>1. DOMAIN << >> = {} /\ << >> \in Seq(Assertion)
    OBVIOUS
  <1> QED
    BY <1>1, NoLine DEF Within, OnceEach

---------------------------------------------------------------------------
(* federation.Check and bundlemap.Check, piece by piece.                   *)

RequiredClauses == {"FedURLPresent", "FedProfilePresent", "FedTrustDomainPresent"}

UrlClauses == {"FedURLSchemeHTTPS", "FedURLNoUserinfo"}

SpiffeParams == {"FedSpiffeEndpointID", "FedSpiffeSelfServingBundle"}

LEMMA FedClausesAre ==
  /\ FederationClauses \subseteq Clause
  /\ {"FedURLPresent", "FedProfilePresent", "FedTrustDomainPresent", "FedProfileKnown",
      "FedURLSchemeHTTPS", "FedURLNoUserinfo", "FedSpiffeEndpointID"}
       \subseteq FederationClauses \ ShouldClauses
  /\ {"FedWebNoExtraParams", "FedSpiffeSelfServingBundle"}
       \subseteq FederationClauses \cap ShouldClauses
  /\ FederationClauses \cap SpiffeIdClauses = {}
  <1>1. FederationClauses \subseteq Clause
    BY DEF Clause
  <1>2. {"FedURLPresent", "FedProfilePresent", "FedTrustDomainPresent", "FedProfileKnown",
         "FedURLSchemeHTTPS", "FedURLNoUserinfo", "FedSpiffeEndpointID"}
           \subseteq FederationClauses \ ShouldClauses
    BY DEF FederationClauses, ShouldClauses
  <1>3. {"FedWebNoExtraParams", "FedSpiffeSelfServingBundle"}
           \subseteq FederationClauses \cap ShouldClauses
    BY DEF FederationClauses, ShouldClauses
  <1>4. FederationClauses \cap SpiffeIdClauses = {}
    BY DEF FederationClauses, SpiffeIdClauses
  <1> QED
    BY <1>1, <1>2, <1>3, <1>4

LEMMA RequiredTells ==
  ASSUME NEW cfg
  PROVE  /\ Within(CheckRequired(cfg), FedTopics("profile"))
         /\ Failed(CheckRequired(cfg)) <=> FedSpoiled(cfg, "profile")
  <1> DEFINE j1 == Judge("FedURLPresent", cfg.url # None, "")
             j2 == Judge("FedProfilePresent", cfg.profile # "", "")
             j3 == Judge("FedTrustDomainPresent", cfg.trustDomain # "", "")
             j4 == IF cfg.trustDomain = "" THEN << >>
                   ELSE CheckTrustDomain("trust_domain", cfg.trustDomain)
             C1 == {"FedURLPresent"}
             C2 == {"FedProfilePresent"}
             C3 == {"FedTrustDomainPresent"}
             R == On(RequiredClauses, NoTag)
             N == On(TrustDomainRules, "trust_domain")
  <1>1. /\ "FedURLPresent" \in Clause \ ShouldClauses
        /\ "FedProfilePresent" \in Clause \ ShouldClauses
        /\ "FedTrustDomainPresent" \in Clause \ ShouldClauses
    BY FedClausesAre
  <1>2. "" \in Tags /\ "trust_domain" \in Tags
    BY TagAssumption, EndpointTagAssumption
  <1>3. /\ Writes(j1, C1, "") /\ (Failed(j1) <=> ~(cfg.url # None))
        /\ Writes(j2, C2, "") /\ (Failed(j2) <=> ~(cfg.profile # ""))
        /\ Writes(j3, C3, "") /\ (Failed(j3) <=> ~(cfg.trustDomain # ""))
    BY <1>1, <1>2, OneOf, Zenon
  <1>4. Within(j4, N) /\ (Failed(j4) <=> cfg.trustDomain # "" /\ ~GoodTrustDomain(cfg.trustDomain))
    <2>1. CASE cfg.trustDomain = ""
      <3>1. j4 = << >>
        BY <2>1
      <3> QED
        BY <2>1, <3>1, NoLine, NothingWithin, Zenon
    <2>2. CASE cfg.trustDomain # ""
      <3>1. j4 = CheckTrustDomain("trust_domain", cfg.trustDomain)
        BY <2>2
      <3>2. Writes(CheckTrustDomain("trust_domain", cfg.trustDomain), TrustDomainRules,
                   "trust_domain")
        BY <1>2, TrustDomainLines, Zenon
      <3>3. Failed(CheckTrustDomain("trust_domain", cfg.trustDomain))
              <=> ~GoodTrustDomain(cfg.trustDomain)
        BY <1>2, TrustDomainFails, Zenon
      <3> QED
        BY <2>2, <3>1, <3>2, <3>3, WritesWithin, Zenon
    <2> QED
      BY <2>1, <2>2
  <1>5. /\ C1 \cap C2 = {} /\ (C1 \cup C2) \cap C3 = {}
        /\ C1 \cup C2 \cup C3 \subseteq RequiredClauses
    BY DEF RequiredClauses
  <1>6. R \cap N = {}
    <2>1. RequiredClauses \cap TrustDomainRules = {}
      BY DEF RequiredClauses, TrustDomainRules
    <2> QED
      BY <2>1, OnDisjoint
  <1>7. R \cup N = FedTopics("profile")
    <2>1. FedClauses("profile") = RequiredClauses
      BY DEF FedClauses, RequiredClauses
    <2> QED
      BY <2>1 DEF FedTopics
  <1>8. CheckRequired(cfg) = j1 \o j2 \o j3 \o j4
    BY DEF CheckRequired
  <1>9. FedSpoiled(cfg, "profile") <=>
          cfg.url = None \/ cfg.profile = "" \/ ~GoodTrustDomain(cfg.trustDomain)
    BY DEF FedSpoiled
  <1>10. cfg.trustDomain = "" => ~GoodTrustDomain(cfg.trustDomain)
    BY DEF GoodTrustDomain
  <1> HIDE DEF j1, j2, j3, j4, C1, C2, C3, N
  <1>11. Writes(j1 \o j2, C1 \cup C2, "") /\ (Failed(j1 \o j2) <=> Failed(j1) \/ Failed(j2))
    BY <1>3, <1>5, BothWrite
  <1>12. /\ Writes(j1 \o j2 \o j3, C1 \cup C2 \cup C3, "")
         /\ Failed(j1 \o j2 \o j3) <=> Failed(j1 \o j2) \/ Failed(j3)
    BY <1>3, <1>5, <1>11, BothWrite
  <1>13. Within(j1 \o j2 \o j3, R)
    <2>1. Writes(j1 \o j2 \o j3, RequiredClauses, "")
      BY <1>5, <1>12, WritesMore
    <2> QED
      BY <2>1, WritesWithin, Zenon DEF NoTag
  <1> HIDE DEF R
  <1>14. /\ Within(j1 \o j2 \o j3 \o j4, R \cup N)
         /\ Failed(j1 \o j2 \o j3 \o j4) <=> Failed(j1 \o j2 \o j3) \/ Failed(j4)
    BY <1>4, <1>6, <1>13, BothWithin
  <1>15. Failed(j1 \o j2 \o j3 \o j4) <=>
           cfg.url = None \/ cfg.profile = "" \/ ~GoodTrustDomain(cfg.trustDomain)
    BY <1>3, <1>4, <1>10, <1>11, <1>12, <1>14, Zenon
  <1> QED
    BY <1>7, <1>8, <1>9, <1>14, <1>15, Zenon

LEMMA ProfileTells ==
  ASSUME NEW cfg
  PROVE  /\ Writes(CheckProfile(cfg), {"FedProfileKnown"}, NoTag)
         /\ Failed(CheckProfile(cfg)) <=> cfg.profile = "other"
  <1> DEFINE j == Judge("FedProfileKnown", cfg.profile # "other", "")
  <1>1. "FedProfileKnown" \in Clause \ ShouldClauses
    BY FedClausesAre
  <1>2. "" \in Tags
    BY TagAssumption
  <1>3. Writes(j, {"FedProfileKnown"}, "") /\ (Failed(j) <=> ~(cfg.profile # "other"))
    BY <1>1, <1>2, OneOf, Zenon
  <1>4. CASE cfg.profile = ""
    <2>1. CheckProfile(cfg) = << >> /\ cfg.profile # "other"
      BY <1>4 DEF CheckProfile
    <2> QED
      BY <2>1, NoLine, WritesNone, Zenon
  <1>5. CASE cfg.profile # ""
    <2>1. CheckProfile(cfg) = j
      BY <1>5, Zenon DEF CheckProfile
    <2> QED
      BY <1>3, <2>1, Zenon DEF NoTag
  <1> QED
    BY <1>4, <1>5

LEMMA URLTells ==
  ASSUME NEW cfg
  PROVE  /\ Writes(CheckURL(cfg), UrlClauses, NoTag)
         /\ Failed(CheckURL(cfg)) <=> cfg.url # None /\ ~GoodUrl(cfg.url)
  <1> DEFINE f == Fail("FedURLSchemeHTTPS", "")
             j1 == Judge("FedURLSchemeHTTPS", cfg.url.https, "")
             j2 == Judge("FedURLNoUserinfo", ~cfg.url.user, "")
             C1 == {"FedURLSchemeHTTPS"}
             C2 == {"FedURLNoUserinfo"}
  <1>1. /\ "FedURLSchemeHTTPS" \in Clause \ ShouldClauses
        /\ "FedURLNoUserinfo" \in Clause \ ShouldClauses
    BY FedClausesAre
  <1>2. "" \in Tags
    BY TagAssumption
  <1>3. /\ Writes(f, C1, "") /\ Failed(f)
        /\ Writes(j1, C1, "") /\ (Failed(j1) <=> ~cfg.url.https)
        /\ Writes(j2, C2, "") /\ (Failed(j2) <=> ~(~cfg.url.user))
    BY <1>1, <1>2, OneOf, Zenon
  <1>4. C1 \cap C2 = {} /\ C1 \cup C2 \subseteq UrlClauses /\ C1 \subseteq UrlClauses
    BY DEF UrlClauses
  <1>5. CASE cfg.url = None
    <2>1. CheckURL(cfg) = << >>
      BY <1>5, Zenon DEF CheckURL
    <2> QED
      BY <1>5, <2>1, NoLine, WritesNone, Zenon
  <1>6. CASE cfg.url # None /\ ~cfg.url.parses
    <2>1. CheckURL(cfg) = f
      BY <1>6, Zenon DEF CheckURL
    <2>2. ~GoodUrl(cfg.url)
      BY <1>6, Zenon DEF GoodUrl
    <2> HIDE DEF f, C1
    <2>3. Writes(f, UrlClauses, "")
      BY <1>3, <1>4, WritesMore
    <2> QED
      BY <1>3, <1>6, <2>1, <2>2, <2>3, Zenon DEF NoTag
  <1>7. CASE cfg.url # None /\ cfg.url.parses
    <2>1. CheckURL(cfg) = j1 \o j2
      BY <1>7, Zenon DEF CheckURL
    <2>2. GoodUrl(cfg.url) <=> cfg.url.https /\ ~cfg.url.user
      BY <1>7, Zenon DEF GoodUrl
    <2> HIDE DEF j1, j2, C1, C2
    <2>3. Writes(j1 \o j2, C1 \cup C2, "") /\ (Failed(j1 \o j2) <=> Failed(j1) \/ Failed(j2))
      BY <1>3, <1>4, BothWrite
    <2>4. Writes(j1 \o j2, UrlClauses, "")
      BY <2>3, <1>4, WritesMore
    <2> QED
      BY <1>3, <1>7, <2>1, <2>2, <2>3, <2>4, Zenon DEF NoTag
  <1> QED
    BY <1>5, <1>6, <1>7

LEMMA WebTells ==
  ASSUME NEW cfg
  PROVE  /\ Writes(CheckWebParams(cfg), {"FedWebNoExtraParams"}, NoTag)
         /\ ~Failed(CheckWebParams(cfg))
  <1>1. "FedWebNoExtraParams" \in Clause \cap ShouldClauses
    BY FedClausesAre
  <1>2. "" \in Tags
    BY TagAssumption
  <1> QED
    BY <1>1, <1>2, OneOf, Zenon DEF CheckWebParams, NoTag

\* The sweep over the endpoint's SPIFFE ID fails if a MUST does not hold of it.
LEMMA IdTells ==
  ASSUME NEW x \in IdText
  PROVE  /\ Within(IdCheck(x), On(SpiffeIdClauses, NoTag))
         /\ Failed(IdCheck(x)) <=> \E c \in SpiffeIdClauses \ ShouldClauses : ~IdTruth(x)[c]
  <1>1. PICK T : T = IdTrue(x)
    OBVIOUS
  <1>2. IdTold(x, T)
    BY <1>1, IdTrueIsTold
  <1>4. Judges(IdCheck(x), IdJudged(x), T)
    BY <1>2, IdCheckJudges
  <1>5. IdJudged(x) \subseteq SpiffeIdClauses
    BY DEF IdJudged, NameRules, PathRules, SpiffeIdClauses
  <1>6. Writes(IdCheck(x), SpiffeIdClauses, NoTag)
    <2>1. IdCheck(x) \in Seq(Assertion) /\ NoneTwice(IdCheck(x))
      BY <1>4 DEF Judges
    <2>2. \A y \in Topics(IdCheck(x)) : \E c \in IdJudged(x) : y = Topic(c, NoTag)
      BY <1>4, JudgesTopics
    <2> QED
      BY <2>1, <2>2, <1>5 DEF Writes, On
  <1>7. Failed(IdCheck(x)) <=> \E c \in IdJudged(x) \ ShouldClauses : c \notin T
    BY <1>4, JudgesFailed
  <1>8. ASSUME NEW c \in IdJudged(x) \ ShouldClauses, c \notin T
        PROVE  \E d \in SpiffeIdClauses \ ShouldClauses : ~IdTruth(x)[d]
    BY <1>2, <1>5, <1>8, IdFailsForAReason
  <1>9. ASSUME \A c \in IdJudged(x) \ ShouldClauses : c \in T,
               NEW d \in SpiffeIdClauses \ ShouldClauses
        PROVE  IdTruth(x)[d]
    <2>1. IdJudged(x) = SpiffeIdClauses
      BY <1>2, <1>9, IdLeavesOutForAReason
    <2>2. d \in T
      BY <1>9, <2>1
    <2> QED
      BY <1>2, <2>2, IdToldIsTrue
  <1>10. Failed(IdCheck(x)) <=> \E c \in SpiffeIdClauses \ ShouldClauses : ~IdTruth(x)[c]
    BY <1>7, <1>8, <1>9
  <1> QED
    BY <1>6, <1>10, WritesWithin, Zenon

LEMMA SPIFFETells ==
  ASSUME NEW cfg, IsConfig(cfg), cfg.profile = "https_spiffe"
  PROVE  /\ Within(CheckSPIFFEParams(cfg), On(SpiffeParams \cup SpiffeIdClauses, NoTag))
         /\ Failed(CheckSPIFFEParams(cfg)) <=> ~GoodEndpoint(cfg)
  <1> DEFINE f == Fail("FedSpiffeEndpointID", "")
             j1 == Pass("FedSpiffeEndpointID", "")
             j2 == IdCheck(cfg.endpointId)
             j3 == IF SelfServing(cfg)
                   THEN Judge("FedSpiffeSelfServingBundle", cfg.bundle # None, "")
                   ELSE << >>
             E == On({"FedSpiffeEndpointID"}, NoTag)
             B == On({"FedSpiffeSelfServingBundle"}, NoTag)
             I == On(SpiffeIdClauses, NoTag)
             X == On(SpiffeParams \cup SpiffeIdClauses, NoTag)
  <1>1. /\ "FedSpiffeEndpointID" \in Clause \ ShouldClauses
        /\ "FedSpiffeSelfServingBundle" \in Clause \cap ShouldClauses
        /\ "FedSpiffeEndpointID" \in FederationClauses
        /\ "FedSpiffeSelfServingBundle" \in FederationClauses
    BY FedClausesAre
  <1>2. "" \in Tags
    BY TagAssumption
  <1>3. Within(f, E) /\ Failed(f) /\ Within(j1, E) /\ ~Failed(j1)
    BY <1>1, <1>2, OneOf, WritesWithin, Zenon DEF NoTag
  <1>4. Within(j3, B) /\ ~Failed(j3)
    <2>1. /\ Within(Judge("FedSpiffeSelfServingBundle", cfg.bundle # None, ""), B)
          /\ ~Failed(Judge("FedSpiffeSelfServingBundle", cfg.bundle # None, ""))
      BY <1>1, <1>2, OneOf, WritesWithin, Zenon DEF NoTag
    <2> QED
      BY <2>1, NothingWithin, NoLine, Zenon
  <1>5. /\ E \cap I = {} /\ B \cap I = {} /\ E \cap B = {}
    <2>1. /\ {"FedSpiffeEndpointID"} \cap SpiffeIdClauses = {}
          /\ {"FedSpiffeSelfServingBundle"} \cap SpiffeIdClauses = {}
      BY <1>1, FedClausesAre
    <2>2. {"FedSpiffeEndpointID"} \cap {"FedSpiffeSelfServingBundle"} = {}
      OBVIOUS
    <2> QED
      BY <2>1, <2>2, OnDisjoint
  <1>6. E \cup I \cup B \subseteq X /\ E \subseteq X
    BY DEF On, SpiffeParams
  <1>7. CASE cfg.endpointId = None
    <2>1. CheckSPIFFEParams(cfg) = f
      BY <1>7 DEF CheckSPIFFEParams
    <2>2. ~GoodEndpoint(cfg)
      BY <1>7 DEF GoodEndpoint
    <2> HIDE DEF f, E, X
    <2> QED
      BY <1>3, <1>6, <2>1, <2>2, WithinMore DEF X
  <1>8. CASE cfg.endpointId # None
    <2>1. CheckSPIFFEParams(cfg) = j1 \o j2 \o j3
      BY <1>8 DEF CheckSPIFFEParams
    <2>2. cfg.endpointId \in IdText
      BY <1>8 DEF IsConfig
    <2>3. /\ Within(j2, I)
          /\ Failed(j2) <=> \E c \in SpiffeIdClauses \ ShouldClauses : ~IdTruth(cfg.endpointId)[c]
      BY <2>2, IdTells, Zenon
    <2>4. GoodEndpoint(cfg) <=>
            \A c \in SpiffeIdClauses \ ShouldClauses : IdTruth(cfg.endpointId)[c]
      BY <1>8, Zenon DEF GoodEndpoint
    <2>5. Failed(j2) <=> ~GoodEndpoint(cfg)
      BY <2>3, <2>4, Zenon
    <2> HIDE DEF j1, j2, j3, E, B, I, X
    <2>6. Within(j1 \o j2, E \cup I) /\ (Failed(j1 \o j2) <=> Failed(j1) \/ Failed(j2))
      BY <1>3, <1>5, <2>3, BothWithin
    <2>7. (E \cup I) \cap B = {}
      BY <1>5
    <2>8. /\ Within(j1 \o j2 \o j3, E \cup I \cup B)
          /\ Failed(j1 \o j2 \o j3) <=> Failed(j1 \o j2) \/ Failed(j3)
      BY <1>4, <2>6, <2>7, BothWithin
    <2>9. Within(j1 \o j2 \o j3, X)
      BY <1>6, <2>8, WithinMore
    <2> QED
      BY <1>3, <1>4, <2>1, <2>5, <2>6, <2>8, <2>9, Zenon DEF X
  <1> QED
    BY <1>7, <1>8

\* What comes next is about something new.
LEMMA FedTopicsGrow ==
  /\ FedTopics("profile") \cap On({"FedProfileKnown"}, NoTag) = {}
  /\ FedTopics("profile") \cup On({"FedProfileKnown"}, NoTag) \subseteq FedTopics("url")
  /\ FedTopics("url") \cap On(UrlClauses, NoTag) = {}
  /\ FedTopics("url") \cup On(UrlClauses, NoTag) \subseteq FedTopics("params")
  /\ FedTopics("params")
       \cap On({"FedWebNoExtraParams"} \cup SpiffeParams \cup SpiffeIdClauses, NoTag) = {}
  /\ FedTopics("params")
       \cup On({"FedWebNoExtraParams"} \cup SpiffeParams \cup SpiffeIdClauses, NoTag)
       \subseteq FedTopics("bootstrap")
  <1> DEFINE N == On(TrustDomainRules, "trust_domain")
             C1 == FedClauses("profile")
             C2 == FedClauses("url")
             C3 == FedClauses("params")
             C4 == FedClauses("bootstrap")
             D == {"FedWebNoExtraParams"} \cup SpiffeParams \cup SpiffeIdClauses
  <1>1. /\ FedTopics("profile") = On(C1, NoTag) \cup N
        /\ FedTopics("url") = On(C2, NoTag) \cup N
        /\ FedTopics("params") = On(C3, NoTag) \cup N
        /\ FedTopics("bootstrap") = On(C4, NoTag) \cup N
    BY DEF FedTopics
  <1>2. /\ C1 = {"FedURLPresent", "FedProfilePresent", "FedTrustDomainPresent"}
        /\ C2 = {"FedURLPresent", "FedProfilePresent", "FedTrustDomainPresent",
                 "FedProfileKnown"}
        /\ C3 = {"FedURLPresent", "FedProfilePresent", "FedTrustDomainPresent",
                 "FedProfileKnown", "FedURLSchemeHTTPS", "FedURLNoUserinfo"}
        /\ C4 = FederationClauses \cup SpiffeIdClauses
    BY DEF FedClauses
  <1>3. C3 \cap SpiffeIdClauses = {}
    BY <1>2, FedClausesAre
  <1>4. /\ C1 \cap {"FedProfileKnown"} = {} /\ C1 \cup {"FedProfileKnown"} \subseteq C2
        /\ C2 \cap UrlClauses = {} /\ C2 \cup UrlClauses \subseteq C3
    BY <1>2 DEF UrlClauses
  <1>5. C3 \cap D = {}
    BY <1>2, <1>3 DEF SpiffeParams
  <1>6. C3 \cup D \subseteq C4
    BY <1>2, FedClausesAre DEF SpiffeParams
  <1>7. \A C : N \cap On(C, NoTag) = {}
    <2>1. "trust_domain" # NoTag
      BY DEF NoTag
    <2> QED
      BY <2>1, OnDisjoint
  <1> HIDE DEF C1, C2, C3, C4, D, N
  <1>8. /\ On(C1, NoTag) \cap On({"FedProfileKnown"}, NoTag) = {}
        /\ On(C2, NoTag) \cap On(UrlClauses, NoTag) = {}
        /\ On(C3, NoTag) \cap On(D, NoTag) = {}
    BY <1>4, <1>5, OnDisjoint
  <1>9. /\ On(C1, NoTag) \cup On({"FedProfileKnown"}, NoTag) \subseteq On(C2, NoTag)
        /\ On(C2, NoTag) \cup On(UrlClauses, NoTag) \subseteq On(C3, NoTag)
        /\ On(C3, NoTag) \cup On(D, NoTag) \subseteq On(C4, NoTag)
    BY <1>4, <1>6 DEF On
  <1>10. /\ FedTopics("params") \cap On(D, NoTag) = {}
         /\ FedTopics("params") \cup On(D, NoTag) \subseteq FedTopics("bootstrap")
    BY <1>1, <1>7, <1>8, <1>9
  <1>11. /\ FedTopics("url") \cap On(UrlClauses, NoTag) = {}
         /\ FedTopics("url") \cup On(UrlClauses, NoTag) \subseteq FedTopics("params")
    BY <1>1, <1>7, <1>8, <1>9
  <1>12. /\ FedTopics("profile") \cap On({"FedProfileKnown"}, NoTag) = {}
         /\ FedTopics("profile") \cup On({"FedProfileKnown"}, NoTag) \subseteq FedTopics("url")
    BY <1>1, <1>7, <1>8, <1>9
  <1> QED
    BY <1>10, <1>11, <1>12 DEF D

LEMMA FedSpoils ==
  ASSUME NEW cfg
  PROVE  /\ FedSpoiled(cfg, "url") <=> FedSpoiled(cfg, "profile") \/ cfg.profile = "other"
         /\ FedSpoiled(cfg, "params") <=>
              FedSpoiled(cfg, "url") \/ (cfg.url # None /\ ~GoodUrl(cfg.url))
         /\ FedSpoiled(cfg, "bootstrap") <=> FedSpoiled(cfg, "params") \/ ~GoodEndpoint(cfg)
  <1> DEFINE base == cfg.url = None \/ cfg.profile = "" \/ ~GoodTrustDomain(cfg.trustDomain)
  <1>1. FedSpoiled(cfg, "profile") <=> base
    BY DEF FedSpoiled
  <1>2. FedSpoiled(cfg, "url") <=> base \/ cfg.profile = "other"
    BY DEF FedSpoiled
  <1>3. FedSpoiled(cfg, "params") <=> base \/ cfg.profile = "other" \/ ~GoodUrl(cfg.url)
    BY DEF FedSpoiled
  <1>4. FedSpoiled(cfg, "bootstrap") <=>
          base \/ cfg.profile = "other" \/ ~GoodUrl(cfg.url) \/ ~GoodEndpoint(cfg)
    BY DEF FedSpoiled
  <1> QED
    BY <1>1, <1>2, <1>3, <1>4, Zenon

\* Together with the bootstrap bundle they amount to the verdict.
LEMMA FedVerdict ==
  ASSUME NEW cfg, IsConfig(cfg)
  PROVE  /\ ~Bootstraps(cfg) => (FedSpoiled(cfg, "bootstrap") <=> ~GoodConfig(cfg))
         /\ Bootstraps(cfg) =>
              (FedSpoiled(cfg, "bootstrap") \/ ~GoodBundle(cfg.bundle.bundle)
                 <=> ~GoodConfig(cfg))
  <1> DEFINE spiffe == cfg.profile = "https_spiffe"
             known == cfg.profile \in {"https_web", "https_spiffe"}
             id == /\ cfg.endpointId # None
                   /\ \A c \in SpiffeIdClauses \ ShouldClauses : IdTruth(cfg.endpointId)[c]
             given == cfg.bundle # None
             good == GoodBundle(cfg.bundle.bundle)
             url == GoodUrl(cfg.url)
             td == GoodTrustDomain(cfg.trustDomain)
  <1>1. known <=> cfg.profile # "" /\ cfg.profile # "other"
    BY DEF IsConfig, Profile
  <1>2. GoodConfig(cfg) <=> url /\ known /\ td /\ (spiffe => id /\ (given => good))
    BY Zenon DEF GoodConfig, GoodUrl
  <1>3. FedSpoiled(cfg, "bootstrap") <=>
          \/ cfg.url = None \/ cfg.profile = "" \/ ~td
          \/ cfg.profile = "other" \/ ~url \/ ~(spiffe => id)
    BY DEF FedSpoiled, GoodEndpoint
  <1>4. Bootstraps(cfg) <=> spiffe /\ given
    BY DEF Bootstraps
  <1>5. url => cfg.url # None
    BY DEF GoodUrl
  <1> HIDE DEF spiffe, known, id, given, good, url, td
  <1> QED
    BY <1>1, <1>2, <1>3, <1>4, <1>5, Zenon DEF good

---------------------------------------------------------------------------

LEMMA MapClausesAre ==
  /\ {"BundleMapTrustDomainsPresent", "BundleMapTrustDomainsUnique",
      "BundleMapEntryIsBundle"} \subseteq Clause \ ShouldClauses
  /\ MemberClauses \subseteq Clause \ ShouldClauses
  <1>1. {"BundleMapTrustDomainsPresent", "BundleMapTrustDomainsUnique",
         "BundleMapEntryIsBundle"} \subseteq BundleMapClauses \ ShouldClauses
    BY DEF BundleMapClauses, ShouldClauses
  <1>2. BundleMapClauses \subseteq Clause
    BY DEF Clause
  <1> QED
    BY <1>1, <1>2, TrustDomainRulesAre DEF MemberClauses

LEMMA PresentTells ==
  ASSUME NEW doc
  PROVE  /\ Writes(CheckTrustDomainsPresent(doc), {"BundleMapTrustDomainsPresent"}, NoTag)
         /\ Failed(CheckTrustDomainsPresent(doc)) <=> ~IsMap(doc)
  <1>1. "BundleMapTrustDomainsPresent" \in Clause \ ShouldClauses
    BY MapClausesAre
  <1>2. "" \in Tags
    BY TagAssumption
  <1> QED
    BY <1>1, <1>2, OneOf, Zenon DEF CheckTrustDomainsPresent, NoTag

LEMMA UniquenessTells ==
  ASSUME NEW names
  PROVE  /\ Writes(CheckUniqueness(names), {"BundleMapTrustDomainsUnique"}, NoTag)
         /\ Failed(CheckUniqueness(names)) <=> ~IsInjective(names)
  <1> DEFINE j == Judge("BundleMapTrustDomainsUnique", IsInjective(names), "")
  <1>1. "BundleMapTrustDomainsUnique" \in Clause \ ShouldClauses
    BY MapClausesAre
  <1>2. "" \in Tags
    BY TagAssumption
  <1>3. Writes(j, {"BundleMapTrustDomainsUnique"}, "") /\ (Failed(j) <=> ~IsInjective(names))
    BY <1>1, <1>2, OneOf, Zenon
  <1>4. CASE names = << >>
    <2>1. CheckUniqueness(names) = << >>
      BY <1>4, Zenon DEF CheckUniqueness
    <2>2. IsInjective(names)
      BY <1>4 DEF IsInjective
    <2> QED
      BY <2>1, <2>2, NoLine, WritesNone, Zenon
  <1>5. CASE names # << >>
    <2>1. CheckUniqueness(names) = j
      BY <1>5, Zenon DEF CheckUniqueness
    <2> QED
      BY <1>3, <2>1, Zenon DEF NoTag
  <1> QED
    BY <1>4, <1>5

LEMMA MemberTells ==
  ASSUME NEW name \in TrustDomains, NEW entry
  PROVE  /\ Writes(CheckMapEntry(name, entry), MemberClauses, NameTag(name))
         /\ Failed(CheckMapEntry(name, entry)) <=> ~GoodTrustDomain(name) \/ entry = None
  <1> DEFINE t == NameTag(name)
             j1 == CheckTrustDomain(t, name)
             j2 == Judge("BundleMapEntryIsBundle", entry # None, t)
  <1>1. t \in Tags
    BY NameTagAssumption
  <1>2. "BundleMapEntryIsBundle" \in Clause \ ShouldClauses
    BY MapClausesAre
  <1>3. /\ Writes(j2, {"BundleMapEntryIsBundle"}, t) /\ (Failed(j2) <=> ~(entry # None))
    BY <1>1, <1>2, OneOf, Zenon
  <1>4. Writes(j1, TrustDomainRules, t) /\ (Failed(j1) <=> ~GoodTrustDomain(name))
    BY <1>1, TrustDomainLines, TrustDomainFails, Zenon
  <1>5. /\ TrustDomainRules \cap {"BundleMapEntryIsBundle"} = {}
        /\ TrustDomainRules \cup {"BundleMapEntryIsBundle"} = MemberClauses
    BY DEF TrustDomainRules, MemberClauses
  <1>6. CheckMapEntry(name, entry) = j1 \o j2
    BY DEF CheckMapEntry
  <1> HIDE DEF j1, j2, t
  <1>7. /\ Writes(j1 \o j2, TrustDomainRules \cup {"BundleMapEntryIsBundle"}, t)
        /\ Failed(j1 \o j2) <=> Failed(j1) \/ Failed(j2)
    BY <1>3, <1>4, <1>5, BothWrite
  <1> QED
    BY <1>3, <1>4, <1>5, <1>6, <1>7, Zenon DEF t

---------------------------------------------------------------------------
(* What bundle.check is about: nothing that is in the report already.      *)

LEMMA OnIs ==
  ASSUME NEW C, NEW t
  PROVE  /\ \A x \in On(C, t) : x.clause \in C /\ x.about = t /\ x = Topic(x.clause, t)
         /\ \A c \in C : Topic(c, t) \in On(C, t)
  BY TopicParts DEF On

WholeClauses == HeadClauses \cup EntryClauses \cup {"BundleKIDUnique"}

LEMMA WholeClausesAre ==
  /\ HeadClauses \cap EntryClauses = {}
  /\ "BundleKIDUnique" \notin HeadClauses \cup EntryClauses
  /\ MemberClauses \cap WholeClauses = {}
  /\ {"BundleMapTrustDomainsPresent", "BundleMapTrustDomainsUnique"}
       \cap (WholeClauses \cup MemberClauses) = {}
  /\ (FederationClauses \cup SpiffeIdClauses \cup TrustDomainRules) \cap WholeClauses = {}
  /\ "BundleMapEntryIsBundle" \notin WholeClauses
  /\ "BundleMapEntryIsBundle" \in MemberClauses
  <1>1. HeadClauses \cap EntryClauses = {}
    BY DEF HeadClauses, EntryClauses
  <1>2. "BundleKIDUnique" \notin HeadClauses \cup EntryClauses
    BY DEF HeadClauses, EntryClauses
  <1>3. WholeClauses \subseteq BundleClauses \cup {"BundleMapNoRefreshHint"}
    BY DEF WholeClauses, HeadClauses, EntryClauses, BundleClauses
  <1>4. MemberClauses \cap (BundleClauses \cup {"BundleMapNoRefreshHint"}) = {}
    BY DEF MemberClauses, TrustDomainRules, BundleClauses
  <1>5. {"BundleMapTrustDomainsPresent", "BundleMapTrustDomainsUnique"}
          \cap (BundleClauses \cup {"BundleMapNoRefreshHint"} \cup MemberClauses) = {}
    BY DEF MemberClauses, TrustDomainRules, BundleClauses
  <1>6. FederationClauses \cap (BundleClauses \cup {"BundleMapNoRefreshHint"}) = {}
    BY DEF FederationClauses, BundleClauses
  <1>7. SpiffeIdClauses \cap (BundleClauses \cup {"BundleMapNoRefreshHint"}) = {}
    BY DEF SpiffeIdClauses, BundleClauses
  <1>8. TrustDomainRules \subseteq SpiffeIdClauses
    BY DEF TrustDomainRules, SpiffeIdClauses
  <1>9. "BundleMapEntryIsBundle" \in MemberClauses
    BY DEF MemberClauses
  <1>10. MemberClauses \cap WholeClauses = {}
    BY <1>3, <1>4
  <1>11. {"BundleMapTrustDomainsPresent", "BundleMapTrustDomainsUnique"}
           \cap (WholeClauses \cup MemberClauses) = {}
    BY <1>3, <1>5
  <1>12. (FederationClauses \cup SpiffeIdClauses \cup TrustDomainRules) \cap WholeClauses = {}
    BY <1>3, <1>6, <1>7, <1>8
  <1>13. "BundleMapEntryIsBundle" \notin WholeClauses
    BY <1>9, <1>10
  <1> QED
    BY <1>1, <1>2, <1>9, <1>10, <1>11, <1>12, <1>13

\* A topic of the check of one bundle is about it or about an entry of it.
LEMMA WholeIs ==
  ASSUME NEW t, NEW b, NEW x \in WholeTopics(t, b)
  PROVE  \/ x.clause \in HeadClauses \cup {"BundleKIDUnique"} /\ x.about = t
         \/ x.clause \in EntryClauses /\ \E e \in DOMAIN b.keys : x.about = KeyTag(t, e)
  <1>1. \/ x \in On(HeadClauses, t)
        \/ x \in EntryTopics(t, b, Len(b.keys) + 1)
        \/ x \in On({"BundleKIDUnique"}, t)
    BY DEF WholeTopics, PartTopics
  <1>2. CASE x \in On(HeadClauses, t)
    BY <1>2, OnIs
  <1>3. CASE x \in On({"BundleKIDUnique"}, t)
    BY <1>3, OnIs
  <1>4. CASE x \in EntryTopics(t, b, Len(b.keys) + 1)
    <2>1. PICK e \in DOMAIN b.keys : x \in On(EntryClauses, KeyTag(t, e))
      BY <1>4 DEF EntryTopics
    <2>2. x.clause \in EntryClauses /\ x.about = KeyTag(t, e)
      BY <2>1, OnIs
    <2> QED
      BY <2>2
  <1> QED
    BY <1>1, <1>2, <1>3, <1>4

LEMMA WholeClause ==
  ASSUME NEW t, NEW b, NEW x \in WholeTopics(t, b)
  PROVE  x.clause \in WholeClauses
  BY WholeIs DEF WholeClauses

\* No two bundles of an artifact have a topic in common.
LEMMA WholesDisjoint ==
  ASSUME NEW v \in Invocations, NEW x \in BundlesOf(v), NEW y \in BundlesOf(v), x.tag # y.tag
  PROVE  WholeTopics(x.tag, x.b) \cap WholeTopics(y.tag, y.b) = {}
  <1> SUFFICES ASSUME NEW z \in WholeTopics(x.tag, x.b), z \in WholeTopics(y.tag, y.b)
               PROVE  FALSE
    OBVIOUS
  <1>1. \/ z.clause \in HeadClauses \cup {"BundleKIDUnique"} /\ z.about = x.tag
        \/ z.clause \in EntryClauses /\ \E e \in DOMAIN x.b.keys : z.about = KeyTag(x.tag, e)
    BY WholeIs
  <1>2. \/ z.clause \in HeadClauses \cup {"BundleKIDUnique"} /\ z.about = y.tag
        \/ z.clause \in EntryClauses /\ \E e \in DOMAIN y.b.keys : z.about = KeyTag(y.tag, e)
    BY WholeIs
  <1>3. EntryClauses \cap (HeadClauses \cup {"BundleKIDUnique"}) = {}
    BY WholeClausesAre
  <1>4. \A e \in DOMAIN x.b.keys, f \in DOMAIN y.b.keys :
          KeyTag(x.tag, e) = KeyTag(y.tag, f) => x.tag = y.tag
    BY KeyTagAssumption
  <1> QED
    BY <1>1, <1>2, <1>3, <1>4

\* Nor have two parts of one.
LEMMA PartsGrow ==
  ASSUME NEW v \in Invocations, NEW x \in BundlesOf(v)
  PROVE  /\ On(HeadClauses, x.tag) = PartTopics(x.tag, x.b, 1)
         /\ On(HeadClauses, x.tag) \subseteq WholeTopics(x.tag, x.b)
         /\ \A k \in DOMAIN x.b.keys :
              /\ KeyTag(x.tag, k) \in Tags
              /\ PartTopics(x.tag, x.b, k) \cap On(EntryClauses, KeyTag(x.tag, k)) = {}
              /\ PartTopics(x.tag, x.b, k) \cup On(EntryClauses, KeyTag(x.tag, k))
                   \subseteq PartTopics(x.tag, x.b, k + 1)
              /\ On(EntryClauses, KeyTag(x.tag, k)) \subseteq WholeTopics(x.tag, x.b)
  <1> DEFINE t == x.tag
             b == x.b
             H == On(HeadClauses, t)
             E(e) == On(EntryClauses, KeyTag(t, e))
             D == DOMAIN b.keys
  <1>1. b.keys \in Seq(Jwk \cup {None})
    BY BundlesAre DEF Bundle
  <1>2. D = 1..Len(b.keys) /\ Len(b.keys) \in Nat
    BY <1>1
  <1>3. \A k : PartTopics(t, b, k) = H \cup UNION {E(e) : e \in {h \in D : h < k}}
    BY DEF PartTopics, EntryTopics
  <1>4. PartTopics(t, b, Len(b.keys) + 1) \subseteq WholeTopics(t, b)
    BY DEF WholeTopics
  <1>5. \A k \in D : H \cap E(k) = {}
    BY WholeClausesAre, OnDisjoint
  <1>8. \A e, k \in D : e # k => E(e) \cap E(k) = {}
    <2>1. \A e, k \in D : KeyTag(t, e) = KeyTag(t, k) => e = k
      BY KeyTagAssumption
    <2> QED
      BY <2>1, OnDisjoint
  <1>9. \A k \in D : KeyTag(t, k) \in Tags
    <2>1. \A e, f \in DOMAIN x.b.keys : KeyTag(x.tag, e) \in Tags
      BY KeyTagAssumption
    <2> QED
      BY <2>1
  <1> HIDE DEF t, b, H, E, D
  <1>10. H = PartTopics(t, b, 1)
    <2>1. {h \in D : h < 1} = {}
      BY <1>2
    <2>2. PartTopics(t, b, 1) = H \cup UNION {E(e) : e \in {}}
      BY <1>3, <2>1, Zenon
    <2> QED
      BY <2>2
  <1>11. H \subseteq WholeTopics(t, b)
    BY <1>3, <1>4
  <1>12. ASSUME NEW k \in D
         PROVE  /\ PartTopics(t, b, k) \cap E(k) = {}
                /\ PartTopics(t, b, k) \cup E(k) \subseteq PartTopics(t, b, k + 1)
                /\ E(k) \subseteq WholeTopics(t, b)
    <2>1. \A e \in D : e < k => e # k
      BY <1>2
    <2>2. PartTopics(t, b, k) \cap E(k) = {}
      BY <1>3, <1>5, <1>8, <2>1
    <2>3. \A e \in D : e < k => e < k + 1
      BY <1>2
    <2>4. k \in {h \in D : h < k + 1} /\ k \in {h \in D : h < Len(b.keys) + 1}
      BY <1>2
    <2>5. PartTopics(t, b, k) \cup E(k) \subseteq PartTopics(t, b, k + 1)
      BY <1>3, <2>3, <2>4
    <2>6. E(k) \subseteq WholeTopics(t, b)
      BY <1>3, <1>4, <2>4
    <2> QED
      BY <2>2, <2>5, <2>6
  <1> QED
    BY <1>9, <1>10, <1>11, <1>12 DEF t, b, H, E, D

\* Of the key ids the report is silent until the entries are done.
LEMMA PartsWhole ==
  ASSUME NEW t, NEW b, NEW past, past = Len(b.keys) + 1
  PROVE  /\ PartTopics(t, b, past) \cap On({"BundleKIDUnique"}, t) = {}
         /\ PartTopics(t, b, past) \cup On({"BundleKIDUnique"}, t) = WholeTopics(t, b)
  <1> DEFINE H == On(HeadClauses, t)
             E(e) == On(EntryClauses, KeyTag(t, e))
             D == DOMAIN b.keys
             U == On({"BundleKIDUnique"}, t)
  <1>1. PartTopics(t, b, past) = H \cup UNION {E(e) : e \in {h \in D : h < past}}
    BY DEF PartTopics, EntryTopics
  <1>2. H \cap U = {}
    <2>1. HeadClauses \cap {"BundleKIDUnique"} = {}
      BY WholeClausesAre
    <2> QED
      BY <2>1, OnDisjoint
  <1>3. \A e \in D : E(e) \cap U = {}
    <2>1. EntryClauses \cap {"BundleKIDUnique"} = {}
      BY WholeClausesAre
    <2> QED
      BY <2>1, OnDisjoint
  <1>4. PartTopics(t, b, past) \cup U = WholeTopics(t, b)
    BY DEF WholeTopics
  <1> HIDE DEF H, E, D, U
  <1>5. PartTopics(t, b, past) \cap U = {}
    BY <1>1, <1>2, <1>3
  <1> QED
    BY <1>4, <1>5 DEF U

\* The topics of a map grow by those of one member, about which there is
\* nothing yet.
LEMMA MapTopicsGrow ==
  ASSUME NEW v \in Invocations, v.cmd = "bundle-map", Loads(v.file), IsMap(v.file.map),
         NEW m \in DOMAIN VisitedOf(v)
  PROVE  /\ MapTopics(v, m) \cap On(MemberClauses, TagAt(v, m)) = {}
         /\ MapTopics(v, m + 1) = MapTopics(v, m) \cup MemberTopics(v, m)
  <1> DEFINE P == {"BundleMapTrustDomainsPresent", "BundleMapTrustDomainsUnique"}
             D == DOMAIN VisitedOf(v)
             M == On(MemberClauses, TagAt(v, m))
  <1>1. D \subseteq Int /\ m \in D
    <2>1. VisitedOf(v) \in Seq(TrustDomains)
      BY VisitedParts
    <2> QED
      BY <2>1
  <1>2. \A k : MapTopics(v, k) = On(P, NoTag) \cup UNION {MemberTopics(v, h) : h \in {y \in D : y < k}}
    BY DEF MapTopics
  <1>3. On(P, NoTag) \cap M = {}
    <2>1. P \cap MemberClauses = {}
      BY WholeClausesAre
    <2> QED
      BY <2>1, OnDisjoint
  <1>4. ASSUME NEW h \in D, h < m
        PROVE  MemberTopics(v, h) \cap M = {}
    <2>1. h # m
      BY <1>1, <1>4
    <2>2. TagAt(v, h) # TagAt(v, m)
      BY <2>1, <1>1, TagsAre
    <2>3. On(MemberClauses, TagAt(v, h)) \cap M = {}
      BY <2>2, OnDisjoint
    <2>4. WholeTopics(TagAt(v, h), EntryAt(v, h)) \cap M = {}
      <3>1. \A x \in WholeTopics(TagAt(v, h), EntryAt(v, h)) : x.clause \notin MemberClauses
        BY WholeClause, WholeClausesAre
      <3>2. \A x \in M : x.clause \in MemberClauses
        BY OnIs
      <3> QED
        BY <3>1, <3>2
    <2> QED
      BY <2>3, <2>4 DEF MemberTopics
  <1>5. {h \in D : h < m + 1} = {h \in D : h < m} \cup {m}
    BY <1>1
  <1> HIDE DEF P, D, M
  <1>6. MapTopics(v, m) \cap M = {}
    BY <1>2, <1>3, <1>4
  <1>7. MapTopics(v, m + 1) = MapTopics(v, m) \cup MemberTopics(v, m)
    BY <1>2, <1>5
  <1> QED
    BY <1>6, <1>7 DEF M

LEMMA MapTopicsFirst ==
  ASSUME NEW v \in Invocations, v.cmd = "bundle-map", Loads(v.file), IsMap(v.file.map)
  PROVE  MapTopics(v, 1)
           = On({"BundleMapTrustDomainsPresent", "BundleMapTrustDomainsUnique"}, NoTag)
  <1>1. \A m \in DOMAIN VisitedOf(v) : ~(m < 1)
    <2>1. VisitedOf(v) \in Seq(TrustDomains)
      BY VisitedParts
    <2> QED
      BY <2>1
  <1> QED
    BY <1>1 DEF MapTopics

\* When bundle.check is called the report is about nothing it will be about.
LEMMA NewBundle ==
  ASSUME NEW v \in Invocations, NEW x \in BundlesOf(v), NEW k,
         v.cmd = "bundle-map" =>
            /\ Loads(v.file) /\ IsMap(v.file.map) /\ k \in DOMAIN VisitedOf(v)
            /\ x = [tag |-> TagAt(v, k), b |-> EntryAt(v, k)]
  PROVE  TopicsBefore(v, k) \cap WholeTopics(x.tag, x.b) = {}
  <1>1. CASE v.cmd = "bundle"
    BY <1>1 DEF TopicsBefore
  <1>2. CASE v.cmd = "federation"
    <2>1. TopicsBefore(v, k) = FedTopics("bootstrap")
      BY <1>2 DEF TopicsBefore
    <2>2. FedTopics("bootstrap") = On(FederationClauses \cup SpiffeIdClauses, NoTag)
                                     \cup On(TrustDomainRules, "trust_domain")
      BY DEF FedTopics, FedClauses
    <2>3. \A z \in FedTopics("bootstrap") :
             z.clause \in FederationClauses \cup SpiffeIdClauses \cup TrustDomainRules
      BY <2>2, OnIs
    <2>4. \A z \in FedTopics("bootstrap") : z.clause \notin WholeClauses
      BY <2>3, WholeClausesAre
    <2> QED
      BY <2>1, <2>4, WholeClause
  <1>3. CASE v.cmd = "bundle-map"
    <2>1. TopicsBefore(v, k) = MapTopics(v, k) \cup On(MemberClauses, TagAt(v, k))
      BY <1>3 DEF TopicsBefore
    <2>2. VisitedOf(v) \in Seq(TrustDomains)
      BY <1>3, VisitedParts
    <2>3. \A z \in On(MemberClauses, TagAt(v, k)) : z.clause \notin WholeClauses
      BY OnIs, WholeClausesAre
    <2>4. \A z \in On({"BundleMapTrustDomainsPresent", "BundleMapTrustDomainsUnique"}, NoTag) :
             z.clause \notin WholeClauses
      BY OnIs, WholeClausesAre
    <2>5. ASSUME NEW m \in DOMAIN VisitedOf(v), m < k, NEW z \in MemberTopics(v, m)
          PROVE  z \notin WholeTopics(x.tag, x.b)
      <3>1. CASE z \in On(MemberClauses, TagAt(v, m))
        <4>1. z.clause \notin WholeClauses
          BY <3>1, OnIs, WholeClausesAre
        <4> QED
          BY <4>1, WholeClause
      <3>2. CASE EntryAt(v, m) # None /\ z \in WholeTopics(TagAt(v, m), EntryAt(v, m))
        <4>1. PICK y : y = [tag |-> TagAt(v, m), b |-> EntryAt(v, m)]
          OBVIOUS
        <4>2. y \in BundlesOf(v)
          BY <1>3, <3>2, <4>1, BundlesOfMap
        <4>3. m # k
          BY <1>3, <2>2, <2>5
        <4>4. y.tag # x.tag
          BY <1>3, <4>1, <4>3, TagsAre
        <4>5. WholeTopics(y.tag, y.b) \cap WholeTopics(x.tag, x.b) = {}
          BY <4>2, <4>4, WholesDisjoint
        <4>6. z \in WholeTopics(y.tag, y.b)
          BY <3>2, <4>1
        <4> QED
          BY <4>5, <4>6
      <3> QED
        BY <2>5, <3>1, <3>2 DEF MemberTopics
    <2>6. ASSUME NEW z \in MapTopics(v, k)
          PROVE  \/ z \in On({"BundleMapTrustDomainsPresent",
                              "BundleMapTrustDomainsUnique"}, NoTag)
                 \/ \E m \in DOMAIN VisitedOf(v) : m < k /\ z \in MemberTopics(v, m)
      BY <2>6 DEF MapTopics
    <2> QED
      BY <2>1, <2>3, <2>4, <2>5, <2>6, WholeClause
  <1> QED
    BY <1>1, <1>2, <1>3, InvocationAssumption
---------------------------------------------------------------------------
(* What is well written stays so.                                          *)

\* A line of both is one of the first, in its place, or one of the second.
LEMMA LineIn ==
  ASSUME NEW r \in Seq(Assertion), NEW s \in Seq(Assertion), NEW k \in DOMAIN (r \o s)
  PROVE  \/ k \in DOMAIN r /\ (r \o s)[k] = r[k]
         \/ /\ k \in Nat /\ Len(r) \in Nat /\ k > Len(r) /\ DOMAIN r = 1..Len(r)
            /\ k - Len(r) \in DOMAIN s /\ (r \o s)[k] = s[k - Len(r)]
  OBVIOUS

LEMMA TopicsAre ==
  ASSUME NEW r, NEW k \in DOMAIN r
  PROVE  /\ Topic(r[k].clause, r[k].about) \in Topics(r)
         /\ TopicOf(r[k]).clause = r[k].clause /\ TopicOf(r[k]) \in Topics(r)
  BY DEF Topics, TopicOf, Topic

LEMMA KidLinesBoth ==
  ASSUME NEW v, NEW r \in Seq(Assertion), NEW s \in Seq(Assertion),
         KidLines(v, r), KidLines(v, s)
  PROVE  KidLines(v, r \o s)
  <1> SUFFICES ASSUME NEW k \in DOMAIN (r \o s), (r \o s)[k].clause = "BundleKIDUnique",
                      NEW x \in BundlesOf(v), x.tag = (r \o s)[k].about
               PROVE  /\ Keyed(x.b) # {}
                      /\ (r \o s)[k].status = "fail" <=> KidsClash(x.b)
    BY DEF KidLines
  <1>1. CASE k \in DOMAIN r /\ (r \o s)[k] = r[k]
    BY <1>1 DEF KidLines
  <1>2. CASE k - Len(r) \in DOMAIN s /\ (r \o s)[k] = s[k - Len(r)]
    BY <1>2 DEF KidLines
  <1> QED
    BY <1>1, <1>2, LineIn

LEMMA NoKidLines ==
  ASSUME NEW v, NEW r, \A x \in Topics(r) : x.clause # "BundleKIDUnique"
  PROVE  KidLines(v, r)
  BY TopicsAre DEF KidLines

LEMMA InOrderMore ==
  ASSUME NEW v, NEW r \in Seq(Assertion), NEW s \in Seq(Assertion), InOrder(v, r),
         \A x \in Topics(s) : x.clause # "BundleMapEntryIsBundle"
  PROVE  InOrder(v, r \o s)
  <1>1. ASSUME NEW k \in DOMAIN (r \o s), (r \o s)[k].clause = "BundleMapEntryIsBundle"
        PROVE  k \in DOMAIN r /\ (r \o s)[k] = r[k]
    <2>1. ASSUME k - Len(r) \in DOMAIN s, (r \o s)[k] = s[k - Len(r)]
          PROVE  FALSE
      BY <1>1, <2>1, TopicsAre
    <2> QED
      BY <2>1, LineIn
  <1>2. CASE Loads(v.file) /\ IsMap(v.file.map)
    <2> SUFFICES ASSUME NEW k \in DOMAIN (r \o s), NEW l \in DOMAIN (r \o s),
                        NEW p \in DOMAIN VisitedOf(v), NEW q \in DOMAIN VisitedOf(v),
                        (r \o s)[k].clause = "BundleMapEntryIsBundle",
                        (r \o s)[k].about = TagAt(v, p),
                        (r \o s)[l].clause = "BundleMapEntryIsBundle",
                        (r \o s)[l].about = TagAt(v, q), p < q
                 PROVE  k < l
      BY <1>2, Zenon DEF InOrder
    <2>1. /\ k \in DOMAIN r /\ (r \o s)[k] = r[k]
          /\ l \in DOMAIN r /\ (r \o s)[l] = r[l]
      BY <1>1
    <2>2. /\ r[k].clause = "BundleMapEntryIsBundle" /\ r[k].about = TagAt(v, p)
          /\ r[l].clause = "BundleMapEntryIsBundle" /\ r[l].about = TagAt(v, q)
      BY <2>1
    <2> QED
      BY <1>2, <2>1, <2>2, Zenon DEF InOrder
  <1>3. CASE ~(Loads(v.file) /\ IsMap(v.file.map))
    BY <1>1, <1>3, Zenon DEF InOrder
  <1> QED
    BY <1>2, <1>3

\* What a check about something new leaves of a well-written report.
LEMMA Grows ==
  ASSUME NEW v, NEW r, NEW s, NEW X, NEW Y,
         WellWritten(v, r), Topics(r) \subseteq X, Within(s, Y), X \cap Y = {},
         KidLines(v, s),
         \A x \in Topics(s) : x.clause # "BundleMapEntryIsBundle"
  PROVE  /\ WellWritten(v, r \o s)
         /\ Topics(r \o s) = Topics(r) \cup Topics(s) /\ Topics(r \o s) \subseteq X \cup Y
         /\ Failed(r \o s) <=> Failed(r) \/ Failed(s)
  <1>1. /\ r \in Seq(Assertion) /\ OnceEach(r) /\ KidLines(v, r)
        /\ v.cmd = "bundle-map" => InOrder(v, r)
    BY DEF WellWritten
  <1>2. Within(r, X)
    BY <1>1 DEF Within
  <1>3. /\ Within(r \o s, X \cup Y)
        /\ Failed(r \o s) <=> Failed(r) \/ Failed(s)
        /\ Topics(r \o s) = Topics(r) \cup Topics(s)
    BY <1>2, BothWithin
  <1>4. /\ r \o s \in Seq(Assertion) /\ OnceEach(r \o s)
        /\ Topics(r \o s) \subseteq X \cup Y /\ s \in Seq(Assertion)
    BY <1>3 DEF Within
  <1>5. KidLines(v, r \o s)
    BY <1>1, <1>4, KidLinesBoth
  <1>6. v.cmd = "bundle-map" => InOrder(v, r \o s)
    BY <1>1, <1>4, InOrderMore
  <1> QED
    BY <1>3, <1>4, <1>5, <1>6, Zenon DEF WellWritten

\* The next member's own lines come after those of the members before it.
LEMMA MemberLines ==
  ASSUME NEW v \in Invocations, v.cmd = "bundle-map", Loads(v.file), IsMap(v.file.map),
         NEW m \in DOMAIN VisitedOf(v), NEW r, WellWritten(v, r),
         Topics(r) \subseteq MapTopics(v, m), NEW s, Writes(s, MemberClauses, TagAt(v, m))
  PROVE  /\ WellWritten(v, r \o s)
         /\ Topics(r \o s) = Topics(r) \cup Topics(s)
         /\ Topics(r \o s) \subseteq MapTopics(v, m) \cup On(MemberClauses, TagAt(v, m))
         /\ Failed(r \o s) <=> Failed(r) \/ Failed(s)
  <1> DEFINE M == On(MemberClauses, TagAt(v, m))
  <1>1. /\ r \in Seq(Assertion) /\ OnceEach(r) /\ KidLines(v, r) /\ InOrder(v, r)
    BY DEF WellWritten
  <1>2. Within(r, MapTopics(v, m)) /\ Within(s, M)
    BY <1>1, WritesWithin DEF Within
  <1>3. /\ Within(r \o s, MapTopics(v, m) \cup M)
        /\ Failed(r \o s) <=> Failed(r) \/ Failed(s)
        /\ Topics(r \o s) = Topics(r) \cup Topics(s)
    BY <1>2, MapTopicsGrow, BothWithin
  <1>4. /\ r \o s \in Seq(Assertion) /\ OnceEach(r \o s)
        /\ Topics(r \o s) \subseteq MapTopics(v, m) \cup M
        /\ s \in Seq(Assertion) /\ Topics(s) \subseteq M
    BY <1>2, <1>3 DEF Within
  <1>5. KidLines(v, s)
    <2>1. "BundleKIDUnique" \notin MemberClauses
      BY DEF MemberClauses, TrustDomainRules
    <2> QED
      BY <1>4, <2>1, OnIs, NoKidLines
  <1>6. KidLines(v, r \o s)
    BY <1>1, <1>4, <1>5, KidLinesBoth
  <1>7. ASSUME NEW l \in DOMAIN r, r[l].clause = "BundleMapEntryIsBundle",
               NEW q \in DOMAIN VisitedOf(v), r[l].about = TagAt(v, q)
        PROVE  q < m
    <2> DEFINE x == Topic("BundleMapEntryIsBundle", TagAt(v, q))
    <2>1. x \in MapTopics(v, m)
      BY <1>7, TopicsAre
    <2>2. x.clause = "BundleMapEntryIsBundle" /\ x.about = TagAt(v, q)
      BY TopicParts
    <2>3. x \notin On({"BundleMapTrustDomainsPresent", "BundleMapTrustDomainsUnique"}, NoTag)
      BY <2>2, OnIs
    <2>4. PICK p \in DOMAIN VisitedOf(v) : p < m /\ x \in MemberTopics(v, p)
      <3> HIDE DEF x
      <3> QED
        BY <2>1, <2>3 DEF MapTopics
    <2>5. x \notin WholeTopics(TagAt(v, p), EntryAt(v, p))
      BY <2>2, WholeClause, WholeClausesAre
    <2>6. x \in On(MemberClauses, TagAt(v, p))
      <3> HIDE DEF x
      <3> QED
        BY <2>4, <2>5 DEF MemberTopics
    <2>7. TagAt(v, q) = TagAt(v, p)
      BY <2>2, <2>6, OnIs
    <2>8. q = p
      BY <2>7, TagsAre
    <2> QED
      BY <2>4, <2>8
  <1>8. ASSUME NEW k \in DOMAIN s, NEW q \in DOMAIN VisitedOf(v), s[k].about = TagAt(v, q)
        PROVE  q = m
    <2>1. Topic(s[k].clause, s[k].about) \in M
      BY <1>4, TopicsAre
    <2>2. s[k].about = TagAt(v, m)
      BY <2>1, OnIs, TopicParts
    <2> QED
      BY <1>8, <2>2, TagsAre
  <1>9. InOrder(v, r \o s)
    <2> SUFFICES ASSUME NEW k \in DOMAIN (r \o s), NEW l \in DOMAIN (r \o s),
                        NEW p \in DOMAIN VisitedOf(v), NEW q \in DOMAIN VisitedOf(v),
                        (r \o s)[k].clause = "BundleMapEntryIsBundle",
                        (r \o s)[k].about = TagAt(v, p),
                        (r \o s)[l].clause = "BundleMapEntryIsBundle",
                        (r \o s)[l].about = TagAt(v, q), p < q
                 PROVE  k < l
      BY Zenon DEF InOrder
    <2>1. VisitedOf(v) \in Seq(TrustDomains)
      BY VisitedParts
    <2>2. p \in Nat /\ q \in Nat /\ m \in Nat
      BY <2>1
    <2>3. CASE k \in DOMAIN r /\ (r \o s)[k] = r[k] /\ l \in DOMAIN r /\ (r \o s)[l] = r[l]
      <3>1. /\ r[k].clause = "BundleMapEntryIsBundle" /\ r[k].about = TagAt(v, p)
            /\ r[l].clause = "BundleMapEntryIsBundle" /\ r[l].about = TagAt(v, q)
        BY <2>3
      <3> QED
        BY <1>1, <2>3, <3>1, Zenon DEF InOrder
    <2>4. ASSUME k - Len(r) \in DOMAIN s, (r \o s)[k] = s[k - Len(r)]
          PROVE  FALSE
      <3>1. p = m
        BY <1>8, <2>4
      <3>2. ASSUME l \in DOMAIN r, (r \o s)[l] = r[l]
            PROVE  FALSE
        BY <1>7, <2>2, <3>1, <3>2
      <3>3. ASSUME l - Len(r) \in DOMAIN s, (r \o s)[l] = s[l - Len(r)]
            PROVE  FALSE
        BY <1>8, <2>2, <3>1, <3>3
      <3> QED
        BY <1>1, <1>4, <3>2, <3>3, LineIn
    <2>5. CASE /\ k \in DOMAIN r /\ DOMAIN r = 1..Len(r)
               /\ l \in Nat /\ Len(r) \in Nat /\ l > Len(r)
      BY <2>5
    <2> QED
      BY <1>1, <1>4, <2>3, <2>4, <2>5, LineIn
  <1> HIDE DEF M
  <1>10. WellWritten(v, r \o s)
    BY <1>4, <1>6, <1>9, Zenon DEF WellWritten
  <1> QED
    BY <1>3, <1>4, <1>10, Zenon DEF M

LEMMA LinedMore ==
  ASSUME NEW r, NEW s, Topics(r) \subseteq Topics(s)
  PROVE  /\ \A t, b, k : EntriesLined(r, t, b, k) => EntriesLined(s, t, b, k)
         /\ \A t, b : Lined(r, t, b) => Lined(s, t, b)
         /\ \A v, k : MembersLined(v, r, k) => MembersLined(v, s, k)
  <1>1. \A t, b, k : EntriesLined(r, t, b, k) => EntriesLined(s, t, b, k)
    BY DEF EntriesLined
  <1>2. \A t, b : Lined(r, t, b) => Lined(s, t, b)
    BY <1>1 DEF Lined
  <1>3. \A v, k : MembersLined(v, r, k) => MembersLined(v, s, k)
    BY <1>2 DEF MembersLined
  <1> QED
    BY <1>1, <1>2, <1>3
---------------------------------------------------------------------------
(* Where a run stands.                                                     *)

LEMMA StageIs ==
  ASSUME IInv
  PROVE  /\ pc = "args" => NotStarted
         /\ pc \in {"unique", "entry"} => InMapCheck
         /\ pc \in {"profile", "url", "params", "bootstrap"} => InFedCheck
         /\ pc \in {"head", "keys"} => InBundleCheck
         /\ pc = "emit" => Finished
         /\ pc = "done" => exit = 2 \/ (exit = ExitOf(report) /\ Finished)
  <1>1. Stages
    BY DEF IInv
  <1>2. NotStarted => pc = "args"
    BY DEF NotStarted
  <1>3. pc = "args" => NotStarted
    BY <1>1 DEF Stages
  <1>4. pc \in {"unique", "entry"} => InMapCheck
    BY <1>1, <1>2 DEF Stages
  <1>5. pc \in {"profile", "url", "params", "bootstrap"} => InFedCheck
    BY <1>1, <1>2 DEF Stages
  <1>6. pc \in {"head", "keys"} => InBundleCheck
    BY <1>1, <1>2 DEF Stages
  <1>7. pc = "emit" => Finished
    BY <1>1, <1>2 DEF Stages
  <1>8. pc = "done" => exit = 2 \/ (exit = ExitOf(report) /\ Finished)
    BY <1>1, <1>2 DEF Stages
  <1> QED
    BY <1>3, <1>4, <1>5, <1>6, <1>7, <1>8

LEMMA InvParts ==
  ASSUME IInv
  PROVE  /\ inv \in Invocations
         /\ inv.cmd \in {"bundle", "bundle-map", "federation"}
         /\ TypeOK
         /\ WellWritten(inv, report) /\ report \in Seq(Assertion)
         /\ pc # "done" => exit = -1
  BY DEF IInv, TypeOK, WellWritten

\* The bundle under check is one of the artifact's.
LEMMA CalledIs ==
  ASSUME inv \in Invocations, Called, bundle \in Bundle,
         inv.cmd \in {"bundle", "bundle-map", "federation"}
  PROVE  /\ [tag |-> tag, b |-> bundle] \in BundlesOf(inv)
         /\ inv.cmd = "bundle-map" =>
              /\ Loads(inv.file) /\ IsMap(inv.file.map) /\ n \in DOMAIN VisitedOf(inv)
              /\ [tag |-> tag, b |-> bundle] = [tag |-> TagAt(inv, n), b |-> EntryAt(inv, n)]
  <1>1. CASE inv.cmd = "bundle"
    <2>1. Loads(inv.file) /\ tag = NoTag /\ bundle = inv.file.bundle
      BY <1>1 DEF Called, NoTag
    <2>2. BundlesOf(inv) = {[tag |-> NoTag, b |-> inv.file.bundle]}
      BY <1>1, <2>1, BundlesOfFile
    <2> QED
      BY <1>1, <2>1, <2>2
  <1>2. CASE inv.cmd = "federation"
    <2>1. /\ Bootstraps(inv.cfg) /\ Loads(inv.cfg.bundle)
          /\ tag = EndpointTag /\ bundle = inv.cfg.bundle.bundle
      BY <1>2 DEF Called, EndpointTag
    <2>2. BundlesOf(inv) = {[tag |-> EndpointTag, b |-> inv.cfg.bundle.bundle]}
      BY <1>2, <2>1, BundlesOfConfig
    <2> QED
      BY <1>2, <2>1, <2>2
  <1>3. CASE inv.cmd = "bundle-map"
    <2>1. /\ Loads(inv.file) /\ IsMap(inv.file.map)
          /\ n \in DOMAIN VisitedOf(inv)
          /\ tag = TagAt(inv, n) /\ bundle = EntryAt(inv, n) /\ bundle # None
      BY <1>3 DEF Called
    <2>2. [tag |-> TagAt(inv, n), b |-> EntryAt(inv, n)] \in BundlesOf(inv)
      BY <1>3, <2>1, BundlesOfMap
    <2> QED
      BY <2>1, <2>2
  <1> QED
    BY <1>1, <1>2, <1>3

\* What bundle.check writes about is new.
LEMMA CalledNew ==
  ASSUME inv \in Invocations, Called, bundle \in Bundle,
         inv.cmd \in {"bundle", "bundle-map", "federation"}
  PROVE  TopicsBefore(inv, n) \cap WholeTopics(tag, bundle) = {}
  <1> DEFINE x == [tag |-> tag, b |-> bundle]
  <1>1. x.tag = tag /\ x.b = bundle
    OBVIOUS
  <1>2. /\ x \in BundlesOf(inv)
        /\ inv.cmd = "bundle-map" =>
             /\ Loads(inv.file) /\ IsMap(inv.file.map) /\ n \in DOMAIN VisitedOf(inv)
             /\ x = [tag |-> TagAt(inv, n), b |-> EntryAt(inv, n)]
    BY CalledIs
  <1> HIDE DEF x
  <1>3. TopicsBefore(inv, n) \cap WholeTopics(x.tag, x.b) = {}
    BY <1>2, NewBundle
  <1> QED
    BY <1>1, <1>3

LEMMA CalledParts ==
  ASSUME inv \in Invocations, Called, bundle \in Bundle,
         inv.cmd \in {"bundle", "bundle-map", "federation"}
  PROVE  /\ tag \in Tags
         /\ On(HeadClauses, tag) = PartTopics(tag, bundle, 1)
         /\ On(HeadClauses, tag) \subseteq WholeTopics(tag, bundle)
         /\ \A k \in DOMAIN bundle.keys :
              /\ KeyTag(tag, k) \in Tags
              /\ PartTopics(tag, bundle, k) \cap On(EntryClauses, KeyTag(tag, k)) = {}
              /\ PartTopics(tag, bundle, k) \cup On(EntryClauses, KeyTag(tag, k))
                   \subseteq PartTopics(tag, bundle, k + 1)
              /\ On(EntryClauses, KeyTag(tag, k)) \subseteq WholeTopics(tag, bundle)
  <1> DEFINE x == [tag |-> tag, b |-> bundle]
  <1>1. x.tag = tag /\ x.b = bundle
    OBVIOUS
  <1>2. x \in BundlesOf(inv)
    BY CalledIs
  <1> HIDE DEF x
  <1>3. x.tag \in Tags
    BY <1>2, BundlesAre
  <1>4. /\ On(HeadClauses, x.tag) = PartTopics(x.tag, x.b, 1)
         /\ On(HeadClauses, x.tag) \subseteq WholeTopics(x.tag, x.b)
         /\ \A k \in DOMAIN x.b.keys :
              /\ KeyTag(x.tag, k) \in Tags
              /\ PartTopics(x.tag, x.b, k) \cap On(EntryClauses, KeyTag(x.tag, k)) = {}
              /\ PartTopics(x.tag, x.b, k) \cup On(EntryClauses, KeyTag(x.tag, k))
                   \subseteq PartTopics(x.tag, x.b, k + 1)
              /\ On(EntryClauses, KeyTag(x.tag, k)) \subseteq WholeTopics(x.tag, x.b)
    BY <1>2, PartsGrow, Zenon
  <1>5. tag \in Tags
    BY <1>1, <1>3
  <1>6. /\ On(HeadClauses, tag) = PartTopics(tag, bundle, 1)
        /\ On(HeadClauses, tag) \subseteq WholeTopics(tag, bundle)
    BY <1>1, <1>4
  <1>7. \A k \in DOMAIN bundle.keys :
          /\ KeyTag(tag, k) \in Tags
          /\ PartTopics(tag, bundle, k) \cap On(EntryClauses, KeyTag(tag, k)) = {}
          /\ PartTopics(tag, bundle, k) \cup On(EntryClauses, KeyTag(tag, k))
               \subseteq PartTopics(tag, bundle, k + 1)
          /\ On(EntryClauses, KeyTag(tag, k)) \subseteq WholeTopics(tag, bundle)
    BY <1>1, <1>4
  <1> QED
    BY <1>5, <1>6, <1>7, Zenon

---------------------------------------------------------------------------
(* bundle.check returns.                                                   *)

\* The map goes on with the next member.
LEMMA NextMember ==
  ASSUME NEW v \in Invocations, v.cmd = "bundle-map", Loads(v.file), IsMap(v.file.map),
         NEW m \in DOMAIN VisitedOf(v)
  PROVE  /\ MapSpoiled(v, m + 1) <=> MapSpoiled(v, m) \/ ~GoodMember(v, m)
         /\ m \in Nat /\ m + 1 <= Len(VisitedOf(v)) + 1
         /\ \A r : /\ MembersLined(v, r, m)
                   /\ EntryAt(v, m) # None => Lined(r, TagAt(v, m), EntryAt(v, m))
                   => MembersLined(v, r, m + 1)
  <1>1. VisitedOf(v) \in Seq(TrustDomains)
    BY VisitedParts
  <1>2. /\ m \in Nat /\ m + 1 <= Len(VisitedOf(v)) + 1
        /\ \A p \in DOMAIN VisitedOf(v) : p < m + 1 <=> p < m \/ p = m
    BY <1>1
  <1>3. MapSpoiled(v, m + 1) <=> MapSpoiled(v, m) \/ ~GoodMember(v, m)
    BY <1>2, Zenon DEF MapSpoiled
  <1>4. ASSUME NEW r, MembersLined(v, r, m),
               EntryAt(v, m) # None => Lined(r, TagAt(v, m), EntryAt(v, m))
        PROVE  MembersLined(v, r, m + 1)
    BY <1>2, <1>4, Zenon DEF MembersLined
  <1> QED
    BY <1>2, <1>3, <1>4

LEMMA BundleEnds ==
  ASSUME IInv, Called, bundle \in Bundle, Return, UNCHANGED <<inv, exit>>,
         pc # "done",
         report' \in Seq(Assertion),
         Topics(report') \subseteq TopicsBefore(inv, n) \cup WholeTopics(tag, bundle),
         Topics(report) \subseteq Topics(report'),
         Failed(report') <=> SpoiledBefore(inv, n) \/ ~GoodBundle(bundle),
         Lined(report', tag, bundle)
  PROVE  Stages' /\ pc' # "done" /\ bundle' = None /\ n' \in Nat \ {0}
  <1>1. /\ inv \in Invocations /\ inv.cmd \in {"bundle", "bundle-map", "federation"}
        /\ n \in Nat \ {0}
    BY InvParts DEF TypeOK
  <1>2. CASE inv.cmd = "bundle"
    <2>1. Loads(inv.file) /\ tag = NoTag /\ bundle = inv.file.bundle
      BY <1>2 DEF Called, NoTag
    <2>2. BundlesOf(inv) = {[tag |-> NoTag, b |-> inv.file.bundle]}
      BY <1>2, <2>1, BundlesOfFile
    <2>3. \A x \in BundlesOf(inv) : Lined(report', x.tag, x.b)
      BY <2>1, <2>2
    <2>4. Failed(report') <=> ~GoodBundle(inv.file.bundle)
      BY <1>2, <2>1, Zenon DEF SpoiledBefore
    <2>5. Compliant' <=> GoodBundle(inv.file.bundle)
      BY <1>2, Zenon DEF Compliant
    <2>6. pc' = "emit" /\ n' = n /\ bundle' = None
      BY <1>2 DEF Return
    <2>7. Finished'
      BY <2>3, <2>4, <2>5, Zenon DEF Finished
    <2> QED
      BY <1>1, <2>6, <2>7 DEF Stages
  <1>3. CASE inv.cmd = "federation"
    <2>1. /\ Bootstraps(inv.cfg) /\ Loads(inv.cfg.bundle)
          /\ tag = EndpointTag /\ bundle = inv.cfg.bundle.bundle
      BY <1>3 DEF Called, EndpointTag
    <2>2. BundlesOf(inv) = {[tag |-> EndpointTag, b |-> inv.cfg.bundle.bundle]}
      BY <1>3, <2>1, BundlesOfConfig
    <2>3. \A x \in BundlesOf(inv) : Lined(report', x.tag, x.b)
      BY <2>1, <2>2
    <2>4. SpoiledBefore(inv, n) <=> FedSpoiled(inv.cfg, "bootstrap")
      BY <1>3 DEF SpoiledBefore
    <2>5. IsConfig(inv.cfg)
      BY <1>1, <1>3, InvocationAssumption
    <2>6. FedSpoiled(inv.cfg, "bootstrap") \/ ~GoodBundle(inv.cfg.bundle.bundle)
            <=> ~GoodConfig(inv.cfg)
      BY <2>1, <2>5, FedVerdict
    <2>7. Compliant' <=> GoodConfig(inv.cfg)
      BY <1>3 DEF Compliant
    <2>8. pc' = "emit" /\ n' = n /\ bundle' = None
      BY <1>3 DEF Return
    <2>9. Failed(report') <=> ~GoodConfig(inv.cfg)
      BY <2>1, <2>4, <2>6, Zenon
    <2>10. Finished'
      BY <2>3, <2>7, <2>9, Zenon DEF Finished
    <2> QED
      BY <1>1, <2>8, <2>10 DEF Stages
  <1>4. CASE inv.cmd = "bundle-map"
    <2>1. /\ Loads(inv.file) /\ IsMap(inv.file.map)
          /\ n \in DOMAIN VisitedOf(inv)
          /\ tag = TagAt(inv, n) /\ bundle = EntryAt(inv, n) /\ bundle # None
          /\ MembersLined(inv, report, n)
      BY <1>4 DEF Called
    <2>2. n' = n + 1 /\ pc' = "entry" /\ bundle' = None /\ inv' = inv
      BY <1>4 DEF Return
    <2>3. /\ MapSpoiled(inv, n + 1) <=> MapSpoiled(inv, n) \/ ~GoodMember(inv, n)
          /\ n + 1 <= Len(VisitedOf(inv)) + 1
      BY <1>1, <1>4, <2>1, NextMember
    <2>4. MembersLined(inv, report', n + 1)
      <3>1. MembersLined(inv, report', n)
        BY <2>1, LinedMore
      <3>2. Lined(report', TagAt(inv, n), EntryAt(inv, n))
        BY <2>1
      <3> QED
        BY <1>1, <1>4, <2>1, <3>1, <3>2, NextMember, Zenon
    <2>5. TopicsBefore(inv, n) = MapTopics(inv, n) \cup On(MemberClauses, TagAt(inv, n))
      BY <1>4, Zenon DEF TopicsBefore
    <2>6. MapTopics(inv, n + 1) = MapTopics(inv, n) \cup MemberTopics(inv, n)
      BY <1>1, <1>4, <2>1, MapTopicsGrow
    <2>7. MemberTopics(inv, n)
            = On(MemberClauses, TagAt(inv, n)) \cup WholeTopics(tag, bundle)
      BY <2>1, Zenon DEF MemberTopics
    <2>8. Topics(report') \subseteq MapTopics(inv, n + 1)
      BY <2>5, <2>6, <2>7
    <2>9. SpoiledBefore(inv, n) <=> MapSpoiled(inv, n) \/ ~GoodTrustDomain(NameAt(inv, n))
      BY <1>4, Zenon DEF SpoiledBefore
    <2>10. ~GoodMember(inv, n) <=> ~GoodTrustDomain(NameAt(inv, n)) \/ ~GoodBundle(bundle)
      BY <2>1, Zenon DEF GoodMember
    <2>11. Failed(report') <=> MapSpoiled(inv, n + 1)
      BY <2>3, <2>9, <2>10, Zenon
    <2>12. So(report', MapTopics(inv, n + 1), MapSpoiled(inv, n + 1))
      BY <2>8, <2>11, Zenon DEF So
    <2>13. InMapCheck'
      BY <1>4, <2>1, <2>2, <2>3, <2>4, <2>12 DEF InMapCheck
    <2> QED
      BY <1>1, <2>2, <2>13 DEF Stages
  <1> QED
    BY <1>1, <1>2, <1>3, <1>4
---------------------------------------------------------------------------
(* The invariant at the start, and where nothing is checked.               *)

LEMMA Starts == Init => IInv
  <1> SUFFICES ASSUME Init PROVE IInv
    OBVIOUS
  <1>1. /\ inv \in Invocations /\ n = 1 /\ bundle = None /\ i = 1
        /\ kids = << >> /\ report = << >> /\ exit = -1 /\ pc = "args"
    BY DEF Init
  <1>2. TypeOK
    <2>1. inv.cmd \in {"bundle", "bundle-map", "federation"}
      BY <1>1, InvocationAssumption
    <2>2. tag \in Tags
      BY TagAssumption DEF Init
    <2>3. kids \in Seq(Kids)
      BY <1>1
    <2>4. report \in Seq(Assertion)
      BY <1>1
    <2>5. n \in Nat \ {0} /\ i \in Nat \ {0} /\ exit \in {-1, 0, 1, 2}
      BY <1>1
    <2>6. bundle \in Bundle \cup {None} /\ (bundle # None => i <= Len(bundle.keys) + 1)
      BY <1>1
    <2> QED
      BY <2>1, <2>2, <2>3, <2>4, <2>5, <2>6 DEF TypeOK
  <1>3. WellWritten(inv, report)
    <2>1. report \in Seq(Assertion) /\ DOMAIN report = {}
      BY <1>1
    <2>2. OnceEach(report) /\ KidLines(inv, report) /\ InOrder(inv, report)
      BY <2>1 DEF OnceEach, KidLines, InOrder
    <2> QED
      BY <2>1, <2>2 DEF WellWritten
  <1>4. Stages
    BY <1>1 DEF Stages, NotStarted
  <1> QED
    BY <1>1, <1>2, <1>3, <1>4 DEF IInv

LEMMA StutterKeeps ==
  ASSUME IInv, UNCHANGED vars
  PROVE  IInv'
  <1>1. UNCHANGED <<inv, n, tag, bundle, i, kids, report, exit, pc>>
    BY DEF vars, bundleVars
  <1>2. TypeOK'
    BY <1>1, InvParts DEF TypeOK
  <1>3. WellWritten(inv', report')
    BY <1>1, InvParts
  <1>4. Called' <=> Called
    BY <1>1 DEF Called
  <1>5. Finished' <=> Finished
    BY <1>1 DEF Finished, Compliant
  <1>6. NotStarted' <=> NotStarted
    BY <1>1 DEF NotStarted
  <1>7. InMapCheck' <=> InMapCheck
    BY <1>1 DEF InMapCheck
  <1>8. InFedCheck' <=> InFedCheck
    BY <1>1 DEF InFedCheck
  <1>9. InBundleCheck' <=> InBundleCheck
    BY <1>1, <1>4 DEF InBundleCheck
  <1>10. Stages'
    BY <1>1, <1>5, <1>6, <1>7, <1>8, <1>9 DEF IInv, Stages
  <1> QED
    BY <1>1, <1>2, <1>3, <1>10 DEF IInv

\* The run ends without a verdict.
LEMMA FailureKeeps ==
  ASSUME IInv, UsageError \/ LoadFails \/ BootstrapFails
  PROVE  IInv'
  <1>1. UNCHANGED <<inv, n, tag, bundle, i, kids, report>> /\ pc' = "done" /\ exit' = 2
    BY DEF UsageError, LoadFails, BootstrapFails, Quit, bundleVars
  <1>2. TypeOK'
    BY <1>1, InvParts DEF TypeOK
  <1>3. WellWritten(inv', report')
    BY <1>1, InvParts
  <1>4. Stages'
    BY <1>1 DEF Stages
  <1> QED
    BY <1>1, <1>2, <1>3, <1>4 DEF IInv

LEMMA EmitKeeps ==
  ASSUME IInv, Emit
  PROVE  IInv'
  <1>1. /\ UNCHANGED <<inv, n, tag, bundle, i, kids, report>>
        /\ pc = "emit" /\ pc' = "done" /\ exit' = ExitOf(report)
    BY DEF Emit, Quit, bundleVars
  <1>2. exit' \in {0, 1}
    BY <1>1 DEF ExitOf
  <1>3. TypeOK'
    BY <1>1, <1>2, InvParts DEF TypeOK
  <1>4. WellWritten(inv', report')
    BY <1>1, InvParts
  <1>5. Finished
    BY <1>1, StageIs
  <1>6. Finished'
    BY <1>1, <1>5 DEF Finished, Compliant
  <1>7. Stages'
    BY <1>1, <1>6 DEF Stages
  <1> QED
    BY <1>1, <1>3, <1>4, <1>7 DEF IInv

\* A step that appends to the report and goes on.
LEMMA StepKeeps ==
  ASSUME IInv, UNCHANGED <<inv, n, bundleVars, exit>>, pc # "done", pc' # "done",
         WellWritten(inv, report'), Stages'
  PROVE  IInv'
  <1>1. UNCHANGED <<inv, n, tag, bundle, i, kids, exit>>
    BY DEF bundleVars
  <1>2. report' \in Seq(Assertion)
    BY DEF WellWritten
  <1>3. TypeOK'
    BY <1>1, <1>2, InvParts DEF TypeOK
  <1>4. inv' \in Invocations /\ WellWritten(inv', report') /\ exit' = -1
    BY <1>1, InvParts
  <1> QED
    BY <1>3, <1>4 DEF IInv

\* bundle.check is called.
LEMMA CallKeeps ==
  ASSUME IInv, UNCHANGED <<inv, n, exit>>, pc # "done", pc' = "head",
         i' = 1, kids' = << >>, tag' \in Tags, bundle' \in Bundle, Called',
         WellWritten(inv, report'),
         So(report', TopicsBefore(inv, n), SpoiledBefore(inv, n))
  PROVE  IInv'
  <1>1. report' \in Seq(Assertion)
    BY DEF WellWritten
  <1>2. bundle'.keys \in Seq(Jwk \cup {None})
    BY DEF Bundle
  <1>3. Len(bundle'.keys) \in Nat /\ kids' \in Seq(Kids)
    BY <1>2
  <1>4. TypeOK'
    BY <1>1, <1>3, InvParts DEF TypeOK
  <1>5. inv' \in Invocations /\ WellWritten(inv', report') /\ exit' = -1
    BY InvParts
  <1>6. InBundleCheck'
    BY DEF InBundleCheck
  <1>7. Stages'
    BY <1>6 DEF Stages
  <1> QED
    BY <1>4, <1>5, <1>7 DEF IInv

\* bundle.check returns.
LEMMA ReturnKeeps ==
  ASSUME IInv, Called, bundle \in Bundle, Return, UNCHANGED <<inv, tag, i, kids, exit>>,
         pc # "done",
         WellWritten(inv, report'),
         Topics(report') \subseteq TopicsBefore(inv, n) \cup WholeTopics(tag, bundle),
         Topics(report) \subseteq Topics(report'),
         Failed(report') <=> SpoiledBefore(inv, n) \/ ~GoodBundle(bundle),
         Lined(report', tag, bundle)
  PROVE  IInv'
  <1>1. report' \in Seq(Assertion)
    BY DEF WellWritten
  <1>2. Stages' /\ pc' # "done" /\ bundle' = None /\ n' \in Nat \ {0}
    BY <1>1, BundleEnds
  <1>3. TypeOK'
    BY <1>1, <1>2, InvParts DEF TypeOK
  <1>4. inv' \in Invocations /\ WellWritten(inv', report') /\ exit' = -1
    BY InvParts
  <1> QED
    BY <1>2, <1>3, <1>4 DEF IInv
---------------------------------------------------------------------------
(* bundle.check, action by action.                                         *)

LEMMA InBundle ==
  ASSUME IInv, pc \in {"head", "keys"}
  PROVE  /\ InBundleCheck /\ Called /\ bundle \in Bundle /\ pc # "done"
         /\ inv \in Invocations /\ inv.cmd \in {"bundle", "bundle-map", "federation"}
         /\ WellWritten(inv, report)
         /\ tag \in Tags
  <1>1. InBundleCheck
    BY StageIs
  <1>2. Called /\ bundle \in Bundle
    BY <1>1 DEF InBundleCheck
  <1>3. tag \in Tags
    BY InvParts DEF TypeOK
  <1> QED
    BY <1>1, <1>2, <1>3, InvParts

LEMMA CalledStays ==
  ASSUME Called, UNCHANGED <<inv, n, tag, bundle>>, Topics(report) \subseteq Topics(report'),
         inv.cmd \in {"bundle", "bundle-map", "federation"}
  PROVE  Called'
  <1>1. MembersLined(inv, report, n) => MembersLined(inv, report', n)
    BY LinedMore
  <1>2. CASE inv.cmd = "bundle"
    BY <1>2 DEF Called
  <1>3. CASE inv.cmd = "bundle-map"
    <2>1. /\ Loads(inv.file) /\ IsMap(inv.file.map)
          /\ n \in DOMAIN VisitedOf(inv)
          /\ tag = TagAt(inv, n) /\ bundle = EntryAt(inv, n) /\ bundle # None
          /\ MembersLined(inv, report', n)
      BY <1>1, <1>3 DEF Called
    <2> QED
      BY <1>3, <2>1 DEF Called
  <1>4. CASE inv.cmd = "federation"
    BY <1>4 DEF Called
  <1> QED
    BY <1>2, <1>3, <1>4

LEMMA ShapeKeeps ==
  ASSUME IInv, Shape
  PROVE  IInv'
  <1> DEFINE s == CheckHead(tag, bundle, InMap)
             X == TopicsBefore(inv, n)
             Y == On(HeadClauses, tag)
             bad == SpoiledBefore(inv, n)
  <1>1. /\ pc = "head" /\ bundle.shape = "array"
        /\ report' = report \o s /\ pc' = "keys"
        /\ UNCHANGED <<inv, n, bundleVars, exit>>
        /\ UNCHANGED <<inv, n, tag, bundle, i, kids, exit>>
    BY DEF Shape, bundleVars
  <1>2. /\ InBundleCheck /\ Called /\ bundle \in Bundle
        /\ inv \in Invocations /\ inv.cmd \in {"bundle", "bundle-map", "federation"}
        /\ WellWritten(inv, report) /\ tag \in Tags
    BY <1>1, InBundle
  <1>3. i = 1 /\ kids = << >> /\ Topics(report) \subseteq X /\ (Failed(report) <=> bad)
    BY <1>1, <1>2 DEF InBundleCheck, So
  <1>4. Writes(s, HeadClauses, tag) /\ ~Failed(s)
    BY <1>1, <1>2, HeadTells
  <1>5. Within(s, Y)
    BY <1>4, WritesWithin
  <1>6. X \cap Y = {}
    BY <1>2, CalledNew, CalledParts
  <1>7. \A x \in Topics(s) : x.clause # "BundleKIDUnique" /\ x.clause # "BundleMapEntryIsBundle"
    BY <1>5, OnIs, WholeClausesAre DEF Within, WholeClauses
  <1>8. KidLines(inv, s)
    BY <1>7, NoKidLines
  <1>9. /\ WellWritten(inv, report')
        /\ Topics(report') = Topics(report) \cup Topics(s) /\ Topics(report') \subseteq X \cup Y
        /\ Failed(report') <=> Failed(report) \/ Failed(s)
    <2> HIDE DEF s, X, Y
    <2> QED
      BY <1>1, <1>2, <1>3, <1>5, <1>6, <1>7, <1>8, Grows
  <1>10. Called'
    BY <1>1, <1>2, <1>9, CalledStays
  <1>11. Y = PartTopics(tag, bundle, 1)
    BY <1>2, CalledParts
  <1>12. bundle.keys \in Seq(Jwk \cup {None})
    BY <1>2 DEF Bundle
  <1>13. 1 <= Len(bundle.keys) + 1 /\ \A e \in DOMAIN bundle.keys : ~(e < 1)
    BY <1>12
  <1>14. EntriesLined(report', tag, bundle, 1)
    BY <1>13 DEF EntriesLined
  <1>15. KidsAre(<< >>, bundle, 1)
    BY <1>2, NoKidsYet
  <1> DEFINE bad2 == \E e \in DOMAIN bundle.keys : e < 1 /\ ~GoodEntry(bundle.keys[e])
  <1>16. ~bad2
    BY <1>13
  <1>17. So(report', X \cup PartTopics(tag, bundle, 1), bad \/ bad2)
    <2> HIDE DEF X, Y, bad, bad2, s
    <2>1. Topics(report') \subseteq X \cup PartTopics(tag, bundle, 1)
      BY <1>9, <1>11
    <2>2. Failed(report') <=> bad \/ bad2
      BY <1>3, <1>4, <1>9, <1>16, Zenon
    <2> QED
      BY <2>1, <2>2, Zenon DEF So
  <1>18. InBundleCheck'
    <2>1. /\ bundle'.shape = "array" /\ EntriesLined(report', tag', bundle', i')
          /\ KidsAre(kids', bundle', i') /\ bundle' \in Bundle
          /\ i' <= Len(bundle'.keys) + 1
      BY <1>1, <1>2, <1>3, <1>13, <1>14, <1>15
    <2>2. So(report', TopicsBefore(inv', n') \cup PartTopics(tag', bundle', i'),
             SpoiledBefore(inv', n') \/ \E e \in DOMAIN bundle'.keys :
                                          e < i' /\ ~GoodEntry(bundle'.keys[e]))
      BY <1>1, <1>3, <1>17
    <2>3. pc' # "head"
      BY <1>1
    <2> QED
      BY <1>10, <2>1, <2>2, <2>3, Zenon DEF InBundleCheck
  <1>19. Stages'
    BY <1>1, <1>18 DEF Stages
  <1> QED
    BY <1>1, <1>9, <1>19, StepKeeps

LEMMA NoKeysKeeps ==
  ASSUME IInv, NoKeys
  PROVE  IInv'
  <1> DEFINE s == CheckHead(tag, bundle, InMap)
             X == TopicsBefore(inv, n)
             Y == On(HeadClauses, tag)
  <1>1. /\ pc = "head" /\ bundle.shape # "array"
        /\ report' = report \o s /\ Return
        /\ UNCHANGED <<inv, tag, i, kids, exit>>
    BY DEF NoKeys
  <1>2. /\ InBundleCheck /\ Called /\ bundle \in Bundle /\ pc # "done"
        /\ inv \in Invocations /\ inv.cmd \in {"bundle", "bundle-map", "federation"}
        /\ WellWritten(inv, report) /\ tag \in Tags
    BY <1>1, InBundle
  <1>3. Topics(report) \subseteq X /\ (Failed(report) <=> SpoiledBefore(inv, n))
    BY <1>1, <1>2 DEF InBundleCheck, So
  <1>4. Within(s, Y) /\ Failed(s)
    BY <1>1, <1>2, NoHeadTells DEF Within
  <1>5. Y \subseteq WholeTopics(tag, bundle) /\ X \cap Y = {}
    BY <1>2, CalledNew, CalledParts
  <1>6. \A x \in Topics(s) : x.clause # "BundleKIDUnique" /\ x.clause # "BundleMapEntryIsBundle"
    BY <1>4, OnIs, WholeClausesAre DEF Within, WholeClauses
  <1>7. KidLines(inv, s)
    BY <1>6, NoKidLines
  <1>8. /\ WellWritten(inv, report')
        /\ Topics(report') = Topics(report) \cup Topics(s) /\ Topics(report') \subseteq X \cup Y
        /\ Failed(report') <=> Failed(report) \/ Failed(s)
    <2> HIDE DEF s, X, Y
    <2> QED
      BY <1>1, <1>2, <1>3, <1>4, <1>5, <1>6, <1>7, Grows
  <1>9. ~GoodBundle(bundle) /\ Lined(report', tag, bundle)
    BY <1>1 DEF GoodBundle, Lined
  <1>10. Topics(report') \subseteq X \cup WholeTopics(tag, bundle)
    BY <1>5, <1>8
  <1>11. Failed(report') <=> SpoiledBefore(inv, n) \/ ~GoodBundle(bundle)
    <2> HIDE DEF s
    <2> QED
      BY <1>4, <1>8, <1>9, Zenon
  <1> QED
    BY <1>1, <1>2, <1>8, <1>9, <1>10, <1>11, ReturnKeeps

LEMMA EntryKeeps ==
  ASSUME IInv, Entry
  PROVE  IInv'
  <1> DEFINE s == CheckEntry(KeyTag(tag, i), bundle.keys[i])
             X == TopicsBefore(inv, n) \cup PartTopics(tag, bundle, i)
             Y == On(EntryClauses, KeyTag(tag, i))
             bad == SpoiledBefore(inv, n)
             Spoiled(k) == \E e \in DOMAIN bundle.keys : e < k /\ ~GoodEntry(bundle.keys[e])
  <1>1. /\ pc = "keys" /\ i <= Len(bundle.keys)
        /\ report' = report \o s /\ kids' = kids \o KidOf(bundle.keys[i])
        /\ i' = i + 1
        /\ UNCHANGED <<inv, n, tag, bundle, exit, pc>>
    BY DEF Entry
  <1>2. /\ InBundleCheck /\ Called /\ bundle \in Bundle /\ pc # "done"
        /\ inv \in Invocations /\ inv.cmd \in {"bundle", "bundle-map", "federation"}
        /\ WellWritten(inv, report) /\ tag \in Tags
    BY <1>1, InBundle
  <1>3. /\ bundle.shape = "array" /\ EntriesLined(report, tag, bundle, i)
        /\ KidsAre(kids, bundle, i)
        /\ So(report, X, bad \/ Spoiled(i))
    BY <1>1, <1>2 DEF InBundleCheck
  <1>4. Topics(report) \subseteq X /\ (Failed(report) <=> bad \/ Spoiled(i))
    BY <1>3, Zenon DEF So
  <1>5. bundle.keys \in Seq(Jwk \cup {None}) /\ i \in Nat \ {0} /\ kids \in Seq(Kids)
    BY <1>2, InvParts DEF Bundle, TypeOK
  <1>6. /\ i \in DOMAIN bundle.keys /\ bundle.keys[i] \in Jwk \cup {None}
        /\ i + 1 \in Nat \ {0} /\ i + 1 <= Len(bundle.keys) + 1
        /\ \A e \in DOMAIN bundle.keys : e < i + 1 <=> e < i \/ e = i
    BY <1>1, <1>5
  <1>7. /\ KeyTag(tag, i) \in Tags
        /\ PartTopics(tag, bundle, i) \cap Y = {}
        /\ PartTopics(tag, bundle, i) \cup Y \subseteq PartTopics(tag, bundle, i + 1)
        /\ Y \subseteq WholeTopics(tag, bundle)
    BY <1>2, <1>6, CalledParts
  <1>8. X \cap Y = {}
    BY <1>2, <1>7, CalledNew
  <1>9. /\ Writes(s, EntryClauses, KeyTag(tag, i))
        /\ Failed(s) <=> ~GoodEntry(bundle.keys[i])
        /\ Topic("BundleKeyKTYSet", KeyTag(tag, i)) \in Topics(s)
    BY <1>6, <1>7, EntryTells
  <1>10. Within(s, Y)
    BY <1>9, WritesWithin
  <1>11. \A x \in Topics(s) : x.clause # "BundleKIDUnique" /\ x.clause # "BundleMapEntryIsBundle"
    BY <1>10, OnIs, WholeClausesAre DEF Within, WholeClauses
  <1>12. KidLines(inv, s)
    BY <1>11, NoKidLines
  <1>13. /\ WellWritten(inv, report')
         /\ Topics(report') = Topics(report) \cup Topics(s) /\ Topics(report') \subseteq X \cup Y
         /\ Failed(report') <=> Failed(report) \/ Failed(s)
    <2> HIDE DEF s, X, Y
    <2> QED
      BY <1>1, <1>2, <1>4, <1>8, <1>10, <1>11, <1>12, Grows
  <1>14. Called'
    BY <1>1, <1>2, <1>13, CalledStays
  <1>15. EntriesLined(report', tag, bundle, i + 1)
    <2>1. EntriesLined(report', tag, bundle, i)
      BY <1>3, <1>13, LinedMore
    <2>2. Topic("BundleKeyKTYSet", KeyTag(tag, i)) \in Topics(report')
      BY <1>9, <1>13
    <2> QED
      BY <1>6, <2>1, <2>2, Zenon DEF EntriesLined
  <1>16. /\ kids' \in Seq(Kids)
         /\ KidsAre(kids', bundle, i + 1)
    BY <1>1, <1>2, <1>3, <1>5, <1>6, KidsAreStep
  <1>17. Spoiled(i + 1) <=> Spoiled(i) \/ ~GoodEntry(bundle.keys[i])
    BY <1>6, Zenon
  <1>18. So(report', TopicsBefore(inv, n) \cup PartTopics(tag, bundle, i + 1), bad \/ Spoiled(i + 1))
    <2>1. Topics(report') \subseteq TopicsBefore(inv, n) \cup PartTopics(tag, bundle, i + 1)
      BY <1>7, <1>13
    <2> HIDE DEF bad, Spoiled, s
    <2>2. Failed(report') <=> bad \/ Spoiled(i + 1)
      BY <1>4, <1>9, <1>13, <1>17, Zenon
    <2> QED
      BY <2>1, <2>2, Zenon DEF So
  <1>19. InBundleCheck'
    <2>1. /\ bundle'.shape = "array" /\ EntriesLined(report', tag', bundle', i')
          /\ KidsAre(kids', bundle', i') /\ bundle' \in Bundle
          /\ i' <= Len(bundle'.keys) + 1
      BY <1>1, <1>2, <1>3, <1>6, <1>15, <1>16
    <2>2. So(report', TopicsBefore(inv', n') \cup PartTopics(tag', bundle', i'),
             SpoiledBefore(inv', n') \/ \E e \in DOMAIN bundle'.keys :
                                          e < i' /\ ~GoodEntry(bundle'.keys[e]))
      BY <1>1, <1>18
    <2>3. pc' # "head"
      BY <1>1
    <2> QED
      BY <1>14, <2>1, <2>2, <2>3, Zenon DEF InBundleCheck
  <1>20. Stages'
    BY <1>1, <1>19 DEF Stages
  <1>21. TypeOK'
    <2>1. report' \in Seq(Assertion)
      BY <1>13 DEF WellWritten
    <2> QED
      BY <1>1, <1>6, <1>16, <2>1, InvParts DEF TypeOK
  <1>22. inv' \in Invocations /\ WellWritten(inv', report') /\ exit' = -1
    BY <1>1, <1>2, <1>13, InvParts
  <1> QED
    BY <1>1, <1>20, <1>21, <1>22 DEF IInv

LEMMA KIDUniquenessKeeps ==
  ASSUME IInv, KIDUniqueness
  PROVE  IInv'
  <1> DEFINE s == CheckKIDUniqueness(tag, kids)
             X == TopicsBefore(inv, n) \cup PartTopics(tag, bundle, i)
             Y == On({"BundleKIDUnique"}, tag)
             bad == SpoiledBefore(inv, n)
             Spoiled(k) == \E e \in DOMAIN bundle.keys : e < k /\ ~GoodEntry(bundle.keys[e])
  <1>1. /\ pc = "keys" /\ i > Len(bundle.keys)
        /\ report' = report \o s /\ Return
        /\ UNCHANGED <<inv, tag, i, kids, exit>>
    BY DEF KIDUniqueness
  <1>2. /\ InBundleCheck /\ Called /\ bundle \in Bundle /\ pc # "done"
        /\ inv \in Invocations /\ inv.cmd \in {"bundle", "bundle-map", "federation"}
        /\ WellWritten(inv, report) /\ tag \in Tags
    BY <1>1, InBundle
  <1>3. /\ bundle.shape = "array" /\ EntriesLined(report, tag, bundle, i)
        /\ KidsAre(kids, bundle, i)
        /\ So(report, X, bad \/ Spoiled(i))
    BY <1>1, <1>2 DEF InBundleCheck
  <1>4. Topics(report) \subseteq X /\ (Failed(report) <=> bad \/ Spoiled(i))
    BY <1>3, Zenon DEF So
  <1>5. bundle.keys \in Seq(Jwk \cup {None}) /\ i \in Nat \ {0} /\ kids \in Seq(Kids)
    BY <1>2, InvParts DEF Bundle, TypeOK
  <1>6. i <= Len(bundle.keys) + 1
    BY <1>1, <1>2 DEF InBundleCheck
  <1>7. i = Len(bundle.keys) + 1 /\ \A e \in DOMAIN bundle.keys : e < i
    BY <1>1, <1>5, <1>6
  <1>8. PartTopics(tag, bundle, i) \cap Y = {} /\ PartTopics(tag, bundle, i) \cup Y = WholeTopics(tag, bundle)
    BY <1>7, PartsWhole
  <1>9. X \cap Y = {}
    BY <1>2, <1>8, CalledNew
  <1>10. /\ Writes(s, {"BundleKIDUnique"}, tag)
         /\ Failed(s) <=> KidsClash(bundle)
         /\ Keyed(bundle) # {} => Topic("BundleKIDUnique", tag) \in Topics(s)
         /\ \A k \in DOMAIN s :
              Keyed(bundle) # {} /\ (s[k].status = "fail" <=> KidsClash(bundle))
    <2>1. KidsAre(kids, bundle, Len(bundle.keys) + 1)
      BY <1>3, <1>7
    <2> QED
      BY <1>2, <1>5, <2>1, KidsTell, Zenon
  <1>11. Within(s, Y)
    BY <1>10, WritesWithin
  <1>12. \A x \in Topics(s) : x.clause # "BundleMapEntryIsBundle"
    BY <1>11, OnIs DEF Within
  <1>13. KidLines(inv, s)
    <2> SUFFICES ASSUME NEW k \in DOMAIN s, NEW x \in BundlesOf(inv), x.tag = s[k].about
                 PROVE  /\ Keyed(x.b) # {}
                        /\ s[k].status = "fail" <=> KidsClash(x.b)
      BY DEF KidLines
    <2>1. Topic(s[k].clause, s[k].about) \in Y
      BY <1>11, TopicsAre DEF Within
    <2>2. s[k].about = tag
      BY <2>1, OnIs, TopicParts
    <2> DEFINE y == [tag |-> tag, b |-> bundle]
    <2>3. y \in BundlesOf(inv) /\ y.tag = tag /\ y.b = bundle
      BY <1>2, CalledIs
    <2>4. x = y
      <3> HIDE DEF y
      <3> QED
        BY <1>2, <2>2, <2>3, BundlesAre
    <2>5. x.b = bundle
      BY <2>4
    <2> HIDE DEF s
    <2> QED
      BY <1>10, <2>5
  <1>14. /\ WellWritten(inv, report')
         /\ Topics(report') = Topics(report) \cup Topics(s) /\ Topics(report') \subseteq X \cup Y
         /\ Failed(report') <=> Failed(report) \/ Failed(s)
    <2> HIDE DEF s, X, Y
    <2> QED
      BY <1>1, <1>2, <1>4, <1>9, <1>11, <1>12, <1>13, Grows
  <1>15. Topics(report') \subseteq TopicsBefore(inv, n) \cup WholeTopics(tag, bundle)
    BY <1>8, <1>14
  <1>16. GoodBundle(bundle) <=> ~Spoiled(i) /\ ~KidsClash(bundle)
    BY <1>3, <1>7, Zenon DEF GoodBundle
  <1>17. Failed(report') <=> bad \/ ~GoodBundle(bundle)
    <2> HIDE DEF s, bad, Spoiled
    <2> QED
      BY <1>4, <1>10, <1>14, <1>16, Zenon
  <1>18. Lined(report', tag, bundle)
    <2>1. EntriesLined(report', tag, bundle, Len(bundle.keys) + 1)
      BY <1>3, <1>7, <1>14, LinedMore
    <2>2. Keyed(bundle) # {} => Topic("BundleKIDUnique", tag) \in Topics(report')
      BY <1>10, <1>14
    <2> QED
      BY <2>1, <2>2, Zenon DEF Lined
  <1> QED
    BY <1>1, <1>2, <1>14, <1>15, <1>17, <1>18, ReturnKeeps
---------------------------------------------------------------------------
(* The three commands, action by action.                                   *)

LEMMA AtStart ==
  ASSUME IInv, pc = "args"
  PROVE  /\ report = << >> /\ n = 1 /\ Topics(report) = {} /\ ~Failed(report)
         /\ report \in Seq(Assertion)
  <1>1. report = << >> /\ n = 1
    BY StageIs DEF NotStarted
  <1> QED
    BY <1>1, NoLine, InvParts

LEMMA CheckBundleFileKeeps ==
  ASSUME IInv, CheckBundleFile
  PROVE  IInv'
  <1>1. /\ pc = "args" /\ inv.cmd = "bundle" /\ Loads(inv.file)
        /\ pc' = "head" /\ bundle' = inv.file.bundle
        /\ i' = 1 /\ kids' = << >> /\ UNCHANGED <<inv, n, exit, report>>
    BY DEF CheckBundleFile, Call
  <1>2. tag' = NoTag
    BY DEF CheckBundleFile, Call, NoTag
  <1>3. inv \in Invocations /\ WellWritten(inv, report)
    BY InvParts
  <1>4. bundle' \in Bundle
    BY <1>1, <1>3, InvocationAssumption
  <1>5. tag' \in Tags
    <2>1. NoTag \in Tags
      BY TagAssumption DEF NoTag
    <2> QED
      BY <1>2, <2>1
  <1>6. Called'
    BY <1>1, <1>2 DEF Called, NoTag
  <1>7. Topics(report) = {} /\ ~Failed(report)
    BY <1>1, AtStart
  <1>8. So(report', TopicsBefore(inv, n), SpoiledBefore(inv, n))
    <2>1. ~SpoiledBefore(inv, n)
      BY <1>1, Zenon DEF SpoiledBefore
    <2> QED
      BY <1>1, <1>7, <2>1 DEF So
  <1> QED
    BY <1>1, <1>3, <1>4, <1>5, <1>6, <1>8, CallKeeps

---------------------------------------------------------------------------
(* bundlemap.Check                                                         *)

LEMMA TrustDomainsPresentKeeps ==
  ASSUME IInv, TrustDomainsPresent
  PROVE  IInv'
  <1> DEFINE s == CheckTrustDomainsPresent(inv.file.map)
             Y == On({"BundleMapTrustDomainsPresent"}, NoTag)
  <1>1. /\ pc = "args" /\ inv.cmd = "bundle-map" /\ Loads(inv.file)
        /\ pc' = IF IsMap(inv.file.map) THEN "unique" ELSE "emit"
        /\ report' = report \o s
        /\ UNCHANGED <<inv, n, bundleVars, exit>>
    BY DEF TrustDomainsPresent, Check
  <1>2. inv \in Invocations /\ WellWritten(inv, report)
    BY InvParts
  <1>3. n = 1 /\ Topics(report) = {} /\ ~Failed(report)
    BY <1>1, AtStart
  <1>4. /\ Writes(s, {"BundleMapTrustDomainsPresent"}, NoTag)
        /\ Failed(s) <=> ~IsMap(inv.file.map)
    BY PresentTells
  <1>5. Within(s, Y)
    BY <1>4, WritesWithin
  <1>6. \A x \in Topics(s) : x.clause # "BundleKIDUnique" /\ x.clause # "BundleMapEntryIsBundle"
    BY <1>5, OnIs DEF Within
  <1>7. KidLines(inv, s)
    BY <1>6, NoKidLines
  <1>8. /\ WellWritten(inv, report')
        /\ Topics(report') \subseteq Y
        /\ Failed(report') <=> Failed(report) \/ Failed(s)
    <2> HIDE DEF s, Y
    <2>1. PICK nothing : nothing = {}
      OBVIOUS
    <2>2. nothing \cap Y = {} /\ Topics(report) \subseteq nothing /\ nothing \cup Y = Y
      BY <1>3, <2>1
    <2>3. /\ WellWritten(inv, report \o s)
          /\ Topics(report \o s) \subseteq nothing \cup Y
          /\ Failed(report \o s) <=> Failed(report) \/ Failed(s)
      BY <1>2, <1>5, <1>6, <1>7, <2>2, Grows
    <2> QED
      BY <1>1, <2>2, <2>3
  <1>9. Failed(report') <=> ~IsMap(inv.file.map)
    <2> HIDE DEF s
    <2> QED
      BY <1>3, <1>4, <1>8, Zenon
  <1>10. CASE IsMap(inv.file.map)
    <2>1. So(report', Y, FALSE)
      BY <1>8, <1>9, <1>10 DEF So
    <2>2. pc' = "unique" /\ inv' = inv /\ n' = 1
      BY <1>1, <1>3, <1>10
    <2>3. InMapCheck'
      BY <1>1, <1>10, <2>1, <2>2 DEF InMapCheck
    <2>4. Stages'
      BY <2>2, <2>3 DEF Stages
    <2> QED
      BY <1>1, <1>8, <2>2, <2>4, StepKeeps
  <1>11. CASE ~IsMap(inv.file.map)
    <2>1. pc' = "emit" /\ inv' = inv
      BY <1>1, <1>11
    <2>2. ~GoodMap(inv.file.map)
      BY <1>11, Zenon DEF GoodMap
    <2>3. BundlesOf(inv) = {}
      BY <1>1, <1>2, <1>11, BundlesOfMap, Zenon
    <2>4. Failed(report')
      BY <1>9, <1>11
    <2>5. ~Compliant'
      BY <1>1, <2>1, <2>2 DEF Compliant
    <2>6. Finished'
      BY <2>1, <2>3, <2>4, <2>5 DEF Finished
    <2>7. Stages'
      BY <2>1, <2>6 DEF Stages
    <2> QED
      BY <1>1, <1>8, <2>1, <2>7, StepKeeps
  <1> QED
    BY <1>10, <1>11

LEMMA InMapIs ==
  ASSUME IInv, pc \in {"unique", "entry"}
  PROVE  /\ InMapCheck
         /\ inv \in Invocations /\ inv.cmd = "bundle-map"
         /\ Loads(inv.file) /\ IsMap(inv.file.map)
         /\ WellWritten(inv, report)
         /\ MapNames = NamesOf(inv) /\ Visited = VisitedOf(inv) /\ MapEntries = EntriesOf(inv)
         /\ VisitedOf(inv) \in Seq(TrustDomains) /\ n \in Nat \ {0}
  <1>1. InMapCheck
    BY StageIs
  <1>2. inv.cmd = "bundle-map" /\ Loads(inv.file) /\ IsMap(inv.file.map)
    BY <1>1 DEF InMapCheck
  <1>3. MapNames = NamesOf(inv) /\ Visited = VisitedOf(inv) /\ MapEntries = EntriesOf(inv)
    BY DEF MapNames, Visited, MapEntries, NamesOf, VisitedOf, EntriesOf
  <1>4. inv \in Invocations /\ n \in Nat \ {0} /\ WellWritten(inv, report)
    BY InvParts DEF TypeOK
  <1>5. VisitedOf(inv) \in Seq(TrustDomains)
    BY <1>2, <1>4, VisitedParts
  <1> QED
    BY <1>1, <1>2, <1>3, <1>4, <1>5

LEMMA UniquenessKeeps ==
  ASSUME IInv, Uniqueness
  PROVE  IInv'
  <1> DEFINE s == CheckUniqueness(NamesOf(inv))
             X == On({"BundleMapTrustDomainsPresent"}, NoTag)
             Y == On({"BundleMapTrustDomainsUnique"}, NoTag)
  <1>1. pc = "unique" /\ pc' = "entry" /\ UNCHANGED <<inv, n, bundleVars, exit>>
    BY DEF Uniqueness, Check
  <1>2. /\ InMapCheck /\ inv \in Invocations /\ inv.cmd = "bundle-map"
        /\ Loads(inv.file) /\ IsMap(inv.file.map)
        /\ WellWritten(inv, report)
        /\ MapNames = NamesOf(inv)
        /\ VisitedOf(inv) \in Seq(TrustDomains)
    BY <1>1, InMapIs
  <1>3. report' = report \o s
    BY <1>2 DEF Uniqueness, Check
  <1>4. n = 1 /\ Topics(report) \subseteq X /\ ~Failed(report)
    BY <1>1, <1>2 DEF InMapCheck, So
  <1>5. /\ Writes(s, {"BundleMapTrustDomainsUnique"}, NoTag)
        /\ Failed(s) <=> ~IsInjective(NamesOf(inv))
    BY UniquenessTells
  <1>6. Within(s, Y)
    BY <1>5, WritesWithin
  <1>7. \A x \in Topics(s) : x.clause # "BundleKIDUnique" /\ x.clause # "BundleMapEntryIsBundle"
    BY <1>6, OnIs DEF Within
  <1>8. KidLines(inv, s)
    BY <1>7, NoKidLines
  <1>9. X \cap Y = {}
    <2>1. {"BundleMapTrustDomainsPresent"} \cap {"BundleMapTrustDomainsUnique"} = {}
      OBVIOUS
    <2> QED
      BY <2>1, OnDisjoint
  <1>10. /\ WellWritten(inv, report')
         /\ Topics(report') \subseteq X \cup Y
         /\ Failed(report') <=> Failed(report) \/ Failed(s)
    <2> HIDE DEF s, X, Y
    <2>1. /\ WellWritten(inv, report \o s)
          /\ Topics(report \o s) \subseteq X \cup Y
          /\ Failed(report \o s) <=> Failed(report) \/ Failed(s)
      <3>1. WellWritten(inv, report)
        BY <1>2
      <3>2. Topics(report) \subseteq X
        BY <1>4
      <3>3. \A x \in Topics(s) : x.clause # "BundleMapEntryIsBundle"
        BY <1>7
      <3> QED
        BY <1>6, <1>8, <1>9, <3>1, <3>2, <3>3, Grows
    <2> QED
      BY <1>3, <2>1
  <1>11. X \cup Y = MapTopics(inv, 1)
    <2>1. {"BundleMapTrustDomainsPresent"} \cup {"BundleMapTrustDomainsUnique"}
            = {"BundleMapTrustDomainsPresent", "BundleMapTrustDomainsUnique"}
      OBVIOUS
    <2>2. X \cup Y = On({"BundleMapTrustDomainsPresent", "BundleMapTrustDomainsUnique"}, NoTag)
      BY <2>1, OnBoth
    <2> QED
      BY <1>2, <2>2, MapTopicsFirst
  <1>12. 1 <= Len(VisitedOf(inv)) + 1 /\ \A m \in DOMAIN VisitedOf(inv) : ~(m < 1)
    BY <1>2
  <1>13. MapSpoiled(inv, 1) <=> ~IsInjective(NamesOf(inv))
    BY <1>12, Zenon DEF MapSpoiled
  <1>14. MembersLined(inv, report', 1)
    BY <1>12, Zenon DEF MembersLined
  <1>15. So(report', MapTopics(inv, 1), MapSpoiled(inv, 1))
    <2> HIDE DEF s, X, Y
    <2>1. Failed(report') <=> MapSpoiled(inv, 1)
      BY <1>4, <1>5, <1>10, <1>13, Zenon
    <2>2. Topics(report') \subseteq MapTopics(inv, 1)
      BY <1>10, <1>11
    <2> QED
      BY <2>1, <2>2, Zenon DEF So
  <1>16. InMapCheck'
    BY <1>1, <1>2, <1>4, <1>12, <1>14, <1>15 DEF InMapCheck
  <1>17. Stages'
    BY <1>1, <1>16 DEF Stages
  <1> QED
    BY <1>1, <1>10, <1>17, StepKeeps

LEMMA MapEntryKeeps ==
  ASSUME IInv, MapEntry
  PROVE  IInv'
  <1> DEFINE name == NameAt(inv, n)
             entry == EntryAt(inv, n)
             s == CheckMapEntry(name, entry)
             M == On(MemberClauses, TagAt(inv, n))
  <1>1. pc = "entry" /\ n <= Len(Visited)
    BY DEF MapEntry
  <1>2. /\ InMapCheck /\ inv \in Invocations /\ inv.cmd = "bundle-map"
        /\ Loads(inv.file) /\ IsMap(inv.file.map)
        /\ WellWritten(inv, report)
        /\ MapNames = NamesOf(inv) /\ Visited = VisitedOf(inv) /\ MapEntries = EntriesOf(inv)
        /\ VisitedOf(inv) \in Seq(TrustDomains) /\ n \in Nat \ {0}
    BY <1>1, InMapIs
  <1>3. n \in DOMAIN VisitedOf(inv) /\ n + 1 \in Nat \ {0} /\ n + 1 <= Len(VisitedOf(inv)) + 1
    BY <1>1, <1>2
  <1>4. /\ report' = report \o s
        /\ IF entry = None
           THEN n' = n + 1 /\ UNCHANGED <<inv, bundleVars, exit, pc>>
           ELSE Call("entry", TagAt(inv, n), entry)
    BY <1>2, Zenon DEF MapEntry, NameAt, EntryAt, TagAt
  <1>5. /\ So(report, MapTopics(inv, n), MapSpoiled(inv, n))
        /\ MembersLined(inv, report, n)
    BY <1>1, <1>2 DEF InMapCheck
  <1>6. Topics(report) \subseteq MapTopics(inv, n) /\ (Failed(report) <=> MapSpoiled(inv, n))
    BY <1>5, Zenon DEF So
  <1>7. name \in TrustDomains /\ entry \in Bundle \cup {None} /\ TagAt(inv, n) \in Tags
    BY <1>2, <1>3, EntriesAre, TagsAre
  <1>8. /\ Writes(s, MemberClauses, TagAt(inv, n))
        /\ Failed(s) <=> ~GoodTrustDomain(name) \/ entry = None
    BY <1>7, MemberTells DEF TagAt
  <1>9. /\ WellWritten(inv, report')
        /\ Topics(report') = Topics(report) \cup Topics(s)
        /\ Topics(report') \subseteq MapTopics(inv, n) \cup M
        /\ Failed(report') <=> Failed(report) \/ Failed(s)
    <2> HIDE DEF s
    <2>1. /\ WellWritten(inv, report \o s)
          /\ Topics(report \o s) = Topics(report) \cup Topics(s)
          /\ Topics(report \o s) \subseteq MapTopics(inv, n) \cup M
          /\ Failed(report \o s) <=> Failed(report) \/ Failed(s)
      BY <1>2, <1>3, <1>6, <1>8, MemberLines
    <2> QED
      BY <1>4, <2>1
  <1>10. MembersLined(inv, report', n)
    BY <1>5, <1>9, LinedMore
  <1>11. CASE entry = None
    <2>1. n' = n + 1 /\ UNCHANGED <<inv, tag, bundle, i, kids, exit, pc>>
      BY <1>4, <1>11 DEF bundleVars
    <2>2. MapTopics(inv, n + 1) = MapTopics(inv, n) \cup MemberTopics(inv, n)
      BY <1>2, <1>3, MapTopicsGrow
    <2>3. M \subseteq MemberTopics(inv, n)
      BY DEF MemberTopics
    <2>4. Topics(report') \subseteq MapTopics(inv, n + 1)
      BY <1>9, <2>2, <2>3
    <2>5. ~GoodMember(inv, n)
      BY <1>11, Zenon DEF GoodMember
    <2>6. MapSpoiled(inv, n + 1)
      BY <1>2, <1>3, <2>5, NextMember
    <2>7. Failed(report')
      <3> HIDE DEF s, entry
      <3> QED
        BY <1>8, <1>9, <1>11, Zenon
    <2>8. So(report', MapTopics(inv, n + 1), MapSpoiled(inv, n + 1))
      BY <2>4, <2>6, <2>7, Zenon DEF So
    <2>9. MembersLined(inv, report', n + 1)
      BY <1>2, <1>3, <1>10, <1>11, NextMember, Zenon
    <2>10. InMapCheck'
      BY <1>1, <1>2, <1>3, <2>1, <2>8, <2>9 DEF InMapCheck
    <2>11. Stages'
      BY <1>1, <2>1, <2>10 DEF Stages
    <2>12. report' \in Seq(Assertion)
      BY <1>9 DEF WellWritten
    <2>13. TypeOK'
      BY <1>3, <2>1, <2>12, InvParts DEF TypeOK
    <2>14. inv' \in Invocations /\ WellWritten(inv', report') /\ exit' = -1
      BY <1>1, <1>2, <1>9, <2>1, InvParts
    <2> QED
      BY <2>11, <2>13, <2>14 DEF IInv
  <1>12. CASE entry # None
    <2>1. /\ pc' = "head" /\ tag' = TagAt(inv, n) /\ bundle' = entry
          /\ i' = 1 /\ kids' = << >> /\ UNCHANGED <<inv, n, exit>>
      BY <1>4, <1>12 DEF Call
    <2>2. tag' \in Tags /\ bundle' \in Bundle
      BY <1>7, <1>12, <2>1
    <2>3. Called'
      BY <1>2, <1>3, <1>10, <1>12, <2>1 DEF Called
    <2>4. TopicsBefore(inv, n) = MapTopics(inv, n) \cup M
      BY <1>2, Zenon DEF TopicsBefore
    <2>5. SpoiledBefore(inv, n) <=> MapSpoiled(inv, n) \/ ~GoodTrustDomain(name)
      BY <1>2, Zenon DEF SpoiledBefore
    <2>6. Failed(report') <=> SpoiledBefore(inv, n)
      <3> HIDE DEF s, entry, name
      <3> QED
        BY <1>6, <1>8, <1>9, <1>12, <2>5, Zenon
    <2>7. So(report', TopicsBefore(inv, n), SpoiledBefore(inv, n))
      BY <1>9, <2>4, <2>6, Zenon DEF So
    <2> QED
      BY <1>1, <1>9, <2>1, <2>2, <2>3, <2>7, CallKeeps
  <1> QED
    BY <1>11, <1>12

LEMMA MapEndsKeeps ==
  ASSUME IInv, MapEnds
  PROVE  IInv'
  <1>1. /\ pc = "entry" /\ pc' = "emit" /\ report' = report \o << >>
        /\ UNCHANGED <<inv, n, bundleVars, exit>> /\ n > Len(Visited)
    BY DEF MapEnds, Check
  <1>2. /\ InMapCheck /\ inv \in Invocations /\ inv.cmd = "bundle-map"
        /\ Loads(inv.file) /\ IsMap(inv.file.map)
        /\ WellWritten(inv, report) /\ report \in Seq(Assertion)
        /\ Visited = VisitedOf(inv)
        /\ VisitedOf(inv) \in Seq(TrustDomains) /\ n \in Nat \ {0}
    BY <1>1, InMapIs, InvParts
  <1>3. report' = report
    BY <1>1, <1>2
  <1>4. /\ So(report, MapTopics(inv, n), MapSpoiled(inv, n))
        /\ MembersLined(inv, report, n)
    BY <1>1, <1>2 DEF InMapCheck
  <1>5. \A m \in DOMAIN VisitedOf(inv) : m < n
    BY <1>1, <1>2
  <1>6. Failed(report) <=> ~GoodMap(inv.file.map)
    <2>1. Failed(report) <=> MapSpoiled(inv, n)
      BY <1>4, Zenon DEF So
    <2>2. MapSpoiled(inv, n) <=>
            ~(IsInjective(NamesOf(inv)) /\ \A m \in DOMAIN VisitedOf(inv) : GoodMember(inv, m))
      BY <1>5, Zenon DEF MapSpoiled
    <2>3. GoodMap(inv.file.map) <=>
            (IsInjective(NamesOf(inv)) /\ \A m \in DOMAIN VisitedOf(inv) : GoodMember(inv, m))
      BY <1>2, GoodMapIs, Zenon
    <2> QED
      BY <2>1, <2>2, <2>3, Zenon
  <1>7. ASSUME NEW x \in BundlesOf(inv)
        PROVE  Lined(report, x.tag, x.b)
    <2>1. PICK m \in DOMAIN VisitedOf(inv) :
            x = [tag |-> TagAt(inv, m), b |-> EntryAt(inv, m)] /\ EntryAt(inv, m) # None
      BY <1>2, BundlesOfMap, Zenon
    <2>2. Lined(report, TagAt(inv, m), EntryAt(inv, m))
      BY <1>4, <1>5, <2>1, Zenon DEF MembersLined
    <2>3. x.tag = TagAt(inv, m) /\ x.b = EntryAt(inv, m)
      BY <2>1
    <2> QED
      BY <2>2, <2>3
  <1>8. Compliant' <=> GoodMap(inv.file.map)
    BY <1>1, <1>2, Zenon DEF Compliant
  <1>9. Finished'
    BY <1>1, <1>3, <1>6, <1>7, <1>8 DEF Finished
  <1>10. Stages'
    BY <1>1, <1>9 DEF Stages
  <1> QED
    BY <1>1, <1>2, <1>3, <1>10, StepKeeps
---------------------------------------------------------------------------
(* federation.Check                                                        *)

LEMMA FedTopicIs ==
  ASSUME NEW at, NEW x \in FedTopics(at)
  PROVE  x.clause # "BundleKIDUnique" /\ x.clause # "BundleMapEntryIsBundle"
  <1>1. FedClauses(at) \subseteq FederationClauses \cup SpiffeIdClauses
    BY FedClausesAre DEF FedClauses
  <1>2. x.clause \in FederationClauses \cup SpiffeIdClauses \cup TrustDomainRules
    BY <1>1, OnIs DEF FedTopics
  <1>3. /\ "BundleKIDUnique" \notin FederationClauses \cup SpiffeIdClauses \cup TrustDomainRules
        /\ "BundleMapEntryIsBundle" \notin FederationClauses
        /\ "BundleMapEntryIsBundle" \notin SpiffeIdClauses
        /\ "BundleMapEntryIsBundle" \notin TrustDomainRules
    BY DEF FederationClauses, SpiffeIdClauses, TrustDomainRules
  <1> QED
    BY <1>2, <1>3

\* One stage of the check, from `from` to `to`.
LEMMA FedStepKeeps ==
  ASSUME IInv, UNCHANGED <<inv, n, bundleVars, exit>>, inv.cmd = "federation",
         pc # "done", pc' \in {"profile", "url", "params", "bootstrap"},
         NEW X, NEW Y, NEW s, report' = report \o s,
         Topics(report) \subseteq X, Within(s, Y), X \cap Y = {}, X \cup Y \subseteq FedTopics(pc'),
         FedSpoiled(inv.cfg, pc') <=> Failed(report) \/ Failed(s)
  PROVE  IInv'
  <1>1. inv \in Invocations /\ WellWritten(inv, report)
    BY InvParts
  <1>2. \A x \in Topics(s) : x.clause # "BundleKIDUnique" /\ x.clause # "BundleMapEntryIsBundle"
    BY FedTopicIs DEF Within
  <1>3. KidLines(inv, s)
    BY <1>2, NoKidLines
  <1>4. /\ WellWritten(inv, report \o s)
        /\ Topics(report \o s) \subseteq X \cup Y
        /\ Failed(report \o s) <=> Failed(report) \/ Failed(s)
    BY <1>1, <1>2, <1>3, Grows
  <1>5. /\ WellWritten(inv, report') /\ Topics(report') \subseteq FedTopics(pc')
        /\ Failed(report') <=> FedSpoiled(inv.cfg, pc')
    BY <1>4
  <1>6. inv' = inv
    OBVIOUS
  <1>7. InFedCheck'
    BY <1>5, <1>6 DEF InFedCheck, So
  <1>8. Stages'
    BY <1>7 DEF Stages
  <1> QED
    BY <1>5, <1>8, StepKeeps

LEMMA RequiredKeeps ==
  ASSUME IInv, Required
  PROVE  IInv'
  <1> DEFINE s == CheckRequired(inv.cfg)
  <1>1. /\ pc = "args" /\ inv.cmd = "federation" /\ pc' = "profile"
        /\ report' = report \o s
        /\ UNCHANGED <<inv, n, bundleVars, exit>>
    BY DEF Required, Check
  <1>2. Topics(report) = {} /\ ~Failed(report)
    BY <1>1, AtStart
  <1>3. Within(s, FedTopics("profile")) /\ (Failed(s) <=> FedSpoiled(inv.cfg, "profile"))
    BY RequiredTells, Zenon
  <1>4. PICK nothing : nothing = {}
    OBVIOUS
  <1>5. /\ nothing \cap FedTopics("profile") = {} /\ Topics(report) \subseteq nothing
        /\ nothing \cup FedTopics("profile") \subseteq FedTopics("profile")
    BY <1>2, <1>4
  <1>6. FedSpoiled(inv.cfg, "profile") <=> Failed(report) \/ Failed(s)
    BY <1>2, <1>3, Zenon
  <1> HIDE DEF s
  <1> QED
    BY <1>1, <1>3, <1>5, <1>6, FedStepKeeps

LEMMA InFed ==
  ASSUME IInv, pc \in {"profile", "url", "params", "bootstrap"}
  PROVE  /\ inv \in Invocations /\ inv.cmd = "federation" /\ IsConfig(inv.cfg)
         /\ Topics(report) \subseteq FedTopics(pc)
         /\ Failed(report) <=> FedSpoiled(inv.cfg, pc)
         /\ WellWritten(inv, report) /\ report \in Seq(Assertion)
  <1>1. inv.cmd = "federation" /\ So(report, FedTopics(pc), FedSpoiled(inv.cfg, pc))
    BY StageIs DEF InFedCheck
  <1>2. Topics(report) \subseteq FedTopics(pc) /\ (Failed(report) <=> FedSpoiled(inv.cfg, pc))
    BY <1>1, Zenon DEF So
  <1>3. /\ inv \in Invocations /\ WellWritten(inv, report) /\ report \in Seq(Assertion)
    BY InvParts
  <1>4. IsConfig(inv.cfg)
    BY <1>1, <1>3, InvocationAssumption
  <1> QED
    BY <1>1, <1>2, <1>3, <1>4, Zenon

LEMMA ProfileStepKeeps ==
  ASSUME IInv, ProfileStep
  PROVE  IInv'
  <1> DEFINE s == CheckProfile(inv.cfg)
             X == FedTopics("profile")
             Y == On({"FedProfileKnown"}, NoTag)
  <1>1. /\ pc = "profile" /\ pc' = "url" /\ report' = report \o s
        /\ UNCHANGED <<inv, n, bundleVars, exit>>
    BY DEF ProfileStep, Check
  <1>2. inv.cmd = "federation" /\ Topics(report) \subseteq X
    BY <1>1, InFed
  <1>3. Failed(report) <=> FedSpoiled(inv.cfg, "profile")
    BY <1>1, InFed
  <1>4. Within(s, Y)
    BY ProfileTells, WritesWithin
  <1>5. X \cap Y = {} /\ X \cup Y \subseteq FedTopics("url")
    BY FedTopicsGrow
  <1>6. FedSpoiled(inv.cfg, "url") <=> Failed(report) \/ Failed(s)
    BY <1>3, ProfileTells, FedSpoils, Zenon
  <1> HIDE DEF s, X, Y
  <1> QED
    BY <1>1, <1>2, <1>4, <1>5, <1>6, FedStepKeeps

LEMMA URLKeeps ==
  ASSUME IInv, URL
  PROVE  IInv'
  <1> DEFINE s == CheckURL(inv.cfg)
             X == FedTopics("url")
             Y == On(UrlClauses, NoTag)
  <1>1. /\ pc = "url" /\ pc' = "params" /\ report' = report \o s
        /\ UNCHANGED <<inv, n, bundleVars, exit>>
    BY DEF URL, Check
  <1>2. inv.cmd = "federation" /\ Topics(report) \subseteq X
    BY <1>1, InFed
  <1>3. Failed(report) <=> FedSpoiled(inv.cfg, "url")
    BY <1>1, InFed
  <1>4. Within(s, Y)
    BY URLTells, WritesWithin
  <1>5. X \cap Y = {} /\ X \cup Y \subseteq FedTopics("params")
    BY FedTopicsGrow
  <1>6. FedSpoiled(inv.cfg, "params") <=> Failed(report) \/ Failed(s)
    BY <1>3, URLTells, FedSpoils, Zenon
  <1> HIDE DEF s, X, Y
  <1> QED
    BY <1>1, <1>2, <1>4, <1>5, <1>6, FedStepKeeps

\* The three ways the parameters of the profile are checked.
LEMMA ParamsKeep ==
  ASSUME IInv, pc = "params", pc' = "bootstrap", UNCHANGED <<inv, n, bundleVars, exit>>,
         NEW s, report' = report \o s,
         Within(s, On({"FedWebNoExtraParams"} \cup SpiffeParams \cup SpiffeIdClauses, NoTag)),
         Failed(s) <=> ~GoodEndpoint(inv.cfg)
  PROVE  IInv'
  <1> DEFINE X == FedTopics("params")
             Y == On({"FedWebNoExtraParams"} \cup SpiffeParams \cup SpiffeIdClauses, NoTag)
  <1>1. inv.cmd = "federation" /\ Topics(report) \subseteq X
    BY InFed
  <1>2. Failed(report) <=> FedSpoiled(inv.cfg, "params")
    BY InFed
  <1>3. X \cap Y = {} /\ X \cup Y \subseteq FedTopics("bootstrap")
    BY FedTopicsGrow
  <1>4. FedSpoiled(inv.cfg, "bootstrap") <=> Failed(report) \/ Failed(s)
    BY <1>2, FedSpoils, Zenon
  <1>5. Within(s, Y)
    OBVIOUS
  <1> HIDE DEF X, Y
  <1> QED
    BY <1>1, <1>3, <1>4, <1>5, FedStepKeeps

LEMMA AnyParamsKeep ==
  ASSUME IInv, WebParams \/ SPIFFEParams \/ OtherParams
  PROVE  IInv'
  <1> DEFINE all == {"FedWebNoExtraParams"} \cup SpiffeParams \cup SpiffeIdClauses
             Y == On(all, NoTag)
  <1>1. CASE WebParams
    <2> DEFINE s == CheckWebParams(inv.cfg)
    <2>1. /\ pc = "params" /\ pc' = "bootstrap" /\ report' = report \o s
          /\ UNCHANGED <<inv, n, bundleVars, exit>> /\ inv.cfg.profile = "https_web"
      BY <1>1 DEF WebParams, Check
    <2>2. Writes(s, {"FedWebNoExtraParams"}, NoTag) /\ ~Failed(s)
      BY WebTells
    <2>3. Writes(s, all, NoTag)
      BY <2>2, WritesMore
    <2>4. Within(s, Y)
      BY <2>3, WritesWithin
    <2>5. Failed(s) <=> ~GoodEndpoint(inv.cfg)
      BY <2>1, <2>2 DEF GoodEndpoint
    <2> HIDE DEF s
    <2> QED
      BY <2>1, <2>4, <2>5, ParamsKeep
  <1>2. CASE SPIFFEParams
    <2> DEFINE s == CheckSPIFFEParams(inv.cfg)
    <2>1. /\ pc = "params" /\ pc' = "bootstrap" /\ report' = report \o s
          /\ UNCHANGED <<inv, n, bundleVars, exit>> /\ inv.cfg.profile = "https_spiffe"
      BY <1>2 DEF SPIFFEParams, Check
    <2>2. IsConfig(inv.cfg)
      BY <2>1, InFed
    <2>3. Within(s, On(SpiffeParams \cup SpiffeIdClauses, NoTag))
      BY <2>1, <2>2, SPIFFETells
    <2>4. Failed(s) <=> ~GoodEndpoint(inv.cfg)
      BY <2>1, <2>2, SPIFFETells
    <2>5. On(SpiffeParams \cup SpiffeIdClauses, NoTag) \subseteq Y
      BY DEF On
    <2> HIDE DEF s, Y
    <2>6. Within(s, Y)
      BY <2>3, <2>5, WithinMore
    <2> QED
      BY <2>1, <2>4, <2>6, ParamsKeep DEF Y
  <1>3. CASE OtherParams
    <2>1. /\ pc = "params" /\ pc' = "bootstrap" /\ report' = report \o << >>
          /\ UNCHANGED <<inv, n, bundleVars, exit>> /\ inv.cfg.profile # "https_spiffe"
      BY <1>3 DEF OtherParams, Check
    <2>2. PICK s : s = << >>
      OBVIOUS
    <2>3. Within(s, Y) /\ ~Failed(s)
      BY <2>2, NothingWithin, NoLine
    <2>4. Failed(s) <=> ~GoodEndpoint(inv.cfg)
      BY <2>1, <2>3 DEF GoodEndpoint
    <2>5. report' = report \o s
      BY <2>1, <2>2
    <2> QED
      BY <2>1, <2>3, <2>4, <2>5, ParamsKeep
  <1> QED
    BY <1>1, <1>2, <1>3

LEMMA NoBootstrapKeeps ==
  ASSUME IInv, NoBootstrap
  PROVE  IInv'
  <1>1. /\ pc = "bootstrap" /\ pc' = "emit" /\ report' = report \o << >>
        /\ UNCHANGED <<inv, n, bundleVars, exit>> /\ ~Bootstraps(inv.cfg)
    BY DEF NoBootstrap, Check
  <1>2. /\ inv \in Invocations /\ inv.cmd = "federation" /\ IsConfig(inv.cfg)
        /\ WellWritten(inv, report) /\ report \in Seq(Assertion)
    BY <1>1, InFed
  <1>3. Failed(report) <=> FedSpoiled(inv.cfg, "bootstrap")
    BY <1>1, InFed
  <1>4. report' = report
    BY <1>1, <1>2
  <1>5. FedSpoiled(inv.cfg, "bootstrap") <=> ~GoodConfig(inv.cfg)
    BY <1>1, <1>2, FedVerdict, Zenon
  <1>6. Compliant' <=> GoodConfig(inv.cfg)
    BY <1>1, <1>2 DEF Compliant
  <1>7. BundlesOf(inv) = {}
    BY <1>1, <1>2, BundlesOfConfig
  <1>8. Failed(report') <=> ~GoodConfig(inv.cfg)
    BY <1>3, <1>4, <1>5
  <1>9. Finished'
    BY <1>1, <1>6, <1>7, <1>8 DEF Finished
  <1>10. Stages'
    BY <1>1, <1>9 DEF Stages
  <1> QED
    BY <1>1, <1>2, <1>4, <1>10, StepKeeps

LEMMA BootstrapKeeps ==
  ASSUME IInv, Bootstrap
  PROVE  IInv'
  <1>1. /\ pc = "bootstrap" /\ Bootstraps(inv.cfg) /\ Loads(inv.cfg.bundle)
        /\ pc' = "head" /\ tag' = EndpointTag /\ bundle' = inv.cfg.bundle.bundle
        /\ i' = 1 /\ kids' = << >> /\ UNCHANGED <<inv, n, exit, report>>
    BY DEF Bootstrap, Call, EndpointTag
  <1>2. /\ inv \in Invocations /\ inv.cmd = "federation" /\ IsConfig(inv.cfg)
        /\ WellWritten(inv, report) /\ Topics(report) \subseteq FedTopics("bootstrap")
    BY <1>1, InFed
  <1>3. Failed(report) <=> FedSpoiled(inv.cfg, "bootstrap")
    BY <1>1, InFed
  <1>4. bundle' \in Bundle
    BY <1>1, <1>2 DEF IsConfig, Bootstraps, Loads
  <1>5. tag' \in Tags
    BY <1>1, EndpointTagAssumption DEF EndpointTag
  <1>6. Called'
    BY <1>1, <1>2 DEF Called, EndpointTag
  <1>7. TopicsBefore(inv, n) = FedTopics("bootstrap")
    BY <1>2, Zenon DEF TopicsBefore
  <1>8. SpoiledBefore(inv, n) <=> FedSpoiled(inv.cfg, "bootstrap")
    BY <1>2, Zenon DEF SpoiledBefore
  <1>9. So(report', TopicsBefore(inv, n), SpoiledBefore(inv, n))
    <2>1. Topics(report') \subseteq TopicsBefore(inv, n)
      BY <1>1, <1>2, <1>7
    <2>2. Failed(report') <=> SpoiledBefore(inv, n)
      BY <1>1, <1>3, <1>8
    <2> QED
      BY <2>1, <2>2, Zenon DEF So
  <1>10. WellWritten(inv, report')
    BY <1>1, <1>2
  <1> QED
    BY <1>1, <1>4, <1>5, <1>6, <1>9, <1>10, CallKeeps

---------------------------------------------------------------------------
(* The invariant.                                                          *)

\* Every step of the three commands keeps it.
LEMMA EveryStepKeeps ==
  ASSUME IInv, [Next]_vars
  PROVE  IInv'
  <1>1. CASE CheckBundle
    BY <1>1, ShapeKeeps, NoKeysKeeps, EntryKeeps, KIDUniquenessKeeps DEF CheckBundle
  <1>2. CASE CheckMap
    BY <1>2, TrustDomainsPresentKeeps, UniquenessKeeps, MapEntryKeeps, MapEndsKeeps DEF CheckMap
  <1>3. CASE CheckFederation
    BY <1>3, RequiredKeeps, ProfileStepKeeps, URLKeeps, AnyParamsKeep, NoBootstrapKeeps,
       BootstrapKeeps, FailureKeeps DEF CheckFederation
  <1>4. CASE UsageError \/ LoadFails
    BY <1>4, FailureKeeps
  <1>5. CASE CheckBundleFile
    BY <1>5, CheckBundleFileKeeps
  <1>6. CASE Emit
    BY <1>6, EmitKeeps
  <1>7. CASE UNCHANGED vars
    BY <1>7, StutterKeeps
  <1>8. CASE Terminated
    BY <1>8, StutterKeeps DEF Terminated
  <1> QED
    BY <1>1, <1>2, <1>3, <1>4, <1>5, <1>6, <1>7, <1>8 DEF Next

\* The lines written so far are about what the check has read, once each, and
\* say whether it was good: true in every state of a run.
THEOREM Inductive == Spec => []IInv
  <1>1. Init => IInv
    BY Starts
  <1>2. IInv /\ [Next]_vars => IInv'
    BY EveryStepKeeps
  <1> QED
    BY <1>1, <1>2, PTL DEF Spec
---------------------------------------------------------------------------
(* What the invariant says of a run that has judged its artifact.          *)

LEMMA JudgedIs ==
  ASSUME IInv, Judged
  PROVE  /\ exit = ExitOf(report) /\ Finished
         /\ inv \in Invocations /\ OnceEach(report) /\ KidLines(inv, report)
  <1>1. pc = "done" /\ exit # 2
    BY DEF Judged
  <1>2. WellWritten(inv, report) /\ inv \in Invocations
    BY InvParts
  <1> QED
    BY <1>1, <1>2, StageIs DEF WellWritten

\* A topic of the report is that of one of its lines.
LEMMA TopicLine ==
  ASSUME NEW clause, NEW about
  PROVE  /\ Topic(clause, about) \in Topics(report) => Lines(clause, about) # {}
         /\ \A k \in Lines(clause, about) :
              k \in DOMAIN report /\ report[k].clause = clause /\ report[k].about = about
                /\ TopicOf(report[k]) = Topic(clause, about)
  <1>1. ASSUME Topic(clause, about) \in Topics(report)
        PROVE  Lines(clause, about) # {}
    <2>1. PICK k \in DOMAIN report : TopicOf(report[k]) = Topic(clause, about)
      BY <1>1 DEF Topics
    <2>2. Topic(report[k].clause, report[k].about) = Topic(clause, about)
      BY <2>1 DEF TopicOf, Topic
    <2>3. report[k].clause = clause /\ report[k].about = about
      BY <2>2, TopicInjective
    <2> QED
      BY <2>3 DEF Lines
  <1>2. \A k \in Lines(clause, about) :
          k \in DOMAIN report /\ report[k].clause = clause /\ report[k].about = about
    BY DEF Lines
  <1>3. \A k \in Lines(clause, about) : TopicOf(report[k]) = Topic(clause, about)
    BY <1>2 DEF TopicOf, Topic
  <1> QED
    BY <1>1, <1>2, <1>3

\* The state is well typed, and bundle.check's loop stays inside the array.
THEOREM TypeCorrect == Spec => []TypeOK
  <1>1. IInv => TypeOK
    BY DEF IInv
  <1> QED
    BY <1>1, Inductive, PTL

\* The exit code is the verdict on the artifact as a whole: no early return of the
\* nested checkers hides a violated MUST, and no SHOULD is fatal.
THEOREM WholeVerdict == Spec => []ExitIsVerdict
  <1>1. ASSUME IInv, Judged
        PROVE  exit = IF Compliant THEN 0 ELSE 1
    <2>1. exit = ExitOf(report) /\ (Failed(report) <=> ~Compliant)
      BY <1>1, JudgedIs DEF Finished
    <2> QED
      BY <2>1, Zenon DEF ExitOf
  <1>2. IInv => ExitIsVerdict
    BY <1>1 DEF ExitIsVerdict
  <1> QED
    BY <1>2, Inductive, PTL

\* At every moment the report has one line per clause and part of the artifact; only
\* a "keys" that is no array has two, the first of them a PASS.
THEOREM OnceForEachPart == Spec => []OneLinePerPart
  <1>1. ASSUME IInv, NEW k \in DOMAIN report, NEW l \in DOMAIN report, k < l,
               report[k].clause = report[l].clause, report[k].about = report[l].about
        PROVE  /\ report[k].clause = "BundleKeysPresent"
               /\ report[k].status = "pass" /\ report[l].status = "fail"
    <2>1. OnceEach(report)
      BY <1>1, InvParts DEF WellWritten
    <2>2. TopicOf(report[k]) = TopicOf(report[l])
      BY <1>1 DEF TopicOf
    <2> QED
      BY <1>1, <2>1, <2>2, Zenon DEF OnceEach
  <1>2. IInv => OneLinePerPart
    BY <1>1 DEF OneLinePerPart
  <1> QED
    BY <1>2, Inductive, PTL

\* When the artifact has been judged every entry of every bundle in it has a line,
\* whatever is wrong with the entry before it or with an earlier bundle.
THEOREM EntriesJudged == Spec => []EveryEntryJudged
  <1>1. ASSUME IInv, Judged, NEW x \in Bundles, NEW e \in DOMAIN x.b.keys
        PROVE  Lines("BundleKeyKTYSet", KeyTag(x.tag, e)) # {}
    <2>1. x \in BundlesOf(inv) /\ x.b.shape = "array"
      BY DEF Bundles
    <2>2. EntriesLined(report, x.tag, x.b, Len(x.b.keys) + 1)
      BY <1>1, <2>1, JudgedIs, Zenon DEF Finished, Lined
    <2>3. x.b.keys \in Seq(Jwk \cup {None})
      BY <1>1, <2>1, JudgedIs, BundlesAre DEF Bundle
    <2>4. e < Len(x.b.keys) + 1
      BY <2>3
    <2>5. Topic("BundleKeyKTYSet", KeyTag(x.tag, e)) \in Topics(report)
      BY <2>2, <2>4, Zenon DEF EntriesLined
    <2> QED
      BY <2>5, TopicLine, Zenon
  <1>2. IInv => EveryEntryJudged
    BY <1>1 DEF EveryEntryJudged
  <1> QED
    BY <1>2, Inductive, PTL

\* Each bundle with token-signing entries has its own line on key ids, a failure
\* exactly if two of its entries share one, and no other bundle has a say in it.
THEOREM KidVerdict == Spec => []KidVerdictIsExact
  <1>1. ASSUME IInv, Judged, NEW x \in Bundles, NEW lines,
               lines = Lines("BundleKIDUnique", x.tag)
        PROVE  /\ Cardinality(lines) = IF Keyed(x.b) = {} THEN 0 ELSE 1
               /\ \A k \in lines : report[k].status = "fail" <=> KidsClash(x.b)
    <2>1. x \in BundlesOf(inv) /\ x.b.shape = "array"
      BY DEF Bundles
    <2>2. Keyed(x.b) # {} => Topic("BundleKIDUnique", x.tag) \in Topics(report)
      BY <1>1, <2>1, JudgedIs, Zenon DEF Finished, Lined
    <2>3. \A k \in lines : /\ k \in DOMAIN report /\ report[k].clause = "BundleKIDUnique"
                           /\ report[k].about = x.tag
                           /\ TopicOf(report[k]) = Topic("BundleKIDUnique", x.tag)
      BY <1>1, TopicLine
    <2>4. KidLines(inv, report) /\ OnceEach(report) /\ report \in Seq(Assertion)
      BY <1>1, JudgedIs, InvParts
    <2>5. \A k \in lines : /\ Keyed(x.b) # {}
                           /\ report[k].status = "fail" <=> KidsClash(x.b)
      BY <2>1, <2>3, <2>4 DEF KidLines
    <2>6. \A k, l \in lines : k = l
      <3>1. ASSUME NEW k \in lines, NEW l \in lines, k < l
            PROVE  FALSE
        BY <2>3, <2>4, <3>1 DEF OnceEach
      <3>2. \A k \in lines : k \in Int
        BY <2>3, <2>4
      <3> QED
        BY <3>1, <3>2
    <2>7. CASE Keyed(x.b) = {}
      <3>1. lines = {}
        BY <2>5, <2>7
      <3>2. Cardinality(lines) = 0
        BY <3>1, FS_EmptySet
      <3> QED
        BY <2>5, <2>7, <3>2
    <2>8. CASE Keyed(x.b) # {}
      <3>1. PICK k : k \in lines
        BY <1>1, <2>2, <2>8, TopicLine
      <3>2. lines = {k}
        BY <2>6, <3>1
      <3>3. Cardinality(lines) = 1
        BY <3>2, FS_Singleton
      <3> QED
        BY <2>5, <2>8, <3>3
    <2> QED
      BY <2>7, <2>8
  <1>2. IInv => KidVerdictIsExact
    BY <1>1 DEF KidVerdictIsExact
  <1> QED
    BY <1>2, Inductive, PTL

\* At every moment the names of a map that have their line have it in the order in
\* which the document has them first.
THEOREM FileOrder == Spec => []ReadsLikeTheFile
  <1>1. ASSUME IInv, inv.cmd = "bundle-map",
               NEW k \in DOMAIN MapNames, NEW l \in DOMAIN MapNames, k < l,
               MapNames[l] \notin {MapNames[m] : m \in 1..k},
               NEW x \in Lines("BundleMapEntryIsBundle", NameTag(MapNames[k])),
               NEW y \in Lines("BundleMapEntryIsBundle", NameTag(MapNames[l]))
        PROVE  x < y
    <2>1. InOrder(inv, report) /\ inv \in Invocations
      BY <1>1, InvParts DEF WellWritten
    <2>2. /\ x \in DOMAIN report /\ report[x].clause = "BundleMapEntryIsBundle"
          /\ report[x].about = NameTag(MapNames[k])
          /\ y \in DOMAIN report /\ report[y].clause = "BundleMapEntryIsBundle"
          /\ report[y].about = NameTag(MapNames[l])
      BY DEF Lines
    <2>3. Loads(inv.file) /\ IsMap(inv.file.map)
      BY <2>1, <2>2, Zenon DEF InOrder
    <2>4. MapNames = NamesOf(inv)
      BY DEF MapNames, NamesOf
    <2>5. /\ NamesOf(inv) \in Seq(TrustDomains)
          /\ FirstSeen(VisitedOf(inv), NamesOf(inv), Len(NamesOf(inv)))
      BY <1>1, <2>1, <2>3, MapParts, VisitedParts
    <2>6. k \in 1..Len(NamesOf(inv)) /\ l \in 1..Len(NamesOf(inv))
      BY <2>4, <2>5
    <2>7. PICK p \in DOMAIN VisitedOf(inv) : VisitedOf(inv)[p] = NamesOf(inv)[k]
      BY <2>5, <2>6 DEF FirstSeen
    <2>8. PICK q \in DOMAIN VisitedOf(inv) : VisitedOf(inv)[q] = NamesOf(inv)[l]
      BY <2>5, <2>6 DEF FirstSeen
    <2>9. SeenAfter(NamesOf(inv), l, k)
      BY <1>1, <2>4 DEF SeenAfter
    <2>10. p < q
      BY <2>5, <2>6, <2>7, <2>8, <2>9, Zenon DEF FirstSeen
    <2>11. report[x].about = TagAt(inv, p) /\ report[y].about = TagAt(inv, q)
      BY <2>2, <2>4, <2>7, <2>8 DEF TagAt, NameAt
    <2> QED
      BY <2>1, <2>2, <2>3, <2>10, <2>11, Zenon DEF InOrder
  <1>2. IInv => ReadsLikeTheFile
    BY <1>1 DEF ReadsLikeTheFile
  <1> QED
    BY <1>2, Inductive, PTL
====
