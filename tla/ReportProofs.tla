---------------------------- MODULE ReportProofs ----------------------------
(***************************************************************************)
(* What appending to a report preserves: the types of its lines, that no   *)
(* clause has two lines about the same thing, what the lines are about,    *)
(* and whether it has failed; and, for every text, which clauses the       *)
(* SPIFFE-ID sweep judges, and how.  The proofs about the commands rest on *)
(* this.                                                                   *)
(***************************************************************************)
EXTENDS SpiffeId, SequenceTheorems, WellFoundedInduction, TLAPS

\* What a line is about: its clause, and the file or entry.
Topic(c, about) == [clause |-> c, about |-> about]

TopicOf(a) == Topic(a.clause, a.about)

Topics(r) == {TopicOf(r[i]) : i \in DOMAIN r}

\* Lines about the artifact or the folder as a whole have no tag.
NoTag == ""

\* No two lines are about the same.
NoneTwice(r) == \A i, j \in DOMAIN r : TopicOf(r[i]) = TopicOf(r[j]) => i = j

\* The line r.Pass or r.Fail writes.
Verdict(c, holds, about) ==
    [status |-> IF holds THEN "pass" ELSE IF Severity(c) = "SHOULD" THEN "warn" ELSE "fail",
     clause |-> c, about |-> about]

\* A set of naturals has a least.
LEMMA LeastNat ==
  ASSUME NEW T, T \subseteq Nat, T # {}
  PROVE  \E x \in T : \A y \in T : x <= y
  <1> DEFINE R == OpToRel(<, Nat)
  <1>1. IsWellFoundedOn(R, Nat)
    BY NatLessThanWellFounded
  <1>2. \A x, y \in Nat : y < x => <<y, x>> \in R
    BY DEF OpToRel
  <1> HIDE DEF R
  <1>3. PICK x \in T : \A y \in T : ~ (<<y, x>> \in R)
    BY <1>1, WFMin
  <1>4. \A y \in T : ~(y < x)
    BY <1>2, <1>3, Zenon
  <1> QED
    BY <1>4

LEMMA TopicParts ==
  ASSUME NEW c, NEW about
  PROVE  Topic(c, about).clause = c /\ Topic(c, about).about = about
  BY DEF Topic

LEMMA TopicInjective ==
  ASSUME NEW c, NEW d, NEW a, NEW b, Topic(c, a) = Topic(d, b)
  PROVE  c = d /\ a = b
  BY TopicParts

LEMMA JudgeIsVerdict ==
  ASSUME NEW c, NEW holds, NEW about
  PROVE  Judge(c, holds, about) = << Verdict(c, holds, about) >>
  BY DEF Judge, Pass, Fail, Verdict

LEMMA PassIsVerdict ==
  ASSUME NEW c, NEW about
  PROVE  /\ Pass(c, about) = << Verdict(c, TRUE, about) >>
         /\ Fail(c, about) = << Verdict(c, FALSE, about) >>
  BY DEF Pass, Fail, Verdict

LEMMA VerdictType ==
  ASSUME NEW c \in Clause, NEW about \in Tags, NEW holds
  PROVE  Verdict(c, holds, about) \in Assertion
  BY DEF Verdict, Assertion, Status

LEMMA Singleton ==
  ASSUME NEW S, NEW a \in S
  PROVE  <<a>> \in Seq(S)
  OBVIOUS

LEMMA AssertionType ==
  ASSUME NEW c \in Clause, NEW about \in Tags
  PROVE  /\ Pass(c, about) \in Seq(Assertion)
         /\ Fail(c, about) \in Seq(Assertion)
         /\ \A holds : Judge(c, holds, about) \in Seq(Assertion)
  <1>1. Verdict(c, TRUE, about) \in Assertion /\ Verdict(c, FALSE, about) \in Assertion
    BY VerdictType
  <1>2. /\ << Verdict(c, TRUE, about) >> \in Seq(Assertion)
        /\ << Verdict(c, FALSE, about) >> \in Seq(Assertion)
    BY <1>1, Singleton
  <1>3. Pass(c, about) \in Seq(Assertion) /\ Fail(c, about) \in Seq(Assertion)
    BY <1>2, PassIsVerdict, Zenon
  <1> QED
    BY <1>3 DEF Judge

LEMMA Concatenation ==
  /\ << >> \in Seq(Assertion)
  /\ \A s, t \in Seq(Assertion) : s \o t \in Seq(Assertion)
  OBVIOUS

\* The lines of s \o t are those of s and those of t.
LEMMA LinesOfBoth ==
  ASSUME NEW S, NEW s \in Seq(S), NEW t \in Seq(S)
  PROVE  /\ s \o t \in Seq(S)
         /\ DOMAIN s = 1..Len(s) /\ DOMAIN t = 1..Len(t)
         /\ Len(s) \in Nat /\ Len(t) \in Nat
         /\ DOMAIN (s \o t) = 1..(Len(s) + Len(t))
         /\ \A i \in DOMAIN s : i \in DOMAIN (s \o t) /\ (s \o t)[i] = s[i]
         /\ \A i \in DOMAIN t :
              Len(s) + i \in DOMAIN (s \o t) /\ (s \o t)[Len(s) + i] = t[i]
         /\ \A k \in DOMAIN (s \o t) :
              \/ k \in DOMAIN s
              \/ k - Len(s) \in DOMAIN t /\ (s \o t)[k] = t[k - Len(s)]
  OBVIOUS

LEMMA TopicsOfBoth ==
  ASSUME NEW S, NEW s \in Seq(S), NEW t \in Seq(S)
  PROVE  Topics(s \o t) = Topics(s) \cup Topics(t)
  <1>1. ASSUME NEW i \in DOMAIN (s \o t)
        PROVE  TopicOf((s \o t)[i]) \in Topics(s) \cup Topics(t)
    BY LinesOfBoth DEF Topics
  <1>2. ASSUME NEW i \in DOMAIN s
        PROVE  TopicOf(s[i]) \in Topics(s \o t)
    BY LinesOfBoth DEF Topics
  <1>3. ASSUME NEW i \in DOMAIN t
        PROVE  TopicOf(t[i]) \in Topics(s \o t)
    <2>1. Len(s) + i \in DOMAIN (s \o t) /\ (s \o t)[Len(s) + i] = t[i]
      BY LinesOfBoth
    <2> QED
      BY <2>1, Zenon DEF Topics
  <1> QED
    BY <1>1, <1>2, <1>3 DEF Topics

LEMMA NoneTwiceInBoth ==
  ASSUME NEW S, NEW s \in Seq(S), NEW t \in Seq(S),
         NoneTwice(s), NoneTwice(t), Topics(s) \cap Topics(t) = {}
  PROVE  NoneTwice(s \o t)
  <1>1. ASSUME NEW i \in DOMAIN (s \o t)
        PROVE  \/ /\ i \in DOMAIN s
                  /\ TopicOf((s \o t)[i]) = TopicOf(s[i]) /\ TopicOf(s[i]) \in Topics(s)
               \/ /\ i - Len(s) \in DOMAIN t
                  /\ TopicOf((s \o t)[i]) = TopicOf(t[i - Len(s)])
                  /\ TopicOf(t[i - Len(s)]) \in Topics(t)
    BY LinesOfBoth DEF Topics
  <1> SUFFICES ASSUME NEW i \in DOMAIN (s \o t), NEW j \in DOMAIN (s \o t),
                      TopicOf((s \o t)[i]) = TopicOf((s \o t)[j])
               PROVE  i = j
    BY DEF NoneTwice
  <1>2. i \in Int /\ j \in Int /\ Len(s) \in Int
    BY LinesOfBoth
  <1>3. CASE i \in DOMAIN s /\ j \in DOMAIN s
    BY <1>3, LinesOfBoth DEF NoneTwice
  <1>4. CASE i - Len(s) \in DOMAIN t /\ j - Len(s) \in DOMAIN t
    <2>1. TopicOf(t[i - Len(s)]) = TopicOf(t[j - Len(s)])
      BY <1>4, <1>2, <1>1, LinesOfBoth
    <2>2. i - Len(s) = j - Len(s)
      BY <1>4, <2>1 DEF NoneTwice
    <2> QED
      BY <2>2, <1>2
  <1> QED
    BY <1>1, <1>3, <1>4

\* A report fails when one of its parts does: no check takes a failure back.
LEMMA FailedOfBoth ==
  ASSUME NEW S, NEW s \in Seq(S), NEW t \in Seq(S)
  PROVE  Failed(s \o t) <=> Failed(s) \/ Failed(t)
  <1>1. ASSUME Failed(s \o t)
        PROVE  Failed(s) \/ Failed(t)
    BY <1>1, LinesOfBoth DEF Failed
  <1>2. ASSUME Failed(s)
        PROVE  Failed(s \o t)
    BY <1>2, LinesOfBoth DEF Failed
  <1>3. ASSUME NEW i \in DOMAIN t, t[i].status = "fail"
        PROVE  Failed(s \o t)
    <2>1. Len(s) + i \in DOMAIN (s \o t) /\ (s \o t)[Len(s) + i] = t[i]
      BY LinesOfBoth
    <2> QED
      BY <1>3, <2>1, Zenon DEF Failed
  <1> QED
    BY <1>1, <1>2, <1>3 DEF Failed

LEMMA OneLine ==
  ASSUME NEW a
  PROVE  /\ Topics(<<a>>) = {TopicOf(a)}
         /\ NoneTwice(<<a>>)
         /\ Failed(<<a>>) <=> a.status = "fail"
  BY DEF Topics, NoneTwice, Failed

LEMMA NoLine ==
  Topics(<< >>) = {} /\ NoneTwice(<< >>) /\ ~Failed(<< >>)
  BY DEF Topics, NoneTwice, Failed

---------------------------------------------------------------------------
(* What a check writes: one line at most for each of its clauses, all of   *)
(* them about the same file or entry.                                      *)

On(clauses, tag) == {Topic(c, tag) : c \in clauses}

Writes(r, clauses, tag) ==
    /\ r \in Seq(Assertion)
    /\ NoneTwice(r)
    /\ Topics(r) \subseteq On(clauses, tag)

LEMMA OnDisjoint ==
  ASSUME NEW C, NEW D, NEW a, NEW b, C \cap D = {} \/ a # b
  PROVE  On(C, a) \cap On(D, b) = {}
  <1>1. \A c \in C, d \in D : Topic(c, a) = Topic(d, b) => c = d /\ a = b
    BY TopicInjective
  <1> QED
    BY <1>1 DEF On

LEMMA OnBoth ==
  ASSUME NEW C, NEW D, NEW a
  PROVE  On(C \cup D, a) = On(C, a) \cup On(D, a)
  BY DEF On

LEMMA WritesVerdict ==
  ASSUME NEW c \in Clause, NEW about \in Tags, NEW holds
  PROVE  Writes(<< Verdict(c, holds, about) >>, {c}, about)
  <1>1. PICK a : a = Verdict(c, holds, about)
    OBVIOUS
  <1>2. TopicOf(a) = Topic(c, about)
    BY <1>1 DEF Verdict, TopicOf
  <1>3. a \in Assertion
    BY <1>1, VerdictType
  <1>4. <<a>> \in Seq(Assertion)
    BY <1>3, Singleton
  <1>5. Topics(<<a>>) = {Topic(c, about)} /\ NoneTwice(<<a>>)
    BY <1>2, OneLine
  <1>6. Topic(c, about) \in On({c}, about)
    BY DEF On
  <1> QED
    BY <1>1, <1>4, <1>5, <1>6 DEF Writes

LEMMA WritesOne ==
  ASSUME NEW c \in Clause, NEW about \in Tags
  PROVE  /\ \A holds : Writes(Judge(c, holds, about), {c}, about)
         /\ Writes(Pass(c, about), {c}, about)
         /\ Writes(Fail(c, about), {c}, about)
  BY WritesVerdict, JudgeIsVerdict, PassIsVerdict, Zenon

LEMMA WritesNone ==
  ASSUME NEW C, NEW a
  PROVE  Writes(<< >>, C, a)
  BY NoLine DEF Writes

LEMMA WritesMore ==
  ASSUME NEW r, NEW C, NEW D, NEW a, Writes(r, C, a), C \subseteq D
  PROVE  Writes(r, D, a)
  BY DEF Writes, On

LEMMA WritesBoth ==
  ASSUME NEW s, NEW t, NEW C, NEW D, NEW a,
         Writes(s, C, a), Writes(t, D, a), C \cap D = {}
  PROVE  Writes(s \o t, C \cup D, a)
  <1>1. /\ s \in Seq(Assertion) /\ t \in Seq(Assertion)
        /\ NoneTwice(s) /\ NoneTwice(t)
        /\ Topics(s) \subseteq On(C, a) /\ Topics(t) \subseteq On(D, a)
    BY DEF Writes
  <1>2. On(C, a) \cap On(D, a) = {}
    BY OnDisjoint
  <1>3. Topics(s) \cap Topics(t) = {}
    BY <1>1, <1>2
  <1>4. NoneTwice(s \o t)
    BY <1>1, <1>3, NoneTwiceInBoth
  <1>5. Topics(s \o t) = Topics(s) \cup Topics(t)
    BY <1>1, TopicsOfBoth
  <1>6. s \o t \in Seq(Assertion)
    BY <1>1, Concatenation, Zenon
  <1> QED
    BY <1>1, <1>4, <1>5, <1>6, OnBoth DEF Writes

\* A line of a part is a line of the whole.
LEMMA LineOfPart ==
  ASSUME NEW s \in Seq(Assertion), NEW t \in Seq(Assertion),
         NEW k, k \in Topics(s) \/ k \in Topics(t)
  PROVE  k \in Topics(s \o t)
  <1>1. Topics(s \o t) = Topics(s) \cup Topics(t)
    BY TopicsOfBoth
  <1> QED
    BY <1>1

LEMMA TopicOfOne ==
  ASSUME NEW c, NEW about
  PROVE  /\ \A holds : Topic(c, about) \in Topics(Judge(c, holds, about))
         /\ Topic(c, about) \in Topics(Pass(c, about))
         /\ Topic(c, about) \in Topics(Fail(c, about))
  <1>1. ASSUME NEW holds
        PROVE  Topic(c, about) \in Topics(<< Verdict(c, holds, about) >>)
    <2>1. PICK a : a = Verdict(c, holds, about)
      OBVIOUS
    <2>2. TopicOf(a) = Topic(c, about)
      BY <2>1 DEF Verdict, TopicOf
    <2>3. Topics(<<a>>) = {Topic(c, about)}
      BY <2>2, OneLine
    <2> QED
      BY <2>1, <2>3
  <1> QED
    BY <1>1, JudgeIsVerdict, PassIsVerdict, Zenon

---------------------------------------------------------------------------
(* When a check fails.                                                     *)

LEMMA VerdictFails ==
  ASSUME NEW c, NEW holds, NEW about
  PROVE  /\ c \notin ShouldClauses => (Failed(<< Verdict(c, holds, about) >>) <=> ~holds)
         /\ c \in ShouldClauses => ~Failed(<< Verdict(c, holds, about) >>)
  <1>1. PICK a : a = Verdict(c, holds, about)
    OBVIOUS
  <1>2. /\ c \notin ShouldClauses => (a.status = "fail" <=> ~holds)
        /\ c \in ShouldClauses => a.status # "fail"
    <2>1. a.status = IF holds THEN "pass" ELSE IF Severity(c) = "SHOULD" THEN "warn" ELSE "fail"
      BY <1>1 DEF Verdict
    <2>2. Severity(c) = "SHOULD" <=> c \in ShouldClauses
      BY DEF Severity
    <2>3. "pass" # "fail" /\ "warn" # "fail"
      OBVIOUS
    <2> QED
      BY <2>1, <2>2, <2>3, Zenon
  <1>3. Failed(<<a>>) <=> a.status = "fail"
    BY OneLine
  <1> QED
    BY <1>1, <1>2, <1>3, Zenon

\* Only a clause that binds can fail a report.
LEMMA JudgeFails ==
  ASSUME NEW c, c \notin ShouldClauses, NEW about
  PROVE  /\ \A holds : Failed(Judge(c, holds, about)) <=> ~holds
         /\ ~Failed(Pass(c, about))
         /\ Failed(Fail(c, about))
  <1>1. ASSUME NEW holds
        PROVE  Failed(<< Verdict(c, holds, about) >>) <=> ~holds
    BY VerdictFails
  <1>2. Failed(<< Verdict(c, TRUE, about) >>) <=> ~TRUE
    BY <1>1
  <1>3. Failed(<< Verdict(c, FALSE, about) >>) <=> ~FALSE
    BY <1>1
  <1> QED
    BY <1>1, <1>2, <1>3, JudgeIsVerdict, PassIsVerdict, Zenon

LEMMA ShouldNeverFails ==
  ASSUME NEW c, c \in ShouldClauses, NEW about
  PROVE  \A holds : ~Failed(Judge(c, holds, about))
  BY VerdictFails, JudgeIsVerdict, Zenon

\* FailedOfBoth for reports.
LEMMA EitherFails ==
  ASSUME NEW s \in Seq(Assertion), NEW t \in Seq(Assertion)
  PROVE  /\ s \o t \in Seq(Assertion)
         /\ Failed(s \o t) <=> Failed(s) \/ Failed(t)
  <1>1. s \o t \in Seq(Assertion)
    BY Concatenation, Zenon
  <1>2. Failed(s \o t) <=> Failed(s) \/ Failed(t)
    BY FailedOfBoth
  <1> QED
    BY <1>1, <1>2

LEMMA AnyOfFourFails ==
  ASSUME NEW s \in Seq(Assertion), NEW t \in Seq(Assertion),
         NEW u \in Seq(Assertion), NEW v \in Seq(Assertion)
  PROVE  /\ s \o t \o u \o v \in Seq(Assertion)
         /\ Failed(s \o t \o u \o v) <=> Failed(s) \/ Failed(t) \/ Failed(u) \/ Failed(v)
  BY EitherFails

---------------------------------------------------------------------------
(* id.CheckTrustDomain, under any tag.                                     *)

TrustDomainRules ==
    {"IDTrustDomainNonEmpty", "IDTrustDomainLowercase",
     "IDTrustDomainCharset", "IDTrustDomainLengthLimit"}

LEMMA TrustDomainRulesAre ==
  /\ TrustDomainRules \subseteq Clause
  /\ TrustDomainRules \cap ShouldClauses = {}
  <1>1. TrustDomainRules \subseteq SpiffeIdClauses
    BY DEF TrustDomainRules, SpiffeIdClauses
  <1>2. TrustDomainRules \cap ShouldClauses = {}
    BY DEF TrustDomainRules, ShouldClauses
  <1> QED
    BY <1>1, <1>2 DEF Clause

LEMMA TrustDomainType ==
  ASSUME NEW tag \in Tags, NEW name
  PROVE  CheckTrustDomain(tag, name) \in Seq(Assertion)
  <1>1. /\ "IDTrustDomainNonEmpty" \in Clause
        /\ "IDTrustDomainLowercase" \in Clause
        /\ "IDTrustDomainCharset" \in Clause
        /\ "IDTrustDomainLengthLimit" \in Clause
    BY TrustDomainRulesAre DEF TrustDomainRules
  <1> QED
    <2>1. /\ Fail("IDTrustDomainNonEmpty", tag) \in Seq(Assertion)
          /\ Pass("IDTrustDomainNonEmpty", tag) \in Seq(Assertion)
          /\ Judge("IDTrustDomainLowercase", name \notin UpperNames, tag)
                 \in Seq(Assertion)
          /\ Judge("IDTrustDomainCharset", name \notin BadCharNames, tag)
                 \in Seq(Assertion)
          /\ Judge("IDTrustDomainLengthLimit", name \notin LongNames, tag)
                 \in Seq(Assertion)
      BY <1>1, AssertionType DEF Judge
    <2> QED
      BY <2>1, Concatenation, Zenon DEF CheckTrustDomain

LEMMA TrustDomainLines ==
  ASSUME NEW tag \in Tags, NEW name
  PROVE  Writes(CheckTrustDomain(tag, name), TrustDomainRules, tag)
  <1> DEFINE j1 == Pass("IDTrustDomainNonEmpty", tag)
             j2 == Judge("IDTrustDomainLowercase", name \notin UpperNames, tag)
             j3 == Judge("IDTrustDomainCharset", name \notin BadCharNames, tag)
             j4 == Judge("IDTrustDomainLengthLimit", name \notin LongNames, tag)
  <1>1. /\ "IDTrustDomainNonEmpty" \in Clause /\ "IDTrustDomainLowercase" \in Clause
        /\ "IDTrustDomainCharset" \in Clause /\ "IDTrustDomainLengthLimit" \in Clause
    BY TrustDomainRulesAre DEF TrustDomainRules
  <1>2. /\ Writes(Fail("IDTrustDomainNonEmpty", tag), {"IDTrustDomainNonEmpty"}, tag)
        /\ Writes(j1, {"IDTrustDomainNonEmpty"}, tag)
        /\ Writes(j2, {"IDTrustDomainLowercase"}, tag)
        /\ Writes(j3, {"IDTrustDomainCharset"}, tag)
        /\ Writes(j4, {"IDTrustDomainLengthLimit"}, tag)
    BY <1>1, WritesOne, Zenon
  <1>3. CheckTrustDomain(tag, name) =
          IF name = "" THEN Fail("IDTrustDomainNonEmpty", tag) ELSE j1 \o j2 \o j3 \o j4
    BY DEF CheckTrustDomain
  <1> HIDE DEF j1, j2, j3, j4
  <1>4. Writes(j1 \o j2, {"IDTrustDomainNonEmpty"} \cup {"IDTrustDomainLowercase"}, tag)
    BY <1>2, WritesBoth
  <1>5. Writes(j1 \o j2 \o j3, {"IDTrustDomainNonEmpty"} \cup {"IDTrustDomainLowercase"}
                                \cup {"IDTrustDomainCharset"}, tag)
    BY <1>2, <1>4, WritesBoth
  <1>6. Writes(j1 \o j2 \o j3 \o j4,
               {"IDTrustDomainNonEmpty"} \cup {"IDTrustDomainLowercase"}
               \cup {"IDTrustDomainCharset"} \cup {"IDTrustDomainLengthLimit"}, tag)
    BY <1>2, <1>5, WritesBoth
  <1>7. {"IDTrustDomainNonEmpty"} \cup {"IDTrustDomainLowercase"}
        \cup {"IDTrustDomainCharset"} \cup {"IDTrustDomainLengthLimit"}
          \subseteq TrustDomainRules
    BY DEF TrustDomainRules
  <1>8. {"IDTrustDomainNonEmpty"} \subseteq TrustDomainRules
    BY DEF TrustDomainRules
  <1>9. Writes(j1 \o j2 \o j3 \o j4, TrustDomainRules, tag)
    BY <1>6, <1>7, WritesMore
  <1>10. Writes(Fail("IDTrustDomainNonEmpty", tag), TrustDomainRules, tag)
    BY <1>2, <1>8, WritesMore
  <1> QED
    BY <1>3, <1>9, <1>10, Zenon

LEMMA TrustDomainFails ==
  ASSUME NEW tag \in Tags, NEW name
  PROVE  Failed(CheckTrustDomain(tag, name)) <=> ~GoodTrustDomain(name)
  <1> DEFINE j1 == Pass("IDTrustDomainNonEmpty", tag)
             j2 == Judge("IDTrustDomainLowercase", name \notin UpperNames, tag)
             j3 == Judge("IDTrustDomainCharset", name \notin BadCharNames, tag)
             j4 == Judge("IDTrustDomainLengthLimit", name \notin LongNames, tag)
  <1>1. /\ "IDTrustDomainNonEmpty" \in Clause \ ShouldClauses
        /\ "IDTrustDomainLowercase" \in Clause \ ShouldClauses
        /\ "IDTrustDomainCharset" \in Clause \ ShouldClauses
        /\ "IDTrustDomainLengthLimit" \in Clause \ ShouldClauses
    BY TrustDomainRulesAre DEF TrustDomainRules
  <1>2. /\ j1 \in Seq(Assertion) /\ j2 \in Seq(Assertion)
        /\ j3 \in Seq(Assertion) /\ j4 \in Seq(Assertion)
    BY <1>1, AssertionType
  <1>3. /\ Failed(Fail("IDTrustDomainNonEmpty", tag))
        /\ ~Failed(j1)
        /\ Failed(j2) <=> ~(name \notin UpperNames)
        /\ Failed(j3) <=> ~(name \notin BadCharNames)
        /\ Failed(j4) <=> ~(name \notin LongNames)
    BY <1>1, JudgeFails, Zenon
  <1>4. CheckTrustDomain(tag, name) =
          IF name = "" THEN Fail("IDTrustDomainNonEmpty", tag) ELSE j1 \o j2 \o j3 \o j4
    BY DEF CheckTrustDomain
  <1> HIDE DEF j1, j2, j3, j4
  <1>5. Failed(j1 \o j2 \o j3 \o j4)
          <=> Failed(j1) \/ Failed(j2) \/ Failed(j3) \/ Failed(j4)
    BY <1>2, AnyOfFourFails
  <1>6. GoodTrustDomain(name) <=> /\ name # "" /\ name \notin UpperNames
                                  /\ name \notin BadCharNames /\ name \notin LongNames
    BY DEF GoodTrustDomain
  <1>7. CASE name = ""
    BY <1>3, <1>4, <1>6, <1>7, Zenon
  <1>8. CASE name # ""
    BY <1>3, <1>4, <1>5, <1>6, <1>8, Zenon
  <1> QED
    BY <1>7, <1>8

---------------------------------------------------------------------------
(* A sweep as a verdict: which clauses it judges, and how.                 *)

\* r has a line for every clause of D and no other, no two about the same
\* clause, and a clause passes exactly if it is in T.
Judges(r, D, T) ==
    /\ r \in Seq(Assertion)
    /\ NoneTwice(r)
    /\ \A i \in DOMAIN r : r[i].clause \in D
    /\ \A i \in DOMAIN r : r[i] = Verdict(r[i].clause, r[i].clause \in T, NoTag)
    /\ \A c \in D : \E i \in DOMAIN r : r[i].clause = c

LEMMA NoTagIsATag == NoTag \in Tags
  BY TagAssumption DEF NoTag

LEMMA VerdictParts ==
  ASSUME NEW c, NEW holds, NEW about
  PROVE  /\ Verdict(c, holds, about).clause = c
         /\ Verdict(c, holds, about).about = about
         /\ Verdict(c, holds, about).status = "pass" <=> holds
         /\ Verdict(c, holds, about).status = "fail" <=> ~holds /\ c \notin ShouldClauses
  BY DEF Verdict, Severity

LEMMA VerdictStatus ==
  ASSUME NEW a, NEW T, a = Verdict(a.clause, a.clause \in T, NoTag)
  PROVE  /\ a.status = "pass" <=> a.clause \in T
         /\ a.status = "fail" <=> a.clause \notin T /\ a.clause \notin ShouldClauses
  <1>1. a.status = IF a.clause \in T THEN "pass"
                   ELSE IF a.clause \in ShouldClauses THEN "warn" ELSE "fail"
    BY DEF Verdict, Severity
  <1> QED
    BY <1>1

LEMMA OneJudges ==
  ASSUME NEW c \in Clause, NEW T
  PROVE  Judges(<< Verdict(c, c \in T, NoTag) >>, {c}, T)
  <1> DEFINE a == Verdict(c, c \in T, NoTag)
  <1>1. a \in Assertion
    BY VerdictType, NoTagIsATag
  <1>2. a.clause = c
    BY VerdictParts
  <1> HIDE DEF a
  <1>3. <<a>> \in Seq(Assertion) /\ DOMAIN <<a>> = {1} /\ <<a>>[1] = a
    BY <1>1
  <1>4. NoneTwice(<<a>>)
    BY OneLine
  <1>5. a = Verdict(a.clause, a.clause \in T, NoTag)
    BY <1>2 DEF a
  <1>6. Judges(<<a>>, {c}, T)
    BY <1>2, <1>3, <1>4, <1>5 DEF Judges
  <1> QED
    BY <1>6 DEF a

LEMMA JudgeJudges ==
  ASSUME NEW c \in Clause, NEW T, NEW holds, holds <=> c \in T
  PROVE  Judges(Judge(c, holds, ""), {c}, T)
  <1>1. Verdict(c, holds, NoTag) = Verdict(c, c \in T, NoTag)
    BY Zenon DEF Verdict
  <1>2. Judge(c, holds, "") = << Verdict(c, c \in T, NoTag) >>
    BY <1>1, JudgeIsVerdict, Zenon DEF NoTag
  <1> QED
    BY <1>2, OneJudges

LEMMA PassJudges ==
  ASSUME NEW c \in Clause, NEW T, c \in T
  PROVE  Judges(Pass(c, ""), {c}, T)
  <1>1. Judges(Judge(c, TRUE, ""), {c}, T)
    BY JudgeJudges
  <1> QED
    BY <1>1 DEF Judge

LEMMA FailJudges ==
  ASSUME NEW c \in Clause, NEW T, c \notin T
  PROVE  Judges(Fail(c, ""), {c}, T)
  <1>1. Judges(Judge(c, FALSE, ""), {c}, T)
    BY JudgeJudges
  <1> QED
    BY <1>1 DEF Judge

LEMMA NoneJudges ==
  ASSUME NEW T
  PROVE  Judges(<< >>, {}, T)
  BY NoLine, Concatenation DEF Judges

LEMMA JudgesTopics ==
  ASSUME NEW r, NEW D, NEW T, Judges(r, D, T)
  PROVE  /\ \A x \in Topics(r) : \E c \in D : x = Topic(c, NoTag)
         /\ \A i \in DOMAIN r : TopicOf(r[i]) = Topic(r[i].clause, NoTag)
  <1>1. ASSUME NEW i \in DOMAIN r
        PROVE  TopicOf(r[i]) = Topic(r[i].clause, NoTag)
    <2>1. r[i].about = NoTag
      BY VerdictParts DEF Judges
    <2> QED
      BY <2>1 DEF TopicOf
  <1> QED
    BY <1>1 DEF Topics, Judges

LEMMA BothJudge ==
  ASSUME NEW s, NEW t, NEW D, NEW E, NEW T,
         Judges(s, D, T), Judges(t, E, T), D \cap E = {}
  PROVE  Judges(s \o t, D \cup E, T)
  <1>1. s \in Seq(Assertion) /\ t \in Seq(Assertion)
    BY DEF Judges
  <1>2. Topics(s) \cap Topics(t) = {}
    BY JudgesTopics, TopicInjective
  <1>3. s \o t \in Seq(Assertion)
    BY <1>1, Concatenation
  <1>4. NoneTwice(s \o t)
    BY <1>1, <1>2, NoneTwiceInBoth DEF Judges
  <1>5. ASSUME NEW k \in DOMAIN (s \o t)
        PROVE  \/ \E i \in DOMAIN s : (s \o t)[k] = s[i]
               \/ \E i \in DOMAIN t : (s \o t)[k] = t[i]
    BY <1>1, LinesOfBoth
  <1>6. ASSUME NEW k \in DOMAIN (s \o t)
        PROVE  /\ (s \o t)[k].clause \in D \cup E
               /\ (s \o t)[k] = Verdict((s \o t)[k].clause, (s \o t)[k].clause \in T, NoTag)
    BY <1>5 DEF Judges
  <1>7. ASSUME NEW c \in D \cup E
        PROVE  \E k \in DOMAIN (s \o t) : (s \o t)[k].clause = c
    <2>1. CASE c \in D
      <3>1. PICK i \in DOMAIN s : s[i].clause = c
        BY <2>1 DEF Judges
      <3> QED
        BY <3>1, <1>1, LinesOfBoth
    <2>2. CASE c \in E
      <3>1. PICK i \in DOMAIN t : t[i].clause = c
        BY <2>2 DEF Judges
      <3>2. Len(s) + i \in DOMAIN (s \o t) /\ (s \o t)[Len(s) + i] = t[i]
        BY <1>1, LinesOfBoth
      <3> QED
        BY <3>1, <3>2, Zenon
    <2> QED
      BY <2>1, <2>2
  <1> QED
    BY <1>3, <1>4, <1>6, <1>7 DEF Judges

\* Failing is having judged and not found one of the fatal clauses.
LEMMA JudgesFailed ==
  ASSUME NEW r, NEW D, NEW T, Judges(r, D, T)
  PROVE  Failed(r) <=> \E c \in D \ ShouldClauses : c \notin T
  <1>1. ASSUME NEW i \in DOMAIN r
        PROVE  /\ r[i].clause \in D
               /\ r[i].status = "fail" <=> r[i].clause \notin T /\ r[i].clause \notin ShouldClauses
    BY VerdictStatus DEF Judges
  <1>2. ASSUME NEW c \in D
        PROVE  \E i \in DOMAIN r : r[i].clause = c
    BY DEF Judges
  <1> QED
    BY <1>1, <1>2 DEF Failed

\* A sweep may judge fewer clauses than bind the artifact (M) and be mistaken
\* about some, and still fail exactly when one of those that bind it does not
\* hold: it is enough that nothing false passes (H are the true clauses), that
\* what fails has a reason, and that leaving clauses out has one.
LEMMA VerdictIsExact ==
  ASSUME NEW r, NEW D, NEW T, Judges(r, D, T), NEW M, D \subseteq M, NEW H,
         (D \cap T) \ ShouldClauses \subseteq H,
         \A c \in D \ ShouldClauses : c \notin T => \E d \in M \ ShouldClauses : d \notin H,
         (\A c \in D \ ShouldClauses : c \in T) => M \subseteq D
  PROVE  /\ Failed(r) <=> \E c \in M \ ShouldClauses : c \notin H
         /\ ~Failed(r) => M \subseteq D
  BY JudgesFailed

\* What is already there of such a report is no different from the end.
LEMMA PartJudges ==
  ASSUME NEW s \in Seq(Assertion), NEW t \in Seq(Assertion), NEW D, NEW T,
         Judges(s \o t, D, T)
  PROVE  /\ \A i \in DOMAIN s : s[i].clause \in D
         /\ \A i \in DOMAIN s : s[i].status = "pass" <=> s[i].clause \in T
         /\ \A i, j \in DOMAIN s : s[i].clause = s[j].clause => i = j
  <1>1. \A i \in DOMAIN s : i \in DOMAIN (s \o t) /\ (s \o t)[i] = s[i]
    BY LinesOfBoth
  <1>2. \A i \in DOMAIN s : /\ s[i].clause \in D
                            /\ s[i] = Verdict(s[i].clause, s[i].clause \in T, NoTag)
    BY <1>1 DEF Judges
  <1>3. \A i \in DOMAIN s : s[i].status = "pass" <=> s[i].clause \in T
    BY <1>2, VerdictStatus
  <1>4. ASSUME NEW i \in DOMAIN s, NEW j \in DOMAIN s, s[i].clause = s[j].clause
        PROVE  i = j
    <2>1. s[i] = s[j]
      BY <1>2, <1>4
    <2> QED
      BY <2>1, <1>1 DEF Judges, NoneTwice
  <1> QED
    BY <1>2, <1>3, <1>4

---------------------------------------------------------------------------
(* id.Check: the clauses it judges, for every text.                        *)

\* The clauses about a trust domain name that is not empty.
NameRules == {"IDTrustDomainLowercase", "IDTrustDomainCharset", "IDTrustDomainLengthLimit"}

PathRules ==
    {"IDPathNoPercent", "IDPathNoTrailingSlash", "IDPathNoEmptyOrDot", "IDPathSegmentCharset"}

\* What id.Check comes to.
IdJudged(t) ==
    {"IDNoQueryFragment", "IDSchemeSpiffe"}
    \cup IF ~t.parses THEN {}
         ELSE {"IDNoUserinfo", "IDNoPort", "IDTrustDomainNonEmpty", "IDLengthLimit"}
              \cup PathRules \cup IF t.td = "" THEN {} ELSE NameRules

\* T holds the clauses that are true of t, those about its path judged of the
\* escaped one.
IdTold(t, T) ==
    LET p == EscapedPath(t)
    IN  /\ "IDNoQueryFragment" \in T <=> t.query = "none" /\ t.fragment = "none"
        /\ "IDSchemeSpiffe" \in T <=> t.parses /\ t.scheme = "spiffe"
        /\ "IDNoUserinfo" \in T <=> ~t.user
        /\ "IDNoPort" \in T <=> t.colon = "none"
        /\ "IDTrustDomainNonEmpty" \in T <=> t.td # ""
        /\ "IDTrustDomainLowercase" \in T <=> t.td \notin UpperNames
        /\ "IDTrustDomainCharset" \in T <=> t.td \notin BadCharNames
        /\ "IDTrustDomainLengthLimit" \in T <=> t.td \notin LongNames
        /\ "IDPathNoPercent" \in T <=> \A i \in DOMAIN p : p[i] # "percent"
        /\ "IDPathNoEmptyOrDot" \in T <=> \A i \in DOMAIN p : p[i] \notin {"empty", "dot"}
        /\ "IDPathNoTrailingSlash" \in T <=> p = << >> \/ p[Len(p)] # "empty"
        /\ "IDPathSegmentCharset" \in T
              <=> \A i \in DOMAIN p : p[i] \in {"empty", "dot", "ok"}
        /\ "IDLengthLimit" \in T <=> ~t.long

LEMMA IdClauses == SpiffeIdClauses \subseteq Clause
  BY DEF Clause

LEMMA QueryFragmentJudges ==
  ASSUME NEW t, NEW T, IdTold(t, T)
  PROVE  Judges(CheckQueryFragment(t), {"IDNoQueryFragment"}, T)
  <1>1. "IDNoQueryFragment" \in Clause
    BY IdClauses DEF SpiffeIdClauses
  <1>2. (t.query = "none" /\ t.fragment = "none") <=> "IDNoQueryFragment" \in T
    BY DEF IdTold
  <1> QED
    BY <1>1, <1>2, JudgeJudges, Zenon DEF CheckQueryFragment

LEMMA SchemeJudges ==
  ASSUME NEW t, NEW T, IdTold(t, T), t.parses
  PROVE  Judges(CheckScheme(t), {"IDSchemeSpiffe"}, T)
  <1>1. "IDSchemeSpiffe" \in Clause
    BY IdClauses DEF SpiffeIdClauses
  <1>2. t.scheme = "spiffe" <=> "IDSchemeSpiffe" \in T
    BY DEF IdTold
  <1> QED
    BY <1>1, <1>2, JudgeJudges, Zenon DEF CheckScheme

LEMMA NoSchemeJudges ==
  ASSUME NEW t, NEW T, IdTold(t, T), ~t.parses
  PROVE  Judges(Fail("IDSchemeSpiffe", ""), {"IDSchemeSpiffe"}, T)
  <1>1. "IDSchemeSpiffe" \in Clause
    BY IdClauses DEF SpiffeIdClauses
  <1>2. "IDSchemeSpiffe" \notin T
    BY DEF IdTold
  <1> QED
    BY <1>1, <1>2, FailJudges

LEMMA LengthJudges ==
  ASSUME NEW t, NEW T, IdTold(t, T)
  PROVE  Judges(CheckLength(t), {"IDLengthLimit"}, T)
  <1>1. "IDLengthLimit" \in Clause
    BY IdClauses DEF SpiffeIdClauses
  <1>2. ~t.long <=> "IDLengthLimit" \in T
    BY DEF IdTold
  <1> QED
    BY <1>1, <1>2, JudgeJudges, Zenon DEF CheckLength

LEMMA NameJudges ==
  ASSUME NEW t, NEW T, IdTold(t, T)
  PROVE  Judges(CheckTrustDomain("", t.td),
                {"IDTrustDomainNonEmpty"} \cup IF t.td = "" THEN {} ELSE NameRules, T)
  <1> DEFINE j1 == Pass("IDTrustDomainNonEmpty", "")
             j2 == Judge("IDTrustDomainLowercase", t.td \notin UpperNames, "")
             j3 == Judge("IDTrustDomainCharset", t.td \notin BadCharNames, "")
             j4 == Judge("IDTrustDomainLengthLimit", t.td \notin LongNames, "")
  <1>1. /\ "IDTrustDomainNonEmpty" \in Clause /\ "IDTrustDomainLowercase" \in Clause
        /\ "IDTrustDomainCharset" \in Clause /\ "IDTrustDomainLengthLimit" \in Clause
    BY IdClauses DEF SpiffeIdClauses
  <1>2. /\ t.td # "" <=> "IDTrustDomainNonEmpty" \in T
        /\ t.td \notin UpperNames <=> "IDTrustDomainLowercase" \in T
        /\ t.td \notin BadCharNames <=> "IDTrustDomainCharset" \in T
        /\ t.td \notin LongNames <=> "IDTrustDomainLengthLimit" \in T
    BY DEF IdTold
  <1>3. CheckTrustDomain("", t.td) =
          IF t.td = "" THEN Fail("IDTrustDomainNonEmpty", "") ELSE j1 \o j2 \o j3 \o j4
    BY DEF CheckTrustDomain
  <1>4. CASE t.td = ""
    <2>1. Judges(Fail("IDTrustDomainNonEmpty", ""), {"IDTrustDomainNonEmpty"}, T)
      BY <1>1, <1>2, <1>4, FailJudges, Zenon
    <2>2. {"IDTrustDomainNonEmpty"} \cup {} = {"IDTrustDomainNonEmpty"}
      OBVIOUS
    <2> QED
      BY <2>1, <2>2, <1>3, <1>4, Zenon
  <1>5. CASE t.td # ""
    <2>1. /\ Judges(j1, {"IDTrustDomainNonEmpty"}, T)
          /\ Judges(j2, {"IDTrustDomainLowercase"}, T)
          /\ Judges(j3, {"IDTrustDomainCharset"}, T)
          /\ Judges(j4, {"IDTrustDomainLengthLimit"}, T)
      BY <1>1, <1>2, <1>5, PassJudges, JudgeJudges, Zenon
    <2> HIDE DEF j1, j2, j3, j4
    <2>2. Judges(j1 \o j2 \o j3 \o j4,
                 {"IDTrustDomainNonEmpty"} \cup {"IDTrustDomainLowercase"}
                 \cup {"IDTrustDomainCharset"} \cup {"IDTrustDomainLengthLimit"}, T)
      BY <2>1, BothJudge
    <2>3. {"IDTrustDomainNonEmpty"} \cup {"IDTrustDomainLowercase"}
          \cup {"IDTrustDomainCharset"} \cup {"IDTrustDomainLengthLimit"}
            = {"IDTrustDomainNonEmpty"} \cup NameRules
      BY DEF NameRules
    <2> QED
      BY <2>2, <2>3, <1>3, <1>5, Zenon
  <1> QED
    BY <1>4, <1>5

LEMMA AuthorityJudges ==
  ASSUME NEW t, NEW T, IdTold(t, T)
  PROVE  Judges(CheckAuthority(t),
                {"IDNoUserinfo", "IDNoPort", "IDTrustDomainNonEmpty"}
                \cup IF t.td = "" THEN {} ELSE NameRules, T)
  <1> DEFINE j1 == Judge("IDNoUserinfo", ~t.user, "")
             j2 == Judge("IDNoPort", t.colon = "none", "")
             j3 == CheckTrustDomain("", t.td)
             D == {"IDTrustDomainNonEmpty"} \cup IF t.td = "" THEN {} ELSE NameRules
  <1>1. "IDNoUserinfo" \in Clause /\ "IDNoPort" \in Clause
    BY IdClauses DEF SpiffeIdClauses
  <1>2. /\ ~t.user <=> "IDNoUserinfo" \in T
        /\ t.colon = "none" <=> "IDNoPort" \in T
    BY DEF IdTold
  <1>3. Judges(j1, {"IDNoUserinfo"}, T) /\ Judges(j2, {"IDNoPort"}, T)
    BY <1>1, <1>2, JudgeJudges, Zenon
  <1>4. Judges(j3, D, T)
    BY NameJudges
  <1>5. CheckAuthority(t) = j1 \o j2 \o j3
    BY DEF CheckAuthority
  <1>6. {"IDNoUserinfo"} \cup {"IDNoPort"} \cup D =
          {"IDNoUserinfo", "IDNoPort", "IDTrustDomainNonEmpty"}
          \cup IF t.td = "" THEN {} ELSE NameRules
    OBVIOUS
  <1>7. "IDNoUserinfo" \notin D /\ "IDNoPort" \notin D
    BY DEF NameRules
  <1> HIDE DEF j1, j2, j3, D
  <1>8. Judges(j1 \o j2 \o j3, {"IDNoUserinfo"} \cup {"IDNoPort"} \cup D, T)
    BY <1>3, <1>4, <1>7, BothJudge
  <1> QED
    BY <1>5, <1>6, <1>8, Zenon

LEMMA PathJudges ==
  ASSUME NEW t, NEW T, IdTold(t, T)
  PROVE  Judges(CheckPath(t), PathRules, T)
  <1> DEFINE raw == EscapedPath(t)
             j1 == Judge("IDPathNoPercent", "percent" \notin ToSet(raw), "")
             j2 == Judge("IDPathNoTrailingSlash", Last(raw) # "empty", "")
             j3 == Judge("IDPathNoEmptyOrDot", {"empty", "dot"} \cap ToSet(raw) = {}, "")
             j4 == Judge("IDPathSegmentCharset",
                         ToSet(raw) \subseteq {"empty", "dot", "ok"}, "")
             p2 == Pass("IDPathNoTrailingSlash", "")
             p3 == Pass("IDPathNoEmptyOrDot", "")
             p4 == Pass("IDPathSegmentCharset", "")
             D == {"IDPathNoPercent"} \cup ({"IDPathNoTrailingSlash"}
                    \cup {"IDPathNoEmptyOrDot"} \cup {"IDPathSegmentCharset"})
  <1>1. /\ "IDPathNoPercent" \in Clause /\ "IDPathNoTrailingSlash" \in Clause
        /\ "IDPathNoEmptyOrDot" \in Clause /\ "IDPathSegmentCharset" \in Clause
    BY IdClauses DEF SpiffeIdClauses
  <1>2. D = PathRules
    BY DEF PathRules
  <1>3. CheckPath(t) = j1 \o IF raw = << >> THEN p2 \o p3 \o p4 ELSE j2 \o j3 \o j4
    BY DEF CheckPath
  <1>4. Judges(j1, {"IDPathNoPercent"}, T)
    <2>1. "percent" \notin ToSet(raw) <=> "IDPathNoPercent" \in T
      BY DEF IdTold, ToSet
    <2> QED
      BY <2>1, <1>1, JudgeJudges, Zenon
  <1>5. CASE raw = << >>
    <2>2. /\ "IDPathNoTrailingSlash" \in T /\ "IDPathNoEmptyOrDot" \in T
          /\ "IDPathSegmentCharset" \in T
      <3>1. DOMAIN raw = {}
        BY <1>5
      <3> QED
        BY <1>5, <3>1 DEF IdTold
    <2>3. /\ Judges(p2, {"IDPathNoTrailingSlash"}, T)
          /\ Judges(p3, {"IDPathNoEmptyOrDot"}, T)
          /\ Judges(p4, {"IDPathSegmentCharset"}, T)
      BY <2>2, <1>1, PassJudges, Zenon
    <2> HIDE DEF j1, p2, p3, p4
    <2>4. Judges(j1 \o (p2 \o p3 \o p4), D, T)
      BY <2>3, <1>4, BothJudge
    <2> QED
      BY <2>4, <1>2, <1>3, <1>5, Zenon
  <1>6. CASE raw # << >>
    <2>2. Last(raw) # "empty" <=> "IDPathNoTrailingSlash" \in T
      BY <1>6 DEF IdTold, Last
    <2>3. {"empty", "dot"} \cap ToSet(raw) = {} <=> "IDPathNoEmptyOrDot" \in T
      BY DEF IdTold, ToSet
    <2>4. ToSet(raw) \subseteq {"empty", "dot", "ok"} <=> "IDPathSegmentCharset" \in T
      BY DEF IdTold, ToSet
    <2>5. /\ Judges(j2, {"IDPathNoTrailingSlash"}, T)
          /\ Judges(j3, {"IDPathNoEmptyOrDot"}, T)
          /\ Judges(j4, {"IDPathSegmentCharset"}, T)
      BY <2>2, <2>3, <2>4, <1>1, JudgeJudges, Zenon
    <2> HIDE DEF j1, j2, j3, j4
    <2>6. Judges(j1 \o (j2 \o j3 \o j4), D, T)
      BY <2>5, <1>4, BothJudge
    <2> QED
      BY <2>6, <1>2, <1>3, <1>6, Zenon
  <1> QED
    BY <1>5, <1>6

\* The sweep over an ID: which clauses an early return leaves out, and that the
\* others are judged once and by what they say.
LEMMA IdCheckJudges ==
  ASSUME NEW t, NEW T, IdTold(t, T)
  PROVE  Judges(IdCheck(t), IdJudged(t), T)
  <1> DEFINE names == IF t.td = "" THEN {} ELSE NameRules
             c1 == CheckQueryFragment(t)
             c2 == CheckScheme(t)
             c3 == CheckAuthority(t)
             c4 == CheckPath(t)
             c5 == CheckLength(t)
             none == Fail("IDSchemeSpiffe", "")
             D3 == {"IDNoUserinfo", "IDNoPort", "IDTrustDomainNonEmpty"} \cup names
  <1>1. Judges(c1, {"IDNoQueryFragment"}, T)
    BY QueryFragmentJudges
  <1>2. IdCheck(t) = c1 \o IF ~t.parses THEN none ELSE c2 \o c3 \o c4 \o c5
    BY DEF IdCheck
  <1>3. CASE ~t.parses
    <2>1. Judges(none, {"IDSchemeSpiffe"}, T)
      BY <1>3, NoSchemeJudges
    <2> HIDE DEF c1, none
    <2>2. Judges(c1 \o none, {"IDNoQueryFragment"} \cup {"IDSchemeSpiffe"}, T)
      BY <1>1, <2>1, BothJudge
    <2>3. IdJudged(t) = {"IDNoQueryFragment"} \cup {"IDSchemeSpiffe"}
      BY <1>3 DEF IdJudged
    <2> QED
      BY <2>2, <2>3, <1>2, <1>3, Zenon
  <1>4. CASE t.parses
    <2>1. /\ Judges(c2, {"IDSchemeSpiffe"}, T) /\ Judges(c3, D3, T)
          /\ Judges(c4, PathRules, T) /\ Judges(c5, {"IDLengthLimit"}, T)
      BY <1>4, SchemeJudges, AuthorityJudges, PathJudges, LengthJudges
    <2>2. /\ {"IDSchemeSpiffe"} \cap D3 = {}
          /\ ({"IDSchemeSpiffe"} \cup D3) \cap PathRules = {}
          /\ ({"IDSchemeSpiffe"} \cup D3 \cup PathRules) \cap {"IDLengthLimit"} = {}
          /\ {"IDNoQueryFragment"}
               \cap ({"IDSchemeSpiffe"} \cup D3 \cup PathRules \cup {"IDLengthLimit"}) = {}
      BY DEF NameRules, PathRules
    <2>3. IdJudged(t) = {"IDNoQueryFragment"} \cup ({"IDSchemeSpiffe"} \cup D3
                          \cup PathRules \cup {"IDLengthLimit"})
      BY <1>4 DEF IdJudged
    <2> HIDE DEF c1, c2, c3, c4, c5, D3
    <2>4. Judges(c2 \o c3, {"IDSchemeSpiffe"} \cup D3, T)
      BY <2>1, <2>2, BothJudge
    <2>5. Judges(c2 \o c3 \o c4, {"IDSchemeSpiffe"} \cup D3 \cup PathRules, T)
      BY <2>1, <2>2, <2>4, BothJudge
    <2>6. Judges(c2 \o c3 \o c4 \o c5,
                 {"IDSchemeSpiffe"} \cup D3 \cup PathRules \cup {"IDLengthLimit"}, T)
      BY <2>1, <2>2, <2>5, BothJudge
    <2>7. Judges(c1 \o (c2 \o c3 \o c4 \o c5),
                 {"IDNoQueryFragment"} \cup ({"IDSchemeSpiffe"} \cup D3
                          \cup PathRules \cup {"IDLengthLimit"}), T)
      BY <1>1, <2>2, <2>6, BothJudge
    <2> QED
      BY <2>3, <2>7, <1>2, <1>4, Zenon
  <1> QED
    BY <1>3, <1>4

\* An ID whose MUSTs hold has been judged by every clause.
LEMMA NothingOfTheIdLeftOut ==
  ASSUME NEW t, NEW T, IdTold(t, T),
         "IDSchemeSpiffe" \in T, "IDTrustDomainNonEmpty" \in T
  PROVE  IdJudged(t) = SpiffeIdClauses
  <1>1. t.parses /\ t.td # ""
    BY DEF IdTold
  <1>2. IdJudged(t) = {"IDNoQueryFragment", "IDSchemeSpiffe", "IDNoUserinfo", "IDNoPort",
                       "IDTrustDomainNonEmpty", "IDLengthLimit"} \cup PathRules \cup NameRules
    BY <1>1 DEF IdJudged
  <1> QED
    BY <1>2 DEF PathRules, NameRules, SpiffeIdClauses

---------------------------------------------------------------------------
(* What the sweep over an ID tells is what is true of it.                  *)

\* The clauses about a path that are true of p.
PathTrue(p) ==
    {c \in PathRules :
        /\ c = "IDPathNoPercent" => \A i \in DOMAIN p : p[i] # "percent"
        /\ c = "IDPathNoEmptyOrDot" => \A i \in DOMAIN p : p[i] \notin {"empty", "dot"}
        /\ c = "IDPathNoTrailingSlash" => p = << >> \/ p[Len(p)] # "empty"
        /\ c = "IDPathSegmentCharset" => \A i \in DOMAIN p : p[i] \in {"empty", "dot", "ok"}}

\* The clauses that come out true: all that are, those about the path judged of
\* the escaped one.
IdTrue(t) ==
    {c \in SpiffeIdClauses :
        IF c \in PathRules THEN c \in PathTrue(EscapedPath(t)) ELSE IdTruth(t)[c]}

LEMMA IdTruthParts ==
  ASSUME NEW t
  PROVE  /\ IdTruth(t)["IDNoQueryFragment"] <=> (t.query = "none" /\ t.fragment = "none")
         /\ IdTruth(t)["IDSchemeSpiffe"] <=> (t.parses /\ t.scheme = "spiffe")
         /\ IdTruth(t)["IDNoUserinfo"] <=> ~t.user
         /\ IdTruth(t)["IDNoPort"] <=> (t.colon = "none")
         /\ IdTruth(t)["IDTrustDomainNonEmpty"] <=> (t.td # "")
         /\ IdTruth(t)["IDTrustDomainLowercase"] <=> (t.td \notin UpperNames)
         /\ IdTruth(t)["IDTrustDomainCharset"] <=> (t.td \notin BadCharNames)
         /\ IdTruth(t)["IDTrustDomainLengthLimit"] <=> (t.td \notin LongNames)
         /\ IdTruth(t)["IDPathNoPercent"] <=>
               \A i \in DOMAIN t.path : t.path[i] \notin {"percent", "mixed"}
         /\ IdTruth(t)["IDPathNoEmptyOrDot"] <=>
               \A i \in DOMAIN t.path : t.path[i] \notin {"empty", "dot"}
         /\ IdTruth(t)["IDPathNoTrailingSlash"] <=>
               (t.path = << >> \/ t.path[Len(t.path)] # "empty")
         /\ IdTruth(t)["IDPathSegmentCharset"] <=>
               \A i \in DOMAIN t.path : t.path[i] \in {"empty", "dot", "ok"}
         /\ IdTruth(t)["IDLengthLimit"] <=> ~t.long
         /\ DOMAIN IdTruth(t) = SpiffeIdClauses
  BY DEF IdTruth, SpiffeIdClauses

LEMMA IdTrueIsTold ==
  ASSUME NEW t, NEW T, \A c \in SpiffeIdClauses : c \in T <=> c \in IdTrue(t)
  PROVE  IdTold(t, T)
  <1> DEFINE p == EscapedPath(t)
  <1>1. ASSUME NEW c \in SpiffeIdClauses \ PathRules
        PROVE  c \in T <=> IdTruth(t)[c]
    BY DEF IdTrue
  <1>2. ASSUME NEW c \in PathRules
        PROVE  c \in T <=> c \in PathTrue(p)
    BY DEF IdTrue, PathRules, SpiffeIdClauses
  <1> HIDE DEF p
  <1>4. "IDPathNoPercent" \in T <=> \A i \in DOMAIN p : p[i] # "percent"
    BY <1>2 DEF PathTrue, PathRules
  <1>5. "IDNoQueryFragment" \in T <=> t.query = "none" /\ t.fragment = "none"
    <2>1. "IDNoQueryFragment" \in T <=> IdTruth(t)["IDNoQueryFragment"]
      BY <1>1 DEF SpiffeIdClauses, PathRules
    <2> QED
      BY <2>1, IdTruthParts
  <1>6. "IDSchemeSpiffe" \in T <=> t.parses /\ t.scheme = "spiffe"
    <2>1. "IDSchemeSpiffe" \in T <=> IdTruth(t)["IDSchemeSpiffe"]
      BY <1>1 DEF SpiffeIdClauses, PathRules
    <2> QED
      BY <2>1, IdTruthParts
  <1>7. "IDNoUserinfo" \in T <=> ~t.user
    <2>1. "IDNoUserinfo" \in T <=> IdTruth(t)["IDNoUserinfo"]
      BY <1>1 DEF SpiffeIdClauses, PathRules
    <2> QED
      BY <2>1, IdTruthParts
  <1>8. "IDNoPort" \in T <=> t.colon = "none"
    <2>1. "IDNoPort" \in T <=> IdTruth(t)["IDNoPort"]
      BY <1>1 DEF SpiffeIdClauses, PathRules
    <2> QED
      BY <2>1, IdTruthParts
  <1>9. "IDTrustDomainNonEmpty" \in T <=> t.td # ""
    <2>1. "IDTrustDomainNonEmpty" \in T <=> IdTruth(t)["IDTrustDomainNonEmpty"]
      BY <1>1 DEF SpiffeIdClauses, PathRules
    <2> QED
      BY <2>1, IdTruthParts
  <1>10. "IDTrustDomainLowercase" \in T <=> t.td \notin UpperNames
    <2>1. "IDTrustDomainLowercase" \in T <=> IdTruth(t)["IDTrustDomainLowercase"]
      BY <1>1 DEF SpiffeIdClauses, PathRules
    <2> QED
      BY <2>1, IdTruthParts
  <1>11. "IDTrustDomainCharset" \in T <=> t.td \notin BadCharNames
    <2>1. "IDTrustDomainCharset" \in T <=> IdTruth(t)["IDTrustDomainCharset"]
      BY <1>1 DEF SpiffeIdClauses, PathRules
    <2> QED
      BY <2>1, IdTruthParts
  <1>12. "IDTrustDomainLengthLimit" \in T <=> t.td \notin LongNames
    <2>1. "IDTrustDomainLengthLimit" \in T <=> IdTruth(t)["IDTrustDomainLengthLimit"]
      BY <1>1 DEF SpiffeIdClauses, PathRules
    <2> QED
      BY <2>1, IdTruthParts
  <1>13. "IDPathNoEmptyOrDot" \in T <=> \A i \in DOMAIN p : p[i] \notin {"empty", "dot"}
    BY <1>2 DEF PathTrue, PathRules
  <1>14. "IDPathNoTrailingSlash" \in T <=> p = << >> \/ p[Len(p)] # "empty"
    BY <1>2 DEF PathTrue, PathRules
  <1>15. "IDPathSegmentCharset" \in T <=> \A i \in DOMAIN p : p[i] \in {"empty", "dot", "ok"}
    BY <1>2 DEF PathTrue, PathRules
  <1>16. "IDLengthLimit" \in T <=> ~t.long
    <2>1. "IDLengthLimit" \in T <=> IdTruth(t)["IDLengthLimit"]
      BY <1>1 DEF SpiffeIdClauses, PathRules
    <2> QED
      BY <2>1, IdTruthParts
  <1> QED
    BY <1>4, <1>5, <1>6, <1>7, <1>8, <1>9, <1>10, <1>11, <1>12, <1>13, <1>14, <1>15, <1>16 DEF IdTold, p

\* What the clauses can be sure of when a path is escaped anew.
LEMMA EscapedAnew ==
  ASSUME NEW t \in IdText, NEW p, p = EscapedPath(t)
  PROVE  /\ ~HasRaw(t.path) =>
               p = t.path /\ \A i \in DOMAIN t.path : t.path[i] \notin {"raw", "mixed"}
         /\ HasRaw(t.path) =>
               /\ \E i \in DOMAIN p : p[i] = "percent"
               /\ \E i \in DOMAIN t.path : t.path[i] \in {"raw", "mixed"}
               /\ \A i \in DOMAIN t.path : t.path[i] \in {"empty", "dot"} =>
                     \E j \in DOMAIN p : p[j] = t.path[i]
               /\ t.path[Len(t.path)] = "empty" => p # << >> /\ p[Len(p)] = "empty"
  <1>1. EscapesTo(t.path, p)
    BY DEF IdText, EscapedPath
  <1>2. HasRaw(t.path) <=> \E i \in DOMAIN t.path : t.path[i] \in {"raw", "mixed"}
    BY DEF HasRaw, RawSegment, ToSet
  <1>3. ASSUME HasRaw(t.path)
        PROVE  /\ \E i \in DOMAIN p : p[i] = "percent"
               /\ \A i \in DOMAIN t.path : t.path[i] \in {"empty", "dot"} =>
                     \E j \in DOMAIN p : p[j] = t.path[i]
               /\ t.path[Len(t.path)] = "empty" => p # << >> /\ p[Len(p)] = "empty"
    <2>1. "percent" \in ToSet(p)
      BY <1>1, <1>3 DEF EscapesTo
    <2>2. \E i \in DOMAIN p : p[i] = "percent"
      BY <2>1 DEF ToSet
    <2>3. \A x \in {"empty", "dot"} : x \in ToSet(t.path) => x \in ToSet(p)
      BY <1>1, <1>3 DEF EscapesTo
    <2>4. p # << >>
      BY <2>2
    <2>5. t.path[Len(t.path)] = "empty" => p[Len(p)] = "empty"
      BY <1>1, <1>3 DEF EscapesTo
    <2>6. \A i \in DOMAIN t.path : t.path[i] \in {"empty", "dot"} =>
             \E j \in DOMAIN p : p[j] = t.path[i]
      BY <2>3 DEF ToSet
    <2> QED
      BY <2>2, <2>4, <2>5, <2>6
  <1>4. ~HasRaw(t.path) => p = t.path
    BY <1>1 DEF EscapesTo
  <1> QED
    BY <1>2, <1>3, <1>4

\* The clauses that may fail of the path escaped anew and hold of the written.
NewPathRules == {"IDPathNoPercent", "IDPathNoTrailingSlash", "IDPathNoEmptyOrDot"}

\* A clause that passes is true, and one that does not is not, but for those
\* that fail of a path escaped anew.
LEMMA IdToldIsTrue ==
  ASSUME NEW t \in IdText, NEW T, IdTold(t, T), NEW c \in SpiffeIdClauses
  PROVE  /\ c \in T => IdTruth(t)[c]
         /\ \/ IdTruth(t)[c] => c \in T
            \/ c \in NewPathRules /\ HasRaw(t.path)
  <1> DEFINE p == EscapedPath(t)
  <1>a. PICK q : q = p
    OBVIOUS
  <1>b. PICK w : w = t.path
    OBVIOUS
  <1>c. /\ ~HasRaw(w) => q = w /\ \A i \in DOMAIN w : w[i] \notin {"raw", "mixed"}
        /\ HasRaw(w) =>
              /\ \E i \in DOMAIN q : q[i] = "percent"
              /\ \E i \in DOMAIN w : w[i] \in {"raw", "mixed"}
              /\ \A i \in DOMAIN w : w[i] \in {"empty", "dot"} =>
                    \E j \in DOMAIN q : q[j] = w[i]
              /\ w[Len(w)] = "empty" => q # << >> /\ q[Len(q)] = "empty"
    BY <1>a, <1>b, EscapedAnew
  <1>1. CASE c = "IDPathNoPercent"
    <2>1. c \in T <=> \A i \in DOMAIN q : q[i] # "percent"
      BY <1>1, <1>a DEF IdTold
    <2>2. IdTruth(t)[c] <=> \A i \in DOMAIN w : w[i] \notin {"percent", "mixed"}
      BY <1>1, <1>b, IdTruthParts
    <2> QED
      BY <2>1, <2>2, <1>1, <1>b, <1>c DEF NewPathRules
  <1>10. CASE c = "IDPathNoEmptyOrDot"
    <2>1. c \in T <=> \A i \in DOMAIN q : q[i] \notin {"empty", "dot"}
      BY <1>10, <1>a DEF IdTold
    <2>2. IdTruth(t)[c] <=> \A i \in DOMAIN w : w[i] \notin {"empty", "dot"}
      BY <1>10, <1>b, IdTruthParts
    <2> QED
      BY <2>1, <2>2, <1>10, <1>b, <1>c DEF NewPathRules
  <1>11. CASE c = "IDPathNoTrailingSlash"
    <2>1. c \in T <=> q = << >> \/ q[Len(q)] # "empty"
      BY <1>11, <1>a DEF IdTold
    <2>2. IdTruth(t)[c] <=> w = << >> \/ w[Len(w)] # "empty"
      BY <1>11, <1>b, IdTruthParts
    <2> QED
      BY <2>1, <2>2, <1>11, <1>b, <1>c DEF NewPathRules
  <1>12. CASE c = "IDPathSegmentCharset"
    <2>1. c \in T <=> \A i \in DOMAIN q : q[i] \in {"empty", "dot", "ok"}
      BY <1>12, <1>a DEF IdTold
    <2>2. IdTruth(t)[c] <=> \A i \in DOMAIN w : w[i] \in {"empty", "dot", "ok"}
      BY <1>12, <1>b, IdTruthParts
    <2> QED
      BY <2>1, <2>2, <1>c
  <1>2. CASE c = "IDNoQueryFragment"
    BY <1>2, IdTruthParts DEF IdTold
  <1>3. CASE c = "IDSchemeSpiffe"
    BY <1>3, IdTruthParts DEF IdTold
  <1>4. CASE c = "IDNoUserinfo"
    BY <1>4, IdTruthParts DEF IdTold
  <1>5. CASE c = "IDNoPort"
    BY <1>5, IdTruthParts DEF IdTold
  <1>6. CASE c = "IDTrustDomainNonEmpty"
    <2>1. "IDTrustDomainNonEmpty" \in T <=> t.td # ""
      BY DEF IdTold
    <2>2. IdTruth(t)["IDTrustDomainNonEmpty"] <=> t.td # ""
      BY IdTruthParts
    <2> QED
      BY <2>1, <2>2, <1>6, Zenon
  <1>7. CASE c = "IDTrustDomainLowercase"
    BY <1>7, IdTruthParts DEF IdTold
  <1>8. CASE c = "IDTrustDomainCharset"
    BY <1>8, IdTruthParts DEF IdTold
  <1>9. CASE c = "IDTrustDomainLengthLimit"
    BY <1>9, IdTruthParts DEF IdTold
  <1>13. CASE c = "IDLengthLimit"
    BY <1>13, IdTruthParts DEF IdTold
  <1> QED
    BY <1>1, <1>2, <1>3, <1>4, <1>5, <1>6, <1>7, <1>8, <1>9, <1>10, <1>11, <1>12, <1>13 DEF SpiffeIdClauses

\* A MUST fails only of an ID that breaks one, if not always the same one: a path
\* escaped anew has a character outside the charset.
LEMMA IdFailsForAReason ==
  ASSUME NEW t \in IdText, NEW T, IdTold(t, T),
         NEW c \in SpiffeIdClauses \ ShouldClauses, c \notin T
  PROVE  \E d \in SpiffeIdClauses \ ShouldClauses : ~IdTruth(t)[d]
  <1>1. CASE HasRaw(t.path)
    <2>1. PICK i \in DOMAIN t.path : t.path[i] \in {"raw", "mixed"}
      BY <1>1, EscapedAnew
    <2>2. ~IdTruth(t)["IDPathSegmentCharset"]
      BY <2>1, IdTruthParts
    <2>3. "IDPathSegmentCharset" \in SpiffeIdClauses \ ShouldClauses
      BY DEF SpiffeIdClauses, ShouldClauses
    <2> QED
      BY <2>2, <2>3
  <1> QED
    BY <1>1, IdToldIsTrue

\* The clauses left out of the sweep over an ID have a reason among the others.
LEMMA IdLeavesOutForAReason ==
  ASSUME NEW t, NEW T, IdTold(t, T),
         \A c \in IdJudged(t) \ ShouldClauses : c \in T
  PROVE  IdJudged(t) = SpiffeIdClauses /\ ParseSucceeds(t)
  <1>1. "IDSchemeSpiffe" \in IdJudged(t) \ ShouldClauses
    BY DEF IdJudged, ShouldClauses
  <1>2. "IDSchemeSpiffe" \in T
    BY <1>1
  <1>3. t.parses /\ t.scheme = "spiffe"
    BY <1>2 DEF IdTold
  <1>4. "IDTrustDomainNonEmpty" \in IdJudged(t) \ ShouldClauses
    BY <1>3 DEF IdJudged, ShouldClauses
  <1> QED
    BY <1>2, <1>3, <1>4, NothingOfTheIdLeftOut DEF ParseSucceeds
=============================================================================
