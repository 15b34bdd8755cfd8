-------------------------- MODULE RenderingProofs --------------------------
(***************************************************************************)
(* For every set of clauses whose citations differ as slugs and every      *)
(* report over them: a SARIF result resolves to the one rule of its        *)
(* clause, at the level the rule declares, no format leaves out, repeats   *)
(* or reorders what it has to tell, and every format shows a failure       *)
(* exactly when the exit code is 1.                                        *)
(***************************************************************************)
EXTENDS Rendering, FiniteSetTheorems, TLAPS

LEMMA RuleIdInjective ==
  ASSUME NEW c \in Cited, NEW d \in Cited, RuleId(c) = RuleId(d)
  PROVE  c = d
  BY SlugAssumption DEF RuleId

LEMMA RuleTypes ==
  /\ \A c \in Cited : RuleOf(c) \in Rule
  /\ \A a \in CitedAssertion : ResultOf(a) \in Result
  BY DEF RuleOf, Rule, ResultOf, Result, LevelOf, Level, Ids, CitedAssertion

LEMMA ElementTypes ==
  ASSUME TypeOK
  PROVE  /\ \A n \in DOMAIN report :
               /\ report[n] \in CitedAssertion
               /\ report[n].clause \in Cited /\ report[n].status \in Status
         /\ \A j \in DOMAIN rules : rules[j].text \in Cited
  <1>1. /\ \A n \in DOMAIN report : report[n] \in CitedAssertion
        /\ \A j \in DOMAIN rules : rules[j] \in Rule
    BY DEF TypeOK
  <1>2. \A a \in CitedAssertion : a.clause \in Cited /\ a.status \in Status
    BY DEF CitedAssertion
  <1>3. \A x \in Rule : x.text \in Cited
    BY DEF Rule
  <1> QED
    BY <1>1, <1>2, <1>3

LEMMA CountTypes ==
  ASSUME TypeOK
  PROVE  /\ CountAll \in Summary
         /\ CountAll.fail > 0 <=> Failed(report)
  <1> DEFINE At(s) == {k \in DOMAIN report : report[k].status = s}
  <1>1. \A s \in Status : IsFiniteSet(At(s))
    <2>1. IsFiniteSet(1..Len(report))
      <3>1. Len(report) \in Int
        BY DEF TypeOK
      <3> QED
        BY <3>1, FS_Interval
    <2>2. \A s \in Status : At(s) \subseteq 1..Len(report)
      BY DEF TypeOK
    <2> QED
      BY <2>1, <2>2, FS_Subset
  <1>2. \A s \in Status : CountOf(s) \in Nat
    BY <1>1, FS_CardinalityType DEF CountOf
  <1>3. CountOf("fail") > 0 <=> At("fail") # {}
    <2>1. CountOf("fail") = 0 <=> At("fail") = {}
      BY <1>1, FS_EmptySet DEF CountOf, Status
    <2> QED
      BY <2>1, <1>2 DEF Status
  <1> QED
    BY <1>2, <1>3 DEF CountAll, Failed, Status, Summary

LEMMA InitIInv == Init => IInv
  BY DEF Init, IInv, TypeOK, StatusFollowsSeverity, SarifInv, PhaseInv, Formats

---------------------------------------------------------------------------
(* What a document tells                                                   *)

LEMMA NothingToTell ==
  ASSUME TypeOK, Document = << >>
  PROVE  TellsBefore(1)
  <1> DEFINE at == [j \in DOMAIN Document |-> 0]
  <1>1. DOMAIN Document = {}
    OBVIOUS
  <1>2. Told(1) = {}
    BY DEF Told, TypeOK
  <1>3. at \in [DOMAIN Document -> Told(1)]
    BY <1>1
  <1> QED
    BY <1>1, <1>2, <1>3 DEF TellsBefore

LEMMA SameTells ==
  ASSUME TellsBefore(i),
         Document' = Document, report' = report, format' = format, Told(i)' = Told(i)
  PROVE  TellsBefore(i)'
  <1>1. PICK at \in [DOMAIN Document -> Told(i)] :
          /\ \A k \in Told(i) : \E j \in DOMAIN Document : at[j] = k
          /\ \A j, k \in DOMAIN Document : j < k => at[j] < at[k]
          /\ \A j \in DOMAIN Document : Says(Document[j], report[at[j]])
    BY DEF TellsBefore
  <1>2. \A j \in DOMAIN Document : Says(Document[j], report[at[j]])'
    BY <1>1 DEF Says
  <1> QED
    BY <1>1, <1>2 DEF TellsBefore

\* f numbers T in its order by 1 to n.
Numbers(f, n, T) ==
    /\ f \in [1..n -> T]
    /\ \A k \in T : \E j \in 1..n : f[j] = k
    /\ \A j, k \in 1..n : j < k => f[j] < f[k]

\* T2 is T with a number larger than those of T.
OneMore(T, T2, last) ==
    /\ last \in Int /\ last \in T2
    /\ \A k \in T : k \in Int /\ k < last /\ k \in T2
    /\ \A k \in T2 : k \in T \/ k = last

LEMMA OneMoreNumbered ==
  ASSUME NEW n \in Nat, NEW T, NEW T2, NEW last, NEW at,
         OneMore(T, T2, last), Numbers(at, n, T)
  PROVE  \E more :
           /\ Numbers(more, n + 1, T2)
           /\ \A j \in 1..n : more[j] = at[j]
           /\ more[n + 1] = last
  <1> DEFINE more == [j \in 1..(n + 1) |-> IF j = n + 1 THEN last ELSE at[j]]
  <1>1. /\ \A j \in 1..n : j \in 1..(n + 1) /\ j # n + 1
        /\ n + 1 \in 1..(n + 1)
        /\ \A j \in 1..(n + 1) : j \in 1..n \/ j = n + 1
    OBVIOUS
  <1>2. /\ \A j \in 1..n : more[j] = at[j]
        /\ more[n + 1] = last
    BY <1>1
  <1>3. \A j \in 1..n : at[j] \in T
    BY DEF Numbers, OneMore
  <1>4. more \in [1..(n + 1) -> T2]
    <2>1. \A j \in 1..(n + 1) : (IF j = n + 1 THEN last ELSE at[j]) \in T2
      BY <1>1, <1>3 DEF OneMore
    <2> QED
      BY <2>1
  <1> HIDE DEF more
  <1>5. \A k \in T2 : \E j \in 1..(n + 1) : more[j] = k
    BY <1>1, <1>2 DEF Numbers, OneMore
  <1>6. \A j, k \in 1..(n + 1) : j < k => more[j] < more[k]
    <2> SUFFICES ASSUME NEW j \in 1..(n + 1), NEW k \in 1..(n + 1), j < k
                 PROVE  more[j] < more[k]
      OBVIOUS
    <2>1. j \in 1..n
      OBVIOUS
    <2>2. CASE k \in 1..n
      BY <1>2, <2>1, <2>2 DEF Numbers, OneMore
    <2>3. CASE k = n + 1
      BY <1>2, <1>3, <2>1, <2>3 DEF OneMore
    <2> QED
      BY <1>1, <2>2, <2>3
  <1> QED
    BY <1>2, <1>4, <1>5, <1>6 DEF Numbers, OneMore

\* A turn that words its assertion numbers it last.
LEMMA OneMoreTold ==
  ASSUME TypeOK, TellsBefore(i), NEW STATE w,
         report' = report, format' = format,
         Document' = Append(Document, w), Says(w, report[i]),
         i \in Told(i)', \A k \in Told(i)' : k \in Told(i) \/ k = i,
         \A k \in Told(i) : k \in Told(i)'
  PROVE  TellsBefore(i)'
  <1>1. PICK n \in Nat : n = Len(Document)
    BY DEF Document, TypeOK
  <1>2. DOMAIN Document = 1..n /\ DOMAIN Document' = 1..(n + 1)
    BY <1>1 DEF Document, TypeOK
  <1>3. PICK at \in [1..n -> Told(i)] :
          /\ \A k \in Told(i) : \E j \in 1..n : at[j] = k
          /\ \A j, k \in 1..n : j < k => at[j] < at[k]
          /\ \A j \in 1..n : Says(Document[j], report[at[j]])
    BY <1>2 DEF TellsBefore
  <1>4. i \in Int /\ \A k \in Told(i) : k \in Int /\ k < i
    BY DEF Told, TypeOK
  <1>5. PICK more : /\ Numbers(more, n + 1, Told(i)')
                    /\ \A j \in 1..n : more[j] = at[j]
                    /\ more[n + 1] = i
    <2>1. OneMore(Told(i), Told(i)', i)
      BY <1>4 DEF OneMore
    <2>2. Numbers(at, n, Told(i))
      BY <1>3 DEF Numbers
    <2> QED
      BY <2>1, <2>2, OneMoreNumbered
  <1>6. /\ \A j \in 1..n : Document'[j] = Document[j]
        /\ Document'[n + 1] = w
    <2>1. \E S : Document \in Seq(S)
      BY DEF Document, TypeOK
    <2> QED
      BY <1>1, <1>2, <2>1
  <1>7. \A j \in 1..(n + 1) : Says(Document'[j], report[more[j]])
    <2> SUFFICES ASSUME NEW j \in 1..(n + 1)
                 PROVE  Says(Document'[j], report[more[j]])
      OBVIOUS
    <2>1. j \in 1..n \/ j = n + 1
      OBVIOUS
    <2>2. CASE j \in 1..n
      <3>1. Says(Document[j], report[at[j]])
        BY <1>3, <2>2
      <3>2. Document'[j] = Document[j] /\ more[j] = at[j]
        BY <1>5, <1>6, <2>2
      <3> QED
        BY <3>1, <3>2, Zenon
    <2>3. CASE j = n + 1
      <3>1. Document'[j] = w /\ more[j] = i
        BY <1>5, <1>6, <2>3
      <3> QED
        BY <3>1, Zenon
    <2> QED
      BY <2>1, <2>2, <2>3
  <1>8. \A j \in DOMAIN Document' : Says(Document[j], report[more[j]])'
    BY <1>2, <1>7 DEF Says
  <1>9. /\ more \in [DOMAIN Document' -> Told(i)']
        /\ \A k \in Told(i)' : \E j \in DOMAIN Document' : more[j] = k
        /\ \A j, k \in DOMAIN Document' : j < k => more[j] < more[k]
    BY <1>2, <1>5 DEF Numbers
  <1> QED
    BY <1>8, <1>9, Zenon DEF TellsBefore

---------------------------------------------------------------------------
(* One lemma per action that builds something                              *)

LEMMA RecordKeeps ==
  ASSUME IInv, PassClause \/ FailClause
  PROVE  IInv'
  <1> USE DEF IInv
  <1>1. PICK a \in CitedAssertion :
          /\ report' = Append(report, a)
          /\ a.status # "pass" => (a.status = "warn" <=> Severity(a.clause) = "SHOULD")
    <2>1. CASE PassClause
      <3>1. PICK c \in Cited : report' = report \o Pass(c, "")
        BY <2>1 DEF PassClause
      <3> DEFINE a == [status |-> "pass", clause |-> c, about |-> ""]
      <3>2. a \in CitedAssertion /\ a.status = "pass"
        BY DEF CitedAssertion, Status
      <3>3. report' = report \o <<a>>
        BY <3>1 DEF Pass
      <3> HIDE DEF a
      <3> QED
        BY <3>2, <3>3 DEF TypeOK
    <2>2. CASE FailClause
      <3>1. PICK c \in Cited : report' = report \o Fail(c, "")
        BY <2>2 DEF FailClause
      <3> DEFINE a == [status |-> IF Severity(c) = "SHOULD" THEN "warn" ELSE "fail",
                       clause |-> c, about |-> ""]
      <3>2. /\ a \in CitedAssertion
            /\ a.status = "warn" <=> Severity(a.clause) = "SHOULD"
        BY DEF CitedAssertion, Status
      <3>3. report' = report \o <<a>>
        BY <3>1 DEF Fail
      <3> HIDE DEF a
      <3> QED
        BY <3>2, <3>3 DEF TypeOK
    <2> QED
      BY <2>1, <2>2
  <1>2. Records
    BY DEF PassClause, FailClause
  <1>3. /\ report' \in Seq(CitedAssertion)
        /\ Len(report') = Len(report) + 1
        /\ i = 1 /\ results = << >> /\ rules = << >> /\ exit = -1
    BY <1>1, <1>2 DEF TypeOK, PhaseInv, Records
  <1>4. TypeOK'
    BY <1>2, <1>3 DEF TypeOK, Records, inputVars, docVars
  <1>5. StatusFollowsSeverity'
    BY <1>1 DEF StatusFollowsSeverity, TypeOK
  <1>6. SarifInv'
    BY <1>2, <1>3 DEF SarifInv, Records, inputVars, docVars, TypeOK
  <1>7. PhaseInv'
    BY <1>2, <1>3 DEF PhaseInv, Records, inputVars, docVars
  <1> QED
    BY <1>2, <1>3, <1>4, <1>5, <1>6, <1>7 DEF Records, docVars

LEMMA TurnKeeps ==
  ASSUME IInv, Turn
  PROVE  IInv'
  <1> USE DEF IInv
  <1> DEFINE a == report[i]
             id == RuleId(a.clause)
  <1>1. /\ pc = "results" /\ i \in DOMAIN report /\ i \in Nat
        /\ a \in CitedAssertion
        /\ id \in Ids
    <2>1. pc = "results" /\ i \in DOMAIN report /\ i \in Nat
      BY DEF Turn, TypeOK
    <2>2. a \in CitedAssertion
      BY <2>1 DEF TypeOK
    <2> QED
      BY <2>1, <2>2 DEF Ids, CitedAssertion
  <1>2. /\ seenRule' = seenRule \cup {id}
        /\ rules' = IF id \in seenRule THEN rules ELSE Append(rules, RuleOf(a.clause))
        /\ results' = IF IsResult(a) THEN Append(results, ResultOf(a)) ELSE results
        /\ i' = i + 1
        /\ UNCHANGED <<report, format, writable, lines, summary, exit, pc>>
    BY DEF Turn, inputVars
  <1>3. TypeOK'
    <2>1. RuleOf(a.clause) \in Rule /\ ResultOf(a) \in Result
      BY <1>1, RuleTypes DEF CitedAssertion
    <2>2. rules' \in Seq(Rule) /\ results' \in Seq(Result)
      BY <1>2, <2>1 DEF TypeOK
    <2>3. i' \in 1..(Len(report') + 1) /\ seenRule' \subseteq Ids
      BY <1>1, <1>2 DEF TypeOK
    <2> QED
      BY <1>2, <2>2, <2>3 DEF TypeOK
  <1>4. StatusFollowsSeverity'
    BY <1>2 DEF StatusFollowsSeverity
  <1>5. RuleOf(a.clause).id = id /\ RuleOf(a.clause).text = a.clause
    BY DEF RuleOf
  <1>6. /\ \A j \in DOMAIN rules' : rules'[j] = RuleOf(rules'[j].text)
        /\ seenRule' = {rules'[j].id : j \in DOMAIN rules'}
        /\ \A j, k \in DOMAIN rules' : rules'[j].id = rules'[k].id => j = k
    <2>1. CASE id \in seenRule
      BY <1>2, <2>1 DEF SarifInv
    <2>2. CASE id \notin seenRule
      <3>1. rules' = Append(rules, RuleOf(a.clause))
        BY <1>2, <2>2
      <3>2. /\ DOMAIN rules' = DOMAIN rules \cup {Len(rules) + 1}
            /\ Len(rules) + 1 \notin DOMAIN rules
            /\ \A j \in DOMAIN rules : rules'[j] = rules[j]
            /\ rules'[Len(rules) + 1] = RuleOf(a.clause)
        BY <3>1 DEF TypeOK
      <3>3. \A j \in DOMAIN rules : rules[j].id # id
        BY <2>2 DEF SarifInv
      <3> QED
        BY <1>2, <1>5, <3>2, <3>3 DEF SarifInv
    <2> QED
      BY <2>1, <2>2
  <1>7. \A k \in DOMAIN results' :
          \E n \in DOMAIN report' :
              /\ n < i' /\ report'[n].status # "pass"
              /\ results'[k] = ResultOf(report'[n])
              /\ RuleId(report'[n].clause) \in seenRule'
    <2>1. \A k \in DOMAIN results :
            \E n \in DOMAIN report :
                /\ n < i + 1 /\ report[n].status # "pass"
                /\ results[k] = ResultOf(report[n])
                /\ RuleId(report[n].clause) \in seenRule \cup {id}
      BY <1>1 DEF SarifInv, TypeOK
    <2>2. CASE ~IsResult(a)
      BY <1>2, <2>1, <2>2
    <2>3. CASE IsResult(a)
      <3>1. /\ DOMAIN results' = DOMAIN results \cup {Len(results) + 1}
            /\ \A k \in DOMAIN results : results'[k] = results[k]
            /\ results'[Len(results) + 1] = ResultOf(a)
        BY <1>2, <2>3 DEF TypeOK
      <3>2. i < i + 1 /\ report[i].status # "pass"
        BY <1>1, <2>3 DEF IsResult
      <3> QED
        BY <1>1, <1>2, <2>1, <3>1, <3>2
    <2> QED
      BY <2>2, <2>3
  <1>8. \A n \in DOMAIN report' :
          n < i' /\ pc' \in {"results", "encode", "done"} /\ format' = "sarif"
              /\ report'[n].status # "pass"
          => \E k \in DOMAIN results' : results'[k] = ResultOf(report'[n])
    <2> SUFFICES ASSUME NEW n \in DOMAIN report, n < i + 1, format = "sarif",
                        report[n].status # "pass"
                 PROVE  \E k \in DOMAIN results' : results'[k] = ResultOf(report[n])
      BY <1>2
    <2>1. /\ DOMAIN results \subseteq DOMAIN results'
          /\ \A k \in DOMAIN results : results'[k] = results[k]
      BY <1>2 DEF TypeOK
    <2>2. CASE n < i
      BY <1>1, <2>1, <2>2 DEF SarifInv
    <2>3. CASE n = i
      <3>1. results' = Append(results, ResultOf(a))
        BY <1>2, <2>3 DEF IsResult
      <3>2. Len(results) + 1 \in DOMAIN results' /\ results'[Len(results) + 1] = ResultOf(a)
        BY <3>1 DEF TypeOK
      <3> QED
        BY <2>3, <3>2
    <2> QED
      BY <1>1, <2>2, <2>3 DEF TypeOK
  <1>9. SarifInv'
    BY <1>6, <1>7, <1>8 DEF SarifInv
  <1>10. PhaseInv'
    BY <1>1, <1>2 DEF PhaseInv
  <1> QED
    BY <1>3, <1>4, <1>6, <1>9, <1>10

LEMMA NextIInv == IInv /\ [Next]_vars => IInv'
  <1> SUFFICES ASSUME IInv, [Next]_vars
               PROVE  IInv'
    OBVIOUS
  <1> USE DEF IInv
  <1>1. CASE PassClause \/ FailClause
    BY <1>1, RecordKeeps
  <1>2. CASE StartText
    BY <1>2 DEF StartText, TypeOK, StatusFollowsSeverity, SarifInv, PhaseInv,
                inputVars, docVars
  <1>3. CASE StartSarif
    BY <1>3 DEF StartSarif, TypeOK, StatusFollowsSeverity, SarifInv, PhaseInv,
                inputVars, docVars
  <1>4. CASE UnknownFormat
    BY <1>4 DEF UnknownFormat, TypeOK, StatusFollowsSeverity, SarifInv, PhaseInv,
                inputVars, docVars
  <1>5. CASE Line
    <2>1. /\ report' = report /\ rules' = rules /\ results' = results
          /\ seenRule' = seenRule /\ pc' = pc /\ format' = format /\ i' = i + 1
          /\ exit' = exit /\ summary' = summary /\ writable' = writable
          /\ pc = "lines" /\ i \in DOMAIN report
      BY <1>5 DEF Line, inputVars, TypeOK
    <2>2. lines' \in Seq(Words)
      <3>1. report[i] \in CitedAssertion
        BY <2>1 DEF TypeOK
      <3>2. [clause |-> report[i].clause, status |-> report[i].status] \in Words
        BY <3>1 DEF CitedAssertion, Words
      <3> QED
        BY <1>5, <3>2 DEF Line, TypeOK
    <2>3. i' \in 1..(Len(report') + 1)
      BY <2>1 DEF TypeOK
    <2>4. TypeOK'
      BY <2>1, <2>2, <2>3 DEF TypeOK
    <2>5. SarifInv'
      BY <2>1 DEF SarifInv, TypeOK
    <2>6. StatusFollowsSeverity' /\ PhaseInv'
      BY <2>1 DEF StatusFollowsSeverity, PhaseInv
    <2> QED
      BY <2>1, <2>4, <2>5, <2>6
  <1>6. CASE Counts
    <2>1. CountAll \in Summary
      BY CountTypes
    <2>2. CountAll' = CountAll
      BY <1>6 DEF Counts, CountAll, CountOf
    <2>3. TypeOK'
      BY <1>6, <2>1 DEF Counts, TypeOK, inputVars
    <2>4. StatusFollowsSeverity' /\ SarifInv'
      BY <1>6 DEF Counts, StatusFollowsSeverity, SarifInv, PhaseInv, inputVars
    <2>5. PhaseInv'
      BY <1>6, <2>2 DEF Counts, PhaseInv, TypeOK, inputVars
    <2> QED
      BY <1>6, <2>3, <2>4, <2>5 DEF Counts
  <1>7. CASE Turn
    BY <1>7, TurnKeeps
  <1>8. CASE TurnsEnd
    BY <1>8 DEF TurnsEnd, TypeOK, StatusFollowsSeverity, SarifInv, PhaseInv,
                inputVars, docVars
  <1>9. CASE Emit
    <2>1. /\ UNCHANGED <<report, format, writable, i, lines, seenRule, rules,
                         results, summary>>
          /\ pc = "encode" /\ pc' = "done"
          /\ exit' \in {2, ExitOf(report)}
      BY <1>9 DEF Emit, EmitOf, inputVars, docVars
    <2>2. CountAll' = CountAll /\ ExitOf(report)' = ExitOf(report)
      BY <2>1 DEF CountAll, CountOf
    <2>3. TypeOK'
      BY <2>1 DEF TypeOK, ExitOf
    <2>4. StatusFollowsSeverity' /\ SarifInv'
      BY <2>1 DEF StatusFollowsSeverity, SarifInv
    <2>5. PhaseInv'
      BY <2>1, <2>2 DEF PhaseInv
    <2> QED
      BY <2>1, <2>3, <2>4, <2>5
  <1>10. CASE UNCHANGED vars
    <2>1. CountAll' = CountAll /\ ExitOf(report)' = ExitOf(report)
      BY <1>10 DEF CountAll, CountOf, vars
    <2> QED
      BY <1>10, <2>1 DEF vars, inputVars, docVars, TypeOK, StatusFollowsSeverity,
                         SarifInv, PhaseInv
  <1> QED
    BY <1>1, <1>2, <1>3, <1>4, <1>5, <1>6, <1>7, <1>8, <1>9, <1>10
       DEF Next, Terminated

---------------------------------------------------------------------------
(* What the document tells, kept                                           *)

LEMMA InitToldInv == Init => ToldInv
  <1> SUFFICES ASSUME Init
               PROVE  TellsBefore(i)
    BY DEF ToldInv
  <1>1. TypeOK /\ Document = << >> /\ i = 1
    BY InitIInv DEF Init, IInv, Document
  <1> QED
    BY <1>1, NothingToTell

LEMMA LineTells ==
  ASSUME IInv, ToldInv, Line
  PROVE  ToldInv'
  <1> DEFINE w == [clause |-> report[i].clause, status |-> report[i].status]
  <1>1. /\ TypeOK
        /\ format # "sarif" /\ format # "other" /\ TellsBefore(i)
        /\ i \in DOMAIN report /\ i \in Nat
        /\ report' = report /\ format' = format /\ i' = i + 1
        /\ lines' = Append(lines, w)
    BY DEF IInv, PhaseInv, ToldInv, Line, inputVars, TypeOK
  <1>2. Document' = Append(Document, w) /\ Says(w, report[i])
    BY <1>1 DEF Document, Says
  <1>3. /\ i \in Told(i)'
        /\ \A k \in Told(i)' : k \in Told(i) \/ k = i
        /\ \A k \in Told(i) : k \in Told(i)'
    BY <1>1 DEF Told, TypeOK
  <1> QED
    BY <1>1, <1>2, <1>3, OneMoreTold DEF ToldInv

LEMMA TurnTells ==
  ASSUME IInv, ToldInv, Turn
  PROVE  ToldInv'
  <1> DEFINE w == ResultOf(report[i])
  <1>1. /\ TypeOK
        /\ format = "sarif" /\ TellsBefore(i)
        /\ i \in DOMAIN report /\ i \in Nat
        /\ report' = report /\ format' = format /\ i' = i + 1
        /\ results' = IF IsResult(report[i]) THEN Append(results, w) ELSE results
    BY DEF IInv, PhaseInv, ToldInv, Turn, inputVars, TypeOK
  <1>2. Document = results /\ Document' = results'
    BY <1>1 DEF Document
  <1>3. /\ \A k \in Told(i)' : k \in Told(i) \/ k = i
        /\ \A k \in Told(i) : k \in Told(i)'
        /\ i \in Told(i)' <=> IsResult(report[i])
    BY <1>1 DEF Told, TypeOK, IsResult
  <1>4. CASE IsResult(report[i])
    <2>1. Document' = Append(Document, w) /\ Says(w, report[i])
      BY <1>1, <1>2, <1>4 DEF Says, ResultOf
    <2> QED
      BY <1>1, <1>3, <1>4, <2>1, OneMoreTold DEF ToldInv
  <1>5. CASE ~IsResult(report[i])
    <2>1. Document' = Document
      BY <1>1, <1>2, <1>5
    <2>2. Told(i)' = Told(i)
      BY <1>3, <1>5
    <2> QED
      BY <1>1, <2>1, <2>2, SameTells DEF ToldInv
  <1> QED
    BY <1>4, <1>5

LEMMA RecordTells ==
  ASSUME IInv, IInv', Records
  PROVE  ToldInv'
  <1>1. TypeOK' /\ Document' = << >> /\ i' = 1
    BY DEF IInv, PhaseInv, Records, inputVars, docVars, Document
  <1>2. TellsBefore(1)'
    <2> DEFINE at == [j \in DOMAIN Document' |-> 0]
    <2>1. DOMAIN Document' = {}
      BY <1>1
    <2>2. Told(1)' = {}
      BY <1>1 DEF Told, TypeOK
    <2>3. at \in [DOMAIN Document' -> Told(1)']
      BY <2>1
    <2> QED
      BY <2>1, <2>2, <2>3 DEF TellsBefore
  <1> QED
    BY <1>1, <1>2 DEF ToldInv

LEMMA NextToldInv == IInv /\ IInv' /\ ToldInv /\ [Next]_vars => ToldInv'
  <1> SUFFICES ASSUME IInv, IInv', ToldInv, [Next]_vars
               PROVE  ToldInv'
    OBVIOUS
  <1>1. CASE PassClause \/ FailClause
    BY <1>1, RecordTells DEF PassClause, FailClause
  <1>2. CASE Line
    BY <1>2, LineTells
  <1>3. CASE Turn
    BY <1>3, TurnTells
  <1>4. CASE UNCHANGED <<report, format, i, lines, results>>
    <2>1. /\ Document' = Document /\ report' = report /\ format' = format
          /\ Told(i)' = Told(i)
      BY <1>4 DEF Document, Told
    <2> QED
      BY <2>1, SameTells DEF ToldInv
  <1> QED
    BY <1>1, <1>2, <1>3, <1>4
       DEF Next, vars, inputVars, docVars, StartText, StartSarif, UnknownFormat,
           Counts, TurnsEnd, Emit, Terminated

---------------------------------------------------------------------------
(* What follows                                                            *)

LEMMA Resolves == IInv => RulesResolve
  <1> SUFFICES ASSUME IInv, NEW k \in DOMAIN results
               PROVE  \E j \in DOMAIN rules :
                          rules[j].id = results[k].rule /\ rules[j].text = results[k].text
    BY DEF IInv, RulesResolve
  <1>1. PICK n \in DOMAIN report :
          results[k] = ResultOf(report[n]) /\ RuleId(report[n].clause) \in seenRule
    BY DEF IInv, SarifInv
  <1>2. PICK j \in DOMAIN rules : rules[j].id = RuleId(report[n].clause)
    BY <1>1 DEF IInv, SarifInv
  <1>3. rules[j].id = RuleId(rules[j].text)
    BY DEF IInv, SarifInv, RuleOf
  <1>4. rules[j].text \in Cited /\ report[n].clause \in Cited
    BY ElementTypes DEF IInv
  <1>5. rules[j].text = report[n].clause
    BY <1>2, <1>3, <1>4, RuleIdInjective
  <1> QED
    BY <1>1, <1>2, <1>5 DEF ResultOf

LEMMA Agree == IInv => LevelsAgree
  <1> SUFFICES ASSUME IInv, NEW k \in DOMAIN results, NEW j \in DOMAIN rules,
                      rules[j].id = results[k].rule
               PROVE  rules[j].level = results[k].level
    BY DEF LevelsAgree
  <1>1. PICK n \in DOMAIN report :
          results[k] = ResultOf(report[n]) /\ report[n].status # "pass"
    BY DEF IInv, SarifInv
  <1>2. rules[j] = RuleOf(rules[j].text)
    BY DEF IInv, SarifInv
  <1>3. rules[j].text \in Cited /\ report[n].clause \in Cited
    BY ElementTypes DEF IInv
  <1>4. rules[j].text = report[n].clause
    BY <1>1, <1>2, <1>3, RuleIdInjective DEF RuleOf, ResultOf
  <1>5. report[n].status = "warn" <=> Severity(report[n].clause) = "SHOULD"
    BY <1>1 DEF IInv, StatusFollowsSeverity
  <1> QED
    BY <1>1, <1>2, <1>4, <1>5 DEF RuleOf, ResultOf, LevelOf

LEMMA Shown == IInv => ExitIsShown
  <1> SUFFICES ASSUME IInv, pc = "done", exit # 2
               PROVE  exit = 1 <=> IF format = "sarif"
                                   THEN \E k \in DOMAIN results : results[k].level = "error"
                                   ELSE summary.fail > 0
    BY DEF ExitIsShown
  <1>1. /\ format # "other" /\ i = Len(report) + 1
        /\ exit = ExitOf(report)
        /\ format # "sarif" => summary = CountAll
    BY DEF IInv, PhaseInv
  <1>2. exit = 1 <=> Failed(report)
    BY <1>1 DEF ExitOf
  <1>3. CASE format # "sarif"
    BY <1>1, <1>2, <1>3, CountTypes DEF IInv
  <1>4. CASE format = "sarif"
    <2>1. \A n \in DOMAIN report : n < i /\ report[n].status \in Status
      BY <1>1, ElementTypes DEF IInv, TypeOK
    <2>2. ASSUME NEW n \in DOMAIN report, report[n].status = "fail"
          PROVE  \E k \in DOMAIN results : results[k].level = "error"
      <3>1. PICK k \in DOMAIN results : results[k] = ResultOf(report[n])
        BY <1>4, <2>1, <2>2 DEF IInv, SarifInv
      <3> QED
        BY <2>2, <3>1 DEF ResultOf, LevelOf
    <2>3. ASSUME NEW k \in DOMAIN results, results[k].level = "error"
          PROVE  \E n \in DOMAIN report : report[n].status = "fail"
      <3>1. PICK n \in DOMAIN report :
              results[k] = ResultOf(report[n]) /\ report[n].status # "pass"
        BY DEF IInv, SarifInv
      <3> QED
        BY <2>1, <2>3, <3>1 DEF ResultOf, LevelOf, Status
    <2> QED
      BY <1>2, <1>4, <2>2, <2>3 DEF Failed
  <1> QED
    BY <1>3, <1>4

\* The types of the report and of every document hold in every state.
THEOREM TypeCorrect == Spec => []TypeOK
  <1>1. IInv => TypeOK
    BY DEF IInv
  <1> QED
    BY InitIInv, NextIInv, <1>1, PTL DEF Spec

\* The invariant of the renderers, whatever the checker records.
THEOREM IInvHolds == Spec => []IInv
  BY InitIInv, NextIInv, PTL DEF Spec

\* Every SARIF result refers to exactly one rule, the one of its own clause, as
\* long as the citations differ as slugs.
THEOREM RulesAlwaysResolve == Spec => []RulesResolve
  BY IInvHolds, Resolves, PTL

\* A result never has another level than its rule declares: Fail's downgrade and
\* the rule's severity are the same decision.
THEOREM LevelsAlwaysAgree == Spec => []LevelsAgree
  BY IInvHolds, Agree, PTL

\* A finished document tells, each once and in order, every assertion its format
\* has to tell: no loop skips, repeats or reorders a problem.
THEOREM NothingIsHidden == Spec => []NothingHidden
  <1>1. IInv /\ ToldInv => NothingHidden
    BY DEF IInv, PhaseInv, ToldInv, NothingHidden
  <1> QED
    BY InitToldInv, NextToldInv, IInvHolds, <1>1, PTL DEF Spec

\* The exit code is 1 exactly when the document shows a failure, in all three
\* formats.
THEOREM ExitAlwaysShown == Spec => []ExitIsShown
  BY IInvHolds, Shown, PTL
=============================================================================
