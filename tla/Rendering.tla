----------------------------- MODULE Rendering -----------------------------
(***************************************************************************)
(* The life of one *report.Report: a checker records clauses in it with    *)
(* Pass and Fail, then emit renders it as text, JSON or SARIF and turns it *)
(* into an exit code.  Which checker records which clauses is the subject  *)
(* of the other modules; here it may be any sequence of them.              *)
(*                                                                         *)
(* Of a line, a rule and a result the document is kept that a reader can   *)
(* tell apart: the clause it words, its status or level, and the rule it   *)
(* refers to.  Columns, colours, details and locations are left out.       *)
(***************************************************************************)
EXTENDS Report, Integers, FiniteSets, SequencesExt

CONSTANTS
    None,            \* no value
    Cited,           \* the clauses the checker records
    Citation,        \* the Spec (less its ".md"), Section and Text of each, as
                     \* characters
    LowerCase,       \* the characters a slug keeps, and what it makes of them
    MaxAssertions    \* bound on the length of the report

ASSUME CitedAssumption == Cited \subseteq Clause

---------------------------------------------------------------------------
(* Rule identifiers                                                        *)

\* strings.Trim(s, "-")
TrimDashes(s) ==
    LET kept == {k \in DOMAIN s : s[k] # "-"}
    IN  IF kept = {} THEN << >> ELSE SubSeq(s, Min(kept), Max(kept))

\* Every run of other characters is one dash.
Slug(s) ==
    TrimDashes(FoldLeft(
        LAMBDA b, c : IF c \in DOMAIN LowerCase THEN Append(b, LowerCase[c])
                      ELSE IF b # << >> /\ Last(b) = "-" THEN b
                      ELSE Append(b, "-"),
        << >>, s))

Slugs(c) ==
    [ spec |-> Slug(Citation[c].spec), section |-> Slug(Citation[c].section),
      text |-> Slug(Citation[c].text) ]

\* The table keeps its clauses apart even as slugs.
ASSUME SlugAssumption == \A c, d \in Cited : Slugs(c) = Slugs(d) => c = d

\* Mutant: a clause is identified by where it stands.
RuleIdOfSection(c) == <<Slugs(c).spec, Slugs(c).section>>

RuleId(c) == Slugs(c)

---------------------------------------------------------------------------

VARIABLES
    report,       \* r.Assertions
    format,       \* the --format given
    writable,     \* writing to stdout succeeds
    i,            \* the assertion the renderer is at
    lines,        \* the lines of text, the assertions of JSON
    seenRule, rules, results,   \* of SARIF
    summary,      \* pass, fail and warn counted, None before
    exit, pc

inputVars == <<format, writable>>
docVars == <<lines, seenRule, rules, results, summary>>
vars == <<report, inputVars, i, docVars, exit, pc>>

Formats == {"text", "json", "sarif", "other"}

Init ==
    /\ report = << >>
    /\ format \in Formats
    /\ writable \in BOOLEAN
    /\ i = 1
    /\ lines = << >>
    /\ seenRule = {}
    /\ rules = << >>
    /\ results = << >>
    /\ summary = None
    /\ exit = -1
    /\ pc = "check"

---------------------------------------------------------------------------
(* The checker                                                             *)

Records ==
    /\ pc = "check" /\ Len(report) < MaxAssertions
    /\ UNCHANGED <<inputVars, i, docVars, exit, pc>>

PassClause == Records /\ \E c \in Cited : report' = report \o Pass(c, "")

FailClause == Records /\ \E c \in Cited : report' = report \o Fail(c, "")

---------------------------------------------------------------------------
(* emit                                                                    *)

\* ParseFormat, then Render.
StartText ==
    /\ pc = "check" /\ format \in {"text", "json"}
    /\ pc' = "lines"
    /\ UNCHANGED <<report, inputVars, i, docVars, exit>>

StartSarif ==
    /\ pc = "check" /\ format = "sarif"
    /\ pc' = "results"
    /\ UNCHANGED <<report, inputVars, i, docVars, exit>>

UnknownFormat ==
    /\ pc = "check" /\ format = "other"
    /\ exit' = 2
    /\ pc' = "done"
    /\ UNCHANGED <<report, inputVars, i, docVars>>

\* One turn of Write's or WriteJSON's loop.
Line ==
    /\ pc = "lines" /\ i <= Len(report)
    /\ lines' = Append(lines, [clause |-> report[i].clause, status |-> report[i].status])
    /\ i' = i + 1
    /\ UNCHANGED <<report, inputVars, seenRule, rules, results, summary, exit, pc>>

CountOf(status) == Cardinality({k \in DOMAIN report : report[k].status = status})

\* (*Report).counts
CountAll ==
    [pass |-> CountOf("pass"), fail |-> CountOf("fail"), warn |-> CountOf("warn")]

Counts ==
    /\ pc = "lines" /\ i > Len(report)
    /\ summary' = CountAll
    /\ pc' = "encode"
    /\ UNCHANGED <<report, inputVars, i, lines, seenRule, rules, results, exit>>

RuleOf(c) ==
    [id |-> RuleId(c), text |-> c,
     level |-> IF Severity(c) = "SHOULD" THEN "warning" ELSE "error"]

\* Mutant: JSON's word for a status is used for SARIF's level.
LevelOfStatus(a) == a.status

LevelOf(a) == IF a.status = "warn" THEN "warning" ELSE "error"

ResultOf(a) == [rule |-> RuleId(a.clause), text |-> a.clause, level |-> LevelOf(a)]

\* Mutant: warnings are no results.
IsResultIfFailed(a) == a.status = "fail"

IsResult(a) == a.status # "pass"

\* One turn of WriteSARIF's loop: register the rule, then add the result.
Turn ==
    /\ pc = "results" /\ i <= Len(report)
    /\ LET a == report[i]
           id == RuleId(a.clause)
       IN  /\ seenRule' = seenRule \cup {id}
           /\ rules' = IF id \in seenRule THEN rules ELSE Append(rules, RuleOf(a.clause))
           /\ results' = IF IsResult(a) THEN Append(results, ResultOf(a)) ELSE results
    /\ i' = i + 1
    /\ UNCHANGED <<report, inputVars, lines, summary, exit, pc>>

TurnsEnd ==
    /\ pc = "results" /\ i > Len(report)
    /\ pc' = "encode"
    /\ UNCHANGED <<report, inputVars, i, docVars, exit>>

\* The document is written and the exit code returned.
Emit ==
    /\ pc = "encode"
    /\ exit' = EmitOf(report, format, writable)
    /\ pc' = "done"
    /\ UNCHANGED <<report, inputVars, i, docVars>>

Terminated == pc = "done" /\ UNCHANGED vars

Next ==
    \/ PassClause \/ FailClause
    \/ StartText \/ StartSarif \/ UnknownFormat
    \/ Line \/ Counts \/ Turn \/ TurnsEnd
    \/ Emit \/ Terminated

Spec == Init /\ [][Next]_vars

---------------------------------------------------------------------------
(* Properties                                                              *)

Level == {"error", "warning"}

Ids == {RuleId(c) : c \in Cited}

Rule == [id : Ids, text : Cited, level : Level]

Result == [rule : Ids, text : Cited, level : Level]

CitedAssertion == [status : Status, clause : Cited, about : {""}]

Words == [clause : Cited, status : Status]

Summary == [pass : Nat, fail : Nat, warn : Nat]

\* The types of the report and of the document.
TypeOK ==
    /\ report \in Seq(CitedAssertion)
    /\ format \in Formats
    /\ writable \in BOOLEAN
    /\ i \in 1..(Len(report) + 1)
    /\ lines \in Seq(Words)
    /\ seenRule \subseteq Ids
    /\ rules \in Seq(Rule)
    /\ results \in Seq(Result)
    /\ summary \in Summary \cup {None}
    /\ exit \in {-1, 0, 1, 2}
    /\ pc \in {"check", "lines", "results", "encode", "done"}

\* "every distinct clause encountered is registered as a rule so consumers can
\* resolve ruleId" (WriteSARIF): a result refers to exactly one rule, and that
\* one describes the clause the result's message words.
RulesResolve ==
    /\ \A j, k \in DOMAIN rules : rules[j].id = rules[k].id => j = k
    /\ \A k \in DOMAIN results : \E j \in DOMAIN rules :
           rules[j].id = results[k].rule /\ rules[j].text = results[k].text

\* A result's level, from the status, is the default level of its rule, from
\* the severity: the two readings of a clause never disagree.
LevelsAgree ==
    \A k \in DOMAIN results : \A j \in DOMAIN rules :
        rules[j].id = results[k].rule => rules[j].level = results[k].level

Document == IF format = "sarif" THEN results ELSE lines

\* The assertions before the n-th that the format has something to say of.
Told(n) ==
    {k \in DOMAIN report : k < n /\ (format = "sarif" => report[k].status # "pass")}

\* A part w of the document words the assertion a.
Says(w, a) ==
    IF format = "sarif" THEN w.text = a.clause
    ELSE w = [clause |-> a.clause, status |-> a.status]

\* The document tells these assertions, each once, in their order, and nothing
\* else: its parts are numbered by them.
TellsBefore(n) ==
    \E at \in [DOMAIN Document -> Told(n)] :
        /\ \A k \in Told(n) : \E j \in DOMAIN Document : at[j] = k
        /\ \A j, k \in DOMAIN Document : j < k => at[j] < at[k]
        /\ \A j \in DOMAIN Document : Says(Document[j], report[at[j]])

\* A finished document has every problem of the report, once and in the order
\* of evaluation; text and JSON have the satisfied clauses too.
NothingHidden ==
    pc \in {"encode", "done"} /\ format # "other" => TellsBefore(Len(report) + 1)

\* "The exit code is identical across formats" (cmd/scc): in each it is 1 when
\* the document has a failure to show, be it a count or an error-level result,
\* and 0 when it has none.
ExitIsShown ==
    pc = "done" /\ exit # 2 =>
        (exit = 1 <=> IF format = "sarif"
                      THEN \E k \in DOMAIN results : results[k].level = "error"
                      ELSE summary.fail > 0)

---------------------------------------------------------------------------
(* What is inductive: what the loops have built after i - 1 turns.         *)

\* Fail decides between a failure and a warning by the severity alone.
StatusFollowsSeverity ==
    \A k \in DOMAIN report :
        report[k].status # "pass" =>
            (report[k].status = "warn" <=> Severity(report[k].clause) = "SHOULD")

SarifInv ==
    /\ \A j \in DOMAIN rules : rules[j] = RuleOf(rules[j].text)
    /\ seenRule = {rules[j].id : j \in DOMAIN rules}
    /\ \A k \in DOMAIN results :
           \E n \in DOMAIN report :
               /\ n < i /\ report[n].status # "pass"
               /\ results[k] = ResultOf(report[n])
               /\ RuleId(report[n].clause) \in seenRule
    /\ \A n \in DOMAIN report :
           n < i /\ pc \in {"results", "encode", "done"} /\ format = "sarif"
               /\ report[n].status # "pass"
           => \E k \in DOMAIN results : results[k] = ResultOf(report[n])

\* Where the document is at.
PhaseInv ==
    /\ pc = "check" =>
           i = 1 /\ lines = << >> /\ results = << >> /\ rules = << >> /\ exit = -1
    /\ pc = "lines" => format \in {"text", "json"}
    /\ pc = "results" => format = "sarif"
    /\ pc = "encode" => format # "other"
    /\ pc \in {"encode", "done"} /\ format # "other" => i = Len(report) + 1
    /\ pc = "encode" /\ format # "sarif" =>
           summary = CountAll
    /\ pc = "done" /\ exit # 2 =>
           /\ format # "other"
           /\ exit = ExitOf(report)
           /\ format # "sarif" => summary = CountAll

\* The inductive invariant: with the types, no rule is registered twice.
IInv ==
    /\ TypeOK
    /\ StatusFollowsSeverity
    /\ SarifInv
    /\ PhaseInv
    /\ \A j, k \in DOMAIN rules : rules[j].id = rules[k].id => j = k

\* Inductive given IInv: the document tells the assertions before the i-th.
ToldInv == format # "other" => TellsBefore(i)
=============================================================================
