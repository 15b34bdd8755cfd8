------------------------------- MODULE Report -------------------------------
(***************************************************************************)
(* internal/report: the report a check fills.  Every Go function           *)
(* checkX(r, ...) appends to *Report; here it is an operator whose value   *)
(* is the sequence of assertions the call appends, so a sweep is a         *)
(* concatenation.  The detail of an assertion is free text; what is kept   *)
(* of it is `about`, the file or entry it is about ("" when the check has  *)
(* no tag).                                                                *)
(***************************************************************************)
EXTENDS Clauses, Sequences

CONSTANT Tags        \* the `about` values: file names, and ""

ASSUME TagAssumption == "" \in Tags

Status == {"pass", "fail", "warn"}

Assertion == [status : Status, clause : Clause, about : Tags]

Pass(c, about) == << [status |-> "pass", clause |-> c, about |-> about] >>

\* Mutant: a SHOULD is not downgraded.
FailFatal(c, about) == << [status |-> "fail", clause |-> c, about |-> about] >>

Fail(c, about) ==
    << [status |-> IF Severity(c) = "SHOULD" THEN "warn" ELSE "fail",
        clause |-> c, about |-> about] >>

\* The if/else that ends nearly every check: r.Pass(c) or r.Fail(c).
Judge(c, holds, about) == IF holds THEN Pass(c, about) ELSE Fail(c, about)

\* Mutant: a warning is a failure too.
FailedOrWarned(r) == \E i \in DOMAIN r : r[i].status \in {"fail", "warn"}

\* (*Report).Failed
Failed(r) == \E i \in DOMAIN r : r[i].status = "fail"

\* The last two returns of emit in cmd/scc: what a rendered report exits with.
ExitOf(r) == IF Failed(r) THEN 1 ELSE 0

\* ParseFormat and Render succeed.  The text renderer returns no error, whatever
\* stdout does.
Renders(format, writable) ==
    \/ format = "text"
    \/ format \in {"json", "sarif"} /\ writable

\* emit
EmitOf(r, format, writable) == IF Renders(format, writable) THEN ExitOf(r) ELSE 2
=============================================================================
