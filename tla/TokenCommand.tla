--------------------------- MODULE TokenCommand ---------------------------
(***************************************************************************)
(* One run of `scc jwt-svid` or `scc wit-svid`, next to a clock that goes  *)
(* on while it runs: exp and nbf are each compared with a time.Now() of    *)
(* their own.                                                              *)
(***************************************************************************)
EXTENDS WitSvid

CONSTANTS
    Invocations,   \* the command lines considered, each a record
                   \*   cmd      "jwt-svid" or "wit-svid"
                   \*   usable   the flags parse and leave one argument
                   \*   token    the argument, see Jose
                   \*   build    the architecture, see UnixClaim
                   \*   format   "text", "json", "sarif" or another
                   \*   writable writing to stdout succeeds
    StartTimes,    \* when the process may start, in ticks
    MaxClock       \* the last moment considered

\* What encoding/json and net/url make of the claims.
Claims(p) ==
    /\ p.sub \in {None, Malformed} \cup IdText
    /\ p.exp \in {None, Malformed} \cup Int
    /\ p.nbf \in {None, Malformed} \cup Int
    /\ p.aud # None =>
           /\ p.aud.values \in Seq({"set", "empty", "bad"})
           /\ p.aud.form \notin {"string", "array"} => p.aud.values = << >>

ASSUME InvocationAssumption ==
    \A i \in Invocations :
        /\ i.cmd \in {"jwt-svid", "wit-svid"}
        /\ i.build \in {"amd64", "arm64"}
        /\ Decodes(i.token) => Claims(i.token.payload)

ASSUME ClockAssumption ==
    MaxClock \in Nat /\ StartTimes \subseteq (2 * Leeway + 1)..MaxClock

VARIABLES
    inv,      \* the invocation
    clock,    \* what time.Now() returns
    began,    \* the clock at the start; no action reads it
    report,   \* the assertions so far
    exit,     \* the process exit code, -1 while it runs
    pc

vars == <<inv, clock, began, report, exit, pc>>

Init ==
    /\ inv \in Invocations
    /\ clock \in StartTimes
    /\ began = clock
    /\ report = << >>
    /\ exit = -1
    /\ pc = "args"

---------------------------------------------------------------------------

Token == inv.token

\* The wall clock, which is not set back.
Tick ==
    /\ pc # "done"
    /\ clock < MaxClock
    /\ clock' = clock + 1
    /\ UNCHANGED <<inv, began, report, exit, pc>>

Quit(from, code) ==
    /\ pc = from
    /\ pc' = "done"
    /\ exit' = code
    /\ UNCHANGED <<inv, clock, began, report>>

\* A check: append what it asserts and go on.
Check(from, to, assertions) ==
    /\ pc = from
    /\ pc' = to
    /\ report' = report \o assertions
    /\ UNCHANGED <<inv, clock, began, exit>>

UsageError == Quit("args", 2) /\ ~inv.usable

Compact ==
    IF inv.cmd = "jwt-svid"
    THEN "JWTCompactSerialization"
    ELSE "WITCompactSerialization"

DecodeFails ==
    Check("args", "emit", Fail(Compact, "")) /\ inv.usable /\ ~Decodes(Token)

Decode ==
    Check("args", "header", Pass(Compact, "")) /\ inv.usable /\ Decodes(Token)

---------------------------------------------------------------------------
(* jwtsvid.Check                                                           *)

JwtHeader ==
    Check("header", "jwtSub", CheckJwtHeader(Token.header)) /\ inv.cmd = "jwt-svid"

JwtSub == Check("jwtSub", "jwtAud", CheckSub("JWTSubPresent", Token.payload))

JwtAud == Check("jwtAud", "jwtExp", CheckAud(Token.payload))

JwtExp ==
    Check("jwtExp", "emit",
          CheckExp("JWTExpPresent", "JWTExpNotInPast", Token.payload, inv.build, clock))

---------------------------------------------------------------------------
(* witsvid.Check                                                           *)

WitHeader ==
    Check("header", "witSub", CheckWitHeader(Token.header)) /\ inv.cmd = "wit-svid"

WitSub == Check("witSub", "witCnf", CheckSub("WITSubPresent", Token.payload))

WitCnf == Check("witCnf", "witExp", CheckCnf(Token.payload))

WitExp ==
    Check("witExp", "witNbf",
          CheckExp("WITExpPresent", "WITExpNotInPast", Token.payload, inv.build, clock))

WitNbf == Check("witNbf", "witIss", CheckNbf(Token.payload, inv.build, clock))

WitIss == Check("witIss", "witAud", CheckIss(Token.payload))

WitAud == Check("witAud", "emit", CheckNoAud(Token.payload))

---------------------------------------------------------------------------

\* Mutant: the exit code is the number of failed assertions.
EmitCount ==
    Quit("emit", IF Renders(inv.format, inv.writable)
                 THEN Len(SelectSeq(report, LAMBDA a : a.status = "fail"))
                 ELSE 2)

Emit == Quit("emit", EmitOf(report, inv.format, inv.writable))

Terminated == pc = "done" /\ UNCHANGED vars

Next ==
    \/ Tick
    \/ UsageError \/ DecodeFails \/ Decode
    \/ JwtHeader \/ JwtSub \/ JwtAud \/ JwtExp
    \/ WitHeader \/ WitSub \/ WitCnf \/ WitExp \/ WitNbf \/ WitIss \/ WitAud
    \/ Emit
    \/ Terminated

Spec == Init /\ [][Next]_vars
---------------------------------------------------------------------------
(* What the standards say of the token, at one moment.                     *)

HasSub == Token.payload.sub \notin {None, Malformed}

TokenTruth(x) ==
    IF inv.cmd = "jwt-svid" THEN JwtTruth(Token, x) ELSE WitTruth(Token, x)

Truth(x) ==
    IF ~Decodes(Token) THEN [c \in {Compact} |-> FALSE]
    ELSE IF HasSub THEN Together(TokenTruth(x), IdTruth(Token.payload.sub))
    ELSE TokenTruth(x)

Demanded ==
    IF ~Decodes(Token) THEN {Compact}
    ELSE (IF inv.cmd = "jwt-svid" THEN JwtDemands(Token) ELSE WitDemands(Token))
         \cup SpiffeIdClauses

Expiry == {"JWTExpNotInPast", "WITExpNotInPast"}

\* Clause c holds at moment x within the leeway; a nbf also within the second
\* its fraction is cut from.
HoldsWithLeeway(c, x) ==
    LET p == Token.payload
    IN  CASE c \in Expiry /\ p.exp \notin {None, Malformed} ->
               x - p.exp <= 2 * Leeway
          [] c = "WITNbfNotInFuture" /\ p.nbf \notin {None, Malformed} ->
               p.nbf - x <= 2 * Leeway + 1
          [] OTHER -> c \in DOMAIN Truth(x) /\ Truth(x)[c]

\* Clause c holds at moment x to the letter.
Holds(c, x) == c \in DOMAIN Truth(x) /\ Truth(x)[c]

Musts == {c \in Demanded : Severity(c) = "MUST"}

\* The written date c is about can be told from another one (see far dates in
\* PassedNbfIsNotInFuture).
DateKept(date) == date \in {None, Malformed} \/ Representable(date)

DatesKept ==
    Decodes(Token) =>
        /\ DateKept(Token.payload.exp)
        /\ inv.cmd = "wit-svid" => DateKept(Token.payload.nbf)

\* The validity period of the token is not empty.
Orderly ==
    Decodes(Token) /\ inv.cmd = "wit-svid" =>
        LET p == Token.payload
        IN  p.nbf \notin {None, Malformed} /\ p.exp \notin {None, Malformed}
                => p.nbf <= p.exp

Lifetime == began..clock

Evaluated == {report[i].clause : i \in DOMAIN report}

---------------------------------------------------------------------------

\* The types of the state; an exit code exactly when the command has ended.
TypeOK ==
    /\ began \in StartTimes /\ clock \in began..MaxClock
    /\ report \in Seq(Assertion)
    /\ exit \in {-1, 0, 1, 2}
    /\ exit # -1 <=> pc = "done"

\* Every line of the report is true of the token at a moment of the run: a PASS
\* within the leeway, a FAIL or WARN to the letter, and it cites the standard of
\* the command or SPIFFE-ID.md.  Not covered: the third part of the token, which
\* nothing reads; a FAIL of a path that EscapedPath escapes anew; dates no
\* time.Time can hold.
ReportIsTruthful ==
    \A i \in DOMAIN report :
        LET c == report[i].clause
        IN  \/ IF report[i].status = "pass"
               THEN \E x \in Lifetime : HoldsWithLeeway(c, x)
               ELSE \E x \in Lifetime : c \in DOMAIN Truth(x) /\ ~Holds(c, x)
            \/ BlamesNewPath(Token.payload.sub, report[i])
            \/ c \in Expiry \cup {"WITNbfNotInFuture"} /\ ~DatesKept

\* The exit code is a verdict on the token as a whole, although exp and nbf are
\* judged at two moments: exit 0 only if there was one moment of the run at which
\* every MUST held within the leeway, exit 1 only if there was one at which some
\* MUST did not hold.
VerdictAtAMoment ==
    pc = "done" /\ inv.usable /\ DatesKept /\ Orderly =>
        /\ exit = 0 => \E x \in Lifetime : \A c \in Musts : HoldsWithLeeway(c, x)
        /\ exit = 1 => \E x \in Lifetime : \E c \in Musts : ~Holds(c, x)
        /\ exit = 2 => ~Renders(inv.format, inv.writable)

\* Exit 0 is earned: no clause that binds the token was left out of the report by
\* an early return.
NothingLeftOut == pc = "done" /\ exit = 0 => Demanded \subseteq Evaluated

\* "one line per checked clause" (README).
OneLinePerClause ==
    \A i, j \in DOMAIN report : report[i].clause = report[j].clause => i = j

\* "when nbf is present it MUST NOT be in the future" (WITNbfNotInFuture): a
\* token that passes the clause is not to be used only after the run, give or
\* take the leeway.
PassedNbfIsNotInFuture ==
    \A i \in DOMAIN report :
        report[i].clause = "WITNbfNotInFuture" /\ report[i].status = "pass"
            => HoldsWithLeeway("WITNbfNotInFuture", clock)
=============================================================================
