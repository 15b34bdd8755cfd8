------------------------------ MODULE SpiffeId ------------------------------
(***************************************************************************)
(* internal/id: the SPIFFE-ID.md sweep over one URI text.                  *)
(*                                                                         *)
(* A text is a record of what net/url.Parse (external) takes it apart to:  *)
(*   parses    url.Parse accepts it                                        *)
(*   scheme    "spiffe" or another; url.Parse has lowercased it            *)
(*   user      the authority has an "@" (u.User # nil, even when empty)    *)
(*   td        the host name, a member of TrustDomains; "" is none         *)
(*   colon     what follows it: "none", "bare" (a colon alone), "port"     *)
(*   path      its "/"-separated segments: <<>> is no path, <<"empty">> is *)
(*             "/", <<"ok", "empty">> is "/x/"                             *)
(*   escaped   the segments of its EscapedPath (below)                     *)
(*   query, fragment   "none", "empty" ("?" or "#" alone) or "set"         *)
(*   long      the text is over 2048 bytes                                 *)
(*   longString   what String makes of it is: escapes it adds are longer   *)
(*             than what they replace, those it removes and a "#" alone    *)
(*             that it drops are shorter                                   *)
(* A segment is "empty", "dot" ("." or ".."), "ok" (letters, digits, "-",  *)
(* "_", "."), "percent" (holds a %-escape), "symbol" (a legal URI          *)
(* character outside the charset), "raw" (a character that a URI must      *)
(* escape, such as a space) or "mixed" (such a one and a %-escape).        *)
(***************************************************************************)
EXTENDS Report, SequencesExt

CONSTANTS
    TrustDomains,    \* host names, "" among them
    UpperNames,      \* those that change under strings.ToLower
    BadCharNames,    \* those with a character outside [a-z0-9.-_]
    LongNames        \* those over 255 bytes

ASSUME TrustDomainAssumption ==
    /\ "" \in TrustDomains
    /\ UpperNames \subseteq BadCharNames
    /\ BadCharNames \cup LongNames \subseteq TrustDomains \ {""}

RawSegment == {"raw", "mixed"}

Segment == {"empty", "dot", "ok", "percent", "symbol"} \cup RawSegment

HasRaw(path) == ToSet(path) \cap RawSegment # {}

\* (*URL).EscapedPath (net/url, external): the path as written when that is a
\* valid encoding.  Otherwise the whole path is decoded and escaped anew: the
\* raw character becomes an escape, and an escape may become what it stands
\* for ("%2e" a dot, "%2F" a separator), so only this is sure of the segments.
EscapesTo(path, escaped) ==
    IF HasRaw(path)
    THEN /\ "percent" \in ToSet(escaped)
         /\ \A s \in {"empty", "dot"} : s \in ToSet(path) => s \in ToSet(escaped)
         /\ path[Len(path)] = "empty" => escaped[Len(escaped)] = "empty"
    ELSE escaped = path

IdText ==
    {t \in [parses : BOOLEAN, scheme : {"spiffe", "other"}, user : BOOLEAN,
            td : TrustDomains, colon : {"none", "bare", "port"},
            path : Seq(Segment), escaped : Seq(Segment \ RawSegment),
            query : {"none", "empty", "set"}, fragment : {"none", "empty", "set"},
            long : BOOLEAN, longString : BOOLEAN] :
        EscapesTo(t.path, t.escaped)}

---------------------------------------------------------------------------
(* net/url, external                                                       *)

EscapedPath(t) == t.escaped

\* (*URL).String: the path is the escaped one, a "#" with nothing after it is
\* dropped (a "?" is kept), and the length is another.
Reserialised(t) ==
    [t EXCEPT !.path = EscapedPath(t),
              !.fragment = IF @ = "empty" THEN "none" ELSE @,
              !.long = t.longString]

---------------------------------------------------------------------------
(* id.Check, function by function                                          *)

CheckQueryFragment(t) ==
    Judge("IDNoQueryFragment", t.query = "none" /\ t.fragment = "none", "")

CheckScheme(t) == Judge("IDSchemeSpiffe", t.scheme = "spiffe", "")

\* Mutant: the early return after the empty name is missing.
CheckTrustDomainGoesOn(tag, name) ==
    (IF name = "" THEN Fail("IDTrustDomainNonEmpty", tag) ELSE << >>)
    \o Pass("IDTrustDomainNonEmpty", tag)
    \o Judge("IDTrustDomainLowercase", name \notin UpperNames, tag)
    \o Judge("IDTrustDomainCharset", name \notin BadCharNames, tag)
    \o Judge("IDTrustDomainLengthLimit", name \notin LongNames, tag)

CheckTrustDomain(tag, name) ==
    IF name = ""
    THEN Fail("IDTrustDomainNonEmpty", tag)
    ELSE Pass("IDTrustDomainNonEmpty", tag)
         \o Judge("IDTrustDomainLowercase", name \notin UpperNames, tag)
         \o Judge("IDTrustDomainCharset", name \notin BadCharNames, tag)
         \o Judge("IDTrustDomainLengthLimit", name \notin LongNames, tag)

\* Mutant: only u.Port() is tested, and that is "" after a bare colon.
CheckAuthorityByPort(t) ==
    Judge("IDNoUserinfo", ~t.user, "")
    \o Judge("IDNoPort", t.colon # "port", "")
    \o CheckTrustDomain("", t.td)

CheckAuthority(t) ==
    Judge("IDNoUserinfo", ~t.user, "")
    \o Judge("IDNoPort", t.colon = "none", "")
    \o CheckTrustDomain("", t.td)

CheckPath(t) ==
    LET raw == EscapedPath(t)
        segs == ToSet(raw)
    IN  Judge("IDPathNoPercent", "percent" \notin segs, "")
        \o IF raw = << >>
           THEN Pass("IDPathNoTrailingSlash", "")
                \o Pass("IDPathNoEmptyOrDot", "")
                \o Pass("IDPathSegmentCharset", "")
           ELSE Judge("IDPathNoTrailingSlash", Last(raw) # "empty", "")
                \o Judge("IDPathNoEmptyOrDot", {"empty", "dot"} \cap segs = {}, "")
                \o Judge("IDPathSegmentCharset", segs \subseteq {"empty", "dot", "ok"}, "")

CheckLength(t) == Judge("IDLengthLimit", ~t.long, "")

\* A text url.Parse rejects leaves the later checks no input.
IdCheck(t) ==
    CheckQueryFragment(t)
    \o IF ~t.parses
       THEN Fail("IDSchemeSpiffe", "")
       ELSE CheckScheme(t) \o CheckAuthority(t) \o CheckPath(t) \o CheckLength(t)

\* id.Parse: no error exactly when this holds.
ParseSucceeds(t) == t.parses /\ t.scheme = "spiffe"
---------------------------------------------------------------------------
(* What SPIFFE-ID.md says, without an order or an early return.            *)

\* What two documents say of one artifact; they have no clause in common.
Together(f, g) ==
    [c \in DOMAIN f \cup DOMAIN g |-> IF c \in DOMAIN f THEN f[c] ELSE g[c]]

GoodTrustDomain(td) == td \notin {""} \cup UpperNames \cup BadCharNames \cup LongNames

\* The clauses of SPIFFE-ID.md, each as a fact about the text as written.
IdTruth(t) ==
    [ IDSchemeSpiffe |-> t.parses /\ t.scheme = "spiffe",
      IDNoQueryFragment |-> t.query = "none" /\ t.fragment = "none",
      IDTrustDomainNonEmpty |-> t.td # "",
      IDNoUserinfo |-> ~t.user,
      IDNoPort |-> t.colon = "none",
      IDTrustDomainLowercase |-> t.td \notin UpperNames,
      IDTrustDomainCharset |-> t.td \notin BadCharNames,
      IDPathNoPercent |->
          \A i \in DOMAIN t.path : t.path[i] \notin {"percent", "mixed"},
      IDPathNoEmptyOrDot |-> \A i \in DOMAIN t.path : t.path[i] \notin {"empty", "dot"},
      IDPathNoTrailingSlash |-> t.path = << >> \/ t.path[Len(t.path)] # "empty",
      IDPathSegmentCharset |->
          \A i \in DOMAIN t.path : t.path[i] \in {"empty", "dot", "ok"},
      IDLengthLimit |-> ~t.long,
      IDTrustDomainLengthLimit |-> t.td \notin LongNames ]

\* A line that blames the path escaped anew for what the path as written may
\* not hold: a percent sign, a dot segment, an empty one, a slash at its end.
BlamesNewPath(t, assertion) ==
    /\ assertion.status # "pass"
    /\ assertion.clause \in
           {"IDPathNoPercent", "IDPathNoTrailingSlash", "IDPathNoEmptyOrDot"}
    /\ HasRaw(t.path)
=============================================================================
