------------------------------ MODULE MCToken ------------------------------
(***************************************************************************)
(* TokenCommand for TLC: seconds of six bits, a leeway of one second, a    *)
(* clock that ticks up to three times, and dates on both sides of every    *)
(* limit.                                                                  *)
(***************************************************************************)
EXTENDS TokenCommand

MCTags == {""}
MCTrustDomains == {"", "td"}

Builds == {"amd64", "arm64"}

Sub ==
    [parses |-> TRUE, scheme |-> "spiffe", user |-> FALSE, td |-> "td",
     colon |-> "none", path |-> <<"ok">>, escaped |-> <<"ok">>, query |-> "none",
     fragment |-> "none", long |-> FALSE, longString |-> FALSE]

Subs ==
    {None, Malformed, Sub}
    \cup { [Sub EXCEPT !.parses = FALSE], [Sub EXCEPT !.scheme = "other"],
           [Sub EXCEPT !.td = ""], [Sub EXCEPT !.path = << >>, !.escaped = << >>],
           [Sub EXCEPT !.path = <<"raw">>, !.escaped = <<"percent">>],
           [Sub EXCEPT !.path = <<"mixed">>, !.escaped = <<"percent", "empty">>],
           [Sub EXCEPT !.path = <<"percent", "raw">>, !.escaped = <<"dot", "percent">>],
           [Sub EXCEPT !.fragment = "empty"],
           [Sub EXCEPT !.long = TRUE, !.longString = TRUE] }

Aud(form, values) == [form |-> form, values |-> values]

Auds ==
    { None, Aud("other", << >>), Aud("string", <<"set">>), Aud("string", <<"empty">>) }
    \cup { Aud("array", v) :
           v \in UNION {[1..n -> {"set", "empty", "bad"}] : n \in 0..2} }

Jwk(private, alg) == [private |-> private, alg |-> alg]

Cnfs ==
    {None, Malformed}
    \cup { [jwk |-> j] : j \in {None, Malformed}
           \cup { Jwk(p, a) : p \in BOOLEAN, a \in {None, Malformed, "other", "allowed"} } }

Iss(parses, https, host, query, fragment) ==
    [parses |-> parses, https |-> https, host |-> host, query |-> query,
     fragment |-> fragment]

\* The empty iss, or any other that is no URL of a scheme and a host.
EmptyIss == Iss(TRUE, FALSE, FALSE, "none", "none")

Isses ==
    { None, Malformed, EmptyIss, Iss(FALSE, FALSE, FALSE, "none", "none") }
    \cup { Iss(TRUE, s, h, q, f) : s \in BOOLEAN, h \in BOOLEAN,
             q \in {"none", "empty", "set"}, f \in {"none", "set"} }

Headers ==
    [alg : {None, Malformed, "allowed", "other"},
     typ : {None, Malformed, "JWT", "wit+jwt", "other"},
     kid : {None, Malformed, "set"}, extra : BOOLEAN]

\* 62 ticks are 31 seconds, the largest second; 46 the largest with an Epoch.
NearDates == (-1)..10
FarDates == {-70, -64, -63, 46, 47, 48, 62, 64, 70}

JwtHeader0 == [alg |-> "allowed", typ |-> "JWT", kid |-> None, extra |-> FALSE]
WitHeader0 == [alg |-> "allowed", typ |-> "wit+jwt", kid |-> "set", extra |-> FALSE]

Payload0 ==
    [sub |-> Sub, aud |-> None, exp |-> 9, nbf |-> None, iss |-> None,
     cnf |-> [jwk |-> Jwk(FALSE, "allowed")]]

JwtPayload0 == [Payload0 EXCEPT !.aud = Aud("string", <<"set">>)]

Token0(header, payload) ==
    [parts |-> 3, json |-> FALSE, header |-> header, payload |-> payload]

Invoke(cmd, token, build) ==
    [cmd |-> cmd, usable |-> TRUE, token |-> token, build |-> build,
     format |-> "text", writable |-> TRUE]

Wit(payload) == Invoke("wit-svid", Token0(WitHeader0, payload), "amd64")
Jwt(payload) == Invoke("jwt-svid", Token0(JwtHeader0, payload), "amd64")

\* Two tokens that comply, one of each kind.
Good == {Wit(Payload0), Jwt(JwtPayload0)}

Dated ==
    { Wit([Payload0 EXCEPT !.exp = e, !.nbf = n]) :
        e \in NearDates \cup {None, Malformed, 46},
        n \in NearDates \cup {None, Malformed} }
    \cup { [Wit([Payload0 EXCEPT !.exp = e, !.nbf = n]) EXCEPT !.build = b] :
        e \in FarDates, n \in FarDates, b \in Builds }
    \cup { [Jwt([JwtPayload0 EXCEPT !.exp = e]) EXCEPT !.build = b] :
        e \in NearDates \cup FarDates \cup {None, Malformed}, b \in Builds }

Shaped ==
    { [g EXCEPT !.token.header = h] : g \in Good, h \in Headers }
    \cup { [g EXCEPT !.token.payload.sub = s, !.token.payload.aud = a] :
             g \in Good, s \in Subs, a \in Auds }
    \cup { Wit([Payload0 EXCEPT !.cnf = c, !.iss = i]) : c \in Cnfs, i \in Isses }

Undecodable ==
    UNION { { [g EXCEPT !.token.parts = 1], [g EXCEPT !.token.parts = 4],
              [g EXCEPT !.token.json = TRUE], [g EXCEPT !.token.header = None],
              [g EXCEPT !.token.payload = None], [g EXCEPT !.usable = FALSE] } :
            g \in Good }

Rendered ==
    { [g EXCEPT !.format = f, !.writable = w, !.token.payload.exp = e] :
        g \in Good, f \in {"text", "json", "sarif", "yaml"}, w \in BOOLEAN,
        e \in {9, None} }

AllInvocations == Dated \cup Shaped \cup Undecodable \cup Rendered

\* A token that becomes valid long after any clock will have run.
FarNbf ==
    { [Wit([Payload0 EXCEPT !.exp = 46, !.nbf = n]) EXCEPT !.build = b] :
        n \in {d \in FarDates : d > 47}, b \in Builds }
=============================================================================
