------------------------------ MODULE MCSweep ------------------------------
(***************************************************************************)
(* SweepCommand for TLC: every URI text over five host names and the paths *)
(* of at most two segments, and every certificate over the extensions and  *)
(* some dozen SANs.                                                        *)
(***************************************************************************)
EXTENDS SweepCommand

MCTags == {""}
MCTrustDomains == {"", "td", "Td", "t!d", "tdlong"}
MCUpperNames == {"Td"}
MCBadCharNames == {"Td", "t!d"}
MCLongNames == {"tdlong"}

\* A segment as it is written, its kind, and what escaping it anew makes of it.
Spelling ==
    [ (* "" *)       nothing |-> [kind |-> "empty", anew |-> <<"empty">>],
      (* "." *)      dot |-> [kind |-> "dot", anew |-> <<"dot">>],
      (* "x" *)      name |-> [kind |-> "ok", anew |-> <<"ok">>],
      (* "$" *)      dollar |-> [kind |-> "symbol", anew |-> <<"symbol">>],
      (* "!" *)      bang |-> [kind |-> "symbol", anew |-> <<"percent">>],
      (* "%41" *)    letter |-> [kind |-> "percent", anew |-> <<"ok">>],
      (* "%2e" *)    period |-> [kind |-> "percent", anew |-> <<"dot">>],
      (* "x%2F" *)   slash |-> [kind |-> "percent", anew |-> <<"ok", "empty">>],
      (* "%20" *)    blank |-> [kind |-> "percent", anew |-> <<"percent">>],
      (* " " *)      raw |-> [kind |-> "raw", anew |-> <<"percent">>],
      (* " %2F" *)   mixed |-> [kind |-> "mixed", anew |-> <<"percent", "empty">>] ]

\* The paths of at most two segments, and what net/url escapes them to.
Spelled(names) ==
    LET path == [i \in DOMAIN names |-> Spelling[names[i]].kind]
        anew == FlattenSeq([i \in DOMAIN names |-> Spelling[names[i]].anew])
    IN  [path |-> path, escaped |-> IF HasRaw(path) THEN anew ELSE path]

Paths == {Spelled(names) : names \in UNION {[1..n -> DOMAIN Spelling] : n \in 0..2}}

\* Those the other parts of a text are varied with.
FewPaths ==
    {Spelled(names) : names \in
        UNION {[1..n -> {"nothing", "dot", "name", "slash", "raw"}] : n \in 0..2}
        \cup {<<"name", "name", "name">>}}

Plain ==
    [parses |-> TRUE, scheme |-> "spiffe", user |-> FALSE, td |-> "td",
     colon |-> "none", path |-> <<"ok">>, escaped |-> <<"ok">>, query |-> "none",
     fragment |-> "none", long |-> FALSE, longString |-> FALSE]

At(t, p) == [t EXCEPT !.path = p.path, !.escaped = p.escaped]

Texts ==
    { At(t, p) : t \in
        [parses : {TRUE}, scheme : {"spiffe", "other"}, user : BOOLEAN,
         td : MCTrustDomains, colon : {"none", "bare", "port"},
         path : {<< >>}, escaped : {<< >>}, query : {"none", "empty"},
         fragment : {"none", "empty", "set"}, long : {FALSE}, longString : {FALSE}],
      p \in FewPaths }

OddTexts ==
    { [Plain EXCEPT !.parses = FALSE],
      [Plain EXCEPT !.long = TRUE, !.longString = TRUE],
      [Plain EXCEPT !.parses = FALSE, !.query = "set"] }

Sans ==
    {<< >>, <<Plain, Plain>>}
    \cup { <<u>> : u \in
           { Plain, At(Plain, Spelled(<< >>)), At(Plain, Spelled(<<"nothing">>)),
             At(Plain, Spelled(<<"name", "nothing">>)),
             At(Plain, Spelled(<<"period", "raw">>)),
             [At(Plain, Spelled(<<"raw">>)) EXCEPT !.longString = TRUE],
             [At(Plain, Spelled(<<"mixed", "letter">>)) EXCEPT !.long = TRUE],
             [Plain EXCEPT !.fragment = "empty"],
             [Plain EXCEPT !.fragment = "empty", !.long = TRUE],
             [Plain EXCEPT !.query = "empty"],
             [Plain EXCEPT !.scheme = "other"],
             [Plain EXCEPT !.colon = "bare"],
             [Plain EXCEPT !.td = "Td"] } }

KeyUsages ==
    {<<"absent", {}>>} \cup
    ({"plain", "critical"} \X
        SUBSET {"digitalSignature", "keyCertSign", "cRLSign"})

Certificates ==
    { [isCA |-> bc[1], bcValid |-> bc[2], kuExt |-> ku[1], ku |-> ku[2],
       eku |-> eku[1], ekuUnknown |-> eku[2], subject |-> sub,
       sanExt |-> IF uris = << >> THEN "absent" ELSE san, uris |-> uris] :
      bc \in {<<TRUE, TRUE>>, <<FALSE, TRUE>>, <<FALSE, FALSE>>},
      ku \in KeyUsages,
      eku \in { <<{}, FALSE>>, <<{}, TRUE>>, <<{"serverAuth"}, FALSE>>,
                <<{"clientAuth", "codeSigning"}, TRUE>>,
                <<{"serverAuth", "clientAuth"}, FALSE>> },
      sub \in {NoName, "cn"},
      san \in {"plain", "critical"},
      uris \in Sans }

Leaf ==
    [isCA |-> FALSE, bcValid |-> TRUE, kuExt |-> "critical",
     ku |-> {"digitalSignature"}, eku |-> {"serverAuth", "clientAuth"},
     ekuUnknown |-> FALSE, subject |-> NoName, sanExt |-> "critical",
     uris |-> <<Plain>>]

Files ==
    { [readable |-> r, blocks |-> b, der |-> d] :
      r \in BOOLEAN,
      b \in { << >>,
              <<[type |-> "PRIVATE KEY", cert |-> None],
                [type |-> "CERTIFICATE", cert |-> Leaf]>>,
              <<[type |-> "CERTIFICATE", cert |-> None],
                [type |-> "CERTIFICATE", cert |-> Leaf]>> },
      d \in {None, Leaf} }

IdInvocation(t, format, writable) ==
    [cmd |-> "id", usable |-> TRUE, text |-> t, file |-> None,
     format |-> format, writable |-> writable]

SvidInvocation(f, format, writable) ==
    [cmd |-> "x509-svid", usable |-> TRUE, text |-> None, file |-> f,
     format |-> format, writable |-> writable]

DerFile(c) == [readable |-> TRUE, blocks |-> << >>, der |-> c]

\* Formats and outputs, on a compliant and a failing artifact of each kind.
RenderedInvocations ==
    UNION { { IdInvocation(t, f, w), SvidInvocation(DerFile(c), f, w) } :
            t \in {Plain, [Plain EXCEPT !.user = TRUE]},
            c \in {Leaf, [Leaf EXCEPT !.kuExt = "plain"]},
            f \in {"text", "json", "sarif", "yaml"}, w \in BOOLEAN }

FewInvocations ==
    RenderedInvocations
    \cup { [i EXCEPT !.usable = FALSE] : i \in RenderedInvocations }
    \cup { SvidInvocation(f, "text", TRUE) : f \in Files }
    \cup { SvidInvocation(DerFile([Leaf EXCEPT !.uris = u]), "text", TRUE) : u \in Sans }
    \cup { IdInvocation(At(Plain, p), "text", TRUE) : p \in Paths }

IdInvocations ==
    FewInvocations
    \cup { IdInvocation(t, "text", TRUE) : t \in Texts \cup OddTexts }

SvidInvocations == { SvidInvocation(DerFile(c), "text", TRUE) : c \in Certificates }

AllInvocations == IdInvocations \cup SvidInvocations
=============================================================================
