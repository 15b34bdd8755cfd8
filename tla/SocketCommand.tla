--------------------------- MODULE SocketCommand ---------------------------
(***************************************************************************)
(* One run of `scc workload-endpoint` or `scc broker-endpoint`: runSocket  *)
(* finds the address in the argument or, without one, in the environment,  *)
(* and socketuri.Check sweeps over it with the clauses of the endpoint.    *)
(***************************************************************************)
EXTENDS SocketUri

CONSTANT Invocations   \* the command lines considered, each a record
                       \*   cmd      "workload" or "broker" (-endpoint)
                       \*   parses   the flags parse
                       \*   args     the arguments that are left
                       \*   env      the endpoint's variable, None if unset;
                       \*            set but empty is an address
                       \*   format   "text", "json", "sarif" or another
                       \*   writable writing to stdout succeeds

ASSUME InvocationAssumption ==
    \A i \in Invocations :
        /\ i.cmd \in {"workload", "broker"}
        /\ i.args \in Seq(Address)
        /\ i.env \in Address \cup {None}

VARIABLES
    inv,      \* the invocation
    value,    \* the address under check, None before it is found
    report, exit, pc

vars == <<inv, value, report, exit, pc>>

Init ==
    /\ inv \in Invocations
    /\ value = None
    /\ report = << >>
    /\ exit = -1
    /\ pc = "args"

---------------------------------------------------------------------------

C == IF inv.cmd = "workload" THEN WorkloadClauses ELSE BrokerClauses

\* Mutant: an empty variable is taken for an unset one.
EnvFilled == inv.env # None /\ inv.env.scheme # "none"

\* os.LookupEnv(envVar)
EnvSet == inv.env # None

Quit(from, code) ==
    /\ pc = from
    /\ pc' = "done"
    /\ exit' = code
    /\ UNCHANGED <<inv, value, report>>

\* A check: append what it asserts and go on.
Check(from, to, assertions) ==
    /\ pc = from
    /\ pc' = to
    /\ report' = report \o assertions
    /\ UNCHANGED <<inv, value, exit>>

\* The address to check is v.
Take(v) ==
    /\ pc = "args"
    /\ pc' = "uri"
    /\ value' = v
    /\ UNCHANGED <<inv, report, exit>>

UsageError == Quit("args", 2) /\ (~inv.parses \/ Len(inv.args) > 1)

FromArgument == inv.parses /\ Len(inv.args) = 1 /\ Take(inv.args[1])

FromEnvironment == inv.parses /\ inv.args = << >> /\ EnvSet /\ Take(inv.env)

NoAddress == Quit("args", 2) /\ inv.parses /\ inv.args = << >> /\ ~EnvSet

URI == Check("uri", IF value.parses THEN "scheme" ELSE "emit", CheckURI(value, C))

Scheme ==
    Check("scheme",
          CASE value.scheme = "unix" -> "unixAuthority"
            [] value.scheme = "tcp" -> "tcpHost"
            [] OTHER -> "emit",
          CheckSocketScheme(value, C))

UnixAuthority == Check("unixAuthority", "unixPath", CheckUnixAuthority(value, C))

UnixPath == Check("unixPath", "unixOther", CheckUnixPath(value, C))

UnixOther == Check("unixOther", "emit", CheckUnixOther(value, C))

TCPHost == Check("tcpHost", "tcpPort", CheckTCPHost(value, C))

TCPPort == Check("tcpPort", "tcpOther", CheckTCPPort(value, C))

TCPOther == Check("tcpOther", "tcpLocal", CheckTCPOther(value, C))

TCPLocal == Check("tcpLocal", "emit", CheckTCPLocal(value, C))

\* Mutant: the exit code is the number of failed assertions.
EmitCount ==
    Quit("emit", IF Renders(inv.format, inv.writable)
                 THEN Len(SelectSeq(report, LAMBDA a : a.status = "fail"))
                 ELSE 2)

Emit == Quit("emit", EmitOf(report, inv.format, inv.writable))

Terminated == pc = "done" /\ UNCHANGED vars

Next ==
    \/ UsageError \/ FromArgument \/ FromEnvironment \/ NoAddress
    \/ URI \/ Scheme
    \/ UnixAuthority \/ UnixPath \/ UnixOther
    \/ TCPHost \/ TCPPort \/ TCPOther \/ TCPLocal
    \/ Emit
    \/ Terminated

Spec == Init /\ [][Next]_vars
---------------------------------------------------------------------------
(* What the two section 4s say of an address, read off the address itself. *)

\* RFC 1123: labels of letters, digits and inner hyphens, the last of them not a
\* number, a root label allowed after it.
IsHostName(labels) ==
    \E n \in DOMAIN labels :
        /\ labels[Len(labels)] = "empty" => n = Len(labels) - 1
        /\ labels[Len(labels)] # "empty" => n = Len(labels)
        /\ \A i \in 1..n : labels[i] \in {"name", "digits"}
        /\ labels[n] = "name"

\* RFC 3986: an IPv4 address, or an IPv6 address in brackets and without a zone.
IsIPHost(h) ==
    \/ h.addr = "v4" /\ ~h.bracket
    \/ h.addr = "v6" /\ h.bracket /\ ~h.zone

TCPHostTruth(u, cmd) ==
    /\ u.host # None
    /\ \/ IsIPHost(u.host)
       \/ /\ cmd = "broker"
          /\ u.host.addr = "none" /\ ~u.host.bracket /\ ~u.host.percent
          /\ ~u.host.long /\ IsHostName(u.host.labels)

OnlyPath(u) == u.query = "none" /\ u.fragment = "none"

\* The rules that bind address u, by their names in socketuri.Clauses.
Rules(u, cmd) ==
    {"URI"}
    \cup (IF u.parses THEN {"Scheme"} ELSE {})
    \cup (IF u.parses /\ u.scheme = "unix"
          THEN {"UnixNoAuthority", "UnixAbsolutePath", "UnixNoOtherComponents"}
          ELSE {})
    \cup (IF u.parses /\ u.scheme = "tcp"
          THEN {"TCPHost", "TCPPort", "TCPNoOtherComponents"}
               \cup (IF cmd = "workload" /\ u.host # None /\ IsIPHost(u.host)
                     THEN {"TCPLocalHost"} ELSE {})
          ELSE {})

\* Whether u keeps a rule.
Keeps(u, cmd, rule) ==
    CASE rule = "URI" -> u.parses /\ u.clean
      [] rule = "Scheme" -> u.scheme \in {"unix", "tcp"}
      [] rule = "UnixNoAuthority" -> ~u.user /\ u.host = None /\ ~u.colon
      [] rule = "UnixAbsolutePath" -> u.path
      [] rule = "UnixNoOtherComponents" -> OnlyPath(u)
      [] rule = "TCPHost" -> TCPHostTruth(u, cmd)
      [] rule = "TCPPort" -> u.port # None /\ u.port > 0 /\ u.port < 2^PortBits
      [] rule = "TCPNoOtherComponents" -> ~u.user /\ ~u.path /\ OnlyPath(u)
      [] rule = "TCPLocalHost" -> u.host.net \in {"loopback", "linkLocal"}

\* The address a client with this configuration dials.
Given == IF inv.args # << >> THEN inv.args[1] ELSE inv.env

Judged == inv.parses /\ Len(inv.args) <= 1 /\ Given # None

LinesOf(r, clause) == {i \in DOMAIN r : r[i].clause = clause}

---------------------------------------------------------------------------

\* The types of the state; the address under check is the one given, and there is
\* an exit code exactly when the command has ended.
TypeOK ==
    /\ value \in {None, Given}
    /\ report \in Seq(Assertion)
    /\ exit \in {-1, 0, 1, 2}
    /\ exit # -1 <=> pc = "done"

\* Every line is about a rule that binds the address, cites the endpoint's own
\* document for it, and is true of the address.
ReportIsTruthful ==
    \A i \in DOMAIN report :
        \E rule \in Rules(value, inv.cmd) :
            /\ report[i].clause = C[rule]
            /\ report[i].clause \in IF inv.cmd = "workload"
                                    THEN WorkloadEndpointClauses
                                    ELSE BrokerEndpointClauses
            /\ report[i].status = "pass" <=> Keeps(value, inv.cmd, rule)

\* At the end every rule that binds the address has exactly one line, whatever
\* failed before it: the sweep has one early return, for a value that does not
\* parse, and keeps silent about locality only without an IP address.
EveryRuleOnce ==
    pc = "done" /\ Judged =>
        \A rule \in Rules(Given, inv.cmd) : \E i \in DOMAIN report :
            LinesOf(report, C[rule]) = {i}

\* The exit code is the verdict on the address a client would dial, argument
\* before environment, a set but empty variable included; a locality that scc
\* cannot judge never fails it.
ExitIsCompliance ==
    pc = "done" =>
        exit = IF ~Judged \/ ~Renders(inv.format, inv.writable) THEN 2
               ELSE IF \A rule \in Rules(Given, inv.cmd) \ {"TCPLocalHost"} :
                           Keeps(Given, inv.cmd, rule)
                    THEN 0 ELSE 1

StatusOf(r, clauses, rule) == {r[i].status : i \in LinesOf(r, clauses[rule])}

\* The two documents "differ only in what a tcp host may be and in whether a
\* non-local host is restricted" (package socketuri): over any address the two
\* commands agree on every other rule, and the broker accepts every host the
\* workload endpoint accepts.
SameShape ==
    pc = "done" /\ Judged =>
        LET workload == SocketCheck(Given, WorkloadClauses)
            broker == SocketCheck(Given, BrokerClauses)
            W(rule) == StatusOf(workload, WorkloadClauses, rule)
            B(rule) == StatusOf(broker, BrokerClauses, rule)
        IN  /\ \A rule \in DOMAIN BrokerClauses
                           \ {"TCPHost", "TCPLocalHost", "AllowDNSName"} :
                   W(rule) = B(rule)
            /\ W("TCPHost") = {"pass"} => B("TCPHost") = {"pass"}
=============================================================================
