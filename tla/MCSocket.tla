------------------------------ MODULE MCSocket ------------------------------
(***************************************************************************)
(* SocketCommand for TLC: ports of three bits, every shape of an address   *)
(* and every host over the address kinds and the names of up to three      *)
(* labels.                                                                 *)
(***************************************************************************)
EXTENDS SocketCommand

MCTags == {""}

Path0 ==
    [parses |-> TRUE, clean |-> TRUE, scheme |-> "unix", opaque |-> FALSE,
     user |-> FALSE, host |-> None, colon |-> FALSE, port |-> None,
     path |-> TRUE, query |-> "none", fragment |-> "none"]

Host(addr, bracket, zone, net) ==
    [addr |-> addr, bracket |-> bracket, percent |-> zone, zone |-> zone,
     net |-> net, labels |-> <<"symbol">>, long |-> FALSE]

Named(labels) ==
    [Host("none", FALSE, FALSE, "other") EXCEPT !.labels = labels]

Nets == {"loopback", "linkLocal", "unspecified", "other"}

AddressHosts ==
    { Host("v4", b, FALSE, n) : b \in BOOLEAN, n \in Nets }
    \cup { Host("v6", b, z, n) : b \in BOOLEAN, z \in BOOLEAN, n \in Nets }

Names == UNION { [1..n -> {"name", "digits", "empty"}] : n \in 1..3 } \ {<<"empty">>}

NameHosts ==
    { Named(l) : l \in Names }
    \cup { Named(<<"name", l>>) : l \in {"hyphen", "long", "symbol"} }
    \cup { Named(<<l, "name">>) : l \in {"hyphen", "long", "symbol"} }
    \cup { [Named(<<"name">>) EXCEPT !.long = TRUE],
           [Named(<<"name">>) EXCEPT !.percent = TRUE],
           [Named(<<"name">>) EXCEPT !.bracket = TRUE] }

Tcp(host, port) ==
    [Path0 EXCEPT !.scheme = "tcp", !.host = host, !.colon = TRUE, !.port = port,
                  !.path = FALSE]

Local4 == Host("v4", FALSE, FALSE, "loopback")

Hosts == {None} \cup AddressHosts \cup NameHosts

Ports == {None} \cup 0..9 \cup {15, 16}

Shapes(u) ==
    { [u EXCEPT !.user = s, !.path = p, !.query = q, !.fragment = f, !.clean = c] :
        s \in BOOLEAN, p \in BOOLEAN, q \in {"none", "empty", "set"},
        f \in {"none", "empty", "set"}, c \in BOOLEAN }

\* "unix:a" or "tcp:a", the empty value, and what url.Parse refuses.
Odd ==
    { [Path0 EXCEPT !.scheme = s, !.opaque = TRUE, !.path = FALSE, !.query = q] :
        s \in {"unix", "tcp", "other"}, q \in {"none", "empty"} }
    \cup { [Path0 EXCEPT !.scheme = "none", !.path = FALSE],
           [Path0 EXCEPT !.scheme = "other"], [Path0 EXCEPT !.parses = FALSE],
           [Path0 EXCEPT !.colon = TRUE], [Path0 EXCEPT !.host = Local4],
           [Tcp(Local4, None) EXCEPT !.colon = FALSE] }

Addresses ==
    Shapes(Path0) \cup Shapes(Tcp(Local4, 5)) \cup Odd
    \cup { Tcp(h, p) : h \in Hosts, p \in {None, 0, 5, 8} }
    \cup { Tcp(h, p) : h \in {None, Local4, Named(<<"name">>)}, p \in Ports }

Commands == {"workload", "broker"}

Invoke(cmd, args, env) ==
    [cmd |-> cmd, parses |-> TRUE, args |-> args, env |-> env,
     format |-> "text", writable |-> TRUE]

FewAddresses == Odd \cup {Path0, Tcp(Local4, 5), Tcp(Local4, 0)}

MCInvocations ==
    { Invoke(c, <<u>>, None) : c \in Commands, u \in Addresses }
    \cup { Invoke(c, a, e) :
             c \in Commands, e \in FewAddresses \cup {None},
             a \in {<< >>, <<Path0, Path0>>} \cup {<<u>> : u \in FewAddresses} }
    \cup { [Invoke(c, <<u>>, None) EXCEPT !.parses = p, !.format = f, !.writable = w] :
             c \in Commands, u \in FewAddresses, p \in BOOLEAN, w \in BOOLEAN,
             f \in {"text", "json", "sarif", "yaml"} }
=============================================================================
