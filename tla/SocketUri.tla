----------------------------- MODULE SocketUri -----------------------------
(***************************************************************************)
(* internal/socketuri, and the two clause sets of workloadendpoint and     *)
(* brokerendpoint it is called with.                                       *)
(*                                                                         *)
(* An address is a record of what net/url.Parse (external) makes of it:    *)
(*   parses   url.Parse accepts it                                         *)
(*   clean    every byte may appear unencoded in a URI                     *)
(*   scheme   "unix", "tcp", "other" or "none"                             *)
(*   opaque   no slash follows the scheme: u.Opaque, and nothing else but  *)
(*            the query and the fragment, is set                           *)
(*   user     there is userinfo                                            *)
(*   host     u.Host without a port, see below; None when empty            *)
(*   colon    u.Host ends with a colon and an optional port                *)
(*   port     u.Port() as a number, None when empty                        *)
(*   path     u.Path is not empty                                          *)
(*   query, fragment   "none", "empty" ("?" or "#" alone) or "set"         *)
(*                                                                         *)
(* A host is a record of                                                   *)
(*   addr     what netip.ParseAddr finds: "v4", "v6" or "none"             *)
(*   bracket, percent   u.Host starts with "[", holds a "%"                *)
(*   zone     the address has a zone                                       *)
(*   net      "loopback", "linkLocal", "unspecified" or "other", of the    *)
(*            address with an embedded IPv4 address taken out (Unmap)      *)
(*   labels   its "."-separated parts, each "name" (a letter or a hyphen   *)
(*            in it), "digits", "empty", "hyphen" (at an end), "long" or   *)
(*            "symbol" (another character)                                 *)
(*   long     over 253 bytes, less a trailing dot                          *)
(* Which bracketed and bare IPv6 hosts reach the checks depends on the     *)
(* strictness of the Go release; the checks do not lean on it.             *)
(***************************************************************************)
EXTENDS Report, Integers, SequencesExt

CONSTANTS
    None,        \* no value
    PortBits     \* the width of a TCP port number

ASSUME PortAssumption == PortBits \in Nat

\* What netip.ParseAddr and strings.Split make of a host: only an IPv6 address
\* has a zone, and there is a label at least.
UrlHost ==
    { h \in [addr : {"v4", "v6", "none"}, bracket : BOOLEAN, percent : BOOLEAN,
             zone : BOOLEAN,
             net : {"loopback", "linkLocal", "unspecified", "other"},
             labels : Seq({"name", "digits", "empty", "hyphen", "long", "symbol"}),
             long : BOOLEAN] :
        h.labels # << >> /\ (h.addr = "v4" => ~h.zone) }

\* What url.Parse makes of an address.
Address ==
    { u \in [parses : BOOLEAN, clean : BOOLEAN, scheme : {"unix", "tcp", "other", "none"},
             opaque : BOOLEAN, user : BOOLEAN, host : {None} \cup UrlHost,
             colon : BOOLEAN, port : {None} \cup Nat, path : BOOLEAN,
             query : {"none", "empty", "set"}, fragment : {"none", "empty", "set"}] :
        u.opaque => ~u.user /\ u.host = None /\ ~u.colon /\ u.port = None /\ ~u.path }

ASSUME NoneAssumption == None \notin Clause /\ None \notin Address

\* workloadendpoint.clauses
WorkloadClauses ==
    [ URI |-> "WEURI", Scheme |-> "WEScheme",
      UnixNoAuthority |-> "WEUnixNoAuthority",
      UnixAbsolutePath |-> "WEUnixAbsolutePath",
      UnixNoOtherComponents |-> "WEUnixNoOtherComponents",
      TCPHost |-> "WETCPHostIP", TCPPort |-> "WETCPPort",
      TCPNoOtherComponents |-> "WETCPNoOtherComponents",
      TCPLocalHost |-> "WETCPLocalHost", AllowDNSName |-> FALSE ]

\* Mutant: a line of the table is pasted twice.
BrokerClausesPasted ==
    [ URI |-> "BEURI", Scheme |-> "BEScheme",
      UnixNoAuthority |-> "BEUnixNoOtherComponents",
      UnixAbsolutePath |-> "BEUnixAbsolutePath",
      UnixNoOtherComponents |-> "BEUnixNoOtherComponents",
      TCPHost |-> "BETCPHost", TCPPort |-> "BETCPPort",
      TCPNoOtherComponents |-> "BETCPNoOtherComponents",
      TCPLocalHost |-> None, AllowDNSName |-> TRUE ]

\* brokerendpoint.clauses
BrokerClauses ==
    [ URI |-> "BEURI", Scheme |-> "BEScheme",
      UnixNoAuthority |-> "BEUnixNoAuthority",
      UnixAbsolutePath |-> "BEUnixAbsolutePath",
      UnixNoOtherComponents |-> "BEUnixNoOtherComponents",
      TCPHost |-> "BETCPHost", TCPPort |-> "BETCPPort",
      TCPNoOtherComponents |-> "BETCPNoOtherComponents",
      TCPLocalHost |-> None, AllowDNSName |-> TRUE ]

---------------------------------------------------------------------------

\* Mutant: u.RawQuery and u.Fragment, which are "" after a "?" or "#" alone.
QueryFragmentParsed(u) == u.query = "set" \/ u.fragment = "set"

QueryFragment(u) == u.query # "none" \/ u.fragment # "none"

\* strings.TrimSuffix(host, ".")
WithoutTrailingDot(labels) ==
    IF Len(labels) > 1 /\ Last(labels) = "empty" THEN Front(labels) ELSE labels

IsDNSName(host) ==
    LET labels == WithoutTrailingDot(host.labels)
    IN  /\ ~host.long
        /\ ToSet(labels) \subseteq {"name", "digits"}
        /\ Last(labels) # "digits"

\* An address written as RFC 3986 has it: brackets around IPv6 only, no zone.
IsAddress(host) == host.addr # "none" /\ (host.addr = "v6" <=> host.bracket) /\ ~host.zone

NameAllowed(u, c) ==
    /\ c.AllowDNSName
    /\ u.host.addr = "none" /\ ~u.host.bracket /\ ~u.host.percent
    /\ IsDNSName(u.host)

\* checkTCPHost, what it returns: whether the host is an address to judge.
HostOK(u) == ~u.opaque /\ u.host # None /\ IsAddress(u.host)

CheckURI(u, c) == Judge(c.URI, u.parses /\ u.clean, "")

CheckSocketScheme(u, c) == Judge(c.Scheme, u.scheme \in {"unix", "tcp"}, "")

CheckUnixAuthority(u, c) ==
    Judge(c.UnixNoAuthority, ~u.user /\ u.host = None /\ ~u.colon, "")

CheckUnixPath(u, c) == Judge(c.UnixAbsolutePath, ~u.opaque /\ u.path, "")

CheckUnixOther(u, c) == Judge(c.UnixNoOtherComponents, ~QueryFragment(u), "")

CheckTCPHost(u, c) ==
    Judge(c.TCPHost, ~u.opaque /\ u.host # None /\ (HostOK(u) \/ NameAllowed(u, c)), "")

\* Mutant: an address without an authority fails for its host alone.
CheckTCPPortOnce(u, c) ==
    IF u.opaque
    THEN << >>
    ELSE Judge(c.TCPPort, u.port # None /\ u.port \in 1..(2^PortBits - 1), "")

\* strconv.ParseUint(port, 10, 16), and port 0 refused.
CheckTCPPort(u, c) ==
    Judge(c.TCPPort, ~u.opaque /\ u.port # None /\ u.port \in 1..(2^PortBits - 1), "")

CheckTCPOther(u, c) ==
    Judge(c.TCPNoOtherComponents, ~u.user /\ ~u.path /\ ~QueryFragment(u), "")

CheckTCPLocal(u, c) ==
    IF c.TCPLocalHost = None \/ ~HostOK(u)
    THEN << >>
    ELSE Judge(c.TCPLocalHost, u.host.net \in {"loopback", "linkLocal"}, "")

---------------------------------------------------------------------------
(* socketuri.Check, as one call                                            *)

CheckUnix(u, c) ==
    CheckUnixAuthority(u, c) \o CheckUnixPath(u, c) \o CheckUnixOther(u, c)

CheckTCP(u, c) ==
    CheckTCPHost(u, c) \o CheckTCPPort(u, c) \o CheckTCPOther(u, c)
    \o CheckTCPLocal(u, c)

SocketCheck(u, c) ==
    CheckURI(u, c)
    \o CASE ~u.parses -> << >>
         [] u.parses /\ u.scheme = "unix" -> CheckSocketScheme(u, c) \o CheckUnix(u, c)
         [] u.parses /\ u.scheme = "tcp" -> CheckSocketScheme(u, c) \o CheckTCP(u, c)
         [] OTHER -> CheckSocketScheme(u, c)
=============================================================================
