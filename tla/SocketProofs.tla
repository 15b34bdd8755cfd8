---------------------------- MODULE SocketProofs ----------------------------
(***************************************************************************)
(* For every address net/url can make, every argument and every environment: *)
(* the sweep over a Workload or Broker endpoint writes one line for each   *)
(* rule that binds the address, each of them true, and exits with the      *)
(* verdict they add up to.                                                 *)
(***************************************************************************)
EXTENDS SocketCommand, ReportProofs

Cmd == {"workload", "broker"}

ClausesOf(cmd) == IF cmd = "workload" THEN WorkloadClauses ELSE BrokerClauses

RuleNames == {"URI", "Scheme", "UnixNoAuthority", "UnixAbsolutePath",
              "UnixNoOtherComponents", "TCPHost", "TCPPort",
              "TCPNoOtherComponents", "TCPLocalHost"}

\* The rules an endpoint has a clause for.
RulesOf(cmd) == IF cmd = "workload" THEN RuleNames ELSE RuleNames \ {"TCPLocalHost"}

\* What scc writes about a rule when it writes the truth.
LineOf(u, cmd, rule) == Verdict(ClausesOf(cmd)[rule], Keeps(u, cmd, rule), "")

---------------------------------------------------------------------------
(* The two tables of clauses.                                              *)

LEMMA TableFacts ==
  ASSUME NEW cmd \in Cmd, NEW rule \in RulesOf(cmd)
  PROVE  /\ ClausesOf(cmd)[rule] \in Clause
         /\ ClausesOf(cmd)[rule] \in IF cmd = "workload" THEN WorkloadEndpointClauses
                                     ELSE BrokerEndpointClauses
         /\ Severity(ClausesOf(cmd)[rule]) = "SHOULD" <=> rule = "TCPLocalHost"
  <1>1. ClausesOf(cmd)[rule] \in IF cmd = "workload" THEN WorkloadEndpointClauses
                                     ELSE BrokerEndpointClauses
    BY DEF Cmd, RulesOf, RuleNames, ClausesOf, WorkloadClauses, BrokerClauses,
           WorkloadEndpointClauses, BrokerEndpointClauses
  <1>2. ClausesOf(cmd)[rule] \in Clause
    BY <1>1 DEF Clause
  <1>3. ClausesOf(cmd)[rule] \in ShouldClauses <=> rule = "TCPLocalHost"
    BY DEF Cmd, RulesOf, RuleNames, ClausesOf, WorkloadClauses, BrokerClauses,
           ShouldClauses
  <1> QED
    BY <1>1, <1>2, <1>3 DEF Severity

LEMMA TableInjective ==
  ASSUME NEW cmd \in Cmd, NEW r1 \in RulesOf(cmd), NEW r2 \in RulesOf(cmd),
         ClausesOf(cmd)[r1] = ClausesOf(cmd)[r2]
  PROVE  r1 = r2
  BY DEF Cmd, RulesOf, RuleNames, ClausesOf, WorkloadClauses, BrokerClauses

LEMMA RulesHaveClauses ==
  ASSUME NEW cmd \in Cmd, NEW u
  PROVE  Rules(u, cmd) \subseteq RulesOf(cmd)
  BY DEF Cmd, Rules, RulesOf, RuleNames

---------------------------------------------------------------------------
(* The checks, one by one: each writes the true line for its rule.         *)

LEMMA AddressFacts ==
  ASSUME NEW u \in Address
  PROVE  /\ u.host = None \/ u.host \in UrlHost
         /\ u.port = None \/ u.port \in Nat
         /\ u.opaque => ~u.user /\ u.host = None /\ ~u.colon /\ u.port = None /\ ~u.path
         /\ u.query \in {"none", "empty", "set"} /\ u.fragment \in {"none", "empty", "set"}
         /\ u.parses \in BOOLEAN /\ u.clean \in BOOLEAN /\ u.user \in BOOLEAN
         /\ u.colon \in BOOLEAN /\ u.path \in BOOLEAN /\ u.opaque \in BOOLEAN
  BY DEF Address

LEMMA HostFacts ==
  ASSUME NEW h \in UrlHost
  PROVE  /\ h.addr \in {"v4", "v6", "none"} /\ h.bracket \in BOOLEAN
         /\ h.percent \in BOOLEAN /\ h.zone \in BOOLEAN /\ h.long \in BOOLEAN
         /\ h.labels \in Seq({"name", "digits", "empty", "hyphen", "long", "symbol"})
         /\ Len(h.labels) \in Nat \ {0} /\ DOMAIN h.labels = 1..Len(h.labels)
         /\ h.addr = "v4" => ~h.zone
  BY DEF UrlHost

\* isAddress and the RFC agree on how an address is written.
LEMMA AddressIsIPHost ==
  ASSUME NEW h \in UrlHost
  PROVE  IsAddress(h) <=> IsIPHost(h)
  BY HostFacts DEF IsAddress, IsIPHost

LEMMA HostOKIsIP ==
  ASSUME NEW u \in Address
  PROVE  HostOK(u) <=> u.host # None /\ IsIPHost(u.host)
  BY AddressFacts, AddressIsIPHost, Zenon DEF HostOK

\* The labels that count, and how many of them there are.
LEMMA LabelFacts ==
  ASSUME NEW S, NEW l \in Seq(S), l # << >>
  PROVE  LET w == WithoutTrailingDot(l)
         IN  /\ Len(l) > 1 /\ l[Len(l)] = "empty" =>
                  /\ w \in Seq(S) /\ Len(w) = Len(l) - 1
                  /\ \A i \in 1..(Len(l) - 1) : w[i] = l[i]
             /\ ~(Len(l) > 1 /\ l[Len(l)] = "empty") => w = l
  <1>1. /\ Len(l) > 1 => /\ Front(l) \in Seq(S) /\ Len(Front(l)) = Len(l) - 1
                         /\ \A i \in 1..(Len(l) - 1) : Front(l)[i] = l[i]
        /\ Last(l) = l[Len(l)]
    BY DEF Front, Last
  <1> QED
    BY <1>1, Zenon DEF WithoutTrailingDot

\* isDNSName and RFC 1123 agree on what a host name is.
LEMMA NameIsHostName ==
  ASSUME NEW h \in UrlHost
  PROVE  IsDNSName(h) <=> ~h.long /\ IsHostName(h.labels)
  <1>1. PICK l : l = h.labels
    OBVIOUS
  <1>2. /\ l \in Seq({"name", "digits", "empty", "hyphen", "long", "symbol"})
        /\ l # << >> /\ DOMAIN l = 1..Len(l) /\ Len(l) \in Nat /\ Len(l) >= 1
    BY <1>1, HostFacts
  <1>3. PICK k \in Nat : k = Len(l) /\ k >= 1
    BY <1>2
  <1>4. PICK w : w = WithoutTrailingDot(l)
    OBVIOUS
  \* m labels count, and they are those of w.
  <1>5. ASSUME NEW m \in Nat, m # 0, Len(w) = m, DOMAIN w = 1..m,
               \A i \in 1..m : w[i] = l[i]
        PROVE  IsDNSName(h) <=> /\ ~h.long
                                /\ \A i \in 1..m : l[i] \in {"name", "digits"}
                                /\ l[m] = "name"
    <2>1. Last(w) = l[m] /\ m \in 1..m
      BY <1>5 DEF Last
    <2>2. ToSet(w) \subseteq {"name", "digits"} <=> \A i \in 1..m : l[i] \in {"name", "digits"}
      BY <1>5 DEF ToSet
    <2> QED
      BY <1>1, <1>4, <2>1, <2>2 DEF IsDNSName
  <1>6. CASE l[k] # "empty"
    <2>1. w = l
      BY <1>2, <1>3, <1>4, <1>6, LabelFacts
    <2>2. \A n \in 1..k : (l[k] # "empty" => n = k) <=> n = k
      BY <1>6
    <2>3. IsHostName(l) <=> (\A i \in 1..k : l[i] \in {"name", "digits"}) /\ l[k] = "name"
      BY <1>2, <1>3, <1>6 DEF IsHostName
    <2> QED
      BY <1>1, <1>2, <1>3, <1>5, <2>1, <2>3
  <1>7. CASE l[k] = "empty" /\ k = 1
    <2>1. w = l /\ "empty" \in ToSet(w)
      BY <1>2, <1>3, <1>4, <1>7, LabelFacts DEF ToSet
    <2>2. ~IsHostName(l)
      BY <1>2, <1>3, <1>7 DEF IsHostName
    <2> QED
      BY <1>1, <1>4, <2>1, <2>2 DEF IsDNSName
  <1>8. CASE l[k] = "empty" /\ k > 1
    <2>1. k - 1 \in Nat /\ k - 1 # 0 /\ k - 1 \in 1..k
      BY <1>8
    <2>2. Len(w) = k - 1 /\ DOMAIN w = 1..(k - 1) /\ \A i \in 1..(k - 1) : w[i] = l[i]
      <3>1. Len(l) > 1 /\ l[Len(l)] = "empty"
        BY <1>3, <1>8
      <3>2. /\ w \in Seq({"name", "digits", "empty", "hyphen", "long", "symbol"})
            /\ Len(w) = Len(l) - 1
            /\ \A i \in 1..(Len(l) - 1) : w[i] = l[i]
        BY <1>2, <1>4, <3>1, LabelFacts
      <3> QED
        BY <1>3, <3>2
    <2>3. IsHostName(l) <=> /\ \A i \in 1..(k - 1) : l[i] \in {"name", "digits"}
                            /\ l[k - 1] = "name"
      BY <1>2, <1>3, <1>8, <2>1 DEF IsHostName
    <2> QED
      BY <1>1, <1>5, <2>1, <2>2, <2>3
  <1> QED
    BY <1>3, <1>6, <1>7, <1>8

LEMMA PortIsExact ==
  ASSUME NEW u \in Address
  PROVE  ~u.opaque /\ u.port # None /\ u.port \in 1..(2^PortBits - 1)
           <=> u.port # None /\ u.port > 0 /\ u.port < 2^PortBits
  <1>1. 2^PortBits \in Int
    BY PortAssumption
  <1> QED
    BY <1>1, AddressFacts

LEMMA CheckLines ==
  ASSUME NEW u \in Address, NEW cmd \in Cmd
  PROVE  LET c == ClausesOf(cmd)
             Line(rule) == << LineOf(u, cmd, rule) >>
         IN  /\ CheckURI(u, c) = Line("URI")
             /\ CheckSocketScheme(u, c) = Line("Scheme")
             /\ CheckUnixAuthority(u, c) = Line("UnixNoAuthority")
             /\ CheckUnixPath(u, c) = Line("UnixAbsolutePath")
             /\ CheckUnixOther(u, c) = Line("UnixNoOtherComponents")
             /\ CheckTCPHost(u, c) = Line("TCPHost")
             /\ CheckTCPPort(u, c) = Line("TCPPort")
             /\ CheckTCPOther(u, c) = Line("TCPNoOtherComponents")
             /\ CheckTCPLocal(u, c) =
                  IF cmd = "workload" /\ u.host # None /\ IsIPHost(u.host)
                  THEN Line("TCPLocalHost") ELSE << >>
  <1> DEFINE c == ClausesOf(cmd)
  <1>1. ASSUME NEW rule, NEW holds, holds <=> Keeps(u, cmd, rule)
        PROVE  Judge(c[rule], holds, "") = << LineOf(u, cmd, rule) >>
    BY <1>1, JudgeIsVerdict DEF LineOf, Verdict
  <1>2. CheckURI(u, c) = << LineOf(u, cmd, "URI") >>
    <2>1. u.parses /\ u.clean <=> Keeps(u, cmd, "URI")
      BY DEF Keeps
    <2> QED
      BY <1>1, <2>1 DEF CheckURI
  <1>3. CheckSocketScheme(u, c) = << LineOf(u, cmd, "Scheme") >>
    <2>1. u.scheme \in {"unix", "tcp"} <=> Keeps(u, cmd, "Scheme")
      BY DEF Keeps
    <2> QED
      BY <1>1, <2>1 DEF CheckSocketScheme
  <1>4. CheckUnixAuthority(u, c) = << LineOf(u, cmd, "UnixNoAuthority") >>
    <2>1. ~u.user /\ u.host = None /\ ~u.colon <=> Keeps(u, cmd, "UnixNoAuthority")
      BY DEF Keeps
    <2> QED
      BY <1>1, <2>1 DEF CheckUnixAuthority
  <1>5. CheckUnixPath(u, c) = << LineOf(u, cmd, "UnixAbsolutePath") >>
    <2>1. ~u.opaque /\ u.path <=> Keeps(u, cmd, "UnixAbsolutePath")
      BY AddressFacts DEF Keeps
    <2> QED
      BY <1>1, <2>1 DEF CheckUnixPath
  <1>6. OnlyPath(u) <=> ~QueryFragment(u)
    BY DEF OnlyPath, QueryFragment
  <1>7. CheckUnixOther(u, c) = << LineOf(u, cmd, "UnixNoOtherComponents") >>
    <2>1. ~QueryFragment(u) <=> Keeps(u, cmd, "UnixNoOtherComponents")
      BY <1>6 DEF Keeps
    <2> QED
      BY <1>1, <2>1 DEF CheckUnixOther
  <1>8. CheckTCPHost(u, c) = << LineOf(u, cmd, "TCPHost") >>
    <2>1. c.AllowDNSName <=> cmd = "broker"
      BY DEF Cmd, ClausesOf, WorkloadClauses, BrokerClauses
    <2>2. u.opaque => u.host = None
      BY AddressFacts
    <2>3. u.host # None => (IsDNSName(u.host) <=> ~u.host.long /\ IsHostName(u.host.labels))
      BY AddressFacts, NameIsHostName
    <2>4. ~u.opaque /\ u.host # None /\ (HostOK(u) \/ NameAllowed(u, c))
            <=> Keeps(u, cmd, "TCPHost")
      <3>1. Keeps(u, cmd, "TCPHost") <=> TCPHostTruth(u, cmd)
        BY DEF Keeps
      <3> QED
        BY <2>1, <2>2, <2>3, <3>1, HostOKIsIP DEF TCPHostTruth, NameAllowed
    <2> QED
      BY <1>1, <2>4 DEF CheckTCPHost
  <1>9. CheckTCPPort(u, c) = << LineOf(u, cmd, "TCPPort") >>
    <2>1. ~u.opaque /\ u.port # None /\ u.port \in 1..(2^PortBits - 1)
            <=> Keeps(u, cmd, "TCPPort")
      BY PortIsExact DEF Keeps
    <2> QED
      BY <1>1, <2>1 DEF CheckTCPPort
  <1>10. CheckTCPOther(u, c) = << LineOf(u, cmd, "TCPNoOtherComponents") >>
    <2>1. ~u.user /\ ~u.path /\ ~QueryFragment(u) <=> Keeps(u, cmd, "TCPNoOtherComponents")
      BY <1>6 DEF Keeps
    <2> QED
      BY <1>1, <2>1 DEF CheckTCPOther
  <1>11. CheckTCPLocal(u, c) =
           IF cmd = "workload" /\ u.host # None /\ IsIPHost(u.host)
           THEN << LineOf(u, cmd, "TCPLocalHost") >> ELSE << >>
    <2>1. c.TCPLocalHost = None <=> cmd = "broker"
      <3>1. "WETCPLocalHost" \in Clause
        BY DEF Clause, WorkloadEndpointClauses
      <3> QED
        BY <3>1, NoneAssumption DEF Cmd, ClausesOf, WorkloadClauses, BrokerClauses
    <2>2. u.host.net \in {"loopback", "linkLocal"} <=> Keeps(u, cmd, "TCPLocalHost")
      BY DEF Keeps
    <2>3. Judge(c.TCPLocalHost, u.host.net \in {"loopback", "linkLocal"}, "")
            = << LineOf(u, cmd, "TCPLocalHost") >>
      BY <1>1, <2>2
    <2> QED
      BY <2>1, <2>3, HostOKIsIP DEF CheckTCPLocal, Cmd
  <1> QED
    BY <1>2, <1>3, <1>4, <1>5, <1>7, <1>8, <1>9, <1>10, <1>11

---------------------------------------------------------------------------
(* Reports that account for some of the rules: one true line for each.     *)

LinesFor(u, cmd, rules) == {LineOf(u, cmd, rule) : rule \in rules}

TopicFor(cmd, rule) == Topic(ClausesOf(cmd)[rule], NoTag)

TopicsFor(cmd, rules) == {TopicFor(cmd, rule) : rule \in rules}

Accounts(r, u, cmd, rules) ==
    /\ r \in Seq(LinesFor(u, cmd, rules))
    /\ Topics(r) = TopicsFor(cmd, rules)
    /\ NoneTwice(r)

LEMMA LineType ==
  ASSUME NEW u, NEW cmd \in Cmd, NEW rule \in RulesOf(cmd)
  PROVE  LineOf(u, cmd, rule) \in Assertion
  BY TableFacts, TagAssumption, VerdictType DEF LineOf

LEMMA LineTopic ==
  ASSUME NEW u, NEW cmd, NEW rule
  PROVE  /\ LineOf(u, cmd, rule).clause = ClausesOf(cmd)[rule]
         /\ LineOf(u, cmd, rule).about = NoTag
         /\ TopicOf(LineOf(u, cmd, rule)) = TopicFor(cmd, rule)
  BY DEF LineOf, Verdict, TopicOf, TopicFor, NoTag

LEMMA LineStatus ==
  ASSUME NEW u, NEW cmd \in Cmd, NEW rule \in RulesOf(cmd)
  PROVE  /\ LineOf(u, cmd, rule).status = "pass" <=> Keeps(u, cmd, rule)
         /\ LineOf(u, cmd, rule).status = "fail"
              <=> ~Keeps(u, cmd, rule) /\ rule # "TCPLocalHost"
  BY TableFacts DEF LineOf, Verdict

LEMMA TopicForInjective ==
  ASSUME NEW cmd \in Cmd, NEW r1 \in RulesOf(cmd), NEW r2 \in RulesOf(cmd),
         TopicFor(cmd, r1) = TopicFor(cmd, r2)
  PROVE  r1 = r2
  <1>1. ClausesOf(cmd)[r1] = ClausesOf(cmd)[r2]
    BY TopicInjective DEF TopicFor
  <1> QED
    BY <1>1, TableInjective

LEMMA TopicsForFacts ==
  ASSUME NEW cmd \in Cmd, NEW R1 \in SUBSET RulesOf(cmd), NEW R2 \in SUBSET RulesOf(cmd)
  PROVE  /\ TopicsFor(cmd, R1 \cup R2) = TopicsFor(cmd, R1) \cup TopicsFor(cmd, R2)
         /\ R1 \cap R2 = {} => TopicsFor(cmd, R1) \cap TopicsFor(cmd, R2) = {}
  <1>1. \A r1, r2 \in RulesOf(cmd) :
          TopicFor(cmd, r1) = TopicFor(cmd, r2) => r1 = r2
    BY TopicForInjective
  <1> QED
    BY <1>1 DEF TopicsFor

LEMMA AccountsForBoth ==
  ASSUME NEW u, NEW cmd \in Cmd,
         NEW R1 \in SUBSET RulesOf(cmd), NEW R2 \in SUBSET RulesOf(cmd),
         R1 \cap R2 = {}, NEW s, NEW t,
         Accounts(s, u, cmd, R1), Accounts(t, u, cmd, R2)
  PROVE  Accounts(s \o t, u, cmd, R1 \cup R2)
  <1> DEFINE L == LinesFor(u, cmd, R1 \cup R2)
  <1>1. LinesFor(u, cmd, R1) \subseteq L /\ LinesFor(u, cmd, R2) \subseteq L
    BY DEF LinesFor
  <1> HIDE DEF L
  <1>2. /\ s \in Seq(LinesFor(u, cmd, R1)) /\ t \in Seq(LinesFor(u, cmd, R2))
        /\ Topics(s) = TopicsFor(cmd, R1) /\ Topics(t) = TopicsFor(cmd, R2)
        /\ NoneTwice(s) /\ NoneTwice(t)
    BY Zenon DEF Accounts
  <1>3. s \in Seq(L) /\ t \in Seq(L)
    BY <1>1, <1>2
  <1>4. s \o t \in Seq(L)
    BY <1>3, LinesOfBoth
  <1>5. /\ TopicsFor(cmd, R1 \cup R2) = TopicsFor(cmd, R1) \cup TopicsFor(cmd, R2)
        /\ TopicsFor(cmd, R1) \cap TopicsFor(cmd, R2) = {}
    BY TopicsForFacts
  <1>6. Topics(s \o t) = TopicsFor(cmd, R1 \cup R2)
    <2>1. Topics(s \o t) = Topics(s) \cup Topics(t)
      BY <1>3, TopicsOfBoth
    <2> QED
      BY <1>2, <1>5, <2>1
  <1>7. NoneTwice(s \o t)
    <2>1. Topics(s) \cap Topics(t) = {}
      BY <1>2, <1>5, Zenon
    <2> QED
      BY <1>2, <1>3, <2>1, NoneTwiceInBoth, Zenon
  <1> QED
    BY <1>4, <1>6, <1>7, Zenon DEF Accounts, L

LEMMA AccountsForOne ==
  ASSUME NEW u, NEW cmd \in Cmd, NEW rule \in RulesOf(cmd)
  PROVE  Accounts(<< LineOf(u, cmd, rule) >>, u, cmd, {rule})
  <1>1. << LineOf(u, cmd, rule) >> \in Seq(LinesFor(u, cmd, {rule}))
    BY Singleton DEF LinesFor
  <1>2. Topics(<< LineOf(u, cmd, rule) >>) = TopicsFor(cmd, {rule})
    <2>1. TopicOf(LineOf(u, cmd, rule)) = TopicFor(cmd, rule)
      BY LineTopic
    <2> QED
      BY <2>1, OneLine DEF TopicsFor
  <1> QED
    BY <1>1, <1>2, OneLine DEF Accounts

LEMMA AccountsForNone ==
  ASSUME NEW u, NEW cmd
  PROVE  Accounts(<< >>, u, cmd, {})
  BY NoLine DEF Accounts, LinesFor, TopicsFor

\* What such a report says: its lines are assertions,
LEMMA AccountsType ==
  ASSUME NEW u, NEW cmd \in Cmd, NEW rules \in SUBSET RulesOf(cmd), NEW r,
         Accounts(r, u, cmd, rules)
  PROVE  r \in Seq(Assertion)
  <1>1. ASSUME NEW rule \in rules
        PROVE  LineOf(u, cmd, rule) \in Assertion
    <2>1. rule \in RulesOf(cmd)
      OBVIOUS
    <2> QED
      BY <2>1, LineType
  <1>2. LinesFor(u, cmd, rules) \subseteq Assertion
    BY <1>1 DEF LinesFor
  <1> QED
    BY <1>2 DEF Accounts

\* each of them a true one for one of the rules,
LEMMA AccountsTrue ==
  ASSUME NEW u, NEW cmd \in Cmd, NEW rules \in SUBSET RulesOf(cmd), NEW r,
         Accounts(r, u, cmd, rules)
  PROVE  \A i \in DOMAIN r : \E rule \in rules : r[i] = LineOf(u, cmd, rule)
  <1>1. \A i \in DOMAIN r : r[i] \in LinesFor(u, cmd, rules)
    BY DEF Accounts
  <1> QED
    BY <1>1 DEF LinesFor

\* and each rule has one.
LEMMA AccountsComplete ==
  ASSUME NEW u, NEW cmd \in Cmd, NEW rules \in SUBSET RulesOf(cmd), NEW r,
         Accounts(r, u, cmd, rules)
  PROVE  \A rule \in rules : \E i \in DOMAIN r :
           /\ r[i] = LineOf(u, cmd, rule)
           /\ \A j \in DOMAIN r : r[j].clause = ClausesOf(cmd)[rule] <=> j = i
  <1> SUFFICES ASSUME NEW rule \in rules
               PROVE  \E i \in DOMAIN r :
                        /\ r[i] = LineOf(u, cmd, rule)
                        /\ \A j \in DOMAIN r : r[j].clause = ClausesOf(cmd)[rule] <=> j = i
    OBVIOUS
  <1>1. PICK i \in DOMAIN r : TopicOf(r[i]) = TopicFor(cmd, rule)
    BY DEF Accounts, TopicsFor, Topics
  <1>2. PICK other \in rules : r[i] = LineOf(u, cmd, other)
    BY AccountsTrue
  <1>3. other = rule
    <2>1. other \in RulesOf(cmd) /\ rule \in RulesOf(cmd)
      BY <1>2
    <2>2. TopicOf(r[i]) = TopicFor(cmd, other)
      BY <1>2, LineTopic
    <2> QED
      BY <1>1, <2>1, <2>2, TopicForInjective
  <1>4. ASSUME NEW j \in DOMAIN r, r[j].clause = ClausesOf(cmd)[rule]
        PROVE  j = i
    <2>1. r[j].about = NoTag
      <3>1. PICK that \in rules : r[j] = LineOf(u, cmd, that)
        BY AccountsTrue
      <3> QED
        BY <3>1, LineTopic
    <2>2. TopicOf(r[j]) = TopicFor(cmd, rule)
      BY <1>4, <2>1 DEF TopicOf, TopicFor
    <2> QED
      BY <1>1, <2>2 DEF Accounts, NoneTwice
  <1>5. r[i].clause = ClausesOf(cmd)[rule]
    BY <1>2, <1>3, LineTopic
  <1> QED
    BY <1>2, <1>3, <1>4, <1>5

\* It fails when a rule other than locality is not kept.
LEMMA AccountsVerdict ==
  ASSUME NEW u, NEW cmd \in Cmd, NEW rules \in SUBSET RulesOf(cmd), NEW r,
         Accounts(r, u, cmd, rules)
  PROVE  Failed(r) <=> \E rule \in rules \ {"TCPLocalHost"} : ~Keeps(u, cmd, rule)
  <1>1. ASSUME NEW rule \in rules
        PROVE  LineOf(u, cmd, rule).status = "fail"
                 <=> ~Keeps(u, cmd, rule) /\ rule # "TCPLocalHost"
    <2>1. rule \in RulesOf(cmd)
      OBVIOUS
    <2> QED
      BY <2>1, LineStatus
  <1>2. ASSUME NEW i \in DOMAIN r, r[i].status = "fail"
        PROVE  \E rule \in rules \ {"TCPLocalHost"} : ~Keeps(u, cmd, rule)
    <2>1. PICK rule \in rules : r[i] = LineOf(u, cmd, rule)
      BY AccountsTrue
    <2> QED
      BY <1>1, <1>2, <2>1
  <1>3. ASSUME NEW rule \in rules \ {"TCPLocalHost"}, ~Keeps(u, cmd, rule)
        PROVE  \E i \in DOMAIN r : r[i].status = "fail"
    <2>1. PICK i \in DOMAIN r : r[i] = LineOf(u, cmd, rule)
      BY AccountsComplete
    <2> QED
      BY <1>1, <1>3, <2>1
  <1> QED
    BY <1>2, <1>3 DEF Failed

---------------------------------------------------------------------------
(* The inductive invariant.  What TypeOK and the others leave out is how   *)
(* far the sweep has come: which rules have their line at each point.      *)

\* The rules that have their line when the command stands before step `at`.
Checked(u, cmd, at) ==
    CASE at \in {"args", "uri"} -> {}
      [] at = "scheme" -> {"URI"}
      [] at \in {"unixAuthority", "tcpHost"} -> {"URI", "Scheme"}
      [] at = "unixPath" -> {"URI", "Scheme", "UnixNoAuthority"}
      [] at = "unixOther" -> {"URI", "Scheme", "UnixNoAuthority", "UnixAbsolutePath"}
      [] at = "tcpPort" -> {"URI", "Scheme", "TCPHost"}
      [] at = "tcpOther" -> {"URI", "Scheme", "TCPHost", "TCPPort"}
      [] at = "tcpLocal" -> {"URI", "Scheme", "TCPHost", "TCPPort", "TCPNoOtherComponents"}
      [] at \in {"emit", "done"} -> Rules(u, cmd)

Steps == {"args", "uri", "scheme", "unixAuthority", "unixPath", "unixOther",
          "tcpHost", "tcpPort", "tcpOther", "tcpLocal", "emit", "done"}

\* The branches of the sweep and the addresses that take them.
OnPath(u, at) ==
    /\ at \in {"scheme", "unixAuthority", "unixPath", "unixOther",
               "tcpHost", "tcpPort", "tcpOther", "tcpLocal"} => u.parses
    /\ at \in {"unixAuthority", "unixPath", "unixOther"} => u.scheme = "unix"
    /\ at \in {"tcpHost", "tcpPort", "tcpOther", "tcpLocal"} => u.scheme = "tcp"

\* Before an address is found, and when there is none.
NoValue ==
    /\ value = None
    /\ report = << >>
    /\ \/ pc = "args" /\ exit = -1
       \/ pc = "done" /\ exit = 2 /\ ~Judged

\* From the moment it is found.
HasValue ==
    /\ value = Given /\ value \in Address
    /\ Judged
    /\ pc # "args"
    /\ OnPath(value, pc)
    /\ Accounts(report, value, inv.cmd, Checked(value, inv.cmd, pc))
    /\ exit = IF pc = "done" THEN EmitOf(report, inv.format, inv.writable) ELSE -1

IInv ==
    /\ inv \in Invocations
    /\ pc \in Steps
    /\ NoValue \/ HasValue

LEMMA CheckedFacts ==
  ASSUME NEW u, NEW cmd
  PROVE  /\ Checked(u, cmd, "uri") = {}
         /\ Checked(u, cmd, "scheme") = {"URI"}
         /\ Checked(u, cmd, "unixAuthority") = {"URI", "Scheme"}
         /\ Checked(u, cmd, "unixPath") = {"URI", "Scheme", "UnixNoAuthority"}
         /\ Checked(u, cmd, "unixOther")
              = {"URI", "Scheme", "UnixNoAuthority", "UnixAbsolutePath"}
         /\ Checked(u, cmd, "tcpHost") = {"URI", "Scheme"}
         /\ Checked(u, cmd, "tcpPort") = {"URI", "Scheme", "TCPHost"}
         /\ Checked(u, cmd, "tcpOther") = {"URI", "Scheme", "TCPHost", "TCPPort"}
         /\ Checked(u, cmd, "tcpLocal")
              = {"URI", "Scheme", "TCPHost", "TCPPort", "TCPNoOtherComponents"}
         /\ Checked(u, cmd, "emit") = Rules(u, cmd)
         /\ Checked(u, cmd, "done") = Rules(u, cmd)
  BY DEF Checked

LEMMA RulesFacts ==
  ASSUME NEW u, NEW cmd
  PROVE  /\ ~u.parses => Rules(u, cmd) = {"URI"}
         /\ u.parses /\ u.scheme \notin {"unix", "tcp"} => Rules(u, cmd) = {"URI", "Scheme"}
         /\ u.parses /\ u.scheme = "unix" =>
              Rules(u, cmd) = {"URI", "Scheme", "UnixNoAuthority", "UnixAbsolutePath",
                               "UnixNoOtherComponents"}
         /\ u.parses /\ u.scheme = "tcp" =>
              Rules(u, cmd) = {"URI", "Scheme", "TCPHost", "TCPPort", "TCPNoOtherComponents"}
                \cup IF cmd = "workload" /\ u.host # None /\ IsIPHost(u.host)
                     THEN {"TCPLocalHost"} ELSE {}
  BY DEF Rules

\* A check that writes the line of a rule that has none yet.
LEMMA OneMore ==
  ASSUME NEW u, NEW cmd \in Cmd, NEW rules \in SUBSET RulesOf(cmd),
         NEW rule \in RulesOf(cmd) \ rules, NEW r, Accounts(r, u, cmd, rules)
  PROVE  Accounts(r \o << LineOf(u, cmd, rule) >>, u, cmd, rules \cup {rule})
  <1>1. Accounts(<< LineOf(u, cmd, rule) >>, u, cmd, {rule})
    BY AccountsForOne
  <1>2. {rule} \in SUBSET RulesOf(cmd) /\ rules \cap {rule} = {}
    OBVIOUS
  <1> QED
    BY <1>1, <1>2, AccountsForBoth

LEMMA InvocationFacts ==
  ASSUME inv \in Invocations
  PROVE  /\ inv.cmd \in Cmd
         /\ inv.args \in Seq(Address)
         /\ inv.env \in Address \cup {None}
         /\ C = ClausesOf(inv.cmd)
  BY InvocationAssumption DEF Cmd, C, ClausesOf

\* One check of the sweep, whatever it is.
LEMMA CheckStep ==
  ASSUME inv \in Invocations, HasValue,
         NEW from, NEW to \in Steps \ {"args", "done"}, NEW lines,
         from # "done", Check(from, to, lines), OnPath(value, to),
         Accounts(report \o lines, value, inv.cmd, Checked(value, inv.cmd, to))
  PROVE  IInv'
  <1>1. /\ inv' = inv /\ value' = value /\ exit' = exit /\ exit = -1
        /\ pc' = to /\ report' = report \o lines
    BY DEF Check, HasValue
  <1>2. Given' = Given /\ (Judged' <=> Judged)
    BY <1>1 DEF Given, Judged
  <1>3. value' = Given' /\ value' \in Address /\ Judged' /\ pc' # "args" /\ exit' = -1
    BY <1>1, <1>2 DEF HasValue
  <1>4. OnPath(value', pc')
    BY <1>1
  <1>5. Accounts(report', value', inv'.cmd, Checked(value', inv'.cmd, pc'))
    BY <1>1
  <1>6. pc' # "done" /\ pc' \in Steps /\ inv' \in Invocations
    BY <1>1
  <1> QED
    BY <1>3, <1>4, <1>5, <1>6, Zenon DEF IInv, HasValue

LEMMA InitIInv == Init => IInv
  BY DEF Init, IInv, NoValue, Steps

\* The checks in the order of the source, each with the line it writes.
LEMMA SweepLines ==
  ASSUME inv \in Invocations, value \in Address
  PROVE  /\ CheckURI(value, C) = << LineOf(value, inv.cmd, "URI") >>
         /\ CheckSocketScheme(value, C) = << LineOf(value, inv.cmd, "Scheme") >>
         /\ CheckUnixAuthority(value, C) = << LineOf(value, inv.cmd, "UnixNoAuthority") >>
         /\ CheckUnixPath(value, C) = << LineOf(value, inv.cmd, "UnixAbsolutePath") >>
         /\ CheckUnixOther(value, C) = << LineOf(value, inv.cmd, "UnixNoOtherComponents") >>
         /\ CheckTCPHost(value, C) = << LineOf(value, inv.cmd, "TCPHost") >>
         /\ CheckTCPPort(value, C) = << LineOf(value, inv.cmd, "TCPPort") >>
         /\ CheckTCPOther(value, C) = << LineOf(value, inv.cmd, "TCPNoOtherComponents") >>
         /\ CheckTCPLocal(value, C) =
              IF inv.cmd = "workload" /\ value.host # None /\ IsIPHost(value.host)
              THEN << LineOf(value, inv.cmd, "TCPLocalHost") >> ELSE << >>
  <1>1. inv.cmd \in Cmd /\ C = ClausesOf(inv.cmd)
    BY InvocationFacts
  <1> QED
    BY <1>1, CheckLines, Zenon

LEMMA NextIInv == IInv /\ [Next]_vars => IInv'
  <1> SUFFICES ASSUME IInv, [Next]_vars
               PROVE  IInv'
    OBVIOUS
  <1>1. inv \in Invocations /\ pc \in Steps
    BY DEF IInv
  <1>2. inv.cmd \in Cmd
    BY <1>1, InvocationFacts
  <1>3. ASSUME pc \notin {"args", "done"}
        PROVE  HasValue
    BY <1>3 DEF IInv, NoValue
  \* One line more, for a rule that has none.
  <1>4. ASSUME NEW from, NEW to \in Steps \ {"args", "done"}, NEW rule \in RuleNames,
               from \notin {"args", "done"},
               Check(from, to, << LineOf(value, inv.cmd, rule) >>),
               OnPath(value, to), rule \in RulesOf(inv.cmd),
               rule \notin Checked(value, inv.cmd, from),
               Checked(value, inv.cmd, from) \subseteq RulesOf(inv.cmd),
               Checked(value, inv.cmd, to) = Checked(value, inv.cmd, from) \cup {rule}
        PROVE  IInv'
    <2>1. pc = from
      BY <1>4 DEF Check
    <2>2. HasValue
      BY <1>3, <1>4, <2>1
    <2>3. Accounts(report, value, inv.cmd, Checked(value, inv.cmd, from))
      BY <2>1, <2>2 DEF HasValue
    <2>4. Accounts(report \o << LineOf(value, inv.cmd, rule) >>, value, inv.cmd,
                   Checked(value, inv.cmd, to))
      BY <1>2, <1>4, <2>3, OneMore
    <2> QED
      BY <1>1, <1>4, <2>2, <2>4, CheckStep
  <1>5. ASSUME pc = "args"
        PROVE  NoValue
    BY <1>5 DEF IInv, HasValue
  <1>6. ASSUME NEW v, v = Given, v \in Address, Judged, Take(v)
        PROVE  IInv'
    <2>1. /\ inv' = inv /\ value' = v /\ report' = << >> /\ exit' = -1 /\ pc' = "uri"
      BY <1>5, <1>6 DEF Take, NoValue
    <2>2. value' = Given' /\ value' \in Address /\ Judged'
      BY <1>6, <2>1 DEF Given, Judged
    <2>3. OnPath(value', pc') /\ pc' \in Steps /\ pc' \notin {"args", "done"}
      BY <2>1 DEF OnPath, Steps
    <2>4. Accounts(report', value', inv'.cmd, Checked(value', inv'.cmd, pc'))
      <3>1. Checked(value', inv'.cmd, pc') = {} /\ report' = << >>
        BY <2>1, CheckedFacts
      <3> QED
        BY <3>1, AccountsForNone, Zenon
    <2> QED
      BY <1>1, <2>1, <2>2, <2>3, <2>4, Zenon DEF IInv, HasValue
  <1>7. CASE UsageError
    <2>1. NoValue /\ ~Judged
      BY <1>5, <1>7 DEF UsageError, Quit, Judged
    <2>2. /\ inv' = inv /\ value' = value /\ report' = report /\ exit' = 2 /\ pc' = "done"
      BY <1>7 DEF UsageError, Quit
    <2> QED
      BY <1>1, <2>1, <2>2 DEF IInv, NoValue, Judged, Given, Steps
  <1>8. CASE NoAddress
    <2>1. NoValue /\ ~Judged
      BY <1>5, <1>8 DEF NoAddress, Quit, Judged, Given, EnvSet
    <2>2. /\ inv' = inv /\ value' = value /\ report' = report /\ exit' = 2 /\ pc' = "done"
      BY <1>8 DEF NoAddress, Quit
    <2> QED
      BY <1>1, <2>1, <2>2 DEF IInv, NoValue, Judged, Given, Steps
  <1>9. CASE FromArgument
    <2>1. /\ inv.args[1] = Given /\ inv.args[1] \in Address
          /\ inv.parses /\ Len(inv.args) <= 1
      BY <1>1, <1>9, InvocationFacts DEF FromArgument, Given
    <2>2. Judged /\ Take(inv.args[1])
      BY <1>9, <2>1, NoneAssumption DEF FromArgument, Judged
    <2> QED
      BY <1>6, <2>1, <2>2
  <1>10. CASE FromEnvironment
    <2>1. inv.env = Given /\ inv.env \in Address /\ inv.parses /\ Len(inv.args) <= 1
      BY <1>1, <1>10, InvocationFacts DEF FromEnvironment, EnvSet, Given
    <2>2. Judged /\ Take(inv.env)
      BY <1>10, <2>1, NoneAssumption DEF FromEnvironment, Judged
    <2> QED
      BY <1>6, <2>1, <2>2
  <1>11. ASSUME pc \notin {"args", "done"}
         PROVE  value \in Address /\ OnPath(value, pc)
    BY <1>3, <1>11 DEF HasValue
  <1>12. RuleNames \ {"TCPLocalHost"} \subseteq RulesOf(inv.cmd)
    BY DEF RulesOf
  <1>13. CASE URI
    <2>1. pc = "uri" /\ value \in Address
      BY <1>11, <1>13 DEF URI, Check
    <2>2. CheckURI(value, C) = << LineOf(value, inv.cmd, "URI") >>
      BY <1>1, <2>1, SweepLines
    <2>3. "URI" \in RulesOf(inv.cmd) /\ "URI" \in RuleNames
      BY <1>12 DEF RuleNames
    <2>4. PICK to \in {"scheme", "emit"} : to = IF value.parses THEN "scheme" ELSE "emit"
      OBVIOUS
    <2>5. Check("uri", to, << LineOf(value, inv.cmd, "URI") >>)
      BY <1>13, <2>2, <2>4 DEF URI
    <2>6. OnPath(value, to) /\ to \in Steps \ {"args", "done"}
      BY <2>4 DEF OnPath, Steps
    <2>7. /\ Checked(value, inv.cmd, "uri") = {}
          /\ Checked(value, inv.cmd, to) = {"URI"}
      BY <2>4, CheckedFacts, RulesFacts
    <2> QED
      BY <1>4, <2>3, <2>5, <2>6, <2>7
  <1>14. CASE Scheme
    <2>1. pc = "scheme" /\ value \in Address /\ value.parses
      BY <1>11, <1>14 DEF Scheme, Check, OnPath
    <2>2. CheckSocketScheme(value, C) = << LineOf(value, inv.cmd, "Scheme") >>
      BY <1>1, <2>1, SweepLines
    <2>3. {"URI", "Scheme"} \subseteq RulesOf(inv.cmd) /\ "Scheme" \in RuleNames
      BY <1>12 DEF RuleNames
    <2>4. PICK to : to = CASE value.scheme = "unix" -> "unixAuthority"
                           [] value.scheme = "tcp" -> "tcpHost"
                           [] OTHER -> "emit"
      OBVIOUS
    <2>5. /\ value.scheme = "unix" => to = "unixAuthority"
          /\ value.scheme = "tcp" => to = "tcpHost"
          /\ value.scheme \notin {"unix", "tcp"} => to = "emit"
      BY <2>4
    <2>6. Check("scheme", to, << LineOf(value, inv.cmd, "Scheme") >>)
      BY <1>14, <2>2, <2>4 DEF Scheme
    <2>7. OnPath(value, to) /\ to \in Steps \ {"args", "done"}
      BY <2>1, <2>5 DEF OnPath, Steps
    <2>8. /\ Checked(value, inv.cmd, "scheme") = {"URI"}
          /\ Checked(value, inv.cmd, to) = {"URI", "Scheme"}
      BY <2>1, <2>5, CheckedFacts, RulesFacts
    <2> QED
      BY <1>4, <2>3, <2>6, <2>7, <2>8
  <1>15. CASE UnixAuthority
    <2>1. pc = "unixAuthority" /\ value \in Address /\ value.parses /\ value.scheme = "unix"
      BY <1>11, <1>15 DEF UnixAuthority, Check, OnPath
    <2>2. Check("unixAuthority", "unixPath", << LineOf(value, inv.cmd, "UnixNoAuthority") >>)
      BY <1>1, <1>15, <2>1, SweepLines DEF UnixAuthority
    <2>3. /\ "UnixNoAuthority" \in RulesOf(inv.cmd) /\ "UnixNoAuthority" \in RuleNames
          /\ Checked(value, inv.cmd, "unixAuthority") \subseteq RulesOf(inv.cmd)
          /\ "UnixNoAuthority" \notin Checked(value, inv.cmd, "unixAuthority")
      BY <1>12, CheckedFacts DEF RuleNames
    <2>4. OnPath(value, "unixPath") /\ "unixPath" \in Steps \ {"args", "done"}
      BY <2>1 DEF OnPath, Steps
    <2>5. Checked(value, inv.cmd, "unixPath")
            = Checked(value, inv.cmd, "unixAuthority") \cup {"UnixNoAuthority"}
      BY <2>1, CheckedFacts
    <2> QED
      BY <1>4, <2>2, <2>3, <2>4, <2>5
  <1>16. CASE UnixPath
    <2>1. pc = "unixPath" /\ value \in Address /\ value.parses /\ value.scheme = "unix"
      BY <1>11, <1>16 DEF UnixPath, Check, OnPath
    <2>2. Check("unixPath", "unixOther", << LineOf(value, inv.cmd, "UnixAbsolutePath") >>)
      BY <1>1, <1>16, <2>1, SweepLines DEF UnixPath
    <2>3. /\ "UnixAbsolutePath" \in RulesOf(inv.cmd) /\ "UnixAbsolutePath" \in RuleNames
          /\ Checked(value, inv.cmd, "unixPath") \subseteq RulesOf(inv.cmd)
          /\ "UnixAbsolutePath" \notin Checked(value, inv.cmd, "unixPath")
      BY <1>12, CheckedFacts DEF RuleNames
    <2>4. OnPath(value, "unixOther") /\ "unixOther" \in Steps \ {"args", "done"}
      BY <2>1 DEF OnPath, Steps
    <2>5. Checked(value, inv.cmd, "unixOther")
            = Checked(value, inv.cmd, "unixPath") \cup {"UnixAbsolutePath"}
      BY <2>1, CheckedFacts
    <2> QED
      BY <1>4, <2>2, <2>3, <2>4, <2>5
  <1>17. CASE UnixOther
    <2>1. pc = "unixOther" /\ value \in Address /\ value.parses /\ value.scheme = "unix"
      BY <1>11, <1>17 DEF UnixOther, Check, OnPath
    <2>2. Check("unixOther", "emit", << LineOf(value, inv.cmd, "UnixNoOtherComponents") >>)
      BY <1>1, <1>17, <2>1, SweepLines DEF UnixOther
    <2>3. /\ "UnixNoOtherComponents" \in RulesOf(inv.cmd)
          /\ "UnixNoOtherComponents" \in RuleNames
          /\ Checked(value, inv.cmd, "unixOther") \subseteq RulesOf(inv.cmd)
          /\ "UnixNoOtherComponents" \notin Checked(value, inv.cmd, "unixOther")
      BY <1>12, CheckedFacts DEF RuleNames
    <2>4. OnPath(value, "emit") /\ "emit" \in Steps \ {"args", "done"}
      BY <2>1 DEF OnPath, Steps
    <2>5. Checked(value, inv.cmd, "emit")
            = Checked(value, inv.cmd, "unixOther") \cup {"UnixNoOtherComponents"}
      BY <2>1, CheckedFacts, RulesFacts
    <2> QED
      BY <1>4, <2>2, <2>3, <2>4, <2>5
  <1>18. CASE TCPHost
    <2>1. pc = "tcpHost" /\ value \in Address /\ value.parses /\ value.scheme = "tcp"
      BY <1>11, <1>18 DEF TCPHost, Check, OnPath
    <2>2. Check("tcpHost", "tcpPort", << LineOf(value, inv.cmd, "TCPHost") >>)
      BY <1>1, <1>18, <2>1, SweepLines DEF TCPHost
    <2>3. /\ "TCPHost" \in RulesOf(inv.cmd) /\ "TCPHost" \in RuleNames
          /\ Checked(value, inv.cmd, "tcpHost") \subseteq RulesOf(inv.cmd)
          /\ "TCPHost" \notin Checked(value, inv.cmd, "tcpHost")
      BY <1>12, CheckedFacts DEF RuleNames
    <2>4. OnPath(value, "tcpPort") /\ "tcpPort" \in Steps \ {"args", "done"}
      BY <2>1 DEF OnPath, Steps
    <2>5. Checked(value, inv.cmd, "tcpPort")
            = Checked(value, inv.cmd, "tcpHost") \cup {"TCPHost"}
      BY <2>1, CheckedFacts
    <2> QED
      BY <1>4, <2>2, <2>3, <2>4, <2>5
  <1>19. CASE TCPPort
    <2>1. pc = "tcpPort" /\ value \in Address /\ value.parses /\ value.scheme = "tcp"
      BY <1>11, <1>19 DEF TCPPort, Check, OnPath
    <2>2. Check("tcpPort", "tcpOther", << LineOf(value, inv.cmd, "TCPPort") >>)
      BY <1>1, <1>19, <2>1, SweepLines DEF TCPPort
    <2>3. /\ "TCPPort" \in RulesOf(inv.cmd) /\ "TCPPort" \in RuleNames
          /\ Checked(value, inv.cmd, "tcpPort") \subseteq RulesOf(inv.cmd)
          /\ "TCPPort" \notin Checked(value, inv.cmd, "tcpPort")
      BY <1>12, CheckedFacts DEF RuleNames
    <2>4. OnPath(value, "tcpOther") /\ "tcpOther" \in Steps \ {"args", "done"}
      BY <2>1 DEF OnPath, Steps
    <2>5. Checked(value, inv.cmd, "tcpOther")
            = Checked(value, inv.cmd, "tcpPort") \cup {"TCPPort"}
      BY <2>1, CheckedFacts
    <2> QED
      BY <1>4, <2>2, <2>3, <2>4, <2>5
  <1>20. CASE TCPOther
    <2>1. pc = "tcpOther" /\ value \in Address /\ value.parses /\ value.scheme = "tcp"
      BY <1>11, <1>20 DEF TCPOther, Check, OnPath
    <2>2. Check("tcpOther", "tcpLocal", << LineOf(value, inv.cmd, "TCPNoOtherComponents") >>)
      BY <1>1, <1>20, <2>1, SweepLines DEF TCPOther
    <2>3. /\ "TCPNoOtherComponents" \in RulesOf(inv.cmd)
          /\ "TCPNoOtherComponents" \in RuleNames
          /\ Checked(value, inv.cmd, "tcpOther") \subseteq RulesOf(inv.cmd)
          /\ "TCPNoOtherComponents" \notin Checked(value, inv.cmd, "tcpOther")
      BY <1>12, CheckedFacts DEF RuleNames
    <2>4. OnPath(value, "tcpLocal") /\ "tcpLocal" \in Steps \ {"args", "done"}
      BY <2>1 DEF OnPath, Steps
    <2>5. Checked(value, inv.cmd, "tcpLocal")
            = Checked(value, inv.cmd, "tcpOther") \cup {"TCPNoOtherComponents"}
      BY <2>1, CheckedFacts
    <2> QED
      BY <1>4, <2>2, <2>3, <2>4, <2>5
  <1>21. CASE TCPLocal
    <2>1. /\ pc = "tcpLocal" /\ value \in Address /\ HasValue
          /\ value.parses /\ value.scheme = "tcp"
      BY <1>3, <1>11, <1>21 DEF TCPLocal, Check, OnPath
    <2>2. Check("tcpLocal", "emit", CheckTCPLocal(value, C))
      BY <1>21 DEF TCPLocal
    <2>3. OnPath(value, "emit") /\ "emit" \in Steps \ {"args", "done"}
      BY DEF OnPath, Steps
    <2>4. /\ Checked(value, inv.cmd, "tcpLocal") \subseteq RulesOf(inv.cmd)
          /\ "TCPLocalHost" \notin Checked(value, inv.cmd, "tcpLocal")
      BY <1>12, CheckedFacts DEF RuleNames
    <2>5. CASE inv.cmd = "workload" /\ value.host # None /\ IsIPHost(value.host)
      <3>1. CheckTCPLocal(value, C) = << LineOf(value, inv.cmd, "TCPLocalHost") >>
        BY <1>1, <2>1, <2>5, SweepLines
      <3>2. "TCPLocalHost" \in RulesOf(inv.cmd) /\ "TCPLocalHost" \in RuleNames
        BY <2>5 DEF RulesOf, RuleNames
      <3>3. Checked(value, inv.cmd, "emit")
              = Checked(value, inv.cmd, "tcpLocal") \cup {"TCPLocalHost"}
        BY <2>1, <2>5, CheckedFacts, RulesFacts
      <3> QED
        BY <1>4, <2>2, <2>3, <2>4, <3>1, <3>2, <3>3
    <2>6. CASE ~(inv.cmd = "workload" /\ value.host # None /\ IsIPHost(value.host))
      <3>1. CheckTCPLocal(value, C) = << >>
        BY <1>1, <2>1, <2>6, SweepLines
      <3>2. Checked(value, inv.cmd, "emit") = Checked(value, inv.cmd, "tcpLocal")
        <4>1. Rules(value, inv.cmd)
                = {"URI", "Scheme", "TCPHost", "TCPPort", "TCPNoOtherComponents"}
          BY <2>1, <2>6, RulesFacts
        <4>2. /\ Checked(value, inv.cmd, "emit") = Rules(value, inv.cmd)
              /\ Checked(value, inv.cmd, "tcpLocal")
                   = {"URI", "Scheme", "TCPHost", "TCPPort", "TCPNoOtherComponents"}
          BY CheckedFacts, Zenon
        <4> QED
          BY <4>1, <4>2, Zenon
      <3>3. Accounts(report, value, inv.cmd, Checked(value, inv.cmd, "tcpLocal"))
        BY <2>1 DEF HasValue
      <3>4. report \o << >> = report
        BY <3>3 DEF Accounts
      <3>5. Accounts(report \o << >>, value, inv.cmd, Checked(value, inv.cmd, "emit"))
        BY <3>2, <3>3, <3>4, Zenon
      <3>6. Check("tcpLocal", "emit", << >>)
        BY <2>2, <3>1
      <3> QED
        BY <1>1, <2>1, <2>3, <3>5, <3>6, CheckStep
    <2> QED
      BY <2>5, <2>6
  <1>22. CASE Emit
    <2>1. pc = "emit" /\ HasValue
      BY <1>3, <1>22 DEF Emit, Quit
    <2>2. /\ inv' = inv /\ value' = value /\ report' = report /\ pc' = "done"
          /\ exit' = EmitOf(report, inv.format, inv.writable)
      BY <1>22 DEF Emit, Quit
    <2>3. Given' = Given /\ (Judged' <=> Judged)
      BY <2>2 DEF Given, Judged
    <2>4. Checked(value', inv'.cmd, pc') = Checked(value, inv.cmd, pc)
      BY <2>1, <2>2, CheckedFacts
    <2>5. Accounts(report', value', inv'.cmd, Checked(value', inv'.cmd, pc'))
      BY <2>1, <2>2, <2>4 DEF HasValue
    <2>6. /\ value' = Given' /\ value' \in Address /\ Judged' /\ pc' # "args"
          /\ pc' \in Steps
          /\ exit' = IF pc' = "done" THEN EmitOf(report', inv'.format, inv'.writable) ELSE -1
      BY <2>1, <2>2, <2>3 DEF HasValue, Steps
    <2>7. OnPath(value', pc')
      BY <2>2 DEF OnPath
    <2> QED
      BY <1>1, <2>2, <2>5, <2>6, <2>7, Zenon DEF IInv, HasValue
  <1>23. CASE UNCHANGED vars
    BY <1>23 DEF vars, IInv, NoValue, HasValue, Judged, Given
  <1> QED
    BY <1>7, <1>8, <1>9, <1>10, <1>13, <1>14, <1>15, <1>16, <1>17, <1>18, <1>19, <1>20,
       <1>21, <1>22, <1>23 DEF Next, Terminated

\* At every step the report holds the lines of exactly the rules the sweep has
\* come to, each with the verdict on the address, whatever failed before it.
THEOREM Inductive == Spec => []IInv
  BY InitIInv, NextIInv, PTL DEF Spec

---------------------------------------------------------------------------
(* What the invariant says of the report and the exit code.                *)

LEMMA CheckedAreRules ==
  ASSUME IInv, HasValue
  PROVE  /\ Checked(value, inv.cmd, pc) \subseteq Rules(value, inv.cmd)
         /\ Rules(value, inv.cmd) \subseteq RulesOf(inv.cmd)
         /\ pc = "done" => Checked(value, inv.cmd, pc) = Rules(value, inv.cmd)
  <1>1. inv \in Invocations /\ pc \in Steps /\ OnPath(value, pc) /\ pc # "args"
    BY DEF IInv, HasValue
  <1>2. Checked(value, inv.cmd, pc) \subseteq Rules(value, inv.cmd)
    <2>1. CASE pc \in {"uri", "scheme", "emit", "done"}
      <3>1. "URI" \in Rules(value, inv.cmd)
        BY DEF Rules
      <3> QED
        BY <2>1, <3>1, CheckedFacts
    <2>2. CASE pc \in {"unixAuthority", "unixPath", "unixOther"}
      <3>1. value.parses /\ value.scheme = "unix"
        BY <1>1, <2>2 DEF OnPath
      <3>2. {"URI", "Scheme", "UnixNoAuthority", "UnixAbsolutePath"} \subseteq Rules(value, inv.cmd)
        BY <3>1, RulesFacts
      <3> QED
        BY <2>2, <3>2, CheckedFacts
    <2>3. CASE pc \in {"tcpHost", "tcpPort", "tcpOther", "tcpLocal"}
      <3>1. value.parses /\ value.scheme = "tcp"
        BY <1>1, <2>3 DEF OnPath
      <3>2. {"URI", "Scheme", "TCPHost", "TCPPort", "TCPNoOtherComponents"}
              \subseteq Rules(value, inv.cmd)
        BY <3>1, RulesFacts
      <3> QED
        BY <2>3, <3>2, CheckedFacts
    <2> QED
      BY <1>1, <2>1, <2>2, <2>3 DEF Steps
  <1>3. Rules(value, inv.cmd) \subseteq RulesOf(inv.cmd)
    BY <1>1, InvocationFacts, RulesHaveClauses
  <1> QED
    BY <1>2, <1>3, CheckedFacts

LEMMA ReportMeaning ==
  ASSUME IInv, HasValue
  PROVE  /\ report \in Seq(Assertion)
         /\ \A i \in DOMAIN report : \E rule \in Rules(value, inv.cmd) :
              report[i] = LineOf(value, inv.cmd, rule)
         /\ pc = "done" =>
              /\ \A rule \in Rules(value, inv.cmd) : \E i \in DOMAIN report :
                   LinesOf(report, C[rule]) = {i}
              /\ Failed(report) <=> \E rule \in Rules(value, inv.cmd) \ {"TCPLocalHost"} :
                                      ~Keeps(value, inv.cmd, rule)
  <1> DEFINE rules == Checked(value, inv.cmd, pc)
  <1>1. inv.cmd \in Cmd /\ C = ClausesOf(inv.cmd)
    BY InvocationFacts DEF IInv
  <1>2. rules \subseteq Rules(value, inv.cmd) /\ rules \in SUBSET RulesOf(inv.cmd)
    BY CheckedAreRules
  <1>3. pc = "done" => rules = Rules(value, inv.cmd)
    BY CheckedAreRules
  <1>4. Accounts(report, value, inv.cmd, rules)
    BY DEF HasValue
  <1> HIDE DEF rules
  <1>5. report \in Seq(Assertion)
    BY <1>1, <1>2, <1>4, AccountsType
  <1>6. Failed(report) <=> \E rule \in rules \ {"TCPLocalHost"} :
                             ~Keeps(value, inv.cmd, rule)
    BY <1>1, <1>2, <1>4, AccountsVerdict, Zenon
  <1>7. \A i \in DOMAIN report : \E rule \in rules : report[i] = LineOf(value, inv.cmd, rule)
    BY <1>1, <1>2, <1>4, AccountsTrue
  <1>8. \A rule \in rules : \E i \in DOMAIN report :
          /\ report[i] = LineOf(value, inv.cmd, rule)
          /\ \A j \in DOMAIN report : report[j].clause = ClausesOf(inv.cmd)[rule] <=> j = i
    BY <1>1, <1>2, <1>4, AccountsComplete
  <1>9. \A rule \in rules : \E i \in DOMAIN report :
          LinesOf(report, ClausesOf(inv.cmd)[rule]) = {i}
    BY <1>8 DEF LinesOf
  <1> QED
    BY <1>1, <1>2, <1>3, <1>5, <1>6, <1>7, <1>9

LEMMA ExitCodes ==
  ASSUME NEW r, NEW format, NEW writable
  PROVE  EmitOf(r, format, writable) \in {0, 1, 2}
  BY DEF EmitOf, ExitOf

\* The state is well typed: the address under check is the one given, and there is
\* an exit code exactly when the command has ended.
THEOREM TypeCorrect == Spec => []TypeOK
  <1>1. ASSUME IInv, NoValue
        PROVE  TypeOK
    BY <1>1 DEF NoValue, TypeOK
  <1>2. ASSUME IInv, HasValue
        PROVE  TypeOK
    BY <1>2, ReportMeaning, ExitCodes DEF HasValue, TypeOK
  <1>3. IInv => TypeOK
    BY <1>1, <1>2 DEF IInv
  <1> QED
    BY <1>3, Inductive, PTL

\* No line of the report is untrue, is about a rule that does not bind the
\* address, or cites the other endpoint's document.
THEOREM Truthful == Spec => []ReportIsTruthful
  <1>1. ASSUME IInv, NoValue
        PROVE  ReportIsTruthful
    BY <1>1 DEF NoValue, ReportIsTruthful
  <1>2. ASSUME IInv, HasValue
        PROVE  ReportIsTruthful
    <2>1. inv.cmd \in Cmd /\ C = ClausesOf(inv.cmd)
      BY <1>2, InvocationFacts DEF IInv
    <2> SUFFICES ASSUME NEW i \in DOMAIN report
                 PROVE  \E rule \in Rules(value, inv.cmd) :
                          /\ report[i].clause = C[rule]
                          /\ report[i].clause \in IF inv.cmd = "workload"
                                                  THEN WorkloadEndpointClauses
                                                  ELSE BrokerEndpointClauses
                          /\ report[i].status = "pass" <=> Keeps(value, inv.cmd, rule)
      BY DEF ReportIsTruthful
    <2>2. PICK rule \in Rules(value, inv.cmd) : report[i] = LineOf(value, inv.cmd, rule)
      BY <1>2, ReportMeaning
    <2>3. rule \in RulesOf(inv.cmd)
      BY <2>1, RulesHaveClauses
    <2>4. report[i].clause = C[rule]
      BY <2>1, <2>2, LineTopic
    <2>5. C[rule] \in IF inv.cmd = "workload" THEN WorkloadEndpointClauses
                      ELSE BrokerEndpointClauses
      BY <2>1, <2>3, TableFacts
    <2>6. report[i].status = "pass" <=> Keeps(value, inv.cmd, rule)
      BY <2>1, <2>2, <2>3, LineStatus
    <2> QED
      BY <2>4, <2>5, <2>6
  <1>3. IInv => ReportIsTruthful
    BY <1>1, <1>2 DEF IInv
  <1> QED
    BY <1>3, Inductive, PTL

\* When the command has judged an address, every rule that binds it has exactly
\* one line.
THEOREM Complete == Spec => []EveryRuleOnce
  <1>1. ASSUME IInv, pc = "done", Judged
        PROVE  HasValue
    BY <1>1 DEF IInv, NoValue
  <1>2. IInv => EveryRuleOnce
    BY <1>1, ReportMeaning DEF EveryRuleOnce, HasValue
  <1> QED
    BY <1>2, Inductive, PTL

\* The exit code is the verdict on the address given, and locality never fails it.
THEOREM ExitIsVerdict == Spec => []ExitIsCompliance
  <1>1. ASSUME IInv, pc = "done", Judged
        PROVE  HasValue
    BY <1>1 DEF IInv, NoValue
  <1>2. ASSUME IInv, pc = "done", ~Judged
        PROVE  exit = 2
    BY <1>2 DEF IInv, NoValue, HasValue
  <1>3. ASSUME IInv, pc = "done", Judged
        PROVE  exit = IF ~Renders(inv.format, inv.writable) THEN 2
                      ELSE IF \A rule \in Rules(Given, inv.cmd) \ {"TCPLocalHost"} :
                                  Keeps(Given, inv.cmd, rule)
                           THEN 0 ELSE 1
    <2>1. HasValue /\ value = Given /\ exit = EmitOf(report, inv.format, inv.writable)
      BY <1>1, <1>3 DEF HasValue
    <2>2. Failed(report) <=> \E rule \in Rules(Given, inv.cmd) \ {"TCPLocalHost"} :
                               ~Keeps(Given, inv.cmd, rule)
      BY <1>3, <2>1, ReportMeaning
    <2> QED
      BY <2>1, <2>2 DEF EmitOf, ExitOf
  <1>4. IInv => ExitIsCompliance
    BY <1>2, <1>3 DEF ExitIsCompliance
  <1> QED
    BY <1>4, Inductive, PTL

---------------------------------------------------------------------------
(* socketuri.Check as one call, for both endpoints at once.                *)

LEMMA SweepAccounts ==
  ASSUME NEW u \in Address, NEW cmd \in Cmd
  PROVE  Accounts(SocketCheck(u, ClausesOf(cmd)), u, cmd, Rules(u, cmd))
  <1> DEFINE c == ClausesOf(cmd)
             A(r, rules) == Accounts(r, u, cmd, rules)
  <1>1. RuleNames \ {"TCPLocalHost"} \subseteq RulesOf(cmd)
    BY DEF RulesOf
  <1>2. ASSUME NEW rule \in RulesOf(cmd)
        PROVE  A(<< LineOf(u, cmd, rule) >>, {rule})
    BY AccountsForOne
  <1>3. ASSUME NEW r1, NEW r2, NEW R1 \in SUBSET RulesOf(cmd), NEW R2 \in SUBSET RulesOf(cmd),
               R1 \cap R2 = {}, A(r1, R1), A(r2, R2)
        PROVE  A(r1 \o r2, R1 \cup R2)
    BY <1>3, AccountsForBoth
  <1>4. A(CheckURI(u, c), {"URI"}) /\ A(CheckSocketScheme(u, c), {"Scheme"})
    BY <1>1, <1>2, CheckLines DEF RuleNames
  <1>5. A(CheckUnix(u, c), {"UnixNoAuthority", "UnixAbsolutePath", "UnixNoOtherComponents"})
    <2>1. /\ A(CheckUnixAuthority(u, c), {"UnixNoAuthority"})
          /\ A(CheckUnixPath(u, c), {"UnixAbsolutePath"})
          /\ A(CheckUnixOther(u, c), {"UnixNoOtherComponents"})
      BY <1>1, <1>2, CheckLines DEF RuleNames
    <2>2. /\ {"UnixNoAuthority"} \in SUBSET RulesOf(cmd)
          /\ {"UnixAbsolutePath"} \in SUBSET RulesOf(cmd)
          /\ {"UnixNoAuthority", "UnixAbsolutePath"} \in SUBSET RulesOf(cmd)
          /\ {"UnixNoOtherComponents"} \in SUBSET RulesOf(cmd)
      BY <1>1 DEF RuleNames
    <2>3. /\ {"UnixNoAuthority"} \cup {"UnixAbsolutePath"} = {"UnixNoAuthority", "UnixAbsolutePath"}
          /\ {"UnixNoAuthority", "UnixAbsolutePath"} \cup {"UnixNoOtherComponents"}
               = {"UnixNoAuthority", "UnixAbsolutePath", "UnixNoOtherComponents"}
          /\ {"UnixNoAuthority"} \cap {"UnixAbsolutePath"} = {}
          /\ {"UnixNoAuthority", "UnixAbsolutePath"} \cap {"UnixNoOtherComponents"} = {}
      OBVIOUS
    <2>4. A(CheckUnixAuthority(u, c) \o CheckUnixPath(u, c), {"UnixNoAuthority", "UnixAbsolutePath"})
      BY <1>3, <2>1, <2>2, <2>3
    <2> QED
      BY <1>3, <2>1, <2>2, <2>3, <2>4 DEF CheckUnix
  <1> DEFINE here == cmd = "workload" /\ u.host # None /\ IsIPHost(u.host)
             local == IF here THEN {"TCPLocalHost"} ELSE {}
  <1>6. A(CheckTCP(u, c), {"TCPHost", "TCPPort", "TCPNoOtherComponents"} \cup local)
    <2>1. /\ A(CheckTCPHost(u, c), {"TCPHost"})
          /\ A(CheckTCPPort(u, c), {"TCPPort"})
          /\ A(CheckTCPOther(u, c), {"TCPNoOtherComponents"})
      BY <1>1, <1>2, CheckLines DEF RuleNames
    <2>2. A(CheckTCPLocal(u, c), local) /\ local \in SUBSET RulesOf(cmd)
      <3>1. CASE here
        <4>1. CheckTCPLocal(u, c) = << LineOf(u, cmd, "TCPLocalHost") >>
          BY <3>1, CheckLines
        <4>2. "TCPLocalHost" \in RulesOf(cmd) /\ local = {"TCPLocalHost"}
          BY <3>1 DEF RulesOf, RuleNames
        <4> QED
          BY <1>2, <4>1, <4>2
      <3>2. CASE ~here
        <4>1. CheckTCPLocal(u, c) = << >> /\ local = {}
          BY <3>2, CheckLines
        <4> QED
          BY <4>1, AccountsForNone
      <3> QED
        BY <3>1, <3>2
    <2>3. local \subseteq {"TCPLocalHost"}
      OBVIOUS
    <2> HIDE DEF local
    <2>4. /\ {"TCPHost"} \in SUBSET RulesOf(cmd) /\ {"TCPPort"} \in SUBSET RulesOf(cmd)
          /\ {"TCPHost", "TCPPort"} \in SUBSET RulesOf(cmd)
          /\ {"TCPNoOtherComponents"} \in SUBSET RulesOf(cmd)
          /\ {"TCPHost", "TCPPort", "TCPNoOtherComponents"} \in SUBSET RulesOf(cmd)
      BY <1>1 DEF RuleNames
    <2>5. /\ {"TCPHost"} \cup {"TCPPort"} = {"TCPHost", "TCPPort"}
          /\ {"TCPHost", "TCPPort"} \cup {"TCPNoOtherComponents"}
               = {"TCPHost", "TCPPort", "TCPNoOtherComponents"}
          /\ {"TCPHost"} \cap {"TCPPort"} = {}
          /\ {"TCPHost", "TCPPort"} \cap {"TCPNoOtherComponents"} = {}
          /\ {"TCPHost", "TCPPort", "TCPNoOtherComponents"} \cap local = {}
      BY <2>3
    <2>6. A(CheckTCPHost(u, c) \o CheckTCPPort(u, c), {"TCPHost", "TCPPort"})
      BY <1>3, <2>1, <2>4, <2>5
    <2>7. A(CheckTCPHost(u, c) \o CheckTCPPort(u, c) \o CheckTCPOther(u, c),
            {"TCPHost", "TCPPort", "TCPNoOtherComponents"})
      BY <1>3, <2>1, <2>4, <2>5, <2>6
    <2> QED
      BY <1>3, <2>2, <2>4, <2>5, <2>7 DEF CheckTCP
  \* What follows the URI, and the rules it is about.
  <1>7. PICK rest : rest = CASE ~u.parses -> << >>
                             [] u.parses /\ u.scheme = "unix" ->
                                  CheckSocketScheme(u, c) \o CheckUnix(u, c)
                             [] u.parses /\ u.scheme = "tcp" ->
                                  CheckSocketScheme(u, c) \o CheckTCP(u, c)
                             [] OTHER -> CheckSocketScheme(u, c)
    OBVIOUS
  <1>8. Rules(u, cmd) \subseteq RulesOf(cmd) /\ "URI" \in Rules(u, cmd)
    BY RulesHaveClauses DEF Rules
  <1>9. A(rest, Rules(u, cmd) \ {"URI"})
    <2>1. CASE ~u.parses
      <3>1. rest = << >> /\ Rules(u, cmd) \ {"URI"} = {}
        BY <1>7, <2>1, RulesFacts
      <3> QED
        BY <3>1, AccountsForNone
    <2>2. CASE u.parses /\ u.scheme = "unix"
      <3> DEFINE unix == {"UnixNoAuthority", "UnixAbsolutePath", "UnixNoOtherComponents"}
      <3>1. rest = CheckSocketScheme(u, c) \o CheckUnix(u, c) /\ A(CheckUnix(u, c), unix)
        BY <1>5, <1>7, <2>2
      <3>2. Rules(u, cmd) \ {"URI"} = {"Scheme"} \cup unix
        BY <2>2, RulesFacts
      <3>3. /\ {"Scheme"} \in SUBSET RulesOf(cmd) /\ unix \in SUBSET RulesOf(cmd)
            /\ {"Scheme"} \cap unix = {}
        BY <1>1 DEF RuleNames
      <3> HIDE DEF unix
      <3> QED
        BY <1>3, <1>4, <3>1, <3>2, <3>3
    <2>3. CASE u.parses /\ u.scheme = "tcp"
      <3>1. rest = CheckSocketScheme(u, c) \o CheckTCP(u, c)
        BY <1>7, <2>3
      <3>2. Rules(u, cmd) \ {"URI"}
              = {"Scheme"} \cup ({"TCPHost", "TCPPort", "TCPNoOtherComponents"} \cup local)
        BY <2>3, RulesFacts
      <3>3. /\ {"Scheme"} \in SUBSET RulesOf(cmd)
            /\ {"TCPHost", "TCPPort", "TCPNoOtherComponents"} \cup local \in SUBSET RulesOf(cmd)
            /\ {"Scheme"} \cap ({"TCPHost", "TCPPort", "TCPNoOtherComponents"} \cup local) = {}
        BY <1>1, <1>8, <3>2 DEF RuleNames
      <3> QED
        BY <1>3, <1>4, <1>6, <3>1, <3>2, <3>3
    <2>4. CASE u.parses /\ u.scheme \notin {"unix", "tcp"}
      <3>1. rest = CheckSocketScheme(u, c) /\ Rules(u, cmd) \ {"URI"} = {"Scheme"}
        BY <1>7, <2>4, RulesFacts
      <3> QED
        BY <1>4, <3>1
    <2> QED
      BY <2>1, <2>2, <2>3, <2>4
  <1>10. /\ {"URI"} \in SUBSET RulesOf(cmd)
         /\ Rules(u, cmd) \ {"URI"} \in SUBSET RulesOf(cmd)
         /\ {"URI"} \cap (Rules(u, cmd) \ {"URI"}) = {}
         /\ {"URI"} \cup (Rules(u, cmd) \ {"URI"}) = Rules(u, cmd)
    BY <1>8
  <1>11. A(CheckURI(u, c) \o rest, Rules(u, cmd))
    BY <1>3, <1>4, <1>9, <1>10
  <1>12. SocketCheck(u, c) = CheckURI(u, c) \o rest
    BY <1>7, Zenon DEF SocketCheck
  <1> QED
    BY <1>11, <1>12

\* The statuses of the lines about one rule.
LEMMA StatusOfRule ==
  ASSUME NEW u, NEW cmd \in Cmd, NEW rules \in SUBSET RulesOf(cmd), NEW r,
         Accounts(r, u, cmd, rules), NEW rule \in RulesOf(cmd)
  PROVE  StatusOf(r, ClausesOf(cmd), rule)
           = IF rule \in rules THEN {LineOf(u, cmd, rule).status} ELSE {}
  <1>1. CASE rule \in rules
    <2>1. PICK i \in DOMAIN r :
            /\ r[i] = LineOf(u, cmd, rule)
            /\ \A j \in DOMAIN r : r[j].clause = ClausesOf(cmd)[rule] <=> j = i
      BY <1>1, AccountsComplete
    <2>2. LinesOf(r, ClausesOf(cmd)[rule]) = {i}
      BY <2>1 DEF LinesOf
    <2> QED
      BY <1>1, <2>1, <2>2 DEF StatusOf
  <1>2. CASE rule \notin rules
    <2>1. ASSUME NEW i \in DOMAIN r, r[i].clause = ClausesOf(cmd)[rule]
          PROVE  FALSE
      <3>1. PICK other \in rules : r[i] = LineOf(u, cmd, other)
        BY AccountsTrue
      <3>2. ClausesOf(cmd)[other] = ClausesOf(cmd)[rule]
        BY <2>1, <3>1, LineTopic
      <3>3. other \in RulesOf(cmd)
        BY <3>1
      <3> QED
        BY <1>2, <3>2, <3>3, TableInjective
    <2>2. LinesOf(r, ClausesOf(cmd)[rule]) = {}
      BY <2>1 DEF LinesOf
    <2> QED
      BY <1>2, <2>2 DEF StatusOf
  <1> QED
    BY <1>1, <1>2

\* Over any address the two documents agree on every rule but the two about the
\* host, and the broker accepts every host the workload endpoint accepts.
LEMMA BothAgree ==
  ASSUME NEW u \in Address
  PROVE  LET workload == SocketCheck(u, WorkloadClauses)
             broker == SocketCheck(u, BrokerClauses)
             W(rule) == StatusOf(workload, WorkloadClauses, rule)
             B(rule) == StatusOf(broker, BrokerClauses, rule)
         IN  /\ \A rule \in DOMAIN BrokerClauses
                            \ {"TCPHost", "TCPLocalHost", "AllowDNSName"} :
                    W(rule) = B(rule)
             /\ W("TCPHost") = {"pass"} => B("TCPHost") = {"pass"}
  <1> DEFINE Status1(cmd, rule) == StatusOf(SocketCheck(u, ClausesOf(cmd)), ClausesOf(cmd), rule)
  <1>1. "workload" \in Cmd /\ "broker" \in Cmd
    BY DEF Cmd
  <1>2. ClausesOf("workload") = WorkloadClauses /\ ClausesOf("broker") = BrokerClauses
    BY DEF ClausesOf
  <1>3. ASSUME NEW cmd \in Cmd, NEW rule \in RulesOf(cmd)
        PROVE  Status1(cmd, rule)
                 = IF rule \in Rules(u, cmd) THEN {LineOf(u, cmd, rule).status} ELSE {}
    <2>1. Accounts(SocketCheck(u, ClausesOf(cmd)), u, cmd, Rules(u, cmd))
      BY SweepAccounts
    <2>2. Rules(u, cmd) \in SUBSET RulesOf(cmd)
      BY RulesHaveClauses
    <2> QED
      BY <2>1, <2>2, StatusOfRule
  <1>4. \A rule \in RuleNames \ {"TCPLocalHost"} :
          rule \in RulesOf("workload") /\ rule \in RulesOf("broker")
    BY DEF RulesOf
  <1>5. \A rule \in RuleNames \ {"TCPLocalHost"} :
          rule \in Rules(u, "workload") <=> rule \in Rules(u, "broker")
    BY DEF RuleNames, Rules
  <1>6. ASSUME NEW rule \in RuleNames \ {"TCPHost", "TCPLocalHost"}
        PROVE  Status1("workload", rule) = Status1("broker", rule)
    <2>1. Keeps(u, "workload", rule) <=> Keeps(u, "broker", rule)
      BY DEF Keeps, RuleNames
    <2>2. LineOf(u, "workload", rule).status = LineOf(u, "broker", rule).status
      <3>1. /\ Severity(ClausesOf("workload")[rule]) # "SHOULD"
            /\ Severity(ClausesOf("broker")[rule]) # "SHOULD"
        BY <1>1, <1>4, TableFacts
      <3> QED
        BY <2>1, <3>1 DEF LineOf, Verdict
    <2> QED
      BY <1>1, <1>3, <1>4, <1>5, <2>2
  <1>7. ASSUME Status1("workload", "TCPHost") = {"pass"}
        PROVE  Status1("broker", "TCPHost") = {"pass"}
    <2>1. "TCPHost" \in RuleNames \ {"TCPLocalHost"}
      BY DEF RuleNames
    <2>2. /\ Status1("workload", "TCPHost") = IF "TCPHost" \in Rules(u, "workload")
                THEN {LineOf(u, "workload", "TCPHost").status} ELSE {}
          /\ Status1("broker", "TCPHost") = IF "TCPHost" \in Rules(u, "broker")
                THEN {LineOf(u, "broker", "TCPHost").status} ELSE {}
      BY <1>1, <1>3, <1>4, <2>1
    <2>3. "TCPHost" \in Rules(u, "workload") /\ LineOf(u, "workload", "TCPHost").status = "pass"
      BY <1>7, <2>2
    <2>4. Keeps(u, "workload", "TCPHost")
      BY <1>1, <1>4, <2>1, <2>3, LineStatus
    <2>5. Keeps(u, "broker", "TCPHost")
      BY <2>4 DEF Keeps, TCPHostTruth
    <2>6. LineOf(u, "broker", "TCPHost").status = "pass"
      BY <1>1, <1>4, <2>1, <2>5, LineStatus
    <2> QED
      BY <1>5, <2>1, <2>2, <2>3, <2>6
  <1>8. DOMAIN BrokerClauses \ {"TCPHost", "TCPLocalHost", "AllowDNSName"}
          = RuleNames \ {"TCPHost", "TCPLocalHost"}
    BY DEF BrokerClauses, RuleNames
  <1> QED
    BY <1>2, <1>6, <1>7, <1>8

\* The two endpoints have the same shape.
THEOREM Shape == Spec => []SameShape
  <1>1. ASSUME IInv, pc = "done", Judged
        PROVE  Given \in Address
    BY <1>1 DEF IInv, NoValue, HasValue
  <1>2. IInv => SameShape
    BY <1>1, BothAgree, Zenon DEF SameShape
  <1> QED
    BY <1>2, Inductive, PTL
=============================================================================
