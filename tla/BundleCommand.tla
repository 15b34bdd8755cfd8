--------------------------- MODULE BundleCommand ---------------------------
(***************************************************************************)
(* One run of `scc bundle`, `scc bundle-map` or `scc federation`.  All     *)
(* three end in bundle.check: on the bundle of the file, on each entry of  *)
(* the map, on the bootstrap bundle of the configuration.  Its loop over   *)
(* the entries is an action per entry.                                     *)
(***************************************************************************)
EXTENDS BundleMap, Federation, FiniteSets

CONSTANT Invocations   \* the command lines considered, each a record
                       \*   cmd      "bundle", "bundle-map", "federation"
                       \*   usable   the flags parse, and the arguments are
                       \*            one file, or none for federation
                       \*   file     the file given: [readable, decodes
                       \*            (its first JSON value is an object or
                       \*            null), and bundle or map]
                       \*   cfg      the configuration, see Federation

Loads(file) == file.readable /\ file.decodes

\* encoding/json: what there is of a file that loads.
ASSUME InvocationAssumption ==
    \A v \in Invocations :
        /\ v.cmd \in {"bundle", "bundle-map", "federation"}
        /\ v.cmd = "bundle" /\ Loads(v.file) => v.file.bundle \in Bundle
        /\ v.cmd = "bundle-map" /\ Loads(v.file) => v.file.map \in MapDocument
        /\ v.cmd = "federation" => IsConfig(v.cfg)

\* The bundles an invocation has to judge, with their tags; of a name repeated
\* in a map, the last.
BundlesOf(v) ==
    CASE v.cmd = "bundle" /\ Loads(v.file) -> {[tag |-> "", b |-> v.file.bundle]}
      [] v.cmd = "bundle-map" /\ Loads(v.file) /\ IsMap(v.file.map) ->
           LET entries == Decoded(Last(v.file.map).members)
           IN  { [tag |-> NameTag(name), b |-> entries[name]] :
                 name \in { m \in DOMAIN entries : entries[m] # None } }
      [] v.cmd = "federation" /\ Bootstraps(v.cfg) /\ Loads(v.cfg.bundle) ->
           {[tag |-> "endpoint bundle", b |-> v.cfg.bundle.bundle]}
      [] OTHER -> {}

\* No two entries that are judged have the same tag.
ASSUME KeyTagAssumption ==
    \A v \in Invocations : \A x, y \in BundlesOf(v) :
        \A e \in DOMAIN x.b.keys, f \in DOMAIN y.b.keys :
            /\ KeyTag(x.tag, e) \in Tags
            /\ KeyTag(x.tag, e) = KeyTag(y.tag, f) => x.tag = y.tag /\ e = f

VARIABLES
    inv,      \* the invocation
    n,        \* the name bundlemap.Check is at
    tag,      \* of the bundle under check
    bundle,   \* the bundle under check, None outside bundle.check
    i,        \* the entry its loop is at
    kids,     \* the kids collected from it
    report, exit, pc

bundleVars == <<tag, bundle, i, kids>>
vars == <<inv, n, bundleVars, report, exit, pc>>

Init ==
    /\ inv \in Invocations
    /\ n = 1
    /\ tag = ""
    /\ bundle = None
    /\ i = 1
    /\ kids = << >>
    /\ report = << >>
    /\ exit = -1
    /\ pc = "args"

---------------------------------------------------------------------------

\* A check outside bundle.check: append what it asserts and go on.
Check(from, to, assertions) ==
    /\ pc = from
    /\ pc' = to
    /\ report' = report \o assertions
    /\ UNCHANGED <<inv, n, bundleVars, exit>>

\* The process returns, with what the report says or with an error on stderr.
Quit(from, code) ==
    /\ pc = from
    /\ pc' = "done"
    /\ exit' = code
    /\ UNCHANGED <<inv, n, bundleVars, report>>

\* bundle.check is called.
Call(from, itsTag, b) ==
    /\ pc = from
    /\ pc' = "head"
    /\ tag' = itsTag /\ bundle' = b /\ i' = 1 /\ kids' = << >>
    /\ UNCHANGED <<inv, n, exit>>

\* It returns: only the bundle map goes on, with the next name.
Return ==
    /\ bundle' = None
    /\ IF inv.cmd = "bundle-map"
       THEN n' = n + 1 /\ pc' = "entry"
       ELSE pc' = "emit" /\ UNCHANGED n

UsageError == Quit("args", 2) /\ ~inv.usable

LoadFails ==
    /\ Quit("args", 2)
    /\ inv.usable /\ inv.cmd \in {"bundle", "bundle-map"} /\ ~Loads(inv.file)

CheckBundleFile ==
    /\ pc = "args" /\ inv.usable /\ inv.cmd = "bundle" /\ Loads(inv.file)
    /\ Call("args", "", inv.file.bundle)
    /\ UNCHANGED report

---------------------------------------------------------------------------
(* bundle.check                                                            *)

InMap == inv.cmd = "bundle-map"

Shape ==
    /\ pc = "head" /\ bundle.shape = "array"
    /\ report' = report \o CheckHead(tag, bundle, InMap)
    /\ pc' = "keys"
    /\ UNCHANGED <<inv, n, bundleVars, exit>>

NoKeys ==
    /\ pc = "head" /\ bundle.shape # "array"
    /\ report' = report \o CheckHead(tag, bundle, InMap)
    /\ Return
    /\ UNCHANGED <<inv, tag, i, kids, exit>>

\* Mutant: an entry that is no object ends the loop, not the turn.
EntryBreaks ==
    /\ pc = "keys" /\ i <= Len(bundle.keys)
    /\ report' = report \o CheckEntry(KeyTag(tag, i), bundle.keys[i])
    /\ kids' = kids \o KidOf(bundle.keys[i])
    /\ i' = IF bundle.keys[i] = None THEN Len(bundle.keys) + 1 ELSE i + 1
    /\ UNCHANGED <<inv, n, tag, bundle, exit, pc>>

Entry ==
    /\ pc = "keys" /\ i <= Len(bundle.keys)
    /\ report' = report \o CheckEntry(KeyTag(tag, i), bundle.keys[i])
    /\ kids' = kids \o KidOf(bundle.keys[i])
    /\ i' = i + 1
    /\ UNCHANGED <<inv, n, tag, bundle, exit, pc>>

KIDUniqueness ==
    /\ pc = "keys" /\ i > Len(bundle.keys)
    /\ report' = report \o CheckKIDUniqueness(tag, kids)
    /\ Return
    /\ UNCHANGED <<inv, tag, i, kids, exit>>

---------------------------------------------------------------------------
(* bundlemap.Check                                                         *)

TrustDomainsPresent ==
    /\ pc = "args" /\ inv.usable /\ inv.cmd = "bundle-map" /\ Loads(inv.file)
    /\ Check("args", IF IsMap(inv.file.map) THEN "unique" ELSE "emit",
             CheckTrustDomainsPresent(inv.file.map))

\* What the token walk finds, and what json.Decode keeps.
MapNames == TrustDomainNames(inv.file.map)
MapEntries == Decoded(Last(inv.file.map).members)

Visited == Distinct(MapNames)

Uniqueness == Check("unique", "entry", CheckUniqueness(MapNames))

MapEntry ==
    /\ pc = "entry" /\ n <= Len(Visited)
    /\ LET name == Visited[n]
           entry == MapEntries[name]
       IN  /\ report' = report \o CheckMapEntry(name, entry)
           /\ IF entry = None
              THEN n' = n + 1 /\ UNCHANGED <<inv, bundleVars, exit, pc>>
              ELSE Call("entry", NameTag(name), entry)

MapEnds == Check("entry", "emit", << >>) /\ n > Len(Visited)

---------------------------------------------------------------------------
(* federation.Check                                                        *)

Required ==
    /\ pc = "args" /\ inv.usable /\ inv.cmd = "federation"
    /\ Check("args", "profile", CheckRequired(inv.cfg))

ProfileStep == Check("profile", "url", CheckProfile(inv.cfg))

URL == Check("url", "params", CheckURL(inv.cfg))

WebParams ==
    /\ Check("params", "bootstrap", CheckWebParams(inv.cfg))
    /\ inv.cfg.profile = "https_web"

SPIFFEParams ==
    /\ Check("params", "bootstrap", CheckSPIFFEParams(inv.cfg))
    /\ inv.cfg.profile = "https_spiffe"

OtherParams ==
    /\ Check("params", "bootstrap", << >>)
    /\ inv.cfg.profile \notin {"https_web", "https_spiffe"}

NoBootstrap == Check("bootstrap", "emit", << >>) /\ ~Bootstraps(inv.cfg)

Bootstrap ==
    /\ pc = "bootstrap" /\ Bootstraps(inv.cfg) /\ Loads(inv.cfg.bundle)
    /\ Call("bootstrap", "endpoint bundle", inv.cfg.bundle.bundle)
    /\ UNCHANGED report

\* The error returns past the report that has been filled.
BootstrapFails ==
    /\ Quit("bootstrap", 2)
    /\ Bootstraps(inv.cfg) /\ ~Loads(inv.cfg.bundle)

---------------------------------------------------------------------------

\* Mutant: the exit code is the number of failed assertions.
EmitCount ==
    Quit("emit", Cardinality({k \in DOMAIN report : report[k].status = "fail"}))

\* Rendering is modelled in SweepCommand.
Emit == Quit("emit", ExitOf(report))

Terminated == pc = "done" /\ UNCHANGED vars

CheckBundle == Shape \/ NoKeys \/ Entry \/ KIDUniqueness

CheckMap == TrustDomainsPresent \/ Uniqueness \/ MapEntry \/ MapEnds

CheckFederation ==
    \/ Required \/ ProfileStep \/ URL \/ WebParams \/ SPIFFEParams
    \/ OtherParams \/ NoBootstrap \/ Bootstrap \/ BootstrapFails

Next ==
    \/ UsageError \/ LoadFails \/ CheckBundleFile
    \/ CheckBundle \/ CheckMap \/ CheckFederation
    \/ Emit \/ Terminated

Spec == Init /\ [][Next]_vars

---------------------------------------------------------------------------
(* Properties                                                              *)

\* The artifact could be read.
Judged == pc = "done" /\ exit # 2

\* What the documents say of the whole artifact.
Compliant ==
    CASE inv.cmd = "bundle" -> GoodBundle(inv.file.bundle)
      [] inv.cmd = "bundle-map" -> GoodMap(inv.file.map)
      [] inv.cmd = "federation" -> GoodConfig(inv.cfg)

\* The bundles in the artifact that have a "keys" array.
Bundles == {x \in BundlesOf(inv) : x.b.shape = "array"}

Lines(clause, about) ==
    {k \in DOMAIN report : report[k].clause = clause /\ report[k].about = about}

\* The types of the run, and that bundle.check's loop stays inside its array.
TypeOK ==
    /\ inv.cmd \in {"bundle", "bundle-map", "federation"}
    /\ n \in Nat \ {0}
    /\ tag \in Tags
    /\ bundle \in Bundle \cup {None}
    /\ i \in Nat \ {0}
    /\ bundle # None => i <= Len(bundle.keys) + 1
    /\ kids \in Seq(Kids)
    /\ report \in Seq(Assertion)
    /\ exit \in {-1, 0, 1, 2}

\* The exit code is the verdict on the artifact read as a whole: no `continue`
\* or early return of the three nested checkers hides a violated MUST, and no
\* SHOULD is fatal.
ExitIsVerdict == Judged => exit = IF Compliant THEN 0 ELSE 1

\* "each trust domain's bundle gets its own assertion" (checkKIDUniqueness),
\* and it is exact: it fails when two of that bundle's token-signing entries
\* share a kid, whatever else is wrong with them, and never because of another
\* bundle's.
KidVerdictIsExact ==
    Judged => \A x \in Bundles :
        LET lines == Lines("BundleKIDUnique", x.tag)
        IN  /\ Cardinality(lines) = IF Keyed(x.b) = {} THEN 0 ELSE 1
            /\ \A k \in lines : report[k].status = "fail" <=> KidsClash(x.b)

\* Every entry of every bundle is judged, whatever is wrong with the one
\* before it or with an earlier bundle of the map.
EveryEntryJudged ==
    Judged => \A x \in Bundles : \A e \in DOMAIN x.b.keys :
        Lines("BundleKeyKTYSet", KeyTag(x.tag, e)) # {}

\* "one line per checked clause" (README), here for each part of the artifact.
\* The one exception is a "keys" that is no array: a PASS for being there and a
\* FAIL for its type, in that order and never more.
OneLinePerPart ==
    \A k, l \in DOMAIN report :
        /\ k < l
        /\ report[k].clause = report[l].clause
        /\ report[k].about = report[l].about
        => /\ report[k].clause = "BundleKeysPresent"
           /\ report[k].status = "pass" /\ report[l].status = "fail"

\* "the report reads top-to-bottom like the file" (bundlemap.Check): names are
\* judged in the order the document has them first.
ReadsLikeTheFile ==
    inv.cmd = "bundle-map" =>
        \A k, l \in DOMAIN MapNames :
            LET first(name) == Lines("BundleMapEntryIsBundle", NameTag(name))
            IN  k < l /\ MapNames[l] \notin {MapNames[m] : m \in 1..k} =>
                    \A x \in first(MapNames[k]), y \in first(MapNames[l]) : x < y
=============================================================================
