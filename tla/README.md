# A specification of scc, the SPIFFE compliance checker

`scc` reads one SPIFFE artifact (an ID, a certificate, a token, a bundle, a
folder of credentials, an endpoint socket URI), runs the checks of the document
that governs it, prints one line per checked clause and exits with 1 if a MUST
clause is violated. These modules say what that report and that exit code are
worth: that no early return hides a violated clause, that no clause is judged
twice, that the verdict is a verdict on the artifact, and what it still means
when the artifact is a folder somebody is writing to.

The specifications are read off the Go code. Where a comment of the code or the
README of the repository says something else, a run or a note shows it
([Disagreements](#disagreements)).

## 1. Inventory

| component | state it keeps | operations | correct when |
|---|---|---|---|
| `cmd/scc` (main.go) | none, beyond the exit code | parse flags, load, call one checker, `emit` | the exit code is the verdict (1 for a violated MUST, 2 for no verdict), in each format |
| `report` | the list of assertions | `Pass`, `Fail` (a SHOULD becomes a warning), `Failed`, `Render` | only a MUST is fatal; one line per clause |
| `spec` | a constant table of clauses | lookup | severities are the documents' |
| `id` | none; appends to a report | `Check`, `CheckTrustDomain`, `Parse` | each line is true of the text as written; nothing skipped on the way to exit 0 |
| `x509svid` | none; appends to a report | `CheckFile`, `Check` | the same, of the certificate; leaf and signing clauses never mix |
| `credentialfolder` | the captured files, the chain, the report; reads a file system others write | `Check`, `CheckDir`, `readSpecFile`, `splitPEM`, ten checks | each file judged once as one version; the verdict is section 2's; never blocks on a file |
| `jose` | none | `Decode`, `UnixClaim` | three parts, two of them JSON; a date keeps its value as an `int64` and as a `time.Time` |
| `jwtsvid`, `witsvid` | none; read the clock | `Check` | as `id`; what is said of `exp` and `nbf` is true of one moment |
| `bundle` | the key ids collected so far | `Check`, `CheckObject`, `CheckMapMember` | every entry judged whatever is wrong with the one before; duplicate key ids found, per bundle |
| `bundlemap` | the names as written | `Check` | two passes over one document agree; duplicate names seen; each entry judged as its own bundle |
| `federation` | a report shared with `bundle` | `Check` | the parameters that can be judged are, and findings are not lost with an error |
| `socketuri`, `workloadendpoint`, `brokerendpoint` | none | one sweep, two clause sets | as `id`; each rule that binds the address judged once; port and host boundaries |
| `report` rendering | the rules registered so far, the results | text, JSON, SARIF | no problem is hidden, a result resolves to its clause, the exit code is the one shown |

*How they interact.* A checker is called by `cmd/scc` and appends to one
`*Report`. `x509svid` calls `id` on the URI SAN, `credentialfolder` calls
`x509svid` on its leaf (on a scratch report) and `id` on the names of trust
bundles, `federation` calls `id` and `bundle`, `bundlemap` calls `bundle` per
entry, `jwtsvid` and `witsvid` call `jose` and hand `sub` to `id`. The two endpoint
packages hand a table of clauses to `socketuri`. `cmd/scc` gives the finished
report to a renderer and to `Failed`. Everything is one thread; `witsvid` reads a clock
that goes on meanwhile, twice. The one component that shares state with
somebody else is `credentialfolder`: a provisioning system rewrites the folder
whenever it rotates credentials, with no coordination at all.

*What is hard.* Sequencing: a sweep is a chain of early returns, each of which
leaves the checks after it without input, so a violated MUST must have been
recorded on every path. Round trips: the SAN is parsed, printed and parsed
again before it is judged. PEM: the library decodes what it can and skips the
rest silently. The folder: listing, stat, open and read are four calls at four
moments, for up to dozens of files. The full list, each at its line, is
`hazards` in PROJECT.json.

## 2. Modules

```
Clauses        severities                    spec/clauses.go
  Report         Pass, Fail, Failed, emit      report/report.go, cmd/scc
    SpiffeId       the SPIFFE-ID sweep           id/id.go
      ReportProofs   lemmas about reports and that sweep, which the proofs of the commands use
      X509Svid       the X509-SVID sweep           x509svid/x509svid.go
        SweepCommand   scc id, scc x509-svid         cmd/scc, as a state machine
          SweepProofs
        FolderChecks   the checks of a folder        credentialfolder.go
          Folders        folders; section 2, independently
            FolderAudit      what the scan promises (abstract)
            CredentialFolder the scan and the checks, with a provisioner
              CredentialFolderProofs
      JwtSvid        the JWT-SVID sweep (and Jose) jwtsvid/jwtsvid.go
        WitSvid        the WIT-SVID sweep            witsvid/witsvid.go
          TokenCommand   scc jwt-svid, scc wit-svid    cmd/scc, with a clock
            TokenProofs    the commands, and the dates of Jose
      TrustBundle    a bundle's entries            bundle/bundle.go
        BundleMap      the two readings of a map     bundlemap/bundlemap.go
        Federation     an endpoint configuration     federation/federation.go
          BundleCommand  scc bundle, bundle-map, federation: cmd/scc, as a state machine
            BundleProofs
    SocketUri      the endpoint sweep            socketuri/, with both clause sets
      SocketCommand  scc workload-endpoint, broker-endpoint
        SocketProofs
    Rendering      a report, then its document   report/report.go, report/format.go
      RenderingProofs
Jose             tokens, dates                 jose/jose.go
PemSplit         splitPEM                      credentialfolder.go:517-551
  PemSplitProofs
MCSweep, MCToken, MCBundle, MCSocket, MCFolder, MCPemSplit, MCRendering    instances for TLC
```

**Reports as values.** Every Go check is a function that appends to a report.
It is an operator here whose value is the sequence it appends, and a sweep is a
concatenation; `credentialfolder` can then run the X509-SVID sweep on a scratch
report by just evaluating it. `SweepCommand` gives the same checks an action
each, so that TLC sees every path from the arguments to the exit code, and the
properties are about each prefix of the report. An assertion keeps its status, its
clause and the file it is about; the wording of its detail is left out.

**SpiffeId.** A URI text is what `url.Parse` makes of it, plus the differences
the program turns on: the path's segments by class, a colon without a port, a `#` without a
fragment. `EscapedPath` and `Reserialised` are what `net/url` does with those,
not the identity: one of the disagreements lives there. A path with a character a URI must escape (a space)
is decoded and escaped anew as a whole, so `%2e` beside it becomes a dot and `x%2F` a segment and an empty one. What becomes of such a
path is the field `escaped`, constrained by `EscapesTo` to what `net/url` assures: there is a percent sign, an
empty or dot segment stays one, and so does a slash at the end. In the same way `longString` is the length, over or within 2048 bytes, of what
`String` writes, which may differ either way from that of the text (`long`). TLC's paths are concrete: `Spelling` in MCSweep lists eleven
segments with what escaping makes of them, and `escaped` is computed from that.

**X509Svid.** A certificate is the record of the `crypto/x509` fields that are
read. Truth about it (`SvidTruth`, `SvidDemands` in SweepCommand) is stated per
clause from the certificate itself, not from the checks.

**SweepCommand.** `pc` walks through the calls in code order; `text` is what
`id.Check` is handed, which for a SAN is not what was written. `inv` is the command
line, the file, and whether standard output can be written.

**TrustBundle, BundleMap, Federation, BundleCommand.** The three commands share
`bundle.check`, so they share a state machine: `Call` enters it, `Entry` is one
turn of its loop, `Return` goes back to the caller, which is the loop over the
names of a map, or the exit. A bundle is what `DecodeJSON` leaves of it, and a member
of another type is a value of its own. A map document is kept as it was written,
the `trust_domains` member repeated and names repeated, because the code reads
it twice: `TrustDomainNames` is the token walk, `Decoded` is encoding/json, which keeps the
last. `KeyTag` and `NameTag` make the tag an assertion is about; they only
have to tell parts of an artifact apart. What the documents ask (`GoodBundle`,
`GoodMap`, `GoodConfig`) is one predicate each, with no loop and no return.

**Jose, JwtSvid, WitSvid, TokenCommand.** A token is its header and claims, each
member absent, malformed or one of the values the checks tell apart. A date is a
number of half seconds, as written; `UnixClaim` truncates it to an `int64` of the width
`MaxSec` with the two behaviours Go's conversion has out of range (smallest value on amd64,
nearest on arm64), and `Unix` adds the seconds since the year 1, wrapping. `Tick` lets
the clock go on between any two steps, so `exp` and `nbf` are judged at two
moments. `began` is a history variable. `JwtTruth` and `WitTruth` say per clause what the documents
say of a token at one moment, and the properties quantify over the moments of the run.

**SocketUri, SocketCommand.** `Take` finds the address in the argument or the
environment; then one action per check of `socketuri.Check`. `C` is the table of clauses of the
command, so a document's clause is reached as the code reaches it. A host is what `netip` makes of
it plus its labels by class. What an address must keep is stated by rule (`Rules`, `Keeps`),
independently of the sweep; `SameShape` compares the two endpoints' sweeps.

**Rendering.** The life of one report: any sequence of `Pass` and `Fail`, then one
action per turn of the renderer's loop. SARIF's rule identifiers are slugs of the citation,
computed character by character (`Slug`), because uniqueness is their point. The citations themselves
are a constant, constrained by `SlugAssumption`.

**PemSplit.** One action per outcome of `pem.Decode` in the loop: it returns the
block at the BEGIN that was found (`DecodeBlock`), a later one
(`DecodeSkips`), or nil (`DecodeFails`). Which later block is left open, as
encoding/pem's recovery is external.

**CredentialFolder.** One action per file system call or check of `Check`:
`ListFolder`/`ListFails`; for each entry `SkipOther`, `StatRegular`/`StatRejects`,
`Open`/`OpenFails`/`OpenHangs`, `Read`/`ReadFails`; then `Presence`,
`CredentialBundle`, one `TrustBundle` per bundle, `OwnTrustBundle`, `Emit`.
`Publish` is the provisioner (external): it puts the next folder of a timeline
in place, between any two of those. It publishes whole folders or whole files,
as the delivery document asks; a half-written file is no different from a
malformed one, which the contents cover. `listedAt` and the `at` of a
capture are history variables no action branches on.

**Folders** states what section 2 demands of what was read, in one predicate
(`Compliant`) that has no order and no early return. **FolderAudit** is the
abstract promise: list once, look at each listed file at one moment, exit with
`VerdictOf` what was seen. It ties the moments of two files to nothing, and
that is exactly what the code gives. The mapping: a file counts as looked at from its
open on (`AbstractView`); everything after is a stutter until `Emit`.

## 3. Runs

| run | question | instance |
|---|---|---|
| `sweep` | is the report of `scc id` and `scc x509-svid` true, complete, free of doubles, and is the exit code the verdict? | every text over 5 host names (empty, good, upper case, bad character, too long), 3 colons, user, scheme, query, fragment, and every path of up to 2 segments out of 5 spellings; for a text that is otherwise good, out of 11 (raw characters and the escapes of a dot, a slash, a blank and a letter); every certificate over the Basic Constraints the parser can produce, no Key Usage or any subset of the three bits digitalSignature, keyCertSign and cRLSign, critical or not, 5 EKUs, subject, SAN criticality, 15 SANs: 304 000 states |
| `pem_split` | is `splitPEM` exact about stray data, and does it lose or reorder blocks? does it return? | all files of up to 5 items of 4 kinds |
| `folder_contents` | is the exit code of an untouched folder the verdict of section 2? is each bundle judged, once? | 10 134 folders: every credential bundle of up to 3 blocks out of 10, with odd ones, against 7 sets of trust bundles; all pairs of trust bundles out of 15 kinds |
| `folder_rotation` | whatever the provisioner does, is each file one version, in order, does the run implement FolderAudit, and does the scan end? | every timeline of 1 or 2 out of 8 folders, and of 3 that start with a good one and pass through a new, an emptied or a FIFO one; every interleaving; with fairness |
| `bundles` | for `scc bundle`, `bundle-map` and `federation`: is the exit code the verdict on the artifact as a whole, is every entry judged, are duplicate key ids found in exactly the bundle that has them, is a map reported in the order of the file? | every bundle of up to 3 out of 13 entries; every map of up to 2 members out of 24 and 3 out of 6, documents with the key `trust_domains` none, one or two times; every configuration over the URL cases, 4 profiles, 3 names, 9 endpoint IDs and 5 bundle files: 63 000 states |
| `tokens` | for `scc jwt-svid` and `wit-svid`: is each line true at a moment of the run, is the exit code a verdict on one moment, is nothing skipped or said twice? | every header over 4 algs, 5 typs, 3 kids; every `sub` with every `aud` up to two values; every `cnf` with every `iss`, absent, of another type, empty, no URL, and every kind of URL; every pair of dates around the clock, and every pair at the ends of a six-bit second, in both builds; the clock ticks up to three times: 92 000 states |
| `sockets` | for the endpoint commands: is each rule that binds the address judged once and truly, is the exit code the verdict on the address a client would dial, do the two documents differ only in the host? | both commands over every address of the instance, ports up to twice their three-bit width, and argument, environment, both or neither: 14 000 states |
| `rendering` | does a SARIF result resolve to its clause, at its level; is a problem hidden; is the exit code the one shown? | every report of up to 4 assertions over 3 clauses, two MUSTs of one section and a SHOULD, in 4 formats: 79 000 states |

*Why the bounds are enough.* No check of an ID looks at more than the first,
the last and any segment, which two segments tell apart (a third is there as
one path). A certificate's fields are finite, so only the SANs are sampled.
`splitPEM` keeps no memory but `interBlock`: five items hold two broken blocks
around a good one and text in each gap, and its properties are proved for every
length besides. A chain of a key, a leaf and an intermediate, plus longer ones
by hand, reaches every branch of the chain checks; the world has two roots of one
name with different keys, an unverifiable self-signature and a leaf for each way
of (not) naming its trust domain. A file can change at most twice
between two of its own calls (stat and open; open and read cannot tell), which timelines of three
folders cover; everything the two folder runs check but the end of the scan is proved for every timeline and folder.

A token's checks remember nothing of one another, so headers, subjects and
confirmations are varied one or two at a time around a compliant token; the two dates are varied together,
because the moment they share is the point. Six bits of seconds have the same two limits as sixty-four, and TokenProofs
proves the comparisons for every width. Three bits of port have the boundaries 0, 7 and 8. A renderer's loop remembers the rules it
has registered: four assertions hold a repeated rule around another one, and its invariants are
proved for every length.

`bundle.check` remembers nothing of an entry but its kid, so two entries that
share one and a third in any position reach every case; a name is
in the way of another one only by being equal to it, and three members hold a
repeated name around or beside another.

*Fairness.* `WF_vars(Scan \/ Judging)`: the checker is one thread the operating
system runs. `Publish` has none, as a provisioner may do nothing for ever. The open of
a FIFO is a state of its own, `hung`: the fairness does not get the process out of it, and
`ScanEnds` is claimed of timelines without a FIFO. `folder_rotation` states the fairness, which adds nothing to its
safety properties. `PemSplit` has weak fairness
of its loop. The other modules state no liveness: every action but the clock's `Tick`, which is bounded, moves `pc` or a loop's index forward.

*Assumptions.* The wall clock is not set back during a run (`Tick`). The citations of the table stay
apart as slugs (`SlugAssumption`; it holds of the 108 clauses of clauses.go).

Deadlock is checked in all runs; a process that ended (or hangs) stutters
explicitly.

### Disagreements

Each is a run that TLC finds violated, with the quotation in PROJECT.json.

- `torn_verdict`. A rotation between two compliant folders during the scan
  makes `scc` exit with 1: the old credential is judged against the new root.
  main.go says 1 means that a MUST clause is violated.
- `open_race`. "Only a regular file is opened" holds of the stat, not of the
  open that follows it: a name swapped for a FIFO in between blocks the process.
- `empty_fragment`. A SAN ending in `#` passes the no-fragment clause: the `#`
  is gone after `u.String()`. `scc id` fails the same text.
- `far_nbf`. An `nbf` of 2^63 - 62135596800 or later, which no clock reaches, passes "MUST NOT
  be in the future": `time.Unix` wraps it to the far past. The date is the `float64` that `encoding/json`
  makes of the number; out there these are 1024 seconds apart, so of the number in the token the boundary is 256 seconds later. `FarDatesAreTakenForPast` proves it of every such
  date and both architectures; an `exp` that late fails as past.

What the properties leave out, in full:

- `ReportIsTruthful` of both modules: a FAIL of the percent-encoding, trailing-slash or empty-or-dot clause of a path with a character `EscapedPath` has to
  escape (`BlamesNewPath`). `spiffe://td/a b%2F` fails the trailing-slash clause, which is true of what is judged, `/a%20b/`, and not of
  what is written. A PASS of these clauses is true even then, as is every line of the charset clause. No other property needs the
  exception: such a path violates the charset clause, so the exit code is right.
- `ReportIsTruthful` of SweepCommand: the no-fragment line of a SAN of `empty_fragment`, and the length line of a SAN that `String` takes
  across 2048 bytes (`ResizedSan`), as when the escapes it adds make it longer. The clause is a SHOULD and has no say in the exit code.
- `ExitIsCompliance` of SweepCommand: the SANs of `empty_fragment`.
- `ReportIsTruthful` and `VerdictAtAMoment` of TokenCommand: the dates of `far_nbf`. The second also leaves out tokens whose
  `nbf` is after their `exp`, which are valid at no moment but may pass within the leeway.

Differences that are modelled and have no run of their own:

- A leaf `spiffe://td:` has a port for the IDNoPort clause (id.go:67) and none for
  `ownTrustDomainUsable` (credentialfolder.go:462), which looks up a bundle for it.
- A `keys` that is no array gets a PASS and a FAIL line for the same clause
  (bundle.go:75); the README says one line per checked clause. `OneLinePerPart` excepts exactly that pair.
- When the bootstrap bundle cannot be read, `scc federation` exits with 2 and drops the
  report, failed MUST clauses and all (federation.go:189).
- The third part of a token is never decoded: `a.b.%%%` counts as compact serialisation, although the comment at
  jose.go:19 says it is "exactly three Base64URL parts".
- format.go:265 says clause text is unique across the table; it is not (the `exp` clause of the two token documents,
  four rules of the two endpoint documents). Rule identifiers are unique because the document is part of them.
- Chain completeness falls back to the anchors of other trust domains' bundles (clauses.go:351 says
  the own bundle only).
- A stdout that cannot be written makes the JSON and SARIF formats exit with 2 and the text format with the verdict.

## 4. Proofs

Every invariant the runs check is a theorem for all values of the constants, and so is the refinement of `FolderAudit`. A theorem's name differs from that of the property it proves; PROJECT.json pairs them.

The inductive invariants are not in the runs. Each was checked with TLC on its run's instance before it was
proved (add `INVARIANT IInv`, or `FInv`, from the proof module to the run's cfg). The proofs lean on named assumptions
about the constants, which TLC evaluates on every run:

| assumption | what it says of the code |
|---|---|
| `TagAssumption`, `NoneAssumption`, `AbsenceAssumption` | the empty tag is a tag; "no value" is not mistaken for a clause, an address or a file |
| `TrustDomainAssumption` | a name that `ToLower` changes has a bad character; the empty name has no bad one and is not long |
| `FolderAssumption`, `TimelineAssumption` | types of the constants; `svid.pem` is no trust bundle's name |
| `InvocationAssumption` (one per command module) | the dispatch calls these commands, the build is one of two, and what the libraries hand over has its type: an absent SAN has no URIs, a claim set, a bundle, a map and a configuration are what `encoding/json` can leave |
| `NameTagAssumption`, `KeyTagAssumption`, `EndpointTagAssumption` | tags tell apart what they are about: the quoted name of a map's entry and the position of a key set two entries apart, and these are not the tags of the parameters |
| `KidAssumption` | "absent" and "malformed" are not key ids |
| `WidthAssumption`, `ClockAssumption`, `PortAssumption` | leeway < epoch < largest int64; the clock of a running machine is further from 1970 than the leeway; the port has a width |
| `CitedAssumption`, `SlugAssumption`, `FilesAssumption` | as in section 3, and that a file is a sequence of items |

**ReportProofs** has no theorem of its own. It says what appending to a report does to its types,
to the topics its lines are about (`NoneTwiceInBoth`), to `Failed` (`FailedOfBoth`) and, the notion
the command proofs are built on, to `Judges(r, S, T)`: the report `r` has exactly one line for each clause of `S` and none for another, and the line
passes iff the clause is in `T`. Two reports over disjoint sets of clauses append to one over their union (`BothJudge`). `IdCheckJudges` is the result
about `id.Check`: for every text, which clauses it judges and which of them hold, whatever returned early.

**SweepProofs**, for every command line, text and certificate: `TypeCorrect`, `Truthful`, `OneLineEach`, `NoneLeftOut`, `ExitIsVerdict`.
None of the properties is inductive, because what a report lacks in the middle of a sweep depends on the calls to come. `IInv` says that what is written
and what is still ahead are, at every step, one fixed report: `report \o Ahead(inv, pc) = Whole(inv)`. Each action moves one check from the right to the left.
What remains is about `Whole` alone: each check judges clauses of its own (`WholeJudges`), each line
is true (`LinesTrue`), and a clause a check skips is outweighed by a MUST that fails elsewhere (`WholeVerdict`), which is what makes the early returns safe.
The lines excluded in section 3 are excluded here too, and no others: `EscapesTo`, a condition on `IdText`, is all the proof knows of a path escaped anew, and
`IdToldIsTrue` (ReportProofs) draws from it that a clause that passes there holds as written, and that the charset clause is right either way.

**TokenProofs**, for every token, clock, width and architecture: `TypeCorrect`, `OneLineEach`, `Truthful`, `NoneLeftOut`, `OneMomentVerdict`, and three
theorems about dates.
A date a `time.Time` can hold survives `UnixClaim` and `Unix` to the second (`DateIsKept`), so `PastIsExact` and `FutureIsExact` bound by how much a line about
a date can be off; `FarDatesAreTakenForPast` is the disagreement `far_nbf` for every width.
Here there is no fixed report: what is ahead depends on when it will be read. `IInv` says instead that there are two moments `e` and `n` of the run so far
for which the report is exactly what the clauses judged so far deserve, with `exp` read at `e` and `nbf` at `n`. The moments are bound
by an existential, so a step that reads a date chooses its own again; `ToldLater` is why it may (another moment changes
the answer to that date's clause only). `OneMomentVerdict` then has to find one moment that stands for both. `OneMoment` does: if `e` is too early for `nbf`, the
moment `nbf` less the tolerance lies between `e` and `n` and is not too late for `exp`, provided `nbf <= exp` (`Orderly`).

**BundleProofs**, for every bundle, map and configuration, of any length: `TypeCorrect`, `WholeVerdict`, `OnceForEachPart`, `EntriesJudged`, `KidVerdict`,
`FileOrder`. The two loops are nested and share one report, so "what is written plus what is ahead" would be a fixed report only for one bundle. `IInv` says instead
what the report is about so far and whether it has failed so far, each as a function of the place in the two loops.
`TopicsBefore`, `PartTopics`, `MapTopics` and `FedTopics` bound the former, and a piece that writes about something outside that bound repeats nothing (`WellWritten`).
`SpoiledBefore`, `MapSpoiled` and `FedSpoiled` are the latter: part of the bundle, of the map or of the configuration is bad.
At the last entry these are `GoodBundle`, `GoodMap` and `GoodConfig`, which have neither loop nor return.
That the verdict on key ids is exact needs the ids collected (`KidsAre`): they are in bijection with the token-signing entries
passed so far, so an id is in the list twice iff two entries have it. The early return for a `keys` that is no array, and the map entries that are no bundles, are cases of
the bound, not of the argument. The names of a map are two folds. Without induction over data, a fold is used as the function on prefixes of positions it is defined by, and
a position where it differed from the claim would have a least one (`LeastNat`): so `Distinct` is the names in order of first appearance (`DistinctIsFirstSeen`), and
`TrustDomainNames`, the token walk, those of the last object (`NamesOfLast`), which is the one `encoding/json` keeps. That the two passes agree is `EntriesAre`.

**SocketProofs**, for every address, port width and table of clauses: `TypeCorrect`, `Truthful`, `Complete`, `ExitIsVerdict`, `Shape`.
`IInv` says which rules have their line at each point (`Checked`), that the report accounts for exactly these, and on which branch of the sweep the address
is (`OnPath`). Complete follows since at the end `Checked` is `Rules`, which is stated without the sweep. `Shape` compares two evaluations of the
same address and needs no step.

**CredentialFolderProofs**, for every set of timelines, every certificate world and every directory order.
`TypeCorrect`, `CapturesTheorem`, `ReadOrderTheorem` and `HangTheorem` need `IInv`: `CapturesAreVersions` is not
inductive, as between open and read the file in hand is what it was in a folder that may be gone. `IInv` adds
what is known of the file in hand (`VisitInv`): when it is open, it is the file of
the folder it was opened in, and nothing filed before is younger; when it is about to be opened, it was
regular in some folder since the listing.

`OneLineEach`, `BundlesJudged` and `ExitOnSnapshot` need more, `FInv`: each listed file is either filed or still to do, never both and never twice
(`FiledInv`); what the lines of the report are about at each point (`LinesInv`); and that the report has failed iff one of the checks made so far fails (`FailuresInv`).
The last one reduces the exit code to a statement about the checks, which the first part of the module settles: for each check, the topics it writes and the
condition under which it fails, and from these that together they fail iff section 2 (`Compliant`, which has no
order and no early return) is violated. The part with content is the chain: that the code's walk over keys, leaf and intermediates, with the holes it leaves for blocks that are no
certificates and its early returns, comes to the same as `Folders`' reading of the whole file (`KeyedChain`, `CredentialMeaning`), and that the anchors it looks
up among the bundles it filed are those of the folder (`OwnIsShown`, `ChainAnchorsAre`).

`Refinement` is `Spec => Implements`. Under the mapping of section 2 each scan step is a `LookAt` or a stutter: a file is looked at when its stat or open
fails or it is open, and reading it only turns what was seen into what was filed. The checks are stutters, `Publish` is `Provision` and `Emit` is `Conclude`. It
uses `FInv`: that nothing is filed twice makes the abstract view a function.

**PemSplitProofs**: `TypeCorrect`, `InterBlockTheorem`, `NothingLostTheorem`,
`OrderTheorem`, for any file of any length. The theorems speak of the result;
what is inductive is that at every turn of the loop both verdicts are exact for
the part that was stepped over (`Scanned`), which is why the loop may forget it.

**RenderingProofs**: `TypeCorrect`, `IInvHolds`, `RulesAlwaysResolve`, `LevelsAlwaysAgree`, `ExitAlwaysShown`, for
reports of any length and any table of clauses. No property is inductive alone.
`IInv` adds what the loop has built: a status other than pass follows the severity (`StatusFollowsSeverity`); every rule is that of its clause,
the set of seen identifiers is that of the rules, and after `i - 1` turns the results are those of the first `i - 1` assertions (`SarifInv`);
and where the document is at determines the summary and the exit code (`PhaseInv`). That a result resolves to the rule of its own clause
uses `SlugAssumption`: equal identifiers are equal clauses.

What the document tells is a second invariant, `ToldInv`, inductive given `IInv`: there is a
numbering, in order, of the assertions before the `i`-th that the format has something to say of, and the document's parts word them so. A turn extends the
numbering or leaves it. `NothingHidden` is stated with that numbering instead of the length of a filtered sequence, which says the same and
needs no induction over data.

*Only model-checked.* The liveness properties `Returns` and `ScanEnds`: liveness under fairness is out of the prover's reach.

## 5. Not modelled, and why

- The lists of near-miss names (`misnamed`, `credMisnamed`): they word a detail.
- `maxFileSize` to the byte: a file is over the limit or not.
- Columns, colours, details and SARIF locations: formatting. CredentialFolder's `Emit` leaves out that a
  renderer fails, as it does its usage errors, the code being that of the other commands.
- `url.Parse`, `netip`, `crypto/x509`, `encoding/json`, `encoding/pem`, the file system, the clock: external,
  modelled by what the code sees of them.
- Signatures, which the code does not verify either.
- `run`'s dispatch, version and help: constants. Build and CI files.

## 6. Plan

Every checker is modelled and every invariant is proved. What is left:

1. `PemSplit` and `CredentialFolder` are proved about apart. What connects them is that a captured file's blocks are a result of `splitPEM`; a theorem
   would say that what `NothingLost` allows to be missing never makes a folder look compliant.
2. The disagreements of section 3 as theorems where they are about values rather than about a race, as `FarDatesAreTakenForPast` is: the empty fragment first.
3. The two liveness properties stay with TLC.
