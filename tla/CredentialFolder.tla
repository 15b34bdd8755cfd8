-------------------------- MODULE CredentialFolder --------------------------
(***************************************************************************)
(* One run of `scc credential-folder`: credentialfolder.Check lists the    *)
(* folder, reads the files the spec names one by one and judges them, while *)
(* the provisioning system may replace the folder's contents (external).   *)
(*                                                                         *)
(* The provisioner moves through a timeline of folders, each complete: it  *)
(* swaps the directory behind a symbolic link, or renames whole files into *)
(* place.  So a name resolves in the folder of the moment, and an open     *)
(* file stays the one that was opened.                                     *)
(***************************************************************************)
EXTENDS Folders, FiniteSets

VARIABLES
    timeline,      \* what the provisioner writes, folder by folder
    now,           \* the folder in place
    listedAt,      \* history: the folder that was listed
    todo,          \* directory entries still to visit, in NameOrder
    handle,        \* the file readSpecFile has open, None if none
    cred,          \* the credential bundle as read, None if not listed
    trust,         \* the trust bundles as read, in listing order
    chain,         \* the parsed certificate chain, << >> for nil
    next,          \* the trust bundle checkTrustBundle is at
    report, exit, pc

scanVars == <<listedAt, todo, handle, cred, trust>>
checkVars == <<chain, next, report, exit>>
vars == <<timeline, now, scanVars, checkVars, pc>>

Init ==
    /\ timeline \in Timelines
    /\ now = 1
    /\ listedAt = 1
    /\ todo = {}
    /\ handle = None
    /\ cred = None
    /\ trust = << >>
    /\ chain = << >>
    /\ next = 1
    /\ report = << >>
    /\ exit = -1
    /\ pc = "list"

---------------------------------------------------------------------------
(* The provisioner, external                                               *)

Publish ==
    /\ now < Len(timeline)
    /\ now' = now + 1
    /\ UNCHANGED <<timeline, scanVars, checkVars, pc>>

---------------------------------------------------------------------------
(* The scan                                                                *)

Here == timeline[now]

ListFolder ==
    /\ pc = "list" /\ Here.listable
    /\ todo' = DOMAIN Here.node
    /\ listedAt' = now
    /\ pc' = "scan"
    /\ UNCHANGED <<timeline, now, handle, cred, trust, checkVars>>

\* CheckDir's error: no report.
ListFails ==
    /\ pc = "list" /\ ~Here.listable
    /\ exit' = 2
    /\ pc' = "done"
    /\ UNCHANGED <<timeline, now, scanVars, chain, next, report>>

\* The first of some entries in ReadDir's order, and the one the loop is at.
FirstOf(names) ==
    NameOrder[CHOOSE i \in DOMAIN NameOrder :
                  /\ NameOrder[i] \in names
                  /\ \A k \in 1..(i - 1) : NameOrder[k] \notin names]

Visiting == FirstOf(todo)

\* Mutant: the loop stays at the entry it skips.
SkipOtherStays ==
    /\ pc = "scan" /\ todo # {} /\ Visiting \notin SpecName
    /\ UNCHANGED vars

\* An entry the spec does not name is left alone.
SkipOther ==
    /\ pc = "scan" /\ todo # {} /\ Visiting \notin SpecName
    /\ todo' = todo \ {Visiting}
    /\ UNCHANGED <<timeline, now, listedAt, handle, cred, trust, checkVars, pc>>

\* Mutant: trust bundles are put in front.
ReturnInFront(problem, raw, at) ==
    LET file == [name |-> Visiting, problem |-> problem, raw |-> raw, at |-> at]
    IN  /\ IF Visiting = CredentialBundleName
           THEN cred' = file /\ UNCHANGED trust
           ELSE trust' = <<file>> \o trust /\ UNCHANGED cred
        /\ todo' = todo \ {Visiting}
        /\ handle' = None
        /\ pc' = "scan"
        /\ UNCHANGED <<timeline, now, listedAt, checkVars>>

\* readSpecFile returns, and the loop files the result and goes on; `at` is
\* history: the folder the result is from.
Return(problem, raw, at) ==
    LET file == [name |-> Visiting, problem |-> problem, raw |-> raw, at |-> at]
    IN  /\ IF Visiting = CredentialBundleName
           THEN cred' = file /\ UNCHANGED trust
           ELSE trust' = Append(trust, file) /\ UNCHANGED cred
        /\ todo' = todo \ {Visiting}
        /\ handle' = None
        /\ pc' = "scan"
        /\ UNCHANGED <<timeline, now, listedAt, checkVars>>

IsRegular(node) == node.kind \in {"file", "sealed", "flaky", "big"}

Opens(node) == node.kind \in {"file", "flaky", "big", "dir"}

Found == Visiting \in DOMAIN Here.node

\* Mutant: whatever exists is opened.
StatExists ==
    /\ pc = "scan" /\ todo # {} /\ Visiting \in SpecName
    /\ Found
    /\ pc' = "open"
    /\ UNCHANGED <<timeline, now, scanVars, checkVars>>

StatRegular ==
    /\ pc = "scan" /\ todo # {} /\ Visiting \in SpecName
    /\ Found /\ IsRegular(Here.node[Visiting])
    /\ pc' = "open"
    /\ UNCHANGED <<timeline, now, scanVars, checkVars>>

\* Mutant: what cannot be opened counts as an empty file, a redaction.
StatRedacts ==
    /\ pc = "scan" /\ todo # {} /\ Visiting \in SpecName
    /\ Found => ~IsRegular(Here.node[Visiting])
    /\ Return(FALSE, NoContent, now)

\* The name is gone or dangles, or is not a regular file.
StatRejects ==
    /\ pc = "scan" /\ todo # {} /\ Visiting \in SpecName
    /\ Found => ~IsRegular(Here.node[Visiting])
    /\ Return(TRUE, NoContent, now)

Open ==
    /\ pc = "open" /\ Found /\ Opens(Here.node[Visiting])
    /\ handle' = [node |-> Here.node[Visiting], at |-> now]
    /\ pc' = "read"
    /\ UNCHANGED <<timeline, now, listedAt, todo, cred, trust, checkVars>>

OpenFails ==
    /\ pc = "open"
    /\ Found => Here.node[Visiting].kind \in {"sealed", "dangling"}
    /\ Return(TRUE, NoContent, now)

\* The open of a FIFO does not return.
OpenHangs ==
    /\ pc = "open" /\ Found /\ Here.node[Visiting].kind = "fifo"
    /\ pc' = "hung"
    /\ UNCHANGED <<timeline, now, scanVars, checkVars>>

Read ==
    /\ pc = "read" /\ handle.node.kind = "file"
    /\ Return(FALSE, handle.node.content, handle.at)

\* Mutant: a failed read counts as an empty file, a redaction.
ReadFailsRedacts ==
    /\ pc = "read" /\ handle.node.kind # "file"
    /\ Return(FALSE, NoContent, handle.at)

\* An I/O error (a directory cannot be read either), or over the limit.
ReadFails ==
    /\ pc = "read" /\ handle.node.kind # "file"
    /\ Return(TRUE, NoContent, handle.at)

---------------------------------------------------------------------------
(* The checks                                                              *)

Record(assertions) == report' = report \o assertions

Presence ==
    /\ pc = "scan" /\ todo = {}
    /\ Record(CheckPresence(cred, trust))
    /\ pc' = "credential"
    /\ UNCHANGED <<timeline, now, scanVars, chain, next, exit>>

\* A bundle that is missing, unreadable or redacted has no content to check.
ToCheck == cred # None /\ ~cred.problem /\ ~cred.raw.empty

CredentialBundle ==
    /\ pc = "credential" /\ ToCheck
    /\ Record(CheckCredentialBundle(cred.raw, Anchors(RawOf(ToSet(trust)))))
    /\ chain' = ChainOf(cred.raw.blocks)
    /\ pc' = "trust"
    /\ UNCHANGED <<timeline, now, scanVars, next, exit>>

NoCredentialBundle ==
    /\ pc = "credential" /\ ~ToCheck
    /\ pc' = "trust"
    /\ UNCHANGED <<timeline, now, scanVars, checkVars>>

TrustBundle ==
    /\ pc = "trust" /\ next <= Len(trust)
    /\ Record(CheckTrustBundle(trust[next]))
    /\ next' = next + 1
    /\ UNCHANGED <<timeline, now, scanVars, chain, exit, pc>>

OwnTrustBundle ==
    /\ pc = "trust" /\ next > Len(trust)
    /\ IF chain # << >>
       THEN Record(CheckOwnTrustBundle(chain, trust))
       ELSE UNCHANGED report
    /\ pc' = "emit"
    /\ UNCHANGED <<timeline, now, scanVars, chain, next, exit>>

\* Mutant: the exit code is the number of failed assertions.
EmitCount ==
    /\ pc = "emit"
    /\ exit' = Cardinality({i \in DOMAIN report : report[i].status = "fail"})
    /\ pc' = "done"
    /\ UNCHANGED <<timeline, now, scanVars, chain, next, report>>

\* Rendering is modelled in SweepCommand.
Emit ==
    /\ pc = "emit"
    /\ exit' = ExitOf(report)
    /\ pc' = "done"
    /\ UNCHANGED <<timeline, now, scanVars, chain, next, report>>

---------------------------------------------------------------------------

Scan ==
    \/ ListFolder \/ ListFails \/ SkipOther \/ StatRegular \/ StatRejects
    \/ Open \/ OpenFails \/ OpenHangs \/ Read \/ ReadFails

Judging ==
    \/ Presence \/ CredentialBundle \/ NoCredentialBundle \/ TrustBundle
    \/ OwnTrustBundle \/ Emit

Stopped == pc \in {"done", "hung"} /\ UNCHANGED vars

Next == Publish \/ Scan \/ Judging \/ Stopped

Spec == Init /\ [][Next]_vars

\* The checker is one thread; the provisioner owes nothing.
FairSpec == Spec /\ WF_vars(Scan \/ Judging)

---------------------------------------------------------------------------
(* Properties                                                              *)

Capture(names) == [name : names, problem : BOOLEAN, raw : Content, at : Nat]

OpenFile == [node : Node, at : Nat]

\* None is not mistaken for a file that was read, nor for a set of names.
ASSUME AbsenceAssumption ==
    None \notin Capture({CredentialBundleName}) /\ \A S \in SUBSET SpecName : S # None

\* The types of credentialfolder.Check's state.
TypeOK ==
    /\ IsTimeline(timeline)
    /\ now \in 1..Len(timeline)
    /\ listedAt \in 1..now
    /\ todo \subseteq Name
    /\ handle \in OpenFile \cup {None}
    /\ cred \in Capture({CredentialBundleName}) \cup {None}
    /\ trust \in Seq(Capture(TrustBundleName))
    /\ chain \in Seq(DOMAIN Cert)
    /\ next \in 1..(Len(trust) + 1)
    /\ report \in Seq(Assertion)
    /\ exit \in {-1, 0, 1, 2}
    /\ pc \in {"list", "scan", "open", "read", "hung", "credential", "trust",
               "emit", "done"}

\* The spec-named files that were listed.
Listed == DOMAIN timeline[listedAt].node \cap SpecName

Captures == ToSet(trust) \cup ({cred} \ {None})

FindingIn(c) == [problem |-> c.problem, raw |-> c.raw]

\* Whatever the provisioner does between stat, open and read, each file is
\* judged by what it was in one folder, in place at or after the listing:
\* never by half of one version and half of another.
CapturesAreVersions ==
    \A c \in Captures :
        /\ c.at \in listedAt..now
        /\ FindingIn(c) = Look(timeline[c.at], c.name)

\* The folders the trust bundles are from never go back in time.
TrustReadInOrder ==
    \A i, j \in DOMAIN trust : i < j => trust[i].at <= trust[j].at

\* The refinement mapping to FolderAudit.  A file counts as seen from its open
\* on: what is read later is what was opened.
Seen ==
    [n \in {c.name : c \in Captures} |->
        FindingIn(CHOOSE c \in Captures : c.name = n)]

AbstractView ==
    IF pc = "read"
    THEN [n \in DOMAIN Seen \cup {Visiting} |->
             IF n = Visiting THEN FindingOf(handle.node) ELSE Seen[n]]
    ELSE Seen

AbstractListing ==
    IF pc = "list" \/ exit = 2 THEN None ELSE Listed

Audit == INSTANCE FolderAudit WITH listing <- AbstractListing, view <- AbstractView

\* Check lists once, takes each listed file as it is at one moment, and exits
\* with the verdict on exactly what it saw: it implements FolderAudit.
Implements == Audit!AuditSpec

\* With no update between the listing and the end, the exit code is the verdict
\* on the folder: the order, the early returns and the fallbacks of the checks
\* neither hide a violated MUST nor make a SHOULD fatal.
SnapshotVerdict ==
    pc = "done" /\ exit # 2 /\ now = listedAt
        => exit = VerdictOf(ViewOf(timeline[now]))

\* "A spec-named entry that cannot be read is a finding about that file, not a
\* reason to stop" (Check): every listed trust bundle gets its verdict, once,
\* whatever its own or another file's problem.
EveryBundleJudged ==
    pc \in {"emit", "done"} /\ exit # 2 =>
        \A n \in Listed \cap TrustBundleName :
            Cardinality({ i \in DOMAIN report :
                report[i].clause = "FSDTrustBundleCertificates"
                /\ report[i].about = n }) = 1

\* "one line per checked clause" (README), here for each file.
OneLinePerFile ==
    \A i, j \in DOMAIN report :
        report[i].clause = report[j].clause /\ report[i].about = report[j].about
            => i = j

\* A FIFO that is in the folder from the listing on never hangs the scan; only
\* one put in place of a regular file between the stat and the open does.
HangsOnlyOnRace ==
    pc = "hung" => \E v \in listedAt..(now - 1) :
                       /\ Visiting \in DOMAIN timeline[v].node
                       /\ IsRegular(timeline[v].node[Visiting])

\* No FIFO is ever published.
NoFifo ==
    \A v \in DOMAIN timeline : \A n \in DOMAIN timeline[v].node :
        timeline[v].node[n].kind # "fifo"

\* Check's loop over the entries ends and the process exits, whatever else it
\* finds and however the provisioner interferes, when no FIFO ever appears.
ScanEnds == NoFifo => <>(pc = "done")

---------------------------------------------------------------------------
(* What is inductive: a file in hand is the one it was in the folder it was *)
(* opened in, and everything filed before it is no younger.                 *)

VisitInv ==
    /\ pc \in {"open", "read"} => Visiting \in SpecName
    /\ pc = "open" =>
         \E v \in listedAt..now : /\ Visiting \in DOMAIN timeline[v].node
                                  /\ IsRegular(timeline[v].node[Visiting])
    /\ pc = "read" =>
         /\ handle \in OpenFile
         /\ handle.at \in listedAt..now
         /\ Visiting \in DOMAIN timeline[handle.at].node
         /\ handle.node = timeline[handle.at].node[Visiting]
         /\ \A i \in DOMAIN trust : trust[i].at <= handle.at

\* The inductive invariant of Check's scan: together with the types and the
\* three properties of what is filed, what is known of the file in hand.
IInv ==
    /\ TypeOK
    /\ pc = "list" => cred = None /\ trust = << >>
    /\ VisitInv
    /\ CapturesAreVersions
    /\ TrustReadInOrder
    /\ HangsOnlyOnRace

---------------------------------------------------------------------------
(* What the repository says of the checker, and the code does not do       *)

\* "Only a regular file is opened" (readSpecFile).
OnlyRegularFilesOpened ==
    pc # "hung" /\ (handle # None => IsRegular(handle.node))

\* "Exit code is 1 if any MUST clause is violated, 0 otherwise" (cmd/scc): a
\* run that exits with 1 has met a folder that violates one.
ViolationIsInSomeFolder ==
    pc = "done" /\ exit = 1 =>
        \E v \in listedAt..now : ~Compliant(ViewOf(timeline[v]))
=============================================================================
