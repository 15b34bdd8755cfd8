---------------------------- MODULE FolderAudit ----------------------------
(***************************************************************************)
(* What `scc credential-folder` promises, abstractly: it lists the folder  *)
(* once, looks at each file the spec names exactly once, each at a single  *)
(* moment, and exits with the verdict on what it saw.  CredentialFolder    *)
(* implements this; how it reads, orders and words its checks is not       *)
(* visible here.  Nothing ties the moments of two files together.          *)
(***************************************************************************)
EXTENDS Folders

VARIABLES
    timeline, now,   \* the provisioner's folders, and the one in place
    listing,         \* the spec-named files listed, None before
    view,            \* what has been seen of them
    exit             \* the exit code, -1 while it runs

auditVars == <<timeline, now, listing, view, exit>>

AuditInit ==
    /\ timeline \in Timelines
    /\ now = 1
    /\ listing = None
    /\ view = << >>
    /\ exit = -1

Provision ==
    /\ now < Len(timeline)
    /\ now' = now + 1
    /\ UNCHANGED <<timeline, listing, view, exit>>

List ==
    /\ listing = None /\ exit = -1 /\ timeline[now].listable
    /\ listing' = DOMAIN timeline[now].node \cap SpecName
    /\ UNCHANGED <<timeline, now, view, exit>>

CannotList ==
    /\ listing = None /\ exit = -1 /\ ~timeline[now].listable
    /\ exit' = 2
    /\ UNCHANGED <<timeline, now, listing, view>>

LookAt(n) ==
    /\ listing # None /\ n \in listing \ DOMAIN view
    /\ view' = [m \in DOMAIN view \cup {n} |->
                   IF m = n THEN Look(timeline[now], n) ELSE view[m]]
    /\ UNCHANGED <<timeline, now, listing, exit>>

Conclude ==
    /\ listing # None /\ DOMAIN view = listing /\ exit = -1
    /\ exit' = VerdictOf(view)
    /\ UNCHANGED <<timeline, now, listing, view>>

AuditNext ==
    \/ Provision \/ List \/ CannotList \/ Conclude
    \/ \E n \in SpecName : LookAt(n)

AuditSpec == AuditInit /\ [][AuditNext]_auditVars
=============================================================================
