----------------------------- MODULE SiteLifecycle -----------------------------
(***************************************************************************)
(* Deleting, restoring and purging one site (DeleteSite, RestoreSite and   *)
(* PurgeArchive of server/internal/deploy/deploy.go) while deploys make    *)
(* the site anew and the API stores uploads (server/internal/uploads).     *)
(*                                                                         *)
(* A site is three things that change one after the other: the directory   *)
(* sites/<site>, the directory uploads/<site> and the catalog row, whose   *)
(* deletion cascades to the rows of its uploads.  None of these commands   *)
(* takes a lock.  The releases inside a site directory are HostDeploy's;   *)
(* here a site directory is a tree: fresh when os.MkdirAll makes it, the   *)
(* same after every rename.  It counts as there from its first entry on.   *)
(***************************************************************************)
CONSTANTS
    Trees,       \* the directories that sites/<site> can be
    Deploys,     \* a prepare and its activate
    Files,       \* uploads
    Archives,    \* directories of .trash/sites, named by the time of the delete
    Admins,      \* operators running delete, restore and purge
    NoTree, NoArchive

ASSUME TreeAssumption == NoTree \notin Trees

VARIABLES
    site,        \* sites/<site>
    updir,       \* whether uploads/<site> exists
    files,       \* the files under uploads/<site>
    used,        \* the archive names taken so far
    there,       \* the archives that exist
    boxed,       \* per archive: its site directory
    boxdir,      \* the archives with an uploads directory
    boxfiles,    \* per archive: the files in its uploads directory
    row,         \* whether the catalog has the site
    rows,        \* the rows of uploads
    gone,        \* trees and files removed by purge
    pc,          \* per operator: where the command is
    arch,        \* per operator: the archive the command works on
    moved,       \* the operators whose restore has moved the uploads
    held,        \* per operator: the site directory that purge has opened
    heldFiles,   \* per operator: the files that purge has found
    dep,         \* per deploy: how far it is
    into,        \* per deploy: the site directory it staged into
    made,        \* the site directories made so far
    linked,      \* those that have a current
    put,         \* per upload: how far its handler is
    alone        \* whether all this happens one at a time, and no command dies

trash == <<used, there, boxed, boxdir, boxfiles>>
dirs == <<site, updir, files, trash, gone>>
catalog == <<row, rows>>
command == <<pc, arch, moved, held, heldFiles>>
deploys == <<dep, into, made, linked>>
api == <<deploys, put>>
vars == <<dirs, catalog, command, api, alone>>

Sites == Trees \cup {NoTree}
AdminPC == {"idle", "archiving", "boxing", "sweeping", "unlisting", "moving", "unboxing",
            "recording", "undoUploads", "undoSite", "tidying", "purging"}
DeployPC == {"idle", "made", "staged", "prepared", "locked", "swapped", "ended"}
UploadPC == {"idle", "admitted", "written", "kept", "deleting", "over"}

TypeOK ==
    /\ site \in Sites
    /\ updir \in BOOLEAN
    /\ files \in SUBSET Files
    /\ used \in SUBSET Archives
    /\ there \in SUBSET Archives
    /\ boxed \in [Archives -> Sites]
    /\ boxdir \in SUBSET Archives
    /\ boxfiles \in [Archives -> SUBSET Files]
    /\ row \in BOOLEAN
    /\ rows \in SUBSET Files
    /\ gone \in SUBSET (Trees \cup Files)
    /\ pc \in [Admins -> AdminPC]
    /\ arch \in [Admins -> Archives \cup {NoArchive}]
    /\ moved \in SUBSET Admins
    /\ held \in [Admins -> Sites]
    /\ heldFiles \in [Admins -> SUBSET Files]
    /\ dep \in [Deploys -> DeployPC]
    /\ into \in [Deploys -> Sites]
    /\ made \in SUBSET Trees
    /\ linked \in SUBSET Trees
    /\ put \in [Files -> UploadPC]
    /\ alone \in BOOLEAN

Init ==
    /\ site = NoTree /\ updir = FALSE /\ files = {}
    /\ used = {} /\ there = {} /\ boxdir = {}
    /\ boxed = [x \in Archives |-> NoTree]
    /\ boxfiles = [x \in Archives |-> {}]
    /\ row = FALSE /\ rows = {}
    /\ gone = {}
    /\ pc = [a \in Admins |-> "idle"]
    /\ arch = [a \in Admins |-> NoArchive]
    /\ moved = {}
    /\ held = [a \in Admins |-> NoTree]
    /\ heldFiles = [a \in Admins |-> {}]
    /\ dep = [d \in Deploys |-> "idle"]
    /\ into = [d \in Deploys |-> NoTree]
    /\ made = {} /\ linked = {}
    /\ put = [f \in Files |-> "idle"]
    /\ alone \in BOOLEAN

\* Nothing is under way.
Quiet ==
    /\ \A a \in Admins : pc[a] = "idle"
    /\ \A d \in Deploys : dep[d] \in {"idle", "ended"}
    /\ \A f \in Files : put[f] \notin {"admitted", "written", "deleting"}

MayStart == alone => Quiet

AdminGoto(a, step) == pc' = [pc EXCEPT ![a] = step] /\ UNCHANGED <<arch, moved, held, heldFiles>>

AdminEnd(a) ==
    /\ pc' = [pc EXCEPT ![a] = "idle"]
    /\ arch' = [arch EXCEPT ![a] = NoArchive]
    /\ moved' = moved \ {a}
    /\ held' = [held EXCEPT ![a] = NoTree]
    /\ heldFiles' = [heldFiles EXCEPT ![a] = {}]

(***************************************************************************)
(* Deploys, in as much detail as the directories and the row need          *)
(***************************************************************************)
\* os.MkdirAll of sites/<site>: a fresh directory unless there is one.
MakeSite ==
    IF site # NoTree
    THEN UNCHANGED <<site, made>>
    ELSE \E t \in Trees \ made : site' = t /\ made' = made \cup {t}

DeployGoto(d, step) == dep' = [dep EXCEPT ![d] = step]

DeployEnd(d) == DeployGoto(d, "ended") /\ into' = [into EXCEPT ![d] = NoTree]

\* Prepare makes the directories and the config file of the site.
DeployMake(d) ==
    /\ dep[d] = "idle"
    /\ MayStart
    /\ MakeSite
    /\ DeployGoto(d, "made")
    /\ UNCHANGED <<updir, files, trash, gone, catalog, command, into, linked, put>>

\* Then the lock file and the staging directory, and again the site's if it is gone.
DeployStage(d) ==
    /\ dep[d] = "made"
    /\ MakeSite
    /\ into' = [into EXCEPT ![d] = site']
    /\ DeployGoto(d, "staged")
    /\ UNCHANGED <<updir, files, trash, gone, catalog, command, linked, put>>

\* EnsureSite.
DeployRow(d) ==
    /\ dep[d] = "staged"
    /\ row' = TRUE
    /\ DeployGoto(d, "prepared")
    /\ UNCHANGED <<dirs, rows, command, into, made, linked, put>>

\* Activate opens the lock file, in a directory that withLock makes if it must.
DeployLock(d) ==
    /\ dep[d] = "prepared"
    /\ MakeSite
    /\ DeployGoto(d, "locked")
    /\ UNCHANGED <<updir, files, trash, gone, catalog, command, into, linked, put>>

\* Activate needs the staged tree where prepare put it.
DeploySwap(d) ==
    /\ dep[d] = "locked"
    /\ site # NoTree /\ site = into[d]
    /\ linked' = linked \cup {site}
    /\ DeployGoto(d, "swapped")
    /\ UNCHANGED <<dirs, catalog, command, into, made, put>>

\* The directory is deleted while activate looks at it: its MkdirAll of releases/ makes
\* another one, to which there is nothing to rename.
DeployLate(d) ==
    /\ dep[d] = "locked"
    /\ site = NoTree
    /\ MakeSite
    /\ DeployEnd(d)
    /\ UNCHANGED <<updir, files, trash, gone, catalog, command, linked, put>>

\* RecordDeploy inserts the row if it is not there.
DeployRecord(d) ==
    /\ dep[d] = "swapped"
    /\ row' = TRUE
    /\ DeployEnd(d)
    /\ UNCHANGED <<dirs, rows, command, made, linked, put>>

\* An error of any call in between, or a command that is never run or dies: what is made
\* and written stays.
DeployFails(d) ==
    /\ dep[d] \in {"made", "staged", "prepared", "locked", "swapped"}
    /\ DeployEnd(d)
    /\ UNCHANGED <<dirs, catalog, command, made, linked, put>>

(***************************************************************************)
(* Uploads                                                                 *)
(***************************************************************************)
\* The server admits the request when the site has a current (siteExists).
UploadAdmit(f) ==
    /\ put[f] = "idle"
    /\ MayStart
    /\ site \in linked
    /\ put' = [put EXCEPT ![f] = "admitted"]
    /\ UNCHANGED <<dirs, catalog, command, deploys>>

\* SaveRaw writes the file, then the row.
UploadWrite(f) ==
    /\ put[f] = "admitted"
    /\ updir' = TRUE
    /\ files' = files \cup {f}
    /\ put' = [put EXCEPT ![f] = "written"]
    /\ UNCHANGED <<site, trash, gone, catalog, command, deploys>>

\* Without the site's row, or on an error, the insert fails and the file is removed.
UploadInsert(f) ==
    /\ put[f] = "written"
    /\ \/ /\ row
          /\ rows' = rows \cup {f}
          /\ put' = [put EXCEPT ![f] = "kept"]
          /\ UNCHANGED files
       \/ /\ files' = files \ {f}
          /\ put' = [put EXCEPT ![f] = "over"]
          /\ UNCHANGED rows
    /\ UNCHANGED <<site, updir, trash, gone, row, command, deploys>>

\* Manager.Delete removes the row, then the file.
UploadDelete(f) ==
    /\ put[f] = "kept"
    /\ MayStart
    /\ f \in rows
    /\ rows' = rows \ {f}
    /\ put' = [put EXCEPT ![f] = "deleting"]
    /\ UNCHANGED <<dirs, row, command, deploys>>

UploadUnlink(f) ==
    /\ put[f] = "deleting"
    /\ files' = files \ {f}
    /\ put' = [put EXCEPT ![f] = "over"]
    /\ UNCHANGED <<site, updir, trash, gone, catalog, command, deploys>>

(***************************************************************************)
(* DeleteSite                                                              *)
(***************************************************************************)
DeleteLook(a) ==
    /\ pc[a] = "idle"
    /\ MayStart
    /\ IF site # NoTree
       THEN \E x \in Archives \ used :
                /\ used' = used \cup {x}
                /\ there' = there \cup {x}
                /\ pc' = [pc EXCEPT ![a] = "archiving"]
                /\ arch' = [arch EXCEPT ![a] = x]
       ELSE /\ pc' = [pc EXCEPT ![a] = "sweeping"]
            /\ UNCHANGED <<used, there, arch>>
    /\ UNCHANGED <<site, updir, files, boxed, boxdir, boxfiles, gone, catalog,
                   moved, held, heldFiles, api>>

DeleteSiteDir(a) ==
    /\ pc[a] = "archiving"
    /\ IF site = NoTree
       THEN AdminEnd(a) /\ UNCHANGED <<site, boxed>>
       ELSE /\ boxed' = [boxed EXCEPT ![arch[a]] = site]
            /\ site' = NoTree
            /\ AdminGoto(a, "boxing")
    /\ UNCHANGED <<updir, files, used, there, boxdir, boxfiles, gone, catalog, api>>

\* Mutant: only the site directory goes to the archive; the uploads are removed.
DeleteUploads_Remove(a) ==
    /\ pc[a] = "boxing"
    /\ updir' = FALSE
    /\ files' = {}
    /\ AdminGoto(a, "unlisting")
    /\ UNCHANGED <<site, trash, gone, catalog, api>>

DeleteUploads(a) ==
    /\ pc[a] = "boxing"
    /\ IF updir
       THEN /\ boxdir' = boxdir \cup {arch[a]}
            /\ boxfiles' = [boxfiles EXCEPT ![arch[a]] = files]
            /\ updir' = FALSE
            /\ files' = {}
       ELSE UNCHANGED <<boxdir, boxfiles, updir, files>>
    /\ AdminGoto(a, "unlisting")
    /\ UNCHANGED <<site, used, there, boxed, gone, catalog, api>>

\* No site directory: whatever is left of the uploads is removed, not archived.
DeleteSweep(a) ==
    /\ pc[a] = "sweeping"
    /\ updir' = FALSE
    /\ files' = {}
    /\ AdminGoto(a, "unlisting")
    /\ UNCHANGED <<site, trash, gone, catalog, api>>

\* Store.DeleteSite, with the cascade.
DeleteRow(a) ==
    /\ pc[a] = "unlisting"
    /\ row' = FALSE
    /\ rows' = {}
    /\ AdminEnd(a)
    /\ UNCHANGED <<dirs, api>>

(***************************************************************************)
(* RestoreSite                                                             *)
(***************************************************************************)
\* The path of an archive is printed when its delete ends.
Printed(x) ==
    \A b \in Admins : arch[b] = x => pc[b] \notin {"archiving", "boxing", "unlisting"}

RestoreLook(a, x) ==
    /\ pc[a] = "idle"
    /\ MayStart
    /\ Printed(x)
    /\ boxed[x] # NoTree
    /\ site = NoTree
    /\ pc' = [pc EXCEPT ![a] = "moving"]
    /\ arch' = [arch EXCEPT ![a] = x]
    /\ UNCHANGED <<dirs, catalog, moved, held, heldFiles, api>>

\* Mutant: rename(2) replaced by a move that overwrites what is there.
RestoreMove_Overwrite(a) ==
    /\ pc[a] = "moving"
    /\ IF boxed[arch[a]] # NoTree
       THEN /\ site' = boxed[arch[a]]
            /\ boxed' = [boxed EXCEPT ![arch[a]] = NoTree]
            /\ AdminGoto(a, "unboxing")
       ELSE AdminEnd(a) /\ UNCHANGED <<site, boxed>>
    /\ UNCHANGED <<updir, files, used, there, boxdir, boxfiles, gone, catalog, api>>

\* A directory cannot be renamed onto one that has something in it.
RestoreMove(a) ==
    /\ pc[a] = "moving"
    /\ IF boxed[arch[a]] # NoTree /\ site = NoTree
       THEN /\ site' = boxed[arch[a]]
            /\ boxed' = [boxed EXCEPT ![arch[a]] = NoTree]
            /\ AdminGoto(a, "unboxing")
       ELSE AdminEnd(a) /\ UNCHANGED <<site, boxed>>
    /\ UNCHANGED <<updir, files, used, there, boxdir, boxfiles, gone, catalog, api>>

RestoreUploads(a) ==
    /\ pc[a] = "unboxing"
    /\ \/ /\ arch[a] \in boxdir /\ ~updir
          /\ updir' = TRUE
          /\ files' = boxfiles[arch[a]]
          /\ boxdir' = boxdir \ {arch[a]}
          /\ boxfiles' = [boxfiles EXCEPT ![arch[a]] = {}]
          /\ pc' = [pc EXCEPT ![a] = "recording"]
          /\ moved' = moved \cup {a}
          /\ UNCHANGED <<arch, held, heldFiles>>
       \/ /\ arch[a] \in boxdir /\ updir
          /\ AdminGoto(a, "undoSite")
          /\ UNCHANGED <<updir, files, boxdir, boxfiles>>
       \/ /\ arch[a] \notin boxdir
          /\ AdminGoto(a, "recording")
          /\ UNCHANGED <<updir, files, boxdir, boxfiles>>
    /\ UNCHANGED <<site, used, there, boxed, gone, catalog, api>>

\* RecordDeploy or EnsureSite; fails, for one, when another site took the subdomain.
RestoreRecord(a) ==
    /\ pc[a] = "recording"
    /\ \/ row' = TRUE /\ AdminGoto(a, "tidying")
       \/ UNCHANGED row /\ AdminGoto(a, "undoUploads")
    /\ UNCHANGED <<dirs, rows, api>>

\* The rollback renames back whatever is at the two paths by now.
UndoUploads(a) ==
    /\ pc[a] = "undoUploads"
    /\ IF a \in moved /\ updir /\ arch[a] \in there
       THEN /\ boxdir' = boxdir \cup {arch[a]}
            /\ boxfiles' = [boxfiles EXCEPT ![arch[a]] = files]
            /\ updir' = FALSE
            /\ files' = {}
       ELSE UNCHANGED <<boxdir, boxfiles, updir, files>>
    /\ AdminGoto(a, "undoSite")
    /\ UNCHANGED <<site, used, there, boxed, gone, catalog, api>>

\* Mutant: the rollback stops after the uploads.
UndoSite_Forget(a) ==
    /\ pc[a] = "undoSite"
    /\ AdminEnd(a)
    /\ UNCHANGED <<dirs, catalog, api>>

UndoSite(a) ==
    /\ pc[a] = "undoSite"
    /\ IF site # NoTree /\ arch[a] \in there
       THEN /\ boxed' = [boxed EXCEPT ![arch[a]] = site]
            /\ site' = NoTree
       ELSE UNCHANGED <<boxed, site>>
    /\ AdminEnd(a)
    /\ UNCHANGED <<updir, files, used, there, boxdir, boxfiles, gone, catalog, api>>

\* RemoveAll of an archive, with whatever is in it.
RemoveArchive(x) ==
    /\ there' = there \ {x}
    /\ boxed' = [boxed EXCEPT ![x] = NoTree]
    /\ boxdir' = boxdir \ {x}

RestoreTidy(a) ==
    /\ pc[a] = "tidying"
    /\ RemoveArchive(arch[a])
    /\ boxfiles' = [boxfiles EXCEPT ![arch[a]] = {}]
    /\ AdminEnd(a)
    /\ UNCHANGED <<site, updir, files, used, gone, catalog, api>>

(***************************************************************************)
(* PurgeArchive: RemoveAll opens the directories, then unlinks what is in  *)
(* them, even when one has been renamed away by then.                      *)
(***************************************************************************)
PurgeOpen(a, x) ==
    /\ pc[a] = "idle"
    /\ MayStart
    /\ Printed(x)
    /\ x \in there
    /\ pc' = [pc EXCEPT ![a] = "purging"]
    /\ arch' = [arch EXCEPT ![a] = x]
    /\ held' = [held EXCEPT ![a] = boxed[x]]
    /\ heldFiles' = [heldFiles EXCEPT ![a] = boxfiles[x]]
    /\ UNCHANGED <<dirs, catalog, moved, api>>

PurgeRemove(a) ==
    /\ pc[a] = "purging"
    /\ RemoveArchive(arch[a])
    /\ gone' = gone \cup ({held[a], boxed[arch[a]]} \ {NoTree})
                    \cup heldFiles[a] \cup boxfiles[arch[a]]
    /\ files' = files \ heldFiles[a]
    /\ boxfiles' = [x \in Archives |-> IF x = arch[a] THEN {} ELSE boxfiles[x] \ heldFiles[a]]
    /\ AdminEnd(a)
    /\ UNCHANGED <<site, updir, used, catalog, api>>

\* A command dies, or a statement or system call of delete fails: nothing is undone.
Die(a) ==
    /\ ~alone
    /\ pc[a] # "idle"
    /\ AdminEnd(a)
    /\ UNCHANGED <<dirs, catalog, api>>

DeployStep(d) ==
    \/ DeployStage(d) \/ DeployRow(d)
    \/ DeployLock(d) \/ DeploySwap(d) \/ DeployLate(d) \/ DeployRecord(d)
    \/ DeployFails(d)

UploadStep(f) == UploadWrite(f) \/ UploadInsert(f) \/ UploadUnlink(f)

AdminStep(a) ==
    \/ DeleteSiteDir(a) \/ DeleteUploads(a) \/ DeleteSweep(a) \/ DeleteRow(a)
    \/ RestoreMove(a) \/ RestoreUploads(a) \/ RestoreRecord(a)
    \/ UndoUploads(a) \/ UndoSite(a) \/ RestoreTidy(a)
    \/ PurgeRemove(a)

Next ==
    /\ \/ \E d \in Deploys : DeployMake(d) \/ DeployStep(d)
       \/ \E f \in Files : UploadAdmit(f) \/ UploadDelete(f) \/ UploadStep(f)
       \/ \E a \in Admins : DeleteLook(a) \/ AdminStep(a) \/ Die(a)
       \/ \E a \in Admins, x \in Archives : RestoreLook(a, x) \/ PurgeOpen(a, x)
    /\ UNCHANGED alone

Spec == Init /\ [][Next]_vars

(***************************************************************************)
(* Properties                                                              *)
(***************************************************************************)
\* Where a site directory is: at sites/<site>, or in some archives.
Places(t) == (IF site = t THEN {"live"} ELSE {}) \cup {x \in Archives : boxed[x] = t}

\* A site directory is always in exactly one place until it is purged, whatever
\* overlaps, fails or dies: the renames neither lose nor duplicate it.
TreesKept == \A t \in made \ gone : \E p \in Archives \cup {"live"} : Places(t) = {p}

\* When a successful restore removes the archive there is nothing left in it.
RestoreDiscardsNothing ==
    [][\A a \in Admins :
         RestoreTidy(a) => boxed[arch[a]] = NoTree /\ boxfiles[arch[a]] = {}]_vars

\* On disk, under uploads/<site> or in an archive.
Stored(f) == f \in files \/ \E x \in Archives : f \in boxfiles[x]

\* README.md, docs/design/WORKFLOW.md: delete archives the site for recovery.  An upload
\* that was answered and not deleted is under uploads/<site> or in an archive.
UploadsKept ==
    alone =>
        \A f \in Files \ gone : put[f] = "kept" => Stored(f)

\* Whatever overlaps, fails or dies, an upload that was answered leaves the disk only when
\* it is purged, or by a delete that found no site directory: deletes, restores and
\* rollbacks move the uploads and never over others.
OnlySweepLoses ==
    [][\A f \in Files :
         put[f] = "kept" /\ Stored(f) =>
             Stored(f)' \/ f \in gone' \/ \E a \in Admins : DeleteSweep(a)]_vars

\* Between commands that run one at a time and to their end, some of them to an error, a
\* site the catalog lists has its directory, and a directory that is served is listed.
\* (A prepare that fails after it made the directory leaves one that is neither.)
CatalogAgrees ==
    alone /\ Quiet => (row => site # NoTree) /\ (site \in linked => row)
================================================================================
