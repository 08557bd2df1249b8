------------------------------ MODULE HostDeploy ------------------------------
(***************************************************************************)
(* The release directory of one site as the quickd commands see it:        *)
(* server/internal/deploy/deploy.go, plus the `quickd sites public` toggle *)
(* of server/cmd/quickd/main.go.  Every quickd command is a process of its *)
(* own (ssh starts one per command, the HTTP portal runs the same code in  *)
(* the server), so every step that another process can observe or disturb  *)
(* is an action.  Activate and Rollback hold deploy.lock (flock); Cleanup  *)
(* and `sites public` hold nothing.                                        *)
(*                                                                         *)
(* Callers are arbitrary here: an upload may be activated before it is     *)
(* complete and swept while it is being activated.  DeploySession restricts*)
(* them to what the quick CLI does.                                        *)
(***************************************************************************)
EXTENDS Naturals, FiniteSets

CONSTANTS
    DeployIds,   \* ids newDeployID hands out, each names one upload and one release
    Operators,   \* `quickd deploy rollback` processes
    NoRelease,   \* an absent symlink, an empty database field
    NoProc,      \* deploy.lock is free
    Dynamic,     \* the deploy ids whose tree calls /_quick APIs (scan.Scan finds something)
    Retain,      \* config RetainedReleases
    Togglers,    \* `quickd sites public` processes
    Swept,       \* the deploy ids some caller may clean up
    Overdue      \* the deploy ids whose staging directory may outlive 24 hours

ASSUME ReleaseAssumption == NoRelease \notin DeployIds /\ Dynamic \subseteq DeployIds
ASSUME ProcAssumption == NoProc \notin DeployIds \cup Operators /\ DeployIds \cap Operators = {}
ASSUME CallerAssumption == Swept \subseteq DeployIds /\ Overdue \subseteq DeployIds
ASSUME RetainAssumption == Retain \in Nat \ {0}

VARIABLES
    staged,      \* .incoming/<id>/files
    releases,    \* releases/<id>
    attested,    \* what the tree held when the content hash of .quick-release.json was taken
    older,       \* <<d, e>>: the directory of d has an older mtime than that of e
    current,     \* the symlink <site>/current
    previous,    \* the symlink <site>/previous
    lock,        \* the owner of deploy.lock
    act,         \* per deploy id: its prepare and activate commands
    roll,        \* per operator: a rollback command
    sweep,       \* per deploy id: `quickd deploy cleanup`, os.RemoveAll without a lock
    aged,        \* ids whose .incoming directory is older than 24 hours
    catalog,     \* the sites row: exists, last_release, public
    toggle       \* per toggler: a `quickd sites public --on` command

siteVars == <<staged, releases, attested, older, current, previous>>
vars == <<siteVars, lock, act, roll, sweep, aged, catalog, toggle>>

\* "partial": not all files arrived.  "torn": a removal took some files away.
\* "empty": a removal took all of them but the directory survived.
Trees == {"none", "partial", "whole", "torn", "empty"}
Links == DeployIds \cup {NoRelease}

ActHeld == {"check", "public", "hash", "manifest", "rename", "swap", "shift",
            "record", "prune", "pruning", "gc"}
ActPC == ActHeld \cup {"idle", "made", "prepared", "waiting", "done", "aborted"}
RollHeld == {"verify", "swap", "shift", "record"}
RollPC == RollHeld \cup {"idle", "waiting", "done", "aborted"}

TypeOK ==
    /\ staged \in [DeployIds -> Trees]
    /\ releases \in [DeployIds -> Trees]
    /\ attested \in [DeployIds -> Trees]
    /\ older \in SUBSET (DeployIds \X DeployIds)
    /\ current \in Links
    /\ previous \in Links
    /\ lock \in DeployIds \cup Operators \cup {NoProc}
    /\ act \in [DeployIds -> [pc : ActPC, old : Links, doomed : SUBSET DeployIds]]
    /\ roll \in [Operators -> [pc : RollPC, target : Links, old : Links]]
    /\ sweep \in [DeployIds -> {"idle", "removing", "done"}]
    /\ aged \in SUBSET DeployIds
    /\ catalog \in [row : BOOLEAN, last : Links, public : BOOLEAN]
    /\ toggle \in [Togglers -> [pc : {"idle", "scan", "set", "done"}, root : Links]]

Init ==
    /\ staged = [d \in DeployIds |-> "none"]
    /\ releases = [d \in DeployIds |-> "none"]
    /\ attested = [d \in DeployIds |-> "none"]
    /\ older = {}
    /\ current = NoRelease
    /\ previous = NoRelease
    /\ lock = NoProc
    /\ act = [d \in DeployIds |-> [pc |-> "idle", old |-> NoRelease, doomed |-> {}]]
    /\ roll = [o \in Operators |-> [pc |-> "idle", target |-> NoRelease, old |-> NoRelease]]
    /\ sweep = [d \in DeployIds |-> "idle"]
    /\ aged = {}
    /\ catalog = [row |-> FALSE, last |-> NoRelease, public |-> FALSE]
    /\ toggle = [t \in Togglers |-> [pc |-> "idle", root |-> NoRelease]]

(***************************************************************************)
(* Helpers                                                                 *)
(***************************************************************************)
Released == {r \in DeployIds : releases[r] # "none"}

\* A directory whose entries change gets the newest mtime.
Touch(d) ==
    older' = {p \in older : d \notin {p[1], p[2]}} \cup (DeployIds \ {d}) \X {d}

NewerThan(r) == {q \in Released : <<r, q>> \in older}

\* Mutant of Kept: retention alone, which forgets current.
Kept_ForgetsCurrent == {r \in Released : Cardinality(NewerThan(r)) < Retain}

\* The releases pruneReleases keeps: the `retain` newest directories and current.
Kept == {r \in Released : Cardinality(NewerThan(r)) < Retain \/ r = current}

\* verifyRelease: the manifest is there and its content hash matches the tree.
Verified(r) == releases[r] \in {"partial", "whole", "torn"} /\ attested[r] = releases[r]

ActGoto(d, pc) == act' = [act EXCEPT ![d].pc = pc]
\* A command that ended keeps no local variables.
ActEnd(d, pc) == act' = [act EXCEPT ![d] = [pc |-> pc, old |-> NoRelease, doomed |-> {}]]
RollEnd(o, pc) ==
    roll' = [roll EXCEPT ![o] = [pc |-> pc, target |-> NoRelease, old |-> NoRelease]]
RollGoto(o, pc) == roll' = [roll EXCEPT ![o].pc = pc]

(***************************************************************************)
(* quickd deploy prepare                                                   *)
(***************************************************************************)
\* The locked section creates the staging directory.  Nobody else knows the id yet,
\* so the section is one step that needs the lock to be free.
PrepareStage(d) ==
    /\ act[d].pc = "idle"
    /\ lock = NoProc
    /\ staged' = [staged EXCEPT ![d] = "partial"]
    /\ ActGoto(d, "made")
    /\ UNCHANGED <<releases, attested, older, current, previous, lock, roll, sweep, aged,
                   catalog, toggle>>

\* EnsureSite after the lock is gone.
PrepareRow(d) ==
    /\ act[d].pc = "made"
    /\ catalog' = [catalog EXCEPT !.row = TRUE]
    /\ ActGoto(d, "prepared")
    /\ UNCHANGED <<siteVars, lock, roll, sweep, aged, toggle>>

(***************************************************************************)
(* The transfer and the age of a staging directory                         *)
(***************************************************************************)
\* The last file of the upload arrives (rsync, or the extraction of a zip).
Receive(d) ==
    /\ staged[d] = "partial"
    /\ act[d].pc \in {"made", "prepared"}
    /\ staged' = [staged EXCEPT ![d] = "whole"]
    /\ UNCHANGED <<releases, attested, older, current, previous, lock, act, roll, sweep,
                   aged, catalog, toggle>>

Age(d) ==
    /\ d \in Overdue \ aged
    /\ staged[d] # "none"
    /\ aged' = aged \cup {d}
    /\ UNCHANGED <<siteVars, lock, act, roll, sweep, catalog, toggle>>

(***************************************************************************)
(* quickd deploy activate                                                  *)
(***************************************************************************)
ActivateBegin(d) ==
    /\ act[d].pc = "prepared"
    /\ ActGoto(d, "waiting")
    /\ UNCHANGED <<siteVars, lock, roll, sweep, aged, catalog, toggle>>

ActivateLock(d) ==
    /\ act[d].pc = "waiting"
    /\ lock = NoProc
    /\ lock' = d
    /\ ActGoto(d, "check")
    /\ UNCHANGED <<siteVars, roll, sweep, aged, catalog, toggle>>

\* Staging exists, metadata and site configuration are read and validated.
ActivateCheck(d) ==
    /\ act[d].pc = "check"
    /\ staged[d] # "none"
    /\ ActGoto(d, "public")
    /\ UNCHANGED <<siteVars, lock, roll, sweep, aged, catalog, toggle>>

\* validatePublicRelease: a public site takes static trees only.
ActivatePublic(d) ==
    /\ act[d].pc = "public"
    /\ catalog.row /\ catalog.public => d \notin Dynamic
    /\ staged[d] # "none"
    /\ ActGoto(d, "hash")
    /\ UNCHANGED <<siteVars, lock, roll, sweep, aged, catalog, toggle>>

\* validateTreeAndHash: the hash is of the tree as it is now.
ActivateHash(d) ==
    /\ act[d].pc = "hash"
    /\ staged[d] # "none"
    /\ attested' = [attested EXCEPT ![d] = staged[d]]
    /\ ActGoto(d, "manifest")
    /\ UNCHANGED <<staged, releases, older, current, previous, lock, roll, sweep, aged,
                   catalog, toggle>>

\* writeManifest adds a file to the staging directory.
ActivateManifest(d) ==
    /\ act[d].pc = "manifest"
    /\ staged[d] # "none"
    /\ Touch(d)
    /\ ActGoto(d, "rename")
    /\ UNCHANGED <<staged, releases, attested, current, previous, lock, roll, sweep, aged,
                   catalog, toggle>>

\* The release must not exist; the rename moves the whole tree.
ActivateRename(d) ==
    /\ act[d].pc = "rename"
    /\ releases[d] = "none"
    /\ staged[d] # "none"
    /\ releases' = [releases EXCEPT ![d] = staged[d]]
    /\ staged' = [staged EXCEPT ![d] = "none"]
    /\ ActGoto(d, "swap")
    /\ UNCHANGED <<attested, older, current, previous, lock, roll, sweep, aged, catalog, toggle>>

\* Readlink, then atomicSymlinkSwap of current.
ActivateSwap(d) ==
    /\ act[d].pc = "swap"
    /\ current' = d
    /\ act' = [act EXCEPT ![d] = [pc |-> "shift", old |-> current, doomed |-> {}]]
    /\ UNCHANGED <<staged, releases, attested, older, previous, lock, roll, sweep, aged,
                   catalog, toggle>>

\* previous becomes the old target, or goes away on a first deploy.
ActivateShift(d) ==
    /\ act[d].pc = "shift"
    /\ previous' = act[d].old
    /\ ActGoto(d, "record")
    /\ UNCHANGED <<staged, releases, attested, older, current, lock, roll, sweep, aged,
                   catalog, toggle>>

\* Mutant: the site row is ensured but the deploy is not recorded.
ActivateRecord_RowOnly(d) ==
    /\ act[d].pc = "record"
    /\ catalog' = [catalog EXCEPT !.row = TRUE]
    /\ ActGoto(d, "prune")
    /\ UNCHANGED <<siteVars, lock, roll, sweep, aged, toggle>>

\* RecordDeploy: sites row, deploys row and audit in one transaction.
ActivateRecord(d) ==
    /\ act[d].pc = "record"
    /\ catalog' = [catalog EXCEPT !.row = TRUE, !.last = d]
    /\ ActGoto(d, "prune")
    /\ UNCHANGED <<siteVars, lock, roll, sweep, aged, toggle>>

\* pruneReleases lists and sorts the directory once, then removes.
PrunePick(d) ==
    /\ act[d].pc = "prune"
    /\ act' = [act EXCEPT ![d] =
                 [pc |-> "pruning", old |-> NoRelease, doomed |-> Released \ Kept]]
    /\ UNCHANGED <<siteVars, lock, roll, sweep, aged, catalog, toggle>>

\* os.RemoveAll takes files one by one ...
PruneTear(d, r) ==
    /\ act[d].pc = "pruning"
    /\ r \in act[d].doomed
    /\ releases[r] \in {"partial", "whole"}
    /\ releases' = [releases EXCEPT ![r] = "torn"]
    /\ Touch(r)
    /\ UNCHANGED <<staged, attested, current, previous, lock, act, roll, sweep, aged,
                   catalog, toggle>>

\* ... and then the directory.
PruneDrop(d, r) ==
    /\ act[d].pc = "pruning"
    /\ r \in act[d].doomed
    /\ releases[r] \notin {"partial", "whole"}
    /\ releases' = [releases EXCEPT ![r] = "none"]
    /\ act' = [act EXCEPT ![d].doomed = @ \ {r}]
    /\ UNCHANGED <<staged, attested, older, current, previous, lock, roll, sweep, aged,
                   catalog, toggle>>

\* Mutant: the previous link stays whether or not its release was kept.
PruneDone_KeepsPrevious(d) ==
    /\ act[d].pc = "pruning"
    /\ act[d].doomed = {}
    /\ ActGoto(d, "gc")
    /\ UNCHANGED <<siteVars, lock, roll, sweep, aged, catalog, toggle>>

\* A previous link whose release was not kept is removed last.
PruneDone(d) ==
    /\ act[d].pc = "pruning"
    /\ act[d].doomed = {}
    /\ previous' = IF previous \in Released THEN previous ELSE NoRelease
    /\ ActGoto(d, "gc")
    /\ UNCHANGED <<staged, releases, attested, older, current, lock, roll, sweep, aged,
                   catalog, toggle>>

\* gcIncoming: RemoveAll of the staging directories older than a day.
GcTear(d, e) ==
    /\ act[d].pc = "gc"
    /\ e \in aged
    /\ staged[e] \in {"partial", "whole"}
    /\ staged' = [staged EXCEPT ![e] = "torn"]
    /\ UNCHANGED <<releases, attested, older, current, previous, lock, act, roll, sweep,
                   aged, catalog, toggle>>

GcDrop(d, e) ==
    /\ act[d].pc = "gc"
    /\ e \in aged
    /\ staged[e] \in {"torn", "empty"}
    /\ staged' = [staged EXCEPT ![e] = "none"]
    /\ UNCHANGED <<releases, attested, older, current, previous, lock, act, roll, sweep,
                   aged, catalog, toggle>>

\* The last step of the command: the deferred unlock.
ActivateDone(d) ==
    /\ act[d].pc = "gc"
    /\ \A e \in aged : staged[e] = "none"
    /\ ActEnd(d, "done")
    /\ lock' = NoProc
    /\ UNCHANGED <<siteVars, roll, sweep, aged, catalog, toggle>>

\* An error return: staging is gone, or a public site gets a dynamic tree.  The deferred
\* unlock runs.  (An id is activated once, so its release never exists before.)
ActivateRefuse(d) ==
    /\ \/ act[d].pc \in {"check", "public", "hash", "manifest", "rename"} /\ staged[d] = "none"
       \/ act[d].pc = "public" /\ catalog.row /\ catalog.public /\ d \in Dynamic
    /\ ActEnd(d, "aborted")
    /\ lock' = NoProc
    /\ UNCHANGED <<siteVars, roll, sweep, aged, catalog, toggle>>

\* Mutant: a lock file instead of flock outlives the process that crashed.
ActivateCrash_KeepsLock(d) ==
    /\ act[d].pc \in ActHeld \cup {"made", "waiting"}
    /\ ActEnd(d, "aborted")
    /\ UNCHANGED <<siteVars, lock, roll, sweep, aged, catalog, toggle>>

\* An I/O error or the death of the process at any step; flock goes with it.
ActivateCrash(d) ==
    /\ act[d].pc \in ActHeld \cup {"made", "waiting"}
    /\ ActEnd(d, "aborted")
    /\ lock' = IF lock = d THEN NoProc ELSE lock
    /\ UNCHANGED <<siteVars, roll, sweep, aged, catalog, toggle>>

(***************************************************************************)
(* quickd deploy rollback [--release t]                                    *)
(***************************************************************************)
RollbackBegin(o, t) ==
    /\ roll[o].pc = "idle"
    /\ roll' = [roll EXCEPT ![o] = [pc |-> "waiting", target |-> t, old |-> NoRelease]]
    /\ UNCHANGED <<siteVars, lock, act, sweep, aged, catalog, toggle>>

RollbackLock(o) ==
    /\ roll[o].pc = "waiting"
    /\ lock = NoProc
    /\ lock' = o
    /\ RollGoto(o, "verify")
    /\ UNCHANGED <<siteVars, act, sweep, aged, catalog, toggle>>

\* The target, previous by default, is another existing release whose manifest verifies.
Wanted(o) == IF roll[o].target = NoRelease THEN previous ELSE roll[o].target

\* Mutant: the manifest of the target is not verified.
RollbackAllowed_Unverified(o) == current # NoRelease /\ Wanted(o) \in Released \ {current}

RollbackAllowed(o) ==
    /\ current # NoRelease
    /\ Wanted(o) \in Released \ {current}
    /\ Verified(Wanted(o))

RollbackVerify(o) ==
    /\ roll[o].pc = "verify"
    /\ RollbackAllowed(o)
    /\ roll' = [roll EXCEPT ![o] = [pc |-> "swap", target |-> Wanted(o), old |-> current]]
    /\ UNCHANGED <<siteVars, lock, act, sweep, aged, catalog, toggle>>

RollbackRefuse(o) ==
    /\ roll[o].pc = "verify"
    /\ ~RollbackAllowed(o)
    /\ RollEnd(o, "aborted")
    /\ lock' = NoProc
    /\ UNCHANGED <<siteVars, act, sweep, aged, catalog, toggle>>

RollbackSwap(o) ==
    /\ roll[o].pc = "swap"
    /\ current' = roll[o].target
    /\ RollGoto(o, "shift")
    /\ UNCHANGED <<staged, releases, attested, older, previous, lock, act, sweep, aged,
                   catalog, toggle>>

RollbackShift(o) ==
    /\ roll[o].pc = "shift"
    /\ previous' = roll[o].old
    /\ RollGoto(o, "record")
    /\ UNCHANGED <<staged, releases, attested, older, current, lock, act, sweep, aged,
                   catalog, toggle>>

RollbackRecord(o) ==
    /\ roll[o].pc = "record"
    /\ catalog' = [catalog EXCEPT !.row = TRUE, !.last = roll[o].target]
    /\ RollEnd(o, "done")
    /\ lock' = NoProc
    /\ UNCHANGED <<siteVars, act, sweep, aged, toggle>>

RollbackCrash(o) ==
    /\ roll[o].pc \in RollHeld \cup {"waiting"}
    /\ RollEnd(o, "aborted")
    /\ lock' = IF lock = o THEN NoProc ELSE lock
    /\ UNCHANGED <<siteVars, act, sweep, aged, catalog, toggle>>

(***************************************************************************)
(* quickd deploy cleanup: os.RemoveAll of .incoming/<id>, no lock          *)
(***************************************************************************)
\* RemoveAll opens the directory and unlinks through the descriptor: it goes on
\* removing the files of the tree after a rename moved it.
SweepBegin(d) ==
    /\ d \in Swept
    /\ sweep[d] = "idle"
    /\ act[d].pc \notin {"idle", "made"}
    /\ sweep' = [sweep EXCEPT ![d] = IF staged[d] = "none" THEN "done" ELSE "removing"]
    /\ UNCHANGED <<siteVars, lock, act, roll, aged, catalog, toggle>>

SweepTear(d) ==
    /\ sweep[d] = "removing"
    /\ \/ /\ staged[d] \in {"partial", "whole"}
          /\ staged' = [staged EXCEPT ![d] = "torn"]
          /\ UNCHANGED releases
       \/ /\ releases[d] \in {"partial", "whole"}
          /\ releases' = [releases EXCEPT ![d] = "torn"]
          /\ UNCHANGED staged
    /\ Touch(d)
    /\ UNCHANGED <<attested, current, previous, lock, act, roll, sweep, aged, catalog, toggle>>

\* The directory itself is removed by its old path, so a moved one stays, empty.
SweepDone(d) ==
    /\ sweep[d] = "removing"
    /\ staged[d] \notin {"partial", "whole"}
    /\ releases[d] \notin {"partial", "whole"}
    /\ staged' = [staged EXCEPT ![d] = "none"]
    /\ releases' = [releases EXCEPT ![d] = IF @ = "torn" THEN "empty" ELSE @]
    /\ sweep' = [sweep EXCEPT ![d] = "done"]
    /\ UNCHANGED <<attested, older, current, previous, lock, act, roll, aged, catalog, toggle>>

\* The cleanup command dies, or the tree moved before RemoveAll opened it.
SweepAbort(d) ==
    /\ sweep[d] = "removing"
    /\ sweep' = [sweep EXCEPT ![d] = "done"]
    /\ UNCHANGED <<siteVars, lock, act, roll, aged, catalog, toggle>>

(***************************************************************************)
(* quickd sites public                                                     *)
(***************************************************************************)
\* Without the lock: the row exists, `current` is resolved ...
PublicResolve(t) ==
    /\ toggle[t].pc = "idle"
    /\ catalog.row
    /\ current \in Released
    /\ toggle' = [toggle EXCEPT ![t] = [pc |-> "scan", root |-> current]]
    /\ UNCHANGED <<siteVars, lock, act, roll, sweep, aged, catalog>>

\* ... the resolved tree is scanned ...
PublicScan(t) ==
    /\ toggle[t].pc = "scan"
    /\ toggle' = [toggle EXCEPT ![t] =
                    [pc |-> IF toggle[t].root \in Released \ Dynamic THEN "set" ELSE "done",
                     root |-> NoRelease]]
    /\ UNCHANGED <<siteVars, lock, act, roll, sweep, aged, catalog>>

\* ... and the flag is set, whatever `current` is by now.
PublicSet(t) ==
    /\ toggle[t].pc = "set"
    /\ catalog' = [catalog EXCEPT !.public = TRUE]
    /\ toggle' = [toggle EXCEPT ![t].pc = "done"]
    /\ UNCHANGED <<siteVars, lock, act, roll, sweep, aged>>

\* `--off` needs neither the release nor the scan.
PublicOff ==
    /\ catalog.public
    /\ catalog' = [catalog EXCEPT !.public = FALSE]
    /\ UNCHANGED <<siteVars, lock, act, roll, sweep, aged, toggle>>

(***************************************************************************)
(* The specification                                                       *)
(***************************************************************************)
Prune(d) ==
    \/ PrunePick(d)
    \/ \E r \in DeployIds : PruneTear(d, r) \/ PruneDrop(d, r)
    \/ PruneDone(d)

Gc(d) == \E e \in DeployIds : GcTear(d, e) \/ GcDrop(d, e)

ActivateStep(d) ==
    \/ ActivateLock(d)   \/ ActivateCheck(d)    \/ ActivatePublic(d)
    \/ ActivateHash(d)   \/ ActivateManifest(d) \/ ActivateRename(d)
    \/ ActivateSwap(d)   \/ ActivateShift(d)    \/ ActivateRecord(d)
    \/ Prune(d)          \/ Gc(d)               \/ ActivateDone(d)
    \/ ActivateRefuse(d)

PrepareStep(d) == PrepareStage(d) \/ PrepareRow(d)

RollbackStep(o) ==
    \/ RollbackLock(o)  \/ RollbackVerify(o) \/ RollbackSwap(o)
    \/ RollbackShift(o) \/ RollbackRecord(o) \/ RollbackRefuse(o)

SweepStep(d) == SweepTear(d) \/ SweepDone(d)

Public ==
    \E t \in Togglers : PublicResolve(t) \/ PublicScan(t) \/ PublicSet(t) \/ PublicOff

Next ==
    \/ \E d \in DeployIds :
         \/ PrepareStep(d)   \/ Receive(d)    \/ Age(d)
         \/ ActivateBegin(d) \/ ActivateStep(d) \/ ActivateCrash(d)
         \/ SweepBegin(d)    \/ SweepStep(d)  \/ SweepAbort(d)
    \/ \E o \in Operators :
         \/ \E t \in Links : RollbackBegin(o, t)
         \/ RollbackStep(o) \/ RollbackCrash(o)
    \/ Public

Spec == Init /\ [][Next]_vars

(***************************************************************************)
(* Properties                                                              *)
(***************************************************************************)
Holds(p) ==
    \/ p \in DeployIds /\ act[p].pc \in ActHeld
    \/ p \in Operators /\ roll[p].pc \in RollHeld

\* deploy.lock: exactly its owner is between Lock and the deferred unlock, so a crash
\* or an early return at any step gives it back.
LockOwned == \A p \in DeployIds \cup Operators : Holds(p) <=> lock = p

\* `current` never dangles: whatever crashes, is pruned, swept or rolled back, the
\* release it names is on the host.
CurrentExists == current # NoRelease => current \in Released

\* A successful activate leaves what the next rollback needs: `previous` is empty or
\* names another release that is still there.
PreviousUsable ==
    \A d \in DeployIds : act[d].pc = "gc" => previous \in (Released \ {d}) \cup {NoRelease}

\* Host and catalog agree after RecordDeploy, although other commands crashed midway.
CatalogAgrees ==
    \A d \in DeployIds :
        act[d].pc \in {"prune", "pruning", "gc"} => catalog.last = d /\ current = d

\* The release being served loses files only to a cleanup of its own deploy id:
\* never to retention, the collection of old uploads or another deploy.
CurrentTornOnlyBySweep ==
    [][\A r \in DeployIds :
         r = current /\ releases[r] = "whole" /\ releases'[r] # "whole"
            => sweep[r] = "removing"]_vars

\* A rollback publishes a release exactly as it was activated, unless a cleanup of that
\* upload ran: one that a crashed prune left half removed is refused.
RollbackIntact ==
    [][\A o \in Operators :
         roll[o].pc = "swap" /\ current' # current /\ lock = o
            => Verified(current') \/ sweep[current'] # "idle"]_vars
===============================================================================
