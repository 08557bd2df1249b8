---------------------------- MODULE DeploySession ----------------------------
(***************************************************************************)
(* The clients of HostDeploy: `quick deploy` sessions                      *)
(* (quick_op_deploy_execute in src/core/ops.c) and uploads through the     *)
(* HTTP portal (handleHTTPDeploy).  One session drives one deploy id:      *)
(* prepare, overwrite confirmation, transfer, activate, local record; a    *)
(* failure or Ctrl-C in between cleans the staging directory up.  The      *)
(* remote command and the local ssh that started it end independently.     *)
(***************************************************************************)
EXTENDS HostDeploy

CONSTANTS
    Owner,          \* [DeployIds -> deployer identities]
    Confirmed,      \* the sessions run with --yes or a typed confirmation
    Interruptible   \* the sessions whose local ssh may end while quickd activate runs;
                    \* an HTTP upload is not: the handler waits for Activate to return

ASSUME SessionAssumption ==
    /\ Confirmed \subseteq DeployIds /\ Interruptible \subseteq DeployIds
    /\ Owner = [d \in DeployIds |-> Owner[d]]

VARIABLES
    session,        \* per deploy id: where quick_op_deploy_execute is
    cancel,         \* the sessions whose cancel_flag is set (Ctrl-C in the TUI)
    seen            \* the last release prepare reported, before it took the lock

sessionVars == <<session, cancel, seen>>
allVars == <<vars, sessionVars>>

Final == {"ok", "failed", "interrupted", "dead"}
SessionPC == Final \cup {"start", "preparing", "transfer", "uploaded", "activating",
                         "activated", "cleanup", "cleaning"}

\* The types of the variables of the sessions.
SessionTypeOK ==
    /\ session \in [DeployIds -> [pc : SessionPC, result : {"none", "failed", "interrupted"}]]
    /\ cancel \in SUBSET DeployIds
    /\ seen \in [DeployIds -> Links]

SessionInit ==
    /\ Init
    /\ session = [d \in DeployIds |-> [pc |-> "start", result |-> "none"]]
    /\ cancel = {}
    /\ seen = [d \in DeployIds |-> NoRelease]

Goto(d, pc) == session' = [session EXCEPT ![d].pc = pc]
Clean(d, result) == session' = [session EXCEPT ![d] = [pc |-> "cleanup", result |-> result]]

\* Does `prepare` name another deployer than this session's?
Foreign(d) == seen[d] # NoRelease /\ Owner[seen[d]] # Owner[d]

(***************************************************************************)
(* Prepare                                                                 *)
(***************************************************************************)
\* quickd prepare reads the last deploy before it waits for the lock.
PrepareRead(d) ==
    /\ session[d].pc = "start"
    /\ d \notin cancel
    /\ seen' = [seen EXCEPT ![d] = catalog.last]
    /\ Goto(d, "preparing")
    /\ UNCHANGED <<vars, cancel>>

SessionPrepare(d) ==
    /\ session[d].pc # "start"
    /\ PrepareStep(d)
    /\ UNCHANGED sessionVars

\* The overwrite check, then the cancel check: both clean up.
PrepareReturns(d) ==
    /\ session[d].pc = "preparing"
    /\ act[d].pc = "prepared"
    /\ CASE Foreign(d) /\ d \notin Confirmed -> Clean(d, "failed")
         [] ~(Foreign(d) /\ d \notin Confirmed) /\ d \in cancel -> Clean(d, "interrupted")
         [] OTHER -> Goto(d, "transfer")
    /\ UNCHANGED <<vars, cancel, seen>>

\* A prepare that fails or is interrupted leaves no deploy id to clean up.
PrepareFails(d) ==
    /\ session[d].pc = "preparing"
    /\ \/ act[d].pc = "aborted" /\ Goto(d, "failed")
       \/ d \in cancel /\ Goto(d, "interrupted")
    /\ UNCHANGED <<vars, cancel, seen>>

(***************************************************************************)
(* Transfer                                                                *)
(***************************************************************************)
\* What arrives after the local side gave up makes a longer partial tree, no more.
SessionReceive(d) ==
    /\ session[d].pc = "transfer"
    /\ Receive(d)
    /\ UNCHANGED sessionVars

\* Mutant: the exit status of the transfer is ignored.
TransferReturns_Unchecked(d) ==
    /\ session[d].pc = "transfer"
    /\ staged[d] # "none"
    /\ IF d \in cancel THEN Clean(d, "interrupted") ELSE Goto(d, "uploaded")
    /\ UNCHANGED <<vars, cancel, seen>>

TransferReturns(d) ==
    /\ session[d].pc = "transfer"
    /\ staged[d] = "whole"
    /\ IF d \in cancel THEN Clean(d, "interrupted") ELSE Goto(d, "uploaded")
    /\ UNCHANGED <<vars, cancel, seen>>

\* rsync, scp or extract-zip fails, or is killed by the cancel flag.
TransferFails(d) ==
    /\ session[d].pc = "transfer"
    /\ Clean(d, IF d \in cancel THEN "interrupted" ELSE "failed")
    /\ UNCHANGED <<vars, cancel, seen>>

(***************************************************************************)
(* Activate                                                                *)
(***************************************************************************)
SessionActivate(d) ==
    /\ session[d].pc = "uploaded"
    /\ ActivateBegin(d)
    /\ Goto(d, "activating")
    /\ UNCHANGED <<cancel, seen>>

\* The remote command ended and its result came back.
ActivateReturns(d) ==
    /\ session[d].pc = "activating"
    /\ \/ act[d].pc = "done" /\ Goto(d, "activated")
       \/ act[d].pc = "aborted" /\ Clean(d, "failed")
    /\ UNCHANGED <<vars, cancel, seen>>

\* Ctrl-C in the TUI kills the local ssh, or the connection breaks; quickd goes on.
ActivateDetached(d) ==
    /\ session[d].pc = "activating"
    /\ d \in Interruptible
    /\ Clean(d, IF d \in cancel THEN "interrupted" ELSE "failed")
    /\ UNCHANGED <<vars, cancel, seen>>

\* The cancel check after activate, else the local deployment record.
RecordLocally(d) ==
    /\ session[d].pc = "activated"
    /\ Goto(d, IF d \in cancel THEN "interrupted" ELSE "ok")
    /\ UNCHANGED <<vars, cancel, seen>>

(***************************************************************************)
(* Cleanup, Ctrl-C and the death of the client                             *)
(***************************************************************************)
\* quick_deploy_cleanup_staging runs `quickd deploy cleanup` over a new ssh.
CleanupBegin(d) ==
    /\ session[d].pc = "cleanup"
    /\ SweepBegin(d)
    /\ Goto(d, "cleaning")
    /\ UNCHANGED <<cancel, seen>>

\* It returned, or could not run at all; either way the session ends.
CleanupReturns(d) ==
    /\ \/ session[d].pc = "cleaning" /\ sweep[d] = "done"
       \/ session[d].pc = "cleanup"
    /\ session' = [session EXCEPT ![d].pc = session[d].result]
    /\ UNCHANGED <<vars, cancel, seen>>

Interrupt(d) ==
    /\ session[d].pc \notin Final
    /\ d \notin cancel
    /\ cancel' = cancel \cup {d}
    /\ UNCHANGED <<vars, session, seen>>

\* The cancel check before prepare.
CancelEarly(d) ==
    /\ session[d].pc = "start"
    /\ d \in cancel
    /\ Goto(d, "interrupted")
    /\ UNCHANGED <<vars, cancel, seen>>

ClientDies(d) ==
    /\ session[d].pc \notin Final
    /\ Goto(d, "dead")
    /\ UNCHANGED <<vars, cancel, seen>>

\* A session that goes on is younger than a day, so only what it left behind gets old.
SessionAge(d) ==
    /\ session[d].pc \in Final
    /\ act[d].pc \notin ActHeld \cup {"made", "waiting"}
    /\ Age(d)

(***************************************************************************)
(* The composition: host commands run on their own once started            *)
(***************************************************************************)
HostStep ==
    /\ \/ \E d \in DeployIds :
            \/ SessionAge(d) \/ ActivateStep(d) \/ ActivateCrash(d) \/ SweepStep(d) \/ SweepAbort(d)
       \/ \E o \in Operators :
            \/ \E t \in Links : RollbackBegin(o, t)
            \/ RollbackStep(o) \/ RollbackCrash(o)
       \/ Public
    /\ UNCHANGED sessionVars

SessionStep(d) ==
    \/ PrepareRead(d)     \/ SessionPrepare(d) \/ PrepareReturns(d) \/ PrepareFails(d)
    \/ SessionReceive(d)  \/ TransferReturns(d) \/ TransferFails(d)
    \/ SessionActivate(d) \/ ActivateReturns(d) \/ ActivateDetached(d) \/ RecordLocally(d)
    \/ CleanupBegin(d)    \/ CleanupReturns(d)
    \/ Interrupt(d)       \/ CancelEarly(d)     \/ ClientDies(d)

SessionNext == HostStep \/ \E d \in DeployIds : SessionStep(d)

SessionSpec == SessionInit /\ [][SessionNext]_allVars

\* Local and remote commands run to their end; nobody has to press Ctrl-C, crash or retry.
SessionFairness ==
    /\ \A d \in DeployIds :
         /\ WF_allVars(ActivateStep(d) /\ UNCHANGED sessionVars)
         /\ WF_allVars(SweepStep(d) /\ UNCHANGED sessionVars)
         /\ WF_allVars(SessionPrepare(d))
         /\ WF_allVars(PrepareReturns(d) \/ PrepareFails(d))
         /\ WF_allVars(TransferReturns(d) \/ TransferFails(d))
         /\ WF_allVars(SessionActivate(d) \/ ActivateReturns(d) \/ RecordLocally(d))
         /\ WF_allVars(CleanupBegin(d) \/ CleanupReturns(d))
    /\ \A o \in Operators : WF_allVars(RollbackStep(o) /\ UNCHANGED sessionVars)

LiveSessionSpec == SessionSpec /\ SessionFairness

(***************************************************************************)
(* Properties                                                              *)
(***************************************************************************)
\* README.md, docs/user/quick-deploy.md: the site is served from a complete release,
\* never from an upload in progress or one a cleanup took files from.
CurrentWhole == current # NoRelease => releases[current] = "whole"

\* What holds of it with detached sessions around: only the release of a session that
\* lost its own ssh can be damaged, never that of another one.
OthersStayWhole == current \notin Interruptible \cup {NoRelease} => releases[current] = "whole"

\* The same promise as an abstract machine: deploys and pruning together only ever
\* switch between complete releases (see AtomicPublish), where a release that its own
\* detached session may damage is counted as complete.
Publishing ==
    INSTANCE AtomicPublish WITH
        Releases <- DeployIds, Nothing <- NoRelease, live <- current,
        shelf <- {r \in DeployIds : r \in Interruptible \/ releases[r] = "whole"}
PublishesAtomically == Publishing!Spec

\* Every session comes to an end: no lock that a dead command held, cleanup or lost
\* connection leaves it waiting.
SessionsEnd == <>[](\A d \in DeployIds : session[d].pc \in Final \cup {"start"})
==============================================================================
