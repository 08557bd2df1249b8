------------------------ MODULE DeploySessionProofs ------------------------
(***************************************************************************)
(* Proofs about HostDeploy and DeploySession, for any set of deploy ids,   *)
(* rollbacks and togglers, any retention, and any sessions, deployers and  *)
(* detached connections. First the host, whoever calls it: the types, the  *)
(* ownership of deploy.lock, that `current` never dangles and is torn only *)
(* by a cleanup of its own id, that the catalog agrees and a rollback      *)
(* stays possible. Then the sessions: a session only does what HostDeploy  *)
(* allows, the releases of sessions that never lose their ssh are always   *)
(* served whole, and the sessions together implement AtomicPublish.        *)
(***************************************************************************)
EXTENDS DeploySession, TLAPS

(***************************************************************************)
(* The host: the types.                                                    *)
(***************************************************************************)
ActType == [DeployIds -> [pc : ActPC, old : Links, doomed : SUBSET DeployIds]]
RollType == [Operators -> [pc : RollPC, target : Links, old : Links]]

\* A command moves on to, or ends in, a step it has.
LEMMA ActGotoType ==
    ASSUME TypeOK, NEW d \in DeployIds, NEW pc \in ActPC, ActGoto(d, pc)
    PROVE  act' \in ActType
<1>1. act \in ActType
  BY DEF TypeOK, ActType
<1>2. [act[d] EXCEPT !.pc = pc] \in [pc : ActPC, old : Links, doomed : SUBSET DeployIds]
  BY <1>1 DEF ActType
<1>3. act' = [act EXCEPT ![d] = [act[d] EXCEPT !.pc = pc]]
  BY <1>1 DEF ActGoto, ActType
<1> QED
  BY <1>1, <1>2, <1>3 DEF ActType

LEMMA ActEndType ==
    ASSUME TypeOK, NEW d \in DeployIds, NEW pc \in ActPC, ActEnd(d, pc)
    PROVE  act' \in ActType
<1>1. [pc |-> pc, old |-> NoRelease, doomed |-> {}]
        \in [pc : ActPC, old : Links, doomed : SUBSET DeployIds]
  BY DEF Links
<1> QED
  BY <1>1 DEF TypeOK, ActType, ActEnd

LEMMA RollGotoType ==
    ASSUME TypeOK, NEW o \in Operators, NEW pc \in RollPC, RollGoto(o, pc)
    PROVE  roll' \in RollType
  BY DEF TypeOK, RollType, RollGoto

LEMMA RollEndType ==
    ASSUME TypeOK, NEW o \in Operators, NEW pc \in RollPC, RollEnd(o, pc)
    PROVE  roll' \in RollType
<1>1. [pc |-> pc, target |-> NoRelease, old |-> NoRelease]
        \in [pc : RollPC, target : Links, old : Links]
  BY DEF Links
<1> QED
  BY <1>1 DEF TypeOK, RollType, RollEnd

\* The steps are steps.
LEMMA StepNames ==
    /\ ActHeld \cup {"made", "prepared", "waiting", "done", "aborted"} \subseteq ActPC
    /\ RollHeld \cup {"waiting", "done", "aborted"} \subseteq RollPC
  BY DEF ActPC, RollPC

\* The values of every variable stay in their types: each command leaves the directories,
\* links, catalog and program counters of HostDeploy in the sets TypeOK names.
THEOREM TypeCorrect == Spec => []TypeOK
<1>1. Init => TypeOK
  <2>1. Init => act \in ActType /\ roll \in RollType
    BY DEF Init, ActType, RollType, ActPC, RollPC, Links
  <2> QED
    BY <2>1 DEF Init, TypeOK, ActType, RollType, Trees, Links
<1>2. TypeOK /\ [Next]_vars => TypeOK'
  <2> SUFFICES ASSUME TypeOK, [Next]_vars PROVE TypeOK'
    OBVIOUS
  <2> USE StepNames DEF TypeOK, Trees, Links, ActType, RollType, siteVars
  <2>1. ASSUME NEW d \in DeployIds, PrepareStep(d) \/ Receive(d) \/ Age(d) PROVE TypeOK'
    <3>1. CASE PrepareStage(d)
      BY <3>1, ActGotoType DEF PrepareStage, ActHeld
    <3>2. CASE PrepareRow(d)
      <4>1. act' \in [DeployIds -> [pc : ActPC, old : Links, doomed : SUBSET DeployIds]]
        BY <3>2, ActGotoType DEF PrepareRow
      <4>2. catalog' \in [row : BOOLEAN, last : Links, public : BOOLEAN]
        BY <3>2 DEF PrepareRow
      <4> QED
        BY <3>2, <4>1, <4>2 DEF PrepareRow
    <3>3. CASE Receive(d)
      BY <3>3 DEF Receive
    <3>4. CASE Age(d)
      BY <3>4 DEF Age
    <3> QED
      BY <2>1, <3>1, <3>2, <3>3, <3>4 DEF PrepareStep
  <2>2. ASSUME NEW d \in DeployIds, ActivateBegin(d) \/ ActivateStep(d) \/ ActivateCrash(d)
        PROVE TypeOK'
    <3>1. CASE ActivateBegin(d)
      BY <3>1, ActGotoType DEF ActivateBegin, ActHeld
    <3>2. CASE ActivateLock(d)
      BY <3>2, ActGotoType DEF ActivateLock, ActHeld
    <3>3. CASE ActivateCheck(d)
      BY <3>3, ActGotoType DEF ActivateCheck, ActHeld
    <3>4. CASE ActivatePublic(d)
      BY <3>4, ActGotoType DEF ActivatePublic, ActHeld
    <3>5. CASE ActivateHash(d)
      BY <3>5, ActGotoType DEF ActivateHash, ActHeld
    <3>6. CASE ActivateManifest(d)
      BY <3>6, ActGotoType DEF ActivateManifest, Touch, ActHeld
    <3>7. CASE ActivateRename(d)
      BY <3>7, ActGotoType DEF ActivateRename, ActHeld
    <3>8. CASE ActivateSwap(d)
      <4>1. [pc |-> "shift", old |-> current, doomed |-> {}]
              \in [pc : ActPC, old : Links, doomed : SUBSET DeployIds]
        BY DEF ActHeld
      <4>2. act' \in ActType
        BY <3>8, <4>1 DEF ActivateSwap
      <4> QED
        BY <3>8, <4>2 DEF ActivateSwap
    <3>9. CASE ActivateShift(d)
      BY <3>9, ActGotoType DEF ActivateShift, ActHeld
    <3>10. CASE ActivateRecord(d)
      <4>1. act' \in [DeployIds -> [pc : ActPC, old : Links, doomed : SUBSET DeployIds]]
        BY <3>10, ActGotoType DEF ActivateRecord, ActHeld
      <4>2. catalog' \in [row : BOOLEAN, last : Links, public : BOOLEAN]
        BY <3>10 DEF ActivateRecord
      <4> QED
        BY <3>10, <4>1, <4>2 DEF ActivateRecord
    <3>11. CASE PrunePick(d)
      <4>1. Released \ Kept \in SUBSET DeployIds
        BY DEF Released
      <4>2. act' \in [DeployIds -> [pc : ActPC, old : Links, doomed : SUBSET DeployIds]]
        BY <3>11, <4>1 DEF PrunePick, ActPC, ActHeld
      <4> QED
        BY <3>11, <4>2 DEF PrunePick
    <3>12. ASSUME NEW r \in DeployIds, PruneTear(d, r) PROVE TypeOK'
      BY <3>12 DEF PruneTear, Touch
    <3>13. ASSUME NEW r \in DeployIds, PruneDrop(d, r) PROVE TypeOK'
      BY <3>13 DEF PruneDrop
    <3>14. CASE PruneDone(d)
      BY <3>14, ActGotoType DEF PruneDone, ActHeld
    <3>15. ASSUME NEW e \in DeployIds, GcTear(d, e) PROVE TypeOK'
      BY <3>15 DEF GcTear
    <3>16. ASSUME NEW e \in DeployIds, GcDrop(d, e) PROVE TypeOK'
      BY <3>16 DEF GcDrop
    <3>17. CASE ActivateDone(d)
      BY <3>17, ActEndType DEF ActivateDone
    <3>18. CASE ActivateRefuse(d)
      BY <3>18, ActEndType DEF ActivateRefuse
    <3>19. CASE ActivateCrash(d)
      BY <3>19, ActEndType DEF ActivateCrash
    <3> QED
      BY <2>2, <3>1, <3>2, <3>3, <3>4, <3>5, <3>6, <3>7, <3>8, <3>9, <3>10, <3>11, <3>12,
         <3>13, <3>14, <3>15, <3>16, <3>17, <3>18, <3>19 DEF ActivateStep, Prune, Gc
  <2>3. ASSUME NEW d \in DeployIds, SweepBegin(d) \/ SweepStep(d) \/ SweepAbort(d)
        PROVE TypeOK'
    <3>1. CASE SweepBegin(d)
      BY <3>1 DEF SweepBegin
    <3>2. CASE SweepTear(d)
      BY <3>2 DEF SweepTear, Touch
    <3>3. CASE SweepDone(d)
      BY <3>3 DEF SweepDone
    <3>4. CASE SweepAbort(d)
      BY <3>4 DEF SweepAbort
    <3> QED
      BY <2>3, <3>1, <3>2, <3>3, <3>4 DEF SweepStep
  <2>4. ASSUME NEW o \in Operators, NEW t \in Links, RollbackBegin(o, t) PROVE TypeOK'
    BY <2>4 DEF RollbackBegin, RollPC
  <2>5. ASSUME NEW o \in Operators, RollbackStep(o) \/ RollbackCrash(o) PROVE TypeOK'
    <3>1. CASE RollbackLock(o)
      BY <3>1, RollGotoType DEF RollbackLock, RollHeld
    <3>2. CASE RollbackVerify(o)
      BY <3>2 DEF RollbackVerify, RollbackAllowed, Wanted, Released, RollPC, RollHeld
    <3>3. CASE RollbackRefuse(o)
      BY <3>3, RollEndType DEF RollbackRefuse
    <3>4. CASE RollbackSwap(o)
      BY <3>4, RollGotoType DEF RollbackSwap, RollHeld
    <3>5. CASE RollbackShift(o)
      BY <3>5, RollGotoType DEF RollbackShift, RollHeld
    <3>6. CASE RollbackRecord(o)
      BY <3>6, RollEndType DEF RollbackRecord
    <3>7. CASE RollbackCrash(o)
      BY <3>7, RollEndType DEF RollbackCrash
    <3> QED
      BY <2>5, <3>1, <3>2, <3>3, <3>4, <3>5, <3>6, <3>7 DEF RollbackStep
  <2>6. ASSUME Public PROVE TypeOK'
    <3>1. ASSUME NEW t \in Togglers, PublicResolve(t) PROVE TypeOK'
      BY <3>1 DEF PublicResolve
    <3>2. ASSUME NEW t \in Togglers, PublicScan(t) PROVE TypeOK'
      BY <3>2 DEF PublicScan
    <3>3. ASSUME NEW t \in Togglers, PublicSet(t) PROVE TypeOK'
      <4>1. catalog' \in [row : BOOLEAN, last : Links, public : BOOLEAN]
        BY <3>3 DEF PublicSet
      <4>2. toggle' \in [Togglers -> [pc : {"idle", "scan", "set", "done"}, root : Links]]
        BY <3>3 DEF PublicSet
      <4> QED
        BY <3>3, <4>1, <4>2 DEF PublicSet
    <3>4. CASE PublicOff
      <4>1. catalog' \in [row : BOOLEAN, last : Links, public : BOOLEAN]
        BY <3>4 DEF PublicOff
      <4> QED
        BY <3>4, <4>1 DEF PublicOff
    <3> QED
      BY <2>6, <3>1, <3>2, <3>3, <3>4 DEF Public
  <2>7. CASE UNCHANGED vars
    BY <2>7 DEF vars
  <2> QED
    BY <2>1, <2>2, <2>3, <2>4, <2>5, <2>6, <2>7 DEF Next
<1> QED
  BY <1>1, <1>2, PTL DEF Spec

(***************************************************************************)
(* The inductive invariant.  The lock serialises activate and rollback, so *)
(* what the owner found out about releases and current stays true between  *)
(* its steps; only the owner's own prune removes releases, and it dooms    *)
(* every release but the kept ones.                                        *)
(***************************************************************************)
SwapTargetExists ==
    /\ \A d \in DeployIds : act[d].pc = "swap" => d \in Released
    /\ \A o \in Operators : roll[o].pc = "swap" => roll[o].target \in Released

CurrentNotDoomed == \A d \in DeployIds : current \notin act[d].doomed

DoomedWhilePruning == \A d \in DeployIds : act[d].doomed # {} => act[d].pc = "pruning"

IInv ==
    /\ TypeOK
    /\ LockOwned
    /\ CurrentExists
    /\ SwapTargetExists
    /\ CurrentNotDoomed
    /\ DoomedWhilePruning

LEMMA InitIInv == Init => IInv
  BY ReleaseAssumption, ProcAssumption
  DEF Init, IInv, TypeOK, LockOwned, Holds, ActHeld, RollHeld, CurrentExists, SwapTargetExists,
      CurrentNotDoomed, DoomedWhilePruning, Trees, Links, ActPC, RollPC

\* A command that only moves on to its next step disturbs nothing.
LEMMA MoveKeepsIInv ==
    ASSUME IInv, TypeOK', NEW d \in DeployIds, NEW pc, ActGoto(d, pc),
           pc # "swap", act[d].pc # "pruning",
           pc \in ActHeld <=> act[d].pc \in ActHeld,
           UNCHANGED <<releases, current, lock, roll>>
    PROVE  IInv'
<1>1. /\ act'[d].pc = pc /\ act'[d].doomed = act[d].doomed
      /\ \A e \in DeployIds \ {d} : act'[e] = act[e]
  BY DEF ActGoto, IInv, TypeOK
<1>2. LockOwned'
  BY <1>1, ProcAssumption DEF IInv, LockOwned, Holds
<1>3. CurrentExists' /\ SwapTargetExists'
  BY <1>1 DEF IInv, CurrentExists, SwapTargetExists, Released
<1>4. CurrentNotDoomed' /\ DoomedWhilePruning'
  BY <1>1 DEF IInv, CurrentNotDoomed, DoomedWhilePruning
<1> QED
  BY <1>2, <1>3, <1>4 DEF IInv

LEMMA LockKeepsIInv ==
    ASSUME IInv, TypeOK', NEW d \in DeployIds, ActivateLock(d)
    PROVE  IInv'
<1>1. /\ act'[d].pc = "check" /\ act'[d].doomed = act[d].doomed /\ act[d].pc = "waiting"
      /\ \A e \in DeployIds \ {d} : act'[e] = act[e]
      /\ lock = NoProc /\ lock' = d /\ UNCHANGED <<releases, current, roll>>
  BY DEF ActivateLock, ActGoto, siteVars, IInv, TypeOK
<1>2. \A p \in DeployIds \cup Operators : ~Holds(p)
  BY <1>1, ProcAssumption DEF IInv, LockOwned
<1>3. LockOwned'
  BY <1>1, <1>2, ProcAssumption DEF LockOwned, Holds, ActHeld
<1>4. CurrentExists' /\ SwapTargetExists'
  BY <1>1 DEF IInv, CurrentExists, SwapTargetExists, Released
<1>5. CurrentNotDoomed' /\ DoomedWhilePruning'
  BY <1>1 DEF IInv, CurrentNotDoomed, DoomedWhilePruning
<1> QED
  BY <1>3, <1>4, <1>5 DEF IInv

LEMMA NextIInv == IInv /\ TypeOK' /\ [Next]_vars => IInv'
<1> SUFFICES ASSUME IInv, TypeOK', [Next]_vars PROVE IInv'
  OBVIOUS
<1> USE ReleaseAssumption, ProcAssumption
    DEF IInv, LockOwned, Holds, CurrentExists, SwapTargetExists, CurrentNotDoomed,
        DoomedWhilePruning, ActGoto, ActEnd, RollGoto, RollEnd, siteVars, Released, TypeOK, ActHeld, RollHeld
<1>1. ASSUME NEW d \in DeployIds, PrepareStage(d) PROVE IInv'
  BY <1>1, MoveKeepsIInv DEF PrepareStage
<1>2. ASSUME NEW d \in DeployIds, PrepareRow(d) PROVE IInv'
  BY <1>2, MoveKeepsIInv DEF PrepareRow
<1>3. ASSUME NEW d \in DeployIds, Receive(d) PROVE IInv'
  BY <1>3 DEF Receive
<1>4. ASSUME NEW d \in DeployIds, Age(d) PROVE IInv'
  BY <1>4 DEF Age
<1>5. ASSUME NEW d \in DeployIds, ActivateBegin(d) PROVE IInv'
  BY <1>5, MoveKeepsIInv DEF ActivateBegin
<1>6. ASSUME NEW d \in DeployIds, ActivateLock(d) PROVE IInv'
  BY <1>6, LockKeepsIInv
<1>7. ASSUME NEW d \in DeployIds, ActivateCheck(d) PROVE IInv'
  BY <1>7, MoveKeepsIInv DEF ActivateCheck
<1>8. ASSUME NEW d \in DeployIds, ActivatePublic(d) PROVE IInv'
  BY <1>8, MoveKeepsIInv DEF ActivatePublic
<1>9. ASSUME NEW d \in DeployIds, ActivateHash(d) PROVE IInv'
  BY <1>9, MoveKeepsIInv DEF ActivateHash
<1>10. ASSUME NEW d \in DeployIds, ActivateManifest(d) PROVE IInv'
  BY <1>10, MoveKeepsIInv DEF ActivateManifest
<1>11. ASSUME NEW d \in DeployIds, ActivateRename(d) PROVE IInv'
  BY <1>11 DEF ActivateRename
<1>12. ASSUME NEW d \in DeployIds, ActivateSwap(d) PROVE IInv'
  BY <1>12 DEF ActivateSwap
<1>13. ASSUME NEW d \in DeployIds, ActivateShift(d) PROVE IInv'
  BY <1>13, MoveKeepsIInv DEF ActivateShift
<1>14. ASSUME NEW d \in DeployIds, ActivateRecord(d) PROVE IInv'
  BY <1>14, MoveKeepsIInv DEF ActivateRecord
<1>15. ASSUME NEW d \in DeployIds, PrunePick(d) PROVE IInv'
  <2>1. current \notin Released \ Kept
    BY DEF Kept
  <2> QED
    BY <1>15, <2>1 DEF PrunePick
<1>16. ASSUME NEW d \in DeployIds, NEW r \in DeployIds, PruneTear(d, r) PROVE IInv'
  BY <1>16 DEF PruneTear
<1>17. ASSUME NEW d \in DeployIds, NEW r \in DeployIds, PruneDrop(d, r) PROVE IInv'
  BY <1>17 DEF PruneDrop
<1>18. ASSUME NEW d \in DeployIds, PruneDone(d) PROVE IInv'
  BY <1>18 DEF PruneDone
<1>19. ASSUME NEW d \in DeployIds, NEW r \in DeployIds, GcTear(d, r) PROVE IInv'
  BY <1>19 DEF GcTear
<1>20. ASSUME NEW d \in DeployIds, NEW r \in DeployIds, GcDrop(d, r) PROVE IInv'
  BY <1>20 DEF GcDrop
<1>21. ASSUME NEW d \in DeployIds, ActivateDone(d) PROVE IInv'
  BY <1>21 DEF ActivateDone
<1>22. ASSUME NEW d \in DeployIds, ActivateRefuse(d) PROVE IInv'
  BY <1>22 DEF ActivateRefuse
<1>23. ASSUME NEW d \in DeployIds, ActivateCrash(d) PROVE IInv'
  BY <1>23 DEF ActivateCrash
<1>24. ASSUME NEW d \in DeployIds, SweepBegin(d) PROVE IInv'
  BY <1>24 DEF SweepBegin
<1>25. ASSUME NEW d \in DeployIds, SweepTear(d) PROVE IInv'
  BY <1>25 DEF SweepTear
<1>26. ASSUME NEW d \in DeployIds, SweepDone(d) PROVE IInv'
  BY <1>26 DEF SweepDone
<1>27. ASSUME NEW d \in DeployIds, SweepAbort(d) PROVE IInv'
  BY <1>27 DEF SweepAbort
<1>28. ASSUME NEW o \in Operators, NEW t \in Links, RollbackBegin(o, t) PROVE IInv'
  BY <1>28 DEF RollbackBegin
<1>29. ASSUME NEW o \in Operators, RollbackLock(o) PROVE IInv'
  BY <1>29 DEF RollbackLock
<1>30. ASSUME NEW o \in Operators, RollbackVerify(o) PROVE IInv'
  <2>1. Wanted(o) \in Released
    BY <1>30 DEF RollbackVerify, RollbackAllowed
  <2> QED
    BY <1>30, <2>1 DEF RollbackVerify
<1>31. ASSUME NEW o \in Operators, RollbackRefuse(o) PROVE IInv'
  BY <1>31 DEF RollbackRefuse
<1>32. ASSUME NEW o \in Operators, RollbackSwap(o) PROVE IInv'
  <2>1. lock = o /\ roll[o].target \in Released
    BY <1>32 DEF RollbackSwap
  <2>2. \A d \in DeployIds : act[d].doomed = {}
    BY <2>1
  <2> QED
    BY <1>32, <2>1, <2>2 DEF RollbackSwap
<1>33. ASSUME NEW o \in Operators, RollbackShift(o) PROVE IInv'
  BY <1>33 DEF RollbackShift
<1>34. ASSUME NEW o \in Operators, RollbackRecord(o) PROVE IInv'
  BY <1>34 DEF RollbackRecord
<1>35. ASSUME NEW o \in Operators, RollbackCrash(o) PROVE IInv'
  BY <1>35 DEF RollbackCrash
<1>36. ASSUME NEW t \in Togglers, PublicResolve(t) PROVE IInv'
  BY <1>36 DEF PublicResolve
<1>37. ASSUME NEW t \in Togglers, PublicScan(t) PROVE IInv'
  BY <1>37 DEF PublicScan
<1>38. ASSUME NEW t \in Togglers, PublicSet(t) PROVE IInv'
  BY <1>38 DEF PublicSet
<1>39. CASE PublicOff
  BY <1>39 DEF PublicOff
<1>40. CASE UNCHANGED vars
  BY <1>40 DEF vars
<1> QED
  BY <1>1, <1>2, <1>3, <1>4, <1>5, <1>6, <1>7, <1>8, <1>9, <1>10, <1>11, <1>12, <1>13, <1>14, <1>15, <1>16, <1>17, <1>18, <1>19, <1>20, <1>21, <1>22, <1>23, <1>24, <1>25, <1>26, <1>27, <1>28, <1>29, <1>30, <1>31, <1>32, <1>33, <1>34, <1>35, <1>36, <1>37, <1>38, <1>39, <1>40
  DEF Next, PrepareStep, ActivateStep, Prune, Gc, SweepStep, RollbackStep, Public

\* LockOwned and CurrentExists for every instance: deploy.lock is held by exactly the
\* process between Lock and unlock, and `current` names a release that is on the host,
\* whatever crashes, is pruned, swept or rolled back.
LEMMA IInvHolds == Spec => []IInv
<1>1. IInv /\ TypeOK' /\ [Next]_vars => IInv'
  BY NextIInv
<1> QED
  BY InitIInv, <1>1, TypeCorrect, PTL DEF Spec

\* Exactly the owner of deploy.lock is between Lock and the deferred unlock.
THEOREM LockOwnership == Spec => []LockOwned
<1>1. IInv => LockOwned
  BY DEF IInv
<1> QED
  BY <1>1, IInvHolds, PTL

\* `current` never dangles.
THEOREM CurrentNeverDangles == Spec => []CurrentExists
<1>1. IInv => CurrentExists
  BY DEF IInv
<1> QED
  BY <1>1, IInvHolds, PTL

\* The release being served is torn only by a cleanup of its own deploy id.
THEOREM ServedReleaseKept == Spec => CurrentTornOnlyBySweep
<1> DEFINE Kept1 == \A r \in DeployIds :
         r = current /\ releases[r] = "whole" /\ releases'[r] # "whole"
            => sweep[r] = "removing"
<1>1. IInv /\ [Next]_vars => Kept1
  <2> SUFFICES ASSUME IInv, [Next]_vars,
                      NEW c \in DeployIds, c = current, releases[c] = "whole",
                      releases'[c] # "whole"
               PROVE  sweep[c] = "removing"
    OBVIOUS
  <2> USE DEF siteVars, Released, IInv, TypeOK
  <2>1. ASSUME NEW d \in DeployIds, ActivateRename(d) PROVE FALSE
    BY <2>1 DEF ActivateRename
  <2>2. ASSUME NEW d \in DeployIds, NEW r \in DeployIds, PruneTear(d, r) PROVE FALSE
    BY <2>2 DEF PruneTear, CurrentNotDoomed
  <2>3. ASSUME NEW d \in DeployIds, NEW r \in DeployIds, PruneDrop(d, r) PROVE FALSE
    BY <2>3 DEF PruneDrop
  <2>4. ASSUME NEW d \in DeployIds, SweepTear(d) PROVE sweep[c] = "removing"
    BY <2>4 DEF SweepTear
  <2>5. ASSUME NEW d \in DeployIds, SweepDone(d) PROVE FALSE
    BY <2>5 DEF SweepDone
  <2>6. ASSUME UNCHANGED releases PROVE FALSE
    BY <2>6
  <2>7. ASSUME NEW d \in DeployIds,
               \/ PrepareStep(d) \/ Receive(d) \/ Age(d) \/ ActivateBegin(d)
               \/ ActivateCrash(d) \/ SweepBegin(d) \/ SweepAbort(d)
        PROVE  UNCHANGED releases
    BY <2>7 DEF PrepareStep, PrepareStage, PrepareRow, Receive, Age, ActivateBegin,
                ActivateCrash, SweepBegin, SweepAbort
  <2>8. ASSUME NEW d \in DeployIds, ActivateStep(d), ~ActivateRename(d), ~Prune(d)
        PROVE  UNCHANGED releases
    BY <2>8 DEF ActivateStep, ActivateLock, ActivateCheck, ActivatePublic, ActivateHash,
                ActivateManifest, ActivateSwap, ActivateShift, ActivateRecord, Gc, GcTear,
                GcDrop, ActivateDone, ActivateRefuse
  <2>9. ASSUME NEW d \in DeployIds, PrunePick(d) \/ PruneDone(d) PROVE UNCHANGED releases
    BY <2>9 DEF PrunePick, PruneDone
  <2>10. ASSUME NEW o \in Operators,
                \/ \E t \in Links : RollbackBegin(o, t)
                \/ RollbackStep(o) \/ RollbackCrash(o)
         PROVE  UNCHANGED releases
    BY <2>10 DEF RollbackBegin, RollbackStep, RollbackLock, RollbackVerify, RollbackRefuse,
                 RollbackSwap, RollbackShift, RollbackRecord, RollbackCrash
  <2>11. ASSUME Public PROVE UNCHANGED releases
    BY <2>11 DEF Public, PublicResolve, PublicScan, PublicSet, PublicOff
  <2>12. CASE UNCHANGED vars
    BY <2>12, <2>6 DEF vars
  <2> QED
    BY <2>1, <2>2, <2>3, <2>4, <2>5, <2>6, <2>7, <2>8, <2>9, <2>10, <2>11, <2>12
    DEF Next, Prune, SweepStep
<1>2. IInv /\ [Next]_vars => [Kept1]_vars
  BY <1>1
<1> QED
  BY <1>2, IInvHolds, PTL DEF Spec, CurrentTornOnlyBySweep

(***************************************************************************)
(* The second inductive invariant: how far the holder of the lock is, and  *)
(* what the links, the releases and the catalog are by then.  A release is *)
(* made once (Unreleased), so the one being published is not the one that  *)
(* was served (Published), what was served becomes `previous` and outlives *)
(* the command unless pruning took it, in which case the link goes too     *)
(* (PreviousLeft), and a rollback goes to the tree it verified             *)
(* (TargetIntact).                                                         *)
(***************************************************************************)
BeforeRename == {"idle", "made", "prepared", "waiting", "check", "public", "hash", "manifest",
                 "rename"}

Unreleased == \A d \in DeployIds : act[d].pc \in BeforeRename => releases[d] = "none"

Published ==
    \A d \in DeployIds :
        /\ act[d].pc = "swap" => current # d
        /\ act[d].pc \in {"shift", "record", "prune", "pruning", "gc"} => current = d
        /\ act[d].pc \in {"prune", "pruning", "gc"} => catalog.last = d

PreviousLeft ==
    \A d \in DeployIds :
        /\ act[d].pc = "shift" => act[d].old # d
        /\ act[d].pc \in {"record", "prune", "pruning", "gc"} => previous # d
        /\ act[d].pc = "gc" => previous \in Released \cup {NoRelease}

TargetIntact ==
    \A o \in Operators :
        roll[o].pc = "swap" => Verified(roll[o].target) \/ sweep[roll[o].target] # "idle"

QInv == Unreleased /\ Published /\ PreviousLeft /\ TargetIntact

LEMMA InitQInv == Init => QInv
  BY DEF Init, QInv, Unreleased, Published, PreviousLeft, TargetIntact, BeforeRename

\* The owner of the lock is alone in its section.
LEMMA HolderAlone ==
    ASSUME IInv, NEW p \in DeployIds \cup Operators, Holds(p)
    PROVE  /\ lock = p
           /\ \A d \in DeployIds \ {p} : act[d].pc \notin ActHeld
           /\ \A o \in Operators \ {p} : roll[o].pc \notin RollHeld
  BY ProcAssumption DEF IInv, LockOwned, Holds

\* A command that moves on before the rename disturbs nothing.
LEMMA MoveKeepsQInv ==
    ASSUME IInv, QInv, NEW d \in DeployIds, NEW pc, ActGoto(d, pc),
           act[d].pc \in BeforeRename, pc \in BeforeRename,
           UNCHANGED <<releases, current, previous, roll, sweep>>,
           catalog'.last = catalog.last,
           \A o \in Operators : roll[o].pc = "swap" => attested'[roll[o].target] = attested[roll[o].target]
    PROVE  QInv'
<1>1. act'[d].pc = pc /\ \A e \in DeployIds \ {d} : act'[e] = act[e]
  BY DEF ActGoto, IInv, TypeOK
<1>2. Unreleased'
  BY <1>1 DEF QInv, Unreleased
<1>3. Published' /\ PreviousLeft'
  BY <1>1 DEF QInv, Published, PreviousLeft, BeforeRename, Released
<1>4. TargetIntact'
  BY DEF QInv, TargetIntact, Verified
<1> QED
  BY <1>2, <1>3, <1>4 DEF QInv

\* A step of other variables disturbs nothing.
LEMMA FrameKeepsQInv ==
    ASSUME IInv, QInv, UNCHANGED <<releases, attested, current, previous, act, roll, sweep>>,
           catalog'.last = catalog.last
    PROVE  QInv'
  BY DEF QInv, Unreleased, Published, PreviousLeft, TargetIntact, Verified, Released

LEMMA NextQInv == IInv /\ TypeOK' /\ IInv' /\ QInv /\ [Next]_vars => QInv'
<1> SUFFICES ASSUME IInv, TypeOK', IInv', QInv, [Next]_vars PROVE QInv'
  OBVIOUS
<1> USE ReleaseAssumption, ProcAssumption DEF siteVars
<1> DEFINE Frame == /\ UNCHANGED <<releases, attested, current, previous, act, roll, sweep>>
                    /\ catalog'.last = catalog.last
<1>1. ASSUME NEW d \in DeployIds, PrepareStep(d) \/ ActivateBegin(d) PROVE QInv'
  <2>1. PICK pc \in {"made", "prepared", "waiting"} : ActGoto(d, pc)
    BY <1>1 DEF PrepareStep, PrepareStage, PrepareRow, ActivateBegin
  <2>2. /\ act[d].pc \in BeforeRename /\ pc \in BeforeRename
        /\ UNCHANGED <<releases, current, previous, roll, sweep, attested>>
    BY <1>1, <2>1 DEF PrepareStep, PrepareStage, PrepareRow, ActivateBegin, BeforeRename
  <2>3. catalog'.last = catalog.last
    BY <1>1 DEF PrepareStep, PrepareStage, PrepareRow, ActivateBegin, IInv, TypeOK
  <2> QED
    BY <2>1, <2>2, <2>3, MoveKeepsQInv
<1>2. ASSUME NEW d \in DeployIds, Receive(d) \/ Age(d) \/ Gc(d) PROVE QInv'
  <2>1. Frame
    BY <1>2 DEF Receive, Age, Gc, GcTear, GcDrop
  <2> QED
    BY <2>1, FrameKeepsQInv
<1>3. ASSUME NEW d \in DeployIds,
             \/ ActivateLock(d) \/ ActivateCheck(d) \/ ActivatePublic(d) \/ ActivateManifest(d)
      PROVE QInv'
  <2>1. PICK pc \in {"check", "public", "hash", "rename"} : ActGoto(d, pc)
    BY <1>3 DEF ActivateLock, ActivateCheck, ActivatePublic, ActivateManifest
  <2>2. /\ act[d].pc \in BeforeRename /\ pc \in BeforeRename
        /\ UNCHANGED <<releases, current, previous, roll, sweep, attested, catalog>>
    BY <1>3, <2>1
    DEF ActivateLock, ActivateCheck, ActivatePublic, ActivateManifest, BeforeRename
  <2> QED
    BY <2>1, <2>2, MoveKeepsQInv
<1>4. ASSUME NEW d \in DeployIds, ActivateHash(d) PROVE QInv'
  <2>1. /\ act[d].pc = "hash" /\ ActGoto(d, "manifest")
        /\ UNCHANGED <<releases, current, previous, roll, sweep, catalog>>
    BY <1>4 DEF ActivateHash
  <2>2. \A o \in Operators : roll[o].pc # "swap"
    BY <2>1, HolderAlone DEF Holds, ActHeld, RollHeld
  <2> QED
    BY <2>1, <2>2, MoveKeepsQInv DEF BeforeRename
<1>5. ASSUME NEW d \in DeployIds, ActivateRename(d) PROVE QInv'
  <2>1. /\ act[d].pc = "rename" /\ releases[d] = "none" /\ Holds(d)
        /\ UNCHANGED <<current, previous, roll, sweep, catalog, attested>>
        /\ \A e \in DeployIds \ {d} : releases'[e] = releases[e]
        /\ act'[d].pc = "swap" /\ \A e \in DeployIds \ {d} : act'[e] = act[e]
    BY <1>5 DEF ActivateRename, ActGoto, IInv, TypeOK, Holds, ActHeld
  <2>2. current # d
    BY <2>1 DEF IInv, CurrentExists, Released
  <2>3. /\ \A e \in DeployIds \ {d} : act'[e].pc \notin ActHeld
        /\ \A o \in Operators : roll[o].pc # "swap"
    BY <2>1, HolderAlone DEF RollHeld
  <2> QED
    BY <2>1, <2>2, <2>3
    DEF QInv, Unreleased, Published, PreviousLeft, TargetIntact, BeforeRename, ActHeld
<1>6. ASSUME NEW d \in DeployIds,
             \/ ActivateSwap(d) \/ ActivateShift(d) \/ ActivateRecord(d)
             \/ PrunePick(d) \/ PruneDone(d)
      PROVE QInv'
  <2>1. /\ act[d].pc \in {"swap", "shift", "record", "prune", "pruning"}
        /\ UNCHANGED <<releases, attested, roll, sweep>>
        /\ \A e \in DeployIds \ {d} : act'[e] = act[e]
    BY <1>6 DEF ActivateSwap, ActivateShift, ActivateRecord, PrunePick, PruneDone, ActGoto, IInv, TypeOK
  <2>2. /\ \A e \in DeployIds \ {d} : act'[e].pc \notin ActHeld
        /\ \A o \in Operators : roll[o].pc # "swap"
    BY <2>1, HolderAlone DEF Holds, ActHeld, RollHeld
  <2>3. CASE ActivateSwap(d)
    <3>1. /\ act'[d].pc = "shift" /\ act'[d].old # d /\ current' = d
      BY <2>3 DEF ActivateSwap, IInv, TypeOK, QInv, Published
    <3> QED
      BY <2>1, <2>2, <3>1
      DEF QInv, Unreleased, Published, PreviousLeft, TargetIntact, BeforeRename, ActHeld, Verified
  <2>4. CASE ActivateShift(d)
    <3>1. act'[d].pc = "record" /\ previous' # d /\ current' = d
      BY <2>4 DEF ActivateShift, ActGoto, IInv, TypeOK, QInv, PreviousLeft, Published
    <3> QED
      BY <2>1, <2>2, <3>1
      DEF QInv, Unreleased, Published, PreviousLeft, TargetIntact, BeforeRename, ActHeld, Verified
  <2>5. CASE ActivateRecord(d)
    <3>1. act'[d].pc = "prune" /\ previous' # d /\ current' = d /\ catalog'.last = d
      BY <2>5 DEF ActivateRecord, ActGoto, IInv, TypeOK, QInv, PreviousLeft, Published
    <3> QED
      BY <2>1, <2>2, <3>1
      DEF QInv, Unreleased, Published, PreviousLeft, TargetIntact, BeforeRename, ActHeld, Verified
  <2>6. CASE PrunePick(d)
    <3>1. act'[d].pc = "pruning" /\ previous' # d /\ current' = d /\ catalog'.last = d
      BY <2>6 DEF PrunePick, IInv, TypeOK, QInv, PreviousLeft, Published
    <3> QED
      BY <2>1, <2>2, <3>1
      DEF QInv, Unreleased, Published, PreviousLeft, TargetIntact, BeforeRename, ActHeld, Verified
  <2>7. CASE PruneDone(d)
    <3>1. /\ act'[d].pc = "gc" /\ previous' # d /\ current' = d /\ catalog'.last = d
          /\ previous' \in Released' \cup {NoRelease}
      BY <2>7 DEF PruneDone, ActGoto, IInv, TypeOK, QInv, PreviousLeft, Published, Released
    <3> QED
      BY <2>1, <2>2, <3>1
      DEF QInv, Unreleased, Published, PreviousLeft, TargetIntact, BeforeRename, ActHeld, Verified
  <2> QED
    BY <1>6, <2>3, <2>4, <2>5, <2>6, <2>7
<1>7. ASSUME NEW d \in DeployIds, NEW r \in DeployIds, PruneTear(d, r) \/ PruneDrop(d, r)
      PROVE QInv'
  <2>1. /\ act[d].pc = "pruning" /\ Holds(d)
        /\ UNCHANGED <<current, previous, attested, roll, sweep, catalog>>
        /\ \A e \in DeployIds : act'[e].pc = act[e].pc /\ act'[e].old = act[e].old
        /\ releases' \in [DeployIds -> Trees]
        /\ \A e \in DeployIds : releases[e] = "none" => releases'[e] = "none"
    BY <1>7 DEF PruneTear, PruneDrop, IInv, TypeOK, Holds, ActHeld, Trees
  <2>2. /\ \A e \in DeployIds : act[e].pc # "gc"
        /\ \A o \in Operators : roll[o].pc # "swap"
    BY <2>1, HolderAlone DEF ActHeld, RollHeld
  <2> QED
    BY <2>1, <2>2 DEF QInv, Unreleased, Published, PreviousLeft, TargetIntact, BeforeRename
<1>8. ASSUME NEW d \in DeployIds, ActivateDone(d) \/ ActivateRefuse(d) \/ ActivateCrash(d)
      PROVE QInv'
  <2>1. /\ act'[d].pc \in {"done", "aborted"}
        /\ UNCHANGED <<releases, attested, current, previous, roll, sweep, catalog>>
        /\ \A e \in DeployIds \ {d} : act'[e] = act[e]
    BY <1>8 DEF ActivateDone, ActivateRefuse, ActivateCrash, ActEnd, IInv, TypeOK
  <2> QED
    BY <2>1
    DEF QInv, Unreleased, Published, PreviousLeft, TargetIntact, BeforeRename, Verified, Released
<1>9. ASSUME NEW d \in DeployIds, SweepBegin(d) \/ SweepStep(d) \/ SweepAbort(d) PROVE QInv'
  <2>1. /\ UNCHANGED <<attested, current, previous, act, roll, catalog>>
        /\ \A e \in DeployIds : releases'[e] = "none" <=> releases[e] = "none"
        /\ \A e \in DeployIds : sweep'[e] = "idle" => releases'[e] = releases[e] /\ sweep[e] = "idle"
    BY <1>9 DEF SweepBegin, SweepStep, SweepTear, SweepDone, SweepAbort, IInv, TypeOK
  <2>2. TargetIntact'
    <3> SUFFICES ASSUME NEW o \in Operators, roll[o].pc = "swap", sweep'[roll[o].target] = "idle"
                 PROVE  Verified(roll[o].target)'
      BY <2>1 DEF TargetIntact
    <3>1. roll[o].target \in DeployIds
      BY DEF IInv, SwapTargetExists, Released
    <3> QED
      BY <2>1, <3>1 DEF QInv, TargetIntact, Verified
  <2> QED
    BY <2>1, <2>2 DEF QInv, Unreleased, Published, PreviousLeft, Released
<1>10. ASSUME NEW o \in Operators, NEW t \in Links, RollbackBegin(o, t) PROVE QInv'
  <2>1. /\ UNCHANGED <<releases, attested, current, previous, act, sweep, catalog>>
        /\ roll'[o].pc = "waiting" /\ \A q \in Operators \ {o} : roll'[q] = roll[q]
    BY <1>10 DEF RollbackBegin, IInv, TypeOK
  <2> QED
    BY <2>1 DEF QInv, Unreleased, Published, PreviousLeft, TargetIntact, Verified, Released
<1>11. ASSUME NEW o \in Operators,
              \/ RollbackLock(o) \/ RollbackRefuse(o) \/ RollbackCrash(o)
       PROVE QInv'
  <2>1. /\ UNCHANGED <<releases, attested, current, previous, act, sweep, catalog>>
        /\ roll'[o].pc # "swap" /\ \A q \in Operators \ {o} : roll'[q] = roll[q]
    BY <1>11 DEF RollbackLock, RollbackRefuse, RollbackCrash, RollGoto, RollEnd, IInv, TypeOK
  <2> QED
    BY <2>1 DEF QInv, Unreleased, Published, PreviousLeft, TargetIntact, Verified, Released
<1>12. ASSUME NEW o \in Operators, RollbackVerify(o) PROVE QInv'
  <2>1. /\ UNCHANGED <<releases, attested, current, previous, act, sweep, catalog>>
        /\ Verified(Wanted(o))
        /\ roll'[o].target = Wanted(o) /\ \A q \in Operators \ {o} : roll'[q] = roll[q]
    BY <1>12 DEF RollbackVerify, RollbackAllowed, IInv, TypeOK
  <2>2. Verified(Wanted(o))'
    BY <2>1, <1>12 DEF Verified, Wanted
  <2> QED
    BY <2>1 DEF QInv, Unreleased, Published, PreviousLeft, TargetIntact, Verified, Released
<1>13. ASSUME NEW o \in Operators, RollbackSwap(o) \/ RollbackShift(o) \/ RollbackRecord(o)
       PROVE QInv'
  <2>1. /\ UNCHANGED <<releases, attested, act, sweep>> /\ Holds(o)
        /\ roll'[o].pc # "swap" /\ \A q \in Operators \ {o} : roll'[q] = roll[q]
    BY <1>13
    DEF RollbackSwap, RollbackShift, RollbackRecord, RollGoto, RollEnd, IInv, TypeOK, Holds, RollHeld
  <2>2. \A d \in DeployIds : act[d].pc \notin ActHeld
    BY <2>1, HolderAlone
  <2> QED
    BY <2>1, <2>2
    DEF QInv, Unreleased, Published, PreviousLeft, TargetIntact, Verified, Released, ActHeld
<1>14. CASE Public
  <2>1. Frame
    BY <1>14 DEF Public, PublicResolve, PublicScan, PublicSet, PublicOff, IInv, TypeOK
  <2> QED
    BY <2>1, FrameKeepsQInv
<1>15. CASE UNCHANGED vars
  <2>1. Frame
    BY <1>15 DEF vars
  <2> QED
    BY <2>1, FrameKeepsQInv
<1> QED
  BY <1>1, <1>2, <1>3, <1>4, <1>5, <1>6, <1>7, <1>8, <1>9, <1>10, <1>11, <1>12, <1>13, <1>14, <1>15
  DEF Next, ActivateStep, Prune, RollbackStep

LEMMA QInvHolds == Spec => []QInv
<1>1. IInv /\ TypeOK' /\ IInv' /\ QInv /\ [Next]_vars => QInv'
  BY NextQInv
<1> QED
  BY InitQInv, <1>1, IInvHolds, TypeCorrect, PTL DEF Spec

\* After RecordDeploy the catalog names the release that `current` serves, until the
\* command gives the lock back.
THEOREM CatalogFollowsCurrent == Spec => []CatalogAgrees
<1>1. QInv => CatalogAgrees
  BY DEF QInv, Published, CatalogAgrees
<1> QED
  BY <1>1, QInvHolds, PTL

\* A successful activate leaves in `previous` nothing or another release that is there.
THEOREM RollbackStaysPossible == Spec => []PreviousUsable
<1>1. QInv => PreviousUsable
  BY DEF QInv, PreviousLeft, PreviousUsable
<1> QED
  BY <1>1, QInvHolds, PTL

\* A rollback publishes the tree whose manifest it verified, unless a cleanup of that
\* upload ran meanwhile.
THEOREM RollbackPublishesVerified == Spec => RollbackIntact
<1> DEFINE Intact == \A o \in Operators :
         roll[o].pc = "swap" /\ current' # current /\ lock = o
            => Verified(current') \/ sweep[current'] # "idle"
<1>1. IInv /\ QInv /\ [Next]_vars => Intact
  <2> SUFFICES ASSUME IInv, QInv, [Next]_vars,
                      NEW o \in Operators, roll[o].pc = "swap", current' # current, lock = o
               PROVE  Verified(current') \/ sweep[current'] # "idle"
    OBVIOUS
  <2>1. Holds(o)
    BY DEF Holds, RollHeld
  <2>2. ASSUME NEW d \in DeployIds, ActivateSwap(d) PROVE FALSE
    BY <2>1, <2>2, HolderAlone, ProcAssumption DEF ActivateSwap, ActHeld
  <2>3. ASSUME NEW q \in Operators, RollbackSwap(q) PROVE current' = roll[o].target
    BY <2>1, <2>3, HolderAlone DEF RollbackSwap, RollHeld
  <2>4. \/ \E d \in DeployIds : ActivateSwap(d)
        \/ \E q \in Operators : RollbackSwap(q)
    <3> USE DEF siteVars
    <3>1. ASSUME NEW d \in DeployIds,
                 \/ PrepareStep(d) \/ Receive(d) \/ Age(d) \/ ActivateBegin(d)
                 \/ ActivateCrash(d) \/ SweepBegin(d) \/ SweepStep(d) \/ SweepAbort(d)
          PROVE  FALSE
      BY <3>1 DEF PrepareStep, PrepareStage, PrepareRow, Receive, Age, ActivateBegin,
                  ActivateCrash, SweepBegin, SweepStep, SweepTear, SweepDone, SweepAbort
    <3>2. ASSUME NEW d \in DeployIds, ActivateStep(d) PROVE ActivateSwap(d)
      BY <3>2 DEF ActivateStep, ActivateLock, ActivateCheck, ActivatePublic, ActivateHash,
                  ActivateManifest, ActivateRename, ActivateShift, ActivateRecord, Prune,
                  PrunePick, PruneTear, PruneDrop, PruneDone, Gc, GcTear, GcDrop,
                  ActivateDone, ActivateRefuse
    <3>3. ASSUME NEW q \in Operators,
                 (\E t \in Links : RollbackBegin(q, t)) \/ RollbackStep(q) \/ RollbackCrash(q)
          PROVE  RollbackSwap(q)
      BY <3>3 DEF RollbackBegin, RollbackStep, RollbackLock, RollbackVerify, RollbackRefuse,
                  RollbackShift, RollbackRecord, RollbackCrash
    <3>4. CASE Public
      BY <3>4 DEF Public, PublicResolve, PublicScan, PublicSet, PublicOff
    <3>5. CASE UNCHANGED vars
      BY <3>5 DEF vars
    <3> QED
      BY <3>1, <3>2, <3>3, <3>4, <3>5 DEF Next
  <2> QED
    BY <2>2, <2>3, <2>4 DEF QInv, TargetIntact, Verified
<1>2. IInv /\ QInv /\ [Next]_vars => [Intact]_vars
  BY <1>1
<1> QED
  BY <1>2, IInvHolds, QInvHolds, PTL DEF Spec, RollbackIntact

(***************************************************************************)
(* Every step of a session is a step of HostDeploy or leaves the host as   *)
(* it is, so what was shown of the host holds here too.                    *)
(***************************************************************************)
LEMMA SessionInitIsHost == SessionInit => Init
  BY DEF SessionInit

LEMMA SessionNextIsHost == [SessionNext]_allVars => [Next]_vars
<1> SUFFICES ASSUME [SessionNext]_allVars PROVE [Next]_vars
  OBVIOUS
<1>1. CASE HostStep
  BY <1>1 DEF HostStep, SessionAge, Next
<1>2. ASSUME NEW d \in DeployIds, SessionStep(d) PROVE [Next]_vars
  <2>1. ASSUME \/ PrepareRead(d) \/ PrepareReturns(d) \/ PrepareFails(d)
               \/ TransferReturns(d) \/ TransferFails(d) \/ ActivateReturns(d)
               \/ ActivateDetached(d) \/ RecordLocally(d) \/ CleanupReturns(d)
               \/ Interrupt(d) \/ CancelEarly(d) \/ ClientDies(d)
        PROVE  UNCHANGED vars
    BY <2>1 DEF PrepareRead, PrepareReturns, PrepareFails, TransferReturns, TransferFails,
                ActivateReturns, ActivateDetached, RecordLocally, CleanupReturns, Interrupt,
                CancelEarly, ClientDies
  <2>2. ASSUME \/ SessionPrepare(d) \/ SessionReceive(d) \/ SessionActivate(d)
               \/ CleanupBegin(d)
        PROVE  Next
    BY <2>2 DEF SessionPrepare, SessionReceive, SessionActivate, CleanupBegin, Next
  <2> QED
    BY <1>2, <2>1, <2>2 DEF SessionStep
<1>3. CASE UNCHANGED allVars
  BY <1>3 DEF allVars
<1> QED
  BY <1>1, <1>2, <1>3 DEF SessionNext

\* The sessions implement HostDeploy: whatever HostDeploy promises of the release
\* directory, quick deploy and the portal keep.
THEOREM SessionsUseTheHost == SessionSpec => Spec
  BY SessionInitIsHost, SessionNextIsHost, PTL DEF SessionSpec, Spec

\* A cleanup knows the result that the session ends with.
ResultKnown == \A d \in DeployIds : session[d].pc \in {"cleanup", "cleaning"} => session[d].result # "none"

TInv == SessionTypeOK /\ ResultKnown

LEMMA TInvHolds == SessionSpec => []TInv
<1> USE DEF TInv
<1>1. SessionInit => TInv
  BY DEF SessionInit, SessionTypeOK, ResultKnown, SessionPC, Final, Links
<1>2. TInv /\ TypeOK /\ [SessionNext]_allVars => TInv'
  <2> SUFFICES ASSUME TInv, TypeOK, [SessionNext]_allVars PROVE TInv'
    OBVIOUS
  <2> USE DEF SessionTypeOK, ResultKnown, SessionPC, Final, Goto, Clean
  <2>1. CASE HostStep
    BY <2>1 DEF HostStep, sessionVars
  <2>2. ASSUME NEW d \in DeployIds, SessionStep(d) PROVE TInv'
    <3>1. CASE PrepareRead(d)
      <4>1. catalog.last \in Links
        BY DEF TypeOK
      <4> QED
        BY <3>1, <4>1 DEF PrepareRead
    <3>2. CASE SessionPrepare(d) \/ SessionReceive(d)
      BY <3>2 DEF SessionPrepare, SessionReceive, sessionVars
    <3>3. CASE PrepareReturns(d)
      BY <3>3 DEF PrepareReturns
    <3>4. CASE PrepareFails(d) \/ CancelEarly(d) \/ ClientDies(d) \/ Interrupt(d)
      BY <3>4 DEF PrepareFails, CancelEarly, ClientDies, Interrupt
    <3>5. CASE TransferReturns(d) \/ TransferFails(d) \/ SessionActivate(d)
      BY <3>5 DEF TransferReturns, TransferFails, SessionActivate
    <3>6. CASE ActivateReturns(d) \/ ActivateDetached(d) \/ RecordLocally(d)
      BY <3>6 DEF ActivateReturns, ActivateDetached, RecordLocally
    <3>7. CASE CleanupBegin(d)
      BY <3>7 DEF CleanupBegin
    <3>8. CASE CleanupReturns(d)
      <4>1. session[d].result \in {"failed", "interrupted"}
        BY <3>8 DEF CleanupReturns
      <4> QED
        BY <3>8, <4>1 DEF CleanupReturns
    <3> QED
      BY <2>2, <3>1, <3>2, <3>3, <3>4, <3>5, <3>6, <3>7, <3>8 DEF SessionStep
  <2>3. CASE UNCHANGED allVars
    BY <2>3 DEF allVars, sessionVars
  <2> QED
    BY <2>1, <2>2, <2>3 DEF SessionNext
<1> QED
  BY <1>1, <1>2, SessionsUseTheHost, TypeCorrect, PTL DEF SessionSpec

\* The variables of the sessions stay in their types.
THEOREM SessionTypeCorrect == SessionSpec => []SessionTypeOK
<1>1. TInv => SessionTypeOK
  BY DEF TInv
<1> QED
  BY <1>1, TInvHolds, PTL

(***************************************************************************)
(* The inductive invariant of the sessions that never lose their ssh.      *)
(* Place: how the session and its commands on the host keep step.  Upload: *)
(* a tree that is being activated is complete, and no cleanup and no       *)
(* collection of old uploads is after it.  Release: what was published is  *)
(* the complete tree that was attested; only retention takes files off it, *)
(* and then its manifest no longer verifies, so it is never served again.  *)
(***************************************************************************)
Attached == DeployIds \ Interruptible

ToRename == {"waiting", "check", "public", "hash", "manifest", "rename"}

Place(d) ==
    /\ session[d].pc = "start" => act[d].pc = "idle"
    /\ session[d].pc = "preparing" => act[d].pc \in {"idle", "made", "prepared", "aborted"}
    /\ session[d].pc \in {"transfer", "uploaded"} => act[d].pc = "prepared"
    /\ session[d].pc = "activating" => act[d].pc \in ActHeld \cup {"waiting", "done", "aborted"}
    /\ session[d].pc = "activated" => act[d].pc = "done"
    /\ session[d].pc \in {"cleanup", "cleaning"} => act[d].pc \in {"prepared", "aborted"}
    /\ sweep[d] # "idle" =>
         act[d].pc \in {"prepared", "aborted"} /\ session[d].pc \in Final \cup {"cleaning"}
    /\ d \in aged => act[d].pc \in {"prepared", "done", "aborted"} /\ session[d].pc \in Final

Upload(d) ==
    /\ session[d].pc = "uploaded" => staged[d] = "whole"
    /\ act[d].pc \in ToRename => staged[d] = "whole"
    /\ act[d].pc = "idle" => staged[d] = "none"

Release(d) ==
    /\ act[d].pc \in {"manifest", "rename"} => attested[d] = "whole"
    /\ releases[d] # "none" =>
         /\ releases[d] \in {"whole", "torn"} /\ attested[d] = "whole"
         /\ staged[d] = "none" /\ sweep[d] # "removing"
    /\ act[d].pc = "swap" => releases[d] = "whole"

Guarded(d) == Place(d) /\ Upload(d) /\ Release(d)

TargetWhole ==
    \A o \in Operators :
        roll[o].pc = "swap" /\ roll[o].target \in Attached => releases[roll[o].target] = "whole"

WInv == (\A d \in Attached : Guarded(d)) /\ TargetWhole /\ OthersStayWhole

LEMMA InitWInv == SessionInit => WInv
  BY ReleaseAssumption
  DEF SessionInit, Init, WInv, Guarded, Place, Upload, Release, TargetWhole, OthersStayWhole,
      ToRename, Attached, Final

\* A session that nothing happens to stays guarded.
LEMMA GuardedKept ==
    ASSUME NEW e \in Attached, Guarded(e),
           session'[e].pc = session[e].pc, act'[e].pc = act[e].pc, sweep'[e] = sweep[e],
           staged'[e] = staged[e], releases'[e] = releases[e], attested'[e] = attested[e],
           e \in aged' => e \in aged
    PROVE  Guarded(e)'
  BY DEF Guarded, Place, Upload, Release

\* A step of one session or of its commands that serves no other release and changes none.
LEMMA OneSessionMoves ==
    ASSUME WInv, NEW d \in DeployIds, UNCHANGED <<current, roll, releases>>,
           \A e \in DeployIds \ {d} :
               /\ session'[e].pc = session[e].pc /\ act'[e].pc = act[e].pc
               /\ sweep'[e] = sweep[e] /\ staged'[e] = staged[e] /\ attested'[e] = attested[e]
               /\ e \in aged' => e \in aged,
           d \in Attached => Guarded(d)'
    PROVE  WInv'
<1>1. ASSUME NEW e \in Attached, e # d PROVE Guarded(e)'
  BY <1>1, GuardedKept DEF WInv, Attached
<1>2. TargetWhole' /\ OthersStayWhole'
  BY DEF WInv, TargetWhole, OthersStayWhole
<1> QED
  BY <1>1, <1>2 DEF WInv

\* Steps of the client of session d.
LEMMA SessionKeepsWInv ==
    ASSUME TypeOK, QInv, TInv, WInv, NEW d \in DeployIds, SessionStep(d)
    PROVE  WInv'
<1> USE DEF TInv, SessionTypeOK, TypeOK, siteVars, sessionVars, vars, Goto, Clean
<1> DEFINE Rest == \A e \in DeployIds \ {d} :
                     /\ session'[e].pc = session[e].pc /\ act'[e].pc = act[e].pc
                     /\ sweep'[e] = sweep[e] /\ staged'[e] = staged[e]
                     /\ attested'[e] = attested[e]
                     /\ e \in aged' => e \in aged
<1>1. ASSUME \/ PrepareRead(d) \/ PrepareReturns(d) \/ PrepareFails(d)
             \/ TransferReturns(d) \/ TransferFails(d) \/ ActivateReturns(d)
             \/ ActivateDetached(d) \/ RecordLocally(d) \/ CleanupReturns(d)
             \/ Interrupt(d) \/ CancelEarly(d) \/ ClientDies(d)
      PROVE  WInv'
  <2>1. UNCHANGED vars /\ \A e \in DeployIds \ {d} : session'[e] = session[e]
    BY <1>1 DEF PrepareRead, PrepareReturns, PrepareFails, TransferReturns, TransferFails,
                ActivateReturns, ActivateDetached, RecordLocally, CleanupReturns, Interrupt,
                CancelEarly, ClientDies
  <2>2. ASSUME d \in Attached PROVE Guarded(d)'
    <3> USE DEF WInv
    <3>1. Guarded(d) /\ session[d].result \in {"none", "failed", "interrupted"}
      BY <2>2
    <3>2. /\ Upload(d)' /\ Release(d)'
      BY <1>1, <2>1, <3>1
      DEF Guarded, Upload, Release, PrepareRead, PrepareReturns, PrepareFails, TransferReturns,
          TransferFails, ActivateReturns, ActivateDetached, RecordLocally, CleanupReturns,
          Interrupt, CancelEarly, ClientDies
    <3>3. CASE PrepareRead(d) \/ PrepareReturns(d) \/ PrepareFails(d)
      BY <2>1, <3>1, <3>2, <3>3
      DEF Guarded, Place, PrepareRead, PrepareReturns, PrepareFails, Final
    <3>4. CASE TransferReturns(d) \/ TransferFails(d)
      BY <2>1, <3>1, <3>2, <3>4 DEF Guarded, Place, TransferReturns, TransferFails, Final
    <3>5. CASE ActivateReturns(d) \/ ActivateDetached(d) \/ RecordLocally(d)
      BY <2>1, <2>2, <3>1, <3>2, <3>5
      DEF Guarded, Place, ActivateReturns, ActivateDetached, RecordLocally, Final, Attached
    <3>6. CASE CleanupReturns(d)
      <4>1. /\ session[d].pc \in {"cleanup", "cleaning"}
            /\ session'[d].pc \in {"failed", "interrupted"}
        BY <3>1, <3>6 DEF CleanupReturns, ResultKnown
      <4> QED
        BY <2>1, <3>1, <3>2, <4>1 DEF Guarded, Place, Final
    <3>7. CASE Interrupt(d) \/ CancelEarly(d) \/ ClientDies(d)
      BY <2>1, <3>1, <3>2, <3>7 DEF Guarded, Place, Interrupt, CancelEarly, ClientDies, Final
    <3> QED
      BY <1>1, <3>3, <3>4, <3>5, <3>6, <3>7
  <2> QED
    BY <2>1, <2>2, OneSessionMoves
<1>2. CASE SessionPrepare(d)
  <2>1. Rest /\ UNCHANGED <<current, roll, releases>>
    BY <1>2 DEF SessionPrepare, PrepareStep, PrepareStage, PrepareRow, ActGoto
  <2>2. ASSUME d \in Attached PROVE Guarded(d)'
    <3>1. Guarded(d) /\ session[d].pc # "start" /\ UNCHANGED <<session, attested, releases, sweep, aged>>
      BY <1>2, <2>2 DEF WInv, SessionPrepare, PrepareStep, PrepareStage, PrepareRow
    <3>2. CASE PrepareStage(d)
      <4>1. act[d].pc = "idle" /\ act'[d].pc = "made" /\ releases[d] = "none"
        BY <3>2 DEF PrepareStage, ActGoto, QInv, Unreleased, BeforeRename
      <4> QED
        BY <3>1, <4>1 DEF Guarded, Place, Upload, Release, ToRename, Final, ActHeld
    <3>3. CASE PrepareRow(d)
      <4>1. act[d].pc = "made" /\ act'[d].pc = "prepared" /\ staged' = staged
        BY <3>3 DEF PrepareRow, ActGoto
      <4> QED
        BY <3>1, <4>1 DEF Guarded, Place, Upload, Release, ToRename, Final, ActHeld
    <3> QED
      BY <1>2, <3>2, <3>3 DEF SessionPrepare, PrepareStep
  <2> QED
    BY <2>1, <2>2, OneSessionMoves
<1>3. CASE SessionReceive(d)
  <2>1. Rest /\ UNCHANGED <<current, roll, releases>>
    BY <1>3 DEF SessionReceive, Receive
  <2>2. ASSUME d \in Attached PROVE Guarded(d)'
    BY <1>3, <2>2 DEF WInv, Guarded, Place, Upload, Release, SessionReceive, Receive, ToRename
  <2> QED
    BY <2>1, <2>2, OneSessionMoves
<1>4. CASE SessionActivate(d)
  <2>1. Rest /\ UNCHANGED <<current, roll, releases>>
    BY <1>4 DEF SessionActivate, ActivateBegin, ActGoto
  <2>2. ASSUME d \in Attached PROVE Guarded(d)'
    <3>1. /\ Guarded(d) /\ UNCHANGED <<attested, releases, sweep, aged, staged>>
          /\ session[d].pc = "uploaded" /\ session'[d].pc = "activating"
          /\ act[d].pc = "prepared" /\ act'[d].pc = "waiting"
      BY <1>4, <2>2 DEF WInv, SessionActivate, ActivateBegin, ActGoto
    <3> QED
      BY <3>1 DEF Guarded, Place, Upload, Release, ToRename, Final, ActHeld
  <2> QED
    BY <2>1, <2>2, OneSessionMoves
<1>5. CASE CleanupBegin(d)
  <2>1. Rest /\ UNCHANGED <<current, roll, releases>>
    BY <1>5 DEF CleanupBegin, SweepBegin
  <2>2. ASSUME d \in Attached PROVE Guarded(d)'
    <3>1. /\ Guarded(d) /\ UNCHANGED <<attested, releases, act, aged, staged>>
          /\ session[d].pc = "cleanup" /\ session'[d].pc = "cleaning"
          /\ sweep'[d] = "removing" => staged[d] # "none"
      BY <1>5, <2>2 DEF WInv, CleanupBegin, SweepBegin
    <3> QED
      BY <3>1 DEF Guarded, Place, Upload, Release, ToRename, Final, ActHeld
  <2> QED
    BY <2>1, <2>2, OneSessionMoves
<1> QED
  BY <1>1, <1>2, <1>3, <1>4, <1>5 DEF SessionStep

\* Steps of the activate of session d up to the rename, and its end.
LEMMA ActivateKeepsWInv ==
    ASSUME IInv, QInv, WInv, UNCHANGED sessionVars, NEW d \in DeployIds,
           \/ ActivateStep(d) /\ ~Prune(d) /\ ~Gc(d)
           \/ ActivateCrash(d)
    PROVE  WInv'
<1> USE DEF siteVars, sessionVars, ActGoto, ActEnd, IInv, TypeOK
<1> DEFINE Rest == \A e \in DeployIds \ {d} :
                     /\ session'[e].pc = session[e].pc /\ act'[e].pc = act[e].pc
                     /\ sweep'[e] = sweep[e] /\ staged'[e] = staged[e]
                     /\ attested'[e] = attested[e]
                     /\ e \in aged' => e \in aged
<1>1. CASE \/ ActivateLock(d) \/ ActivateCheck(d) \/ ActivatePublic(d)
           \/ ActivateManifest(d) \/ ActivateHash(d)
  <2>1. /\ Rest /\ UNCHANGED <<current, roll, releases, staged, sweep, aged, session>>
        /\ act[d].pc \in ToRename \ {"rename"} /\ act'[d].pc \in ToRename \ {"waiting"}
        /\ act'[d].pc \in {"manifest", "rename"} =>
              \/ act[d].pc = "hash" /\ attested'[d] = staged[d]
              \/ act[d].pc = "manifest" /\ attested' = attested
        /\ attested'[d] \in {attested[d], staged[d]}
    BY <1>1 DEF ActivateLock, ActivateCheck, ActivatePublic, ActivateManifest, ActivateHash, ToRename
  <2>2. ASSUME d \in Attached PROVE Guarded(d)'
    <3>1. Guarded(d)
      BY <2>2 DEF WInv
    <3>2. staged[d] = "whole" /\ releases[d] = "none"
      BY <2>1, <3>1 DEF Guarded, Upload, QInv, Unreleased, BeforeRename, ToRename
    <3> QED
      BY <2>1, <3>1, <3>2 DEF Guarded, Place, Upload, Release, ToRename, ActHeld, Final
  <2> QED
    BY <2>1, <2>2, OneSessionMoves
<1>2. CASE ActivateRename(d)
  <2>1. /\ act[d].pc = "rename" /\ act'[d].pc = "swap" /\ releases[d] = "none"
        /\ \A e \in DeployIds \ {d} : releases'[e] = releases[e]
        /\ releases'[d] = staged[d] /\ staged'[d] = "none"
        /\ UNCHANGED <<current, roll, attested, sweep, aged, session>> /\ Rest
    BY <1>2 DEF ActivateRename
  <2>2. ASSUME NEW e \in Attached, e # d PROVE Guarded(e)'
    BY <2>1, <2>2, GuardedKept DEF WInv, Attached
  <2>3. ASSUME d \in Attached PROVE Guarded(d)'
    <3>1. Guarded(d)
      BY <2>3 DEF WInv
    <3> QED
      BY <2>1, <3>1 DEF Guarded, Place, Upload, Release, ToRename, ActHeld, Final
  <2>4. TargetWhole'
    <3>1. \A o \in Operators : roll[o].pc = "swap" => roll[o].target # d
      BY <2>1 DEF SwapTargetExists, Released
    <3> QED
      BY <2>1, <3>1 DEF WInv, TargetWhole, Attached
  <2>5. OthersStayWhole'
    BY <2>1 DEF WInv, OthersStayWhole, CurrentExists, Released, Links
  <2> QED
    BY <2>2, <2>3, <2>4, <2>5 DEF WInv
<1>3. CASE ActivateSwap(d)
  <2>1. /\ act[d].pc = "swap" /\ act'[d].pc = "shift" /\ current' = d
        /\ UNCHANGED <<releases, staged, roll, attested, sweep, aged, session>> /\ Rest
    BY <1>3 DEF ActivateSwap
  <2>2. ASSUME NEW e \in Attached, e # d PROVE Guarded(e)'
    BY <2>1, <2>2, GuardedKept DEF WInv, Attached
  <2>3. ASSUME d \in Attached PROVE Guarded(d)' /\ releases[d] = "whole"
    <3>1. Guarded(d)
      BY <2>3 DEF WInv
    <3> QED
      BY <2>1, <3>1 DEF Guarded, Place, Upload, Release, ToRename, ActHeld, Final
  <2>4. TargetWhole' /\ OthersStayWhole'
    BY <2>1, <2>3 DEF WInv, TargetWhole, OthersStayWhole, Attached
  <2> QED
    BY <2>2, <2>3, <2>4 DEF WInv
<1>4. CASE \/ ActivateShift(d) \/ ActivateRecord(d) \/ ActivateDone(d) \/ ActivateRefuse(d)
           \/ ActivateCrash(d)
  <2>1. /\ Rest /\ UNCHANGED <<current, roll, releases, staged, sweep, aged, session, attested>>
        /\ act[d].pc \in ActHeld \cup {"made", "waiting"}
        /\ \/ act'[d].pc \in {"record", "prune"} /\ act[d].pc \in {"shift", "record"}
           \/ act'[d].pc = "done" /\ act[d].pc = "gc"
           \/ act'[d].pc = "aborted"
    BY <1>4 DEF ActivateShift, ActivateRecord, ActivateDone, ActivateRefuse, ActivateCrash, ActHeld
  <2>2. ASSUME d \in Attached PROVE Guarded(d)'
    <3>1. Guarded(d)
      BY <2>2 DEF WInv
    <3> QED
      BY <2>1, <3>1 DEF Guarded, Place, Upload, Release, ToRename, ActHeld, Final
  <2> QED
    BY <2>1, <2>2, OneSessionMoves
<1> QED
  BY <1>1, <1>2, <1>3, <1>4 DEF ActivateStep

\* Retention takes files of releases that nobody serves or is about to serve.
LEMMA PruneKeepsWInv ==
    ASSUME IInv, WInv, UNCHANGED sessionVars, NEW d \in DeployIds, Prune(d)
    PROVE  WInv'
<1> USE DEF siteVars, sessionVars, ActGoto, IInv, TypeOK
<1>1. CASE PrunePick(d) \/ PruneDone(d)
  <2>1. /\ \A e \in DeployIds \ {d} : act'[e] = act[e]
        /\ act[d].pc \in {"prune", "pruning"} /\ act'[d].pc \in {"pruning", "gc"}
        /\ UNCHANGED <<current, roll, releases, staged, sweep, aged, session, attested>>
    BY <1>1 DEF PrunePick, PruneDone
  <2>2. ASSUME d \in Attached PROVE Guarded(d)'
    BY <2>1, <2>2 DEF WInv, Guarded, Place, Upload, Release, ToRename, ActHeld, Final
  <2> QED
    BY <2>1, <2>2, OneSessionMoves
<1>2. ASSUME NEW r \in DeployIds, PruneTear(d, r) \/ PruneDrop(d, r) PROVE WInv'
  <2>1. /\ act[d].pc = "pruning" /\ r # current /\ Holds(d)
        /\ \A e \in DeployIds \ {r} : releases'[e] = releases[e]
        /\ releases'[r] \in {"torn", "none"}
        /\ releases'[r] = "torn" => releases[r] # "none"
        /\ \A e \in DeployIds : act'[e].pc = act[e].pc
        /\ UNCHANGED <<current, roll, staged, sweep, aged, session, attested>>
    <3>1. act[d].pc = "pruning" /\ r \in act[d].doomed
      BY <1>2 DEF PruneTear, PruneDrop
    <3>2. r # current /\ Holds(d)
      BY <3>1 DEF CurrentNotDoomed, Holds, ActHeld
    <3>3. CASE PruneTear(d, r)
      BY <3>1, <3>2, <3>3 DEF PruneTear
    <3>4. CASE PruneDrop(d, r)
      BY <3>1, <3>2, <3>4 DEF PruneDrop
    <3> QED
      BY <1>2, <3>3, <3>4
  <2>2. /\ \A e \in DeployIds : act[e].pc # "swap"
        /\ \A o \in Operators : roll[o].pc # "swap"
    BY <2>1, HolderAlone, ProcAssumption DEF ActHeld, RollHeld
  <2>3. ASSUME NEW e \in Attached PROVE Guarded(e)'
    <3>1. Guarded(e)
      BY DEF WInv
    <3>2. CASE e # r
      BY <2>1, <3>1, <3>2, GuardedKept DEF Attached
    <3>3. CASE e = r
      BY <2>1, <2>2, <3>1, <3>3 DEF Guarded, Place, Upload, Release, ToRename, Attached
    <3> QED
      BY <3>2, <3>3
  <2>4. TargetWhole' /\ OthersStayWhole'
    BY <2>1, <2>2 DEF WInv, TargetWhole, OthersStayWhole, Links
  <2> QED
    BY <2>3, <2>4 DEF WInv
<1> QED
  BY <1>1, <1>2 DEF Prune

\* The collection of old uploads, cleanups, rollbacks and toggles.
LEMMA OtherHostStepsKeepWInv ==
    ASSUME IInv, WInv, UNCHANGED sessionVars,
           \/ \E d \in DeployIds : Gc(d) \/ SessionAge(d) \/ SweepStep(d) \/ SweepAbort(d)
           \/ \E o \in Operators :
                (\E t \in Links : RollbackBegin(o, t)) \/ RollbackStep(o) \/ RollbackCrash(o)
           \/ Public
    PROVE  WInv'
<1> USE DEF siteVars, sessionVars, IInv, TypeOK
<1>1. ASSUME NEW d \in DeployIds, NEW e \in DeployIds, GcTear(d, e) \/ GcDrop(d, e) PROVE WInv'
  <2>1. /\ e \in aged /\ \A q \in DeployIds \ {e} : staged'[q] = staged[q]
        /\ staged[e] # "none"
        /\ UNCHANGED <<current, roll, releases, sweep, aged, session, attested, act>>
    BY <1>1 DEF GcTear, GcDrop
  <2>2. ASSUME e \in Attached PROVE Guarded(e)'
    BY <2>1, <2>2 DEF WInv, Guarded, Place, Upload, Release, ToRename, Final
  <2> QED
    BY <2>1, <2>2, OneSessionMoves
<1>2. ASSUME NEW d \in DeployIds, SessionAge(d) PROVE WInv'
  <2>1. /\ session[d].pc \in Final
        /\ d \in Attached => act[d].pc \notin ActHeld \cup {"made", "waiting", "idle"}
        /\ aged' = aged \cup {d}
        /\ UNCHANGED <<current, roll, releases, staged, sweep, session, attested, act>>
    <3>1. staged[d] # "none" /\ session[d].pc \in Final /\ act[d].pc \notin ActHeld \cup {"made", "waiting"}
      BY <1>2 DEF SessionAge, Age
    <3>2. d \in Attached => act[d].pc # "idle"
      BY <3>1 DEF WInv, Guarded, Place, Upload, Release
    <3> QED
      BY <1>2, <3>1, <3>2 DEF SessionAge, Age
  <2>2. ASSUME d \in Attached PROVE Guarded(d)'
    BY <2>1, <2>2 DEF WInv, Guarded, Place, Upload, Release, ActPC
  <2> QED
    BY <2>1, <2>2, OneSessionMoves
<1>3. ASSUME NEW d \in DeployIds, SweepTear(d) \/ SweepDone(d) PROVE WInv'
  <2>1. /\ sweep[d] = "removing" /\ sweep'[d] \in {"removing", "done"}
        /\ \A q \in DeployIds \ {d} : /\ staged'[q] = staged[q] /\ releases'[q] = releases[q]
                                      /\ sweep'[q] = sweep[q]
        /\ releases[d] = "none" => releases'[d] = "none"
        /\ UNCHANGED <<current, roll, aged, session, attested, act>>
    BY <1>3 DEF SweepTear, SweepDone
  <2>2. ASSUME d \in Attached PROVE Guarded(d)' /\ releases'[d] = releases[d]
    <3>1. Guarded(d) /\ releases[d] = "none"
      BY <2>1, <2>2 DEF WInv, Guarded, Release
    <3> QED
      BY <2>1, <3>1 DEF Guarded, Place, Upload, Release, ToRename, Final, ActHeld
  <2>3. ASSUME NEW e \in Attached, e # d PROVE Guarded(e)'
    BY <2>1, <2>3, GuardedKept DEF WInv, Attached
  <2>4. TargetWhole' /\ OthersStayWhole'
    BY <2>1, <2>2 DEF WInv, TargetWhole, OthersStayWhole, Attached, Links
  <2> QED
    BY <2>2, <2>3, <2>4 DEF WInv
<1>4. ASSUME NEW d \in DeployIds, SweepAbort(d) PROVE WInv'
  <2>1. /\ sweep[d] = "removing" /\ sweep'[d] = "done"
        /\ \A q \in DeployIds \ {d} : sweep'[q] = sweep[q]
        /\ UNCHANGED <<current, roll, releases, staged, aged, session, attested, act>>
    BY <1>4 DEF SweepAbort
  <2>2. ASSUME d \in Attached PROVE Guarded(d)'
    BY <2>1, <2>2 DEF WInv, Guarded, Place, Upload, Release, ToRename
  <2> QED
    BY <2>1, <2>2, OneSessionMoves
<1>5. ASSUME UNCHANGED <<releases, staged, sweep, aged, session, attested, act>>,
             TargetWhole', OthersStayWhole'
      PROVE  WInv'
  <2>1. ASSUME NEW e \in Attached PROVE Guarded(e)'
    BY <1>5, GuardedKept DEF WInv
  <2> QED
    BY <1>5, <2>1 DEF WInv
<1>6. ASSUME NEW o \in Operators,
             \/ \E t \in Links : RollbackBegin(o, t)
             \/ RollbackLock(o) \/ RollbackRefuse(o) \/ RollbackCrash(o)
             \/ RollbackShift(o) \/ RollbackRecord(o)
      PROVE  WInv'
  <2>1. /\ UNCHANGED <<current, releases, staged, sweep, aged, session, attested, act>>
        /\ roll'[o].pc # "swap" /\ \A q \in Operators \ {o} : roll'[q] = roll[q]
    BY <1>6 DEF RollbackBegin, RollbackLock, RollbackRefuse, RollbackCrash, RollbackShift,
                RollbackRecord, RollGoto, RollEnd
  <2>2. TargetWhole' /\ OthersStayWhole'
    BY <2>1 DEF WInv, TargetWhole, OthersStayWhole
  <2> QED
    BY <1>5, <2>1, <2>2
<1>7. ASSUME NEW o \in Operators, RollbackVerify(o) PROVE WInv'
  <2>1. /\ UNCHANGED <<current, releases, staged, sweep, aged, session, attested, act>>
        /\ roll'[o].target = Wanted(o) /\ \A q \in Operators \ {o} : roll'[q] = roll[q]
        /\ Verified(Wanted(o))
    BY <1>7 DEF RollbackVerify, RollbackAllowed
  <2>2. Wanted(o) \in Attached => releases[Wanted(o)] = "whole"
    BY <2>1 DEF WInv, Guarded, Release, Verified
  <2>3. TargetWhole' /\ OthersStayWhole'
    BY <2>1, <2>2 DEF WInv, TargetWhole, OthersStayWhole
  <2> QED
    BY <1>5, <2>1, <2>3
<1>8. ASSUME NEW o \in Operators, RollbackSwap(o) PROVE WInv'
  <2>1. /\ UNCHANGED <<releases, staged, sweep, aged, session, attested, act>>
        /\ roll[o].pc = "swap" /\ current' = roll[o].target
        /\ roll'[o].pc # "swap" /\ \A q \in Operators \ {o} : roll'[q] = roll[q]
    BY <1>8 DEF RollbackSwap, RollGoto
  <2>2. TargetWhole' /\ OthersStayWhole'
    BY <2>1 DEF WInv, TargetWhole, OthersStayWhole, Attached, Links
  <2> QED
    BY <1>5, <2>1, <2>2
<1>9. CASE Public
  <2>1. UNCHANGED <<current, roll, releases, staged, sweep, aged, session, attested, act>>
    BY <1>9 DEF Public, PublicResolve, PublicScan, PublicSet, PublicOff
  <2>2. TargetWhole' /\ OthersStayWhole'
    BY <2>1 DEF WInv, TargetWhole, OthersStayWhole
  <2> QED
    BY <1>5, <2>1, <2>2
<1> QED
  BY <1>1, <1>2, <1>3, <1>4, <1>6, <1>7, <1>8, <1>9 DEF Gc, SweepStep, RollbackStep

LEMMA WInvHolds == SessionSpec => []WInv
<1>1. TypeOK /\ IInv /\ QInv /\ TInv /\ WInv /\ [SessionNext]_allVars => WInv'
  <2> SUFFICES ASSUME TypeOK, IInv, QInv, TInv, WInv, [SessionNext]_allVars PROVE WInv'
    OBVIOUS
  <2>1. CASE HostStep
    <3>1. UNCHANGED sessionVars
      BY <2>1 DEF HostStep
    <3>2. ASSUME NEW d \in DeployIds, ActivateStep(d) \/ ActivateCrash(d) PROVE WInv'
      BY <3>1, <3>2, ActivateKeepsWInv, PruneKeepsWInv, OtherHostStepsKeepWInv
    <3> QED
      BY <2>1, <3>1, <3>2, OtherHostStepsKeepWInv DEF HostStep
  <2>2. ASSUME NEW d \in DeployIds, SessionStep(d) PROVE WInv'
    BY <2>2, SessionKeepsWInv
  <2>3. CASE UNCHANGED allVars
    <3>1. /\ UNCHANGED <<current, roll, releases, staged, sweep, aged, session, attested, act>>
      BY <2>3 DEF allVars, vars, siteVars, sessionVars
    <3>2. ASSUME NEW e \in Attached PROVE Guarded(e)'
      BY <3>1, GuardedKept DEF WInv
    <3> QED
      BY <3>1, <3>2 DEF WInv, TargetWhole, OthersStayWhole
  <2> QED
    BY <2>1, <2>2, <2>3 DEF SessionNext
<1> QED
  BY InitWInv, <1>1, SessionsUseTheHost, TypeCorrect, IInvHolds, QInvHolds, TInvHolds, PTL
  DEF SessionSpec

\* The release being served is complete unless its own session may lose its ssh while
\* quickd activates: no other session, cleanup, rollback or retention damages it.
THEOREM ServedWhole == SessionSpec => []OthersStayWhole
<1>1. WInv => OthersStayWhole
  BY DEF WInv
<1> QED
  BY <1>1, WInvHolds, PTL

\* With sessions that never lose their ssh (uploads through the portal) the promise of
\* the documentation holds as it stands.
COROLLARY PortalServesWhole ==
    ASSUME Interruptible = {} PROVE SessionSpec => []CurrentWhole
<1>1. OthersStayWhole => CurrentWhole
  BY DEF OthersStayWhole, CurrentWhole
<1> QED
  BY <1>1, ServedWhole, PTL

(***************************************************************************)
(* The refinement: only a swap changes what is served, and it puts a       *)
(* complete release there; every other step puts one release on the shelf, *)
(* takes one that is not served off it, or does neither.                   *)
(***************************************************************************)
LEMMA InitPublishes == SessionInit => Publishing!Init
  BY DEF SessionInit, Init, Publishing!Init

Shelf == {r \in DeployIds : r \in Interruptible \/ releases[r] = "whole"}

LEMMA OneShelved ==
    ASSUME NEW r \in DeployIds, UNCHANGED current,
           \A e \in DeployIds \ {r} : releases'[e] = releases[e],
           releases'[r] = "whole" \/ r # current \/ Shelf' = Shelf
    PROVE  Publishing!Next \/ UNCHANGED <<current, Shelf>>
<1>1. CASE Shelf' = Shelf
  BY <1>1
<1>2. CASE Shelf' # Shelf /\ releases'[r] = "whole"
  <2>1. Shelf' = Shelf \cup {r}
    BY <1>2 DEF Shelf
  <2> QED
    BY <2>1 DEF Publishing!Next, Publishing!Shelve, Shelf
<1>3. CASE Shelf' # Shelf /\ releases'[r] # "whole" /\ r # current
  <2>1. Shelf' = Shelf \ {r}
    BY <1>3 DEF Shelf
  <2> QED
    BY <1>3, <2>1 DEF Publishing!Next, Publishing!Retire, Shelf
<1> QED
  BY <1>1, <1>2, <1>3

LEMMA NextPublishes ==
    IInv /\ WInv /\ [SessionNext]_allVars => Publishing!Next \/ UNCHANGED <<current, Shelf>>
<1> SUFFICES ASSUME IInv, WInv, [Next]_vars
             PROVE  Publishing!Next \/ UNCHANGED <<current, Shelf>>
  BY SessionNextIsHost
<1> USE DEF siteVars, IInv, TypeOK
<1>1. ASSUME UNCHANGED <<current, releases>> PROVE UNCHANGED <<current, Shelf>>
  BY <1>1 DEF Shelf
<1>2. ASSUME NEW d \in DeployIds, ActivateRename(d)
      PROVE  Publishing!Next \/ UNCHANGED <<current, Shelf>>
  <2>1. d # current
    BY <1>2, ReleaseAssumption DEF ActivateRename, CurrentExists, Released
  <2> QED
    BY <1>2, <2>1, OneShelved DEF ActivateRename
<1>3. ASSUME NEW d \in DeployIds, ActivateSwap(d) PROVE Publishing!Next
  <2>1. d \in Shelf
    BY <1>3 DEF ActivateSwap, WInv, Guarded, Release, Shelf, Attached
  <2>2. current' = d /\ Shelf' = Shelf
    BY <1>3 DEF ActivateSwap, Shelf
  <2> QED
    BY <2>1, <2>2 DEF Publishing!Next, Publishing!Publish, Shelf
<1>4. ASSUME NEW o \in Operators, RollbackSwap(o) PROVE Publishing!Next
  <2>1. roll[o].target \in Shelf
    BY <1>4 DEF RollbackSwap, SwapTargetExists, Released, WInv, TargetWhole, Shelf, Attached
  <2>2. current' = roll[o].target /\ Shelf' = Shelf
    BY <1>4 DEF RollbackSwap, Shelf
  <2> QED
    BY <2>1, <2>2 DEF Publishing!Next, Publishing!Publish, Shelf
<1>5. ASSUME NEW d \in DeployIds, NEW r \in DeployIds, PruneTear(d, r) \/ PruneDrop(d, r)
      PROVE  Publishing!Next \/ UNCHANGED <<current, Shelf>>
  <2>1. r # current
    BY <1>5 DEF PruneTear, PruneDrop, CurrentNotDoomed
  <2> QED
    BY <1>5, <2>1, OneShelved DEF PruneTear, PruneDrop
<1>6. ASSUME NEW d \in DeployIds, SweepStep(d)
      PROVE  UNCHANGED <<current, Shelf>>
  <2>1. d \in Interruptible \/ releases[d] = "none"
    BY <1>6 DEF SweepStep, SweepTear, SweepDone, WInv, Guarded, Release, Attached
  <2> QED
    BY <1>6, <2>1 DEF SweepStep, SweepTear, SweepDone, Shelf
<1>7. ASSUME NEW d \in DeployIds,
             \/ PrepareStep(d) \/ Receive(d) \/ Age(d) \/ ActivateBegin(d)
             \/ ActivateCrash(d) \/ SweepBegin(d) \/ SweepAbort(d)
      PROVE  UNCHANGED <<current, releases>>
  BY <1>7 DEF PrepareStep, PrepareStage, PrepareRow, Receive, Age, ActivateBegin,
              ActivateCrash, SweepBegin, SweepAbort
<1>8. ASSUME NEW d \in DeployIds, ActivateStep(d),
             ~ActivateRename(d), ~ActivateSwap(d), ~(\E r \in DeployIds : PruneTear(d, r) \/ PruneDrop(d, r))
      PROVE  UNCHANGED <<current, releases>>
  BY <1>8 DEF ActivateStep, ActivateLock, ActivateCheck, ActivatePublic, ActivateHash,
              ActivateManifest, ActivateShift, ActivateRecord, Prune, PrunePick, PruneDone,
              Gc, GcTear, GcDrop, ActivateDone, ActivateRefuse
<1>9. ASSUME NEW o \in Operators, ~RollbackSwap(o),
             (\E t \in Links : RollbackBegin(o, t)) \/ RollbackStep(o) \/ RollbackCrash(o)
      PROVE  UNCHANGED <<current, releases>>
  BY <1>9 DEF RollbackBegin, RollbackStep, RollbackLock, RollbackVerify, RollbackRefuse,
              RollbackShift, RollbackRecord, RollbackCrash
<1>10. ASSUME Public \/ UNCHANGED vars PROVE UNCHANGED <<current, releases>>
  BY <1>10 DEF Public, PublicResolve, PublicScan, PublicSet, PublicOff, vars
<1> QED
  BY <1>1, <1>2, <1>3, <1>4, <1>5, <1>6, <1>7, <1>8, <1>9, <1>10 DEF Next

\* The sessions implement AtomicPublish: a browser sees either the previous complete
\* release or the next complete one.
THEOREM SessionsPublishAtomically == SessionSpec => PublishesAtomically
<1>1. IInv /\ WInv /\ [SessionNext]_allVars
        => [Publishing!Next]_<<current, {r \in DeployIds : r \in Interruptible \/ releases[r] = "whole"}>>
  BY NextPublishes DEF Shelf
<1> QED
  BY <1>1, InitPublishes, IInvHolds, WInvHolds, SessionsUseTheHost, PTL
  DEF SessionSpec, PublishesAtomically, Publishing!Spec
==============================================================================
