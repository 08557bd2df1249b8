-------------------------- MODULE SiteLifecycleProofs --------------------------
(***************************************************************************)
(* Theorems about SiteLifecycle, for any number of operators, deploys and  *)
(* uploads, all of which may overlap, and with commands that die: a site   *)
(* directory is never lost nor duplicated by delete and restore, and a     *)
(* restore never removes an archive that still has something in it.        *)
(* For operations that do not overlap, and commands that do not die: no    *)
(* upload that was answered is lost, and the catalog agrees with the       *)
(* directories.                                                            *)
(***************************************************************************)
EXTENDS SiteLifecycle, TLAPS

\* Where a command has no archive, or has no more use for it.
Away == {"idle", "sweeping", "unlisting"}

ArchivesReal ==
    \A a \in Admins : pc[a] \notin Away => arch[a] \in Archives

LEMMA InitTypes == Init => TypeOK
  BY DEF Init, TypeOK, Sites, AdminPC, DeployPC, UploadPC

\* What os.MkdirAll leaves at sites/<site>.
LEMMA SiteMade ==
    ASSUME TypeOK, MakeSite
    PROVE  /\ site' \in Trees
           /\ made' \in SUBSET Trees
           /\ \/ site # NoTree /\ UNCHANGED <<site, made>>
              \/ site = NoTree /\ site' \in Trees \ made /\ made' = made \cup {site'}
  BY DEF MakeSite, TypeOK, Sites

\* What a step of a deploy leaves alone, and what it may do to the rest.
LEMMA DeployTouches ==
    ASSUME NEW d \in Deploys, DeployMake(d) \/ DeployStep(d)
    PROVE  /\ UNCHANGED <<updir, files, used, there, boxed, boxdir, boxfiles, gone, rows, pc, arch,
                         moved, held, heldFiles, put>>
           /\ MakeSite \/ UNCHANGED <<site, made>>
           /\ row' = row \/ row' = TRUE
           /\ linked' = linked \/ (site # NoTree /\ linked' = linked \cup {site})
  BY DEF DeployMake, DeployStep, DeployStage, DeployRow, DeployLock, DeploySwap, DeployLate,
         DeployRecord, DeployFails, DeployEnd, dirs, trash, catalog, command

LEMMA TypeStep == TypeOK /\ ArchivesReal /\ [Next]_vars => TypeOK'
<1> SUFFICES ASSUME TypeOK, ArchivesReal, [Next]_vars PROVE TypeOK'
  OBVIOUS
<1>0. alone' = alone
  BY DEF Next, vars
<1> USE <1>0 DEF TypeOK, Sites, AdminPC, dirs, trash, catalog, command, deploys,
             api, DeployPC, UploadPC
<1>1. ASSUME NEW d \in Deploys, DeployMake(d) \/ DeployStep(d) PROVE TypeOK'
  <2>1. site' \in Sites /\ made' \in SUBSET Trees
    BY <1>1, DeployTouches, SiteMade
  <2>2. dep' \in [Deploys -> DeployPC]
    BY <1>1 DEF DeployMake, DeployStep, DeployStage, DeployRow, DeployLock, DeploySwap,
                DeployLate, DeployRecord, DeployFails, DeployGoto, DeployEnd
  <2>3. into' \in [Deploys -> Sites]
    BY <1>1, <2>1 DEF DeployMake, DeployStep, DeployStage, DeployRow, DeployLock, DeploySwap,
                      DeployLate, DeployRecord, DeployFails, DeployEnd
  <2> QED
    BY <1>1, <2>1, <2>2, <2>3, DeployTouches
<1>2. ASSUME NEW f \in Files, UploadAdmit(f) PROVE TypeOK'
  BY <1>2 DEF UploadAdmit
<1>5. ASSUME NEW f \in Files, UploadWrite(f) PROVE TypeOK'
  BY <1>5 DEF UploadWrite
<1>6. ASSUME NEW f \in Files, UploadInsert(f) PROVE TypeOK'
  <2>1. site' \in Sites /\ updir' \in BOOLEAN /\ files' \in SUBSET Files
    BY <1>6 DEF UploadInsert
  <2>2. used' \in SUBSET Archives /\ there' \in SUBSET Archives /\ boxdir' \in SUBSET Archives
    BY <1>6 DEF UploadInsert
  <2>3. boxed' \in [Archives -> Sites]
    BY <1>6 DEF UploadInsert
  <2>4. boxfiles' \in [Archives -> SUBSET Files]
    BY <1>6 DEF UploadInsert
  <2>5. gone' \in SUBSET (Trees \cup Files) /\ row' \in BOOLEAN /\ rows' \in SUBSET Files
    <3>1. gone' = gone /\ row' = row /\ (rows' = rows \/ rows' = rows \cup {f})
      BY <1>6 DEF UploadInsert
    <3> QED
      BY <3>1
  <2>6. pc' \in [Admins -> AdminPC] /\ arch' \in [Admins -> Archives \cup {NoArchive}]
    BY <1>6 DEF UploadInsert
  <2>7. moved' \in SUBSET Admins
    BY <1>6 DEF UploadInsert
  <2>8. held' \in [Admins -> Sites] /\ heldFiles' \in [Admins -> SUBSET Files]
    BY <1>6 DEF UploadInsert
  <2>9. /\ dep' \in [Deploys -> DeployPC]
       /\ into' \in [Deploys -> Sites] /\ made' \in SUBSET Trees /\ linked' \in SUBSET Trees
       /\ put' \in [Files -> UploadPC]
    BY <1>6 DEF UploadInsert
  <2> QED
    BY <2>1, <2>2, <2>3, <2>4, <2>5, <2>6, <2>7, <2>8, <2>9
<1>7. ASSUME NEW f \in Files, UploadDelete(f) PROVE TypeOK'
  BY <1>7 DEF UploadDelete
<1>8. ASSUME NEW f \in Files, UploadUnlink(f) PROVE TypeOK'
  BY <1>8 DEF UploadUnlink
<1>9. ASSUME NEW a \in Admins, DeleteLook(a) PROVE TypeOK'
  <2>1. site' \in Sites /\ updir' \in BOOLEAN /\ files' \in SUBSET Files
    BY <1>9 DEF DeleteLook
  <2>2. used' \in SUBSET Archives /\ there' \in SUBSET Archives /\ boxdir' \in SUBSET Archives
    <3>1. \/ UNCHANGED <<used, there, boxdir>>
          \/ \E x \in Archives : used' = used \cup {x} /\ there' = there \cup {x} /\ boxdir' = boxdir
      BY <1>9 DEF DeleteLook
    <3> QED
      BY <3>1
  <2>3. boxed' \in [Archives -> Sites]
    BY <1>9 DEF DeleteLook
  <2>4. boxfiles' \in [Archives -> SUBSET Files]
    BY <1>9 DEF DeleteLook
  <2>5. gone' \in SUBSET (Trees \cup Files) /\ row' \in BOOLEAN /\ rows' \in SUBSET Files
    BY <1>9 DEF DeleteLook
  <2>6. pc' \in [Admins -> AdminPC] /\ arch' \in [Admins -> Archives \cup {NoArchive}]
    <3>1. CASE site = NoTree
      BY <1>9, <3>1 DEF DeleteLook
    <3>2. CASE site # NoTree
      <4>1. PICK x \in Archives : pc' = [pc EXCEPT ![a] = "archiving"] /\ arch' = [arch EXCEPT ![a] = x]
        BY <1>9, <3>2 DEF DeleteLook
      <4>2. "archiving" \in AdminPC
        OBVIOUS
      <4> QED
        BY <4>1, <4>2
    <3> QED
      BY <3>1, <3>2
  <2>7. moved' \in SUBSET Admins
    BY <1>9 DEF DeleteLook
  <2>8. held' \in [Admins -> Sites] /\ heldFiles' \in [Admins -> SUBSET Files]
    BY <1>9 DEF DeleteLook
  <2>9. /\ dep' \in [Deploys -> DeployPC]
       /\ into' \in [Deploys -> Sites] /\ made' \in SUBSET Trees /\ linked' \in SUBSET Trees
       /\ put' \in [Files -> UploadPC]
    BY <1>9 DEF DeleteLook
  <2> QED
    BY <2>1, <2>2, <2>3, <2>4, <2>5, <2>6, <2>7, <2>8, <2>9
<1>10. ASSUME NEW a \in Admins, DeleteSiteDir(a) PROVE TypeOK'
  BY <1>10 DEF DeleteSiteDir, AdminEnd, AdminGoto
<1>11. ASSUME NEW a \in Admins, DeleteUploads(a) PROVE TypeOK'
  <2>1. site' \in Sites /\ updir' \in BOOLEAN /\ files' \in SUBSET Files
    BY <1>11 DEF DeleteUploads, AdminGoto
  <2>2. used' \in SUBSET Archives /\ there' \in SUBSET Archives /\ boxdir' \in SUBSET Archives
    <3>1. UNCHANGED <<used, there>> /\ (boxdir' = boxdir \/ boxdir' = boxdir \cup {arch[a]})
      BY <1>11 DEF DeleteUploads
    <3>2. arch[a] \in Archives
      BY <1>11 DEF DeleteUploads, ArchivesReal, Away
    <3> QED
      BY <3>1, <3>2
  <2>3. boxed' \in [Archives -> Sites]
    BY <1>11 DEF DeleteUploads, AdminGoto
  <2>4. boxfiles' \in [Archives -> SUBSET Files]
    BY <1>11 DEF DeleteUploads, AdminGoto
  <2>5. gone' \in SUBSET (Trees \cup Files) /\ row' \in BOOLEAN /\ rows' \in SUBSET Files
    BY <1>11 DEF DeleteUploads, AdminGoto
  <2>6. pc' \in [Admins -> AdminPC] /\ arch' \in [Admins -> Archives \cup {NoArchive}]
    BY <1>11 DEF DeleteUploads, AdminGoto
  <2>7. moved' \in SUBSET Admins
    BY <1>11 DEF DeleteUploads, AdminGoto
  <2>8. held' \in [Admins -> Sites] /\ heldFiles' \in [Admins -> SUBSET Files]
    BY <1>11 DEF DeleteUploads, AdminGoto
  <2>9. /\ dep' \in [Deploys -> DeployPC]
       /\ into' \in [Deploys -> Sites] /\ made' \in SUBSET Trees /\ linked' \in SUBSET Trees
       /\ put' \in [Files -> UploadPC]
    BY <1>11 DEF DeleteUploads, AdminGoto
  <2> QED
    BY <2>1, <2>2, <2>3, <2>4, <2>5, <2>6, <2>7, <2>8, <2>9
<1>12. ASSUME NEW a \in Admins, DeleteSweep(a) PROVE TypeOK'
  BY <1>12 DEF DeleteSweep, AdminGoto
<1>13. ASSUME NEW a \in Admins, DeleteRow(a) PROVE TypeOK'
  BY <1>13 DEF DeleteRow, AdminEnd
<1>14. ASSUME NEW a \in Admins, NEW x \in Archives, RestoreLook(a, x) PROVE TypeOK'
  BY <1>14 DEF RestoreLook, Printed
<1>15. ASSUME NEW a \in Admins, RestoreMove(a) PROVE TypeOK'
  <2>1. site' \in Sites /\ updir' \in BOOLEAN /\ files' \in SUBSET Files
    <3>1. boxed[arch[a]] \in Sites
      BY <1>15 DEF RestoreMove, ArchivesReal, Away
    <3>2. site' \in {site, boxed[arch[a]]} /\ updir' = updir /\ files' = files
      BY <1>15 DEF RestoreMove
    <3> QED
      BY <3>1, <3>2
  <2>2. used' \in SUBSET Archives /\ there' \in SUBSET Archives /\ boxdir' \in SUBSET Archives
    BY <1>15 DEF RestoreMove, AdminEnd, AdminGoto
  <2>3. boxed' \in [Archives -> Sites]
    BY <1>15 DEF RestoreMove, AdminEnd, AdminGoto
  <2>4. boxfiles' \in [Archives -> SUBSET Files]
    BY <1>15 DEF RestoreMove, AdminEnd, AdminGoto
  <2>5. gone' \in SUBSET (Trees \cup Files) /\ row' \in BOOLEAN /\ rows' \in SUBSET Files
    BY <1>15 DEF RestoreMove, AdminEnd, AdminGoto
  <2>6. pc' \in [Admins -> AdminPC] /\ arch' \in [Admins -> Archives \cup {NoArchive}]
    <3>1. AdminGoto(a, "unboxing") \/ AdminEnd(a)
      BY <1>15 DEF RestoreMove
    <3> QED
      BY <3>1 DEF AdminEnd, AdminGoto
  <2>7. moved' \in SUBSET Admins
    BY <1>15 DEF RestoreMove, AdminEnd, AdminGoto
  <2>8. held' \in [Admins -> Sites] /\ heldFiles' \in [Admins -> SUBSET Files]
    BY <1>15 DEF RestoreMove, AdminEnd, AdminGoto
  <2>9. /\ dep' \in [Deploys -> DeployPC]
       /\ into' \in [Deploys -> Sites] /\ made' \in SUBSET Trees /\ linked' \in SUBSET Trees
       /\ put' \in [Files -> UploadPC]
    BY <1>15 DEF RestoreMove, AdminEnd, AdminGoto
  <2> QED
    BY <2>1, <2>2, <2>3, <2>4, <2>5, <2>6, <2>7, <2>8, <2>9
<1>16. ASSUME NEW a \in Admins, RestoreUploads(a) PROVE TypeOK'
  BY <1>16 DEF RestoreUploads, AdminGoto
<1>17. ASSUME NEW a \in Admins, RestoreRecord(a) PROVE TypeOK'
  BY <1>17 DEF RestoreRecord, AdminGoto
<1>18. ASSUME NEW a \in Admins, UndoUploads(a) PROVE TypeOK'
  BY <1>18 DEF UndoUploads, AdminGoto
<1>19. ASSUME NEW a \in Admins, UndoSite(a) PROVE TypeOK'
  BY <1>19 DEF UndoSite, AdminEnd
<1>20. ASSUME NEW a \in Admins, RestoreTidy(a) PROVE TypeOK'
  BY <1>20 DEF RestoreTidy, AdminEnd, RemoveArchive
<1>21. ASSUME NEW a \in Admins, NEW x \in Archives, PurgeOpen(a, x) PROVE TypeOK'
  BY <1>21 DEF PurgeOpen, Printed
<1>22. ASSUME NEW a \in Admins, PurgeRemove(a) PROVE TypeOK'
  <2>1. site' \in Sites /\ updir' \in BOOLEAN /\ files' \in SUBSET Files
    BY <1>22 DEF PurgeRemove, AdminEnd, RemoveArchive
  <2>2. used' \in SUBSET Archives /\ there' \in SUBSET Archives /\ boxdir' \in SUBSET Archives
    BY <1>22 DEF PurgeRemove, AdminEnd, RemoveArchive
  <2>3. boxed' \in [Archives -> Sites]
    BY <1>22 DEF PurgeRemove, AdminEnd, RemoveArchive
  <2>4. boxfiles' \in [Archives -> SUBSET Files]
    BY <1>22 DEF PurgeRemove, AdminEnd, RemoveArchive
  <2>5. gone' \in SUBSET (Trees \cup Files) /\ row' \in BOOLEAN /\ rows' \in SUBSET Files
    <3>1. arch[a] \in Archives
      BY <1>22 DEF PurgeRemove, ArchivesReal, Away
    <3>2. held[a] \in Sites /\ boxed[arch[a]] \in Sites
      BY <3>1
    <3>3. heldFiles[a] \in SUBSET Files /\ boxfiles[arch[a]] \in SUBSET Files
      BY <3>1
    <3>4. row' = row /\ rows' = rows
      BY <1>22 DEF PurgeRemove
    <3>5. gone' = gone \cup ({held[a], boxed[arch[a]]} \ {NoTree})
                      \cup heldFiles[a] \cup boxfiles[arch[a]]
      BY <1>22 DEF PurgeRemove
    <3> QED
      BY <3>2, <3>3, <3>4, <3>5
  <2>6. pc' \in [Admins -> AdminPC] /\ arch' \in [Admins -> Archives \cup {NoArchive}]
    BY <1>22 DEF PurgeRemove, AdminEnd, RemoveArchive
  <2>7. moved' \in SUBSET Admins
    BY <1>22 DEF PurgeRemove, AdminEnd, RemoveArchive
  <2>8. held' \in [Admins -> Sites] /\ heldFiles' \in [Admins -> SUBSET Files]
    BY <1>22 DEF PurgeRemove, AdminEnd, RemoveArchive
  <2>9. /\ dep' \in [Deploys -> DeployPC]
       /\ into' \in [Deploys -> Sites] /\ made' \in SUBSET Trees /\ linked' \in SUBSET Trees
       /\ put' \in [Files -> UploadPC]
    BY <1>22 DEF PurgeRemove, AdminEnd, RemoveArchive
  <2> QED
    BY <2>1, <2>2, <2>3, <2>4, <2>5, <2>6, <2>7, <2>8, <2>9
<1>23. ASSUME NEW a \in Admins, Die(a) PROVE TypeOK'
  BY <1>23 DEF Die, AdminEnd
<1>24. CASE UNCHANGED vars
  BY <1>24 DEF vars, command
<1> QED
  BY <1>1, <1>2, <1>5, <1>6, <1>7, <1>8, <1>9, <1>10, <1>11, <1>12, <1>13, <1>14, <1>15, <1>16, <1>17, <1>18, <1>19, <1>20, <1>21, <1>22, <1>23,
     <1>24
  DEF Next, UploadStep, AdminStep

LEMMA RealStep == TypeOK /\ ArchivesReal /\ [Next]_vars => ArchivesReal'
<1> SUFFICES ASSUME TypeOK, ArchivesReal, [Next]_vars PROVE ArchivesReal'
  OBVIOUS
<1>1. ASSUME UNCHANGED <<pc, arch>> PROVE ArchivesReal'
  BY <1>1 DEF ArchivesReal
<1>2. ASSUME NEW a \in Admins,
             \A b \in Admins \ {a} : pc'[b] = pc[b] /\ arch'[b] = arch[b],
             pc'[a] \in Away \/ arch'[a] \in Archives \/ (pc[a] \notin Away /\ arch'[a] = arch[a])
      PROVE  ArchivesReal'
  BY <1>2 DEF ArchivesReal
<1>3. ASSUME \/ \E d \in Deploys : DeployMake(d) \/ DeployStep(d)
             \/ \E f \in Files : UploadAdmit(f) \/ UploadDelete(f) \/ UploadStep(f)
             \/ UNCHANGED vars
      PROVE  ArchivesReal'
  BY <1>1, <1>3, DeployTouches
  DEF UploadAdmit, UploadWrite, UploadDelete, UploadStep, UploadInsert, UploadUnlink, vars, command
<1>4. ASSUME NEW a \in Admins, DeleteLook(a) \/ AdminStep(a) \/ Die(a) PROVE ArchivesReal'
  <2> USE DEF TypeOK, Away
  <2>1. CASE DeleteLook(a)
    BY <2>1, <1>2 DEF DeleteLook
  <2>2. CASE \/ DeleteRow(a) \/ UndoSite(a) \/ RestoreTidy(a) \/ PurgeRemove(a) \/ Die(a)
    BY <2>2, <1>2 DEF DeleteRow, UndoSite, RestoreTidy, PurgeRemove, Die, AdminEnd
  <2>3. CASE DeleteSiteDir(a) \/ RestoreMove(a)
    BY <2>3, <1>2 DEF DeleteSiteDir, RestoreMove, AdminEnd, AdminGoto
  <2>4. CASE \/ DeleteUploads(a) \/ DeleteSweep(a) \/ RestoreUploads(a) \/ RestoreRecord(a)
             \/ UndoUploads(a)
    BY <2>4, <1>2 DEF DeleteUploads, DeleteSweep, RestoreUploads, RestoreRecord, UndoUploads,
                      AdminGoto
  <2> QED
    BY <1>4, <2>1, <2>2, <2>3, <2>4 DEF AdminStep
<1>5. ASSUME NEW a \in Admins, NEW x \in Archives, RestoreLook(a, x) \/ PurgeOpen(a, x)
      PROVE  ArchivesReal'
  BY <1>5, <1>2 DEF RestoreLook, PurgeOpen, TypeOK
<1> QED
  BY <1>3, <1>4, <1>5 DEF Next

\* The directories, archives, rows and program counters stay in their types.
THEOREM TypeCorrect == Spec => []TypeOK
<1>1. Init => ArchivesReal
  BY DEF Init, ArchivesReal, Away
<1> QED
  BY <1>1, InitTypes, TypeStep, RealStep, PTL DEF Spec

(***************************************************************************)
(* The inductive invariant.  An archive belongs to one delete until its    *)
(* path is printed, and later to the one restore that has taken the site   *)
(* directory out of it.                                                    *)
(***************************************************************************)
\* Where a restore is while it has the site directory of its archive.
Past == {"unboxing", "recording", "undoUploads", "undoSite", "tidying"}

Filling == {"archiving", "boxing"}

SiteOut == Past \cup {"archiving"}

FilesOut == {"recording", "undoUploads", "tidying"}

LEMMA Classes ==
    /\ Past \subseteq SiteOut
    /\ FilesOut \subseteq Past
    /\ SiteOut \subseteq Past \cup Filling
    /\ SiteOut \cap Away = {}
    /\ Filling \cap Away = {}
    /\ Filling \cap Past = {}
  BY DEF Past, SiteOut, FilesOut, Filling, Away

ArchivesNamed == \A a \in Admins : pc[a] \notin Away => arch[a] \in used

ThereUsed == there \subseteq used

FreshEmpty == \A x \in Archives \ used : boxed[x] = NoTree /\ boxfiles[x] = {}

NoDirNoFiles == \A x \in Archives \ boxdir : boxfiles[x] = {}

FillsAlone ==
    \A a, b \in Admins :
        a # b /\ pc[a] \in Filling /\ pc[b] \notin Away => arch[a] # arch[b]

RestoresAlone ==
    \A a, b \in Admins : a # b /\ pc[a] \in Past /\ pc[b] \in Past => arch[a] # arch[b]

SiteTakenOut ==
    \A a \in Admins : pc[a] \in SiteOut => boxed[arch[a]] = NoTree

UploadsTakenOut ==
    \A a \in Admins :
        pc[a] \in FilesOut => boxfiles[arch[a]] = {}

CInv ==
    /\ ThereUsed
    /\ ArchivesNamed
    /\ FreshEmpty
    /\ NoDirNoFiles
    /\ FillsAlone
    /\ RestoresAlone
    /\ SiteTakenOut
    /\ UploadsTakenOut

LEMMA InitCInv == Init => CInv
  BY DEF Init, CInv, ThereUsed, ArchivesNamed, FreshEmpty, NoDirNoFiles, FillsAlone, RestoresAlone,
         SiteTakenOut, UploadsTakenOut, Past, SiteOut, FilesOut, Filling, Away

\* A command that goes on, or ends, without taking anything new.
Keeps(a) ==
    /\ \A b \in Admins \ {a} : pc'[b] = pc[b] /\ arch'[b] = arch[b]
    /\ pc'[a] \notin Away => pc[a] \notin Away /\ arch'[a] = arch[a]
    /\ pc'[a] \in Past => pc[a] \in Past
    /\ pc'[a] \in Filling => pc[a] \in Filling
    /\ pc'[a] \in SiteOut => pc[a] \in SiteOut
    /\ pc'[a] \in FilesOut => pc[a] \in FilesOut

\* Nothing comes into an archive.
Shrinks ==
    /\ used' = used
    /\ there' \subseteq there
    /\ \A x \in Archives :
        /\ boxed'[x] \in {boxed[x], NoTree}
        /\ boxfiles'[x] \subseteq boxfiles[x]
        /\ x \in boxdir \ boxdir' => boxfiles'[x] = {}

LEMMA Unwinding ==
    ASSUME TypeOK, CInv, NEW a \in Admins, Keeps(a), Shrinks
    PROVE  CInv'
<1> USE Classes DEF Keeps, Shrinks, CInv
<1>1. ThereUsed' /\ ArchivesNamed'
  BY DEF ThereUsed, ArchivesNamed
<1>2. FreshEmpty' /\ NoDirNoFiles'
  BY DEF FreshEmpty, NoDirNoFiles
<1>3. FillsAlone'
  BY DEF FillsAlone
<1>4. RestoresAlone'
  BY DEF RestoresAlone
<1>5. SiteTakenOut'
  BY DEF SiteTakenOut, ArchivesNamed, TypeOK
<1>6. UploadsTakenOut'
  BY DEF UploadsTakenOut, ArchivesNamed, TypeOK
<1> QED
  BY <1>1, <1>2, <1>3, <1>4, <1>5, <1>6

LEMMA NamedReal == TypeOK /\ CInv => ArchivesReal
  BY DEF TypeOK, CInv, ArchivesNamed, ArchivesReal

LEMMA NextCInv == TypeOK /\ CInv /\ [Next]_vars => CInv'
<1> SUFFICES ASSUME TypeOK, CInv, [Next]_vars PROVE CInv'
  OBVIOUS
<1>1. ASSUME UNCHANGED <<command, trash>> PROVE CInv'
  BY <1>1 DEF command, trash, CInv, ThereUsed, ArchivesNamed, FreshEmpty, NoDirNoFiles,
              FillsAlone, RestoresAlone, SiteTakenOut, UploadsTakenOut
<1>2. ASSUME \/ \E d \in Deploys : DeployMake(d) \/ DeployStep(d)
             \/ \E f \in Files : UploadAdmit(f) \/ UploadDelete(f) \/ UploadStep(f)
             \/ UNCHANGED vars
      PROVE  CInv'
  BY <1>1, <1>2, DeployTouches
  DEF UploadAdmit, UploadWrite, UploadDelete, UploadStep, UploadInsert, UploadUnlink, command, trash, vars, dirs
<1>3. ASSUME NEW a \in Admins, DeleteLook(a) PROVE CInv'
  <2>1. CASE site # NoTree
    <3>1. arch'[a] \in Archives \ used /\ used' = used \cup {arch'[a]} /\ there' = there \cup
         {arch'[a]}
      BY <1>3, <2>1 DEF DeleteLook, TypeOK, trash
    <3>2. pc'[a] \in Filling /\ pc'[a] \in SiteOut /\ pc'[a] \notin Past /\ pc'[a] \notin
         Away /\ pc'[a] \notin FilesOut
      BY <1>3, <2>1 DEF DeleteLook, TypeOK, trash, Past, Filling, Away, SiteOut, FilesOut
    <3>3. \A b \in Admins \ {a} : pc'[b] = pc[b] /\ arch'[b] = arch[b]
      BY <1>3, <2>1 DEF DeleteLook, TypeOK, trash
    <3>4. UNCHANGED <<boxed, boxdir, boxfiles>>
      BY <1>3, <2>1 DEF DeleteLook, TypeOK, trash
    <3>5. ThereUsed'
      BY <3>1, <3>2, <3>3, <3>4, Classes, NamedReal DEF ArchivesReal, CInv, ThereUsed
    <3>6. ArchivesNamed'
      BY <3>1, <3>2, <3>3, <3>4, Classes, NamedReal DEF ArchivesReal, CInv, ArchivesNamed, ThereUsed
    <3>7. FreshEmpty'
      BY <3>1, <3>2, <3>3, <3>4, Classes, NamedReal DEF ArchivesReal, CInv, FreshEmpty, ArchivesNamed
    <3>8. NoDirNoFiles'
      BY <3>1, <3>2, <3>3, <3>4, Classes, NamedReal DEF ArchivesReal, CInv, NoDirNoFiles
    <3>9. FillsAlone'
      BY <3>1, <3>2, <3>3, <3>4, Classes, NamedReal DEF ArchivesReal, CInv, FillsAlone, ArchivesNamed
    <3>10. RestoresAlone'
      BY <3>1, <3>2, <3>3, <3>4, Classes, NamedReal DEF ArchivesReal, CInv, RestoresAlone, SiteTakenOut
    <3>11. SiteTakenOut'
      BY <3>1, <3>2, <3>3, <3>4, Classes, NamedReal DEF ArchivesReal, CInv, SiteTakenOut, FillsAlone,
      RestoresAlone, FreshEmpty, ArchivesNamed
    <3>12. UploadsTakenOut'
      BY <3>1, <3>2, <3>3, <3>4, Classes, NamedReal DEF ArchivesReal, CInv, UploadsTakenOut,
      FillsAlone, RestoresAlone, NoDirNoFiles
    <3> QED
      BY <3>5, <3>6, <3>7, <3>8, <3>9, <3>10, <3>11, <3>12 DEF CInv
  <2>2. CASE site = NoTree
    <3>1. Keeps(a)
      BY <1>3, <2>2 DEF DeleteLook, Keeps, TypeOK, Past, Filling, Away, SiteOut, FilesOut
    <3>2. Shrinks
      BY <1>3, <2>2 DEF DeleteLook, Shrinks, TypeOK, trash
    <3> QED
      BY <3>1, <3>2, Unwinding
  <2> QED
    BY <2>1, <2>2
<1>4. ASSUME NEW a \in Admins, DeleteSiteDir(a) PROVE CInv'
  <2>1. CASE site = NoTree
    <3>1. Keeps(a)
      BY <1>4, <2>1 DEF DeleteSiteDir, AdminEnd, AdminGoto, Keeps, TypeOK, Past, Filling,
      Away, SiteOut, FilesOut
    <3>2. Shrinks
      BY <1>4, <2>1 DEF DeleteSiteDir, AdminEnd, AdminGoto, Shrinks, TypeOK, trash
    <3> QED
      BY <3>1, <3>2, Unwinding
  <2>2. CASE site # NoTree
    <3>1. pc[a] \in Filling /\ pc[a] \in SiteOut /\ pc[a] \notin Past /\ pc[a] \notin Away /\
         pc[a] \notin FilesOut
      BY <1>4, <2>2 DEF DeleteSiteDir, AdminEnd, AdminGoto, TypeOK, trash, Past, Filling,
      Away, SiteOut, FilesOut
    <3>2. pc'[a] \in Filling /\ pc'[a] \notin Past /\ pc'[a] \notin Away /\ pc'[a] \notin
         FilesOut /\ pc'[a] \notin SiteOut
      BY <1>4, <2>2 DEF DeleteSiteDir, AdminEnd, AdminGoto, TypeOK, trash, Past, Filling,
      Away, SiteOut, FilesOut
    <3>3. arch'[a] = arch[a]
      BY <1>4, <2>2 DEF DeleteSiteDir, AdminEnd, AdminGoto, TypeOK, trash
    <3>4. \A b \in Admins \ {a} : pc'[b] = pc[b] /\ arch'[b] = arch[b]
      BY <1>4, <2>2 DEF DeleteSiteDir, AdminEnd, AdminGoto, TypeOK, trash
    <3>5. \A y \in Archives : boxed'[y] = IF y = arch[a] THEN site ELSE boxed[y]
      BY <1>4, <2>2 DEF DeleteSiteDir, AdminEnd, AdminGoto, TypeOK, trash
    <3>6. UNCHANGED <<used, there, boxdir, boxfiles>>
      BY <1>4, <2>2 DEF DeleteSiteDir, AdminEnd, AdminGoto, TypeOK, trash
    <3>7. ThereUsed'
      BY <3>1, <3>2, <3>3, <3>4, <3>5, <3>6, Classes, NamedReal DEF ArchivesReal, CInv, ThereUsed
    <3>8. ArchivesNamed'
      BY <3>1, <3>2, <3>3, <3>4, <3>5, <3>6, Classes, NamedReal DEF ArchivesReal, CInv, ArchivesNamed,
      ThereUsed
    <3>9. FreshEmpty'
      BY <3>1, <3>2, <3>3, <3>4, <3>5, <3>6, Classes, NamedReal DEF ArchivesReal, CInv, FreshEmpty,
      ArchivesNamed
    <3>10. NoDirNoFiles'
      BY <3>1, <3>2, <3>3, <3>4, <3>5, <3>6, Classes, NamedReal DEF ArchivesReal, CInv, NoDirNoFiles
    <3>11. FillsAlone'
      BY <3>1, <3>2, <3>3, <3>4, <3>5, <3>6, Classes, NamedReal DEF ArchivesReal, CInv, FillsAlone,
      ArchivesNamed
    <3>12. RestoresAlone'
      BY <3>1, <3>2, <3>3, <3>4, <3>5, <3>6, Classes, NamedReal DEF ArchivesReal, CInv, RestoresAlone,
      SiteTakenOut
    <3>13. SiteTakenOut'
      BY <3>1, <3>2, <3>3, <3>4, <3>5, <3>6, Classes, NamedReal DEF ArchivesReal, CInv, SiteTakenOut,
      FillsAlone, RestoresAlone, FreshEmpty, ArchivesNamed
    <3>14. UploadsTakenOut'
      BY <3>1, <3>2, <3>3, <3>4, <3>5, <3>6, Classes, NamedReal DEF ArchivesReal, CInv,
      UploadsTakenOut, FillsAlone, RestoresAlone, NoDirNoFiles
    <3> QED
      BY <3>7, <3>8, <3>9, <3>10, <3>11, <3>12, <3>13, <3>14 DEF CInv
  <2> QED
    BY <2>1, <2>2
<1>5. ASSUME NEW a \in Admins, DeleteUploads(a) PROVE CInv'
  <2>1. CASE ~updir
    <3>1. Keeps(a)
      BY <1>5, <2>1 DEF DeleteUploads, AdminGoto, Keeps, TypeOK, Past, Filling, Away,
      SiteOut, FilesOut
    <3>2. Shrinks
      BY <1>5, <2>1 DEF DeleteUploads, AdminGoto, Shrinks, TypeOK, trash
    <3> QED
      BY <3>1, <3>2, Unwinding
  <2>2. CASE updir
    <3>1. pc[a] \in Filling /\ pc[a] \notin Past /\ pc[a] \notin Away /\ pc[a] \notin
         FilesOut /\ pc[a] \notin SiteOut
      BY <1>5, <2>2 DEF DeleteUploads, AdminGoto, TypeOK, trash, Past, Filling, Away,
      SiteOut, FilesOut
    <3>2. pc'[a] \in Away /\ pc'[a] \notin Past /\ pc'[a] \notin Filling /\ pc'[a] \notin
         FilesOut /\ pc'[a] \notin SiteOut
      BY <1>5, <2>2 DEF DeleteUploads, AdminGoto, TypeOK, trash, Past, Filling, Away,
      SiteOut, FilesOut
    <3>3. arch'[a] = arch[a]
      BY <1>5, <2>2 DEF DeleteUploads, AdminGoto, TypeOK, trash
    <3>4. \A b \in Admins \ {a} : pc'[b] = pc[b] /\ arch'[b] = arch[b]
      BY <1>5, <2>2 DEF DeleteUploads, AdminGoto, TypeOK, trash
    <3>5. \A y \in Archives : boxfiles'[y] = IF y = arch[a] THEN files ELSE boxfiles[y]
      BY <1>5, <2>2 DEF DeleteUploads, AdminGoto, TypeOK, trash
    <3>6. boxdir' = boxdir \cup {arch[a]} /\ UNCHANGED <<used, there, boxed>>
      BY <1>5, <2>2 DEF DeleteUploads, AdminGoto, TypeOK, trash
    <3>7. ThereUsed'
      BY <3>1, <3>2, <3>3, <3>4, <3>5, <3>6, Classes, NamedReal DEF ArchivesReal, CInv, ThereUsed
    <3>8. ArchivesNamed'
      BY <3>1, <3>2, <3>3, <3>4, <3>5, <3>6, Classes, NamedReal DEF ArchivesReal, CInv, ArchivesNamed,
      ThereUsed
    <3>9. FreshEmpty'
      BY <3>1, <3>2, <3>3, <3>4, <3>5, <3>6, Classes, NamedReal DEF ArchivesReal, CInv, FreshEmpty,
      ArchivesNamed
    <3>10. NoDirNoFiles'
      BY <3>1, <3>2, <3>3, <3>4, <3>5, <3>6, Classes, NamedReal DEF ArchivesReal, CInv, NoDirNoFiles
    <3>11. FillsAlone'
      BY <3>1, <3>2, <3>3, <3>4, <3>5, <3>6, Classes, NamedReal DEF ArchivesReal, CInv, FillsAlone,
      ArchivesNamed
    <3>12. RestoresAlone'
      BY <3>1, <3>2, <3>3, <3>4, <3>5, <3>6, Classes, NamedReal DEF ArchivesReal, CInv, RestoresAlone,
      SiteTakenOut
    <3>13. SiteTakenOut'
      BY <3>1, <3>2, <3>3, <3>4, <3>5, <3>6, Classes, NamedReal DEF ArchivesReal, CInv, SiteTakenOut,
      FillsAlone, RestoresAlone, FreshEmpty, ArchivesNamed
    <3>14. UploadsTakenOut'
      BY <3>1, <3>2, <3>3, <3>4, <3>5, <3>6, Classes, NamedReal DEF ArchivesReal, CInv,
      UploadsTakenOut, FillsAlone, RestoresAlone, NoDirNoFiles
    <3> QED
      BY <3>7, <3>8, <3>9, <3>10, <3>11, <3>12, <3>13, <3>14 DEF CInv
  <2> QED
    BY <2>1, <2>2
<1>6. ASSUME NEW a \in Admins, DeleteSweep(a) PROVE CInv'
  <2>1. Keeps(a)
    BY <1>6 DEF DeleteSweep, AdminGoto, Keeps, TypeOK, Past, Filling, Away, SiteOut,
    FilesOut
  <2>2. Shrinks
    BY <1>6 DEF DeleteSweep, AdminGoto, Shrinks, TypeOK, trash
  <2> QED
    BY <2>1, <2>2, Unwinding
<1>7. ASSUME NEW a \in Admins, DeleteRow(a) PROVE CInv'
  <2>1. Keeps(a)
    BY <1>7 DEF DeleteRow, AdminEnd, dirs, Keeps, TypeOK, Past, Filling, Away, SiteOut,
    FilesOut
  <2>2. Shrinks
    BY <1>7 DEF DeleteRow, AdminEnd, dirs, Shrinks, TypeOK, trash
  <2> QED
    BY <2>1, <2>2, Unwinding
<1>8. ASSUME NEW a \in Admins, NEW x \in Archives, RestoreLook(a, x) PROVE CInv'
  <2>1. pc'[a] \notin Past /\ pc'[a] \notin Filling /\ pc'[a] \notin Away /\ pc'[a] \notin
       FilesOut /\ pc'[a] \notin SiteOut
    BY <1>8 DEF RestoreLook, Printed, dirs, TypeOK, trash, Past, Filling, Away, SiteOut,
    FilesOut
  <2>2. arch'[a] = x
    BY <1>8 DEF RestoreLook, Printed, dirs, TypeOK, trash
  <2>3. \A b \in Admins \ {a} : pc'[b] = pc[b] /\ arch'[b] = arch[b]
    BY <1>8 DEF RestoreLook, Printed, dirs, TypeOK, trash
  <2>4. x \in used /\ UNCHANGED <<used, there, boxed, boxdir, boxfiles>>
    BY <1>8 DEF RestoreLook, Printed, dirs, TypeOK, trash, CInv, FreshEmpty
  <2>5. \A b \in Admins : arch[b] = x => pc[b] \notin Filling
    BY <1>8 DEF RestoreLook, Printed, dirs, TypeOK, trash, Past, Filling, Away, SiteOut,
    FilesOut
  <2>6. ThereUsed'
    BY <2>1, <2>2, <2>3, <2>4, <2>5, Classes, NamedReal DEF ArchivesReal, CInv, ThereUsed
  <2>7. ArchivesNamed'
    BY <2>1, <2>2, <2>3, <2>4, <2>5, Classes, NamedReal DEF ArchivesReal, CInv, ArchivesNamed,
    ThereUsed
  <2>8. FreshEmpty'
    BY <2>1, <2>2, <2>3, <2>4, <2>5, Classes, NamedReal DEF ArchivesReal, CInv, FreshEmpty,
    ArchivesNamed
  <2>9. NoDirNoFiles'
    BY <2>1, <2>2, <2>3, <2>4, <2>5, Classes, NamedReal DEF ArchivesReal, CInv, NoDirNoFiles
  <2>10. FillsAlone'
    BY <2>1, <2>2, <2>3, <2>4, <2>5, Classes, NamedReal DEF ArchivesReal, CInv, FillsAlone,
    ArchivesNamed
  <2>11. RestoresAlone'
    BY <2>1, <2>2, <2>3, <2>4, <2>5, Classes, NamedReal DEF ArchivesReal, CInv, RestoresAlone,
    SiteTakenOut
  <2>12. SiteTakenOut'
    BY <2>1, <2>2, <2>3, <2>4, <2>5, Classes, NamedReal DEF ArchivesReal, CInv, SiteTakenOut,
    FillsAlone, RestoresAlone, FreshEmpty, ArchivesNamed
  <2>13. UploadsTakenOut'
    BY <2>1, <2>2, <2>3, <2>4, <2>5, Classes, NamedReal DEF ArchivesReal, CInv, UploadsTakenOut,
    FillsAlone, RestoresAlone, NoDirNoFiles
  <2> QED
    BY <2>6, <2>7, <2>8, <2>9, <2>10, <2>11, <2>12, <2>13 DEF CInv
<1>9. ASSUME NEW a \in Admins, RestoreMove(a) PROVE CInv'
  <2>1. CASE boxed[arch[a]] # NoTree /\ site = NoTree
    <3>1. pc[a] \notin Past /\ pc[a] \notin Filling /\ pc[a] \notin Away /\ pc[a] \notin
         FilesOut /\ pc[a] \notin SiteOut
      BY <1>9, <2>1 DEF RestoreMove, AdminEnd, AdminGoto, TypeOK, trash, Past, Filling,
      Away, SiteOut, FilesOut
    <3>2. pc'[a] \in Past /\ pc'[a] \in SiteOut /\ pc'[a] \notin Filling /\ pc'[a] \notin
         Away /\ pc'[a] \notin FilesOut
      BY <1>9, <2>1 DEF RestoreMove, AdminEnd, AdminGoto, TypeOK, trash, Past, Filling,
      Away, SiteOut, FilesOut
    <3>3. arch'[a] = arch[a]
      BY <1>9, <2>1 DEF RestoreMove, AdminEnd, AdminGoto, TypeOK, trash
    <3>4. \A b \in Admins \ {a} : pc'[b] = pc[b] /\ arch'[b] = arch[b]
      BY <1>9, <2>1 DEF RestoreMove, AdminEnd, AdminGoto, TypeOK, trash
    <3>5. \A y \in Archives : boxed'[y] = IF y = arch[a] THEN NoTree ELSE boxed[y]
      BY <1>9, <2>1 DEF RestoreMove, AdminEnd, AdminGoto, TypeOK, trash
    <3>6. UNCHANGED <<used, there, boxdir, boxfiles>>
      BY <1>9, <2>1 DEF RestoreMove, AdminEnd, AdminGoto, TypeOK, trash
    <3>7. boxed[arch[a]] # NoTree
      BY <1>9, <2>1 DEF RestoreMove, AdminEnd, AdminGoto, TypeOK, trash
    <3>8. ThereUsed'
      BY <3>1, <3>2, <3>3, <3>4, <3>5, <3>6, <3>7, Classes, NamedReal DEF ArchivesReal, CInv, ThereUsed
    <3>9. ArchivesNamed'
      BY <3>1, <3>2, <3>3, <3>4, <3>5, <3>6, <3>7, Classes, NamedReal DEF ArchivesReal, CInv,
      ArchivesNamed, ThereUsed
    <3>10. FreshEmpty'
      BY <3>1, <3>2, <3>3, <3>4, <3>5, <3>6, <3>7, Classes, NamedReal DEF ArchivesReal, CInv,
      FreshEmpty, ArchivesNamed
    <3>11. NoDirNoFiles'
      BY <3>1, <3>2, <3>3, <3>4, <3>5, <3>6, <3>7, Classes, NamedReal DEF ArchivesReal, CInv,
      NoDirNoFiles
    <3>12. FillsAlone'
      BY <3>1, <3>2, <3>3, <3>4, <3>5, <3>6, <3>7, Classes, NamedReal DEF ArchivesReal, CInv,
      FillsAlone, ArchivesNamed
    <3>13. RestoresAlone'
      BY <3>1, <3>2, <3>3, <3>4, <3>5, <3>6, <3>7, Classes, NamedReal DEF ArchivesReal, CInv,
      RestoresAlone, SiteTakenOut
    <3>14. SiteTakenOut'
      BY <3>1, <3>2, <3>3, <3>4, <3>5, <3>6, <3>7, Classes, NamedReal DEF ArchivesReal, CInv,
      SiteTakenOut, FillsAlone, RestoresAlone, FreshEmpty, ArchivesNamed
    <3>15. UploadsTakenOut'
      BY <3>1, <3>2, <3>3, <3>4, <3>5, <3>6, <3>7, Classes, NamedReal DEF ArchivesReal, CInv,
      UploadsTakenOut, FillsAlone, RestoresAlone, NoDirNoFiles
    <3> QED
      BY <3>8, <3>9, <3>10, <3>11, <3>12, <3>13, <3>14, <3>15 DEF CInv
  <2>2. CASE ~(boxed[arch[a]] # NoTree /\ site = NoTree)
    <3>1. Keeps(a)
      BY <1>9, <2>2 DEF RestoreMove, AdminEnd, AdminGoto, Keeps, TypeOK, Past, Filling,
      Away, SiteOut, FilesOut
    <3>2. Shrinks
      BY <1>9, <2>2 DEF RestoreMove, AdminEnd, AdminGoto, Shrinks, TypeOK, trash
    <3> QED
      BY <3>1, <3>2, Unwinding
  <2> QED
    BY <2>1, <2>2
<1>10. ASSUME NEW a \in Admins, RestoreUploads(a) PROVE CInv'
  <2>1. CASE arch[a] \in boxdir /\ ~updir
    <3>1. pc[a] \in Past /\ pc[a] \in SiteOut /\ pc[a] \notin Filling /\ pc[a] \notin Away /\
         pc[a] \notin FilesOut
      BY <1>10, <2>1 DEF RestoreUploads, AdminGoto, TypeOK, trash, Past, Filling, Away,
      SiteOut, FilesOut
    <3>2. pc'[a] \in Past /\ pc'[a] \in FilesOut /\ pc'[a] \in SiteOut /\ pc'[a] \notin
         Filling /\ pc'[a] \notin Away
      BY <1>10, <2>1 DEF RestoreUploads, AdminGoto, TypeOK, trash, Past, Filling, Away,
      SiteOut, FilesOut
    <3>3. arch'[a] = arch[a]
      BY <1>10, <2>1 DEF RestoreUploads, AdminGoto, TypeOK, trash
    <3>4. \A b \in Admins \ {a} : pc'[b] = pc[b] /\ arch'[b] = arch[b]
      BY <1>10, <2>1 DEF RestoreUploads, AdminGoto, TypeOK, trash
    <3>5. \A y \in Archives : boxfiles'[y] = IF y = arch[a] THEN {} ELSE boxfiles[y]
      BY <1>10, <2>1 DEF RestoreUploads, AdminGoto, TypeOK, trash
    <3>6. boxdir' = boxdir \ {arch[a]} /\ UNCHANGED <<used, there, boxed>>
      BY <1>10, <2>1 DEF RestoreUploads, AdminGoto, TypeOK, trash
    <3>7. ThereUsed'
      BY <3>1, <3>2, <3>3, <3>4, <3>5, <3>6, Classes, NamedReal DEF ArchivesReal, CInv, ThereUsed
    <3>8. ArchivesNamed'
      BY <3>1, <3>2, <3>3, <3>4, <3>5, <3>6, Classes, NamedReal DEF ArchivesReal, CInv, ArchivesNamed,
      ThereUsed
    <3>9. FreshEmpty'
      BY <3>1, <3>2, <3>3, <3>4, <3>5, <3>6, Classes, NamedReal DEF ArchivesReal, CInv, FreshEmpty,
      ArchivesNamed
    <3>10. NoDirNoFiles'
      BY <3>1, <3>2, <3>3, <3>4, <3>5, <3>6, Classes, NamedReal DEF ArchivesReal, CInv, NoDirNoFiles
    <3>11. FillsAlone'
      BY <3>1, <3>2, <3>3, <3>4, <3>5, <3>6, Classes, NamedReal DEF ArchivesReal, CInv, FillsAlone,
      ArchivesNamed
    <3>12. RestoresAlone'
      BY <3>1, <3>2, <3>3, <3>4, <3>5, <3>6, Classes, NamedReal DEF ArchivesReal, CInv, RestoresAlone,
      SiteTakenOut
    <3>13. SiteTakenOut'
      BY <3>1, <3>2, <3>3, <3>4, <3>5, <3>6, Classes, NamedReal DEF ArchivesReal, CInv, SiteTakenOut,
      FillsAlone, RestoresAlone, FreshEmpty, ArchivesNamed
    <3>14. UploadsTakenOut'
      BY <3>1, <3>2, <3>3, <3>4, <3>5, <3>6, Classes, NamedReal DEF ArchivesReal, CInv,
      UploadsTakenOut, FillsAlone, RestoresAlone, NoDirNoFiles
    <3> QED
      BY <3>7, <3>8, <3>9, <3>10, <3>11, <3>12, <3>13, <3>14 DEF CInv
  <2>2. CASE arch[a] \in boxdir /\ updir
    <3>1. Keeps(a)
      BY <1>10, <2>2 DEF RestoreUploads, AdminGoto, Keeps, TypeOK, Past, Filling, Away,
      SiteOut, FilesOut
    <3>2. Shrinks
      BY <1>10, <2>2 DEF RestoreUploads, AdminGoto, Shrinks, TypeOK, trash
    <3> QED
      BY <3>1, <3>2, Unwinding
  <2>3. CASE arch[a] \notin boxdir
    <3>1. pc[a] \in Past /\ pc[a] \in SiteOut /\ pc[a] \notin Filling /\ pc[a] \notin Away /\
         pc[a] \notin FilesOut
      BY <1>10, <2>3 DEF RestoreUploads, AdminGoto, TypeOK, trash, Past, Filling, Away,
      SiteOut, FilesOut
    <3>2. pc'[a] \in Past /\ pc'[a] \in FilesOut /\ pc'[a] \in SiteOut /\ pc'[a] \notin
         Filling /\ pc'[a] \notin Away
      BY <1>10, <2>3 DEF RestoreUploads, AdminGoto, TypeOK, trash, Past, Filling, Away,
      SiteOut, FilesOut
    <3>3. arch'[a] = arch[a]
      BY <1>10, <2>3 DEF RestoreUploads, AdminGoto, TypeOK, trash
    <3>4. \A b \in Admins \ {a} : pc'[b] = pc[b] /\ arch'[b] = arch[b]
      BY <1>10, <2>3 DEF RestoreUploads, AdminGoto, TypeOK, trash
    <3>5. UNCHANGED <<used, there, boxed, boxdir, boxfiles>>
      BY <1>10, <2>3 DEF RestoreUploads, AdminGoto, TypeOK, trash
    <3>6. arch[a] \in Archives \ boxdir
      BY <1>10, <2>3 DEF RestoreUploads, AdminGoto, TypeOK, trash, CInv, ArchivesNamed, Away
    <3>7. ThereUsed'
      BY <3>1, <3>2, <3>3, <3>4, <3>5, <3>6, Classes, NamedReal DEF ArchivesReal, CInv, ThereUsed
    <3>8. ArchivesNamed'
      BY <3>1, <3>2, <3>3, <3>4, <3>5, <3>6, Classes, NamedReal DEF ArchivesReal, CInv, ArchivesNamed,
      ThereUsed
    <3>9. FreshEmpty'
      BY <3>1, <3>2, <3>3, <3>4, <3>5, <3>6, Classes, NamedReal DEF ArchivesReal, CInv, FreshEmpty,
      ArchivesNamed
    <3>10. NoDirNoFiles'
      BY <3>1, <3>2, <3>3, <3>4, <3>5, <3>6, Classes, NamedReal DEF ArchivesReal, CInv, NoDirNoFiles
    <3>11. FillsAlone'
      BY <3>1, <3>2, <3>3, <3>4, <3>5, <3>6, Classes, NamedReal DEF ArchivesReal, CInv, FillsAlone,
      ArchivesNamed
    <3>12. RestoresAlone'
      BY <3>1, <3>2, <3>3, <3>4, <3>5, <3>6, Classes, NamedReal DEF ArchivesReal, CInv, RestoresAlone,
      SiteTakenOut
    <3>13. SiteTakenOut'
      BY <3>1, <3>2, <3>3, <3>4, <3>5, <3>6, Classes, NamedReal DEF ArchivesReal, CInv, SiteTakenOut,
      FillsAlone, RestoresAlone, FreshEmpty, ArchivesNamed
    <3>14. UploadsTakenOut'
      BY <3>1, <3>2, <3>3, <3>4, <3>5, <3>6, Classes, NamedReal DEF ArchivesReal, CInv,
      UploadsTakenOut, FillsAlone, RestoresAlone, NoDirNoFiles
    <3> QED
      BY <3>7, <3>8, <3>9, <3>10, <3>11, <3>12, <3>13, <3>14 DEF CInv
  <2> QED
    BY <2>1, <2>2, <2>3
<1>11. ASSUME NEW a \in Admins, RestoreRecord(a) PROVE CInv'
  <2>1. Keeps(a)
    BY <1>11 DEF RestoreRecord, AdminGoto, dirs, Keeps, TypeOK, Past, Filling, Away,
    SiteOut, FilesOut
  <2>2. Shrinks
    BY <1>11 DEF RestoreRecord, AdminGoto, dirs, Shrinks, TypeOK, trash
  <2> QED
    BY <2>1, <2>2, Unwinding
<1>12. ASSUME NEW a \in Admins, UndoUploads(a) PROVE CInv'
  <2>1. CASE a \in moved /\ updir /\ arch[a] \in there
    <3>1. pc[a] \in Past /\ pc[a] \in FilesOut /\ pc[a] \in SiteOut /\ pc[a] \notin Filling
         /\ pc[a] \notin Away
      BY <1>12, <2>1 DEF UndoUploads, AdminGoto, TypeOK, trash, Past, Filling, Away,
      SiteOut, FilesOut
    <3>2. pc'[a] \in Past /\ pc'[a] \in SiteOut /\ pc'[a] \notin Filling /\ pc'[a] \notin
         Away /\ pc'[a] \notin FilesOut
      BY <1>12, <2>1 DEF UndoUploads, AdminGoto, TypeOK, trash, Past, Filling, Away,
      SiteOut, FilesOut
    <3>3. arch'[a] = arch[a]
      BY <1>12, <2>1 DEF UndoUploads, AdminGoto, TypeOK, trash
    <3>4. \A b \in Admins \ {a} : pc'[b] = pc[b] /\ arch'[b] = arch[b]
      BY <1>12, <2>1 DEF UndoUploads, AdminGoto, TypeOK, trash
    <3>5. \A y \in Archives : boxfiles'[y] = IF y = arch[a] THEN files ELSE boxfiles[y]
      BY <1>12, <2>1 DEF UndoUploads, AdminGoto, TypeOK, trash
    <3>6. boxdir' = boxdir \cup {arch[a]} /\ UNCHANGED <<used, there, boxed>>
      BY <1>12, <2>1 DEF UndoUploads, AdminGoto, TypeOK, trash
    <3>7. ThereUsed'
      BY <3>1, <3>2, <3>3, <3>4, <3>5, <3>6, Classes, NamedReal DEF ArchivesReal, CInv, ThereUsed
    <3>8. ArchivesNamed'
      BY <3>1, <3>2, <3>3, <3>4, <3>5, <3>6, Classes, NamedReal DEF ArchivesReal, CInv, ArchivesNamed,
      ThereUsed
    <3>9. FreshEmpty'
      BY <3>1, <3>2, <3>3, <3>4, <3>5, <3>6, Classes, NamedReal DEF ArchivesReal, CInv, FreshEmpty,
      ArchivesNamed
    <3>10. NoDirNoFiles'
      BY <3>1, <3>2, <3>3, <3>4, <3>5, <3>6, Classes, NamedReal DEF ArchivesReal, CInv, NoDirNoFiles
    <3>11. FillsAlone'
      BY <3>1, <3>2, <3>3, <3>4, <3>5, <3>6, Classes, NamedReal DEF ArchivesReal, CInv, FillsAlone,
      ArchivesNamed
    <3>12. RestoresAlone'
      BY <3>1, <3>2, <3>3, <3>4, <3>5, <3>6, Classes, NamedReal DEF ArchivesReal, CInv, RestoresAlone,
      SiteTakenOut
    <3>13. SiteTakenOut'
      BY <3>1, <3>2, <3>3, <3>4, <3>5, <3>6, Classes, NamedReal DEF ArchivesReal, CInv, SiteTakenOut,
      FillsAlone, RestoresAlone, FreshEmpty, ArchivesNamed
    <3>14. UploadsTakenOut'
      BY <3>1, <3>2, <3>3, <3>4, <3>5, <3>6, Classes, NamedReal DEF ArchivesReal, CInv,
      UploadsTakenOut, FillsAlone, RestoresAlone, NoDirNoFiles
    <3> QED
      BY <3>7, <3>8, <3>9, <3>10, <3>11, <3>12, <3>13, <3>14 DEF CInv
  <2>2. CASE ~(a \in moved /\ updir /\ arch[a] \in there)
    <3>1. Keeps(a)
      BY <1>12, <2>2 DEF UndoUploads, AdminGoto, Keeps, TypeOK, Past, Filling, Away,
      SiteOut, FilesOut
    <3>2. Shrinks
      BY <1>12, <2>2 DEF UndoUploads, AdminGoto, Shrinks, TypeOK, trash
    <3> QED
      BY <3>1, <3>2, Unwinding
  <2> QED
    BY <2>1, <2>2
<1>13. ASSUME NEW a \in Admins, UndoSite(a) PROVE CInv'
  <2>1. CASE site # NoTree /\ arch[a] \in there
    <3>1. pc[a] \in Past /\ pc[a] \in SiteOut /\ pc[a] \notin Filling /\ pc[a] \notin Away /\
         pc[a] \notin FilesOut
      BY <1>13, <2>1 DEF UndoSite, AdminEnd, TypeOK, trash, Past, Filling, Away, SiteOut,
      FilesOut
    <3>2. pc'[a] \in Away /\ pc'[a] \notin Past /\ pc'[a] \notin Filling /\ pc'[a] \notin
         FilesOut /\ pc'[a] \notin SiteOut
      BY <1>13, <2>1 DEF UndoSite, AdminEnd, TypeOK, trash, Past, Filling, Away, SiteOut,
      FilesOut
    <3>3. \A b \in Admins \ {a} : pc'[b] = pc[b] /\ arch'[b] = arch[b]
      BY <1>13, <2>1 DEF UndoSite, AdminEnd, TypeOK, trash
    <3>4. \A y \in Archives : boxed'[y] = IF y = arch[a] THEN site ELSE boxed[y]
      BY <1>13, <2>1 DEF UndoSite, AdminEnd, TypeOK, trash
    <3>5. UNCHANGED <<used, there, boxdir, boxfiles>>
      BY <1>13, <2>1 DEF UndoSite, AdminEnd, TypeOK, trash
    <3>6. ThereUsed'
      BY <3>1, <3>2, <3>3, <3>4, <3>5, Classes, NamedReal DEF ArchivesReal, CInv, ThereUsed
    <3>7. ArchivesNamed'
      BY <3>1, <3>2, <3>3, <3>4, <3>5, Classes, NamedReal DEF ArchivesReal, CInv, ArchivesNamed,
      ThereUsed
    <3>8. FreshEmpty'
      BY <3>1, <3>2, <3>3, <3>4, <3>5, Classes, NamedReal DEF ArchivesReal, CInv, FreshEmpty,
      ArchivesNamed
    <3>9. NoDirNoFiles'
      BY <3>1, <3>2, <3>3, <3>4, <3>5, Classes, NamedReal DEF ArchivesReal, CInv, NoDirNoFiles
    <3>10. FillsAlone'
      BY <3>1, <3>2, <3>3, <3>4, <3>5, Classes, NamedReal DEF ArchivesReal, CInv, FillsAlone,
      ArchivesNamed
    <3>11. RestoresAlone'
      BY <3>1, <3>2, <3>3, <3>4, <3>5, Classes, NamedReal DEF ArchivesReal, CInv, RestoresAlone,
      SiteTakenOut
    <3>12. SiteTakenOut'
      BY <3>1, <3>2, <3>3, <3>4, <3>5, Classes, NamedReal DEF ArchivesReal, CInv, SiteTakenOut,
      FillsAlone, RestoresAlone, FreshEmpty, ArchivesNamed
    <3>13. UploadsTakenOut'
      BY <3>1, <3>2, <3>3, <3>4, <3>5, Classes, NamedReal DEF ArchivesReal, CInv, UploadsTakenOut,
      FillsAlone, RestoresAlone, NoDirNoFiles
    <3> QED
      BY <3>6, <3>7, <3>8, <3>9, <3>10, <3>11, <3>12, <3>13 DEF CInv
  <2>2. CASE ~(site # NoTree /\ arch[a] \in there)
    <3>1. Keeps(a)
      BY <1>13, <2>2 DEF UndoSite, AdminEnd, Keeps, TypeOK, Past, Filling, Away, SiteOut,
      FilesOut
    <3>2. Shrinks
      BY <1>13, <2>2 DEF UndoSite, AdminEnd, Shrinks, TypeOK, trash
    <3> QED
      BY <3>1, <3>2, Unwinding
  <2> QED
    BY <2>1, <2>2
<1>14. ASSUME NEW a \in Admins, RestoreTidy(a) PROVE CInv'
  <2>1. Keeps(a)
    BY <1>14 DEF RestoreTidy, AdminEnd, RemoveArchive, Keeps, TypeOK, Past, Filling, Away,
    SiteOut, FilesOut
  <2>2. Shrinks
    BY <1>14 DEF RestoreTidy, AdminEnd, RemoveArchive, Shrinks, TypeOK, trash
  <2> QED
    BY <2>1, <2>2, Unwinding
<1>15. ASSUME NEW a \in Admins, NEW x \in Archives, PurgeOpen(a, x) PROVE CInv'
  <2>1. pc'[a] \notin Past /\ pc'[a] \notin Filling /\ pc'[a] \notin Away /\ pc'[a] \notin
       FilesOut /\ pc'[a] \notin SiteOut
    BY <1>15 DEF PurgeOpen, Printed, dirs, TypeOK, trash, Past, Filling, Away, SiteOut,
    FilesOut
  <2>2. arch'[a] = x
    BY <1>15 DEF PurgeOpen, Printed, dirs, TypeOK, trash
  <2>3. \A b \in Admins \ {a} : pc'[b] = pc[b] /\ arch'[b] = arch[b]
    BY <1>15 DEF PurgeOpen, Printed, dirs, TypeOK, trash
  <2>4. x \in there /\ UNCHANGED <<used, there, boxed, boxdir, boxfiles>>
    BY <1>15 DEF PurgeOpen, Printed, dirs, TypeOK, trash
  <2>5. \A b \in Admins : arch[b] = x => pc[b] \notin Filling
    BY <1>15 DEF PurgeOpen, Printed, dirs, TypeOK, trash, Past, Filling, Away, SiteOut,
    FilesOut
  <2>6. ThereUsed'
    BY <2>1, <2>2, <2>3, <2>4, <2>5, Classes, NamedReal DEF ArchivesReal, CInv, ThereUsed
  <2>7. ArchivesNamed'
    BY <2>1, <2>2, <2>3, <2>4, <2>5, Classes, NamedReal DEF ArchivesReal, CInv, ArchivesNamed,
    ThereUsed
  <2>8. FreshEmpty'
    BY <2>1, <2>2, <2>3, <2>4, <2>5, Classes, NamedReal DEF ArchivesReal, CInv, FreshEmpty,
    ArchivesNamed
  <2>9. NoDirNoFiles'
    BY <2>1, <2>2, <2>3, <2>4, <2>5, Classes, NamedReal DEF ArchivesReal, CInv, NoDirNoFiles
  <2>10. FillsAlone'
    BY <2>1, <2>2, <2>3, <2>4, <2>5, Classes, NamedReal DEF ArchivesReal, CInv, FillsAlone,
    ArchivesNamed
  <2>11. RestoresAlone'
    BY <2>1, <2>2, <2>3, <2>4, <2>5, Classes, NamedReal DEF ArchivesReal, CInv, RestoresAlone,
    SiteTakenOut
  <2>12. SiteTakenOut'
    BY <2>1, <2>2, <2>3, <2>4, <2>5, Classes, NamedReal DEF ArchivesReal, CInv, SiteTakenOut,
    FillsAlone, RestoresAlone, FreshEmpty, ArchivesNamed
  <2>13. UploadsTakenOut'
    BY <2>1, <2>2, <2>3, <2>4, <2>5, Classes, NamedReal DEF ArchivesReal, CInv, UploadsTakenOut,
    FillsAlone, RestoresAlone, NoDirNoFiles
  <2> QED
    BY <2>6, <2>7, <2>8, <2>9, <2>10, <2>11, <2>12, <2>13 DEF CInv
<1>16. ASSUME NEW a \in Admins, PurgeRemove(a) PROVE CInv'
  <2>1. Keeps(a)
    BY <1>16 DEF PurgeRemove, AdminEnd, RemoveArchive, Keeps, TypeOK, Past, Filling, Away,
    SiteOut, FilesOut
  <2>2. Shrinks
    BY <1>16 DEF PurgeRemove, AdminEnd, RemoveArchive, Shrinks, TypeOK, trash
  <2> QED
    BY <2>1, <2>2, Unwinding
<1>17. ASSUME NEW a \in Admins, Die(a) PROVE CInv'
  <2>1. Keeps(a)
    BY <1>17 DEF Die, AdminEnd, dirs, Keeps, TypeOK, Past, Filling, Away, SiteOut, FilesOut
  <2>2. Shrinks
    BY <1>17 DEF Die, AdminEnd, dirs, Shrinks, TypeOK, trash
  <2> QED
    BY <2>1, <2>2, Unwinding
<1> QED
  BY <1>2, <1>3, <1>4, <1>5, <1>6, <1>7, <1>8, <1>9, <1>10, <1>11, <1>12, <1>13, <1>14,
     <1>15, <1>16, <1>17 DEF Next, AdminStep

LEMMA CInvHolds == Spec => [](TypeOK /\ CInv)
  BY TypeCorrect, InitCInv, NextCInv, PTL DEF Spec

\* A restore that removes its archive finds nothing left in it, whatever overlaps.
THEOREM RestoreLosesNothing == Spec => RestoreDiscardsNothing
<1> DEFINE Nothing == \A a \in Admins :
               RestoreTidy(a) => boxed[arch[a]] = NoTree /\ boxfiles[arch[a]] = {}
<1>1. CInv => Nothing
  BY DEF CInv, SiteTakenOut, UploadsTakenOut, Past, SiteOut, FilesOut, RestoreTidy
<1>2. CInv => [Nothing]_vars
  BY <1>1
<1> QED
  BY <1>2, CInvHolds, PTL DEF RestoreDiscardsNothing

(***************************************************************************)
(* Where the site directories are.                                         *)
(***************************************************************************)
OnlyMade ==
    /\ linked \subseteq made
    /\ \A t \in Trees : site = t \/ (\E x \in Archives : boxed[x] = t) => t \in made

OnePlace ==
    \A t \in Trees :
        /\ \A x \in Archives : boxed[x] = t => site # t
        /\ \A x, y \in Archives : boxed[x] = t /\ boxed[y] = t => x = y

Somewhere ==
    \A t \in made \ gone : site = t \/ \E x \in Archives : boxed[x] = t

PInv == OnlyMade /\ OnePlace /\ Somewhere

LEMMA InitPInv == Init => PInv
  BY TreeAssumption DEF Init, PInv, OnlyMade, OnePlace, Somewhere

\* A site directory is made, or none; and perhaps linked.
LEMMA PlacesMade ==
    ASSUME TypeOK, PInv, MakeSite \/ UNCHANGED <<site, made>>,
           linked' = linked \/ (site # NoTree /\ linked' = linked \cup {site}),
           UNCHANGED <<boxed, gone>>
    PROVE  PInv'
<1> USE TreeAssumption DEF PInv
<1>1. CASE UNCHANGED <<site, made>>
  BY <1>1 DEF OnlyMade, OnePlace, Somewhere, TypeOK, Sites
<1>2. CASE site = NoTree /\ site' \in Trees \ made /\ made' = made \cup {site'}
  <2>1. linked' = linked
    BY <1>2
  <2>2. OnlyMade'
    BY <1>2, <2>1 DEF OnlyMade
  <2>3. OnePlace'
    <3>1. \A x \in Archives : boxed'[x] = boxed[x] /\ boxed[x] # site'
      BY <1>2 DEF OnlyMade
    <3> QED
      BY <3>1 DEF OnePlace
  <2>4. Somewhere'
    BY <1>2 DEF Somewhere, TypeOK
  <2> QED
    BY <2>2, <2>3, <2>4
<1> QED
  BY <1>1, <1>2, SiteMade

\* The site directory goes into an archive that has none.
LEMMA PlacesBoxed ==
    ASSUME TypeOK, PInv, NEW x \in Archives, boxed[x] = NoTree, site # NoTree,
           boxed' = [boxed EXCEPT ![x] = site], site' = NoTree,
           UNCHANGED <<made, linked, gone>>
    PROVE  PInv'
<1> USE TreeAssumption DEF PInv, TypeOK, Sites
<1>1. OnlyMade'
  BY DEF OnlyMade
<1>2. OnePlace'
  BY DEF OnePlace
<1>3. Somewhere'
  BY DEF Somewhere
<1> QED
  BY <1>1, <1>2, <1>3

\* It comes out of one.
LEMMA PlacesUnboxed ==
    ASSUME TypeOK, PInv, NEW x \in Archives, site = NoTree,
           boxed' = [boxed EXCEPT ![x] = NoTree], site' = boxed[x],
           UNCHANGED <<made, linked, gone>>
    PROVE  PInv'
<1> USE TreeAssumption DEF PInv, TypeOK, Sites
<1>1. OnlyMade'
  BY DEF OnlyMade
<1>2. OnePlace'
  BY DEF OnePlace
<1>3. Somewhere'
  BY DEF Somewhere
<1> QED
  BY <1>1, <1>2, <1>3

\* An archive goes, with what is in it.
LEMMA PlacesRemoved ==
    ASSUME TypeOK, PInv, NEW x \in Archives, boxed' = [boxed EXCEPT ![x] = NoTree],
           gone \subseteq gone', boxed[x] # NoTree => boxed[x] \in gone',
           UNCHANGED <<site, made, linked>>
    PROVE  PInv'
<1> USE TreeAssumption DEF PInv, TypeOK, Sites
<1>1. OnlyMade'
  BY DEF OnlyMade
<1>2. OnePlace'
  BY DEF OnePlace
<1>3. Somewhere'
  BY DEF Somewhere
<1> QED
  BY <1>1, <1>2, <1>3

LEMMA NextPInv == TypeOK /\ CInv /\ PInv /\ [Next]_vars => PInv'
<1> SUFFICES ASSUME TypeOK, CInv, PInv, [Next]_vars PROVE PInv'
  OBVIOUS
<1>1. ASSUME UNCHANGED <<site, boxed, made, linked, gone>> PROVE PInv'
  BY <1>1, PlacesMade
<1>2. \A a \in Admins :
          /\ pc[a] \in {"archiving", "moving", "undoSite", "tidying", "purging"} => arch[a] \in Archives
          /\ pc[a] \in {"archiving", "undoSite", "tidying"} => boxed[arch[a]] = NoTree
  BY NamedReal DEF ArchivesReal, CInv, SiteTakenOut, SiteOut, Past, Away
<1>3. ASSUME NEW d \in Deploys, DeployMake(d) \/ DeployStep(d) PROVE PInv'
  BY <1>3, DeployTouches, PlacesMade
<1>4. ASSUME NEW f \in Files, UploadAdmit(f) \/ UploadDelete(f) \/ UploadStep(f) PROVE PInv'
  BY <1>1, <1>4 DEF UploadAdmit, UploadDelete, UploadStep, UploadWrite, UploadInsert, UploadUnlink,
                    dirs, trash, deploys
<1>5. ASSUME NEW a \in Admins, \/ DeleteLook(a) \/ DeleteUploads(a) \/ DeleteSweep(a) \/ DeleteRow(a)
                               \/ RestoreUploads(a) \/ RestoreRecord(a) \/ UndoUploads(a) \/ Die(a)
      PROVE  PInv'
  BY <1>1, <1>5 DEF DeleteLook, DeleteUploads, DeleteSweep, DeleteRow, RestoreUploads, RestoreRecord,
                    UndoUploads, Die, dirs, trash, api, deploys
<1>6. ASSUME NEW a \in Admins, NEW x \in Archives, RestoreLook(a, x) \/ PurgeOpen(a, x) PROVE PInv'
  BY <1>1, <1>6 DEF RestoreLook, PurgeOpen, dirs, trash, api, deploys
<1>7. ASSUME NEW a \in Admins, DeleteSiteDir(a) PROVE PInv'
  <2>1. CASE site = NoTree
    BY <1>1, <1>7, <2>1 DEF DeleteSiteDir, api, deploys
  <2>2. CASE site # NoTree
    <3>1. arch[a] \in Archives /\ boxed[arch[a]] = NoTree
      BY <1>2, <1>7 DEF DeleteSiteDir
    <3>2. /\ boxed' = [boxed EXCEPT ![arch[a]] = site] /\ site' = NoTree
          /\ UNCHANGED <<made, linked, gone>>
      BY <1>7, <2>2 DEF DeleteSiteDir, api, deploys
    <3> QED
      BY <2>2, <3>1, <3>2, PlacesBoxed
  <2> QED
    BY <2>1, <2>2
<1>8. ASSUME NEW a \in Admins, RestoreMove(a) PROVE PInv'
  <2>1. CASE boxed[arch[a]] # NoTree /\ site = NoTree
    <3>1. arch[a] \in Archives
      BY <1>2, <1>8 DEF RestoreMove
    <3>2. /\ boxed' = [boxed EXCEPT ![arch[a]] = NoTree] /\ site' = boxed[arch[a]]
          /\ UNCHANGED <<made, linked, gone>>
      BY <1>8, <2>1 DEF RestoreMove, api, deploys
    <3> QED
      BY <2>1, <3>1, <3>2, PlacesUnboxed
  <2>2. CASE ~(boxed[arch[a]] # NoTree /\ site = NoTree)
    BY <1>1, <1>8, <2>2 DEF RestoreMove, api, deploys
  <2> QED
    BY <2>1, <2>2
<1>9. ASSUME NEW a \in Admins, UndoSite(a) PROVE PInv'
  <2>1. CASE site # NoTree /\ arch[a] \in there
    <3>1. arch[a] \in Archives /\ boxed[arch[a]] = NoTree
      BY <1>2, <1>9 DEF UndoSite
    <3>2. /\ boxed' = [boxed EXCEPT ![arch[a]] = site] /\ site' = NoTree
          /\ UNCHANGED <<made, linked, gone>>
      BY <1>9, <2>1 DEF UndoSite, api, deploys
    <3> QED
      BY <2>1, <3>1, <3>2, PlacesBoxed
  <2>2. CASE ~(site # NoTree /\ arch[a] \in there)
    BY <1>1, <1>9, <2>2 DEF UndoSite, api, deploys
  <2> QED
    BY <2>1, <2>2
<1>10. ASSUME NEW a \in Admins, RestoreTidy(a) PROVE PInv'
  <2>1. arch[a] \in Archives /\ boxed[arch[a]] = NoTree
    BY <1>2, <1>10 DEF RestoreTidy
  <2>2. boxed' = [boxed EXCEPT ![arch[a]] = NoTree] /\ UNCHANGED <<site, made, linked, gone>>
    BY <1>10 DEF RestoreTidy, RemoveArchive, api, deploys
  <2> QED
    BY <2>1, <2>2, PlacesRemoved
<1>11. ASSUME NEW a \in Admins, PurgeRemove(a) PROVE PInv'
  <2>1. arch[a] \in Archives
    BY <1>2, <1>11 DEF PurgeRemove
  <2>2. gone \subseteq gone' /\ (boxed[arch[a]] # NoTree => boxed[arch[a]] \in gone')
    BY <1>11 DEF PurgeRemove
  <2>3. boxed' = [boxed EXCEPT ![arch[a]] = NoTree] /\ UNCHANGED <<site, made, linked>>
    BY <1>11 DEF PurgeRemove, RemoveArchive, api, deploys
  <2> QED
    BY <2>1, <2>2, <2>3, PlacesRemoved
<1>12. CASE UNCHANGED vars
  BY <1>1, <1>12 DEF vars, dirs, trash, api, deploys
<1> QED
  BY <1>3, <1>4, <1>5, <1>6, <1>7, <1>8, <1>9, <1>10, <1>11, <1>12 DEF Next, AdminStep

LEMMA PInvHolds == Spec => []PInv
  BY CInvHolds, InitPInv, NextPInv, PTL DEF Spec

\* Every site directory that was ever made and no purge removed is in exactly one
\* place, at sites/<site> or in one archive, whatever overlaps, fails or dies.
THEOREM NoTreeLost == Spec => []TreesKept
<1>1. TypeOK /\ PInv => TreesKept
  <2> SUFFICES ASSUME TypeOK, PInv, NEW t \in made \ gone
               PROVE  \E p \in Archives \cup {"live"} : Places(t) = {p}
    BY DEF TreesKept
  <2>1. CASE site = t
    <3>1. Places(t) = {"live"}
      BY <2>1 DEF Places, PInv, OnePlace, TypeOK
    <3> QED
      BY <3>1
  <2>2. CASE site # t
    <3>1. PICK x \in Archives : boxed[x] = t
      BY <2>2 DEF PInv, Somewhere
    <3>2. Places(t) = {x}
      BY <2>2, <3>1 DEF Places, PInv, OnePlace, TypeOK
    <3> QED
      BY <3>2
  <2> QED
    BY <2>1, <2>2
<1> QED
  BY <1>1, CInvHolds, PInvHolds, PTL

(***************************************************************************)
(* One operation at a time                                                 *)
(*                                                                         *)
(* With operators, deploys and uploads that do not overlap and commands    *)
(* that do not die, every command leaves the three things that make a site *)
(* in step, and finds them so.                                             *)
(***************************************************************************)
DeployBusy(d) == dep[d] \notin {"idle", "ended"}
UploadBusy(f) == put[f] \in {"admitted", "written", "deleting"}

OneAtATime ==
    /\ \A a, b \in Admins : pc[a] # "idle" /\ pc[b] # "idle" => a = b
    /\ \A d, e \in Deploys : DeployBusy(d) /\ DeployBusy(e) => d = e
    /\ \A f, g \in Files : UploadBusy(f) /\ UploadBusy(g) => f = g
    /\ \A a \in Admins, d \in Deploys : pc[a] = "idle" \/ ~DeployBusy(d)
    /\ \A a \in Admins, f \in Files : pc[a] = "idle" \/ ~UploadBusy(f)
    /\ \A d \in Deploys, f \in Files : ~DeployBusy(d) \/ ~UploadBusy(f)

\* The catalog row and the uploads directory go with the site directory, and a directory
\* that is served has the row.
InStep ==
    /\ row => site # NoTree
    /\ site \in linked => row
    /\ site = NoTree => ~updir

\* What a deploy knows of the site, and what an upload does.
DeployAt(d) ==
    DeployBusy(d) => InStep /\ site # NoTree /\ (dep[d] \in {"prepared", "locked", "swapped"} => row)

UploadAt(f) ==
    /\ UploadBusy(f) => InStep
    /\ put[f] = "admitted" => site # NoTree
    /\ put[f] = "written" => f \in files

\* What an operator's command knows of the site at each of its steps.
CommandAt(a) ==
    /\ pc[a] \in {"archiving", "tidying", "purging"} => InStep
    /\ pc[a] \in {"archiving"} \cup Past => site # NoTree
    /\ pc[a] \in {"boxing", "sweeping", "unlisting", "moving"} => site = NoTree
    /\ pc[a] \in {"moving"} \cup (Past \ {"tidying"}) => ~row
    /\ pc[a] \in {"sweeping", "unlisting", "moving", "unboxing", "undoSite"} => ~updir
    /\ pc[a] \in {"recording", "undoUploads"} => a \in moved \/ ~updir
    /\ pc[a] \in Past \cup Filling => arch[a] \in there
    /\ pc[a] \in Filling => boxfiles[arch[a]] = {}

AllAt ==
    /\ Quiet => InStep
    /\ \A a \in Admins : CommandAt(a)
    /\ \A d \in Deploys : DeployAt(d)
    /\ \A f \in Files : UploadAt(f)

DirsHold ==
    /\ ~updir => files = {}
    /\ \A x \in Archives : boxed[x] # NoTree => x \in there

UInv == OneAtATime /\ AllAt /\ DirsHold /\ UploadsKept

\* Whoever takes a step is alone, before and after.
LEMMA AdminAlone ==
    ASSUME TypeOK, OneAtATime, AllAt, NEW a \in Admins, pc[a] # "idle" \/ Quiet,
           \A b \in Admins \ {a} : pc'[b] = pc[b], UNCHANGED <<dep, put>>,
           CommandAt(a)', pc'[a] = "idle" => InStep'
    PROVE  OneAtATime' /\ AllAt'
<1>1. /\ \A b \in Admins \ {a} : pc[b] = "idle" /\ pc'[b] = "idle"
      /\ \A d \in Deploys : ~DeployBusy(d) /\ ~DeployBusy(d)'
      /\ \A f \in Files : ~UploadBusy(f) /\ ~UploadBusy(f)'
  BY DEF OneAtATime, Quiet, DeployBusy, UploadBusy
<1>2. OneAtATime'
  BY <1>1 DEF OneAtATime
<1>3. \A b \in Admins : CommandAt(b)'
  <2> TAKE b \in Admins
  <2>1. CASE b = a
    BY <2>1
  <2>2. CASE b # a
    <3>1. pc'[b] = "idle"
      BY <1>1, <2>2
    <3> QED BY <3>1 DEF CommandAt, Past, Filling
  <2> QED BY <2>1, <2>2
<1>4. Quiet' => InStep'
  BY DEF Quiet
<1>5. /\ \A d \in Deploys : DeployAt(d)'
      /\ \A f \in Files : UploadAt(f)'
  BY <1>1 DEF DeployAt, UploadAt, UploadBusy
<1> QED BY <1>2, <1>3, <1>4, <1>5 DEF AllAt

LEMMA DeployAlone ==
    ASSUME TypeOK, OneAtATime, AllAt, NEW d \in Deploys, DeployBusy(d) \/ Quiet,
           \A e \in Deploys \ {d} : dep'[e] = dep[e], UNCHANGED <<pc, put>>,
           InStep', DeployAt(d)'
    PROVE  OneAtATime' /\ AllAt'
<1>1. /\ \A b \in Admins : pc[b] = "idle" /\ pc'[b] = "idle"
      /\ \A e \in Deploys \ {d} : ~DeployBusy(e) /\ ~DeployBusy(e)'
      /\ \A f \in Files : ~UploadBusy(f) /\ ~UploadBusy(f)'
  BY DEF OneAtATime, Quiet, DeployBusy, UploadBusy
<1>2. OneAtATime'
  BY <1>1 DEF OneAtATime
<1>3. \A b \in Admins : CommandAt(b)'
  BY <1>1 DEF CommandAt, Past, Filling
<1>4. /\ \A e \in Deploys : DeployAt(e)'
      /\ \A f \in Files : UploadAt(f)'
  BY <1>1 DEF DeployAt, UploadAt, UploadBusy
<1> QED BY <1>2, <1>3, <1>4 DEF AllAt

LEMMA UploadAlone ==
    ASSUME TypeOK, OneAtATime, AllAt, NEW f \in Files, UploadBusy(f) \/ Quiet,
           \A g \in Files \ {f} : put'[g] = put[g], UNCHANGED <<pc, dep>>,
           InStep', UploadAt(f)'
    PROVE  OneAtATime' /\ AllAt'
<1>1. /\ \A b \in Admins : pc[b] = "idle" /\ pc'[b] = "idle"
      /\ \A e \in Deploys : ~DeployBusy(e) /\ ~DeployBusy(e)'
      /\ \A g \in Files \ {f} : ~UploadBusy(g) /\ ~UploadBusy(g)'
  BY DEF OneAtATime, Quiet, DeployBusy, UploadBusy
<1>2. OneAtATime'
  BY <1>1 DEF OneAtATime
<1>3. \A b \in Admins : CommandAt(b)'
  BY <1>1 DEF CommandAt, Past, Filling
<1>4. /\ \A e \in Deploys : DeployAt(e)'
      /\ \A g \in Files : UploadAt(g)'
  BY <1>1 DEF DeployAt, UploadAt, UploadBusy
<1> QED BY <1>2, <1>3, <1>4 DEF AllAt

\* The steps of deploys and uploads.
LEMMA DeployKeeps ==
    ASSUME alone, TypeOK, PInv, UInv, NEW d \in Deploys, DeployMake(d) \/ DeployStep(d)
    PROVE  UInv'
<1> USE DEF UInv
<1>1. /\ \A e \in Deploys \ {d} : dep'[e] = dep[e]
      /\ DeployBusy(d) \/ Quiet
  BY DEF DeployMake, DeployStep, DeployStage, DeployRow, DeployLock, DeploySwap, DeployLate,
         DeployRecord, DeployFails, DeployGoto, DeployEnd, MayStart, DeployBusy, TypeOK
<1>2. InStep /\ (dep[d] \in {"prepared", "locked", "swapped"} => row)
  BY <1>1 DEF AllAt, DeployAt, DeployBusy
<1>3. site # NoTree \/ MakeSite
  BY <1>1 DEF DeployMake, AllAt, DeployAt, DeployStep, DeployStage, DeployRow, DeployLock, DeploySwap,
              DeployLate, DeployRecord, DeployFails, DeployBusy
<1>4. site' # NoTree /\ (site' = site \/ (site = NoTree /\ site' \notin made))
  BY <1>3, SiteMade, DeployTouches, TreeAssumption
<1>5. /\ row => row'
      /\ dep'[d] \in {"prepared", "locked", "swapped"} => row'
      /\ linked' = linked \/ (row /\ site' = site /\ linked' = linked \cup {site})
  BY <1>2 DEF DeployMake, DeployStep, DeployStage, DeployRow, DeployLock, DeploySwap, DeployLate,
              DeployRecord, DeployFails, DeployGoto, DeployEnd, TypeOK, dirs, catalog
<1>6. InStep'
  BY <1>2, <1>4, <1>5 DEF InStep, PInv, OnlyMade
<1>7. OneAtATime' /\ AllAt'
  BY <1>1, <1>4, <1>5, <1>6, DeployTouches, DeployAlone DEF DeployAt
<1>8. DirsHold' /\ UploadsKept'
  BY DeployTouches DEF DirsHold, UploadsKept, Stored
<1> QED BY <1>7, <1>8

LEMMA UploadKeeps ==
    ASSUME alone, TypeOK, UInv, NEW f \in Files, UploadAdmit(f) \/ UploadDelete(f) \/ UploadStep(f)
    PROVE  UInv'
<1> USE DEF UInv, TypeOK
<1>1. /\ UNCHANGED <<site, trash, gone, row, command, deploys, pc>>
      /\ \A g \in Files \ {f} : put'[g] = put[g]
      /\ \A g \in Files \ {f} : g \in files' <=> g \in files
      /\ UploadBusy(f) \/ Quiet
  BY DEF UploadAdmit, UploadWrite, UploadDelete, UploadStep, UploadInsert, UploadUnlink, dirs, catalog,
         command, MayStart, UploadBusy
<1>2. InStep
  BY <1>1 DEF AllAt, UploadAt
<1>3. InStep' /\ UploadAt(f)'
  <2>1. CASE UploadAdmit(f)
    <3>1. site # NoTree
      BY <2>1, TreeAssumption DEF UploadAdmit
    <3> QED BY <1>1, <1>2, <2>1, <3>1 DEF UploadAdmit, InStep, UploadAt, dirs, deploys
  <2>2. CASE UploadWrite(f)
    <3>1. site # NoTree
      BY <2>2 DEF UploadWrite, AllAt, UploadAt
    <3> QED BY <1>1, <1>2, <2>2, <3>1 DEF UploadWrite, InStep, UploadAt, deploys
  <2>3. CASE UploadDelete(f) \/ UploadInsert(f) \/ UploadUnlink(f)
    BY <1>1, <1>2, <2>3 DEF UploadDelete, UploadInsert, UploadUnlink, InStep, UploadAt, dirs, deploys
  <2> QED BY <2>1, <2>2, <2>3 DEF UploadStep
<1>4. OneAtATime' /\ AllAt'
  BY <1>1, <1>3, UploadAlone DEF deploys
<1>5. DirsHold'
  BY <1>1 DEF DirsHold, UploadAdmit, UploadWrite, UploadDelete, UploadStep, UploadInsert, UploadUnlink,
              dirs, trash
<1>6. UploadsKept'
  <2>1. boxfiles' = boxfiles
    BY <1>1 DEF trash
  <2>2. put'[f] = "kept" => f \in files'
    BY DEF UploadAdmit, UploadWrite, UploadDelete, UploadStep, UploadInsert, UploadUnlink, dirs, AllAt,
           UploadAt
  <2> QED BY <1>1, <2>1, <2>2 DEF UploadsKept, Stored, trash
<1> QED BY <1>4, <1>5, <1>6

\* The steps of delete, restore and purge, one after the other: what the command finds, what
\* it leaves, and where the uploads are.
LEMMA CommandKeeps ==
    ASSUME alone, TypeOK, CInv, UInv, NEW a \in Admins,
           \/ DeleteLook(a) \/ AdminStep(a)
           \/ \E x \in Archives : RestoreLook(a, x) \/ PurgeOpen(a, x)
    PROVE  UInv'
<1> USE DEF UInv, TypeOK
<1>1. /\ \A b \in Admins \ {a} : pc'[b] = pc[b]
      /\ UNCHANGED <<dep, linked, put>>
      /\ pc[a] # "idle" \/ Quiet
  BY DEF DeleteLook, AdminStep, RestoreLook, PurgeOpen, DeleteSiteDir, DeleteUploads, DeleteSweep,
         DeleteRow, RestoreMove, RestoreUploads, RestoreRecord, UndoUploads, UndoSite, RestoreTidy,
         PurgeRemove, AdminGoto, AdminEnd, api, deploys, MayStart
<1> DEFINE Goal == CommandAt(a)' /\ (pc'[a] = "idle" => InStep') /\ DirsHold' /\ UploadsKept'
<1>2. SUFFICES Goal
  BY <1>1, AdminAlone
<1>3. /\ CommandAt(a)
      /\ Quiet => InStep
      /\ pc[a] \notin Away => arch[a] \in Archives
      /\ pc[a] \in FilesOut => boxfiles[arch[a]] = {}
      /\ pc[a] \in SiteOut => boxed[arch[a]] = NoTree
      /\ \A y \in Archives \ boxdir : boxfiles[y] = {}
  BY NamedReal DEF AllAt, CInv, UploadsTakenOut, SiteTakenOut, NoDirNoFiles, ArchivesReal
<1> USE DEF CommandAt, InStep, DirsHold, Past, Filling, Away, SiteOut, FilesOut
<1>4. CASE DeleteLook(a)
  <2>1. InStep /\ UNCHANGED <<site, updir, files, boxed, boxdir, boxfiles, gone, row, rows, moved, put>>
    BY <1>1, <1>3, <1>4 DEF DeleteLook, catalog, MayStart, api
  <2>2. CASE site # NoTree
    <3>1. PICK y \in Archives \ used :
             there' = there \cup {y} /\ pc'[a] = "archiving" /\ arch'[a] = y
      BY <1>4, <2>2 DEF DeleteLook
    <3>2. boxfiles[y] = {}
      BY <3>1 DEF CInv, FreshEmpty
    <3> QED BY <1>1, <2>1, <2>2, <3>1, <3>2 DEF UploadsKept, Stored
  <2>3. CASE site = NoTree
    <3>1. pc'[a] = "sweeping" /\ there' = there
      BY <1>4, <2>3 DEF DeleteLook
    <3> QED BY <2>1, <2>3, <3>1 DEF UploadsKept, Stored
  <2> QED BY <2>2, <2>3
<1>5. CASE DeleteSiteDir(a)
  <2>1. site # NoTree /\ arch[a] \in Archives
    BY <1>3, <1>5 DEF DeleteSiteDir
  <2>2. /\ pc[a] = "archiving" /\ pc'[a] = "boxing" /\ site' = NoTree
        /\ boxed' = [boxed EXCEPT ![arch[a]] = site]
        /\ UNCHANGED <<arch, updir, files, there, boxfiles, gone, row, moved, put>>
    BY <1>5, <2>1 DEF DeleteSiteDir, AdminGoto, catalog, api
  <2>3. arch[a] \in there
    BY <1>3, <2>2
  <2> QED BY <1>3, <2>1, <2>2, <2>3 DEF UploadsKept, Stored
<1>6. CASE DeleteUploads(a)
  <2>1. /\ pc[a] = "boxing" /\ pc'[a] = "unlisting" /\ arch[a] \in Archives
        /\ UNCHANGED <<arch, site, there, boxed, gone, row, moved, put>>
    BY <1>3, <1>6 DEF DeleteUploads, AdminGoto, catalog, api
  <2>2. ~updir' /\ files' = {}
    BY <1>6 DEF DeleteUploads
  <2>3. boxfiles[arch[a]] = {} /\ \A y \in Archives : boxfiles'[y] = IF y = arch[a] THEN files ELSE boxfiles[y]
    BY <1>3, <1>6, <2>1 DEF DeleteUploads
  <2>4. UploadsKept'
    BY <2>1, <2>2, <2>3 DEF UploadsKept, Stored
  <2> QED BY <1>3, <2>1, <2>2, <2>4
<1>7. CASE DeleteSweep(a)
  <2>1. /\ pc[a] = "sweeping" /\ pc'[a] = "unlisting"
        /\ ~updir' /\ files' = {}
        /\ UNCHANGED <<arch, site, boxed, there, boxfiles, gone, row, moved, put>>
    BY <1>7 DEF DeleteSweep, AdminGoto, catalog, trash, api
  <2>2. files = {}
    BY <1>3, <2>1
  <2> QED BY <1>3, <2>1, <2>2 DEF UploadsKept, Stored
<1>8. CASE DeleteRow(a)
  <2>1. /\ pc[a] = "unlisting" /\ pc'[a] = "idle" /\ ~row'
        /\ UNCHANGED <<site, updir, files, boxed, there, boxfiles, gone, put>>
    BY <1>8 DEF DeleteRow, AdminEnd, dirs, trash, api
  <2> QED BY <1>1, <1>3, <2>1, TreeAssumption DEF UploadsKept, Stored
<1>9. ASSUME NEW x \in Archives, RestoreLook(a, x) PROVE Goal
  <2>1. /\ pc'[a] = "moving" /\ site = NoTree /\ InStep
        /\ UNCHANGED <<site, updir, files, boxed, there, boxfiles, gone, row, moved, put>>
    BY <1>1, <1>3, <1>9 DEF RestoreLook, dirs, trash, catalog, api, MayStart
  <2> QED BY <2>1 DEF UploadsKept, Stored
<1>10. CASE RestoreMove(a)
  <2>1. /\ pc[a] = "moving" /\ arch[a] \in Archives
        /\ UNCHANGED <<updir, files, there, boxfiles, gone, row, put>>
    BY <1>3, <1>10 DEF RestoreMove, catalog, api
  <2>2. CASE boxed[arch[a]] # NoTree
    <3>1. /\ pc'[a] = "unboxing" /\ site' = boxed[arch[a]] /\ UNCHANGED <<arch, moved>>
          /\ boxed' = [boxed EXCEPT ![arch[a]] = NoTree]
      BY <1>3, <1>10, <2>1, <2>2 DEF RestoreMove, AdminGoto
    <3> QED BY <1>3, <2>1, <2>2, <3>1 DEF UploadsKept, Stored
  <2>3. CASE boxed[arch[a]] = NoTree
    <3>1. pc'[a] = "idle" /\ UNCHANGED <<site, boxed>>
      BY <1>10, <2>3 DEF RestoreMove, AdminEnd
    <3> QED BY <1>1, <1>3, <2>1, <3>1, TreeAssumption DEF UploadsKept, Stored
  <2> QED BY <2>2, <2>3
<1>11. CASE RestoreUploads(a)
  <2>1. /\ pc[a] = "unboxing" /\ arch[a] \in Archives /\ ~updir /\ files = {}
        /\ UNCHANGED <<arch, site, there, boxed, gone, row, put>>
    BY <1>3, <1>11 DEF RestoreUploads, AdminGoto, catalog, api
  <2>2. CASE arch[a] \in boxdir
    <3>1. /\ updir' /\ files' = boxfiles[arch[a]]
          /\ boxfiles' = [boxfiles EXCEPT ![arch[a]] = {}]
          /\ pc'[a] = "recording" /\ moved' = moved \cup {a}
      BY <1>11, <2>1, <2>2 DEF RestoreUploads
    <3>2. UploadsKept'
      BY <2>1, <3>1 DEF UploadsKept, Stored
    <3> QED BY <1>3, <2>1, <3>1, <3>2
  <2>3. CASE arch[a] \notin boxdir
    <3>1. pc'[a] = "recording" /\ UNCHANGED <<updir, files, boxfiles, moved>>
      BY <1>11, <2>3 DEF RestoreUploads, AdminGoto
    <3> QED BY <1>3, <2>1, <3>1 DEF UploadsKept, Stored
  <2> QED BY <2>2, <2>3
<1>12. CASE RestoreRecord(a)
  <2>1. /\ pc[a] = "recording"
        /\ UNCHANGED <<arch, moved, site, updir, files, boxed, there, boxfiles, gone, put>>
        /\ (pc'[a] = "tidying" /\ row') \/ (pc'[a] = "undoUploads" /\ row' = row)
    BY <1>12 DEF RestoreRecord, AdminGoto, dirs, trash, api
  <2> QED BY <1>3, <2>1 DEF UploadsKept, Stored
<1>13. CASE UndoUploads(a)
  <2>1. /\ pc[a] = "undoUploads" /\ pc'[a] = "undoSite" /\ arch[a] \in Archives /\ arch[a] \in there
        /\ UNCHANGED <<arch, moved, site, there, boxed, gone, row, put>>
    BY <1>3, <1>13 DEF UndoUploads, AdminGoto, catalog, api
  <2>2. CASE updir
    <3>1. /\ ~updir' /\ files' = {}
          /\ boxfiles' = [boxfiles EXCEPT ![arch[a]] = files]
      BY <1>3, <1>13, <2>1, <2>2 DEF UndoUploads
    <3>2. boxfiles[arch[a]] = {}
      BY <1>3, <2>1
    <3>3. UploadsKept'
      BY <2>1, <3>1, <3>2 DEF UploadsKept, Stored
    <3> QED BY <1>3, <2>1, <3>1, <3>3
  <2>3. CASE ~updir
    <3>1. UNCHANGED <<updir, files, boxfiles>>
      BY <1>13, <2>3 DEF UndoUploads
    <3> QED BY <1>3, <2>1, <2>3, <3>1 DEF UploadsKept, Stored
  <2> QED BY <2>2, <2>3
<1>14. CASE UndoSite(a)
  <2>1. /\ pc[a] = "undoSite" /\ pc'[a] = "idle" /\ arch[a] \in Archives /\ arch[a] \in there
        /\ UNCHANGED <<updir, files, there, boxfiles, gone, row, put>>
    BY <1>3, <1>14 DEF UndoSite, AdminEnd, catalog, api
  <2>2. site' = NoTree /\ boxed' = [boxed EXCEPT ![arch[a]] = site]
    BY <1>3, <1>14, <2>1 DEF UndoSite
  <2> QED BY <1>1, <1>3, <2>1, <2>2, TreeAssumption DEF UploadsKept, Stored
<1>15. CASE RestoreTidy(a)
  <2>1. /\ pc[a] = "tidying" /\ pc'[a] = "idle" /\ arch[a] \in Archives
        /\ there' = there \ {arch[a]} /\ boxed' = [boxed EXCEPT ![arch[a]] = NoTree]
        /\ boxfiles' = [boxfiles EXCEPT ![arch[a]] = {}]
        /\ UNCHANGED <<site, updir, files, gone, row, put>>
    BY <1>3, <1>15 DEF RestoreTidy, RemoveArchive, AdminEnd, catalog, api
  <2>2. boxfiles[arch[a]] = {}
    BY <1>3, <2>1
  <2>3. UploadsKept'
    BY <2>1, <2>2 DEF UploadsKept, Stored
  <2> QED BY <1>1, <1>3, <2>1, <2>3
<1>16. ASSUME NEW x \in Archives, PurgeOpen(a, x) PROVE Goal
  <2>1. /\ pc'[a] = "purging" /\ InStep
        /\ UNCHANGED <<site, updir, files, boxed, there, boxfiles, gone, row, put>>
    BY <1>1, <1>3, <1>16 DEF PurgeOpen, dirs, trash, catalog, api, MayStart
  <2> QED BY <1>1, <2>1 DEF UploadsKept, Stored
<1>17. CASE PurgeRemove(a)
  <2>1. /\ pc[a] = "purging" /\ pc'[a] = "idle" /\ arch[a] \in Archives
        /\ there' = there \ {arch[a]} /\ boxed' = [boxed EXCEPT ![arch[a]] = NoTree]
        /\ UNCHANGED <<site, updir, row, put>>
    BY <1>3, <1>17 DEF PurgeRemove, RemoveArchive, AdminEnd, catalog, api
  <2>2. /\ files' = files \ heldFiles[a]
        /\ \A y \in Archives :
               boxfiles'[y] = IF y = arch[a] THEN {} ELSE boxfiles[y] \ heldFiles[a]
        /\ gone \cup heldFiles[a] \cup boxfiles[arch[a]] \subseteq gone'
    BY <1>17 DEF PurgeRemove
  <2>3. UploadsKept'
    <3> SUFFICES ASSUME NEW f \in Files, f \notin gone', put[f] = "kept"
                 PROVE  f \in files' \/ \E y \in Archives : f \in boxfiles'[y]
      BY <2>1 DEF UploadsKept, Stored
    <3>1. f \notin gone /\ f \notin heldFiles[a] /\ f \notin boxfiles[arch[a]]
      BY <2>2
    <3>2. f \in files \/ \E y \in Archives : f \in boxfiles[y]
      BY <3>1 DEF UploadsKept, Stored
    <3> QED BY <2>2, <3>1, <3>2
  <2>4. DirsHold'
    BY <2>1, <2>2
  <2> QED BY <1>1, <1>3, <2>1, <2>3, <2>4
<1> QED BY <1>4, <1>5, <1>6, <1>7, <1>8, <1>9, <1>10, <1>11, <1>12, <1>13, <1>14, <1>15, <1>16, <1>17
        DEF AdminStep

LEMMA NextUInv ==
    ASSUME alone, TypeOK, CInv, PInv, UInv, [Next]_vars
    PROVE  UInv'
<1>1. ASSUME NEW d \in Deploys, DeployMake(d) \/ DeployStep(d) PROVE UInv'
  BY <1>1, DeployKeeps
<1>2. ASSUME NEW f \in Files, UploadAdmit(f) \/ UploadDelete(f) \/ UploadStep(f) PROVE UInv'
  BY <1>2, UploadKeeps
<1>3. ASSUME NEW a \in Admins, DeleteLook(a) \/ AdminStep(a) PROVE UInv'
  BY <1>3, CommandKeeps
<1>4. ASSUME NEW a \in Admins, NEW x \in Archives, RestoreLook(a, x) \/ PurgeOpen(a, x) PROVE UInv'
  BY <1>4, CommandKeeps
<1>5. ASSUME NEW a \in Admins, Die(a) PROVE UInv'
  BY <1>5 DEF Die
<1>6. CASE UNCHANGED vars
  BY <1>6 DEF vars, dirs, trash, catalog, command, api, deploys, DeployAt, UploadAt, UInv, OneAtATime, AllAt, DirsHold,
              UploadsKept, Stored, CommandAt, InStep, Quiet, DeployBusy, UploadBusy
<1> QED BY <1>1, <1>2, <1>3, <1>4, <1>5, <1>6 DEF Next

LEMMA InitUInv == Init => UInv
<1> SUFFICES ASSUME Init PROVE UInv
  OBVIOUS
<1>1. /\ \A a \in Admins : pc[a] = "idle"
      /\ \A d \in Deploys : ~DeployBusy(d)
      /\ \A f \in Files : put[f] = "idle" /\ ~UploadBusy(f)
  BY DEF Init, DeployBusy, UploadBusy
<1>2. OneAtATime
  BY <1>1 DEF OneAtATime
<1>3. AllAt
  BY <1>1, TreeAssumption DEF Init, AllAt, InStep, CommandAt, DeployAt, UploadAt, Past, Filling
<1>4. DirsHold /\ UploadsKept
  BY <1>1 DEF Init, DirsHold, UploadsKept, Stored
<1> QED BY <1>2, <1>3, <1>4 DEF UInv

\* What holds of a history in which operations do not overlap and commands run to their end.
Serial == alone => UInv

LEMMA SerialHolds == Spec => []Serial
<1>1. Init => Serial
  BY InitUInv DEF Serial
<1>2. TypeOK /\ CInv /\ PInv /\ Serial /\ [Next]_vars => Serial'
  <2> SUFFICES ASSUME TypeOK, CInv, PInv, Serial, [Next]_vars, alone'
               PROVE  UInv'
    BY DEF Serial
  <2>1. alone
    BY DEF Next, vars
  <2> QED BY <2>1, NextUInv DEF Serial
<1> QED BY <1>1, <1>2, CInvHolds, PInvHolds, PTL DEF Spec

\* Deletes, restores and purges that run one at a time and to their end never lose an
\* upload that was answered, whatever a restore finds in its way or fails to record.
THEOREM SerialUploadsKept == Spec => []UploadsKept
<1>1. Serial => UploadsKept
  BY DEF Serial, UInv, UploadsKept, Stored
<1> QED BY <1>1, SerialHolds, PTL

\* And whenever none of them is under way, deploys that failed half way among them: a site
\* that the catalog lists has its directory, and a directory that is served is listed.
THEOREM SerialCatalogAgrees == Spec => []CatalogAgrees
<1>1. Serial => CatalogAgrees
  BY DEF Serial, UInv, AllAt, InStep, CatalogAgrees
<1> QED BY <1>1, SerialHolds, PTL

(***************************************************************************)
(* Uploads on disk, whatever overlaps, fails or dies.  The directory a     *)
(* command moves the uploads to is empty: the archive of a delete until    *)
(* that delete fills it, and uploads/<site> while it does not exist.       *)
(***************************************************************************)
UnboxedEmpty == ~updir => files = {}

FillingEmpty == \A a \in Admins : pc[a] \in Filling => boxfiles[arch[a]] = {}

EInv == UnboxedEmpty /\ FillingEmpty

\* A step that puts no uploads into an archive, and starts to fill none.
LEMMA FillingStays ==
    ASSUME TypeOK, CInv, EInv, NEW a \in Admins,
           \A b \in Admins \ {a} : pc'[b] = pc[b] /\ arch'[b] = arch[b],
           pc'[a] \in Filling => pc[a] \in Filling /\ arch'[a] = arch[a],
           \A x \in Archives : boxfiles'[x] \subseteq boxfiles[x]
    PROVE  FillingEmpty'
<1> SUFFICES ASSUME NEW b \in Admins, pc'[b] \in Filling PROVE boxfiles'[arch'[b]] = {}
  BY DEF FillingEmpty
<1>1. pc[b] \in Filling /\ arch'[b] = arch[b]
  OBVIOUS
<1>2. boxfiles[arch[b]] = {} /\ arch[b] \in Archives
  BY <1>1, Classes, NamedReal DEF EInv, FillingEmpty, ArchivesReal
<1> QED BY <1>1, <1>2

\* A command that has done with filling puts the uploads into its own archive: no other
\* command fills that one.
LEMMA FillingOthers ==
    ASSUME TypeOK, CInv, EInv, NEW a \in Admins, pc[a] \notin Away, pc'[a] \notin Filling,
           \A b \in Admins \ {a} : pc'[b] = pc[b] /\ arch'[b] = arch[b],
           \A x \in Archives \ {arch[a]} : boxfiles'[x] = boxfiles[x]
    PROVE  FillingEmpty'
<1> SUFFICES ASSUME NEW b \in Admins, pc'[b] \in Filling PROVE boxfiles'[arch'[b]] = {}
  BY DEF FillingEmpty
<1>1. b # a /\ pc[b] \in Filling /\ arch'[b] = arch[b]
  OBVIOUS
<1>2. arch[b] \in Archives /\ arch[b] # arch[a]
  BY <1>1, Classes, NamedReal DEF ArchivesReal, CInv, FillsAlone
<1> QED BY <1>1, <1>2 DEF EInv, FillingEmpty

LEMMA NextEInv == TypeOK /\ CInv /\ EInv /\ [Next]_vars => EInv'
<1> SUFFICES ASSUME TypeOK, CInv, EInv, [Next]_vars PROVE EInv'
  OBVIOUS
<1> USE DEF Filling
<1>1. ASSUME UNCHANGED <<command, boxfiles>> PROVE FillingEmpty'
  BY <1>1 DEF command, EInv, FillingEmpty
<1>2. ASSUME NEW d \in Deploys, DeployMake(d) \/ DeployStep(d) PROVE EInv'
  BY <1>1, <1>2, DeployTouches DEF command, EInv, UnboxedEmpty
<1>3. ASSUME NEW f \in Files, UploadAdmit(f) \/ UploadDelete(f) \/ UploadStep(f) PROVE EInv'
  BY <1>1, <1>3 DEF UploadAdmit, UploadWrite, UploadDelete, UploadStep, UploadInsert, UploadUnlink, dirs, trash,
                    EInv, UnboxedEmpty
<1>4. ASSUME NEW a \in Admins, DeleteLook(a) PROVE EInv'
  <2>1. UnboxedEmpty'
    BY <1>4 DEF DeleteLook, EInv, UnboxedEmpty
  <2>2. CASE site = NoTree
    <3>1. /\ pc'[a] = "sweeping" /\ UNCHANGED boxfiles
          /\ \A b \in Admins \ {a} : pc'[b] = pc[b] /\ arch'[b] = arch[b]
      BY <1>4, <2>2 DEF DeleteLook, TypeOK
    <3> QED BY <2>1, <3>1, FillingStays DEF EInv
  <2>3. CASE site # NoTree
    <3>1. PICK x \in Archives \ used :
              pc' = [pc EXCEPT ![a] = "archiving"] /\ arch' = [arch EXCEPT ![a] = x]
      BY <1>4, <2>3 DEF DeleteLook
    <3>2. boxfiles[x] = {} /\ UNCHANGED boxfiles
      BY <1>4 DEF DeleteLook, CInv, FreshEmpty
    <3> QED BY <2>1, <3>1, <3>2 DEF TypeOK, EInv, FillingEmpty
  <2> QED BY <2>2, <2>3
<1>5. ASSUME NEW a \in Admins, DeleteSiteDir(a) PROVE EInv'
  <2>1. /\ \A b \in Admins \ {a} : pc'[b] = pc[b] /\ arch'[b] = arch[b]
        /\ pc'[a] \in Filling => pc[a] \in Filling /\ arch'[a] = arch[a]
        /\ UNCHANGED <<updir, files, boxfiles>>
    BY <1>5 DEF DeleteSiteDir, AdminEnd, AdminGoto, TypeOK
  <2> QED BY <2>1, FillingStays DEF EInv, UnboxedEmpty
<1>6. ASSUME NEW a \in Admins, DeleteUploads(a) PROVE EInv'
  <2>1. /\ \A b \in Admins \ {a} : pc'[b] = pc[b] /\ arch'[b] = arch[b]
        /\ pc[a] \notin Away /\ pc'[a] \notin Filling
        /\ \A x \in Archives \ {arch[a]} : boxfiles'[x] = boxfiles[x]
    BY <1>6 DEF DeleteUploads, AdminGoto, TypeOK, Away
  <2>2. UnboxedEmpty'
    BY <1>6 DEF DeleteUploads, EInv, UnboxedEmpty
  <2> QED BY <2>1, <2>2, FillingOthers DEF EInv
<1>7. ASSUME NEW a \in Admins, DeleteSweep(a) \/ DeleteRow(a) \/ RestoreRecord(a) \/ Die(a) PROVE EInv'
  <2>1. /\ \A b \in Admins \ {a} : pc'[b] = pc[b] /\ arch'[b] = arch[b]
        /\ pc'[a] \notin Filling
        /\ UNCHANGED boxfiles
    BY <1>7 DEF DeleteSweep, DeleteRow, RestoreRecord, Die, AdminEnd, AdminGoto, dirs, trash, TypeOK
  <2>2. UnboxedEmpty'
    BY <1>7 DEF DeleteSweep, DeleteRow, RestoreRecord, Die, dirs, EInv, UnboxedEmpty
  <2> QED BY <2>1, <2>2, FillingStays DEF EInv
<1>8. ASSUME NEW a \in Admins, RestoreMove(a) \/ UndoSite(a) \/ RestoreTidy(a) PROVE EInv'
  <2>1. /\ \A b \in Admins \ {a} : pc'[b] = pc[b] /\ arch'[b] = arch[b]
        /\ pc'[a] \notin Filling
        /\ \A x \in Archives : boxfiles'[x] \subseteq boxfiles[x]
    BY <1>8 DEF RestoreMove, UndoSite, RestoreTidy, AdminEnd, AdminGoto, TypeOK
  <2>2. UnboxedEmpty'
    BY <1>8 DEF RestoreMove, UndoSite, RestoreTidy, EInv, UnboxedEmpty
  <2> QED BY <2>1, <2>2, FillingStays DEF EInv
<1>9. ASSUME NEW a \in Admins, RestoreUploads(a) PROVE EInv'
  <2>1. /\ \A b \in Admins \ {a} : pc'[b] = pc[b] /\ arch'[b] = arch[b]
        /\ pc'[a] \notin Filling
        /\ \A x \in Archives : boxfiles'[x] \subseteq boxfiles[x]
    BY <1>9 DEF RestoreUploads, AdminGoto, TypeOK
  <2>2. UnboxedEmpty'
    BY <1>9 DEF RestoreUploads, EInv, UnboxedEmpty
  <2> QED BY <2>1, <2>2, FillingStays DEF EInv
<1>10. ASSUME NEW a \in Admins, UndoUploads(a) PROVE EInv'
  <2>1. /\ \A b \in Admins \ {a} : pc'[b] = pc[b] /\ arch'[b] = arch[b]
        /\ pc[a] \notin Away /\ pc'[a] \notin Filling
        /\ \A x \in Archives \ {arch[a]} : boxfiles'[x] = boxfiles[x]
    BY <1>10 DEF UndoUploads, AdminGoto, TypeOK, Away
  <2>2. UnboxedEmpty'
    BY <1>10 DEF UndoUploads, EInv, UnboxedEmpty
  <2> QED BY <2>1, <2>2, FillingOthers DEF EInv
<1>11. ASSUME NEW a \in Admins, NEW x \in Archives, RestoreLook(a, x) \/ PurgeOpen(a, x) PROVE EInv'
  <2>1. /\ \A b \in Admins \ {a} : pc'[b] = pc[b] /\ arch'[b] = arch[b]
        /\ pc'[a] \notin Filling
        /\ UNCHANGED <<updir, files, boxfiles>>
    BY <1>11 DEF RestoreLook, PurgeOpen, dirs, trash, TypeOK
  <2> QED BY <2>1, FillingStays DEF EInv, UnboxedEmpty
<1>12. ASSUME NEW a \in Admins, PurgeRemove(a) PROVE EInv'
  <2>1. /\ \A b \in Admins \ {a} : pc'[b] = pc[b] /\ arch'[b] = arch[b]
        /\ pc'[a] \notin Filling
        /\ \A x \in Archives : boxfiles'[x] \subseteq boxfiles[x]
    BY <1>12 DEF PurgeRemove, AdminEnd, TypeOK
  <2>2. UnboxedEmpty'
    BY <1>12 DEF PurgeRemove, EInv, UnboxedEmpty
  <2> QED BY <2>1, <2>2, FillingStays DEF EInv
<1>13. CASE UNCHANGED vars
  BY <1>13, <1>1 DEF vars, dirs, trash, EInv, UnboxedEmpty
<1> QED BY <1>2, <1>3, <1>4, <1>5, <1>6, <1>7, <1>8, <1>9, <1>10, <1>11, <1>12, <1>13
        DEF Next, AdminStep

\* What a step may do to an upload that was answered and is on disk.
Lost(f) == put[f] = "kept" /\ Stored(f) /\ ~Stored(f)'

LEMMA KeptStays ==
    ASSUME TypeOK, CInv, EInv, [Next]_vars, NEW f \in Files, Lost(f)
    PROVE  f \in gone' \/ \E a \in Admins : DeleteSweep(a)
<1> USE DEF Lost
<1>1. ASSUME files \subseteq files', \A x \in Archives : boxfiles[x] \subseteq boxfiles'[x] PROVE FALSE
  BY <1>1 DEF Stored
<1>2. ASSUME NEW d \in Deploys, DeployMake(d) \/ DeployStep(d) PROVE FALSE
  BY <1>1, <1>2, DeployTouches
<1>3. ASSUME NEW g \in Files, UploadAdmit(g) \/ UploadDelete(g) \/ UploadStep(g) PROVE FALSE
  <2>1. UNCHANGED boxfiles
    BY <1>3 DEF UploadAdmit, UploadWrite, UploadDelete, UploadStep, UploadInsert, UploadUnlink, dirs, trash
  <2>2. f \in files => f \in files'
    BY <1>3 DEF UploadAdmit, UploadWrite, UploadDelete, UploadStep, UploadInsert, UploadUnlink, dirs
  <2> QED BY <2>1, <2>2 DEF Stored
<1>4. ASSUME NEW a \in Admins, \/ DeleteLook(a) \/ DeleteSiteDir(a) \/ DeleteRow(a) \/ RestoreMove(a)
                               \/ RestoreRecord(a) \/ UndoSite(a) \/ Die(a)
      PROVE  FALSE
  BY <1>1, <1>4 DEF DeleteLook, DeleteSiteDir, DeleteRow, RestoreMove, RestoreRecord, UndoSite, Die,
                    dirs, trash
<1>5. ASSUME NEW a \in Admins, DeleteUploads(a) PROVE FALSE
  <2>1. boxfiles[arch[a]] = {} /\ arch[a] \in Archives
    BY <1>5, NamedReal DEF DeleteUploads, Filling, Away, EInv, FillingEmpty, ArchivesReal
  <2>2. CASE updir
    <3>1. boxfiles' = [boxfiles EXCEPT ![arch[a]] = files]
      BY <1>5, <2>2 DEF DeleteUploads
    <3> QED BY <2>1, <3>1 DEF Stored, TypeOK
  <2>3. CASE ~updir
    BY <1>1, <1>5, <2>3 DEF DeleteUploads
  <2> QED BY <2>2, <2>3
<1>6. ASSUME NEW a \in Admins, RestoreUploads(a) PROVE FALSE
  <2>1. CASE arch[a] \in boxdir /\ ~updir
    <3>1. files' = boxfiles[arch[a]] /\ boxfiles' = [boxfiles EXCEPT ![arch[a]] = {}]
      BY <1>6, <2>1 DEF RestoreUploads
    <3>2. files = {}
      BY <2>1 DEF EInv, UnboxedEmpty
    <3> QED BY <3>1, <3>2 DEF Stored, TypeOK
  <2>2. CASE ~(arch[a] \in boxdir /\ ~updir)
    BY <1>1, <1>6, <2>2 DEF RestoreUploads
  <2> QED BY <2>1, <2>2
<1>7. ASSUME NEW a \in Admins, UndoUploads(a) PROVE FALSE
  <2>1. boxfiles[arch[a]] = {} /\ arch[a] \in Archives
    BY <1>7, NamedReal DEF UndoUploads, CInv, UploadsTakenOut, FilesOut, Away, ArchivesReal
  <2>2. CASE a \in moved /\ updir /\ arch[a] \in there
    <3>1. boxfiles' = [boxfiles EXCEPT ![arch[a]] = files]
      BY <1>7, <2>2 DEF UndoUploads
    <3> QED BY <2>1, <3>1 DEF Stored, TypeOK
  <2>3. CASE ~(a \in moved /\ updir /\ arch[a] \in there)
    BY <1>1, <1>7, <2>3 DEF UndoUploads
  <2> QED BY <2>2, <2>3
<1>8. ASSUME NEW a \in Admins, RestoreTidy(a) PROVE FALSE
  <2>1. boxfiles[arch[a]] = {}
    BY <1>8 DEF RestoreTidy, CInv, UploadsTakenOut, FilesOut
  <2>2. UNCHANGED files /\ boxfiles' = [boxfiles EXCEPT ![arch[a]] = {}]
    BY <1>8 DEF RestoreTidy
  <2> QED BY <2>1, <2>2 DEF Stored, TypeOK
<1>9. ASSUME NEW a \in Admins, NEW x \in Archives, RestoreLook(a, x) \/ PurgeOpen(a, x) PROVE FALSE
  BY <1>1, <1>9 DEF RestoreLook, PurgeOpen, dirs, trash
<1>10. ASSUME NEW a \in Admins, PurgeRemove(a) PROVE f \in gone'
  <2>1. /\ files' = files \ heldFiles[a]
        /\ \A x \in Archives :
               boxfiles'[x] = IF x = arch[a] THEN {} ELSE boxfiles[x] \ heldFiles[a]
        /\ heldFiles[a] \cup boxfiles[arch[a]] \subseteq gone'
    BY <1>10 DEF PurgeRemove
  <2> QED BY <2>1 DEF Stored
<1>11. CASE UNCHANGED vars
  BY <1>1, <1>11 DEF vars, dirs, trash
<1> QED BY <1>2, <1>3, <1>4, <1>5, <1>6, <1>7, <1>8, <1>9, <1>10, <1>11 DEF Next, AdminStep

\* Whatever overlaps, fails or dies, an upload that was answered leaves the disk only when
\* it is purged, or by a delete that found no site directory.
THEOREM OnlySweepLosesUploads == Spec => OnlySweepLoses
<1> DEFINE Stays == \A f \in Files :
               put[f] = "kept" /\ Stored(f) =>
                   Stored(f)' \/ f \in gone' \/ \E a \in Admins : DeleteSweep(a)
<1>1. Init => EInv
  BY DEF Init, EInv, UnboxedEmpty, FillingEmpty, Filling
<1>2. TypeOK /\ CInv /\ EInv /\ [Next]_vars => [Stays]_vars
  BY KeptStays DEF Lost
<1> QED BY <1>1, <1>2, CInvHolds, NextEInv, PTL DEF Spec, OnlySweepLoses
================================================================================
