-------------------------- MODULE ServeInstallProofs --------------------------
(***************************************************************************)
(* That the host can always be put back: as long as it differs from what   *)
(* it was there is a complete backup, and an install that did not complete *)
(* restored the files or says that it could not.                           *)
(*                                                                         *)
(* The argument turns on mutation_started.  Until it is set nothing but    *)
(* the temporary directory has changed (Untouched); from then on the       *)
(* backup is complete and nothing writes to it any more (BackedUp).  The   *)
(* rollback script restores one file after the other (RestoredSoFar).      *)
(*                                                                         *)
(* And what the two ends of the install leave behind: each command that    *)
(* succeeds brings the host one step further (NewAt, Forward), and each    *)
(* step of the rollback script brings the service one step back            *)
(* (ServiceSoFar), although the service may fall over and be started       *)
(* again by systemd between any two of them.                               *)
(***************************************************************************)
EXTENDS ServeInstall, TLAPS

Unchanged == files = was.files /\ enabled = was.enabled

BackedUp ==
    tmp /\ saved.file = was.files /\ (was.files["unit"] # "absent" => saved.enabled = was.enabled)

Before == {"probe", "mktemp", "backup"}

\* Where the client may be while mutation_started is not set, and after.
Phases ==
    /\ pc \in Before \cup {"cleanup"} => ~result.mutation_started
    /\ pc \in (Commands \ (Before \cup {"accounts"})) \cup {"done", "rollback"} =>
           result.mutation_started
    /\ pc = "accounts" => BackedUp /\ ~result.mutation_started
    /\ script # "none" => result.mutation_started
    /\ pc \in Steps => late = {}

\* What may still be running.
LateOnes ==
    /\ late \subseteq detached
    /\ ~result.mutation_started => late \subseteq {"mktemp", "backup", "accounts"}
    /\ result.mutation_started => late \cap {"mktemp", "backup"} = {}

Sides ==
    /\ ~result.mutation_started => Unchanged
    /\ result.mutation_started => BackedUp

BInv == TypeOK /\ Phases /\ LateOnes /\ Sides

\* The files a detached command may write.
Loose == {f \in Files : \E s \in detached \cap DOMAIN Target : Target[s] = f}

\* The files the script has been through when it gets to a step.
Passed ==
    [none |-> {}, stop |-> {}, quickd |-> {}, config |-> {"quickd"},
     rootConfig |-> {"quickd", "config"}, unit |-> {"quickd", "config", "rootConfig"},
     reload |-> Files, enable |-> Files, restart |-> Files, end |-> Files]

RestoredSoFar ==
    status = 0 => \A f \in Passed[script] : files[f] = was.files[f] \/ f \in Loose

Verdict ==
    /\ pc \in Steps => script = "none"
    /\ result.completed => pc = "over" \/ pc = "dead"
    /\ result.rollback = "ok" => status = 0 /\ script = "end" /\ result.mutation_started
    /\ pc = "over" /\ ~result.completed /\ result.rollback = "no" => ~result.mutation_started

RInv == BInv /\ RestoredSoFar /\ Verdict

(***************************************************************************)
(* The tables                                                              *)
(***************************************************************************)
\* The commands, named one by one.
LEMMA CommandNames ==
    Commands = {"probe", "mktemp", "backup", "accounts", "directories", "scp", "install", "config",
                "rootConfig", "modes", "unit", "reload", "enable", "restart", "group", "doctor"}
BY DEF Commands, After

\* Which steps follow which: the accounts come right after the backup.
LEMMA AfterBackup ==
    /\ \A s \in Commands : After[s] \in Steps
    /\ After["probe"] = "mktemp" /\ After["mktemp"] = "backup" /\ After["backup"] = "accounts"
    /\ \A s \in Commands \ Before :
           After[s] \in (Commands \ (Before \cup {"accounts"})) \cup {"done"}
<1>1. After["probe"] = "mktemp" /\ After["mktemp"] = "backup" /\ After["backup"] = "accounts"
  BY DEF After
<1>2. \A s \in Commands \ Before :
         After[s] \in (Commands \ (Before \cup {"accounts"})) \cup {"done"}
  BY CommandNames DEF After, Before
<1> QED BY <1>1, <1>2, CommandNames DEF Steps, Before

\* The commands that write one of the four files.
LEMMA Targets ==
    /\ DOMAIN Target = {"install", "config", "rootConfig", "unit"}
    /\ Target["install"] = "quickd" /\ Target["config"] = "config"
    /\ Target["rootConfig"] = "rootConfig" /\ Target["unit"] = "unit"
BY DEF Target

\* The order of the rollback script.
LEMMA ScriptOrder ==
    /\ RollbackSteps = {"stop", "quickd", "config", "rootConfig", "unit", "reload", "enable",
                        "restart", "end"}
    /\ RollbackAfter["stop"] = "quickd" /\ RollbackAfter["quickd"] = "config"
    /\ RollbackAfter["config"] = "rootConfig" /\ RollbackAfter["rootConfig"] = "unit"
    /\ RollbackAfter["unit"] = "reload" /\ RollbackAfter["reload"] = "enable"
    /\ RollbackAfter["enable"] = "restart" /\ RollbackAfter["restart"] = "end"
BY DEF RollbackAfter, RollbackSteps

(***************************************************************************)
(* What a remote command may do to the host                                *)
(***************************************************************************)
HostType ==
    /\ files \in [Files -> Contents]
    /\ loaded \in Contents
    /\ enabled \in BOOLEAN
    /\ proc \in Procs
    /\ onPath \in BOOLEAN
    /\ tmp \in BOOLEAN
    /\ saved \in Saves
    /\ extras \in BOOLEAN

\* Starting the service leaves it in one of its states.
LEMMA StartType ==
    ASSUME HostType, StartService
    PROVE  proc' \in Procs /\ onPath' \in BOOLEAN
<1>1. Snapshot \in Runs
  BY DEF HostType, Snapshot, Runs, Image, Files, Contents
<1> QED BY <1>1 DEF StartService, Procs

\* A command, whole or cut short, keeps the types of the host.
LEMMA EffectType ==
    ASSUME HostType, NEW s \in Commands, Effect(s) \/ PartEffect(s)
    PROVE  HostType'
<1> USE DEF HostType, Ask, MakeTemp, TakeBackup, AddAccounts, MakeDirectories, InstallQuickd, Tee, Reload, Enable,
           Restart
<1>1. CASE s \in {"probe", "modes", "group", "doctor"}
  BY <1>1, Targets DEF Effect, PartEffect, host, service, backup
<1>2. CASE s \in {"mktemp", "scp"}
  BY <1>2, Targets DEF Effect, PartEffect, service
<1>3. CASE s = "backup"
  <2>1. saved' \in Saves
    <3>1. CASE SaveAll
      BY <3>1 DEF SaveAll, Saves
    <3>2. CASE SaveSome
      <4> PICK S \in SUBSET Files :
            saved' = [NoBackup EXCEPT !.file = [f \in Files |-> IF f \in S THEN files[f] ELSE NotSaved]]
        BY <3>2 DEF SaveSome
      <4> QED BY DEF Saves, NoBackup
    <3> QED BY <1>3, <3>1, <3>2, Targets DEF Effect, PartEffect
  <2> QED BY <1>3, <2>1, Targets DEF Effect, PartEffect, service
<1>4. CASE s \in {"accounts", "directories"}
  BY <1>4, Targets DEF Effect, PartEffect, service, backup
<1>5. CASE s \in {"install", "config", "rootConfig", "unit"}
  <2>1. files' \in [Files -> Contents]
    BY <1>5, Targets DEF Effect, PartEffect, Write, Files, Contents
  <2>2. onPath' \in BOOLEAN
    BY <1>5, Targets DEF Effect, PartEffect, service
  <2>3. UNCHANGED <<loaded, enabled, proc, backup, extras>>
    BY <1>5, Targets DEF Effect, PartEffect, service
  <2> QED BY <2>1, <2>2, <2>3 DEF backup
<1>6. CASE s = "reload"
  BY <1>6, Targets DEF Effect, PartEffect, backup, Files
<1>7. CASE s = "enable"
  BY <1>7, Targets DEF Effect, PartEffect, backup
<1>8. CASE s = "restart"
  <2>1. proc' \in Procs /\ onPath' \in BOOLEAN
    BY <1>8, StartType, Targets DEF Effect, PartEffect, StopService, Procs
  <2> QED BY <1>8, <2>1, Targets DEF Effect, PartEffect, backup
<1> QED BY <1>1, <1>2, <1>3, <1>4, <1>5, <1>6, <1>7, <1>8, CommandNames

(***************************************************************************)
(* Type correctness                                                        *)
(***************************************************************************)
Results == [mutation_started : BOOLEAN, backup_created : BOOLEAN, completed : BOOLEAN,
            rollback : {"no", "ok", "failed"}, partial_cleanup_remains : BOOLEAN]

ClientType ==
    /\ late \in SUBSET Commands
    /\ script \in RollbackSteps \cup {"none"}
    /\ status \in {0, 1}
    /\ pc \in Steps \cup {"cleanup", "rollback", "over", "dead"}
    /\ cancel \in BOOLEAN
    /\ known \in BOOLEAN
    /\ result \in Results

GhostType ==
    /\ was \in [files : [Files -> Contents], enabled : BOOLEAN]
    /\ detached \in SUBSET Commands

LEMMA TypeParts == TypeOK <=> HostType /\ ClientType /\ GhostType
BY DEF TypeOK, HostType, ClientType, GhostType, Results

LEMMA TypePartsNext == TypeOK' <=> HostType' /\ ClientType' /\ GhostType'
BY DEF TypeOK, HostType, ClientType, GhostType, Results

LEMMA InitTyped == Init => TypeOK
<1> SUFFICES ASSUME Init PROVE TypeOK
  OBVIOUS
<1>1. files \in [Files -> Contents] /\ loaded \in Contents /\ enabled \in BOOLEAN
  BY DEF Init, Files, Contents
<1>2. proc \in Procs /\ onPath \in BOOLEAN
  <2>1. [i \in Image |-> files[i]] \in Runs
    BY <1>1 DEF Runs, Image, Files
  <2> QED BY <2>1 DEF Init, Procs
<1>3. saved \in Saves
  BY DEF Init, Saves, NoBackup
<1>4. HostType
  BY <1>1, <1>2, <1>3 DEF HostType, Init
<1>5. ClientType
  BY CommandNames DEF ClientType, Init, Results, Steps
<1>6. GhostType
  BY <1>1 DEF GhostType, Init
<1> QED BY <1>4, <1>5, <1>6, TypeParts

\* Every step keeps the types; the rollback does because what it restores was saved.
LEMMA NextTyped == BInv /\ [Next]_vars => TypeOK'
<1> SUFFICES ASSUME BInv, [Next]_vars PROVE TypeOK'
  OBVIOUS
<1>0. HostType /\ ClientType /\ GhostType
  BY TypeParts DEF BInv
<1> SUFFICES HostType' /\ ClientType' /\ GhostType'
  BY TypePartsNext
<1>1. ASSUME NEW s \in Commands, Succeeds(s) PROVE HostType' /\ ClientType' /\ GhostType'
  <2>1. HostType'
    BY <1>0, <1>1, EffectType DEF Succeeds
  <2>2. ClientType'
    BY <1>0, <1>1, AfterBackup DEF Succeeds, ClientType, Results, rollback, Started
  <2>3. GhostType'
    BY <1>0, <1>1 DEF Succeeds, GhostType, ghost
  <2> QED BY <2>1, <2>2, <2>3
<1>2. ASSUME NEW s \in Commands, Fails(s) PROVE HostType' /\ ClientType' /\ GhostType'
  <2>1. HostType'
    <3>1. CASE UNCHANGED host
      BY <1>0, <3>1 DEF HostType, host, service, backup
    <3> QED BY <1>0, <1>2, <3>1, EffectType DEF Fails
  <2>2. ClientType'
    BY <1>0, <1>2 DEF Fails, ClientType, Results, rollback, Started, Unwind
  <2>3. GhostType'
    BY <1>0, <1>2 DEF Fails, GhostType, ghost
  <2> QED BY <2>1, <2>2, <2>3
<1>3. ASSUME NEW s \in Commands, LeftRunning(s) PROVE HostType' /\ ClientType' /\ GhostType'
  <2>1. HostType'
    BY <1>0, <1>3 DEF LeftRunning, HostType, host, service, backup
  <2>2. ClientType'
    BY <1>0, <1>3 DEF LeftRunning, ClientType, Results, rollback, Started, Unwind
  <2>3. GhostType'
    BY <1>0, <1>3 DEF LeftRunning, GhostType
  <2> QED BY <2>1, <2>2, <2>3
<1>4. ASSUME NEW s \in Commands, LateCommand(s) PROVE HostType' /\ ClientType' /\ GhostType'
  <2>1. HostType'
    <3>1. CASE UNCHANGED host
      BY <1>0, <3>1 DEF HostType, host, service, backup
    <3> QED BY <1>0, <1>4, <3>1, EffectType DEF LateCommand
  <2>2. ClientType' /\ GhostType'
    BY <1>0, <1>4 DEF LateCommand, ClientType, GhostType, rollback, client, ghost
  <2> QED BY <2>1, <2>2
<1>5. ASSUME NEW s \in Steps, StopsBefore(s) PROVE HostType' /\ ClientType' /\ GhostType'
  BY <1>0, <1>5 DEF StopsBefore, Unwind, HostType, ClientType, GhostType, host, service, backup,
                    rollback, ghost
<1>6. ASSUME Done \/ Cancel \/ ClientDies PROVE HostType' /\ ClientType' /\ GhostType'
  <2>1. HostType'
    BY <1>0, <1>6 DEF Done, Cancel, ClientDies, HostType, host, service, backup
  <2>2. ClientType' /\ GhostType'
    <3>1. CASE Done
      BY <1>0, <3>1 DEF Done, ClientType, GhostType, Results, rollback, ghost
    <3>2. CASE Cancel
      BY <1>0, <3>2 DEF Cancel, ClientType, GhostType, rollback, ghost
    <3>3. CASE ClientDies
      BY <1>0, <3>3 DEF ClientDies, ClientType, GhostType, rollback
    <3> QED BY <1>6, <3>1, <3>2, <3>3
  <2> QED BY <2>1, <2>2
<1>7. ASSUME CleanUp \/ CleanUpFails PROVE HostType' /\ ClientType' /\ GhostType'
  <2>1. NoBackup \in Saves
    BY DEF NoBackup, Saves
  <2>2. HostType'
    BY <1>0, <1>7, <2>1 DEF CleanUp, CleanUpFails, HostType, service
  <2>3. ClientType' /\ GhostType'
    BY <1>0, <1>7 DEF CleanUp, CleanUpFails, ClientType, GhostType, Results, rollback, ghost
  <2> QED BY <2>2, <2>3
<1>8. ASSUME RollbackBegins \/ RollbackReturns \/ RollbackLost
      PROVE  HostType' /\ ClientType' /\ GhostType'
  <2>1. HostType' /\ GhostType'
    BY <1>0, <1>8 DEF RollbackBegins, RollbackReturns, RollbackLost, HostType, GhostType, host,
                      service, backup, ghost
  <2>2. ClientType'
    <3>1. CASE RollbackBegins
      BY <1>0, <3>1, ScriptOrder DEF RollbackBegins, ClientType, client
    <3>2. CASE RollbackReturns \/ RollbackLost
      BY <1>0, <3>2 DEF RollbackReturns, RollbackLost, ClientType, Results, rollback
    <3> QED BY <1>8, <3>1, <3>2
  <2> QED BY <2>1, <2>2
<1>9. ASSUME RollbackScript PROVE HostType' /\ ClientType' /\ GhostType'
  <2>1. ASSUME RestoreStop PROVE HostType' /\ ClientType' /\ GhostType'
    BY <1>0, <2>1, ScriptOrder DEF RestoreStop, StopService, ScriptGoes, Procs, HostType, ClientType,
                                   GhostType, backup, client, ghost
  <2>2. ASSUME NEW f \in Files, RestoreFile(f) PROVE HostType' /\ ClientType' /\ GhostType'
    <3>1. files' \in [Files -> Contents]
      <4>1. saved.file = was.files
        BY <2>2 DEF RestoreFile, BInv, Phases, Sides, BackedUp, Files
      <4> QED BY <1>0, <2>2, <4>1 DEF RestoreFile, Write, HostType, GhostType, Contents
    <3>2. script' \in RollbackSteps /\ status' \in {0, 1}
      BY <1>0, <2>2, ScriptOrder DEF RestoreFile, ScriptGoes, ClientType, Files
    <3> QED BY <1>0, <2>2, <3>1, <3>2 DEF RestoreFile, HostType, ClientType, GhostType, backup,
                                          client, ghost
  <2>3. ASSUME RestoreLoaded PROVE HostType' /\ ClientType' /\ GhostType'
    <3>1. loaded' \in Contents
      BY <1>0, <2>3 DEF RestoreLoaded, HostType, Files
    <3>2. script' \in RollbackSteps /\ status' \in {0, 1}
      BY <1>0, <2>3, ScriptOrder DEF RestoreLoaded, ScriptGoes, ClientType
    <3> QED BY <1>0, <2>3, <3>1, <3>2 DEF RestoreLoaded, HostType, ClientType, GhostType, backup,
                                          client, ghost
  <2>4. ASSUME RestoreEnabled PROVE HostType' /\ ClientType' /\ GhostType'
    <3>1. enabled' \in BOOLEAN
      BY <1>0, <2>4 DEF RestoreEnabled, HostType, Saves
    <3>2. script' \in RollbackSteps /\ status' \in {0, 1}
      BY <1>0, <2>4, ScriptOrder DEF RestoreEnabled, ScriptGoes, ClientType
    <3> QED BY <1>0, <2>4, <3>1, <3>2 DEF RestoreEnabled, HostType, ClientType, GhostType, backup,
                                          client, ghost
  <2>5. ASSUME RestoreRunning PROVE HostType' /\ ClientType' /\ GhostType'
    <3>1. proc' \in Procs /\ onPath' \in BOOLEAN
      BY <1>0, <2>5, StartType DEF RestoreRunning, StopService, Procs, HostType
    <3> QED BY <1>0, <2>5, <3>1, ScriptOrder DEF RestoreRunning, ScriptGoes, HostType, ClientType,
                                                 GhostType, backup, client, ghost
  <2> QED BY <1>9, <2>1, <2>2, <2>3, <2>4, <2>5 DEF RollbackScript
<1>10. ASSUME ServiceFalls \/ ServiceReturns PROVE HostType' /\ ClientType' /\ GhostType'
  <2>1. Snapshot \in Runs
    BY <1>0 DEF HostType, Snapshot, Runs, Image, Files, Contents
  <2>2. HostType'
    BY <1>0, <1>10, <2>1 DEF ServiceFalls, ServiceReturns, Procs, HostType, backup
  <2>3. ClientType' /\ GhostType'
    BY <1>0, <1>10 DEF ServiceFalls, ServiceReturns, ClientType, GhostType, rollback, client, ghost
  <2> QED BY <2>2, <2>3
<1>11. ASSUME UNCHANGED vars PROVE HostType' /\ ClientType' /\ GhostType'
  <2>1. HostType'
    BY <1>0, <1>11 DEF vars, host, service, backup, HostType
  <2>2. ClientType' /\ GhostType'
    BY <1>0, <1>11 DEF vars, rollback, client, ghost, ClientType, GhostType
  <2> QED BY <2>1, <2>2
<1> QED BY <1>1, <1>2, <1>3, <1>4, <1>5, <1>6, <1>7, <1>8, <1>9, <1>10, <1>11 DEF Next

(***************************************************************************)
(* The backup                                                              *)
(***************************************************************************)
\* What a command does to the files, the unit's state and the backup.
LEMMA EffectSides ==
    ASSUME TypeOK, NEW s \in Commands, Effect(s) \/ PartEffect(s)
    PROVE  /\ s \in Before \cup {"accounts"} => UNCHANGED <<files, enabled>>
           /\ s \notin {"mktemp", "backup"} => saved' = saved /\ (tmp => tmp')
           /\ s = "mktemp" => saved' = saved
<1> USE DEF Ask, MakeTemp, TakeBackup, AddAccounts, MakeDirectories, InstallQuickd, Tee, Reload, Enable,
           Restart
<1>1. s \in Before \cup {"accounts"} => UNCHANGED <<files, enabled>>
  BY Targets DEF Effect, PartEffect, Before, host, service
<1>2. s \notin {"mktemp", "backup"} => saved' = saved /\ (tmp => tmp')
  BY Targets DEF Effect, PartEffect, host, backup
<1>3. s = "mktemp" => saved' = saved
  BY Targets DEF Effect, PartEffect
<1> QED BY <1>1, <1>2, <1>3

LEMMA InitBacked == Init => BInv
<1> SUFFICES ASSUME Init PROVE BInv
  OBVIOUS
<1>1. TypeOK
  BY InitTyped
<1> QED BY <1>1, CommandNames DEF Init, BInv, Phases, LateOnes, Sides, Unchanged, Before, Steps

\* Every step keeps BInv.
LEMMA NextBacked == BInv /\ [Next]_vars => BInv'
<1> SUFFICES ASSUME BInv, [Next]_vars PROVE BInv'
  OBVIOUS
<1>0. TypeOK /\ TypeOK'
  BY NextTyped DEF BInv
<1> USE DEF BInv
<1>a. result \in Results /\ pc \in Steps \cup {"cleanup", "rollback", "over", "dead"}
      /\ late \in SUBSET Commands /\ detached \in SUBSET Commands
  BY DEF TypeOK, Results
<1>b. Commands \subseteq Steps /\ "done" \notin Commands
  BY CommandNames DEF Steps
<1>1. ASSUME NEW s \in Commands, Succeeds(s) PROVE Phases' /\ LateOnes' /\ Sides'
  <2>1. /\ pc = s /\ pc' = After[s] /\ script' = script /\ late' = late /\ detached' = detached
        /\ was' = was
        /\ result'.mutation_started = (s = "accounts" \/ result.mutation_started)
    BY <1>a, <1>1 DEF Succeeds, Started, rollback, ghost, Results
  <2>2. late = {}
    BY <1>b, <2>1 DEF Phases
  <2>3. CASE s \in Before
    <3>1. ~result.mutation_started /\ ~result'.mutation_started /\ script = "none"
      BY <2>1, <2>3 DEF Phases, Before
    <3>2. pc' \in {"mktemp", "backup", "accounts"} /\ (pc' = "accounts" => s = "backup")
      BY <2>1, <2>3, AfterBackup DEF Before
    <3>3. Unchanged'
      BY <1>0, <1>1, <2>1, <2>3, <3>1, EffectSides DEF Succeeds, Sides, Unchanged
    <3>4. s = "backup" => BackedUp'
      <4> SUFFICES ASSUME s = "backup" PROVE BackedUp'
        OBVIOUS
      <4>1. tmp' /\ saved' = [file |-> files, enabled |-> enabled, active |-> proc \in Runs]
        BY <1>1 DEF Succeeds, Effect, SaveAll, Ask, MakeTemp, TakeBackup, AddAccounts, MakeDirectories, InstallQuickd, Tee, Reload, Enable,
           Restart
      <4> QED BY <2>1, <3>1, <4>1 DEF BackedUp, Sides, Unchanged
    <3>5. Phases'
      BY <2>1, <2>2, <3>1, <3>2, <3>4, CommandNames DEF Phases, Before
    <3> QED BY <2>1, <2>2, <3>1, <3>3, <3>5 DEF LateOnes, Sides
  <2>4. CASE s \notin Before
    <3>1. result'.mutation_started /\ BackedUp
      BY <1>b, <2>1, <2>4 DEF Phases, Sides
    <3>2. pc' \in (Commands \ (Before \cup {"accounts"})) \cup {"done"}
      BY <2>1, <2>4, AfterBackup
    <3>3. BackedUp'
      BY <1>0, <1>1, <2>1, <2>4, <3>1, EffectSides DEF Succeeds, BackedUp, Before
    <3>4. Phases'
      BY <2>1, <2>2, <3>1, <3>2, CommandNames DEF Phases, Before
    <3> QED BY <2>1, <2>2, <3>1, <3>3, <3>4 DEF LateOnes, Sides
  <2> QED BY <2>3, <2>4
<1>2. ASSUME NEW s \in Commands, Fails(s) PROVE Phases' /\ LateOnes' /\ Sides'
  <2>1. /\ pc = s /\ script' = script /\ late' = late /\ detached' = detached /\ was' = was
        /\ result'.mutation_started = (s = "accounts" \/ result.mutation_started)
        /\ pc' = IF s = "accounts" \/ result.mutation_started THEN "rollback"
                 ELSE IF known THEN "cleanup" ELSE "over"
    BY <1>a, <1>2 DEF Fails, Started, Unwind, rollback, ghost, Results
  <2>2. late = {}
    BY <1>b, <2>1 DEF Phases
  <2>3. CASE s \in Before
    <3>1. ~result.mutation_started /\ ~result'.mutation_started /\ script = "none"
      BY <2>1, <2>3 DEF Phases, Before
    <3>2. Unchanged'
      <4>1. files' = files /\ enabled' = enabled
        <5>1. CASE UNCHANGED host
          BY <5>1 DEF host, service
        <5> QED BY <1>0, <1>2, <2>3, <5>1, EffectSides DEF Fails
      <4> QED BY <2>1, <3>1, <4>1 DEF Sides, Unchanged
    <3>3. Phases'
      BY <2>1, <2>3, <3>1, CommandNames DEF Phases, Before, Steps
    <3> QED BY <2>1, <2>2, <3>1, <3>2, <3>3 DEF LateOnes, Sides
  <2>4. CASE s \notin Before
    <3>1. result'.mutation_started /\ BackedUp /\ pc' = "rollback"
      BY <1>b, <2>1, <2>4 DEF Phases, Sides
    <3>2. BackedUp'
      <4>1. saved' = saved /\ (tmp => tmp')
        <5>1. CASE UNCHANGED host
          BY <5>1 DEF host, backup
        <5> QED BY <1>0, <1>2, <2>4, <5>1, EffectSides DEF Fails, Before
      <4> QED BY <2>1, <3>1, <4>1 DEF BackedUp
    <3>3. Phases'
      BY <2>1, <3>1, CommandNames DEF Phases, Before, Steps
    <3> QED BY <2>1, <2>2, <3>1, <3>2, <3>3 DEF LateOnes, Sides
  <2> QED BY <2>3, <2>4
<1>3. ASSUME NEW s \in Commands, LeftRunning(s) PROVE Phases' /\ LateOnes' /\ Sides'
  <2>1. /\ pc = s /\ script' = script /\ was' = was
        /\ late' = late \cup {s} /\ detached' = detached \cup {s}
        /\ result'.mutation_started = (s = "accounts" \/ result.mutation_started)
        /\ pc' = IF s = "accounts" \/ result.mutation_started THEN "rollback"
                 ELSE IF known THEN "cleanup" ELSE "over"
    BY <1>a, <1>3 DEF LeftRunning, Started, Unwind, rollback, Results
  <2>2. late = {} /\ s # "probe"
    BY <1>b, <1>3, <2>1 DEF Phases, LeftRunning
  <2>3. UNCHANGED <<files, enabled, tmp, saved>>
    BY <1>3 DEF LeftRunning, host, service, backup
  <2>4. s \notin Before => result'.mutation_started /\ BackedUp
    BY <1>b, <2>1 DEF Phases, Sides
  <2>5. s \in Before => ~result.mutation_started /\ ~result'.mutation_started /\ script = "none"
    BY <2>1 DEF Phases, Before
  <2>6. Phases'
    BY <2>1, <2>4, <2>5, CommandNames DEF Phases, Before, Steps
  <2>7. LateOnes'
    BY <2>1, <2>2, <2>4, <2>5 DEF LateOnes, Before
  <2>8. Sides'
    BY <2>1, <2>3, <2>4, <2>5 DEF Sides, Unchanged, BackedUp
  <2> QED BY <2>6, <2>7, <2>8
<1>4. ASSUME NEW s \in Commands, LateCommand(s) PROVE Phases' /\ LateOnes' /\ Sides'
  <2>1. /\ s \in late /\ late' = late \ {s} /\ UNCHANGED <<script, pc, result, was, detached>>
    BY <1>4 DEF LateCommand, rollback, client, ghost
  <2>2. s \in Before \cup {"accounts"} => UNCHANGED <<files, enabled>>
    <3>1. CASE UNCHANGED host
      BY <3>1 DEF host, service
    <3> QED BY <1>0, <1>4, <3>1, EffectSides DEF LateCommand
  <2>3. s \notin {"mktemp", "backup"} => saved' = saved /\ (tmp => tmp')
    <3>1. CASE UNCHANGED host
      BY <3>1 DEF host, backup
    <3> QED BY <1>0, <1>4, <3>1, EffectSides DEF LateCommand
  <2>4. pc \notin Steps
    BY <2>1 DEF Phases
  <2>5. Phases'
    BY <1>b, <2>1, <2>4, CommandNames DEF Phases, Before, Steps
  <2>6. LateOnes'
    BY <2>1 DEF LateOnes
  <2>7. Sides'
    BY <2>1, <2>2, <2>3 DEF Sides, LateOnes, Unchanged, BackedUp, Before
  <2> QED BY <2>5, <2>6, <2>7
<1>5. ASSUME NEW s \in Steps, StopsBefore(s) PROVE Phases' /\ LateOnes' /\ Sides'
  BY <1>0, <1>5, CommandNames
     DEF StopsBefore, Phases, LateOnes, Sides, Unchanged, Before, Unwind, Steps, rollback, ghost,
         TypeOK, host, service, backup, BackedUp
<1>6. ASSUME Done \/ Cancel \/ ClientDies PROVE Phases' /\ LateOnes' /\ Sides'
  <2>1. /\ result'.mutation_started = result.mutation_started
        /\ UNCHANGED <<files, enabled, tmp, saved, script, was>>
    BY <1>a, <1>6 DEF Done, Cancel, ClientDies, Results, host, service, backup, rollback, ghost
  <2>2. Sides'
    BY <2>1 DEF Sides, Unchanged, BackedUp
  <2>3. CASE Done \/ Cancel
    <3>1. UNCHANGED <<late, detached>> /\ (pc' = pc \/ pc' = "over")
      BY <2>3 DEF Done, Cancel, ghost
    <3>2. Phases'
      BY <2>1, <3>1, CommandNames DEF Phases, Before, Steps, BackedUp
    <3> QED BY <2>1, <2>2, <3>1, <3>2 DEF LateOnes
  <2>4. CASE ClientDies
    <3>1. /\ pc' = "dead"
          /\ late' = IF pc \in Commands \ {"probe"} THEN late \cup {pc} ELSE late
          /\ detached' = detached \cup (late' \ late)
      BY <2>4 DEF ClientDies
    <3>2. Phases'
      BY <2>1, <3>1, CommandNames DEF Phases, Before, Steps
    <3>3. pc \in Commands \ {"probe"} =>
            IF result.mutation_started THEN pc \notin Before ELSE pc \in Before \cup {"accounts"}
      BY DEF Phases
    <3>4. LateOnes'
      BY <2>1, <3>1, <3>3 DEF LateOnes, Before
    <3> QED BY <2>2, <3>2, <3>4
  <2> QED BY <1>6, <2>3, <2>4
<1>7. ASSUME CleanUp \/ CleanUpFails PROVE Phases' /\ LateOnes' /\ Sides'
  <2>1. /\ pc = "cleanup" /\ pc' = "over"
        /\ result'.mutation_started = result.mutation_started
        /\ UNCHANGED <<files, enabled, script, late, was, detached>>
    BY <1>a, <1>7 DEF CleanUp, CleanUpFails, Results, service, rollback, ghost
  <2>2. ~result.mutation_started
    BY <2>1 DEF Phases
  <2> QED BY <2>1, <2>2, CommandNames DEF Phases, LateOnes, Sides, Unchanged, Before, Steps
<1>8. ASSUME RollbackBegins \/ RollbackReturns \/ RollbackLost
      PROVE  Phases' /\ LateOnes' /\ Sides'
  <2>1. /\ pc = "rollback" /\ pc' \in {"rollback", "over"}
        /\ result'.mutation_started = result.mutation_started
        /\ UNCHANGED <<files, enabled, tmp, saved, late, was, detached>>
    BY <1>a, <1>8 DEF RollbackBegins, RollbackReturns, RollbackLost, Results, host, service, backup,
                      client, ghost
  <2>2. result.mutation_started
    BY <2>1 DEF Phases
  <2> QED BY <2>1, <2>2, CommandNames DEF Phases, LateOnes, Sides, BackedUp, Before, Steps
<1>9. ASSUME RollbackScript PROVE Phases' /\ LateOnes' /\ Sides'
  <2>1. script # "none" /\ result.mutation_started
    BY <1>9 DEF RollbackScript, RestoreStop, RestoreFile, RestoreLoaded, RestoreEnabled,
                RestoreRunning, Phases, Files
  <2>2. UNCHANGED <<backup, late, client, ghost>>
    BY <1>9 DEF RollbackScript, RestoreStop, RestoreFile, RestoreLoaded, RestoreEnabled,
                RestoreRunning
  <2> QED BY <2>1, <2>2 DEF Phases, LateOnes, Sides, BackedUp, backup, client, ghost
<1>10. ASSUME ServiceFalls \/ ServiceReturns PROVE Phases' /\ LateOnes' /\ Sides'
  BY <1>10 DEF ServiceFalls, ServiceReturns, Phases, LateOnes, Sides, Unchanged, BackedUp, backup,
               rollback, client, ghost
<1>11. ASSUME UNCHANGED vars PROVE Phases' /\ LateOnes' /\ Sides'
  BY <1>11 DEF vars, host, service, backup, rollback, client, ghost, Phases, LateOnes, Sides,
               Unchanged, BackedUp
<1> QED BY <1>0, <1>1, <1>2, <1>3, <1>4, <1>5, <1>6, <1>7, <1>8, <1>9, <1>10, <1>11 DEF Next

LEMMA Backed == Spec => []BInv
BY InitBacked, NextBacked, PTL DEF Spec

\* The host, the client and the result keep their types in every run of the installer.
THEOREM TypeCorrect == Spec => []TypeOK
<1>1. BInv => TypeOK
  BY DEF BInv
<1> QED BY <1>1, Backed, PTL

\* Whatever fails, dies or goes on unwatched, a host that was changed can be put back.
THEOREM HostRecoverable == Spec => []Recoverable
<1>1. BInv => Recoverable
  BY DEF BInv, TypeOK, Sides, Unchanged, BackedUp, Recoverable
<1> QED BY <1>1, Backed, PTL

(***************************************************************************)
(* The rollback                                                            *)
(***************************************************************************)
\* A command left running only touches its own file.
LEMMA LateTouches ==
    ASSUME NEW s \in Commands, Effect(s) \/ PartEffect(s), files \in [Files -> Contents]
    PROVE  \A f \in Files : files'[f] = files[f] \/ (s \in DOMAIN Target /\ Target[s] = f)
<1> USE DEF Ask, MakeTemp, TakeBackup, AddAccounts, MakeDirectories, InstallQuickd, Tee, Reload, Enable,
           Restart
<1>1. CASE s \in DOMAIN Target
  BY <1>1, Targets DEF Effect, PartEffect, Write, Files, host
<1>2. CASE s \notin DOMAIN Target
  BY <1>2, Targets DEF Effect, PartEffect, host
<1> QED BY <1>1, <1>2

\* What Passed holds at each step.
LEMMA PassedNames ==
    /\ Passed["none"] = {} /\ Passed["stop"] = {} /\ Passed["quickd"] = {}
    /\ Passed["config"] = {"quickd"} /\ Passed["rootConfig"] = {"quickd", "config"}
    /\ Passed["unit"] = {"quickd", "config", "rootConfig"}
    /\ Passed["reload"] = Files /\ Passed["enable"] = Files /\ Passed["restart"] = Files
    /\ Passed["end"] = Files
BY DEF Passed

LEMMA PassedFiles == \A x \in RollbackSteps \cup {"none"} : Passed[x] \subseteq Files
BY PassedNames, ScriptOrder DEF Files

LEMMA InitRestored == Init => RInv
<1> SUFFICES ASSUME Init PROVE RInv
  OBVIOUS
<1>1. BInv
  BY InitBacked
<1> QED BY <1>1, PassedNames, CommandNames DEF Init, RInv, RestoredSoFar, Verdict, Steps

\* Every step keeps RInv.
LEMMA NextRestored == RInv /\ [Next]_vars => RInv'
<1> SUFFICES ASSUME RInv, [Next]_vars PROVE RInv'
  OBVIOUS
<1>0. BInv /\ BInv'
  BY NextBacked DEF RInv
<1>a. /\ result \in Results /\ files \in [Files -> Contents] /\ status \in {0, 1}
      /\ script \in RollbackSteps \cup {"none"}
      /\ Commands \subseteq Steps
  BY <1>0 DEF BInv, TypeOK, Results, Steps
<1>1. ASSUME NEW s \in Commands, Succeeds(s) \/ Fails(s) \/ LeftRunning(s)
      PROVE  RestoredSoFar' /\ Verdict'
  <2>1. /\ pc = s /\ script' = script /\ status' = status
        /\ result'.completed = result.completed /\ result'.rollback = result.rollback
        /\ (pc' = "over" => ~result'.mutation_started)
    <3>1. "over" \notin Steps
      BY CommandNames DEF Steps
    <3>2. CASE Succeeds(s)
      BY <1>a, <3>1, <3>2, AfterBackup DEF Succeeds, Started, rollback, Results
    <3>3. CASE Fails(s) \/ LeftRunning(s)
      BY <1>a, <3>3 DEF Fails, LeftRunning, Started, Unwind, rollback, Results
    <3> QED BY <1>1, <3>2, <3>3
  <2>2. script = "none" /\ ~result.completed /\ result.rollback # "ok"
    BY <1>a, <2>1, CommandNames DEF RInv, Verdict
  <2> QED BY <2>1, <2>2, PassedNames DEF RestoredSoFar, Verdict
<1>2. ASSUME NEW s \in Commands, LateCommand(s) PROVE RestoredSoFar' /\ Verdict'
  <2>1. s \in detached /\ UNCHANGED <<script, status, pc, result, was, detached>>
    BY <1>0, <1>2 DEF LateCommand, rollback, client, ghost, BInv, LateOnes
  <2>2. \A f \in Files : files'[f] = files[f] \/ f \in Loose
    <3>1. CASE UNCHANGED host
      BY <3>1 DEF host
    <3>2. CASE Effect(s) \/ PartEffect(s)
      BY <1>a, <2>1, <3>2, LateTouches DEF Loose
    <3> QED BY <1>2, <3>1, <3>2 DEF LateCommand
  <2>3. Loose' = Loose
    BY <2>1 DEF Loose
  <2> QED BY <1>a, <2>1, <2>2, <2>3, PassedFiles DEF RInv, RestoredSoFar, Verdict
<1>3. ASSUME NEW s \in Steps, StopsBefore(s) PROVE RestoredSoFar' /\ Verdict'
  <2>1. /\ pc = s /\ UNCHANGED <<script, status, result, files, was, detached>>
        /\ (pc' = "over" => ~result'.mutation_started)
    BY <1>3 DEF StopsBefore, Unwind, rollback, host, ghost
  <2>2. script = "none" /\ ~result.completed /\ result.rollback # "ok"
    BY <2>1, CommandNames DEF RInv, Verdict, Steps
  <2> QED BY <2>1, <2>2, PassedNames DEF RestoredSoFar, Verdict
<1>4. ASSUME Done \/ Cancel \/ ClientDies PROVE RestoredSoFar' /\ Verdict'
  <2>1. /\ UNCHANGED <<script, status, files, was>> /\ detached \subseteq detached'
        /\ result'.rollback = result.rollback
        /\ result'.mutation_started = result.mutation_started
    BY <1>a, <1>4 DEF Done, Cancel, ClientDies, rollback, host, ghost, Results
  <2>2. Loose \subseteq Loose'
    BY <2>1 DEF Loose
  <2>3. RestoredSoFar'
    BY <2>1, <2>2 DEF RInv, RestoredSoFar
  <2>4. Verdict'
    <3>1. CASE Done
      BY <1>a, <2>1, <3>1, CommandNames DEF Done, RInv, Verdict, Results, Steps
    <3>2. CASE Cancel \/ ClientDies
      BY <2>1, <3>2, CommandNames DEF Cancel, ClientDies, RInv, Verdict, Steps
    <3> QED BY <1>4, <3>1, <3>2
  <2> QED BY <2>3, <2>4
<1>5. ASSUME CleanUp \/ CleanUpFails PROVE RestoredSoFar' /\ Verdict'
  <2>1. /\ pc = "cleanup" /\ pc' = "over"
        /\ UNCHANGED <<script, status, files, was, detached>>
        /\ result'.rollback = result.rollback /\ result'.completed = result.completed
        /\ result'.mutation_started = result.mutation_started
    BY <1>a, <1>5 DEF CleanUp, CleanUpFails, rollback, ghost, Results
  <2>2. ~result.mutation_started
    BY <1>0, <2>1 DEF BInv, Phases
  <2> QED BY <2>1, <2>2, CommandNames DEF RInv, RestoredSoFar, Verdict, Loose, Steps
<1>6. ASSUME RollbackBegins \/ RollbackReturns \/ RollbackLost PROVE RestoredSoFar' /\ Verdict'
  <2>1. pc = "rollback" /\ result.mutation_started /\ ~result.completed /\ "rollback" \notin Steps
    BY <1>0, <1>6, CommandNames DEF RollbackBegins, RollbackReturns, RollbackLost, BInv, Phases,
                                    RInv, Verdict, Steps
  <2>2. CASE RollbackBegins
    BY <2>1, <2>2, PassedNames DEF RollbackBegins, client, ghost, RestoredSoFar, RInv, Verdict
  <2>3. CASE RollbackReturns \/ RollbackLost
    <3>1. /\ UNCHANGED <<script, status, files, was, detached>> /\ pc' = "over"
          /\ result'.rollback = "ok" => status = 0 /\ script = "end"
          /\ result'.rollback # "no"
          /\ result'.completed = result.completed
          /\ result'.mutation_started = result.mutation_started
      BY <1>a, <2>3 DEF RollbackReturns, RollbackLost, rollback, host, ghost, Results
    <3> QED BY <2>1, <3>1, CommandNames DEF RInv, RestoredSoFar, Verdict, Loose, Steps
  <2> QED BY <1>6, <2>2, <2>3
<1>7. ASSUME RollbackScript PROVE RestoredSoFar' /\ Verdict'
  <2>1. script \notin {"none", "end"} /\ UNCHANGED <<pc, result, was, detached>> /\ Loose' = Loose
    BY <1>7 DEF RollbackScript, RestoreStop, RestoreFile, RestoreLoaded, RestoreEnabled,
                RestoreRunning, client, ghost, Files, Loose
  <2>2. saved.file = was.files
    BY <1>0, <2>1 DEF BInv, Phases, Sides, BackedUp
  <2>3. Verdict'
    BY <2>1, CommandNames DEF RInv, Verdict
  <2>4. RestoredSoFar'
    <3>1. CASE RestoreStop \/ RestoreLoaded \/ RestoreEnabled \/ RestoreRunning
      BY <1>a, <2>1, <3>1, ScriptOrder, PassedNames
         DEF RestoreStop, RestoreLoaded, RestoreEnabled, RestoreRunning, ScriptGoes, RInv,
             RestoredSoFar
    <3>2. ASSUME NEW f \in Files, RestoreFile(f) PROVE RestoredSoFar'
      <4> SUFFICES ASSUME status' = 0 PROVE \A g \in Passed[script]' : files'[g] = was.files[g] \/ g \in Loose
        BY <2>1 DEF RestoredSoFar
      <4>1. script = f /\ status = 0 /\ files' = [files EXCEPT ![f] = was.files[f]]
            /\ script' = RollbackAfter[f]
        BY <1>a, <2>2, <3>2 DEF RestoreFile, ScriptGoes, Write
      <4>2. Passed[RollbackAfter[f]] = Passed[f] \cup {f}
        BY PassedNames, ScriptOrder DEF Files
      <4>3. Passed[f] \subseteq Files
        BY PassedNames DEF Files
      <4> QED BY <1>a, <4>1, <4>2, <4>3 DEF RInv, RestoredSoFar
    <3> QED BY <1>7, <3>1, <3>2 DEF RollbackScript
  <2> QED BY <2>3, <2>4
<1>8. ASSUME ServiceFalls \/ ServiceReturns \/ UNCHANGED vars PROVE RestoredSoFar' /\ Verdict'
  BY <1>8 DEF ServiceFalls, ServiceReturns, vars, host, rollback, client, ghost, RInv, RestoredSoFar,
              Verdict, Loose
<1> QED BY <1>0, <1>1, <1>2, <1>3, <1>4, <1>5, <1>6, <1>7, <1>8 DEF Next, RInv

\* An install that did not complete put the four files back, commands left running apart,
\* or reports that its rollback failed.
THEOREM RestoredOrReported == Spec => []RestoredOrTold
<1>1. RInv => RestoredOrTold
  <2> SUFFICES ASSUME RInv, pc = "over", ~result.completed, result.rollback # "failed"
               PROVE  \A f \in Files : files[f] = was.files[f] \/ f \in Loose
    BY DEF RestoredOrTold, Loose
  <2>1. CASE result.rollback = "ok"
    BY <2>1, PassedNames DEF RInv, RestoredSoFar, Verdict
  <2>2. CASE result.rollback = "no"
    BY <2>2 DEF RInv, Verdict, BInv, Sides, Unchanged
  <2> QED BY <2>1, <2>2 DEF RInv, BInv, TypeOK
<1> QED BY <1>1, InitRestored, NextRestored, PTL DEF Spec

(***************************************************************************)
(* The installation that completes                                         *)
(***************************************************************************)
AllNew == [i \in Image |-> "new"]
Restarted == {"group", "doctor", "done"}
Enabled == Restarted \cup {"restart"}
Reloaded == Enabled \cup {"enable"}

\* The files written by the commands before a step.
Laid ==
    [s \in Steps |->
        IF s = "config" THEN {"quickd"}
        ELSE IF s = "rootConfig" THEN {"quickd", "config"}
        ELSE IF s \in {"modes", "unit"} THEN {"quickd", "config", "rootConfig"}
        ELSE IF s \in Reloaded \cup {"reload"} THEN Files
        ELSE {}]

\* What the host holds of the new installation when the client gets to a step.
NewAt(s) ==
    /\ \A f \in Laid[s] : files[f] = "new"
    /\ s \in Reloaded => loaded = "new"
    /\ s \in Enabled => enabled
    /\ s \in Restarted => (proc \in Runs => proc = AllNew)

Forward ==
    /\ pc \in Steps => NewAt(pc)
    /\ result.completed => NewAt("done") /\ pc = "over" /\ script = "none" /\ late = {}

CInv == RInv /\ Forward

\* What Laid holds at each step.
LEMMA LaidNames ==
    /\ Laid["config"] = {"quickd"} /\ Laid["rootConfig"] = {"quickd", "config"}
    /\ Laid["modes"] = {"quickd", "config", "rootConfig"}
    /\ Laid["unit"] = {"quickd", "config", "rootConfig"}
    /\ \A s \in Reloaded \cup {"reload"} : Laid[s] = Files
    /\ \A s \in Before \cup {"accounts", "directories", "scp", "install"} : Laid[s] = {}
    /\ \A s \in Steps : Laid[s] \subseteq Files
<1>1. /\ Steps = Commands \cup {"done"} /\ Reloaded = {"group", "doctor", "done", "restart", "enable"}
      /\ Before = {"probe", "mktemp", "backup"}
  BY DEF Steps, Reloaded, Enabled, Restarted, Before
<1>2. \A s \in Steps : Laid[s] = IF s = "config" THEN {"quickd"}
                                 ELSE IF s = "rootConfig" THEN {"quickd", "config"}
                                 ELSE IF s \in {"modes", "unit"} THEN {"quickd", "config", "rootConfig"}
                                 ELSE IF s \in Reloaded \cup {"reload"} THEN Files
                                 ELSE {}
  BY DEF Laid
<1>3. {"quickd"} \subseteq Files /\ {"quickd", "config"} \subseteq Files
      /\ {"quickd", "config", "rootConfig"} \subseteq Files
  BY DEF Files
<1>4. \A s \in Steps : Laid[s] \subseteq Files
  BY <1>2, <1>3
<1> QED BY <1>1, <1>2, <1>4, CommandNames

\* A command that succeeds brings the host one step further.
LEMMA Progress ==
    ASSUME HostType, NEW s \in Commands, Effect(s), NewAt(s)
    PROVE  NewAt(After[s])'
<1> USE DEF Ask, MakeTemp, TakeBackup, AddAccounts, MakeDirectories, InstallQuickd, Tee, Reload, Enable,
           Restart
<1>0. Reloaded = {"group", "doctor", "done", "restart", "enable"}
      /\ Enabled = {"group", "doctor", "done", "restart"} /\ Restarted = {"group", "doctor", "done"}
      /\ Before = {"probe", "mktemp", "backup"}
  BY DEF Reloaded, Enabled, Restarted, Before
<1>1. CASE s \in {"probe", "mktemp", "backup", "accounts", "directories", "scp"}
  <2>1. After[s] \in {"mktemp", "backup", "accounts", "directories", "scp", "install"}
    BY <1>1 DEF After
  <2> QED BY <1>0, <2>1, LaidNames DEF NewAt
<1>2. CASE s \in {"install", "config", "rootConfig", "modes", "unit"}
  <2>1. After[s] = CASE s = "install" -> "config" [] s = "config" -> "rootConfig"
                     [] s = "rootConfig" -> "modes" [] s = "modes" -> "unit" [] s = "unit" -> "reload"
    BY <1>2 DEF After
  <2>2. After[s] \notin Reloaded
    BY <1>0, <1>2, <2>1
  <2>3. Laid[After[s]] = Laid[s] \cup (IF s \in DOMAIN Target THEN {Target[s]} ELSE {})
    BY <1>2, <2>1, LaidNames, Targets DEF Files
  <2>4. \A f \in Files : files'[f] = IF s \in DOMAIN Target /\ Target[s] = f THEN "new" ELSE files[f]
    <3>1. files \in [Files -> Contents] /\ (s \in DOMAIN Target => Target[s] \in Files)
      BY Targets DEF HostType, Files
    <3>2. IF s \in DOMAIN Target THEN files' = [files EXCEPT ![Target[s]] = "new"] ELSE files' = files
      BY <1>2, Targets DEF Effect, Write, host
    <3> QED BY <3>1, <3>2
  <2>5. Laid[s] \subseteq Files /\ (s \in DOMAIN Target => Target[s] \in Files)
    BY LaidNames, Targets DEF Steps, Files
  <2>6. \A f \in Laid[After[s]] : files'[f] = "new"
    BY <2>3, <2>4, <2>5 DEF NewAt
  <2> QED BY <1>0, <2>2, <2>6 DEF NewAt
<1>3. CASE s = "reload"
  <2>1. After[s] = "enable" /\ files' = files /\ loaded' = files["unit"]
    BY <1>3 DEF After, Effect
  <2>2. \A f \in Files : files[f] = "new"
    BY <1>3, LaidNames DEF NewAt
  <2> QED BY <1>0, <2>1, <2>2, LaidNames DEF NewAt, Files
<1>4. CASE s = "enable"
  <2>1. After[s] = "restart" /\ files' = files /\ loaded' = loaded /\ enabled'
    BY <1>4 DEF After, Effect
  <2> QED BY <1>0, <1>4, <2>1, LaidNames DEF NewAt
<1>5. CASE s = "restart"
  <2>1. After[s] = "group" /\ files' = files /\ loaded' = loaded /\ enabled' = enabled /\ StartService
    BY <1>5 DEF After, Effect
  <2>2. (\A f \in Files : files[f] = "new") /\ loaded = "new" /\ enabled
    BY <1>0, <1>5, LaidNames DEF NewAt
  <2>3. Snapshot = AllNew
    BY <2>2 DEF Snapshot, AllNew, Files, Image
  <2>4. Waiting \notin Runs
    BY DEF Waiting, Runs, Contents, Image
  <2>5. proc' \in Runs => proc' = AllNew
    BY <2>1, <2>3, <2>4 DEF StartService
  <2> QED BY <1>0, <2>1, <2>2, <2>5, LaidNames DEF NewAt
<1>6. CASE s \in {"group", "doctor"}
  <2>1. After[s] \in {"doctor", "done"} /\ UNCHANGED host
    BY <1>6 DEF After, Effect
  <2>2. UNCHANGED <<files, loaded, enabled, proc>>
    BY <2>1 DEF host, service
  <2> QED BY <1>0, <1>6, <2>1, <2>2, LaidNames DEF NewAt
<1> QED BY <1>1, <1>2, <1>3, <1>4, <1>5, <1>6, CommandNames

\* The service falls over and comes back with what the host holds.
LEMMA FallsAndReturns ==
    ASSUME NEW s \in Steps, NewAt(s), ServiceFalls \/ ServiceReturns
    PROVE  NewAt(s)'
<1>1. Waiting \notin Runs
  BY DEF Waiting, Runs, Contents, Image
<1>2. UNCHANGED <<files, loaded, enabled>>
  BY DEF ServiceFalls, ServiceReturns
<1>3. ASSUME s \in Restarted, proc' \in Runs PROVE proc' = AllNew
  <2>1. Laid[s] = Files /\ s \in Reloaded
    BY <1>3, LaidNames DEF Reloaded, Enabled
  <2>2. proc' = Snapshot
    BY <1>1, <1>3 DEF ServiceFalls, ServiceReturns
  <2> QED BY <2>1, <2>2 DEF NewAt, Snapshot, AllNew, Files, Image
<1> QED BY <1>2, <1>3 DEF NewAt

\* Every step keeps Forward.
LEMMA NextForward == CInv /\ [Next]_vars => CInv'
<1> SUFFICES ASSUME CInv, [Next]_vars PROVE Forward'
  BY NextRestored DEF CInv
<1>0. RInv /\ BInv /\ TypeOK
  BY DEF CInv, RInv, BInv
<1>a. HostType /\ result \in Results /\ Commands \subseteq Steps /\ "done" \in Steps
  BY <1>0, TypeParts, CommandNames DEF ClientType, Steps
<1>c. \A p \in Steps : p \notin {"cleanup", "rollback", "over", "dead"}
  BY CommandNames DEF Steps
<1>b. pc \in Steps => ~result.completed /\ script = "none" /\ late = {}
  BY <1>0, <1>c DEF RInv, BInv, Verdict, Phases
<1>1. ASSUME NEW s \in Commands, Succeeds(s) PROVE Forward'
  <2>1. pc = s /\ pc' = After[s] /\ Effect(s) /\ result'.completed = result.completed
    BY <1>a, <1>1 DEF Succeeds, Results
  <2>2. NewAt(After[s])'
    BY <1>a, <2>1, Progress DEF CInv, Forward
  <2> QED BY <1>a, <1>b, <2>1, <2>2 DEF Forward
<1>2. ASSUME NEW s \in Commands, Fails(s) \/ LeftRunning(s) PROVE Forward'
  <2>1. pc = s /\ pc' \in {"rollback", "cleanup", "over"} /\ result'.completed = result.completed
    BY <1>a, <1>2 DEF Fails, LeftRunning, Unwind, Results
  <2> QED BY <1>a, <1>b, <1>c, <2>1 DEF Forward
<1>3. ASSUME NEW s \in Commands, LateCommand(s) PROVE Forward'
  <2>1. s \in late /\ UNCHANGED <<pc, result>>
    BY <1>3 DEF LateCommand, client
  <2>2. pc \notin Steps /\ ~result.completed
    BY <1>b, <2>1 DEF CInv, Forward
  <2> QED BY <2>1, <2>2 DEF Forward
<1>4. ASSUME NEW s \in Steps, StopsBefore(s) PROVE Forward'
  <2>1. pc = s /\ pc' \in {"rollback", "cleanup", "over"} /\ result' = result
    BY <1>4 DEF StopsBefore, Unwind
  <2> QED BY <1>a, <1>b, <1>c, <2>1 DEF Forward
<1>5. CASE Done
  <2>1. pc = "done" /\ pc' = "over" /\ UNCHANGED <<files, loaded, enabled, proc, script, late>>
    BY <1>5 DEF Done, host, service, rollback
  <2>2. NewAt("done") /\ script = "none" /\ late = {}
    BY <1>a, <1>b, <2>1 DEF CInv, Forward
  <2> QED BY <1>c, <2>1, <2>2 DEF Forward, NewAt
<1>6. CASE Cancel
  BY <1>6 DEF Cancel, host, service, rollback, CInv, Forward, NewAt
<1>7. CASE ClientDies
  <2>1. pc # "over" /\ pc' = "dead" /\ result' = result
    BY <1>7 DEF ClientDies
  <2> QED BY <1>a, <1>c, <2>1 DEF CInv, Forward
<1>8. CASE CleanUp \/ CleanUpFails
  <2>1. pc = "cleanup" /\ pc' = "over" /\ result'.completed = result.completed
    BY <1>a, <1>8 DEF CleanUp, CleanUpFails, Results
  <2> QED BY <1>a, <1>c, <2>1 DEF CInv, Forward
<1>9. CASE RollbackBegins \/ RollbackReturns \/ RollbackLost
  <2>1. pc = "rollback" /\ pc' \in {"rollback", "over"} /\ result'.completed = result.completed
    BY <1>a, <1>9 DEF RollbackBegins, RollbackReturns, RollbackLost, Results, client
  <2> QED BY <1>a, <1>c, <2>1 DEF CInv, Forward
<1>10. CASE RollbackScript
  <2>1. script # "none" /\ UNCHANGED <<pc, result>>
    BY <1>10 DEF RollbackScript, RestoreStop, RestoreFile, RestoreLoaded, RestoreEnabled,
                 RestoreRunning, client, Files
  <2> QED BY <1>b, <2>1 DEF CInv, Forward
<1>11. CASE ServiceFalls \/ ServiceReturns
  <2>1. UNCHANGED <<pc, result, script, late>>
    BY <1>11 DEF ServiceFalls, ServiceReturns, client, rollback
  <2> QED BY <1>a, <1>11, <2>1, FallsAndReturns DEF CInv, Forward
<1>12. CASE UNCHANGED vars
  BY <1>12 DEF vars, host, service, rollback, client, CInv, Forward, NewAt
<1> QED BY <1>1, <1>2, <1>3, <1>4, <1>5, <1>6, <1>7, <1>8, <1>9, <1>10, <1>11, <1>12 DEF Next

\* An install that reports success has replaced the four files, the unit systemd has read
\* and the process, whatever fell over meanwhile.
THEOREM CompletedReplacedAll == Spec => []CompletedIsNew
<1>1. Init => CInv
  <2> SUFFICES ASSUME Init PROVE CInv
    OBVIOUS
  <2>1. NewAt("probe")
    BY LaidNames DEF NewAt, Reloaded, Enabled, Restarted, Before
  <2> QED BY <2>1, InitRestored DEF Init, CInv, Forward
<1>2. CInv => CompletedIsNew
  <2> SUFFICES ASSUME CInv, result.completed PROVE CompletedIsNew
    BY DEF CompletedIsNew
  <2>1. NewAt("done") /\ "done" \in Restarted /\ "done" \in Enabled
    BY DEF CInv, Forward, Restarted, Enabled
  <2>2. Laid["done"] = Files
    BY LaidNames DEF Reloaded, Enabled, Restarted
  <2> QED BY <2>1, <2>2 DEF CompletedIsNew, NewAt, AllNew
<1> QED BY <1>1, <1>2, NextForward, PTL DEF Spec

(***************************************************************************)
(* The service after a rollback                                            *)
(***************************************************************************)
OldImage == [i \in Image |-> was.files[i]]

\* What the script has done with the service when it gets to a step, as long as no step
\* failed and nothing else runs on the host.
ServiceSoFar ==
    detached = {} /\ status = 0 =>
        /\ script \notin {"none", "stop"} /\ was.files["unit"] = "absent" => proc = Stopped
        /\ script \in {"enable", "restart", "end"} => loaded = was.files["unit"]
        /\ script \in {"restart", "end"} /\ was.files["unit"] # "absent" => enabled = was.enabled
        /\ script = "end" => (proc \in Runs => proc = OldImage)

SInv == RInv /\ ServiceSoFar

\* A service that is stopped or waiting does not run, and one that runs is neither.
LEMMA NotRunning == Waiting \notin Runs /\ Stopped \notin Runs /\ Waiting # Stopped
BY DEF Waiting, Stopped, Runs, Contents, Image

\* With the four files put back and the unit read again a start brings back the old service.
LEMMA SnapshotIsOld ==
    ASSUME \A f \in Files : files[f] = was.files[f], loaded = was.files["unit"]
    PROVE  Snapshot = OldImage
BY DEF Snapshot, OldImage, Files, Image

\* Once the script has begun, only the script and the service act on the host, as long as
\* no command was left running.
LEMMA ScriptKeepsService ==
    ASSUME SInv, RollbackScript
    PROVE  ServiceSoFar'
<1> SUFFICES ASSUME detached = {}, status' = 0 PROVE ServiceSoFar'
  BY DEF RollbackScript, RestoreStop, RestoreFile, RestoreLoaded, RestoreEnabled, RestoreRunning,
         ghost, ServiceSoFar
<1>0. /\ RInv /\ BInv /\ ServiceSoFar /\ BackedUp /\ UNCHANGED <<was, detached>>
      /\ was.files \in [Files -> Contents]
  <2>1. script # "none" /\ UNCHANGED <<was, detached>>
    BY DEF RollbackScript, RestoreStop, RestoreFile, RestoreLoaded, RestoreEnabled, RestoreRunning,
           ghost, Files
  <2> QED BY <2>1 DEF SInv, RInv, BInv, Phases, Sides, TypeOK
<1>1. status = 0
  BY <1>0 DEF RollbackScript, RestoreStop, RestoreFile, RestoreLoaded, RestoreEnabled,
              RestoreRunning, ScriptGoes, BInv, TypeOK
<1>2. \A f \in Passed[script] : files[f] = was.files[f]
  BY <1>0, <1>1 DEF RInv, RestoredSoFar, Loose
<1>3. CASE RestoreStop
  <2>1. script' = "quickd" /\ (was.files["unit"] = "absent" => proc' = Stopped)
    BY <1>0, <1>3, ScriptOrder DEF RestoreStop, StopService, ScriptGoes, BackedUp
  <2> QED BY <1>0, <2>1 DEF ServiceSoFar
<1>4. ASSUME NEW f \in Files, RestoreFile(f) PROVE ServiceSoFar'
  <2>1. script \in Files /\ script' \in Files \cup {"reload"} /\ UNCHANGED <<loaded, enabled, proc>>
    BY <1>4, ScriptOrder DEF RestoreFile, ScriptGoes, Files
  <2> QED BY <1>0, <1>1, <2>1 DEF ServiceSoFar, Files
<1>5. CASE RestoreLoaded
  <2>1. script = "reload" /\ script' = "enable" /\ loaded' = files["unit"] /\ proc' = proc
    BY <1>5, ScriptOrder DEF RestoreLoaded, ScriptGoes
  <2>2. loaded' = was.files["unit"]
    BY <1>2, <2>1, PassedNames DEF Files
  <2> QED BY <1>0, <1>1, <2>1, <2>2 DEF ServiceSoFar
<1>6. CASE RestoreEnabled
  <2>1. /\ script = "enable" /\ script' = "restart" /\ UNCHANGED <<loaded, proc>>
        /\ enabled' = IF saved.file["unit"] # "absent" THEN saved.enabled ELSE enabled
    BY <1>6, ScriptOrder DEF RestoreEnabled, ScriptGoes
  <2>2. was.files["unit"] # "absent" => enabled' = was.enabled
    BY <1>0, <2>1 DEF BackedUp
  <2> QED BY <1>0, <1>1, <2>1, <2>2 DEF ServiceSoFar
<1>7. CASE RestoreRunning
  <2>1. /\ script = "restart" /\ script' = "end" /\ UNCHANGED <<loaded, enabled>>
        /\ IF was.files["unit"] # "absent" THEN StartService \/ StopService ELSE proc' = proc
    BY <1>0, <1>7, ScriptOrder DEF RestoreRunning, ScriptGoes, BackedUp
  <2>2. Snapshot = OldImage
    BY <1>0, <1>1, <1>2, <2>1, PassedNames, SnapshotIsOld DEF ServiceSoFar
  <2>3. proc' \in Runs => proc' = OldImage
    BY <1>0, <1>1, <2>1, <2>2, NotRunning DEF StartService, StopService, ServiceSoFar
  <2>4. OldImage' = OldImage
    BY <1>0 DEF OldImage
  <2>5. was.files["unit"] = "absent" => proc' = Stopped
    BY <1>0, <1>1, <2>1 DEF ServiceSoFar
  <2> QED BY <1>0, <1>1, <2>1, <2>3, <2>4, <2>5 DEF ServiceSoFar
<1> QED BY <1>3, <1>4, <1>5, <1>6, <1>7 DEF RollbackScript

\* Every step keeps ServiceSoFar.
LEMMA NextService == SInv /\ [Next]_vars => SInv'
<1> SUFFICES ASSUME SInv, [Next]_vars PROVE ServiceSoFar'
  BY NextRestored DEF SInv
<1>0. RInv /\ BInv /\ ServiceSoFar
  BY DEF SInv, RInv
<1>b. pc \in Steps \cup {"cleanup"} => script = "none"
  BY <1>0 DEF RInv, BInv, Verdict, Phases
<1>c. Commands \subseteq Steps
  BY DEF Steps
<1>1. ASSUME NEW s \in Commands, Succeeds(s) \/ Fails(s) \/ LeftRunning(s) PROVE ServiceSoFar'
  <2>1. pc = s /\ script' = script
    BY <1>1 DEF Succeeds, Fails, LeftRunning, rollback
  <2> QED BY <1>b, <1>c, <2>1 DEF ServiceSoFar
<1>2. ASSUME NEW s \in Commands, LateCommand(s) PROVE ServiceSoFar'
  <2>1. detached # {} /\ detached' = detached
    BY <1>0, <1>2 DEF LateCommand, ghost, BInv, LateOnes
  <2> QED BY <2>1 DEF ServiceSoFar
<1>3. ASSUME UNCHANGED <<loaded, enabled, proc, was, script, status>>, detached \subseteq detached'
      PROVE  ServiceSoFar'
  BY <1>0, <1>3 DEF ServiceSoFar, OldImage
<1>4. ASSUME NEW s \in Steps, StopsBefore(s) PROVE ServiceSoFar'
  BY <1>3, <1>4 DEF StopsBefore, host, service, rollback, ghost
<1>5. CASE Done \/ Cancel \/ ClientDies \/ CleanUp \/ CleanUpFails \/ RollbackReturns \/ RollbackLost
  <2>1. UNCHANGED <<loaded, enabled, proc, was, script, status>> /\ detached \subseteq detached'
    BY <1>5 DEF Done, Cancel, ClientDies, CleanUp, CleanUpFails, RollbackReturns, RollbackLost, host,
                service, rollback, ghost
  <2> QED BY <1>3, <2>1
<1>6. CASE RollbackBegins
  <2>1. script' = "stop"
    BY <1>6 DEF RollbackBegins
  <2> QED BY <2>1 DEF ServiceSoFar
<1>7. CASE RollbackScript
  BY <1>7, ScriptKeepsService
<1>8. CASE ServiceFalls \/ ServiceReturns
  <2>1. /\ UNCHANGED <<files, loaded, enabled, was, detached, script, status>>
        /\ proc # Stopped
        /\ proc' = Waiting \/ proc' = Snapshot
    BY <1>8, NotRunning DEF ServiceFalls, ServiceReturns, rollback, ghost
  <2>2. OldImage' = OldImage
    BY <2>1 DEF OldImage
  <2>3. ASSUME detached = {}, status = 0, script = "end" PROVE Snapshot = OldImage
    <3>1. \A f \in Files : files[f] = was.files[f]
      BY <1>0, <2>3, PassedNames DEF RInv, RestoredSoFar, Loose
    <3> QED BY <1>0, <2>3, <3>1, SnapshotIsOld DEF ServiceSoFar
  <2> QED BY <1>0, <2>1, <2>2, <2>3, NotRunning DEF ServiceSoFar
<1>9. CASE UNCHANGED vars
  BY <1>3, <1>9 DEF vars, host, service, rollback, ghost
<1> QED BY <1>1, <1>2, <1>4, <1>5, <1>6, <1>7, <1>8, <1>9 DEF Next

\* A rollback that reports success, with nothing left running on the host, leaves the unit
\* enabled or not as it was and no process of anything but the old installation.
THEOREM RollbackRestoresService == Spec => []ServiceRestored
<1>1. Init => SInv
  <2> SUFFICES ASSUME Init PROVE SInv
    OBVIOUS
  <2>1. script = "none"
    BY DEF Init
  <2> QED BY <2>1, InitRestored DEF SInv, ServiceSoFar
<1>2. SInv => ServiceRestored
  BY DEF SInv, RInv, Verdict, ServiceSoFar, ServiceRestored, OldImage
<1> QED BY <1>1, <1>2, NextService, PTL DEF Spec
===============================================================================
