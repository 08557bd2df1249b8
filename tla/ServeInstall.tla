----------------------------- MODULE ServeInstall -----------------------------
(***************************************************************************)
(* `quick serve install --execute` (quick_op_serve_install in              *)
(* src/core/ops.c): one client installs quickd on a host over ssh, one     *)
(* remote command after the other, and puts the previous installation back *)
(* when a command fails, is interrupted, or the host doctor complains.     *)
(*                                                                         *)
(* The host is the four files the install replaces, the systemd service    *)
(* and the directory /tmp/openquick-install.XXXXXX with the backup.  An    *)
(* ssh that fails or is killed says nothing of the remote command: it did  *)
(* not run, ran halfway or to its end, or is still running.                *)
(***************************************************************************)
VARIABLES
    \* the host
    files,      \* the files the install replaces
    loaded,     \* the unit systemd has read
    enabled,    \* whether the unit is enabled
    proc,       \* what the service was started from, or why it does not run
    onPath,     \* whether it executes the very file /usr/local/bin/quickd
    tmp,        \* whether the directory of mktemp exists
    saved,      \* the backup in it
    extras,     \* whether accounts or directories of the install were made
    late,       \* commands that nobody waits for any more
    script,     \* the step the rollback script is at
    status,     \* its $status
    \* the client
    pc,         \* the next remote command
    cancel,     \* the cancel_flag
    known,      \* whether remote_tmp_dir is set
    result,     \* quick_install_result_t
    \* for the properties
    was,        \* the host before
    detached    \* the commands ever left running

service == <<loaded, enabled, proc, onPath>>
backup == <<tmp, saved>>
rollback == <<script, status>>
host == <<files, service, backup, extras>>
client == <<pc, cancel, known, result>>
ghost == <<was, detached>>
vars == <<host, late, rollback, client, ghost>>

Files == {"quickd", "config", "rootConfig", "unit"}
Contents == {"absent", "old", "new", "torn"}
\* What a running service was started from.
Image == {"quickd", "config", "unit"}
Runs == [Image -> Contents]
Stopped == [i \in Image |-> "stopped"]
Waiting == [i \in Image |-> "waiting"]   \* fell over; Restart=on-failure starts it again
Procs == Runs \cup {Stopped, Waiting}

\* The remote commands, those that change nothing by themselves (the probes) or only
\* ownership and modes put together, and what follows each.
After ==
    [probe |-> "mktemp", mktemp |-> "backup", backup |-> "accounts", accounts |-> "directories",
     directories |-> "scp", scp |-> "install", install |-> "config", config |-> "rootConfig",
     rootConfig |-> "modes", modes |-> "unit", unit |-> "reload", reload |-> "enable",
     enable |-> "restart", restart |-> "group", group |-> "doctor", doctor |-> "done"]
Commands == DOMAIN After
Steps == Commands \cup {"done"}

\* The steps a phase begins with: there the cancel flag is looked at.
Opening == {"probe", "mktemp", "accounts", "directories", "scp", "config", "unit", "enable",
            "doctor", "done"}

\* The file a command writes.
Target == [install |-> "quickd", config |-> "config", rootConfig |-> "rootConfig", unit |-> "unit"]

\* The rollback script.
RollbackAfter ==
    [stop |-> "quickd", quickd |-> "config", config |-> "rootConfig", rootConfig |-> "unit",
     unit |-> "reload", reload |-> "enable", enable |-> "restart", restart |-> "end"]
RollbackSteps == DOMAIN RollbackAfter \cup {"end"}

NotSaved == "unsaved"
Saves == [file : [Files -> Contents \cup {NotSaved}], enabled : BOOLEAN, active : BOOLEAN]
NoBackup == [file |-> [f \in Files |-> NotSaved], enabled |-> FALSE, active |-> FALSE]

TypeOK ==
    /\ files \in [Files -> Contents]
    /\ loaded \in Contents
    /\ enabled \in BOOLEAN
    /\ proc \in Procs
    /\ onPath \in BOOLEAN
    /\ tmp \in BOOLEAN
    /\ saved \in Saves
    /\ extras \in BOOLEAN
    /\ late \in SUBSET Commands
    /\ script \in RollbackSteps \cup {"none"}
    /\ status \in {0, 1}
    /\ pc \in Steps \cup {"cleanup", "rollback", "over", "dead"}
    /\ cancel \in BOOLEAN
    /\ known \in BOOLEAN
    /\ result \in [mutation_started : BOOLEAN, backup_created : BOOLEAN, completed : BOOLEAN,
                   rollback : {"no", "ok", "failed"}, partial_cleanup_remains : BOOLEAN]
    /\ was \in [files : [Files -> Contents], enabled : BOOLEAN]
    /\ detached \in SUBSET Commands

\* A host that never had quickd, or has the files of an earlier install, all or in part.
Init ==
    /\ files \in [Files -> {"absent", "old"}]
    /\ loaded = files["unit"]
    /\ enabled \in IF loaded = "old" THEN BOOLEAN ELSE {FALSE}
    /\ proc \in {Stopped} \cup IF loaded = "old" /\ files["quickd"] = "old"
                               THEN {[i \in Image |-> files[i]]}
                               ELSE {}
    /\ onPath = (proc # Stopped)
    /\ tmp = FALSE /\ saved = NoBackup /\ extras = FALSE
    /\ late = {} /\ script = "none" /\ status = 0
    /\ pc = "probe" /\ cancel = FALSE /\ known = FALSE
    /\ result = [mutation_started |-> FALSE, backup_created |-> FALSE, completed |-> FALSE,
                 rollback |-> "no", partial_cleanup_remains |-> FALSE]
    /\ was = [files |-> files, enabled |-> enabled]
    /\ detached = {}

(***************************************************************************)
(* The service                                                             *)
(***************************************************************************)
Snapshot == [i \in Image |-> IF i = "unit" THEN loaded ELSE files[i]]
Startable == files["quickd"] \in {"old", "new"} /\ loaded \in {"old", "new"}

\* The process comes up or falls over at once; Type=simple reports neither.
StartService ==
    \/ Startable /\ proc' = Snapshot /\ onPath' = TRUE
    \/ proc' = Waiting /\ onPath' = FALSE

StopService == proc' = Stopped /\ onPath' = FALSE

ServiceFalls ==
    /\ proc \in Runs
    /\ proc' = Waiting /\ onPath' = FALSE
    /\ UNCHANGED <<files, loaded, enabled, backup, extras, late, rollback, client, ghost>>

ServiceReturns ==
    /\ proc = Waiting
    /\ Startable
    /\ proc' = Snapshot /\ onPath' = TRUE
    /\ UNCHANGED <<files, loaded, enabled, backup, extras, late, rollback, client, ghost>>

(***************************************************************************)
(* What the remote commands do                                             *)
(***************************************************************************)
Write(f, content) == files' = [files EXCEPT ![f] = content]

\* The backup script copies or notes the absence of each file, then asks systemd.
SaveAll ==
    saved' = [file |-> files, enabled |-> enabled, active |-> proc \in Runs]
SaveSome ==
    \E S \in SUBSET Files :
        saved' = [NoBackup EXCEPT !.file = [f \in Files |-> IF f \in S THEN files[f] ELSE NotSaved]]

\* ssh_verify, remote_compat, privilege_check and the doctor only ask; chown, chgrp and
\* chmod change nothing that is modelled.
Ask(s) ==
    /\ s \in {"probe", "modes", "group", "doctor"}
    /\ UNCHANGED host

MakeTemp(s) ==
    /\ s \in {"mktemp", "scp"}
    /\ tmp' = TRUE
    /\ UNCHANGED <<files, service, saved, extras>>

TakeBackup(s) ==
    /\ s = "backup"
    /\ tmp' = TRUE /\ SaveAll
    /\ UNCHANGED <<files, service, extras>>

\* groupadd, useradd, usermod
AddAccounts(s) ==
    /\ s = "accounts"
    /\ extras' = TRUE
    /\ UNCHANGED <<files, service, backup>>

MakeDirectories(s) ==
    /\ s = "directories"
    /\ extras' = TRUE
    /\ UNCHANGED <<files, service, backup>>

\* install(1) unlinks the old file first; the copy in the temporary directory is removed.
InstallQuickd(s) ==
    /\ s = "install"
    /\ Write("quickd", "new") /\ onPath' = FALSE
    /\ UNCHANGED <<loaded, enabled, proc, backup, extras>>

\* sudo tee
Tee(s) ==
    /\ s \in {"config", "rootConfig", "unit"}
    /\ Write(s, "new")
    /\ UNCHANGED <<service, backup, extras>>

Reload(s) ==
    /\ s = "reload"
    /\ loaded' = files["unit"]
    /\ UNCHANGED <<files, enabled, proc, onPath, backup, extras>>

Enable(s) ==
    /\ s = "enable"
    /\ enabled' = TRUE
    /\ UNCHANGED <<files, loaded, proc, onPath, backup, extras>>

Restart(s) ==
    /\ s = "restart"
    /\ StartService
    /\ UNCHANGED <<files, loaded, enabled, backup, extras>>

Effect(s) ==
    \/ Ask(s) \/ MakeTemp(s) \/ TakeBackup(s) \/ AddAccounts(s) \/ MakeDirectories(s)
    \/ InstallQuickd(s) \/ Tee(s) \/ Reload(s) \/ Enable(s) \/ Restart(s)

\* Cut short: a file that is half written, a service that is only stopped.
PartEffect(s) ==
    \/ /\ s \in DOMAIN Target
       /\ Write(Target[s], "torn")
       /\ onPath' = (onPath /\ s # "install")
       /\ UNCHANGED <<loaded, enabled, proc, backup, extras>>
    \/ /\ s = "backup"
       /\ tmp' = TRUE /\ SaveSome
       /\ UNCHANGED <<files, service, extras>>
    \/ /\ s \in {"accounts", "directories"}
       /\ extras' = TRUE
       /\ UNCHANGED <<files, service, backup>>
    \/ /\ s = "restart"
       /\ StopService
       /\ UNCHANGED <<files, loaded, enabled, backup, extras>>

\* A command left running gets as far as it gets.
LateCommand(s) ==
    /\ s \in late
    /\ late' = late \ {s}
    /\ Effect(s) \/ PartEffect(s) \/ UNCHANGED host
    /\ UNCHANGED <<rollback, client, ghost>>

(***************************************************************************)
(* The client                                                              *)
(***************************************************************************)
\* quick_install_begin_phase: the flag is looked at before a phase, not before a command.
Stopping(s) == cancel /\ s \in Opening

\* Mutant: mutation_started is set once quickd is installed.
Started_Installed(s) == s = "config" \/ result.mutation_started

\* mutation_started is set as the user setup begins.
Started(s) == s = "accounts" \/ result.mutation_started

\* Mutant: systemctl start, which leaves a running service alone.
Succeeds_Start(s) ==
    /\ pc = s
    /\ ~cancel
    /\ IF s = "restart" /\ proc \in Runs THEN UNCHANGED host ELSE Effect(s)
    /\ pc' = After[s]
    /\ known' = (known \/ s = "mktemp")
    /\ result' = [result EXCEPT !.mutation_started = Started(s),
                                !.backup_created = @ \/ s = "backup"]
    /\ UNCHANGED <<late, rollback, cancel, ghost>>

\* The command exits with 0 and nobody pressed Ctrl-C while it ran.
Succeeds(s) ==
    /\ pc = s
    /\ ~cancel
    /\ Effect(s)
    /\ pc' = After[s]
    /\ known' = (known \/ s = "mktemp")
    /\ result' = [result EXCEPT !.mutation_started = Started(s),
                                !.backup_created = @ \/ s = "backup"]
    /\ UNCHANGED <<late, rollback, cancel, ghost>>

\* The label cleanup: rollback after the first mutation, removal of the temporary
\* directory before it, nothing if there is none.
Unwind(started) ==
    pc' = IF started THEN "rollback" ELSE IF known THEN "cleanup" ELSE "over"

\* The command fails, or its ssh is killed or loses the connection: however far it got.
Fails(s) ==
    /\ pc = s
    /\ ~Stopping(s)
    /\ Effect(s) \/ PartEffect(s) \/ UNCHANGED host
    /\ result' = [result EXCEPT !.mutation_started = Started(s)]
    /\ Unwind(Started(s))
    /\ UNCHANGED <<late, rollback, cancel, known, ghost>>

\* The same, and the command still runs.
LeftRunning(s) ==
    /\ pc = s /\ s # "probe"
    /\ ~Stopping(s)
    /\ late' = late \cup {s}
    /\ detached' = detached \cup {s}
    /\ result' = [result EXCEPT !.mutation_started = Started(s)]
    /\ Unwind(Started(s))
    /\ UNCHANGED <<host, rollback, cancel, known, was>>

\* Cancelled before a phase, the last one included.
StopsBefore(s) ==
    /\ pc = s
    /\ Stopping(s)
    /\ Unwind(result.mutation_started)
    /\ UNCHANGED <<host, late, rollback, cancel, known, result, ghost>>

Done ==
    /\ pc = "done"
    /\ ~cancel
    /\ pc' = "over"
    /\ result' = [result EXCEPT !.completed = TRUE]
    /\ UNCHANGED <<host, late, rollback, cancel, known, ghost>>

\* Ctrl-C in the TUI; `quick serve install` has no cancel flag and dies of it.
Cancel ==
    /\ ~cancel
    /\ pc \notin {"over", "dead"}
    /\ cancel' = TRUE
    /\ UNCHANGED <<host, late, rollback, pc, known, result, ghost>>

ClientDies ==
    /\ pc \notin {"over", "dead"}
    /\ pc' = "dead"
    /\ late' = IF pc \in Commands \ {"probe"} THEN late \cup {pc} ELSE late
    /\ detached' = detached \cup (late' \ late)
    /\ UNCHANGED <<host, rollback, cancel, known, result, was>>

(***************************************************************************)
(* Before the first mutation: the temporary directory is removed           *)
(***************************************************************************)
CleanUp ==
    /\ pc = "cleanup"
    /\ tmp' = FALSE /\ saved' = NoBackup
    /\ result' = [result EXCEPT !.backup_created = FALSE]
    /\ pc' = "over"
    /\ UNCHANGED <<files, service, extras, late, rollback, cancel, known, ghost>>

\* Some of it is left, or its end was not seen.
CleanUpFails ==
    /\ pc = "cleanup"
    /\ tmp' \in BOOLEAN
    /\ saved' = NoBackup
    /\ result' = [result EXCEPT !.partial_cleanup_remains = TRUE]
    /\ pc' = "over"
    /\ UNCHANGED <<files, service, extras, late, rollback, cancel, known, ghost>>

(***************************************************************************)
(* After it: the rollback script, which does not stop at a step that fails *)
(***************************************************************************)
RollbackBegins ==
    /\ pc = "rollback" /\ script = "none" /\ result.rollback = "no"
    /\ script' = "stop"
    /\ UNCHANGED <<host, late, status, client, ghost>>

ScriptGoes(ok) ==
    /\ script' = RollbackAfter[script]
    /\ status' = IF ok THEN status ELSE 1

\* Nothing to restore it to, so the service is stopped first.
RestoreStop ==
    /\ script = "stop"
    /\ IF saved.file["unit"] = "absent"
       THEN enabled' = FALSE /\ StopService
       ELSE UNCHANGED <<enabled, proc, onPath>>
    /\ ScriptGoes(TRUE)
    /\ UNCHANGED <<files, loaded, backup, extras, late, client, ghost>>

\* Mutant: the copy below the root is forgotten.
RestoreFile_NotRoot(f) ==
    /\ script = f
    /\ IF f # "rootConfig" THEN Write(f, saved.file[f]) ELSE UNCHANGED files
    /\ ScriptGoes(TRUE)
    /\ UNCHANGED <<service, backup, extras, late, client, ghost>>

\* cp -p or rm -f; cp cannot open a binary that is being executed.
RestoreFile(f) ==
    /\ script = f
    /\ IF f = "quickd" /\ onPath /\ saved.file[f] # "absent"
       THEN UNCHANGED files /\ ScriptGoes(FALSE)
       ELSE \/ Write(f, saved.file[f]) /\ ScriptGoes(TRUE)
            \/ UNCHANGED files /\ ScriptGoes(FALSE)
            \/ saved.file[f] # "absent" /\ Write(f, "torn") /\ ScriptGoes(FALSE)
    /\ onPath' = (onPath /\ (f = "quickd" => files'[f] # "absent"))
    /\ UNCHANGED <<loaded, enabled, proc, backup, extras, late, client, ghost>>

RestoreLoaded ==
    /\ script = "reload"
    /\ loaded' = files["unit"]
    /\ ScriptGoes(TRUE)
    /\ UNCHANGED <<files, enabled, proc, onPath, backup, extras, late, client, ghost>>

RestoreEnabled ==
    /\ script = "enable"
    /\ enabled' = IF saved.file["unit"] # "absent" THEN saved.enabled ELSE enabled
    /\ ScriptGoes(TRUE)
    /\ UNCHANGED <<files, loaded, proc, onPath, backup, extras, late, client, ghost>>

\* Mutant: a service that was running is left as it is.
RestoreRunning_LeftAlone ==
    /\ script = "restart"
    /\ IF saved.file["unit"] # "absent" /\ ~saved.active
       THEN StopService ELSE UNCHANGED <<proc, onPath>>
    /\ ScriptGoes(TRUE)
    /\ UNCHANGED <<files, loaded, enabled, backup, extras, late, client, ghost>>

RestoreRunning ==
    /\ script = "restart"
    /\ IF saved.file["unit"] # "absent"
       THEN IF saved.active THEN StartService ELSE StopService
       ELSE UNCHANGED <<proc, onPath>>
    /\ ScriptGoes(TRUE)
    /\ UNCHANGED <<files, loaded, enabled, backup, extras, late, client, ghost>>

\* Mutant: the exit status of the script is that of its last command.
RollbackReturns_LastStatus ==
    /\ pc = "rollback" /\ script = "end"
    /\ result' = [result EXCEPT !.rollback = "ok", !.partial_cleanup_remains = TRUE]
    /\ pc' = "over"
    /\ UNCHANGED <<host, late, rollback, cancel, known, ghost>>

RollbackReturns ==
    /\ pc = "rollback" /\ script = "end"
    /\ result' = [result EXCEPT !.rollback = IF status = 0 THEN "ok" ELSE "failed",
                                !.partial_cleanup_remains = TRUE]
    /\ pc' = "over"
    /\ UNCHANGED <<host, late, rollback, cancel, known, ghost>>

\* The host cannot be reached, or not any longer; a script that was sent may go on.
RollbackLost ==
    /\ pc = "rollback"
    /\ result' = [result EXCEPT !.rollback = "failed", !.partial_cleanup_remains = TRUE]
    /\ pc' = "over"
    /\ UNCHANGED <<host, late, rollback, cancel, known, ghost>>

RollbackScript ==
    \/ RestoreStop
    \/ \E f \in Files : RestoreFile(f)
    \/ RestoreLoaded \/ RestoreEnabled \/ RestoreRunning

Next ==
    \/ \E s \in Commands : Succeeds(s) \/ Fails(s) \/ LeftRunning(s) \/ LateCommand(s)
    \/ \E s \in Steps : StopsBefore(s)
    \/ Done \/ Cancel \/ ClientDies
    \/ CleanUp \/ CleanUpFails
    \/ RollbackBegins \/ RollbackScript \/ RollbackReturns \/ RollbackLost
    \/ ServiceFalls \/ ServiceReturns

Spec == Init /\ [][Next]_vars

(***************************************************************************)
(* Properties                                                              *)
(***************************************************************************)
\* README.md: "Execute mode creates a remote backup of the existing quickd
\* binary/config/unit before replacing them".  Whatever fails, is lost, goes on unwatched
\* or dies: as long as the host is not what it was, a complete backup of it is there.
Recoverable ==
    files # was.files \/ enabled # was.enabled =>
        tmp /\ saved.file = was.files /\ (was.files["unit"] # "absent" => saved.enabled = was.enabled)

\* An install that did not complete either left the files as they were or says that its
\* rollback failed; only a file whose command was left running may differ.
RestoredOrTold ==
    pc = "over" /\ ~result.completed /\ result.rollback # "failed" =>
        \A f \in Files : files[f] = was.files[f] \/ \E s \in detached \cap DOMAIN Target : Target[s] = f

\* A rollback that reports success leaves the service with the old files, or not running.
ServiceRestored ==
    pc = "over" /\ result.rollback = "ok" /\ detached = {} =>
        /\ was.files["unit"] # "absent" => enabled = was.enabled
        /\ proc \in Runs => proc = [i \in Image |-> was.files[i]]

\* A completed install has replaced everything, and the service that the doctor looked at
\* is the new one: no process of the old binary, configuration or unit goes on.
CompletedIsNew ==
    result.completed =>
        /\ \A f \in Files : files[f] = "new"
        /\ enabled
        /\ proc \in Runs => proc = [i \in Image |-> "new"]
===============================================================================
