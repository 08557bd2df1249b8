-------------------------------- MODULE Doctor --------------------------------
(***************************************************************************)
(* quick doctor and the terminal's doctor screen (quick_op_doctor in       *)
(* core/ops.c).  What the checks find is left open; followed is the deep   *)
(* check, which deploys a site of its own, asks for its pages, and has to  *)
(* leave nothing behind, whatever fails and whenever the user gives up.    *)
(* Only the screen passes a flag that cancels what is running; ssh is      *)
(* stopped then, and what it started on the host may go on.                *)
(***************************************************************************)
EXTENDS DeployCommand

VARIABLE doctor     \* per process: the request, and what its deep check has left where

NoDoctor == [tui |-> FALSE, remote |-> FALSE, deep |-> FALSE, cancel |-> FALSE, curl |-> FALSE,
             ok |-> TRUE,           \* result.ok: no check has failed
             temp |-> FALSE,        \* the temporary directory is there
             site |-> "none",       \* the diagnostic site on the host
             running |-> FALSE,     \* an activate that nobody waits for
             probed |-> FALSE, interrupted |-> FALSE, deleted |-> FALSE,
             said |-> "none"]       \* the deep check's result

othersOfDoctor == <<req, typed, told, done, hosts, config, json, deployVars>>

\* a check with the result of this process; a failed one is not ok
Checked(p, passed) == [doctor[p] EXCEPT !.ok = @ /\ passed]
Says(d, said) == [d EXCEPT !.said = said, !.ok = @ /\ said \notin {"fail", "cleanup-failed"}]

\* the ssh of a request that can be cancelled is stopped, or not started
Cancelled(p) == doctor[p].tui /\ doctor[p].cancel

(* app_cmd_doctor: with --quiet it does nothing at all, and it goes on     *)
(* without the profiles when their file cannot be read.                    *)
DoctorPlan(profile, site) ==
    Resolve([NoOverrides EXCEPT !.profile = profile, !.site = site],
            ShellEnv, json, NoFile, None, Loaded(config))

DoctorStart(p, args, quiet) ==
    /\ plan' = [plan EXCEPT ![p] = DoctorPlan(Value(args, "--profile"), Value(args, "--site"))]
    /\ Ends(p, IF quiet THEN "ok" ELSE "checks")
    /\ doctor' = [doctor EXCEPT ![p] = [NoDoctor EXCEPT
                    !.remote = Flag(args, "--remote") \/ Value(args, "--profile") # None,
                    !.deep = Flag(args, "--deep")]]
    /\ UNCHANGED othersOfDoctor

\* quick_tui_doctor_select_profile: no menu where there is one profile at most
ScreenProfiles ==
    LET mem == Loaded(config)
    IN  IF Count(mem) > 1 THEN {n \in Names : mem.profiles[n] # None}
        ELSE {IF mem.default = None THEN Local ELSE mem.default}

(* quick_tui_screen_doctor: local, remote or deep, the last two for one of *)
(* the profiles; the fourth choice shows the host's statistics.            *)
DoctorScreen(p) ==
    /\ at[p] = "doctor"
    /\ \/ Ends(p, "closed") /\ UNCHANGED <<plan, doctor>>
       \/ \E scope \in {"local", "remote", "deep"}, n \in ScreenProfiles :
             /\ Ends(p, "checks")
             /\ plan' = [plan EXCEPT ![p] = DoctorPlan(IF scope = "local" THEN None ELSE n, None)]
             /\ doctor' = [doctor EXCEPT ![p] = [NoDoctor EXCEPT !.tui = TRUE,
                                !.remote = scope # "local", !.deep = scope = "deep"]]
    /\ UNCHANGED othersOfDoctor

\* Ctrl-C in the terminal front end
Cancel(p) ==
    /\ doctor[p].tui /\ at[p] \in {"checks", "remote", "probe", "deep", "doctor-transfer",
                                   "doctor-activate", "doctor-probe", "doctor-delete"}
    /\ ~doctor[p].cancel
    /\ doctor' = [doctor EXCEPT ![p].cancel = TRUE]
    /\ UNCHANGED <<at, plan, othersOfDoctor>>

\* a plan without a host, or no plan
HasHost(p) == IF plan[p].ok THEN plan[p].ssh # None ELSE FALSE

\* is the next thing the deep check
AfterProbe(p) == IF doctor[p].deep THEN "deep" ELSE "ok"

\* versions, rsync, ssh, quick.json, the label, the output, the ignore file; then curl
LocalChecks(p) ==
    /\ at[p] = "checks"
    /\ Ends(p, IF doctor[p].remote THEN "remote" ELSE "probe")
    /\ \E passed, curl \in BOOLEAN :
          doctor' = [doctor EXCEPT ![p] = [Checked(p, passed /\ plan[p].ok) EXCEPT !.curl = curl]]
    /\ UNCHANGED <<plan, othersOfDoctor>>

\* quickd doctor and quickd admin stats on the host, where there is one
RemoteChecks(p) ==
    /\ at[p] = "remote"
    /\ IF HasHost(p)
       THEN IF Cancelled(p)
            THEN Ends(p, "interrupted") /\ doctor' = [doctor EXCEPT ![p] = Checked(p, FALSE)]
            ELSE /\ Ends(p, "probe")
                 /\ \E passed \in BOOLEAN : doctor' = [doctor EXCEPT ![p] = Checked(p, passed)]
       ELSE Ends(p, "probe") /\ UNCHANGED doctor
    /\ UNCHANGED <<plan, othersOfDoctor>>

\* quick_doctor_probe_http; without curl it is a warning
HttpProbe(p) ==
    /\ at[p] = "probe"
    /\ Ends(p, AfterProbe(p))
    /\ \E passed \in BOOLEAN :
          /\ ~doctor[p].curl \/ ~plan[p].ok => passed
          /\ doctor' = [doctor EXCEPT ![p] = Checked(p, passed)]
    /\ UNCHANGED <<plan, othersOfDoctor>>

(***************************************************************************)
(* The deep check, quick_doctor_run_deep.                                  *)
(***************************************************************************)
\* how it ends: the temporary directory goes, and a cancelled one is an error
Leave(p, d, code) ==
    /\ Ends(p, code)
    /\ doctor' = [doctor EXCEPT ![p] = [d EXCEPT !.temp = FALSE]]

(* Without a host: a site below the local root, removed in any case, or    *)
(* nothing (quick_doctor_try_local_deep).  Without curl: nothing.          *)
DeepLocal(p) ==
    /\ at[p] = "deep"
    /\ ~(HasHost(p) /\ doctor[p].curl)
    /\ \E said \in CASE HasHost(p) -> {"warn"}
                     [] plan[p].ok /\ ~HasHost(p) /\ plan[p].profile = Local /\ doctor[p].curl ->
                          {"ok", "fail", "skip"}
                     [] OTHER -> {"skip"} :
          Leave(p, Says(doctor[p], said), "ok")
    /\ UNCHANGED <<plan, othersOfDoctor>>

\* the temporary site, then quickd deploy prepare
DeepPrepare(p) ==
    /\ at[p] = "deep" /\ HasHost(p) /\ doctor[p].curl
    /\ \/ /\ ~Cancelled(p)
          /\ Ends(p, "doctor-transfer")
          /\ doctor' = [doctor EXCEPT ![p] = [@ EXCEPT !.temp = TRUE, !.site = "staged"]]
       \/ \E left \in {"none", "staged"} :
             Leave(p, [Says(doctor[p], "fail") EXCEPT !.site = left],
                   IF Cancelled(p) THEN "interrupted" ELSE "ok")
    /\ UNCHANGED <<plan, othersOfDoctor>>

\* rsync; a failed one leaves the staging directory to the host's cleanup
DeepTransfer(p) ==
    /\ at[p] = "doctor-transfer"
    /\ \/ ~Cancelled(p) /\ Ends(p, "doctor-activate") /\ UNCHANGED doctor
       \/ Leave(p, Says(doctor[p], "fail"), IF Cancelled(p) THEN "interrupted" ELSE "ok")
    /\ UNCHANGED <<plan, othersOfDoctor>>

\* how far activate gets is not looked at: the probe will tell
DeepActivate(p) ==
    /\ at[p] = "doctor-activate"
    /\ \/ /\ ~Cancelled(p)
          /\ Ends(p, "doctor-probe")
          /\ \E site \in {"staged", "live"}, running \in BOOLEAN :
                /\ running => site = "staged"
                /\ doctor' = [doctor EXCEPT ![p].site = site, ![p].running = running]
       \/ /\ Cancelled(p)
          /\ Ends(p, "doctor-delete")
          /\ \E running \in BOOLEAN :
                doctor' = [doctor EXCEPT ![p].interrupted = TRUE, ![p].running = running]
    /\ UNCHANGED <<plan, othersOfDoctor>>

\* an activate whose ssh is gone finishes, or finds that the site has been removed
HostActivates(p) ==
    /\ doctor[p].running
    /\ \E site \in {doctor[p].site} \cup (IF doctor[p].site = "staged" THEN {"live"} ELSE {}) :
          doctor' = [doctor EXCEPT ![p].running = FALSE, ![p].site = site]
    /\ UNCHANGED <<at, plan, othersOfDoctor>>

DeepProbe(p) ==
    /\ at[p] = "doctor-probe"
    /\ Ends(p, "doctor-delete")
    /\ \E answers \in {FALSE, doctor[p].site = "live"} :
          doctor' = [doctor EXCEPT ![p].probed = answers]
    /\ UNCHANGED <<plan, othersOfDoctor>>

\* Mutant: that ssh ran is enough, whatever quickd sites delete returned.
Deleted_Ran(answered, succeeded) == answered

\* quick_doctor_delete_remote_temp_site: the answer came, and it was not an error
Deleted(answered, succeeded) == answered /\ succeeded

\* with or without an activate before it; the delete itself cannot be cancelled
DeepDelete(p) ==
    /\ at[p] = "doctor-delete"
    /\ \E answered, succeeded \in BOOLEAN :
          LET gone == Deleted(answered, succeeded)
              d == [doctor[p] EXCEPT !.site = IF succeeded THEN "none" ELSE @, !.deleted = gone]
          IN  Leave(p, Says(d, CASE ~gone -> "cleanup-failed"
                                 [] gone /\ d.probed /\ ~d.interrupted /\ ~Cancelled(p) -> "ok"
                                 [] OTHER -> "fail"),
                    IF d.interrupted \/ Cancelled(p) THEN "interrupted" ELSE "ok")
    /\ UNCHANGED <<plan, othersOfDoctor>>

DoctorStep(p) ==
    \/ DoctorScreen(p) \/ Cancel(p) \/ LocalChecks(p) \/ RemoteChecks(p) \/ HttpProbe(p)
    \/ DeepLocal(p) \/ DeepPrepare(p) \/ DeepTransfer(p) \/ DeepActivate(p) \/ HostActivates(p)
    \/ DeepProbe(p) \/ DeepDelete(p)
===============================================================================
