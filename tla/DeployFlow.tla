----------------------------- MODULE DeployFlow -----------------------------
(***************************************************************************)
(* Deploy as the terminal front end asks for it (tui/tui_screen_deploy.c): *)
(* path, profile, a host where the profile has none, names, the plan, and  *)
(* up to three attempts, with a question between them for a site that      *)
(* another deployer published last and for a host that is not published.   *)
(* The host's side of one attempt is in DeploySession and HostDeploy; here *)
(* it is one step with the outcomes that the caller can tell apart.        *)
(***************************************************************************)
EXTENDS Onboarding

VARIABLES
    deploy,         \* what has been answered so far
    hosts,          \* per host: is it published, and who deployed each site last
    records         \* .quick/deployments: per root and profile, the site deployed

deployVars == <<deploy, hosts, records>>
othersVars == <<tty, file, project, child, trips>>

NoDeploy == [path |-> <<>>, site |-> None, profile |-> None, plan |-> NoPlan,
             attempt |-> "none", allow |-> FALSE, confirmed |-> FALSE]

\* the overrides of the plan, before and after the names are asked for
PlanBefore == PlanIn(project, deploy.path,
                     [NoOverrides EXCEPT !.site = deploy.site, !.profile = deploy.profile])
PlanNamed(profile, site, subdomain) ==
    PlanIn(project, deploy.path,
           [NoOverrides EXCEPT !.profile = profile, !.site = site, !.subdomain = subdomain])

(***************************************************************************)
(* The questions before the plan.                                          *)
(***************************************************************************)
\* quick_tui_screen_deploy, and quick_tui_screen_deploy_site with a site
OpenDeploy(site) ==
    /\ Reload
    /\ deploy' = [NoDeploy EXCEPT !.site = site]
    /\ at' = IF site = None /\ project[<<>>].json = NoFile THEN "deploy.path" ELSE "deploy.profile"

\* a blank line is the path ".", which is not the same as no path
DeployPath ==
    /\ at = "deploy.path"
    /\ \E input \in Input(Dirs \ {<<>>}) :
          /\ deploy' = [deploy EXCEPT !.path = IF input \in {None, NoInput} THEN Dot ELSE input]
          /\ at' = IF input = NoInput THEN "loop" ELSE "deploy.profile"
    /\ UNCHANGED <<othersVars, mem, onboardingVars, hosts, records>>

\* quick_tui_select_profile: no menu where there is no profile
DeployProfile ==
    /\ at = "deploy.profile"
    /\ \E n \in IF Count(mem) = 0 THEN {DefaultName}
                ELSE Modal({m \in Names : mem.profiles[m] # None}, None) :
          LET plan == PlanIn(project, deploy.path,
                             [NoOverrides EXCEPT !.site = deploy.site, !.profile = n])
          IN  /\ deploy' = [deploy EXCEPT !.profile = n]
              /\ at' = CASE n = None \/ ~plan.ok -> "loop"
                         [] plan.ok /\ plan.ssh = None -> "deploy.host"
                         [] OTHER -> "deploy.site"
    /\ UNCHANGED <<othersVars, mem, onboardingVars, hosts, records>>

\* quick_tui_choose_deploy_host_setup and the way into the host screens
DeployHost ==
    /\ at = "deploy.host"
    /\ \E choice \in Modal({"CHOOSE_CONNECT", "CHOOSE_INSTALL"}, None) :
          \/ /\ choice = None
             /\ at' = "loop" /\ UNCHANGED <<mem, onboardingVars>>
          \/ /\ choice # None
             /\ OpenHost(NewModel, [NoValues EXCEPT !.profile = deploy.profile], choice)
             /\ caller' = "deploy.saved"
    /\ UNCHANGED <<othersVars, deployVars>>

\* quick_tui_rescue_deploy_host goes on only with a profile that now has a host
DeploySaved ==
    /\ at = "deploy.saved"
    /\ IF model.state = "COMPLETE"
       THEN /\ Reload
            /\ at' = IF PlanBefore.ok /\ PlanBefore.ssh # None THEN "deploy.site" ELSE "loop"
       ELSE at' = "loop" /\ UNCHANGED mem
    /\ UNCHANGED <<othersVars, onboardingVars, deployVars>>

(* quick_tui_prompt_slug asks up to three times: what counts is the last *)
(* answer, a label or nothing.                                           *)
PromptSlug(current) ==
    {Slugged(Kept(input, current)) : input \in Input(TypedSites) \ {NoInput}} \cup {None}

DeployNames ==
    /\ at = "deploy.site"
    /\ \E site \in PromptSlug(PlanBefore.site), subdomain \in PromptSlug(PlanBefore.subdomain) :
          LET plan == PlanNamed(deploy.profile, site, subdomain)
          IN  IF site = None \/ subdomain = None \/ ~plan.ok
              THEN at' = "loop" /\ UNCHANGED deploy
              ELSE at' = "deploy.plan" /\ deploy' = [deploy EXCEPT !.plan = plan]
    /\ UNCHANGED <<othersVars, mem, onboardingVars, hosts, records>>

\* quick_tui_confirm_plan
DeployPlan ==
    /\ at = "deploy.plan"
    /\ \E yes \in Confirm :
          /\ at' = IF yes THEN "deploy.run" ELSE "loop"
          /\ deploy' = [deploy EXCEPT !.attempt = IF yes THEN "first" ELSE @]
    /\ UNCHANGED <<othersVars, mem, onboardingVars, hosts, records>>

(***************************************************************************)
(* quick_op_deploy_execute, by what the caller can see of it.              *)
(***************************************************************************)
Recorded(plan) == records[RootOf(deploy.path, plan)][plan.profile] # None

\* quick_deploy_first_bootstrap_check: skipped where a deployment is on record
PublicationIssue(plan, allow) ==
    ~Recorded(plan) /\ ~allow /\ ~hosts[plan.ssh].published

\* the last deployer on the host is another one, and nobody agreed to replace it
MustConfirm(plan, confirmed) ==
    hosts[plan.ssh].by[plan.site] = "other" /\ ~confirmed

(* Whether the release is live and whether the caller is told: "lost" is an *)
(* activate whose answer did not come, and a signal after activate reports  *)
(* a cancelled deploy all the same.                                         *)
Outcomes(plan, allow, confirmed) ==
    IF PublicationIssue(plan, allow)
    THEN {"publication", "failed"}
    ELSE IF MustConfirm(plan, confirmed)
    THEN {"overwrite", "failed"}
    ELSE {"ok", "failed", "lost"}

Live(plan) == [hosts EXCEPT ![plan.ssh].by[plan.site] = "me"]

DeployAttempt ==
    /\ at = "deploy.run"
    /\ LET plan == deploy.plan
       IN  \E outcome \in IF Attentive THEN Outcomes(plan, deploy.allow, deploy.confirmed)
                          ELSE {"cancelled"} \cup
                               (IF "ok" \in Outcomes(plan, deploy.allow, deploy.confirmed)
                                THEN {"lost"} ELSE {}) :
             /\ hosts' = IF outcome \in {"ok", "lost"} THEN Live(plan) ELSE hosts
             /\ records' = IF outcome = "ok"
                           THEN [records EXCEPT ![RootOf(deploy.path, plan)][plan.profile] = plan.site]
                           ELSE records
             /\ at' = CASE outcome = "overwrite" /\ deploy.attempt = "first" -> "deploy.overwrite"
                        [] outcome = "publication" /\ deploy.attempt # "last" -> "deploy.publish"
                        [] OTHER -> "loop"
    /\ UNCHANGED <<othersVars, mem, onboardingVars, deploy>>

(***************************************************************************)
(* quick_tui_run_deploy: the questions between the attempts.  The overwrite *)
(* is asked about after the first attempt alone.                           *)
(***************************************************************************)
AskOverwrite ==
    /\ at = "deploy.overwrite"
    /\ \E typed \in Input(TypedSites) :
          \/ /\ typed = deploy.plan.site
             /\ at' = "deploy.run"
             /\ deploy' = [deploy EXCEPT !.attempt = "second", !.confirmed = TRUE]
          \/ /\ typed # deploy.plan.site
             /\ at' = "loop" /\ UNCHANGED deploy
    /\ UNCHANGED <<othersVars, mem, onboardingVars, hosts, records>>

AskPublication ==
    /\ at = "deploy.publish"
    /\ \E anyway \in Confirm :
          \/ /\ anyway
             /\ at' = "deploy.run"
             /\ deploy' = [deploy EXCEPT !.attempt = "last", !.allow = TRUE]
          \/ /\ ~anyway
             /\ at' = "loop" /\ UNCHANGED deploy
    /\ UNCHANGED <<othersVars, mem, onboardingVars, hosts, records>>

(* Another deployer publishes the site, or an admin the host, while this *)
(* one is being asked (BOUND: only then).                                *)
Others ==
    /\ at \in {"deploy.plan", "deploy.overwrite", "deploy.publish"}
    /\ \/ hosts' = [hosts EXCEPT ![deploy.plan.ssh].by[deploy.plan.site] = "other"]
       \/ hosts' = [hosts EXCEPT ![deploy.plan.ssh].published = ~@]
    /\ UNCHANGED <<at, othersVars, mem, onboardingVars, deploy, records>>
=============================================================================
