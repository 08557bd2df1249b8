----------------------------- MODULE Onboarding -----------------------------
(***************************************************************************)
(* The guided setup of the terminal front end: its model of where the user *)
(* is (tui/tui_onboarding_model.c), the local quickstart                   *)
(* (tui/tui_onboarding.c) and the two host screens                         *)
(* (tui/tui_screen_host.c), which verify or install a host and save a      *)
(* profile for it.                                                         *)
(***************************************************************************)
EXTENDS TuiApp

CONSTANTS
    Typed,          \* the forms the user types: [profile, host, domain, iap]
    Placeholder     \* "quick@host"

ASSUME OnboardingAssumption ==
    /\ Typed \subseteq [profile : Names \cup {None}, host : Hosts \cup {None},
                         domain : Domains \cup {None}, iap : Iaps \cup {None}]
    /\ Placeholder \in SafeHosts

VARIABLES
    model,          \* state->onboarding
    values,         \* its values, which outlive the flow that set them
    form,           \* the form of the host screen
    caller,         \* where the guided setup returns to
    candidate,      \* the profile that the doctor was given, and the host it reached
    partial,        \* what this visit left on a host: "none", "residue" or "half"
    said            \* what the screen has told the user

onboardingVars == <<model, values, form, caller, candidate, partial, said>>
NoValues == [dir |-> None, site |-> None, profile |-> None, host |-> None,
             domain |-> None, iap |-> None]
NoCandidate == [name |-> None, profile |-> BlankProfile, reached |-> None, healthy |-> FALSE]

(***************************************************************************)
(* quick_onboarding_transition.  mutation is "none", "left" when changes   *)
(* were made, "undone" when a rollback has undone all of them.             *)
(***************************************************************************)
Steps == {"IDLE", "WELCOME", "LOCAL_DIRECTORY", "LOCAL_IDENTITY", "LOCAL_TEMPLATE",
          "LOCAL_REVIEW", "LOCAL_APPLY", "LOCAL_PREVIEW", "HOST_FIELDS", "HOST_REVIEW",
          "HOST_VERIFY", "HOST_INSTALL", "HOST_SAVE", "COMPLETE", "CANCELLED", "FAILED"}
Flows == {"NONE", "LOCAL", "CONNECT_HOST", "INSTALL_HOST"}
Model == [state : Steps, flow : Flows, adopt : BOOLEAN,
          mutation : {"none", "left", "undone"}, residue : BOOLEAN]
NewModel == [state |-> "IDLE", flow |-> "NONE", adopt |-> FALSE,
             mutation |-> "none", residue |-> FALSE]

Restart(m, state, flow) ==
    [m EXCEPT !.state = state, !.flow = flow, !.mutation = "none", !.residue = FALSE]

Moved(m, from, to) == IF m.state \in from THEN {[m EXCEPT !.state = to]} ELSE {}

\* an unaccepted event leaves no model in the set
Transition(m, event) ==
    CASE event = "SHOW_WELCOME" ->
            {Restart(m, "WELCOME", "NONE") : s \in {m.state} \cap {"IDLE", "CANCELLED", "COMPLETE", "FAILED"}}
      [] event \in {"CHOOSE_LOCAL", "CHOOSE_ADOPT"} ->
            {[Restart(m, "LOCAL_DIRECTORY", "LOCAL") EXCEPT !.adopt = (event = "CHOOSE_ADOPT")] :
                s \in {m.state} \cap {"WELCOME", "IDLE"}}
      [] event \in {"CHOOSE_CONNECT", "CHOOSE_INSTALL"} ->
            {Restart(m, "HOST_FIELDS", IF event = "CHOOSE_CONNECT" THEN "CONNECT_HOST" ELSE "INSTALL_HOST") :
                s \in {m.state} \cap {"WELCOME", "IDLE", "LOCAL_PREVIEW"}}
      [] event = "NEXT" ->
            Moved(m, {"LOCAL_DIRECTORY"}, "LOCAL_IDENTITY")
            \cup Moved(m, {"LOCAL_IDENTITY"}, IF m.adopt THEN "LOCAL_REVIEW" ELSE "LOCAL_TEMPLATE")
            \cup Moved(m, {"LOCAL_TEMPLATE"}, "LOCAL_REVIEW")
            \cup Moved(m, {"LOCAL_APPLY"}, "LOCAL_PREVIEW")
            \cup Moved(m, {"HOST_FIELDS"}, "HOST_REVIEW")
      [] event = "BACK" /\ m.mutation = "none" ->
            Moved(m, {"LOCAL_DIRECTORY", "HOST_FIELDS"}, "WELCOME")
            \cup Moved(m, {"LOCAL_IDENTITY"}, "LOCAL_DIRECTORY")
            \cup Moved(m, {"LOCAL_TEMPLATE"}, "LOCAL_IDENTITY")
            \cup Moved(m, {"LOCAL_REVIEW"}, IF m.adopt THEN "LOCAL_IDENTITY" ELSE "LOCAL_TEMPLATE")
            \cup Moved(m, {"HOST_REVIEW"}, "HOST_FIELDS")
      [] event = "CONFIRM" ->
            Moved(m, {"LOCAL_REVIEW"}, "LOCAL_APPLY")
            \cup (IF m.flow = "CONNECT_HOST" THEN Moved(m, {"HOST_REVIEW"}, "HOST_VERIFY") ELSE {})
            \cup (IF m.flow = "INSTALL_HOST" THEN Moved(m, {"HOST_REVIEW"}, "HOST_INSTALL") ELSE {})
      [] event = "BEGIN_MUTATION" ->
            {[m EXCEPT !.mutation = "left"] : s \in {m.state} \cap {"LOCAL_APPLY", "HOST_INSTALL"}}
      [] event = "VERIFY_OK" ->
            Moved(m, {"HOST_VERIFY", "HOST_INSTALL"}
                     \cup (IF m.flow \in {"CONNECT_HOST", "INSTALL_HOST"} THEN {"FAILED"} ELSE {}),
                  "HOST_SAVE")
      [] event = "VERIFY_FAILED" ->
            Moved(m, {"LOCAL_APPLY", "HOST_VERIFY", "HOST_INSTALL", "HOST_SAVE"}, "FAILED")
      [] event = "RETRY" ->
            {Restart(m, IF m.flow = "LOCAL" THEN "LOCAL_DIRECTORY" ELSE "HOST_FIELDS", m.flow) :
                s \in {m.state} \cap (IF m.flow = "NONE" THEN {} ELSE {"FAILED"})}
      [] event = "COMPLETE" ->
            Moved(m, {"WELCOME", "LOCAL_PREVIEW", "HOST_SAVE"}, "COMPLETE")
      [] event = "CANCEL" /\ m.mutation = "none" ->
            {[m EXCEPT !.state = "CANCELLED"]}
      [] OTHER -> {}

\* the callers that ignore what quick_onboarding_transition returns
After(m, event) ==
    LET n == Transition(m, event) IN IF n = {} THEN m ELSE CHOOSE x \in n : TRUE
Accepted(m, event) == Transition(m, event) # {}

\* quick_onboarding_note_install_result
NoteInstall(m, result, residue) ==
    [m EXCEPT !.residue = residue,
              !.mutation = CASE result = "undone" -> "undone"
                             [] result \in {"completed", "left"} -> "left"
                             [] OTHER -> "none",
              !.state = CASE result = "completed" -> "HOST_SAVE"
                          [] result = "cancelled" -> "CANCELLED"
                          [] OTHER -> "FAILED"]

(***************************************************************************)
(* The welcome menu and what it dispatches to.                             *)
(***************************************************************************)
\* quick_tui_welcome refuses to open over a flow that has not ended
OpenWelcome(return) ==
    /\ caller' = return
    /\ \/ /\ Accepted(model, "SHOW_WELCOME")
          /\ model' = After(model, "SHOW_WELCOME") /\ at' = "welcome"
       \/ /\ ~Accepted(model, "SHOW_WELCOME")
          /\ model' = After(model, "CANCEL") /\ at' = "loop"

\* quick_tui_local_quickstart up to its first prompt
ChooseLocal ==
    /\ at = "welcome"
    /\ \E event \in Modal({"CHOOSE_LOCAL", "CHOOSE_ADOPT"}, None) \ {None} :
           model' = After(model, event)
    /\ Reload
    /\ at' = "local"
    /\ values' = [values EXCEPT !.dir = IF @ = None THEN <<>> ELSE @]
    /\ UNCHANGED <<tty, file, project, child, trips, form, caller, candidate, partial, said>>

\* the dashboard, or the menu dismissed: neither comes back to the welcome menu
LeaveWelcome ==
    /\ at = "welcome"
    /\ \E event \in Modal({"COMPLETE"}, "CANCEL") : model' = After(model, event)
    /\ at' = "loop"
    /\ UNCHANGED <<tty, file, mem, project, child, trips, values, form, caller, candidate, partial, said>>

(***************************************************************************)
(* The local quickstart.                                                   *)
(***************************************************************************)
localVars == <<tty, file, mem, trips, form, caller, candidate, partial>>

LocalDirectory ==
    /\ at = "local" /\ model.state = "LOCAL_DIRECTORY"
    /\ \E input \in Input(Dirs) :
          \/ /\ input = NoInput
             /\ model' = After(model, "CANCEL") /\ at' = caller
             /\ UNCHANGED values
          \/ /\ input # NoInput
             /\ values' = [values EXCEPT !.dir = Kept(input, @)]
             /\ model' = After(model, "NEXT") /\ UNCHANGED at
    /\ UNCHANGED <<localVars, project, child, said>>

\* Mutant: leaving the dialog is no label either.
LocalIdentity_AsksAgain ==
    /\ at = "local" /\ model.state = "LOCAL_IDENTITY"
    /\ \E input \in Input(TypedSites) :
          LET slug == IF input = NoInput THEN None
                      ELSE Slugged(Kept(input, Slug[DirName[values.dir]]))
          IN  /\ values' = [values EXCEPT !.site = slug]
              /\ model' = IF slug # None THEN After(model, "NEXT") ELSE model
    /\ UNCHANGED <<at, localVars, project, child, said>>

\* the site's name starts as the directory's; a name that is no label is asked again
LocalIdentity ==
    /\ at = "local" /\ model.state = "LOCAL_IDENTITY"
    /\ LET seed == IF values.site = None THEN Slug[DirName[values.dir]] ELSE values.site
       IN  \E input \in Input(TypedSites) :
             LET slug == IF input = NoInput THEN None ELSE Slugged(Kept(input, seed))
             IN  /\ values' = [values EXCEPT !.site = IF slug = None THEN seed ELSE slug]
                 /\ model' = CASE input = NoInput -> After(model, "BACK")
                               [] slug # None -> After(model, "NEXT")
                               [] OTHER -> model
    /\ UNCHANGED <<at, localVars, project, child, said>>

\* quick_ob_choose_template: a template, or back
LocalTemplate ==
    /\ at = "local" /\ model.state = "LOCAL_TEMPLATE"
    /\ \E event \in Modal({"NEXT"}, "BACK") : model' = After(model, event)
    /\ UNCHANGED <<at, localVars, values, project, child, said>>

LocalReview ==
    /\ at = "local" /\ model.state = "LOCAL_REVIEW"
    /\ \E event \in Modal({"CONFIRM"}, "BACK") : model' = After(model, event)
    /\ UNCHANGED <<at, localVars, values, project, child, said>>

\* the scaffold, and when it is whole the dev server for it
LocalApply ==
    /\ at = "local" /\ model.state = "LOCAL_APPLY"
    /\ \E r \in InitResults(project[values.dir], values.site, values.profile, model.adopt) :
          LET begun == After(model, "BEGIN_MUTATION")
          IN  /\ project' = [project EXCEPT ![values.dir] = r[2]]
              /\ \/ /\ r[1] = "ok"
                    /\ model' = After(begun, "NEXT") /\ at' = "local.done"
                    /\ \E server \in Served(project', values.dir) :
                          /\ child' = server
                          /\ said' = IF server = None THEN "not serving" ELSE "serving"
                 \/ /\ r[1] # "ok"
                    /\ model' = After(begun, "VERIFY_FAILED") /\ at' = "local.failed"
                    /\ UNCHANGED <<child, said>>
    /\ UNCHANGED <<localVars, values>>

LocalFailed ==
    /\ at = "local.failed"
    /\ \E retry \in Confirm :
          \/ /\ retry
             /\ model' = After(model, "RETRY") /\ at' = "local"
          \/ /\ ~retry
             /\ at' = caller /\ UNCHANGED model
    /\ UNCHANGED <<localVars, values, project, child, said>>

\* quick_ob_done_key: done; the way on to a host is in OpenHost
LocalDone ==
    /\ at = "local.done"
    /\ model' = After(model, "COMPLETE") /\ at' = caller /\ said' = "none"
    /\ UNCHANGED <<localVars, values, project, child>>

(***************************************************************************)
(* The host screens: connect (verify, then save) and new host (install,    *)
(* then save).                                                             *)
(***************************************************************************)
hostVars == <<tty, project, child, trips, caller>>
Installing == model.flow = "INSTALL_HOST"

\* host_prepare_model: a screen that is already at its fields goes on there
Prepared(m, choice) ==
    LET flow == IF choice = "CHOOSE_CONNECT" THEN "CONNECT_HOST" ELSE "INSTALL_HOST"
    IN  IF m.state = "HOST_FIELDS" /\ m.flow = flow THEN m
        ELSE IF m.state \in {"IDLE", "WELCOME", "LOCAL_PREVIEW"} THEN After(m, choice)
        ELSE After(NewModel, choice)

\* host_seed_form: the values of this session before those of the profile
Seeded(v, config) ==
    LET name == First(<<v.profile, config.default, Local>>)
        saved == Find(config, name)
        p == IF saved = None THEN BlankProfile ELSE saved
    IN  [profile |-> name,
         host |-> First(<<v.host, p.ssh, Placeholder>>),
         domain |-> First(<<v.domain, p.domain>>),
         iap |-> First(<<v.iap, p.iap, "tailscale">>)]

\* what every way into host_setup_flow does before its first prompt
OpenHost(m, v, choice) ==
    /\ model' = Prepared(m, choice)
    /\ Reload
    /\ values' = v /\ form' = Seeded(v, Loaded(file))
    /\ at' = "host.fields"
    /\ partial' = "none" /\ said' = "none" /\ candidate' = NoCandidate

\* from the welcome menu, or from the preview panel ("c:connect host")
ChooseHost ==
    /\ at \in {"welcome", "local.done"} /\ Attentive
    /\ \E choice \in {"CHOOSE_CONNECT"} \cup (IF at = "welcome" THEN {"CHOOSE_INSTALL"} ELSE {}) :
          OpenHost(After(model, choice), values, choice)
    /\ UNCHANGED <<hostVars, file>>

(* host_collect after k of its prompts: another nickname brings the saved *)
(* domain of its profile, never its host.                                 *)
Collected(t, k) ==
    LET name == IF k >= 1 THEN Kept(t.profile, form.profile) ELSE form.profile
        saved == Find(mem, name)
        domain == IF name # form.profile /\ saved # None /\ saved.domain # None
                  THEN saved.domain ELSE form.domain
    IN  [profile |-> name,
         host |-> IF k >= 2 THEN Kept(t.host, form.host) ELSE form.host,
         domain |-> IF k >= 3 THEN Kept(t.domain, domain) ELSE domain,
         iap |-> IF k >= 4 THEN Kept(t.iap, form.iap) ELSE form.iap]

\* host_copy_form_to_model
Noted(f) == [values EXCEPT !.profile = f.profile, !.host = f.host,
                           !.domain = f.domain, !.iap = f.iap]

\* host_validate: SafeHosts stands for the fields that it accepts
FormValid(f) == f.host \in SafeHosts

\* BOUND: the user leaves at the first prompt or at the third
HostFields ==
    /\ at = "host.fields"
    /\ \E t \in Typed, k \in {0, 2, 4} :
          /\ k > 0 => Attentive
          /\ form' = Collected(t, k) /\ values' = Noted(form')
          /\ \/ /\ k < 4
                /\ model' = After(model, "CANCEL") /\ at' = caller
             \/ /\ k = 4 /\ ~FormValid(form')
                /\ UNCHANGED <<model, at>>
             \/ /\ k = 4 /\ FormValid(form')
                /\ model' = After(model, "NEXT") /\ at' = "host.review"
    /\ UNCHANGED <<hostVars, file, mem, candidate, partial, said>>

\* host_review_key, and the second question for a public domain without protection
ReviewAnswers == Confirm
UnsafePublic(f) == f.iap = "none" /\ f.domain # None

HostReview ==
    /\ at \in {"host.review", "host.unsafe"}
    /\ \E yes \in ReviewAnswers :
          \/ /\ ~yes
             /\ model' = After(model, "BACK") /\ at' = "host.fields"
          \/ /\ yes /\ at = "host.review" /\ UnsafePublic(form)
             /\ at' = "host.unsafe" /\ UNCHANGED model
          \/ /\ yes /\ (at = "host.unsafe" \/ ~UnsafePublic(form))
             /\ model' = After(model, "CONFIRM")
             /\ at' = IF Installing THEN "host.install" ELSE "host.verify"
    /\ UNCHANGED <<hostVars, file, mem, values, form, candidate, partial, said>>

(* host_run_install: the outcomes that quick_op_serve_install leaves, see  *)
(* ServeInstall, with partial_cleanup_remains.  A rollback always reports  *)
(* residue, whether it has undone the changes or left the host half done;  *)
(* before the first change only a cleanup that failed does.                *)
InstallResults ==
    {<<"completed", FALSE>>, <<"undone", TRUE>>, <<"left", TRUE>>}
    \cup ({"unchanged"} \cup (IF Attentive THEN {} ELSE {"cancelled"})) \X BOOLEAN

(* host_show_install_failure, host_show_install_cancellation, which says   *)
(* nothing of the residue of an install cancelled before its first change. *)
FailureTold(result, residue) ==
    CASE result = "cancelled" -> "nothing changed"
      [] result = "unchanged" -> IF residue THEN "nothing changed, residue" ELSE "nothing changed"
      [] result = "undone" -> "restored, residue"
      [] OTHER -> "not restored, residue"

\* Mutant: what a rollback leaves behind is forgotten.
RetryIsSafe_Residue(m) == m.mutation \in {"none", "undone"}

\* host_retry_is_safe
RetryIsSafe(m) == m.mutation = "none" \/ (m.mutation = "undone" /\ ~m.residue)

HostInstall ==
    /\ at = "host.install"
    /\ \E r \in InstallResults :
          LET result == r[1]
              residue == r[2]
          IN  /\ model' = NoteInstall(After(model, "BEGIN_MUTATION"), result, residue)
              /\ partial' = CASE result = "left" -> "half"
                              [] result = "undone" -> "residue"
                              [] OTHER -> partial
              /\ \/ /\ result = "completed"
                    /\ at' = "host.save" /\ UNCHANGED said
                 \/ /\ result # "completed"
                    /\ said' = FailureTold(result, residue)
                    /\ at' = "host.failed"
    /\ UNCHANGED <<hostVars, file, mem, values, form, candidate>>

\* Mutant: only a new profile is given the way the host is protected.
WrittenProfile_FirstIap(config, f) ==
    [config EXCEPT
        !.default = IF @ = None THEN f.profile ELSE @,
        !.profiles[f.profile] = [Upserted(config, f.profile) EXCEPT
            !.ssh = f.host, !.iap = IF @ = None THEN f.iap ELSE @,
            !.domain = IF f.domain = None THEN @ ELSE f.domain]]

\* quick_op_serve_write_profile: a file that does not load is rewritten from nothing
WrittenProfile(config, f) ==
    [config EXCEPT
        !.default = IF @ = None THEN f.profile ELSE @,
        !.profiles[f.profile] = [Upserted(config, f.profile) EXCEPT
            !.ssh = f.host, !.iap = f.iap,
            !.domain = IF f.domain = None THEN @ ELSE f.domain]]
WriteProfile(f) ==
    LET config == Loaded(file)
    IN  IF Full(config, f.profile) THEN {<<"error", file>>}
        ELSE Write(file, WrittenProfile(config, f))

\* what both flows do once the profile is written
HostSaved(what) ==
    /\ mem' = Loaded(file')
    /\ model' = After(model, "COMPLETE") /\ at' = caller /\ said' = what

\* an installed host: the save is retried for as long as the user says
HostSave ==
    /\ at = "host.save"
    /\ \E w \in WriteProfile(form) :
          /\ file' = w[2]
          /\ \/ w[1] = "ok" /\ HostSaved("installed")
             \/ w[1] = "error" /\ at' = "host.save?" /\ UNCHANGED <<mem, model, said>>
    /\ UNCHANGED <<hostVars, values, form, candidate, partial>>

HostSaveAgain ==
    /\ at = "host.save?"
    /\ \E retry \in Confirm :
          \/ /\ retry
             /\ at' = "host.save" /\ UNCHANGED model
          \/ /\ ~retry
             /\ model' = After(model, "VERIFY_FAILED") /\ at' = caller
    /\ UNCHANGED <<hostVars, file, mem, values, form, candidate, partial, said>>

\* host_build_verification_profiles: the profile as the save would leave it
Candidate(f) ==
    LET existing == Find(mem, f.profile)
    IN  [ssh |-> f.host,
         domain |-> IF f.domain = None /\ existing # None THEN existing.domain ELSE f.domain,
         url |-> IF existing = None THEN None ELSE existing.url,
         iap |-> f.iap]

(* quick_op_doctor on the candidate: it resolves a plan like every other   *)
(* command, the environment's QUICK_REMOTE included.                       *)
HostVerify ==
    /\ at = "host.verify"
    /\ LET profile == Candidate(form)
           config == [NoProfiles EXCEPT !.default = form.profile, !.profiles[form.profile] = profile]
           plan == Resolve([NoOverrides EXCEPT !.profile = form.profile], Env0,
                           project[<<>>].json, NoFile, DirName[<<>>], config)
       IN  \/ /\ Attentive
             /\ \E healthy \in {FALSE, plan.ok} :
                   /\ candidate' = [name |-> form.profile, profile |-> profile,
                                    reached |-> IF plan.ok THEN plan.ssh ELSE None,
                                    healthy |-> healthy]
                   /\ model' = After(model, IF healthy THEN "VERIFY_OK" ELSE "VERIFY_FAILED")
                   /\ at' = IF healthy THEN "host.write" ELSE "host.override"
          \/ /\ ~Attentive
             /\ model' = After(model, "CANCEL") /\ at' = caller
             /\ UNCHANGED candidate
    /\ UNCHANGED <<hostVars, file, mem, values, form, partial, said>>

\* "Advanced override: Save anyway?"
HostOverride ==
    /\ at = "host.override"
    /\ \E save \in Confirm :
          /\ model' = After(model, IF save THEN "VERIFY_OK" ELSE "RETRY")
          /\ at' = IF save THEN "host.write" ELSE "host.fields"
    /\ UNCHANGED <<hostVars, file, mem, values, form, candidate, partial, said>>

HostWrite ==
    /\ at = "host.write"
    /\ \E w \in WriteProfile(form) :
          /\ file' = w[2]
          /\ \/ w[1] = "ok" /\ HostSaved(IF candidate.healthy THEN "verified" ELSE "unverified")
             \/ /\ w[1] = "error"
                /\ model' = After(model, "VERIFY_FAILED") /\ at' = "host.failed"
                /\ UNCHANGED <<mem, said>>
    /\ UNCHANGED <<hostVars, values, form, candidate, partial>>

\* "Edit the settings and try again?", where a retry is safe
HostFailed ==
    /\ at = "host.failed"
    /\ \E retry \in Confirm :
          \/ /\ retry /\ model.state = "FAILED" /\ (Installing => RetryIsSafe(model))
             /\ model' = After(model, "RETRY") /\ at' = "host.fields"
          \/ /\ ~retry
             /\ at' = caller /\ UNCHANGED model
    /\ UNCHANGED <<hostVars, file, mem, values, form, candidate, partial, said>>
=============================================================================
