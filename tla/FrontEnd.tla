------------------------------ MODULE FrontEnd ------------------------------
(***************************************************************************)
(* quick and quick menu in a terminal: the main loop and its dashboards    *)
(* (tui/tui_app.c), the new site screen (tui/tui_screen_init.c) and the    *)
(* serve screen (tui/tui_screen_serve.c), composed with the guided setup,  *)
(* the settings and the deploy screen.  One process, and around it the     *)
(* user, signals, a dev server that may end, and other deployers.          *)
(***************************************************************************)
EXTENDS Settings, DeployFlow, Menu

CONSTANTS
    Letters,        \* what the user types into a search
    RowsOf,         \* how many rows the terminal has for a menu
    BrowseTrips,    \* BOUND: until how many trips the user moves about in the menu
    Starts          \* what there may be at the start: <<file, project, hosts>>

ProjectFiles == [files : SUBSET {"index", "json", "rest", "own"}, json : SiteFile]
HostRecord == [published : BOOLEAN, by : [Sites -> {None, "me", "other"}]]
ASSUME FrontEndAssumption ==
    /\ RowsOf \subseteq Nat \ {0}
    /\ \A s \in Starts : /\ s[1] \in File
                         /\ s[2] \in [Dirs -> ProjectFiles]
                         /\ s[3] \in [SafeHosts -> HostRecord]

VARIABLES
    menu,           \* the menu that is open
    created         \* where the new site screen has just made a site

vars == <<at, tty, file, mem, project, child, trips, onboardingVars, settingsVars,
          deployVars, menu, created>>
NoMenu == [items |-> <<>>]

(***************************************************************************)
(* The dashboards.                                                         *)
(***************************************************************************)
no_project_menu ==
    << Item("get started", "g", {"e"}), Item("sites", "s", {"e"}), Item("deploy", "d", {"e"}),
       Item("new site", "n", {"e"}), Item("doctor", "c", {}), Item("serve", "v", {"e", "v"}),
       Item("connect host", "t", {"e"}), Item("new host", "u", {"e"}),
       Item("settings", "i", {"e"}), Separator, Item("help", "h", {"e"}), Item("exit", "x", {"e"}) >>
valid_project_menu ==
    << Item("preview", "p", {"e", "v"}), Item("deploy", "d", {"e"}), Item("open site", "o", {"e"}),
       Item("sites", "s", {"e"}), Item("new site", "n", {"e"}), Item("doctor", "c", {}),
       Item("serve", "v", {"e", "v"}), Item("settings", "i", {"e"}), Item("get started", "g", {"e"}),
       Separator, Item("help", "h", {"e"}), Item("exit", "x", {"e"}) >>
malformed_project_menu ==
    << Item("fix project", "f", {"e"}), Item("get started", "g", {"e"}), Item("sites", "s", {"e"}),
       Item("deploy", "d", {"e"}), Item("new site", "n", {"e"}), Item("doctor", "c", {}),
       Item("serve", "v", {"e", "v"}), Item("settings", "i", {"e"}), Separator,
       Item("help", "h", {"e"}), Item("exit", "x", {"e"}) >>

\* app_build_dashboard_menu
Dashboard(rows) ==
    LET state == ProjectState(project[<<>>])
    IN  CASE state = "valid" -> Opened(valid_project_menu, 1, rows)
          [] state = "malformed" -> Opened(malformed_project_menu, 1, rows)
          [] OTHER -> Opened(no_project_menu, 2, rows)

(***************************************************************************)
(* tui_run_app.                                                            *)
(***************************************************************************)
screens == <<onboardingVars, settingsVars, deployVars, created>>

\* quick goes through the guided setup first, quick menu does not
Start ==
    /\ at = "shell"
    /\ InitTerminal /\ Reload
    /\ at' \in {"launch", "loop"}
    /\ UNCHANGED <<code, file, project, child, trips, screens, menu>>

\* quick_tui_onboarding_launch, again after each setup that has not made a profile
Launch ==
    /\ at = "launch"
    /\ IF ShowWelcome(mem, project[<<>>])
       THEN /\ trips < MaxTrips \/ ~Attentive
            /\ trips' = IF trips < MaxTrips THEN trips + 1 ELSE trips
            /\ OpenWelcome("launch")
       ELSE at' = "loop" /\ UNCHANGED <<trips, model, caller>>
    /\ UNCHANGED <<tty, file, mem, project, child, values, form, candidate, partial, said,
                   settingsVars, deployVars, created, menu>>

\* the variables of the screens that are locals of the code die with their screen
LocalsGone ==
    /\ form' = Seeded(NoValues, NoProfiles) /\ candidate' = NoCandidate
    /\ partial' = "none" /\ said' = "none"
    /\ deploy' = NoDeploy /\ created' = [dir |-> <<>>, site |-> None]

\* the dashboard's menu, for the profiles and the project as they are now
Loop ==
    /\ at = "loop"
    /\ Reload
    /\ at' = "menu"
    /\ \E rows \in RowsOf : menu' = Shown(Dashboard(rows))
    /\ LocalsGone
    /\ UNCHANGED <<tty, file, project, child, trips, model, values, caller, settingsVars, hosts, records>>

MenuKey ==
    /\ at = "menu" /\ Attentive /\ trips < BrowseTrips
    /\ menu' \in Keyed(menu, Letters) \cup {Resized(menu, rows) : rows \in RowsOf}
    /\ UNCHANGED <<at, tty, file, mem, project, child, trips, screens>>

\* Esc on the dashboard (app_show_menu_overlay), q, or Exit: each asks first
MenuLeave ==
    /\ at = "menu" /\ Attentive
    /\ at' \in (IF menu.searching THEN {} ELSE {"overlay", "exit?"})
                \cup {"exit?" : i \in {i \in Chosen(menu) : menu.items[i].id = "exit"}}
    /\ menu' = NoMenu
    /\ UNCHANGED <<tty, file, mem, project, child, trips, screens>>

Overlay ==
    /\ at = "overlay"
    /\ at' \in Modal({"exit?", "overlay"}, "loop")
    /\ UNCHANGED <<tty, file, mem, project, child, trips, screens, menu>>

Exit ==
    /\ at = "exit?"
    /\ \E yes \in Confirm :
          \/ yes /\ Quit("ok")
          \/ ~yes /\ at' = "loop" /\ UNCHANGED <<tty, child>>
    /\ UNCHANGED <<file, mem, project, trips, screens, menu>>

\* the menu sees the signal, or the terminal is too small for it
MenuEnds ==
    /\ at = "menu"
    /\ Quit(IF Attentive THEN "out of range" ELSE TakeInterrupt)
    /\ menu' = NoMenu
    /\ UNCHANGED <<file, mem, project, trips, screens>>

(***************************************************************************)
(* app_dispatch.                                                           *)
(***************************************************************************)
\* quick_ctx_preview: the dev server of the dashboard serves the path "."
Preview ==
    /\ at' = "loop" /\ UNCHANGED mem
    /\ child' \in Served(project, <<>>)

\* a host screen from the dashboard starts a setup of its own
HostScreen(choice) ==
    /\ OpenHost(After([NewModel EXCEPT !.state = "IDLE"], choice), NoValues, choice)
    /\ caller' = "loop"

\* sites, doctor, help and open leave nothing here; sites may go on to deploy
ReadOnly(id) == id \in {"doctor", "help", "open site", "sites"} /\ at' = "loop"

Dispatch(id) ==
    \/ /\ id = "get started"
       /\ OpenWelcome("loop")
       /\ UNCHANGED <<mem, child, values, form, candidate, partial, said, settingsVars, deployVars>>
    \/ /\ id \in {"connect host", "new host"}
       /\ HostScreen(IF id = "connect host" THEN "CHOOSE_CONNECT" ELSE "CHOOSE_INSTALL")
       /\ UNCHANGED <<child, settingsVars, deployVars>>
    \/ /\ id = "preview" /\ Preview
       /\ UNCHANGED <<onboardingVars, settingsVars, deployVars>>
    \/ /\ id = "settings" /\ OpenSettings
       /\ UNCHANGED <<child, onboardingVars, settingsVars, deployVars>>
    \/ /\ id = "fix project" /\ FixProject
       /\ UNCHANGED <<mem, child, onboardingVars, shown, dirty, deployVars>>
    \/ /\ \/ id = "deploy" /\ OpenDeploy(None)
          \/ id = "sites" /\ \E s \in {s \in Sites : Slug[s] = s} : OpenDeploy(s)
       /\ UNCHANGED <<child, onboardingVars, settingsVars, hosts, records>>
    \/ /\ \/ id = "new site" /\ at' = "init"
          \/ id = "serve" /\ at' = "serve"
       /\ Reload
       /\ UNCHANGED <<child, onboardingVars, settingsVars, deployVars>>
    \/ /\ ReadOnly(id)
       /\ UNCHANGED <<mem, child, onboardingVars, settingsVars, deployVars>>

Choose ==
    /\ at = "menu" /\ Attentive /\ trips < MaxTrips
    /\ \E i \in Chosen(menu) : Dispatch(menu.items[i].id)
    /\ trips' = trips + 1
    /\ menu' = NoMenu
    /\ UNCHANGED <<tty, file, project, created>>

(***************************************************************************)
(* The new site screen.                                                    *)
(***************************************************************************)
\* quick_tui_screen_init: directory, name, profile, then the scaffold
InitScreen ==
    /\ at = "init"
    /\ \E typed \in Input(Dirs \ {<<>>}), name \in Input(TypedSites),
          profile \in Modal({n \in Names : mem.profiles[n] # None} \cup {None}, NoInput) :
          LET dir == IF typed = None THEN <<>> ELSE typed
              label == IF name # None THEN Slugged(name)
                       ELSE IF typed = None THEN None ELSE Slug[DirName[dir]]
          IN  IF NoInput \in {typed, name, profile} \/ label = None
              THEN at' = "loop" /\ UNCHANGED <<project, created>>
              ELSE \E r \in InitResults(project[dir], label, profile, FALSE) :
                      /\ project' = [project EXCEPT ![dir] = r[2]]
                      /\ IF r[1] = "ok"
                         THEN at' = "init.created" /\ created' = [dir |-> dir, site |-> label]
                         ELSE at' = "loop" /\ UNCHANGED created
    /\ UNCHANGED <<tty, file, mem, child, trips, onboardingVars, settingsVars, deployVars, menu>>

\* quick_tui_created_key: d deploys the site, by its name alone
InitCreated ==
    /\ at = "init.created"
    /\ \E now \in Modal({TRUE}, FALSE) :
          \/ now /\ OpenDeploy(created.site)
          \/ ~now /\ at' = "loop" /\ UNCHANGED <<mem, deploy>>
    /\ UNCHANGED <<tty, file, project, child, trips, onboardingVars, settingsVars,
                   hosts, records, created, menu>>

(***************************************************************************)
(* The serve screen; its install guide and host statistics only show.      *)
(***************************************************************************)
ServeScreen ==
    /\ at = "serve"
    /\ at' \in Modal({"serve.status", "serve"}, "loop")
    /\ IF at' = "serve.status" /\ child = None
       THEN child' \in Served(project, <<>>)
       ELSE UNCHANGED child
    /\ UNCHANGED <<tty, file, mem, project, trips, screens, menu>>

\* quick_tui_serve_show_status: s stops the server
ServeStatus ==
    /\ at = "serve.status"
    /\ \E stop \in Modal({TRUE}, FALSE) : child' = IF stop THEN None ELSE child
    /\ at' = "serve"
    /\ UNCHANGED <<tty, file, mem, project, trips, screens, menu>>

(***************************************************************************)
(* The specification.                                                      *)
(***************************************************************************)
Init ==
    /\ \E s \in Starts : file = s[1] /\ project = s[2] /\ hosts = s[3]
    /\ at = "shell" /\ code = "none" /\ signal = "none"
    /\ curses = FALSE /\ handlers = FALSE
    /\ mem = NoProfiles /\ child = None /\ trips = 0
    /\ model = NewModel /\ values = NoValues /\ form = Seeded(NoValues, NoProfiles)
    /\ caller = "loop" /\ candidate = NoCandidate /\ partial = "none" /\ said = "none"
    /\ shown = None /\ dirty = FALSE /\ draft = NoFile
    /\ deploy = NoDeploy /\ records = [d \in Dirs |-> [n \in Names |-> None]]
    /\ menu = NoMenu /\ created = [dir |-> <<>>, site |-> None]

InitTui ==
    /\ InitFails
    /\ UNCHANGED <<screens, menu>>

Guided ==
    /\ \/ ChooseLocal \/ LeaveWelcome \/ LocalDirectory \/ LocalIdentity \/ LocalTemplate
       \/ LocalReview \/ LocalApply \/ LocalFailed \/ LocalDone
       \/ ChooseHost \/ HostFields \/ HostReview \/ HostInstall \/ HostSave \/ HostSaveAgain
       \/ HostVerify \/ HostOverride \/ HostWrite \/ HostFailed
    /\ UNCHANGED <<settingsVars, deployVars, created, menu>>

Configure ==
    /\ \/ SettingsMenu \/ ProfilesMenu \/ NewProfile \/ EditField \/ SetDefault \/ WriteAsked
       \/ LeavePanel \/ Unsaved \/ EditSite \/ WriteSite \/ LeaveSite
    /\ UNCHANGED <<onboardingVars, deployVars, created, menu>>

Deploying ==
    /\ \/ DeployPath \/ DeployProfile \/ DeployHost \/ DeploySaved \/ DeployNames \/ DeployPlan
       \/ DeployAttempt \/ AskOverwrite \/ AskPublication
    /\ UNCHANGED <<settingsVars, created, menu>>

Process ==
    \/ InitTui \/ Start \/ Launch \/ Loop \/ MenuKey \/ MenuLeave \/ Overlay \/ Exit \/ MenuEnds
    \/ Choose \/ Guided \/ Configure \/ Deploying
    \/ InitScreen \/ InitCreated \/ ServeScreen \/ ServeStatus

Around ==
    \/ Signal /\ UNCHANGED <<screens, menu>>
    \/ ChildEnds /\ UNCHANGED <<screens, menu>>
    \/ Others /\ UNCHANGED <<settingsVars, created, menu>>

Next == Process \/ Around

(* Once a signal has come the process goes on: no dialog waits for the user *)
(* then (a key may be needed to wake the read the signal came just before). *)
Spec == Init /\ [][Next]_vars
LiveSpec == Spec /\ WF_vars(~Attentive /\ Process)

(***************************************************************************)
(* Properties                                                              *)
(***************************************************************************)
\* A profile reported as verified is what the doctor checked, field by field, when no
\* write has spoilt the file that it is saved in, and the host that the doctor reached is the
\* one in it, where QUICK_REMOTE does not name another.
SavedIsVerified ==
    [][said' = "verified" /\ said # "verified" =>
          /\ file \notin Lost => file'.profiles[candidate.name] = candidate.profile
          /\ EnvRemote = None => candidate.reached = candidate.profile.ssh]_vars

\* "Connect (no install): verify an in-memory candidate before persisting": what is
\* persisted as verified is the candidate that was, also when an earlier save failed.
PersistsTheCandidate ==
    [][said' = "verified" /\ said # "verified" =>
          file'.profiles[candidate.name] = candidate.profile]_vars

\* Once an install has changed the host and failed, with or without a rollback that undid
\* the changes, the form never opens for another try in that visit, and the host is never
\* called unchanged; one that is left half done is never called restored.
NoRetryOverPartial ==
    /\ partial # "none" => /\ at # "host.fields"
                           /\ said \notin {"nothing changed", "nothing changed, residue"}
    /\ partial = "half" => said # "restored, residue"

\* A save changes one profile of a file that no write has spoilt: edits of another
\* profile that were discarded or left behind in memory never come along.
SavesOneProfile ==
    [][{file, file'} \cap Lost = {} =>
          Cardinality({n \in Names : Loaded(file).profiles[n] # Loaded(file').profiles[n]}) <= 1]_vars

\* The highlight of a menu is on a row that exists and is drawn, after any keys, mouse
\* events, searches and sizes of the terminal.  It is on one that cannot be chosen only
\* after a search whose hits the mouse moved it among has ended, until it is moved again:
\* such a row is a separator's, and there Enter only beeps, although "`Enter` selects the
\* highlighted item" (docs/user/tui.md:28).
HighlightShown ==
    [][at' = "menu" /\ menu'.visible # <<>> =>
          /\ menu'.selected \in DOMAIN menu'.visible \cap Drawn(menu')
          /\ \/ menu'.selected \in SelectableRows(menu')
             \/ /\ at = "menu" /\ menu.visible # <<>> /\ menu'.selected = menu.selected
                /\ menu.selected \in SelectableRows(menu) =>
                     menu.selected > 1 /\ menu.query # {} /\ menu'.query = {}]_vars

\* After SIGINT or SIGTERM every screen returns, also one that asks again until it has
\* an answer, and the process ends.
SignalEnds == signal # "none" ~> at = "ended"
=============================================================================
