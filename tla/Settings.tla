------------------------------ MODULE Settings ------------------------------
(***************************************************************************)
(* The settings of the terminal front end (tui/tui_screen_config.c): the   *)
(* profiles, edited in memory and written when the user says so, and       *)
(* quick.json of the working directory.                                    *)
(***************************************************************************)
EXTENDS TuiApp

CONSTANTS
    Edits,          \* the field edits the user makes: <<field, value>>, None for blank
    SiteEdits       \* and those of quick.json

ASSUME SettingsAssumption ==
    /\ SiteEdits \subseteq ({"name", "subdomain"} \X (Sites \cup {None}))
                         \cup ({"profile"} \X (Names \cup {None}))
    /\ Edits \subseteq ({"ssh"} \X (Hosts \cup {None})) \cup ({"domain"} \X (Domains \cup {None}))
                       \cup ({"url"} \X (Urls \cup {None})) \cup ({"iap"} \X (Iaps \cup {None}))

VARIABLES
    shown,          \* the profile in the panel, None outside it
    dirty,          \* what the panel says of it: changes not written
    draft           \* the quick.json being edited, NoFile outside it

settingsVars == <<shown, dirty, draft>>
elsewhere == <<tty, child, trips>>

\* quick_tui_screen_config
OpenSettings ==
    /\ Reload
    /\ at' = "settings"

\* its menu: the profiles section reloads the file before each list
SettingsMenu ==
    /\ at = "settings"
    /\ \E to \in Modal({"profiles", "site"}, "loop") :
          \/ /\ to \in {"profiles", "loop"} /\ at' = to
             /\ mem' = IF to = "profiles" THEN Loaded(file) ELSE mem
             /\ UNCHANGED draft
          \/ /\ to = "site" /\ UNCHANGED mem
             /\ IF project[<<>>].json \in {NoFile, Malformed}
                THEN UNCHANGED <<at, draft>>
                ELSE at' = "site" /\ draft' = project[<<>>].json
    /\ UNCHANGED <<elsewhere, file, project, shown, dirty>>

(***************************************************************************)
(* The profiles.                                                           *)
(***************************************************************************)
\* quick_tui_profiles_section: a profile of the list, or back
ProfilesMenu ==
    /\ at = "profiles"
    /\ \E n \in Modal({m \in Names : mem.profiles[m] # None}, None) :
          IF n = None
          THEN at' = "settings" /\ UNCHANGED <<shown, dirty>>
          ELSE at' = "profile" /\ shown' = n /\ dirty' = FALSE
    /\ UNCHANGED <<elsewhere, file, mem, project, draft>>

\* quick_tui_new_profile: in memory only, and refused when the table is full
NewProfile ==
    /\ at = "profiles"
    /\ \E n \in Input(Names) \ {NoInput, None} :
          IF Full(mem, n)
          THEN mem' = Loaded(file) /\ UNCHANGED <<at, shown, dirty>>
          ELSE /\ mem' = [mem EXCEPT !.profiles[n] = Upserted(mem, n)]
               /\ at' = "profile" /\ shown' = n /\ dirty' = FALSE
    /\ UNCHANGED <<elsewhere, file, project, draft>>

\* quick_tui_validate_profile_field: a field may be cleared, an unsafe target refused
FieldValid(field, value) == field = "ssh" => value \in SafeHosts \cup {None}

\* quick_tui_profile_apply_field
Applied(profile, field, value) ==
    [profile EXCEPT !.ssh = IF field = "ssh" THEN value ELSE @,
                    !.domain = IF field = "domain" THEN value ELSE @,
                    !.url = IF field = "url" THEN value ELSE @,
                    !.iap = IF field = "iap" THEN value ELSE @]

\* quick_tui_edit_profile_field: only an edit that was taken makes the panel dirty
EditField ==
    /\ at = "profile" /\ Attentive
    /\ \E e \in Edits :
          /\ FieldValid(e[1], e[2])
          /\ mem' = [mem EXCEPT !.profiles[shown] = Applied(@, e[1], e[2])]
          /\ dirty' = TRUE
    /\ UNCHANGED <<at, elsewhere, file, project, shown, draft>>

SetDefault ==
    /\ at = "profile" /\ Attentive
    /\ mem' = [mem EXCEPT !.default = shown]
    /\ dirty' = TRUE
    /\ UNCHANGED <<at, elsewhere, file, project, shown, draft>>

\* quick_tui_write_profiles, asked for with w or for the unsaved changes
WriteProfiles(done) ==
    \E w \in Write(file, mem) :
       /\ file' = w[2]
       /\ dirty' = (dirty /\ w[1] = "error")
       /\ IF w[1] = "ok" /\ done # at
          THEN at' = done /\ mem' = Loaded(file') /\ shown' = None
          ELSE at' = "profile" /\ UNCHANGED <<mem, shown>>

WriteAsked ==
    /\ at = "profile" /\ Attentive
    /\ WriteProfiles("profile")
    /\ UNCHANGED <<elsewhere, project, draft>>

\* Esc leaves a clean panel and asks about a dirty one; a signal leaves either
LeavePanel ==
    /\ at = "profile"
    /\ IF dirty /\ Attentive
       THEN at' = "unsaved" /\ UNCHANGED <<mem, shown>>
       ELSE /\ at' = IF Attentive THEN "profiles" ELSE "settings"
            /\ mem' = IF Attentive THEN Loaded(file) ELSE mem
            /\ shown' = None
    /\ UNCHANGED <<elsewhere, file, project, dirty, draft>>

\* Mutant: what was discarded stays in memory.
Unsaved_Keeps ==
    /\ at = "unsaved"
    /\ \E choice \in Modal({"save", "discard"}, "cancel") :
          \/ choice = "save" /\ WriteProfiles("profiles")
          \/ /\ choice = "discard"
             /\ at' = "profiles" /\ shown' = None /\ dirty' = FALSE
             /\ UNCHANGED <<file, mem>>
          \/ /\ choice = "cancel"
             /\ at' = "profile" /\ UNCHANGED <<file, mem, shown, dirty>>
    /\ UNCHANGED <<elsewhere, project, draft>>

(* quick_tui_profile_unsaved_decision: save, discard, or back to the panel; *)
(* the section reloads the file after the first two.                        *)
Unsaved ==
    /\ at = "unsaved"
    /\ \E choice \in Modal({"save", "discard"}, "cancel") :
          \/ choice = "save" /\ WriteProfiles("profiles")
          \/ /\ choice = "discard"
             /\ at' = "profiles" /\ mem' = Loaded(file) /\ shown' = None /\ dirty' = FALSE
             /\ UNCHANGED file
          \/ /\ choice = "cancel"
             /\ at' = "profile" /\ UNCHANGED <<file, mem, shown, dirty>>
    /\ UNCHANGED <<elsewhere, project, draft>>

(***************************************************************************)
(* quick.json.                                                             *)
(***************************************************************************)
\* quick_tui_load_site_config_path, from the menu of a malformed project
FixProject ==
    IF project[<<>>].json \in {NoFile, Malformed}
    THEN at' = "loop" /\ UNCHANGED draft
    ELSE at' = "fix" /\ draft' = project[<<>>].json

\* quick_tui_site_apply_field, for a name or subdomain that is a label
EditSite ==
    /\ at \in {"site", "fix"} /\ Attentive
    /\ \E e \in SiteEdits :
          /\ e[1] \in {"name", "subdomain"} /\ e[2] # None => Slug[e[2]] # None
          /\ draft' = CASE e[1] = "name" -> [draft EXCEPT !.name = Slugged(e[2])]
                        [] e[1] = "subdomain" -> [draft EXCEPT !.subdomain = Slugged(e[2])]
                        [] OTHER -> [draft EXCEPT !.profile = e[2]]
    /\ UNCHANGED <<at, elsewhere, file, mem, project, shown, dirty>>

\* quick_site_config_write_file, which truncates the file first; empty, it loads as blank
WriteSite ==
    /\ at \in {"site", "fix"} /\ Attentive
    /\ draft.name # None
    /\ \E json \in {draft, Malformed, BlankSite, project[<<>>].json} :
          project' = [project EXCEPT ![<<>>].json = json]
    /\ UNCHANGED <<at, elsewhere, file, mem, shown, dirty, draft>>

\* edits of quick.json that were not written are dropped without a question
LeaveSite ==
    /\ at \in {"site", "fix"}
    /\ at' = (IF at = "site" THEN "settings" ELSE "loop") /\ draft' = NoFile
    /\ UNCHANGED <<elsewhere, file, mem, project, shown, dirty>>
=============================================================================
