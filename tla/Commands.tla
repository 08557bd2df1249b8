------------------------------- MODULE Commands -------------------------------
(***************************************************************************)
(* quick with a command: main.c takes the output flags, finds the command, *)
(* checks the rest against its table and calls the handler.  Several       *)
(* processes run at once, against the same hosts, profile file and         *)
(* directory, beside other administrators of the hosts and the user's      *)
(* editor.  quick menu is followed into its sites and doctor screens (the  *)
(* rest is FrontEnd); quick serve is in ServeInstall.                      *)
(***************************************************************************)
EXTENDS Doctor

CONSTANTS
    Crowds,         \* BOUND: which of Procs run, each with its command and arguments
    Worlds,         \* what there may be at the start: <<profile file, quick.json, hosts>>
    SiteFiles       \* BOUND: what quick.json can say later; the profile file stays as it is

\* any token can be the name of a site or of a profile
ASSUME CrowdAssumption ==
    \A c \in Crowds : /\ DOMAIN c \subseteq Procs
                      /\ \A p \in DOMAIN c : c[p][2] \in Seq(Sites \cap Names)
ASSUME WorldAssumption ==
    /\ \A w \in Worlds : /\ w[1] \in File /\ w[2] \in SiteFile
                         /\ DOMAIN w[3] = Hosts
                         /\ \A h \in Hosts : HostKeeps(h, w[3][h])
    /\ SiteFiles \subseteq SiteFile

VARIABLE crowd
vars == <<adminVars, deployVars, doctor, crowd>>

(***************************************************************************)
(* main: one command line.                                                 *)
(***************************************************************************)
Command(p) == crowd[p][1]
Given(p) == crowd[p][2]
Args(p) == Stripped(Given(p))
Quiet(p) == \E i \in DOMAIN Given(p) : i < Stop(Given(p)) /\ Given(p)[i] = "--quiet"

\* app_dispatch_configured_command: what ends a process before its handler
Dispatch(p) ==
    CASE Command(p) \notin DOMAIN Table -> "invalid"
      [] Command(p) \in DOMAIN Table /\ AsksForHelp(Args(p)) -> "help"
      [] OTHER -> Validate(Command(p), Args(p))

Handler(p) ==
    \/ /\ Command(p) \in AdminCommands
       /\ AdminStart(p, Command(p), Args(p)) /\ UNCHANGED <<deployVars, doctor>>
    \/ /\ Command(p) = "list"
       /\ ListStart(p, Args(p)) /\ UNCHANGED <<deployVars, doctor>>
    \/ /\ Command(p) = "deploy"
       /\ DeployStart(p, Args(p)) /\ UNCHANGED doctor
    \/ /\ Command(p) = "doctor"
       /\ DoctorStart(p, Args(p), Quiet(p))
    \/ /\ Command(p) = "menu"
       /\ \E screen \in {"sites", "doctor"} : Ends(p, screen)
       /\ UNCHANGED <<req, plan, typed, told, done, hosts, config, json, deployVars, doctor>>

Start(p) ==
    /\ p \in DOMAIN crowd /\ at[p] = "shell"
    /\ \/ Dispatch(p) = "ok" /\ Handler(p)
       \/ /\ Dispatch(p) # "ok"
          /\ Ends(p, Dispatch(p))
          /\ UNCHANGED <<req, plan, typed, told, done, hosts, config, json, deployVars, doctor>>
    /\ UNCHANGED crowd

\* quick.json is another one when the next command, or the confirmed call, reads it
Reconfigure ==
    /\ json' \in SiteFiles
    /\ UNCHANGED <<at, req, plan, typed, told, done, hosts, config, deployVars, doctor, crowd>>

Init ==
    /\ crowd \in Crowds
    /\ \E w \in Worlds : config = w[1] /\ json = w[2] /\ hosts = w[3]
    /\ at = [p \in Procs |-> "shell"]
    /\ req = [p \in Procs |-> NoRequest]
    /\ plan = [p \in Procs |-> NoPlan]
    /\ typed = [p \in Procs |-> None]
    /\ told = [p \in Procs |-> None]
    /\ done = [p \in Procs |-> <<>>]
    /\ tree = [files |-> Output, ignored |-> {}, edits |-> 0]
    /\ manifest = [n \in Names |-> Nothing]
    /\ session = [p \in Procs |-> NoSession]
    /\ report = [p \in Procs |-> None]
    /\ live = [n \in Names |-> [files |-> Nothing, by |-> None]]
    /\ exact = [n \in Names |-> TRUE]
    /\ doctor = [p \in Procs |-> NoDoctor]

Next ==
    \/ \E p \in Procs :
          \/ Start(p)
          \/ AdminStep(p) /\ UNCHANGED <<deployVars, doctor, crowd>>
          \/ DeployStep(p) /\ UNCHANGED <<doctor, crowd>>
          \/ DoctorStep(p) /\ UNCHANGED crowd
    \/ Edit /\ (\E p \in DOMAIN crowd : Command(p) = "deploy") /\ UNCHANGED <<doctor, crowd>>
    \/ Reconfigure

Spec == Init /\ [][Next]_vars

(***************************************************************************)
(* Properties                                                              *)
(***************************************************************************)
Line(p) == Meant(Command(p), Args(p))

\* the operation and its object, by what the places of a command line mean; a domain is
\* removed by its own name, whatever site it is of
Asked(p) ==
    LET line == Line(p)
        word(n) == IF n \in DOMAIN line.words THEN line.words[n] ELSE None
        site == word(1)
    IN  CASE Command(p) = "delete" -> [op |-> "delete", site |-> site, value |-> None]
          [] Command(p) = "restore" -> [op |-> "restore", site |-> site, value |-> line.value["--from"]]
          [] Command(p) = "rollback" -> [op |-> "rollback", site |-> site, value |-> line.value["--to"]]
          [] Command(p) = "public" -> [op |-> IF word(2) = None THEN "status" ELSE word(2),
                                       site |-> site, value |-> None]
          [] Command(p) = "domain" -> [op |-> IF word(1) = "add" THEN "domain-add" ELSE "domain-remove",
                                       site |-> IF word(1) = "add" THEN line.value["--site"] ELSE None,
                                       value |-> word(2)]
          [] OTHER -> [op |-> Command(p), site |-> line.value["--site"], value |-> None]

\* --yes, or the name of the site, typed when it was asked for
Agreed(p, site) == "--yes" \in Line(p).flags \/ typed[p] = site

\* no question is asked before these, and none before a deploy over one's own
NeedsNoWord(e) ==
    e.op \in {"off", "domain-add", "domain-remove"} \/ (e.op = "deploy" /\ e.value # "other")

AsAsked(p, e) ==
    LET asked == Asked(p)
        profile == Line(p).value["--profile"]
    IN  /\ e.op = asked.op
        /\ asked.site # None => e.site = Slug[asked.site]
        /\ e.op # "deploy" => e.value = asked.value
        /\ profile # None /\ ShellEnv.remote = None => e.host = Find(Loaded(config), profile).ssh
        /\ NeedsNoWord(e) \/ Agreed(p, IF asked.site = None \/ e.op = "deploy" THEN e.site ELSE asked.site)
        /\ {"--help", "--dry-run"} \cap Line(p).flags = {}

\* ok is said of what a host has carried out, and what was refused never got to one
ReportsTrue(p) ==
    /\ at[p] \in Unasked => done[p] = <<>>
    /\ at[p] = "ok" /\ {"--help", "--dry-run"} \cap Line(p).flags = {} =>
          (Asked(p).op \in {"delete", "restore", "rollback", "on", "off", "deploy"} => done[p] # <<>>)

\* What a host carries out for a command is what the command line asks for at its places,
\* once, on the host of the profile that it names and with the user's word where it is
\* needed; and the exit code tells.  On the sites screen the user has typed the name.
DoneAsAsked ==
    \A p \in DOMAIN crowd :
        IF Command(p) = "menu"
        THEN \A i \in DOMAIN done[p] : done[p][i].op = "off" \/ typed[p] = done[p][i].site
        ELSE Command(p) \in DOMAIN Table /\ Plain(Command(p), Args(p)) =>
                /\ Len(done[p]) <= 1 /\ \A i \in DOMAIN done[p] : AsAsked(p, done[p][i])
                /\ ReportsTrue(p)

\* The archive that quick delete names is one that quick restore takes for that site and
\* for no other, with the root of the host known or not, while it is in the trash.
Undoable ==
    \A h \in DOMAIN hosts : \A a \in hosts[h].trash : \A s \in {s \in Sites : Slug[s] = s} :
        \A root \in {None, Root[h]} :
            /\ SafeArchive(a.path, root, s) <=> a.site = s
            /\ a.site = s /\ ~Exists(h, s) => Restore(h, s, a.path) # {}

\* A deep check that has ended has removed its directory; it is called ok only when
\* nothing of it is left on the host, and a site that is left is in its result.
DoctorCleansUp ==
    \A p \in DOMAIN crowd : at[p] \in Codes =>
        /\ ~doctor[p].temp
        /\ doctor[p].said = "ok" => doctor[p].site = "none"
        /\ doctor[p].site = "live" => doctor[p].said = "cleanup-failed"

\* A dry run says which files the next release adds, changes and drops beside the last
\* one of its profile, where that was recorded and its files had not changed meanwhile.
\* The next release drops a file that is not there any more with --no-delete too (Transfer),
\* against docs/user/quick-deploy.md:16, and then the dry run names none of them.
DryRunExact ==
    [][\A p \in Procs : report'[p] # report[p] =>
          LET was == live[plan'[p].profile].files
              r == report'[p]
          IN  exact[plan'[p].profile] =>
                /\ r.added = {f \in Paths : Selected[f] # None /\ was[f] = None}
                /\ r.changed = {f \in Paths : None \notin {Selected[f], was[f]} /\ Selected[f] # was[f]}
                /\ Plain(Command(p), Args(p)) /\ "--no-delete" \notin Line(p).flags =>
                     r.deleted = {f \in Paths : Selected[f] = None /\ was[f] # None}]_vars
===============================================================================
