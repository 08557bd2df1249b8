----------------------------- MODULE DeployCommand -----------------------------
(***************************************************************************)
(* quick deploy from a shell (cli/commands_deploy.c), in the directory of  *)
(* the site: the dry run, the deploy with its question before it replaces  *)
(* what another deployer published, and the record of what it uploaded in  *)
(* .quick/deployments, which the next dry run is compared with.  The host's *)
(* side of a deploy is in DeploySession; here it is three steps.  A path   *)
(* or a zip archive on the command line is left out.                       *)
(***************************************************************************)
EXTENDS SiteAdmin

CONSTANTS
    Paths,          \* the files of the output directory
    Versions,       \* what a file can hold: <<size, hash>>
    Output,         \* the files at the start
    MaxEdits        \* BOUND: how often the files or the ignore rules change

VARIABLES
    tree,           \* the output directory, what .quickignore hides, and the edits so far
    manifest,       \* .quick/deployments: per profile, what was recorded
    session,        \* per process: what its transfer sent, and did the files change since
    report,         \* per process: what its dry run said
    live,           \* per profile: what the last activated release holds, and whose it is
    exact           \* per profile: it was recorded, from files that had not changed

deployVars == <<tree, manifest, session, report, live, exact>>

\* a list of files as it is recorded: those that are not in it have None
Listing == [Paths -> Versions \cup {None}]
Nothing == [f \in Paths |-> None]

\* a version is its size and its hash
ASSUME VersionAssumption ==
    /\ None \notin Versions /\ Output \in Listing
    /\ \A v, w \in Versions : v[1] = w[1] /\ v[2] = w[2] => v = w

NoSession == [sent |-> Nothing, edited |-> FALSE, last |-> None]

\* what rsync would send: .quickignore decides, read anew each time
Selected == [f \in Paths |-> IF f \in tree.ignored THEN None ELSE tree.files[f]]

(***************************************************************************)
(* The dry run.                                                            *)
(***************************************************************************)
\* Mutant: only the sizes are compared.
Differs_SizeOnly(a, b) == a[1] # b[1]

\* deploy_summary_record_selected_path compares size and hash
Differs(a, b) == a[1] # b[1] \/ a[2] # b[2]

\* deploy_dry_summary_build
Summary(previous, current, noDelete) ==
    [added |-> {f \in Paths : current[f] # None /\ previous[f] = None},
     changed |-> {f \in Paths : current[f] # None /\ previous[f] # None
                                /\ Differs(previous[f], current[f])},
     deleted |-> IF noDelete THEN {} ELSE {f \in Paths : current[f] = None /\ previous[f] # None}]

(***************************************************************************)
(* app_cmd_deploy.                                                         *)
(***************************************************************************)
DeployPlan(args) ==
    Resolve([NoOverrides EXCEPT !.profile = Value(args, "--profile"), !.site = Value(args, "--site")],
            ShellEnv, json, NoFile, None, Loaded(config))

DeployStart(p, args) ==
    LET to == DeployPlan(args)
    IN  /\ plan' = [plan EXCEPT ![p] = to]
        /\ \/ /\ LoadFails(config) \/ ~to.ok
              /\ Ends(p, "config") /\ UNCHANGED <<req, report>>
           \/ /\ ~LoadFails(config) /\ to.ok /\ Flag(args, "--dry-run")
              /\ \/ /\ Ends(p, "ok")
                    /\ report' = [report EXCEPT ![p] = Summary(manifest[to.profile], Selected,
                                                               Flag(args, "--no-delete"))]
                 \/ Ends(p, "io") /\ UNCHANGED report    \* no rsync, a record that cannot be read
              /\ UNCHANGED req
           \/ /\ ~LoadFails(config) /\ to.ok /\ ~Flag(args, "--dry-run")
              /\ at' = [at EXCEPT ![p] = "build"]
              /\ req' = [req EXCEPT ![p] = [NoRequest EXCEPT !.op = "deploy", !.site = to.site,
                                                             !.yes = Flag(args, "--yes")]]
              /\ UNCHANGED report
    /\ UNCHANGED <<typed, told, done, hosts, config, json, tree, manifest, session, live, exact>>

\* one file, or one rule of .quickignore
WithFile(t, f, v) == [t EXCEPT !.files[f] = v, !.edits = @ + 1]
WithRule(t, f) == [t EXCEPT !.ignored = IF f \in @ THEN @ \ {f} ELSE @ \cup {f}, !.edits = @ + 1]
Edited(t) ==
    {WithFile(t, f, v) : f \in Paths, v \in Versions \cup {None}} \cup {WithRule(t, f) : f \in Paths}

\* the files become t; a transfer that is not recorded yet saw others
Touch(t) ==
    /\ tree' = t
    /\ session' = IF t = tree THEN session
                  ELSE [p \in Procs |-> [session[p] EXCEPT
                          !.edited = @ \/ at[p] \in {"activate", "record"}]]

\* quick_deploy_run_build_if_needed, and the checks up to the host's: the build may write
Build(p) ==
    /\ at[p] = "build"
    /\ \/ Ends(p, "io") /\ UNCHANGED <<tree, session>>
       \/ /\ Ends(p, IF plan[p].ssh = None THEN "config" ELSE "prepare")
          /\ \E t \in {tree} \cup (IF tree.edits < MaxEdits THEN Edited(tree) ELSE {}) : Touch(t)
    /\ UNCHANGED <<req, plan, typed, told, done, hosts, config, json,
                   manifest, report, live, exact>>

\* the host names the last deployer; without the user's word its site is not replaced
Prepare(p) ==
    /\ at[p] = "prepare"
    /\ LET site == hosts[plan[p].ssh].site[plan[p].site]
           last == IF site = None THEN None ELSE site.by
       IN  \/ Ends(p, "io") /\ UNCHANGED session
           \/ /\ Ends(p, IF last = "other" /\ ~req[p].yes /\ ~req[p].confirmed
                         THEN "overwrite" ELSE "transfer")
              /\ session' = [session EXCEPT ![p].last = last]
    /\ UNCHANGED <<req, plan, typed, told, done, hosts, config, json,
                   tree, manifest, report, live, exact>>

\* app_cmd_deploy asks once, and then does all of it again; --json or a pipe answers no
AskOverwrite(p) ==
    /\ at[p] = "overwrite"
    /\ \E answer \in Sites \cup {None} :
          /\ typed' = [typed EXCEPT ![p] = answer]
          /\ IF answer = plan[p].site
             THEN at' = [at EXCEPT ![p] = "build"] /\ req' = [req EXCEPT ![p].confirmed = TRUE]
             ELSE Ends(p, "validation") /\ UNCHANGED req
    /\ UNCHANGED <<plan, told, done, hosts, config, json, deployVars>>

\* the staging directory is new and empty: what is not sent is not in the next release,
\* with --no-delete as without
Transfer(p) ==
    /\ at[p] = "transfer"
    /\ \/ Ends(p, "io") /\ UNCHANGED session
       \/ /\ Ends(p, "activate")
          /\ session' = [session EXCEPT ![p].sent = Selected, ![p].edited = FALSE]
    /\ UNCHANGED <<req, plan, typed, told, done, hosts, config, json,
                   tree, manifest, report, live, exact>>

\* the site after its next release
Deployed(h, s) ==
    LET n == hosts[h].deploys + 1
        site == hosts[h].site[s]
    IN  [hosts EXCEPT ![h].deploys = n,
            ![h].site[s] = IF site = None THEN Record(FALSE, Releases[n], None, "me")
                           ELSE Record(site.public, Releases[n], site.release, "me")]

\* an answer that is lost, or a user who stops the process, leaves no record
Activate(p) ==
    /\ at[p] = "activate"
    /\ LET h == plan[p].ssh
           s == plan[p].site
           n == plan[p].profile
       IN  \/ Ends(p, "io") /\ UNCHANGED <<done, hosts, live, exact>>
           \/ /\ \E to \in {"record", "io"} : Ends(p, to)
              /\ hosts' = Deployed(h, s)
              /\ done' = [done EXCEPT ![p] = Append(@, [op |-> "deploy", host |-> h, site |-> s,
                                                        value |-> session[p].last])]
              /\ live' = [live EXCEPT ![n] = [files |-> session[p].sent, by |-> p]]
              /\ exact' = [exact EXCEPT ![n] = FALSE]
    /\ UNCHANGED <<req, plan, typed, told, config, json, tree, manifest, session, report>>

(* deploy_manifest_record_success lists the files again; it ignores an     *)
(* error, before the old record is opened or in the middle of the new one. *)
RecordSuccess(p) ==
    /\ at[p] = "record"
    /\ Ends(p, "ok")
    /\ LET n == plan[p].profile
       IN  \/ /\ manifest' = [manifest EXCEPT ![n] = Selected]
              /\ exact' = [exact EXCEPT ![n] = ~session[p].edited /\ live[n].by = p]
           \/ /\ \E kept \in {manifest[n], Nothing} : manifest' = [manifest EXCEPT ![n] = kept]
              /\ exact' = [exact EXCEPT ![n] = FALSE]
    /\ UNCHANGED <<req, plan, typed, told, done, hosts, config, json, tree, session, report, live>>

\* an editor, or another build, at any time
Edit ==
    /\ tree.edits < MaxEdits
    /\ \E t \in Edited(tree) : Touch(t)
    /\ UNCHANGED <<adminVars, manifest, report, live, exact>>

DeployStep(p) ==
    Build(p) \/ Prepare(p) \/ AskOverwrite(p) \/ Transfer(p) \/ Activate(p) \/ RecordSuccess(p)
===============================================================================
