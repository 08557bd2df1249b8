------------------------------- MODULE SiteAdmin -------------------------------
(***************************************************************************)
(* Commands on the sites of a host: quick delete, restore, rollback,       *)
(* public and domain (cli/commands_openquick.c over core/ops.c), and the   *)
(* terminal's sites screen (tui/tui_screen_sites.c).  Each is a call of an *)
(* operation that may come back asking for a confirmation, and then the    *)
(* same call again, confirmed: the second one resolves the host anew and   *)
(* reads the site anew.  The host's side of a request is one step here;    *)
(* SiteLifecycle and HostDeploy have its steps.                            *)
(***************************************************************************)
EXTENDS Invocation

CONSTANTS
    Procs,          \* the processes of this user and of others on the same hosts
    Parts,          \* [Sites -> Seq(words)]: a label, split at its dashes
    Root,           \* [Hosts -> paths]: remote_root of the profiles of a host
    Archives,       \* the paths that archives can have
    PathOf,         \* [Archives -> [root, name]], a name split at its dashes
    Stamps,         \* BOUND: how the times of the deletes of a host are spelled, in order
    Releases,       \* BOUND: the ids of the releases of a host, in order
    SafeDomains,    \* the domain names that pass the character check
    ShellEnv        \* the QUICK_ variables

\* a label can be put together again from its words
ASSUME PathAssumption ==
    /\ \A s \in Sites : Parts[s] \in Seq({Parts[s][i] : i \in DOMAIN Parts[s]})
    /\ \A s, t \in Sites : Parts[s] = Parts[t] => s = t
    /\ ShellEnv \in Env

VARIABLES
    at,             \* where each process is, or how it ended
    req,            \* its request
    plan,           \* where the request goes
    typed,          \* what its user typed when asked
    told,           \* what quick delete told its user: the archive of the site
    done,           \* what a host carried out for it
    hosts,          \* per host: its sites, its trash and its domains
    config,         \* the profile file
    json            \* quick.json of the directory that all of them run in

adminVars == <<at, req, plan, typed, told, done, hosts, config, json>>

\* how a process ends: it never reached a host, or it did
Unasked == {"help", "closed", "missing", "invalid", "unknown-option", "validation", "config"}
Codes == Unasked \cup {"ok", "io", "interrupted"}

\* of a site on a host; by: "me", or another name than this user's, which a deploy asks about
Record(public, release, previous, by) ==
    [public |-> public, release |-> release, previous |-> previous, by |-> by]

NoRequest == [op |-> "none", site |-> None, profile |-> None, value |-> None, yes |-> FALSE,
              confirmed |-> FALSE, tui |-> FALSE]
Reads(op) == op \in {"status", "domain-list"}

(***************************************************************************)
(* A host, one request at a time: what it is afterwards, or nothing when   *)
(* it refuses.                                                             *)
(***************************************************************************)
Where(condition, new) == IF condition THEN {new} ELSE {}
Exists(h, s) == hosts[h].site[s] # None
IsArchive(h, s, n, a) == PathOf[a] = [root |-> Root[h], name |-> Append(Parts[s], Stamps[n])]

\* what a host can be: its sites are under their labels, its trash is what Delete made
HostKeeps(h, x) ==
    /\ DOMAIN x = {"site", "trash", "domains", "deletes", "deploys"} /\ DOMAIN x.site = Sites
    /\ \A s \in Sites : x.site[s] # None => Slug[s] = s
    /\ \A a \in x.trash :
          /\ a.site \in Sites /\ Slug[a.site] = a.site /\ a.path \in Archives
          /\ \E n \in DOMAIN Stamps : IsArchive(h, a.site, n, a.path)

ArchiveAt(h, s, n) == CHOOSE a \in Archives : IsArchive(h, s, n, a)

\* a site that is not there is deleted without an archive, and without an error; BOUND: as
\* long as there is a path in Archives for it
Delete(h, s) ==
    LET n == hosts[h].deletes + 1
    IN  IF Exists(h, s)
        THEN Where(n \in DOMAIN Stamps /\ \E a \in Archives : IsArchive(h, s, n, a),
                   [hosts EXCEPT ![h].site[s] = None, ![h].deletes = n,
                                 ![h].domains = {d \in @ : d[2] # s},
                                 ![h].trash = @ \cup {[path |-> ArchiveAt(h, s, n), site |-> s,
                                                       record |-> hosts[h].site[s]]}])
        ELSE {hosts}

(* An archive of this site, while there is no such site.  The row is a new *)
(* one: not public, without domains, and deployed by "restore".            *)
Restore(h, s, path) ==
    {[hosts EXCEPT ![h].site[s] = [a.record EXCEPT !.public = FALSE, !.by = "other"],
                   ![h].trash = @ \ {a}] :
        a \in {a \in hosts[h].trash : a.path = path /\ a.site = s /\ ~Exists(h, s)}}

(* What was current is the previous release afterwards, so that twice is   *)
(* not at all; the deployer on record is "rollback:" and a name.  BOUND: a *)
(* host keeps two releases.                                                *)
Rollback(h, s, release) ==
    LET site == hosts[h].site[s]
    IN  Where(/\ Exists(h, s) /\ site.previous # None
              /\ release \in {None, site.previous},
              [hosts EXCEPT ![h].site[s].release = site.previous,
                            ![h].site[s].previous = site.release,
                            ![h].site[s].by = "other"])

Public(h, s, on) == Where(Exists(h, s), [hosts EXCEPT ![h].site[s].public = on])

Taken(h, domain) == \E d \in hosts[h].domains : d[1] = domain
DomainAdd(h, s, domain) ==
    Where(Exists(h, s) /\ ~Taken(h, domain), [hosts EXCEPT ![h].domains = @ \cup {<<domain, s>>}])
DomainRemove(h, domain) ==
    Where(Taken(h, domain), [hosts EXCEPT ![h].domains = {d \in @ : d[1] # domain}])

Carried(h, s, r) ==
    CASE r.op = "delete" -> Delete(h, s)
      [] r.op = "restore" -> Restore(h, s, r.value)
      [] r.op = "rollback" -> Rollback(h, s, r.value)
      [] r.op \in {"on", "off"} -> Public(h, s, r.op = "on")
      [] r.op = "domain-add" -> DomainAdd(h, s, r.value)
      [] r.op = "domain-remove" -> DomainRemove(h, r.value)
      [] OTHER -> {hosts}

(***************************************************************************)
(* The operations of core/ops.c.                                           *)
(***************************************************************************)
\* Mutant: only the first part of the archive's name is compared with the site.
SafeArchive_FirstPart(path, root, site) ==
    /\ path \in Archives
    /\ root # None => PathOf[path].root = root
    /\ Slug[site] = site
    /\ Len(PathOf[path].name) = 2 /\ PathOf[path].name[1] = Parts[site][1]

(* quick_restore_archive_path_is_safe: directly in the trash of the root,  *)
(* where that is known, and named for the site and a time.                 *)
SafeArchive(path, root, site) ==
    /\ path \in Archives
    /\ root # None => PathOf[path].root = root
    /\ Slug[site] = site
    /\ \E n \in DOMAIN Stamps : PathOf[path].name = Append(Parts[site], Stamps[n])

\* quick_ops_resolve_remote_plan, in a directory whose own name is no label
ResolveRemote(r) ==
    Resolve([NoOverrides EXCEPT !.profile = r.profile,
                                !.site = IF r.op \in {"domain-remove", "domain-list"} THEN None
                                         ELSE r.site],
            ShellEnv, json, NoFile, None, Loaded(config))

\* what the operations refuse before they resolve anything
Refusal(r) ==
    CASE r.op = "restore" /\ ~SafeArchive(r.value, None, r.site) -> "validation"
      [] r.op = "rollback" /\ r.value \in Options -> "validation"
      [] r.op \in {"domain-add", "domain-remove"} /\ r.value \notin SafeDomains -> "validation"
      [] r.op = "domain-add" /\ r.value \in SafeDomains /\ r.site = None -> "missing"
      [] OTHER -> "none"

Fetches(op) == op \in {"delete", "rollback", "status", "on", "off"}
Asks(r) == r.op \in {"delete", "restore", "rollback", "on"} /\ ~r.yes /\ ~r.confirmed

\* a call, up to its first word to the host
Call(p, r) ==
    LET to == ResolveRemote(r)
    IN  /\ req' = [req EXCEPT ![p] = r]
        /\ plan' = [plan EXCEPT ![p] = to]
        /\ at' = [at EXCEPT ![p] =
              CASE Refusal(r) # "none" -> Refusal(r)
                [] Refusal(r) = "none" /\ (~to.ok \/ to.ssh = None) -> "config"
                [] Refusal(r) = "none" /\ to.ok /\ to.ssh # None ->
                     CASE r.op = "restore" /\ ~SafeArchive(r.value, Root[to.ssh], to.site) -> "validation"
                       [] Fetches(r.op) -> "fetch"
                       [] r.op = "restore" /\ SafeArchive(r.value, Root[to.ssh], to.site) /\ Asks(r) -> "ask"
                       [] OTHER -> "send"]

Ends(p, code) == at' = [at EXCEPT ![p] = code]

\* quick_ops_fetch_site; the sites screen has asked for the flag that it is about to turn
Fetch(p) ==
    /\ at[p] = "fetch"
    /\ LET site == hosts[plan[p].ssh].site[plan[p].site]
           r == req[p]
       IN  \/ Ends(p, "io") /\ UNCHANGED <<req, plan>>
           \/ /\ site # None
              /\ CASE Asks(r) -> Ends(p, "ask") /\ UNCHANGED <<req, plan>>
                   [] r.op = "status" /\ ~r.tui -> Ends(p, "ok") /\ UNCHANGED <<req, plan>>
                   [] r.op = "status" /\ r.tui /\ ~site.public ->
                        Ends(p, "ask") /\ req' = [req EXCEPT ![p].op = "on"] /\ UNCHANGED plan
                   [] r.op = "status" /\ r.tui /\ site.public -> Call(p, [r EXCEPT !.op = "off"])
                   [] OTHER -> Ends(p, "send") /\ UNCHANGED <<req, plan>>
    /\ UNCHANGED <<typed, told, done, hosts, config, json>>

(* quick_cmd_prompt_site_confirmation and quick_tui_confirm_site_name: the *)
(* site exactly as it was given, from a terminal.                          *)
Ask(p) ==
    /\ at[p] = "ask"
    /\ \E answer \in Sites \cup {None} :
          /\ typed' = [typed EXCEPT ![p] = answer]
          /\ IF answer = req[p].site
             THEN Call(p, [req[p] EXCEPT !.confirmed = TRUE])
             ELSE Ends(p, "validation") /\ UNCHANGED <<req, plan>>
    /\ UNCHANGED <<told, done, hosts, config, json>>

(* The request over ssh: carried out and answered, carried out with the    *)
(* answer lost, refused, or never there.                                   *)
Send(p) ==
    /\ at[p] = "send"
    /\ LET h == plan[p].ssh
           s == plan[p].site
           r == req[p]
       IN  \/ /\ Ends(p, "io")
              /\ UNCHANGED <<told, done, hosts>>
           \/ /\ hosts' \in Carried(h, s, r)
              /\ done' = IF Reads(r.op) THEN done
                         ELSE [done EXCEPT ![p] = Append(@, [op |-> r.op, host |-> h, site |-> s,
                                                             value |-> r.value])]
              /\ \E code \in {"ok", "io"} :
                    /\ Ends(p, code)
                    /\ told' = IF code = "ok" /\ r.op = "delete" /\ Exists(h, s)
                               THEN [told EXCEPT ![p] = ArchiveAt(h, s, hosts[h].deletes + 1)]
                               ELSE told
    /\ UNCHANGED <<req, plan, typed, config, json>>

(***************************************************************************)
(* The command handlers: the request that a command line makes, or why it  *)
(* makes none.                                                             *)
(***************************************************************************)
ValueOptions(command) == Table[command].takes

HandlerRefuses(command, args) ==
    LET word(n) == Word(ValueOptions(command), args, n)
    IN  CASE word(1) = None -> "missing"
          [] command = "restore" /\ word(1) # None ->
                CASE Value(args, "--from") = None -> "missing"
                  [] Value(args, "--from") # None
                     /\ ~SafeArchive(Value(args, "--from"), None, word(1)) -> "validation"
                  [] OTHER -> "none"
          [] command = "public" /\ word(1) # None /\ word(2) \notin {None, "on", "off"} -> "validation"
          [] command = "domain" /\ word(1) \notin {None, "add", "remove", "list"} -> "validation"
          [] command = "domain" /\ word(1) \in {"add", "remove"} /\ word(2) = None -> "missing"
          [] OTHER -> "none"

HandlerRequest(command, args) ==
    LET word(n) == Word(ValueOptions(command), args, n)
        request == [NoRequest EXCEPT !.profile = Value(args, "--profile"), !.yes = Flag(args, "--yes")]
    IN  CASE command = "delete" -> [request EXCEPT !.op = "delete", !.site = word(1)]
          [] command = "restore" -> [request EXCEPT !.op = "restore", !.site = word(1),
                                                    !.value = Value(args, "--from")]
          [] command = "rollback" -> [request EXCEPT !.op = "rollback", !.site = word(1),
                                                     !.value = Value(args, "--to")]
          [] command = "public" -> [request EXCEPT !.site = word(1),
                                       !.op = IF word(2) = None THEN "status" ELSE word(2)]
          [] command = "domain" -> [request EXCEPT !.site = Value(args, "--site"), !.value = word(2),
                                       !.op = CASE word(1) = "add" -> "domain-add"
                                                [] word(1) = "remove" -> "domain-remove"
                                                [] OTHER -> "domain-list"]

AdminCommands == {"delete", "restore", "rollback", "public", "domain"}

\* app_cmd_delete, app_cmd_restore, app_cmd_rollback, app_cmd_public, app_cmd_domain
AdminStart(p, command, args) ==
    /\ CASE HandlerRefuses(command, args) # "none" ->
              Ends(p, HandlerRefuses(command, args)) /\ UNCHANGED <<req, plan>>
         [] HandlerRefuses(command, args) = "none" /\ LoadFails(config) ->
              Ends(p, "config") /\ UNCHANGED <<req, plan>>
         [] OTHER -> Call(p, HandlerRequest(command, args))
    /\ UNCHANGED <<typed, told, done, hosts, config, json>>

(***************************************************************************)
(* Listing, and the terminal's sites screen.                               *)
(***************************************************************************)
\* quick_op_list: the sites of the host, if it answers
Listed(to) ==
    {{}} \cup (IF to.ssh = None THEN {} ELSE {{s \in Sites : Exists(to.ssh, s)}})

\* quick list
ListStart(p, args) ==
    LET to == ResolveRemote([NoRequest EXCEPT !.profile = Value(args, "--profile")])
    IN  /\ Ends(p, IF LoadFails(config) \/ ~to.ok THEN "config" ELSE "ok")
        /\ UNCHANGED <<req, plan, typed, told, done, hosts, config, json>>

(* quick_tui_screen_sites, for one choice (BOUND): delete, or turn the     *)
(* public flag of a site that was listed.                                  *)
SitesScreen(p) ==
    /\ at[p] = "sites"
    /\ LET to == ResolveRemote(NoRequest)
       IN  \/ Ends(p, "closed") /\ UNCHANGED <<req, plan>>
           \/ /\ to.ok
              /\ \E rows \in Listed(to) : \E s \in rows, op \in {"delete", "status"} :
                    Call(p, [NoRequest EXCEPT !.op = op, !.site = s, !.tui = TRUE])
    /\ UNCHANGED <<typed, told, done, hosts, config, json>>

AdminStep(p) == Fetch(p) \/ Ask(p) \/ Send(p) \/ SitesScreen(p)
===============================================================================
