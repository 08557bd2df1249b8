---------------------------- MODULE ProfileConfig ----------------------------
(***************************************************************************)
(* The user's profile file (core/profile_config.c) and what a deploy plan  *)
(* makes of it, the environment and quick.json (core/deploy_plan.c).       *)
(*                                                                         *)
(* Strings are abstract values: None is the empty or absent string, Slug   *)
(* is what a name becomes as a web label (None when nothing is left), and  *)
(* SafeHosts are the ssh targets that pass the character check.  A profile *)
(* keeps the fields the front ends treat differently; remote_root travels  *)
(* with domain and the rest of iap with its type.                          *)
(***************************************************************************)
EXTENDS Naturals, FiniteSets, Sequences

CONSTANTS
    None,
    Names,          \* the names of profiles
    Local,          \* the name "local"
    Hosts, SafeHosts,
    Domains, Urls,
    Sites,          \* site names as typed
    Slug,
    MaxProfiles,    \* QUICK_PROFILE_MAX_PROFILES
    NoFile,         \* of a file that is not there
    Malformed       \* of a file that does not parse, is too large or unreadable

ASSUME ConfigAssumption ==
    /\ Local \in Names /\ SafeHosts \subseteq Hosts
    /\ None \notin Names \cup Hosts \cup Domains \cup Urls \cup Sites
    /\ Slug \in [Sites -> Sites \cup {None}]
    /\ \A s \in Sites : Slug[s] # None => Slug[Slug[s]] = Slug[s]
    /\ MaxProfiles \in Nat \ {0}
    /\ NoFile # Malformed

Iaps == {"none", "tailscale", "cloudflare"}

Profile == [ssh : Hosts \cup {None}, domain : Domains \cup {None},
            url : Urls \cup {None}, iap : Iaps \cup {None}]
BlankProfile == [ssh |-> None, domain |-> None, url |-> None, iap |-> None]

\* what the file says: the default profile and the profiles by name
Config == [default : Names \cup {None}, profiles : [Names -> Profile \cup {None}]]
NoProfiles == [default |-> None, profiles |-> [n \in Names |-> None]]
File == Config \cup {NoFile, Malformed}

Count(config) == Cardinality({n \in Names : config.profiles[n] # None})

\* quick_profile_config_find
Find(config, n) == IF n = None THEN None ELSE config.profiles[n]

\* quick_profile_config_upsert: the table is full
Full(config, n) == config.profiles[n] = None /\ Count(config) >= MaxProfiles

\* the profile as it is, or the blank one that upsert makes
Upserted(config, n) == IF config.profiles[n] = None THEN BlankProfile ELSE config.profiles[n]

(* quick_profile_config_load_default: a file that is not there is no error *)
LoadFails(file) == file = Malformed
Loaded(file) == IF file \in {NoFile, Malformed} THEN NoProfiles ELSE file

(* quick_profile_config_write_file rewrites the file in place: it may fail *)
(* before it has opened the file, or leave half of it, or an empty file,   *)
(* which loads as no profiles.                                             *)
Lost == {Malformed, NoProfiles}
Write(file, content) ==
    {<<"ok", content>>, <<"error", file>>} \cup {<<"error", f>> : f \in Lost}

(***************************************************************************)
(* quick_deploy_plan_resolve.  o: the command's overrides, env: the        *)
(* QUICK_ variables, here and parent: quick.json of the directory and of   *)
(* its parent, base: the directory's own name.                             *)
(***************************************************************************)
First(s) ==
    IF \E i \in DOMAIN s : s[i] # None
    THEN s[CHOOSE i \in DOMAIN s : s[i] # None /\ \A j \in 1..(i-1) : s[j] = None]
    ELSE None

Overrides == [profile : Names \cup {None}, site : Sites \cup {None},
              subdomain : Sites \cup {None}, remote : Hosts \cup {None}]
NoOverrides == [profile |-> None, site |-> None, subdomain |-> None, remote |-> None]
Env == [profile : Names \cup {None}, site : Sites \cup {None},
        remote : Hosts \cup {None}, domain : Domains \cup {None}]
SiteConfig == [name : Sites \cup {None}, profile : Names \cup {None},
               subdomain : Sites \cup {None}]
BlankSite == [name |-> None, profile |-> None, subdomain |-> None]
SiteFile == SiteConfig \cup {NoFile, Malformed}

\* a file that cannot be read says nothing, and a profile that is there is not an empty string
ASSUME FileAssumption ==
    /\ {NoFile, Malformed} \cap (Config \cup SiteConfig) = {}
    /\ None \notin Profile

\* quick_find_site_root: the directory's quick.json before its parent's
SiteRoot(here, parent) ==
    IF here = NoFile /\ parent # NoFile
    THEN [at |-> "parent", config |-> parent]
    ELSE [at |-> "here", config |-> IF here = NoFile THEN BlankSite ELSE here]

Slugged(s) == IF s = None THEN None ELSE Slug[s]

\* quick_make_url
MakeUrl(subdomain, domain, url) ==
    IF domain # None THEN <<"https", subdomain, domain>> ELSE <<"path", url, subdomain>>

PlanProfile(o, env, site, config) ==
    LET n == First(<<o.profile, env.profile, site.profile, config.default>>)
    IN  IF n = None THEN Local ELSE n

PlanSite(o, env, site, base) ==
    LET n == First(<<o.site, env.site, site.name>>) IN Slugged(IF n = None THEN base ELSE n)

PlanSubdomain(o, site, name) == Slugged(First(<<o.subdomain, site.subdomain, name>>))

PlanSsh(o, env, profile) ==
    First(<<o.remote, env.remote, IF profile = None THEN None ELSE profile.ssh>>)

PlanDomain(env, profile) ==
    First(<<env.domain, IF profile = None THEN None ELSE profile.domain>>)

NoPlan == [ok |-> FALSE]

Resolve(o, env, here, parent, base, config) ==
    LET root == SiteRoot(here, parent)
        name == PlanProfile(o, env, root.config, config)
        profile == Find(config, name)
        site == PlanSite(o, env, root.config, base)
        subdomain == PlanSubdomain(o, root.config, site)
    IN  IF root.config = Malformed \/ site = None \/ subdomain = None
        THEN NoPlan
        ELSE [ok |-> TRUE, root |-> root.at, profile |-> name, site |-> site,
              subdomain |-> subdomain, ssh |-> PlanSsh(o, env, profile),
              url |-> MakeUrl(subdomain, PlanDomain(env, profile),
                              IF profile = None THEN None ELSE profile.url)]
==============================================================================
