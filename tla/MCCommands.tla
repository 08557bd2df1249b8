------------------------------ MODULE MCCommands ------------------------------
(***************************************************************************)
(* The instances of Commands: every short line for one process, and a few  *)
(* crowds, on two hosts.  Tokens are strings, so that a site, a profile    *)
(* and an option can be mistaken for each other.                           *)
(***************************************************************************)
EXTENDS Commands, TLC
Seqs == INSTANCE SequencesExt
CONSTANTS p1, p2, p3, h1, h2

\* every token is a name of a site and of a profile too
Tokens == {"blog", "blog-2", "prod", "stage", "on", "off", "maybe", "add", "remove", "list",
           "d1", "d2", "bad domain", "a1", "a2", "a3", "a9", "r1", "r2", "yes", "local"} \cup Options \cup {Delimiter}
MCNames == Tokens
MCSites == Tokens
MCSlug == [s \in MCSites |-> CASE s = "--yes" -> "yes"
                              [] s \in (Options \ {"--yes"}) \cup {Delimiter} -> None
                              [] s = "bad domain" -> None
                              [] OTHER -> s]
MCParts == [s \in MCSites |-> IF s = "blog-2" THEN <<"blog", "2">> ELSE <<s>>]
MCRoot == [h \in {h1, h2} |-> IF h = h1 THEN "/srv" ELSE "/opt"]
MCStamps == <<"t1", "t2", "t3">>
MCPathOf == [a \in {"a1", "a2", "a3", "a9", "b1", "b2", "b3", "b4"} |->
    CASE a = "a1" -> [root |-> "/srv", name |-> <<"blog", "t1">>]
      [] a = "a2" -> [root |-> "/srv", name |-> <<"blog", "t2">>]
      [] a = "a3" -> [root |-> "/srv", name |-> <<"blog", "2", "t1">>]
      [] a = "a9" -> [root |-> "/tmp", name |-> <<"blog", "t1">>]
      [] a = "b1" -> [root |-> "/opt", name |-> <<"blog", "t1">>]
      [] a = "b2" -> [root |-> "/opt", name |-> <<"blog", "t2">>]
      [] a = "b3" -> [root |-> "/srv", name |-> <<"blog", "2", "t2">>]
      [] a = "b4" -> [root |-> "/opt", name |-> <<"stage", "t1">>]]
MCReleases == <<"r1", "r2", "r3", "r4">>
MCShellEnv == [profile |-> None, site |-> None, remote |-> None, domain |-> None]
MCVersions == {<<1, "x">>, <<1, "y">>}

Saved == [default |-> "prod", profiles |-> [n \in MCNames |->
            CASE n = "prod" -> [BlankProfile EXCEPT !.ssh = h1]
              [] n = "stage" -> [BlankProfile EXCEPT !.ssh = h2]
              [] OTHER -> None]]
Here == [BlankSite EXCEPT !.name = "blog"]
MCSiteFiles == {[BlankSite EXCEPT !.profile = "stage"]}

EmptyHost == [site |-> [s \in MCSites |-> None], trash |-> {}, domains |-> {}, deletes |-> 0, deploys |-> 0]
Old == Record(FALSE, "r2", "r1", "other")
FullHost == [EmptyHost EXCEPT !.site = [s \in MCSites |-> CASE s = "blog" -> Old [] s = "blog-2" -> [Old EXCEPT !.public = TRUE]
                                                               [] OTHER -> None],
                              !.domains = {<<"d2", "blog">>}, !.deploys = 2]
Trashed == [EmptyHost EXCEPT !.trash = {[path |-> "a1", site |-> "blog", record |-> Old]}, !.deletes = 1]
OneSite == [FullHost EXCEPT !.site["blog-2"] = None, !.site["stage"] = Old]
Hosts2(x) == [h \in {h1, h2} |-> IF h = h1 THEN x ELSE OneSite]
MCWorlds == {<<Saved, Here, Hosts2(FullHost)>>, <<Saved, Here, Hosts2(Trashed)>>,
             <<Malformed, Here, Hosts2(FullHost)>>}
MCOutput == [f \in {"f", "g"} |-> <<1, "x">>]

Lines(chunks, n) == {Seqs!FlattenSeq(c) : c \in UNION {[1..k -> chunks] : k \in 0..n}}
Common == {<<"blog">>, <<"--profile", "stage">>, <<"--profile">>, <<"--yes">>, <<"--">>}
Alone(command, chunks, n) == {(p1 :> <<command, a>>) : a \in Lines(chunks, n)}
Single ==
    Alone("delete", Common \cup {<<"stage">>, <<"--help">>, <<"--json">>, <<"--other">>}, 3)
    \cup Alone("restore", Common \cup {<<"--from", "a1">>, <<"--from", "a9">>, <<"--from", "a3">>}, 3)
    \cup Alone("rollback", Common \cup {<<"--to", "r1">>, <<"--to", "--yes">>}, 3)
    \cup Alone("public", Common \cup {<<"on">>, <<"off">>, <<"maybe">>}, 3)
    \cup Alone("domain", {<<"add">>, <<"add", "d1">>, <<"remove", "d2">>, <<"list">>, <<"add", "bad domain">>,
                          <<"--site", "blog">>, <<"--profile", "stage">>}, 3)
    \cup Alone("list", {<<"--profile", "prod">>, <<"blog">>}, 1)
    \cup Alone("deplo", {}, 0)

Prod(command, rest) == <<command, <<"--profile", "prod">> \o rest>>
Crowd ==
    { (p1 :> Prod("delete", <<"blog">>)) @@ (p2 :> Prod("restore", <<"blog", "--from", "a1", "--yes">>)),
      (p1 :> Prod("delete", <<"blog-2", "--yes">>)) @@ (p2 :> Prod("delete", <<"blog", "--yes">>))
          @@ (p3 :> Prod("deploy", <<"--site", "blog", "--yes">>)),
      (p1 :> Prod("rollback", <<"blog", "--yes">>)) @@ (p2 :> Prod("rollback", <<"blog", "--to", "r1">>))
          @@ (p3 :> Prod("public", <<"blog", "on">>)),
      (p1 :> <<"menu", <<>>>>) @@ (p2 :> Prod("public", <<"blog", "off">>)),
      (p1 :> <<"deploy", <<>>>>) @@ (p2 :> <<"deploy", <<"--dry-run">>>>),
      (p1 :> Prod("deploy", <<"--site", "blog">>)) @@ (p2 :> Prod("deploy", <<"--site", "blog-2", "--yes">>))
          @@ (p3 :> Prod("deploy", <<"--dry-run", "--no-delete", "--site", "blog">>)),
      (p1 :> <<"doctor", <<"--deep">>>>), (p1 :> <<"doctor", <<"--quiet", "--deep">>>>),
      (p1 :> <<"doctor", <<"--deep", "--profile", "local">>>>) }
MCCrowds == Single \cup Crowd
===============================================================================
