----------------------------- MODULE MCFrontEnd -----------------------------
(* The instances of FrontEnd: two profiles, two directories, one good host. *)
EXTENDS FrontEnd
CONSTANTS prod, h1, bad, ph, dom, url, home, blog, odd

MCSlug == [s \in {home, blog, odd} |-> IF s = odd THEN None ELSE s]
MCDirs == {<<>>, <<blog>>}
MCDirName == [d \in MCDirs |-> IF d = <<>> THEN home ELSE blog]
MCTyped == {[profile |-> prod, host |-> h1, domain |-> dom, iap |-> "none"],
            [profile |-> None, host |-> bad, domain |-> None, iap |-> None]}
MCEdits == {<<"ssh", h1>>, <<"ssh", None>>, <<"ssh", bad>>}
MCSiteEdits == {<<"name", home>>, <<"name", odd>>, <<"profile", prod>>}
Saved == [default |-> prod, profiles |-> [n \in Names |->
            IF n = prod THEN [BlankProfile EXCEPT !.ssh = h1, !.url = url, !.iap = "cloudflare"] ELSE None]]
With(p) == [d \in MCDirs |-> IF d = <<>> THEN p ELSE Empty]
Own == [files |-> {"own", "index"}, json |-> NoFile]
Named == [files |-> {"json"}, json |-> [BlankSite EXCEPT !.name = blog, !.profile = prod]]
Nameless == [files |-> {"json"}, json |-> BlankSite]
Host(p, b) == [h \in SafeHosts |-> [published |-> p, by |-> [s \in Sites |-> b]]]
MCStarts == {<<NoFile, With(Empty), Host(TRUE, None)>>,
             <<NoFile, With(Own), Host(FALSE, None)>>,
             <<Malformed, With(Named), Host(TRUE, "other")>>,
             <<Saved, With(Named), Host(TRUE, "other")>>,
             <<Saved, With(Nameless), Host(FALSE, "other")>>}
=============================================================================
