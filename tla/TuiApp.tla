------------------------------- MODULE TuiApp -------------------------------
(***************************************************************************)
(* What the screens of the terminal front end share: the terminal and its  *)
(* signals (tui/tui.c), the application state (tui/tui_app_state.c), the   *)
(* project in the working directory and the scaffold that quick_op_init    *)
(* writes (core/ops.c), and the dev server the front end starts.           *)
(*                                                                         *)
(* The process is sequential: at says which loop or dialog it is in.  A    *)
(* dialog takes keys only while no signal has come (Attentive); when one   *)
(* has, it returns as if the user had said no.                             *)
(***************************************************************************)
EXTENDS ProfileConfig

CONSTANTS
    Dirs,           \* directories as typed: sequences of names, relative to the cwd
    DirName,        \* the name of each directory
    Dot,            \* the working directory, when it is given as the path "."
    NoInput,        \* of an input dialog that is left
    EnvRemote,      \* QUICK_REMOTE
    Signals,        \* those that may come
    TypedSites,     \* the site names that the user types
    MaxTrips        \* how many screens are opened from the dashboard

ASSUME AppAssumption ==
    /\ <<>> \in Dirs /\ Dot \notin Dirs /\ DirName \in [Dirs -> Sites]
    /\ EnvRemote \in SafeHosts \cup {None}
    /\ Signals \subseteq {"INT", "TERM"} /\ TypedSites \subseteq Sites
    /\ MaxTrips \in Nat

VARIABLES
    at,             \* the dialog or loop the process is in
    code,           \* what tui_run_app returns
    signal,         \* tui_interrupted_signal
    curses, handlers,
    file,           \* the profile file
    mem,            \* state->profiles
    project,        \* per directory: the files there and what quick.json says
    child,          \* the dev server: None, or what it was asked to serve and serves
    trips

tty == <<signal, curses, handlers, code>>
vars_app == <<at, tty, file, mem, project, child, trips>>

Env0 == [profile |-> None, site |-> None, remote |-> EnvRemote, domain |-> None]

(***************************************************************************)
(* The terminal.                                                           *)
(***************************************************************************)
\* tui_modal_run, tui_show_menu: a signal ends the dialog before the next key
Attentive == signal = "none"

\* tui_modal_run: what a dialog returns, none when it cannot open or is dismissed
Modal(answers, none) == IF Attentive THEN answers \cup {none} ELSE {none}

\* tui_confirm: only y answers yes
Confirm == Modal({TRUE}, FALSE)

\* tui_input_dialog: a text, None when Enter finds the line blank, NoInput on Esc
Input(texts) == Modal(texts \cup {None}, NoInput)
Kept(input, value) == IF input = None THEN value ELSE input

Signal ==
    /\ handlers /\ Attentive
    /\ signal' \in Signals
    /\ UNCHANGED <<at, code, curses, handlers, file, mem, project, child, trips>>

\* tui_init: no terminal, or curses or a handler fails and all is put back
InitFails ==
    /\ at = "shell"
    /\ at' = "ended" /\ code' = "error"
    /\ UNCHANGED <<signal, curses, handlers, file, mem, project, child, trips>>

InitTerminal ==
    /\ curses' = TRUE /\ handlers' = TRUE
    /\ UNCHANGED signal

\* tui_take_interrupt_error
TakeInterrupt == IF signal = "TERM" THEN "terminated" ELSE "interrupted"

(***************************************************************************)
(* The state of the application.                                           *)
(***************************************************************************)
\* quick_tui_reload_profiles: what was in memory goes, even when the load fails
Reload == mem' = Loaded(file)
DefaultName == IF mem.default = None THEN Local ELSE mem.default

\* quick_tui_app_state_destroy and tui_cleanup, on every way out of tui_run_app
Quit(c) ==
    /\ at' = "ended" /\ code' = c
    /\ child' = None
    /\ curses' = FALSE /\ handlers' = FALSE /\ signal' = "none"

(* quick_tui_poll_serve_child sees that the server is gone *)
ChildEnds ==
    /\ child # None
    /\ child' = None
    /\ UNCHANGED <<at, tty, file, mem, project, trips>>

(***************************************************************************)
(* The project: files holds index.html ("index"), quick.json ("json"), the *)
(* other scaffolded files ("rest") and the user's own ("own").             *)
(***************************************************************************)
Scaffold == <<"index", "json", "rest">>
Empty == [files |-> {}, json |-> NoFile]

\* quick_op_classify_context
ProjectState(p) ==
    IF p.json # NoFile
    THEN IF p.json # Malformed /\ p.json.name # None THEN "valid" ELSE "malformed"
    ELSE IF p.files # {} THEN "adoptable" ELSE "none"
ShowWelcome(config, p) ==
    Count(config) = 0 /\ ProjectState(p) \in {"none", "adoptable"}

Scaffolded(p, name, profile, i) ==
    LET new == {Scaffold[k] : k \in 1..i} \ p.files
    IN  [files |-> p.files \cup new,
         json |-> IF "json" \in new
                  THEN [name |-> name, profile |-> profile, subdomain |-> None]
                  ELSE p.json]

(* quick_op_init: refused when the name is no label, or one of its files is *)
(* there and they are not to be adopted; a write that fails leaves the      *)
(* files before it and half of its own, or an empty one.                    *)
InitResults(p, name, profile, adopt) ==
    IF Slug[name] = None \/ (~adopt /\ \E k \in DOMAIN Scaffold : Scaffold[k] \in p.files)
    THEN {<<"refused", p>>}
    ELSE LET site == Slug[name]
             half == Scaffolded(p, site, profile, 2)
         IN  {<<"ok", Scaffolded(p, site, profile, 3)>>}
             \cup {<<"failed", Scaffolded(p, site, profile, i)>> : i \in 0..2}
             \cup (IF "json" \in p.files THEN {}
                   ELSE {<<"failed", [half EXCEPT !.json = j]>> : j \in {Malformed, BlankSite}})

(***************************************************************************)
(* quick_tui_start_serve_child.  The plan's output directory is relative   *)
(* when the directory is, and the child changes into the directory first.  *)
(***************************************************************************)
\* the plan of a command run on directory d of tree, by its overrides; the path
\* "." has no name to fall back on, where no path at all has the directory's
Tree(d) == IF d = Dot THEN <<>> ELSE d
PlanIn(tree, d, o) ==
    Resolve(o, Env0, tree[Tree(d)].json,
            IF Len(Tree(d)) = 1 THEN tree[<<>>].json ELSE NoFile,
            IF d = Dot THEN None ELSE DirName[d], mem)
RootOf(d, plan) == IF plan.root = "parent" THEN <<>> ELSE Tree(d)

Serves(d, plan) == d \o RootOf(d, plan)

\* a server that runs is kept, whatever it serves; None when none could start
Served(tree, d) ==
    IF child # None THEN {child}
    ELSE {None}
         \cup {[asked |-> d, serves |-> Serves(d, plan)] :
                 plan \in {PlanIn(tree, d, [NoOverrides EXCEPT !.profile = DefaultName])} \ {NoPlan}}
=============================================================================
