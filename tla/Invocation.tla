------------------------------ MODULE Invocation ------------------------------
(***************************************************************************)
(* What a command line asks for.  The arguments are read three times:      *)
(* args.c takes the output flags out of them, commands.c checks them       *)
(* against the table of the command, and then each handler looks up its    *)
(* options and positionals one by one (commands_openquick.c).              *)
(*                                                                         *)
(* A token is an option, "--", or a word; what a word means is up to the   *)
(* handler.  "--other" stands for an option that the command does not      *)
(* have; options that only change what a command prints or passes on       *)
(* (--no-build, --checksum, --open, ...) are left out.                     *)
(***************************************************************************)
EXTENDS ProfileConfig

Delimiter == "--"
OutputFlags == {"--json", "--quiet"}
Options == {"--profile", "--site", "--from", "--to", "--yes", "--remote", "--deep",
            "--dry-run", "--no-delete", "--help", "--other"} \cup OutputFlags

\* the tables of commands.c: options with a value, flags, and how many words
Unbounded == 1000    \* APP_ARG_ARITY_UNBOUNDED
Entry(takes, flags, min, max) == [takes |-> takes, flags |-> flags, min |-> min, max |-> max]
Table ==
    [delete   |-> Entry({"--profile"}, {"--yes"}, 1, 1),
     restore  |-> Entry({"--profile", "--from"}, {"--yes"}, 1, 1),
     rollback |-> Entry({"--profile", "--to"}, {"--yes"}, 1, 1),
     public   |-> Entry({"--profile"}, {"--yes"}, 1, 2),
     domain   |-> Entry({"--site", "--profile"}, {}, 1, 2),
     deploy   |-> Entry({"--site", "--profile"}, {"--dry-run", "--no-delete", "--yes"}, 0, Unbounded),
     doctor   |-> Entry({"--profile", "--site"}, {"--remote", "--deep"}, 0, Unbounded),
     list     |-> Entry({"--profile"}, {"--remote"}, 0, 0),
     open     |-> Entry({"--profile"}, {}, 0, Unbounded),
     menu     |-> Entry({}, {}, 0, 0)]

Least(S, otherwise) == IF S = {} THEN otherwise ELSE CHOOSE i \in S : \A j \in S : i <= j

\* the place of the first "--", wherever it stands
Stop(args) == Least({i \in DOMAIN args : args[i] = Delimiter}, Len(args) + 1)

\* app_parse_args: flags such as --json may stand anywhere before "--"
Strips(args) ==
    LET kept[i \in 0..Len(args)] ==
            IF i = 0 THEN <<>>
            ELSE IF args[i] \in OutputFlags /\ i < Stop(args) THEN kept[i - 1]
            ELSE Append(kept[i - 1], args[i])
    IN  kept
Stripped(args) == Strips(args)[Len(args)]

(***************************************************************************)
(* Reading from left to right: an option of takes uses up the next token,  *)
(* whatever that is, and the first "--" that is not used up ends the       *)
(* options.                                                                *)
(***************************************************************************)
WalkOver(takes, args, w, i) ==
    IF i \in w.values \/ w.end # 0 THEN w
    ELSE IF args[i] = Delimiter THEN [w EXCEPT !.end = i]
    ELSE IF args[i] \in takes THEN [w EXCEPT !.values = @ \cup {i + 1}]
    ELSE w
Walks(takes, args) ==
    LET walk[i \in 0..Len(args)] ==
            IF i = 0 THEN [values |-> {}, end |-> 0]
            ELSE WalkOver(takes, args, walk[i - 1], i)
    IN  walk
Walk(takes, args) == Walks(takes, args)[Len(args)]

AfterOptions(w, i) == w.end # 0 /\ i > w.end
OptionsAt(w, args) ==
    {i \in DOMAIN args : args[i] \in Options /\ i \notin w.values /\ ~AfterOptions(w, i)}
WordsAt(w, args) ==
    {i \in DOMAIN args : i \notin w.values \cup {w.end} /\ (args[i] \in Options => AfterOptions(w, i))}

\* app_command_validate_invocation
Validate(command, args) ==
    LET entry == Table[command]
        w == Walk(entry.takes, args)
        words == Cardinality(WordsAt(w, args))
    IN  CASE \E i \in OptionsAt(w, args) : args[i] \notin entry.takes \cup entry.flags -> "unknown-option"
          [] \E i \in w.values : i > Len(args) -> "missing"
          [] words < entry.min -> "missing"
          [] words > entry.max -> "invalid"
          [] OTHER -> "ok"

\* app_dispatch_configured_command looks for --help before it validates
AsksForHelp(args) == \E i \in DOMAIN args : i < Stop(args) /\ args[i] = "--help"

(***************************************************************************)
(* The lookups of the handlers.                                            *)
(***************************************************************************)
\* quick_cmd_value and quick_cmd_flag look at every token up to the first "--"
Value(args, name) ==
    LET i == Least({i \in DOMAIN args : i < Stop(args) /\ args[i] = name}, 0)
    IN  IF i = 0 \/ i + 1 > Len(args) THEN None ELSE args[i + 1]
Flag(args, name) == \E i \in DOMAIN args : i < Stop(args) /\ args[i] = name

\* Mutant: the handler's list of the options with a value is forgotten.
Word_NoValues(valueOpts, args, n) ==
    LET words == WordsAt(Walk({}, args), args)
    IN  IF Cardinality(words) < n THEN None
        ELSE args[CHOOSE i \in words : Cardinality({j \in words : j <= i}) = n]

\* site_admin_nth_positional and quick_cmd_first_positional
Word(valueOpts, args, n) ==
    LET words == WordsAt(Walk(valueOpts, args), args)
    IN  IF Cardinality(words) < n THEN None
        ELSE args[CHOOSE i \in words : Cardinality({j \in words : j <= i}) = n]

(***************************************************************************)
(* What the user asked for: the same line read once from left to right,    *)
(* where every option is what its place says it is.                        *)
(***************************************************************************)
Meant(command, args) ==
    LET w == Walk(Table[command].takes, args)
        at(name) == {i \in OptionsAt(w, args) : args[i] = name}
        words == WordsAt(w, args)
    IN  [value |-> [name \in Options |-> IF name \notin Table[command].takes \/ at(name) = {} THEN None
                                        ELSE args[Least(at(name), 0) + 1]],
         flags |-> {args[i] : i \in OptionsAt(w, args)},
         words |-> [n \in 1..Cardinality(words) |->
                       args[CHOOSE i \in words : Cardinality({j \in words : j <= i}) = n]]]

\* no option was given another option, or "--", for its value
Plain(command, args) ==
    \A i \in Walk(Table[command].takes, args).values :
        i <= Len(args) => args[i] \notin Options \cup {Delimiter}
===============================================================================
