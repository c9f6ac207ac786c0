----------------------------- MODULE CommandLine -----------------------------
(* The parser of core/cli.* and the part of main that builds it, runs it and    *)
(* decides what to start.  A word of argv is abstracted to how the parser      *)
(* sees it: a long option, a group of short ones, or plain text; "-" is the    *)
(* empty group and "" the empty text.                                          *)
EXTENDS Naturals, Sequences, FiniteSetsExt

CONSTANTS Words,      \* the words the user may type
          MaxWords,   \* bound on their number
          Files,      \* the words that are paths of readable files
          Ports,      \* the words std::stoul accepts
          NULLOPT     \* std::nullopt

\* A word is a long option, plain text, or a group of short options.
ASSUME WordsAssumption ==
    /\ \A w \in Words : \/ w.kind \in {"long", "plain"}
                        \/ w.kind = "short" /\ IsFiniteSet(DOMAIN w.names)
    /\ MaxWords \in Nat

VARIABLES opts, args, lookup, argv, arg_idx, arg_pos, parsed_input,
          parsed_state, pc, outcome

table == <<opts, args, lookup>>
parsed == <<argv, arg_idx, arg_pos, parsed_input, parsed_state>>
vars == <<table, parsed, pc, outcome>>

Long(n) == [kind |-> "long", name |-> n]
Short(ns) == [kind |-> "short", names |-> ns]
Plain(t) == [kind |-> "plain", name |-> t]

------------------------------------------------------------------------------
(* The elements main adds; their names have no spaces here. *)

Option(name, long, short, default) ==
    [element |-> "Option", name |-> name, long |-> long, short |-> short,
     default |-> default]
Flag(name, long, short) == [Option(name, long, short, NULLOPT) EXCEPT !.element = "Flag"]

Elements ==
    << Flag("help", "help", "h"),
       [element |-> "Arg", name |-> "mode", default |-> NULLOPT],
       Option("source", "source", "s", NULLOPT),
       Flag("serve_replay", "serve-replay", NULLOPT),
       Option("hostname", "hostname", "H", Plain("127.0.0.1")),
       Option("port", "port", "P", Plain("8080")),
       Option("url", "url", "u", NULLOPT),
       Option("log_output", "log-out", NULLOPT, Plain("indy-tui.log")),
       Option("log_level", "log-level", NULLOPT, Plain("info")) >>

Modes == {"live", "live-debug", "replay"}
Levels == {"none", "warn", "info", "debug", "debug2"}

\* std::nullopt is not a text.
ASSUME NulloptAssumption ==
    /\ NULLOPT \notin {"success", "failure", "terminate", "serving", "session"}
    /\ \A i \in DOMAIN Elements : Elements[i].element # "Arg" => Elements[i].long # NULLOPT

\* The inputs for which an element's handler does not throw.
Accepts(name, word) ==
    CASE name = "mode"      -> word \in {Plain(m) : m \in Modes}
      [] name = "log_level" -> word \in {Plain(l) : l \in Levels}
      [] name = "source"    -> word \in Files
      [] name = "port"      -> word \in Ports
      [] OTHER              -> TRUE

Default(name) ==
    LET i == CHOOSE i \in DOMAIN Elements : Elements[i].name = name
    IN  Elements[i].default

Names == {Elements[i].name : i \in DOMAIN Elements}

------------------------------------------------------------------------------
Init ==
    /\ opts = << >> /\ args = << >>
    /\ lookup = << >>
    /\ argv = << >> /\ arg_idx = 1 /\ arg_pos = 0
    /\ parsed_input = [n \in Names |-> NULLOPT]
    /\ parsed_state = {}
    /\ pc = "build" /\ outcome = NULLOPT

Goto(p) == pc' = p /\ UNCHANGED outcome
Ends(o) == pc' = "ended" /\ outcome' = o

AddElement ==
    /\ pc = "build" /\ Len(opts) + Len(args) < Len(Elements)
    /\ LET e == Elements[Len(opts) + Len(args) + 1]
       IN  IF e.element = "Arg"
           THEN args' = Append(args, e) /\ UNCHANGED opts
           ELSE opts' = Append(opts, e) /\ UNCHANGED args
    /\ UNCHANGED <<lookup, parsed, pc, outcome>>

\* Later elements replace earlier ones of the same option.
Lookup(field) ==
    [n \in {opts[i][field] : i \in DOMAIN opts} \ {NULLOPT} |->
        opts[Max({i \in DOMAIN opts : opts[i][field] = n})]]

Finalize ==
    /\ pc = "build" /\ Len(opts) + Len(args) = Len(Elements)
    /\ lookup' = [long |-> Lookup("long"), short |-> Lookup("short")]
    /\ Goto("call") /\ UNCHANGED <<opts, args, parsed>>

\* The user's words.
Call ==
    /\ pc = "call"
    /\ \E n \in 0 .. MaxWords : \E w \in [1 .. n -> Words] : argv' = w
    /\ Goto("parse")
    /\ UNCHANGED <<table, arg_idx, arg_pos, parsed_input, parsed_state>>

------------------------------------------------------------------------------
(* parse_input, an iteration at a time. *)

\* at() throws std::out_of_range for the words "" and "-".
Unreadable(w) == w \in {Plain(""), Short(<< >>)}

\* What a word that is a switch names, and in which lookup.
Named(w) == IF w.kind = "long" THEN <<w.name>> ELSE w.names
Known(w) == \A k \in DOMAIN Named(w) : Named(w)[k] \in DOMAIN lookup[w.kind]
Switched(w) == [k \in DOMAIN Named(w) |-> lookup[w.kind][Named(w)[k]]]
OptionsAt(w) == {k \in DOMAIN Named(w) : Switched(w)[k].element = "Option"}
OptionsOf(w) == {Switched(w)[k].name : k \in OptionsAt(w)}
FlagsOf(w) == {Switched(w)[k].name : k \in DOMAIN Named(w) \ OptionsAt(w)}

Parsing == pc = "parse" /\ arg_idx <= Len(argv)

ParseThrows == Parsing /\ Unreadable(argv[arg_idx]) /\ Ends("terminate")
               /\ UNCHANGED <<table, parsed>>

\* Mutant of ParseSwitch: the value is left to be read as an argument.
ParseSwitchValueKept ==
    /\ Parsing /\ ~Unreadable(argv[arg_idx])
    /\ LET w == argv[arg_idx]
       IN  /\ w.kind # "plain"
           /\ Known(w) /\ (OptionsAt(w) # {} => arg_idx < Len(argv))
           /\ parsed_input' = [n \in Names |->
                  IF n \in OptionsOf(w) THEN argv[arg_idx + 1] ELSE parsed_input[n]]
           /\ parsed_state' = parsed_state \union FlagsOf(w)
           /\ arg_idx' = arg_idx + 1
    /\ UNCHANGED <<table, argv, arg_pos, pc, outcome>>

\* Every option a word names takes the word after it, and skips a word.
ParseSwitch ==
    /\ Parsing /\ ~Unreadable(argv[arg_idx])
    /\ LET w == argv[arg_idx]
       IN  /\ w.kind # "plain"
           /\ Known(w) /\ (OptionsAt(w) # {} => arg_idx < Len(argv))
           /\ parsed_input' = [n \in Names |->
                  IF n \in OptionsOf(w) THEN argv[arg_idx + 1] ELSE parsed_input[n]]
           /\ parsed_state' = parsed_state \union FlagsOf(w)
           /\ arg_idx' = arg_idx + 1 + Cardinality(OptionsAt(w))
    /\ UNCHANGED <<table, argv, arg_pos, pc, outcome>>

ParseArg ==
    /\ Parsing /\ ~Unreadable(argv[arg_idx])
    /\ argv[arg_idx].kind = "plain" /\ arg_pos < Len(args)
    /\ parsed_input' = [parsed_input EXCEPT ![args[arg_pos + 1].name] = argv[arg_idx]]
    /\ arg_pos' = arg_pos + 1 /\ arg_idx' = arg_idx + 1
    /\ UNCHANGED <<table, argv, parsed_state, pc, outcome>>

\* InputParsingErr: the message, the help and EXIT_FAILURE.
ParseError ==
    /\ Parsing /\ ~Unreadable(argv[arg_idx])
    /\ LET w == argv[arg_idx]
       IN  \/ w.kind = "plain" /\ arg_pos >= Len(args)
           \/ w.kind # "plain" /\ ~Known(w)
           \/ /\ w.kind # "plain" /\ Known(w)
              /\ OptionsAt(w) # {} /\ arg_idx = Len(argv)
    /\ Goto("usage") /\ UNCHANGED <<table, parsed>>

ParseDone ==
    /\ pc = "parse" /\ arg_idx > Len(argv)
    /\ Goto("help") /\ UNCHANGED <<table, parsed>>

------------------------------------------------------------------------------
(* What main does with the values. *)

\* get_help() throws on a parser that is not finalized and on elements
\* without a long option.
HelpWorks == lookup # << >> /\ \A i \in DOMAIN opts : opts[i].long # NULLOPT

Usage == /\ pc = "usage" /\ Ends(IF HelpWorks THEN "failure" ELSE "terminate")
         /\ UNCHANGED <<table, parsed>>

\* Mutant of Got: the default comes before the input.
GotDefaultFirst(name) ==
    LET input == IF Default(name) # NULLOPT THEN Default(name) ELSE parsed_input[name]
    IN  input # NULLOPT /\ Accepts(name, input)

\* get() runs the handler on the input or the default, and throws without
\* either.
Got(name) ==
    LET input == IF parsed_input[name] = NULLOPT THEN Default(name) ELSE parsed_input[name]
    IN  input # NULLOPT /\ Accepts(name, input)

Help ==
    /\ pc = "help"
    /\ IF "help" \in parsed_state
       THEN Ends(IF HelpWorks THEN "success" ELSE "terminate") ELSE Goto("log")
    /\ UNCHANGED <<table, parsed>>

SetLog ==
    /\ pc = "log"
    /\ IF Got("log_output") /\ Got("log_level") THEN Goto("serve") ELSE Ends("terminate")
    /\ UNCHANGED <<table, parsed>>

ServeReplay ==
    /\ pc = "serve"
    /\ Goto(IF "serve_replay" \in parsed_state THEN "await" ELSE "mode")
    /\ UNCHANGED <<table, parsed>>

\* The server's thread, while main waits for a shutdown nobody requests.
Server ==
    /\ pc = "await"
    /\ Ends(IF \A n \in {"source", "hostname", "port"} : Got(n)
            THEN "serving" ELSE "terminate")
    /\ UNCHANGED <<table, parsed>>

StartSession ==
    /\ pc = "mode" /\ Ends(IF Got("mode") THEN "session" ELSE "terminate")
    /\ UNCHANGED <<table, parsed>>

Next ==
    \/ AddElement \/ Finalize \/ Call
    \/ ParseThrows \/ ParseSwitch \/ ParseArg \/ ParseError \/ ParseDone
    \/ Usage \/ Help \/ SetLog \/ ServeReplay \/ Server \/ StartSession

Spec == Init /\ [][Next]_vars

------------------------------------------------------------------------------
(* What the line means, read without the parser's loop: a word is a value when *)
(* the word before it is a switch that takes one; a later switch replaces an   *)
(* earlier one.                                                                *)

Takes(w) == w.kind # "plain" /\ Known(w) /\ OptionsAt(w) # {}
Values(takers, n) ==
    LET value[i \in 0 .. n] == i > 1 /\ i - 1 \in takers /\ ~value[i - 1]
    IN  {i \in 1 .. n : value[i]}

Read == DOMAIN argv \ Values({i \in DOMAIN argv : Takes(argv[i])}, Len(argv))
Switches == {i \in Read : argv[i].kind # "plain"}
Positional == {i \in Read : argv[i].kind = "plain"}
Asked(name) ==
    LET at == {i \in Switches : name \in OptionsOf(argv[i])}
    IN  IF at = {} THEN NULLOPT ELSE argv[Max(at) + 1]
FlagsAsked == UNION {FlagsOf(argv[i]) : i \in {j \in Switches : Known(argv[j])}}

Parsed == outcome \notin {NULLOPT, "failure"} \/ pc \in {"help", "log", "serve", "await", "mode"}
Readable ==
    /\ \A i \in Read : ~Unreadable(argv[i])
    /\ \A i \in Switches : Known(argv[i]) /\ Cardinality(OptionsAt(argv[i])) <= 1

\* When parse_input returns, no option is left without a value, every option
\* has the word after its last switch, every flag named by a switch and no
\* other is set, and the remaining words are the arguments in order - as long
\* as no group names two options (cli.cpp:188-240).
ParsedAsRead ==
    Parsed /\ Readable =>
        /\ \A i \in Switches : Takes(argv[i]) => i < Len(argv)
        /\ \A i \in DOMAIN opts : opts[i].element = "Option" =>
               parsed_input[opts[i].name] = Asked(opts[i].name)
        /\ parsed_state = FlagsAsked
        /\ Cardinality(Positional) = arg_pos
        /\ \A i \in Positional :
               LET k == Cardinality({j \in Positional : j <= i})
               IN  parsed_input[args[k].name] = argv[i]

\* A session or a replay server is started only for a line that asks for it
\* and not for help, with a level, a mode or a source that its handler takes
\* (client_main.cpp:163-206).
StartsAsAsked ==
    Readable /\ outcome \in {"session", "serving"} =>
        /\ "help" \notin FlagsAsked
        /\ (outcome = "serving") = ("serve_replay" \in FlagsAsked)
        /\ Asked("log_level") = NULLOPT \/ Accepts("log_level", Asked("log_level"))
        /\ outcome = "session" => \E i \in Positional : Accepts("mode", argv[i])
        /\ outcome = "serving" => Asked("source") \in Files

\* Refuted: every flag on the line is set.  Two options of one group are given
\* the same next word while two words are skipped, so the switch after them is
\* lost (cli.cpp:203).
FlagsNotSkipped == Parsed /\ outcome # "terminate" => parsed_state = FlagsAsked

\* Refuted: an error in the words is reported before the program ends.  The
\* words "" and "-", a value its handler refuses and a missing source or mode
\* are not InputParsingErr, or are thrown outside the try (client_main.cpp:163).
ErrorsReported == outcome # "terminate"

\* Refuted: the help text lists the mode local-replay, which the handler does
\* not know (client_main.cpp:48).
ListedModesWork == argv = <<Plain("local-replay")>> => outcome # "terminate"

==============================================================================
