---------------------------- MODULE MCCommandLine ----------------------------
(* Instances of CommandLine for TLC.                                       *)
EXTENDS CommandLine

\* Every kind of word: each way of naming an option or a flag, groups with a
\* flag before or after an option, with two options and with an unknown one,
\* the words at() refuses, good values and bad ones.
UserWords ==
    {Long("source"), Long("serve-replay"), Long("log-level"), Long("unknown"),
     Short(<<"h">>), Short(<<"h", "s">>), Short(<<"s", "H">>), Short(<< >>),
     Plain("replay"), Plain("local-replay"), Plain("debug"), Plain("file"), Plain("")}

UserFiles == {Plain("file")}
UserPorts == {Plain("8080")}

==============================================================================
