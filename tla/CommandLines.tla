---------------------------- MODULE CommandLines ----------------------------
(***************************************************************************)
(* load() of src/config.rs on every command line up to MaxArguments, with  *)
(* files that are absent, bad, or set some of the keys.                    *)
(***************************************************************************)
EXTENDS Config

CONSTANTS
  MaxArguments, \* bound on the command line
  Paths,        \* names of files and sockets
  Contents      \* what load() may find in a file

\* A single dash makes no option of what follows --config or --socket.
ASSUME PathsAssumption == None \notin Paths /\ \A path \in Paths : IsPath(path)

ASSUME ContentsAssumption ==
  \A file \in Contents :
    \/ file.state = "present"
    \/ file.state \in {"absent", "bad"} /\ DOMAIN file.keys = {}

VARIABLES
  args, \* the arguments so far
  files \* what load() finds at each path

Arguments == Options \cup Paths \cup {"--help", "--version", "--other", ""}

Init ==
  /\ args = << >>
  /\ files \in [Paths \cup {DEFAULT_PATH} -> Contents]

Next ==
  /\ Len(args) < MaxArguments
  /\ \E arg \in Arguments : args' = Append(args, arg)
  /\ UNCHANGED files

Spec == Init /\ [][Next]_<<args, files>>

-----------------------------------------------------------------------------

\* Options and their values in turn.
WellFormed ==
  /\ Len(args) % 2 = 0
  /\ \A i \in DOMAIN args : args[i] \in IF i % 2 = 1 THEN Options ELSE Paths

\* The value of the last of several, None without one.
LastOf(option) ==
  LET at == {i \in DOMAIN args : args[i] = option}
  IN IF at = {} THEN None ELSE args[Max(at) + 1]

\* The command line is an edit of the default file: a program that runs does
\* what it would do without arguments if that file had the contents of the
\* selected one and the given socket, also where the socket repairs the file.
\* No --option is swallowed as the value of another, which would run a
\* configuration that nobody asked for.
CommandLineIsAnEdit ==
  LET path   == LastOf("--config")
      socket == LastOf("--socket")
      file   == files[IF path = None THEN DEFAULT_PATH ELSE path]
      given  == IF socket = None THEN << >> ELSE [socket |-> socket]
      edited == [files EXCEPT ![DEFAULT_PATH] =
                   [state |-> "present", keys |-> Over(given, file.keys)]]
  IN IF ~WellFormed THEN Load(args, files).action # "run"
     ELSE IF file.state = "bad" \/ (file.state = "absent" /\ path # None)
          THEN Load(args, files) = Error
     ELSE Load(args, files) = Load(<< >>, edited)

=============================================================================
