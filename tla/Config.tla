------------------------------- MODULE Config -------------------------------
(***************************************************************************)
(* load() of src/config.rs: what the command line and the configuration    *)
(* files make the program do.  A file is absent, bad (unreadable, no TOML, *)
(* an unknown key, a value of a wrong type or range), or sets some of the  *)
(* keys; only a file that is present sets any.  The log level decides      *)
(* nothing and is left out.                                                *)
(***************************************************************************)
EXTENDS Integers, SequencesExt

CONSTANTS
  None,        \* Rust's Option::None
  DEFAULT_PATH \* the default file

Options == {"--config", "--socket"}

ASSUME NoneAssumption == None \notin Options \cup {"help", "version", "error"}

\* The values an option takes: not empty, and not starting with two dashes.
IsPath(value) == value \notin Options \cup {"", "--help", "--version", "--other"}

\* The keys of f over those of g.
Over(f, g) ==
  [key \in DOMAIN f \cup DOMAIN g |-> IF key \in DOMAIN f THEN f[key] ELSE g[key]]

Default == [socket |-> "/var/agentx/master", reconcile |-> 3600, priority |-> 127]

-----------------------------------------------------------------------------

\* One argument.  An option waits for its value; a result ends the loop.
Argument(parsed, arg) ==
  IF parsed.result # None THEN parsed
  ELSE IF parsed.option # None
       THEN IF ~IsPath(arg) THEN [parsed EXCEPT !.result = "error"]
            ELSE IF parsed.option = "--config"
                 THEN [parsed EXCEPT !.option = None, !.config = arg]
                 ELSE [parsed EXCEPT !.option = None, !.socket = arg]
  ELSE IF arg \in {"--help", "-h"} THEN [parsed EXCEPT !.result = "help"]
  ELSE IF arg = "--version" THEN [parsed EXCEPT !.result = "version"]
  ELSE IF arg \in Options THEN [parsed EXCEPT !.option = arg]
  ELSE [parsed EXCEPT !.result = "error"]

Start == [result |-> None, option |-> None, config |-> None, socket |-> None]

\* The loop's locals after each of the arguments.
ParsedTo(arguments) ==
  LET to[i \in 0 .. Len(arguments)] ==
        IF i = 0 THEN Start ELSE Argument(to[i - 1], arguments[i])
  IN to

\* An option at the end has no value.
Parsed(arguments) ==
  LET parsed == ParsedTo(arguments)[Len(arguments)]
  IN IF parsed.result = None /\ parsed.option # None
     THEN [parsed EXCEPT !.result = "error"] ELSE parsed

Selected(path) == IF path = None THEN DEFAULT_PATH ELSE path

\* Only the default file may be absent.
Readable(path, filesystem) ==
  LET state == filesystem[Selected(path)].state
  IN state = "present" \/ (state = "absent" /\ path = None)

\* The file's keys over the defaults.
ReadFile(path, filesystem) == Over(filesystem[Selected(path)].keys, Default)

OverrideOfValid(config, socket) ==
  IF socket = None \/ config.socket = "" THEN config ELSE [config EXCEPT !.socket = socket]

Override(config, socket) ==
  IF socket = None THEN config ELSE [config EXCEPT !.socket = socket]

Valid(config) == config.socket # "" /\ config.reconcile # 0 /\ config.priority # 0

Error == [action |-> "error"]

\* The override comes first, so that validation sees the effective socket.
Load(arguments, filesystem) ==
  LET parsed == Parsed(arguments)
      config == Override(ReadFile(parsed.config, filesystem), parsed.socket)
  IN IF parsed.result # None THEN [action |-> parsed.result]
     ELSE IF ~Readable(parsed.config, filesystem) \/ ~Valid(config) THEN Error
     ELSE [action |-> "run", config |-> config]

=============================================================================
