------------------------------- MODULE Config -------------------------------
(***************************************************************************)
(* src/config.c: what config_init makes of the lines of a configuration    *)
(* file, or that it refuses them.  The functions are pure operators here;  *)
(* Startup applies them when an instance of the daemon starts.             *)
(*                                                                         *)
(* A line is a record of what the parser can see of it: whether it is one  *)
(* character long, starts with '#', has a '=', and the text before and     *)
(* after the first '='.  An empty text is None.                            *)
(***************************************************************************)
EXTENDS Naturals, SequencesExt

CONSTANTS
  None,         \* a string that is NULL or empty
  Home,         \* the environment variable HOME, or None
  Executables,  \* what access(_, X_OK) accepts
  Directories   \* what stat says is a directory

(* No key is empty. *)
ASSUME ConfigAssumption == None \notin {"picker_cmd", "default_dir", "loglevel"}

LogLevels == {"quiet", "error", "warn", "info", "debug"}

(* The zeroed struct xdptf_config of main: QUIET is 0. *)
EmptyConfig == [picker_cmd |-> None, default_dir |-> None, loglevel |-> "quiet"]

Skipped(line) ==
  \/ line.short
  \/ line.comment
  \/ ~line.equals
  \/ line.key = None
  \/ line.value = None

(* A line with a log level that does not exist aborts the parser. *)
Aborts(line) ==
  ~Skipped(line) /\ line.key = "loglevel" /\ line.value \notin LogLevels

(* A wrong version: only the first assignment counts. *)
FirstAssigned(config, line) ==
  IF Skipped(line) \/ line.key \notin DOMAIN config \/ config[line.key] # None
  THEN config
  ELSE [config EXCEPT ![line.key] = line.value]

(* A line with a known key replaces what was assigned before. *)
Assigned(config, line) ==
  IF Skipped(line) \/ line.key \notin DOMAIN config
  THEN config
  ELSE [config EXCEPT ![line.key] = line.value]

(* One round of the loop over getline, which leaves at the first line that *)
(* aborts.                                                                 *)
AfterLine(parse, line) ==
  IF ~parse.ok THEN parse
  ELSE IF Aborts(line) THEN [parse EXCEPT !.ok = FALSE]
  ELSE [parse EXCEPT !.config = Assigned(@, line)]

config_parse_file(lines) ==
  LET after[n \in 0..Len(lines)] ==
        IF n = 0 THEN [ok |-> TRUE, config |-> EmptyConfig]
        ELSE AfterLine(after[n - 1], lines[n])
  IN  after[Len(lines)]

config_fill_missing_values(config) ==
  IF config.default_dir # None THEN config
  ELSE [config EXCEPT !.default_dir = IF Home # None THEN Home ELSE "/tmp"]

config_verify(config) ==
  /\ config.picker_cmd \in Executables
  /\ config.default_dir \in Directories

(* The configuration that config_init arrives at, and whether it accepts it. *)
ConfigOf(lines) == config_fill_missing_values(config_parse_file(lines).config)

ConfigAccepted(lines) ==
  config_parse_file(lines).ok /\ config_verify(ConfigOf(lines))
=============================================================================
