------------------------------- MODULE Startup -------------------------------
(***************************************************************************)
(* From a command to a running engine: the launchers in scripts/ and       *)
(* app/main.py, load_config with its live guard (app/config.py), the       *)
(* pydantic that parses the file, and the construction of the engine.      *)
(*                                                                         *)
(* Which pydantic.  "python -m app.main" in the repository's root puts     *)
(* that directory first on sys.path, where pydantic/__init__.py stands in  *)
(* for the library; a script in scripts/ imports the installed library.    *)
(* Annotations are strings there (from __future__ import annotations), so  *)
(* the stand-in takes each for an unknown type and leaves the value as it  *)
(* came from YAML: a section stays a dict, which has no attributes, and a  *)
(* mode stays a string, which still compares equal to the Enum's.          *)
(*                                                                         *)
(* Simplifications.  The start is sequential; its steps are kept apart for *)
(* their exceptions.  Of the sections of the file only those read on the   *)
(* way are kept.  Files are well-formed but for their mode.  The secrets   *)
(* and the webhook's address are left out.                                 *)
(***************************************************************************)
EXTENDS Naturals

CONSTANTS
  Commands,       \* the launchers tried
  FileModes,      \* values of "mode" in the file; some are no mode at all
  ClobInstalled   \* py-clob-client can be imported

Modes == {"backtest", "paper", "shadow_live", "guarded_live"}

ASSUME StartupAssumption ==
  /\ Commands \subseteq {"app.main", "main_script", "run_live", "run_shadow"}
  /\ ClobInstalled \in BOOLEAN

VARIABLES
  launch,       \* the command and what it finds
  pc,           \* the step that comes next
  config,       \* the AppConfig
  clob_client   \* the engine can send orders

vars == <<launch, pc, config, clob_client>>

\* POLYMARKET_LIVE_ENABLED, in the environment and in .env.
Flags == {"true", "false", "unset"}

\* The sections the start reads attributes of.
Sections == {"log", "metrics", "polymarket"}

File == [mode : FileModes, live_trading_enabled : BOOLEAN,
         sections : SUBSET {"log", "metrics"}, metrics_enabled : BOOLEAN]

Launch == [command : Commands, file : File, env : Flags, dotenv : Flags,
           backtest_file : BOOLEAN, port_taken : BOOLEAN]

NoConfig == [mode |-> "none", live_trading_enabled |-> FALSE, models |-> {}]

Init ==
  /\ launch \in Launch
  /\ "metrics" \notin launch.file.sections => launch.file.metrics_enabled
  /\ launch.backtest_file => launch.command \in {"app.main", "main_script"}
  /\ pc = "load"
  /\ config = NoConfig
  /\ clob_client = FALSE

-----------------------------------------------------------------------------
\* The stand-in is imported instead of the library.
Shim == launch.command = "app.main"

Raise == pc' = "raised"

\* Mutant of Flag: the file wins over the environment.
FlagOverridden ==
  IF launch.dotenv = "unset" THEN launch.env ELSE launch.dotenv

\* load_dotenv sets what the environment does not.
Flag == IF launch.env = "unset" THEN launch.dotenv ELSE launch.env

\* The sections that keep their default, a model with both: load_config adds
\* polymarket to those of the file.
Defaulted == Sections \ (launch.file.sections \cup {"polymarket"})

\* The sections that have become models.
Models == IF Shim THEN Defaulted ELSE Sections

\* Mutant of GuardHolds: one of the two flags is enough.
GuardHoldsEither(mode) ==
  mode = "guarded_live" => launch.file.live_trading_enabled \/ Flag = "true"

\* validate_live_guard
GuardHolds(mode) ==
  mode = "guarded_live" => launch.file.live_trading_enabled /\ Flag = "true"

\* Mutant of ModeParses: the library does not either.
ModeParsesAny(mode) == TRUE

\* The stand-in does not compare the mode with the Enum's values.
ModeParses(mode) == mode \in Modes \/ Shim

LoadConfig ==
  LET mode == launch.file.mode
  IN  /\ pc = "load"
      /\ \/ /\ ModeParses(mode) /\ GuardHolds(mode)
            /\ config' = [mode |-> mode, models |-> Models,
                          live_trading_enabled |-> launch.file.live_trading_enabled]
            /\ pc' = "launcher"
         \/ /\ ~(ModeParses(mode) /\ GuardHolds(mode))
            /\ Raise /\ UNCHANGED config
      /\ UNCHANGED <<launch, clob_client>>

\* run_shadow.py changes the mode of a config that is validated already.
SetMode ==
  /\ pc = "launcher"
  /\ config' = IF launch.command = "run_shadow"
                 THEN [config EXCEPT !.mode = "shadow_live"] ELSE config
  /\ pc' = "configure_logging"
  /\ UNCHANGED <<launch, clob_client>>

ConfigureLogging ==
  /\ pc = "configure_logging"
  /\ pc' = IF "log" \in config.models THEN "metrics" ELSE "raised"
  /\ UNCHANGED <<launch, config, clob_client>>

\* metrics.start binds a port.
MetricsStart ==
  /\ pc = "metrics"
  /\ pc' = IF "metrics" \in config.models
              /\ (launch.file.metrics_enabled => ~launch.port_taken)
             THEN "engine" ELSE "raised"
  /\ UNCHANGED <<launch, config, clob_client>>

RunBacktest ==
  /\ pc = "engine" /\ config.mode = "backtest"
  /\ pc' = IF launch.backtest_file THEN "running" ELSE "raised"
  /\ UNCHANGED <<launch, config, clob_client>>

\* ExecutionEngine.__init__: only guarded_live gets a client, unless the
\* client's constructor refuses its arguments, a key that is no key among them.
NewEngine ==
  /\ pc = "engine" /\ config.mode # "backtest"
  /\ \/ /\ config.mode = "guarded_live" /\ ClobInstalled
        /\ "polymarket" \in config.models
        /\ \/ clob_client' = TRUE /\ pc' = "running"
           \/ Raise /\ UNCHANGED clob_client
     \/ /\ config.mode = "guarded_live" /\ ClobInstalled
        /\ "polymarket" \notin config.models
        /\ Raise /\ UNCHANGED clob_client
     \/ /\ ~(config.mode = "guarded_live" /\ ClobInstalled)
        /\ pc' = "running" /\ UNCHANGED clob_client
  /\ UNCHANGED <<launch, config>>

Next ==
  \/ LoadConfig
  \/ SetMode
  \/ ConfigureLogging
  \/ MetricsStart
  \/ RunBacktest
  \/ NewEngine

Spec == Init /\ [][Next]_vars

-----------------------------------------------------------------------------
\* Properties.

\* Types, and what the library has parsed has one of the four modes
\* (main.py:81-86, config.py:146).
TypeOK ==
  /\ launch \in Launch
  /\ pc \in {"load", "launcher", "configure_logging", "metrics", "engine",
             "running", "raised"}
  /\ config # NoConfig => config.mode \in Modes \/ (Shim /\ config.mode \in FileModes)
  /\ config.models \subseteq Sections
  /\ clob_client => pc = "running"

\* README.md:63: an engine that can send orders was started with the flag of the
\* file and that of the environment, whichever command started it, whatever it
\* did to the mode afterwards and whichever pydantic parsed the file; a flag the
\* environment sets to false is not overridden by .env (config.py:159-174,
\* execution_engine.py:49, scripts/run_shadow.py).
LiveNeedsBothFlags ==
  clob_client =>
    /\ launch.file.live_trading_enabled
    /\ launch.env = "true" \/ (launch.env = "unset" /\ launch.dotenv = "true")
    /\ launch.command # "run_shadow"

-----------------------------------------------------------------------------
\* What the documents say and the code does not do.

\* What may be wrong with a start: its file, its flags, the machine, or what the
\* client's constructor makes of the key and the settings of guarded_live.
Refusal ==
  \/ launch.file.mode \notin Modes
  \/ launch.file.mode = "guarded_live" /\ (ClobInstalled \/ ~GuardHolds("guarded_live"))
  \/ launch.file.mode = "backtest" /\ ~launch.backtest_file
  \/ launch.file.metrics_enabled /\ launch.port_taken

\* README.md:46 starts the application by "python -m app.main".  In the
\* repository's root that imports the stand-in, which pydantic/__init__.py:1
\* calls one "for offline test execution"; the first section that is read is a
\* dict and its attribute an AttributeError (pydantic/__init__.py:101-114,
\* logging_utils.py:22).
CommandStarts == pc = "raised" => Refusal

=============================================================================
