---------------------------- MODULE StartupProofs ----------------------------
(***************************************************************************)
(* The live guard holds of whatever is started, and the config is what the *)
(* file and the launcher made of it, for every set of commands and of      *)
(* modes a file may name.                                                  *)
(***************************************************************************)
EXTENDS Startup, TLAPS

\* The two flags that guarded_live asks for.
BothFlags == launch.file.live_trading_enabled /\ Flag = "true"

\* The inductive invariant: the guard holds of a loaded config although the
\* launcher may change its mode, and past the launcher a shadow run is one.
GuardInv ==
  /\ "mode" \in DOMAIN config
  /\ config.mode = "guarded_live" => BothFlags
  /\ pc \in {"configure_logging", "metrics", "engine"} =>
       (launch.command = "run_shadow" => config.mode = "shadow_live")
  /\ clob_client => BothFlags /\ launch.command # "run_shadow"

\* Loading establishes the guard, whichever pydantic parses the mode.
LEMMA LoadGuards ==
  ASSUME GuardInv, LoadConfig
  PROVE  GuardInv'
<1>0. UNCHANGED <<launch, clob_client>> /\ pc' \in {"launcher", "raised"}
  BY DEF LoadConfig, Raise
<1>1. BothFlags' <=> BothFlags
  BY <1>0 DEF BothFlags, Flag
<1>2. config'.mode = "guarded_live" => BothFlags
  <2>1. CASE UNCHANGED config
    BY <2>1 DEF GuardInv
  <2>2. CASE /\ GuardHolds(launch.file.mode)
             /\ config' = [mode |-> launch.file.mode, models |-> Models,
                           live_trading_enabled |-> launch.file.live_trading_enabled]
    BY <2>2 DEF GuardHolds, BothFlags
  <2> QED
    BY <2>1, <2>2 DEF LoadConfig
<1>3. "mode" \in DOMAIN config'
  BY DEF LoadConfig, GuardInv
<1> QED
  BY <1>0, <1>1, <1>2, <1>3 DEF GuardInv

\* The launcher's change of mode does not lift the guard: it only leaves
\* guarded_live.
LEMMA LauncherGuards ==
  ASSUME GuardInv, SetMode
  PROVE  GuardInv'
<1>0. /\ UNCHANGED <<launch, clob_client>>
      /\ config' = IF launch.command = "run_shadow"
                     THEN [config EXCEPT !.mode = "shadow_live"] ELSE config
  BY DEF SetMode
<1>1. BothFlags' <=> BothFlags
  BY <1>0 DEF BothFlags, Flag
<1>2. /\ "mode" \in DOMAIN config'
      /\ launch.command = "run_shadow" => config'.mode = "shadow_live"
      /\ launch.command # "run_shadow" => config' = config
  BY <1>0 DEF GuardInv
<1> QED
  BY <1>0, <1>1, <1>2 DEF GuardInv

\* A client is built only from a config that is guarded_live.
LEMMA EngineGuards ==
  ASSUME GuardInv, NewEngine
  PROVE  GuardInv'
<1>0. /\ UNCHANGED <<launch, config>> /\ pc' \in {"running", "raised"}
      /\ clob_client' => clob_client \/ config.mode = "guarded_live"
      /\ pc = "engine"
  BY DEF NewEngine, Raise
<1>1. BothFlags' <=> BothFlags
  BY <1>0 DEF BothFlags, Flag
<1> QED
  BY <1>0, <1>1 DEF GuardInv

\* README.md:63 for every launch: no engine can send orders unless both flags
\* were set, and none that run_shadow.py started.
THEOREM LiveIsGuarded == Spec => []LiveNeedsBothFlags
<1>1. Init => GuardInv
  BY DEF Init, NoConfig, GuardInv
<1>2. GuardInv /\ [Next]_vars => GuardInv'
  <2> SUFFICES ASSUME GuardInv, [Next]_vars PROVE GuardInv'
    OBVIOUS
  <2>1. CASE LoadConfig
    BY <2>1, LoadGuards
  <2>2. CASE SetMode
    BY <2>2, LauncherGuards
  <2>3. CASE ConfigureLogging
    BY <2>3 DEF ConfigureLogging, GuardInv, BothFlags, Flag
  <2>4. CASE MetricsStart
    BY <2>4 DEF MetricsStart, GuardInv, BothFlags, Flag
  <2>5. CASE RunBacktest
    BY <2>5 DEF RunBacktest, GuardInv, BothFlags, Flag
  <2>6. CASE NewEngine
    BY <2>6, EngineGuards
  <2>7. CASE UNCHANGED vars
    BY <2>7 DEF vars, GuardInv, BothFlags, Flag
  <2> QED
    BY <2>1, <2>2, <2>3, <2>4, <2>5, <2>6, <2>7 DEF Next
<1>3. GuardInv => LiveNeedsBothFlags
  BY DEF GuardInv, BothFlags, Flag, LiveNeedsBothFlags
<1> QED
  BY <1>1, <1>2, <1>3, PTL DEF Spec

-----------------------------------------------------------------------------
\* A config that was loaded: its mode is the file's, unless the launcher has
\* replaced it, and its sections are those of Models.
LoadedInv ==
  /\ config \in [mode: Modes \cup FileModes, live_trading_enabled: BOOLEAN,
                 models: {Models}]
  /\ ModeParses(launch.file.mode)
  /\ \/ config.mode = launch.file.mode
     \/ launch.command = "run_shadow" /\ config.mode = "shadow_live"

\* The inductive invariant of a start.
StartInv ==
  /\ launch \in Launch
  /\ pc \in {"load", "launcher", "configure_logging", "metrics", "engine",
             "running", "raised"}
  /\ config = NoConfig \/ LoadedInv
  /\ pc \notin {"load", "raised"} => LoadedInv
  /\ clob_client => pc = "running"

\* Nothing the invariant says of the launch changes with a step.
LEMMA LaunchKept ==
  ASSUME [Next]_vars
  PROVE  /\ launch' = launch
         /\ Models' = Models /\ Shim' = Shim
         /\ ModeParses(launch.file.mode)' = ModeParses(launch.file.mode)
<1>1. launch' = launch
  BY DEF Next, LoadConfig, SetMode, ConfigureLogging, MetricsStart, RunBacktest,
         NewEngine, vars
<1> QED
  BY <1>1 DEF Models, Defaulted, Shim, ModeParses

\* A config that stays loaded.
LEMMA LoadedKept ==
  ASSUME [Next]_vars, LoadedInv, config' = config
  PROVE  LoadedInv'
BY LaunchKept DEF LoadedInv

\* Loading gives the config of the file or refuses it.
LEMMA LoadStarts ==
  ASSUME StartInv, LoadConfig
  PROVE  StartInv'
<1> DEFINE mode == launch.file.mode
<1>0. /\ launch' = launch /\ Models' = Models /\ Shim' = Shim
      /\ ModeParses(launch.file.mode)' = ModeParses(launch.file.mode)
  BY LaunchKept DEF Next
<1>1. clob_client' = clob_client /\ ~clob_client /\ pc = "load"
  BY DEF LoadConfig, StartInv
<1>2. CASE /\ ModeParses(mode) /\ GuardHolds(mode)
           /\ config' = [mode |-> mode, models |-> Models,
                         live_trading_enabled |-> launch.file.live_trading_enabled]
           /\ pc' = "launcher"
  <2>1. launch.file \in File
    BY DEF StartInv, Launch
  <2>2. mode \in FileModes /\ launch.file.live_trading_enabled \in BOOLEAN
    BY <2>1 DEF File
  <2>3. LoadedInv'
    BY <1>0, <1>2, <2>2 DEF LoadedInv
  <2> QED
    BY <1>0, <1>1, <1>2, <2>3 DEF StartInv
<1>3. CASE ~(ModeParses(mode) /\ GuardHolds(mode)) /\ pc' = "raised" /\ config' = config
  <2>1. config' = NoConfig \/ LoadedInv'
    BY <1>0, <1>3 DEF StartInv, LoadedInv
  <2> QED
    BY <1>0, <1>1, <1>3, <2>1 DEF StartInv
<1> QED
  BY <1>2, <1>3 DEF LoadConfig, Raise

\* The launcher's mode is one of the four.
LEMMA LauncherStarts ==
  ASSUME StartInv, SetMode
  PROVE  StartInv'
<1>0. /\ launch' = launch /\ Models' = Models /\ Shim' = Shim
      /\ ModeParses(launch.file.mode)' = ModeParses(launch.file.mode)
  BY LaunchKept DEF Next
<1>1. /\ clob_client' = clob_client /\ ~clob_client /\ LoadedInv
      /\ pc' = "configure_logging"
      /\ config' = IF launch.command = "run_shadow"
                     THEN [config EXCEPT !.mode = "shadow_live"] ELSE config
  BY DEF SetMode, StartInv
<1>2. LoadedInv'
  <2>1. "shadow_live" \in Modes
    BY DEF Modes
  <2> QED
    BY <1>0, <1>1, <2>1 DEF LoadedInv
<1> QED
  BY <1>0, <1>1, <1>2 DEF StartInv

\* The steps that only read the config go on or fail.
LEMMA ReadersStart ==
  ASSUME StartInv, ConfigureLogging \/ MetricsStart \/ RunBacktest \/ NewEngine
  PROVE  StartInv'
<1>0. /\ launch' = launch /\ Models' = Models /\ Shim' = Shim
      /\ [Next]_vars
  BY LaunchKept DEF Next
<1>1. /\ config' = config /\ LoadedInv /\ ~clob_client
      /\ pc' \in {"metrics", "engine", "running", "raised"}
      /\ clob_client' => pc' = "running"
  BY DEF ConfigureLogging, MetricsStart, RunBacktest, NewEngine, Raise, StartInv
<1>2. LoadedInv'
  BY <1>0, <1>1, LoadedKept
<1> QED
  BY <1>0, <1>1, <1>2 DEF StartInv

\* The invariant holds of every start.
THEOREM StartIsSound == Spec => []StartInv
<1>1. Init => StartInv
  BY DEF Init, StartInv
<1>2. StartInv /\ [Next]_vars => StartInv'
  <2> SUFFICES ASSUME StartInv, [Next]_vars PROVE StartInv'
    OBVIOUS
  <2>1. CASE UNCHANGED vars
    <3>1. LoadedInv' = LoadedInv
      BY <2>1 DEF vars, LoadedInv, Models, Defaulted, Shim, ModeParses
    <3> QED
      BY <2>1, <3>1 DEF vars, StartInv
  <2> QED
    BY <2>1, LoadStarts, LauncherStarts, ReadersStart DEF Next
<1> QED
  BY <1>1, <1>2, PTL DEF Spec

\* Types, and what the library has parsed has one of the four modes
\* (main.py:81-86, config.py:146).
THEOREM TypeCorrect == Spec => []TypeOK
<1>1. StartInv => TypeOK
  <2> SUFFICES ASSUME StartInv PROVE TypeOK
    OBVIOUS
  <2>1. Models \subseteq Sections
    BY DEF Models, Defaulted
  <2>2. ASSUME LoadedInv
        PROVE  /\ config.models \subseteq Sections
               /\ config.mode \in Modes \/ (Shim /\ config.mode \in FileModes)
    BY <2>1, <2>2 DEF LoadedInv, ModeParses, Modes
  <2>3. config.models \subseteq Sections
    BY <2>2 DEF StartInv, NoConfig
  <2> QED
    BY <2>2, <2>3 DEF StartInv, TypeOK
<1> QED
  BY <1>1, StartIsSound, PTL

=============================================================================
