---------------------------- MODULE Configuration ---------------------------
(***************************************************************************)
(* The settings the server starts with, out of the configuration file, the *)
(* environment and the command line.  (LoadConfig, ensureConfigDefaults    *)
(* and ApplyEnvOverrides in internal/server/server.go, main and            *)
(* validateConfig in cmd/ida-pilot/main.go.)                               *)
(*                                                                         *)
(* A layer gives values to some of the settings: it is a function on a     *)
(* subset of them.                                                         *)
(***************************************************************************)
EXTENDS Integers

CONSTANTS
    Ints,       \* the numbers that a layer can give
    Strings,    \* the texts that a layer can give
    Garbage     \* a string that is no number and no truth value

ASSUME LayersAssumption == /\ Ints \subseteq Int /\ Strings \subseteq STRING
                           /\ Garbage \notin Int \cup BOOLEAN

VARIABLE start     \* how far main is, the setting that is looked at (of), what
                   \* the layers say of it, and the settings so far (cfg)

Numbers  == {"Port", "SessionTimeoutMin", "MaxConcurrentSession"}
Switches == {"Debug", "EnablePyEval"}
Texts    == {"Bind", "PythonWorkerPath", "DatabaseDirectory", "AllowedRoots"}
Settings == Numbers \cup Switches \cup Texts

Zero(f) == IF f \in Numbers THEN 0 ELSE IF f \in Switches THEN FALSE ELSE ""

(* The built-in values.                                                     *)
Defaulted == {"Port", "SessionTimeoutMin", "Bind", "PythonWorkerPath",
              "DatabaseDirectory"}
Defaults == [f \in Settings |->
    IF f \notin Defaulted THEN Zero(f) ELSE IF f \in Numbers THEN 9 ELSE "default"]

(* What a layer says takes the place of what was said before.               *)
Over(layer, cfg) ==
    [f \in Settings |-> IF f \in DOMAIN layer THEN layer[f] ELSE cfg[f]]

ensureConfigDefaults(cfg) ==
    [f \in Settings |-> IF cfg[f] = Zero(f) THEN Defaults[f] ELSE cfg[f]]

(* A file that is not there is the empty layer.                             *)
LoadConfig(file) == ensureConfigDefaults(Over(file, Defaults))

(* A faulty variant: a number that does not parse is taken for 0.           *)
ApplyEnvUnchecked(cfg, env) ==
    Over([f \in DOMAIN env |-> IF f \in Texts \/ env[f] # Garbage THEN env[f]
                               ELSE Zero(f)], cfg)

(* A variable that is empty, or does not parse, counts as none.             *)
Read(f, value) == IF f \in Texts THEN value # "" ELSE value # Garbage
ApplyEnvOverrides(cfg, env) ==
    Over([f \in {g \in DOMAIN env : Read(g, env[g])} |-> env[f]], cfg)

(* main: so does a flag that is zero, negative or empty.                    *)
Given(f, value) == IF f \in Numbers THEN value > 0 ELSE value # Zero(f)
ApplyFlags(cfg, flags) ==
    Over([f \in {g \in DOMAIN flags : Given(g, flags[g])} |-> flags[f]], cfg)

validateConfig(cfg) == cfg["MaxConcurrentSession"] >= 0

-----------------------------------------------------------------------------
(* main, up to the point where it has the settings.  One setting at a time  *)
(* is looked at: the layers are silent about the others.                    *)

(* What the layers can say of a setting.                                    *)
Values(f) == IF f \in Numbers THEN Ints ELSE IF f \in Switches THEN BOOLEAN ELSE Strings
Layers(f, values) == {<<>>} \cup [{f} -> values]
Files(f) == Layers(f, Values(f))
Envs(f)  == IF f = "DatabaseDirectory" THEN {<<>>}
            ELSE Layers(f, IF f \in Texts THEN Values(f) ELSE Values(f) \cup {Garbage})
Flags(f) == IF f = "DatabaseDirectory" THEN {<<>>} ELSE Layers(f, Values(f))

Up    == [at |-> "up"]      \* the settings are passed on, and stay
Ended == [at |-> "ended"]   \* log.Fatalf

StartInit == \E f \in Settings :
    start = [at |-> "file", of |-> f, file |-> <<>>, env |-> <<>>, flags |-> <<>>,
             cfg |-> Defaults]

(* A file that cannot be read or does not parse ends the start.             *)
ReadsFile ==
    /\ start.at = "file"
    /\ \/ start' = Ended
       \/ \E file \in Files(start.of) : start' =
             [start EXCEPT !.at = "env", !.file = file, !.cfg = LoadConfig(file)]

ReadsEnv ==
    /\ start.at = "env"
    /\ \E env \in Envs(start.of) : start' =
          [start EXCEPT !.at = "flags", !.env = env, !.cfg = ApplyEnvOverrides(@, env)]

ReadsFlags ==
    /\ start.at = "flags"
    /\ \E flags \in Flags(start.of) : start' =
          [start EXCEPT !.at = "check", !.flags = flags, !.cfg = ApplyFlags(@, flags)]

(* The worker's script has to be there as well.                             *)
Validates ==
    /\ start.at = "check"
    /\ \/ start' = Ended
       \/ validateConfig(start.cfg) /\ start' = Up

StartStep == ReadsFile \/ ReadsEnv \/ ReadsFlags \/ Validates

-----------------------------------------------------------------------------
(* The settings these layers would have given.                              *)
Configured(file, env, flags) ==
    ApplyFlags(ApplyEnvOverrides(LoadConfig(file), env), flags)

(* Each setting comes from the strongest layer that gives it one: command   *)
(* line, environment, file, defaults (README.md:227-270).  So a stronger    *)
(* layer hides what weaker ones say, one that says nothing changes nothing, *)
(* and a server that starts has a port, a timeout, a worker and a limit it  *)
(* can use, unless the environment asks for the port or the timeout 0 or    *)
(* less, or the file for one below 0: ensureConfigDefaults runs before the  *)
(* environment is read and looks for zeros only (server.go:112-191).        *)
LayersDecide == start.at = "check" =>
    LET f     == start.of
        cfg   == start.cfg
        flag  == f \in DOMAIN start.flags /\ Given(f, start.flags[f])
        said  == f \in DOMAIN start.env /\ Read(f, start.env[f])
    IN  /\ flag  => cfg = Configured(<<>>, <<>>, start.flags)
        /\ ~flag => cfg = Configured(start.file, start.env, <<>>)
        /\ said /\ ~flag => cfg = Configured(<<>>, start.env, <<>>)
        /\ ~said => cfg = Configured(start.file, <<>>, start.flags)
        /\ \A g \in Settings \ {f} : cfg[g] = Defaults[g]
        /\ validateConfig(cfg) =>
              \/ \A g \in Defaulted : IF g \in Numbers THEN cfg[g] > 0
                                                       ELSE cfg[g] # ""
              \/ cfg[f] <= 0 /\ ~flag /\ (said \/ start.file[f] < 0)
=============================================================================
