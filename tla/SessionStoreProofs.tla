------------------------- MODULE SessionStoreProofs -------------------------
(* Theorems about the session store's files, for every set of sessions and  *)
(* every combination of interrupted and failing saves.                      *)
EXTENDS MCSessionStore, TLAPS

StoreTypes ==
    /\ json \in [Ids -> {"absent", "part", "whole"}]
    /\ tmp \in [Ids -> {"absent", "part", "whole"}]
    /\ saved \subseteq Ids

(* The files under a record's name and the sessions agree.                  *)
DiskInv == StoreTypes /\ DiskAgrees

LEMMA InitDisk == Init => DiskInv
  BY DEF Init, DiskInv, StoreTypes, DiskAgrees

LEMMA StepDisk == DiskInv /\ [Next]_vars => DiskInv'
  <1> SUFFICES ASSUME DiskInv, [Next]_vars
               PROVE  DiskInv'
    OBVIOUS
  <1> USE DEF DiskInv, StoreTypes, DiskAgrees
  <1>1. ASSUME NEW id \in Ids, SaveBegin(id) \/ SaveWritten(id) \/ SaveFails(id)
        PROVE  DiskInv'
    BY <1>1 DEF SaveBegin, SaveWritten, SaveFails
  <1>2. ASSUME NEW id \in Ids, SaveRename(id)
        PROVE  DiskInv'
    BY <1>2 DEF SaveRename
  <1>3. ASSUME NEW id \in Ids, Delete(id)
        PROVE  DiskInv'
    BY <1>3 DEF Delete
  <1>4. CASE Exit \/ Load \/ UNCHANGED vars
    BY <1>4 DEF Exit, Load, vars
  <1> QED BY <1>1, <1>2, <1>3, <1>4 DEF Next

(* Writing to a temporary file and renaming it never leaves a half written  *)
(* record under a record's name, nor a record of a session that was not     *)
(* saved or was deleted: an exit or an error at any point of a save only    *)
(* leaves a temporary file.                                                 *)
THEOREM StoreDiskAgrees == Spec => []DiskAgrees
  <1>1. DiskInv => DiskAgrees
    BY DEF DiskInv
  <1> QED BY <1>1, InitDisk, StepDisk, PTL DEF Spec

(* Without exits and errors inside a save, a temporary file is only there   *)
(* during the save, when the server is up; deleted sessions are not saved.  *)
CleanInv ==
    /\ \A id \in Ids : tmp[id] # "absent" => id \in saving
    /\ phase = "down" => saving = {}
    /\ saved \cap deleted = {}
    /\ deleted \subseteq used /\ saved \subseteq used /\ saving \subseteq used
    /\ saving \cap deleted = {}
    /\ live \subseteq used

LEMMA StepClean ==
  ASSUME Faults = {}, DiskInv, CleanInv, [Next]_vars
  PROVE  CleanInv'
  <1> USE DEF DiskInv, StoreTypes, CleanInv
  <1>1. ASSUME NEW id \in Ids, SaveBegin(id) \/ SaveWritten(id) \/ SaveFails(id)
        PROVE  CleanInv'
    BY <1>1 DEF SaveBegin, SaveWritten, SaveFails, Free
  <1>2. ASSUME NEW id \in Ids, SaveRename(id)
        PROVE  CleanInv'
    BY <1>2 DEF SaveRename
  <1>3. ASSUME NEW id \in Ids, Delete(id)
        PROVE  CleanInv'
    BY <1>3 DEF Delete, Free
  <1>4. CASE Exit \/ UNCHANGED vars
    BY <1>4 DEF Exit, vars
  <1>5. CASE Load
    <2>1. \A id \in Ids : tmp[id] = "absent"
      BY <1>5 DEF Load
    <2>2. live' \subseteq saved
      BY <1>5, <2>1 DEF Load, Decoded, DiskAgrees
    <2> QED BY <1>5, <2>2 DEF Load
  <1> QED BY <1>1, <1>2, <1>3, <1>4, <1>5 DEF Next

(* If the server never exits inside a save and writes do not fail, a        *)
(* restart finds exactly the sessions that were saved and not deleted.      *)
(* The runs that admit these faults violate both properties.                *)
THEOREM StoreRecoversCleanly ==
  ASSUME Faults = {}
  PROVE  Spec => Recovers /\ DeletedStaysDeleted
  <1>1. Init => CleanInv
    BY DEF Init, CleanInv
  <1>2. DiskInv /\ CleanInv /\ [Next]_vars => CleanInv'
    BY StepClean
  <1>3. DiskInv /\ CleanInv /\ [Next]_vars =>
            /\ [phase = "down" /\ phase' = "up" => saved \subseteq live']_vars
            /\ [phase = "down" /\ phase' = "up" => live' \cap deleted = {}]_vars
    <2> SUFFICES ASSUME DiskInv, CleanInv, Next, phase = "down", phase' = "up"
                 PROVE  saved \subseteq live' /\ live' \cap deleted = {}
      OBVIOUS
    <2>1. Load
      BY DEF Next, SaveBegin, SaveWritten, SaveFails, SaveRename, Delete, Exit, Free
    <2>2. \A id \in Ids : tmp[id] = "absent"
      BY DEF CleanInv
    <2>3. ~Undecodable
      BY <2>2 DEF Undecodable, DiskInv, DiskAgrees
    <2>4. live' = {id \in Ids : id \in saved}
      BY <2>1, <2>2, <2>3 DEF Load, Decoded, DiskInv, DiskAgrees
    <2>5. saved \subseteq Ids
      BY DEF DiskInv, StoreTypes
    <2> QED BY <2>4, <2>5 DEF CleanInv
  <1> QED BY <1>1, <1>2, <1>3, InitDisk, StepDisk, PTL
          DEF Spec, Recovers, DeletedStaysDeleted

----------------------------------------------------------------------------
(* The settings that the server starts with.                                *)

(* What a layer that has a value for f, or none, can be.                    *)
LEMMA LayerForm ==
  ASSUME NEW f, NEW values, NEW layer \in Layers(f, values)
  PROVE  /\ DOMAIN layer \subseteq {f}
         /\ f \in DOMAIN layer => layer[f] \in values
  <1>1. CASE layer = <<>>
    BY <1>1
  <1>2. CASE layer \in [{f} -> values]
    BY <1>2
  <1> QED BY <1>1, <1>2 DEF Layers

LEMMA DefaultValues ==
  /\ \A f \in Defaulted : IF f \in Numbers THEN Defaults[f] = 9
                                            ELSE Defaults[f] = "default"
  /\ \A f \in Settings \ Defaulted : Defaults[f] = Zero(f)
  /\ \A f \in Numbers : Zero(f) = 0
  /\ \A f \in Switches : Zero(f) = FALSE
  /\ \A f \in Texts : Zero(f) = ""
  <1>1. Defaulted \subseteq Settings
    BY DEF Defaulted, Settings, Numbers, Switches, Texts
  <1>2. /\ \A f \in Defaulted : IF f \in Numbers THEN Defaults[f] = 9
                                                ELSE Defaults[f] = "default"
        /\ \A f \in Settings \ Defaulted : Defaults[f] = Zero(f)
    BY <1>1 DEF Defaults
  <1>3. \A f \in Numbers : Zero(f) = 0
    BY DEF Zero
  <1>4. \A f \in Switches : f \notin Numbers
    BY DEF Switches, Numbers
  <1>5. \A f \in Texts : f \notin Numbers /\ f \notin Switches
    BY DEF Switches, Numbers, Texts
  <1>6. \A f \in Switches : Zero(f) = FALSE
    BY <1>4 DEF Zero
  <1>7. \A f \in Texts : Zero(f) = ""
    BY <1>5 DEF Zero
  <1> QED BY <1>2, <1>3, <1>6, <1>7

(* The decision, setting by setting: the strongest layer that gives a value. *)
LEMMA Decided ==
  ASSUME NEW file, NEW env, NEW flags, NEW g \in Settings
  PROVE  Configured(file, env, flags)[g] =
            IF g \in DOMAIN flags /\ Given(g, flags[g]) THEN flags[g]
            ELSE IF g \in DOMAIN env /\ Read(g, env[g]) THEN env[g]
            ELSE IF g \in DOMAIN file /\ file[g] # Zero(g) THEN file[g]
            ELSE Defaults[g]
  <1>1. LoadConfig(file)[g] =
            IF g \in DOMAIN file /\ file[g] # Zero(g) THEN file[g] ELSE Defaults[g]
    BY DEF LoadConfig, ensureConfigDefaults, Over
  <1>2. ApplyEnvOverrides(LoadConfig(file), env)[g] =
            IF g \in DOMAIN env /\ Read(g, env[g]) THEN env[g]
            ELSE LoadConfig(file)[g]
    BY DEF ApplyEnvOverrides, Over
  <1>3. Configured(file, env, flags)[g] =
            IF g \in DOMAIN flags /\ Given(g, flags[g]) THEN flags[g]
            ELSE ApplyEnvOverrides(LoadConfig(file), env)[g]
    BY DEF Configured, ApplyFlags, Over
  <1> QED BY <1>1, <1>2, <1>3

(* So two choices of layers that decide every setting alike are the same.   *)
LEMMA SameSettings ==
  ASSUME NEW file, NEW env, NEW flags, NEW file2, NEW env2, NEW flags2,
         \A g \in Settings : Configured(file, env, flags)[g] =
                              Configured(file2, env2, flags2)[g]
  PROVE  Configured(file, env, flags) = Configured(file2, env2, flags2)
  BY DEF Configured, ApplyFlags, Over

(* What is known while main has read some of its layers.                    *)
Layered(at, f, file, env, flags, cfg) ==
    [at |-> at, of |-> f, file |-> file, env |-> env, flags |-> flags, cfg |-> cfg]
StartInv ==
    \/ start \in {Up, Ended}
    \/ \E f \in Settings : \E file \in Files(f), env \in Envs(f), flags \in Flags(f) :
          \/ start = Layered("file", f, <<>>, <<>>, <<>>, Defaults)
          \/ start = Layered("env", f, file, <<>>, <<>>, LoadConfig(file))
          \/ start = Layered("flags", f, file, env, <<>>,
                             ApplyEnvOverrides(LoadConfig(file), env))
          \/ start = Layered("check", f, file, env, flags, Configured(file, env, flags))

LEMMA Silent == \A f : <<>> \in Files(f) /\ <<>> \in Envs(f) /\ <<>> \in Flags(f)
  BY DEF Files, Envs, Flags, Layers

LEMMA StepStart == ASSUME StartInv, StartStep PROVE StartInv'
  <1>1. CASE start \in {Up, Ended}
    <2>1. start.at \notin {"file", "env", "flags", "check"}
      BY <1>1 DEF Up, Ended
    <2> QED BY <2>1 DEF StartStep, ReadsFile, ReadsEnv, ReadsFlags, Validates
  <1>2. CASE start \notin {Up, Ended}
    <2>0. PICK f \in Settings :
             \E file \in Files(f), env \in Envs(f), flags \in Flags(f) :
                \/ start = Layered("file", f, <<>>, <<>>, <<>>, Defaults)
                \/ start = Layered("env", f, file, <<>>, <<>>, LoadConfig(file))
                \/ start = Layered("flags", f, file, env, <<>>,
                                   ApplyEnvOverrides(LoadConfig(file), env))
                \/ start = Layered("check", f, file, env, flags,
                                   Configured(file, env, flags))
      BY <1>2 DEF StartInv
    <2>1. PICK file \in Files(f), env \in Envs(f), flags \in Flags(f) :
              \/ start = Layered("file", f, <<>>, <<>>, <<>>, Defaults)
              \/ start = Layered("env", f, file, <<>>, <<>>, LoadConfig(file))
              \/ start = Layered("flags", f, file, env, <<>>,
                                 ApplyEnvOverrides(LoadConfig(file), env))
              \/ start = Layered("check", f, file, env, flags,
                                 Configured(file, env, flags))
      BY <2>0
    <2>2. CASE start' \in {Up, Ended}
      BY <2>2 DEF StartInv
    <2>3. CASE start.at = "file" /\ start' \notin {Up, Ended}
      <3>1. start = Layered("file", f, <<>>, <<>>, <<>>, Defaults)
        BY <2>1, <2>3 DEF Layered
      <3>2. PICK new \in Files(f) : start' =
              [start EXCEPT !.at = "env", !.file = new, !.cfg = LoadConfig(new)]
        BY <2>3, <3>1 DEF StartStep, ReadsFile, ReadsEnv, ReadsFlags, Validates, Layered
      <3>3. start' = Layered("env", f, new, <<>>, <<>>, LoadConfig(new))
        BY <3>1, <3>2 DEF Layered
      <3> QED BY <3>3 DEF StartInv
    <2>4. CASE start.at = "env" /\ start' \notin {Up, Ended}
      <3>1. start = Layered("env", f, file, <<>>, <<>>, LoadConfig(file))
        BY <2>1, <2>4 DEF Layered
      <3>2. PICK new \in Envs(f) : start' =
              [start EXCEPT !.at = "flags", !.env = new,
                            !.cfg = ApplyEnvOverrides(LoadConfig(file), new)]
        BY <2>4, <3>1 DEF StartStep, ReadsFile, ReadsEnv, ReadsFlags, Validates, Layered
      <3>3. start' = Layered("flags", f, file, new, <<>>,
                             ApplyEnvOverrides(LoadConfig(file), new))
        BY <3>1, <3>2 DEF Layered
      <3> QED BY <3>3 DEF StartInv
    <2>5. CASE start.at = "flags" /\ start' \notin {Up, Ended}
      <3>1. start = Layered("flags", f, file, env, <<>>,
                            ApplyEnvOverrides(LoadConfig(file), env))
        BY <2>1, <2>5 DEF Layered
      <3>2. PICK new \in Flags(f) : start' =
              [start EXCEPT !.at = "check", !.flags = new,
                            !.cfg = Configured(file, env, new)]
        BY <2>5, <3>1 DEF StartStep, ReadsFile, ReadsEnv, ReadsFlags, Validates, Layered,
           Configured
      <3>3. start' = Layered("check", f, file, env, new, Configured(file, env, new))
        BY <3>1, <3>2 DEF Layered
      <3> QED BY <3>3 DEF StartInv
    <2>6. CASE start.at = "check"
      BY <2>2, <2>6 DEF StartStep, ReadsFile, ReadsEnv, ReadsFlags, Validates
    <2> QED BY <2>1, <2>2, <2>3, <2>4, <2>5, <2>6 DEF Layered
  <1> QED BY <1>1, <1>2

(* The order of the layers, for the one setting they speak of.              *)
LEMMA StrongestDecides ==
  ASSUME NEW f \in Settings, NEW file \in Files(f), NEW env \in Envs(f),
         NEW flags \in Flags(f)
  PROVE  LET cfg  == Configured(file, env, flags)
             flag == f \in DOMAIN flags /\ Given(f, flags[f])
             said == f \in DOMAIN env /\ Read(f, env[f])
         IN  /\ flag  => cfg = Configured(<<>>, <<>>, flags)
             /\ ~flag => cfg = Configured(file, env, <<>>)
             /\ said /\ ~flag => cfg = Configured(<<>>, env, <<>>)
             /\ ~said => cfg = Configured(file, <<>>, flags)
             /\ \A g \in Settings \ {f} : cfg[g] = Defaults[g]
  <1>1. DOMAIN file \subseteq {f} /\ DOMAIN env \subseteq {f} /\ DOMAIN flags \subseteq {f}
    BY LayerForm DEF Files, Envs, Flags, Layers
  <1>2. DOMAIN <<>> = {}
    OBVIOUS
  <1> DEFINE flag == f \in DOMAIN flags /\ Given(f, flags[f])
             said == f \in DOMAIN env /\ Read(f, env[f])
  <1>3. ASSUME NEW g \in Settings
        PROVE  /\ flag  => Configured(file, env, flags)[g]
                              = Configured(<<>>, <<>>, flags)[g]
               /\ ~flag => Configured(file, env, flags)[g]
                              = Configured(file, env, <<>>)[g]
               /\ said /\ ~flag => Configured(file, env, flags)[g]
                              = Configured(<<>>, env, <<>>)[g]
               /\ ~said => Configured(file, env, flags)[g]
                              = Configured(file, <<>>, flags)[g]
               /\ g # f => Configured(file, env, flags)[g] = Defaults[g]
    BY <1>1, <1>2, Decided
  <1> HIDE DEF flag, said
  <1>4. flag => Configured(file, env, flags) = Configured(<<>>, <<>>, flags)
    BY <1>3, SameSettings
  <1>5. ~flag => Configured(file, env, flags) = Configured(file, env, <<>>)
    BY <1>3, SameSettings
  <1>6. said /\ ~flag => Configured(file, env, flags) = Configured(<<>>, env, <<>>)
    BY <1>3, SameSettings
  <1>7. ~said => Configured(file, env, flags) = Configured(file, <<>>, flags)
    BY <1>3, SameSettings
  <1> QED BY <1>3, <1>4, <1>5, <1>6, <1>7 DEF flag, said

(* What a layer says of a number is a number, if it is read at all.         *)
LEMMA NumbersRead ==
  ASSUME NEW f \in Numbers, NEW file \in Files(f), NEW env \in Envs(f),
         NEW flags \in Flags(f)
  PROVE  /\ f \in DOMAIN file => file[f] \in Int
         /\ f \in DOMAIN env /\ Read(f, env[f]) => env[f] \in Int
         /\ f \in DOMAIN flags => flags[f] \in Int
  <1>1. f \notin Texts /\ f # "DatabaseDirectory" /\ Values(f) = Ints
    BY DEF Numbers, Texts, Values
  <1>2. /\ file \in Layers(f, Ints) /\ flags \in Layers(f, Ints)
        /\ env \in Layers(f, Ints \cup {Garbage})
    BY <1>1 DEF Files, Envs, Flags
  <1>3. /\ f \in DOMAIN file => file[f] \in Ints
        /\ f \in DOMAIN flags => flags[f] \in Ints
        /\ f \in DOMAIN env => env[f] \in Ints \cup {Garbage}
    BY <1>2, LayerForm
  <1>4. f \in DOMAIN env /\ Read(f, env[f]) => env[f] # Garbage
    BY <1>1 DEF Read
  <1> QED BY <1>3, <1>4, LayersAssumption

(* A server that starts has a port, a timeout and a worker it can use, but  *)
(* for the numbers that neither the file's check nor the flags' reaches.    *)
LEMMA SettingsUsable ==
  ASSUME NEW f \in Settings, NEW file \in Files(f), NEW env \in Envs(f),
         NEW flags \in Flags(f)
  PROVE  LET cfg  == Configured(file, env, flags)
             flag == f \in DOMAIN flags /\ Given(f, flags[f])
             said == f \in DOMAIN env /\ Read(f, env[f])
         IN  \/ \A g \in Defaulted : IF g \in Numbers THEN cfg[g] > 0
                                                      ELSE cfg[g] # ""
             \/ cfg[f] <= 0 /\ ~flag /\ (said \/ file[f] < 0)
  <1> DEFINE cfg  == Configured(file, env, flags)
             flag == f \in DOMAIN flags /\ Given(f, flags[f])
             said == f \in DOMAIN env /\ Read(f, env[f])
             fine(g) == IF g \in Numbers THEN cfg[g] > 0 ELSE cfg[g] # ""
  <1>1. Defaulted \subseteq Settings /\ \A g \in Defaulted : g \notin Numbers => g \in Texts
    BY DEF Defaulted, Settings, Numbers, Texts
  <1>2. \A g \in Defaulted \ {f} : cfg[g] = Defaults[g]
    BY <1>1, StrongestDecides
  <1>3. \A g \in Defaulted : IF g \in Numbers THEN Defaults[g] > 0 ELSE Defaults[g] # ""
    <2>1. \A g \in Defaulted : g \in Numbers => Defaults[g] = 9
      BY DefaultValues
    <2>2. \A g \in Defaulted : g \notin Numbers => Defaults[g] = "default"
      BY DefaultValues
    <2>3. \A g \in Defaulted : g \in Numbers => Defaults[g] > 0
      BY <2>1
    <2>4. \A g \in Defaulted : g \notin Numbers => Defaults[g] # ""
      BY <2>2
    <2> QED BY <2>3, <2>4
  <1>4. \A g \in Defaulted \ {f} : fine(g)
    BY <1>2, <1>3
  <1>5. cfg[f] = IF flag THEN flags[f] ELSE IF said THEN env[f]
                 ELSE IF f \in DOMAIN file /\ file[f] # Zero(f) THEN file[f]
                 ELSE Defaults[f]
    BY Decided
  <1>6. CASE f \in Numbers /\ f \in Defaulted
    <2>1. /\ flag => flags[f] \in Int /\ flags[f] > 0
          /\ said => env[f] \in Int
          /\ f \in DOMAIN file /\ file[f] # Zero(f) => file[f] \in Int /\ file[f] # 0
          /\ Defaults[f] \in Int /\ Defaults[f] > 0
      <3>1. Zero(f) = 0
        BY <1>6, DefaultValues
      <3>2. Defaults[f] = 9
        BY <1>6, DefaultValues
      <3>3. flag => flags[f] \in Int /\ flags[f] > 0
        BY <1>6, NumbersRead DEF Given
      <3>4. said => env[f] \in Int
        BY <1>6, NumbersRead
      <3>5. f \in DOMAIN file /\ file[f] # Zero(f) => file[f] \in Int /\ file[f] # 0
        BY <1>6, <3>1, NumbersRead
      <3> QED BY <3>2, <3>3, <3>4, <3>5
    <2> HIDE DEF cfg, flag, said
    <2>2. fine(f) \/ (cfg[f] <= 0 /\ ~flag /\ (said \/ file[f] < 0))
      BY <1>5, <1>6, <2>1
    <2> HIDE DEF fine
    <2>3. (\A g \in Defaulted : fine(g)) \/ (cfg[f] <= 0 /\ ~flag /\ (said \/ file[f] < 0))
      BY <1>4, <2>2
    <2> QED BY <2>3 DEF fine, cfg, flag, said
  <1>7. CASE f \in Defaulted /\ f \notin Numbers
    <2>1. f \in Texts /\ Zero(f) = "" /\ Defaults[f] # ""
      BY <1>1, <1>3, <1>7, DefaultValues
    <2>2. flag => flags[f] # ""
      BY <1>7, <2>1 DEF Given
    <2>3. said => env[f] # ""
      BY <2>1 DEF Read
    <2> HIDE DEF cfg, flag, said
    <2>4. fine(f)
      BY <1>5, <1>7, <2>1, <2>2, <2>3
    <2> HIDE DEF fine
    <2>5. \A g \in Defaulted : fine(g)
      BY <1>4, <2>4
    <2> QED BY <2>5 DEF fine, cfg
  <1>8. CASE f \notin Defaulted
    <2>1. \A g \in Defaulted : fine(g)
      BY <1>4, <1>8
    <2> QED BY <2>1
  <1> QED BY <1>6, <1>7, <1>8

(* Each setting the server starts with is the one of the strongest layer    *)
(* that gives it one, whatever numbers and texts the layers hold, and a     *)
(* server that starts can use what it has, but for what is said in the      *)
(* comment of LayersDecide.                                                 *)
THEOREM LayersOrdered == StartedSpec => []LayersDecide
  <1>1. StartedInit => StartInv
    <2> SUFFICES ASSUME StartInit PROVE StartInv
      BY DEF StartedInit
    <2> QED BY Silent DEF StartInit, StartInv, Layered
  <1>2. StartInv /\ [StartedNext]_<<start, vars>> => StartInv'
    <2>1. ASSUME StartInv, UNCHANGED start PROVE StartInv'
      BY <2>1 DEF StartInv
    <2> QED BY <2>1, StepStart DEF StartedNext
  <1>3. StartInv => LayersDecide
    <2> SUFFICES ASSUME StartInv, start.at = "check" PROVE LayersDecide
      BY DEF LayersDecide
    <2>1. start \notin {Up, Ended}
      BY DEF Up, Ended
    <2>2. PICK f \in Settings :
             \E file \in Files(f), env \in Envs(f), flags \in Flags(f) :
                start = Layered("check", f, file, env, flags,
                                Configured(file, env, flags))
      BY <2>1 DEF StartInv, Layered
    <2>3. PICK file \in Files(f), env \in Envs(f), flags \in Flags(f) :
              start = Layered("check", f, file, env, flags, Configured(file, env, flags))
      BY <2>2
    <2>4. /\ start.of = f /\ start.file = file /\ start.env = env
          /\ start.flags = flags /\ start.cfg = Configured(file, env, flags)
      BY <2>3 DEF Layered
    <2> DEFINE cfg  == Configured(file, env, flags)
               flag == f \in DOMAIN flags /\ Given(f, flags[f])
               said == f \in DOMAIN env /\ Read(f, env[f])
    <2>5. /\ flag  => cfg = Configured(<<>>, <<>>, flags)
          /\ ~flag => cfg = Configured(file, env, <<>>)
          /\ said /\ ~flag => cfg = Configured(<<>>, env, <<>>)
          /\ ~said => cfg = Configured(file, <<>>, flags)
          /\ \A g \in Settings \ {f} : cfg[g] = Defaults[g]
      BY StrongestDecides
    <2>6. \/ \A g \in Defaulted : IF g \in Numbers THEN cfg[g] > 0 ELSE cfg[g] # ""
          \/ cfg[f] <= 0 /\ ~flag /\ (said \/ file[f] < 0)
      BY SettingsUsable
    <2> QED BY <2>4, <2>5, <2>6 DEF LayersDecide
  <1> QED BY <1>1, <1>2, <1>3, PTL DEF StartedSpec
=============================================================================
