---------------------------- MODULE ModulesProofs ----------------------------
(***************************************************************************)
(* Modules: they load in their sandboxes and events are sent to modules that *)
(* exist (ModuleLoading, for any list of modules and any number of files),   *)
(* and the registry of callbacks is sound and can be erased from while an    *)
(* emission walks it (ModuleEvents, for any modules, events, identifiers and *)
(* references).                                                              *)
(***************************************************************************)
EXTENDS ModuleLoading, ModuleEvents, WellFoundedInduction, TLAPS

-----------------------------------------------------------------------------
(* Loading: what holds between two steps of loadModules *)

\* load() runs files or calls an init.
InFiles == pc \in {"files", "run", "find", "init"}

\* The manager knows a module of the name of m, or is loading m.
Listed(m) ==
  /\ m \in 1 .. cur
  /\ \/ m = cur /\ InFiles
     \/ \E k \in loaded : listing[k] = listing[m]

\* A module that may have callbacks: its object exists, and is kept.
Alive(m) == Listed(m) /\ m \notin deleted

\* No module was deleted whose address may be in another environment.
NoneStray == early \cap deleted = {}

\* A module that reads its settings has connected nothing.
FreshInv ==
  /\ pc = "modules.lua" => cur = 0
  /\ Loading => cur >= 1 /\ cur \notin deleted
  /\ pc \in {"module", "settings"} => cur \notin registered

\* The environment under a module's settings and files.
EnvInv ==
  /\ Loading => env = cur \/ cur \in disturbed
  /\ pc = "module" => env = cur \/ cur \in early

\* The global module of an environment is its own, unless it was written while
\* another environment was installed; then it is kept or was deleted.
ModuleInv ==
  /\ \A e \in Env : moduleIn[e] \in {0, e} \cup early
  /\ \A m \in early : Listed(m) \/ m \in deleted \/ (m = cur /\ Loading)

\* While no callback is called, an init is found in the module's own sandbox.
OwnInv ==
  disturbed = {} =>
    /\ inits[Global] = NoInit
    /\ pc = "run" => inits[cur] = NoInit
    /\ pc = "find" => inits[cur] \in {NoInit, [module |-> cur, file |-> file]}

\* Only the environments of modules that are alive are installed and have an init.
SandboxInv ==
  NoneStray =>
    /\ Loading => env \in {Global, cur} \/ Alive(env)
    /\ pc \in {"module", "settings"} => inits[cur] = NoInit
    /\ \A e \in Module : inits[e] # NoInit => Alive(e)
    /\ pc = "init" => running.env = Global \/ Alive(running.env)
    /\ \A m \in registered : Alive(m)

IInv == /\ TypeOK /\ FreshInv /\ EnvInv /\ ModuleInv /\ OwnInv /\ SandboxInv
        /\ SandboxedUnlessDisturbed /\ InitIsOwn

LEMMA ModulesAreNumbers ==
  /\ MaxModules \in Nat /\ MaxFiles \in [Module -> Nat]
  /\ Global = 0 /\ Module = 1 .. MaxModules /\ Env = Module \cup {0} /\ Global \notin Module
BY ModuleLoadingAssumption DEF ModuleLoadingAssumption, Global, Module, Env

\* Registered modules are alive, or there is a stray one.
LEMMA AliveIsRegistered == IInv => RegisteredAreAlive
BY DEF IInv, SandboxInv, NoneStray, Alive, Listed, InFiles, RegisteredAreAlive

-----------------------------------------------------------------------------
(* The steps of loadModules *)

\* Nothing is loaded to begin with.
LEMMA InitIInv == Init => IInv
<1> SUFFICES ASSUME Init PROVE IInv
  OBVIOUS
<1> USE ModulesAreNumbers DEF Init, NoInit, InitFunction, Loading
<1>1. TypeOK
  BY DEF TypeOK
<1>2. FreshInv /\ EnvInv /\ ModuleInv /\ OwnInv /\ SandboxInv
  BY DEF FreshInv, EnvInv, ModuleInv, OwnInv, SandboxInv
<1>3. SandboxedUnlessDisturbed /\ InitIsOwn
  BY DEF SandboxedUnlessDisturbed, InitIsOwn
<1> QED BY <1>1, <1>2, <1>3 DEF IInv

\* The list is read while no module exists.
LEMMA ListSteps ==
  ASSUME IInv, NoModules \/ ReadModules
  PROVE  IInv'
<1> USE ModulesAreNumbers DEF IInv, Loading
<1>1. /\ cur = 0 /\ cur' = 0
      /\ pc' \in {"next", "failed"}
      /\ UNCHANGED <<files, file, env, moduleIn, inits, running, registered, deleted, loaded>>
      /\ UNCHANGED <<ranIn, disturbed, early>>
  BY DEF NoModules, ReadModules, FreshInv, history
<1>2. listing' \in Seq(Names) /\ Len(listing') \in 0 .. MaxModules
  <2>1. CASE NoModules
    BY <2>1 DEF NoModules, TypeOK
  <2>2. CASE ReadModules
    BY <2>2 DEF ReadModules
  <2> QED BY <2>1, <2>2
<1>3. /\ registered = {} /\ loaded = {} /\ deleted = {} /\ early = {} /\ disturbed = {} /\ ranIn = {}
      /\ \A m : ~ Alive(m)
  BY <1>1 DEF TypeOK, Alive, Listed
<1>4. TypeOK'
  BY <1>1, <1>2 DEF TypeOK
<1>5. FreshInv' /\ EnvInv' /\ ModuleInv' /\ OwnInv'
  BY <1>1, <1>3 DEF FreshInv, EnvInv, ModuleInv, OwnInv
<1>6. SandboxInv'
  BY <1>1, <1>3 DEF SandboxInv, NoneStray
<1>7. SandboxedUnlessDisturbed' /\ InitIsOwn'
  BY <1>1, <1>3 DEF SandboxedUnlessDisturbed, InitIsOwn
<1> QED BY <1>4, <1>5, <1>6, <1>7

\* The next module is a new one.
LEMMA NextModuleSteps ==
  ASSUME IInv, SkipModule \/ StartModule \/ Done
  PROVE  IInv'
<1> USE ModulesAreNumbers DEF IInv, Loading
<1>1. /\ pc = "next" /\ pc' \in {"next", "module", "done"}
      /\ cur \in 0 .. Len(listing) /\ cur' \in {cur, cur + 1} /\ cur' \in 0 .. Len(listing)
      /\ pc' = "module" => cur' = cur + 1 /\ env' = cur'
      /\ pc' # "module" => env' = env
      /\ UNCHANGED <<listing, files, file, moduleIn, inits, running, registered, deleted, loaded>>
      /\ UNCHANGED <<ranIn, disturbed, early>>
  <2>1. cur \in 0 .. Len(listing) /\ Len(listing) \in Nat
    BY DEF TypeOK
  <2>2. CASE SkipModule
    BY <2>1, <2>2 DEF SkipModule, More, Installed, history
  <2>3. CASE StartModule
    BY <2>1, <2>3 DEF StartModule, More, Installed, history
  <2>4. CASE Done
    BY <2>1, <2>4 DEF Done, More, history
  <2> QED BY <2>2, <2>3, <2>4, Zenon
<1>2. /\ \A m : Listed(m) => Listed(m)' /\ m # cur + 1
      /\ \A m : Alive(m) => Alive(m)' /\ m # cur + 1
  <2>1. cur \in Nat /\ cur' \in {cur, cur + 1} /\ ~InFiles
    BY <1>1 DEF InFiles, TypeOK
  <2>2. ASSUME NEW m, Listed(m) PROVE Listed(m)' /\ m # cur + 1
    <3>1. m \in 1 .. cur /\ \E k \in loaded : listing[k] = listing[m]
      BY <2>1, <2>2 DEF Listed
    <3>2. m \in 1 .. cur' /\ m # cur + 1
      BY <2>1, <3>1
    <3> QED BY <1>1, <3>1, <3>2 DEF Listed
  <2> QED BY <1>1, <2>2 DEF Alive
<1>3. TypeOK'
  <2>1. moduleIn' \in [Env -> 0 .. cur']
    BY <1>1 DEF TypeOK
  <2>2. env' \in Env
    BY <1>1 DEF TypeOK
  <2>3. 1 .. cur \subseteq 1 .. cur' /\ cur' \in 0 .. Len(listing')
    BY <1>1 DEF TypeOK
  <2>4. /\ registered' \subseteq 1 .. cur' /\ deleted' \subseteq 1 .. cur' /\ loaded' \subseteq 1 .. cur'
        /\ disturbed' \subseteq 1 .. cur' /\ early' \subseteq disturbed'
    BY <1>1, <2>3 DEF TypeOK
  <2>5. ranIn' \subseteq [module : 1 .. cur', env : Env]
    BY <1>1, <2>3 DEF TypeOK
  <2> QED BY <1>1, <2>1, <2>2, <2>3, <2>4, <2>5 DEF TypeOK
<1>4. FreshInv' /\ EnvInv'
  BY <1>1 DEF FreshInv, EnvInv, TypeOK
<1>5. ModuleInv' /\ OwnInv'
  BY <1>1, <1>2 DEF ModuleInv, OwnInv
<1>6. SandboxInv'
  <2> SUFFICES ASSUME NoneStray PROVE SandboxInv'
    BY <1>1 DEF SandboxInv, NoneStray
  <2>1. pc' = "module" => inits[cur + 1] = NoInit
    BY <1>1, <1>2 DEF SandboxInv, TypeOK
  <2> QED BY <1>1, <1>2, <2>1 DEF SandboxInv
<1>7. SandboxedUnlessDisturbed' /\ InitIsOwn'
  BY <1>1 DEF SandboxedUnlessDisturbed, InitIsOwn
<1> QED BY <1>3, <1>4, <1>5, <1>6, <1>7

-----------------------------------------------------------------------------
(* The steps of Module::load *)

\* The object's address goes into another environment only if a callback was
\* called since the sandbox was installed.
LEMMA DefineStep ==
  ASSUME IInv, DefineModule
  PROVE  IInv'
<1> USE ModulesAreNumbers DEF IInv, Loading
<1>1. /\ pc = "module" /\ pc' = "settings" /\ cur \in 1 .. cur
      /\ env \in Env /\ moduleIn' = [moduleIn EXCEPT ![env] = cur]
      /\ UNCHANGED <<listing, cur, files, file, env, inits, running, registered, deleted, loaded>>
      /\ UNCHANGED <<ranIn, disturbed, early>>
  BY DEF DefineModule, FreshInv, TypeOK, history
<1>2. \A m : /\ Listed(m) => Listed(m)'
             /\ Alive(m) => Alive(m)'
  BY <1>1 DEF Alive, Listed, InFiles
<1>3. TypeOK'
  <2>1. moduleIn' \in [Env -> 0 .. cur']
    BY <1>1 DEF TypeOK
  <2> QED BY <1>1, <2>1 DEF TypeOK
<1>4. FreshInv' /\ EnvInv' /\ OwnInv'
  BY <1>1 DEF FreshInv, EnvInv, OwnInv
<1>5. ModuleInv'
  <2>1. env = cur \/ cur \in early
    BY <1>1 DEF EnvInv
  <2>2. \A e \in Env : moduleIn'[e] \in {0, e} \cup early
    BY <1>1, <2>1 DEF ModuleInv, TypeOK
  <2> QED BY <1>1, <1>2, <2>2 DEF ModuleInv
<1>6. SandboxInv'
  BY <1>1, <1>2 DEF SandboxInv, NoneStray
<1>7. SandboxedUnlessDisturbed' /\ InitIsOwn'
  BY <1>1 DEF SandboxedUnlessDisturbed, InitIsOwn
<1> QED BY <1>3, <1>4, <1>5, <1>6, <1>7

\* A module that is deleted has run its settings only.
LEMMA SettingsStep ==
  ASSUME IInv, LoadSettings
  PROVE  IInv'
<1> USE ModulesAreNumbers DEF IInv, Loading
<1>1. /\ pc = "settings" /\ env \in Env /\ cur \in Module /\ cur \in 1 .. cur
      /\ env = cur \/ cur \in disturbed
      /\ cur \notin registered /\ cur \notin deleted
      /\ UNCHANGED <<listing, cur, env, moduleIn, inits, running, registered, loaded, disturbed, early>>
  BY DEF LoadSettings, FreshInv, EnvInv, TypeOK
<1>2. /\ ranIn' \subseteq ranIn \cup {[module |-> cur, env |-> env]}
      /\ \/ pc' = "next" /\ deleted' = deleted \cup {cur} /\ UNCHANGED <<files, file>>
         \/ pc' = "files" /\ deleted' = deleted /\ files' \in Nat /\ file' = 0
  BY <1>1 DEF LoadSettings, Fail
<1>3. /\ \A m : Listed(m) => Listed(m)'
      /\ \A m : Alive(m) /\ m # cur => Alive(m)'
      /\ pc' = "files" => Alive(cur)'
  BY <1>1, <1>2 DEF Alive, Listed, InFiles
<1>4. TypeOK'
  <2>1. [module |-> cur, env |-> env] \in [module : 1 .. cur, env : Env]
    BY <1>1
  <2>2. ranIn' \subseteq [module : 1 .. cur', env : Env]
    BY <1>1, <1>2, <2>1 DEF TypeOK
  <2>3. pc' \in {"next", "files"} /\ deleted' \subseteq 1 .. cur
    BY <1>1, <1>2 DEF TypeOK
  <2>4. files' \in Nat /\ file' \in 0 .. files'
    BY <1>2, 0 \in 0 .. files' DEF TypeOK
  <2> QED BY <1>1, <2>2, <2>3, <2>4 DEF TypeOK
<1>5. FreshInv' /\ EnvInv' /\ OwnInv'
  BY <1>1, <1>2 DEF FreshInv, EnvInv, OwnInv
<1>6. ModuleInv'
  BY <1>1, <1>2, <1>3 DEF ModuleInv, Listed, InFiles
<1>7. SandboxInv'
  <2> SUFFICES ASSUME NoneStray' PROVE SandboxInv'
    BY DEF SandboxInv
  <2>1. NoneStray
    BY <1>1, <1>2 DEF NoneStray
  <2>2. \A e \in Module : inits'[e] # NoInit => Alive(e)'
    BY <1>1, <1>3, <2>1 DEF SandboxInv
  <2>3. pc' = "files" => env' \in {Global, cur'} \/ Alive(env)'
    BY <1>1, <1>3, <2>1 DEF SandboxInv
  <2>4. \A m \in registered' : Alive(m)'
    BY <1>1, <1>3, <2>1 DEF SandboxInv
  <2> QED BY <1>2, <2>2, <2>3, <2>4 DEF SandboxInv
<1>8. SandboxedUnlessDisturbed' /\ InitIsOwn'
  BY <1>1, <1>2 DEF SandboxedUnlessDisturbed, InitIsOwn
<1> QED BY <1>4, <1>5, <1>6, <1>7, <1>8

\* While files are run the modules stay as alive as they are.
LEMMA AliveInFiles ==
  ASSUME InFiles, InFiles', UNCHANGED <<listing, cur, deleted, loaded>>
  PROVE  \A m : /\ Listed(m) => Listed(m)'
                /\ Alive(m) => Alive(m)'
BY DEF Alive, Listed

\* What any step between files keeps.
LEMMA FilesStep ==
  ASSUME IInv, InFiles, InFiles', NoneStray' => NoneStray,
         UNCHANGED <<listing, cur, env, moduleIn, registered, deleted, loaded, disturbed, early>>
  PROVE  /\ FreshInv' /\ EnvInv' /\ ModuleInv'
         /\ cur \in Module /\ cur \in 1 .. cur
         /\ NoneStray => /\ env = Global \/ (env \in Module /\ Alive(env)')
                         /\ \A e \in Module : Alive(e) => Alive(e)'
                         /\ \A m \in registered' : Alive(m)'
<1> USE ModulesAreNumbers DEF IInv, Loading, InFiles
<1>1. \A m : /\ Listed(m) => Listed(m)'
             /\ Alive(m) => Alive(m)'
  BY AliveInFiles
<1>2. FreshInv' /\ EnvInv'
  BY DEF FreshInv, EnvInv
<1>3. ModuleInv'
  BY <1>1 DEF ModuleInv
<1>4. cur \in Module /\ cur \in 1 .. cur /\ Alive(cur)
  BY DEF FreshInv, TypeOK, Alive, Listed
<1>5. NoneStray => /\ env = Global \/ (env \in Module /\ Alive(env)')
                   /\ \A m \in registered' : Alive(m)'
  BY <1>1, <1>4 DEF SandboxInv, TypeOK
<1> QED BY <1>1, <1>2, <1>3, <1>4, <1>5

\* The next file's init is not the one before.
LEMMA NextFileStep ==
  ASSUME IInv, NextFile
  PROVE  IInv'
<1> USE ModulesAreNumbers DEF Loading
<1>1. /\ pc = "files" /\ pc' \in {"files", "run"}
      /\ file' = file + 1 /\ file' \in 0 .. files /\ files \in Nat
      /\ inits' \in {inits, [inits EXCEPT ![env] = NoInit]}
      /\ pc' = "run" => inits' = [inits EXCEPT ![env] = NoInit]
      /\ UNCHANGED <<listing, cur, files, env, moduleIn, running, registered, deleted, loaded>>
      /\ UNCHANGED <<ranIn, disturbed, early>>
  BY DEF IInv, NextFile, MissingFile, ClearInit, Cleared, TypeOK, history
<1>2. InFiles /\ InFiles' /\ (NoneStray' <=> NoneStray)
  BY <1>1 DEF InFiles, NoneStray
<1>3. /\ FreshInv' /\ EnvInv' /\ ModuleInv'
      /\ cur \in Module /\ cur \in 1 .. cur
      /\ NoneStray => /\ env = Global \/ (env \in Module /\ Alive(env)')
                      /\ \A e \in Module : Alive(e) => Alive(e)'
                      /\ \A m \in registered' : Alive(m)'
  BY <1>1, <1>2, FilesStep
<1>4. /\ NoInit \in InitFunction /\ env \in Env /\ inits \in [Env -> InitFunction]
      /\ inits' \in [Env -> InitFunction]
      /\ \A e \in Env : inits'[e] \in {inits[e], NoInit}
      /\ pc' = "run" => inits'[env] = NoInit
  <2>1. NoInit \in InitFunction
    BY DEF InitFunction, NoInit
  <2>2. env \in Env /\ inits \in [Env -> InitFunction]
    BY DEF IInv, TypeOK
  <2> QED BY <1>1, <2>1, <2>2
<1>5. TypeOK'
  BY <1>1, <1>4 DEF IInv, TypeOK
<1>6. OwnInv'
  <2> SUFFICES ASSUME disturbed = {} PROVE OwnInv'
    BY <1>1 DEF OwnInv
  <2>1. env = cur /\ inits[Global] = NoInit
    BY <1>1 DEF IInv, EnvInv, OwnInv
  <2> QED BY <1>1, <1>4, <2>1 DEF OwnInv
<1>7. SandboxInv'
  BY <1>1, <1>2, <1>3, <1>4 DEF IInv, SandboxInv
<1>8. SandboxedUnlessDisturbed' /\ InitIsOwn'
  BY <1>1 DEF IInv, SandboxedUnlessDisturbed, InitIsOwn
<1> QED BY <1>3, <1>5, <1>6, <1>7, <1>8 DEF IInv

\* A file leaves its init in the environment it was run in.
LEMMA RunFileStep ==
  ASSUME IInv, RunFile
  PROVE  IInv'
<1> USE ModulesAreNumbers DEF Loading
<1> DEFINE own == [module |-> cur, file |-> file]
<1>1. /\ pc = "run" /\ pc' \in {"files", "find"} /\ file \in 0 .. files /\ files \in Nat
      /\ ranIn' = ranIn \cup {[module |-> cur, env |-> env]}
      /\ inits' \in {inits, [inits EXCEPT ![env] = own]}
      /\ UNCHANGED <<listing, cur, files, file, env, moduleIn, running, registered, deleted, loaded>>
      /\ UNCHANGED <<disturbed, early>>
  BY DEF IInv, RunFile, TypeOK
<1>2. InFiles /\ InFiles' /\ (NoneStray' <=> NoneStray)
  BY <1>1 DEF InFiles, NoneStray
<1>3. /\ FreshInv' /\ EnvInv' /\ ModuleInv'
      /\ cur \in Module /\ cur \in 1 .. cur
      /\ NoneStray => /\ env = Global \/ (env \in Module /\ Alive(env)')
                      /\ \A e \in Module : Alive(e) => Alive(e)'
                      /\ \A m \in registered' : Alive(m)'
  BY <1>1, <1>2, FilesStep
<1>4. /\ own \in InitFunction /\ env \in Env /\ inits \in [Env -> InitFunction]
      /\ inits' \in [Env -> InitFunction]
      /\ \A e \in Env \ {env} : inits'[e] = inits[e]
      /\ inits'[env] \in {inits[env], own}
  <2>1. own \in InitFunction
    BY <1>1, <1>3 DEF InitFunction
  <2>2. env \in Env /\ inits \in [Env -> InitFunction]
    BY DEF IInv, TypeOK
  <2> QED BY <1>1, <2>1, <2>2
<1>5. TypeOK'
  <2>1. [module |-> cur, env |-> env] \in [module : 1 .. cur, env : Env]
    BY <1>3, <1>4
  <2>2. ranIn' \subseteq [module : 1 .. cur', env : Env]
    BY <1>1, <2>1 DEF IInv, TypeOK
  <2> QED BY <1>1, <1>4, <2>2 DEF IInv, TypeOK
<1>6. OwnInv'
  <2> SUFFICES ASSUME disturbed = {} PROVE OwnInv'
    BY <1>1 DEF OwnInv
  <2>1. env = cur /\ inits[Global] = NoInit /\ inits[cur] = NoInit
    BY <1>1 DEF IInv, EnvInv, OwnInv
  <2> QED BY <1>1, <1>3, <1>4, <2>1 DEF OwnInv
<1>7. SandboxInv'
  <2> SUFFICES ASSUME NoneStray PROVE SandboxInv'
    BY <1>2 DEF SandboxInv
  <2>1. ASSUME NEW e \in Module, inits'[e] # NoInit PROVE Alive(e)'
    <3>1. CASE e = env
      <4>1. env # Global
        BY <3>1
      <4>2. Alive(env)'
        BY <1>2, <1>3, <4>1
      <4> QED BY <1>1, <3>1, <4>2
    <3>2. CASE e # env
      BY <1>3, <1>4, <2>1, <3>2 DEF IInv, SandboxInv
    <3> QED BY <3>1, <3>2
  <2> QED BY <1>1, <1>3, <2>1 DEF IInv, SandboxInv
<1>8. SandboxedUnlessDisturbed' /\ InitIsOwn'
  BY <1>1 DEF IInv, SandboxedUnlessDisturbed, InitIsOwn, EnvInv
<1> QED BY <1>3, <1>5, <1>6, <1>7, <1>8 DEF IInv

\* The init that is found is the sandbox's or the global one.
LEMMA FindInitStep ==
  ASSUME IInv, FindInit
  PROVE  IInv'
<1> USE ModulesAreNumbers DEF Loading
<1>1. /\ pc = "find" /\ pc' \in {"files", "init"} /\ Holder \in {env, Global}
      /\ pc' # "init" => running' = running
      /\ pc' = "init" => running' = [init |-> inits[Holder], env |-> Holder]
                         /\ inits[Holder] # NoInit
      /\ UNCHANGED <<listing, cur, files, file, env, moduleIn, inits, registered, deleted, loaded>>
      /\ UNCHANGED <<ranIn, disturbed, early>>
  BY DEF IInv, FindInit, Holder, TypeOK, history
<1>2. InFiles /\ InFiles' /\ (NoneStray' <=> NoneStray)
  BY <1>1 DEF InFiles, NoneStray
<1>3. /\ FreshInv' /\ EnvInv' /\ ModuleInv'
      /\ cur \in Module /\ cur \in 1 .. cur
      /\ NoneStray => /\ env = Global \/ (env \in Module /\ Alive(env)')
                      /\ \A e \in Module : Alive(e) => Alive(e)'
                      /\ \A m \in registered' : Alive(m)'
  BY <1>1, <1>2, FilesStep
<1>4. TypeOK'
  <2>1. running' \in [init : InitFunction, env : Env]
    BY <1>1 DEF IInv, TypeOK
  <2> QED BY <1>1, <2>1 DEF IInv, TypeOK
<1>5. OwnInv'
  BY <1>1 DEF IInv, OwnInv
<1>6. SandboxInv'
  <2> SUFFICES ASSUME NoneStray PROVE SandboxInv'
    BY <1>2 DEF SandboxInv
  <2>1. \A e \in Module : inits'[e] # NoInit => Alive(e)'
    BY <1>1, <1>3 DEF IInv, SandboxInv
  <2>2. pc' = "init" => running'.env = Global \/ Alive(running.env)'
    BY <1>1, <1>3
  <2> QED BY <1>1, <1>3, <2>1, <2>2 DEF SandboxInv
<1>7. InitIsOwn'
  <2> SUFFICES ASSUME pc' = "init", disturbed = {}
               PROVE  running' = [init |-> [module |-> cur, file |-> file], env |-> cur]
    BY <1>1 DEF InitIsOwn
  <2>1. env = cur /\ inits[Global] = NoInit
        /\ inits[cur] \in {NoInit, [module |-> cur, file |-> file]}
    BY <1>1 DEF IInv, EnvInv, OwnInv
  <2> QED BY <1>1, <2>1
<1>8. SandboxedUnlessDisturbed'
  BY <1>1 DEF IInv, SandboxedUnlessDisturbed
<1> QED BY <1>3, <1>4, <1>5, <1>6, <1>7, <1>8 DEF IInv

\* An init finds a module that is alive, and connects callbacks of that.
LEMMA ConnectStep ==
  ASSUME IInv, InitConnects
  PROVE  IInv'
<1> USE ModulesAreNumbers DEF Loading
<1> DEFINE seen == ModuleSeen(running.env)
<1>1. /\ pc = "init" /\ seen # 0 /\ registered' = registered \cup {seen}
      /\ running.env \in Env /\ seen \in {moduleIn[running.env], moduleIn[Global]}
      /\ UNCHANGED <<pc, listing, cur, files, file, env, moduleIn, inits, running, deleted, loaded>>
      /\ UNCHANGED <<ranIn, disturbed, early>>
  BY DEF IInv, InitConnects, ModuleSeen, loader, history, TypeOK
<1>2. /\ InFiles /\ InFiles' /\ (NoneStray' <=> NoneStray)
      /\ \A m : /\ Listed(m) <=> Listed(m)'
                /\ Alive(m) <=> Alive(m)'
  BY <1>1 DEF InFiles, NoneStray, Alive, Listed
<1>3. seen \in 1 .. cur /\ (seen = running.env \/ seen \in early)
  BY <1>1 DEF IInv, ModuleInv, TypeOK
<1>4. NoneStray => Alive(seen)
  <2> HAVE NoneStray
  <2>1. CASE seen = running.env
    BY <1>1, <2>1 DEF IInv, SandboxInv
  <2>2. CASE seen \in early
    BY <1>1, <1>2, <1>3, <2>2 DEF IInv, ModuleInv, NoneStray, Alive, Listed
  <2> QED BY <1>3, <2>1, <2>2
<1>5. TypeOK'
  BY <1>1, <1>3 DEF IInv, TypeOK
<1>6. FreshInv' /\ EnvInv' /\ ModuleInv' /\ OwnInv'
  BY <1>1, <1>2 DEF IInv, FreshInv, EnvInv, ModuleInv, OwnInv
<1>7. SandboxInv'
  BY <1>1, <1>2, <1>4 DEF IInv, SandboxInv
<1>8. SandboxedUnlessDisturbed' /\ InitIsOwn'
  BY <1>1 DEF IInv, SandboxedUnlessDisturbed, InitIsOwn
<1> QED BY <1>5, <1>6, <1>7, <1>8 DEF IInv

\* An emission leaves the global environment or that of a module with callbacks.
LEMMA EmittedEnv ==
  ASSUME IInv, Emission
  PROVE  env' \in Env /\ (NoneStray => env' = Global \/ Alive(env'))
<1> USE ModulesAreNumbers DEF IInv
<1>1. registered \subseteq Env
  BY DEF TypeOK
<1>2. env' \in Env
  BY <1>1 DEF Emission, AfterCall
<1>3. ASSUME NoneStray PROVE env' = Global \/ Alive(env')
  <2>1. \A m \in registered : Alive(m) /\ m \notin deleted
    BY <1>3 DEF SandboxInv, Alive
  <2>2. PICK m \in registered, ok \in BOOLEAN : env' = AfterCall(m, ok)
    BY <2>1 DEF Emission
  <2>3. env' \in {Global, m}
    BY <2>2 DEF AfterCall
  <2> QED BY <2>1, <2>3
<1> QED BY <1>2, <1>3

\* A callback changes the environment, and the module that is loading is known
\* to have been disturbed.
LEMMA EmitStep ==
  ASSUME IInv, InitEmits \/ DispatcherEmits
  PROVE  IInv'
<1> USE ModulesAreNumbers
<1>1. /\ disturbed' = disturbed \cup {m \in {cur} : Loading}
      /\ early' = early \cup {m \in {cur} : pc = "module"}
      /\ UNCHANGED <<pc, listing, cur, files, file, moduleIn, inits, running, registered, deleted>>
      /\ UNCHANGED <<loaded, ranIn>>
  BY DEF InitEmits, DispatcherEmits, loader, Loading
<1>2. env' \in Env /\ (NoneStray => env' = Global \/ Alive(env'))
  BY EmittedEnv DEF InitEmits, DispatcherEmits
<1>3. /\ \A m : /\ Listed(m) <=> Listed(m)'
                /\ Alive(m) <=> Alive(m)'
      /\ Loading' <=> Loading
  BY <1>1 DEF Alive, Listed, InFiles, Loading
<1>4. /\ Loading => cur \in 1 .. cur /\ cur \notin deleted /\ cur \in disturbed'
      /\ pc = "module" => Loading /\ cur \in early'
      /\ disturbed \subseteq disturbed' /\ early \subseteq early'
  BY <1>1 DEF IInv, FreshInv, TypeOK, Loading
<1>5. TypeOK'
  BY <1>1, <1>2, <1>4 DEF IInv, TypeOK
<1>6. FreshInv' /\ EnvInv' /\ OwnInv'
  BY <1>1, <1>3, <1>4 DEF IInv, FreshInv, EnvInv, OwnInv
<1>7. ModuleInv'
  <2>1. \A m \in early' : m \in early \/ (m = cur /\ Loading)
    BY <1>1, <1>4
  <2> QED BY <1>1, <1>3, <1>4, <2>1 DEF IInv, ModuleInv
<1>8. SandboxInv'
  <2> SUFFICES ASSUME NoneStray' PROVE SandboxInv'
    BY DEF SandboxInv
  <2>1. NoneStray
    BY <1>1, <1>4 DEF NoneStray
  <2>2. env' = Global \/ Alive(env)'
    BY <1>1, <1>2, <2>1 DEF Alive, Listed, InFiles
  <2> QED BY <1>1, <1>3, <2>1, <2>2 DEF IInv, SandboxInv
<1>9. SandboxedUnlessDisturbed' /\ InitIsOwn'
  BY <1>1, <1>4 DEF IInv, SandboxedUnlessDisturbed, InitIsOwn
<1> QED BY <1>5, <1>6, <1>7, <1>8, <1>9 DEF IInv

\* The end of an init changes nothing of this.
LEMMA InitEndStep ==
  ASSUME IInv, InitEnds
  PROVE  IInv'
<1> USE ModulesAreNumbers DEF Loading
<1>1. /\ pc = "init" /\ pc' = "files"
      /\ running' \in [init : InitFunction, env : Env]
      /\ UNCHANGED <<listing, cur, files, file, env, moduleIn, inits, registered, deleted, loaded>>
      /\ UNCHANGED <<ranIn, disturbed, early>>
  BY DEF InitEnds, NoInit, InitFunction, history
<1>2. InFiles /\ InFiles' /\ (NoneStray' <=> NoneStray)
  BY <1>1 DEF InFiles, NoneStray
<1>3. /\ FreshInv' /\ EnvInv' /\ ModuleInv'
      /\ NoneStray => /\ env = Global \/ (env \in Module /\ Alive(env)')
                      /\ \A e \in Module : Alive(e) => Alive(e)'
                      /\ \A m \in registered' : Alive(m)'
  BY <1>1, <1>2, FilesStep
<1>4. TypeOK' /\ OwnInv'
  BY <1>1 DEF IInv, TypeOK, OwnInv
<1>5. SandboxInv'
  BY <1>1, <1>2, <1>3 DEF IInv, SandboxInv
<1>6. SandboxedUnlessDisturbed' /\ InitIsOwn'
  BY <1>1 DEF IInv, SandboxedUnlessDisturbed, InitIsOwn
<1> QED BY <1>3, <1>4, <1>5, <1>6 DEF IInv

\* A module that was loaded stays alive: it or its namesake is in m_modules.
LEMMA FinishStep ==
  ASSUME IInv, Finish
  PROVE  IInv'
<1> USE ModulesAreNumbers DEF IInv, Loading
<1>1. /\ pc = "files" /\ pc' = "next" /\ cur \in 1 .. cur
      /\ UNCHANGED <<listing, cur, files, file, moduleIn, inits, running, registered, deleted>>
      /\ UNCHANGED <<ranIn, disturbed, early>>
  BY DEF Finish, FreshInv, TypeOK, history
<1>2. /\ loaded \subseteq loaded' /\ loaded' \subseteq loaded \cup {cur}
      /\ \E k \in loaded' : listing[k] = listing[cur]
  <2>1. CASE \E m \in loaded : listing[m] = listing[cur]
    BY <2>1 DEF Finish
  <2>2. CASE ~ \E m \in loaded : listing[m] = listing[cur]
    BY <2>2 DEF Finish
  <2> QED BY <2>1, <2>2
<1>3. env' \in Env
  BY EmittedEnv DEF Finish
<1>4. /\ \A m : /\ Listed(m) => Listed(m)'
                /\ Alive(m) => Alive(m)'
      /\ Listed(cur)'
  BY <1>1, <1>2 DEF Alive, Listed, InFiles
<1>5. TypeOK'
  BY <1>1, <1>2, <1>3 DEF TypeOK
<1>6. FreshInv' /\ EnvInv' /\ OwnInv'
  BY <1>1 DEF FreshInv, EnvInv, OwnInv
<1>7. ModuleInv'
  BY <1>1, <1>4 DEF ModuleInv
<1>8. SandboxInv'
  BY <1>1, <1>4 DEF SandboxInv, NoneStray
<1>9. SandboxedUnlessDisturbed' /\ InitIsOwn'
  BY <1>1 DEF SandboxedUnlessDisturbed, InitIsOwn
<1> QED BY <1>5, <1>6, <1>7, <1>8, <1>9

-----------------------------------------------------------------------------
(* The theorems *)

\* The invariant is inductive.
LEMMA Inductive == Spec => []IInv
<1>1. IInv /\ [Next]_vars => IInv'
  <2> SUFFICES ASSUME IInv, [Next]_vars PROVE IInv'
    OBVIOUS
  <2>1. CASE Next
    BY <2>1, ListSteps, NextModuleSteps, DefineStep, SettingsStep, NextFileStep, RunFileStep,
       FindInitStep, ConnectStep, EmitStep, InitEndStep, FinishStep DEF Next
  <2>2. CASE UNCHANGED vars
    <3>1. /\ UNCHANGED <<pc, listing, cur, files, file, env, moduleIn, inits, running>>
          /\ UNCHANGED <<registered, deleted, loaded, ranIn, disturbed, early>>
      BY <2>2 DEF vars, loader, history
    <3>2. TypeOK' /\ FreshInv' /\ EnvInv' /\ OwnInv'
      BY <3>1 DEF IInv, TypeOK, FreshInv, EnvInv, OwnInv, Loading
    <3>3. ModuleInv' /\ SandboxInv'
      BY <3>1 DEF IInv, ModuleInv, SandboxInv, NoneStray, Alive, Listed, InFiles, Loading
    <3> QED BY <3>1, <3>2, <3>3 DEF IInv, SandboxedUnlessDisturbed, InitIsOwn
  <2> QED BY <2>1, <2>2
<1> QED BY InitIInv, <1>1, PTL DEF Spec

\* loadModules keeps its state well-formed.
THEOREM TypeCorrect == Spec => []TypeOK
<1>1. IInv => TypeOK
  BY DEF IInv
<1> QED BY Inductive, <1>1, PTL

\* A module's files run in its own sandbox unless a callback is called meanwhile.
THEOREM LoadsInSandbox == Spec => []SandboxedUnlessDisturbed
<1>1. IInv => SandboxedUnlessDisturbed
  BY DEF IInv
<1> QED BY Inductive, <1>1, PTL

\* Events are sent to modules that exist and that the manager knows by name, as
\* long as no module is deleted for which a callback was called between the
\* installation of its sandbox and the definition of its global module.
THEOREM EventsReachAlive == Spec => []RegisteredAreAlive
<1> QED BY Inductive, AliveIsRegistered, PTL

\* No init is mistaken for another's, and none runs twice, while no callback is called.
THEOREM RunsOwnInit == Spec => []InitIsOwn
<1>1. IInv => InitIsOwn
  BY DEF IInv
<1> QED BY Inductive, <1>1, PTL

-----------------------------------------------------------------------------
(* Events *)

(* Recursion over the places of a vector *)

\* What holds of 0, and of a number if of the one before it, holds up to N.
LEMMA UpTo ==
  ASSUME NEW N \in Nat, NEW J, 0 \in J, \A k \in 1 .. N : k - 1 \in J => k \in J
  PROVE  \A k \in 0 .. N : k \in J
<1> DEFINE Missing == {k \in 0 .. N : k \notin J}
           R == OpToRel(<, Nat)
<1> SUFFICES ASSUME Missing # {} PROVE FALSE
  OBVIOUS
<1>1. Missing \in SUBSET Nat
  OBVIOUS
<1>2. IsWellFoundedOn(R, Nat)
  BY NatLessThanWellFounded
<1>3. PICK k \in Missing : \A j \in Missing : <<j, k>> \notin R
  <2> HIDE DEF R, Missing
  <2> QED BY <1>1, <1>2, WFMin
<1>4. \A j \in Missing : ~(j < k)
  BY <1>1, <1>3 DEF OpToRel
<1>5. k \in 1 .. N /\ k - 1 \notin Missing /\ k - 1 \in 0 .. N
  BY <1>4
<1>6. k - 1 \in J
  BY <1>5
<1> QED BY <1>5, <1>6

Iteration(f, n, a, G) == /\ f[0] = a
                         /\ \A k \in 1 .. n : f[k] = G[k][f[k - 1]]

Tables(n, S) == [0 .. n -> S]

\* A step that stays in a set can be taken N times.
LEMMA Iterates ==
  ASSUME NEW S, NEW a \in S, NEW N \in Nat, NEW G \in [1 .. N -> [S -> S]]
  PROVE  \E f \in Tables(N, S) : Iteration(f, N, a, G)
<1> DEFINE J == {n \in 0 .. N : \E f \in Tables(n, S) : Iteration(f, n, a, G)}
<1>1. 0 \in J
  <2>1. [k \in 0 .. 0 |-> a] \in Tables(0, S) /\ Iteration([k \in 0 .. 0 |-> a], 0, a, G)
    BY DEF Tables, Iteration
  <2> QED BY <2>1
<1>2. ASSUME NEW n \in 1 .. N, n - 1 \in J PROVE n \in J
  <2>1. PICK f \in Tables(n - 1, S) : Iteration(f, n - 1, a, G)
    BY <1>2
  <2>2. f \in [0 .. n - 1 -> S] /\ f[n - 1] \in S
    BY <2>1 DEF Tables
  <2> DEFINE x == G[n][f[n - 1]]
             g == [k \in 0 .. n |-> IF k = n THEN x ELSE f[k]]
  <2>3. x \in S
    BY <2>2
  <2> HIDE DEF x
  <2>4. g \in Tables(n, S)
    BY <2>2, <2>3 DEF Tables
  <2>5. Iteration(g, n, a, G)
    <3>1. g[0] = a
      <4>1. g[0] = f[0]
        OBVIOUS
      <4> HIDE DEF g
      <4> QED BY <2>1, <4>1 DEF Iteration
    <3>2. ASSUME NEW k \in 1 .. n PROVE g[k] = G[k][g[k - 1]]
      <4>1. CASE k = n
        <5>1. g[n] = x /\ g[n - 1] = f[n - 1]
          OBVIOUS
        <5> HIDE DEF g
        <5> QED BY <4>1, <5>1 DEF x
      <4>2. CASE k \in 1 .. n - 1
        <5>1. g[k] = f[k] /\ g[k - 1] = f[k - 1]
          BY <4>2
        <5>2. f[k] = G[k][f[k - 1]]
          BY <2>1, <4>2 DEF Iteration
        <5> HIDE DEF g
        <5> QED BY <5>1, <5>2
      <4> QED BY <4>1, <4>2
    <3> QED BY <3>1, <3>2 DEF Iteration
  <2> HIDE DEF g
  <2>6. n \in 0 .. N
    OBVIOUS
  <2> QED BY <2>4, <2>5, <2>6
<1>3. N \in J
  <2> HIDE DEF J
  <2>1. \A k \in 0 .. N : k \in J
    BY <1>1, <1>2, UpTo
  <2> QED BY <2>1
<1> QED BY <1>3

\* y is what the first k elements of s leave when x is erased.
Kept(S, s, x, k, y) ==
  /\ y \in Seq(S) /\ Len(y) <= k
  /\ \A v : v \in ToSet(y) <=> v # x /\ \E j \in 1 .. k : s[j] = v
  /\ IsInjective(s) => /\ IsInjective(y) /\ Len(y) >= k - 1
                       /\ (\A j \in 1 .. k : s[j] # x) => Len(y) = k

KeepNext(s, x, k, y) == IF s[k] = x THEN y ELSE Append(y, s[k])

\* What is in a sequence with one more element.
LEMMA Appended ==
  ASSUME NEW S, NEW y \in Seq(S), NEW v \in S
  PROVE  /\ Append(y, v) \in Seq(S) /\ Len(Append(y, v)) = Len(y) + 1
         /\ \A u : u \in ToSet(Append(y, v)) <=> u \in ToSet(y) \/ u = v
         /\ IsInjective(y) /\ v \notin ToSet(y) => IsInjective(Append(y, v))
<1> DEFINE z == Append(y, v)
<1>1. /\ z \in Seq(S) /\ Len(z) = Len(y) + 1 /\ DOMAIN z = 1 .. Len(y) + 1
      /\ \A i \in 1 .. Len(y) : z[i] = y[i]
      /\ z[Len(y) + 1] = v
  OBVIOUS
<1>2. DOMAIN y = 1 .. Len(y) /\ Len(y) \in Nat
  OBVIOUS
<1> HIDE DEF z
<1>3. \A u : u \in ToSet(z) <=> u \in ToSet(y) \/ u = v
  BY <1>1, <1>2 DEF ToSet
<1>4. ASSUME IsInjective(y), v \notin ToSet(y) PROVE IsInjective(z)
  BY <1>1, <1>2, <1>4 DEF ToSet, IsInjective
<1> QED BY <1>1, <1>3, <1>4 DEF z

\* One element more.
LEMMA KeepsOn ==
  ASSUME NEW S, NEW s \in Seq(S), NEW x, NEW k \in 1 .. Len(s), NEW y, Kept(S, s, x, k - 1, y)
  PROVE  Kept(S, s, x, k, KeepNext(s, x, k, y))
<1>1. /\ y \in Seq(S) /\ Len(y) <= k - 1 /\ Len(y) \in Nat /\ s[k] \in S
      /\ \A v : v \in ToSet(y) <=> v # x /\ \E j \in 1 .. k - 1 : s[j] = v
      /\ IsInjective(s) => /\ IsInjective(y) /\ Len(y) >= k - 2
                           /\ (\A j \in 1 .. k - 1 : s[j] # x) => Len(y) = k - 1
  BY DEF Kept
<1>2. CASE s[k] = x
  <2>1. KeepNext(s, x, k, y) = y
    BY <1>2 DEF KeepNext
  <2>2. IsInjective(s) => \A j \in 1 .. k - 1 : s[j] # x
    BY <1>2 DEF IsInjective
  <2>3. \A v : v # x => ((\E j \in 1 .. k : s[j] = v) <=> \E j \in 1 .. k - 1 : s[j] = v)
    BY <1>2
  <2>4. \A v : v \in ToSet(y) <=> v # x /\ \E j \in 1 .. k : s[j] = v
    BY <1>1, <2>3, Zenon
  <2>5. k \in 1 .. k /\ s[k] = x
    BY <1>2
  <2>6. IsInjective(s) => /\ IsInjective(y) /\ Len(y) >= k - 1
                          /\ (\A j \in 1 .. k : s[j] # x) => Len(y) = k
    BY <1>1, <2>2, <2>5
  <2> QED BY <1>1, <2>1, <2>4, <2>6 DEF Kept
<1>3. CASE s[k] # x
  <2> DEFINE z == Append(y, s[k])
  <2>1. KeepNext(s, x, k, y) = z
    BY <1>3 DEF KeepNext
  <2>2. /\ z \in Seq(S) /\ Len(z) = Len(y) + 1
        /\ \A u : u \in ToSet(z) <=> u \in ToSet(y) \/ u = s[k]
        /\ IsInjective(y) /\ s[k] \notin ToSet(y) => IsInjective(z)
    BY <1>1, Appended, Zenon
  <2> HIDE DEF z
  <2>3. \A v : (\E j \in 1 .. k : s[j] = v) <=> (\E j \in 1 .. k - 1 : s[j] = v) \/ s[k] = v
    OBVIOUS
  <2>4. \A v : v \in ToSet(z) <=> v # x /\ \E j \in 1 .. k : s[j] = v
    BY <1>1, <1>3, <2>2, <2>3, Zenon
  <2>5. IsInjective(s) => s[k] \notin ToSet(y)
    <3>1. IsInjective(s) => \A j \in 1 .. k - 1 : s[j] # s[k]
      BY DEF IsInjective
    <3> QED BY <1>1, <3>1, Zenon
  <2>6. IsInjective(s) => /\ IsInjective(z) /\ Len(z) >= k - 1
                          /\ (\A j \in 1 .. k : s[j] # x) => Len(z) = k
    BY <1>1, <2>2, <2>5
  <2> QED BY <1>1, <2>1, <2>2, <2>4, <2>6 DEF Kept
<1> QED BY <1>2, <1>3

\* What is left of a vector, and how long it is if x was in it once at most.
LEMMA EraseIs ==
  ASSUME NEW S, NEW s \in Seq(S), NEW x
  PROVE  /\ Erase(s, x) \in Seq(S) /\ Len(Erase(s, x)) <= Len(s)
         /\ ToSet(Erase(s, x)) = ToSet(s) \ {x}
         /\ IsInjective(s) => IsInjective(Erase(s, x)) /\ Len(Erase(s, x)) >= Len(s) - 1
<1> DEFINE N == Len(s)
           Leaving(h) == h = [k \in 0 .. N |->
                                IF k = 0 THEN <<>>
                                ELSE IF s[k] = x THEN h[k - 1] ELSE Append(h[k - 1], s[k])]
           G == [k \in 1 .. N |-> [y \in Seq(S) |-> KeepNext(s, x, k, y)]]
           h == CHOOSE g : Leaving(g)
<1>1. N \in Nat /\ \A k \in 1 .. N : s[k] \in S
  OBVIOUS
<1>2. G \in [1 .. N -> [Seq(S) -> Seq(S)]]
  <2>1. \A k \in 1 .. N, y \in Seq(S) : KeepNext(s, x, k, y) \in Seq(S)
    BY <1>1, Appended DEF KeepNext
  <2> QED BY <2>1
<1>3. <<>> \in Seq(S)
  OBVIOUS
<1>4. PICK f \in Tables(N, Seq(S)) : Iteration(f, N, <<>>, G)
  <2> HIDE DEF G, N
  <2> QED BY <1>1, <1>2, <1>3, Iterates
<1>5. Leaving(f)
  <2>1. f \in [0 .. N -> Seq(S)]
    BY <1>4 DEF Tables
  <2>2. f[0] = <<>>
    BY <1>4 DEF Iteration
  <2>3. \A k \in 1 .. N : f[k] = KeepNext(s, x, k, f[k - 1])
    <3> SUFFICES ASSUME NEW k \in 1 .. N PROVE f[k] = KeepNext(s, x, k, f[k - 1])
      OBVIOUS
    <3>1. f[k] = G[k][f[k - 1]] /\ f[k - 1] \in Seq(S)
      <4>1. f[k] = G[k][f[k - 1]]
        BY <1>4, Zenon DEF Iteration
      <4>2. k - 1 \in 0 .. N
        BY <1>1
      <4> QED BY <2>1, <4>1, <4>2, Zenon
    <3> QED BY <3>1
  <2> DEFINE g == [k \in 0 .. N |->
                     IF k = 0 THEN <<>>
                     ELSE IF s[k] = x THEN f[k - 1] ELSE Append(f[k - 1], s[k])]
  <2>4. ASSUME NEW k \in 0 .. N PROVE f[k] = g[k]
    <3>1. CASE k = 0
      BY <2>2, <3>1
    <3>2. CASE k \in 1 .. N
      BY <2>3, <3>2 DEF KeepNext
    <3> QED BY <3>1, <3>2
  <2>5. DOMAIN f = 0 .. N /\ DOMAIN g = 0 .. N
    BY <2>1
  <2>6. f = [k \in 0 .. N |-> f[k]] /\ g = [k \in 0 .. N |-> g[k]]
    BY <2>1
  <2> HIDE DEF g
  <2>7. f = g
    BY <2>4, <2>6
  <2> QED BY <2>7 DEF g
<1>6. Leaving(h)
  <2> HIDE DEF Leaving
  <2> QED BY <1>5
<1>7. Erase(s, x) = h[N]
  BY DEF Erase
<1>8. h[0] = <<>> /\ \A k \in 1 .. N : h[k] = KeepNext(s, x, k, h[k - 1])
  <2> DEFINE next(k) == IF s[k] = x THEN h[k - 1] ELSE Append(h[k - 1], s[k])
  <2>1. h = [k \in 0 .. N |-> IF k = 0 THEN <<>> ELSE next(k)]
    BY <1>6
  <2> HIDE DEF h, Leaving, G, next
  <2>2. h[0] = <<>> /\ \A k \in 1 .. N : h[k] = next(k)
    BY <1>1, <2>1
  <2>3. \A k \in 1 .. N : next(k) = KeepNext(s, x, k, h[k - 1])
    BY DEF next, KeepNext
  <2> QED BY <2>2, <2>3
<1> HIDE DEF h, Leaving, G
<1> DEFINE J == {k \in 0 .. N : Kept(S, s, x, k, h[k])}
<1>9. 0 \in J
  <2>1. Kept(S, s, x, 0, <<>>)
    BY DEF Kept, ToSet, IsInjective
  <2> QED BY <1>1, <1>8, <2>1
<1>10. ASSUME NEW k \in 1 .. N, k - 1 \in J PROVE k \in J
  BY <1>8, <1>10, KeepsOn
<1>11. N \in J
  <2> HIDE DEF J
  <2>1. \A k \in 0 .. N : k \in J
    BY <1>1, <1>9, <1>10, UpTo
  <2> QED BY <1>1, <2>1
<1>12. Kept(S, s, x, N, Erase(s, x))
  BY <1>7, <1>11
<1>13. \A v : v \in ToSet(s) <=> \E j \in 1 .. N : s[j] = v
  BY DEF ToSet
<1> QED BY <1>12, <1>13 DEF Kept

-----------------------------------------------------------------------------
(* The registry *)

ListsTypeOK ==
  /\ eventCallbacks \in [Modules -> [Events -> Seq(Refs)]]
  /\ identifiedEventCallbacks \in [Modules -> [Events -> [Identifiers -> Refs \cup {NoRef}]]]
  /\ moduleEvents \in [Events -> Seq(Modules)]
  /\ identifiedModuleEvents \in [Events -> Seq(Modules)]
  /\ refs \subseteq Refs

Sound == ListsTypeOK /\ RegistryAgrees /\ RefsAreHeld

\* A reference is a number, and NoRef is none.
LEMMA RefIsNone == NoRef \notin Refs
BY ModuleEventsAssumption DEF ModuleEventsAssumption

\* A table of tables with one entry changed.
LEMMA Updated ==
  ASSUME NEW A, NEW B, NEW C, NEW f \in [A -> [B -> C]], NEW a \in A, NEW b \in B, NEW v \in C,
         NEW g, g = [f EXCEPT ![a][b] = v]
  PROVE  /\ g \in [A -> [B -> C]] /\ g[a][b] = v
         /\ \A x \in A, y \in B : x # a \/ y # b => g[x][y] = f[x][y]
BY SMT

\* An empty sequence has no elements.
LEMMA NoElements ==
  ASSUME NEW S, NEW s \in Seq(S)
  PROVE  /\ s = <<>> <=> ToSet(s) = {}
         /\ s = <<>> <=> Len(s) = 0
         /\ ToSet(s) \in SUBSET S
BY DEF ToSet

\* Callbacks that are disconnected leave the others as they are.
LEMMA HeldByLess ==
  ASSUME RefsAreHeld,
         \A m \in Modules, e \in Events :
           /\ IsInjective(eventCallbacks[m][e])'
           /\ ToSet(eventCallbacks[m][e])' \subseteq refs'
           /\ ToSet(eventCallbacks[m][e])' \subseteq ToSet(eventCallbacks[m][e])
           /\ \A i \in Identifiers :
                /\ identifiedEventCallbacks'[m][e][i] \in {identifiedEventCallbacks[m][e][i], NoRef}
                /\ identifiedEventCallbacks'[m][e][i] \in refs' \cup {NoRef}
  PROVE  RefsAreHeld'
<1>1. \A m, n \in Modules, e, f \in Events :
        m # n \/ e # f =>
          ToSet(eventCallbacks[m][e])' \cap ToSet(eventCallbacks[n][f])' = {}
  <2> SUFFICES ASSUME NEW m \in Modules, NEW n \in Modules, NEW e \in Events, NEW f \in Events,
                      <<m, e>> # <<n, f>>
               PROVE  ToSet(eventCallbacks[m][e])' \cap ToSet(eventCallbacks[n][f])' = {}
    OBVIOUS
  <2>1. ToSet(eventCallbacks[m][e]) \cap ToSet(eventCallbacks[n][f]) = {}
    BY DEF RefsAreHeld
  <2>2. /\ ToSet(eventCallbacks[m][e])' \subseteq ToSet(eventCallbacks[m][e])
        /\ ToSet(eventCallbacks[n][f])' \subseteq ToSet(eventCallbacks[n][f])
    OBVIOUS
  <2> QED BY <2>1, <2>2, Zenon
<1>2. ASSUME NEW m \in Modules, NEW n \in Modules, NEW e \in Events, NEW f \in Events,
             NEW i \in Identifiers, NEW j \in Identifiers,
             identifiedEventCallbacks'[m][e][i] # NoRef
      PROVE  /\ identifiedEventCallbacks'[m][e][i] \notin ToSet(eventCallbacks[n][f])'
             /\ <<m, e, i>> # <<n, f, j>> =>
                  identifiedEventCallbacks'[m][e][i] # identifiedEventCallbacks'[n][f][j]
  <2>1. /\ identifiedEventCallbacks'[m][e][i] = identifiedEventCallbacks[m][e][i]
        /\ identifiedEventCallbacks'[n][f][j] \in {identifiedEventCallbacks[n][f][j], NoRef}
        /\ ToSet(eventCallbacks[n][f])' \subseteq ToSet(eventCallbacks[n][f])
    BY <1>2
  <2>2. /\ identifiedEventCallbacks[m][e][i] \notin ToSet(eventCallbacks[n][f])
        /\ <<m, e, i>> # <<n, f, j>> =>
             identifiedEventCallbacks[m][e][i] # identifiedEventCallbacks[n][f][j]
    <3>1. identifiedEventCallbacks[m][e][i] # NoRef
      BY <1>2, <2>1, Zenon
    <3>2. \A a, b \in Modules, g, h \in Events, k, l \in Identifiers :
            identifiedEventCallbacks[a][g][k] # NoRef =>
              /\ identifiedEventCallbacks[a][g][k] \notin ToSet(eventCallbacks[b][h])
              /\ <<a, g, k>> # <<b, h, l>> =>
                   identifiedEventCallbacks[a][g][k] # identifiedEventCallbacks[b][h][l]
      BY Zenon DEF RefsAreHeld
    <3> QED BY <3>1, <3>2
  <2> QED BY <1>2, <2>1, <2>2, Zenon
<1>3. NoRef' = NoRef
  BY DEF NoRef
<1>4. \A m \in Modules, e \in Events :
        /\ IsInjective(eventCallbacks[m][e])' /\ ToSet(eventCallbacks[m][e])' \subseteq refs'
        /\ \A i \in Identifiers : identifiedEventCallbacks'[m][e][i] \in refs' \cup {NoRef}
  OBVIOUS
<1>5. \A m, n \in Modules, e, f \in Events :
        <<m, e>> # <<n, f>> =>
          ToSet(eventCallbacks[m][e])' \cap ToSet(eventCallbacks[n][f])' = {}
  BY <1>1
<1>6. \A m, n \in Modules, e, f \in Events, i, j \in Identifiers :
        identifiedEventCallbacks'[m][e][i] # NoRef =>
          /\ identifiedEventCallbacks'[m][e][i] \notin ToSet(eventCallbacks[n][f])'
          /\ <<m, e, i>> # <<n, f, j>> =>
               identifiedEventCallbacks'[m][e][i] # identifiedEventCallbacks'[n][f][j]
  BY <1>2
<1> QED BY <1>3, <1>4, <1>5, <1>6, Zenon DEF RefsAreHeld

\* What Module::disconnect of a callback changes.
Disconnected(m, e, r) ==
  /\ eventCallbacks' \in [Modules -> [Events -> Seq(Refs)]]
  /\ moduleEvents' \in [Events -> Seq(Modules)]
  /\ \A n \in Modules, f \in Events :
       n # m \/ f # e => eventCallbacks'[n][f] = eventCallbacks[n][f]
  /\ IsInjective(eventCallbacks'[m][e])
  /\ ToSet(eventCallbacks'[m][e]) = ToSet(eventCallbacks[m][e]) \ {r}
  /\ Len(eventCallbacks'[m][e]) \in Len(eventCallbacks[m][e]) - 1 .. Len(eventCallbacks[m][e])
  /\ \A f \in Events : f # e => moduleEvents'[f] = moduleEvents[f]
  /\ \/ moduleEvents' = moduleEvents /\ refs' = refs
        /\ (eventCallbacks'[m][e] = <<>> <=> eventCallbacks[m][e] = <<>>)
     \/ /\ eventCallbacks[m][e] # <<>> /\ eventCallbacks'[m][e] = <<>>
        /\ ToSet(eventCallbacks[m][e]) = {r}
        /\ moduleEvents'[e] = Erase(moduleEvents[e], m) /\ refs' = refs \ {r}

\* It changes that: the module leaves the registry with its last callback.
LEMMA DisconnectDoes ==
  ASSUME Sound, NEW m \in Modules, NEW e \in Events, NEW r, Disconnect(m, e, r)
  PROVE  Disconnected(m, e, r)
<1> DEFINE L == eventCallbacks[m][e]
           left == Erase(L, r)
<1>1. L \in Seq(Refs) /\ IsInjective(L) /\ eventCallbacks \in [Modules -> [Events -> Seq(Refs)]]
      /\ moduleEvents \in [Events -> Seq(Modules)] /\ moduleEvents[e] \in Seq(Modules)
  BY DEF Sound, ListsTypeOK, RefsAreHeld
<1>2. /\ left \in Seq(Refs) /\ Len(left) <= Len(L) /\ ToSet(left) = ToSet(L) \ {r}
      /\ IsInjective(left) /\ Len(left) >= Len(L) - 1
  BY <1>1, EraseIs
<1>3. Len(L) \in Nat /\ Len(left) \in Nat
  BY <1>1, <1>2
<1>4. CASE L = <<>>
  <2>1. eventCallbacks' = eventCallbacks /\ moduleEvents' = moduleEvents /\ refs' = refs
    BY <1>4 DEF Disconnect
  <2>2. ToSet(L) = {} /\ Len(L) \in Len(L) - 1 .. Len(L)
    BY <1>3, <1>4 DEF ToSet
  <2> HIDE DEF left
  <2> QED BY <1>1, <2>1, <2>2 DEF Disconnected
<1>5. CASE L # <<>>
  <2>1. /\ eventCallbacks' = [eventCallbacks EXCEPT ![m][e] = left]
        /\ left = <<>> => /\ moduleEvents' = [moduleEvents EXCEPT ![e] = Erase(@, m)]
                          /\ refs' = refs \ {r}
        /\ left # <<>> => moduleEvents' = moduleEvents /\ refs' = refs
    BY <1>5 DEF Disconnect, Left, Unreferences
  <2> HIDE DEF left
  <2>2. /\ eventCallbacks' \in [Modules -> [Events -> Seq(Refs)]] /\ eventCallbacks'[m][e] = left
        /\ \A n \in Modules, f \in Events :
              n # m \/ f # e => eventCallbacks'[n][f] = eventCallbacks[n][f]
    BY <1>1, <1>2, <2>1, Updated
  <2>3. Len(left) \in Len(L) - 1 .. Len(L)
    BY <1>2, <1>3
  <2>4. CASE left # <<>>
    BY <1>1, <1>2, <1>5, <2>1, <2>2, <2>3, <2>4 DEF Disconnected
  <2>5. CASE left = <<>>
    <3>1. Erase(moduleEvents[e], m) \in Seq(Modules)
      BY <1>1, EraseIs
    <3>2. /\ moduleEvents' \in [Events -> Seq(Modules)]
          /\ moduleEvents'[e] = Erase(moduleEvents[e], m)
          /\ \A f \in Events : f # e => moduleEvents'[f] = moduleEvents[f]
      BY <1>1, <2>1, <2>5, <3>1
    <3>3. ToSet(L) = {r}
      <4>1. ToSet(left) = {} /\ ToSet(L) # {}
        <5>1. ToSet(left) = {}
          BY <1>2, <2>5, NoElements, Zenon
        <5>2. ToSet(L) # {}
          <6>1. \A s \in Seq(Refs) : s = <<>> <=> ToSet(s) = {}
            BY NoElements
          <6>2. L \in Seq(Refs)
            BY <1>1
          <6> HIDE DEF L
          <6> QED BY <1>5, <6>1, <6>2, Zenon
        <5> QED BY <5>1, <5>2
      <4> QED BY <1>2, <4>1
    <3> QED BY <1>2, <1>5, <2>1, <2>2, <2>3, <2>5, <3>2, <3>3 DEF Disconnected
  <2> QED BY <2>4, <2>5
<1> QED BY <1>4, <1>5

\* A module's place in the registry, for both kinds of callbacks.
LEMMA InRegistry ==
  ASSUME Sound, NEW e \in Events
  PROVE  /\ IsInjective(moduleEvents[e]) /\ IsInjective(identifiedModuleEvents[e])
         /\ \A m : m \in ToSet(moduleEvents[e]) <=> m \in Modules /\ eventCallbacks[m][e] # <<>>
         /\ \A m : m \in ToSet(identifiedModuleEvents[e])
                     <=> m \in Modules /\ ~Empty(identifiedEventCallbacks[m][e])
BY DEF Sound, RegistryAgrees

\* Disconnecting a callback keeps the registry sound.
LEMMA DisconnectSound ==
  ASSUME Sound, NEW m \in Modules, NEW e \in Events, NEW r, Disconnect(m, e, r),
         UNCHANGED <<identifiedEventCallbacks, identifiedModuleEvents>>
  PROVE  Sound'
<1>1. /\ eventCallbacks' \in [Modules -> [Events -> Seq(Refs)]]
      /\ moduleEvents' \in [Events -> Seq(Modules)]
      /\ \A n \in Modules, f \in Events :
           n # m \/ f # e => eventCallbacks'[n][f] = eventCallbacks[n][f]
      /\ IsInjective(eventCallbacks'[m][e])
      /\ ToSet(eventCallbacks'[m][e]) = ToSet(eventCallbacks[m][e]) \ {r}
      /\ \A f \in Events : f # e => moduleEvents'[f] = moduleEvents[f]
      /\ \/ moduleEvents' = moduleEvents /\ refs' = refs
            /\ (eventCallbacks'[m][e] = <<>> <=> eventCallbacks[m][e] = <<>>)
         \/ /\ eventCallbacks[m][e] # <<>> /\ eventCallbacks'[m][e] = <<>>
            /\ ToSet(eventCallbacks[m][e]) = {r}
            /\ moduleEvents'[e] = Erase(moduleEvents[e], m) /\ refs' = refs \ {r}
  <2>1. Disconnected(m, e, r)
    BY DisconnectDoes, Zenon
  <2> QED BY <2>1 DEF Disconnected
<1>2. ListsTypeOK /\ RegistryAgrees /\ RefsAreHeld
  BY DEF Sound
<1>3. ListsTypeOK'
  BY <1>1, <1>2 DEF ListsTypeOK
<1>4. RegistryAgrees'
  <2>1. ASSUME NEW f \in Events
        PROVE  /\ IsInjective(moduleEvents'[f])
               /\ ToSet(moduleEvents'[f]) = {n \in Modules : eventCallbacks'[n][f] # <<>>}
    <3>1. /\ IsInjective(moduleEvents[f])
          /\ ToSet(moduleEvents[f]) = {n \in Modules : eventCallbacks[n][f] # <<>>}
          /\ moduleEvents[f] \in Seq(Modules)
      BY <1>2 DEF RegistryAgrees, ListsTypeOK
    <3>2. CASE f # e
      <4>1. moduleEvents'[f] = moduleEvents[f]
        BY <1>1, <3>2, Zenon
      <4>2. \A n \in Modules : eventCallbacks'[n][f] = eventCallbacks[n][f]
        BY <1>1, <3>2
      <4> QED BY <3>1, <4>1, <4>2
    <3>3. CASE /\ f = e /\ moduleEvents' = moduleEvents
               /\ eventCallbacks'[m][e] = <<>> <=> eventCallbacks[m][e] = <<>>
      <4>1. \A n \in Modules : n # m => eventCallbacks'[n][e] = eventCallbacks[n][e]
        BY <1>1
      <4>2. \A n \in Modules : eventCallbacks'[n][e] = <<>> <=> eventCallbacks[n][e] = <<>>
        BY <3>3, <4>1
      <4> QED BY <3>1, <3>3, <4>2
    <3>4. CASE /\ f = e /\ eventCallbacks[m][e] # <<>> /\ eventCallbacks'[m][e] = <<>>
               /\ moduleEvents'[e] = Erase(moduleEvents[e], m)
      <4>2. /\ ToSet(moduleEvents'[e]) = ToSet(moduleEvents[e]) \ {m}
            /\ IsInjective(moduleEvents'[e])
        BY <3>1, <3>4, EraseIs
      <4>3. \A n \in Modules : n # m => eventCallbacks'[n][e] = eventCallbacks[n][e]
        BY <1>1
      <4> QED BY <3>1, <3>4, <4>2, <4>3
    <3> QED BY <1>1, <3>2, <3>3, <3>4, Zenon
  <2> QED BY <1>2, <2>1 DEF RegistryAgrees, Empty
<1>5. RefsAreHeld'
  <2>1. ASSUME NEW n \in Modules, NEW f \in Events
        PROVE  /\ IsInjective(eventCallbacks'[n][f])
               /\ ToSet(eventCallbacks'[n][f]) \subseteq ToSet(eventCallbacks[n][f])
               /\ ToSet(eventCallbacks'[n][f]) \subseteq refs'
    <3>1. IsInjective(eventCallbacks[n][f]) /\ ToSet(eventCallbacks[n][f]) \subseteq refs
      BY <1>2 DEF RefsAreHeld
    <3>2. CASE n = m /\ f = e
      BY <1>1, <3>1, <3>2
    <3>3. CASE n # m \/ f # e
      <4>1. eventCallbacks'[n][f] = eventCallbacks[n][f]
        BY <1>1, <3>3
      <4>2. ToSet(eventCallbacks[n][f]) \cap ToSet(eventCallbacks[m][e]) = {}
        <5>1. <<n, f>> # <<m, e>>
          BY <3>3
        <5> QED BY <1>2, <5>1 DEF RefsAreHeld
      <4>3. refs' = refs \/ (refs' = refs \ {r} /\ r \in ToSet(eventCallbacks[m][e]))
        BY <1>1
      <4> QED BY <3>1, <4>1, <4>2, <4>3
    <3> QED BY <3>2, <3>3
  <2>2. ASSUME NEW n \in Modules, NEW f \in Events, NEW i \in Identifiers
        PROVE  /\ identifiedEventCallbacks'[n][f][i] = identifiedEventCallbacks[n][f][i]
               /\ identifiedEventCallbacks'[n][f][i] \in refs' \cup {NoRef}
    <3>1. /\ identifiedEventCallbacks'[n][f][i] = identifiedEventCallbacks[n][f][i]
          /\ identifiedEventCallbacks[n][f][i] \in refs \cup {NoRef}
      BY <1>2 DEF RefsAreHeld
    <3>2. identifiedEventCallbacks[n][f][i] # NoRef =>
            identifiedEventCallbacks[n][f][i] \notin ToSet(eventCallbacks[m][e])
      BY <1>2 DEF RefsAreHeld
    <3>3. refs' = refs \/ (refs' = refs \ {r} /\ r \in ToSet(eventCallbacks[m][e]))
      BY <1>1
    <3> QED BY <3>1, <3>2, <3>3
  <2> QED BY <1>2, <2>1, <2>2, HeldByLess
<1> QED BY <1>3, <1>4, <1>5 DEF Sound

\* What Module::disconnect of an identifier changes.
IdentifiedDisconnected(m, e, i) ==
  /\ identifiedEventCallbacks' \in [Modules -> [Events -> [Identifiers -> Refs \cup {NoRef}]]]
  /\ identifiedModuleEvents' \in [Events -> Seq(Modules)]
  /\ \A n \in Modules, f \in Events :
       n # m \/ f # e => identifiedEventCallbacks'[n][f] = identifiedEventCallbacks[n][f]
  /\ identifiedEventCallbacks'[m][e] = Without(identifiedEventCallbacks[m][e], i)
  /\ \A f \in Events : f # e => identifiedModuleEvents'[f] = identifiedModuleEvents[f]
  /\ refs' = refs \ {identifiedEventCallbacks[m][e][i]}
  /\ \/ /\ identifiedModuleEvents' = identifiedModuleEvents
        /\ Empty(identifiedEventCallbacks'[m][e]) <=> Empty(identifiedEventCallbacks[m][e])
     \/ /\ ~Empty(identifiedEventCallbacks[m][e]) /\ Empty(identifiedEventCallbacks'[m][e])
        /\ identifiedModuleEvents'[e] = Erase(identifiedModuleEvents[e], m)

\* An identifier that is taken out of a map.
LEMMA WithoutIs ==
  ASSUME NEW map \in [Identifiers -> Refs \cup {NoRef}], NEW i \in Identifiers
  PROVE  /\ Without(map, i) \in [Identifiers -> Refs \cup {NoRef}]
         /\ \A j \in Identifiers : Without(map, i)[j] = IF j = i THEN NoRef ELSE map[j]
         /\ Empty(map) => Empty(Without(map, i))
         /\ map[i] = NoRef => Without(map, i) = map
BY DEF Without, Empty

\* It changes that.
LEMMA DisconnectIdentifiedDoes ==
  ASSUME Sound, NEW m \in Modules, NEW e \in Events, NEW i \in Identifiers,
         DisconnectIdentified(m, e, i)
  PROVE  IdentifiedDisconnected(m, e, i)
<1> DEFINE map == identifiedEventCallbacks[m][e]
           rest == Without(map, i)
<1>1. /\ identifiedEventCallbacks \in [Modules -> [Events -> [Identifiers -> Refs \cup {NoRef}]]]
      /\ map \in [Identifiers -> Refs \cup {NoRef}] /\ refs \subseteq Refs
      /\ identifiedModuleEvents \in [Events -> Seq(Modules)]
      /\ identifiedModuleEvents[e] \in Seq(Modules)
  BY DEF Sound, ListsTypeOK
<1>2. /\ rest \in [Identifiers -> Refs \cup {NoRef}]
      /\ \A j \in Identifiers : rest[j] = IF j = i THEN NoRef ELSE map[j]
      /\ Empty(map) => Empty(rest)
      /\ map[i] = NoRef => rest = map
  BY <1>1, WithoutIs
<1>3. CASE map[i] = NoRef
  <2>1. /\ identifiedEventCallbacks' = identifiedEventCallbacks
        /\ identifiedModuleEvents' = identifiedModuleEvents /\ refs' = refs
    BY <1>3 DEF DisconnectIdentified
  <2>2. refs' = refs \ {map[i]}
    BY <1>1, <1>3, <2>1, RefIsNone
  <2>3. rest = map
    BY <1>2, <1>3
  <2> HIDE DEF rest
  <2> QED BY <1>1, <2>1, <2>2, <2>3 DEF IdentifiedDisconnected, rest
<1>4. CASE map[i] # NoRef
  <2>1. /\ identifiedEventCallbacks' = [identifiedEventCallbacks EXCEPT ![m][e] = rest]
        /\ Empty(rest) => identifiedModuleEvents' = [identifiedModuleEvents EXCEPT ![e] = Erase(@, m)]
        /\ ~Empty(rest) => identifiedModuleEvents' = identifiedModuleEvents
        /\ refs' = refs \ {map[i]}
    BY <1>4 DEF DisconnectIdentified
  <2>2. ~Empty(map)
    BY <1>4 DEF Empty
  <2> HIDE DEF rest
  <2>3. /\ identifiedEventCallbacks' \in [Modules -> [Events -> [Identifiers -> Refs \cup {NoRef}]]]
        /\ identifiedEventCallbacks'[m][e] = rest
        /\ \A n \in Modules, f \in Events :
             n # m \/ f # e => identifiedEventCallbacks'[n][f] = identifiedEventCallbacks[n][f]
    BY <1>1, <1>2, <2>1, Updated
  <2>4. CASE ~Empty(rest)
    BY <1>1, <2>1, <2>2, <2>3, <2>4 DEF IdentifiedDisconnected, rest
  <2>5. CASE Empty(rest)
    <3>1. Erase(identifiedModuleEvents[e], m) \in Seq(Modules)
      BY <1>1, EraseIs
    <3>2. /\ identifiedModuleEvents' \in [Events -> Seq(Modules)]
          /\ identifiedModuleEvents'[e] = Erase(identifiedModuleEvents[e], m)
          /\ \A f \in Events : f # e => identifiedModuleEvents'[f] = identifiedModuleEvents[f]
      BY <1>1, <2>1, <2>5, <3>1
    <3> QED BY <2>1, <2>2, <2>3, <2>5, <3>2 DEF IdentifiedDisconnected, rest
  <2> QED BY <2>4, <2>5
<1> QED BY <1>3, <1>4

\* Disconnecting an identifier keeps the registry sound.
LEMMA DisconnectIdentifiedSound ==
  ASSUME Sound, NEW m \in Modules, NEW e \in Events, NEW i \in Identifiers,
         DisconnectIdentified(m, e, i), UNCHANGED <<eventCallbacks, moduleEvents>>
  PROVE  Sound'
<1>1. /\ identifiedEventCallbacks' \in [Modules -> [Events -> [Identifiers -> Refs \cup {NoRef}]]]
      /\ identifiedModuleEvents' \in [Events -> Seq(Modules)]
      /\ \A n \in Modules, f \in Events :
           n # m \/ f # e => identifiedEventCallbacks'[n][f] = identifiedEventCallbacks[n][f]
      /\ identifiedEventCallbacks'[m][e] = Without(identifiedEventCallbacks[m][e], i)
      /\ \A f \in Events : f # e => identifiedModuleEvents'[f] = identifiedModuleEvents[f]
      /\ refs' = refs \ {identifiedEventCallbacks[m][e][i]}
      /\ \/ /\ identifiedModuleEvents' = identifiedModuleEvents
            /\ Empty(identifiedEventCallbacks'[m][e]) <=> Empty(identifiedEventCallbacks[m][e])
         \/ /\ ~Empty(identifiedEventCallbacks[m][e]) /\ Empty(identifiedEventCallbacks'[m][e])
            /\ identifiedModuleEvents'[e] = Erase(identifiedModuleEvents[e], m)
  <2>1. IdentifiedDisconnected(m, e, i)
    BY DisconnectIdentifiedDoes, Zenon
  <2> QED BY <2>1 DEF IdentifiedDisconnected
<1>2. ListsTypeOK /\ RegistryAgrees /\ RefsAreHeld
  BY DEF Sound
<1>3. ListsTypeOK'
  BY <1>1, <1>2 DEF ListsTypeOK
<1>4. RegistryAgrees'
  <2>1. ASSUME NEW f \in Events
        PROVE  /\ IsInjective(identifiedModuleEvents'[f])
               /\ ToSet(identifiedModuleEvents'[f])
                    = {n \in Modules : ~Empty(identifiedEventCallbacks'[n][f])}
    <3>1. /\ IsInjective(identifiedModuleEvents[f])
          /\ ToSet(identifiedModuleEvents[f])
               = {n \in Modules : ~Empty(identifiedEventCallbacks[n][f])}
          /\ identifiedModuleEvents[f] \in Seq(Modules)
      BY <1>2 DEF RegistryAgrees, ListsTypeOK
    <3>2. CASE f # e
      <4>1. identifiedModuleEvents'[f] = identifiedModuleEvents[f]
        BY <1>1, <3>2, Zenon
      <4>2. \A n \in Modules : identifiedEventCallbacks'[n][f] = identifiedEventCallbacks[n][f]
        BY <1>1, <3>2
      <4> QED BY <3>1, <4>1, <4>2
    <3>3. CASE /\ f = e /\ identifiedModuleEvents' = identifiedModuleEvents
               /\ Empty(identifiedEventCallbacks'[m][e]) <=> Empty(identifiedEventCallbacks[m][e])
      <4>1. \A n \in Modules :
              n # m => identifiedEventCallbacks'[n][e] = identifiedEventCallbacks[n][e]
        BY <1>1
      <4>2. \A n \in Modules :
              Empty(identifiedEventCallbacks'[n][e]) <=> Empty(identifiedEventCallbacks[n][e])
        BY <3>3, <4>1
      <4> QED BY <3>1, <3>3, <4>2
    <3>4. CASE /\ f = e /\ ~Empty(identifiedEventCallbacks[m][e])
               /\ Empty(identifiedEventCallbacks'[m][e])
               /\ identifiedModuleEvents'[e] = Erase(identifiedModuleEvents[e], m)
      <4>1. /\ ToSet(identifiedModuleEvents'[e]) = ToSet(identifiedModuleEvents[e]) \ {m}
            /\ IsInjective(identifiedModuleEvents'[e])
        BY <3>1, <3>4, EraseIs
      <4>2. \A n \in Modules :
              n # m => identifiedEventCallbacks'[n][e] = identifiedEventCallbacks[n][e]
        BY <1>1
      <4> QED BY <3>1, <3>4, <4>1, <4>2
    <3> QED BY <1>1, <3>2, <3>3, <3>4, Zenon
  <2> QED BY <1>2, <2>1 DEF RegistryAgrees, Empty
<1>5. RefsAreHeld'
  <2> DEFINE r == identifiedEventCallbacks[m][e][i]
  <2>0. \A j \in Identifiers :
          identifiedEventCallbacks'[m][e][j] = IF j = i THEN NoRef
                                               ELSE identifiedEventCallbacks[m][e][j]
    <3> DEFINE map == identifiedEventCallbacks[m][e]
    <3>1. map \in [Identifiers -> Refs \cup {NoRef}]
      BY <1>2 DEF ListsTypeOK
    <3> HIDE DEF map
    <3>2. \A j \in Identifiers : Without(map, i)[j] = IF j = i THEN NoRef ELSE map[j]
      BY <3>1, WithoutIs
    <3> QED BY <1>1, <3>2, Zenon DEF map
  <2>1. r = NoRef \/ \A n \in Modules, f \in Events : r \notin ToSet(eventCallbacks[n][f])
    BY <1>2 DEF RefsAreHeld
  <2>2. ASSUME NEW n \in Modules, NEW f \in Events
        PROVE  /\ IsInjective(eventCallbacks'[n][f])
               /\ ToSet(eventCallbacks'[n][f]) \subseteq ToSet(eventCallbacks[n][f])
               /\ ToSet(eventCallbacks'[n][f]) \subseteq refs'
    <3>1. IsInjective(eventCallbacks[n][f]) /\ ToSet(eventCallbacks[n][f]) \subseteq refs
      BY <1>2 DEF RefsAreHeld
    <3>2. ToSet(eventCallbacks[n][f]) \subseteq Refs
      BY <1>2, <3>1 DEF ListsTypeOK
    <3> QED BY <1>1, <2>1, <3>1, <3>2, RefIsNone
  <2>3. ASSUME NEW n \in Modules, NEW f \in Events, NEW j \in Identifiers
        PROVE  /\ identifiedEventCallbacks'[n][f][j] \in {identifiedEventCallbacks[n][f][j], NoRef}
               /\ identifiedEventCallbacks'[n][f][j] \in refs' \cup {NoRef}
    <3>1. identifiedEventCallbacks[n][f][j] \in refs \cup {NoRef}
      BY <1>2 DEF RefsAreHeld
    <3>2. CASE n = m /\ f = e /\ j = i
      BY <2>0, <3>2
    <3>3. CASE ~(n = m /\ f = e /\ j = i)
      <4>1. identifiedEventCallbacks'[n][f][j] = identifiedEventCallbacks[n][f][j]
        <5>1. CASE n = m /\ f = e
          BY <2>0, <3>3, <5>1
        <5>2. CASE n # m \/ f # e
          BY <1>1, <5>2
        <5> QED BY <5>1, <5>2
      <4>2. identifiedEventCallbacks[n][f][j] = NoRef \/ identifiedEventCallbacks[n][f][j] # r
        <5>1. <<n, f, j>> # <<m, e, i>>
          BY <3>3
        <5> QED BY <1>2, <5>1 DEF RefsAreHeld
      <4> QED BY <1>1, <3>1, <4>1, <4>2
    <3> QED BY <3>2, <3>3
  <2> QED BY <1>2, <2>2, <2>3, HeldByLess
<1> QED BY <1>3, <1>4, <1>5 DEF Sound

\* A module is registered once.
LEMMA RegisteredIs ==
  ASSUME NEW s \in Seq(Modules), NEW m \in Modules, IsInjective(s)
  PROVE  /\ Registered(s, m) \in Seq(Modules) /\ IsInjective(Registered(s, m))
         /\ ToSet(Registered(s, m)) = ToSet(s) \cup {m}
<1>1. Contains(s, m) <=> m \in ToSet(s)
  BY DEF Contains, ToSet
<1>2. CASE Contains(s, m)
  BY <1>1, <1>2 DEF Registered
<1>3. CASE ~Contains(s, m)
  <2>1. /\ Append(s, m) \in Seq(Modules) /\ IsInjective(Append(s, m))
        /\ \A u : u \in ToSet(Append(s, m)) <=> u \in ToSet(s) \/ u = m
    BY <1>1, <1>3, Appended
  <2> QED BY <1>3, <2>1 DEF Registered
<1> QED BY <1>2, <1>3

\* No callback has a reference that is not in use.
LEMMA FreshIsUnheld ==
  ASSUME Sound, NEW r \in Refs \ refs
  PROVE  /\ \A m \in Modules, e \in Events : r \notin ToSet(eventCallbacks[m][e])
         /\ \A m \in Modules, e \in Events, i \in Identifiers : identifiedEventCallbacks[m][e][i] # r
         /\ r # NoRef
<1>1. r # NoRef
  BY RefIsNone
<1> QED BY <1>1 DEF Sound, RefsAreHeld

\* Connecting keeps it sound: the new callback's reference was nobody's.
LEMMA ConnectSound ==
  ASSUME Sound, NEW m \in Modules, NEW e \in Events, NEW r \in Refs \ refs, Connect(m, e, r)
  PROVE  Sound'
<1> DEFINE L == eventCallbacks[m][e]
<1>1. /\ eventCallbacks' = [eventCallbacks EXCEPT ![m][e] = Append(L, r)]
      /\ moduleEvents' = [moduleEvents EXCEPT ![e] = Registered(@, m)]
      /\ refs' = refs \cup {r}
      /\ identifiedEventCallbacks' = identifiedEventCallbacks
      /\ identifiedModuleEvents' = identifiedModuleEvents
  BY DEF Connect
<1>2. ListsTypeOK /\ RegistryAgrees /\ RefsAreHeld
  BY DEF Sound
<1>3. L \in Seq(Refs) /\ IsInjective(L) /\ r \notin ToSet(L) /\ r \in Refs
  BY <1>2, FreshIsUnheld DEF ListsTypeOK, RefsAreHeld
<1>4. /\ Append(L, r) \in Seq(Refs) /\ IsInjective(Append(L, r)) /\ Append(L, r) # <<>>
      /\ ToSet(Append(L, r)) = ToSet(L) \cup {r}
  <2>1. /\ Append(L, r) \in Seq(Refs) /\ IsInjective(Append(L, r))
        /\ \A u : u \in ToSet(Append(L, r)) <=> u \in ToSet(L) \/ u = r
    BY <1>3, Appended
  <2>2. Append(L, r) # <<>>
    BY <1>3
  <2> HIDE DEF L
  <2> QED BY <2>1, <2>2
<1>5. /\ eventCallbacks' \in [Modules -> [Events -> Seq(Refs)]]
      /\ eventCallbacks'[m][e] = Append(L, r)
      /\ \A n \in Modules, f \in Events :
           n # m \/ f # e => eventCallbacks'[n][f] = eventCallbacks[n][f]
  BY <1>1, <1>2, <1>4, Updated DEF ListsTypeOK
<1>6. /\ moduleEvents' \in [Events -> Seq(Modules)] /\ IsInjective(moduleEvents'[e])
      /\ ToSet(moduleEvents'[e]) = ToSet(moduleEvents[e]) \cup {m}
      /\ \A f \in Events : f # e => moduleEvents'[f] = moduleEvents[f]
  <2>1. moduleEvents[e] \in Seq(Modules) /\ IsInjective(moduleEvents[e])
    BY <1>2 DEF ListsTypeOK, RegistryAgrees
  <2> DEFINE s == Registered(moduleEvents[e], m)
  <2>2. s \in Seq(Modules) /\ IsInjective(s) /\ ToSet(s) = ToSet(moduleEvents[e]) \cup {m}
    BY <2>1, RegisteredIs
  <2>3. moduleEvents' = [moduleEvents EXCEPT ![e] = s]
    BY <1>1
  <2> HIDE DEF s
  <2> QED BY <1>2, <2>2, <2>3 DEF ListsTypeOK
<1> HIDE DEF L
<1>7. ListsTypeOK'
  BY <1>1, <1>2, <1>3, <1>5, <1>6 DEF ListsTypeOK
<1>8. RegistryAgrees'
  <2>1. ASSUME NEW f \in Events
        PROVE  /\ IsInjective(moduleEvents'[f])
               /\ ToSet(moduleEvents'[f]) = {n \in Modules : eventCallbacks'[n][f] # <<>>}
    <3>1. /\ IsInjective(moduleEvents[f])
          /\ ToSet(moduleEvents[f]) = {n \in Modules : eventCallbacks[n][f] # <<>>}
      BY <1>2 DEF RegistryAgrees
    <3>2. CASE f # e
      BY <1>5, <1>6, <3>1, <3>2
    <3>3. CASE f = e
      <4>1. eventCallbacks'[m][e] # <<>>
        BY <1>4, <1>5
      <4>2. \A n \in Modules : n # m => eventCallbacks'[n][e] = eventCallbacks[n][e]
        BY <1>5
      <4> QED BY <1>6, <3>1, <3>3, <4>1, <4>2
    <3> QED BY <3>2, <3>3
  <2> QED BY <1>1, <1>2, <2>1 DEF RegistryAgrees, Empty
<1>9. ASSUME NEW n \in Modules, NEW f \in Events
      PROVE  /\ IsInjective(eventCallbacks'[n][f])
             /\ ToSet(eventCallbacks'[n][f]) \subseteq ToSet(eventCallbacks[n][f]) \cup {r}
             /\ n # m \/ f # e => ToSet(eventCallbacks'[n][f]) = ToSet(eventCallbacks[n][f])
  <2>1. IsInjective(eventCallbacks[n][f])
    BY <1>2 DEF RefsAreHeld
  <2>2. CASE n = m /\ f = e
    BY <1>4, <1>5, <2>2 DEF L
  <2>3. CASE n # m \/ f # e
    BY <1>5, <2>1, <2>3
  <2> QED BY <2>2, <2>3
<1>10. RefsAreHeld'
  <2>1. ASSUME NEW n \in Modules, NEW f \in Events
        PROVE  /\ IsInjective(eventCallbacks'[n][f]) /\ ToSet(eventCallbacks'[n][f]) \subseteq refs'
               /\ \A i \in Identifiers : identifiedEventCallbacks'[n][f][i] \in refs' \cup {NoRef}
    BY <1>1, <1>2, <1>9 DEF RefsAreHeld
  <2>2. ASSUME NEW n \in Modules, NEW k \in Modules, NEW f \in Events, NEW g \in Events,
               <<n, f>> # <<k, g>>
        PROVE  ToSet(eventCallbacks'[n][f]) \cap ToSet(eventCallbacks'[k][g]) = {}
    <3>1. ToSet(eventCallbacks[n][f]) \cap ToSet(eventCallbacks[k][g]) = {}
      BY <1>2, <2>2 DEF RefsAreHeld
    <3>2. /\ r \notin ToSet(eventCallbacks[n][f]) /\ r \notin ToSet(eventCallbacks[k][g])
          /\ (n # m \/ f # e) \/ (k # m \/ g # e)
      BY <2>2, FreshIsUnheld
    <3> QED BY <1>9, <3>1, <3>2
  <2>3. ASSUME NEW n \in Modules, NEW k \in Modules, NEW f \in Events, NEW g \in Events,
               NEW i \in Identifiers, NEW j \in Identifiers,
               identifiedEventCallbacks'[n][f][i] # NoRef
        PROVE  /\ identifiedEventCallbacks'[n][f][i] \notin ToSet(eventCallbacks'[k][g])
               /\ <<n, f, i>> # <<k, g, j>> =>
                    identifiedEventCallbacks'[n][f][i] # identifiedEventCallbacks'[k][g][j]
    <3>1. /\ identifiedEventCallbacks[n][f][i] \notin ToSet(eventCallbacks[k][g])
          /\ <<n, f, i>> # <<k, g, j>> =>
               identifiedEventCallbacks[n][f][i] # identifiedEventCallbacks[k][g][j]
      BY <1>1, <1>2, <2>3 DEF RefsAreHeld
    <3>2. identifiedEventCallbacks[n][f][i] # r
      BY FreshIsUnheld
    <3> QED BY <1>1, <1>9, <3>1, <3>2
  <2>4. NoRef' = NoRef
    BY DEF NoRef
  <2> QED BY <2>1, <2>2, <2>3, <2>4 DEF RefsAreHeld
<1> QED BY <1>7, <1>8, <1>10 DEF Sound

\* So does connecting an identifier; a refused reference is held by nobody.
LEMMA ConnectIdentifiedSound ==
  ASSUME Sound, NEW m \in Modules, NEW e \in Events, NEW i \in Identifiers, NEW r \in Refs \ refs,
         ConnectIdentified(m, e, i, r)
  PROVE  Sound'
<1>1. /\ refs' = refs \cup {r} /\ eventCallbacks' = eventCallbacks /\ moduleEvents' = moduleEvents
      /\ \/ /\ identifiedEventCallbacks' = identifiedEventCallbacks
            /\ identifiedModuleEvents' = identifiedModuleEvents
         \/ /\ identifiedEventCallbacks' = [identifiedEventCallbacks EXCEPT ![m][e][i] = r]
            /\ identifiedModuleEvents' = [identifiedModuleEvents EXCEPT ![e] = Registered(@, m)]
  BY DEF ConnectIdentified
<1>2. ListsTypeOK /\ RegistryAgrees /\ RefsAreHeld
  BY DEF Sound
<1>3. CASE /\ identifiedEventCallbacks' = identifiedEventCallbacks
           /\ identifiedModuleEvents' = identifiedModuleEvents
  <2>1. ListsTypeOK'
    BY <1>1, <1>2, <1>3 DEF ListsTypeOK
  <2>2. RegistryAgrees'
    BY <1>1, <1>2, <1>3 DEF RegistryAgrees, Empty
  <2>3. RefsAreHeld'
    <3>1. ASSUME NEW n \in Modules, NEW f \in Events
          PROVE  /\ IsInjective(eventCallbacks'[n][f])
                 /\ ToSet(eventCallbacks'[n][f]) \subseteq refs'
                 /\ \A j \in Identifiers : identifiedEventCallbacks'[n][f][j] \in refs' \cup {NoRef}
      BY <1>1, <1>2, <1>3 DEF RefsAreHeld
    <3>2. \A n, k \in Modules, f, g \in Events :
            <<n, f>> # <<k, g>> =>
              ToSet(eventCallbacks'[n][f]) \cap ToSet(eventCallbacks'[k][g]) = {}
      BY <1>1, <1>2 DEF RefsAreHeld
    <3>3. ASSUME NEW n \in Modules, NEW k \in Modules, NEW f \in Events, NEW g \in Events,
                 NEW h \in Identifiers, NEW j \in Identifiers,
                 identifiedEventCallbacks'[n][f][h] # NoRef
          PROVE  /\ identifiedEventCallbacks'[n][f][h] \notin ToSet(eventCallbacks'[k][g])
                 /\ <<n, f, h>> # <<k, g, j>> =>
                      identifiedEventCallbacks'[n][f][h] # identifiedEventCallbacks'[k][g][j]
      BY <1>1, <1>2, <1>3, <3>3 DEF RefsAreHeld
    <3>4. NoRef' = NoRef
      BY DEF NoRef
    <3> QED BY <3>1, <3>2, <3>3, <3>4 DEF RefsAreHeld
  <2> QED BY <2>1, <2>2, <2>3 DEF Sound
<1>4. CASE /\ identifiedEventCallbacks' = [identifiedEventCallbacks EXCEPT ![m][e][i] = r]
           /\ identifiedModuleEvents' = [identifiedModuleEvents EXCEPT ![e] = Registered(@, m)]
  <2>1. /\ identifiedEventCallbacks' \in [Modules -> [Events -> [Identifiers -> Refs \cup {NoRef}]]]
        /\ \A n \in Modules, f \in Events, j \in Identifiers :
             identifiedEventCallbacks'[n][f][j] =
               IF n = m /\ f = e /\ j = i THEN r ELSE identifiedEventCallbacks[n][f][j]
    BY <1>2, <1>4 DEF ListsTypeOK
  <2>2. /\ identifiedModuleEvents' \in [Events -> Seq(Modules)]
        /\ IsInjective(identifiedModuleEvents'[e])
        /\ ToSet(identifiedModuleEvents'[e]) = ToSet(identifiedModuleEvents[e]) \cup {m}
        /\ \A f \in Events : f # e => identifiedModuleEvents'[f] = identifiedModuleEvents[f]
    <3>1. identifiedModuleEvents[e] \in Seq(Modules) /\ IsInjective(identifiedModuleEvents[e])
      BY <1>2 DEF ListsTypeOK, RegistryAgrees
    <3> DEFINE s == Registered(identifiedModuleEvents[e], m)
    <3>2. /\ s \in Seq(Modules) /\ IsInjective(s)
          /\ ToSet(s) = ToSet(identifiedModuleEvents[e]) \cup {m}
      BY <3>1, RegisteredIs
    <3>3. identifiedModuleEvents' = [identifiedModuleEvents EXCEPT ![e] = s]
      BY <1>4
    <3> HIDE DEF s
    <3> QED BY <1>2, <3>2, <3>3 DEF ListsTypeOK
  <2>3. ListsTypeOK'
    BY <1>1, <1>2, <2>1, <2>2 DEF ListsTypeOK
  <2>4. RegistryAgrees'
    <3>1. ASSUME NEW f \in Events
          PROVE  /\ IsInjective(identifiedModuleEvents'[f])
                 /\ ToSet(identifiedModuleEvents'[f])
                      = {n \in Modules : ~Empty(identifiedEventCallbacks'[n][f])}
      <4>1. /\ IsInjective(identifiedModuleEvents[f])
            /\ ToSet(identifiedModuleEvents[f])
                 = {n \in Modules : ~Empty(identifiedEventCallbacks[n][f])}
        BY <1>2 DEF RegistryAgrees
      <4>2. ASSUME NEW n \in Modules, n # m \/ f # e
            PROVE  Empty(identifiedEventCallbacks'[n][f]) <=> Empty(identifiedEventCallbacks[n][f])
        BY <2>1, <4>2 DEF Empty
      <4>3. CASE f # e
        BY <2>2, <4>1, <4>2, <4>3
      <4>4. CASE f = e
        <5>1. ~Empty(identifiedEventCallbacks'[m][e])
          BY <2>1, FreshIsUnheld DEF Empty
        <5> QED BY <2>2, <4>1, <4>2, <4>4, <5>1
      <4> QED BY <4>3, <4>4
    <3> QED BY <1>1, <1>2, <3>1 DEF RegistryAgrees
  <2>5. RefsAreHeld'
    <3>1. ASSUME NEW n \in Modules, NEW f \in Events
          PROVE  /\ IsInjective(eventCallbacks'[n][f])
                 /\ ToSet(eventCallbacks'[n][f]) \subseteq refs'
                 /\ \A j \in Identifiers : identifiedEventCallbacks'[n][f][j] \in refs' \cup {NoRef}
      BY <1>1, <1>2, <2>1 DEF RefsAreHeld
    <3>2. \A n, k \in Modules, f, g \in Events :
            <<n, f>> # <<k, g>> =>
              ToSet(eventCallbacks'[n][f]) \cap ToSet(eventCallbacks'[k][g]) = {}
      BY <1>1, <1>2 DEF RefsAreHeld
    <3>3. ASSUME NEW n \in Modules, NEW k \in Modules, NEW f \in Events, NEW g \in Events,
                 NEW h \in Identifiers, NEW j \in Identifiers,
                 identifiedEventCallbacks'[n][f][h] # NoRef
          PROVE  /\ identifiedEventCallbacks'[n][f][h] \notin ToSet(eventCallbacks'[k][g])
                 /\ <<n, f, h>> # <<k, g, j>> =>
                      identifiedEventCallbacks'[n][f][h] # identifiedEventCallbacks'[k][g][j]
      <4>1. /\ r \notin ToSet(eventCallbacks[k][g])
            /\ identifiedEventCallbacks[k][g][j] # r /\ identifiedEventCallbacks[n][f][h] # r
        BY FreshIsUnheld
      <4>2. identifiedEventCallbacks[n][f][h] # NoRef =>
              /\ identifiedEventCallbacks[n][f][h] \notin ToSet(eventCallbacks[k][g])
              /\ <<n, f, h>> # <<k, g, j>> =>
                   identifiedEventCallbacks[n][f][h] # identifiedEventCallbacks[k][g][j]
        BY <1>2 DEF RefsAreHeld
      <4>3. CASE n = m /\ f = e /\ h = i
        BY <1>1, <2>1, <4>1, <4>3
      <4>4. CASE ~(n = m /\ f = e /\ h = i)
        BY <1>1, <2>1, <3>3, <4>1, <4>2, <4>4
      <4> QED BY <4>3, <4>4
    <3>4. NoRef' = NoRef
      BY DEF NoRef
    <3> QED BY <3>1, <3>2, <3>3, <3>4 DEF RefsAreHeld
  <2> QED BY <2>3, <2>4, <2>5 DEF Sound
<1> QED BY <1>1, <1>3, <1>4

\* So does freeing what a module has connected, though references may stay in use.
LEMMA FreeConnectionsSound ==
  ASSUME Sound, NEW m \in Modules, FreeConnections(m)
  PROVE  Sound'
<1>1. /\ eventCallbacks' = [eventCallbacks EXCEPT ![m] = [e \in Events |-> <<>>]]
      /\ identifiedEventCallbacks' =
           [identifiedEventCallbacks EXCEPT ![m] = [e \in Events |-> [i \in Identifiers |-> NoRef]]]
      /\ moduleEvents' = [e \in Events |-> Erase(moduleEvents[e], m)]
      /\ identifiedModuleEvents' = [e \in Events |-> Erase(identifiedModuleEvents[e], m)]
      /\ refs' = refs \ ({Last(eventCallbacks[m][e]) : e \in {f \in Events : eventCallbacks[m][f] # <<>>}}
                         \cup {identifiedEventCallbacks[m][e][i] : e \in Events, i \in Identifiers})
  BY DEF FreeConnections
<1>2. ListsTypeOK /\ RegistryAgrees /\ RefsAreHeld
  BY DEF Sound
<1>3. ASSUME NEW e \in Events
      PROVE  /\ eventCallbacks'[m][e] = <<>>
             /\ \A i \in Identifiers : identifiedEventCallbacks'[m][e][i] = NoRef
             /\ \A n \in Modules : n # m => eventCallbacks'[n][e] = eventCallbacks[n][e]
             /\ \A n \in Modules :
                  n # m => identifiedEventCallbacks'[n][e] = identifiedEventCallbacks[n][e]
  BY <1>1, <1>2 DEF ListsTypeOK
<1>4. ASSUME NEW e \in Events
      PROVE  /\ moduleEvents'[e] \in Seq(Modules) /\ IsInjective(moduleEvents'[e])
             /\ ToSet(moduleEvents'[e]) = ToSet(moduleEvents[e]) \ {m}
             /\ identifiedModuleEvents'[e] \in Seq(Modules)
             /\ IsInjective(identifiedModuleEvents'[e])
             /\ ToSet(identifiedModuleEvents'[e]) = ToSet(identifiedModuleEvents[e]) \ {m}
  <2>1. /\ moduleEvents[e] \in Seq(Modules) /\ identifiedModuleEvents[e] \in Seq(Modules)
        /\ IsInjective(moduleEvents[e]) /\ IsInjective(identifiedModuleEvents[e])
    BY <1>2 DEF ListsTypeOK, RegistryAgrees
  <2>2. /\ Erase(moduleEvents[e], m) \in Seq(Modules) /\ IsInjective(Erase(moduleEvents[e], m))
        /\ ToSet(Erase(moduleEvents[e], m)) = ToSet(moduleEvents[e]) \ {m}
    BY <2>1, EraseIs
  <2>3. /\ Erase(identifiedModuleEvents[e], m) \in Seq(Modules)
        /\ IsInjective(Erase(identifiedModuleEvents[e], m))
        /\ ToSet(Erase(identifiedModuleEvents[e], m)) = ToSet(identifiedModuleEvents[e]) \ {m}
    BY <2>1, EraseIs
  <2> QED BY <1>1, <2>2, <2>3
<1>5. ListsTypeOK'
  <2>1. /\ DOMAIN moduleEvents' = Events /\ moduleEvents' = [e \in Events |-> moduleEvents'[e]]
        /\ identifiedModuleEvents' = [e \in Events |-> identifiedModuleEvents'[e]]
    BY <1>1
  <2>2. moduleEvents' \in [Events -> Seq(Modules)] /\ identifiedModuleEvents' \in [Events -> Seq(Modules)]
    BY <1>4, <2>1
  <2>3. [e \in Events |-> <<>>] \in [Events -> Seq(Refs)]
    OBVIOUS
  <2>4. eventCallbacks' \in [Modules -> [Events -> Seq(Refs)]]
    BY <1>1, <1>2, <2>3 DEF ListsTypeOK
  <2>5. identifiedEventCallbacks' \in [Modules -> [Events -> [Identifiers -> Refs \cup {NoRef}]]]
    BY <1>1, <1>2 DEF ListsTypeOK
  <2>6. refs' \subseteq Refs
    BY <1>1, <1>2 DEF ListsTypeOK
  <2> QED BY <2>2, <2>4, <2>5, <2>6 DEF ListsTypeOK
<1>6. RegistryAgrees'
  <2>1. ASSUME NEW e \in Events
        PROVE  /\ IsInjective(moduleEvents'[e]) /\ IsInjective(identifiedModuleEvents'[e])
               /\ ToSet(moduleEvents'[e]) = {n \in Modules : eventCallbacks'[n][e] # <<>>}
               /\ ToSet(identifiedModuleEvents'[e])
                    = {n \in Modules : ~Empty(identifiedEventCallbacks'[n][e])}
    <3>1. /\ ToSet(moduleEvents[e]) = {n \in Modules : eventCallbacks[n][e] # <<>>}
          /\ ToSet(identifiedModuleEvents[e])
               = {n \in Modules : ~Empty(identifiedEventCallbacks[n][e])}
      BY <1>2 DEF RegistryAgrees
    <3>2. Empty(identifiedEventCallbacks'[m][e])
      BY <1>3 DEF Empty
    <3> QED BY <1>3, <1>4, <3>1, <3>2
  <2>2. NoRef' = NoRef
    BY DEF NoRef
  <2> QED BY <2>1, <2>2 DEF RegistryAgrees, Empty
<1>7. RefsAreHeld'
  <2>1. ASSUME NEW e \in Events, eventCallbacks[m][e] # <<>>
        PROVE  Last(eventCallbacks[m][e]) \in ToSet(eventCallbacks[m][e])
    <3>1. \A s \in Seq(Refs) : s # <<>> => Last(s) \in ToSet(s)
      BY DEF Last, ToSet
    <3>2. eventCallbacks[m][e] \in Seq(Refs)
      BY <1>2 DEF ListsTypeOK
    <3> QED BY <2>1, <3>1, <3>2, Zenon
  <2>2. ASSUME NEW n \in Modules, n # m, NEW e \in Events
        PROVE  ToSet(eventCallbacks[n][e]) \subseteq refs'
    <3>1. ToSet(eventCallbacks[n][e]) \subseteq refs
      BY <1>2 DEF RefsAreHeld
    <3>2. ASSUME NEW f \in Events
          PROVE  ToSet(eventCallbacks[n][e]) \cap ToSet(eventCallbacks[m][f]) = {}
      <4>1. <<n, e>> # <<m, f>>
        BY <2>2
      <4> QED BY <1>2, <4>1 DEF RefsAreHeld
    <3>3. ASSUME NEW f \in Events, NEW i \in Identifiers
          PROVE  identifiedEventCallbacks[m][f][i] \notin ToSet(eventCallbacks[n][e])
      <4>1. ToSet(eventCallbacks[n][e]) \subseteq Refs
        BY <1>2, <3>1 DEF ListsTypeOK
      <4> QED BY <1>2, <4>1, RefIsNone DEF RefsAreHeld
    <3> QED BY <1>1, <2>1, <3>1, <3>2, <3>3
  <2>3. ASSUME NEW n \in Modules, n # m, NEW e \in Events, NEW i \in Identifiers
        PROVE  identifiedEventCallbacks[n][e][i] \in refs' \cup {NoRef}
    <3> DEFINE r == identifiedEventCallbacks[n][e][i]
    <3>1. r \in refs \cup {NoRef}
      BY <1>2 DEF RefsAreHeld
    <3>2. ASSUME NEW f \in Events, r # NoRef
          PROVE  r \notin ToSet(eventCallbacks[m][f])
      BY <1>2, <3>2 DEF RefsAreHeld
    <3>3. ASSUME NEW f \in Events, NEW j \in Identifiers, r # NoRef
          PROVE  r # identifiedEventCallbacks[m][f][j]
      <4>1. <<n, e, i>> # <<m, f, j>>
        BY <2>3
      <4> QED BY <1>2, <3>3, <4>1 DEF RefsAreHeld
    <3> HIDE DEF r
    <3>4. r # NoRef => r \in refs'
      BY <1>1, <2>1, <3>1, <3>2, <3>3
    <3> QED BY <3>4 DEF r
  <2>4. ASSUME NEW n \in Modules, NEW e \in Events
        PROVE  /\ IsInjective(eventCallbacks'[n][e])
               /\ ToSet(eventCallbacks'[n][e]) \subseteq ToSet(eventCallbacks[n][e])
               /\ ToSet(eventCallbacks'[n][e]) \subseteq refs'
               /\ \A i \in Identifiers :
                    /\ identifiedEventCallbacks'[n][e][i] \in {identifiedEventCallbacks[n][e][i], NoRef}
                    /\ identifiedEventCallbacks'[n][e][i] \in refs' \cup {NoRef}
    <3>1. CASE n = m
      <4>1. ToSet(<<>>) = {} /\ IsInjective(<<>>)
        BY DEF ToSet, IsInjective
      <4> QED BY <1>3, <3>1, <4>1
    <3>2. CASE n # m
      <4>1. IsInjective(eventCallbacks[n][e])
        BY <1>2 DEF RefsAreHeld
      <4> QED BY <1>3, <2>2, <2>3, <3>2, <4>1
    <3> QED BY <3>1, <3>2
  <2> QED BY <1>2, <2>4, HeldByLess
<1> QED BY <1>5, <1>6, <1>7 DEF Sound

-----------------------------------------------------------------------------
(* A vector that is erased from while it is walked *)

\* The slots stay slots.
LEMMA ErasedIsVector ==
  ASSUME NEW S, NEW slots \in Seq(S), NEW n \in Int, n <= Len(slots), NEW x
  PROVE  Erased(slots, n, x) \in Seq(S) /\ Len(Erased(slots, n, x)) = Len(slots)
BY DEF Erased

\* x was in slot p: what is behind it moves up.
LEMMA ErasedIs ==
  ASSUME NEW S, NEW slots \in Seq(S), NEW n \in 0 .. Len(slots), NEW x, NEW p \in 1 .. n,
         slots[p] = x, \A j \in 1 .. n : slots[j] = x => j = p
  PROVE  \A k \in 1 .. Len(slots) :
           Erased(slots, n, x)[k] = IF p <= k /\ k < n THEN slots[k + 1] ELSE slots[k]
<1> SUFFICES ASSUME NEW k \in 1 .. Len(slots)
             PROVE  Erased(slots, n, x)[k] = IF p <= k /\ k < n THEN slots[k + 1] ELSE slots[k]
  OBVIOUS
<1>1. Erased(slots, n, x)[k] =
        IF k < n /\ \E j \in 1 .. k : slots[j] = x THEN slots[k + 1] ELSE slots[k]
  BY DEF Erased
<1>2. k < n => ((\E j \in 1 .. k : slots[j] = x) <=> p <= k)
  OBVIOUS
<1> QED BY <1>1, <1>2

\* The first n slots hold each of X once.
Holds(slots, n, X) ==
  /\ \A j, k \in 1 .. n : slots[j] = slots[k] => j = k
  /\ \A v : v \in X <=> \E k \in 1 .. n : slots[k] = v

\* One of them is gone from the slots before the new end.
LEMMA ErasedHolds ==
  ASSUME NEW S, NEW slots \in Seq(S), NEW n \in 0 .. Len(slots), NEW X, NEW x \in X,
         Holds(slots, n, X)
  PROVE  n > 0 /\ Holds(Erased(slots, n, x), n - 1, X \ {x})
<1>1. PICK p \in 1 .. n : slots[p] = x
  BY DEF Holds
<1>2. \A j \in 1 .. n : slots[j] = x => j = p
  BY <1>1 DEF Holds
<1>3. \A k \in 1 .. n - 1 : Erased(slots, n, x)[k] = slots[IF p <= k THEN k + 1 ELSE k]
  <2>1. \A k \in 1 .. Len(slots) :
          Erased(slots, n, x)[k] = IF p <= k /\ k < n THEN slots[k + 1] ELSE slots[k]
    BY <1>1, <1>2, ErasedIs, Zenon
  <2>2. \A k \in 1 .. n - 1 : k \in 1 .. Len(slots) /\ k < n
    OBVIOUS
  <2> QED BY <2>1, <2>2
<1> DEFINE left == Erased(slots, n, x)
           from(k) == IF p <= k THEN k + 1 ELSE k
<1> HIDE DEF left
<1>4. \A k \in 1 .. n - 1 : left[k] = slots[from(k)] /\ from(k) \in 1 .. n /\ from(k) # p
  BY <1>3 DEF left
<1>5. \A j, k \in 1 .. n - 1 : from(j) = from(k) => j = k
  OBVIOUS
<1>6. \A j \in 1 .. n : j # p => \E k \in 1 .. n - 1 : from(k) = j
  <2> SUFFICES ASSUME NEW j \in 1 .. n, j # p PROVE \E k \in 1 .. n - 1 : from(k) = j
    OBVIOUS
  <2>1. CASE j < p
    <3>1. j \in 1 .. n - 1 /\ from(j) = j
      BY <2>1
    <3> QED BY <3>1
  <2>2. CASE j > p
    <3>1. j - 1 \in 1 .. n - 1 /\ from(j - 1) = j
      BY <2>2
    <3> QED BY <3>1
  <2> QED BY <2>1, <2>2
<1> HIDE DEF from
<1>7. \A j, k \in 1 .. n - 1 : left[j] = left[k] => j = k
  BY <1>4, <1>5 DEF Holds
<1>8. ASSUME NEW v PROVE v \in X \ {x} <=> \E k \in 1 .. n - 1 : left[k] = v
  <2>1. v \in X <=> \E k \in 1 .. n : slots[k] = v
    BY DEF Holds
  <2>2. (\E k \in 1 .. n - 1 : left[k] = v) => v \in X \ {x}
    BY <1>2, <1>4, <2>1
  <2>3. v \in X \ {x} => \E k \in 1 .. n - 1 : left[k] = v
    BY <1>1, <1>4, <1>6, <2>1
  <2> QED BY <2>2, <2>3
<1> QED BY <1>1, <1>7, <1>8 DEF Holds, left

\* The modules that have a callback for e when those in met have none for i.
Staying(met, e, i) ==
  {m \in Modules : ~Empty(IF m \in met THEN Without(identifiedEventCallbacks[m][e], i)
                                       ELSE identifiedEventCallbacks[m][e])}

\* What removeAllConnectionsById leaves registered for an event, after some slots.
Sweeping(acc, e, i) ==
  /\ acc.slots \in Seq(Modules) /\ Len(acc.slots) = Len(identifiedModuleEvents[e])
  /\ acc.size \in 0 .. Len(identifiedModuleEvents[e])
  /\ acc.met \in SUBSET {m \in Modules : identifiedEventCallbacks[m][e][i] # NoRef}
  /\ Holds(acc.slots, acc.size, Staying(acc.met, e, i))

Sweeps(e) == [slots : {s \in Seq(Modules) : Len(s) = Len(identifiedModuleEvents[e])},
              size  : {n \in Int : n <= Len(identifiedModuleEvents[e])},
              met   : SUBSET Modules]

\* A slot is swept to slots.
LEMMA SweptSlotTypeOK ==
  ASSUME NEW e, NEW i, NEW k \in 1 .. Len(identifiedModuleEvents[e]), NEW acc \in Sweeps(e)
  PROVE  SweptSlot(acc, k, e, i) \in Sweeps(e)
<1> DEFINE m == acc.slots[k]
           N == Len(identifiedModuleEvents[e])
<1>1. /\ acc.slots \in Seq(Modules) /\ Len(acc.slots) = N /\ acc.size \in Int /\ acc.size <= N
      /\ acc.met \in SUBSET Modules /\ acc.size - 1 \in Int /\ acc.size - 1 <= N
  BY DEF Sweeps
<1>2. m \in Modules
  BY <1>1
<1>3. Erased(acc.slots, acc.size, m) \in Seq(Modules) /\ Len(Erased(acc.slots, acc.size, m)) = N
  BY <1>1, ErasedIsVector
<1>4. acc.met \cup {m} \in SUBSET Modules
  BY <1>1, <1>2
<1> DEFINE left == Erased(acc.slots, acc.size, m)
           gone == Empty(Without(identifiedEventCallbacks[m][e], i))
           next == [slots |-> IF gone THEN left ELSE acc.slots,
                    size  |-> IF gone THEN acc.size - 1 ELSE acc.size,
                    met   |-> acc.met \cup {m}]
<1>5. SweptSlot(acc, k, e, i) = acc \/ SweptSlot(acc, k, e, i) = next
  BY DEF SweptSlot
<1>6. next \in Sweeps(e)
  <2> HIDE DEF left, m, gone
  <2> QED BY <1>1, <1>3, <1>4 DEF Sweeps, left
<1> HIDE DEF next
<1> QED BY <1>5, <1>6

\* What is to be shown of such slots.
LEMMA SweepingRecord ==
  ASSUME NEW e, NEW i, NEW slots \in Seq(Modules), Len(slots) = Len(identifiedModuleEvents[e]),
         NEW size \in 0 .. Len(identifiedModuleEvents[e]),
         NEW met \in SUBSET {m \in Modules : identifiedEventCallbacks[m][e][i] # NoRef},
         Holds(slots, size, Staying(met, e, i))
  PROVE  Sweeping([slots |-> slots, size |-> size, met |-> met], e, i)
BY DEF Sweeping

\* A slot keeps the others: a module met in a slot that moved is met again
\* in another, or not met.
LEMMA SweptSlotHolds ==
  ASSUME Sound, NEW e \in Events, NEW i \in Identifiers,
         NEW k \in 1 .. Len(identifiedModuleEvents[e]), NEW acc \in Sweeps(e), Sweeping(acc, e, i)
  PROVE  Sweeping(SweptSlot(acc, k, e, i), e, i)
<1> DEFINE m == acc.slots[k]
           N == Len(identifiedModuleEvents[e])
           map == identifiedEventCallbacks[m][e]
           X == Staying(acc.met, e, i)
           Y == Staying(acc.met \cup {m}, e, i)
           left == Erased(acc.slots, acc.size, m)
           gone == Empty(Without(map, i))
<1>1. /\ acc.slots \in Seq(Modules) /\ Len(acc.slots) = N /\ acc.size \in 0 .. N /\ N \in Nat
      /\ acc.met \in SUBSET {n \in Modules : identifiedEventCallbacks[n][e][i] # NoRef}
      /\ Holds(acc.slots, acc.size, X)
  BY DEF Sweeping, Sound, ListsTypeOK
<1>2. CASE m \in acc.met \/ map[i] = NoRef
  <2>1. SweptSlot(acc, k, e, i) = acc
    BY <1>2 DEF SweptSlot
  <2> QED BY <2>1
<1>3. CASE ~(m \in acc.met \/ map[i] = NoRef)
  <2>1. m \in Modules
    BY <1>1
  <2>2. SweptSlot(acc, k, e, i) =
          [slots |-> IF gone THEN left ELSE acc.slots,
           size  |-> IF gone THEN acc.size - 1 ELSE acc.size,
           met   |-> acc.met \cup {m}]
    BY <1>3 DEF SweptSlot
  <2>3. acc.met \cup {m} \in SUBSET {n \in Modules : identifiedEventCallbacks[n][e][i] # NoRef}
    BY <1>1, <1>3, <2>1
  <2>4. m \in X
    BY <1>3, <2>1 DEF Staying, Empty
  <2>5. left \in Seq(Modules) /\ Len(left) = N
    BY <1>1, ErasedIsVector
  <2> HIDE DEF m
  <2>6. CASE gone
    <3>1. Y = X \ {m}
      BY <2>6 DEF Staying
    <3> HIDE DEF X, Y
    <3>2. acc.size > 0 /\ Holds(left, acc.size - 1, X \ {m})
      <4>1. acc.size \in 0 .. Len(acc.slots)
        BY <1>1
      <4> QED BY <1>1, <2>4, <4>1, ErasedHolds
    <3>3. SweptSlot(acc, k, e, i) =
            [slots |-> left, size |-> acc.size - 1, met |-> acc.met \cup {m}]
      BY <2>2, <2>6
    <3>4. acc.size - 1 \in 0 .. N
      BY <1>1, <3>2
    <3>5. Holds(left, acc.size - 1, Y)
      BY <3>1, <3>2
    <3>6. Sweeping([slots |-> left, size |-> acc.size - 1, met |-> acc.met \cup {m}], e, i)
      BY <2>3, <2>5, <3>4, <3>5, SweepingRecord, Zenon DEF Y
    <3> QED BY <3>3, <3>6, Zenon
  <2>7. CASE ~gone
    <3>1. Y = X
      BY <2>4, <2>7 DEF Staying
    <3>2. SweptSlot(acc, k, e, i) =
            [slots |-> acc.slots, size |-> acc.size, met |-> acc.met \cup {m}]
      BY <2>2, <2>7
    <3>3. Holds(acc.slots, acc.size, Y)
      BY <1>1, <3>1
    <3>4. Sweeping([slots |-> acc.slots, size |-> acc.size, met |-> acc.met \cup {m}], e, i)
      BY <1>1, <2>3, <3>3, SweepingRecord, Zenon
    <3> QED BY <3>2, <3>4, Zenon
  <2> QED BY <2>6, <2>7
<1> QED BY <1>2, <1>3

\* So do all of them.
LEMMA SweptIs ==
  ASSUME Sound, NEW e \in Events, NEW i \in Identifiers
  PROVE  Sweeping(Swept(e, i), e, i)
<1> DEFINE modules == identifiedModuleEvents[e]
           N == Len(modules)
           start == [slots |-> modules, size |-> N, met |-> {}]
           Sweep(h) == h = [k \in 0 .. N |-> IF k = 0 THEN start ELSE SweptSlot(h[k - 1], k, e, i)]
           G == [k \in 1 .. N |-> [y \in Sweeps(e) |-> SweptSlot(y, k, e, i)]]
           h == CHOOSE g : Sweep(g)
<1>1. modules \in Seq(Modules) /\ N \in Nat
  BY DEF Sound, ListsTypeOK
<1>2. start \in Sweeps(e) /\ Sweeping(start, e, i)
  <2>1. start \in Sweeps(e)
    BY <1>1 DEF Sweeps
  <2>2. Holds(modules, N, {m \in Modules : ~Empty(identifiedEventCallbacks[m][e])})
    <3>1. /\ IsInjective(modules)
          /\ ToSet(modules) = {m \in Modules : ~Empty(identifiedEventCallbacks[m][e])}
      BY DEF Sound, RegistryAgrees
    <3>2. \A v : v \in ToSet(modules) <=> \E k \in 1 .. N : modules[k] = v
      BY <1>1 DEF ToSet
    <3>3. \A j, k \in 1 .. N : modules[j] = modules[k] => j = k
      BY <1>1, <3>1 DEF IsInjective
    <3> HIDE DEF modules, N
    <3> QED BY <3>1, <3>2, <3>3 DEF Holds
  <2>3. Staying({}, e, i) = {m \in Modules : ~Empty(identifiedEventCallbacks[m][e])}
    BY DEF Staying
  <2>4. Sweeping(start, e, i)
    <3>1. {} \in SUBSET {m \in Modules : identifiedEventCallbacks[m][e][i] # NoRef}
      OBVIOUS
    <3>2. N \in 0 .. N
      BY <1>1
    <3>3. Holds(modules, N, Staying({}, e, i))
      BY <2>2, <2>3
    <3> QED BY <1>1, <3>1, <3>2, <3>3, SweepingRecord, Zenon
  <2> QED BY <2>1, <2>4
<1>3. G \in [1 .. N -> [Sweeps(e) -> Sweeps(e)]]
  BY SweptSlotTypeOK
<1> HIDE DEF start
<1>4. PICK f \in Tables(N, Sweeps(e)) : Iteration(f, N, start, G)
  <2> HIDE DEF G, N
  <2> QED BY <1>1, <1>2, <1>3, Iterates
<1>5. Sweep(f)
  <2>1. f \in [0 .. N -> Sweeps(e)]
    BY <1>4 DEF Tables
  <2>2. f[0] = start
    BY <1>4 DEF Iteration
  <2>3. \A k \in 1 .. N : f[k] = SweptSlot(f[k - 1], k, e, i)
    <3> SUFFICES ASSUME NEW k \in 1 .. N PROVE f[k] = SweptSlot(f[k - 1], k, e, i)
      OBVIOUS
    <3>1. f[k] = G[k][f[k - 1]] /\ f[k - 1] \in Sweeps(e)
      <4>1. f[k] = G[k][f[k - 1]]
        BY <1>4, Zenon DEF Iteration
      <4>2. k - 1 \in 0 .. N
        BY <1>1
      <4> QED BY <2>1, <4>1, <4>2, Zenon
    <3> QED BY <3>1
  <2> DEFINE g == [k \in 0 .. N |-> IF k = 0 THEN start ELSE SweptSlot(f[k - 1], k, e, i)]
  <2>4. \A k \in 0 .. N : f[k] = g[k]
    BY <2>2, <2>3
  <2>5. f = [k \in 0 .. N |-> f[k]] /\ g = [k \in 0 .. N |-> g[k]]
    BY <2>1
  <2> HIDE DEF g
  <2>6. f = g
    BY <2>4, <2>5
  <2> QED BY <2>6 DEF g
<1>6. Sweep(h)
  <2> HIDE DEF Sweep
  <2> QED BY <1>5
<1>7. Swept(e, i) = h[N]
  BY DEF Swept, start
<1>8. h[0] = start /\ \A k \in 1 .. N : h[k] = SweptSlot(h[k - 1], k, e, i)
  <2> DEFINE next(k) == SweptSlot(h[k - 1], k, e, i)
  <2>1. h = [k \in 0 .. N |-> IF k = 0 THEN start ELSE next(k)]
    BY <1>6
  <2> HIDE DEF h, Sweep, G, next
  <2>2. h[0] = start /\ \A k \in 1 .. N : h[k] = next(k)
    BY <1>1, <2>1
  <2> QED BY <2>2 DEF next
<1> HIDE DEF h, Sweep, G
<1> DEFINE J == {k \in 0 .. N : h[k] \in Sweeps(e) /\ Sweeping(h[k], e, i)}
<1>9. 0 \in J
  BY <1>1, <1>2, <1>8
<1>10. ASSUME NEW k \in 1 .. N, k - 1 \in J PROVE k \in J
  BY <1>8, <1>10, SweptSlotTypeOK, SweptSlotHolds
<1>11. N \in J
  <2> HIDE DEF J
  <2>1. \A k \in 0 .. N : k \in J
    BY <1>1, <1>9, <1>10, UpTo
  <2> QED BY <1>1, <2>1
<1> QED BY <1>7, <1>11

\* The vector up to its end.
LEMMA HeldIs ==
  ASSUME NEW S, NEW slots \in Seq(S), NEW n \in 0 .. Len(slots), NEW X, Holds(slots, n, X)
  PROVE  /\ SubSeq(slots, 1, n) \in Seq(S) /\ IsInjective(SubSeq(slots, 1, n))
         /\ ToSet(SubSeq(slots, 1, n)) = X
<1> DEFINE s == SubSeq(slots, 1, n)
<1>1. s \in Seq(S) /\ Len(s) = n /\ DOMAIN s = 1 .. n /\ \A k \in 1 .. n : s[k] = slots[k]
  OBVIOUS
<1> HIDE DEF s
<1>2. IsInjective(s)
  BY <1>1 DEF IsInjective, Holds
<1>3. \A v : v \in ToSet(s) <=> \E k \in 1 .. n : s[k] = v
  BY <1>1 DEF ToSet
<1>4. \A v : v \in X <=> \E k \in 1 .. n : s[k] = v
  BY <1>1 DEF Holds
<1> QED BY <1>1, <1>2, <1>3, <1>4 DEF s

\* Removing an identifier's callbacks keeps the registry sound, though the vectors
\* are erased from while they are walked.
LEMMA RemoveAllConnectionsByIdSound ==
  ASSUME Sound, NEW i \in Identifiers, RemoveAllConnectionsById(i)
  PROVE  Sound'
<1> DEFINE met(e) == Swept(e, i).met
<1>1. /\ identifiedEventCallbacks' =
           [m \in Modules |-> [e \in Events |->
              IF m \in met(e) THEN Without(identifiedEventCallbacks[m][e], i)
                              ELSE identifiedEventCallbacks[m][e]]]
      /\ identifiedModuleEvents' =
           [e \in Events |-> SubSeq(Swept(e, i).slots, 1, Swept(e, i).size)]
      /\ refs' = refs \ UNION {{identifiedEventCallbacks[m][e][i] : m \in met(e)} : e \in Events}
      /\ eventCallbacks' = eventCallbacks /\ moduleEvents' = moduleEvents
  BY DEF RemoveAllConnectionsById
<1>2. ListsTypeOK /\ RegistryAgrees /\ RefsAreHeld
  BY DEF Sound
<1>3. ASSUME NEW e \in Events
      PROVE  /\ identifiedModuleEvents'[e] \in Seq(Modules)
             /\ IsInjective(identifiedModuleEvents'[e])
             /\ ToSet(identifiedModuleEvents'[e]) = Staying(met(e), e, i)
             /\ met(e) \in SUBSET {m \in Modules : identifiedEventCallbacks[m][e][i] # NoRef}
  <2> DEFINE w == Swept(e, i)
  <2>1. Sweeping(w, e, i)
    BY SweptIs
  <2>2. identifiedModuleEvents'[e] = SubSeq(w.slots, 1, w.size)
    BY <1>1
  <2> HIDE DEF w
  <2>3. /\ w.slots \in Seq(Modules) /\ w.size \in 0 .. Len(w.slots)
        /\ w.met \in SUBSET {m \in Modules : identifiedEventCallbacks[m][e][i] # NoRef}
        /\ Holds(w.slots, w.size, Staying(w.met, e, i))
    BY <2>1 DEF Sweeping
  <2>4. /\ SubSeq(w.slots, 1, w.size) \in Seq(Modules) /\ IsInjective(SubSeq(w.slots, 1, w.size))
        /\ ToSet(SubSeq(w.slots, 1, w.size)) = Staying(w.met, e, i)
    BY <2>3, HeldIs
  <2> QED BY <2>2, <2>3, <2>4 DEF w
<1> HIDE DEF met
<1>4. ASSUME NEW m \in Modules, NEW e \in Events
      PROVE  /\ identifiedEventCallbacks'[m][e] =
                  IF m \in met(e) THEN Without(identifiedEventCallbacks[m][e], i)
                                  ELSE identifiedEventCallbacks[m][e]
             /\ identifiedEventCallbacks'[m][e] \in [Identifiers -> Refs \cup {NoRef}]
             /\ \A j \in Identifiers :
                  identifiedEventCallbacks'[m][e][j] =
                    IF m \in met(e) /\ j = i THEN NoRef ELSE identifiedEventCallbacks[m][e][j]
  <2>1. identifiedEventCallbacks[m][e] \in [Identifiers -> Refs \cup {NoRef}]
    BY <1>2 DEF ListsTypeOK
  <2>2. /\ Without(identifiedEventCallbacks[m][e], i) \in [Identifiers -> Refs \cup {NoRef}]
        /\ \A j \in Identifiers :
             Without(identifiedEventCallbacks[m][e], i)[j]
               = IF j = i THEN NoRef ELSE identifiedEventCallbacks[m][e][j]
    BY <2>1, WithoutIs
  <2>3. identifiedEventCallbacks'[m][e] =
          IF m \in met(e) THEN Without(identifiedEventCallbacks[m][e], i)
                          ELSE identifiedEventCallbacks[m][e]
    BY <1>1
  <2> QED BY <2>1, <2>2, <2>3
<1>5. ListsTypeOK'
  <2>1. identifiedModuleEvents' = [e \in Events |-> identifiedModuleEvents'[e]]
    BY <1>1
  <2>2. identifiedModuleEvents' \in [Events -> Seq(Modules)]
    BY <1>3, <2>1
  <2>3. identifiedEventCallbacks'
          = [m \in Modules |-> [e \in Events |-> identifiedEventCallbacks'[m][e]]]
    BY <1>1
  <2>4. identifiedEventCallbacks' \in [Modules -> [Events -> [Identifiers -> Refs \cup {NoRef}]]]
    BY <1>4, <2>3
  <2>5. NoRef' = NoRef
    BY DEF NoRef
  <2> QED BY <1>1, <1>2, <2>2, <2>4, <2>5 DEF ListsTypeOK
<1>6. RegistryAgrees'
  <2>1. ASSUME NEW e \in Events
        PROVE  ToSet(identifiedModuleEvents'[e])
                 = {m \in Modules : ~Empty(identifiedEventCallbacks'[m][e])}
    BY <1>3, <1>4 DEF Staying
  <2>2. NoRef' = NoRef
    BY DEF NoRef
  <2> QED BY <1>1, <1>2, <1>3, <2>1, <2>2 DEF RegistryAgrees, Empty
<1>7. RefsAreHeld'
  <2>1. ASSUME NEW m \in Modules, NEW e \in Events
        PROVE  /\ IsInjective(eventCallbacks'[m][e])
               /\ ToSet(eventCallbacks'[m][e]) \subseteq ToSet(eventCallbacks[m][e])
               /\ ToSet(eventCallbacks'[m][e]) \subseteq refs'
    <3>1. IsInjective(eventCallbacks[m][e]) /\ ToSet(eventCallbacks[m][e]) \subseteq refs
      BY <1>2 DEF RefsAreHeld
    <3>2. ASSUME NEW f \in Events, NEW n \in met(f)
          PROVE  identifiedEventCallbacks[n][f][i] \notin ToSet(eventCallbacks[m][e])
      BY <1>2, <1>3 DEF RefsAreHeld
    <3> QED BY <1>1, <3>1, <3>2
  <2>2. ASSUME NEW m \in Modules, NEW e \in Events, NEW j \in Identifiers
        PROVE  /\ identifiedEventCallbacks'[m][e][j] \in {identifiedEventCallbacks[m][e][j], NoRef}
               /\ identifiedEventCallbacks'[m][e][j] \in refs' \cup {NoRef}
    <3> DEFINE r == identifiedEventCallbacks[m][e][j]
    <3>1. r \in refs \cup {NoRef}
      BY <1>2 DEF RefsAreHeld
    <3>2. CASE m \in met(e) /\ j = i
      BY <1>4, <3>2
    <3>3. CASE ~(m \in met(e) /\ j = i)
      <4>1. ASSUME NEW f \in Events, NEW n \in met(f), r # NoRef
            PROVE  identifiedEventCallbacks[n][f][i] # r
        <5>1. <<n, f, i>> # <<m, e, j>>
          BY <3>3
        <5>2. n \in Modules /\ identifiedEventCallbacks[n][f][i] # NoRef
          BY <1>3
        <5> QED BY <1>2, <5>1, <5>2 DEF RefsAreHeld
      <4>2. identifiedEventCallbacks'[m][e][j] = r
        BY <1>4, <3>3
      <4> HIDE DEF r
      <4>3. r # NoRef => r \in refs'
        BY <1>1, <3>1, <4>1
      <4> QED BY <4>2, <4>3 DEF r
    <3> QED BY <3>2, <3>3
  <2> QED BY <1>2, <2>1, <2>2, HeldByLess
<1> QED BY <1>5, <1>6, <1>7 DEF Sound

-----------------------------------------------------------------------------
(* The marks and the walk *)

MarksTypeOK ==
  /\ onceConnects \in [Modules -> Seq(Refs)]
  /\ identifiedOnceConnects \in [Modules -> [Events -> Seq(Identifiers)]]

Walk == [event : Events, identifier : Identifiers \cup {NoRef}, modules : Seq(Modules), m : Nat,
         callbacks : Seq(Refs), c : Nat, last : Refs \cup {NoRef}, calls : Seq(Refs),
         due : SUBSET Refs, erased : BOOLEAN]

\* A walk is a place in the slots it began with.
WalkTypeOK ==
  walk = NoWalk \/ /\ walk \in Walk
                   /\ walk.m <= Len(walk.modules) /\ walk.c <= Len(walk.callbacks)

\* A vector has lost as many elements at most as slots of it were passed, and
\* while slots of callbacks are left their references are in use.
PlainInv ==
  Plain =>
    LET left == Len(walk.modules) - walk.m
        due  == Len(walk.callbacks) - walk.c
    IN /\ Len(moduleEvents[walk.event]) \in left .. Len(walk.modules)
       /\ due > 0 => /\ walk.m > 0 /\ Len(moduleEvents[walk.event]) > left
                     /\ Len(eventCallbacks[walk.modules[walk.m]][walk.event])
                          \in due .. Len(walk.callbacks)
                     /\ ToSet(walk.callbacks) \subseteq refs

IdentifiedInv ==
  Identified =>
    Len(identifiedModuleEvents[walk.event])
      \in Len(walk.modules) - walk.m .. Len(walk.modules)

\* What a module whose slot was passed has had called, if nothing was erased.
Passed(e) == UNION {ToSet(eventCallbacks[walk.modules[k]][e]) : k \in 1 .. walk.m - 1}

\* While nothing was erased, the calls are what the slots before the walk's place
\* say.
PlainComplete ==
  Plain /\ ~walk.erased =>
    /\ walk.modules = moduleEvents[walk.event] /\ walk.due = Due(walk.event)
    /\ walk.callbacks = IF walk.m = 0 THEN <<>>
                        ELSE eventCallbacks[walk.modules[walk.m]][walk.event]
    /\ IsInjective(walk.calls)
    /\ ToSet(walk.calls) = Passed(walk.event) \cup {walk.callbacks[k] : k \in 1 .. walk.c}

IdentifiedComplete ==
  Identified /\ ~walk.erased =>
    /\ walk.modules = identifiedModuleEvents[walk.event]
    /\ walk.due = DueIdentified(walk.event, walk.identifier)
    /\ walk.last \in ToSet(walk.calls) \cup {NoRef}
    /\ ToSet(walk.calls) = {identifiedEventCallbacks[walk.modules[k]][walk.event][walk.identifier] :
                              k \in 1 .. walk.m} \ {NoRef}

\* The callback in a slot of an identified emission.
Answer(k) == identifiedEventCallbacks[walk.modules[k]][walk.event][walk.identifier]

\* A callback can be in several of the slots that are left, where the vector's end
\* has moved up over a module; but then in all between; and one that was called can
\* only be the last, in the next slots.
CallsOnce ==
  Identified =>
    LET ahead == walk.m + 1 .. Len(walk.modules)
    IN /\ IsInjective(walk.calls)
       /\ \A k \in ahead : Answer(k) \in ToSet(walk.calls) =>
            \A j \in walk.m + 1 .. k : Answer(j) = walk.last
       /\ \A j, l \in ahead : Answer(j) # NoRef /\ Answer(j) = Answer(l) =>
            \A k \in j .. l : Answer(k) = Answer(l)

WalkInv == /\ WalkTypeOK /\ PlainInv /\ IdentifiedInv
           /\ PlainComplete /\ IdentifiedComplete /\ CallsOnce

EventsInv == Sound /\ MarksTypeOK /\ WalkInv

\* A sequence without the first of some elements.
LEMMA RemoveFirstIs ==
  ASSUME NEW S, NEW s \in Seq(S), NEW v
  PROVE  RemoveFirst(s, v) \in Seq(S)
<1> DEFINE I == {k \in 1 .. Len(s) : s[k] = v}
<1>1. CASE ~\E k \in 1 .. Len(s) : s[k] = v
  BY <1>1 DEF RemoveFirst
<1>2. CASE \E k \in 1 .. Len(s) : s[k] = v
  <2>1. I # {} /\ I \in SUBSET Nat
    BY <1>2
  <2> DEFINE R == OpToRel(<, Nat)
  <2>2. PICK k \in I : \A j \in I : <<j, k>> \notin R
    <3>1. IsWellFoundedOn(R, Nat)
      BY NatLessThanWellFounded
    <3> HIDE DEF I, R
    <3> QED BY <2>1, <3>1, WFMin
  <2>3. \A j \in I : k <= j
    <3> HIDE DEF I
    <3>1. k \in Nat /\ \A j \in I : j \in Nat
      BY <2>1
    <3>2. \A j \in I : ~(j < k)
      BY <2>2, <3>1 DEF OpToRel
    <3> QED BY <3>1, <3>2
  <2>4. Min(I) \in I
    BY <2>3 DEF Min
  <2>5. RemoveFirst(s, v) = SubSeq(s, 1, Min(I) - 1) \o SubSeq(s, Min(I) + 1, Len(s))
    BY <1>2, <2>1 DEF RemoveFirst, RemoveAt, SelectInSeq
  <2>6. Min(I) \in 1 .. Len(s)
    BY <2>4
  <2> HIDE DEF I
  <2>7. \A p \in 1 .. Len(s) : /\ SubSeq(s, 1, p - 1) \in Seq(S)
                               /\ SubSeq(s, p + 1, Len(s)) \in Seq(S)
    OBVIOUS
  <2>8. SubSeq(s, 1, Min(I) - 1) \in Seq(S) /\ SubSeq(s, Min(I) + 1, Len(s)) \in Seq(S)
    BY <2>6, <2>7
  <2> QED BY <2>5, <2>8
<1> QED BY <1>1, <1>2

\* What the walk reads afterwards is what was in the slots.
LEMMA ErasedReads ==
  ASSUME NEW S, NEW slots \in Seq(S), NEW n \in Int, n <= Len(slots), NEW x
  PROVE  ToSet(Erased(slots, n, x)) \subseteq ToSet(slots)
<1>1. DOMAIN slots = 1 .. Len(slots)
  OBVIOUS
<1>2. \A k \in 1 .. Len(slots) : Erased(slots, n, x)[k] \in ToSet(slots)
  BY <1>1 DEF Erased, ToSet
<1>3. DOMAIN Erased(slots, n, x) = 1 .. Len(slots)
  BY <1>1 DEF Erased
<1> QED BY <1>2, <1>3 DEF ToSet

\* The registry is sound whatever else changes.
LEMMA UnchangedSound ==
  ASSUME Sound, UNCHANGED <<eventCallbacks, identifiedEventCallbacks, registry, refs>>
  PROVE  Sound'
<1>1. ListsTypeOK'
  BY DEF Sound, ListsTypeOK, registry
<1>2. RegistryAgrees'
  BY DEF Sound, RegistryAgrees, registry, Empty
<1>3. RefsAreHeld'
  BY DEF Sound, RefsAreHeld, registry
<1> QED BY <1>1, <1>2, <1>3 DEF Sound

\* Without an emission nothing is read.
LEMMA NotWalking ==
  ASSUME walk' = NoWalk
  PROVE  WalkInv'
<1>1. NoWalk' = NoWalk
  BY DEF NoWalk
<1>2. ~Plain' /\ ~Identified'
  BY <1>1 DEF Plain, Identified
<1> QED BY <1>1, <1>2 DEF WalkInv, WalkTypeOK, PlainInv, IdentifiedInv, PlainComplete,
                         IdentifiedComplete, CallsOnce

\* An emission begins in the vector as it is.
LEMMA EmitPlainWalks ==
  ASSUME EventsInv, NEW e \in Events, EmitPlain(e)
  PROVE  WalkInv'
<1>1. /\ walk' = [event |-> e, identifier |-> NoRef, modules |-> moduleEvents[e], m |-> 0,
                  callbacks |-> <<>>, c |-> 0, last |-> NoRef, calls |-> <<>>, due |-> Due(e),
                  erased |-> FALSE]
      /\ eventCallbacks' = eventCallbacks /\ moduleEvents' = moduleEvents
  BY DEF EmitPlain, modulesVars, registry
<1>4. /\ walk'.event = e /\ walk'.identifier = NoRef /\ walk'.modules = moduleEvents[e]
      /\ walk'.m = 0 /\ walk'.callbacks = <<>> /\ walk'.c = 0 /\ walk'.calls = <<>>
      /\ walk'.due = Due(e)
  BY <1>1
<1>5. moduleEvents[e] \in Seq(Modules) /\ Len(moduleEvents[e]) \in Nat
  BY DEF EventsInv, Sound, ListsTypeOK
<1>6. Due(e) \in SUBSET Refs
  <2>1. \A m \in Modules : eventCallbacks[m][e] \in Seq(Refs)
    BY DEF EventsInv, Sound, ListsTypeOK
  <2>2. \A m \in Modules : ToSet(eventCallbacks[m][e]) \in SUBSET Refs
    BY <2>1, NoElements
  <2> QED BY <2>2 DEF Due
<1>7. NoRef' = NoRef /\ ToSet(<<>>) = {} /\ IsInjective(<<>>)
  BY DEF NoRef, ToSet, IsInjective
<1>8. WalkTypeOK'
  <2>1. walk' \in Walk
    BY <1>1, <1>5, <1>6 DEF Walk
  <2>2. Walk' = Walk
    BY <1>7 DEF Walk
  <2> QED BY <1>4, <1>5, <2>1, <2>2 DEF WalkTypeOK
<1>9. ~Identified'
  BY <1>4, <1>7 DEF Identified
<1>10. PlainInv'
  BY <1>1, <1>4, <1>5 DEF PlainInv
<1>11. PlainComplete'
  <2>1. Passed(e)' = {}
    BY <1>4 DEF Passed
  <2>2. Due(e)' = Due(e)
    BY <1>1 DEF Due
  <2>3. {walk'.callbacks[k] : k \in 1 .. walk'.c} = {}
    BY <1>4
  <2> QED BY <1>1, <1>4, <1>7, <2>1, <2>2, <2>3 DEF PlainComplete
<1> QED BY <1>8, <1>9, <1>10, <1>11 DEF WalkInv, IdentifiedInv, IdentifiedComplete, CallsOnce

\* So does one with an identifier.
LEMMA EmitIdentifiedWalks ==
  ASSUME EventsInv, NEW e \in Events, NEW i \in Identifiers, EmitIdentified(e, i)
  PROVE  WalkInv'
<1>1. /\ walk' = [event |-> e, identifier |-> i, modules |-> identifiedModuleEvents[e], m |-> 0,
                  callbacks |-> <<>>, c |-> 0, last |-> NoRef, calls |-> <<>>,
                  due |-> DueIdentified(e, i), erased |-> FALSE]
      /\ identifiedEventCallbacks' = identifiedEventCallbacks
      /\ identifiedModuleEvents' = identifiedModuleEvents
  BY DEF EmitIdentified, modulesVars, registry
<1>4. /\ walk'.event = e /\ walk'.identifier = i /\ walk'.modules = identifiedModuleEvents[e]
      /\ walk'.m = 0 /\ walk'.callbacks = <<>> /\ walk'.c = 0 /\ walk'.calls = <<>>
      /\ walk'.due = DueIdentified(e, i) /\ walk'.last = NoRef
  BY <1>1
<1>5. identifiedModuleEvents[e] \in Seq(Modules) /\ Len(identifiedModuleEvents[e]) \in Nat
  BY DEF EventsInv, Sound, ListsTypeOK
<1>6. DueIdentified(e, i) \in SUBSET Refs
  BY DEF EventsInv, Sound, ListsTypeOK, DueIdentified
<1>7. NoRef' = NoRef /\ ToSet(<<>>) = {} /\ IsInjective(<<>>)
  BY DEF NoRef, ToSet, IsInjective
<1>8. WalkTypeOK'
  <2>1. walk' \in Walk
    BY <1>1, <1>5, <1>6 DEF Walk
  <2>2. Walk' = Walk
    BY <1>7 DEF Walk
  <2> QED BY <1>4, <1>5, <2>1, <2>2 DEF WalkTypeOK
<1>9. ~Plain'
  BY <1>4, <1>7, ModuleEventsAssumption DEF Plain, ModuleEventsAssumption
<1>10. IdentifiedInv'
  BY <1>1, <1>4, <1>5 DEF IdentifiedInv
<1>11. IdentifiedComplete'
  <2>1. DueIdentified(e, i)' = DueIdentified(e, i)
    BY <1>1, <1>7 DEF DueIdentified
  <2>2. {identifiedEventCallbacks'[walk'.modules[k]][walk'.event][walk'.identifier] :
           k \in 1 .. walk'.m} \ {NoRef} = {}
    BY <1>4
  <2> QED BY <1>1, <1>4, <1>7, <2>1, <2>2 DEF IdentifiedComplete
<1>12. CallsOnce'
  <2>1. IsInjective(identifiedModuleEvents[e])
    BY DEF EventsInv, Sound, RegistryAgrees
  <2>2. DOMAIN identifiedModuleEvents[e] = 1 .. Len(identifiedModuleEvents[e])
    BY <1>5
  <2> DEFINE n == Len(identifiedModuleEvents[e])
             of(k) == identifiedEventCallbacks[identifiedModuleEvents[e][k]][e][i]
  <2>3. \A k \in 1 .. n : Answer(k)' = of(k)
    BY <1>1, <1>4 DEF Answer
  <2>4. ASSUME NEW j \in 1 .. n, NEW l \in 1 .. n, of(j) # NoRef, of(j) = of(l) PROVE j = l
    <3> DEFINE a == identifiedModuleEvents[e][j]
               b == identifiedModuleEvents[e][l]
    <3>1. a \in Modules /\ b \in Modules
      BY <1>5
    <3>2. <<a, e, i>> = <<b, e, i>>
      BY <2>4, <3>1 DEF EventsInv, Sound, RefsAreHeld
    <3> QED BY <2>1, <2>2, <3>2 DEF IsInjective
  <2> HIDE DEF of
  <2>5. \A j, l \in 1 .. n : of(j) # NoRef /\ of(j) = of(l) => \A k \in j .. l : of(k) = of(l)
    <3> SUFFICES ASSUME NEW j \in 1 .. n, NEW l \in 1 .. n, of(j) # NoRef, of(j) = of(l),
                        NEW k \in j .. l
                 PROVE  of(k) = of(l)
      OBVIOUS
    <3>1. k = l
      BY <2>4
    <3> QED BY <3>1
  <2>6. walk'.m + 1 .. Len(walk'.modules) = 1 .. n
    BY <1>4
  <2> HIDE DEF n
  <2>7. \A j, l \in 1 .. n : \A k \in j .. l : k \in 1 .. n
    BY <1>5 DEF n
  <2>8. ToSet(walk'.calls) = {} /\ IsInjective(walk'.calls)
    BY <1>4, <1>7
  <2>9. \A k \in walk'.m + 1 .. Len(walk'.modules) : Answer(k)' \in ToSet(walk'.calls) =>
          \A j \in walk'.m + 1 .. k : Answer(j)' = walk'.last
    BY <2>8
  <2>10. ASSUME NEW j \in walk'.m + 1 .. Len(walk'.modules), NEW l \in walk'.m + 1 .. Len(walk'.modules),
               Answer(j)' # NoRef', Answer(j)' = Answer(l)', NEW k \in j .. l
        PROVE  Answer(k)' = Answer(l)'
    <3>1. j \in 1 .. n /\ l \in 1 .. n /\ k \in 1 .. n
      BY <2>6, <2>7
    <3> QED BY <1>7, <2>3, <2>5, <2>10, <3>1
  <2>11. IsInjective(walk'.calls)
    BY <2>8
  <2> QED BY <2>9, <2>10, <2>11 DEF CallsOnce
<1> QED BY <1>8, <1>9, <1>10, <1>11, <1>12 DEF WalkInv, PlainInv, PlainComplete

\* The fields of a walk under way.
LEMMA WalkFields ==
  ASSUME EventsInv, Plain \/ Identified
  PROVE  /\ walk \in Walk /\ walk.event \in Events /\ walk.identifier \in Identifiers \cup {NoRef}
         /\ walk.modules \in Seq(Modules) /\ Len(walk.modules) \in Nat
         /\ walk.m \in Nat /\ walk.m <= Len(walk.modules)
         /\ walk.callbacks \in Seq(Refs) /\ Len(walk.callbacks) \in Nat
         /\ walk.c \in Nat /\ walk.c <= Len(walk.callbacks)
         /\ walk.last \in Refs \cup {NoRef} /\ walk.calls \in Seq(Refs)
         /\ walk.due \in SUBSET Refs /\ walk.erased \in BOOLEAN
         /\ DOMAIN walk.modules = 1 .. Len(walk.modules)
         /\ DOMAIN walk.callbacks = 1 .. Len(walk.callbacks)
<1>1. walk \in Walk /\ walk.m <= Len(walk.modules) /\ walk.c <= Len(walk.callbacks)
  BY DEF EventsInv, WalkInv, WalkTypeOK, Plain, Identified
<1> QED BY <1>1 DEF Walk

\* A walk that stays a walk.
LEMMA WalkTyped ==
  ASSUME walk' \in Walk, walk'.m <= Len(walk'.modules), walk'.c <= Len(walk'.callbacks)
  PROVE  WalkTypeOK'
<1>1. Walk' = Walk
  BY DEF Walk, NoRef
<1> QED BY <1>1 DEF WalkTypeOK

\* The walk, somewhere else.
WalkAt(modules, m, callbacks, c, last, calls, erased) ==
  [event |-> walk.event, identifier |-> walk.identifier, modules |-> modules, m |-> m,
   callbacks |-> callbacks, c |-> c, last |-> last, calls |-> calls,
   due |-> walk.due, erased |-> erased]

\* Its fields.
LEMMA WalkMoves ==
  ASSUME walk \in Walk, NEW modules \in Seq(Modules), NEW m \in Nat, NEW callbacks \in Seq(Refs),
         NEW c \in Nat, NEW last \in Refs \cup {NoRef}, NEW calls \in Seq(Refs),
         NEW erased, erased \in {walk.erased, TRUE}, walk' = WalkAt(modules, m, callbacks, c, last, calls, erased)
  PROVE  /\ walk' \in Walk
         /\ walk'.event = walk.event /\ walk'.identifier = walk.identifier
         /\ walk'.modules = modules /\ walk'.m = m /\ walk'.callbacks = callbacks /\ walk'.c = c
         /\ walk'.last = last /\ walk'.calls = calls
         /\ walk'.due = walk.due /\ walk'.erased = erased
<1>1. /\ walk.event \in Events /\ walk.identifier \in Identifiers \cup {NoRef}
      /\ walk.due \in SUBSET Refs /\ walk.erased \in BOOLEAN
  BY DEF Walk
<1> QED BY <1>1 DEF Walk, WalkAt

\* The next module's callbacks are the ones it has now.
LEMMA NextModuleWalks ==
  ASSUME EventsInv, NextModule
  PROVE  WalkInv'
<1> DEFINE e == walk.event
           n == walk.modules[walk.m + 1]
           L == eventCallbacks[n][e]
<1>1. /\ Plain /\ walk.c = Len(walk.callbacks) /\ walk.m < Len(walk.modules)
      /\ walk' = [walk EXCEPT !.m = @ + 1, !.c = 0, !.callbacks = L]
      /\ eventCallbacks' = eventCallbacks /\ moduleEvents' = moduleEvents /\ refs' = refs
  BY DEF NextModule, modulesVars, registry
<1>2. /\ walk \in Walk /\ walk.event \in Events /\ walk.identifier \in Identifiers \cup {NoRef}
      /\ walk.modules \in Seq(Modules) /\ Len(walk.modules) \in Nat
      /\ walk.m \in Nat /\ walk.m <= Len(walk.modules)
      /\ walk.callbacks \in Seq(Refs) /\ Len(walk.callbacks) \in Nat
      /\ walk.c \in Nat /\ walk.c <= Len(walk.callbacks)
      /\ DOMAIN walk.callbacks = 1 .. Len(walk.callbacks)
  BY <1>1, WalkFields
<1>3. n \in Modules
  BY <1>1, <1>2
<1>4. L \in Seq(Refs) /\ Len(L) \in Nat /\ IsInjective(L) /\ ToSet(L) \subseteq refs
  BY <1>2, <1>3 DEF EventsInv, Sound, ListsTypeOK, RefsAreHeld
<1> HIDE DEF n, L
<1>5. /\ walk'.event = e /\ walk'.identifier = walk.identifier /\ walk'.modules = walk.modules
      /\ walk'.m = walk.m + 1 /\ walk'.c = 0 /\ walk'.callbacks = L
      /\ walk'.calls = walk.calls /\ walk'.due = walk.due /\ walk'.erased = walk.erased
      /\ walk' \in Walk
  <2>1. walk' = WalkAt(walk.modules, walk.m + 1, L, 0, walk.last, walk.calls, walk.erased)
    BY <1>1, <1>2 DEF Walk, WalkAt
  <2>2. walk.m + 1 \in Nat /\ 0 \in Nat /\ walk.last \in Refs \cup {NoRef} /\ walk.calls \in Seq(Refs)
    BY <1>2 DEF Walk
  <2>3. /\ walk \in Walk /\ walk.modules \in Seq(Modules) /\ walk.m + 1 \in Nat /\ L \in Seq(Refs)
        /\ 0 \in Nat /\ walk.last \in Refs \cup {NoRef} /\ walk.calls \in Seq(Refs)
        /\ walk.erased \in {walk.erased, TRUE}
    BY <1>2, <1>4, <2>2
  <2>4. /\ walk' \in Walk
        /\ walk'.event = walk.event /\ walk'.identifier = walk.identifier
        /\ walk'.modules = walk.modules /\ walk'.m = walk.m + 1 /\ walk'.callbacks = L /\ walk'.c = 0
        /\ walk'.last = walk.last /\ walk'.calls = walk.calls
        /\ walk'.due = walk.due /\ walk'.erased = walk.erased
    BY <2>1, <2>3, WalkMoves, Zenon
  <2> QED BY <2>4
<1>6. WalkTypeOK'
  BY <1>1, <1>2, <1>4, <1>5, WalkTyped
<1>7. ~Identified' /\ NoRef' = NoRef
  BY <1>1, <1>5 DEF Plain, Identified, NoRef
<1>8. PlainInv'
  <2>1. Len(moduleEvents[e]) \in Len(walk.modules) - walk.m .. Len(walk.modules)
    BY <1>1 DEF EventsInv, WalkInv, PlainInv
  <2>2. eventCallbacks'[walk'.modules[walk'.m]][walk'.event] = L
    BY <1>1, <1>5 DEF L, n
  <2>3. /\ Len(L) \in Len(L) - 0 .. Len(L)
        /\ Len(moduleEvents[e]) \in Len(walk.modules) - (walk.m + 1) .. Len(walk.modules)
        /\ Len(moduleEvents[e]) > Len(walk.modules) - (walk.m + 1) /\ walk.m + 1 > 0
    BY <1>1, <1>2, <1>4, <2>1
  <2> QED BY <1>1, <1>4, <1>5, <2>2, <2>3 DEF PlainInv
<1>9. ASSUME ~walk'.erased PROVE PlainComplete'
  <2>1. /\ walk.modules = moduleEvents[e] /\ walk.due = Due(e)
        /\ walk.callbacks = IF walk.m = 0 THEN <<>> ELSE eventCallbacks[walk.modules[walk.m]][e]
        /\ IsInjective(walk.calls)
        /\ ToSet(walk.calls) = Passed(e) \cup {walk.callbacks[k] : k \in 1 .. walk.c}
    BY <1>1, <1>5, <1>9 DEF EventsInv, WalkInv, PlainComplete
  <2>2. Due(e)' = Due(e)
    BY <1>1 DEF Due
  <2>3. Passed(e)' = Passed(e) \cup {walk.callbacks[k] : k \in 1 .. walk.c}
    <3> DEFINE of(k) == ToSet(eventCallbacks[walk.modules[k]][e])
    <3>1. Passed(e) = UNION {of(k) : k \in 1 .. walk.m - 1}
      BY DEF Passed
    <3>2. Passed(e)' = UNION {of(k) : k \in 1 .. walk.m}
      <4>1. walk'.m - 1 = walk.m
        BY <1>2, <1>5
      <4> QED BY <1>1, <1>5, <4>1 DEF Passed
    <3>3. {walk.callbacks[k] : k \in 1 .. walk.c} = IF walk.m = 0 THEN {} ELSE of(walk.m)
      <4>1. CASE walk.m = 0
        <5>1. walk.c = 0
          BY <1>1, <2>1, <4>1
        <5> QED BY <4>1, <5>1
      <4>2. CASE walk.m # 0
        BY <1>1, <1>2, <2>1, <4>2 DEF ToSet
      <4> QED BY <4>1, <4>2
    <3> HIDE DEF of
    <3>4. CASE walk.m = 0
      BY <3>1, <3>2, <3>3, <3>4
    <3>5. CASE walk.m # 0
      <4>1. 1 .. walk.m = (1 .. walk.m - 1) \cup {walk.m}
        BY <1>2, <3>5
      <4> QED BY <3>1, <3>2, <3>3, <3>5, <4>1
    <3> QED BY <3>4, <3>5
  <2>4. {walk'.callbacks[k] : k \in 1 .. walk'.c} = {}
    BY <1>5
  <2>5. walk'.callbacks = IF walk'.m = 0 THEN <<>>
                          ELSE eventCallbacks'[walk'.modules[walk'.m]][walk'.event]
    BY <1>1, <1>2, <1>5 DEF L, n
  <2> QED BY <1>1, <1>5, <2>1, <2>2, <2>3, <2>4, <2>5 DEF PlainComplete
<1>10. PlainComplete'
  BY <1>9 DEF PlainComplete
<1> QED BY <1>6, <1>7, <1>8, <1>10 DEF WalkInv, IdentifiedInv, IdentifiedComplete, CallsOnce

\* The module whose callbacks are walked, and the one that is called.
LEMMA CallNextAt ==
  ASSUME EventsInv, CallNext
  PROVE  /\ Plain /\ walk.c < Len(walk.callbacks) /\ walk.m > 0 /\ walk.m \in 1 .. Len(walk.modules)
         /\ walk.modules[walk.m] \in Modules /\ walk.callbacks[walk.c + 1] \in Refs
<1>1. Plain /\ walk.c < Len(walk.callbacks)
  BY DEF CallNext
<1>2. /\ walk.modules \in Seq(Modules) /\ Len(walk.modules) \in Nat
      /\ walk.m \in Nat /\ walk.m <= Len(walk.modules)
      /\ walk.callbacks \in Seq(Refs) /\ Len(walk.callbacks) \in Nat /\ walk.c \in Nat
  BY <1>1, WalkFields
<1>3. walk.m > 0
  BY <1>1, <1>2 DEF EventsInv, WalkInv, PlainInv
<1>4. walk.m \in 1 .. Len(walk.modules) /\ walk.c + 1 \in 1 .. Len(walk.callbacks)
  BY <1>1, <1>2, <1>3
<1> QED BY <1>1, <1>2, <1>3, <1>4

\* A call keeps the registry sound and the marks typed.
LEMMA CallNextSound ==
  ASSUME EventsInv, CallNext
  PROVE  Sound' /\ MarksTypeOK'
<1> DEFINE m == walk.modules[walk.m]
           e == walk.event
           r == walk.callbacks[walk.c + 1]
<1>1. Plain /\ m \in Modules /\ r \in Refs /\ e \in Events
  BY CallNextAt, WalkFields
<1>2. \/ UNCHANGED <<modulesVars, registry, refs>>
      \/ /\ onceConnects' = [onceConnects EXCEPT ![m] = RemoveFirst(@, r)]
         /\ Disconnect(m, e, r)
         /\ UNCHANGED <<identifiedEventCallbacks, identifiedOnceConnects, identifiedModuleEvents>>
  BY DEF CallNext
<1> HIDE DEF m, e, r
<1>3. Sound /\ MarksTypeOK
  BY DEF EventsInv
<1>4. CASE UNCHANGED <<modulesVars, registry, refs>>
  <2>1. Sound'
    BY <1>3, <1>4, UnchangedSound DEF modulesVars
  <2> QED BY <1>3, <1>4, <2>1 DEF MarksTypeOK, modulesVars
<1>5. CASE /\ onceConnects' = [onceConnects EXCEPT ![m] = RemoveFirst(@, r)]
           /\ Disconnect(m, e, r)
           /\ UNCHANGED <<identifiedEventCallbacks, identifiedOnceConnects, identifiedModuleEvents>>
  <2>1. Sound'
    BY <1>1, <1>3, <1>5, DisconnectSound
  <2>2. RemoveFirst(onceConnects[m], r) \in Seq(Refs)
    BY <1>1, <1>3, RemoveFirstIs DEF MarksTypeOK
  <2> QED BY <1>1, <1>3, <1>5, <2>1, <2>2 DEF MarksTypeOK
<1> QED BY <1>2, <1>4, <1>5

\* The callback that is called stays, or is erased from the slots it was in.
LEMMA CallNextWalks ==
  ASSUME EventsInv, CallNext
  PROVE  WalkInv'
<1> DEFINE m == walk.modules[walk.m]
           e == walk.event
           r == walk.callbacks[walk.c + 1]
           L == eventCallbacks[m][e]
           called == [walk EXCEPT !.c = @ + 1, !.calls = Append(@, r)]
           slots == Erased(walk.callbacks, Len(L), r)
           modules == IF moduleEvents'[e] = moduleEvents[e] THEN walk.modules
                      ELSE Erased(walk.modules, Len(moduleEvents[e]), m)
<1>1. Plain /\ walk.c < Len(walk.callbacks) /\ walk.m \in 1 .. Len(walk.modules)
      /\ m \in Modules /\ r \in Refs /\ e \in Events
  BY CallNextAt, WalkFields
<1>2. /\ walk \in Walk /\ walk.modules \in Seq(Modules) /\ Len(walk.modules) \in Nat
      /\ walk.m \in Nat /\ walk.m <= Len(walk.modules)
      /\ walk.callbacks \in Seq(Refs) /\ Len(walk.callbacks) \in Nat
      /\ walk.c \in Nat /\ walk.c <= Len(walk.callbacks)
      /\ walk.last \in Refs \cup {NoRef} /\ walk.calls \in Seq(Refs)
      /\ DOMAIN walk.callbacks = 1 .. Len(walk.callbacks)
      /\ DOMAIN walk.modules = 1 .. Len(walk.modules)
  BY <1>1, WalkFields
<1>3. /\ L \in Seq(Refs) /\ Len(L) \in Nat /\ IsInjective(L) /\ moduleEvents[e] \in Seq(Modules)
      /\ Len(moduleEvents[e]) \in Nat /\ IsInjective(moduleEvents[e])
  BY <1>1 DEF EventsInv, Sound, ListsTypeOK, RefsAreHeld, RegistryAgrees
<1>4. /\ Len(moduleEvents[e]) \in Len(walk.modules) - walk.m .. Len(walk.modules)
      /\ Len(moduleEvents[e]) > Len(walk.modules) - walk.m
      /\ Len(L) \in Len(walk.callbacks) - walk.c .. Len(walk.callbacks)
      /\ ToSet(walk.callbacks) \subseteq refs
  BY <1>1, <1>2 DEF EventsInv, WalkInv, PlainInv
<1>5. walk.c + 1 \in Nat /\ Append(walk.calls, r) \in Seq(Refs)
  BY <1>1, <1>2
<1>6. NoRef' = NoRef
  BY DEF NoRef
<1>7. \/ /\ ~Contains(onceConnects[m], r)
         /\ walk' = called /\ UNCHANGED <<modulesVars, registry, refs>>
      \/ /\ Contains(onceConnects[m], r)
         /\ Disconnect(m, e, r)
         /\ walk' = [called EXCEPT !.erased = TRUE, !.callbacks = slots, !.modules = modules]
  <2>1. \/ /\ ~Contains(onceConnects[m], r)
           /\ walk' = called /\ UNCHANGED <<modulesVars, registry, refs>>
        \/ /\ Contains(onceConnects[m], r)
           /\ Disconnect(m, e, r)
           /\ walk' = [called EXCEPT
                  !.erased = TRUE,
                  !.callbacks = Erased(@, Len(eventCallbacks[m][e]), r),
                  !.modules = IF moduleEvents'[e] = moduleEvents[e] THEN @
                              ELSE Erased(@, Len(moduleEvents[e]), m)]
    BY DEF CallNext
  <2>2. called.callbacks = walk.callbacks /\ called.modules = walk.modules
    BY <1>2 DEF Walk
  <2> HIDE DEF called
  <2> QED BY <2>1, <2>2
<1> HIDE DEF called, slots, modules
<1>8. CASE /\ ~Contains(onceConnects[m], r)
           /\ walk' = called /\ UNCHANGED <<modulesVars, registry, refs>>
  <2>1. /\ walk' \in Walk
        /\ walk'.event = walk.event /\ walk'.identifier = walk.identifier
        /\ walk'.modules = walk.modules /\ walk'.m = walk.m
           /\ walk'.callbacks = walk.callbacks /\ walk'.c = walk.c + 1
        /\ walk'.last = walk.last /\ walk'.calls = Append(walk.calls, r)
        /\ walk'.due = walk.due /\ walk'.erased = walk.erased
    <3>1. walk' = WalkAt(walk.modules, walk.m, walk.callbacks, walk.c + 1, walk.last,
                         Append(walk.calls, r), walk.erased)
      BY <1>2, <1>8 DEF Walk, WalkAt, called
    <3>2. /\ walk \in Walk /\ walk.modules \in Seq(Modules) /\ walk.m \in Nat
          /\ walk.callbacks \in Seq(Refs) /\ walk.c + 1 \in Nat
          /\ walk.last \in Refs \cup {NoRef} /\ Append(walk.calls, r) \in Seq(Refs)
          /\ walk.erased \in {walk.erased, TRUE}
      BY <1>2, <1>5
    <3> HIDE DEF r
    <3> QED BY <3>1, <3>2, WalkMoves, Zenon
  <2>2. eventCallbacks' = eventCallbacks /\ moduleEvents' = moduleEvents /\ refs' = refs
    BY <1>8 DEF modulesVars, registry
  <2>3. WalkTypeOK'
    BY <1>1, <1>2, <2>1, WalkTyped
  <2>4. ~Identified'
    BY <1>1, <1>6, <2>1 DEF Plain, Identified
  <2>0. eventCallbacks'[walk'.modules[walk'.m]][walk'.event] = L
    BY <2>1, <2>2
  <2>5. PlainInv'
    <3> HIDE DEF L, e, m, r
    <3> QED BY <1>1, <1>2, <1>3, <1>4, <2>0, <2>1, <2>2 DEF PlainInv, e
  <2>6. ASSUME ~walk'.erased PROVE PlainComplete'
    <3>1. /\ walk.modules = moduleEvents[e] /\ walk.due = Due(e)
          /\ walk.callbacks = L
          /\ IsInjective(walk.calls)
          /\ ToSet(walk.calls) = Passed(e) \cup {walk.callbacks[k] : k \in 1 .. walk.c}
      <4>1. walk.m # 0 /\ PlainComplete /\ Plain /\ ~walk.erased
        BY <1>1, <2>1, <2>6 DEF EventsInv, WalkInv
      <4> QED BY <4>1 DEF PlainComplete
    <3>2. Due(e)' = Due(e)
      BY <2>1, <2>2 DEF Due
    <3>3. Passed(e)' = Passed(e)
      BY <2>1, <2>2 DEF Passed
    <3>4. r \notin Passed(e)
      <4>1. r \in ToSet(L)
        <5>1. walk.c + 1 \in DOMAIN walk.callbacks
          BY <1>1, <1>2
        <5>2. r \in ToSet(walk.callbacks)
          BY <5>1 DEF ToSet
        <5> QED BY <3>1, <5>2
      <4>2. ASSUME NEW k \in 1 .. walk.m - 1
            PROVE  r \notin ToSet(eventCallbacks[walk.modules[k]][e])
        <5>1. k \in 1 .. Len(walk.modules) /\ k # walk.m
          BY <1>1, <1>2
        <5>2. walk.modules[k] # m /\ walk.modules[k] \in Modules
          <6>1. IsInjective(walk.modules)
            BY <1>3, <3>1
          <6>2. \A j \in 1 .. Len(walk.modules) : walk.modules[j] = walk.modules[k] => j = k
            BY <1>2, <5>1, <6>1 DEF IsInjective
          <6> QED BY <1>1, <1>2, <5>1, <6>2
        <5>3. <<walk.modules[k], e>> # <<m, e>>
          BY <5>2
        <5>4. ToSet(eventCallbacks[walk.modules[k]][e]) \cap ToSet(L) = {}
          BY <1>1, <5>2, <5>3 DEF EventsInv, Sound, RefsAreHeld
        <5> QED BY <4>1, <5>4
      <4> QED BY <4>2 DEF Passed
    <3>5. r \notin {walk.callbacks[k] : k \in 1 .. walk.c}
      <4>1. ASSUME NEW k \in 1 .. walk.c PROVE walk.callbacks[k] # r
        <5>1. /\ k \in 1 .. Len(walk.callbacks) /\ walk.c + 1 \in 1 .. Len(walk.callbacks)
              /\ k # walk.c + 1
          BY <1>1, <1>2
        <5> QED BY <1>2, <1>3, <3>1, <5>1 DEF IsInjective
      <4> QED BY <4>1
    <3>6. /\ IsInjective(Append(walk.calls, r))
          /\ ToSet(Append(walk.calls, r)) = ToSet(walk.calls) \cup {r}
      <4>1. r \notin ToSet(walk.calls)
        BY <3>1, <3>4, <3>5
      <4>2. /\ \A u : u \in ToSet(Append(walk.calls, r)) <=> u \in ToSet(walk.calls) \/ u = r
            /\ IsInjective(walk.calls) /\ r \notin ToSet(walk.calls) => IsInjective(Append(walk.calls, r))
        BY <1>1, <1>2, Appended
      <4> HIDE DEF r
      <4> QED BY <3>1, <4>1, <4>2
    <3>7. {walk'.callbacks[k] : k \in 1 .. walk'.c} = {walk.callbacks[k] : k \in 1 .. walk.c} \cup {r}
      <4>1. 1 .. walk.c + 1 = (1 .. walk.c) \cup {walk.c + 1}
        BY <1>2
      <4> QED BY <2>1, <4>1
    <3>8. ToSet(walk'.calls) = Passed(e)' \cup {walk'.callbacks[k] : k \in 1 .. walk'.c}
      BY <2>1, <3>1, <3>3, <3>6, <3>7
    <3>9. walk'.callbacks = IF walk'.m = 0 THEN <<>>
                            ELSE eventCallbacks'[walk'.modules[walk'.m]][walk'.event]
      <4>1. walk'.m # 0
        BY <1>1, <2>1
      <4> HIDE DEF L
      <4> QED BY <2>0, <2>1, <3>1, <4>1
    <3> QED BY <2>1, <2>2, <3>1, <3>2, <3>6, <3>8, <3>9 DEF PlainComplete
  <2>7. PlainComplete'
    BY <2>6 DEF PlainComplete
  <2> QED BY <2>3, <2>4, <2>5, <2>7 DEF WalkInv, IdentifiedInv, IdentifiedComplete, CallsOnce
<1>9. CASE /\ Contains(onceConnects[m], r)
           /\ Disconnect(m, e, r)
           /\ walk' = [called EXCEPT !.erased = TRUE, !.callbacks = slots, !.modules = modules]
  <2> DEFINE left == eventCallbacks'[m][e]
  <2>1. /\ Len(left) \in Len(L) - 1 .. Len(L) /\ ToSet(left) = ToSet(L) \ {r}
        /\ left \in Seq(Refs) /\ moduleEvents' \in [Events -> Seq(Modules)]
        /\ \/ moduleEvents' = moduleEvents /\ refs' = refs
           \/ left = <<>> /\ moduleEvents'[e] = Erase(moduleEvents[e], m)
    <3>1. Disconnected(m, e, r)
      BY <1>1, <1>9, DisconnectDoes DEF EventsInv
    <3> QED BY <1>1, <3>1 DEF Disconnected
  <2>0. Len(left) \in Len(walk.callbacks) - (walk.c + 1) .. Len(walk.callbacks)
    <3>1. Len(left) \in Nat /\ Len(left) >= Len(L) - 1 /\ Len(left) <= Len(L)
      <4> HIDE DEF left, L, slots, modules, called, m, r, e
      <4>1. Len(left) \in Nat
        <5>1. left \in Seq(Refs)
          BY <2>1
        <5> QED BY <5>1
      <4> QED BY <1>3, <2>1, <4>1
    <3>2. Len(L) >= Len(walk.callbacks) - walk.c /\ Len(L) <= Len(walk.callbacks)
      BY <1>4
    <3> HIDE DEF left, L
    <3> QED BY <1>2, <1>3, <3>1, <3>2
  <2>2. slots \in Seq(Refs) /\ Len(slots) = Len(walk.callbacks) /\ ToSet(slots) \subseteq refs
    <3>1. Len(L) \in Int /\ Len(L) <= Len(walk.callbacks)
      BY <1>2, <1>3, <1>4
    <3>2. ToSet(slots) \subseteq ToSet(walk.callbacks)
      BY <1>2, <3>1, ErasedReads DEF slots
    <3>3. slots \in Seq(Refs) /\ Len(slots) = Len(walk.callbacks)
      BY <1>2, <3>1, ErasedIsVector DEF slots
    <3> QED BY <1>4, <3>2, <3>3
  <2>3. modules \in Seq(Modules) /\ Len(modules) = Len(walk.modules)
    <3>1. Len(moduleEvents[e]) \in Int /\ Len(moduleEvents[e]) <= Len(walk.modules)
      BY <1>2, <1>3, <1>4
    <3>2. /\ Erased(walk.modules, Len(moduleEvents[e]), m) \in Seq(Modules)
          /\ Len(Erased(walk.modules, Len(moduleEvents[e]), m)) = Len(walk.modules)
      BY <1>2, <3>1, ErasedIsVector
    <3> QED BY <1>2, <3>2 DEF modules
  <2>4. /\ walk' \in Walk
        /\ walk'.event = walk.event /\ walk'.identifier = walk.identifier
        /\ walk'.modules = modules /\ walk'.m = walk.m
           /\ walk'.callbacks = slots /\ walk'.c = walk.c + 1
        /\ walk'.last = walk.last /\ walk'.calls = Append(walk.calls, r)
        /\ walk'.due = walk.due /\ walk'.erased = TRUE
    <3>1. walk' = WalkAt(modules, walk.m, slots, walk.c + 1, walk.last, Append(walk.calls, r), TRUE)
      BY <1>2, <1>9 DEF Walk, WalkAt, called
    <3>2. /\ walk \in Walk /\ modules \in Seq(Modules) /\ walk.m \in Nat
          /\ slots \in Seq(Refs) /\ walk.c + 1 \in Nat
          /\ walk.last \in Refs \cup {NoRef} /\ Append(walk.calls, r) \in Seq(Refs)
          /\ TRUE \in {walk.erased, TRUE}
      BY <1>2, <1>5, <2>2, <2>3
    <3> HIDE DEF r
    <3> QED BY <3>1, <3>2, WalkMoves, Zenon
  <2>5. WalkTypeOK'
    BY <1>1, <1>2, <2>2, <2>3, <2>4, WalkTyped
  <2>6. ~Identified'
    BY <1>1, <1>6, <2>4 DEF Plain, Identified
  <2>7. Len(moduleEvents'[e]) \in Len(walk.modules) - walk.m .. Len(walk.modules)
    <3>1. CASE moduleEvents' = moduleEvents
      BY <1>4, <3>1
    <3>2. CASE moduleEvents'[e] = Erase(moduleEvents[e], m)
      <4> DEFINE s == Erase(moduleEvents[e], m)
      <4>1. s \in Seq(Modules) /\ Len(s) <= Len(moduleEvents[e]) /\ Len(s) >= Len(moduleEvents[e]) - 1
        BY <1>3, EraseIs
      <4>2. Len(s) \in Nat
        BY <4>1
      <4> HIDE DEF s
      <4>3. Len(s) \in Len(walk.modules) - walk.m .. Len(walk.modules)
        BY <1>2, <1>3, <1>4, <4>1, <4>2
      <4> QED BY <3>2, <4>3 DEF s
    <3> QED BY <2>1, <3>1, <3>2
  <2>8. ASSUME Len(walk.callbacks) - (walk.c + 1) > 0
        PROVE  moduleEvents' = moduleEvents /\ refs' = refs
    <3>1. Len(left) > 0
      <4> HIDE DEF left
      <4> QED BY <1>2, <2>0, <2>8
    <3>2. left # <<>>
      BY <3>1
    <3> QED BY <2>1, <3>2
  <2>9. PlainInv'
    <3>1. ASSUME Len(walk.callbacks) - (walk.c + 1) > 0
          PROVE  /\ Len(moduleEvents'[e]) > Len(walk.modules) - walk.m
                 /\ Len(eventCallbacks'[modules[walk.m]][e])
                      \in Len(walk.callbacks) - (walk.c + 1) .. Len(walk.callbacks)
                 /\ ToSet(slots) \subseteq refs'
      <4>1. modules = walk.modules
        BY <2>8, <3>1 DEF modules
      <4> QED BY <1>4, <2>0, <2>2, <2>8, <3>1, <4>1
    <3> HIDE DEF m, r, L, left
    <3> QED BY <1>1, <2>2, <2>3, <2>4, <2>7, <3>1 DEF PlainInv
  <2>10. PlainComplete'
    BY <2>4 DEF PlainComplete
  <2> QED BY <2>5, <2>6, <2>9, <2>10 DEF WalkInv, IdentifiedInv, IdentifiedComplete, CallsOnce
<1> QED BY <1>7, <1>8, <1>9

\* The next module, and its callback for the identifier.
LEMMA CallIdentifiedAt ==
  ASSUME EventsInv, CallIdentified
  PROVE  /\ Identified /\ walk.m + 1 \in 1 .. Len(walk.modules)
         /\ walk.modules[walk.m + 1] \in Modules /\ walk.identifier \in Identifiers
         /\ walk.event \in Events
<1>1. Identified /\ walk.m < Len(walk.modules)
  BY DEF CallIdentified
<1>2. /\ walk.modules \in Seq(Modules) /\ Len(walk.modules) \in Nat /\ walk.m \in Nat
      /\ walk.identifier \in Identifiers \cup {NoRef} /\ walk.event \in Events
  BY <1>1, WalkFields
<1>3. walk.m + 1 \in 1 .. Len(walk.modules)
  BY <1>1, <1>2
<1> QED BY <1>1, <1>2, <1>3 DEF Identified

\* A call with an identifier keeps the registry sound and the marks typed.
LEMMA CallIdentifiedSound ==
  ASSUME EventsInv, CallIdentified
  PROVE  Sound' /\ MarksTypeOK'
<1> DEFINE m == walk.modules[walk.m + 1]
           e == walk.event
           i == walk.identifier
<1>1. m \in Modules /\ e \in Events /\ i \in Identifiers
  BY CallIdentifiedAt
<1>2. \/ UNCHANGED <<modulesVars, registry, refs>>
      \/ /\ UNCHANGED identifiedOnceConnects \/ identifiedOnceConnects' =
              [identifiedOnceConnects EXCEPT ![m][e] = RemoveFirst(@, i)]
         /\ DisconnectIdentified(m, e, i)
         /\ UNCHANGED <<eventCallbacks, onceConnects, moduleEvents>>
  BY DEF CallIdentified
<1> HIDE DEF m, e, i
<1>3. Sound /\ MarksTypeOK
  BY DEF EventsInv
<1>4. CASE UNCHANGED <<modulesVars, registry, refs>>
  <2>1. Sound'
    BY <1>3, <1>4, UnchangedSound DEF modulesVars
  <2> QED BY <1>3, <1>4, <2>1 DEF MarksTypeOK, modulesVars
<1>5. CASE /\ UNCHANGED identifiedOnceConnects \/ identifiedOnceConnects' =
                [identifiedOnceConnects EXCEPT ![m][e] = RemoveFirst(@, i)]
           /\ DisconnectIdentified(m, e, i)
           /\ UNCHANGED <<eventCallbacks, onceConnects, moduleEvents>>
  <2>1. Sound'
    BY <1>1, <1>3, <1>5, DisconnectIdentifiedSound
  <2> DEFINE left == RemoveFirst(identifiedOnceConnects[m][e], i)
  <2>2. left \in Seq(Identifiers)
    BY <1>1, <1>3, RemoveFirstIs DEF MarksTypeOK
  <2>3. \/ identifiedOnceConnects' = identifiedOnceConnects
        \/ identifiedOnceConnects' = [identifiedOnceConnects EXCEPT ![m][e] = left]
    BY <1>5
  <2> HIDE DEF left
  <2>4. identifiedOnceConnects' \in [Modules -> [Events -> Seq(Identifiers)]]
    <3>1. CASE identifiedOnceConnects' = identifiedOnceConnects
      BY <1>3, <3>1 DEF MarksTypeOK
    <3>2. CASE identifiedOnceConnects' = [identifiedOnceConnects EXCEPT ![m][e] = left]
      BY <1>1, <1>3, <2>2, <3>2, Updated DEF MarksTypeOK
    <3> QED BY <2>3, <3>1, <3>2
  <2> QED BY <1>3, <1>5, <2>1, <2>4 DEF MarksTypeOK
<1> QED BY <1>2, <1>4, <1>5

\* The slot is passed, and the vector loses its module at most.
LEMMA CallIdentifiedWalks ==
  ASSUME EventsInv, CallIdentified
  PROVE  WalkTypeOK' /\ PlainInv' /\ IdentifiedInv' /\ PlainComplete' /\ IdentifiedComplete'
<1> DEFINE m == walk.modules[walk.m + 1]
           e == walk.event
           i == walk.identifier
           r == identifiedEventCallbacks[m][e][i]
           called == [walk EXCEPT !.m = @ + 1, !.last = r, !.calls = Append(@, r)]
           modules == IF identifiedModuleEvents'[e] = identifiedModuleEvents[e] THEN walk.modules
                      ELSE Erased(walk.modules, Len(identifiedModuleEvents[e]), m)
           of(k) == identifiedEventCallbacks[walk.modules[k]][e][i]
<1>1. Identified /\ walk.m + 1 \in 1 .. Len(walk.modules) /\ m \in Modules /\ e \in Events /\ i \in Identifiers
  BY CallIdentifiedAt
<1>2. /\ walk \in Walk /\ walk.modules \in Seq(Modules) /\ Len(walk.modules) \in Nat
      /\ walk.m \in Nat /\ walk.m <= Len(walk.modules)
      /\ walk.callbacks \in Seq(Refs) /\ Len(walk.callbacks) \in Nat
      /\ walk.c \in Nat /\ walk.c <= Len(walk.callbacks)
      /\ walk.last \in Refs \cup {NoRef} /\ walk.calls \in Seq(Refs)
      /\ DOMAIN walk.modules = 1 .. Len(walk.modules)
  BY <1>1, WalkFields
<1>3. /\ r \in Refs \cup {NoRef} /\ identifiedModuleEvents[e] \in Seq(Modules)
      /\ Len(identifiedModuleEvents[e]) \in Nat /\ IsInjective(identifiedModuleEvents[e])
  BY <1>1 DEF EventsInv, Sound, ListsTypeOK, RefsAreHeld, RegistryAgrees
<1>4. Len(identifiedModuleEvents[e]) \in Len(walk.modules) - walk.m .. Len(walk.modules)
  BY <1>1 DEF EventsInv, WalkInv, IdentifiedInv
<1>5. walk.m + 1 \in Nat
  BY <1>2
<1>6. NoRef' = NoRef
  BY DEF NoRef
<1>7. \/ /\ r \in {NoRef, walk.last}
         /\ walk' = [walk EXCEPT !.m = @ + 1] /\ UNCHANGED <<modulesVars, registry, refs>>
      \/ /\ r \notin {NoRef, walk.last}
         /\ walk' = called /\ UNCHANGED <<modulesVars, registry, refs>>
      \/ /\ r \notin {NoRef, walk.last}
         /\ DisconnectIdentified(m, e, i)
         /\ walk' = [called EXCEPT !.erased = TRUE, !.modules = modules]
  <2>1. \/ /\ r \in {NoRef, walk.last}
           /\ walk' = [walk EXCEPT !.m = @ + 1] /\ UNCHANGED <<modulesVars, registry, refs>>
        \/ /\ r \notin {NoRef, walk.last}
           /\ walk' = called /\ UNCHANGED <<modulesVars, registry, refs>>
        \/ /\ r \notin {NoRef, walk.last}
           /\ DisconnectIdentified(m, e, i)
           /\ walk' = [called EXCEPT
                !.erased = TRUE,
                !.modules = IF identifiedModuleEvents'[e] = identifiedModuleEvents[e] THEN @
                            ELSE Erased(@, Len(identifiedModuleEvents[e]), m)]
    BY DEF CallIdentified, Calls
  <2>2. called.modules = walk.modules
    BY <1>2 DEF Walk
  <2> HIDE DEF called
  <2> QED BY <2>1, <2>2
<1> HIDE DEF called, modules
<1>8. ASSUME UNCHANGED <<modulesVars, registry, refs>>,
             walk' \in Walk, walk'.event = e, walk'.identifier = i,
             walk'.modules = walk.modules, walk'.m = walk.m + 1, walk'.callbacks = walk.callbacks,
             walk'.c = walk.c, walk'.due = walk.due, walk'.erased = walk.erased,
             ~walk.erased /\ IdentifiedComplete =>
               /\ walk'.last \in ToSet(walk'.calls) \cup {NoRef}
               /\ ToSet(walk'.calls) = ToSet(walk.calls) \cup ({r} \ {NoRef})
      PROVE  WalkTypeOK' /\ PlainInv' /\ IdentifiedInv' /\ PlainComplete' /\ IdentifiedComplete'
  <2>1. /\ identifiedEventCallbacks' = identifiedEventCallbacks
        /\ identifiedModuleEvents' = identifiedModuleEvents
    BY <1>8 DEF modulesVars, registry
  <2>2. WalkTypeOK'
    BY <1>1, <1>2, <1>8, WalkTyped
  <2>3. ~Plain'
    BY <1>1, <1>6, <1>8 DEF Plain, Identified
  <2>4. IdentifiedInv'
    <3> HIDE DEF e, i, r, of
    <3> QED BY <1>1, <1>2, <1>3, <1>4, <1>8, <2>1 DEF IdentifiedInv
  <2>5. ASSUME ~walk'.erased PROVE IdentifiedComplete'
    <3>1. IdentifiedComplete /\ Identified /\ ~walk.erased
      BY <1>1, <1>8, <2>5 DEF EventsInv, WalkInv
    <3>2. /\ walk.modules = identifiedModuleEvents[e] /\ walk.due = DueIdentified(e, i)
          /\ ToSet(walk.calls) = {of(k) : k \in 1 .. walk.m} \ {NoRef}
      BY <3>1 DEF IdentifiedComplete
    <3>3. DueIdentified(e, i)' = DueIdentified(e, i)
      BY <1>6, <1>8, <2>1 DEF DueIdentified
    <3>4. {identifiedEventCallbacks'[walk'.modules[k]][walk'.event][walk'.identifier] : k \in 1 .. walk'.m}
            = {of(k) : k \in 1 .. walk.m} \cup {r}
      <4>1. 1 .. walk.m + 1 = (1 .. walk.m) \cup {walk.m + 1}
        BY <1>2
      <4> QED BY <1>8, <2>1, <4>1
    <3>5. ToSet(walk'.calls) =
            {identifiedEventCallbacks'[walk'.modules[k]][walk'.event][walk'.identifier] : k \in 1 .. walk'.m}
              \ {NoRef}
      <4> HIDE DEF of, r
      <4> QED BY <1>8, <3>1, <3>2, <3>4
    <3> QED BY <1>6, <1>8, <2>1, <3>1, <3>2, <3>3, <3>5 DEF IdentifiedComplete
  <2>6. IdentifiedComplete'
    BY <2>5 DEF IdentifiedComplete
  <2> QED BY <2>2, <2>3, <2>4, <2>6 DEF PlainInv, PlainComplete
<1>9. CASE /\ r \in {NoRef, walk.last}
           /\ walk' = [walk EXCEPT !.m = @ + 1] /\ UNCHANGED <<modulesVars, registry, refs>>
  <2>1. /\ walk' \in Walk
        /\ walk'.event = walk.event /\ walk'.identifier = walk.identifier
        /\ walk'.modules = walk.modules /\ walk'.m = walk.m + 1
           /\ walk'.callbacks = walk.callbacks /\ walk'.c = walk.c
        /\ walk'.last = walk.last /\ walk'.calls = walk.calls
        /\ walk'.due = walk.due /\ walk'.erased = walk.erased
    <3>1. walk' = WalkAt(walk.modules, walk.m + 1, walk.callbacks, walk.c, walk.last, walk.calls,
                         walk.erased)
      BY <1>2, <1>9 DEF Walk, WalkAt
    <3>2. /\ walk \in Walk /\ walk.modules \in Seq(Modules) /\ walk.m + 1 \in Nat
          /\ walk.callbacks \in Seq(Refs) /\ walk.c \in Nat
          /\ walk.last \in Refs \cup {NoRef} /\ walk.calls \in Seq(Refs)
          /\ walk.erased \in {walk.erased, TRUE}
      BY <1>2, <1>5
    <3> QED BY <3>1, <3>2, WalkMoves, Zenon
  <2>2. ASSUME ~walk.erased, IdentifiedComplete
        PROVE  /\ walk.last \in ToSet(walk.calls) \cup {NoRef}
               /\ ToSet(walk.calls) = ToSet(walk.calls) \cup ({r} \ {NoRef})
    <3>1. walk.last \in ToSet(walk.calls) \cup {NoRef}
      BY <1>1, <2>2 DEF IdentifiedComplete
    <3> HIDE DEF r
    <3> QED BY <1>9, <3>1
  <2> HIDE DEF r
  <2> QED BY <1>8, <1>9, <2>1, <2>2
<1>10. CASE /\ r \notin {NoRef, walk.last}
            /\ walk' = called /\ UNCHANGED <<modulesVars, registry, refs>>
  <2>1. r \in Refs /\ Append(walk.calls, r) \in Seq(Refs)
    BY <1>2, <1>3, <1>10
  <2>2. /\ walk' \in Walk
        /\ walk'.event = walk.event /\ walk'.identifier = walk.identifier
        /\ walk'.modules = walk.modules /\ walk'.m = walk.m + 1
           /\ walk'.callbacks = walk.callbacks /\ walk'.c = walk.c
        /\ walk'.last = r /\ walk'.calls = Append(walk.calls, r)
        /\ walk'.due = walk.due /\ walk'.erased = walk.erased
    <3>1. walk' = WalkAt(walk.modules, walk.m + 1, walk.callbacks, walk.c, r, Append(walk.calls, r),
                         walk.erased)
      BY <1>2, <1>10 DEF Walk, WalkAt, called
    <3>2. /\ walk \in Walk /\ walk.modules \in Seq(Modules) /\ walk.m + 1 \in Nat
          /\ walk.callbacks \in Seq(Refs) /\ walk.c \in Nat
          /\ r \in Refs \cup {NoRef} /\ Append(walk.calls, r) \in Seq(Refs)
          /\ walk.erased \in {walk.erased, TRUE}
      BY <1>2, <1>3, <1>5, <2>1
    <3> HIDE DEF r
    <3> QED BY <3>1, <3>2, WalkMoves, Zenon
  <2>3. ASSUME ~walk.erased, IdentifiedComplete
        PROVE  /\ r \in ToSet(Append(walk.calls, r)) \cup {NoRef}
               /\ ToSet(Append(walk.calls, r)) = ToSet(walk.calls) \cup ({r} \ {NoRef})
    <3>1. \A u : u \in ToSet(Append(walk.calls, r)) <=> u \in ToSet(walk.calls) \/ u = r
      BY <1>2, <2>1, Appended
    <3> HIDE DEF r
    <3> QED BY <1>10, <3>1
  <2> HIDE DEF r
  <2> QED BY <1>8, <1>10, <2>2, <2>3
<1>11. CASE /\ r \notin {NoRef, walk.last}
            /\ DisconnectIdentified(m, e, i)
            /\ walk' = [called EXCEPT !.erased = TRUE, !.modules = modules]
  <2>1. r \in Refs /\ Append(walk.calls, r) \in Seq(Refs)
    BY <1>2, <1>3, <1>11
  <2>2. modules \in Seq(Modules) /\ Len(modules) = Len(walk.modules)
    <3>1. Len(identifiedModuleEvents[e]) \in Int /\ Len(identifiedModuleEvents[e]) <= Len(walk.modules)
      BY <1>2, <1>3, <1>4
    <3>2. /\ Erased(walk.modules, Len(identifiedModuleEvents[e]), m) \in Seq(Modules)
          /\ Len(Erased(walk.modules, Len(identifiedModuleEvents[e]), m)) = Len(walk.modules)
      BY <1>2, <3>1, ErasedIsVector
    <3> QED BY <1>2, <3>2 DEF modules
  <2>3. /\ walk' \in Walk
        /\ walk'.event = walk.event /\ walk'.identifier = walk.identifier
        /\ walk'.modules = modules /\ walk'.m = walk.m + 1
           /\ walk'.callbacks = walk.callbacks /\ walk'.c = walk.c
        /\ walk'.last = r /\ walk'.calls = Append(walk.calls, r)
        /\ walk'.due = walk.due /\ walk'.erased = TRUE
    <3>1. walk' = WalkAt(modules, walk.m + 1, walk.callbacks, walk.c, r, Append(walk.calls, r), TRUE)
      BY <1>2, <1>11 DEF Walk, WalkAt, called
    <3>2. /\ walk \in Walk /\ modules \in Seq(Modules) /\ walk.m + 1 \in Nat
          /\ walk.callbacks \in Seq(Refs) /\ walk.c \in Nat
          /\ r \in Refs \cup {NoRef} /\ Append(walk.calls, r) \in Seq(Refs)
          /\ TRUE \in {walk.erased, TRUE}
      BY <1>2, <1>3, <1>5, <2>1, <2>2
    <3> HIDE DEF r
    <3> QED BY <3>1, <3>2, WalkMoves, Zenon
  <2>4. WalkTypeOK'
    BY <1>1, <1>2, <2>2, <2>3, WalkTyped
  <2>5. ~Plain'
    BY <1>1, <1>6, <2>3 DEF Plain, Identified
  <2>6. IdentifiedInv'
    <3>1. \/ identifiedModuleEvents' = identifiedModuleEvents
          \/ identifiedModuleEvents'[e] = Erase(identifiedModuleEvents[e], m)
      <4>1. IdentifiedDisconnected(m, e, i)
        BY <1>1, <1>11, DisconnectIdentifiedDoes DEF EventsInv
      <4> QED BY <4>1 DEF IdentifiedDisconnected
    <3> DEFINE s == identifiedModuleEvents'[e]
    <3>2. Len(s) \in Nat /\ Len(s) <= Len(identifiedModuleEvents[e])
          /\ Len(s) >= Len(identifiedModuleEvents[e]) - 1
      <4>1. CASE identifiedModuleEvents' = identifiedModuleEvents
        BY <1>3, <4>1
      <4>2. CASE s = Erase(identifiedModuleEvents[e], m)
        <5>1. /\ s \in Seq(Modules) /\ Len(s) <= Len(identifiedModuleEvents[e])
              /\ Len(s) >= Len(identifiedModuleEvents[e]) - 1
          BY <1>3, <4>2, EraseIs
        <5> HIDE DEF s
        <5> QED BY <5>1
      <4> QED BY <3>1, <4>1, <4>2
    <3>3. identifiedModuleEvents'[walk'.event] = s
      BY <2>3
    <3> HIDE DEF s, e, i, r, m
    <3>4. Len(s) \in Len(walk.modules) - (walk.m + 1) .. Len(walk.modules)
      BY <1>2, <1>3, <1>4, <3>2
    <3> QED BY <2>2, <2>3, <3>3, <3>4 DEF IdentifiedInv
  <2>7. IdentifiedComplete'
    BY <2>3 DEF IdentifiedComplete
  <2> QED BY <2>4, <2>5, <2>6, <2>7 DEF PlainInv, PlainComplete
<1> QED BY <1>7, <1>9, <1>10, <1>11

\* The callback of a module for an identifier is its own.
LEMMA AnswersDiffer ==
  ASSUME Sound, NEW m \in Modules, NEW n \in Modules, NEW e \in Events, NEW i \in Identifiers,
         identifiedEventCallbacks[m][e][i] # NoRef,
         identifiedEventCallbacks[m][e][i] = identifiedEventCallbacks[n][e][i]
  PROVE  m = n
<1>1. <<m, e, i>> = <<n, e, i>>
  BY DEF Sound, RefsAreHeld
<1> QED BY <1>1

\* Slots that have what was in slots at or behind them, in order.
MovedUp(slots, left) ==
  \E g \in [1 .. Len(slots) -> 1 .. Len(slots)] :
     /\ \A k \in 1 .. Len(slots) : left[k] = slots[g[k]] /\ g[k] >= k
     /\ \A j, k \in 1 .. Len(slots) : j <= k => g[j] <= g[k]

\* What is erased moves slots up.
LEMMA ErasedMovesUp ==
  ASSUME NEW S, NEW slots \in Seq(S), NEW n \in Int, n <= Len(slots), NEW x
  PROVE  MovedUp(slots, Erased(slots, n, x))
<1> DEFINE moved(k) == k < n /\ \E j \in 1 .. k : slots[j] = x
           g == [k \in 1 .. Len(slots) |-> IF moved(k) THEN k + 1 ELSE k]
<1>1. \A k \in 1 .. Len(slots) : Erased(slots, n, x)[k] = IF moved(k) THEN slots[k + 1] ELSE slots[k]
  BY DEF Erased
<1>2. \A j, k \in 1 .. Len(slots) : j <= k /\ k < n /\ moved(j) => moved(k)
  OBVIOUS
<1>3. \A k \in 1 .. Len(slots) : moved(k) => k < n
  OBVIOUS
<1> HIDE DEF moved
<1>4. g \in [1 .. Len(slots) -> 1 .. Len(slots)]
  BY <1>3
<1>5. \A k \in 1 .. Len(slots) : Erased(slots, n, x)[k] = slots[g[k]] /\ g[k] >= k
  BY <1>1
<1>6. \A j, k \in 1 .. Len(slots) : j <= k => g[j] <= g[k]
  <2> SUFFICES ASSUME NEW j \in 1 .. Len(slots), NEW k \in 1 .. Len(slots), j <= k
               PROVE  g[j] <= g[k]
    OBVIOUS
  <2>1. CASE j = k
    BY <2>1
  <2>2. CASE j < k
    <3>1. g[j] <= j + 1 /\ k <= g[k]
      OBVIOUS
    <3> QED BY <1>4, <2>2, <3>1
  <2> QED BY <2>1, <2>2
<1> HIDE DEF g
<1> QED BY <1>4, <1>5, <1>6 DEF MovedUp

\* No callback is called twice.
LEMMA CallIdentifiedOnce ==
  ASSUME EventsInv, CallIdentified
  PROVE  CallsOnce'
<1> DEFINE m == walk.modules[walk.m + 1]
           e == walk.event
           i == walk.identifier
           r == Answer(walk.m + 1)
           N == Len(walk.modules)
           ahead == walk.m + 1 .. N
           next == walk.m + 2 .. N
<1>1. Identified /\ walk.m + 1 \in 1 .. N /\ m \in Modules /\ e \in Events /\ i \in Identifiers
  BY CallIdentifiedAt
<1>2. /\ walk \in Walk /\ walk.modules \in Seq(Modules) /\ N \in Nat
      /\ walk.m \in Nat /\ walk.calls \in Seq(Refs)
  BY <1>1, WalkFields
<1>3. /\ IsInjective(walk.calls)
      /\ \A k \in ahead : Answer(k) \in ToSet(walk.calls) =>
           \A j \in walk.m + 1 .. k : Answer(j) = walk.last
      /\ \A j, l \in ahead : Answer(j) # NoRef /\ Answer(j) = Answer(l) =>
           \A k \in j .. l : Answer(k) = Answer(l)
  <2>1. CallsOnce
    BY DEF EventsInv, WalkInv
  <2> QED BY <1>1, <2>1, Zenon DEF CallsOnce
<1>4. /\ \A k \in 1 .. N : Answer(k) \in Refs \cup {NoRef} /\ walk.modules[k] \in Modules
      /\ \A k \in 1 .. N : Answer(k) = identifiedEventCallbacks[walk.modules[k]][e][i]
  <2>1. identifiedEventCallbacks \in [Modules -> [Events -> [Identifiers -> Refs \cup {NoRef}]]]
    BY DEF EventsInv, Sound, ListsTypeOK
  <2>2. \A k \in 1 .. N : walk.modules[k] \in Modules
    BY <1>2
  <2> QED BY <1>1, <2>1, <2>2 DEF Answer
<1>5. Sound
  BY DEF EventsInv
<1>6. NoRef' = NoRef
  BY DEF NoRef
<1>7. walk.m + 1 \in ahead /\ ahead \subseteq 1 .. N /\ next \subseteq ahead
  BY <1>1, <1>2
<1>8. ToSet(walk.calls) \subseteq Refs
  BY <1>2 DEF ToSet
<1>9. CASE /\ r \in {NoRef, walk.last}
           /\ walk' = [walk EXCEPT !.m = @ + 1] /\ UNCHANGED <<modulesVars, registry, refs>>
  <2>1. /\ walk'.modules = walk.modules /\ walk'.m = walk.m + 1 /\ walk'.event = e
        /\ walk'.identifier = i /\ walk'.calls = walk.calls /\ walk'.last = walk.last
        /\ identifiedEventCallbacks' = identifiedEventCallbacks
    BY <1>2, <1>9 DEF Walk, modulesVars
  <2>2. \A k \in next : Answer(k)' = Answer(k)
    BY <2>1 DEF Answer
  <2>3. walk'.m + 1 .. Len(walk'.modules) = next
    BY <1>2, <2>1
  <2>4. ASSUME NEW k \in next, Answer(k)' \in ToSet(walk'.calls), NEW j \in walk'.m + 1 .. k
        PROVE  Answer(j)' = walk'.last
    <3>1. j \in next /\ j \in walk.m + 1 .. k
      BY <1>2, <2>1
    <3> QED BY <1>3, <1>7, <2>1, <2>2, <2>4, <3>1
  <2>5. \A j, l \in next : \A k \in j .. l : k \in next
    BY <1>2
  <2> HIDE DEF ahead, next, r, N
  <2>6. \A k \in walk'.m + 1 .. Len(walk'.modules) : Answer(k)' \in ToSet(walk'.calls) =>
          \A j \in walk'.m + 1 .. k : Answer(j)' = walk'.last
    BY <2>3, <2>4
  <2>7. ASSUME NEW j \in walk'.m + 1 .. Len(walk'.modules), NEW l \in walk'.m + 1 .. Len(walk'.modules),
               Answer(j)' # NoRef', Answer(j)' = Answer(l)', NEW k \in j .. l
        PROVE  Answer(k)' = Answer(l)'
    <3>1. j \in next /\ l \in next /\ k \in next
      BY <2>3, <2>5
    <3> QED BY <1>3, <1>6, <1>7, <2>2, <2>7, <3>1
  <2>8. IsInjective(walk'.calls)
    BY <1>3, <2>1
  <2> QED BY <2>6, <2>7, <2>8 DEF CallsOnce
<1>10. ASSUME r \in Refs, r # walk.last
       PROVE  /\ r \notin ToSet(walk.calls)
              /\ \A k \in ahead : Answer(k) \notin ToSet(walk.calls)
              /\ IsInjective(Append(walk.calls, r))
              /\ \A u : u \in ToSet(Append(walk.calls, r)) <=> u \in ToSet(walk.calls) \/ u = r
  <2>1. \A k \in ahead : Answer(k) \notin ToSet(walk.calls)
    <3>1. \A k \in ahead : walk.m + 1 \in walk.m + 1 .. k
      BY <1>2
    <3> QED BY <1>3, <1>10, <3>1
  <2>2. r \notin ToSet(walk.calls)
    BY <1>7, <2>1
  <2>3. /\ \A u : u \in ToSet(Append(walk.calls, r)) <=> u \in ToSet(walk.calls) \/ u = r
        /\ IsInjective(walk.calls) /\ r \notin ToSet(walk.calls) => IsInjective(Append(walk.calls, r))
    <3> HIDE DEF r
    <3> QED BY <1>2, <1>10, Appended
  <2> QED BY <1>3, <2>1, <2>2, <2>3
<1>11. CASE /\ r \notin {NoRef, walk.last}
            /\ walk' = [walk EXCEPT !.m = @ + 1, !.last = r, !.calls = Append(@, r)]
            /\ UNCHANGED <<modulesVars, registry, refs>>
  <2>1. /\ walk'.modules = walk.modules /\ walk'.m = walk.m + 1 /\ walk'.event = e
        /\ walk'.identifier = i /\ walk'.calls = Append(walk.calls, r) /\ walk'.last = r
        /\ identifiedEventCallbacks' = identifiedEventCallbacks
    BY <1>2, <1>11 DEF Walk, modulesVars
  <2>2. \A k \in next : Answer(k)' = Answer(k)
    BY <2>1 DEF Answer
  <2>3. walk'.m + 1 .. Len(walk'.modules) = next
    BY <1>2, <2>1
  <2>4. r \in Refs
    BY <1>4, <1>7, <1>11
  <2>5. ASSUME NEW k \in next, Answer(k)' \in ToSet(walk'.calls), NEW j \in walk'.m + 1 .. k
        PROVE  Answer(j)' = walk'.last
    <3>1. j \in next /\ j \in walk.m + 1 .. k
      BY <1>2, <2>1
    <3>2. Answer(k) \in ToSet(Append(walk.calls, r))
      BY <2>1, <2>2, <2>5
    <3>3. Answer(k) = r
      BY <1>7, <1>10, <1>11, <2>4, <3>2
    <3> HIDE DEF r
    <3>4. Answer(j) = r
      BY <1>3, <1>7, <1>11, <3>1, <3>3 DEF r
    <3> QED BY <2>1, <2>2, <3>1, <3>4
  <2>6. \A j, l \in next : \A k \in j .. l : k \in next
    BY <1>2
  <2>7. IsInjective(Append(walk.calls, r))
    BY <1>10, <1>11, <2>4
  <2> HIDE DEF ahead, next, r, N
  <2>8. \A k \in walk'.m + 1 .. Len(walk'.modules) : Answer(k)' \in ToSet(walk'.calls) =>
          \A j \in walk'.m + 1 .. k : Answer(j)' = walk'.last
    BY <2>3, <2>5
  <2>9. ASSUME NEW j \in walk'.m + 1 .. Len(walk'.modules), NEW l \in walk'.m + 1 .. Len(walk'.modules),
               Answer(j)' # NoRef', Answer(j)' = Answer(l)', NEW k \in j .. l
        PROVE  Answer(k)' = Answer(l)'
    <3>1. j \in next /\ l \in next /\ k \in next
      BY <2>3, <2>6
    <3> QED BY <1>3, <1>6, <1>7, <2>2, <2>9, <3>1
  <2>10. IsInjective(walk'.calls)
    BY <2>1, <2>7
  <2> QED BY <2>8, <2>9, <2>10 DEF CallsOnce
<1>12. CASE /\ r \notin {NoRef, walk.last} /\ DisconnectIdentified(m, e, i)
            /\ walk' = [walk EXCEPT !.m = @ + 1, !.last = r, !.calls = Append(@, r), !.erased = TRUE,
                          !.modules = IF identifiedModuleEvents'[e] = identifiedModuleEvents[e] THEN @
                                      ELSE Erased(@, Len(identifiedModuleEvents[e]), m)]
  <2> DEFINE slots == IF identifiedModuleEvents'[e] = identifiedModuleEvents[e] THEN walk.modules
                      ELSE Erased(walk.modules, Len(identifiedModuleEvents[e]), m)
  <2>1. /\ walk'.modules = slots /\ walk'.m = walk.m + 1 /\ walk'.event = e
        /\ walk'.identifier = i /\ walk'.calls = Append(walk.calls, r) /\ walk'.last = r
    BY <1>2, <1>12 DEF Walk
  <2>2. r \in Refs
    BY <1>4, <1>7, <1>12
  <2>3. Len(identifiedModuleEvents[e]) \in Int /\ Len(identifiedModuleEvents[e]) <= N
    <3>1. Len(identifiedModuleEvents[e]) \in N - walk.m .. N
      BY <1>1 DEF EventsInv, WalkInv, IdentifiedInv
    <3> HIDE DEF N
    <3> QED BY <1>2, <3>1
  <2>4. Len(slots) = N
    BY <1>2, <2>3, ErasedIsVector
  <2>5. PICK g \in [1 .. N -> 1 .. N] :
          /\ \A k \in 1 .. N : slots[k] = walk.modules[g[k]] /\ g[k] >= k
          /\ \A j, k \in 1 .. N : j <= k => g[j] <= g[k]
    <3>1. CASE slots = walk.modules
      <4> DEFINE id == [k \in 1 .. N |-> k]
      <4>1. /\ id \in [1 .. N -> 1 .. N]
            /\ \A k \in 1 .. N : slots[k] = walk.modules[id[k]] /\ id[k] >= k
            /\ \A j, k \in 1 .. N : j <= k => id[j] <= id[k]
        BY <3>1
      <4> HIDE DEF id
      <4> QED BY <4>1
    <3>2. CASE slots = Erased(walk.modules, Len(identifiedModuleEvents[e]), m)
      <4>1. MovedUp(walk.modules, Erased(walk.modules, Len(identifiedModuleEvents[e]), m))
        BY <1>2, <2>3, ErasedMovesUp
      <4>2. MovedUp(walk.modules, slots)
        BY <3>2, <4>1
      <4> HIDE DEF slots
      <4> QED BY <4>2 DEF MovedUp
    <3> QED BY <3>1, <3>2
  <2> HIDE DEF slots
  <2>6. IdentifiedDisconnected(m, e, i)
    BY <1>1, <1>5, <1>12, DisconnectIdentifiedDoes
  <2>7. ASSUME NEW k \in next
        PROVE  /\ g[k] \in ahead
               /\ Answer(k)' = IF walk.modules[g[k]] = m THEN NoRef ELSE Answer(g[k])
    <3>1. k \in 1 .. N /\ g[k] \in ahead
      BY <1>2, <2>5
    <3>2. Answer(k)' = identifiedEventCallbacks'[walk.modules[g[k]]][e][i]
      BY <2>1, <2>5, <3>1 DEF Answer
    <3>3. walk.modules[g[k]] \in Modules /\ Answer(g[k]) = identifiedEventCallbacks[walk.modules[g[k]]][e][i]
      BY <1>4, <1>7, <3>1
    <3>4. identifiedEventCallbacks'[m][e][i] = NoRef
      <4>1. identifiedEventCallbacks[m][e] \in [Identifiers -> Refs \cup {NoRef}]
        BY <1>1, <1>5 DEF Sound, ListsTypeOK
      <4>2. Without(identifiedEventCallbacks[m][e], i)[i] = NoRef
        BY <1>1, <4>1, WithoutIs
      <4>3. identifiedEventCallbacks'[m][e] = Without(identifiedEventCallbacks[m][e], i)
        BY <2>6 DEF IdentifiedDisconnected
      <4> QED BY <4>2, <4>3
    <3>5. walk.modules[g[k]] # m => identifiedEventCallbacks'[walk.modules[g[k]]][e]
                                      = identifiedEventCallbacks[walk.modules[g[k]]][e]
      BY <1>1, <2>6, <3>3 DEF IdentifiedDisconnected
    <3> QED BY <3>1, <3>2, <3>3, <3>4, <3>5
  <2>8. \A k \in ahead : Answer(k) = r <=> walk.modules[k] = m
    <3> SUFFICES ASSUME NEW k \in ahead PROVE Answer(k) = r <=> walk.modules[k] = m
      OBVIOUS
    <3>1. /\ r = identifiedEventCallbacks[m][e][i] /\ walk.modules[k] \in Modules
          /\ Answer(k) = identifiedEventCallbacks[walk.modules[k]][e][i]
      BY <1>1, <1>4, <1>7
    <3> QED BY <1>1, <1>5, <1>12, <3>1, AnswersDiffer
  <2>9. ASSUME NEW k \in next PROVE Answer(k)' \notin ToSet(Append(walk.calls, r))
    <3>1. g[k] \in ahead /\ Answer(k)' = IF walk.modules[g[k]] = m THEN NoRef ELSE Answer(g[k])
      BY <2>7
    <3>2. Answer(g[k]) \notin ToSet(walk.calls)
      BY <1>10, <1>12, <2>2, <3>1
    <3>3. NoRef \notin ToSet(walk.calls)
      BY <1>8, RefIsNone
    <3> QED BY <1>10, <1>12, <2>2, <2>8, <3>1, <3>2, <3>3
  <2>10. ASSUME NEW j \in next, NEW l \in next, Answer(j)' # NoRef, Answer(j)' = Answer(l)',
                NEW k \in j .. l
         PROVE  Answer(k)' = Answer(l)'
    <3>1. k \in next /\ j <= k /\ k <= l /\ j \in 1 .. N /\ k \in 1 .. N /\ l \in 1 .. N
      BY <1>2
    <3>2. g[k] \in g[j] .. g[l]
      <4>1. g[j] \in Int /\ g[k] \in Int /\ g[l] \in Int /\ g[j] <= g[k] /\ g[k] <= g[l]
        BY <2>5, <3>1
      <4> QED BY <4>1
    <3>3. /\ g[j] \in ahead /\ g[l] \in ahead /\ g[k] \in ahead
          /\ Answer(g[j]) # NoRef /\ Answer(g[j]) = Answer(g[l])
          /\ Answer(l)' = Answer(g[l]) /\ walk.modules[g[l]] # m
      BY <2>7, <2>10, <3>1
    <3>4. Answer(g[k]) = Answer(g[l])
      BY <1>3, <3>2, <3>3
    <3>5. walk.modules[g[k]] # m
      BY <2>8, <3>3, <3>4
    <3> QED BY <2>7, <3>1, <3>3, <3>4, <3>5
  <2>11. walk'.m + 1 .. Len(walk'.modules) = next
    BY <1>2, <2>1, <2>4
  <2>12. IsInjective(Append(walk.calls, r))
    BY <1>10, <1>12, <2>2
  <2> HIDE DEF ahead, next, r, N
  <2> QED BY <1>6, <2>1, <2>9, <2>10, <2>11, <2>12 DEF CallsOnce
<1>13. r = identifiedEventCallbacks[m][e][i]
  BY DEF Answer
<1> QED BY <1>9, <1>11, <1>12, <1>13 DEF CallIdentified, Calls

-----------------------------------------------------------------------------
(* The steps of a run *)

\* Nothing is connected to begin with.
LEMMA InitEventsInv == EventsInit => EventsInv
<1> SUFFICES ASSUME EventsInit PROVE EventsInv
  OBVIOUS
<1>1. ToSet(<<>>) = {} /\ IsInjective(<<>>)
  BY DEF ToSet, IsInjective
<1>2. ListsTypeOK /\ MarksTypeOK
  <2>1. <<>> \in Seq(Refs) /\ <<>> \in Seq(Modules) /\ <<>> \in Seq(Identifiers)
    OBVIOUS
  <2> QED BY <2>1 DEF EventsInit, ListsTypeOK, MarksTypeOK
<1>3. RegistryAgrees
  BY <1>1 DEF EventsInit, RegistryAgrees, Empty
<1>4. RefsAreHeld
  BY <1>1 DEF EventsInit, RefsAreHeld
<1>5. WalkInv
  BY DEF EventsInit, WalkInv, WalkTypeOK, PlainInv, IdentifiedInv, PlainComplete,
         IdentifiedComplete, CallsOnce, Plain, Identified
<1> QED BY <1>2, <1>3, <1>4, <1>5 DEF EventsInv, Sound

\* Connecting, with a mark or without.
LEMMA ConnectsStep ==
  ASSUME EventsInv, Connects
  PROVE  EventsInv'
<1>1. Sound /\ MarksTypeOK
  BY DEF EventsInv
<1>2. WalkInv'
  <2>1. walk' = NoWalk
    BY DEF Connects, Idle, Connect, ConnectIdentified
  <2> QED BY <2>1, NotWalking
<1>3. PICK m \in Modules, e \in Events, r \in Refs \ refs :
        \/ /\ Connect(m, e, r)
           /\ UNCHANGED onceConnects \/ onceConnects' = [onceConnects EXCEPT ![m] = Append(@, r)]
        \/ \E i \in Identifiers :
             /\ ConnectIdentified(m, e, i, r)
             /\ \/ UNCHANGED identifiedOnceConnects
                \/ identifiedOnceConnects' = [identifiedOnceConnects EXCEPT ![m][e] = Append(@, i)]
  BY DEF Connects
<1>4. CASE /\ Connect(m, e, r)
           /\ UNCHANGED onceConnects \/ onceConnects' = [onceConnects EXCEPT ![m] = Append(@, r)]
  <2>1. Sound'
    BY <1>1, <1>4, ConnectSound
  <2>2. identifiedOnceConnects' = identifiedOnceConnects
    BY <1>4 DEF Connect
  <2> DEFINE more == Append(onceConnects[m], r)
  <2>3. more \in Seq(Refs)
    BY <1>1 DEF MarksTypeOK
  <2>4. onceConnects' = onceConnects \/ onceConnects' = [onceConnects EXCEPT ![m] = more]
    BY <1>4
  <2> HIDE DEF more
  <2>5. MarksTypeOK'
    BY <1>1, <2>2, <2>3, <2>4 DEF MarksTypeOK
  <2> QED BY <1>2, <2>1, <2>5 DEF EventsInv
<1>5. CASE \E i \in Identifiers :
             /\ ConnectIdentified(m, e, i, r)
             /\ \/ UNCHANGED identifiedOnceConnects
                \/ identifiedOnceConnects' = [identifiedOnceConnects EXCEPT ![m][e] = Append(@, i)]
  <2>1. PICK i \in Identifiers :
             /\ ConnectIdentified(m, e, i, r)
             /\ \/ UNCHANGED identifiedOnceConnects
                \/ identifiedOnceConnects' = [identifiedOnceConnects EXCEPT ![m][e] = Append(@, i)]
    BY <1>5
  <2>2. Sound'
    BY <1>1, <2>1, ConnectIdentifiedSound
  <2>3. onceConnects' = onceConnects
    BY <2>1 DEF ConnectIdentified
  <2> DEFINE more == Append(identifiedOnceConnects[m][e], i)
  <2>4. more \in Seq(Identifiers)
    BY <1>1 DEF MarksTypeOK
  <2>5. \/ UNCHANGED identifiedOnceConnects
        \/ identifiedOnceConnects' = [identifiedOnceConnects EXCEPT ![m][e] = more]
    BY <2>1
  <2> HIDE DEF more
  <2>6. identifiedOnceConnects' \in [Modules -> [Events -> Seq(Identifiers)]]
    <3>1. CASE identifiedOnceConnects' = identifiedOnceConnects
      BY <1>1, <3>1 DEF MarksTypeOK
    <3>2. CASE identifiedOnceConnects' = [identifiedOnceConnects EXCEPT ![m][e] = more]
      BY <1>1, <2>4, <3>2, Updated DEF MarksTypeOK
    <3> QED BY <2>5, <3>1, <3>2
  <2>7. MarksTypeOK'
    BY <1>1, <2>3, <2>6 DEF MarksTypeOK
  <2> QED BY <1>2, <2>2, <2>7 DEF EventsInv
<1> QED BY <1>3, <1>4, <1>5

\* Disconnecting, which leaves the marks.
LEMMA DisconnectsStep ==
  ASSUME EventsInv, Disconnects
  PROVE  EventsInv'
<1>1. Sound /\ MarksTypeOK
  BY DEF EventsInv
<1>2. /\ walk' = NoWalk /\ UNCHANGED <<onceConnects, identifiedOnceConnects>>
  BY DEF Disconnects, Idle
<1>3. WalkInv'
  BY <1>2, NotWalking
<1>4. MarksTypeOK'
  BY <1>1, <1>2 DEF MarksTypeOK
<1>5. PICK m \in Modules, e \in Events :
        \/ /\ \E r \in ToSet(eventCallbacks[m][e]) : Disconnect(m, e, r)
           /\ UNCHANGED <<identifiedEventCallbacks, identifiedModuleEvents>>
        \/ /\ \E i \in Identifiers : DisconnectIdentified(m, e, i)
           /\ UNCHANGED <<eventCallbacks, moduleEvents>>
  BY DEF Disconnects
<1>6. Sound'
  BY <1>1, <1>5, DisconnectSound, DisconnectIdentifiedSound
<1> QED BY <1>3, <1>4, <1>6 DEF EventsInv

\* Every step keeps the invariant.
LEMMA EventsStep ==
  ASSUME EventsInv, [EventsNext]_eventsVars
  PROVE  EventsInv'
<1>1. Sound /\ MarksTypeOK
  BY DEF EventsInv
<1>2. CASE Connects
  BY <1>2, ConnectsStep
<1>3. CASE Disconnects
  BY <1>3, DisconnectsStep
<1>4. ASSUME NEW m \in Modules, FreeConnections(m) PROVE EventsInv'
  <2>1. walk' = NoWalk /\ UNCHANGED <<onceConnects, identifiedOnceConnects>>
    BY <1>4 DEF FreeConnections, Idle
  <2> QED BY <1>1, <1>4, <2>1, FreeConnectionsSound, NotWalking DEF EventsInv, MarksTypeOK
<1>5. ASSUME NEW i \in Identifiers, RemoveAllConnectionsById(i) PROVE EventsInv'
  <2>1. walk' = NoWalk /\ UNCHANGED <<onceConnects, identifiedOnceConnects>>
    BY <1>5 DEF RemoveAllConnectionsById, Idle
  <2> QED BY <1>1, <1>5, <2>1, RemoveAllConnectionsByIdSound, NotWalking DEF EventsInv, MarksTypeOK
<1>6. ASSUME UNCHANGED <<modulesVars, registry, refs>> PROVE Sound' /\ MarksTypeOK'
  <2>1. Sound'
    BY <1>1, <1>6, UnchangedSound DEF modulesVars
  <2> QED BY <1>1, <1>6, <2>1 DEF modulesVars, MarksTypeOK
<1>7. ASSUME NEW e \in Events, EmitPlain(e) PROVE EventsInv'
  <2>1. UNCHANGED <<modulesVars, registry, refs>>
    BY <1>7 DEF EmitPlain
  <2> QED BY <1>6, <1>7, <2>1, EmitPlainWalks DEF EventsInv
<1>8. ASSUME NEW e \in Events, NEW i \in Identifiers, EmitIdentified(e, i) PROVE EventsInv'
  <2>1. UNCHANGED <<modulesVars, registry, refs>>
    BY <1>8 DEF EmitIdentified
  <2> QED BY <1>6, <1>8, <2>1, EmitIdentifiedWalks DEF EventsInv
<1>9. CASE NextModule
  <2>1. UNCHANGED <<modulesVars, registry, refs>>
    BY <1>9 DEF NextModule
  <2> QED BY <1>6, <1>9, <2>1, NextModuleWalks DEF EventsInv
<1>10. CASE CallNext
  BY <1>10, CallNextSound, CallNextWalks DEF EventsInv
<1>11. CASE CallIdentified
  BY <1>11, CallIdentifiedSound, CallIdentifiedWalks, CallIdentifiedOnce DEF EventsInv, WalkInv
<1>12. CASE Return
  <2>1. UNCHANGED <<modulesVars, registry, refs>> /\ walk' = NoWalk
    BY <1>12 DEF Return
  <2> QED BY <1>6, <2>1, NotWalking DEF EventsInv
<1>13. CASE UNCHANGED eventsVars
  <2>1. UNCHANGED <<modulesVars, registry, refs>> /\ walk' = walk
    BY <1>13 DEF eventsVars
  <2>2. /\ UNCHANGED <<eventCallbacks, identifiedEventCallbacks, onceConnects,
                       identifiedOnceConnects, moduleEvents, identifiedModuleEvents, refs>>
        /\ NoWalk' = NoWalk /\ NoRef' = NoRef
    BY <2>1 DEF modulesVars, registry, NoWalk, NoRef
  <2>3. /\ (Plain' <=> Plain) /\ (Identified' <=> Identified)
        /\ \A e \in Events : Due(e)' = Due(e) /\ Passed(e)' = Passed(e)
        /\ \A e \in Events, i \in Identifiers : DueIdentified(e, i)' = DueIdentified(e, i)
    BY <2>1, <2>2 DEF Plain, Identified, Due, Passed, DueIdentified
  <2>4. WalkTypeOK' /\ PlainInv' /\ IdentifiedInv'
    BY <2>1, <2>2, <2>3 DEF EventsInv, WalkInv, WalkTypeOK, Walk, PlainInv, IdentifiedInv
  <2>5. PlainComplete'
    BY <2>1, <2>2, <2>3, WalkFields DEF EventsInv, WalkInv, PlainComplete
  <2>6. IdentifiedComplete'
    <3>1. Identified => walk.identifier \in Identifiers /\ walk.event \in Events
      BY WalkFields DEF Identified
    <3> QED BY <2>1, <2>2, <2>3, <3>1 DEF EventsInv, WalkInv, IdentifiedComplete
  <2>7. CallsOnce'
    <3>1. \A k : Answer(k)' = Answer(k)
      BY <2>1, <2>2 DEF Answer
    <3> QED BY <2>1, <2>2, <2>3, <3>1 DEF EventsInv, WalkInv, CallsOnce
  <2> QED BY <1>6, <2>1, <2>4, <2>5, <2>6, <2>7 DEF EventsInv, WalkInv
<1>14. EventsNext \/ UNCHANGED eventsVars
  OBVIOUS
<1> QED BY <1>2, <1>3, <1>4, <1>5, <1>7, <1>8, <1>9, <1>10, <1>11, <1>12, <1>13, <1>14
        DEF EventsNext

\* The invariant holds of every run.
LEMMA EventsInvHolds == EventsSpec => []EventsInv
BY InitEventsInv, EventsStep, PTL DEF EventsSpec

\* The registry, the marks and the place of an emission have their types.
THEOREM EventsTypeCorrect == EventsSpec => [](ListsTypeOK /\ MarksTypeOK /\ WalkTypeOK)
<1>1. EventsInv => ListsTypeOK /\ MarksTypeOK /\ WalkTypeOK
  BY DEF EventsInv, Sound, WalkInv
<1> QED BY <1>1, EventsInvHolds, PTL

\* ModuleManager and the modules agree on who has callbacks for an event.
THEOREM Agree == EventsSpec => []RegistryAgrees
<1>1. EventsInv => RegistryAgrees
  BY DEF EventsInv, Sound
<1> QED BY <1>1, EventsInvHolds, PTL

\* A callback is in one place, and its reference is in use.
THEOREM Held == EventsSpec => []RefsAreHeld
<1>1. EventsInv => RefsAreHeld
  BY DEF EventsInv, Sound
<1> QED BY <1>1, EventsInvHolds, PTL

\* What an emission reads still exists while its callbacks are erased.
THEOREM ReadsLive == EventsSpec => []EmissionReadsLive
<1>1. EventsInv => EmissionReadsLive
  <2> SUFFICES ASSUME EventsInv PROVE EmissionReadsLive
    OBVIOUS
  <2>1. ASSUME Plain, walk.c < Len(walk.callbacks)
        PROVE  /\ eventCallbacks[walk.modules[walk.m]][walk.event] # <<>>
               /\ walk.callbacks[walk.c + 1] \in refs
    <3>1. /\ walk.c \in Nat /\ Len(walk.callbacks) \in Nat
          /\ DOMAIN walk.callbacks = 1 .. Len(walk.callbacks)
      BY <2>1, WalkFields
    <3> DEFINE L == eventCallbacks[walk.modules[walk.m]][walk.event]
    <3>2. Len(L) > 0 /\ ToSet(walk.callbacks) \subseteq refs
      <4>1. /\ Len(L) \in Len(walk.callbacks) - walk.c .. Len(walk.callbacks)
            /\ ToSet(walk.callbacks) \subseteq refs
        BY <2>1, <3>1 DEF EventsInv, WalkInv, PlainInv
      <4> HIDE DEF L
      <4> QED BY <2>1, <3>1, <4>1
    <3>3. walk.c + 1 \in DOMAIN walk.callbacks
      BY <2>1, <3>1
    <3>4. walk.callbacks[walk.c + 1] \in ToSet(walk.callbacks)
      BY <3>3 DEF ToSet
    <3> QED BY <3>2, <3>4
  <2>2. ASSUME Plain, walk.m < Len(walk.modules)
        PROVE  moduleEvents[walk.event] # <<>>
    <3>1. walk.m \in Nat /\ Len(walk.modules) \in Nat
      BY <2>2, WalkFields
    <3>2. Len(moduleEvents[walk.event]) > 0
      BY <2>2, <3>1 DEF EventsInv, WalkInv, PlainInv
    <3> QED BY <3>2
  <2>3. ASSUME Identified, walk.m < Len(walk.modules)
        PROVE  identifiedModuleEvents[walk.event] # <<>>
    <3>1. walk.m \in Nat /\ Len(walk.modules) \in Nat
      BY <2>3, WalkFields
    <3>2. Len(identifiedModuleEvents[walk.event]) > 0
      BY <2>3, <3>1 DEF EventsInv, WalkInv, IdentifiedInv
    <3> QED BY <3>2
  <2> QED BY <2>1, <2>2, <2>3 DEF EmissionReadsLive
<1> QED BY <1>1, EventsInvHolds, PTL

\* An emission calls no callback twice, not even where slots have moved up and a
\* module is met again, and it calls each that was connected if none is erased.
THEOREM EmissionsComplete == EventsSpec => []EmissionIsComplete
<1>1. EventsInv => EmissionIsComplete
  <2> SUFFICES ASSUME EventsInv, Finished
               PROVE  /\ Identified \/ ~walk.erased => IsInjective(walk.calls)
                      /\ ~walk.erased => ToSet(walk.calls) = walk.due
    BY DEF EmissionIsComplete
  <2>0. Identified => IsInjective(walk.calls)
    BY DEF EventsInv, WalkInv, CallsOnce
  <2>1. Plain \/ Identified
    BY DEF Finished, Plain, Identified
  <2>2. /\ walk.m = Len(walk.modules) /\ walk.c = Len(walk.callbacks)
        /\ walk.event \in Events /\ walk.identifier \in Identifiers \cup {NoRef}
        /\ walk.modules \in Seq(Modules) /\ walk.m \in Nat /\ walk.c \in Nat
        /\ DOMAIN walk.modules = 1 .. walk.m /\ DOMAIN walk.callbacks = 1 .. walk.c
    BY <2>1, WalkFields DEF Finished
  <2> DEFINE e == walk.event
             of(k) == ToSet(eventCallbacks[walk.modules[k]][e])
  <2>3. CASE Plain /\ ~walk.erased
    <3>1. /\ walk.modules = moduleEvents[e] /\ walk.due = Due(e) /\ IsInjective(walk.calls)
          /\ walk.callbacks = IF walk.m = 0 THEN <<>> ELSE eventCallbacks[walk.modules[walk.m]][e]
          /\ ToSet(walk.calls) = Passed(e) \cup {walk.callbacks[k] : k \in 1 .. walk.c}
      BY <2>3 DEF EventsInv, WalkInv, PlainComplete
    <3>2. {walk.callbacks[k] : k \in 1 .. walk.c} = IF walk.m = 0 THEN {} ELSE of(walk.m)
      <4>1. {walk.callbacks[k] : k \in 1 .. walk.c} = ToSet(walk.callbacks)
        BY <2>2 DEF ToSet
      <4>2. ToSet(<<>>) = {}
        BY DEF ToSet
      <4> QED BY <3>1, <4>1, <4>2
    <3>3. ToSet(walk.calls) = UNION {of(k) : k \in 1 .. walk.m}
      <4>1. Passed(e) = UNION {of(k) : k \in 1 .. walk.m - 1}
        BY DEF Passed
      <4>2. CASE walk.m = 0
        BY <3>1, <3>2, <4>1, <4>2
      <4>3. CASE walk.m # 0
        <5>1. 1 .. walk.m = (1 .. walk.m - 1) \cup {walk.m}
          BY <2>2, <4>3
        <5> HIDE DEF of
        <5> QED BY <3>1, <3>2, <4>1, <4>3, <5>1
      <4> QED BY <4>2, <4>3
    <3>4. \A m \in Modules : eventCallbacks[m][e] # <<>> => \E k \in 1 .. walk.m : walk.modules[k] = m
      <4>1. \A m \in Modules : eventCallbacks[m][e] # <<>> => m \in ToSet(walk.modules)
        BY <2>2, <3>1 DEF EventsInv, Sound, RegistryAgrees
      <4> QED BY <2>2, <4>1 DEF ToSet
    <3>5. \A m \in Modules : eventCallbacks[m][e] = <<>> => ToSet(eventCallbacks[m][e]) = {}
      BY DEF ToSet
    <3>6. \A k \in 1 .. walk.m : walk.modules[k] \in Modules
      BY <2>2
    <3>7. UNION {of(k) : k \in 1 .. walk.m} = Due(e)
      BY <3>4, <3>5, <3>6 DEF Due
    <3> QED BY <3>1, <3>3, <3>7
  <2>4. CASE Identified /\ ~walk.erased
    <3> DEFINE i == walk.identifier
    <3>1. /\ walk.modules = identifiedModuleEvents[e] /\ walk.due = DueIdentified(e, i)
          /\ ToSet(walk.calls) = {identifiedEventCallbacks[walk.modules[k]][e][i] : k \in 1 .. walk.m}
                                   \ {NoRef}
      BY <2>4 DEF EventsInv, WalkInv, IdentifiedComplete
    <3>2. i \in Identifiers
      BY <2>2, <2>4 DEF Identified
    <3>3. \A m \in Modules : identifiedEventCallbacks[m][e][i] # NoRef
                               => \E k \in 1 .. walk.m : walk.modules[k] = m
      <4>1. \A m \in Modules : identifiedEventCallbacks[m][e][i] # NoRef => m \in ToSet(walk.modules)
        BY <2>2, <3>1, <3>2 DEF EventsInv, Sound, RegistryAgrees, Empty
      <4> QED BY <2>2, <4>1 DEF ToSet
    <3>4. \A k \in 1 .. walk.m : walk.modules[k] \in Modules
      BY <2>2
    <3>5. {identifiedEventCallbacks[walk.modules[k]][e][i] : k \in 1 .. walk.m} \ {NoRef}
            = DueIdentified(e, i)
      BY <3>3, <3>4 DEF DueIdentified
    <3> QED BY <2>0, <2>4, <3>1, <3>5
  <2> QED BY <2>0, <2>1, <2>3, <2>4
<1> QED BY <1>1, EventsInvHolds, PTL
=============================================================================
