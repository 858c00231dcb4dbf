---------------------------- MODULE ModuleLoading ----------------------------
(***************************************************************************)
(* ModuleManager::loadModules: each listed module is constructed with a      *)
(* sandbox of its own, which is installed as the global environment while    *)
(* its files are run, and the init function of a file is called after it.    *)
(* An init may connect callbacks, of the Module object that it finds as the   *)
(* global module.  Callbacks change the installed environment under the      *)
(* loader: an init may emit, and once a callback is connected the             *)
(* dispatcher's thread, which runs already, calls it for a Redis message.    *)
(* The two threads share the Lua state without a lock; the model interleaves *)
(* a callback with every call of the loader that uses the environment.       *)
(*                                                                          *)
(* Settings only declare; a callback only returns or fails.  A module is the *)
(* number of its Module object, which is its place in modules.lua, and also  *)
(* names its sandbox.                                                        *)
(***************************************************************************)
EXTENDS Integers, Sequences

(* A definition whose comment begins with "Mutant" is not part of the model:  *)
(* it is the definition after it with a slip that is easy to make in the     *)
(* code, and is there to see a property fail.                                 *)

CONSTANTS Names,       \* of modules
          MaxModules,  \* bound: modules listed in modules.lua
          MaxFiles     \* bound: files of each module, const.lua among them

ASSUME ModuleLoadingAssumption == /\ MaxModules \in Nat
                                  /\ MaxFiles \in [1 .. MaxModules -> Nat]

VARIABLES
  pc,         \* where loadModules and Module::load are
  listing,    \* the names in modules.lua
  cur,        \* the module being loaded
  files,      \* how many files it has
  file,       \* the file it is at
  env,        \* the installed environment
  moduleIn,   \* the global module of each environment, or 0
  inits,      \* the global init of each environment
  running,    \* the init that runs, and its function environment
  registered, \* modules with a connected callback
  deleted,    \* modules whose load failed
  loaded,     \* ModuleManager::m_modules, as module numbers
  ranIn,      \* the modules files of which were run, with the environments
  disturbed,  \* modules during whose load a callback was called
  early       \* those of them that had not yet written their global module

loader == <<pc, listing, cur, files, file>>
history == <<ranIn, disturbed, early>>
vars == <<loader, env, moduleIn, inits, running, registered, deleted, loaded, history>>

Global == 0
Module == 1 .. MaxModules
Env    == Module \cup {Global}

\* An init function: the module and the file that define it, whose environment is env.
NoInit == [module |-> 0, file |-> 0]
InitFunction == [module : Module \cup {0}, file : Nat]

Init ==
  /\ pc = "modules.lua"
  /\ listing = <<>>
  /\ cur = 0 /\ files = 0 /\ file = 0
  /\ env = Global
  /\ moduleIn = [e \in Env |-> 0]
  /\ inits = [e \in Env |-> NoInit]
  /\ running = [init |-> NoInit, env |-> Global]
  /\ registered = {} /\ deleted = {} /\ loaded = {}
  /\ ranIn = {} /\ disturbed = {} /\ early = {}

-----------------------------------------------------------------------------
(* ModuleManager::loadModules *)

\* modules.lua is missing, fails, or has no table of modules: main returns.
NoModules ==
  /\ pc = "modules.lua" /\ pc' = "failed"
  /\ UNCHANGED <<listing, cur, files, file, env, moduleIn, inits, running, registered, deleted, loaded, history>>

ReadModules ==
  /\ pc = "modules.lua" /\ pc' = "next"
  /\ \E n \in 0 .. MaxModules : listing' \in [1 .. n -> Names]
  /\ UNCHANGED <<cur, files, file, env, moduleIn, inits, running, registered, deleted, loaded, history>>

More == pc = "next" /\ cur < Len(listing)

\* A listed name is not a directory.
SkipModule ==
  /\ More /\ cur' = cur + 1
  /\ UNCHANGED <<pc, listing, files, file, env, moduleIn, inits, running, registered, deleted, loaded, history>>

\* Mutant: the module's sandbox is not installed.
InstalledBefore(m) == env

\* LuaScript::setGlobalEnvironment(m_sandboxEnv)
Installed(m) == m

\* A Module is constructed, and load() installs its sandbox.
StartModule ==
  /\ More /\ cur' = cur + 1
  /\ pc' = "module"
  /\ env' = Installed(cur')
  /\ UNCHANGED <<listing, files, file, moduleIn, inits, running, registered, deleted, loaded, history>>

Done ==
  /\ pc = "next" /\ cur = Len(listing) /\ pc' = "done"
  /\ UNCHANGED <<listing, cur, files, file, env, moduleIn, inits, running, registered, deleted, loaded, history>>

-----------------------------------------------------------------------------
(* Module::load and loadFiles *)

\* The Module object becomes the global module of the environment that is
\* installed by now.
DefineModule ==
  /\ pc = "module" /\ pc' = "settings"
  /\ moduleIn' = [moduleIn EXCEPT ![env] = cur]
  /\ UNCHANGED <<listing, cur, files, file, env, inits, running, registered, deleted, loaded, history>>

\* The dependencies of a module: loadDependencies, which would read them from
\* its settings, is called by nothing.
Dependencies(m) == {}

\* load returns false and the module is deleted; its sandbox stays installed.
Fail == pc' = "next" /\ deleted' = deleted \cup {cur} /\ UNCHANGED <<files, file>>

\* settings.lua is run: missing, failing, without a table of files, or read.
LoadSettings ==
  /\ pc = "settings"
  /\ \/ Fail /\ UNCHANGED ranIn
     \/ /\ ranIn' = ranIn \cup {[module |-> cur, env |-> env]}
        /\ \/ Fail
           \/ /\ \A d \in Dependencies(cur) : \E m \in loaded : listing[m] = d
              /\ files' \in 0 .. MaxFiles[cur] /\ file' = 0 /\ pc' = "files"
              /\ UNCHANGED deleted
  /\ UNCHANGED <<listing, cur, env, moduleIn, inits, running, registered, loaded, disturbed, early>>

\* Mutant: a file that is missing makes the load fail.
MissingFails == Fail /\ UNCHANGED inits

\* loadFiles goes on with the next file.
MissingFile == pc' = "files" /\ file' = file + 1 /\ UNCHANGED <<files, deleted, inits>>

\* Mutant: the init of the file before is not cleared.
ClearedNot == inits

Cleared == [inits EXCEPT ![env] = NoInit]

\* Before a file that is there is run, the global init is cleared.
ClearInit == pc' = "run" /\ file' = file + 1 /\ inits' = Cleared /\ UNCHANGED <<files, deleted>>

NextFile ==
  /\ pc = "files" /\ file < files
  /\ MissingFile \/ ClearInit
  /\ UNCHANGED <<listing, cur, env, moduleIn, running, registered, loaded, history>>

\* A file is run: it may define init, and may fail after it did.
RunFile ==
  /\ pc = "run" /\ pc' \in {"find", "files"}
  /\ ranIn' = ranIn \cup {[module |-> cur, env |-> env]}
  /\ \/ UNCHANGED inits
     \/ inits' = [inits EXCEPT ![env] = [module |-> cur, file |-> file]]
  /\ UNCHANGED <<listing, cur, files, file, env, moduleIn, running, registered, deleted, loaded, disturbed, early>>

\* Where lua_getglobal looks: a sandbox falls back to the global environment.
Holder == IF inits[env] # NoInit THEN env ELSE Global

\* The init that is found is called, in the environment it was defined in.
FindInit ==
  /\ pc = "find"
  /\ \/ inits[Holder] = NoInit /\ pc' = "files" /\ UNCHANGED running
     \/ /\ inits[Holder] # NoInit /\ pc' = "init"
        /\ running' = [init |-> inits[Holder], env |-> Holder]
  /\ UNCHANGED <<listing, cur, files, file, env, moduleIn, inits, registered, deleted, loaded, history>>

\* The object that an init finds as the global module, or 0.
ModuleSeen(e) == IF moduleIn[e] # 0 THEN moduleIn[e] ELSE moduleIn[Global]

\* Module:connect
InitConnects ==
  /\ pc = "init" /\ ModuleSeen(running.env) # 0
  /\ registered' = registered \cup {ModuleSeen(running.env)}
  /\ UNCHANGED <<loader, env, moduleIn, inits, running, deleted, loaded, history>>

\* LuaScript::internalCallLuaField...: the environment is reset after a call
\* that returned, and stays the module's after one that failed.
AfterCall(m, ok) == IF ok THEN Global ELSE m

\* An emission leaves the environment of the last callback it called.  What it
\* reads of a Module that was deleted is freed memory.
Emission ==
  \/ \E m \in registered \ deleted, ok \in BOOLEAN : env' = AfterCall(m, ok)
  \/ registered \cap deleted # {} /\ env' \in Env

\* emit, called by an init: its module is disturbed
InitEmits ==
  /\ pc = "init"
  /\ Emission
  /\ disturbed' = disturbed \cup {cur}
  /\ UNCHANGED <<loader, moduleIn, inits, running, registered, deleted, loaded, ranIn, early>>

Loading == pc \in {"module", "settings", "files", "run", "find", "init"}

\* RedisSubscriber's task emits onRedisMessage on the dispatcher's thread.
DispatcherEmits ==
  /\ Emission
  /\ disturbed' = disturbed \cup {m \in {cur} : Loading}
  /\ early' = early \cup {m \in {cur} : pc = "module"}
  /\ UNCHANGED <<loader, moduleIn, inits, running, registered, deleted, loaded, ranIn>>

\* The init returns, or fails.
InitEnds ==
  /\ pc = "init" /\ pc' = "files"
  /\ running' = [init |-> NoInit, env |-> Global]
  /\ UNCHANGED <<listing, cur, files, file, env, moduleIn, inits, registered, deleted, loaded, history>>

\* Every file was tried: the environment is reset and onLoadModule emitted.
\* A module with the name of a loaded one is not kept in m_modules, nor deleted.
Finish ==
  /\ pc = "files" /\ file = files /\ pc' = "next"
  /\ env' = Global \/ Emission
  /\ loaded' = IF \E m \in loaded : listing[m] = listing[cur] THEN loaded ELSE loaded \cup {cur}
  /\ UNCHANGED <<listing, cur, files, file, moduleIn, inits, running, registered, deleted, history>>

Next == \/ NoModules \/ ReadModules \/ SkipModule \/ StartModule \/ Done
        \/ DefineModule \/ LoadSettings \/ NextFile \/ RunFile \/ FindInit
        \/ InitConnects \/ InitEmits \/ DispatcherEmits \/ InitEnds \/ Finish

Spec == Init /\ [][Next]_vars

-----------------------------------------------------------------------------
(* Properties *)

TypeOK ==
  /\ pc \in {"modules.lua", "next", "module", "settings", "files", "run", "find", "init",
             "done", "failed"}
  /\ listing \in Seq(Names) /\ Len(listing) <= MaxModules
  /\ cur \in 0 .. Len(listing) /\ files \in Nat /\ file \in 0 .. files
  /\ env \in Env
  /\ moduleIn \in [Env -> 0 .. cur]
  /\ inits \in [Env -> InitFunction]
  /\ running \in [init : InitFunction, env : Env]
  /\ registered \subseteq 1 .. cur /\ deleted \subseteq 1 .. cur
  /\ loaded \subseteq 1 .. cur /\ disturbed \subseteq 1 .. cur /\ early \subseteq disturbed
  /\ ranIn \subseteq [module : 1 .. cur, env : Env]

\* A module's files run in its own sandbox, whatever the modules before it left
\* installed; only a callback that is called while the module is loading takes
\* it out of there.
SandboxedUnlessDisturbed == \A r \in ranIn : r.env = r.module \/ r.module \in disturbed

\* The Module objects that events will be sent to have not been deleted: each is
\* being loaded or is in m_modules, if a module of its name is not there already.
\* That is so as long as no callback is called between the two calls of load()
\* that install a sandbox and write the global module into it, for a module that
\* is then deleted: its address stays in another environment, where a later init
\* may find it and connect.
RegisteredAreAlive ==
  early \cap deleted = {} =>
    /\ registered \cap deleted = {}
    /\ \A m \in registered :
          \/ m = cur /\ pc \in {"files", "run", "find", "init"}
          \/ \E k \in loaded : listing[k] = listing[m]

\* The init that runs is that of the file just run, in the module's sandbox,
\* as long as no callback was called while a module was loading.
InitIsOwn ==
  pc = "init" /\ disturbed = {} =>
    running = [init |-> [module |-> cur, file |-> file], env |-> cur]
=============================================================================
