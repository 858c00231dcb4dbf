----------------------------- MODULE LuaStack -----------------------------
(***************************************************************************)
(* The stack of the Lua state.  Every C++ function that works on it is the  *)
(* set of its paths: a path is the sequence of its calls into Lua, and of    *)
(* the functions it calls in turn (Do).  Slots hold what a value is, not     *)
(* which: the call that follows finds what it needs, or does not.           *)
(*                                                                          *)
(* The first frame is the program's own; each further frame belongs to a     *)
(* function that a running script called.  A script calls such functions as *)
(* their comments say, ends or fails.  One thread at a time is in Lua; a     *)
(* script does not run in a coroutine.                                       *)
(***************************************************************************)
EXTENDS Integers, SequencesExt

(* A definition whose comment begins with "Mutant" is not part of the model:  *)
(* it is the definition after it with a slip that is easy to make in the     *)
(* code, and is there to see a property fail.                                 *)

CONSTANT MaxFrames   \* bound: frames at a time

ASSUME LuaStackAssumption == MaxFrames \in Nat \ {0}

\* frames[i]: the function, its slots, and what it has left to do.
VARIABLE frames

\* The calls of p, and then those of q.
p ++ q == p \o q

-----------------------------------------------------------------------------
(* The Lua API.  A call has a name, an index or a count, and a value. *)

I(op, n, v) == <<[op |-> op, n |-> n, v |-> v]>>

Push(v)       == I("push", 0, v)           \* and lua_getglobal, lua_rawgeti on the registry
Pop(n)        == I("pop", n, "none")       \* and lua_setglobal, luaL_ref
Take(v)       == I("take", 1, v)           \* LuaStack::Pop<T> or ref() of the argument v
Copy(i)       == I("copy", i, "none")
GetField(i, v) == I("getfield", i, v)      \* and lua_rawgeti on a table
SetField(i)   == I("setfield", i, "none")  \* and lua_rawseti
SetTable(i, v) == I("settable", i, v)      \* into the table v
SetMetatable(i) == I("setmetatable", i, "none")
SetEnv(i)     == I("setfenv", i, "none")
NextPair(found) == I("next", -2, found)
Insert(i)     == I("insert", i, "none")
RemoveHandler(i) == I("remove", i, "handler")
Replace(i)    == I("replace", i, "none")
PushThread    == I("pushthread", 0, "thread")  \* and checkStack()
Call(n)       == I("call", n, "ok1")       \* of a function that is not a script
Closure(n)    == I("closure", n, "none")
Run(n, how)   == I("run", n, how)          \* lua_pcall of a script with n arguments
Do(f)         == I("do", 0, f)

Table == {"table", "config", "_G", "env", "class"}

Index(s, i)  == IF i > 0 THEN i ELSE Len(s) + 1 + i
Has(s, i)    == Index(s, i) \in DOMAIN s
Slot(s, i)   == s[Index(s, i)]
Drop(s, n)   == SubSeq(s, 1, Len(s) - n)
s ** v       == Append(s, v)

\* checkStack() asserts as much; Lua promises a C function as many slots.
Room == 20

\* What the call needs of the stack.
Fits(s, c) ==
  CASE c.op \in {"push", "do"} -> TRUE
    [] c.op = "pushthread" -> Len(s) < Room
    [] c.op = "pop"        -> Len(s) >= c.n
    [] c.op = "take"       -> s # <<>> /\ Last(s) = c.v
    [] c.op = "copy"       -> Has(s, c.n)
    [] c.op = "getfield"   -> Has(s, c.n) /\ Slot(s, c.n) \in Table
    [] c.op = "setfield"   -> Len(s) > 1 /\ Has(s, c.n) /\ Slot(s, c.n) \in Table
    [] c.op = "settable"   -> Len(s) > 2 /\ Has(s, c.n) /\ Slot(s, c.n) = c.v
    [] c.op = "setmetatable" -> Len(s) > 1 /\ Last(s) \in Table /\ Has(s, c.n)
                                /\ Slot(s, c.n) \in Table \cup {"userdata"}
    [] c.op = "setfenv"    -> Len(s) > 1 /\ Last(s) \in Table /\ Slot(s, c.n) = "thread"
    [] c.op = "next"       -> Len(s) > 1 /\ Slot(s, c.n) \in Table /\ Last(s) \in {"nil", "key"}
    [] c.op \in {"insert", "replace"} -> Len(s) > 1 /\ Has(s, c.n)
    [] c.op = "remove"     -> Has(s, c.n) /\ Slot(s, c.n) = c.v
    [] c.op = "closure"    -> Len(s) >= c.n
    [] c.op \in {"call", "run"} ->
         /\ Len(s) > c.n /\ Slot(s, -c.n - 1) = "function"
         /\ c.v \in {"handled", "caught"} => Len(s) > c.n + 1 /\ Slot(s, -c.n - 2) = "handler"

\* What the call leaves.  A script that ends leaves no result, or one ("ok1");
\* one that fails, its error, which went through the handler ("caught") or not.
After(s, c) ==
  CASE c.op \in {"push", "pushthread"} -> s ** c.v
    [] c.op \in {"pop", "take"}        -> Drop(s, c.n)
    [] c.op = "copy"                   -> s ** Slot(s, c.n)
    [] c.op = "getfield"               -> s ** c.v
    [] c.op \in {"setfield", "setmetatable", "setfenv"} -> Drop(s, 1)
    [] c.op = "settable"               -> Drop(s, 2)
    [] c.op = "next" /\ c.v = "more"   -> Drop(s, 1) ** "key" ** "value"
    [] c.op = "next" /\ c.v = "done"   -> Drop(s, 1)
    [] c.op = "insert"                 -> InsertAt(Drop(s, 1), Index(s, c.n), Last(s))
    [] c.op = "replace"                -> Drop([s EXCEPT ![Index(s, c.n)] = Last(s)], 1)
    [] c.op = "remove"                 -> RemoveAt(s, Index(s, c.n))
    [] c.op = "closure"                -> Drop(s, c.n) ** "function"
    [] c.op \in {"call", "run"}        ->
         CASE c.v \in {"ok0", "handled"}  -> Drop(s, c.n + 1)
           [] c.v = "ok1"                 -> Drop(s, c.n + 1) ** "value"
           [] c.v \in {"error", "caught"} -> Drop(s, c.n + 1) ** "message"

-----------------------------------------------------------------------------
(* LuaScript's helpers *)

GetStackTrace == {Push("value") ++ Pop(1),
                  Push("table") ++ GetField(-1, "value") ++ Pop(2),
                  Push("table") ++ GetField(-1, "function") ++ Replace(-2)
                    ++ Push("value") ++ Call(1) ++ Pop(1)}

\* setMetatable(L, -1, name): the index is counted before the metatable is pushed.
SetMetatableOf == {Push("table") ++ SetMetatable(-2)}

\* _G is put into the registry the first time.
GetGlobalEnvironment == {<<>>, Push("_G") ++ Pop(1)}

SetGlobalEnvironment == {PushThread ++ Push("env") ++ SetEnv(-2) ++ Pop(1)}

ResetGlobalEnvironment == {Do("getGlobalEnvironment") ++ Do("setGlobalEnvironment")}

NewSandboxEnv ==
  {Push("table") ++ Push("table") ++ Do("getGlobalEnvironment") ++ Push("_G")
     ++ SetField(-2) ++ SetMetatable(-2) ++ Pop(1)}

\* protectedCall(L, 0, 0): the handler is moved below the function, and removed
\* from below the error.
ProtectedCall(how) ==
  Push("handler") ++ Insert(-2) ++ Run(0, how) ++ RemoveHandler(IF how = "handled" THEN -1 ELSE -2)

LoadFileRuns == {Push("function") ++ ProtectedCall("handled")}

\* The file cannot be loaded, or its script fails: popString takes the message.
LoadFileFails == {Push("message") ++ Pop(1),
                  Push("function") ++ ProtectedCall("caught") ++ Pop(1)}

\* lua_next until there are no more: getString reads the value.
ReadNames == {NextPair("more") ++ Pop(1) ++ Do("readNames"), NextPair("done")}

-----------------------------------------------------------------------------
(* LuaTable *)

\* The registry's reference is to a table, or LUA_NOREF, which gives nil.
TableGet == {Push("nil") ++ Pop(1),
             Push("table") ++ GetField(-1, "nil") ++ Pop(2),
             Push("table") ++ GetField(-1, "value") ++ Pop(1) ++ Pop(1)}

TableInsert == {Push("nil") ++ Pop(1),
                Push("table") ++ Push("value") ++ Push("value") ++ SetTable(-3, "table") ++ Pop(1)}

\* forEach pops the value before it calls func, size after it has counted it.
TableForEach == {Push("nil") ++ Pop(1),
                 Push("table") ++ Push("nil") ++ Do("readNames") ++ Pop(1)}

-----------------------------------------------------------------------------
(* LuaScript::init *)

\* registerTable of a name that is a table already, and of one that is not: the
\* value found is then left on the stack.
RegisterTableFound == {Push("table") ++ Pop(1)}
RegisterTable      == {Push("nil") ++ Push("table") ++ Pop(1)}

RegisterTableFunction == {Push("table") ++ Push("value") ++ Push("function") ++ SetTable(-3, "table") ++ Pop(1)}

\* registerClass: the class, its table of methods until that is its metatable,
\* and the metatable of its objects.  The code keeps their indices; here they
\* are counted from the top.
Constructor == {<<>>, Push("function") ++ SetField(-2)}
Base        == {<<>>, Push("class") ++ GetField(-1, "value") ++ Pop(1) ++ SetField(-2)}

RegisterClass ==
  {Push("class") ++ Copy(-1) ++ Pop(1)
     ++ Push("table") ++ constructor ++ base ++ SetMetatable(-2)
     ++ Push("table") ++ Copy(-2) ++ SetField(-2) ++ Copy(-2) ++ SetField(-2)
     ++ Push("value") ++ SetField(-2) ++ Push("value") ++ SetField(-2) ++ Pop(2) :
     constructor \in Constructor, base \in Base}

RegisterStaticMethod == {Push("class") ++ Push("function") ++ SetField(-2) ++ Pop(1),
                         Push("nil") ++ Pop(1)}
RegisterStaticMetaMethod == {Push("table") ++ Push("function") ++ SetField(-2) ++ Pop(1)}
RegisterGlobalFunction   == {Push("function") ++ Pop(1)}

\* lib/login.lua has made g_login; g_redis is new.  Then the classes and their
\* methods.
Register == {Do("registerGlobalFunction")
               ++ Do("registerTableFound") ++ Do("registerTableFunction")
               ++ Do("registerTable") ++ Do("registerTableFunction") ++ Do("registerClasses")}

RegisterClasses == {Do("registerClass") ++ Do("registerStaticMethod") ++ Do("registerClasses"),
                    Do("registerStaticMetaMethod") ++ Do("registerStaticMethod")}

\* Mutant: the copy of _G counts the index from the copied key.
CopyGlobalsOffByOne == {NextPair("more") ++ Copy(-2) ++ Copy(-2) ++ SetTable(-5, "config") ++ Pop(1) ++ Do("copyGlobals"),
                        NextPair("done")}

\* The globals the configuration has set are copied into g_config's table, which
\* lies below _G.
CopyGlobals == {NextPair("more") ++ Copy(-2) ++ Copy(-2) ++ SetTable(-6, "config") ++ Pop(1) ++ Do("copyGlobals"),
                NextPair("done")}

\* LuaTable::New pushes the table, of which the constructor keeps a reference.
NewConfig == Push("config") ++ Copy(-1) ++ Pop(1)

ScriptInit == {Do("loadFileRuns") ++ NewConfig ++ Push("_G") ++ Push("nil") ++ Do("copyGlobals")
                 ++ Do("loadFileRuns") ++ Do("register")}

ScriptInitFails == {Do("loadFileFails"),
                    Do("loadFileRuns") ++ NewConfig ++ Push("_G") ++ Push("nil")
                      ++ Do("copyGlobals") ++ Do("loadFileFails")}

-----------------------------------------------------------------------------
(* Calling scripts *)

\* One field of the table of arguments: pushTuple, of a value or an object.
Field == {Push("value") ++ SetField(-2),
          Push("userdata") ++ Do("setMetatableOf") ++ SetField(-2)}

Fields == {<<>>, Do("field") ++ Do("fields")}

\* What follows when the table of arguments is on the stack: the callback's
\* reference is pushed, and called with a copy of the table if it is a
\* function.  Where nothing or an error comes of it, the environment stays.
CallField(how) ==
  {Push("value") ++ Pop(2),
   Push("function") ++ Copy(-2) ++ Run(1, "error") ++ Do("getStackTrace") ++ Pop(2),
   Push("function") ++ Copy(-2) ++ Run(1, how) ++ (IF how = "ok1" THEN Pop(1) ELSE <<>>)
     ++ Pop(1) ++ Do("resetGlobalEnvironment")}

\* Mutant: the table stays when there is no function, as in internalCallLuaField.
CallFieldNoRetKeeps ==
  {Push("value") ++ Pop(1),
   Push("function") ++ Copy(-2) ++ Run(1, "error") ++ Do("getStackTrace") ++ Pop(2),
   Push("function") ++ Copy(-2) ++ Run(1, "ok0") ++ Pop(1) ++ Do("resetGlobalEnvironment")}

CallFieldNoRet == CallField("ok0")
CallFieldRef   == CallField("ok1")

\* internalCallLuaFieldNoRet, internalCallLuaFieldRef with one result, and
\* internalCallLuaFieldNoRetRef, in a sandbox.
CallLuaFieldNoRet    == {Do("setGlobalEnvironment") ++ Push("table") ++ Do("fields") ++ Do("callFieldNoRet")}
CallLuaFieldRef      == {Do("setGlobalEnvironment") ++ Push("table") ++ Do("callFieldRef")}
CallLuaFieldNoRetRef == {Do("setGlobalEnvironment") ++ Push("table") ++ Do("callFieldNoRet")}

\* The callbacks an event has, one after the other.
EmitNoRet    == {<<>>, Do("callLuaFieldNoRet") ++ Do("emitNoRet")}
EmitNoRetRef == {<<>>, Do("callLuaFieldNoRetRef") ++ Do("emitNoRetRef")}
EmitRef      == {<<>>, Do("callLuaFieldRef") ++ Do("emitRef")}

-----------------------------------------------------------------------------
(* Modules *)

\* ModuleManager::loadModules: modules.lua fails, has no table, or names some.
LoadModules == {Do("loadFileFails"),
                Do("loadFileRuns") ++ Push("value") ++ Pop(1),
                Do("loadFileRuns") ++ Push("table") ++ Push("nil") ++ Do("readNames") ++ Pop(1)
                  ++ Do("eachModule")}

EachModule == {<<>>, Do("newSandboxEnv") ++ Do("moduleLoad") ++ Do("eachModule")}

\* Module::load: the folder, the settings or their table of files may be missing.
Settings == {<<>>,
             Do("loadFileFails"),
             Do("loadFileRuns") ++ Push("value") ++ Pop(1),
             Do("loadFileRuns") ++ Push("table") ++ Push("nil") ++ Do("readNames") ++ Pop(1)
               ++ Do("eachFile") ++ Do("resetGlobalEnvironment") ++ Do("emitNoRet")}

ModuleLoad ==
  {Do("setGlobalEnvironment") ++ Push("userdata") ++ Do("setMetatableOf") ++ Pop(1) ++ settings :
     settings \in Settings}

\* Module::loadFiles: the global init is cleared, the file is run, and so is the
\* init it may have set.
EachFile ==
  {<<>>} \cup
  {Push("nil") ++ Pop(1) ++ file ++ Do("eachFile") :
     file \in {Do("loadFileFails"),
               Do("loadFileRuns") ++ Push("value") ++ Pop(1),
               Do("loadFileRuns") ++ Push("function") ++ Run(0, "ok0"),
               Do("loadFileRuns") ++ Push("function") ++ Run(0, "error") ++ Pop(1)}}

-----------------------------------------------------------------------------
(* The functions scripts call.  One that finds no object answers nil or false. *)

\* Protocol:getId(), NetworkMessage:getU8() to getString()
Getter == {Take("self") ++ Push("value"), Take("self") ++ Push("nil")}

\* Mutant: the object is taken first.
SetterSwapped == {Take("self") ++ Take("argument") ++ Push("value")}

\* Protocol:send(msg), sendError, sendLoadingMessage(message), and
\* NetworkMessage:addU8(value) to addString
Setter == {Take("argument") ++ Take("self") ++ Push("value")}

\* g_login.getClient(id)
GetClient == {Take("id") ++ Push("userdata") ++ Do("setMetatableOf"), Take("id") ++ Push("nil")}

\* Mutant: the channel is not taken off.
RedisPublishKeeps == {Take("data") ++ Push("value")}

\* g_redis.publish(channel, data), g_redis.subscribe(channel)
RedisPublish   == {Take("data") ++ Take("channel") ++ Push("value")}
RedisSubscribe == {Take("channel") ++ Push("value")}

\* emit(event, tableRef, identifier)
Emit(identifier) == {identifier ++ Take("table") ++ Take("event") ++ Do("emitRef") ++ Push("value")}

\* connect answers false, or two userdata and the function that disconnects.
ConnectAnswer == {Push("value"),
                  Push("userdata") ++ Push("userdata") ++ Push("value") ++ Push("value")
                    ++ Push("value") ++ Closure(3)}

\* What follows the identifier.
Connect(identifier) ==
  {identifier ++ Take("callback") ++ Take("event") ++ Take("self") ++ answer :
     answer \in ConnectAnswer}

\* An explicit nil in the place of the identifier stays on the stack, each
\* argument is taken for the one before it, and connect finds no module.
ConnectNil == {Take("callback") ++ Take("event") ++ Take("self") ++ Push("value")}

\* OutputMessage(), and OutputMessage:delete(), which is also its __gc.
OutputMessageCreate == {Push("userdata") ++ Do("setMetatableOf")}
OutputMessageDelete == {<<>>}

\* luaErrorHandler(message), which protectedCall gives to lua_pcall
ErrorHandler == {Take("message") ++ Do("getStackTrace") ++ Push("value")}

-----------------------------------------------------------------------------
Function ==
  [getStackTrace |-> GetStackTrace, setMetatableOf |-> SetMetatableOf,
   getGlobalEnvironment |-> GetGlobalEnvironment, setGlobalEnvironment |-> SetGlobalEnvironment,
   resetGlobalEnvironment |-> ResetGlobalEnvironment, newSandboxEnv |-> NewSandboxEnv,
   loadFileRuns |-> LoadFileRuns, loadFileFails |-> LoadFileFails, readNames |-> ReadNames,
   tableGet |-> TableGet, tableInsert |-> TableInsert, tableForEach |-> TableForEach,
   copyGlobals |-> CopyGlobals, init |-> ScriptInit, initFails |-> ScriptInitFails,
   register |-> Register, registerGlobalFunction |-> RegisterGlobalFunction,
   registerTableFound |-> RegisterTableFound, registerTable |-> RegisterTable,
   registerTableFunction |-> RegisterTableFunction, registerClasses |-> RegisterClasses,
   registerClass |-> RegisterClass, registerStaticMethod |-> RegisterStaticMethod,
   registerStaticMetaMethod |-> RegisterStaticMetaMethod,
   field |-> Field, fields |-> Fields,
   callFieldNoRet |-> CallFieldNoRet, callFieldRef |-> CallFieldRef,
   callLuaFieldNoRet |-> CallLuaFieldNoRet, callLuaFieldRef |-> CallLuaFieldRef,
   callLuaFieldNoRetRef |-> CallLuaFieldNoRetRef,
   emitNoRet |-> EmitNoRet, emitNoRetRef |-> EmitNoRetRef, emitRef |-> EmitRef,
   loadModules |-> LoadModules, eachModule |-> EachModule,
   moduleLoad |-> ModuleLoad, eachFile |-> EachFile]

B(args, paths) == [args |-> args, paths |-> paths]

Binding ==
  [getter |-> B(<<"self">>, Getter), setter |-> B(<<"self", "argument">>, Setter),
   getClient |-> B(<<"id">>, GetClient),
   publish |-> B(<<"channel", "data">>, RedisPublish), subscribe |-> B(<<"channel">>, RedisSubscribe),
   emit |-> B(<<"event", "table">>, Emit(<<>>)),
   emitIdentified |-> B(<<"event", "table", "identifier">>, Emit(Take("identifier"))),
   connect |-> B(<<"self", "event", "callback">>, Connect(<<>>)),
   connectIdentified |-> B(<<"self", "event", "callback", "identifier">>, Connect(Take("identifier"))),
   connectNil |-> B(<<"self", "event", "callback", "nil">>, ConnectNil),
   create |-> B(<<"class">>, OutputMessageCreate), delete |-> B(<<"self">>, OutputMessageDelete),
   handler |-> B(<<"message">>, ErrorHandler)]

\* What a running script may call; the handler is called for one that fails.
Callable(how) == {b \in DOMAIN Binding : b = "handler" => how = "caught"}

\* What the program calls when Lua is initialised; TableInsert and TableForEach
\* are offered and not called.
Calls == {"tableGet", "tableInsert", "tableForEach", "emitNoRet", "emitNoRetRef", "loadModules"}

-----------------------------------------------------------------------------
Init == frames = <<[of |-> "main", stack |-> <<>>, todo |-> <<>>]>>

Top  == Last(frames)
Now  == Head(Top.todo)
Busy(op) == Top.todo # <<>> /\ Now.op = op
Idle == Len(frames) = 1 /\ Top.todo = <<>>

WithTop(stack, todo) ==
  frames' = [frames EXCEPT ![Len(frames)] = [of |-> Top.of, stack |-> stack, todo |-> todo]]

\* The program calls init first; when init fails, it is over.
Begin == /\ Idle
         /\ \E op \in CASE Top.of = "main"      -> {"init", "initFails"}
                        [] Top.of = "initFails" -> {}
                        [] OTHER                -> Calls :
              frames' = <<[of |-> op, stack |-> Top.stack, todo |-> Do(op)]>>

Enter == /\ Busy("do")
         /\ \E path \in Function[Now.v] : WithTop(Top.stack, path ++ Tail(Top.todo))

CallLua == /\ Top.todo # <<>>
           /\ Now.op \notin {"do", "run"}
           /\ WithTop(After(Top.stack, Now), Tail(Top.todo))

\* A script calls a function: not while init runs its files, before it has
\* registered any.
ScriptCalls == /\ Busy("run")
               /\ Len(frames) < MaxFrames
               /\ frames[1].of \notin {"init", "initFails"}
               /\ \E b \in Callable(Now.v) : \E path \in Binding[b].paths :
                    frames' = Append(frames, [of |-> b, stack |-> Binding[b].args, todo |-> path])

ScriptEnds == Busy("run") /\ WithTop(After(Top.stack, Now), Tail(Top.todo))

Return == /\ Len(frames) > 1
          /\ Top.todo = <<>>
          /\ frames' = Front(frames)

Next == Begin \/ Enter \/ CallLua \/ ScriptCalls \/ ScriptEnds \/ Return

Spec == Init /\ [][Next]_frames

-----------------------------------------------------------------------------
(* Properties *)

\* Each call into Lua finds the slots it is about, with the kind of value it
\* needs: a table where a field is set, the thread below its environment, the
\* function below its arguments and the handler below that, room for the thread
\* (the assertions in LuaScript and the API's own conditions).
OperandsFit == Top.todo # <<>> /\ Now.op # "take" => Fits(Top.stack, Now)

\* A function that scripts call takes each argument for the parameter its
\* comment gives it (the comments of LuaScript's bindings), unless it is given nil
\* for the optional identifier of connect.
ArgumentsMeetParameters == Busy("take") /\ Top.of # "connectNil" => Fits(Top.stack, Now)

\* Whatever path a call took, through errors and nested scripts, the program's
\* frame then holds what init left there: g_config's table, _G, and the value
\* g_redis had before registerTable made it a table.
Balanced == Idle /\ Top.of \notin {"main", "initFails"} => Top.stack = <<"config", "_G", "nil">>

\* What a function that scripts call returns: getTop(L) values for most.
Results(f) == CASE f.of = "create"  -> Tail(f.stack)
                [] f.of = "handler" -> <<Last(f.stack)>>
                [] OTHER            -> f.stack

\* A function returns one value, which is none of its arguments, on every path;
\* delete, which returns what it was called with, and connect, which returns
\* three when it succeeds, do not.
OneResult ==
  Len(frames) > 1 /\ Top.todo = <<>>
    /\ Top.of \notin {"delete", "connect", "connectIdentified", "connectNil"}
  => Len(Results(Top)) = 1 /\ Results(Top)[1] \notin Range(Binding[Top.of].args)
=============================================================================
