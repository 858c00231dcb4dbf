--------------------------- MODULE LuaStackProofs ---------------------------
(***************************************************************************)
(* No path of the code finds or leaves a wrong slot on Lua's stack, however  *)
(* deep scripts call back into it.  Each call has a rule, what it makes of   *)
(* the stack; each function has an effect, which every one of its paths has  *)
(* by the rules and by the effects of the functions it calls; and what is    *)
(* left to do in a frame leads where the frame's function should end.        *)
(***************************************************************************)
EXTENDS LuaStack, TLAPS

-----------------------------------------------------------------------------
(* Stacks, and what a sequence of calls makes of one *)

\* All the strings there are.
Word ==
  {"_G", "argument", "call", "callFieldNoRet", "callFieldRef",
   "callLuaFieldNoRet", "callLuaFieldNoRetRef", "callLuaFieldRef", "callback",
   "caught", "channel", "class", "closure", "config", "connect",
   "connectIdentified", "connectNil", "copy", "copyGlobals", "create", "data",
   "delete", "do", "done", "eachFile", "eachModule", "emit", "emitIdentified",
   "emitNoRet", "emitNoRetRef", "emitRef", "env", "error", "event", "field",
   "fields", "function", "getClient", "getGlobalEnvironment", "getStackTrace",
   "getfield", "getter", "handled", "handler", "id", "identifier", "init",
   "initFails", "insert", "key", "loadFileFails", "loadFileRuns",
   "loadModules", "main", "message", "moduleLoad", "more", "newSandboxEnv",
   "next", "nil", "none", "ok0", "ok1", "pop", "publish", "push", "pushthread",
   "readNames", "register", "registerClass", "registerClasses",
   "registerGlobalFunction", "registerStaticMetaMethod",
   "registerStaticMethod", "registerTable", "registerTableFound",
   "registerTableFunction", "remove", "replace", "resetGlobalEnvironment",
   "run", "self", "setGlobalEnvironment", "setMetatableOf", "setfenv",
   "setfield", "setmetatable", "settable", "setter", "subscribe", "table",
   "tableForEach", "tableGet", "tableInsert", "take", "thread", "userdata",
   "value"}

Instr == [op : Word, n : Int, v : Word]
Code  == Seq(Instr)
Stack == Seq(Word)

\* The functions that leave the stack as it is, whatever is on it.
Even == {"getStackTrace", "getGlobalEnvironment", "newSandboxEnv", "loadFileRuns", "loadFileFails",
         "tableGet", "tableInsert", "tableForEach", "registerTableFound", "registerTableFunction",
         "registerGlobalFunction", "registerClass", "registerStaticMethod",
         "registerStaticMetaMethod", "registerClasses"}

\* Those that do when there is room for the thread.
Roomy == {"setGlobalEnvironment", "resetGlobalEnvironment", "callLuaFieldNoRet", "callLuaFieldRef",
          "callLuaFieldNoRetRef", "emitNoRet", "emitNoRetRef", "emitRef", "loadModules",
          "eachModule", "moduleLoad", "eachFile"}

\* What setMetatable is given.
Object == Table \cup {"userdata"}

\* What init leaves on the program's stack.
Left == <<>> ** "config" ** "_G" ** "nil"

\* What a function of the code makes of a stack.
Effect(f, s, t) ==
  \/ f \in Even /\ t = s
  \/ f \in Roomy /\ t = s /\ Len(s) < Room
  \/ /\ f = "setMetatableOf" /\ t = s
     /\ \E b \in Stack : \E x \in Object : s = b ** x
  \/ /\ f \in {"field", "fields"} /\ t = s
     /\ \E b \in Stack : \E x \in Table : s = b ** x
  \/ /\ f = "readNames"
     /\ \E b \in Stack : \E x \in Table : \E y \in {"nil", "key"} :
          s = b ** x ** y /\ t = b ** x
  \/ /\ f = "copyGlobals"
     /\ \E b \in Stack : \E y \in {"nil", "key"} :
          /\ s = b ** "config" ** "_G" ** y
          /\ t = b ** "config" ** "_G"
  \/ f \in {"callFieldNoRet", "callFieldRef"} /\ s = t ** "table" /\ Len(t) < Room
  \/ f \in {"registerTable", "register"} /\ t = s ** "nil"
  \/ f = "init" /\ s = <<>> /\ t = Left

\* What one call makes of a stack.
Step(s, c, t) ==
  /\ c.op = "take" => s # <<>> /\ Last(s) = c.v
  /\ c.op \notin {"take", "do"} => Fits(s, c)
  /\ IF c.op = "do" THEN Effect(c.v, s, t) ELSE t = After(s, c)

\* What the calls of p make of it, one after the other.
Plays(s, p, t) ==
  \E at \in [0 .. Len(p) -> Stack] :
    /\ at[0] = s /\ at[Len(p)] = t
    /\ \A k \in 1 .. Len(p) : Step(at[k - 1], p[k], at[k])

\* Each of them is one.
LEMMA Words ==
  /\ "_G" \in Word /\ "argument" \in Word /\ "call" \in Word
  /\ "callFieldNoRet" \in Word /\ "callFieldRef" \in Word
  /\ "callLuaFieldNoRet" \in Word /\ "callLuaFieldNoRetRef" \in Word
  /\ "callLuaFieldRef" \in Word /\ "callback" \in Word /\ "caught" \in Word
  /\ "channel" \in Word /\ "class" \in Word /\ "closure" \in Word /\ "config" \in Word
  /\ "connect" \in Word /\ "connectIdentified" \in Word /\ "connectNil" \in Word
  /\ "copy" \in Word /\ "copyGlobals" \in Word /\ "create" \in Word /\ "data" \in Word
  /\ "delete" \in Word /\ "do" \in Word /\ "done" \in Word /\ "eachFile" \in Word
  /\ "eachModule" \in Word /\ "emit" \in Word /\ "emitIdentified" \in Word
  /\ "emitNoRet" \in Word /\ "emitNoRetRef" \in Word /\ "emitRef" \in Word
  /\ "env" \in Word /\ "error" \in Word /\ "event" \in Word /\ "field" \in Word
  /\ "fields" \in Word /\ "function" \in Word /\ "getClient" \in Word
  /\ "getGlobalEnvironment" \in Word /\ "getStackTrace" \in Word
  /\ "getfield" \in Word /\ "getter" \in Word /\ "handled" \in Word
  /\ "handler" \in Word /\ "id" \in Word /\ "identifier" \in Word /\ "init" \in Word
  /\ "initFails" \in Word /\ "insert" \in Word /\ "key" \in Word
  /\ "loadFileFails" \in Word /\ "loadFileRuns" \in Word /\ "loadModules" \in Word
  /\ "main" \in Word /\ "message" \in Word /\ "moduleLoad" \in Word /\ "more" \in Word
  /\ "newSandboxEnv" \in Word /\ "next" \in Word /\ "nil" \in Word /\ "none" \in Word
  /\ "ok0" \in Word /\ "ok1" \in Word /\ "pop" \in Word /\ "publish" \in Word
  /\ "push" \in Word /\ "pushthread" \in Word /\ "readNames" \in Word
  /\ "register" \in Word /\ "registerClass" \in Word /\ "registerClasses" \in Word
  /\ "registerGlobalFunction" \in Word /\ "registerStaticMetaMethod" \in Word
  /\ "registerStaticMethod" \in Word /\ "registerTable" \in Word
  /\ "registerTableFound" \in Word /\ "registerTableFunction" \in Word
  /\ "remove" \in Word /\ "replace" \in Word /\ "resetGlobalEnvironment" \in Word
  /\ "run" \in Word /\ "self" \in Word /\ "setGlobalEnvironment" \in Word
  /\ "setMetatableOf" \in Word /\ "setfenv" \in Word /\ "setfield" \in Word
  /\ "setmetatable" \in Word /\ "settable" \in Word /\ "setter" \in Word
  /\ "subscribe" \in Word /\ "table" \in Word /\ "tableForEach" \in Word
  /\ "tableGet" \in Word /\ "tableInsert" \in Word /\ "take" \in Word
  /\ "thread" \in Word /\ "userdata" \in Word /\ "value" \in Word
BY DEF Word

\* Two paths in a row are a path.
LEMMA CodeFacts ==
  /\ <<>> \in Code
  /\ \A p, q : p \in Code /\ q \in Code => p ++ q \in Code
BY DEF Code, ++

\* A slot more is a stack.
LEMMA StackFacts ==
  /\ <<>> \in Stack
  /\ \A s, x : s \in Stack /\ x \in Word => s ** x \in Stack
BY DEF Stack, **

\* A call is a program of one instruction.
LEMMA OneCall ==
  ASSUME NEW op \in Word, NEW n \in Int, NEW v \in Word
  PROVE  I(op, n, v) \in Code
<1>1. [op |-> op, n |-> n, v |-> v] \in Instr
  BY DEF Instr
<1> QED BY <1>1 DEF I, Code

\* A path of none.
LEMMA PlaysNothing == ASSUME NEW s \in Stack PROVE Plays(s, <<>>, s)
<1> DEFINE at == [k \in 0 .. Len(<<>>) |-> s]
<1>1. at \in [0 .. Len(<<>>) -> Stack]
  OBVIOUS
<1>2. at[0] = s /\ at[Len(<<>>)] = s
  OBVIOUS
<1>3. \A k \in 1 .. Len(<<>>) : Step(at[k - 1], <<>>[k], at[k])
  OBVIOUS
<1> QED BY <1>1, <1>2, <1>3 DEF Plays

\* A path of one call.
LEMMA PlaysOne ==
  ASSUME NEW s \in Stack, NEW t \in Stack, NEW op \in Word, NEW n \in Int, NEW v \in Word,
         Step(s, [op |-> op, n |-> n, v |-> v], t)
  PROVE  Plays(s, I(op, n, v), t)
<1> DEFINE c == [op |-> op, n |-> n, v |-> v]
           at == [k \in 0 .. 1 |-> IF k = 0 THEN s ELSE t]
<1>1. I(op, n, v) = <<c>> /\ Len(<<c>>) = 1 /\ <<c>>[1] = c
  BY DEF I
<1> HIDE DEF c
<1>2. at \in [0 .. 1 -> Stack] /\ at[0] = s /\ at[1] = t
  OBVIOUS
<1>3. Step(s, c, t)
  BY DEF c
<1>4. \A k \in 1 .. 1 : Step(at[k - 1], <<c>>[k], at[k])
  <2> SUFFICES ASSUME NEW k \in 1 .. 1 PROVE Step(at[k - 1], <<c>>[k], at[k])
    OBVIOUS
  <2>1. k = 1
    OBVIOUS
  <2> HIDE DEF at
  <2> QED BY <2>1, <1>1, <1>2, <1>3
<1> HIDE DEF at
<1> QED BY <1>1, <1>2, <1>4 DEF Plays

\* One path after the other.
LEMMA PlaysThen ==
  ASSUME NEW s, NEW m, NEW t, NEW p \in Code, NEW q \in Code, Plays(s, p, m), Plays(m, q, t)
  PROVE  Plays(s, p ++ q, t)
<1>1. PICK a \in [0 .. Len(p) -> Stack] :
        /\ a[0] = s /\ a[Len(p)] = m
        /\ \A k \in 1 .. Len(p) : Step(a[k - 1], p[k], a[k])
  BY DEF Plays
<1>2. PICK b \in [0 .. Len(q) -> Stack] :
        /\ b[0] = m /\ b[Len(q)] = t
        /\ \A k \in 1 .. Len(q) : Step(b[k - 1], q[k], b[k])
  BY DEF Plays
<1> DEFINE n  == Len(p)
           r  == p ++ q
           at == [k \in 0 .. Len(r) |-> IF k <= n THEN a[k] ELSE b[k - n]]
<1>3. /\ n \in Nat /\ Len(q) \in Nat /\ Len(r) = n + Len(q)
      /\ \A k \in 1 .. n : r[k] = p[k]
      /\ \A k \in n + 1 .. Len(r) : r[k] = q[k - n]
  BY DEF Code, ++
<1> HIDE DEF n, r
<1>4. at \in [0 .. Len(r) -> Stack]
  BY <1>3 DEF n
<1>5. at[0] = s /\ at[Len(r)] = t
  BY <1>1, <1>2, <1>3 DEF n
<1>6. ASSUME NEW k \in 1 .. Len(r) PROVE Step(at[k - 1], r[k], at[k])
  <2>1. CASE k <= n
    <3>1. at[k - 1] = a[k - 1] /\ at[k] = a[k] /\ r[k] = p[k]
      BY <2>1, <1>3
    <3> QED BY <3>1, <2>1, <1>1, <1>3 DEF n
  <2>2. CASE k > n
    <3>1. at[k - 1] = b[k - n - 1] /\ at[k] = b[k - n] /\ r[k] = q[k - n]
      BY <2>2, <1>1, <1>2, <1>3 DEF n
    <3>2. k - n \in 1 .. Len(q)
      BY <2>2, <1>3
    <3> QED BY <3>1, <3>2, <1>2
  <2> QED BY <2>1, <2>2, <1>3
<1> HIDE DEF at
<1> QED BY <1>4, <1>5, <1>6 DEF Plays, r

\* The first call, and then the others.
LEMMA PlaysHead ==
  ASSUME NEW s, NEW t, NEW p \in Code, p # <<>>, Plays(s, p, t)
  PROVE  \E m \in Stack : Step(s, Head(p), m) /\ Plays(m, Tail(p), t)
<1>1. PICK a \in [0 .. Len(p) -> Stack] :
        /\ a[0] = s /\ a[Len(p)] = t
        /\ \A k \in 1 .. Len(p) : Step(a[k - 1], p[k], a[k])
  BY DEF Plays
<1> DEFINE at == [k \in 0 .. Len(Tail(p)) |-> a[k + 1]]
<1>2. Len(p) \in Nat \ {0} /\ Len(Tail(p)) = Len(p) - 1 /\ Head(p) = p[1]
      /\ \A k \in 1 .. Len(p) - 1 : Tail(p)[k] = p[k + 1]
  BY DEF Code
<1>3. at \in [0 .. Len(Tail(p)) -> Stack] /\ at[0] = a[1] /\ at[Len(Tail(p))] = t
  BY <1>1, <1>2
<1>4. ASSUME NEW k \in 1 .. Len(Tail(p)) PROVE Step(at[k - 1], Tail(p)[k], at[k])
  <2>1. at[k - 1] = a[k] /\ at[k] = a[k + 1] /\ Tail(p)[k] = p[k + 1] /\ k + 1 \in 1 .. Len(p)
    BY <1>2
  <2>2. Step(a[k + 1 - 1], p[k + 1], a[k + 1])
    BY <2>1, <1>1
  <2> QED BY <2>1, <2>2
<1>5. Plays(a[1], Tail(p), t)
  <2> HIDE DEF at
  <2> QED BY <1>3, <1>4 DEF Plays
<1>6. a[1] \in Stack /\ Step(s, Head(p), a[1])
  BY <1>1, <1>2
<1> QED BY <1>5, <1>6

\* No calls, no change.
LEMMA PlaysNoMore == ASSUME NEW s, NEW t, Plays(s, <<>>, t) PROVE s = t
BY DEF Plays

-----------------------------------------------------------------------------
(* The calls one by one *)

\* The slots of a stack, counted from its top.
LEMMA Slots ==
  /\ \A s, x : s \in Stack /\ x \in Word =>
       /\ Len(s ** x) = Len(s) + 1 /\ Len(s) \in Nat
       /\ s ** x # <<>> /\ Last(s ** x) = x
       /\ Has(s ** x, -1) /\ Slot(s ** x, -1) = x
       /\ Drop(s ** x, 1) = s
  /\ \A s, x, y : s \in Stack /\ x \in Word /\ y \in Word =>
       /\ Has(s ** x ** y, -2) /\ Slot(s ** x ** y, -2) = x
       /\ Drop(s ** x ** y, 2) = s
  /\ \A s, x, y, z : s \in Stack /\ x \in Word /\ y \in Word /\ z \in Word =>
       /\ Has(s ** x ** y ** z, -3) /\ Slot(s ** x ** y ** z, -3) = x
       /\ Drop(s ** x ** y ** z, 3) = s
  /\ \A s, x, y, z, v, w, u :
       /\ s \in Stack /\ x \in Word /\ y \in Word /\ z \in Word
       /\ v \in Word /\ w \in Word /\ u \in Word
       => /\ Has(s ** x ** y ** z ** v ** w ** u, -6)
          /\ Slot(s ** x ** y ** z ** v ** w ** u, -6) = x
<1>1. ASSUME NEW s \in Stack, NEW x \in Word
      PROVE  /\ Len(s ** x) = Len(s) + 1 /\ Len(s) \in Nat
             /\ s ** x # <<>> /\ (s ** x)[Len(s) + 1] = x
             /\ DOMAIN (s ** x) = 1 .. Len(s) + 1
             /\ SubSeq(s ** x, 1, Len(s)) = s
  BY DEF Stack, **
<1>2. ASSUME NEW s \in Stack, NEW x \in Word
      PROVE  /\ Last(s ** x) = x
             /\ Has(s ** x, -1) /\ Slot(s ** x, -1) = x
             /\ Drop(s ** x, 1) = s
  BY <1>1 DEF Has, Slot, Index, Drop, Last
<1>3. ASSUME NEW s \in Stack, NEW x \in Word, NEW y \in Word
      PROVE  /\ Has(s ** x ** y, -2) /\ Slot(s ** x ** y, -2) = x
             /\ Drop(s ** x ** y, 2) = s
  <2>1. /\ Len(s ** x ** y) = Len(s) + 2 /\ Len(s) \in Nat
        /\ DOMAIN (s ** x ** y) = 1 .. Len(s) + 2
        /\ (s ** x ** y)[Len(s) + 1] = x
        /\ SubSeq(s ** x ** y, 1, Len(s)) = s
    BY DEF Stack, **
  <2> QED BY <2>1 DEF Has, Slot, Index, Drop
<1>4. ASSUME NEW s \in Stack, NEW x \in Word, NEW y \in Word, NEW z \in Word
      PROVE  /\ Has(s ** x ** y ** z, -3) /\ Slot(s ** x ** y ** z, -3) = x
             /\ Drop(s ** x ** y ** z, 3) = s
  <2>1. /\ Len(s ** x ** y ** z) = Len(s) + 3 /\ Len(s) \in Nat
        /\ DOMAIN (s ** x ** y ** z) = 1 .. Len(s) + 3
        /\ (s ** x ** y ** z)[Len(s) + 1] = x
        /\ SubSeq(s ** x ** y ** z, 1, Len(s)) = s
    BY DEF Stack, **
  <2> QED BY <2>1 DEF Has, Slot, Index, Drop
<1>5. ASSUME NEW s \in Stack, NEW x \in Word, NEW y \in Word, NEW z \in Word,
             NEW v \in Word, NEW w \in Word, NEW u \in Word
      PROVE  /\ Has(s ** x ** y ** z ** v ** w ** u, -6)
             /\ Slot(s ** x ** y ** z ** v ** w ** u, -6) = x
  <2>1. /\ Len(s ** x ** y ** z ** v ** w ** u) = Len(s) + 6 /\ Len(s) \in Nat
        /\ DOMAIN (s ** x ** y ** z ** v ** w ** u) = 1 .. Len(s) + 6
        /\ (s ** x ** y ** z ** v ** w ** u)[Len(s) + 1] = x
    BY DEF Stack, **
  <2> QED BY <2>1 DEF Has, Slot, Index
<1> QED BY <1>1, <1>2, <1>3, <1>4, <1>5

\* Two stacks with the same slots are the same.
LEMMA SameSlots ==
  ASSUME NEW a \in Stack, NEW b \in Stack, Len(a) = Len(b), \A i \in 1 .. Len(a) : a[i] = b[i]
  PROVE  a = b
BY DEF Stack

\* A stack under one more slot.
LEMMA OnTop ==
  ASSUME NEW s \in Stack, NEW x \in Word
  PROVE  /\ Len(s) \in Nat /\ Len(s ** x) = Len(s) + 1 /\ s ** x \in Stack
         /\ \A i \in 1 .. Len(s) : (s ** x)[i] = s[i]
         /\ \A i \in {Len(s) + 1} : (s ** x)[i] = x
BY DEF **, Stack

\* The two parts of a stack.
LEMMA Pieces ==
  ASSUME NEW a \in Stack, NEW m \in Nat, m <= Len(a)
  PROVE /\ SubSeq(a, 1, m) \in Stack /\ Len(SubSeq(a, 1, m)) = m
        /\ \A i \in 1 .. m : SubSeq(a, 1, m)[i] = a[i]
        /\ SubSeq(a, m + 1, Len(a)) \in Stack /\ Len(SubSeq(a, m + 1, Len(a))) = Len(a) - m
        /\ \A i \in 1 .. Len(a) - m : SubSeq(a, m + 1, Len(a))[i] = a[m + i]
<1>1. Len(a) \in Nat /\ a \in Seq(Word)
  BY DEF Stack
<1>2. SubSeq(a, 1, m) \in Seq(Word) /\ Len(SubSeq(a, 1, m)) = m
  BY <1>1
<1>3. \A i \in 1 .. m : SubSeq(a, 1, m)[i] = a[i]
  BY <1>1
<1>4. SubSeq(a, m + 1, Len(a)) \in Seq(Word) /\ Len(SubSeq(a, m + 1, Len(a))) = Len(a) - m
  BY <1>1
<1>5. \A i \in 1 .. Len(a) - m : SubSeq(a, m + 1, Len(a))[i] = a[m + i]
  BY <1>1
<1> QED BY <1>2, <1>3, <1>4, <1>5 DEF Stack

\* A stack on another.
LEMMA Joined ==
  ASSUME NEW a \in Stack, NEW b \in Stack
  PROVE /\ a \o b \in Stack /\ Len(a \o b) = Len(a) + Len(b)
        /\ \A i \in 1 .. Len(a) : (a \o b)[i] = a[i]
        /\ \A i \in Len(a) + 1 .. Len(a) + Len(b) : (a \o b)[i] = b[i - Len(a)]
BY DEF Stack
\* What insert, replace and remove do near the top.
LEMMA Shuffles ==
  ASSUME NEW s \in Stack, NEW x \in Word, NEW y \in Word
  PROVE  /\ InsertAt(s ** x, Index(s ** x ** y, -2), y) = s ** y ** x
         /\ Drop([s ** x ** y EXCEPT ![Index(s ** x ** y, -2)] = y], 1) = s ** y
         /\ RemoveAt(s ** x, Index(s ** x, -1)) = s
         /\ RemoveAt(s ** x ** y, Index(s ** x ** y, -2)) = s ** y
<1> DEFINE n == Len(s)
           a == s ** x
           f == a ** y
<1>1. /\ n \in Nat /\ a \in Stack /\ Len(a) = n + 1 /\ a[n + 1] = x
      /\ \A i \in 1 .. n : a[i] = s[i]
  BY OnTop
<1>2. /\ f \in Stack /\ Len(f) = n + 2 /\ f[n + 1] = x /\ f[n + 2] = y
      /\ \A i \in 1 .. n : f[i] = s[i]
  <2> HIDE DEF n, a
  <2>1. /\ a ** y \in Stack /\ Len(a ** y) = Len(a) + 1
        /\ \A i \in 1 .. Len(a) : (a ** y)[i] = a[i]
        /\ \A i \in {Len(a) + 1} : (a ** y)[i] = y
    BY <1>1, OnTop
  <2> HIDE DEF f
  <2>2. f = a ** y
    BY DEF f
  <2> QED BY <1>1, <2>1, <2>2
<1>3. /\ s ** y \in Stack /\ Len(s ** y) = n + 1 /\ (s ** y)[n + 1] = y
      /\ \A i \in 1 .. n : (s ** y)[i] = s[i]
  BY OnTop
<1>4. /\ s ** y ** x \in Stack /\ Len(s ** y ** x) = n + 2
      /\ (s ** y ** x)[n + 1] = y /\ (s ** y ** x)[n + 2] = x
      /\ \A i \in 1 .. n : (s ** y ** x)[i] = s[i]
  <2> DEFINE b == s ** y
  <2> HIDE DEF n, b
  <2>1. b \in Stack /\ Len(b) = n + 1 /\ b[n + 1] = y /\ \A i \in 1 .. n : b[i] = s[i]
    BY <1>3 DEF b
  <2>2. /\ b ** x \in Stack /\ Len(b ** x) = Len(b) + 1
        /\ \A i \in 1 .. Len(b) : (b ** x)[i] = b[i]
        /\ \A i \in {Len(b) + 1} : (b ** x)[i] = x
    BY <2>1, OnTop
  <2>3. /\ b ** x \in Stack /\ Len(b ** x) = n + 2
        /\ (b ** x)[n + 1] = y /\ (b ** x)[n + 2] = x
        /\ \A i \in 1 .. n : (b ** x)[i] = s[i]
    BY <2>1, <2>2, <1>1
  <2> QED BY <2>3 DEF b
<1> HIDE DEF n, a, f
<1>5. Index(f, -2) = n + 1 /\ Index(a, -1) = n + 1
  BY <1>1, <1>2 DEF Index
<1>6. InsertAt(a, n + 1, y) = s ** y ** x
  <2> DEFINE p == SubSeq(a, 1, n)
             q == SubSeq(a, n + 1, Len(a))
             r == p \o <<y>>
             t == r \o q
  <2>1. p \in Stack /\ Len(p) = n /\ \A i \in 1 .. n : p[i] = a[i]
    BY <1>1, Pieces
  <2>2. q \in Stack /\ Len(q) = 1 /\ q[1] = x
    BY <1>1 DEF Stack
  <2>3. <<y>> \in Stack /\ Len(<<y>>) = 1 /\ <<y>>[1] = y
    BY DEF Stack
  <2> HIDE DEF p, q
  <2>4. r \in Stack /\ Len(r) = n + 1 /\ r[n + 1] = y /\ \A i \in 1 .. n : r[i] = s[i]
    BY <2>1, <1>1 DEF Stack
  <2> HIDE DEF r
  <2>5. /\ t \in Stack /\ Len(t) = n + 2 /\ t[n + 1] = y /\ t[n + 2] = x
        /\ \A i \in 1 .. n : t[i] = s[i]
    <3>1. /\ t \in Stack /\ Len(t) = Len(r) + Len(q)
          /\ \A i \in 1 .. Len(r) : t[i] = r[i]
          /\ \A i \in Len(r) + 1 .. Len(r) + Len(q) : t[i] = q[i - Len(r)]
      BY <2>2, <2>4, Joined
    <3> HIDE DEF t
    <3> QED BY <3>1, <2>2, <2>4, <1>1
  <2>6. InsertAt(a, n + 1, y) = t
    BY <1>1 DEF InsertAt, t, r, p, q
  <2> HIDE DEF t
  <2>7. \A i \in 1 .. n + 2 : t[i] = (s ** y ** x)[i]
    BY <2>5, <1>4, <1>1
  <2>8. t = s ** y ** x
    BY <2>5, <2>7, <1>4, SameSlots
  <2> QED BY <2>6, <2>8
<1>7. Drop([f EXCEPT ![n + 1] = y], 1) = s ** y
  <2> DEFINE g == [f EXCEPT ![n + 1] = y]
             t == SubSeq(g, 1, n + 1)
  <2>1. g \in Stack /\ Len(g) = n + 2 /\ g[n + 1] = y /\ \A i \in 1 .. n : g[i] = s[i]
    BY <1>1, <1>2 DEF Stack
  <2> HIDE DEF g
  <2>2. t \in Stack /\ Len(t) = n + 1 /\ \A i \in 1 .. n + 1 : t[i] = g[i]
    BY <2>1, <1>1, Pieces
  <2>3. Drop(g, 1) = t
    BY <2>1, <1>1 DEF Drop
  <2> HIDE DEF t
  <2>4. \A i \in 1 .. n + 1 : t[i] = (s ** y)[i]
    BY <2>1, <2>2, <1>1, <1>3
  <2>5. t = s ** y
    BY <2>2, <2>4, <1>3, SameSlots
  <2> QED BY <2>3, <2>5 DEF g
<1>8. RemoveAt(a, n + 1) = s
  <2> DEFINE p == SubSeq(a, 1, n)
             q == SubSeq(a, n + 2, Len(a))
             t == p \o q
  <2>1. p \in Stack /\ Len(p) = n /\ \A i \in 1 .. n : p[i] = a[i]
    BY <1>1, Pieces
  <2>2. q \in Stack /\ Len(q) = 0
    <3>1. n + 2 = (n + 1) + 1
      BY <1>1
    <3> QED BY <3>1, <1>1, Pieces
  <2>3. RemoveAt(a, n + 1) = t
    BY <1>1 DEF RemoveAt
  <2> HIDE DEF p, q
  <2>4. t \in Stack /\ Len(t) = n /\ \A i \in 1 .. n : t[i] = s[i]
    BY <2>1, <2>2, <1>1, Joined
  <2> HIDE DEF t
  <2>5. t = s
    BY <2>4, SameSlots DEF n
  <2> QED BY <2>3, <2>5
<1>9. RemoveAt(f, n + 1) = s ** y
  <2> DEFINE p == SubSeq(f, 1, n)
             q == SubSeq(f, n + 2, Len(f))
             t == p \o q
  <2>1. p \in Stack /\ Len(p) = n /\ \A i \in 1 .. n : p[i] = f[i]
    BY <1>1, <1>2, Pieces
  <2>2. q \in Stack /\ Len(q) = 1 /\ q[1] = y
    <3>1. n + 2 = (n + 1) + 1
      BY <1>1
    <3> QED BY <3>1, <1>1, <1>2, Pieces
  <2>3. RemoveAt(f, n + 1) = t
    <3>1. (n + 1) - 1 = n /\ (n + 1) + 1 = n + 2
      BY <1>1
    <3> QED BY <3>1, Zenon DEF RemoveAt
  <2> HIDE DEF p, q
  <2>4. t \in Stack /\ Len(t) = n + 1 /\ t[n + 1] = y /\ \A i \in 1 .. n : t[i] = s[i]
    <3>1. /\ t \in Stack /\ Len(t) = Len(p) + Len(q)
          /\ \A i \in 1 .. Len(p) : t[i] = p[i]
          /\ \A i \in Len(p) + 1 .. Len(p) + Len(q) : t[i] = q[i - Len(p)]
      BY <2>1, <2>2, Joined
    <3> HIDE DEF t
    <3> QED BY <3>1, <2>1, <2>2, <1>1, <1>2
  <2> HIDE DEF t
  <2>5. \A i \in 1 .. n + 1 : t[i] = (s ** y)[i]
    BY <2>4, <1>1, <1>3
  <2>6. t = s ** y
    BY <2>4, <2>5, <1>3, SameSlots
  <2> QED BY <2>3, <2>6
<1> QED BY <1>5, <1>6, <1>7, <1>8, <1>9 DEF a, f

\* lua_push...
LEMMA PushPlays ==
  ASSUME NEW s \in Stack, NEW x \in Word
  PROVE  Plays(s, Push(x), s ** x)
<1>1. s \in Stack /\ s ** x \in Stack
  BY StackFacts, Words
<1>2. Step(s, [op |-> "push", n |-> 0, v |-> x], s ** x)
  BY <1>1, Slots, StackFacts, Words DEF Step, Fits, After
<1> QED BY <1>1, <1>2, PlaysOne, Words DEF Push

\* lua_pop of one
LEMMA Pop1Plays ==
  ASSUME NEW s \in Stack, NEW x \in Word
  PROVE  Plays(s ** x, Pop(1), s)
<1>1. s ** x \in Stack /\ s \in Stack
  BY StackFacts, Words
<1>2. Step(s ** x, [op |-> "pop", n |-> 1, v |-> "none"], s)
  BY <1>1, Slots, StackFacts, Words DEF Step, Fits, After
<1> QED BY <1>1, <1>2, PlaysOne, Words DEF Pop

\* lua_pop of two
LEMMA Pop2Plays ==
  ASSUME NEW s \in Stack, NEW x \in Word, NEW y \in Word
  PROVE  Plays(s ** x ** y, Pop(2), s)
<1>1. s ** x ** y \in Stack /\ s \in Stack
  BY StackFacts, Words
<1>2. Step(s ** x ** y, [op |-> "pop", n |-> 2, v |-> "none"], s)
  BY <1>1, Slots, StackFacts, Words DEF Step, Fits, After
<1> QED BY <1>1, <1>2, PlaysOne, Words DEF Pop

\* LuaStack::Pop
LEMMA TakePlays ==
  ASSUME NEW s \in Stack, NEW x \in Word
  PROVE  Plays(s ** x, Take(x), s)
<1>1. s ** x \in Stack /\ s \in Stack
  BY StackFacts, Words
<1>2. Step(s ** x, [op |-> "take", n |-> 1, v |-> x], s)
  BY <1>1, Slots, StackFacts, Words DEF Step, Fits, After
<1> QED BY <1>1, <1>2, PlaysOne, Words DEF Take

\* lua_pushvalue of the top
LEMMA Copy1Plays ==
  ASSUME NEW s \in Stack, NEW x \in Word
  PROVE  Plays(s ** x, Copy(-1), s ** x ** x)
<1>1. s ** x \in Stack /\ s ** x ** x \in Stack
  BY StackFacts, Words
<1>2. Step(s ** x, [op |-> "copy", n |-> -1, v |-> "none"], s ** x ** x)
  BY <1>1, Slots, StackFacts, Words DEF Step, Fits, After
<1> QED BY <1>1, <1>2, PlaysOne, Words DEF Copy

\* lua_pushvalue of the slot below
LEMMA Copy2Plays ==
  ASSUME NEW s \in Stack, NEW x \in Word, NEW y \in Word
  PROVE  Plays(s ** x ** y, Copy(-2), s ** x ** y ** x)
<1>1. s ** x ** y \in Stack /\ s ** x ** y ** x \in Stack
  BY StackFacts, Words
<1>2. Step(s ** x ** y, [op |-> "copy", n |-> -2, v |-> "none"], s ** x ** y ** x)
  BY <1>1, Slots, StackFacts, Words DEF Step, Fits, After
<1> QED BY <1>1, <1>2, PlaysOne, Words DEF Copy

\* lua_getfield
LEMMA GetFieldPlays ==
  ASSUME NEW s \in Stack, NEW x \in Word, NEW y \in Word, x \in Table
  PROVE  Plays(s ** x, GetField(-1, y), s ** x ** y)
<1>1. s ** x \in Stack /\ s ** x ** y \in Stack
  BY StackFacts, Words
<1>2. Step(s ** x, [op |-> "getfield", n |-> -1, v |-> y], s ** x ** y)
  BY <1>1, Slots, StackFacts, Words DEF Step, Fits, After
<1> QED BY <1>1, <1>2, PlaysOne, Words DEF GetField

\* lua_setfield
LEMMA SetFieldPlays ==
  ASSUME NEW s \in Stack, NEW x \in Word, NEW y \in Word, x \in Table
  PROVE  Plays(s ** x ** y, SetField(-2), s ** x)
<1>1. s ** x ** y \in Stack /\ s ** x \in Stack
  BY StackFacts, Words
<1>2. Step(s ** x ** y, [op |-> "setfield", n |-> -2, v |-> "none"], s ** x)
  BY <1>1, Slots, StackFacts, Words DEF Step, Fits, After
<1> QED BY <1>1, <1>2, PlaysOne, Words DEF SetField

\* lua_settable
LEMMA SetTable3Plays ==
  ASSUME NEW s \in Stack, NEW x \in Word, NEW y \in Word, NEW z \in Word
  PROVE  Plays(s ** x ** y ** z, SetTable(-3, x), s ** x)
<1>1. s ** x ** y ** z \in Stack /\ s ** x \in Stack
  BY StackFacts, Words
<1>2. Step(s ** x ** y ** z, [op |-> "settable", n |-> -3, v |-> x], s ** x)
  BY <1>1, Slots, StackFacts, Words DEF Step, Fits, After
<1> QED BY <1>1, <1>2, PlaysOne, Words DEF SetTable

\* lua_settable of a table further down
LEMMA SetTable6Plays ==
  ASSUME NEW s \in Stack, NEW x \in Word, NEW y \in Word, NEW z \in Word,
         NEW v \in Word, NEW w \in Word, NEW u \in Word
  PROVE  Plays(s ** x ** y ** z ** v ** w ** u, SetTable(-6, x), s ** x ** y ** z ** v)
<1>1. s ** x ** y ** z ** v ** w ** u \in Stack /\ s ** x ** y ** z ** v \in Stack
  BY StackFacts, Words
<1>2. Step(s ** x ** y ** z ** v ** w ** u, [op |-> "settable", n |-> -6, v |-> x],
           s ** x ** y ** z ** v)
  BY <1>1, Slots, StackFacts, Words DEF Step, Fits, After
<1> QED BY <1>1, <1>2, PlaysOne, Words DEF SetTable

\* lua_setmetatable
LEMMA SetMetatablePlays ==
  ASSUME NEW s \in Stack, NEW x \in Word, NEW y \in Word, x \in Object, y \in Table
  PROVE  Plays(s ** x ** y, SetMetatable(-2), s ** x)
<1>1. s ** x ** y \in Stack /\ s ** x \in Stack
  BY StackFacts, Words
<1>2. Step(s ** x ** y, [op |-> "setmetatable", n |-> -2, v |-> "none"], s ** x)
  BY <1>1, Slots, StackFacts, Words DEF Step, Fits, After, Object
<1> QED BY <1>1, <1>2, PlaysOne, Words DEF SetMetatable

\* lua_setfenv
LEMMA SetEnvPlays ==
  ASSUME NEW s \in Stack, NEW x \in Word, x \in Table
  PROVE  Plays(s ** "thread" ** x, SetEnv(-2), s ** "thread")
<1>1. s ** "thread" ** x \in Stack /\ s ** "thread" \in Stack
  BY StackFacts, Words
<1>2. Step(s ** "thread" ** x, [op |-> "setfenv", n |-> -2, v |-> "none"], s ** "thread")
  BY <1>1, Slots, StackFacts, Words DEF Step, Fits, After
<1> QED BY <1>1, <1>2, PlaysOne, Words DEF SetEnv

\* lua_next that finds a pair
LEMMA NextPlays ==
  ASSUME NEW s \in Stack, NEW x \in Word, NEW y \in Word, x \in Table, y \in {"nil", "key"}
  PROVE  Plays(s ** x ** y, NextPair("more"), s ** x ** "key" ** "value")
<1>1. s ** x ** y \in Stack /\ s ** x ** "key" ** "value" \in Stack
  BY StackFacts, Words
<1>2. Step(s ** x ** y, [op |-> "next", n |-> -2, v |-> "more"], s ** x ** "key" ** "value")
  BY <1>1, Slots, StackFacts, Words DEF Step, Fits, After
<1> QED BY <1>1, <1>2, PlaysOne, Words DEF NextPair

\* lua_next that finds none
LEMMA DonePlays ==
  ASSUME NEW s \in Stack, NEW x \in Word, NEW y \in Word, x \in Table, y \in {"nil", "key"}
  PROVE  Plays(s ** x ** y, NextPair("done"), s ** x)
<1>1. s ** x ** y \in Stack /\ s ** x \in Stack
  BY StackFacts, Words
<1>2. Step(s ** x ** y, [op |-> "next", n |-> -2, v |-> "done"], s ** x)
  BY <1>1, Slots, StackFacts, Words DEF Step, Fits, After
<1> QED BY <1>1, <1>2, PlaysOne, Words DEF NextPair

\* lua_insert
LEMMA InsertPlays ==
  ASSUME NEW s \in Stack, NEW x \in Word, NEW y \in Word
  PROVE  Plays(s ** x ** y, Insert(-2), s ** y ** x)
<1>1. s ** x ** y \in Stack /\ s ** y ** x \in Stack
  BY StackFacts, Words
<1>3. /\ Len(s ** x ** y) > 1
      /\ InsertAt(Drop(s ** x ** y, 1), Index(s ** x ** y, -2), Last(s ** x ** y)) = s ** y ** x
  <2>1. /\ s ** x \in Stack /\ Len(s ** x ** y) = Len(s ** x) + 1
        /\ Len(s ** x) = Len(s) + 1 /\ Len(s) \in Nat
        /\ Drop(s ** x ** y, 1) = s ** x /\ Last(s ** x ** y) = y
    BY StackFacts, Slots
  <2>2. InsertAt(s ** x, Index(s ** x ** y, -2), y) = s ** y ** x
    BY Shuffles
  <2> QED BY <2>1, <2>2
<1>2. Step(s ** x ** y, [op |-> "insert", n |-> -2, v |-> "none"], s ** y ** x)
  BY <1>1, <1>3, Slots, StackFacts, Words DEF Step, Fits, After
<1> QED BY <1>1, <1>2, PlaysOne, Words DEF Insert

\* lua_remove of the top
LEMMA Remove1Plays ==
  ASSUME NEW s \in Stack
  PROVE  Plays(s ** "handler", RemoveHandler(-1), s)
<1>1. s ** "handler" \in Stack /\ s \in Stack
  BY StackFacts, Words
<1>3. /\ Has(s ** "handler", -1) /\ Slot(s ** "handler", -1) = "handler"
      /\ RemoveAt(s ** "handler", Index(s ** "handler", -1)) = s
  <2>1. "handler" \in Word
    BY Words
  <2>2. RemoveAt(s ** "handler", Index(s ** "handler", -1)) = s
    BY <2>1, Shuffles
  <2>3. Has(s ** "handler", -1) /\ Slot(s ** "handler", -1) = "handler"
    BY <2>1, Slots
  <2> QED BY <2>2, <2>3
<1>2. Step(s ** "handler", [op |-> "remove", n |-> -1, v |-> "handler"], s)
  BY <1>1, <1>3, Slots, StackFacts, Words DEF Step, Fits, After
<1> QED BY <1>1, <1>2, PlaysOne, Words DEF RemoveHandler

\* lua_remove of the slot below
LEMMA Remove2Plays ==
  ASSUME NEW s \in Stack, NEW x \in Word
  PROVE  Plays(s ** "handler" ** x, RemoveHandler(-2), s ** x)
<1>1. s ** "handler" ** x \in Stack /\ s ** x \in Stack
  BY StackFacts, Words
<1>3. /\ Has(s ** "handler" ** x, -2) /\ Slot(s ** "handler" ** x, -2) = "handler"
      /\ RemoveAt(s ** "handler" ** x, Index(s ** "handler" ** x, -2)) = s ** x
  <2>1. "handler" \in Word
    BY Words
  <2>2. RemoveAt(s ** "handler" ** x, Index(s ** "handler" ** x, -2)) = s ** x
    BY <2>1, Shuffles
  <2>3. Has(s ** "handler" ** x, -2) /\ Slot(s ** "handler" ** x, -2) = "handler"
    BY <2>1, Slots
  <2> QED BY <2>2, <2>3
<1>2. Step(s ** "handler" ** x, [op |-> "remove", n |-> -2, v |-> "handler"], s ** x)
  BY <1>1, <1>3, Slots, StackFacts, Words DEF Step, Fits, After
<1> QED BY <1>1, <1>2, PlaysOne, Words DEF RemoveHandler

\* lua_replace
LEMMA ReplacePlays ==
  ASSUME NEW s \in Stack, NEW x \in Word, NEW y \in Word
  PROVE  Plays(s ** x ** y, Replace(-2), s ** y)
<1>1. s ** x ** y \in Stack /\ s ** y \in Stack
  BY StackFacts, Words
<1>2. Step(s ** x ** y, [op |-> "replace", n |-> -2, v |-> "none"], s ** y)
  BY <1>1, Slots, Shuffles, StackFacts, Words DEF Step, Fits, After
<1> QED BY <1>1, <1>2, PlaysOne, Words DEF Replace

\* lua_pushthread
LEMMA ThreadPlays ==
  ASSUME NEW s \in Stack, Len(s) < Room
  PROVE  Plays(s, PushThread, s ** "thread")
<1>1. s \in Stack /\ s ** "thread" \in Stack
  BY StackFacts, Words
<1>2. Step(s, [op |-> "pushthread", n |-> 0, v |-> "thread"], s ** "thread")
  BY <1>1, Slots, StackFacts, Words DEF Step, Fits, After
<1> QED BY <1>1, <1>2, PlaysOne, Words DEF PushThread

\* lua_call
LEMMA CallPlays ==
  ASSUME NEW s \in Stack, NEW x \in Word
  PROVE  Plays(s ** "function" ** x, Call(1), s ** "value")
<1>1. s ** "function" ** x \in Stack /\ s ** "value" \in Stack
  BY StackFacts, Words
<1>2. Step(s ** "function" ** x, [op |-> "call", n |-> 1, v |-> "ok1"], s ** "value")
  BY <1>1, Slots, StackFacts, Words DEF Step, Fits, After
<1> QED BY <1>1, <1>2, PlaysOne, Words DEF Call

\* lua_pushcclosure
LEMMA ClosurePlays ==
  ASSUME NEW s \in Stack, NEW x \in Word, NEW y \in Word, NEW z \in Word
  PROVE  Plays(s ** x ** y ** z, Closure(3), s ** "function")
<1>1. s ** x ** y ** z \in Stack /\ s ** "function" \in Stack
  BY StackFacts, Words
<1>2. Step(s ** x ** y ** z, [op |-> "closure", n |-> 3, v |-> "none"], s ** "function")
  BY <1>1, Slots, StackFacts, Words DEF Step, Fits, After
<1> QED BY <1>1, <1>2, PlaysOne, Words DEF Closure

\* lua_pcall with a handler
LEMMA HandledPlays ==
  ASSUME NEW s \in Stack
  PROVE  Plays(s ** "handler" ** "function", Run(0, "handled"), s ** "handler")
<1>1. s ** "handler" ** "function" \in Stack /\ s ** "handler" \in Stack
  BY StackFacts, Words
<1>2. Step(s ** "handler" ** "function", [op |-> "run", n |-> 0, v |-> "handled"], s ** "handler")
  BY <1>1, Slots, StackFacts, Words DEF Step, Fits, After
<1> QED BY <1>1, <1>2, PlaysOne, Words DEF Run

\* lua_pcall whose error goes through the handler
LEMMA CaughtPlays ==
  ASSUME NEW s \in Stack
  PROVE  Plays(s ** "handler" ** "function", Run(0, "caught"), s ** "handler" ** "message")
<1>1. s ** "handler" ** "function" \in Stack /\ s ** "handler" ** "message" \in Stack
  BY StackFacts, Words
<1>2. Step(s ** "handler" ** "function", [op |-> "run", n |-> 0, v |-> "caught"],
           s ** "handler" ** "message")
  BY <1>1, Slots, StackFacts, Words DEF Step, Fits, After
<1> QED BY <1>1, <1>2, PlaysOne, Words DEF Run

\* lua_pcall without arguments
LEMMA Run0Plays ==
  ASSUME NEW s \in Stack
  PROVE  Plays(s ** "function", Run(0, "ok0"), s)
<1>1. s ** "function" \in Stack /\ s \in Stack
  BY StackFacts, Words
<1>2. Step(s ** "function", [op |-> "run", n |-> 0, v |-> "ok0"], s)
  BY <1>1, Slots, StackFacts, Words DEF Step, Fits, After
<1> QED BY <1>1, <1>2, PlaysOne, Words DEF Run

\* lua_pcall without arguments that fails
LEMMA Run0Fails ==
  ASSUME NEW s \in Stack
  PROVE  Plays(s ** "function", Run(0, "error"), s ** "message")
<1>1. s ** "function" \in Stack /\ s ** "message" \in Stack
  BY StackFacts, Words
<1>2. Step(s ** "function", [op |-> "run", n |-> 0, v |-> "error"], s ** "message")
  BY <1>1, Slots, StackFacts, Words DEF Step, Fits, After
<1> QED BY <1>1, <1>2, PlaysOne, Words DEF Run

\* lua_pcall with an argument
LEMMA Run1Plays ==
  ASSUME NEW s \in Stack, NEW x \in Word
  PROVE  Plays(s ** "function" ** x, Run(1, "ok0"), s)
<1>1. s ** "function" ** x \in Stack /\ s \in Stack
  BY StackFacts, Words
<1>2. Step(s ** "function" ** x, [op |-> "run", n |-> 1, v |-> "ok0"], s)
  BY <1>1, Slots, StackFacts, Words DEF Step, Fits, After
<1> QED BY <1>1, <1>2, PlaysOne, Words DEF Run

\* lua_pcall with an argument and a result
LEMMA Run1Gives ==
  ASSUME NEW s \in Stack, NEW x \in Word
  PROVE  Plays(s ** "function" ** x, Run(1, "ok1"), s ** "value")
<1>1. s ** "function" ** x \in Stack /\ s ** "value" \in Stack
  BY StackFacts, Words
<1>2. Step(s ** "function" ** x, [op |-> "run", n |-> 1, v |-> "ok1"], s ** "value")
  BY <1>1, Slots, StackFacts, Words DEF Step, Fits, After
<1> QED BY <1>1, <1>2, PlaysOne, Words DEF Run

\* lua_pcall with an argument that fails
LEMMA Run1Fails ==
  ASSUME NEW s \in Stack, NEW x \in Word
  PROVE  Plays(s ** "function" ** x, Run(1, "error"), s ** "message")
<1>1. s ** "function" ** x \in Stack /\ s ** "message" \in Stack
  BY StackFacts, Words
<1>2. Step(s ** "function" ** x, [op |-> "run", n |-> 1, v |-> "error"], s ** "message")
  BY <1>1, Slots, StackFacts, Words DEF Step, Fits, After
<1> QED BY <1>1, <1>2, PlaysOne, Words DEF Run

-----------------------------------------------------------------------------
(* The rules of a path: what a call makes of the stack, and then the calls p *)

\* Every call is code.
LEMMA CallsAreCode ==
  /\ \A x : x \in Word => Push(x) \in Code /\ Take(x) \in Code /\ Do(x) \in Code
  /\ \A n : n \in Int =>
       /\ Pop(n) \in Code /\ Copy(n) \in Code /\ SetField(n) \in Code
       /\ SetMetatable(n) \in Code /\ SetEnv(n) \in Code /\ Insert(n) \in Code
       /\ RemoveHandler(n) \in Code /\ Replace(n) \in Code /\ Call(n) \in Code
       /\ Closure(n) \in Code
  /\ \A n, x : n \in Int /\ x \in Word =>
       GetField(n, x) \in Code /\ SetTable(n, x) \in Code /\ Run(n, x) \in Code
  /\ NextPair("more") \in Code /\ NextPair("done") \in Code /\ PushThread \in Code
BY OneCall, Words DEF Push, Take, Do, Pop, Copy, SetField, SetMetatable, SetEnv, Insert,
     RemoveHandler, Replace, Call, Closure, GetField, SetTable, Run, NextPair, PushThread

\* A call of one of the code's own functions.
LEMMA DoPlays ==
  ASSUME NEW s \in Stack, NEW t \in Stack, NEW f \in Word, Effect(f, s, t)
  PROVE  Plays(s, Do(f), t)
<1>1. Step(s, [op |-> "do", n |-> 0, v |-> f], t)
  BY DEF Step
<1> QED BY <1>1, PlaysOne, Words DEF Do

\* Two paths in a row.
LEMMA InARow ==
  \A s, m, t, p, q :
    p \in Code /\ q \in Code /\ Plays(s, p, m) /\ Plays(m, q, t) => Plays(s, p ++ q, t)
BY PlaysThen

\* Paths in a row.
LEMMA RowRules ==
  /\ \A s, p, q, r, t :
       p \in Code /\ q \in Code /\ r \in Code /\ Plays(s, p ++ (q ++ r), t)
       => Plays(s, (p ++ q) ++ r, t)
  /\ \A s, p, t : p \in Code /\ Plays(s, p, t) => Plays(s, <<>> ++ p, t)
  /\ \A s : s \in Stack => Plays(s, <<>>, s)
<1>1. ASSUME NEW p \in Code, NEW q \in Code, NEW r \in Code
      PROVE  (p ++ q) ++ r = p ++ (q ++ r)
  BY DEF Code, ++
<1>2. ASSUME NEW p \in Code PROVE <<>> ++ p = p
  BY DEF Code, ++
<1> QED BY <1>1, <1>2, PlaysNothing

\* What is pushed.
LEMMA PushRules ==
  /\ \A s, x : s \in Stack /\ x \in Word => Plays(s, Push(x), s ** x)
  /\ \A s, x : s \in Stack /\ x \in Word => Plays(s ** x, Copy(-1), s ** x ** x)
  /\ \A s, x, y :
       s \in Stack /\ x \in Word /\ y \in Word
       => Plays(s ** x ** y, Copy(-2), s ** x ** y ** x)
  /\ \A s, x, p, t :
       s \in Stack /\ x \in Word /\ p \in Code /\ Plays(s ** x, p, t)
       => Plays(s, Push(x) ++ p, t)
  /\ \A s, x, p, t :
       s \in Stack /\ x \in Word /\ p \in Code /\ Plays(s ** x ** x, p, t)
       => Plays(s ** x, Copy(-1) ++ p, t)
  /\ \A s, x, y, p, t :
       s \in Stack /\ x \in Word /\ y \in Word /\ p \in Code
       /\ Plays(s ** x ** y ** x, p, t)
       => Plays(s ** x ** y, Copy(-2) ++ p, t)
  /\ \A s, x, y, p, t :
       s \in Stack /\ x \in Word /\ y \in Word /\ x \in Table /\ p \in Code
       /\ Plays(s ** x ** y, p, t)
       => Plays(s ** x, GetField(-1, y) ++ p, t)
  /\ \A s, p, t :
       s \in Stack /\ Len(s) < Room /\ p \in Code /\ Plays(s ** "thread", p, t)
       => Plays(s, PushThread ++ p, t)
<1>1. \A s, x : s \in Stack /\ x \in Word => Plays(s, Push(x), s ** x)
  BY PushPlays, Words
<1>2. \A s, x : s \in Stack /\ x \in Word => Plays(s ** x, Copy(-1), s ** x ** x)
  BY Copy1Plays, Words
<1>3. \A s, x, y :
       s \in Stack /\ x \in Word /\ y \in Word
       => Plays(s ** x ** y, Copy(-2), s ** x ** y ** x)
  BY Copy2Plays, Words
<1>4. \A s, x, y :
       s \in Stack /\ x \in Word /\ y \in Word /\ x \in Table
       => Plays(s ** x, GetField(-1, y), s ** x ** y)
  BY GetFieldPlays, Words
<1>5. \A s : s \in Stack /\ Len(s) < Room => Plays(s, PushThread, s ** "thread")
  BY ThreadPlays, Words
<1>6. \A s, x, p, t :
       s \in Stack /\ x \in Word /\ p \in Code /\ Plays(s ** x, p, t)
       => Plays(s, Push(x) ++ p, t)
  BY <1>1, InARow, CallsAreCode, Words
<1>7. \A s, x, p, t :
       s \in Stack /\ x \in Word /\ p \in Code /\ Plays(s ** x ** x, p, t)
       => Plays(s ** x, Copy(-1) ++ p, t)
  BY <1>2, InARow, CallsAreCode, Words
<1>8. \A s, x, y, p, t :
       s \in Stack /\ x \in Word /\ y \in Word /\ p \in Code
       /\ Plays(s ** x ** y ** x, p, t)
       => Plays(s ** x ** y, Copy(-2) ++ p, t)
  BY <1>3, InARow, CallsAreCode, Words
<1>9. \A s, x, y, p, t :
       s \in Stack /\ x \in Word /\ y \in Word /\ x \in Table /\ p \in Code
       /\ Plays(s ** x ** y, p, t)
       => Plays(s ** x, GetField(-1, y) ++ p, t)
  BY <1>4, InARow, CallsAreCode, Words
<1>10. \A s, p, t :
       s \in Stack /\ Len(s) < Room /\ p \in Code /\ Plays(s ** "thread", p, t)
       => Plays(s, PushThread ++ p, t)
  BY <1>5, InARow, CallsAreCode, Words
<1> QED BY <1>1, <1>2, <1>3, <1>6, <1>7, <1>8, <1>9, <1>10

\* What is popped, taken or moved.
LEMMA PopRules ==
  /\ \A s, x : s \in Stack /\ x \in Word => Plays(s ** x, Pop(1), s)
  /\ \A s, x, y : s \in Stack /\ x \in Word /\ y \in Word => Plays(s ** x ** y, Pop(2), s)
  /\ \A s, x : s \in Stack /\ x \in Word => Plays(s ** x, Take(x), s)
  /\ \A s : s \in Stack => Plays(s ** "handler", RemoveHandler(-1), s)
  /\ \A s, x, p, t :
       s \in Stack /\ x \in Word /\ p \in Code /\ Plays(s, p, t)
       => Plays(s ** x, Pop(1) ++ p, t)
  /\ \A s, x, y, p, t :
       s \in Stack /\ x \in Word /\ y \in Word /\ p \in Code /\ Plays(s, p, t)
       => Plays(s ** x ** y, Pop(2) ++ p, t)
  /\ \A s, x, p, t :
       s \in Stack /\ x \in Word /\ p \in Code /\ Plays(s, p, t)
       => Plays(s ** x, Take(x) ++ p, t)
  /\ \A s, x, y, p, t :
       s \in Stack /\ x \in Word /\ y \in Word /\ p \in Code /\ Plays(s ** y ** x, p, t)
       => Plays(s ** x ** y, Insert(-2) ++ p, t)
  /\ \A s, p, t :
       s \in Stack /\ p \in Code /\ Plays(s, p, t)
       => Plays(s ** "handler", RemoveHandler(-1) ++ p, t)
  /\ \A s, x, p, t :
       s \in Stack /\ x \in Word /\ p \in Code /\ Plays(s ** x, p, t)
       => Plays(s ** "handler" ** x, RemoveHandler(-2) ++ p, t)
  /\ \A s, x, y, p, t :
       s \in Stack /\ x \in Word /\ y \in Word /\ p \in Code /\ Plays(s ** y, p, t)
       => Plays(s ** x ** y, Replace(-2) ++ p, t)
<1>1. \A s, x : s \in Stack /\ x \in Word => Plays(s ** x, Pop(1), s)
  BY Pop1Plays, Words
<1>2. \A s, x, y : s \in Stack /\ x \in Word /\ y \in Word => Plays(s ** x ** y, Pop(2), s)
  BY Pop2Plays, Words
<1>3. \A s, x : s \in Stack /\ x \in Word => Plays(s ** x, Take(x), s)
  BY TakePlays, Words
<1>4. \A s, x, y :
       s \in Stack /\ x \in Word /\ y \in Word
       => Plays(s ** x ** y, Insert(-2), s ** y ** x)
  BY InsertPlays, Words
<1>5. \A s : s \in Stack => Plays(s ** "handler", RemoveHandler(-1), s)
  BY Remove1Plays, Words
<1>6. \A s, x :
       s \in Stack /\ x \in Word
       => Plays(s ** "handler" ** x, RemoveHandler(-2), s ** x)
  BY Remove2Plays, Words
<1>7. \A s, x, y :
       s \in Stack /\ x \in Word /\ y \in Word
       => Plays(s ** x ** y, Replace(-2), s ** y)
  BY ReplacePlays, Words
<1>8. \A s, x, p, t :
       s \in Stack /\ x \in Word /\ p \in Code /\ Plays(s, p, t)
       => Plays(s ** x, Pop(1) ++ p, t)
  BY <1>1, InARow, CallsAreCode, Words
<1>9. \A s, x, y, p, t :
       s \in Stack /\ x \in Word /\ y \in Word /\ p \in Code /\ Plays(s, p, t)
       => Plays(s ** x ** y, Pop(2) ++ p, t)
  BY <1>2, InARow, CallsAreCode, Words
<1>10. \A s, x, p, t :
       s \in Stack /\ x \in Word /\ p \in Code /\ Plays(s, p, t)
       => Plays(s ** x, Take(x) ++ p, t)
  BY <1>3, InARow, CallsAreCode, Words
<1>11. \A s, x, y, p, t :
       s \in Stack /\ x \in Word /\ y \in Word /\ p \in Code /\ Plays(s ** y ** x, p, t)
       => Plays(s ** x ** y, Insert(-2) ++ p, t)
  BY <1>4, InARow, CallsAreCode, Words
<1>12. \A s, p, t :
       s \in Stack /\ p \in Code /\ Plays(s, p, t)
       => Plays(s ** "handler", RemoveHandler(-1) ++ p, t)
  BY <1>5, InARow, CallsAreCode, Words
<1>13. \A s, x, p, t :
       s \in Stack /\ x \in Word /\ p \in Code /\ Plays(s ** x, p, t)
       => Plays(s ** "handler" ** x, RemoveHandler(-2) ++ p, t)
  BY <1>6, InARow, CallsAreCode, Words
<1>14. \A s, x, y, p, t :
       s \in Stack /\ x \in Word /\ y \in Word /\ p \in Code /\ Plays(s ** y, p, t)
       => Plays(s ** x ** y, Replace(-2) ++ p, t)
  BY <1>7, InARow, CallsAreCode, Words
<1> QED BY <1>1, <1>2, <1>3, <1>5, <1>8, <1>9, <1>10, <1>11, <1>12, <1>13, <1>14

\* What is set in a table.
LEMMA FieldRules ==
  /\ \A s, x, y :
       s \in Stack /\ x \in Word /\ y \in Word /\ x \in Table
       => Plays(s ** x ** y, SetField(-2), s ** x)
  /\ \A s, x, y, p, t :
       s \in Stack /\ x \in Word /\ y \in Word /\ x \in Table /\ p \in Code
       /\ Plays(s ** x, p, t)
       => Plays(s ** x ** y, SetField(-2) ++ p, t)
  /\ \A s, x, y, z, p, t :
       s \in Stack /\ x \in Word /\ y \in Word /\ z \in Word /\ p \in Code
       /\ Plays(s ** x, p, t)
       => Plays(s ** x ** y ** z, SetTable(-3, x) ++ p, t)
  /\ \A s, x, y, z, v, w, u, p, t :
       s \in Stack /\ x \in Word /\ y \in Word /\ z \in Word /\ v \in Word /\ w \in Word
       /\ u \in Word /\ p \in Code /\ Plays(s ** x ** y ** z ** v, p, t)
       => Plays(s ** x ** y ** z ** v ** w ** u, SetTable(-6, x) ++ p, t)
<1>1. \A s, x, y :
       s \in Stack /\ x \in Word /\ y \in Word /\ x \in Table
       => Plays(s ** x ** y, SetField(-2), s ** x)
  BY SetFieldPlays, Words
<1>2. \A s, x, y, z :
       s \in Stack /\ x \in Word /\ y \in Word /\ z \in Word
       => Plays(s ** x ** y ** z, SetTable(-3, x), s ** x)
  BY SetTable3Plays, Words
<1>3. \A s, x, y, z, v, w, u :
       s \in Stack /\ x \in Word /\ y \in Word /\ z \in Word /\ v \in Word /\ w \in Word
       /\ u \in Word
       => Plays(s ** x ** y ** z ** v ** w ** u, SetTable(-6, x), s ** x ** y ** z ** v)
  BY SetTable6Plays
<1>4. \A s, x, y, p, t :
       s \in Stack /\ x \in Word /\ y \in Word /\ x \in Table /\ p \in Code
       /\ Plays(s ** x, p, t)
       => Plays(s ** x ** y, SetField(-2) ++ p, t)
  BY <1>1, InARow, CallsAreCode, Words
<1>5. \A s, x, y, z, p, t :
       s \in Stack /\ x \in Word /\ y \in Word /\ z \in Word /\ p \in Code
       /\ Plays(s ** x, p, t)
       => Plays(s ** x ** y ** z, SetTable(-3, x) ++ p, t)
  BY <1>2, InARow, CallsAreCode, Words
<1>6. \A s, x, y, z, v, w, u, p, t :
       s \in Stack /\ x \in Word /\ y \in Word /\ z \in Word /\ v \in Word /\ w \in Word
       /\ u \in Word /\ p \in Code /\ Plays(s ** x ** y ** z ** v, p, t)
       => Plays(s ** x ** y ** z ** v ** w ** u, SetTable(-6, x) ++ p, t)
  BY <1>3, InARow, CallsAreCode, Words
<1> QED BY <1>1, <1>4, <1>5, <1>6

\* What is set for a table or a thread.
LEMMA MetaRules ==
  /\ \A s, x, y :
       s \in Stack /\ x \in Word /\ y \in Word /\ x \in Object /\ y \in Table
       => Plays(s ** x ** y, SetMetatable(-2), s ** x)
  /\ \A s, x, y, p, t :
       s \in Stack /\ x \in Word /\ y \in Word /\ x \in Object /\ y \in Table
       /\ p \in Code /\ Plays(s ** x, p, t)
       => Plays(s ** x ** y, SetMetatable(-2) ++ p, t)
  /\ \A s, x, p, t :
       s \in Stack /\ x \in Word /\ x \in Table /\ p \in Code
       /\ Plays(s ** "thread", p, t)
       => Plays(s ** "thread" ** x, SetEnv(-2) ++ p, t)
<1>1. \A s, x, y :
       s \in Stack /\ x \in Word /\ y \in Word /\ x \in Object /\ y \in Table
       => Plays(s ** x ** y, SetMetatable(-2), s ** x)
  BY SetMetatablePlays, Words
<1>2. \A s, x :
       s \in Stack /\ x \in Word /\ x \in Table
       => Plays(s ** "thread" ** x, SetEnv(-2), s ** "thread")
  BY SetEnvPlays, Words
<1>3. \A s, x, y, p, t :
       s \in Stack /\ x \in Word /\ y \in Word /\ x \in Object /\ y \in Table
       /\ p \in Code /\ Plays(s ** x, p, t)
       => Plays(s ** x ** y, SetMetatable(-2) ++ p, t)
  BY <1>1, InARow, CallsAreCode, Words
<1>4. \A s, x, p, t :
       s \in Stack /\ x \in Word /\ x \in Table /\ p \in Code
       /\ Plays(s ** "thread", p, t)
       => Plays(s ** "thread" ** x, SetEnv(-2) ++ p, t)
  BY <1>2, InARow, CallsAreCode, Words
<1> QED BY <1>1, <1>3, <1>4

\* What lua_next finds.
LEMMA NextRules ==
  /\ \A s, x, y :
       s \in Stack /\ x \in Word /\ y \in Word /\ x \in Table /\ y \in {"nil", "key"}
       => Plays(s ** x ** y, NextPair("done"), s ** x)
  /\ \A s, x, y, p, t :
       s \in Stack /\ x \in Word /\ y \in Word /\ x \in Table /\ y \in {"nil", "key"}
       /\ p \in Code /\ Plays(s ** x ** "key" ** "value", p, t)
       => Plays(s ** x ** y, NextPair("more") ++ p, t)
  /\ \A s, x, y, p, t :
       s \in Stack /\ x \in Word /\ y \in Word /\ x \in Table /\ y \in {"nil", "key"}
       /\ p \in Code /\ Plays(s ** x, p, t)
       => Plays(s ** x ** y, NextPair("done") ++ p, t)
<1>1. \A s, x, y :
       s \in Stack /\ x \in Word /\ y \in Word /\ x \in Table /\ y \in {"nil", "key"}
       => Plays(s ** x ** y, NextPair("more"), s ** x ** "key" ** "value")
  BY NextPlays, Words
<1>2. \A s, x, y :
       s \in Stack /\ x \in Word /\ y \in Word /\ x \in Table /\ y \in {"nil", "key"}
       => Plays(s ** x ** y, NextPair("done"), s ** x)
  BY DonePlays, Words
<1>3. \A s, x, y, p, t :
       s \in Stack /\ x \in Word /\ y \in Word /\ x \in Table /\ y \in {"nil", "key"}
       /\ p \in Code /\ Plays(s ** x ** "key" ** "value", p, t)
       => Plays(s ** x ** y, NextPair("more") ++ p, t)
  BY <1>1, InARow, CallsAreCode, Words
<1>4. \A s, x, y, p, t :
       s \in Stack /\ x \in Word /\ y \in Word /\ x \in Table /\ y \in {"nil", "key"}
       /\ p \in Code /\ Plays(s ** x, p, t)
       => Plays(s ** x ** y, NextPair("done") ++ p, t)
  BY <1>2, InARow, CallsAreCode, Words
<1> QED BY <1>2, <1>3, <1>4

\* What is called.
LEMMA CallRules ==
  /\ \A s, x, y, z :
       s \in Stack /\ x \in Word /\ y \in Word /\ z \in Word
       => Plays(s ** x ** y ** z, Closure(3), s ** "function")
  /\ \A s, x, p, t :
       s \in Stack /\ x \in Word /\ p \in Code /\ Plays(s ** "value", p, t)
       => Plays(s ** "function" ** x, Call(1) ++ p, t)
  /\ \A s, x, y, z, p, t :
       s \in Stack /\ x \in Word /\ y \in Word /\ z \in Word /\ p \in Code
       /\ Plays(s ** "function", p, t)
       => Plays(s ** x ** y ** z, Closure(3) ++ p, t)
  /\ \A s, p, t :
       s \in Stack /\ p \in Code /\ Plays(s ** "handler", p, t)
       => Plays(s ** "handler" ** "function", Run(0, "handled") ++ p, t)
  /\ \A s, p, t :
       s \in Stack /\ p \in Code /\ Plays(s ** "handler" ** "message", p, t)
       => Plays(s ** "handler" ** "function", Run(0, "caught") ++ p, t)
<1>1. \A s, x :
       s \in Stack /\ x \in Word
       => Plays(s ** "function" ** x, Call(1), s ** "value")
  BY CallPlays, Words
<1>2. \A s, x, y, z :
       s \in Stack /\ x \in Word /\ y \in Word /\ z \in Word
       => Plays(s ** x ** y ** z, Closure(3), s ** "function")
  BY ClosurePlays, Words
<1>3. \A s :
       s \in Stack
       => Plays(s ** "handler" ** "function", Run(0, "handled"), s ** "handler")
  BY HandledPlays, Words
<1>4. \A s :
       s \in Stack
       => Plays(s ** "handler" ** "function", Run(0, "caught"), s ** "handler" ** "message")
  BY CaughtPlays, Words
<1>5. \A s, x, p, t :
       s \in Stack /\ x \in Word /\ p \in Code /\ Plays(s ** "value", p, t)
       => Plays(s ** "function" ** x, Call(1) ++ p, t)
  BY <1>1, InARow, CallsAreCode, Words
<1>6. \A s, x, y, z, p, t :
       s \in Stack /\ x \in Word /\ y \in Word /\ z \in Word /\ p \in Code
       /\ Plays(s ** "function", p, t)
       => Plays(s ** x ** y ** z, Closure(3) ++ p, t)
  BY <1>2, InARow, CallsAreCode, Words
<1>7. \A s, p, t :
       s \in Stack /\ p \in Code /\ Plays(s ** "handler", p, t)
       => Plays(s ** "handler" ** "function", Run(0, "handled") ++ p, t)
  BY <1>3, InARow, CallsAreCode, Words
<1>8. \A s, p, t :
       s \in Stack /\ p \in Code /\ Plays(s ** "handler" ** "message", p, t)
       => Plays(s ** "handler" ** "function", Run(0, "caught") ++ p, t)
  BY <1>4, InARow, CallsAreCode, Words
<1> QED BY <1>2, <1>5, <1>6, <1>7, <1>8

\* What a script does.
LEMMA RunRules ==
  /\ \A s, p, t :
       s \in Stack /\ p \in Code /\ Plays(s, p, t)
       => Plays(s ** "function", Run(0, "ok0") ++ p, t)
  /\ \A s, p, t :
       s \in Stack /\ p \in Code /\ Plays(s ** "message", p, t)
       => Plays(s ** "function", Run(0, "error") ++ p, t)
  /\ \A s, x, p, t :
       s \in Stack /\ x \in Word /\ p \in Code /\ Plays(s, p, t)
       => Plays(s ** "function" ** x, Run(1, "ok0") ++ p, t)
  /\ \A s, x, p, t :
       s \in Stack /\ x \in Word /\ p \in Code /\ Plays(s ** "value", p, t)
       => Plays(s ** "function" ** x, Run(1, "ok1") ++ p, t)
  /\ \A s, x, p, t :
       s \in Stack /\ x \in Word /\ p \in Code /\ Plays(s ** "message", p, t)
       => Plays(s ** "function" ** x, Run(1, "error") ++ p, t)
<1>1. \A s : s \in Stack => Plays(s ** "function", Run(0, "ok0"), s)
  BY Run0Plays, Words
<1>2. \A s : s \in Stack => Plays(s ** "function", Run(0, "error"), s ** "message")
  BY Run0Fails, Words
<1>3. \A s, x : s \in Stack /\ x \in Word => Plays(s ** "function" ** x, Run(1, "ok0"), s)
  BY Run1Plays, Words
<1>4. \A s, x :
       s \in Stack /\ x \in Word
       => Plays(s ** "function" ** x, Run(1, "ok1"), s ** "value")
  BY Run1Gives, Words
<1>5. \A s, x :
       s \in Stack /\ x \in Word
       => Plays(s ** "function" ** x, Run(1, "error"), s ** "message")
  BY Run1Fails, Words
<1>6. \A s, p, t :
       s \in Stack /\ p \in Code /\ Plays(s, p, t)
       => Plays(s ** "function", Run(0, "ok0") ++ p, t)
  BY <1>1, InARow, CallsAreCode, Words
<1>7. \A s, p, t :
       s \in Stack /\ p \in Code /\ Plays(s ** "message", p, t)
       => Plays(s ** "function", Run(0, "error") ++ p, t)
  BY <1>2, InARow, CallsAreCode, Words
<1>8. \A s, x, p, t :
       s \in Stack /\ x \in Word /\ p \in Code /\ Plays(s, p, t)
       => Plays(s ** "function" ** x, Run(1, "ok0") ++ p, t)
  BY <1>3, InARow, CallsAreCode, Words
<1>9. \A s, x, p, t :
       s \in Stack /\ x \in Word /\ p \in Code /\ Plays(s ** "value", p, t)
       => Plays(s ** "function" ** x, Run(1, "ok1") ++ p, t)
  BY <1>4, InARow, CallsAreCode, Words
<1>10. \A s, x, p, t :
       s \in Stack /\ x \in Word /\ p \in Code /\ Plays(s ** "message", p, t)
       => Plays(s ** "function" ** x, Run(1, "error") ++ p, t)
  BY <1>5, InARow, CallsAreCode, Words
<1> QED BY <1>6, <1>7, <1>8, <1>9, <1>10

\* What the code's own functions do.
LEMMA DoRules ==
  /\ \A s, f : s \in Stack /\ f \in Word /\ f \in Even => Plays(s, Do(f), s)
  /\ \A s, f :
       s \in Stack /\ f \in Word /\ f \in Roomy /\ Len(s) < Room
       => Plays(s, Do(f), s)
  /\ \A s, x :
       s \in Stack /\ x \in Word /\ x \in Object
       => Plays(s ** x, Do("setMetatableOf"), s ** x)
  /\ \A s, x, f :
       s \in Stack /\ x \in Word /\ f \in Word /\ x \in Table
       /\ f \in {"field", "fields"}
       => Plays(s ** x, Do(f), s ** x)
  /\ \A s, x, y :
       s \in Stack /\ x \in Word /\ y \in Word /\ x \in Table /\ y \in {"nil", "key"}
       => Plays(s ** x ** y, Do("readNames"), s ** x)
  /\ \A s, y :
       s \in Stack /\ y \in Word /\ y \in {"nil", "key"}
       => Plays(s ** "config" ** "_G" ** y, Do("copyGlobals"), s ** "config" ** "_G")
  /\ \A s, f :
       s \in Stack /\ f \in Word /\ f \in {"callFieldNoRet", "callFieldRef"}
       /\ Len(s) < Room
       => Plays(s ** "table", Do(f), s)
  /\ \A s, f :
       s \in Stack /\ f \in Word /\ f \in {"registerTable", "register"}
       => Plays(s, Do(f), s ** "nil")
  /\ \A s, f, p, t :
       s \in Stack /\ f \in Word /\ f \in Even /\ p \in Code /\ Plays(s, p, t)
       => Plays(s, Do(f) ++ p, t)
  /\ \A s, f, p, t :
       s \in Stack /\ f \in Word /\ f \in Roomy /\ Len(s) < Room /\ p \in Code
       /\ Plays(s, p, t)
       => Plays(s, Do(f) ++ p, t)
  /\ \A s, x, p, t :
       s \in Stack /\ x \in Word /\ x \in Object /\ p \in Code /\ Plays(s ** x, p, t)
       => Plays(s ** x, Do("setMetatableOf") ++ p, t)
  /\ \A s, x, f, p, t :
       s \in Stack /\ x \in Word /\ f \in Word /\ x \in Table
       /\ f \in {"field", "fields"} /\ p \in Code /\ Plays(s ** x, p, t)
       => Plays(s ** x, Do(f) ++ p, t)
  /\ \A s, x, y, p, t :
       s \in Stack /\ x \in Word /\ y \in Word /\ x \in Table /\ y \in {"nil", "key"}
       /\ p \in Code /\ Plays(s ** x, p, t)
       => Plays(s ** x ** y, Do("readNames") ++ p, t)
  /\ \A s, y, p, t :
       s \in Stack /\ y \in Word /\ y \in {"nil", "key"} /\ p \in Code
       /\ Plays(s ** "config" ** "_G", p, t)
       => Plays(s ** "config" ** "_G" ** y, Do("copyGlobals") ++ p, t)
  /\ \A s, f, p, t :
       s \in Stack /\ f \in Word /\ f \in {"callFieldNoRet", "callFieldRef"}
       /\ Len(s) < Room /\ p \in Code /\ Plays(s, p, t)
       => Plays(s ** "table", Do(f) ++ p, t)
  /\ \A s, f, p, t :
       s \in Stack /\ f \in Word /\ f \in {"registerTable", "register"} /\ p \in Code
       /\ Plays(s ** "nil", p, t)
       => Plays(s, Do(f) ++ p, t)
<1>1. \A s, f : s \in Stack /\ f \in Word /\ f \in Even => Plays(s, Do(f), s)
  BY DoPlays, StackFacts, Words DEF Effect, Even, Roomy, Object
<1>2. \A s, f :
       s \in Stack /\ f \in Word /\ f \in Roomy /\ Len(s) < Room
       => Plays(s, Do(f), s)
  BY DoPlays, StackFacts, Words DEF Effect, Even, Roomy, Object
<1>3. \A s, x :
       s \in Stack /\ x \in Word /\ x \in Object
       => Plays(s ** x, Do("setMetatableOf"), s ** x)
  BY DoPlays, StackFacts, Words DEF Effect
<1>4. \A s, x, f :
       s \in Stack /\ x \in Word /\ f \in Word /\ x \in Table
       /\ f \in {"field", "fields"}
       => Plays(s ** x, Do(f), s ** x)
  BY DoPlays, StackFacts, Words DEF Effect
<1>5. \A s, x, y :
       s \in Stack /\ x \in Word /\ y \in Word /\ x \in Table /\ y \in {"nil", "key"}
       => Plays(s ** x ** y, Do("readNames"), s ** x)
  BY DoPlays, StackFacts, Words DEF Effect
<1>6. \A s, y :
       s \in Stack /\ y \in Word /\ y \in {"nil", "key"}
       => Plays(s ** "config" ** "_G" ** y, Do("copyGlobals"), s ** "config" ** "_G")
  BY DoPlays, StackFacts, Words DEF Effect
<1>7. \A s, f :
       s \in Stack /\ f \in Word /\ f \in {"callFieldNoRet", "callFieldRef"}
       /\ Len(s) < Room
       => Plays(s ** "table", Do(f), s)
  BY DoPlays, StackFacts, Words DEF Effect
<1>8. \A s, f :
       s \in Stack /\ f \in Word /\ f \in {"registerTable", "register"}
       => Plays(s, Do(f), s ** "nil")
  BY DoPlays, StackFacts, Words DEF Effect
<1> QED BY <1>1, <1>2, <1>3, <1>4, <1>5, <1>6, <1>7, <1>8, PlaysThen, CallsAreCode, StackFacts, Words

-----------------------------------------------------------------------------
(* The functions, path by path *)

\* What each word is.
LEMMA Literals ==
  /\ "table" \in Table /\ "config" \in Table /\ "_G" \in Table /\ "env" \in Table
  /\ "class" \in Table /\ "table" \in Object /\ "class" \in Object
  /\ "userdata" \in Object /\ "getStackTrace" \in Even
  /\ "getGlobalEnvironment" \in Even /\ "newSandboxEnv" \in Even
  /\ "loadFileRuns" \in Even /\ "loadFileFails" \in Even /\ "tableGet" \in Even
  /\ "tableInsert" \in Even /\ "tableForEach" \in Even
  /\ "registerTableFound" \in Even /\ "registerTableFunction" \in Even
  /\ "registerGlobalFunction" \in Even /\ "registerClass" \in Even
  /\ "registerStaticMethod" \in Even /\ "registerStaticMetaMethod" \in Even
  /\ "registerClasses" \in Even /\ "setGlobalEnvironment" \in Roomy
  /\ "resetGlobalEnvironment" \in Roomy /\ "callLuaFieldNoRet" \in Roomy
  /\ "callLuaFieldRef" \in Roomy /\ "callLuaFieldNoRetRef" \in Roomy
  /\ "emitNoRet" \in Roomy /\ "emitNoRetRef" \in Roomy /\ "emitRef" \in Roomy
  /\ "loadModules" \in Roomy /\ "eachModule" \in Roomy /\ "moduleLoad" \in Roomy
  /\ "eachFile" \in Roomy
BY DEF Table, Object, Even, Roomy

\* Every path of GetStackTrace leaves the stack as it was.
LEMMA GetStackTracePlays ==
  \A s, p :
    s \in Stack /\ p \in GetStackTrace
    => p \in Code /\ Plays(s, p, s)
BY PushRules, PopRules, CallRules, RowRules, Literals, CallsAreCode, CodeFacts,
   StackFacts, Words DEF GetStackTrace

\* Every path of GetGlobalEnvironment leaves the stack as it was.
LEMMA GetGlobalEnvironmentPlays ==
  \A s, p :
    s \in Stack /\ p \in GetGlobalEnvironment
    => p \in Code /\ Plays(s, p, s)
BY PushRules, PopRules, RowRules, CallsAreCode, CodeFacts, StackFacts, Words DEF
   GetGlobalEnvironment

\* Every path of NewSandboxEnv leaves the stack as it was.
LEMMA NewSandboxEnvPlays ==
  \A s, p :
    s \in Stack /\ p \in NewSandboxEnv
    => p \in Code /\ Plays(s, p, s)
BY PushRules, PopRules, FieldRules, MetaRules, DoRules, RowRules, Literals,
   CallsAreCode, CodeFacts, StackFacts, Words DEF NewSandboxEnv

\* Every path of LoadFileRuns leaves the stack as it was.
LEMMA LoadFileRunsPlays ==
  \A s, p :
    s \in Stack /\ p \in LoadFileRuns
    => p \in Code /\ Plays(s, p, s)
BY PushRules, PopRules, CallRules, RowRules, CallsAreCode, CodeFacts, StackFacts,
   Words DEF LoadFileRuns, ProtectedCall

\* Every path of LoadFileFails leaves the stack as it was.
LEMMA LoadFileFailsPlays ==
  \A s, p :
    s \in Stack /\ p \in LoadFileFails
    => p \in Code /\ Plays(s, p, s)
BY PushRules, PopRules, CallRules, RowRules, CallsAreCode, CodeFacts, StackFacts,
   Words DEF LoadFileFails, ProtectedCall

\* Every path of TableGet leaves the stack as it was.
LEMMA TableGetPlays ==
  \A s, p :
    s \in Stack /\ p \in TableGet
    => p \in Code /\ Plays(s, p, s)
BY PushRules, PopRules, RowRules, Literals, CallsAreCode, CodeFacts, StackFacts, Words
   DEF TableGet

\* Every path of TableInsert leaves the stack as it was.
LEMMA TableInsertPlays ==
  \A s, p :
    s \in Stack /\ p \in TableInsert
    => p \in Code /\ Plays(s, p, s)
BY PushRules, PopRules, FieldRules, RowRules, Literals, CallsAreCode, CodeFacts,
   StackFacts, Words DEF TableInsert

\* Every path of TableForEach leaves the stack as it was.
LEMMA TableForEachPlays ==
  \A s, p :
    s \in Stack /\ p \in TableForEach
    => p \in Code /\ Plays(s, p, s)
BY PushRules, PopRules, DoRules, RowRules, Literals, CallsAreCode, CodeFacts,
   StackFacts, Words DEF TableForEach

\* Every path of RegisterTableFound leaves the stack as it was.
LEMMA RegisterTableFoundPlays ==
  \A s, p :
    s \in Stack /\ p \in RegisterTableFound
    => p \in Code /\ Plays(s, p, s)
BY PushRules, PopRules, RowRules, CallsAreCode, CodeFacts, StackFacts, Words DEF
   RegisterTableFound

\* Every path of RegisterTableFunction leaves the stack as it was.
LEMMA RegisterTableFunctionPlays ==
  \A s, p :
    s \in Stack /\ p \in RegisterTableFunction
    => p \in Code /\ Plays(s, p, s)
BY PushRules, PopRules, FieldRules, RowRules, Literals, CallsAreCode, CodeFacts,
   StackFacts, Words DEF RegisterTableFunction

\* Every path of RegisterGlobalFunction leaves the stack as it was.
LEMMA RegisterGlobalFunctionPlays ==
  \A s, p :
    s \in Stack /\ p \in RegisterGlobalFunction
    => p \in Code /\ Plays(s, p, s)
BY PushRules, PopRules, RowRules, CallsAreCode, CodeFacts, StackFacts, Words DEF
   RegisterGlobalFunction

\* A constructor and a base class change the class's table, and leave the stack as it
\* was.
LEMMA ClassPartsPlay ==
  \A s, x, p :
    s \in Stack /\ x \in Word /\ x \in Table /\ p \in Constructor \cup Base
    => p \in Code /\ Plays(s ** x, p, s ** x)
BY PushRules, PopRules, FieldRules, RowRules, Literals, CallsAreCode, CodeFacts,
   StackFacts, Words DEF Constructor, Base

\* Two calls more.
LEMMA TwoMore ==
  \A s, k, m, t, p, q, r :
    p \in Code /\ q \in Code /\ r \in Code /\ Plays(s, p, k) /\ Plays(k, q, m) /\ Plays(m, r, t)
    => p ++ q ++ r \in Code /\ Plays(s, p ++ q ++ r, t)
BY InARow, CodeFacts

\* Every path of RegisterClass leaves the stack as it was.
LEMMA RegisterClassPlays ==
  \A s, p : s \in Stack /\ p \in RegisterClass => p \in Code /\ Plays(s, p, s)
<1> SUFFICES ASSUME NEW s \in Stack, NEW p \in RegisterClass
             PROVE  p \in Code /\ Plays(s, p, s)
  OBVIOUS
<1>1. PICK c \in Constructor, b \in Base :
        p = Push("class") ++ Copy(-1) ++ Pop(1)
              ++ Push("table") ++ c ++ b ++ SetMetatable(-2)
              ++ Push("table") ++ Copy(-2) ++ SetField(-2) ++ Copy(-2) ++ SetField(-2)
              ++ Push("value") ++ SetField(-2) ++ Push("value") ++ SetField(-2) ++ Pop(2)
  BY DEF RegisterClass
<1> DEFINE k   == s ** "class"
           two == k ** "table"
           p1  == Push("class") ++ Copy(-1) ++ Pop(1) ++ Push("table")
           p2  == p1 ++ c ++ b
           p3  == p2 ++ SetMetatable(-2) ++ Push("table")
           p4  == p3 ++ Copy(-2) ++ SetField(-2)
           p5  == p4 ++ Copy(-2) ++ SetField(-2)
           p6  == p5 ++ Push("value") ++ SetField(-2)
           p7  == p6 ++ Push("value") ++ SetField(-2)
<1>2. k \in Stack /\ two \in Stack
  BY StackFacts, Words
<1>3. c \in Code /\ b \in Code /\ Plays(two, c, two) /\ Plays(two, b, two)
  BY <1>2, ClassPartsPlay, Literals, Words
<1>4. Plays(two, SetMetatable(-2), k) /\ Plays(k, Push("table"), two)
  BY <1>2, PushRules, MetaRules, Literals, Words
<1>5. /\ Plays(two, Copy(-2), two ** "class") /\ Plays(two ** "class", SetField(-2), two)
      /\ Plays(two, Push("value"), two ** "value") /\ Plays(two ** "value", SetField(-2), two)
  BY <1>2, PushRules, FieldRules, Literals, Words
<1>6. Plays(two, Pop(2), s)
  BY PopRules, Words
<1>7. SetMetatable(-2) \in Code /\ Push("table") \in Code /\ Copy(-2) \in Code
      /\ SetField(-2) \in Code /\ Push("value") \in Code /\ Pop(2) \in Code
  BY CallsAreCode, Words
<1>8. p1 \in Code /\ Plays(s, p1, two)
  BY PushRules, PopRules, RowRules, CallsAreCode, CodeFacts, StackFacts, Words
<1> HIDE DEF p1, two, k
<1>9. p2 \in Code /\ Plays(s, p2, two)
  BY <1>3, <1>8, TwoMore
<1> HIDE DEF p2
<1>10. p3 \in Code /\ Plays(s, p3, two)
  BY <1>4, <1>7, <1>9, TwoMore
<1> HIDE DEF p3
<1>11. p4 \in Code /\ Plays(s, p4, two)
  BY <1>5, <1>7, <1>10, TwoMore
<1> HIDE DEF p4
<1>12. p5 \in Code /\ Plays(s, p5, two)
  BY <1>5, <1>7, <1>11, TwoMore
<1> HIDE DEF p5
<1>13. p6 \in Code /\ Plays(s, p6, two)
  BY <1>5, <1>7, <1>12, TwoMore
<1> HIDE DEF p6
<1>14. p7 \in Code /\ Plays(s, p7, two)
  BY <1>5, <1>7, <1>13, TwoMore
<1> HIDE DEF p7
<1>15. p7 ++ Pop(2) \in Code /\ Plays(s, p7 ++ Pop(2), s)
  BY <1>6, <1>7, <1>14, InARow, CodeFacts
<1> QED BY <1>1, <1>15 DEF p1, p2, p3, p4, p5, p6, p7

\* Every path of RegisterStaticMethod leaves the stack as it was.
LEMMA RegisterStaticMethodPlays ==
  \A s, p :
    s \in Stack /\ p \in RegisterStaticMethod
    => p \in Code /\ Plays(s, p, s)
BY PushRules, PopRules, FieldRules, RowRules, Literals, CallsAreCode, CodeFacts,
   StackFacts, Words DEF RegisterStaticMethod

\* Every path of RegisterStaticMetaMethod leaves the stack as it was.
LEMMA RegisterStaticMetaMethodPlays ==
  \A s, p :
    s \in Stack /\ p \in RegisterStaticMetaMethod
    => p \in Code /\ Plays(s, p, s)
BY PushRules, PopRules, FieldRules, RowRules, Literals, CallsAreCode, CodeFacts,
   StackFacts, Words DEF RegisterStaticMetaMethod

\* Every path of RegisterClasses leaves the stack as it was.
LEMMA RegisterClassesPlays ==
  \A s, p :
    s \in Stack /\ p \in RegisterClasses
    => p \in Code /\ Plays(s, p, s)
BY DoRules, RowRules, Literals, CallsAreCode, CodeFacts, StackFacts, Words DEF
   RegisterClasses

\* Every path of SetGlobalEnvironment leaves a stack with room for the thread as it was.
LEMMA SetGlobalEnvironmentPlays ==
  \A s, p :
    s \in Stack /\ Len(s) < Room /\ p \in SetGlobalEnvironment
    => p \in Code /\ Plays(s, p, s)
BY PushRules, PopRules, MetaRules, RowRules, Literals, CallsAreCode, CodeFacts,
   StackFacts, Words DEF SetGlobalEnvironment

\* Every path of ResetGlobalEnvironment leaves a stack with room for the thread as it was.
LEMMA ResetGlobalEnvironmentPlays ==
  \A s, p :
    s \in Stack /\ Len(s) < Room /\ p \in ResetGlobalEnvironment
    => p \in Code /\ Plays(s, p, s)
BY DoRules, RowRules, Literals, CallsAreCode, CodeFacts, StackFacts, Words DEF
   ResetGlobalEnvironment

\* Every path of CallLuaFieldNoRet leaves a stack with room for the thread as it was.
LEMMA CallLuaFieldNoRetPlays ==
  \A s, p :
    s \in Stack /\ Len(s) < Room /\ p \in CallLuaFieldNoRet
    => p \in Code /\ Plays(s, p, s)
BY PushRules, DoRules, RowRules, Literals, CallsAreCode, CodeFacts, StackFacts, Words
   DEF CallLuaFieldNoRet

\* Every path of CallLuaFieldRef leaves a stack with room for the thread as it was.
LEMMA CallLuaFieldRefPlays ==
  \A s, p :
    s \in Stack /\ Len(s) < Room /\ p \in CallLuaFieldRef
    => p \in Code /\ Plays(s, p, s)
BY PushRules, DoRules, RowRules, Literals, CallsAreCode, CodeFacts, StackFacts, Words
   DEF CallLuaFieldRef

\* Every path of CallLuaFieldNoRetRef leaves a stack with room for the thread as it was.
LEMMA CallLuaFieldNoRetRefPlays ==
  \A s, p :
    s \in Stack /\ Len(s) < Room /\ p \in CallLuaFieldNoRetRef
    => p \in Code /\ Plays(s, p, s)
BY PushRules, DoRules, RowRules, Literals, CallsAreCode, CodeFacts, StackFacts, Words
   DEF CallLuaFieldNoRetRef

\* Every path of EmitNoRet leaves a stack with room for the thread as it was.
LEMMA EmitNoRetPlays ==
  \A s, p :
    s \in Stack /\ Len(s) < Room /\ p \in EmitNoRet
    => p \in Code /\ Plays(s, p, s)
BY DoRules, RowRules, Literals, CallsAreCode, CodeFacts, StackFacts, Words DEF
   EmitNoRet

\* Every path of EmitNoRetRef leaves a stack with room for the thread as it was.
LEMMA EmitNoRetRefPlays ==
  \A s, p :
    s \in Stack /\ Len(s) < Room /\ p \in EmitNoRetRef
    => p \in Code /\ Plays(s, p, s)
BY DoRules, RowRules, Literals, CallsAreCode, CodeFacts, StackFacts, Words DEF
   EmitNoRetRef

\* Every path of EmitRef leaves a stack with room for the thread as it was.
LEMMA EmitRefPlays ==
  \A s, p :
    s \in Stack /\ Len(s) < Room /\ p \in EmitRef
    => p \in Code /\ Plays(s, p, s)
BY DoRules, RowRules, Literals, CallsAreCode, CodeFacts, StackFacts, Words DEF EmitRef

\* Every path of LoadModules leaves a stack with room for the thread as it was.
LEMMA LoadModulesPlays ==
  \A s, p :
    s \in Stack /\ Len(s) < Room /\ p \in LoadModules
    => p \in Code /\ Plays(s, p, s)
BY PushRules, PopRules, DoRules, RowRules, Literals, CallsAreCode, CodeFacts,
   StackFacts, Words DEF LoadModules

\* Every path of EachModule leaves a stack with room for the thread as it was.
LEMMA EachModulePlays ==
  \A s, p :
    s \in Stack /\ Len(s) < Room /\ p \in EachModule
    => p \in Code /\ Plays(s, p, s)
BY DoRules, RowRules, Literals, CallsAreCode, CodeFacts, StackFacts, Words DEF
   EachModule

\* Every way to read the settings leaves the stack as it was.
LEMMA SettingsPlay ==
  \A s, p :
    s \in Stack /\ Len(s) < Room /\ p \in Settings => p \in Code /\ Plays(s, p, s)
BY PushRules, PopRules, DoRules, RowRules, Literals, CallsAreCode, CodeFacts,
   StackFacts, Words DEF Settings

\* Every path of ModuleLoad leaves a stack with room for the thread as it was.
LEMMA ModuleLoadPlays ==
  \A s, p :
    s \in Stack /\ Len(s) < Room /\ p \in ModuleLoad => p \in Code /\ Plays(s, p, s)
<1> DEFINE r == Do("setGlobalEnvironment") ++ Push("userdata") ++ Do("setMetatableOf") ++ Pop(1)
<1>1. ASSUME NEW s \in Stack, Len(s) < Room PROVE r \in Code /\ Plays(s, r, s)
  BY <1>1, PushRules, PopRules, DoRules, RowRules, Literals, CallsAreCode, CodeFacts,
     StackFacts, Words
<1>2. \A p \in ModuleLoad : \E q \in Settings : p = r ++ q
  BY DEF ModuleLoad
<1> HIDE DEF r
<1> QED BY <1>1, <1>2, SettingsPlay, InARow, CodeFacts

\* The constructor and the base class go into the table on the top.

\* Every path of EachFile leaves a stack with room for the thread as it was.
LEMMA EachFilePlays ==
  \A s, p :
    s \in Stack /\ Len(s) < Room /\ p \in EachFile
    => p \in Code /\ Plays(s, p, s)
BY PushRules, PopRules, RunRules, DoRules, RowRules, Literals, CallsAreCode,
   CodeFacts, StackFacts, Words DEF EachFile

\* Every path of SetMetatableOf leaves the object it gives a metatable.
LEMMA SetMetatableOfPlays ==
  \A s, x, p :
    s \in Stack /\ x \in Word /\ x \in Object /\ p \in SetMetatableOf
    => p \in Code /\ Plays(s ** x, p, s ** x)
BY PushRules, MetaRules, RowRules, Literals, CallsAreCode, CodeFacts, StackFacts,
   Words DEF SetMetatableOf

\* Every path of Field leaves the table it fills.
LEMMA FieldPlays ==
  \A s, x, p :
    s \in Stack /\ x \in Word /\ x \in Table /\ p \in Field
    => p \in Code /\ Plays(s ** x, p, s ** x)
BY PushRules, FieldRules, DoRules, RowRules, Literals, CallsAreCode, CodeFacts,
   StackFacts, Words DEF Field

\* Every path of Fields leaves the table it fills.
LEMMA FieldsPlays ==
  \A s, x, p :
    s \in Stack /\ x \in Word /\ x \in Table /\ p \in Fields
    => p \in Code /\ Plays(s ** x, p, s ** x)
BY DoRules, RowRules, Literals, CallsAreCode, CodeFacts, StackFacts, Words DEF Fields

\* Every path of ReadNames takes the key off, and leaves the table it reads.
LEMMA ReadNamesPlays ==
  \A s, x, y, p :
    s \in Stack /\ x \in Word /\ y \in Word /\ x \in Table /\ y \in {"nil", "key"}
    /\ p \in ReadNames
    => p \in Code /\ Plays(s ** x ** y, p, s ** x)
BY PopRules, NextRules, DoRules, RowRules, Literals, CallsAreCode, CodeFacts,
   StackFacts, Words DEF ReadNames

\* Every path of CopyGlobals takes the key off, and leaves the two tables.
LEMMA CopyGlobalsPlays ==
  \A s, y, p :
    s \in Stack /\ y \in Word /\ y \in {"nil", "key"} /\ p \in CopyGlobals
    => p \in Code /\ Plays(s ** "config" ** "_G" ** y, p, s ** "config" ** "_G")
BY PushRules, PopRules, FieldRules, NextRules, DoRules, RowRules, Literals,
   CallsAreCode, CodeFacts, StackFacts, Words DEF CopyGlobals

\* Every path of CallFieldNoRet takes the table of arguments off.
LEMMA CallFieldNoRetPlays ==
  \A s, p :
    s \in Stack /\ Len(s) < Room /\ p \in CallFieldNoRet
    => p \in Code /\ Plays(s ** "table", p, s)
BY PushRules, PopRules, RunRules, DoRules, RowRules, Literals, CallsAreCode,
   CodeFacts, StackFacts, Words DEF CallFieldNoRet, CallField

\* Every path of CallFieldRef takes the table of arguments off.
LEMMA CallFieldRefPlays ==
  \A s, p :
    s \in Stack /\ Len(s) < Room /\ p \in CallFieldRef
    => p \in Code /\ Plays(s ** "table", p, s)
BY PushRules, PopRules, RunRules, DoRules, RowRules, Literals, CallsAreCode,
   CodeFacts, StackFacts, Words DEF CallFieldRef, CallField

\* RegisterTable leaves the value that was not a table.
LEMMA RegisterTablePlays ==
  \A s, p :
    s \in Stack /\ p \in RegisterTable
    => p \in Code /\ Plays(s, p, s ** "nil")
BY PushRules, PopRules, RowRules, CallsAreCode, CodeFacts, StackFacts, Words DEF
   RegisterTable

\* Register leaves what its registerTable leaves.
LEMMA RegisterPlays ==
  \A s, p :
    s \in Stack /\ p \in Register
    => p \in Code /\ Plays(s, p, s ** "nil")
BY DoRules, RowRules, Literals, CallsAreCode, CodeFacts, StackFacts, Words DEF
   Register

\* Every path of an init that succeeds leaves what init leaves.
LEMMA ScriptInitPlays ==
  \A p : p \in ScriptInit => p \in Code /\ Plays(<<>>, p, Left)
BY PushRules, PopRules, DoRules, RowRules, Literals, CallsAreCode, CodeFacts, StackFacts,
   Words DEF ScriptInit, NewConfig, Left

\* Every path of an init that fails finds what it needs.
LEMMA ScriptInitFailsPlays ==
  \A p : p \in ScriptInitFails => p \in Code /\ \E t \in Stack : Plays(<<>>, p, t)
<1> DEFINE two == <<>> ** "config" ** "_G"
           p1  == Do("loadFileFails")
           p2  == Do("loadFileRuns") ++ NewConfig ++ Push("_G") ++ Push("nil")
                    ++ Do("copyGlobals") ++ Do("loadFileFails")
<1>1. p1 \in Code /\ Plays(<<>>, p1, <<>>)
  BY DoRules, Literals, CallsAreCode, StackFacts, Words
<1>2. p2 \in Code /\ Plays(<<>>, p2, two)
  BY PushRules, PopRules, DoRules, RowRules, Literals, CallsAreCode, CodeFacts, StackFacts,
     Words DEF NewConfig
<1>3. two \in Stack
  BY StackFacts, Words
<1>4. ScriptInitFails = {p1, p2}
  BY DEF ScriptInitFails
<1> HIDE DEF p1, p2, two
<1> QED BY <1>1, <1>2, <1>3, <1>4, StackFacts

-----------------------------------------------------------------------------
(* What a call of a function does *)

\* What each name stands for.
LEMMA FunctionIs ==
  /\ Function["getStackTrace"] = GetStackTrace
  /\ Function["getGlobalEnvironment"] = GetGlobalEnvironment
  /\ Function["newSandboxEnv"] = NewSandboxEnv
  /\ Function["loadFileRuns"] = LoadFileRuns
  /\ Function["loadFileFails"] = LoadFileFails /\ Function["tableGet"] = TableGet
  /\ Function["tableInsert"] = TableInsert /\ Function["tableForEach"] = TableForEach
  /\ Function["registerTableFound"] = RegisterTableFound
  /\ Function["registerTableFunction"] = RegisterTableFunction
  /\ Function["registerGlobalFunction"] = RegisterGlobalFunction
  /\ Function["registerClass"] = RegisterClass
  /\ Function["registerStaticMethod"] = RegisterStaticMethod
  /\ Function["registerStaticMetaMethod"] = RegisterStaticMetaMethod
  /\ Function["registerClasses"] = RegisterClasses
  /\ Function["setGlobalEnvironment"] = SetGlobalEnvironment
  /\ Function["resetGlobalEnvironment"] = ResetGlobalEnvironment
  /\ Function["callLuaFieldNoRet"] = CallLuaFieldNoRet
  /\ Function["callLuaFieldRef"] = CallLuaFieldRef
  /\ Function["callLuaFieldNoRetRef"] = CallLuaFieldNoRetRef
  /\ Function["emitNoRet"] = EmitNoRet /\ Function["emitNoRetRef"] = EmitNoRetRef
  /\ Function["emitRef"] = EmitRef /\ Function["loadModules"] = LoadModules
  /\ Function["eachModule"] = EachModule /\ Function["moduleLoad"] = ModuleLoad
  /\ Function["eachFile"] = EachFile /\ Function["setMetatableOf"] = SetMetatableOf
  /\ Function["field"] = Field /\ Function["fields"] = Fields
  /\ Function["readNames"] = ReadNames /\ Function["copyGlobals"] = CopyGlobals
  /\ Function["callFieldNoRet"] = CallFieldNoRet
  /\ Function["callFieldRef"] = CallFieldRef
  /\ Function["registerTable"] = RegisterTable /\ Function["register"] = Register
  /\ Function["init"] = ScriptInit /\ Function["initFails"] = ScriptInitFails
BY DEF Function

\* A path of a function does what the function does.
LEMMA FunctionPlays ==
  ASSUME NEW f \in Word, NEW s \in Stack, NEW t \in Stack, Effect(f, s, t),
         NEW p \in Function[f]
  PROVE  p \in Code /\ Plays(s, p, t)
<1>1. CASE f \in Even /\ t = s
  BY <1>1, FunctionIs, GetStackTracePlays, GetGlobalEnvironmentPlays,
     NewSandboxEnvPlays, LoadFileRunsPlays, LoadFileFailsPlays, TableGetPlays,
     TableInsertPlays, TableForEachPlays, RegisterTableFoundPlays,
     RegisterTableFunctionPlays, RegisterGlobalFunctionPlays, RegisterClassPlays,
     RegisterStaticMethodPlays, RegisterStaticMetaMethodPlays, RegisterClassesPlays DEF
     Even
<1>2. CASE f \in Roomy /\ t = s /\ Len(s) < Room
  BY <1>2, FunctionIs, SetGlobalEnvironmentPlays, ResetGlobalEnvironmentPlays,
     CallLuaFieldNoRetPlays, CallLuaFieldRefPlays, CallLuaFieldNoRetRefPlays,
     EmitNoRetPlays, EmitNoRetRefPlays, EmitRefPlays, LoadModulesPlays, EachModulePlays,
     ModuleLoadPlays, EachFilePlays DEF Roomy
<1>3. CASE /\ f = "setMetatableOf" /\ t = s
            /\ \E b \in Stack : \E x \in Object : s = b ** x
  BY <1>3, FunctionIs, SetMetatableOfPlays, Words DEF Object, Table
<1>4. CASE /\ f \in {"field", "fields"} /\ t = s
            /\ \E b \in Stack : \E x \in Table : s = b ** x
  BY <1>4, FunctionIs, FieldPlays, FieldsPlays, Words DEF Table
<1>5. CASE /\ f = "readNames"
           /\ \E b \in Stack : \E x \in Table : \E y \in {"nil", "key"} :
                s = b ** x ** y /\ t = b ** x
  BY <1>5, FunctionIs, ReadNamesPlays, Words DEF Table
<1>6. CASE /\ f = "copyGlobals"
           /\ \E b \in Stack : \E y \in {"nil", "key"} :
                /\ s = b ** "config" ** "_G" ** y
                /\ t = b ** "config" ** "_G"
  BY <1>6, FunctionIs, CopyGlobalsPlays, Words
<1>7. CASE f \in {"callFieldNoRet", "callFieldRef"} /\ s = t ** "table" /\ Len(t) < Room
  BY <1>7, FunctionIs, CallFieldNoRetPlays, CallFieldRefPlays
<1>8. CASE f \in {"registerTable", "register"} /\ t = s ** "nil"
  BY <1>8, FunctionIs, RegisterTablePlays, RegisterPlays
<1>9. CASE f = "init" /\ s = <<>> /\ t = Left
  BY <1>9, FunctionIs, ScriptInitPlays
<1> QED BY <1>1, <1>2, <1>3, <1>4, <1>5, <1>6, <1>7, <1>8, <1>9 DEF Effect, Left

\* What a function that scripts call answers.
Answer == {"value", "nil", "userdata"}

\* An empty stack has room for the thread.
LEMMA EmptyFits == Len(<<>>) < Room
BY DEF Room

\* The arguments and paths of what scripts call.
LEMMA BindingIs ==
  /\ Binding["getter"].paths = Getter
     /\ Binding["getter"].args = <<>> ** "self"
  /\ Binding["setter"].paths = Setter
     /\ Binding["setter"].args = <<>> ** "self" ** "argument"
  /\ Binding["getClient"].paths = GetClient
     /\ Binding["getClient"].args = <<>> ** "id"
  /\ Binding["publish"].paths = RedisPublish
     /\ Binding["publish"].args = <<>> ** "channel" ** "data"
  /\ Binding["subscribe"].paths = RedisSubscribe
     /\ Binding["subscribe"].args = <<>> ** "channel"
  /\ Binding["emit"].paths = Emit(<<>>)
     /\ Binding["emit"].args = <<>> ** "event" ** "table"
  /\ Binding["emitIdentified"].paths = Emit(Take("identifier"))
     /\ Binding["emitIdentified"].args = <<>> ** "event" ** "table" ** "identifier"
  /\ Binding["connect"].paths = Connect(<<>>)
     /\ Binding["connect"].args = <<>> ** "self" ** "event" ** "callback"
  /\ Binding["connectIdentified"].paths = Connect(Take("identifier"))
     /\ Binding["connectIdentified"].args = <<>> ** "self" ** "event" ** "callback" ** "identifier"
  /\ Binding["create"].paths = OutputMessageCreate
     /\ Binding["create"].args = <<>> ** "class"
  /\ Binding["delete"].paths = OutputMessageDelete
     /\ Binding["delete"].args = <<>> ** "self"
  /\ Binding["handler"].paths = ErrorHandler
     /\ Binding["handler"].args = <<>> ** "message"
BY DEF Binding, B, **

\* The functions that scripts call, those without a name for a nil left out.
Bound == DOMAIN Binding \ {"connectNil"}

\* They are these.
LEMMA BoundAre ==
  Bound = {"getter", "setter", "getClient", "publish", "subscribe", "emit", "emitIdentified",
           "connect", "connectIdentified", "create", "delete", "handler"}
BY DEF Bound, Binding

\* What getter answers to its arguments.
LEMMA GetterAnswers ==
  \A p : p \in Getter
    => p \in Code /\ \E x \in Answer : Plays(<<>> ** "self", p, <<>> ** x)
BY PushRules, PopRules, RowRules, CallsAreCode, CodeFacts, StackFacts, Words DEF Getter,
     Answer

\* What setter answers to its arguments.
LEMMA SetterAnswers ==
  \A p : p \in Setter
    => p \in Code /\ Plays(<<>> ** "self" ** "argument", p, <<>> ** "value")
BY PushRules, PopRules, RowRules, CallsAreCode, CodeFacts, StackFacts, Words DEF Setter

\* What getClient answers to its arguments.
LEMMA GetClientAnswers ==
  \A p : p \in GetClient
    => p \in Code /\ \E x \in Answer : Plays(<<>> ** "id", p, <<>> ** x)
BY PushRules, PopRules, DoRules, RowRules, Literals, CallsAreCode, CodeFacts,
     StackFacts, Words DEF GetClient, Answer

\* What publish answers to its arguments.
LEMMA PublishAnswers ==
  \A p : p \in RedisPublish
    => p \in Code /\ Plays(<<>> ** "channel" ** "data", p, <<>> ** "value")
BY PushRules, PopRules, RowRules, CallsAreCode, CodeFacts, StackFacts, Words DEF
     RedisPublish

\* What subscribe answers to its arguments.
LEMMA SubscribeAnswers ==
  \A p : p \in RedisSubscribe
    => p \in Code /\ Plays(<<>> ** "channel", p, <<>> ** "value")
BY PushRules, PopRules, RowRules, CallsAreCode, CodeFacts, StackFacts, Words DEF
     RedisSubscribe

\* What emit answers to its arguments.
LEMMA EmitAnswers ==
  \A p : p \in Emit(<<>>)
    => p \in Code /\ Plays(<<>> ** "event" ** "table", p, <<>> ** "value")
BY PushRules, PopRules, DoRules, RowRules, Literals, CallsAreCode, CodeFacts, EmptyFits,
     StackFacts, Words DEF Emit

\* What emitIdentified answers to its arguments.
LEMMA EmitIdentifiedAnswers ==
  \A p : p \in Emit(Take("identifier"))
    => p \in Code /\ Plays(<<>> ** "event" ** "table" ** "identifier", p, <<>> ** "value")
BY PushRules, PopRules, DoRules, RowRules, Literals, CallsAreCode, CodeFacts, EmptyFits,
     StackFacts, Words DEF Emit

\* What create answers to its arguments.
LEMMA CreateAnswers ==
  \A p : p \in OutputMessageCreate
    => p \in Code /\ Plays(<<>> ** "class", p, <<>> ** "class" ** "userdata")
BY PushRules, DoRules, RowRules, Literals, CallsAreCode, CodeFacts, StackFacts, Words
     DEF OutputMessageCreate

\* What delete answers to its arguments.
LEMMA DeleteAnswers ==
  \A p : p \in OutputMessageDelete
    => p \in Code /\ \E t \in Stack : Plays(<<>> ** "self", p, t)
BY RowRules, CallsAreCode, CodeFacts, StackFacts, Words DEF OutputMessageDelete

\* What handler answers to its arguments.
LEMMA HandlerAnswers ==
  \A p : p \in ErrorHandler
    => p \in Code /\ Plays(<<>> ** "message", p, <<>> ** "value")
BY PushRules, PopRules, DoRules, RowRules, Literals, CallsAreCode, CodeFacts,
     StackFacts, Words DEF ErrorHandler

\* What connect leaves: its refusal, or the three that stand for the connection.
Connection == {<<>> ** "value", <<>> ** "userdata" ** "userdata" ** "function"}

\* connect, whatever takes the identifier off first.
LEMMA ConnectAnswers ==
  ASSUME NEW s \in Stack, NEW i \in Code, NEW p \in Connect(i),
         Plays(s, i, <<>> ** "self" ** "event" ** "callback")
  PROVE  p \in Code /\ \E t \in Connection : Plays(s, p, t)
<1>1. \A q \in ConnectAnswer : q \in Code /\ \E t \in Connection : Plays(<<>>, q, t)
  <2>1. Plays(<<>>, Push("value"), <<>> ** "value")
    BY PushRules, StackFacts, Words
  <2>2. Plays(<<>>, Push("userdata") ++ Push("userdata") ++ Push("value") ++ Push("value")
                      ++ Push("value") ++ Closure(3), <<>> ** "userdata" ** "userdata" ** "function")
    BY PushRules, CallRules, RowRules, CallsAreCode, CodeFacts, StackFacts, Words
  <2> QED BY <2>1, <2>2, CallsAreCode, CodeFacts, Words DEF ConnectAnswer, Connection
<1> DEFINE r  == i ++ Take("callback") ++ Take("event")
           at == <<>> ** "self"
<1>2. /\ at \in Stack
      /\ Plays(at ** "event" ** "callback", Take("callback"), at ** "event")
      /\ Plays(at ** "event", Take("event"), at)
      /\ Plays(at, Take("self"), <<>>)
  BY PopRules, StackFacts, Words
<1>3. r \in Code /\ Plays(s, r, at)
  BY <1>2, TwoMore, CallsAreCode, Words
<1>4. PICK q \in ConnectAnswer : p = r ++ Take("self") ++ q
  BY DEF Connect
<1> HIDE DEF r, at
<1> QED BY <1>1, <1>2, <1>3, <1>4, TwoMore, CallsAreCode, Words

-----------------------------------------------------------------------------
(* What every frame has left to do *)

Frame == [of : Word, stack : Stack, todo : Code]

\* What a function that scripts call leaves.
Answers(b, t) ==
  CASE b = "create"  -> t = <<>> ** "class" ** "userdata"
    [] b \in {"connect", "connectIdentified"} -> t \in Connection
    [] b = "delete"  -> TRUE
    [] b \in {"getter", "setter", "getClient", "publish", "subscribe", "emit",
               "emitIdentified", "handler"} ->
         \E x \in Answer : t = <<>> ** x

\* What the calls that are left lead to.
Ends(f, t) ==
  /\ f = "main" => t = <<>>
  /\ f \in {"init"} \cup Calls => t = Left
  /\ f \in Bound => Answers(f, t)

\* What takes one value off a stack, or puts one on it.
Plain(c) == c.op = "push" \/ (c.op = "take" /\ c.n = 1)

\* An initialisation that is going to fail and has not begun; a connect that takes
\* the wrong arguments; or a frame whose calls find what they need up to the end.
Going(f) ==
  \/ f.of = "initFails" /\ f.stack = <<>> /\ f.todo = Do("initFails")
  \/ f.of = "connectNil" /\ \A k \in DOMAIN f.todo : Plain(f.todo[k])
  \/ f.of # "connectNil" /\ \E t \in Stack : Plays(f.stack, f.todo, t) /\ Ends(f.of, t)

\* The first frame is the program's, the others are those of functions scripts call.
IInv == /\ frames \in Seq(Frame) /\ frames # <<>>
        /\ frames[1].of \in {"main", "init", "initFails"} \cup Calls
        /\ \A i \in 2 .. Len(frames) : frames[i].of \in DOMAIN Binding
        /\ \A i \in DOMAIN frames : Going(frames[i])

\* They are stacks.
LEMMA ConnectionStacks == Connection \subseteq Stack
BY StackFacts, Words DEF Connection

\* The function of a script's frame begins with its arguments, and answers.
LEMMA BindingPlays ==
  ASSUME NEW b \in Bound, NEW p \in Binding[b].paths
  PROVE  /\ p \in Code /\ Binding[b].args \in Stack /\ b \in Word
         /\ \E t \in Stack : Plays(Binding[b].args, p, t) /\ Answers(b, t)
<1> DEFINE a == Binding[b].args
<1>1. CASE b \in {"getter", "setter", "getClient"}
  BY <1>1, BindingIs, GetterAnswers, SetterAnswers, GetClientAnswers, StackFacts, Words DEF Answers, Answer
<1>2. CASE b \in {"publish", "subscribe"}
  BY <1>2, BindingIs, PublishAnswers, SubscribeAnswers, StackFacts, Words DEF Answers, Answer
<1>3. CASE b \in {"emit", "emitIdentified"}
  BY <1>3, BindingIs, EmitAnswers, EmitIdentifiedAnswers, StackFacts, Words DEF Answers, Answer
<1>4. CASE b = "connect"
  <2> DEFINE s == <<>> ** "self" ** "event" ** "callback"
  <2>1. a = s /\ p \in Connect(<<>>)
    BY <1>4, BindingIs
  <2>2. s \in Stack /\ Plays(s, <<>>, s)
    BY StackFacts, RowRules, Words
  <2>3. p \in Code /\ \E t \in Connection : Plays(s, p, t)
    BY <2>1, <2>2, ConnectAnswers, CodeFacts
  <2> QED BY <1>4, <2>1, <2>2, <2>3, ConnectionStacks, Words DEF Answers
<1>5. CASE b = "connectIdentified"
  <2> DEFINE m == <<>> ** "self" ** "event" ** "callback"
             s == m ** "identifier"
  <2>1. a = s /\ p \in Connect(Take("identifier"))
    BY <1>5, BindingIs
  <2>2. m \in Stack /\ s \in Stack
    BY StackFacts, Words
  <2>3. Plays(s, Take("identifier"), m)
    BY <2>2, PopRules, Words
  <2>4. p \in Code /\ \E t \in Connection : Plays(s, p, t)
    BY <2>1, <2>2, <2>3, ConnectAnswers, CallsAreCode, Words
  <2> QED BY <1>5, <2>1, <2>2, <2>4, ConnectionStacks, Words DEF Answers
<1>6. CASE b \in {"create", "delete", "handler"}
  BY <1>6, BindingIs, CreateAnswers, DeleteAnswers, HandlerAnswers, StackFacts, Words DEF Answers, Answer
<1> QED BY <1>1, <1>2, <1>3, <1>4, <1>5, <1>6, BoundAre

\* The calls of a connect that takes the wrong arguments are plain.
LEMMA PlainCalls ==
  /\ \A x : Plain([op |-> "take", n |-> 1, v |-> x])
  /\ Plain([op |-> "push", n |-> 0, v |-> "value"])
<1>1. ASSUME NEW x PROVE Plain([op |-> "take", n |-> 1, v |-> x])
  BY DEF Plain
<1>2. Plain([op |-> "push", n |-> 0, v |-> "value"])
  <2> DEFINE c == [op |-> "push", n |-> 0, v |-> "value"]
  <2>1. c.op = "push"
    OBVIOUS
  <2> HIDE DEF c
  <2>2. Plain(c)
    BY <2>1 DEF Plain
  <2> QED BY <2>2 DEF c
<1> QED BY <1>1, <1>2

\* So are its frame's.
LEMMA NilPlays ==
  /\ Binding["connectNil"].args \in Stack /\ "connectNil" \in Word
  /\ \A p \in Binding["connectNil"].paths :
       p \in Code /\ \A k \in DOMAIN p : Plain(p[k])
<1>1. /\ Binding["connectNil"].args = <<>> ** "self" ** "event" ** "callback" ** "nil"
      /\ Binding["connectNil"].paths = ConnectNil
  BY DEF Binding, B, **
<1>2. \A p \in ConnectNil : p \in Code
  BY CallsAreCode, CodeFacts, Words DEF ConnectNil
<1>3. \A p \in ConnectNil : \A k \in DOMAIN p : Plain(p[k])
  <2> DEFINE a == [op |-> "take", n |-> 1, v |-> "callback"]
             b == [op |-> "take", n |-> 1, v |-> "event"]
             c == [op |-> "take", n |-> 1, v |-> "self"]
             d == [op |-> "push", n |-> 0, v |-> "value"]
  <2>1. ConnectNil = {<<a, b, c, d>>}
    BY DEF ConnectNil, Take, Push, I, ++
  <2>2. Plain(a) /\ Plain(b) /\ Plain(c) /\ Plain(d)
    BY PlainCalls
  <2> HIDE DEF a, b, c, d
  <2>3. \A k \in 1 .. 4 : Plain(<<a, b, c, d>>[k])
    BY <2>2
  <2> QED BY <2>1, <2>3
<1> QED BY <1>1, <1>2, <1>3, StackFacts, Words

-----------------------------------------------------------------------------
(* The invariant *)

\* The program's frame is empty at first.
LEMMA InitIInv == Init => IInv
<1> SUFFICES ASSUME Init PROVE IInv
  OBVIOUS
<1> DEFINE f == [of |-> "main", stack |-> <<>>, todo |-> <<>>]
<1>1. frames = <<f>> /\ Len(frames) = 1 /\ frames[1] = f
  BY DEF Init
<1>2. f \in Frame /\ f.of = "main" /\ f.stack = <<>> /\ f.todo = <<>>
  BY StackFacts, CodeFacts, Words DEF Frame
<1>3. Plays(<<>>, <<>>, <<>>) /\ Ends("main", <<>>) /\ <<>> \in Stack
  BY RowRules, StackFacts, BoundAre DEF Ends, Calls
<1>4. Going(f)
  BY <1>2, <1>3 DEF Going
<1> HIDE DEF f
<1> QED BY <1>1, <1>2, <1>4 DEF IInv

\* The top frame is one of them.
LEMMA TopFacts ==
  ASSUME IInv
  PROVE  /\ Len(frames) \in Nat \ {0} /\ Top = frames[Len(frames)]
         /\ Top \in Frame /\ Going(Top)
         /\ Top.of \in Word /\ Top.stack \in Stack /\ Top.todo \in Code
<1>1. frames \in Seq(Frame) /\ frames # <<>> /\ \A i \in DOMAIN frames : Going(frames[i])
  BY DEF IInv
<1>2. Len(frames) \in Nat \ {0} /\ Top = frames[Len(frames)] /\ Len(frames) \in DOMAIN frames
  BY <1>1 DEF Top, Last
<1>3. Top \in Frame
  BY <1>1, <1>2
<1> QED BY <1>1, <1>2, <1>3 DEF Frame

\* A step of the top frame alone.
LEMMA TopKeeps ==
  ASSUME IInv, NEW s \in Stack, NEW p \in Code, WithTop(s, p),
         Going([of |-> Top.of, stack |-> s, todo |-> p])
  PROVE  IInv'
<1> DEFINE n == Len(frames)
           f == [of |-> Top.of, stack |-> s, todo |-> p]
<1>1. n \in Nat \ {0} /\ Top = frames[n] /\ Top \in Frame /\ f \in Frame /\ f.of = Top.of
  BY TopFacts DEF Frame
<1>2. frames' = [frames EXCEPT ![n] = f]
  BY DEF WithTop
<1> HIDE DEF f
<1>4. /\ frames' \in Seq(Frame) /\ Len(frames') = n /\ frames'[n] = f
      /\ \A i \in 1 .. n : i # n => frames'[i] = frames[i]
  BY <1>1, <1>2 DEF IInv
<1>5. \A i \in 1 .. n : frames'[i].of = frames[i].of
  BY <1>1, <1>4
<1>6. \A i \in 1 .. n : Going(frames'[i])
  BY <1>1, <1>4 DEF IInv, f
<1> QED BY <1>1, <1>4, <1>5, <1>6 DEF IInv

\* What the next call needs, it finds; what it leaves, goes on.
LEMMA NextCall ==
  ASSUME IInv, Top.todo # <<>>
  PROVE  /\ Now \in Instr /\ Tail(Top.todo) \in Code
         /\ \/ /\ Top.of = "initFails" /\ Top.stack = <<>>
               /\ Now.op = "do" /\ Now.v = "initFails" /\ Tail(Top.todo) = <<>>
            \/ /\ Top.of = "connectNil" /\ Plain(Now)
               /\ \A k \in DOMAIN Tail(Top.todo) : Plain(Tail(Top.todo)[k])
            \/ /\ Top.of # "connectNil"
               /\ \E m \in Stack, t \in Stack :
                    /\ Step(Top.stack, Now, m) /\ Plays(m, Tail(Top.todo), t)
                    /\ Ends(Top.of, t)
<1>1. Going(Top) /\ Top.stack \in Stack /\ Top.todo \in Code
  BY TopFacts
<1>2. /\ Now \in Instr /\ Tail(Top.todo) \in Code /\ Now = Top.todo[1]
      /\ \A k \in DOMAIN Tail(Top.todo) :
           k + 1 \in DOMAIN Top.todo /\ Tail(Top.todo)[k] = Top.todo[k + 1]
  BY <1>1 DEF Now, Code
<1>3. CASE Top.of = "initFails" /\ Top.stack = <<>> /\ Top.todo = Do("initFails")
  <2>1. Now = [op |-> "do", n |-> 0, v |-> "initFails"] /\ Tail(Top.todo) = <<>>
    BY <1>3 DEF Now, Do, I
  <2> QED BY <1>2, <1>3, <2>1
<1>4. CASE Top.of = "connectNil" /\ \A k \in DOMAIN Top.todo : Plain(Top.todo[k])
  <2>1. 1 \in DOMAIN Top.todo
    BY <1>1 DEF Code
  <2> QED BY <1>2, <1>4, <2>1
<1>5. CASE Top.of # "connectNil" /\ \E t \in Stack : Plays(Top.stack, Top.todo, t) /\ Ends(Top.of, t)
  <2>1. PICK t \in Stack : Plays(Top.stack, Top.todo, t) /\ Ends(Top.of, t)
    BY <1>5
  <2>2. PICK m \in Stack : Step(Top.stack, Head(Top.todo), m) /\ Plays(m, Tail(Top.todo), t)
    BY <1>1, <2>1, PlaysHead
  <2> QED BY <1>2, <1>5, <2>1, <2>2 DEF Now
<1> QED BY <1>1, <1>3, <1>4, <1>5 DEF Going

\* The program calls the next function.
LEMMA BeginKeeps == ASSUME IInv, Begin PROVE IInv'
<1>1. Len(frames) = 1 /\ Top.todo = <<>> /\ Top = frames[1] /\ Going(Top) /\ Top \in Frame
  BY TopFacts DEF Begin, Idle
<1>2. PICK op \in CASE Top.of = "main"      -> {"init", "initFails"}
                    [] Top.of = "initFails" -> {}
                    [] OTHER                -> Calls :
        frames' = <<[of |-> op, stack |-> Top.stack, todo |-> Do(op)]>>
  BY DEF Begin
<1> DEFINE f == [of |-> op, stack |-> Top.stack, todo |-> Do(op)]
<1>3. Top.of \in {"main", "init", "initFails"} \cup Calls /\ Top.of # "initFails" /\ Top.of # "connectNil"
  BY <1>1, <1>2 DEF IInv, Calls
<1>4. op \in {"init", "initFails"} \cup Calls /\ op \in Word /\ Do(op) \in Code
  BY <1>2, <1>3, Words, CallsAreCode DEF Calls
<1>5. f \in Frame /\ frames' = <<f>> /\ f.of = op /\ f.stack = Top.stack /\ f.todo = Do(op)
  BY <1>1, <1>2, <1>4 DEF Frame
<1>6. PICK t \in Stack : Plays(Top.stack, <<>>, t) /\ Ends(Top.of, t)
  BY <1>1, <1>3 DEF Going
<1>7. Top.stack = t
  BY <1>6, PlaysNoMore
<1>8. ASSUME Top.of = "main" /\ op = "init" PROVE Going(f)
  <2>1. Top.stack = <<>> /\ Left \in Stack
    BY <1>6, <1>7, <1>8, StackFacts, Words DEF Ends, Left
  <2>2. Effect("init", <<>>, Left)
    BY DEF Effect, Left
  <2>3. Plays(<<>>, Do("init"), Left)
    BY <2>1, <2>2, DoPlays, StackFacts, Words
  <2>4. Ends("init", Left)
    BY BoundAre DEF Ends
  <2> QED BY <1>5, <1>8, <2>1, <2>3, <2>4 DEF Going
<1>9. ASSUME Top.of = "main" /\ op = "initFails" PROVE Going(f)
  <2>1. Top.stack = <<>>
    BY <1>6, <1>7, <1>9 DEF Ends
  <2> QED BY <1>5, <1>9, <2>1 DEF Going
<1>10. ASSUME Top.of # "main" PROVE Going(f)
  <2>1. op \in Calls /\ Top.stack = Left /\ Left \in Stack
    BY <1>2, <1>3, <1>6, <1>7, <1>10 DEF Ends
  <2>2. Len(Left) < Room
    BY DEF Left, Room, **
  <2>3. op \in Even \/ op \in Roomy
    BY <2>1 DEF Calls, Even, Roomy
  <2>4. Plays(Left, Do(op), Left)
    BY <1>4, <2>1, <2>2, <2>3, DoRules
  <2>5. Ends(op, Left) /\ op # "connectNil"
    BY <2>1, BoundAre DEF Ends, Calls
  <2> QED BY <1>5, <2>1, <2>4, <2>5 DEF Going
<1>11. Going(f)
  BY <1>2, <1>8, <1>9, <1>10
<1> HIDE DEF f
<1>12. Len(frames') = 1 /\ frames'[1] = f /\ frames' \in Seq(Frame) /\ frames' # <<>>
  BY <1>5
<1> QED BY <1>4, <1>5, <1>11, <1>12 DEF IInv

\* A path of a function leads where the function should.
LEMMA EnterKeeps == ASSUME IInv, Enter PROVE IInv'
<1>1. Top.todo # <<>> /\ Now.op = "do"
  BY DEF Enter, Busy
<1>2. PICK p \in Function[Now.v] : WithTop(Top.stack, p ++ Tail(Top.todo))
  BY DEF Enter
<1>3. Now \in Instr /\ Tail(Top.todo) \in Code /\ Top.stack \in Stack
  BY <1>1, NextCall, TopFacts
<1> DEFINE f == [of |-> Top.of, stack |-> Top.stack, todo |-> p ++ Tail(Top.todo)]
<1>4. CASE /\ Top.of = "initFails" /\ Top.stack = <<>>
           /\ Now.v = "initFails" /\ Tail(Top.todo) = <<>>
  <2>1. PICK t \in Stack : p \in Code /\ Plays(<<>>, p, t)
    BY <1>2, <1>4, FunctionIs, ScriptInitFailsPlays
  <2>2. p ++ <<>> = p
    BY <2>1 DEF Code, ++
  <2>3. Ends("initFails", t)
    BY BoundAre DEF Ends, Calls
  <2>4. Going(f)
    BY <1>4, <2>1, <2>2, <2>3 DEF Going
  <2> QED BY <1>2, <1>3, <1>4, <2>1, <2>2, <2>4, TopKeeps
<1>5. CASE Top.of # "connectNil"
           /\ \E m \in Stack, t \in Stack :
                Step(Top.stack, Now, m) /\ Plays(m, Tail(Top.todo), t) /\ Ends(Top.of, t)
  <2>1. PICK m \in Stack, t \in Stack :
          Step(Top.stack, Now, m) /\ Plays(m, Tail(Top.todo), t) /\ Ends(Top.of, t)
    BY <1>5
  <2>2. Now.v \in Word /\ Effect(Now.v, Top.stack, m)
    BY <1>1, <1>3, <2>1 DEF Step, Instr
  <2>3. p \in Code /\ Plays(Top.stack, p, m)
    BY <1>2, <1>3, <2>2, FunctionPlays
  <2>4. Plays(Top.stack, p ++ Tail(Top.todo), t) /\ p ++ Tail(Top.todo) \in Code
    BY <1>3, <2>1, <2>3, PlaysThen, CodeFacts
  <2>5. Going(f)
    BY <1>5, <2>1, <2>4 DEF Going
  <2> QED BY <1>2, <1>3, <2>4, <2>5, TopKeeps
<1> QED BY <1>1, <1>4, <1>5, NextCall DEF Plain

\* A call into Lua, or a script that ends.
LEMMA CallKeeps ==
  ASSUME IInv, Top.todo # <<>>, Now.op # "do",
         WithTop(After(Top.stack, Now), Tail(Top.todo))
  PROVE  IInv'
<1> DEFINE s == After(Top.stack, Now)
           p == Tail(Top.todo)
           f == [of |-> Top.of, stack |-> s, todo |-> p]
<1>1. p \in Code /\ Now \in Instr /\ Top.stack \in Stack
  BY NextCall, TopFacts
<1>2. CASE Top.of = "connectNil" /\ Plain(Now)
           /\ \A k \in DOMAIN p : Plain(p[k])
  <2>1. s \in Stack
    <3>1. Now.v \in Word
      BY <1>1 DEF Instr
    <3>2. CASE Now.op = "push"
      BY <1>1, <3>1, <3>2, StackFacts DEF After
    <3>3. CASE Now.op = "take"
      <4>1. s = Drop(Top.stack, Now.n)
        BY <3>3 DEF After
      <4>2. Now.n = 1
        BY <1>2, <3>3 DEF Plain
      <4> QED BY <1>1, <4>1, <4>2 DEF Drop, Stack
    <3> QED BY <1>2, <3>2, <3>3 DEF Plain
  <2>2. Going(f)
    BY <1>2 DEF Going
  <2> QED BY <1>1, <2>1, <2>2, TopKeeps
<1>3. CASE Top.of # "connectNil"
           /\ \E m \in Stack, t \in Stack :
                Step(Top.stack, Now, m) /\ Plays(m, p, t) /\ Ends(Top.of, t)
  <2>1. PICK m \in Stack, t \in Stack :
          Step(Top.stack, Now, m) /\ Plays(m, p, t) /\ Ends(Top.of, t)
    BY <1>3
  <2>2. m = s
    BY <2>1 DEF Step
  <2>3. s \in Stack /\ Going(f)
    BY <1>3, <2>1, <2>2 DEF Going
  <2> QED BY <1>1, <2>3, TopKeeps
<1> QED BY <1>2, <1>3, NextCall

\* Stacks written out.
LEMMA Lists ==
  ASSUME NEW x \in Word, NEW y \in Word, NEW z \in Word
  PROVE  <<>> ** x = <<x>> /\ <<>> ** x ** y = <<x, y>> /\ <<>> ** x ** y ** z = <<x, y, z>>
<1>1. /\ <<x>> \in Stack /\ Len(<<x>>) = 1 /\ <<x>>[1] = x
      /\ <<x, y>> \in Stack /\ Len(<<x, y>>) = 2 /\ <<x, y>>[1] = x /\ <<x, y>>[2] = y
      /\ <<x, y, z>> \in Stack /\ Len(<<x, y, z>>) = 3
      /\ <<x, y, z>>[1] = x /\ <<x, y, z>>[2] = y /\ <<x, y, z>>[3] = z
  BY DEF Stack
<1>2. <<>> ** x = <<x>>
  BY DEF **
<1>3. <<x>> ** y = <<x, y>>
  <2> DEFINE a == <<x>>
             b == <<x, y>>
  <2>1. a \in Stack /\ b \in Stack /\ Len(a) = 1 /\ Len(b) = 2 /\ a[1] = x /\ b[1] = x /\ b[2] = y
    BY <1>1
  <2> HIDE DEF a, b
  <2>2. /\ a ** y \in Stack /\ Len(a ** y) = Len(a) + 1
        /\ \A i \in 1 .. Len(a) : (a ** y)[i] = a[i]
        /\ \A i \in {Len(a) + 1} : (a ** y)[i] = y
    BY <2>1, OnTop
  <2>3. \A i \in 1 .. 2 : (a ** y)[i] = b[i]
    BY <2>1, <2>2
  <2>4. a ** y = b
    BY <2>1, <2>2, <2>3, SameSlots
  <2> QED BY <2>4 DEF a, b
<1>4. <<x, y>> ** z = <<x, y, z>>
  <2> DEFINE a == <<x, y>>
             b == <<x, y, z>>
  <2>1. /\ a \in Stack /\ b \in Stack /\ Len(a) = 2 /\ Len(b) = 3
        /\ a[1] = x /\ a[2] = y /\ b[1] = x /\ b[2] = y /\ b[3] = z
    BY <1>1
  <2> HIDE DEF a, b
  <2>2. /\ a ** z \in Stack /\ Len(a ** z) = Len(a) + 1
        /\ \A i \in 1 .. Len(a) : (a ** z)[i] = a[i]
        /\ \A i \in {Len(a) + 1} : (a ** z)[i] = z
    BY <2>1, OnTop
  <2>3. \A i \in 1 .. 3 : (a ** z)[i] = b[i]
    BY <2>1, <2>2
  <2>4. a ** z = b
    BY <2>1, <2>2, <2>3, SameSlots
  <2> QED BY <2>4 DEF a, b
<1> QED BY <1>2, <1>3, <1>4

\* All frames but the last.
LEMMA FrontFrames ==
  ASSUME NEW s \in Seq(Frame), s # <<>>
  PROVE  /\ Front(s) \in Seq(Frame) /\ Len(Front(s)) = Len(s) - 1
         /\ \A i \in 1 .. Len(s) - 1 : Front(s)[i] = s[i]
<1> DEFINE n == Len(s) - 1
<1>1. n \in Nat /\ n <= Len(s)
  OBVIOUS
<1>2. Front(s) = SubSeq(s, 1, n)
  BY DEF Front
<1> HIDE DEF n
<1>3. SubSeq(s, 1, n) \in Seq(Frame) /\ Len(SubSeq(s, 1, n)) = n
  BY <1>1
<1>4. \A i \in 1 .. n : SubSeq(s, 1, n)[i] = s[i]
  BY <1>1
<1> QED BY <1>2, <1>3, <1>4 DEF n

\* A script calls a function.
LEMMA ScriptCallsKeeps == ASSUME IInv, ScriptCalls PROVE IInv'
<1>0. PICK b \in DOMAIN Binding :
        \E p \in Binding[b].paths :
          frames' = Append(frames, [of |-> b, stack |-> Binding[b].args, todo |-> p])
  BY DEF ScriptCalls, Callable
<1>1. PICK p \in Binding[b].paths :
        frames' = Append(frames, [of |-> b, stack |-> Binding[b].args, todo |-> p])
  BY <1>0
<1> DEFINE f == [of |-> b, stack |-> Binding[b].args, todo |-> p]
           n == Len(frames)
<1>2. f \in Frame /\ Going(f)
  <2>1. CASE b = "connectNil"
    BY <2>1, NilPlays DEF Going, Frame
  <2>2. CASE b # "connectNil"
    <3>1. b \in Bound
      BY <2>2 DEF Bound
    <3>2. /\ p \in Code /\ Binding[b].args \in Stack /\ b \in Word
          /\ \E t \in Stack : Plays(Binding[b].args, p, t) /\ Answers(b, t)
      BY <3>1, BindingPlays
    <3>3. b \notin {"main", "init"} \cup Calls
      BY <3>1, BoundAre DEF Calls
    <3>4. \E t \in Stack : Plays(Binding[b].args, p, t) /\ Ends(b, t)
      BY <3>2, <3>3 DEF Ends
    <3> QED BY <2>2, <3>2, <3>4 DEF Going, Frame
  <2> QED BY <2>1, <2>2
<1>3. f.of = b
  OBVIOUS
<1> HIDE DEF f
<1>4. /\ n \in Nat \ {0} /\ frames' \in Seq(Frame) /\ Len(frames') = n + 1 /\ frames'[n + 1] = f
      /\ \A i \in 1 .. n : frames'[i] = frames[i]
  BY <1>1, <1>2, TopFacts DEF IInv, f
<1> HIDE DEF n
<1>5. \A i \in 1 .. n + 1 : Going(frames'[i])
  <2>1. \A i \in 1 .. n : Going(frames[i])
    BY <1>4 DEF IInv, n
  <2> QED BY <1>2, <1>4, <2>1
<1>6. \A i \in 2 .. n + 1 : frames'[i].of \in DOMAIN Binding
  <2>1. \A i \in 2 .. n : frames[i].of \in DOMAIN Binding
    BY DEF IInv, n
  <2> QED BY <1>1, <1>3, <1>4, <2>1
<1>7. frames'[1].of \in {"main", "init", "initFails"} \cup Calls
  BY <1>4 DEF IInv
<1> QED BY <1>4, <1>5, <1>6, <1>7 DEF IInv

\* The function returns.
LEMMA ReturnKeeps == ASSUME IInv, Return PROVE IInv'
<1> DEFINE n == Len(frames)
<1>1. n \in Nat \ {0, 1} /\ frames' = Front(frames)
  BY TopFacts DEF Return
<1>2. /\ frames' \in Seq(Frame) /\ Len(frames') = n - 1
      /\ \A i \in 1 .. n - 1 : frames'[i] = frames[i]
  BY <1>1, FrontFrames DEF IInv
<1>3. \A i \in 1 .. n - 1 : Going(frames'[i])
  BY <1>1, <1>2 DEF IInv
<1>4. \A i \in 2 .. n - 1 : frames'[i].of \in DOMAIN Binding
  BY <1>1, <1>2 DEF IInv
<1>5. frames'[1].of \in {"main", "init", "initFails"} \cup Calls
  BY <1>1, <1>2 DEF IInv
<1> QED BY <1>1, <1>2, <1>3, <1>4, <1>5 DEF IInv

\* Every step keeps the invariant.
LEMMA NextIInv == IInv /\ [Next]_frames => IInv'
<1> SUFFICES ASSUME IInv, [Next]_frames PROVE IInv'
  OBVIOUS
<1>1. CASE Begin
  BY <1>1, BeginKeeps
<1>2. CASE Enter
  BY <1>2, EnterKeeps
<1>3. CASE CallLua
  BY <1>3, CallKeeps DEF CallLua
<1>4. CASE ScriptCalls
  BY <1>4, ScriptCallsKeeps
<1>5. CASE ScriptEnds
  BY <1>5, CallKeeps DEF ScriptEnds, Busy
<1>6. CASE Return
  BY <1>6, ReturnKeeps
<1>7. CASE UNCHANGED frames
  BY <1>7 DEF IInv
<1> QED BY <1>1, <1>2, <1>3, <1>4, <1>5, <1>6, <1>7 DEF Next

\* It always holds.
LEMMA Invariance == Spec => []IInv
BY InitIInv, NextIInv, PTL DEF Spec

-----------------------------------------------------------------------------
(* What follows *)

\* Each call into Lua finds the slots it is about, with the kind of value it needs,
\* on every path of LuaScript, Module and ModuleManager, failing ones included.
THEOREM CallsFit == Spec => []OperandsFit
<1>1. IInv => OperandsFit
  <2> SUFFICES ASSUME IInv, Top.todo # <<>>, Now.op # "take" PROVE Fits(Top.stack, Now)
    BY DEF OperandsFit
  <2>1. CASE Now.op = "do" \/ Now.op = "push"
    BY <2>1 DEF Fits
  <2>2. CASE Now.op # "do" /\ Now.op # "push"
    BY <2>2, NextCall DEF Step, Plain
  <2> QED BY <2>1, <2>2
<1> QED BY <1>1, Invariance, PTL

\* Every function that scripts call takes each argument for the parameter it is.
THEOREM ArgumentsFit == Spec => []ArgumentsMeetParameters
<1>1. IInv => ArgumentsMeetParameters
  <2> SUFFICES ASSUME IInv, Top.todo # <<>>, Now.op = "take", Top.of # "connectNil"
               PROVE  Fits(Top.stack, Now)
    BY DEF ArgumentsMeetParameters, Busy
  <2>1. Top.stack # <<>> /\ Last(Top.stack) = Now.v
    BY NextCall DEF Step
  <2> QED BY <2>1 DEF Fits
<1> QED BY <1>1, Invariance, PTL

\* Between the program's calls its stack is what init left, whatever went wrong in
\* them and however deep scripts called back.
THEOREM StackIsBalanced == Spec => []Balanced
<1>1. IInv => Balanced
  <2> SUFFICES ASSUME IInv, Idle, Top.of \notin {"main", "initFails"}
               PROVE  Top.stack = <<"config", "_G", "nil">>
    BY DEF Balanced
  <2>1. Top.of \in {"init"} \cup Calls /\ Top.of # "connectNil"
    BY TopFacts DEF IInv, Idle, Calls
  <2>2. PICK t \in Stack : Plays(Top.stack, <<>>, t) /\ Ends(Top.of, t)
    BY <2>1, TopFacts DEF Going, Idle
  <2>3. Top.stack = Left
    BY <2>1, <2>2, PlaysNoMore DEF Ends
  <2>4. "config" \in Word /\ "_G" \in Word /\ "nil" \in Word
    BY Words
  <2>5. <<>> ** "config" ** "_G" ** "nil" = <<"config", "_G", "nil">>
    BY <2>4, Lists
  <2> QED BY <2>3, <2>5 DEF Left
<1> QED BY <1>1, Invariance, PTL

\* No function's argument is the kind of value it answers.
LEMMA ArgumentsDiffer == \A b \in Bound : Range(Binding[b].args) \cap Answer = {}
<1>1. \A a \in Word : Range(<<a>>) = {a}
  BY DEF Range
<1>2. \A a, b : Range(<<a, b>>) = {a, b}
  BY DEF Range
<1>3. \A a, b, c : Range(<<a, b, c>>) = {a, b, c}
  BY DEF Range
<1>4. \A a, b, c, d : Range(<<a, b, c, d>>) = {a, b, c, d}
  BY DEF Range
<1> QED BY <1>1, <1>2, <1>3, <1>4, BoundAre, Words DEF Binding, B, Answer

\* A function that scripts call returns one value, none of its arguments.
THEOREM FunctionsAnswerOnce == Spec => []OneResult
<1>1. IInv => OneResult
  <2> SUFFICES ASSUME IInv, Len(frames) > 1, Top.todo = <<>>,
                      Top.of \notin {"delete", "connect", "connectIdentified", "connectNil"}
               PROVE  Len(Results(Top)) = 1 /\ Results(Top)[1] \notin Range(Binding[Top.of].args)
    BY DEF OneResult
  <2>1. Top.of \in Bound
    BY TopFacts DEF IInv, Bound
  <2>2. PICK t \in Stack : Plays(Top.stack, <<>>, t) /\ Ends(Top.of, t)
    <3>1. Top.of # "initFails"
      BY <2>1, BoundAre
    <3> QED BY <2>1, <3>1, TopFacts DEF Going
  <2>3. Top.stack = t /\ Answers(Top.of, t)
    BY <2>1, <2>2, PlaysNoMore DEF Ends
  <2>4. \E x \in Answer : Results(Top) = <<x>>
    <3>1. CASE Top.of = "create"
      <4>1. <<>> ** "class" ** "userdata" = <<"class", "userdata">>
        BY Lists, Words
      <4>2. Results(Top) = Tail(<<"class", "userdata">>)
        BY <3>1, <2>3, <4>1 DEF Answers, Results
      <4> QED BY <4>2 DEF Answer
    <3>2. CASE Top.of # "create"
      <4>1. PICK x \in Answer : Top.stack = <<x>>
        BY <2>1, <2>3, <3>2, BoundAre, Lists, Words DEF Answers, Answer
      <4>2. Results(Top) = <<x>>
        BY <3>2, <4>1 DEF Results, Last
      <4> QED BY <4>2
    <3> QED BY <3>1, <3>2
  <2> QED BY <2>1, <2>4, ArgumentsDiffer
<1> QED BY <1>1, Invariance, PTL
=============================================================================
