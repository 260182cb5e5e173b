-------------------------- MODULE Evaluation_proofs --------------------------
(***************************************************************************)
(* Proofs about ExpressionEvaluation, for any number of threads, functions *)
(* of any shape, any code and any points.                                  *)
(***************************************************************************)
EXTENDS ExpressionEvaluation, DataTheorems

USE EvaluationAssumption

-----------------------------------------------------------------------------
(* What a function is made of, in terms of what its constructor left. *)

\* the object of Expression, and what each call of it has to evaluate
Fn(f)        == [dims |-> f.dims, function_ |-> f.function_, gradients_ |-> f.gradients_]
All(f, what) == Todo(Fn(f), what)

\* what an object is worth at a point, and what the first n of them are
Worth(f, m, xx)        == [k \in DOMAIN f.maths[m].op |-> CodeValue(f.maths[m].op[k], xx)]
FirstOf(f, all, n, xx) == FlattenSeq([i \in 1 .. n |-> Worth(f, all[i], xx)])

Ends(f, what, xx) ==
  IF Throws(Fn(f), what) THEN NoGradient
  ELSE ResultOf(f.dims, what, FirstOf(f, All(f, what), Len(All(f, what)), xx))

-----------------------------------------------------------------------------
(* Types. *)

Objects     == UNION {{f.maths[m] : m \in DOMAIN f.maths} : f \in Constructed}
Codes       == UNION {ToSet(math.op) : math \in Objects}
Coordinates == UNION ({ToSet(math.arg) : math \in Objects} \cup {ToSet(xx) : xx \in Points})
Args        == [DOMAIN VariableNames -> Coordinates]
Numbers     == {CodeValue(code, arg) : code \in Codes, arg \in Args}

Math == [expressions : {math.expressions : math \in Objects}, op : Seq(Codes) \ {<<>>},
         arg : Args, mutex : Threads \cup {NoThread}]

Whats    == {"evaluate", "jacobian", "MathExpressionBase"}
Parts    == {SubSeq(xx, 1, 1) : xx \in Points}
Outcomes == {<<>>, NoGradient} \cup {ResultOf(f.dims, what, ret) : f \in Constructed, what \in Whats, ret \in Seq(Numbers)}

Calls(f) == [at : {"idle", "lock", "copy arg", "copy ret", "unlock", "return"}, f : Nat, what : Whats \cup {"none"},
             xx : Points \cup Parts \cup {<<>>}, todo : Seq(DOMAIN f.maths), k : Nat, ret : Seq(Numbers),
             outcome : Outcomes]

Typed(f) ==
  /\ maths \in [DOMAIN f.maths -> Math]
  /\ \A m \in DOMAIN f.maths : maths[m].op = f.maths[m].op
  /\ created \in Seq({Fn(f)}) \ {<<>>}
  /\ calls \in [Threads -> Calls(f)]

-----------------------------------------------------------------------------
(* The inductive invariant. *)

\* the objects of a call that it is done with
Done(f, c) == Len(All(f, c.what)) - Len(c.todo)

\* What a call has computed is what it would have computed on its own.
Sequential(f, c) ==
  LET all  == All(f, c.what)
      done == FirstOf(f, all, Done(f, c), c.xx)
      now  == Worth(f, Head(c.todo), c.xx)
  IN  /\ ~Throws(Fn(f), c.what)
      /\ Done(f, c) \in Nat
      /\ \A i \in 1 .. Len(c.todo) : c.todo[i] = all[Done(f, c) + i]
      /\ c.at = "return" <=> c.todo = <<>>
      /\ c.at \in {"lock", "copy arg", "return"} => c.ret = done
      /\ c.at = "copy ret" => c.ret = done \o SubSeq(now, 1, c.k - 1)
      /\ c.at = "unlock" => c.ret = done \o now

\* where the point and the components of a call are, and its function
Placed(f, c) ==
  /\ c.what = "none" => c.at = "idle"
  /\ c.what \in {"evaluate", "jacobian"} => c.xx \in Points
  /\ c.what = "MathExpressionBase" => c.xx \in Parts
  /\ c.at # "idle" /\ c.at # "return" => c.todo # <<>>
  /\ c.at = "copy arg" => c.k \in 1 .. Len(c.xx)
  /\ c.at = "copy ret" => c.k \in 1 .. Len(f.maths[Head(c.todo)].op)

ToExpression(c) == c.what \in {"evaluate", "jacobian"}

CallInv(f, c) ==
  /\ Placed(f, c)
  /\ c.at # "idle" /\ ToExpression(c) => Sequential(f, c)
  /\ c.at = "idle" /\ ToExpression(c) => c.outcome = Ends(f, c.what, c.xx)

\* A thread that assigns or reads the variables of an object holds its mutex, and
\* what it has copied is there.
Guarded(t) ==
  LET c == calls[t]
      m == maths[Head(c.todo)]
  IN  /\ c.at \in {"copy arg", "copy ret", "unlock"} => m.mutex = t
      /\ c.at = "copy arg" => \A i \in 1 .. c.k - 1 : m.arg[i] = c.xx[i]
      /\ c.at = "copy ret" /\ ToExpression(c) => m.arg = c.xx

FInv(f) ==
  /\ Typed(f)
  /\ \A t \in Threads : /\ CallInv(f, calls[t]) /\ Guarded(t)
                        /\ calls[t].what # "none" => calls[t].f \in DOMAIN created

IInv == \E f \in Constructed : FInv(f)

-----------------------------------------------------------------------------
(* What constructors leave. *)

LEMMA Dimension == /\ Len(VariableNames) \in Nat \ {0}
                   /\ DOMAIN VariableNames = 1 .. Len(VariableNames)
  OBVIOUS

LEMMA PointsAreArgs ==
  ASSUME NEW xx \in Points
  PROVE  xx \in Args /\ xx \in Seq(Coordinates) /\ Len(xx) = Len(VariableNames)
  <1>1. xx = [i \in DOMAIN VariableNames |-> xx[i]]
    OBVIOUS
  <1>2. ToSet(xx) \subseteq Coordinates
    BY DEF Coordinates
  <1>3. \A i \in DOMAIN VariableNames : xx[i] \in Coordinates
    BY <1>1, <1>2 DEF ToSet
  <1>4. xx \in Args
    BY <1>1, <1>3 DEF Args
  <1>5. xx \in [1 .. Len(VariableNames) -> Coordinates]
    BY <1>4, Dimension DEF Args
  <1> QED
    BY <1>4, <1>5, Dimension

LEMMA PartsAreShort ==
  ASSUME NEW xx \in Parts
  PROVE  xx \in Seq(Coordinates) /\ Len(xx) = 1
  <1>1. PICK p \in Points : xx = SubSeq(p, 1, 1)
    BY DEF Parts
  <1>2. p \in Seq(Coordinates) /\ Len(p) \in Nat \ {0}
    BY PointsAreArgs, Dimension
  <1> QED
    BY <1>1, <1>2

LEMMA ObjectsAreMath ==
  ASSUME NEW f \in Constructed, NEW m \in DOMAIN f.maths
  PROVE  /\ f.maths[m] \in Math /\ f.maths[m].mutex = NoThread
         /\ f.maths[m].op \in Seq(Codes) \ {<<>>}
         /\ Len(f.maths[m].op) \in Nat \ {0}
         /\ DOMAIN f.maths[m].op = 1 .. Len(f.maths[m].op)
  <1>1. PICK math : math = f.maths[m]
    OBVIOUS
  <1>2. math \in Objects
    BY <1>1 DEF Objects
  <1>3. /\ math = [expressions |-> math.expressions, op |-> math.op, arg |-> math.arg, mutex |-> NoThread]
        /\ math.arg = [i \in DOMAIN VariableNames |-> math.arg[i]]
        /\ math.op \in Seq(ToSet(math.op)) \ {<<>>}
    BY <1>1, ZenonT(60)
  <1>4. math.op \in Seq(Codes) \ {<<>>}
    <2>1. ToSet(math.op) \subseteq Codes
      BY <1>2 DEF Codes
    <2>2. Seq(ToSet(math.op)) \subseteq Seq(Codes)
      BY <2>1
    <2> QED
      BY <1>3, <2>2
  <1>5. math.arg \in Args
    <2>1. ToSet(math.arg) \subseteq Coordinates
      BY <1>2 DEF Coordinates
    <2>2. \A i \in DOMAIN VariableNames : math.arg[i] \in Coordinates
      BY <1>3, <2>1 DEF ToSet
    <2> QED
      BY <1>3, <2>2 DEF Args
  <1>6. math.expressions \in {other.expressions : other \in Objects}
    BY <1>2
  <1>7. PICK e : e = math.expressions
    OBVIOUS
  <1>8. math = [expressions |-> e, op |-> math.op, arg |-> math.arg, mutex |-> NoThread]
    BY <1>3, <1>7
  <1>9. math \in Math /\ math.mutex = NoThread
    BY ONLY <1>4, <1>5, <1>6, <1>7, <1>8 DEF Math
  <1> QED
    BY <1>1, <1>4, <1>9

LEMMA WorthIsNumbers ==
  ASSUME NEW f \in Constructed, NEW m \in DOMAIN f.maths, NEW xx \in Args
  PROVE  /\ Worth(f, m, xx) \in Seq(Numbers)
         /\ Len(Worth(f, m, xx)) = Len(f.maths[m].op)
         /\ \A k \in 1 .. Len(f.maths[m].op) : Worth(f, m, xx)[k] = CodeValue(f.maths[m].op[k], xx)
  <1>1. PICK op : op = f.maths[m].op /\ op \in Seq(Codes) /\ Len(op) \in Nat /\ DOMAIN op = 1 .. Len(op)
    BY ObjectsAreMath
  <1>2. PICK w : w = [k \in 1 .. Len(op) |-> CodeValue(op[k], xx)]
    OBVIOUS
  <1>3. Worth(f, m, xx) = w
    BY <1>1, <1>2 DEF Worth
  <1>4. \A k \in 1 .. Len(op) : CodeValue(op[k], xx) \in Numbers
    BY <1>1 DEF Numbers
  <1>5. w \in [1 .. Len(op) -> Numbers]
    BY <1>2, <1>4
  <1>6. w \in Seq(Numbers) /\ Len(w) = Len(op)
    BY <1>1, <1>5
  <1> QED
    BY <1>1, <1>2, <1>3, <1>6

LEMMA Singleton ==
  ASSUME NEW S, NEW e \in S
  PROVE  <<e>> \in Seq(S) /\ <<e>> # <<>>
  OBVIOUS

LEMMA AllArePlaces ==
  ASSUME NEW f \in Constructed, NEW what \in Whats
  PROVE  /\ All(f, what) \in Seq(DOMAIN f.maths)
         /\ ~Throws(Fn(f), what) => All(f, what) # <<>>
  <1>1. f.function_ \in DOMAIN f.maths /\ f.gradients_ \in Seq(Seq(DOMAIN f.maths) \ {<<>>})
    OBVIOUS
  <1>2. CASE what # "jacobian"
    <2>1. PICK place \in DOMAIN f.maths : place = f.function_
      BY <1>1
    <2>2. All(f, what) = <<place>>
      BY <1>2, <2>1 DEF All, Todo, Fn
    <2>3. <<place>> \in Seq(DOMAIN f.maths) /\ <<place>> # <<>>
      BY Singleton
    <2> QED
      BY ONLY <2>2, <2>3
  <1>3. CASE what = "jacobian"
    <2>1. PICK g : g = f.gradients_
      OBVIOUS
    <2>2. All(f, what) = FlattenSeq(g)
      BY <1>3, <2>1 DEF All, Todo, Fn
    <2>3. Len(g) \in Nat /\ g \in [1 .. Len(g) -> Seq(DOMAIN f.maths) \ {<<>>}]
      BY <1>1, <2>1
    <2>4. g \in [1 .. Len(g) -> Seq(DOMAIN f.maths)]
      BY <2>3
    <2>5. /\ FlattenSeq(g) \in Seq(DOMAIN f.maths)
          /\ ToSet(FlattenSeq(g)) = UNION {ToSet(g[i]) : i \in 1 .. Len(g)}
      <3>1. PICK n : n = Len(g) /\ n \in Nat
        BY <2>3
      <3>2. PICK places : places = DOMAIN f.maths
        OBVIOUS
      <3>3. g \in [1 .. n -> Seq(places)]
        BY <2>4, <3>1, <3>2
      <3>4. /\ FlattenSeq(g) \in Seq(places)
            /\ ToSet(FlattenSeq(g)) = UNION {ToSet(g[i]) : i \in 1 .. n}
        BY ONLY <3>1, <3>3, Flattened
      <3> QED
        BY <3>1, <3>2, <3>4
    <2>6. ASSUME ~Throws(Fn(f), what) PROVE FlattenSeq(g) # <<>>
      <3>1. g # <<>>
        BY <1>3, <2>1, <2>6 DEF Throws, Fn
      <3>2. 1 \in 1 .. Len(g)
        BY <1>1, <2>1, <3>1
      <3>3. g[1] \in Seq(DOMAIN f.maths) /\ g[1] # <<>>
        BY <2>3, <3>2
      <3>4. g[1][1] \in ToSet(g[1])
        BY <3>3 DEF ToSet
      <3>5. ToSet(FlattenSeq(g)) # {}
        BY ONLY <2>5, <3>2, <3>4
      <3> QED
        BY <3>5 DEF ToSet
    <2> QED
      BY <2>2, <2>5, <2>6
  <1> QED
    BY <1>2, <1>3

\* What one more object is worth goes behind what those before it are.
LEMMA FirstOfGrows ==
  ASSUME NEW f \in Constructed, NEW all \in Seq(DOMAIN f.maths), NEW xx \in Args,
         NEW n \in Nat, n + 1 <= Len(all)
  PROVE  /\ FirstOf(f, all, n, xx) \in Seq(Numbers)
         /\ FirstOf(f, all, n + 1, xx) = FirstOf(f, all, n, xx) \o Worth(f, all[n + 1], xx)
         /\ FirstOf(f, all, n + 1, xx) \in Seq(Numbers)
  <1> DEFINE longer == [i \in 1 .. n + 1 |-> Worth(f, all[i], xx)]
             front  == [i \in 1 .. n |-> Worth(f, all[i], xx)]
  <1>1. \A i \in 1 .. n + 1 : Worth(f, all[i], xx) \in Seq(Numbers)
    <2>1. \A i \in 1 .. n + 1 : all[i] \in DOMAIN f.maths
      OBVIOUS
    <2> QED
      BY <2>1, WorthIsNumbers
  <1>2. longer \in [1 .. n + 1 -> Seq(Numbers)] /\ front \in [1 .. n -> Seq(Numbers)]
    BY <1>1
  <1>3. front = [i \in 1 .. n |-> longer[i]] /\ longer[n + 1] = Worth(f, all[n + 1], xx)
    OBVIOUS
  <1>4. FirstOf(f, all, n + 1, xx) = FlattenSeq(longer) /\ FirstOf(f, all, n, xx) = FlattenSeq(front)
    BY DEF FirstOf
  <1> HIDE DEF longer, front
  <1>5. FlattenSeq(longer) = FlattenSeq(front) \o longer[n + 1]
    BY <1>2, <1>3, FlattenGrows
  <1>6. FlattenSeq(front) \in Seq(Numbers)
    BY <1>2, Flattened
  <1>7. longer[n + 1] \in Seq(Numbers)
    BY <1>2
  <1>8. FlattenSeq(front) \o longer[n + 1] \in Seq(Numbers)
    BY ONLY <1>6, <1>7
  <1> QED
    BY ONLY <1>3, <1>4, <1>5, <1>6, <1>8

LEMMA FirstOfNone ==
  ASSUME NEW f, NEW all, NEW xx
  PROVE  FirstOf(f, all, 0, xx) = <<>>
  <1>1. PICK s : s = [i \in 1 .. 0 |-> Worth(f, all[i], xx)]
    OBVIOUS
  <1>2. s = <<>>
    BY <1>1
  <1> QED
    BY <1>1, <1>2 DEF FirstOf, FlattenSeq

-----------------------------------------------------------------------------
(* One thread moves. *)

LEMMA CallTypes ==
  ASSUME NEW f \in Constructed, FInv(f), NEW t \in Threads, NEW c, c = calls[t]
  PROVE  /\ c \in Calls(f) /\ CallInv(f, c) /\ Guarded(t)
         /\ c.what # "none" => c.f \in DOMAIN created
         /\ c.at # "idle" => c.what \in Whats
         /\ c.at # "idle" /\ c.at # "return" =>
              /\ c.todo # <<>> /\ Head(c.todo) \in DOMAIN f.maths /\ Len(c.todo) \in Nat \ {0}
              /\ maths[Head(c.todo)] \in Math /\ maths[Head(c.todo)].op = f.maths[Head(c.todo)].op
  <1>1. c \in Calls(f) /\ CallInv(f, c) /\ Guarded(t) /\ (c.what # "none" => c.f \in DOMAIN created)
    BY DEF FInv, Typed
  <1>2. c.at # "idle" => c.what \in Whats
    BY <1>1 DEF CallInv, Placed, Calls
  <1>3. ASSUME c.at # "idle", c.at # "return"
        PROVE  c.todo # <<>> /\ Head(c.todo) \in DOMAIN f.maths /\ Len(c.todo) \in Nat \ {0}
    <2>1. c.todo # <<>> /\ c.todo \in Seq(DOMAIN f.maths)
      BY <1>1, <1>3 DEF CallInv, Placed, Calls
    <2> QED
      BY ONLY <2>1
  <1>4. maths \in [DOMAIN f.maths -> Math] /\ \A m \in DOMAIN f.maths : maths[m].op = f.maths[m].op
    BY DEF FInv, Typed
  <1> QED
    BY ONLY <1>1, <1>2, <1>3, <1>4

\* Nobody assigns the variables of an object that another thread holds.
LEMMA OthersAreLeftAlone ==
  ASSUME NEW f \in Constructed, FInv(f), NEW t \in Threads, NEW u \in Threads, u # t,
         calls'[u] = calls[u],
         \A m \in DOMAIN f.maths : m # Head(calls[t].todo) => maths'[m] = maths[m],
         \/ maths' = maths
         \/ calls[t].at \in {"copy arg", "copy ret", "unlock"}
         \/ maths[Head(calls[t].todo)].mutex = NoThread
  PROVE  Guarded(u)'
  <1>1. PICK c : c = calls[u] /\ c = calls'[u]
    OBVIOUS
  <1>2. Guarded(u) /\ Guarded(t)
    BY DEF FInv
  <1>3. CASE c.at \in {"copy arg", "copy ret", "unlock"}
    <2>1. PICK m : m = Head(c.todo) /\ m \in DOMAIN f.maths
      BY <1>1, <1>3, CallTypes
    <2>2. maths[m].mutex = u
      BY <1>1, <1>2, <1>3, <2>1 DEF Guarded
    <2>3. u # NoThread
      OBVIOUS
    <2>4. maths'[m] = maths[m]
      <3>1. CASE m # Head(calls[t].todo)
        BY <2>1, <3>1
      <3>2. CASE m = Head(calls[t].todo) /\ calls[t].at \in {"copy arg", "copy ret", "unlock"}
        <4>1. maths[m].mutex = t
          BY <1>2, <3>2 DEF Guarded
        <4> QED
          BY <2>2, <4>1
      <3> QED
        BY <2>2, <2>3, <3>1, <3>2
    <2> QED
      BY <1>1, <1>2, <2>1, <2>4 DEF Guarded
  <1>4. CASE c.at \notin {"copy arg", "copy ret", "unlock"}
    BY <1>1, <1>4 DEF Guarded
  <1> QED
    BY <1>3, <1>4

\* What is left to show of a step of one thread.
LEMMA StepOfOne ==
  ASSUME NEW f \in Constructed, FInv(f), NEW t \in Threads,
         NEW d \in Calls(f), calls' = [calls EXCEPT ![t] = d], created' = created,
         maths' \in [DOMAIN f.maths -> Math],
         \A m \in DOMAIN f.maths : maths'[m].op = maths[m].op,
         \A m \in DOMAIN f.maths : m # Head(calls[t].todo) => maths'[m] = maths[m],
         \/ maths' = maths
         \/ calls[t].at \in {"copy arg", "copy ret", "unlock"}
         \/ maths[Head(calls[t].todo)].mutex = NoThread,
         CallInv(f, d), d.what # "none" => d.f \in DOMAIN created,
         Guarded(t)'
  PROVE  FInv(f)'
  <1>1. Typed(f) /\ calls'[t] = d /\ \A u \in Threads \ {t} : calls'[u] = calls[u]
    BY DEF FInv, Typed
  <1>2. Typed(f)'
    <2>1. calls' \in [Threads -> Calls(f)]
      BY <1>1 DEF Typed
    <2> QED
      BY <1>1, <2>1 DEF Typed
  <1>3. ASSUME NEW u \in Threads
        PROVE  /\ CallInv(f, calls'[u]) /\ Guarded(u)'
               /\ calls'[u].what # "none" => calls'[u].f \in DOMAIN created'
    <2>1. CASE u = t
      BY <1>1, <2>1
    <2>2. CASE u # t
      <3>1. calls'[u] = calls[u]
        BY <1>1, <2>2
      <3>2. Guarded(u)'
        BY <2>2, <3>1, OthersAreLeftAlone
      <3>3. CallInv(f, calls[u]) /\ (calls[u].what # "none" => calls[u].f \in DOMAIN created)
        BY DEF FInv
      <3> QED
        BY <3>1, <3>2, <3>3
    <2> QED
      BY <2>1, <2>2
  <1> QED
    BY <1>2, <1>3 DEF FInv

LEMMA PointsHaveComponents ==
  ASSUME NEW f \in Constructed, NEW c, Placed(f, c), c.what \in Whats
  PROVE  /\ c.xx \in Seq(Coordinates)
         /\ Len(c.xx) \in Nat \ {0} /\ Len(c.xx) <= Len(VariableNames)
         /\ ToExpression(c) => c.xx \in Args /\ Len(c.xx) = Len(VariableNames)
  <1>1. PICK xx : xx = c.xx
    OBVIOUS
  <1>2. CASE c.what \in {"evaluate", "jacobian"}
    <2>1. xx \in Points
      BY <1>1, <1>2 DEF Placed
    <2> QED
      BY <1>1, <2>1, PointsAreArgs, Dimension
  <1>3. CASE c.what = "MathExpressionBase"
    <2>1. xx \in Parts
      BY <1>1, <1>3 DEF Placed
    <2>2. ~ToExpression(c)
      BY <1>3 DEF ToExpression
    <2>3. xx \in Seq(Coordinates) /\ Len(xx) = 1
      BY <2>1, PartsAreShort
    <2> QED
      BY ONLY <1>1, <2>2, <2>3, Dimension
  <1> QED
    BY <1>2, <1>3 DEF Whats

LEMMA IdleIsACall ==
  ASSUME NEW f
  PROVE  Idle \in Calls(f)
  <1>1. <<>> \in Seq(DOMAIN f.maths) /\ <<>> \in Seq(Numbers) /\ <<>> \in Outcomes
    BY DEF Outcomes
  <1> QED
    BY ONLY <1>1 DEF Idle, Calls

LEMMA CallStep ==
  ASSUME NEW f \in Constructed, FInv(f), NEW t \in Threads, NEW fi \in DOMAIN created,
         NEW what \in Whats, NEW xx, what \in {"evaluate", "jacobian"} => xx \in Points,
         what = "MathExpressionBase" => xx \in Parts, Call(t, fi, what, xx)
  PROVE  FInv(f)'
  <1>1. Typed(f)
    BY DEF FInv
  <1>2. created[fi] = Fn(f) /\ fi \in Nat
    <2>1. created \in Seq({Fn(f)})
      BY <1>1 DEF Typed
    <2> QED
      BY ONLY <2>1, fi \in DOMAIN created
  <1>3. PICK all : all = All(f, what) /\ all \in Seq(DOMAIN f.maths) /\ (~Throws(Fn(f), what) => all # <<>>)
    BY AllArePlaces
  <1> DEFINE at      == IF Throws(Fn(f), what) THEN "idle" ELSE "lock"
             outcome == IF Throws(Fn(f), what) THEN NoGradient ELSE <<>>
  <1>. HIDE DEF at, outcome
  <1>4. PICK d : d = [Idle EXCEPT !.at = at, !.f = fi, !.what = what, !.xx = xx, !.todo = all, !.outcome = outcome]
    OBVIOUS
  <1>5. calls' = [calls EXCEPT ![t] = d] /\ maths' = maths /\ created' = created
    <2>1. Todo(created[fi], what) = all /\ created[fi] = Fn(f)
      BY <1>2, <1>3 DEF All
    <2> QED
      BY ONLY Call(t, fi, what, xx), <1>4, <2>1 DEF Call, at, outcome
  <1>6. xx \in Points \cup Parts
    BY DEF Whats
  <1>7. /\ d \in Calls(f) /\ d.at = at /\ d.f = fi /\ d.what = what /\ d.xx = xx /\ d.todo = all
        /\ d.ret = <<>> /\ d.outcome = outcome
    <2>1. NoGradient \in Outcomes /\ outcome \in Outcomes /\ at \in {"idle", "lock"}
      BY DEF Outcomes, at, outcome
    <2> QED
      BY ONLY <1>2, <1>3, <1>4, <1>6, <2>1, what \in Whats, IdleIsACall DEF Calls, Idle
  <1>8. CallInv(f, d)
    <2>1. Placed(f, d)
      BY <1>3, <1>7 DEF Placed, Whats, at
    <2>2. ASSUME d.at # "idle" PROVE Sequential(f, d)
      <3>1. ~Throws(Fn(f), what) /\ d.at = "lock"
        BY <1>7, <2>2 DEF at
      <3>2. Done(f, d) = 0 /\ d.what = what /\ d.todo = all /\ d.ret = <<>>
        BY <1>3, <1>7 DEF Done
      <3>3. FirstOf(f, all, 0, xx) = <<>>
        BY FirstOfNone
      <3>4. \A i \in 1 .. Len(d.todo) : d.todo[i] = all[0 + i]
        BY <1>3, <3>2
      <3> QED
        BY <1>3, <1>7, <3>1, <3>2, <3>3, <3>4 DEF Sequential
    <2>3. ASSUME d.at = "idle" PROVE d.outcome = Ends(f, d.what, d.xx)
      BY <1>7, <2>3 DEF Ends, at, outcome
    <2> QED
      BY <2>1, <2>2, <2>3 DEF CallInv
  <1>9. Guarded(t)'
    <2>1. calls'[t] = d
      BY <1>1, <1>5 DEF Typed
    <2>2. d.at \in {"idle", "lock"}
      BY <1>7 DEF at
    <2> QED
      BY <2>1, <2>2 DEF Guarded
  <1>10. maths' \in [DOMAIN f.maths -> Math]
    BY <1>1, <1>5 DEF Typed
  <1>11. d.f \in DOMAIN created
    BY <1>7
  <1> QED
    BY <1>5, <1>7, <1>8, <1>9, <1>10, <1>11, StepOfOne

LEMMA LockStep ==
  ASSUME NEW f \in Constructed, FInv(f), NEW t \in Threads, Lock(t)
  PROVE  FInv(f)'
  <1>1. Typed(f)
    BY DEF FInv
  <1>2. PICK c : c = calls[t] /\ c.at = "lock"
    BY DEF Lock
  <1>3. /\ c \in Calls(f) /\ CallInv(f, c) /\ c.what \in Whats /\ c.f \in DOMAIN created
        /\ c.todo # <<>> /\ Head(c.todo) \in DOMAIN f.maths
    <2>1. c.at # "idle" /\ c.at # "return" /\ \A what \in Whats : what # "none"
      BY <1>2 DEF Whats
    <2> QED
      BY <1>2, <2>1, CallTypes
  <1>4. PICK m \in DOMAIN f.maths : m = Head(c.todo)
    BY <1>3
  <1>5. PICK d : d = [c EXCEPT !.at = "copy arg", !.k = 1]
    OBVIOUS
  <1>6. /\ calls' = [calls EXCEPT ![t] = d] /\ created' = created
        /\ maths' = [maths EXCEPT ![m].mutex = t] /\ maths[m].mutex = NoThread
    BY <1>1, <1>2, <1>4, <1>5 DEF Lock, Typed
  <1>7. /\ d \in Calls(f) /\ d.at = "copy arg" /\ d.k = 1
        /\ d.what = c.what /\ d.xx = c.xx /\ d.todo = c.todo /\ d.ret = c.ret /\ d.f = c.f
    BY <1>3, <1>5 DEF Calls
  <1>8. CallInv(f, d)
    <2>1. Placed(f, c)
      BY <1>3 DEF CallInv
    <2>2. Placed(f, d)
      <3>1. 1 \in 1 .. Len(c.xx)
        BY <1>3, <2>1, PointsHaveComponents
      <3> QED
        BY ONLY <1>3, <1>7, <2>1, <3>1 DEF Placed, Whats
    <2>3. ASSUME ToExpression(c) PROVE Sequential(f, d)
      <3>1. Sequential(f, c)
        BY <1>2, <1>3, <2>3 DEF CallInv
      <3>2. Done(f, d) = Done(f, c)
        BY <1>7 DEF Done
      <3> QED
        BY <1>2, <1>3, <1>7, <3>1, <3>2, ZenonT(60) DEF Sequential
    <2>4. ToExpression(d) = ToExpression(c)
      BY <1>7 DEF ToExpression
    <2> QED
      BY <1>7, <2>2, <2>3, <2>4 DEF CallInv
  <1>9. PICK old \in Math : old = maths[m]
    BY <1>1 DEF Typed
  <1>10. PICK new : new = [old EXCEPT !.mutex = t]
    OBVIOUS
  <1>11. new \in Math /\ new.op = old.op /\ new.mutex = t
    BY <1>9, <1>10 DEF Math
  <1>12. maths' = [maths EXCEPT ![m] = new]
    BY <1>1, <1>6, <1>9, <1>10 DEF Typed
  <1>13. /\ maths' \in [DOMAIN f.maths -> Math] /\ maths'[m] = new
         /\ \A n \in DOMAIN f.maths : n # m => maths'[n] = maths[n]
    BY <1>1, <1>11, <1>12 DEF Typed
  <1>14. \A n \in DOMAIN f.maths : maths'[n].op = maths[n].op
    BY <1>9, <1>11, <1>13
  <1>15. Guarded(t)'
    <2>1. calls'[t] = d
      BY <1>1, <1>6 DEF Typed
    <2>2. maths'[Head(calls'[t].todo)].mutex = t
      BY <1>4, <1>7, <1>11, <1>13, <2>1
    <2>3. calls'[t].at = "copy arg" /\ calls'[t].k = 1
      BY <1>7, <2>1
    <2>4. 1 .. 1 - 1 = {}
      OBVIOUS
    <2> QED
      BY ONLY <2>2, <2>3, <2>4 DEF Guarded
  <1>16. d.f \in DOMAIN created /\ maths[Head(calls[t].todo)].mutex = NoThread
    BY <1>2, <1>3, <1>4, <1>6, <1>7
  <1>17. \A n \in DOMAIN f.maths : n # Head(calls[t].todo) => maths'[n] = maths[n]
    BY <1>2, <1>4, <1>13
  <1> QED
    BY ONLY f \in Constructed, FInv(f), t \in Threads, <1>6, <1>7, <1>8, <1>13, <1>14, <1>15, <1>16, <1>17, StepOfOne

LEMMA CopyArgStep ==
  ASSUME NEW f \in Constructed, FInv(f), NEW t \in Threads, CopyArg(t)
  PROVE  FInv(f)'
  <1>1. Typed(f)
    BY DEF FInv
  <1>2. PICK c : c = calls[t] /\ c.at = "copy arg"
    BY DEF CopyArg
  <1>3. /\ c \in Calls(f) /\ CallInv(f, c) /\ Guarded(t) /\ c.what \in Whats /\ c.f \in DOMAIN created
        /\ c.todo # <<>> /\ Head(c.todo) \in DOMAIN f.maths
    <2>1. c.at # "idle" /\ c.at # "return" /\ \A what \in Whats : what # "none"
      BY <1>2 DEF Whats
    <2> QED
      BY <1>2, <2>1, CallTypes
  <1>4. PICK m \in DOMAIN f.maths : m = Head(c.todo)
    BY <1>3
  <1>5. PICK k : k = c.k
    OBVIOUS
  <1>7. Placed(f, c)
    BY <1>3 DEF CallInv
  <1>8. /\ k \in 1 .. Len(c.xx) /\ c.xx[k] \in Coordinates /\ k \in DOMAIN VariableNames
        /\ Len(c.xx) \in Nat /\ Len(VariableNames) \in Nat /\ Len(c.xx) <= Len(VariableNames)
    <2>1. k \in 1 .. Len(c.xx)
      BY <1>2, <1>5, <1>7 DEF Placed
    <2>2. c.xx \in Seq(Coordinates) /\ Len(c.xx) \in Nat /\ Len(c.xx) <= Len(VariableNames)
      BY <1>3, <1>7, PointsHaveComponents
    <2> QED
      BY ONLY <2>1, <2>2, Dimension
  <1>9. PICK old \in Math : old = maths[m] /\ old.mutex = t /\ \A i \in 1 .. k - 1 : old.arg[i] = c.xx[i]
    BY <1>1, <1>2, <1>3, <1>4, <1>5, ZenonT(60) DEF Typed, Guarded
  <1>10. PICK new : new = [old EXCEPT !.arg[k] = c.xx[k]]
    OBVIOUS
  <1>11. /\ new \in Math /\ new.op = old.op /\ new.mutex = t
         /\ new.arg[k] = c.xx[k] /\ \A i \in DOMAIN VariableNames \ {k} : new.arg[i] = old.arg[i]
    <2>1. PICK arg \in Args : arg = old.arg
      BY <1>9 DEF Math
    <2>2. PICK arg2 : arg2 = [arg EXCEPT ![k] = c.xx[k]]
      OBVIOUS
    <2>3. arg2 \in Args /\ arg2[k] = c.xx[k] /\ \A i \in DOMAIN VariableNames \ {k} : arg2[i] = arg[i]
      BY ONLY <1>8, <2>1, <2>2, arg \in Args DEF Args
    <2>4. new = [old EXCEPT !.arg = arg2]
      BY <1>10, <2>1, <2>2
    <2> QED
      BY <1>9, <2>1, <2>3, <2>4 DEF Math
  <1>12. maths' = [maths EXCEPT ![m] = new] /\ created' = created
    BY <1>1, <1>2, <1>4, <1>5, <1>9, <1>10 DEF Typed, CopyArg
  <1>13. /\ maths' \in [DOMAIN f.maths -> Math] /\ maths'[m] = new
         /\ \A n \in DOMAIN f.maths : n # m => maths'[n] = maths[n]
    BY <1>1, <1>11, <1>12 DEF Typed
  <1>14. \A n \in DOMAIN f.maths : maths'[n].op = maths[n].op
    BY <1>9, <1>11, <1>13
  <1>15. \A n \in DOMAIN f.maths : n # Head(calls[t].todo) => maths'[n] = maths[n]
    BY <1>2, <1>4, <1>13
  <1>16. calls[t].at \in {"copy arg", "copy ret", "unlock"}
    BY <1>2
  <1>17. ASSUME ToExpression(c) PROVE Sequential(f, c)
    BY <1>2, <1>3, <1>17 DEF CallInv
  <1>18. CASE k < Len(VariableNames) /\ k < Len(c.xx)
    <2>0. PICK next \in Nat : next = k + 1 /\ next - 1 = k
      BY ONLY <1>8
    <2>1. PICK d : d = [c EXCEPT !.k = next]
      OBVIOUS
    <2>2. calls' = [calls EXCEPT ![t] = d]
      BY <1>1, <1>2, <1>5, <1>18, <2>0, <2>1 DEF Typed, CopyArg
    <2>3. /\ d \in Calls(f) /\ d.at = "copy arg" /\ d.k = next
          /\ d.what = c.what /\ d.xx = c.xx /\ d.todo = c.todo /\ d.ret = c.ret /\ d.f = c.f
      BY <1>2, <1>3, <2>1 DEF Calls
    <2>4. CallInv(f, d)
      <3>1. next \in 1 .. Len(c.xx)
        BY ONLY <1>8, <1>18, <2>0
      <3>2. Placed(f, d)
        BY ONLY <1>3, <1>7, <2>3, <3>1 DEF Placed, Whats
      <3>3. ASSUME ToExpression(c) PROVE Sequential(f, d)
        <4>1. Done(f, d) = Done(f, c)
          BY <2>3 DEF Done
        <4> QED
          BY <1>2, <1>17, <2>3, <3>3, <4>1, ZenonT(60) DEF Sequential
      <3>4. ToExpression(d) = ToExpression(c)
        BY <2>3 DEF ToExpression
      <3> QED
        BY <2>3, <3>2, <3>3, <3>4 DEF CallInv
    <2>5. Guarded(t)'
      <3>1. calls'[t] = d
        BY <1>1, <2>2 DEF Typed
      <3>2. maths'[Head(calls'[t].todo)] = new
        BY <1>4, <1>13, <2>3, <3>1
      <3>3. \A i \in 1 .. k : new.arg[i] = c.xx[i]
        <4>1. \A i \in 1 .. k : i = k \/ (i \in 1 .. k - 1 /\ i \in DOMAIN VariableNames \ {k})
          BY ONLY <1>8, Dimension
        <4> QED
          BY ONLY <1>9, <1>11, <4>1
      <3>4. calls'[t].at = "copy arg" /\ calls'[t].k = next /\ calls'[t].xx = c.xx
        BY <2>3, <3>1
      <3> QED
        BY ONLY <1>11, <2>0, <3>2, <3>3, <3>4 DEF Guarded
    <2>6. d.f \in DOMAIN created
      BY <1>3, <2>3
    <2> QED
      BY ONLY f \in Constructed, FInv(f), t \in Threads, <1>12, <1>13, <1>14, <1>15, <1>16, <2>2, <2>3, <2>4, <2>5, <2>6, StepOfOne
  <1>19. CASE ~(k < Len(VariableNames) /\ k < Len(c.xx))
    <2>1. PICK d : d = [c EXCEPT !.at = "copy ret", !.k = 1]
      OBVIOUS
    <2>2. calls' = [calls EXCEPT ![t] = d]
      BY <1>1, <1>2, <1>5, <1>19, <2>1 DEF Typed, CopyArg
    <2>3. /\ d \in Calls(f) /\ d.at = "copy ret" /\ d.k = 1
          /\ d.what = c.what /\ d.xx = c.xx /\ d.todo = c.todo /\ d.ret = c.ret /\ d.f = c.f
      BY <1>2, <1>3, <2>1 DEF Calls
    <2>4. CallInv(f, d)
      <3>1. 1 \in 1 .. Len(f.maths[m].op)
        BY ObjectsAreMath
      <3>2. Placed(f, d)
        BY ONLY <1>3, <1>4, <1>7, <2>3, <3>1 DEF Placed, Whats
      <3>3. ASSUME ToExpression(c) PROVE Sequential(f, d)
        <4>1. Done(f, d) = Done(f, c) /\ Sequential(f, c)
          BY <1>17, <2>3, <3>3 DEF Done
        <4> DEFINE done == FirstOf(f, All(f, c.what), Done(f, c), c.xx)
                   now  == Worth(f, Head(c.todo), c.xx)
        <4>2. c.ret = done
          BY <1>2, <4>1 DEF Sequential
        <4>3. now \in Seq(Numbers)
          BY <1>3, <1>7, <3>3, PointsHaveComponents, WorthIsNumbers
        <4>4. c.ret \in Seq(Numbers)
          BY <1>3 DEF Calls
        <4> HIDE DEF done, now
        <4>5. done = done \o SubSeq(now, 1, 1 - 1)
          BY <4>2, <4>3, <4>4
        <4> QED
          BY <1>2, <2>3, <4>1, <4>2, <4>5, ZenonT(60) DEF Sequential, done, now
      <3>4. ToExpression(d) = ToExpression(c)
        BY <2>3 DEF ToExpression
      <3> QED
        BY <2>3, <3>2, <3>3, <3>4 DEF CallInv
    <2>5. Guarded(t)'
      <3>1. calls'[t] = d
        BY <1>1, <2>2 DEF Typed
      <3>2. maths'[Head(calls'[t].todo)] = new
        BY <1>4, <1>13, <2>3, <3>1
      <3>3. ASSUME ToExpression(c) PROVE new.arg = c.xx
        <4>1. c.xx \in Args /\ Len(c.xx) = Len(VariableNames)
          BY <1>3, <1>7, <3>3, PointsHaveComponents
        <4>2. k = Len(VariableNames)
          BY ONLY <1>8, <1>19, <4>1
        <4>3. \A i \in DOMAIN VariableNames : i = k \/ (i \in 1 .. k - 1 /\ i \in DOMAIN VariableNames \ {k})
          BY ONLY <1>8, <4>2, Dimension
        <4>4. \A i \in DOMAIN VariableNames : new.arg[i] = c.xx[i]
          BY ONLY <1>9, <1>11, <4>3
        <4>5. new.arg \in Args
          BY <1>11 DEF Math
        <4> QED
          BY ONLY <4>1, <4>4, <4>5 DEF Args
      <3>4. calls'[t].at = "copy ret" /\ calls'[t].xx = c.xx /\ (ToExpression(calls'[t]) => ToExpression(c))
        BY <2>3, <3>1 DEF ToExpression
      <3> QED
        BY ONLY <1>11, <3>2, <3>3, <3>4 DEF Guarded
    <2>6. d.f \in DOMAIN created
      BY <1>3, <2>3
    <2> QED
      BY ONLY f \in Constructed, FInv(f), t \in Threads, <1>12, <1>13, <1>14, <1>15, <1>16, <2>2, <2>3, <2>4, <2>5, <2>6, StepOfOne
  <1> QED
    BY <1>18, <1>19

LEMMA FirstElements ==
  ASSUME NEW S, NEW w \in Seq(S), NEW k \in 0 .. Len(w)
  PROVE  SubSeq(w, 1, k) \in Seq(S) /\ Len(SubSeq(w, 1, k)) = k /\ \A i \in 1 .. k : SubSeq(w, 1, k)[i] = w[i]
  <1>1. SubSeq(w, 1, k) = [i \in 1 .. k |-> w[i]]
    OBVIOUS
  <1>2. \A i \in 1 .. k : w[i] \in S
    BY LenProperties
  <1>3. k \in Nat
    OBVIOUS
  <1>4. PICK u : u = [i \in 1 .. k |-> w[i]]
    OBVIOUS
  <1>5. u \in [1 .. k -> S]
    BY <1>2, <1>4
  <1>6. u \in Seq(S) /\ Len(u) = k
    BY <1>3, <1>5
  <1> QED
    BY <1>1, <1>4, <1>6

\* Reading on by one.
LEMMA OneMore ==
  ASSUME NEW S, NEW s \in Seq(S), NEW w \in Seq(S), NEW k \in 1 .. Len(w)
  PROVE  /\ Append(s \o SubSeq(w, 1, k - 1), w[k]) = s \o SubSeq(w, 1, k)
         /\ k = Len(w) => s \o SubSeq(w, 1, k) = s \o w
  <1>1. PICK u \in Seq(S) : u = SubSeq(w, 1, k - 1) /\ Len(u) = k - 1 /\ \A i \in 1 .. k - 1 : u[i] = w[i]
    <2>1. PICK j \in 0 .. Len(w) : j = k - 1
      BY LenProperties
    <2>2. SubSeq(w, 1, j) \in Seq(S) /\ Len(SubSeq(w, 1, j)) = j /\ \A i \in 1 .. j : SubSeq(w, 1, j)[i] = w[i]
      BY FirstElements
    <2> QED
      BY ONLY <2>1, <2>2
  <1>2. PICK v \in Seq(S) : v = SubSeq(w, 1, k) /\ Len(v) = k /\ \A i \in 1 .. k : v[i] = w[i]
    <2>1. PICK j \in 0 .. Len(w) : j = k
      BY LenProperties
    <2>2. SubSeq(w, 1, j) \in Seq(S) /\ Len(SubSeq(w, 1, j)) = j /\ \A i \in 1 .. j : SubSeq(w, 1, j)[i] = w[i]
      BY FirstElements
    <2> QED
      BY ONLY <2>1, <2>2
  <1>3. PICK e \in S : e = w[k]
    OBVIOUS
  <1>4. Append(s \o u, e) \in Seq(S) /\ s \o v \in Seq(S)
    OBVIOUS
  <1>5. Len(Append(s \o u, e)) = Len(s) + k /\ Len(s \o v) = Len(s) + k
    BY <1>1, <1>2
  <1>6. ASSUME NEW i \in 1 .. Len(s) + k PROVE Append(s \o u, e)[i] = (s \o v)[i]
    <2>1. CASE i <= Len(s)
      BY <1>1, <1>2, <2>1, SMTT(60)
    <2>2. CASE i > Len(s) /\ i < Len(s) + k
      BY <1>1, <1>2, <2>2, SMTT(60)
    <2>3. CASE i = Len(s) + k
      BY <1>1, <1>2, <1>3, <2>3, SMTT(60)
    <2>4. i <= Len(s) \/ (i > Len(s) /\ i < Len(s) + k) \/ i = Len(s) + k
      <3>1. Len(s) \in Nat /\ k \in Nat
        BY LenProperties
      <3> QED
        BY ONLY <3>1, i \in 1 .. Len(s) + k
    <2> QED
      BY ONLY <2>1, <2>2, <2>3, <2>4, Zenon
  <1>7. Append(s \o u, e) = s \o v
    <2> DEFINE left == Append(s \o u, e)
               right == s \o v
    <2>1. left \in Seq(S) /\ right \in Seq(S) /\ Len(left) = Len(right) /\ \A i \in 1 .. Len(left) : left[i] = right[i]
      BY <1>4, <1>5, <1>6
    <2> HIDE DEF left, right
    <2>2. left = right
      BY <2>1, SeqEqual
    <2> QED
      BY <2>2 DEF left, right
  <1>8. k = Len(w) => v = w
    BY <1>2, SeqEqual
  <1> QED
    BY <1>1, <1>2, <1>3, <1>7, <1>8

LEMMA CopyRetStep ==
  ASSUME NEW f \in Constructed, FInv(f), NEW t \in Threads, CopyRet(t)
  PROVE  FInv(f)'
  <1>1. Typed(f)
    BY DEF FInv
  <1>2. PICK c : c = calls[t] /\ c.at = "copy ret"
    BY DEF CopyRet
  <1>3. /\ c \in Calls(f) /\ CallInv(f, c) /\ Guarded(t) /\ c.what \in Whats /\ c.f \in DOMAIN created
        /\ c.todo # <<>> /\ Head(c.todo) \in DOMAIN f.maths
    <2>1. c.at # "idle" /\ c.at # "return" /\ \A what \in Whats : what # "none"
      BY <1>2 DEF Whats
    <2> QED
      BY <1>2, <2>1, CallTypes
  <1>4. PICK m \in DOMAIN f.maths : m = Head(c.todo)
    BY <1>3
  <1>5. PICK object \in Math : object = maths[m] /\ object.op = f.maths[m].op /\ object.mutex = t
                               /\ (ToExpression(c) => object.arg = c.xx)
    BY <1>1, <1>2, <1>3, <1>4 DEF Typed, Guarded
  <1>6. PICK op \in Seq(Codes) : op = f.maths[m].op /\ Len(op) \in Nat /\ DOMAIN op = 1 .. Len(op)
    BY ObjectsAreMath
  <1>7. Placed(f, c)
    BY <1>3 DEF CallInv
  <1>8. PICK k \in 1 .. Len(op) : k = c.k
    BY <1>2, <1>4, <1>6, <1>7 DEF Placed
  <1>9. PICK v \in Numbers : v = CodeValue(op[k], object.arg)
    <2>1. op[k] \in Codes
      BY <1>6
    <2>2. object.arg \in Args
      BY <1>5 DEF Math
    <2> QED
      BY <2>1, <2>2 DEF Numbers
  <1>10. PICK ret \in Seq(Numbers) : ret = Append(c.ret, v)
    <2>1. PICK r \in Seq(Numbers) : r = c.ret
      BY <1>3 DEF Calls
    <2>2. Append(r, v) \in Seq(Numbers)
      OBVIOUS
    <2> QED
      BY <2>1, <2>2
  <1> DEFINE at == IF k < Len(op) THEN "copy ret" ELSE "unlock"
  <1>20. \/ k < Len(op) /\ at = "copy ret"
         \/ k = Len(op) /\ at = "unlock"
    <2>1. k < Len(op) \/ k = Len(op)
      BY ONLY k \in 1 .. Len(op), <1>6
    <2>2. k < Len(op) => at = "copy ret"
      OBVIOUS
    <2>3. k = Len(op) => at = "unlock"
      BY <1>6
    <2> QED
      BY ONLY <2>1, <2>2, <2>3
  <1> HIDE DEF at
  <1>11. PICK next \in Nat : next = k + 1 /\ next - 1 = k
    BY <1>6, SMTT(60)
  <1>12. PICK d : d = [c EXCEPT !.ret = ret, !.k = next, !.at = at]
    OBVIOUS
  <1>13. calls' = [calls EXCEPT ![t] = d] /\ maths' = maths /\ created' = created
    <2>1. maths[Head(c.todo)] = object /\ c.k = k /\ object.op = op
      BY <1>4, <1>5, <1>6, <1>8
    <2>2. calls' = [calls EXCEPT ![t] = [c EXCEPT !.ret = Append(c.ret, CodeValue(op[k], object.arg)), !.k = k + 1,
                                                  !.at = IF k < Len(op) THEN "copy ret" ELSE "unlock"]]
      BY <1>2, <2>1 DEF CopyRet
    <2>5. calls' = [calls EXCEPT ![t] = [c EXCEPT !.ret = ret, !.k = next, !.at = at]]
      BY ONLY <1>9, <1>10, <1>11, <2>2 DEF at
    <2>4. maths' = maths /\ created' = created
      BY DEF CopyRet
    <2> QED
      BY ONLY <1>12, <2>4, <2>5
  <1>14. /\ d \in Calls(f) /\ d.at = at /\ d.k = next /\ d.what = c.what /\ d.xx = c.xx /\ d.todo = c.todo
         /\ d.ret = ret /\ d.f = c.f
    <2>1. at \in {"copy ret", "unlock"}
      BY DEF at
    <2> QED
      BY <1>3, <1>12, <2>1 DEF Calls
  <1>15. ASSUME ToExpression(c) PROVE Sequential(f, d)
    <2>1. Sequential(f, c) /\ Done(f, d) = Done(f, c)
      BY <1>2, <1>3, <1>14, <1>15 DEF CallInv, Done
    <2> DEFINE all  == All(f, c.what)
               done == FirstOf(f, all, Done(f, c), c.xx)
               now  == Worth(f, m, c.xx)
    <2>2. c.ret = done \o SubSeq(now, 1, k - 1)
      BY <1>2, <1>4, <1>8, <2>1 DEF Sequential
    <2>3. c.xx \in Args
      BY <1>3, <1>7, <1>15, PointsHaveComponents
    <2>4. now \in Seq(Numbers) /\ Len(now) = Len(op) /\ now[k] = v
      BY <1>5, <1>6, <1>9, <1>15, <2>3, WorthIsNumbers
    <2>5. done \in Seq(Numbers)
      <3>1. all \in Seq(DOMAIN f.maths)
        BY <1>3, AllArePlaces
      <3>2. PICK n \in Nat : n = Done(f, c)
        BY <2>1 DEF Sequential
      <3>3. n + 1 <= Len(all)
        <4>1. c.todo \in Seq(DOMAIN f.maths)
          BY <1>3 DEF Calls
        <4>2. Len(c.todo) \in Nat \ {0}
          BY ONLY <1>3, <4>1
        <4>3. n = Len(all) - Len(c.todo) /\ Len(all) \in Nat
          BY <3>1, <3>2 DEF Done
        <4> QED
          BY ONLY <4>2, <4>3
      <3> HIDE DEF all
      <3> QED
        BY <2>3, <3>1, <3>2, <3>3, FirstOfGrows
    <2> HIDE DEF done, now, all
    <2>6. k \in 1 .. Len(now)
      BY <2>4
    <2>7. /\ Append(done \o SubSeq(now, 1, k - 1), now[k]) = done \o SubSeq(now, 1, k)
          /\ k = Len(now) => done \o SubSeq(now, 1, k) = done \o now
      BY ONLY <2>4, <2>5, <2>6, OneMore
    <2>8. d.ret = done \o SubSeq(now, 1, k)
      BY <1>10, <1>14, <2>2, <2>4, <2>7
    <2>9. d.at = "copy ret" => d.ret = done \o SubSeq(now, 1, d.k - 1)
      BY <1>11, <1>14, <2>8
    <2>10. d.at = "unlock" => d.ret = done \o now
      <3>1. d.at = "unlock" => k = Len(op)
        BY ONLY <1>14, <1>20
      <3> QED
        BY <2>4, <2>7, <2>8, <3>1
    <2>11. d.at \in {"copy ret", "unlock"}
      BY <1>14 DEF at
    <2> QED
      BY <1>2, <1>3, <1>4, <1>14, <2>1, <2>9, <2>10, <2>11, ZenonT(60) DEF Sequential, done, now, all
  <1>16. CallInv(f, d)
    <2>1. d.at = "copy ret" => d.k \in 1 .. Len(f.maths[m].op)
      <3>1. k < Len(op) => next \in 1 .. Len(op)
        BY ONLY k \in 1 .. Len(op), <1>6, <1>11
      <3> QED
        BY ONLY <1>6, <1>14, <1>20, <3>1
    <2>2. d.at \in {"copy ret", "unlock"}
      BY <1>14 DEF at
    <2>3. Placed(f, d)
      BY ONLY <1>3, <1>4, <1>7, <1>14, <2>1, <2>2 DEF Placed, Whats
    <2>4. ToExpression(d) = ToExpression(c)
      BY <1>14 DEF ToExpression
    <2> QED
      BY <1>15, <2>2, <2>3, <2>4 DEF CallInv
  <1>17. Guarded(t)'
    <2>1. calls'[t] = d
      BY <1>1, <1>13 DEF Typed
    <2>2. maths'[Head(calls'[t].todo)] = object
      BY <1>4, <1>5, <1>13, <1>14, <2>1
    <2>3. calls'[t].at \in {"copy ret", "unlock"} /\ calls'[t].xx = c.xx /\ (ToExpression(calls'[t]) => ToExpression(c))
      BY <1>14, <2>1 DEF at, ToExpression
    <2> QED
      BY ONLY <1>5, <2>2, <2>3 DEF Guarded
  <1>18. maths' \in [DOMAIN f.maths -> Math] /\ d.f \in DOMAIN created
    BY <1>1, <1>3, <1>13, <1>14 DEF Typed
  <1> QED
    BY <1>13, <1>14, <1>16, <1>17, <1>18, StepOfOne

LEMMA Rest ==
  ASSUME NEW S, NEW s \in Seq(S), s # <<>>
  PROVE  /\ Tail(s) \in Seq(S) /\ Len(s) \in Nat \ {0} /\ Len(Tail(s)) = Len(s) - 1
         /\ \A i \in 1 .. Len(s) - 1 : i + 1 \in 1 .. Len(s) /\ Tail(s)[i] = s[i + 1]
         /\ Len(s) = 1 <=> Tail(s) = <<>>
         /\ Head(s) = s[1] /\ 1 \in 1 .. Len(s) /\ Head(s) \in S
  <1>1. Len(s) \in Nat \ {0} /\ Tail(s) \in Seq(S) /\ Len(Tail(s)) = Len(s) - 1
    OBVIOUS
  <1>2. PICK u \in Seq(S) : u = Tail(s)
    BY <1>1
  <1>3. Len(u) = 0 <=> u = <<>>
    BY EmptySeq
  <1>4. Len(s) = 1 <=> u = <<>>
    BY ONLY <1>1, <1>2, <1>3
  <1>5. \A i \in 1 .. Len(s) - 1 : i + 1 \in 1 .. Len(s) /\ Tail(s)[i] = s[i + 1]
    BY <1>1
  <1>6. Head(s) = s[1] /\ 1 \in 1 .. Len(s) /\ Head(s) \in S
    BY <1>1
  <1> QED
    BY ONLY <1>1, <1>2, <1>4, <1>5, <1>6

LEMMA UnlockStep ==
  ASSUME NEW f \in Constructed, FInv(f), NEW t \in Threads, Unlock(t)
  PROVE  FInv(f)'
  <1>1. Typed(f)
    BY DEF FInv
  <1>2. PICK c : c = calls[t] /\ c.at = "unlock"
    BY DEF Unlock
  <1>3. /\ c \in Calls(f) /\ CallInv(f, c) /\ Guarded(t) /\ c.what \in Whats /\ c.f \in DOMAIN created
        /\ c.todo # <<>> /\ Head(c.todo) \in DOMAIN f.maths
    <2>1. c.at # "idle" /\ c.at # "return" /\ \A what \in Whats : what # "none"
      BY <1>2 DEF Whats
    <2> QED
      BY <1>2, <2>1, CallTypes
  <1>4. PICK todo \in Seq(DOMAIN f.maths) : todo = c.todo /\ todo # <<>>
    BY <1>3 DEF Calls
  <1>5. PICK m \in DOMAIN f.maths : m = Head(todo)
    BY <1>3, <1>4
  <1>24. /\ Tail(todo) \in Seq(DOMAIN f.maths) /\ Len(todo) \in Nat \ {0} /\ Len(Tail(todo)) = Len(todo) - 1
         /\ \A i \in 1 .. Len(todo) - 1 : i + 1 \in 1 .. Len(todo) /\ Tail(todo)[i] = todo[i + 1]
         /\ Len(todo) = 1 <=> Tail(todo) = <<>>
         /\ Head(todo) = todo[1] /\ 1 \in 1 .. Len(todo) /\ Head(todo) \in DOMAIN f.maths
    <2>1. PICK places : places = DOMAIN f.maths
      OBVIOUS
    <2>2. todo \in Seq(places)
      BY <2>1
    <2>3. /\ Tail(todo) \in Seq(places) /\ Len(todo) \in Nat \ {0} /\ Len(Tail(todo)) = Len(todo) - 1
          /\ \A i \in 1 .. Len(todo) - 1 : i + 1 \in 1 .. Len(todo) /\ Tail(todo)[i] = todo[i + 1]
          /\ Len(todo) = 1 <=> Tail(todo) = <<>>
          /\ Head(todo) = todo[1] /\ 1 \in 1 .. Len(todo) /\ Head(todo) \in places
      BY ONLY <1>4, <2>2, Rest
    <2> QED
      BY ONLY <2>1, <2>3
  <1>6. PICK rest \in Seq(DOMAIN f.maths) :
          /\ rest = Tail(todo) /\ Len(todo) \in Nat \ {0} /\ Len(rest) = Len(todo) - 1 /\ m = todo[1]
          /\ \A i \in 1 .. Len(rest) : i + 1 \in 1 .. Len(todo) /\ rest[i] = todo[i + 1]
          /\ Len(todo) = 1 <=> rest = <<>>
    BY ONLY <1>5, <1>24
  <1> DEFINE at == IF Len(todo) = 1 THEN "return" ELSE "lock"
  <1>7. at \in {"return", "lock"} /\ (at = "return" <=> rest = <<>>)
    BY <1>6
  <1>8. PICK d : d = [c EXCEPT !.todo = rest, !.at = at]
    OBVIOUS
  <1>9. calls' = [calls EXCEPT ![t] = d] /\ created' = created
    BY <1>1, <1>2, <1>4, <1>6, <1>8 DEF Unlock, Typed
  <1> HIDE DEF at
  <1>10. /\ d \in Calls(f) /\ d.at = at /\ d.todo = rest /\ d.what = c.what /\ d.xx = c.xx /\ d.ret = c.ret
         /\ d.f = c.f /\ d.k = c.k
    BY <1>3, <1>7, <1>8 DEF Calls
  <1>11. Placed(f, c)
    BY <1>3 DEF CallInv
  <1>12. Placed(f, d)
    BY ONLY <1>3, <1>7, <1>10, <1>11 DEF Placed, Whats
  <1>13. ASSUME ToExpression(c) PROVE Sequential(f, d)
    <2>1. Sequential(f, c)
      BY <1>2, <1>3, <1>13 DEF CallInv
    <2>2. PICK all \in Seq(DOMAIN f.maths) : all = All(f, c.what)
      BY <1>3, AllArePlaces
    <2>3. PICK n \in Nat : n = Done(f, c)
      BY <2>1 DEF Sequential
    <2>4. \A i \in 1 .. Len(todo) : todo[i] = all[n + i]
      BY <1>4, <2>1, <2>2, <2>3 DEF Sequential
    <2>5. n = Len(all) - Len(todo) /\ Done(f, d) = Len(all) - Len(rest) /\ Len(all) \in Nat
      BY <1>4, <1>10, <2>2, <2>3 DEF Done
    <2>6. Done(f, d) = n + 1 /\ n + 1 <= Len(all) /\ all[n + 1] = m
      BY ONLY <1>6, <2>4, <2>5, n \in Nat
    <2>7. ASSUME NEW i \in 1 .. Len(rest) PROVE rest[i] = all[(n + 1) + i]
      <3>1. i + 1 \in 1 .. Len(todo) /\ rest[i] = todo[i + 1]
        BY <1>6
      <3>2. n + (i + 1) = (n + 1) + i
        OBVIOUS
      <3> QED
        BY ONLY <2>4, <3>1, <3>2
    <2>8. c.xx \in Args
      BY <1>3, <1>11, <1>13, PointsHaveComponents
    <2>9. FirstOf(f, all, n + 1, c.xx) = FirstOf(f, all, n, c.xx) \o Worth(f, m, c.xx)
      <3>1. PICK xx \in Args : xx = c.xx
        BY <2>8
      <3>2. FirstOf(f, all, n + 1, xx) = FirstOf(f, all, n, xx) \o Worth(f, all[n + 1], xx)
        BY ONLY f \in Constructed, all \in Seq(DOMAIN f.maths), n \in Nat, xx \in Args, <2>6, FirstOfGrows
      <3> QED
        BY ONLY <2>6, <3>1, <3>2
    <2>10. c.ret = FirstOf(f, all, n, c.xx) \o Worth(f, m, c.xx)
      BY <1>2, <1>4, <1>5, <2>1, <2>2, <2>3 DEF Sequential
    <2>11. ~Throws(Fn(f), c.what)
      BY <2>1 DEF Sequential
    <2>12. /\ d.what = c.what /\ d.xx = c.xx /\ d.todo = rest
           /\ d.ret = FirstOf(f, all, n + 1, c.xx) /\ Done(f, d) = n + 1 /\ n + 1 \in Nat
      BY ONLY <1>10, <2>6, <2>9, <2>10, n \in Nat
    <2>13. d.at \in {"return", "lock"} /\ (d.at = "return" <=> rest = <<>>)
      BY ONLY <1>7, <1>10
    <2>14. \A i \in 1 .. Len(rest) : rest[i] = all[(n + 1) + i]
      BY ONLY <2>7
    <2> QED
      BY ONLY <2>2, <2>11, <2>12, <2>13, <2>14 DEF Sequential
  <1>14. CallInv(f, d)
    <2>1. ToExpression(d) = ToExpression(c)
      BY <1>10 DEF ToExpression
    <2> QED
      BY <1>7, <1>10, <1>12, <1>13, <2>1 DEF CallInv
  <1>15. PICK old \in Math : old = maths[m]
    BY <1>1 DEF Typed
  <1>16. PICK new : new = [old EXCEPT !.mutex = NoThread]
    OBVIOUS
  <1>17. new \in Math /\ new.op = old.op
    BY <1>15, <1>16 DEF Math
  <1>18. maths' = [maths EXCEPT ![m] = new]
    BY <1>1, <1>2, <1>4, <1>5, <1>15, <1>16 DEF Typed, Unlock
  <1>19. /\ maths' \in [DOMAIN f.maths -> Math] /\ maths'[m] = new
         /\ \A n \in DOMAIN f.maths : n # m => maths'[n] = maths[n]
    BY <1>1, <1>17, <1>18 DEF Typed
  <1>20. \A n \in DOMAIN f.maths : maths'[n].op = maths[n].op
    BY <1>15, <1>17, <1>19
  <1>21. Guarded(t)'
    <2>1. calls'[t] = d
      BY <1>1, <1>9 DEF Typed
    <2> QED
      BY ONLY <1>7, <1>10, <2>1 DEF Guarded
  <1>22. d.f \in DOMAIN created /\ calls[t].at \in {"copy arg", "copy ret", "unlock"}
    BY <1>2, <1>3, <1>10
  <1>23. \A n \in DOMAIN f.maths : n # Head(calls[t].todo) => maths'[n] = maths[n]
    BY <1>2, <1>4, <1>5, <1>19
  <1> QED
    BY ONLY f \in Constructed, FInv(f), t \in Threads, <1>9, <1>10, <1>14, <1>19, <1>20, <1>21, <1>22, <1>23, StepOfOne

LEMMA ReturnStep ==
  ASSUME NEW f \in Constructed, FInv(f), NEW t \in Threads, Return(t)
  PROVE  FInv(f)'
  <1>1. Typed(f)
    BY DEF FInv
  <1>2. PICK c : c = calls[t] /\ c.at = "return"
    BY DEF Return
  <1>3. /\ c \in Calls(f) /\ CallInv(f, c) /\ c.what \in Whats /\ c.f \in DOMAIN created
    <2>1. c.at # "idle" /\ \A what \in Whats : what # "none"
      BY <1>2 DEF Whats
    <2> QED
      BY <1>2, <2>1, CallTypes
  <1>4. created[c.f] = Fn(f) /\ Fn(f).dims = f.dims
    <2>1. created \in Seq({Fn(f)}) /\ Fn(f).dims = f.dims
      BY <1>1 DEF Typed, Fn
    <2> QED
      BY ONLY <1>3, <2>1
  <1>5. PICK ret \in Seq(Numbers) : ret = c.ret
    BY <1>3 DEF Calls
  <1>6. PICK outcome : outcome = ResultOf(f.dims, c.what, ret)
    OBVIOUS
  <1>7. outcome \in Outcomes
    BY <1>3, <1>6 DEF Outcomes
  <1>8. PICK d : d = [c EXCEPT !.at = "idle", !.k = 1, !.ret = <<>>, !.todo = <<>>, !.outcome = outcome]
    OBVIOUS
  <1>9. calls' = [calls EXCEPT ![t] = d] /\ maths' = maths /\ created' = created
    BY <1>2, <1>4, <1>5, <1>6, <1>8 DEF Return
  <1>10. d \in Calls(f) /\ d.at = "idle" /\ d.what = c.what /\ d.xx = c.xx /\ d.f = c.f /\ d.outcome = outcome
    <2>1. <<>> \in Seq(Numbers) /\ <<>> \in Seq(DOMAIN f.maths)
      OBVIOUS
    <2> QED
      BY ONLY <1>3, <1>7, <1>8, <2>1 DEF Calls
  <1>11. ASSUME ToExpression(c) PROVE outcome = Ends(f, c.what, c.xx)
    <2>1. Sequential(f, c)
      BY <1>2, <1>3, <1>11 DEF CallInv
    <2>2. PICK all \in Seq(DOMAIN f.maths) : all = All(f, c.what)
      BY <1>3, AllArePlaces
    <2>3. c.todo = <<>> /\ c.ret = FirstOf(f, all, Done(f, c), c.xx) /\ ~Throws(Fn(f), c.what)
      BY <1>2, <2>1, <2>2 DEF Sequential
    <2>4. Done(f, c) = Len(all)
      BY <2>2, <2>3 DEF Done
    <2> QED
      BY <1>5, <1>6, <2>2, <2>3, <2>4 DEF Ends
  <1>12. CallInv(f, d)
    <2>1. Placed(f, c) /\ (ToExpression(d) <=> ToExpression(c))
      BY <1>3, <1>10 DEF CallInv, ToExpression
    <2>2. Placed(f, d)
      BY ONLY <1>10, <2>1 DEF Placed
    <2> QED
      BY <1>10, <1>11, <2>1, <2>2 DEF CallInv
  <1>13. Guarded(t)'
    <2>1. calls'[t] = d
      BY <1>1, <1>9 DEF Typed
    <2> QED
      BY ONLY <1>10, <2>1 DEF Guarded
  <1>14. maths' \in [DOMAIN f.maths -> Math] /\ d.f \in DOMAIN created
    BY <1>1, <1>3, <1>9, <1>10 DEF Typed
  <1> QED
    BY <1>9, <1>10, <1>12, <1>13, <1>14, StepOfOne

LEMMA CopyStep ==
  ASSUME NEW f \in Constructed, FInv(f), NEW fi \in DOMAIN created, Copy(fi)
  PROVE  FInv(f)'
  <1>1. Typed(f)
    BY DEF FInv
  <1>2. created \in Seq({Fn(f)}) /\ created # <<>>
    BY <1>1 DEF Typed
  <1>3. created[fi] = Fn(f)
    BY ONLY <1>2, fi \in DOMAIN created
  <1>4. PICK fn \in {Fn(f)} : fn = created[fi]
    BY <1>3
  <1>5. created' = Append(created, fn) /\ maths' = maths /\ calls' = calls
    BY <1>4 DEF Copy
  <1>6. created' \in Seq({Fn(f)}) \ {<<>>} /\ DOMAIN created \subseteq DOMAIN created'
    <2>1. PICK old \in Seq({Fn(f)}) : old = created
      BY <1>2
    <2>2. Append(old, fn) \in Seq({Fn(f)}) /\ Append(old, fn) # <<>> /\ DOMAIN old \subseteq DOMAIN Append(old, fn)
      OBVIOUS
    <2> QED
      BY ONLY <1>5, <2>1, <2>2
  <1>7. Typed(f)'
    BY <1>1, <1>5, <1>6 DEF Typed
  <1>8. ASSUME NEW t \in Threads
        PROVE  /\ CallInv(f, calls'[t]) /\ Guarded(t)'
               /\ calls'[t].what # "none" => calls'[t].f \in DOMAIN created'
    <2>1. CallInv(f, calls[t]) /\ Guarded(t) /\ (calls[t].what # "none" => calls[t].f \in DOMAIN created)
      BY DEF FInv
    <2> QED
      BY <1>5, <1>6, <2>1 DEF Guarded
  <1> QED
    BY <1>7, <1>8 DEF FInv

-----------------------------------------------------------------------------
(* The specification. *)

LEMMA InitFInv ==
  ASSUME NEW f \in Constructed, ExpressionsInit(f)
  PROVE  FInv(f)
  <1>1. maths = f.maths /\ created = <<Fn(f)>> /\ calls = [t \in Threads |-> Idle]
    BY DEF ExpressionsInit, Fn
  <1>2. maths \in [DOMAIN f.maths -> Math] /\ \A m \in DOMAIN f.maths : maths[m].op = f.maths[m].op
    <2>1. f.maths = [m \in DOMAIN f.maths |-> f.maths[m]]
      OBVIOUS
    <2>2. \A m \in DOMAIN f.maths : f.maths[m] \in Math
      BY ObjectsAreMath
    <2> QED
      BY ONLY <1>1, <2>1, <2>2
  <1>3. created \in Seq({Fn(f)}) \ {<<>>}
    BY <1>1, Singleton
  <1>4. calls \in [Threads -> Calls(f)]
    BY <1>1, IdleIsACall
  <1>5. Typed(f)
    BY ONLY <1>2, <1>3, <1>4 DEF Typed
  <1>6. Idle.what = "none" /\ Idle.at = "idle"
    BY DEF Idle
  <1>7. CallInv(f, Idle)
    BY ONLY <1>6 DEF CallInv, Placed, ToExpression
  <1>8. \A t \in Threads : calls[t] = Idle
    BY <1>1
  <1>9. \A t \in Threads : Guarded(t)
    BY ONLY <1>6, <1>8 DEF Guarded
  <1> QED
    BY ONLY <1>5, <1>6, <1>7, <1>8, <1>9 DEF FInv

LEMMA NextFInv ==
  ASSUME NEW f \in Constructed, FInv(f), [ExpressionsNext]_expressionVars
  PROVE  FInv(f)'
  <1>1. CASE UNCHANGED expressionVars
    BY <1>1 DEF expressionVars, FInv, Typed, Guarded
  <1>2. ASSUME NEW n \in DOMAIN created, Copy(n) PROVE FInv(f)'
    BY <1>2, CopyStep
  <1>3. ASSUME NEW t \in Threads, NEW n \in DOMAIN created, NEW what \in {"evaluate", "jacobian"}, NEW xx \in Points,
               Call(t, n, what, xx)
        PROVE  FInv(f)'
    <2>1. what \in Whats /\ what # "MathExpressionBase"
      BY DEF Whats
    <2> QED
      BY <1>3, <2>1, CallStep
  <1>4. ASSUME NEW t \in Threads, NEW n \in DOMAIN created, NEW xx \in Points,
               Call(t, n, "MathExpressionBase", SubSeq(xx, 1, 1))
        PROVE  FInv(f)'
    <2>1. PICK part \in Parts : part = SubSeq(xx, 1, 1)
      BY DEF Parts
    <2>2. PICK what \in Whats : what = "MathExpressionBase"
      BY DEF Whats
    <2>3. Call(t, n, what, part)
      BY <1>4, <2>1, <2>2
    <2> QED
      BY <2>2, <2>3, CallStep
  <1>5. ASSUME NEW t \in Threads, Lock(t) PROVE FInv(f)'
    BY <1>5, LockStep
  <1>6. ASSUME NEW t \in Threads, CopyArg(t) PROVE FInv(f)'
    BY <1>6, CopyArgStep
  <1>7. ASSUME NEW t \in Threads, CopyRet(t) PROVE FInv(f)'
    BY <1>7, CopyRetStep
  <1>8. ASSUME NEW t \in Threads, Unlock(t) PROVE FInv(f)'
    BY <1>8, UnlockStep
  <1>9. ASSUME NEW t \in Threads, Return(t) PROVE FInv(f)'
    BY <1>9, ReturnStep
  <1> QED
    BY ONLY [ExpressionsNext]_expressionVars, <1>1, <1>2, <1>3, <1>4, <1>5, <1>6, <1>7, <1>8, <1>9 DEF ExpressionsNext

\* What the objects have for a call, in the property's words and in those of the invariant.
LEMMA AloneIsEnds ==
  ASSUME NEW f \in Constructed, Typed(f), NEW n \in DOMAIN created,
         NEW what \in {"evaluate", "jacobian"}, NEW xx
  PROVE  Alone(created[n], what, xx) = Ends(f, what, xx)
  <1>1. created[n] = Fn(f) /\ Fn(f).dims = f.dims
    <2>1. created \in Seq({Fn(f)}) /\ Fn(f).dims = f.dims
      BY DEF Typed, Fn
    <2> QED
      BY ONLY <2>1, n \in DOMAIN created
  <1>2. PICK all \in Seq(DOMAIN f.maths) : all = All(f, what)
    BY AllArePlaces DEF Whats
  <1>3. \A i \in 1 .. Len(all) : ValuesOf(all[i], xx) = Worth(f, all[i], xx)
    BY DEF Typed, ValuesOf, Worth
  <1>4. AllValues(all, xx) = FirstOf(f, all, Len(all), xx)
    <2>1. DOMAIN all = 1 .. Len(all)
      OBVIOUS
    <2> QED
      BY ONLY <1>3, <2>1 DEF AllValues, FirstOf
  <1> QED
    BY ONLY <1>1, <1>2, <1>4 DEF Alone, Ends, All

\* Every state is that of some function: whatever its calls have computed so far is
\* what each would have computed alone, and who touches the variables of an object
\* holds its mutex (MathExpressionBase::evaluate, lock_guard).
THEOREM EvaluationInvariance == EvaluationSpec => []IInv
  <1>1. (\E f \in Constructed : ExpressionsInit(f)) => IInv
    BY InitFInv DEF IInv
  <1>2. IInv /\ [ExpressionsNext]_expressionVars => IInv'
    <2> SUFFICES ASSUME NEW f \in Constructed, FInv(f), [ExpressionsNext]_expressionVars PROVE IInv'
      BY DEF IInv
    <2>1. FInv(f)'
      BY NextFInv
    <2> QED
      BY <2>1 DEF IInv
  <1> QED
    BY <1>1, <1>2, PTL DEF EvaluationSpec

\* However many threads evaluate copies of a function at once, each gets the values
\* and the derivatives it would have got alone (Expression::evaluate, jacobian).
THEOREM EvaluationsAreIsolated == EvaluationSpec => []EvaluationsDoNotMix
  <1>1. ASSUME IInv PROVE EvaluationsDoNotMix
    <2>1. PICK f \in Constructed : FInv(f)
      BY <1>1 DEF IInv
    <2> SUFFICES ASSUME NEW t \in Threads, NEW c, c = calls[t], c.at = "idle", c.what \in {"evaluate", "jacobian"}
                 PROVE  c.outcome = Alone(created[c.f], c.what, c.xx)
      BY DEF EvaluationsDoNotMix
    <2>2. CallInv(f, c) /\ Typed(f)
      BY <2>1 DEF FInv
    <2>3. c.outcome = Ends(f, c.what, c.xx)
      BY <2>2 DEF CallInv, ToExpression
    <2>4. PICK what \in {"evaluate", "jacobian"} : what = c.what
      OBVIOUS
    <2>5. PICK n \in DOMAIN created : n = c.f
      <3>1. calls[t].what # "none"
        OBVIOUS
      <3> QED
        BY <2>1, <3>1 DEF FInv
    <2> QED
      BY <2>2, <2>3, <2>4, <2>5, AloneIsEnds
  <1> QED
    BY <1>1, EvaluationInvariance, PTL
=============================================================================
