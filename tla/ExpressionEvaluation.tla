------------------------ MODULE ExpressionEvaluation ------------------------
(***************************************************************************)
(* Threads that evaluate functions: MathExpressionBase::evaluate           *)
(* (functions/expression/base.hh) and what Functions::Expression           *)
(* (functions/expression.hh) does around it.  Copies of a function share   *)
(* its compiled expressions, and these keep the point they are evaluated   *)
(* at in variables of their own, which a mutex guards.  What a thread      *)
(* computes goes to memory of its own (DS::PerThreadValue).                *)
(***************************************************************************)
EXTENDS Integers, SequencesExt

CONSTANTS
  Threads, NoThread,
  VariableNames,      \* of the components of the variable, in their order
  Points,             \* where functions are evaluated
  MaxCopies,          \* bound: so many functions
  Constructed,        \* what constructors may leave: one function, and the objects it refers to
  NoGradient,         \* what jacobian() throws without gradients
  CodeValue(_, _),    \* what a compiled expression is worth, given the values of its variables
  ResultOf(_, _, _)   \* what a function of these dimensions returns of the numbers it has computed

\* every object has compiled its expressions and has variables; a function refers
\* to one object, and its gradients to one for each row of each column
ASSUME EvaluationAssumption ==
  /\ NoThread \notin Threads
  /\ VariableNames \in Seq(STRING) \ {<<>>}
  /\ \A xx \in Points : xx = [i \in DOMAIN VariableNames |-> xx[i]]
  /\ \A f \in Constructed :
       /\ f.maths = [m \in DOMAIN f.maths |-> f.maths[m]]
       /\ \A m \in DOMAIN f.maths :
            LET math == f.maths[m]
            IN  /\ math = [expressions |-> math.expressions, op |-> math.op, arg |-> math.arg, mutex |-> NoThread]
                /\ math.arg = [i \in DOMAIN VariableNames |-> math.arg[i]]
                /\ math.op \in Seq(ToSet(math.op)) \ {<<>>}
       /\ f.function_ \in DOMAIN f.maths
       /\ f.gradients_ \in Seq(Seq(DOMAIN f.maths) \ {<<>>})

VARIABLES
  maths,      \* the objects of MathExpressionBase: their code, variables, and who holds the mutex
  created,    \* the objects of Expression: function_ and gradients_ are places in maths
  calls       \* what each thread is doing, and what its last call returned

expressionVars == <<maths, created, calls>>

Idle == [at |-> "idle", f |-> 0, what |-> "none", xx |-> <<>>, todo |-> <<>>, k |-> 1, ret |-> <<>>, outcome |-> <<>>]

ExpressionsInit(f) ==
  /\ maths = f.maths
  /\ created = <<[dims |-> f.dims, function_ |-> f.function_, gradients_ |-> f.gradients_]>>
  /\ calls = [t \in Threads |-> Idle]

\* the copy shares what has been compiled
Copy(f) ==
  /\ Len(created) < MaxCopies
  /\ created' = Append(created, created[f])
  /\ UNCHANGED <<maths, calls>>

\* the objects that a call evaluates, one after the other
Todo(fn, what) == IF what = "jacobian" THEN FlattenSeq(fn.gradients_) ELSE <<fn.function_>>

\* jacobian() of a function without gradients throws
Throws(fn, what) == what = "jacobian" /\ fn.gradients_ = <<>>

Call(t, f, what, xx) ==
  LET fails == Throws(created[f], what)
  IN  /\ calls[t].at = "idle"
      /\ calls' = [calls EXCEPT ![t] =
           [Idle EXCEPT !.at = IF fails THEN "idle" ELSE "lock", !.f = f, !.what = what, !.xx = xx,
                        !.todo = Todo(created[f], what), !.outcome = IF fails THEN NoGradient ELSE <<>>]]
      /\ UNCHANGED <<maths, created>>

\* a fault: without the lock
Lock_faulty(t) ==
  /\ calls[t].at = "lock"
  /\ calls' = [calls EXCEPT ![t].at = "copy arg", ![t].k = 1]
  /\ UNCHANGED <<maths, created>>

Lock(t) ==
  LET m == Head(calls[t].todo)
  IN  /\ calls[t].at = "lock" /\ maths[m].mutex = NoThread
      /\ maths' = [maths EXCEPT ![m].mutex = t]
      /\ calls' = [calls EXCEPT ![t].at = "copy arg", ![t].k = 1]
      /\ UNCHANGED created

\* one component of the point after the other; those it lacks keep their values
CopyArg(t) ==
  LET m == Head(calls[t].todo)  k == calls[t].k
  IN  /\ calls[t].at = "copy arg"
      /\ maths' = [maths EXCEPT ![m].arg[k] = calls[t].xx[k]]
      /\ calls' = [calls EXCEPT ![t] = IF k < Len(VariableNames) /\ k < Len(@.xx) THEN [@ EXCEPT !.k = k + 1]
                                       ELSE [@ EXCEPT !.at = "copy ret", !.k = 1]]
      /\ UNCHANGED created

CopyRet(t) ==
  LET c == calls[t]  m == maths[Head(c.todo)]
  IN  /\ c.at = "copy ret"
      /\ calls' = [calls EXCEPT ![t] = [c EXCEPT !.ret = Append(c.ret, CodeValue(m.op[c.k], m.arg)), !.k = c.k + 1,
                                                 !.at = IF c.k < Len(m.op) THEN "copy ret" ELSE "unlock"]]
      /\ UNCHANGED <<maths, created>>

Unlock(t) ==
  /\ calls[t].at = "unlock"
  /\ maths' = [maths EXCEPT ![Head(calls[t].todo)].mutex = NoThread]
  /\ calls' = [calls EXCEPT ![t].todo = Tail(@), ![t].at = IF Len(calls[t].todo) = 1 THEN "return" ELSE "lock"]
  /\ UNCHANGED created

Return(t) ==
  LET c == calls[t]
  IN  /\ c.at = "return"
      /\ calls' = [calls EXCEPT ![t] = [c EXCEPT !.at = "idle", !.k = 1, !.ret = <<>>, !.todo = <<>>,
                                                 !.outcome = ResultOf(created[c.f].dims, c.what, c.ret)]]
      /\ UNCHANGED <<maths, created>>

\* MathExpressionBase takes points with fewer components, which Expression does not
ExpressionsNext ==
  \/ \E f \in DOMAIN created : Copy(f)
  \/ \E t \in Threads :
       \/ \E f \in DOMAIN created, what \in {"evaluate", "jacobian"}, xx \in Points : Call(t, f, what, xx)
       \/ \E f \in DOMAIN created, xx \in Points : Call(t, f, "MathExpressionBase", SubSeq(xx, 1, 1))
       \/ Lock(t) \/ CopyArg(t) \/ CopyRet(t) \/ Unlock(t) \/ Return(t)

EvaluationSpec == (\E f \in Constructed : ExpressionsInit(f)) /\ [][ExpressionsNext]_expressionVars

----------------------------------------------------------------------------
(* Properties. *)

\* what an object has for a point, and what some of them have one after the other
ValuesOf(m, xx) == [k \in DOMAIN maths[m].op |-> CodeValue(maths[m].op[k], xx)]
AllValues(places, xx) == FlattenSeq([i \in DOMAIN places |-> ValuesOf(places[i], xx)])

\* what a call returns when no other one is under way
Alone(fn, what, xx) ==
  IF Throws(fn, what) THEN NoGradient ELSE ResultOf(fn.dims, what, AllValues(Todo(fn, what), xx))

\* However threads that share a function interleave, every call returns what it
\* would have returned on its own: the variables that all of them assign are
\* never those of another call, nor what an earlier one has left there.
EvaluationsDoNotMix ==
  \A t \in Threads :
    LET c == calls[t]
    IN  c.at = "idle" /\ c.what \in {"evaluate", "jacobian"} =>
          c.outcome = Alone(created[c.f], c.what, c.xx)
=============================================================================
