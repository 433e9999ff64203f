----------------------------- MODULE ArithTrees -----------------------------
(***************************************************************************)
(* What an arithmetic expression means, given as a tree: the evaluation of *)
(* C from left to right on integers of Width bits, and how a tree is       *)
(* written down.  Variables hold trees here, and their texts in Arith.     *)
(***************************************************************************)
EXTENDS Arith

Int_(v) == [op |-> "int", v |-> v]
Var(n) == [op |-> "var", name |-> n]
Elem(t) == [op |-> "elem", t |-> t]        \* an element of the array a
Un(o, t) == [op |-> "un", o |-> o, t |-> t]
Bin(o, s, t) == [op |-> "bin", o |-> o, s |-> s, t |-> t]
Cond(c, s, t) == [op |-> "cond", c |-> c, s |-> s, t |-> t]
Set(o, place, t) == [op |-> "set", o |-> o, place |-> place, t |-> t]
Pre(o, place) == [op |-> "pre", o |-> o, place |-> place]
Post(o, place) == [op |-> "post", o |-> o, place |-> place]

----------------------------------------------------------------------------
(* Writing a tree: parentheses only where the precedence of Bash needs     *)
(* them, a space only where two operators would run together.              *)
Levels == <<{<<",">>}, {}, {}, {<<"|", "|">>}, {<<"&", "&">>}, {<<"|">>}, {<<"^">>}, {<<"&">>},
            {<<"=", "=">>, <<"!", "=">>}, {<<"<">>, <<"<", "=">>, <<">">>, <<">", "=">>},
            {<<"<", "<">>, <<">", ">">>}, {<<"+">>, <<"-">>}, {<<"*">>, <<"/">>, <<"%">>}, {<<"*", "*">>}>>
LevelOf(t) ==
    CASE t.op = "bin" -> CHOOSE k \in DOMAIN Levels : t.o \in Levels[k]
      [] t.op = "set" -> 2
      [] t.op = "cond" -> 3
      [] t.op \in {"un", "pre"} \/ (t.op = "int" /\ t.v < 0) -> 15
      [] OTHER -> 16

OpChars == {"+", "-", "*", "/", "%", "<", ">", "=", "!", "&", "|", "^", "~"}
Join(s, t) == IF s # <<>> /\ t # <<>> /\ Last(s) \in OpChars /\ t[1] \in OpChars
              THEN s \o <<" ">> \o t ELSE s \o t
RECURSIVE ArithWritten(_), ArithAt(_, _)
ArithAt(t, level) == IF LevelOf(t) < level THEN <<"(">> \o ArithWritten(t) \o <<")">> ELSE ArithWritten(t)
ArithWritten(t) ==
    CASE t.op = "int" -> to_string(t.v)
      [] t.op = "var" -> t.name
      [] t.op = "elem" -> <<"a", "[">> \o ArithWritten(t.t) \o <<"]">>
      [] t.op = "un" -> Join(t.o, ArithAt(t.t, 15))
      [] t.op = "pre" -> Join(t.o, ArithWritten(t.place))
      [] t.op = "post" -> Join(ArithWritten(t.place), t.o)
      [] t.op = "set" -> Join(Join(ArithWritten(t.place), Append(t.o, "=")), ArithAt(t.t, 2))
      [] t.op = "cond" -> ArithAt(t.c, 4) \o <<"?">> \o ArithAt(t.s, 1) \o <<":">> \o ArithAt(t.t, 3)
      [] t.op = "bin" /\ t.o = <<"*", "*">> -> Join(Join(ArithAt(t.s, 15), t.o), ArithAt(t.t, 14))
      [] t.op = "bin" /\ t.o # <<"*", "*">> -> Join(Join(ArithAt(t.s, LevelOf(t)), t.o), ArithAt(t.t, LevelOf(t) + 1))

----------------------------------------------------------------------------
(* The meaning: value, variables afterwards, and whether it failed. *)
Val(v, env) == [err |-> FALSE, v |-> v, env |-> env]
Bad(env) == [err |-> TRUE, v |-> 0, env |-> env]
Apply(o, x, y) == IF o = <<"*", "*">> THEN FoldLeft(LAMBDA v, i : wrapping(v * x), 1, [i \in 1 .. y |-> i])
                  ELSE Binary(o, x, y)

ArithPlace(p, i) == [name |-> IF p.op = "var" THEN p.name ELSE <<"a">>, index |-> i]
ArithPut(env, at, v) ==
    LET old == IF at.name \in DOMAIN env.vars THEN env.vars[at.name] ELSE [i \in {} |-> Int_(0)]
    IN  [env EXCEPT !.vars = [n \in DOMAIN @ \cup {at.name} |->
                                 IF n # at.name THEN @[n]
                                 ELSE [i \in DOMAIN old \cup {at.index} |-> IF i = at.index THEN Int_(v) ELSE old[i]]]]
Store(r, at, v, result) == IF at.name \in r.env.readonly THEN Bad(r.env) ELSE Val(result, ArithPut(r.env, at, v))

RECURSIVE ArithMeaning(_, _, _), Where(_, _, _)
\* The index a place has.
Where(p, env, fuel) == IF p.op = "elem" THEN ArithMeaning(p.t, env, fuel) ELSE Val(0, env)
Load(at, env, fuel) ==
    IF Has(env, at.name, at.index)
    THEN LET value == env.vars[at.name][at.index]
         IN  IF value.op = "int" THEN Val(value.v, env)
             ELSE IF fuel = 0 THEN Bad(env) ELSE ArithMeaning(value, env, fuel - 1)
    ELSE IF env.nounset /\ at.name # <<"a">> THEN Bad(env) ELSE Val(0, env)

ArithMeaning(t, env, fuel) ==
    CASE t.op = "int" -> Val(wrapping(t.v), env)
      [] t.op \in {"var", "elem"} ->
            IfOk(Where(t, env, fuel), LAMBDA i : Load(ArithPlace(t, i.v), i.env, fuel))
      [] t.op = "un" -> IfOk(ArithMeaning(t.t, env, fuel), LAMBDA r :
                             Val(CASE t.o = <<"+">> -> r.v [] t.o = <<"-">> -> wrapping(-r.v)
                                   [] t.o = <<"!">> -> Truth(r.v = 0) [] t.o = <<"~">> -> -r.v - 1, r.env))
      [] t.op \in {"pre", "post"} ->
            IfOk(Where(t.place, env, fuel), LAMBDA i :
            IfOk(Load(ArithPlace(t.place, i.v), i.env, fuel), LAMBDA old :
                 LET new == wrapping(IF t.o = PlusPlus THEN old.v + 1 ELSE old.v - 1)
                 IN  Store(old, ArithPlace(t.place, i.v), new, IF t.op = "pre" THEN new ELSE old.v)))
      [] t.op = "set" /\ t.o = <<>> ->      \* the right side first, then the subscript
            IfOk(ArithMeaning(t.t, env, fuel), LAMBDA r :
            IfOk(Where(t.place, r.env, fuel), LAMBDA i : Store(i, ArithPlace(t.place, i.v), r.v, r.v)))
      [] t.op = "set" /\ t.o # <<>> ->      \* place and old value first
            IfOk(Where(t.place, env, fuel), LAMBDA i :
            IfOk(Load(ArithPlace(t.place, i.v), i.env, fuel), LAMBDA old :
            IfOk(ArithMeaning(t.t, old.env, fuel), LAMBDA r :
                 IF t.o \in {<<"/">>, <<"%">>} /\ r.v = 0 THEN Bad(r.env)
                 ELSE LET v == IF t.o = <<"*", "*">> /\ r.v < 0 THEN 0 ELSE Apply(t.o, old.v, r.v)
                      IN  Store(r, ArithPlace(t.place, i.v), v, v))))
      [] t.op = "cond" -> IfOk(ArithMeaning(t.c, env, fuel), LAMBDA c :
                               ArithMeaning(IF c.v # 0 THEN t.s ELSE t.t, c.env, fuel))
      [] t.op = "bin" ->
            IfOk(ArithMeaning(t.s, env, fuel), LAMBDA x :
                 IF (t.o = <<"&", "&">> /\ x.v = 0) \/ (t.o = <<"|", "|">> /\ x.v # 0)
                 THEN Val(Truth(x.v # 0), x.env)
                 ELSE IfOk(ArithMeaning(t.t, x.env, fuel), LAMBDA y :
                      CASE t.o = <<",">> -> y
                        [] t.o \in {<<"&", "&">>, <<"|", "|">>} -> Val(Truth(y.v # 0), y.env)
                        [] t.o \in {<<"/">>, <<"%">>} /\ y.v = 0 -> Bad(y.env)
                        [] t.o = <<"*", "*">> /\ y.v < 0 -> Bad(y.env)
                        [] OTHER -> Val(Apply(t.o, x.v, y.v), y.env)))

----------------------------------------------------------------------------
\* The variables as the evaluator sees them.
Texts(env) == [env EXCEPT !.vars = [n \in DOMAIN @ |-> [i \in DOMAIN @[n] |-> ArithWritten(@[n][i])]]]

\* Whether a part of t that is not evaluated divides by assignment.
RECURSIVE Divides(_), SkipsDivision(_, _, _)
Divides(t) ==
    CASE t.op \in {"int", "var", "pre", "post", "elem"} -> FALSE
      [] t.op = "un" -> Divides(t.t)
      [] t.op = "set" -> t.o \in {<<"/">>, <<"%">>} \/ Divides(t.t)
      [] t.op = "bin" -> Divides(t.s) \/ Divides(t.t)
      [] t.op = "cond" -> Divides(t.c) \/ Divides(t.s) \/ Divides(t.t)
SkipsDivision(t, env, fuel) ==
    CASE t.op \in {"int", "var", "pre", "post", "elem"} -> FALSE
      [] t.op \in {"un", "set"} -> SkipsDivision(t.t, env, fuel)
      [] t.op = "cond" -> Divides(t.s) \/ Divides(t.t) \/ SkipsDivision(t.c, env, fuel)
      [] t.op = "bin" -> \/ t.o \in {<<"&", "&">>, <<"|", "|">>} /\ Divides(t.t)
                         \/ SkipsDivision(t.s, env, fuel) \/ SkipsDivision(t.t, env, fuel)

SameOutcome(t, env) ==
    LET m == ArithMeaning(t, env, MAX_ARITH_NESTING)
        e == eval(ArithWritten(t), Texts(env))
    IN  /\ e.err = m.err
        /\ ~m.err => e.v = m.v
        /\ e.env.vars = Texts(m.env).vars
=============================================================================
