------------------------------ MODULE Session ------------------------------
(***************************************************************************)
(* What nscheme promises its user: the session of a Scheme interpreter.    *)
(*                                                                         *)
(* An expression is evaluated in one step, by a reference evaluator that   *)
(* follows the rules of the language and knows nothing of stacks, frames,  *)
(* modes of execution or compilation.  VM.tla implements this module: see  *)
(* the refinement mapping in MCVM.tla.                                     *)
(***************************************************************************)
EXTENDS SyntaxRules, Writer

CONSTANTS Mode, Exprs

VARIABLES asked,    \* the expressions answered so far
          told      \* what the user has been shown

svars == <<asked, told>>

-----------------------------------------------------------------------------
(* The reference evaluator.  R is the run of a program: environments (as   *)
(* functions with a parent), procedures, what was displayed, the value of  *)
(* the last expression and whether an error ended the evaluation.          *)

Unspecified == [t |-> "unspecified"]

yield(R, v) == [R EXCEPT !.value = v]
fail(R)     == [R EXCEPT !.failed = TRUE]
display(R, kind, v) ==
    [yield(R, Unspecified) EXCEPT !.shown = Append(@, <<kind, v>>)]

Where(R, env, name) ==
    LET up[i \in 0 .. Len(R.envs)] ==
            IF i = 0 THEN 0
            ELSE IF name \in DOMAIN R.envs[i].names THEN i ELSE up[R.envs[i].parent]
    IN  up[env]

Meaning(R, env, sym) == R.envs[Where(R, env, sym.sym)].names[sym.sym]

bind(R, env, name, v) ==
    [R EXCEPT !.value = Unspecified,
              !.envs[env].names = [s \in DOMAIN @ \cup {name} |->
                                        IF s = name THEN v ELSE @[s]]]

procedure(R, params, body, env) ==
    [R EXCEPT !.value = [t |-> "procedure", id |-> Len(R.procs) + 1],
              !.procs = Append(@, [params |-> params, body |-> body, env |-> env])]

(* The number a fixnum stands for: the upper half of the residues is below *)
(* zero.                                                                   *)
number(v) == IF 2 * v.int < IntMod THEN v.int ELSE v.int - IntMod

(* The builtin procedures, on the sequence of their arguments.             *)
numeric(s) == \A i \in DOMAIN s : is_integer(s[i])

Builtin(R, p, s) ==
    LET n == Len(s)
        fold(f(_, _), unit) == FoldLeft(LAMBDA a, v : f(a, number(v)), unit, s)
        ofFirst(f(_, _)) ==
            FoldLeft(LAMBDA a, v : f(a, number(v)), number(Head(s)), Tail(s))
        when(ok, v) == IF ok THEN yield(R, v) ELSE fail(R)
    IN  CASE p = "+" -> when(numeric(s), tag_integer(fold(LAMBDA a, b : a + b, 0)))
          [] p = "*" -> when(numeric(s), tag_integer(fold(LAMBDA a, b : a * b, 1)))
          [] p = "-" -> when(numeric(s) /\ n > 0,
                             tag_integer(ofFirst(LAMBDA a, b : a - b)))
          [] p = "/" -> when(numeric(s) /\ n > 0 /\ tag_integer(0) \notin ToSet(Tail(s)),
                             tag_integer(ofFirst(LAMBDA a, b : a \div b)))
          [] p = "<" -> when(numeric(s) /\ n = 2, tag_boolean(number(s[1]) < number(s[2])))
          [] p = ">" -> when(numeric(s) /\ n = 2, tag_boolean(number(s[1]) > number(s[2])))
          [] p = "eq?"   -> when(n = 2, tag_boolean(s[1] = s[2]))
          [] p = "null?" -> when(n = 1, tag_boolean(is_null(s[1])))
          [] p = "pair?" -> when(n = 1, tag_boolean(is_pair(s[1])))
          [] p = "cons"  -> when(n = 2, construct_pair(s[1], s[2]))
          [] p = "car"   -> when(n = 1 /\ is_pair(s[1]), scm_car(s[1]))
          [] p = "cdr"   -> when(n = 1 /\ is_pair(s[1]), scm_cdr(s[1]))
          [] p = "display" -> IF n = 1 THEN display(R, "display", s[1]) ELSE fail(R)
          [] p = "newline" -> display(R, "newline", SCM_TYPE_NULL)
          [] OTHER -> fail(R)

RECURSIVE Eval(_, _, _)

(* The value of a sequence of expressions is that of the last one.         *)
Sequence(R, env, body) == FoldLeft(LAMBDA Q, e : Eval(Q, env, e), R, body)

(* All elements of a list, left to right; their values are collected.      *)
Elements(R, env, items) ==
    LET one(A, e) == LET Q == Eval(A.run, env, e)
                     IN  [run |-> Q, values |-> Append(A.values, Q.value)]
    IN  FoldLeft(one, [run |-> R, values |-> <<>>], items)

Call(R, f, s) ==
    IF R.failed THEN R
    ELSE IF f.t = "primitive" THEN Builtin(R, f.prim, s)
    ELSE IF f.t # "procedure" \/ Len(Items(R.procs[f.id].params)) # Len(s) THEN fail(R)
    ELSE LET proc   == R.procs[f.id]
             params == Items(proc.params)
             scope  == [names |-> [x \in {params[i].sym : i \in DOMAIN params} |->
                                    s[CHOOSE i \in DOMAIN params : params[i].sym = x]],
                        parent |-> proc.env]
         IN  Sequence([R EXCEPT !.envs = Append(@, scope)],
                      Len(R.envs) + 1, Items(proc.body))

(* A special form, by the name of its keyword.                             *)
Form(R, env, form, e) ==
    LET s == e.items
        target == s[2]
        to(Q, where) == IF Q.failed THEN Q ELSE bind(Q, where, target.sym, Q.value)
    IN  CASE form = "quote"  -> yield(R, s[2])
          [] form = "lambda" -> procedure(R, s[2], scm_cdr(scm_cdr(e)), env)
          [] form = "begin"  -> Sequence(R, env, Tail(s))
          [] form = "syntax-rules" ->
                yield(R, tag_syntax_rules(s[2], scm_cdr(scm_cdr(e))))
          [] form = "if" ->
                LET Q == Eval(R, env, s[2])
                IN  Eval(Q, env, s[IF Q.value = tag_boolean(FALSE) THEN 4 ELSE 3])
          [] form \in {"define", "define-syntax"} ->
                IF is_pair(target)
                  THEN LET P == procedure(R, scm_cdr(target), scm_cdr(scm_cdr(e)), env)
                       IN  bind(P, env, scm_car(target).sym, P.value)
                  ELSE to(Eval(R, env, s[3]), env)
          [] form = "set!" ->
                LET Q == Eval(R, env, s[3])
                    where == Where(Q, env, target.sym)
                IN  to(Q, IF where = 0 THEN env ELSE where)

Eval(R, env, e) ==
    IF R.failed THEN R
    ELSE IF is_symbol(e)
      THEN IF Where(R, env, e.sym) = 0 THEN fail(R) ELSE yield(R, Meaning(R, env, e))
    ELSE IF ~ is_pair(e) THEN yield(R, e)
    ELSE LET head    == scm_car(e)
             keyword == is_symbol(head) /\ Where(R, env, head.sym) # 0
             m       == Meaning(R, env, head)
             all     == Elements(R, env, e.items)
         IN  IF keyword /\ is_special_form(m) THEN Form(R, env, m.run, e)
             ELSE IF keyword /\ is_syntax_rules(m)
               THEN LET x == expand_syntax_rules(m, e)
                    IN  IF x.status = "ok" THEN Sequence(R, env, x.value.items)
                        ELSE fail(R)
             ELSE Call(all.run, Head(all.values), Tail(all.values))

-----------------------------------------------------------------------------
(* The session.                                                            *)

Builtins == {"+", "-", "*", "/", "eq?", "<", ">", "null?", "pair?", "display",
             "newline", "cons", "car", "cdr"}

Fresh == [envs |-> <<[names |-> [s \in Builtins \cup SpecialForms |->
                        IF s \in Builtins THEN tag_primitive(s) ELSE tag_run_type(s)],
                      parent |-> 0]>>,
          procs |-> <<>>, shown |-> <<>>, value |-> Unspecified, failed |-> FALSE]

(* What the user sees: values as write.c prints them.  A form or procedure *)
(* whose value the language leaves open (define, display) shows itself.    *)
shown(kind, v) ==
    [event |-> kind,
     value |-> IF v.t \in {"procedure", "unspecified"} THEN Opaque("#<closure>")
               ELSE write_value(v)]

(* One expression: what it displays, then the prompt's answer, which       *)
(* evaluate_file leaves out unless it is an error.                         *)
Step(R, e) ==
    LET Q == Eval([R EXCEPT !.shown = <<>>, !.failed = FALSE], 1, e)
        answer == IF Q.failed THEN <<shown("error", SCM_TYPE_NULL)>>
                  ELSE IF Mode = "repl" THEN <<shown("reply", Q.value)>> ELSE <<>>
    IN  [Q EXCEPT !.shown =
            [i \in DOMAIN @ |-> shown(@[i][1], @[i][2])] \o answer]

(* The run of the expressions in order; what they show, altogether.        *)
Transcript(exprs) ==
    LET add(A, e) == LET Q == Step(A.run, e)
                     IN  [run |-> Q, all |-> A.all \o Q.shown]
    IN  FoldLeft(add, [run |-> Fresh, all |-> <<>>], exprs).all

SInit == asked = <<>> /\ told = <<>>

Over == /\ asked # <<>>
        /\ \/ is_eof(Last(asked))
           \/ Mode = "file" /\ told # <<>> /\ Last(told).event = "error"

Ask == /\ asked' # asked
       /\ ~ Over
       /\ \E e \in Exprs \cup {EOF_VAL} : asked' = Append(asked, e)
       /\ told' = Transcript(asked')

SSpec == SInit /\ [][Ask]_svars
=============================================================================
