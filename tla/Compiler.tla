------------------------------ MODULE Compiler ------------------------------
(***************************************************************************)
(* The JIT compiler (compiler.c, scope.c, compiler.h): from the definition *)
(* of a closure to threaded code.                                          *)
(*                                                                         *)
(* A first pass gives every symbol of the body a location: parameters and  *)
(* leading defines live in the frame's stack slots, everything else must   *)
(* be bound now and is reached through the closure's array of nodes.  A    *)
(* second pass emits code and tracks, in stack_ptr, the slot the next push *)
(* will fill; calls name their frame by that number.                       *)
(*                                                                         *)
(* The C code threads a comp_state_t through both passes; here a pass is a *)
(* function of the definition.  stack_ptr needs no threading: every        *)
(* element of a list, compiled at sp, leaves it at sp + 1.                 *)
(***************************************************************************)
EXTENDS Values, SequencesExt

(* env_find_recurse, on the environments of the machine.                   *)
Lookup(E, e, name) ==
    LET find[i \in 0 .. Len(E)] ==
            IF i = 0 THEN 0
            ELSE IF name \in DOMAIN E[i].bound THEN i ELSE find[E[i].last]
    IN  find[e]

(* is_runtime_token: the symbol names the special form where the closure   *)
(* was made.  Parameters do not hide it.                                   *)
is_token(E, e, v, form) ==
    /\ is_symbol(v)
    /\ Lookup(E, e, v.sym) # 0
    /\ E[Lookup(E, e, v.sym)].bound[v.sym] = tag_run_type(form)

is_statement(E, e, v, form) == is_pair(v) /\ is_token(E, e, scm_car(v), form)

-----------------------------------------------------------------------------
(* Scope analysis (scope.c).                                               *)

(* The symbols gen_sub_scope visits, in order; if is not looked up.        *)
RECURSIVE visited(_, _, _)
visited(E, e, items) ==
    FlattenSeq([i \in DOMAIN items |->
        IF is_pair(items[i]) THEN visited(E, e, items[i].items)
        ELSE IF is_symbol(items[i]) /\ ~ is_token(E, e, items[i], "if")
          THEN <<items[i]>>
        ELSE <<>>])

(* The defines at the head of the body.                                    *)
LeadingDefines(E, e, body) ==
    LET n == SelectInSeq(body, LAMBDA v : ~ is_statement(E, e, v, "define"))
    IN  IF n = 0 THEN body ELSE SubSeq(body, 1, n - 1)

(* The symbols that name no slot, each once, in the order of first use.    *)
closed_over(uses, slots) ==
    FoldLeft(LAMBDA closed, v : IF Contains(slots, v) \/ Contains(closed, v)
                                  THEN closed ELSE Append(closed, v),
             <<>>, uses)

(* Slots 1, 2, ... hold the parameters, then the leading defines; symbols  *)
(* that name no slot are closed over.  A define anywhere else or an        *)
(* unbound symbol is a failure.                                            *)
gen_top_scope(E, e, body, params) ==
    LET defines == LeadingDefines(E, e, body)
        slots   == params \o [i \in DOMAIN defines |-> defines[i].items[2]]
        inner   == [i \in DOMAIN body |->
                        IF i \in DOMAIN defines
                          THEN Chain(Tail(Tail(body[i].items)), SCM_TYPE_NULL)
                          ELSE body[i]]
        uses    == visited(E, e, inner)
        closed  == closed_over(uses, slots)
    IN  [envs   |-> E,
         env    |-> e,
         slots  |-> slots,
         closed |-> closed,
         failed |-> \/ \E v \in ToSet(uses) : is_token(E, e, v, "define")
                    \/ \E v \in ToSet(closed) : Lookup(E, e, v.sym) = 0]

-----------------------------------------------------------------------------
(* Code generation (compiler.c).  C is the scope of the closure.  A jump's *)
(* argument is its distance until the code is stored.                      *)

instr(name, n) == <<[func |-> name, arg |-> n]>>

(* A null pointer the compiler follows.                                    *)
crash == instr("crash", 0)

(* Mutant: the array of nodes is counted from one.                         *)
compile_value_from_one(C, v) ==
    IF ~ is_symbol(v) \/ is_token(C.envs, C.env, v, "if")
      THEN <<[func |-> "push_const", arg |-> 0, value |-> v]>>
    ELSE IF Contains(C.slots, v)
      THEN instr("stack_ref", SelectLastInSeq(C.slots, LAMBDA w : w = v))
    ELSE instr("closure_ref", SelectInSeq(C.closed, LAMBDA w : w = v))

(* Of two slots with one name the last one is meant.                       *)
compile_value(C, v) ==
    IF ~ is_symbol(v) \/ is_token(C.envs, C.env, v, "if")
      THEN <<[func |-> "push_const", arg |-> 0, value |-> v]>>
    ELSE IF Contains(C.slots, v)
      THEN instr("stack_ref", SelectLastInSeq(C.slots, LAMBDA w : w = v))
    ELSE instr("closure_ref", SelectInSeq(C.closed, LAMBDA w : w = v) - 1)

RECURSIVE compile_expression_list(_, _, _, _)

(* Mutant: the second branch starts after the first.                       *)
compile_if_expression_on(C, sp, v, tail) ==
    LET yes == compile_expression_list(C, sp, List(<<v.items[3]>>), tail)
        no  == compile_expression_list(C, sp + 1, List(SubSeq(v.items, 4, 4)), tail)
    IN  compile_expression_list(C, sp, List(<<v.items[2]>>), FALSE)
        \o instr("jump_if_false", Len(yes) + 2)
        \o yes \o instr("jump", Len(no) + 1) \o no

(* Both branches start at the slot the test started at.  A missing third   *)
(* part emits nothing.                                                     *)
compile_if_expression(C, sp, v, tail) ==
    LET part(n, t) == compile_expression_list(C, sp,
                        IF n \in DOMAIN v.items THEN List(<<v.items[n]>>)
                        ELSE SCM_TYPE_NULL, t)
        yes == part(3, tail)
        no  == part(4, tail)
    IN  IF Len(v.items) < 3 THEN crash
        ELSE part(2, FALSE) \o instr("jump_if_false", Len(yes) + 2)
             \o yes \o instr("jump", Len(no) + 1) \o no

(* Mutant: no call is a tail call.                                         *)
compile_call_nested(C, sp, v, tail) ==
    compile_expression_list(C, sp, v, FALSE) \o instr("do_call", sp)

compile_call(C, sp, v, tail) ==
    compile_expression_list(C, sp, v, FALSE)
    \o instr(IF tail THEN "do_tailcall" ELSE "do_call", sp)

compile_expression(C, sp, v, tail) ==
    LET is(form) == is_statement(C.envs, C.env, v, form)
    IN  IF is("if") THEN compile_if_expression(C, sp, v, tail)
        ELSE IF is("define")
          THEN compile_expression_list(C, sp, scm_cdr(scm_cdr(v)), FALSE)
        ELSE IF is("begin") THEN compile_expression_list(C, sp, scm_cdr(v), tail)
        ELSE compile_call(C, sp, v, tail)

(* Mutant: every element is in tail position.                              *)
compile_expression_list_early(C, sp, comp, tail) ==
    LET elements == Items(comp)
    IN  FlattenSeq([i \in DOMAIN elements |->
            IF is_pair(elements[i])
              THEN compile_expression(C, sp + i - 1, elements[i], tail)
              ELSE compile_value(C, elements[i])])

(* Only the last element of a proper list is in tail position.             *)
compile_expression_list(C, sp, comp, tail) ==
    LET elements   == Items(comp)
        is_tail(i) == tail /\ i = Len(elements) /\ is_null(comp.last)
    IN  FlattenSeq([i \in DOMAIN elements |->
            IF is_pair(elements[i])
              THEN compile_expression(C, sp + i - 1, elements[i], is_tail(i))
              ELSE compile_value(C, elements[i])])

-----------------------------------------------------------------------------

(* Mutant: jumps keep their distance.                                      *)
store_instructions_relative(instrs) == instrs

(* store_instructions: jumps to instruction numbers, counted from zero.    *)
store_instructions(instrs) ==
    [i \in DOMAIN instrs |->
        IF instrs[i].func \in {"jump", "jump_if_false"}
          THEN [instrs[i] EXCEPT !.arg = @ + i - 1] ELSE instrs[i]]

(* store_closed_vars: the nodes of the closed symbols.                     *)
store_closed_vars(E, e, closed) ==
    [i \in DOMAIN closed |->
        [env |-> Lookup(E, e, closed[i].sym), name |-> closed[i].sym]]

(* Mutant: the closed variables are counted as slots too.                  *)
stack_ptr_closed(params, scope) == Len(params) + Len(scope.closed) + 1

(* The slot the body's first value will fill: behind function and operands.*)
stack_ptr(params, scope) == Len(params) + 1

vm_compile_closure(clsr, E) ==
    LET body    == clsr.definition
        params  == Items(clsr.args)
        scope   == gen_top_scope(E, clsr.env, Items(body), params)
        coded   == compile_expression_list(scope, stack_ptr(params, scope), body, TRUE)
        status(s) == [status |-> s, code |-> <<>>, closed |-> <<>>]
    IN  IF \E d \in ToSet(LeadingDefines(E, clsr.env, Items(body))) : Len(d.items) < 2
          THEN status("crash")
        ELSE IF scope.failed THEN status("failed")
        ELSE IF crash[1] \in ToSet(coded) THEN status("crash")
        ELSE [status |-> "ok",
              code   |-> store_instructions(coded \o instr("return_last", 0)),
              closed |-> store_closed_vars(E, clsr.env, scope.closed)]
=============================================================================
