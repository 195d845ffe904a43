--------------------------------- MODULE VM ---------------------------------
(***************************************************************************)
(* The nscheme virtual machine (vm.c, vm_ops.c, vm_ops.h) and the loops    *)
(* that drive it (main.c).                                                 *)
(*                                                                         *)
(* One step of the model is one turn of vm_run: a step of the tree-walking *)
(* interpreter or one threaded instruction.  The C functions all update    *)
(* one vm_t in place; here they are operators from the machine before to   *)
(* the machine after, under their own names, composed in the order of the  *)
(* calls, and an action is one case of the interpreter or one vm_op_*.     *)
(***************************************************************************)
EXTENDS Values, FiniteSets

CONSTANTS
    StackSize,      \* vm->stack_size; 0x1000 in the build
    CallsSize,      \* vm->calls_size; 0x1000 in the build
    JitThreshold,   \* calls before a closure is compiled; 3 in the build
    Mode,           \* "repl" (no argument) or "file" (file arguments)
    Files,          \* how many files are named on the command line
    Preamble,       \* the expressions every session's input begins with
    Exprs,          \* the expressions the input may hold after that
    MaxEvals,       \* bound: expressions read in a session
    Compile(_, _),  \* vm_compile_closure: closure, environments -> code
    Expand(_, _)    \* expand_syntax_rules: rules, form -> expansion

ASSUME VMAssumption ==
    /\ StackSize \in Nat \ {0}
    /\ CallsSize \in Nat \ {0}
    /\ JitThreshold \in Nat \ {0}
    /\ Mode \in {"repl", "file"}
    /\ Files \in Nat \ {0}
    /\ MaxEvals \in Nat /\ Len(Preamble) <= MaxEvals

VARIABLES
    vm,         \* the vm_t
    envs,       \* the environment_t objects; envs[1] is vm_r7rs_environment
    closures,   \* the scm_closure_t objects made by vm_make_closure
    phase,      \* where main is: "prompt", "run" (in vm_run) or "exit"
    files,      \* files not finished yet, the one being read included
    evals,      \* expressions read so far
    out         \* what the session has read and shown, in order

machine == <<vm, envs, closures>>
driver  == <<phase, files, evals, out>>
vars    == <<vm, envs, closures, phase, files, evals, out>>

-----------------------------------------------------------------------------
(* Environments (env.c).  env_set keeps one node per key and never moves   *)
(* or frees one, so an environment is a function from names to values and  *)
(* a pointer to a node is the pair of its environment and its name.        *)

env_create(E, parent) == Append(E, [bound |-> [s \in {} |-> s], last |-> parent])

env_set(E, e, name, value) ==
    [E EXCEPT ![e].bound =
        [s \in DOMAIN E[e].bound \cup {name} |->
            IF s = name THEN value ELSE E[e].bound[s]]]

(* The innermost environment, from e outwards, that binds the name; 0 is   *)
(* the NULL node.                                                          *)
env_find_recurse(E, e, name) ==
    LET find[i \in 0 .. Len(E)] ==
            IF i = 0 THEN 0
            ELSE IF name \in DOMAIN E[i].bound THEN i ELSE find[E[i].last]
    IN  find[e]

env_set_recurse(E, e, name, value) ==
    LET found == env_find_recurse(E, e, name)
    IN  env_set(E, IF found = 0 THEN e ELSE found, name, value)

-----------------------------------------------------------------------------
(* The machine's primitive moves (vm_ops.h, vm_error).                     *)

(* An access outside an array or through a pointer that is none: undefined *)
(* behaviour, at which the model stops.                                    *)
wild(m) == [m EXCEPT !.fault = TRUE, !.running = FALSE]

vm_error(m, msg) == [m EXCEPT !.running = FALSE, !.errormsg = msg]

(* What is in a slot; the value of a slot that does not exist is not used. *)
stack_at(m, i) == IF i \in DOMAIN m.stack THEN m.stack[i] ELSE SCM_TYPE_NULL

(* vm->stack[i] = value                                                    *)
store(m, i, value) ==
    IF i \in DOMAIN m.stack THEN [m EXCEPT !.stack[i] = value] ELSE wild(m)

(* Mutant: the operand is not counted.                                     *)
vm_stack_push_uncounted(m, value) == [store(m, m.sp, value) EXCEPT !.sp = @ + 1]

vm_stack_push(m, value) ==
    [store(m, m.sp, value) EXCEPT !.sp = @ + 1, !.argnum = @ + 1]

(* Mutant: the operands stay counted.                                      *)
pop_uncounted(m, n) == [IF n > m.sp THEN wild(m) ELSE m EXCEPT !.sp = @ - n]

(* n calls of vm_stack_pop; the popped values stay above the new sp.       *)
pop(m, n) == [IF n > m.sp THEN wild(m) ELSE m EXCEPT !.sp = @ - n, !.argnum = @ - n]

top(m) == stack_at(m, m.sp - 1)

(* The first slot of the current frame, and its i-th operand.              *)
base(m)  == m.sp - m.argnum
slot(m, i) == stack_at(m, base(m) + i)

vm_call_eval(m, ptr) ==
    IF m.callp \notin DOMAIN m.calls THEN wild(m)
    ELSE [m EXCEPT
            !.calls[m.callp] = [closure |-> m.closure, sp |-> m.sp,
                                argnum |-> m.argnum, runmode |-> "interp",
                                ip |-> 0, ptr |-> m.ptr, env |-> m.env],
            !.callp = @ + 1,
            !.argnum = 0,
            !.ptr = ptr]

(* Mutant: the value stays on the stack.                                   *)
halt_full(m) == [m EXCEPT !.running = FALSE]

(* The evaluation is over; its value is in the first slot.                 *)
halt(m) == [m EXCEPT !.running = FALSE, !.sp = 0]

vm_call_return(m) ==
    IF m.callp = 0 THEN halt(m)
    ELSE LET frame == m.calls[m.callp - 1]
             back  == [m EXCEPT !.callp = @ - 1,
                                !.sp = frame.sp + 1,
                                !.argnum = frame.argnum + 1,
                                !.closure = frame.closure,
                                !.runmode = frame.runmode]
         IN  IF frame.runmode = "compiled"
               THEN [back EXCEPT !.ip = frame.ip]
               ELSE [back EXCEPT !.ptr = frame.ptr, !.env = frame.env]

-----------------------------------------------------------------------------
(* The tree-walking interpreter (vm.c).                                    *)

vm_make_closure(params, body, env) ==
    [definition |-> body, args |-> params, env |-> env, compiled |-> FALSE,
     num_calls |-> 0, code |-> <<>>, closed |-> <<>>]

New == Len(closures) + 1     \* where the next closure will be
root_closure == tag_closure(0)

Interpreting == phase = "run" /\ vm.running /\ vm.runmode = "interp"

(* One element of the list being evaluated: vm->ptr moves on before the    *)
(* element is looked at.                                                   *)
operand  == scm_car(vm.ptr)
rest     == scm_cdr(vm.ptr)
advanced == [vm EXCEPT !.ptr = rest]

Operand  == Interpreting /\ is_pair(vm.ptr)
Symbol   == Operand /\ is_symbol(operand)

node(sym)  == env_find_recurse(envs, vm.env, sym.sym)
Bound(sym) == node(sym) # 0
value(sym) == envs[node(sym)].bound[sym.sym]

InterpEvalOperand ==
    /\ Operand
    /\ is_pair(operand)
    /\ vm' = vm_call_eval(advanced, operand)
    /\ UNCHANGED <<envs, closures, driver>>

InterpPushConstant ==
    /\ Operand
    /\ ~ is_pair(operand) /\ ~ is_symbol(operand)
    /\ vm' = vm_stack_push(advanced, operand)
    /\ UNCHANGED <<envs, closures, driver>>

(* Special forms and macros are only expanded at the head of a list.       *)
InterpPushVariable ==
    /\ Symbol
    /\ Bound(operand)
    /\ vm.argnum = 0 => /\ ~ is_special_form(value(operand))
                       /\ ~ is_syntax_rules(value(operand))
    /\ vm' = vm_stack_push(advanced, value(operand))
    /\ UNCHANGED <<envs, closures, driver>>

InterpUndefined ==
    /\ Symbol
    /\ ~ Bound(operand)
    /\ vm' = vm_error(advanced, "undefined symbol")
    /\ UNCHANGED <<envs, closures, driver>>

(* The operand is a head symbol bound to one of the given special forms.   *)
SpecialForm(forms) ==
    /\ Symbol
    /\ Bound(operand)
    /\ vm.argnum = 0
    /\ value(operand) \in {tag_run_type(f) : f \in forms}

is_valid_lambda(expr) ==
    /\ is_pair(scm_car(expr)) \/ is_null(scm_car(expr))
    /\ is_pair(scm_cdr(expr))

(* An invalid lambda is reported, and its operands are evaluated in turn.  *)
HandleLambda ==
    /\ SpecialForm({"lambda"})
    /\ IF is_pair(rest) /\ is_valid_lambda(rest)
         THEN /\ closures' = Append(closures,
                    vm_make_closure(scm_car(rest), scm_cdr(rest), vm.env))
              /\ vm' = vm_call_return(vm_stack_push(advanced, tag_closure(New)))
         ELSE /\ vm' = IF is_pair(rest) THEN advanced ELSE wild(advanced)
              /\ UNCHANGED closures
    /\ UNCHANGED <<envs, driver>>

HandleDefine ==
    LET intern == tag_primitive(IF value(operand) = tag_run_type("set!")
                                  THEN "intern_set" ELSE "intern_define")
        pushed == vm_stack_push(advanced, intern)
        target == scm_car(rest)
        named  == vm_stack_push(pushed, scm_car(target))
    IN  /\ SpecialForm({"define", "set!", "define-syntax"})
        /\ IF is_pair(target)
             THEN /\ closures' = Append(closures,
                        vm_make_closure(scm_cdr(target), scm_cdr(rest), vm.env))
                  /\ vm' = [vm_stack_push(named, tag_closure(New))
                              EXCEPT !.ptr = SCM_TYPE_NULL]
             ELSE /\ vm' = IF ~ is_pair(rest) THEN wild(pushed)
                           ELSE IF is_symbol(target)
                             THEN [vm_stack_push(pushed, target)
                                    EXCEPT !.ptr = scm_cdr(rest)]
                             ELSE pushed
                  /\ UNCHANGED closures
        /\ UNCHANGED <<envs, driver>>

(* (if test a b) leaves two frames behind: the outer one will make a or b  *)
(* the expression of the current frame, the inner one picks it once the    *)
(* test, which is evaluated next, has returned.                            *)
HandleIf ==
    LET outer == [vm_stack_push(advanced, SET_PTR) EXCEPT !.ptr = SCM_TYPE_NULL]
        inner == vm_stack_push(vm_call_eval(outer, SCM_TYPE_NULL),
                               tag_primitive("intern_if"))
        paths == scm_cdr(rest)
        yes   == vm_stack_push(inner, scm_car(paths))
        no    == vm_stack_push(yes, scm_car(scm_cdr(paths)))
    IN  /\ SpecialForm({"if"})
        /\ vm' = IF ~ is_pair(rest) THEN wild(inner)
                 ELSE IF ~ is_pair(paths)
                   THEN vm_error(inner, "Expected pair (first path)")
                 ELSE IF ~ is_pair(scm_cdr(paths))
                   THEN vm_error(yes, "Expected pair (second path)")
                 ELSE vm_call_eval(no, scm_car(rest))
        /\ UNCHANGED <<envs, closures, driver>>

HandleBegin ==
    /\ SpecialForm({"begin"})
    /\ vm' = vm_stack_push(advanced, tag_primitive("return_last"))
    /\ UNCHANGED <<envs, closures, driver>>

(* Pushes return_last and the datum, and leaves nothing to evaluate.       *)
ReturnDatum(m, datum) ==
    [vm_stack_push(vm_stack_push(m, tag_primitive("return_last")), datum)
        EXCEPT !.ptr = SCM_TYPE_NULL]

HandleQuote ==
    /\ SpecialForm({"quote"})
    /\ vm' = ReturnDatum(advanced, scm_car(rest))
    /\ UNCHANGED <<envs, closures, driver>>

HandleSyntaxRules ==
    /\ SpecialForm({"syntax-rules"})
    /\ vm' = IF is_pair(rest)
               THEN ReturnDatum(advanced,
                        tag_syntax_rules(scm_car(rest), scm_cdr(rest)))
               ELSE wild(advanced)
    /\ UNCHANGED <<envs, closures, driver>>

(* A macro use is replaced by its expansion, a list of expressions that is *)
(* evaluated as the operands of return_last in a frame of its own.         *)
ExpandMacro ==
    LET expansion == Expand(value(operand), vm.ptr)
        started   == ReturnDatum(advanced, SCM_TYPE_NULL)
        matched   == IF expansion.status = "no match"
                       THEN vm_error(started, "no matching syntax definition")
                       ELSE started
        expanded  == ReturnDatum(matched, SCM_TYPE_NULL)
    IN  /\ Symbol
        /\ Bound(operand)
        /\ vm.argnum = 0
        /\ is_syntax_rules(value(operand))
        /\ vm' = IF expansion.status = "crash" THEN wild(started)
                 ELSE vm_stack_push(vm_call_eval(expanded, expansion.value),
                                    tag_primitive("return_last"))
        /\ UNCHANGED <<envs, closures, driver>>

(* An expression that is no list is its own value, or its variable's; it   *)
(* becomes the result of the frame, also when the variable is undefined.   *)
InterpAtom ==
    LET undefined == is_symbol(vm.ptr) /\ ~ Bound(vm.ptr)
        datum     == IF is_symbol(vm.ptr) /\ ~ undefined
                       THEN value(vm.ptr) ELSE vm.ptr
        looked    == IF undefined THEN vm_error(vm, "undefined symbol") ELSE vm
    IN  /\ Interpreting
        /\ ~ is_pair(vm.ptr) /\ ~ is_null(vm.ptr)
        /\ vm' = vm_call_return(store(looked, vm.sp, datum))
        /\ UNCHANGED <<envs, closures, driver>>

-----------------------------------------------------------------------------
(* Applying the function in the first slot of the frame (vm_ops.c), from   *)
(* the machine m that the caller has prepared.                             *)

(* Mutant: a closure's operands are popped, as when its body is walked.    *)
ApplyCompiled_popped(m) ==
    LET func == slot(m, 0)
        left == IF func.t = "closure" THEN pop(m, m.argnum) ELSE m
    IN  /\ is_closure(func)
        /\ func.t = "closure" => closures[func.id].compiled
        /\ vm' = [left EXCEPT !.closure = func, !.runmode = "compiled", !.ip = 0]
        /\ UNCHANGED <<envs, closures>>

ApplyCompiled(m) ==
    LET func == slot(m, 0)
    IN  /\ is_closure(func)
        /\ func.t = "closure" => closures[func.id].compiled
        /\ vm' = [m EXCEPT !.closure = func, !.runmode = "compiled", !.ip = 0]
        /\ UNCHANGED <<envs, closures>>

(* vm_load_lambda_args: the i-th parameter is bound to the i-th slot,      *)
(* whether or not there are that many arguments; of two parameters with    *)
(* one name the last wins.  Only symbols can be looked up again.           *)
Parameters(clsr) == 
    {Items(clsr.args)[i].sym :
        i \in {j \in DOMAIN Items(clsr.args) : is_symbol(Items(clsr.args)[j])}}

ArgumentOf(m, clsr, name) ==
    LET last == CHOOSE i \in DOMAIN Items(clsr.args) :
                    /\ Items(clsr.args)[i] = tag_symbol(name)
                    /\ \A j \in DOMAIN Items(clsr.args) :
                            Items(clsr.args)[j] = tag_symbol(name) => j <= i
    IN  slot(m, last)

(* Mutant: the number of arguments is not checked.                         *)
vm_load_lambda_args_any(m, argnum, clsr) ==
    IF base(m) + Len(Items(clsr.args)) >= StackSize THEN wild(m) ELSE m

vm_load_lambda_args(m, argnum, clsr) ==
    IF base(m) + Len(Items(clsr.args)) >= StackSize THEN wild(m)
    ELSE IF Len(Items(clsr.args)) + 1 # argnum
      THEN vm_error(m, "Invalid number of arguments given to lambda args")
      ELSE m

(* The closure that reaches the threshold is compiled now, but this call   *)
(* still walks its definition.                                             *)
ApplyInterpreted(m) ==
    LET func    == slot(m, 0)
        clsr    == closures[func.id]
        counted == [clsr EXCEPT !.num_calls = @ + 1]
        hot     == counted.num_calls >= JitThreshold
        jit     == Compile(counted, envs)
        scope   == env_create(envs, clsr.env)
        entered == [pop(m, m.argnum) EXCEPT
                        !.closure = func, !.runmode = "interp", !.env = Len(scope),
                        !.ptr = clsr.definition]
        loaded  == vm_load_lambda_args(entered, m.argnum, clsr)
    IN  /\ func.t = "closure" /\ ~ closures[func.id].compiled
        /\ IF hot /\ jit.status # "ok"
             THEN /\ vm' = IF jit.status = "crash" THEN wild(entered)
                           ELSE vm_error(entered, "Couldn't define the top scope!")
                  /\ closures' = [closures EXCEPT ![func.id] = counted]
                  /\ envs' = scope
             ELSE /\ vm' = vm_stack_push(loaded, tag_primitive("return_last"))
                  /\ closures' = [closures EXCEPT ![func.id] =
                        IF ~ hot THEN counted
                        ELSE [counted EXCEPT !.compiled = TRUE, !.code = jit.code,
                                             !.closed = jit.closed]]
                  /\ envs' = [scope EXCEPT ![Len(scope)].bound =
                        [s \in Parameters(clsr) |-> ArgumentOf(entered, clsr, s)]]

ApplySetPtr(m) ==
    /\ slot(m, 0) = SET_PTR
    /\ vm' = IF m.argnum # 2 THEN vm_error(m, "can't eval")
             ELSE [pop(m, 2) EXCEPT !.ptr = top(m)]
    /\ UNCHANGED <<envs, closures>>

ApplyOther(m) ==
    /\ ~ is_closure(slot(m, 0)) /\ slot(m, 0) # SET_PTR
    /\ vm' = IF base(m) \in DOMAIN m.stack
               THEN vm_error(m, "can't apply value which is not a function")
               ELSE wild(m)
    /\ UNCHANGED <<envs, closures>>

vm_call_apply(m) ==
    \/ ApplyCompiled(m)
    \/ ApplyInterpreted(m)
    \/ ApplySetPtr(m)
    \/ ApplyOther(m)

(* The interpreter applies when it has reached the end of the list.        *)
InterpApply ==
    /\ Interpreting
    /\ is_null(vm.ptr)
    /\ vm_call_apply(vm)
    /\ UNCHANGED driver

-----------------------------------------------------------------------------
(* Threaded code (vm_ops.c).  The code of a primitive is its function and  *)
(* a return; return_last returns by itself.                                *)

op(name, arg) == [func |-> name, arg |-> arg]

primitive_code(p) ==
    IF p = "return_last" THEN <<op(p, 0)>> ELSE <<op(p, 0), op("return", 0)>>

code == IF vm.closure.t = "primitive" THEN primitive_code(vm.closure.prim)
        ELSE closures[vm.closure.id].code

arg == code[vm.ip + 1].arg

(* vm_step_compiled: the instruction at ip is this one.                    *)
Executing(func) ==
    /\ phase = "run" /\ vm.running /\ vm.runmode = "compiled"
    /\ vm.ip + 1 \in DOMAIN code
    /\ code[vm.ip + 1].func = func

(* The operation returned true: go on with the next instruction.           *)
next(m) == [m EXCEPT !.ip = @ + 1]

OpReturn ==
    /\ Executing("return")
    /\ vm' = vm_call_return(vm)
    /\ UNCHANGED <<envs, closures, driver>>

(* Mutant: the value goes to the slot below the frame.                     *)
OpReturnLast_low ==
    /\ Executing("return_last")
    /\ vm' = vm_call_return(store(pop(vm, 1), base(vm) - 1, top(vm)))
    /\ UNCHANGED <<envs, closures, driver>>

OpReturnLast ==
    /\ Executing("return_last")
    /\ vm' = vm_call_return(store(pop(vm, 1), base(vm), top(vm)))
    /\ UNCHANGED <<envs, closures, driver>>

OpJump ==
    /\ Executing("jump")
    /\ vm' = [vm EXCEPT !.ip = arg]
    /\ UNCHANGED <<envs, closures, driver>>

OpJumpIfFalse ==
    /\ Executing("jump_if_false")
    /\ vm' = IF top(vm) = tag_boolean(FALSE)
               THEN [pop(vm, 1) EXCEPT !.ip = arg]
               ELSE next(pop(vm, 1))
    /\ UNCHANGED <<envs, closures, driver>>

OpClosureRef ==
    LET var == closures[vm.closure.id].closed[arg + 1]
    IN  /\ Executing("closure_ref")
        /\ vm' = next(vm_stack_push(vm, envs[var.env].bound[var.name]))
        /\ UNCHANGED <<envs, closures, driver>>

OpStackRef ==
    /\ Executing("stack_ref")
    /\ vm' = IF base(vm) + arg \in DOMAIN vm.stack
               THEN next(vm_stack_push(vm, slot(vm, arg))) ELSE wild(vm)
    /\ UNCHANGED <<envs, closures, driver>>

OpPushConst ==
    /\ Executing("push_const")
    /\ vm' = next(vm_stack_push(vm, code[vm.ip + 1].value))
    /\ UNCHANGED <<envs, closures, driver>>

(* The operands from slot arg on become the frame of the callee; the frame *)
(* that is saved is the caller's without them.                             *)
OpDoCall ==
    LET start == base(vm) + arg
        argnum == vm.sp - start
        frame == [closure |-> vm.closure, sp |-> start,
                  argnum |-> vm.argnum - argnum, runmode |-> vm.runmode,
                  ip |-> vm.ip + 1, ptr |-> SCM_TYPE_NULL, env |-> 0]
    IN  /\ Executing("do_call")
        /\ arg \in Nat
        /\ IF vm.callp \in DOMAIN vm.calls
             THEN vm_call_apply([vm EXCEPT !.calls[vm.callp] = frame,
                                           !.callp = @ + 1, !.argnum = argnum])
             ELSE vm' = wild(vm) /\ UNCHANGED <<envs, closures>>
        /\ UNCHANGED driver

(* The operands from slot arg on move down to the base of this frame,      *)
(* which becomes the frame of the callee.                                  *)
OpDoTailcall ==
    LET start == base(vm)
        argnum == vm.argnum - arg
    IN  /\ Executing("do_tailcall")
        /\ arg \in Nat
        /\ IF argnum >= 0 /\ start >= 0 /\ vm.sp <= StackSize
             THEN vm_call_apply([vm EXCEPT
                    !.stack = [i \in DOMAIN vm.stack |->
                        IF i \in start .. start + argnum - 1
                          THEN vm.stack[i + arg] ELSE vm.stack[i]],
                    !.sp = start + argnum, !.argnum = argnum, !.ip = 0])
             ELSE vm' = wild(vm) /\ UNCHANGED <<envs, closures>>
        /\ UNCHANGED driver

-----------------------------------------------------------------------------
(* Primitives.  All of them return true, also when they raise an error.    *)

(* Pop n values and push the result.                                       *)
result(m, n, v) == vm_stack_push(pop(m, n), v)

all_fixnums(m) == \A i \in 1 .. m.argnum - 1 : is_integer(slot(m, i))

(* Counting the operands down from argnum - 1 (or - 2) as an unsigned      *)
(* number runs off the stack when there are too few.  Arithmetic on words  *)
(* that are not fixnums makes a word with any tag, and the code goes on to *)
(* follow it as a pointer: the model stops there too.                      *)
vm_op_add(m) ==
    LET sum[i \in Nat] == IF i = 0 THEN 0 ELSE sum[i - 1] + slot(m, i).int
    IN  IF m.argnum < 1 \/ ~ all_fixnums(m) THEN wild(m)
        ELSE result(m, m.argnum, tag_integer(sum[m.argnum - 1]))

(* Mutant: the last operand is left out.                                   *)
vm_op_sub_short(m) ==
    LET diff[i \in Nat \ {0}] ==
            IF i = 1 THEN slot(m, 1).int ELSE diff[i - 1] - slot(m, i).int
    IN  IF m.argnum < 3 \/ ~ all_fixnums(m) THEN wild(m)
        ELSE result(m, m.argnum, tag_integer(diff[m.argnum - 2]))

vm_op_sub(m) ==
    LET diff[i \in Nat \ {0}] ==
            IF i = 1 THEN slot(m, 1).int ELSE diff[i - 1] - slot(m, i).int
    IN  IF m.argnum < 2 \/ ~ all_fixnums(m) THEN wild(m)
        ELSE result(m, m.argnum, tag_integer(diff[m.argnum - 1]))

vm_op_mul(m) ==
    LET prod[i \in Nat] ==
            IF i = 0 THEN 1 ELSE (prod[i - 1] * slot(m, i).int) % IntMod
    IN  IF m.argnum < 1 \/ ~ all_fixnums(m) THEN wild(m)
        ELSE result(m, m.argnum, tag_integer(prod[m.argnum - 1]))

(* The tagged words are divided, the last operand first, and the quotient  *)
(* is tagged again.  At a zero the operands down to it have been popped.   *)
vm_op_div(m) ==
    LET quot[i \in Nat] == IF i >= m.argnum THEN word(slot(m, 1))
                           ELSE quot[i + 1] \div word(slot(m, i))
        zero(i) == slot(m, i) = tag_integer(0)
        seen == {i \in 2 .. m.argnum - 1 :
                    \A j \in i + 1 .. m.argnum - 1 : ~ zero(j)}
    IN  IF m.argnum < 2 \/ ~ all_fixnums(m) THEN wild(m)
        ELSE IF \E i \in seen : zero(i)
          THEN vm_error(pop(m, Cardinality(seen)), "divide by zero!")
        ELSE result(m, m.argnum, tag_integer(quot[2]))

vm_op_cons(m) ==
    IF m.argnum # 3 THEN vm_error(m, "cons: not enough args")
    ELSE result(m, 3, construct_pair(slot(m, 1), slot(m, 2)))

(* car and cdr have popped everything when they find that it is no pair.   *)
vm_op_car(m) ==
    IF m.argnum # 2 THEN vm_error(m, "Invalid number of arguments for car")
    ELSE IF ~ is_pair(top(m))
      THEN vm_error(pop(m, 2), "Value given to car is not a pair")
      ELSE result(m, 2, scm_car(top(m)))

vm_op_cdr(m) ==
    IF m.argnum # 2 THEN vm_error(m, "Invalid number of arguments for cdr")
    ELSE IF ~ is_pair(top(m))
      THEN vm_error(pop(m, 2), "Value given to cdr is not a pair")
      ELSE result(m, 2, scm_cdr(top(m)))

(* <, > and eq? with the outcome of the comparison given.                  *)
compare(m, outcome) ==
    IF m.argnum # 3 THEN vm_error(m, "Invalid number of arguments")
    ELSE result(m, 3, tag_boolean(outcome))

vm_op_is_null(m) ==
    IF m.argnum # 2 THEN m ELSE result(m, 2, tag_boolean(is_null(top(m))))

vm_op_is_pair(m) ==
    IF m.argnum # 2 THEN m ELSE result(m, 2, tag_boolean(is_pair(top(m))))

(* The slots above the function hold the branches, then the test's value.  *)
vm_op_intern_if(m) ==
    IF m.argnum # 4 THEN m
    ELSE result(m, 4, IF slot(m, 3) = tag_boolean(FALSE)
                        THEN slot(m, 2) ELSE slot(m, 1))

Primitive(func, after) ==
    /\ Executing(func)
    /\ vm' = next(after)
    /\ UNCHANGED <<envs, closures, driver>>

OpAdd     == Primitive("+", vm_op_add(vm))
OpSub     == Primitive("-", vm_op_sub(vm))
OpMul     == Primitive("*", vm_op_mul(vm))
OpDiv     == Primitive("/", vm_op_div(vm))
OpCons    == Primitive("cons", vm_op_cons(vm))
OpCar     == Primitive("car", vm_op_car(vm))
OpCdr     == Primitive("cdr", vm_op_cdr(vm))
OpIsNull  == Primitive("null?", vm_op_is_null(vm))
OpIsPair  == Primitive("pair?", vm_op_is_pair(vm))
OpIf      == Primitive("intern_if", vm_op_intern_if(vm))

OpLessThan ==
    \E b \in WordLess(slot(vm, 1), slot(vm, 2)) : Primitive("<", compare(vm, b))

OpGreaterThan ==
    \E b \in WordLess(slot(vm, 2), slot(vm, 1)) : Primitive(">", compare(vm, b))

OpEqual ==
    \E b \in WordEqual(slot(vm, 1), slot(vm, 2)) : Primitive("eq?", compare(vm, b))

(* define binds in the current environment, set! where the name is bound.  *)
(* Both leave themselves as the value of the form.                         *)
InternBinding(func, bind(_, _, _, _)) ==
    LET sym    == slot(vm, 1)
        popped == pop(vm, 2)
    IN  /\ Executing(func)
        /\ IF vm.argnum = 3 /\ is_symbol(sym)
             THEN /\ vm' = next(popped)
                  /\ envs' = bind(envs, vm.env, sym.sym, top(vm))
             ELSE /\ vm' = next(IF vm.argnum # 3
                        THEN vm_error(vm, "Invalid number of arguments for define")
                        ELSE vm_error(popped, "Invalid value type given to define"))
                  /\ UNCHANGED envs
        /\ UNCHANGED <<closures, driver>>

(* Mutant: set! always binds in the current environment.                   *)
OpInternSet_local == InternBinding("intern_set", env_set)

OpInternDefine == InternBinding("intern_define", env_set)
OpInternSet    == InternBinding("intern_set", env_set_recurse)

(* What out records: the value and, for an answer of main, the error.      *)
event(kind, datum) == [event |-> kind, value |-> datum, error |-> "none"]

Show(e) == /\ out' = Append(out, e)
           /\ UNCHANGED <<phase, files, evals>>

(* display writes the value it pops and leaves itself as the result.       *)
OpDisplay ==
    /\ Executing("display")
    /\ IF vm.argnum # 2
         THEN vm' = next(vm) /\ UNCHANGED driver
         ELSE vm' = next(pop(vm, 1)) /\ Show(event("display", top(vm)))
    /\ UNCHANGED <<envs, closures>>

OpNewline ==
    /\ Executing("newline")
    /\ vm' = next(vm)
    /\ Show(event("newline", SCM_TYPE_NULL))
    /\ UNCHANGED <<envs, closures>>

(* read takes whatever expression standard input holds next.  It pops one  *)
(* slot whatever it was given: without operands, the function itself.      *)
OpRead ==
    /\ Executing("read")
    /\ \E datum \in Exprs \cup {EOF_VAL} :
            /\ vm' = next(result(vm, 1, datum))
            /\ Show(event("input", datum))
    /\ UNCHANGED <<envs, closures>>

-----------------------------------------------------------------------------
(* The loops of main.c: repl reads and evaluates until the end of input    *)
(* and goes on after an error; evaluate_file gives the file up, and main   *)
(* goes on with the next one.                                              *)

(* vm_evaluate_expr.                                                       *)
evaluate(m, expr) ==
    [m EXCEPT !.ptr = expr, !.running = TRUE, !.closure = root_closure,
              !.argnum = 0, !.env = 1, !.runmode = "interp"]

ReadExpression ==
    /\ phase = "prompt"
    /\ \E expr \in IF evals < Len(Preamble) THEN {Preamble[evals + 1]}
                   ELSE Exprs \cup {EOF_VAL} :
            /\ evals < MaxEvals \/ expr = EOF_VAL
            /\ vm' = evaluate(vm, expr)
            /\ out' = Append(out, event("read", expr))
            /\ evals' = IF expr = EOF_VAL THEN evals ELSE evals + 1
    /\ phase' = "run"
    /\ UNCHANGED <<envs, closures, files>>

(* vm_run has returned; the value of the expression is in the first slot.  *)
Returned(mode) == /\ phase = "run" /\ ~ vm.running /\ ~ vm.fault
                  /\ Mode = mode
                  /\ UNCHANGED <<envs, closures, evals>>

ReplReply ==
    LET temp == vm.stack[0]
    IN  /\ Returned("repl")
        /\ out' = Append(out, [event("reply", temp) EXCEPT !.error = vm.errormsg])
        /\ vm' = IF vm.errormsg = "none" THEN vm
                 ELSE [vm EXCEPT !.running = TRUE, !.errormsg = "none"]
        /\ phase' = IF is_eof(temp) THEN "exit" ELSE "prompt"
        /\ UNCHANGED files

(* Mutant: the loop over the files goes round once more.                   *)
FileNext_again ==
    LET done == vm.errormsg # "none" \/ is_eof(vm.stack[0])
    IN  /\ Returned("file")
        /\ UNCHANGED <<vm, out>>
        /\ files' = IF done THEN files - 1 ELSE files
        /\ phase' = IF done /\ files = 0 THEN "exit" ELSE "prompt"

FileNext ==
    LET done == vm.errormsg # "none" \/ is_eof(vm.stack[0])
    IN  /\ Returned("file")
        /\ out' = IF vm.errormsg = "none" THEN out
                  ELSE Append(out, [event("error", SCM_TYPE_NULL)
                                        EXCEPT !.error = vm.errormsg])
        /\ files' = IF done THEN files - 1 ELSE files
        /\ phase' = IF done /\ files = 1 THEN "exit" ELSE "prompt"
        /\ UNCHANGED vm

Terminated == (phase = "exit" \/ vm.fault) /\ UNCHANGED vars

-----------------------------------------------------------------------------
(* vm_init, and main before its loop.                                      *)

Primitives == {"+", "-", "*", "/", "eq?", "<", ">", "null?", "pair?", "display",
               "newline", "read", "cons", "car", "cdr"}

vm_r7rs_environment ==
    [bound |-> [s \in Primitives \cup SpecialForms |->
                    IF s \in Primitives THEN tag_primitive(s) ELSE tag_run_type(s)],
     last  |-> 0]

vm_init ==
    [ip |-> 0, sp |-> 0, callp |-> 0, running |-> FALSE, closure |-> root_closure,
     stack |-> [i \in 0 .. StackSize - 1 |-> tag_integer(0)],
     calls |-> [i \in 0 .. CallsSize - 1 |->
                  [closure |-> root_closure, sp |-> 0, argnum |-> 0,
                   runmode |-> "interp", ip |-> 0, ptr |-> tag_integer(0), env |-> 0]],
     env |-> 1, ptr |-> tag_integer(0), argnum |-> 0, runmode |-> "interp",
     errormsg |-> "none", fault |-> FALSE]

Init ==
    /\ vm = vm_init
    /\ envs = <<vm_r7rs_environment>>
    /\ closures = <<>>
    /\ phase = "prompt"
    /\ files = Files
    /\ evals = 0
    /\ out = <<>>

Interpret ==
    \/ InterpEvalOperand \/ InterpPushConstant \/ InterpPushVariable
    \/ InterpUndefined \/ InterpAtom \/ InterpApply
    \/ HandleLambda \/ HandleDefine \/ HandleIf \/ HandleBegin
    \/ HandleQuote \/ HandleSyntaxRules \/ ExpandMacro

Execute ==
    \/ OpReturn \/ OpReturnLast \/ OpJump \/ OpJumpIfFalse \/ OpClosureRef
    \/ OpStackRef \/ OpPushConst \/ OpDoCall \/ OpDoTailcall
    \/ OpAdd \/ OpSub \/ OpMul \/ OpDiv \/ OpCons \/ OpCar \/ OpCdr
    \/ OpIsNull \/ OpIsPair \/ OpIf \/ OpLessThan \/ OpGreaterThan \/ OpEqual
    \/ OpInternDefine \/ OpInternSet \/ OpDisplay \/ OpNewline \/ OpRead

Answer == ReplReply \/ FileNext

Next == ReadExpression \/ Interpret \/ Execute \/ Answer \/ Terminated

(* The program is one thread that only waits for its input: while vm_run   *)
(* has an expression to evaluate, the next turn is always taken, and once  *)
(* it has returned main goes on.  This is weak fairness of that step, with *)
(* the condition under which it is enabled written out.                    *)
Due == phase = "run" /\ ~ vm.fault

Fairness == []<>(~ Due) \/ []<><<Interpret \/ Execute \/ Answer>>_vars

Spec == Init /\ [][Next]_vars /\ Fairness

-----------------------------------------------------------------------------
(* Properties.                                                             *)

VmFields == {"ip", "sp", "callp", "running", "closure", "stack", "calls", "env",
             "ptr", "argnum", "runmode", "errormsg", "fault"}

(* The registers and the two arrays keep their types and callp stays       *)
(* within vm->calls (vm.h:116-145).                                        *)
Machine(m) ==
    /\ DOMAIN m = VmFields
    /\ m.sp \in Int /\ m.argnum \in Int
    /\ m.callp \in 0 .. CallsSize
    /\ m.running \in BOOLEAN /\ m.fault \in BOOLEAN
    /\ DOMAIN m.stack = 0 .. StackSize - 1
    /\ DOMAIN m.calls = 0 .. CallsSize - 1
    /\ \A k \in 0 .. m.callp - 1 :
            m.calls[k].sp \in Int /\ m.calls[k].argnum \in Int

(* The machine and its driver keep their types: no evaluation runs callp   *)
(* out of vm->calls, however frames are pushed and popped.                 *)
TypeOK ==
    /\ Machine(vm)
    /\ phase \in {"prompt", "run", "exit"}
    /\ files \in 0 .. Files
    /\ evals \in 0 .. MaxEvals
    /\ out \in Seq({out[i] : i \in DOMAIN out})

(* No evaluation has ended with an error.                                  *)
NoErrorReported == \A i \in DOMAIN out : out[i].error = "none"

(* The first slot of the k-th frame: the slot its caller left for the      *)
(* result, or the bottom of the stack.                                     *)
frame_base(m, k) == IF k = 0 THEN 0 ELSE m.calls[k - 1].sp

Chained(m) ==
    /\ base(m) = frame_base(m, m.callp)
    /\ \A k \in 0 .. m.callp - 1 :
            m.calls[k].sp - m.calls[k].argnum = frame_base(m, k)

Evaluating == phase = "run" /\ vm.running /\ NoErrorReported

(* While an expression is evaluated, every frame starts exactly where its  *)
(* caller stopped: sp - argnum is the slot saved in the innermost call     *)
(* frame, and likewise down to slot 0.  Interpreter, threaded code, tail   *)
(* calls and primitives all find and return values by that equation and    *)
(* keep it separately (vm_ops.h:26-61, vm_ops.c:87-234).                   *)
FrameDiscipline == Evaluating => Chained(vm)

(* As long as nothing failed, an evaluation ends with both stacks empty:   *)
(* the assumption vm_evaluate_expr is documented with (vm.c:329-331).      *)
CleanPrompt ==
    (phase # "run" \/ ~ vm.running) /\ NoErrorReported
    /\ vm.errormsg = "none" /\ ~ vm.fault
        => vm.sp = 0 /\ vm.callp = 0

(* No instruction takes more operands than its frame has: threaded code    *)
(* relies on the compiler's count of the stack, and a primitive on having  *)
(* been applied as the first operand (vm_ops.c:163-172, 199-216, 524-534). *)
Supplied ==
    Evaluating =>
        /\ Executing("jump_if_false") \/ Executing("read") => vm.argnum >= 1
        /\ Executing("do_call") => arg <= vm.argnum

(* What an instruction relies on in its frame: the operands it pops, those *)
(* it leaves below the ones it takes, the slot it reads.                   *)
needs(instruction) ==
    CASE instruction.func \in {"jump_if_false", "read"}       -> 1
      [] instruction.func \in {"do_call", "do_tailcall"}      -> instruction.arg
      [] instruction.func = "stack_ref"                       -> instruction.arg + 1
      [] OTHER                                                -> 0

(* Threaded code stays within itself: while it runs there is an            *)
(* instruction at ip, its operands are in the frame, and the node it       *)
(* refers to is in the closure's array.  Jumps, calls and returns, in both *)
(* modes and through closures that are compiled meanwhile, have to bring   *)
(* ip and sp back together for that (vm_ops.c:87-216, compiler.c:183-237). *)
InCode ==
    Evaluating /\ vm.runmode = "compiled" =>
        /\ vm.ip + 1 \in DOMAIN code
        /\ needs(code[vm.ip + 1]) <= vm.argnum
        /\ Executing("closure_ref") => arg + 1 \in DOMAIN closures[vm.closure.id].closed

(* Where the i-th instruction may lead, from a frame of n operands.        *)
flows(instrs, i, n) ==
    LET func   == instrs[i].func
        target == instrs[i].arg + 1
    IN  CASE func \in {"push_const", "stack_ref", "closure_ref"} -> {<<i + 1, n + 1>>}
          [] func = "jump"                -> {<<target, n>>}
          [] func = "jump_if_false"       -> {<<i + 1, n - 1>>, <<target, n - 1>>}
          [] func = "do_call"             -> {<<i + 1, target>>}
          [] OTHER                        -> {}

(* The operands the frame has at each instruction, at the least, when it   *)
(* starts with the function and its arguments: what leads there from       *)
(* before, or -1 where nothing does.                                       *)
Heights(clsr) ==
    LET instrs == clsr.code
        steps(h) == UNION {flows(instrs, j, h[j]) : j \in {k \in DOMAIN h : h[k] >= 0}}
        reaching(h, i) == {step[2] : step \in {f \in steps(h) : f[1] = i}}
        least(S) == IF S = {} THEN -1 ELSE CHOOSE n \in S : \A k \in S : n <= k
        scan[i \in 0 .. Len(instrs)] ==
            IF i = 0 THEN <<>>
            ELSE LET h == scan[i - 1]
                 IN  Append(h, IF i = 1 THEN Len(Items(clsr.args)) + 1
                               ELSE least(reaching(h, i)))
    IN  scan[Len(instrs)]

Instructions == {"push_const", "stack_ref", "closure_ref", "jump", "jump_if_false",
                 "do_call", "do_tailcall", "return_last"}

(* The code fits one height at each instruction: what the instruction      *)
(* needs is there, and it leads to instructions that expect no more.       *)
Fits(clsr) ==
    LET instrs == clsr.code
        height == Heights(clsr)
    IN  /\ 1 \in DOMAIN instrs
        /\ height[1] = Len(Items(clsr.args)) + 1 /\ height[1] \in Nat
        /\ \A i \in DOMAIN instrs : height[i] >= 0 =>
                /\ instrs[i].func \in Instructions
                /\ instrs[i].func # "push_const" => instrs[i].arg \in Nat
                /\ instrs[i].func = "closure_ref" => instrs[i].arg + 1 \in DOMAIN clsr.closed
                /\ needs(instrs[i]) <= height[i]
                /\ \A flow \in flows(instrs, i, height[i]) :
                        flow[1] \in DOMAIN instrs /\ height[flow[1]] \in 0 .. flow[2]

(* What the compiler emits can be given heights: its count of the stack,   *)
(* the distances of its jumps and the slots and nodes it names agree on    *)
(* every path (compiler.c:144-322, scope.c).                               *)
CodeFits == \A id \in DOMAIN closures : closures[id].compiled => Fits(closures[id])

Builtins == Primitives \cup {"intern_define", "intern_set", "intern_if", "return_last"}

(* Threaded code is entered with what its first instruction counts on: a   *)
(* closure with its arguments, which nothing checks once it is compiled,   *)
(* and read with itself; what compiled code calls is never set-ptr         *)
(* (vm_ops.c:87-143).                                                      *)
Entered ==
    Evaluating /\ vm.runmode = "compiled" =>
        /\ vm.ip = 0 =>
              \/ /\ vm.closure \in {tag_primitive(p) : p \in Builtins}
                 /\ vm.closure = tag_primitive("read") => vm.argnum >= 1
              \/ /\ vm.closure.t = "closure" /\ vm.closure.id \in DOMAIN closures
                 /\ closures[vm.closure.id].compiled
                 /\ vm.argnum >= Len(Items(closures[vm.closure.id].args)) + 1
        /\ Executing("do_call") => slot(vm, arg) # SET_PTR

(* A step leaves what the suspended callers have saved as it is: the call  *)
(* frames that stay on vm->calls and the operands below the current frame  *)
(* (vm_ops.h:26-61; tail calls move operands down over the frame's own).   *)
(* It does as long as instructions are Supplied.                           *)
SuspendedUntouched ==
    [][Evaluating /\ ~ vm'.fault =>
        /\ \A k \in 0 .. vm.callp - 1 : vm'.calls[k] = vm.calls[k]
        /\ \A i \in 0 .. frame_base(vm, vm.callp) - 1 : vm'.stack[i] = vm.stack[i]]_vars

(* Every expression that is read is answered in the end: vm_run does not   *)
(* get stuck in or go round its frames, jumps and calls (vm.c:278-293).    *)
Answered == (phase = "run") ~> (phase # "run")
=============================================================================
