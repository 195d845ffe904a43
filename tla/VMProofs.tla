------------------------------ MODULE VMProofs ------------------------------
(***************************************************************************)
(* Proofs about the virtual machine (module VM).                           *)
(*                                                                         *)
(* The argument: every operator of VM takes a machine whose frames are     *)
(* chained to one whose frames are chained (Sound), except that            *)
(* vm_call_return may also stop it with both stacks empty (Settled).  One  *)
(* lemma says so for each operator, one for each of the two kinds of turn, *)
(* and the loops of main keep the rest of the invariant IInv.              *)
(*                                                                         *)
(* An error leaves frames behind, so the chain is only claimed until the   *)
(* first error has been reported; the types hold in any case.  The lemmas  *)
(* carry the set of reported errors, e, to state both at once.             *)
(***************************************************************************)
EXTENDS VM, FiniteSetTheorems, SequenceTheorems, TLAPS

(* The machine in the middle of a turn, after the errors e have been       *)
(* reported: its types hold and, if there were none, its frames are        *)
(* chained and it has not stopped except by a fault or an error.           *)
Sound(e, m) ==
    /\ Machine(m)
    /\ e = {} => Chained(m) /\ (m.running \/ m.fault \/ m.errormsg # "none")

(* The machine between two turns: chained while it runs, both stacks empty *)
(* once it has stopped normally.                                           *)
Settled(e, m) ==
    /\ Machine(m)
    /\ e = {} /\ m.running => Chained(m)
    /\ e = {} /\ ~ m.running /\ ~ m.fault /\ m.errormsg = "none"
            => m.sp = 0 /\ m.callp = 0

(* A machine that is sound in the middle of a turn may end the turn.       *)
LEMMA SoundSettled == ASSUME NEW e, NEW m, Sound(e, m) PROVE Settled(e, m)
BY DEF Sound, Settled

(* Moving sp and argnum by the same amount keeps the base of the frame,    *)
(* and with it the chain; the registers that no invariant reads may        *)
(* change.                                                                 *)
LEMMA Moved ==
    ASSUME NEW e, NEW m, Sound(e, m), NEW k \in Int, NEW r,
           DOMAIN r = VmFields, r.sp = m.sp + k, r.argnum = m.argnum + k,
           r.callp = m.callp, r.calls = m.calls, DOMAIN r.stack = DOMAIN m.stack,
           r.running = m.running, r.fault = m.fault, r.errormsg = m.errormsg
    PROVE  Sound(e, r)
BY DEF Sound, Machine, Chained, base, frame_base

(* An access outside the arrays stops the machine with a fault, which      *)
(* leaves the stacks as they are.                                          *)
LEMMA WildSound == ASSUME NEW e, NEW m, Sound(e, m) PROVE Sound(e, wild(m))
BY DEF Sound, Machine, Chained, base, frame_base, wild, VmFields

(* vm_error stops the machine with a message and leaves the stacks as they *)
(* are (vm.c:295-305).                                                     *)
LEMMA ErrorSound ==
    ASSUME NEW e, NEW m, Sound(e, m), NEW msg, msg # "none" PROVE Sound(e, vm_error(m, msg))
BY DEF Sound, Machine, Chained, base, frame_base, vm_error, VmFields

(* Writing a slot of the stack moves nothing.                              *)
LEMMA StoreSound ==
    ASSUME NEW e, NEW m, Sound(e, m), NEW i, NEW v PROVE Sound(e, store(m, i, v))
<1>1. CASE i \in DOMAIN m.stack
  <2> DEFINE r == [m EXCEPT !.stack[i] = v]
  <2>1. /\ DOMAIN r = VmFields /\ r.sp = m.sp + 0 /\ r.argnum = m.argnum + 0
        /\ r.callp = m.callp /\ r.calls = m.calls /\ DOMAIN r.stack = DOMAIN m.stack
        /\ r.running = m.running /\ r.fault = m.fault /\ r.errormsg = m.errormsg
    BY DEF Sound, Machine, VmFields
  <2> HIDE DEF r
  <2>2. Sound(e, r)
    BY <2>1, Moved, 0 \in Int
  <2> QED BY <1>1, <2>2 DEF store, r
<1>2. CASE i \notin DOMAIN m.stack
  BY <1>2, WildSound DEF store
<1> QED BY <1>1, <1>2

(* vm_stack_push keeps the chain: it adds one to sp and argnum             *)
(* (vm_ops.h:8-11).                                                        *)
LEMMA PushSound ==
    ASSUME NEW e, NEW m, Sound(e, m), NEW v PROVE Sound(e, vm_stack_push(m, v))
<1> DEFINE n == store(m, m.sp, v)
<1>1. Sound(e, n)
  BY StoreSound
<1>2. DOMAIN n = VmFields /\ n.sp \in Int /\ n.argnum \in Int
  BY <1>1 DEF Sound, Machine
<1> HIDE DEF n
<1> DEFINE r == [n EXCEPT !.sp = @ + 1, !.argnum = @ + 1]
<1>3. /\ DOMAIN r = VmFields /\ r.sp = n.sp + 1 /\ r.argnum = n.argnum + 1
      /\ r.callp = n.callp /\ r.calls = n.calls /\ DOMAIN r.stack = DOMAIN n.stack
      /\ r.running = n.running /\ r.fault = n.fault /\ r.errormsg = n.errormsg
  BY <1>2 DEF VmFields
<1> HIDE DEF r
<1>4. Sound(e, r)
  BY <1>1, <1>3, Moved, 1 \in Int
<1> QED BY <1>4 DEF vm_stack_push, n, r

(* So do any number of vm_stack_pop, which take it away (vm_ops.h:13-16).  *)
LEMMA PopSound ==
    ASSUME NEW e, NEW m, Sound(e, m), NEW k \in Int PROVE Sound(e, pop(m, k))
<1> DEFINE n == IF k > m.sp THEN wild(m) ELSE m
<1>1. Sound(e, n)
  BY WildSound
<1>2. DOMAIN n = VmFields /\ n.sp \in Int /\ n.argnum \in Int
  BY <1>1 DEF Sound, Machine
<1> HIDE DEF n
<1> DEFINE r == [n EXCEPT !.sp = @ - k, !.argnum = @ - k]
<1>3. /\ DOMAIN r = VmFields /\ r.sp = n.sp + (-k) /\ r.argnum = n.argnum + (-k)
      /\ r.callp = n.callp /\ r.calls = n.calls /\ DOMAIN r.stack = DOMAIN n.stack
      /\ r.running = n.running /\ r.fault = n.fault /\ r.errormsg = n.errormsg
  BY <1>2 DEF VmFields
<1> HIDE DEF r
<1>4. Sound(e, r)
  BY <1>1, <1>3, Moved, -k \in Int
<1> QED BY <1>4 DEF pop, n, r

(* vm_call_eval saves sp and argnum and starts the new frame at sp: the    *)
(* chain grows by one link (vm_ops.h:26-38).                               *)
LEMMA CallEvalSound ==
    ASSUME NEW e, NEW m, Sound(e, m), NEW ptr PROVE Sound(e, vm_call_eval(m, ptr))
<1> DEFINE r == vm_call_eval(m, ptr)
<1>1. CASE m.callp \notin DOMAIN m.calls
  BY <1>1, WildSound DEF vm_call_eval
<1>2. CASE m.callp \in DOMAIN m.calls
  <2>1. /\ DOMAIN r = VmFields /\ DOMAIN r.stack = DOMAIN m.stack
        /\ r.sp = m.sp /\ r.argnum = 0 /\ r.callp = m.callp + 1
        /\ r.running = m.running /\ r.fault = m.fault /\ r.errormsg = m.errormsg
    BY <1>2 DEF Sound, Machine, vm_call_eval, VmFields
  <2> DEFINE saved == [closure |-> m.closure, sp |-> m.sp, argnum |-> m.argnum,
                       runmode |-> "interp", ip |-> 0, ptr |-> m.ptr, env |-> m.env]
  <2>2. r.calls = [m.calls EXCEPT ![m.callp] = saved]
    BY <1>2 DEF Sound, Machine, vm_call_eval, VmFields
  <2>3. saved.sp = m.sp /\ saved.argnum = m.argnum
    OBVIOUS
  <2> HIDE DEF r, saved
  <2>4. m.callp \in Nat /\ m.sp \in Int /\ m.argnum \in Int
        /\ m.callp + 1 \in 0 .. CallsSize
    BY <1>2, VMAssumption DEF Sound, Machine
  <2>5. /\ DOMAIN r.calls = DOMAIN m.calls
        /\ r.calls[m.callp] = saved
        /\ \A k \in 0 .. m.callp - 1 : r.calls[k] = m.calls[k]
    BY <1>2, <2>2, <2>4
  <2>6. ASSUME NEW k \in 0 .. r.callp - 1
        PROVE  /\ r.calls[k].sp \in Int /\ r.calls[k].argnum \in Int
               /\ Chained(m) => r.calls[k].sp - r.calls[k].argnum = frame_base(r, k)
    <3>1. CASE k = m.callp
      BY <3>1, <2>1, <2>3, <2>4, <2>5 DEF Chained, base, frame_base
    <3>2. CASE k \in 0 .. m.callp - 1
      <4>1. k - 1 \in 0 .. m.callp - 1 \/ k = 0
        BY <3>2, <2>4
      <4> QED BY <3>2, <4>1, <2>5 DEF Sound, Machine, Chained, frame_base
    <3> QED BY <3>1, <3>2, <2>1, <2>4
  <2>7. base(r) = frame_base(r, r.callp)
    BY <2>1, <2>3, <2>4, <2>5 DEF base, frame_base
  <2>8. Machine(r)
    BY <2>1, <2>4, <2>5, <2>6 DEF Sound, Machine
  <2>9. Chained(m) => Chained(r)
    BY <2>6, <2>7 DEF Chained
  <2> QED BY <2>1, <2>8, <2>9 DEF Sound, r
<1> QED BY <1>1, <1>2

(* vm_call_return takes the innermost link away and counts the result as   *)
(* one more operand of the caller; without a frame it empties the stack    *)
(* and stops (vm_ops.h:40-61).                                             *)
LEMMA ReturnSettled ==
    ASSUME NEW e, NEW m, Sound(e, m) PROVE Settled(e, vm_call_return(m))
<1> DEFINE r == vm_call_return(m)
<1>1. CASE m.callp = 0
  <2>1. r = [m EXCEPT !.running = FALSE, !.sp = 0]
    BY <1>1 DEF vm_call_return, halt
  <2> QED BY <1>1, <2>1 DEF Sound, Settled, Machine, VmFields
<1>2. CASE m.callp # 0
  <2> DEFINE frame == m.calls[m.callp - 1]
             back  == [m EXCEPT !.callp = @ - 1,
                                !.sp = frame.sp + 1,
                                !.argnum = frame.argnum + 1,
                                !.closure = frame.closure,
                                !.runmode = frame.runmode]
  <2>1. /\ DOMAIN back = VmFields /\ back.stack = m.stack /\ back.calls = m.calls
        /\ back.sp = frame.sp + 1 /\ back.argnum = frame.argnum + 1
        /\ back.callp = m.callp - 1
        /\ back.running = m.running /\ back.fault = m.fault
        /\ back.errormsg = m.errormsg
    BY DEF Sound, Machine, VmFields
  <2>2. r = IF frame.runmode = "compiled" THEN [back EXCEPT !.ip = frame.ip]
            ELSE [back EXCEPT !.ptr = frame.ptr, !.env = frame.env]
    BY <1>2 DEF vm_call_return
  <2> HIDE DEF back
  <2>3. /\ DOMAIN r = VmFields /\ r.stack = m.stack /\ r.calls = m.calls
        /\ r.sp = frame.sp + 1 /\ r.argnum = frame.argnum + 1
        /\ r.callp = m.callp - 1
        /\ r.running = m.running /\ r.fault = m.fault /\ r.errormsg = m.errormsg
    BY <2>1, <2>2 DEF VmFields
  <2> HIDE DEF r
  <2>4. /\ m.callp - 1 \in 0 .. m.callp - 1 /\ m.callp \in Nat
        /\ m.callp - 1 \in 0 .. CallsSize
        /\ frame.sp \in Int /\ frame.argnum \in Int
        /\ Chained(m) => frame.sp - frame.argnum = frame_base(m, m.callp - 1)
    <3>1. /\ m.callp - 1 \in 0 .. m.callp - 1 /\ m.callp \in Nat
          /\ m.callp - 1 \in 0 .. CallsSize
      BY <1>2, VMAssumption DEF Sound, Machine
    <3>2. frame.sp \in Int /\ frame.argnum \in Int
      BY <3>1 DEF Sound, Machine
    <3>3. Chained(m) => frame.sp - frame.argnum = frame_base(m, m.callp - 1)
      BY <3>1 DEF Chained
    <3> QED BY <3>1, <3>2, <3>3
  <2> HIDE DEF frame
  <2>5. \A k \in 0 .. r.callp - 1 : k \in 0 .. m.callp - 1
    BY <2>3, <2>4
  <2>6. Machine(r) /\ (Chained(m) => Chained(r))
    <3>1. \A k : frame_base(r, k) = frame_base(m, k)
      BY <2>3 DEF frame_base
    <3>2. Machine(r)
      BY <2>3, <2>4, <2>5 DEF Sound, Machine
    <3> QED BY <2>3, <2>4, <2>5, <3>1, <3>2 DEF Sound, Chained, base
  <2>7. Sound(e, r)
    BY <2>3, <2>6 DEF Sound
  <2> QED BY <2>7, SoundSettled DEF r
<1> QED BY <1>1, <1>2

-----------------------------------------------------------------------------
(* Nothing but sp, argnum, callp, the arrays and the flags matters.        *)
LEMMA RegistersSound ==
    ASSUME NEW e, NEW m, Sound(e, m), NEW r,
           DOMAIN r = VmFields, r.sp = m.sp, r.argnum = m.argnum,
           r.callp = m.callp, r.calls = m.calls, DOMAIN r.stack = DOMAIN m.stack,
           r.running = m.running, r.fault = m.fault, r.errormsg = m.errormsg
    PROVE  Sound(e, r)
<1>1. m.sp = m.sp + 0 /\ m.argnum = m.argnum + 0
  BY DEF Sound, Machine
<1> QED BY <1>1, Moved, 0 \in Int

(* Setting vm->ptr keeps the machine sound.                                *)
LEMMA PtrSound ==
    ASSUME NEW e, NEW m, Sound(e, m), NEW p PROVE Sound(e, [m EXCEPT !.ptr = p])
<1> DEFINE r == [m EXCEPT !.ptr = p]
<1>1. /\ DOMAIN r = VmFields /\ r.sp = m.sp /\ r.argnum = m.argnum
      /\ r.callp = m.callp /\ r.calls = m.calls /\ r.stack = m.stack
      /\ r.running = m.running /\ r.fault = m.fault /\ r.errormsg = m.errormsg
  BY DEF Sound, Machine, VmFields
<1> HIDE DEF r
<1>2. Sound(e, r)
  BY <1>1, RegistersSound
<1> QED BY <1>2 DEF r

(* Setting vm->ip keeps the machine sound.                                 *)
LEMMA IpSound ==
    ASSUME NEW e, NEW m, Sound(e, m), NEW i PROVE Sound(e, [m EXCEPT !.ip = i])
<1> DEFINE r == [m EXCEPT !.ip = i]
<1>1. /\ DOMAIN r = VmFields /\ r.sp = m.sp /\ r.argnum = m.argnum
      /\ r.callp = m.callp /\ r.calls = m.calls /\ r.stack = m.stack
      /\ r.running = m.running /\ r.fault = m.fault /\ r.errormsg = m.errormsg
  BY DEF Sound, Machine, VmFields
<1> HIDE DEF r
<1>2. Sound(e, r)
  BY <1>1, RegistersSound
<1> QED BY <1>2 DEF r

(* Going on with the next instruction keeps the machine sound.             *)
LEMMA NextSound == ASSUME NEW e, NEW m, Sound(e, m) PROVE Sound(e, next(m))
BY IpSound DEF next

(* Popping operands and pushing a result keeps the machine sound.          *)
LEMMA ResultSound ==
    ASSUME NEW e, NEW m, Sound(e, m), NEW k \in Int, NEW v
    PROVE  Sound(e, result(m, k, v))
BY PopSound, PushSound DEF result

(* quote and syntax-rules push return_last and their datum.                *)
LEMMA ReturnDatumSound ==
    ASSUME NEW e, NEW m, Sound(e, m), NEW v PROVE Sound(e, ReturnDatum(m, v))
<1> DEFINE n == vm_stack_push(vm_stack_push(m, tag_primitive("return_last")), v)
<1>1. Sound(e, n)
  BY PushSound
<1> HIDE DEF n
<1> QED BY <1>1, PtrSound DEF ReturnDatum, n

(* The arithmetic primitives keep the machine sound, also when there are   *)
(* too few operands or a divisor is zero (vm_ops.c:236-302).               *)
LEMMA ArithmeticSound ==
    ASSUME NEW e, NEW m, Sound(e, m)
    PROVE  /\ Sound(e, vm_op_add(m)) /\ Sound(e, vm_op_sub(m))
           /\ Sound(e, vm_op_mul(m)) /\ Sound(e, vm_op_div(m))
<1>1. m.argnum \in Int
  BY DEF Sound, Machine
<1>2. Sound(e, vm_op_add(m))
  BY <1>1, WildSound, ResultSound DEF vm_op_add
<1>3. Sound(e, vm_op_sub(m))
  BY <1>1, WildSound, ResultSound DEF vm_op_sub
<1>4. Sound(e, vm_op_mul(m))
  BY <1>1, WildSound, ResultSound DEF vm_op_mul
<1>5. Sound(e, vm_op_div(m))
  <2> DEFINE seen == {i \in 2 .. m.argnum - 1 :
                        \A j \in i + 1 .. m.argnum - 1 :
                            ~ (slot(m, j) = tag_integer(0))}
  <2>1. Cardinality(seen) \in Int
    <3>1. IsFiniteSet(2 .. m.argnum - 1)
      BY <1>1, FS_Interval, 2 \in Int, m.argnum - 1 \in Int
    <3>2. IsFiniteSet(seen)
      BY <3>1, FS_Subset
    <3> QED BY <3>2, FS_CardinalityType
  <2>2. Sound(e, vm_error(pop(m, Cardinality(seen)), "divide by zero!"))
    BY <2>1, PopSound, ErrorSound
  <2> QED BY <1>1, <2>2, WildSound, ResultSound DEF vm_op_div
<1> QED BY <1>2, <1>3, <1>4, <1>5

(* The other primitives that work on the operands alone do too.            *)
LEMMA ListOperationsSound ==
    ASSUME NEW e, NEW m, Sound(e, m)
    PROVE  /\ Sound(e, vm_op_cons(m)) /\ Sound(e, vm_op_car(m))
           /\ Sound(e, vm_op_cdr(m)) /\ Sound(e, vm_op_is_null(m))
           /\ Sound(e, vm_op_is_pair(m)) /\ Sound(e, vm_op_intern_if(m))
           /\ \A b : Sound(e, compare(m, b))
<1> USE PopSound, ErrorSound, ResultSound
<1>1. Sound(e, vm_op_cons(m))
  <2>1. Sound(e, vm_error(m, "cons: not enough args"))
    OBVIOUS
  <2>2. Sound(e, result(m, 3, construct_pair(slot(m, 1), slot(m, 2))))
    OBVIOUS
  <2> QED BY <2>1, <2>2 DEF vm_op_cons
<1>2. Sound(e, vm_op_car(m))
  <2>1. Sound(e, vm_error(m, "Invalid number of arguments for car"))
    OBVIOUS
  <2>2. Sound(e, vm_error(pop(m, 2), "Value given to car is not a pair"))
    <3>1. Sound(e, pop(m, 2))
      OBVIOUS
    <3> QED BY <3>1
  <2>3. Sound(e, result(m, 2, scm_car(top(m))))
    OBVIOUS
  <2> QED BY <2>1, <2>2, <2>3 DEF vm_op_car
<1>3. Sound(e, vm_op_cdr(m))
  <2>1. Sound(e, vm_error(m, "Invalid number of arguments for cdr"))
    OBVIOUS
  <2>2. Sound(e, vm_error(pop(m, 2), "Value given to cdr is not a pair"))
    <3>1. Sound(e, pop(m, 2))
      OBVIOUS
    <3> QED BY <3>1
  <2>3. Sound(e, result(m, 2, scm_cdr(top(m))))
    OBVIOUS
  <2> QED BY <2>1, <2>2, <2>3 DEF vm_op_cdr
<1>4. Sound(e, vm_op_is_null(m))
  BY DEF vm_op_is_null
<1>5. Sound(e, vm_op_is_pair(m))
  BY DEF vm_op_is_pair
<1>6. Sound(e, vm_op_intern_if(m))
  <2>1. \A v : Sound(e, result(m, 4, v))
    OBVIOUS
  <2> QED BY <2>1 DEF vm_op_intern_if
<1>7. ASSUME NEW b PROVE Sound(e, compare(m, b))
  <2>1. Sound(e, vm_error(m, "Invalid number of arguments"))
    OBVIOUS
  <2>2. Sound(e, result(m, 3, tag_boolean(b)))
    OBVIOUS
  <2> QED BY <2>1, <2>2 DEF compare
<1> QED BY <1>1, <1>2, <1>3, <1>4, <1>5, <1>6, <1>7

-----------------------------------------------------------------------------
(* Applying the first slot of the frame keeps the machine sound, whatever  *)
(* that slot holds (vm_ops.c:87-197).                                      *)
LEMMA ApplySound ==
    ASSUME NEW e, NEW m, Sound(e, m), vm_call_apply(m) PROVE Sound(e, vm')
<1>0. m.argnum \in Int
  BY DEF Sound, Machine
<1>1. CASE ApplyCompiled(m)
  <2> DEFINE r == [m EXCEPT !.closure = slot(m, 0), !.runmode = "compiled", !.ip = 0]
  <2>1. /\ DOMAIN r = VmFields /\ r.sp = m.sp /\ r.argnum = m.argnum
        /\ r.callp = m.callp /\ r.calls = m.calls /\ r.stack = m.stack
        /\ r.running = m.running /\ r.fault = m.fault /\ r.errormsg = m.errormsg
    BY DEF Sound, Machine, VmFields
  <2>2. vm' = r
    BY <1>1 DEF ApplyCompiled
  <2> HIDE DEF r
  <2> QED BY <2>1, <2>2, RegistersSound
<1>2. CASE ApplyInterpreted(m)
  <2> DEFINE func == slot(m, 0)
             clsr == closures[func.id]
             scope == env_create(envs, clsr.env)
             emptied == pop(m, m.argnum)
             entered == [emptied EXCEPT
                            !.closure = func, !.runmode = "interp",
                            !.env = Len(scope), !.ptr = clsr.definition]
             loaded == vm_load_lambda_args(entered, m.argnum, clsr)
  <2>1. Sound(e, emptied)
    BY <1>0, PopSound
  <2> HIDE DEF func, clsr, scope, emptied
  <2>2. /\ DOMAIN entered = VmFields /\ entered.sp = emptied.sp
        /\ entered.argnum = emptied.argnum /\ entered.callp = emptied.callp
        /\ entered.calls = emptied.calls /\ entered.stack = emptied.stack
        /\ entered.running = emptied.running /\ entered.fault = emptied.fault
        /\ entered.errormsg = emptied.errormsg
    BY <2>1 DEF Sound, Machine, VmFields
  <2> HIDE DEF entered
  <2>3. Sound(e, entered)
    BY <2>1, <2>2, RegistersSound
  <2>4. Sound(e, wild(entered))
    BY <2>3, WildSound
  <2>5. Sound(e, vm_error(entered, "Couldn't define the top scope!"))
    BY <2>3, ErrorSound
  <2>6. Sound(e, vm_stack_push(loaded, tag_primitive("return_last")))
    <3>1. Sound(e, vm_error(entered, "Invalid number of arguments given to lambda args"))
      BY <2>3, ErrorSound
    <3>2. Sound(e, loaded)
      BY <2>3, <2>4, <3>1 DEF vm_load_lambda_args
    <3> QED BY <3>2, PushSound
  <2> HIDE DEF loaded
  <2>7. \/ vm' = wild(entered)
        \/ vm' = vm_error(entered, "Couldn't define the top scope!")
        \/ vm' = vm_stack_push(loaded, tag_primitive("return_last"))
    BY <1>2 DEF ApplyInterpreted, func, clsr, scope, emptied, entered, loaded
  <2> QED BY <2>4, <2>5, <2>6, <2>7
<1>3. CASE ApplySetPtr(m)
  <2>1. Sound(e, vm_error(m, "can't eval"))
    BY ErrorSound
  <2>2. Sound(e, [pop(m, 2) EXCEPT !.ptr = top(m)])
    <3> DEFINE n == pop(m, 2)
    <3>1. Sound(e, n)
      BY PopSound, 2 \in Int
    <3> HIDE DEF n
    <3>2. Sound(e, [n EXCEPT !.ptr = top(m)])
      BY <3>1, PtrSound
    <3> QED BY <3>2 DEF n
  <2> QED BY <1>3, <2>1, <2>2 DEF ApplySetPtr
<1>4. CASE ApplyOther(m)
  <2>1. Sound(e, vm_error(m, "can't apply value which is not a function"))
    BY ErrorSound
  <2>2. Sound(e, wild(m))
    BY WildSound
  <2> QED BY <1>4, <2>1, <2>2 DEF ApplyOther
<1> QED BY <1>1, <1>2, <1>3, <1>4 DEF vm_call_apply

(* A turn of the interpreter: every case either keeps the machine sound or *)
(* returns from its frame (vm.c:33-293).                                   *)
LEMMA InterpretSettled ==
    ASSUME NEW e, Sound(e, vm), Interpret PROVE Settled(e, vm')
<1>1. Sound(e, advanced)
  BY PtrSound DEF advanced
<1>2. CASE InterpEvalOperand
  BY <1>1, <1>2, CallEvalSound, SoundSettled DEF InterpEvalOperand
<1>3. CASE InterpPushConstant
  BY <1>1, <1>3, PushSound, SoundSettled DEF InterpPushConstant
<1>4. CASE InterpPushVariable
  BY <1>1, <1>4, PushSound, SoundSettled DEF InterpPushVariable
<1>5. CASE InterpUndefined
  <2>1. Sound(e, vm_error(advanced, "undefined symbol"))
    BY <1>1, ErrorSound
  <2> QED BY <1>5, <2>1, SoundSettled DEF InterpUndefined
<1>6. CASE InterpAtom
  <2>1. PICK looked, datum :
            /\ looked = vm \/ looked = vm_error(vm, "undefined symbol")
            /\ vm' = vm_call_return(store(looked, vm.sp, datum))
    BY <1>6 DEF InterpAtom
  <2>2. Sound(e, vm_error(vm, "undefined symbol"))
    BY ErrorSound
  <2>3. Sound(e, store(looked, vm.sp, datum))
    BY <2>1, <2>2, StoreSound
  <2> QED BY <2>1, <2>3, ReturnSettled
<1>7. CASE InterpApply
  BY <1>7, ApplySound, SoundSettled DEF InterpApply
<1>8. CASE HandleLambda
  <2>1. Sound(e, wild(advanced))
    BY <1>1, WildSound
  <2>2. Settled(e, vm_call_return(vm_stack_push(advanced, tag_closure(New))))
    BY <1>1, PushSound, ReturnSettled
  <2>3. \/ vm' = wild(advanced) \/ vm' = advanced
        \/ vm' = vm_call_return(vm_stack_push(advanced, tag_closure(New)))
    BY <1>8 DEF HandleLambda
  <2> QED BY <1>1, <2>1, <2>2, <2>3, SoundSettled
<1>9. CASE HandleDefine
  <2>1. PICK pushed, v, w, p :
            /\ \E i : pushed = vm_stack_push(advanced, i)
            /\ \/ vm' = [vm_stack_push(vm_stack_push(pushed, v), w) EXCEPT !.ptr = p]
               \/ vm' = [vm_stack_push(pushed, v) EXCEPT !.ptr = p]
               \/ vm' = wild(pushed)
               \/ vm' = pushed
    BY <1>9 DEF HandleDefine
  <2>2. Sound(e, pushed)
    BY <1>1, <2>1, PushSound
  <2> DEFINE one == vm_stack_push(pushed, v)
             two == vm_stack_push(one, w)
  <2>3. Sound(e, one) /\ Sound(e, two)
    BY <2>2, PushSound
  <2> HIDE DEF one, two
  <2>4. Sound(e, [one EXCEPT !.ptr = p]) /\ Sound(e, [two EXCEPT !.ptr = p])
    BY <2>3, PtrSound
  <2> QED BY <2>1, <2>2, <2>4, WildSound, SoundSettled DEF one, two
<1>10. CASE HandleIf
  <2> DEFINE pushed == vm_stack_push(advanced, SET_PTR)
             outer == [pushed EXCEPT !.ptr = SCM_TYPE_NULL]
             inner == vm_stack_push(vm_call_eval(outer, SCM_TYPE_NULL),
                                    tag_primitive("intern_if"))
             paths == scm_cdr(rest)
             yes   == vm_stack_push(inner, scm_car(paths))
             no    == vm_stack_push(yes, scm_car(scm_cdr(paths)))
  <2>1. Sound(e, pushed)
    BY <1>1, PushSound
  <2>2. Sound(e, outer)
    <3> HIDE DEF pushed
    <3> QED BY <2>1, PtrSound
  <2> HIDE DEF outer
  <2>3. Sound(e, inner)
    BY <2>2, CallEvalSound, PushSound
  <2> HIDE DEF inner
  <2>4. Sound(e, yes) /\ Sound(e, no)
    BY <2>3, PushSound
  <2> HIDE DEF yes, no
  <2>5. /\ Sound(e, wild(inner))
        /\ Sound(e, vm_error(inner, "Expected pair (first path)"))
        /\ Sound(e, vm_error(yes, "Expected pair (second path)"))
        /\ Sound(e, vm_call_eval(no, scm_car(rest)))
    <3>1. Sound(e, vm_error(inner, "Expected pair (first path)"))
      BY <2>3, ErrorSound
    <3>2. Sound(e, vm_error(yes, "Expected pair (second path)"))
      BY <2>4, ErrorSound
    <3> QED BY <2>3, <2>4, <3>1, <3>2, WildSound, CallEvalSound
  <2>6. \/ vm' = wild(inner)
        \/ vm' = vm_error(inner, "Expected pair (first path)")
        \/ vm' = vm_error(yes, "Expected pair (second path)")
        \/ vm' = vm_call_eval(no, scm_car(rest))
    BY <1>10 DEF HandleIf, outer, inner, yes, no
  <2> QED BY <2>5, <2>6, SoundSettled
<1>11. CASE HandleBegin
  BY <1>1, <1>11, PushSound, SoundSettled DEF HandleBegin
<1>12. CASE HandleQuote
  BY <1>1, <1>12, ReturnDatumSound, SoundSettled DEF HandleQuote
<1>13. CASE HandleSyntaxRules
  <2>1. Sound(e, wild(advanced))
    BY <1>1, WildSound
  <2>2. \A v : Sound(e, ReturnDatum(advanced, v))
    BY <1>1, ReturnDatumSound
  <2>3. vm' = wild(advanced) \/ \E v : vm' = ReturnDatum(advanced, v)
    BY <1>13 DEF HandleSyntaxRules
  <2> QED BY <2>1, <2>2, <2>3, SoundSettled
<1>14. CASE ExpandMacro
  <2> DEFINE started == ReturnDatum(advanced, SCM_TYPE_NULL)
             failed  == vm_error(started, "no matching syntax definition")
  <2>1. PICK matched, v :
            /\ matched = started \/ matched = failed
            /\ \/ vm' = wild(started)
               \/ vm' = vm_stack_push(
                            vm_call_eval(ReturnDatum(matched, SCM_TYPE_NULL), v),
                            tag_primitive("return_last"))
    BY <1>14 DEF ExpandMacro
  <2>2. Sound(e, started)
    BY <1>1, ReturnDatumSound
  <2> HIDE DEF started
  <2>3. Sound(e, failed)
    BY <2>2, ErrorSound
  <2> HIDE DEF failed
  <2>4. Sound(e, ReturnDatum(matched, SCM_TYPE_NULL))
    BY <2>1, <2>2, <2>3, ReturnDatumSound
  <2> QED BY <2>1, <2>2, <2>4, WildSound, CallEvalSound, PushSound, SoundSettled
<1> QED BY <1>2, <1>3, <1>4, <1>5, <1>6, <1>7, <1>8, <1>9, <1>10, <1>11, <1>12,
           <1>13, <1>14 DEF Interpret

(* The machine in which do_call applies: the operands from slot arg on     *)
(* start the callee's frame at the sp it saves for the caller              *)
(* (vm_ops.c:199-215).                                                     *)
CallerFrame ==
    [closure |-> vm.closure, sp |-> base(vm) + arg,
     argnum |-> vm.argnum - (vm.sp - (base(vm) + arg)), runmode |-> vm.runmode,
     ip |-> vm.ip + 1, ptr |-> SCM_TYPE_NULL, env |-> 0]

Callee == [vm EXCEPT !.calls[vm.callp] = CallerFrame, !.callp = @ + 1,
                     !.argnum = vm.sp - (base(vm) + arg)]

(* The split keeps the machine sound.                                      *)
LEMMA CalleeSound ==
    ASSUME NEW e, Sound(e, vm), arg \in Nat, vm.callp \in DOMAIN vm.calls
    PROVE  Sound(e, Callee)
<1> DEFINE start == base(vm) + arg
           argnum == vm.sp - start
           frame == CallerFrame
           r == Callee
<1>1. /\ vm.sp \in Int /\ vm.argnum \in Int /\ arg \in Int
      /\ vm.callp \in 0 .. CallsSize
  BY DEF Sound, Machine
<1>2. /\ base(vm) = vm.sp - vm.argnum /\ start \in Int /\ argnum \in Int
      /\ frame.sp = start /\ frame.argnum \in Int
      /\ frame.sp - frame.argnum = base(vm) /\ vm.sp - argnum = start
  BY <1>1 DEF base, CallerFrame
<1>4. /\ DOMAIN r = VmFields /\ r.stack = vm.stack
      /\ r.sp = vm.sp /\ r.argnum = argnum /\ r.callp = vm.callp + 1
      /\ r.calls = [vm.calls EXCEPT ![vm.callp] = frame]
      /\ r.running = vm.running /\ r.fault = vm.fault /\ r.errormsg = vm.errormsg
  BY DEF Sound, Machine, VmFields, Callee
<1> HIDE DEF r, frame, argnum, start
<1>5. /\ DOMAIN r.calls = DOMAIN vm.calls
      /\ r.calls[vm.callp] = frame
      /\ vm.callp + 1 \in 0 .. CallsSize
      /\ \A k \in 0 .. vm.callp - 1 : r.calls[k] = vm.calls[k]
  BY <1>1, <1>4, VMAssumption DEF Sound, Machine
<1>6. ASSUME NEW k \in 0 .. r.callp - 1
      PROVE  /\ r.calls[k].sp \in Int /\ r.calls[k].argnum \in Int
             /\ Chained(vm) => r.calls[k].sp - r.calls[k].argnum = frame_base(r, k)
  <2>1. CASE k = vm.callp
    BY <2>1, <1>1, <1>2, <1>5 DEF Chained, frame_base
  <2>2. CASE k \in 0 .. vm.callp - 1
    <3>1. k - 1 \in 0 .. vm.callp - 1 \/ k = 0
      BY <2>2, <1>1
    <3> QED BY <2>2, <3>1, <1>5 DEF Sound, Machine, Chained, frame_base
  <2> QED BY <2>1, <2>2, <1>1, <1>4
<1>7. base(r) = frame_base(r, r.callp)
  BY <1>1, <1>2, <1>4, <1>5 DEF base, frame_base
<1>8. Machine(r)
  BY <1>1, <1>2, <1>4, <1>5, <1>6 DEF Sound, Machine
<1>9. Chained(vm) => Chained(r)
  BY <1>6, <1>7 DEF Chained
<1>10. Sound(e, r)
  BY <1>4, <1>8, <1>9 DEF Sound
<1> QED BY <1>10 DEF r

(* So do_call leaves the machine settled.                                  *)
LEMMA DoCallSettled ==
    ASSUME NEW e, Sound(e, vm), OpDoCall PROVE Settled(e, vm')
<1>1. \/ arg \in Nat /\ vm.callp \in DOMAIN vm.calls /\ vm_call_apply(Callee)
      \/ vm' = wild(vm)
  BY DEF OpDoCall, Callee, CallerFrame
<1> QED BY <1>1, CalleeSound, ApplySound, WildSound, SoundSettled

(* The machine in which do_tailcall applies: the operands have moved down  *)
(* to the base of the frame, which stays where it is (vm_ops.c:217-234).   *)
MovedStack ==
    [i \in DOMAIN vm.stack |->
        IF i \in base(vm) .. base(vm) + (vm.argnum - arg) - 1
          THEN vm.stack[i + arg] ELSE vm.stack[i]]

MovedDown == [vm EXCEPT !.stack = MovedStack, !.sp = base(vm) + (vm.argnum - arg),
                        !.argnum = vm.argnum - arg, !.ip = 0]

(* The move keeps the machine sound.                                       *)
LEMMA MovedDownSound ==
    ASSUME NEW e, Sound(e, vm), arg \in Nat PROVE Sound(e, MovedDown)
<1> DEFINE start == base(vm)
           argnum == vm.argnum - arg
           stack == MovedStack
           r == MovedDown
<1>1. vm.sp \in Int /\ vm.argnum \in Int /\ arg \in Int
  BY DEF Sound, Machine
<1>2. argnum = vm.argnum + (- arg) /\ start + argnum = vm.sp + (- arg)
  BY <1>1 DEF base
<1>3. r = [vm EXCEPT !.stack = stack, !.sp = start + argnum,
                     !.argnum = argnum, !.ip = 0]
  BY DEF MovedDown
<1>4. DOMAIN stack = DOMAIN vm.stack
  BY DEF MovedStack
<1> HIDE DEF stack, argnum, start, r
<1>5. /\ DOMAIN r = VmFields /\ r.sp = vm.sp + (- arg)
      /\ r.argnum = vm.argnum + (- arg)
      /\ r.callp = vm.callp /\ r.calls = vm.calls /\ DOMAIN r.stack = DOMAIN vm.stack
      /\ r.running = vm.running /\ r.fault = vm.fault /\ r.errormsg = vm.errormsg
  BY <1>2, <1>3, <1>4 DEF Sound, Machine, VmFields
<1>6. Sound(e, r)
  BY <1>1, <1>5, Moved, - arg \in Int
<1> QED BY <1>6 DEF r

(* So do_tailcall leaves the machine settled.                              *)
LEMMA DoTailcallSettled ==
    ASSUME NEW e, Sound(e, vm), OpDoTailcall PROVE Settled(e, vm')
<1>1. arg \in Nat /\ (vm_call_apply(MovedDown) \/ vm' = wild(vm))
  BY DEF OpDoTailcall, MovedDown, MovedStack
<1> QED BY <1>1, MovedDownSound, ApplySound, WildSound, SoundSettled

(* A turn of threaded code: every instruction keeps the machine sound or   *)
(* returns from its frame, whatever code the compiler has generated.       *)
LEMMA ExecuteSettled ==
    ASSUME NEW e, Sound(e, vm), Execute PROVE Settled(e, vm')
<1> USE SoundSettled
<1>1. CASE OpReturn
  BY <1>1, ReturnSettled DEF OpReturn
<1>2. CASE OpReturnLast
  <2>1. Sound(e, store(pop(vm, 1), base(vm), top(vm)))
    BY PopSound, StoreSound
  <2> QED BY <1>2, <2>1, ReturnSettled DEF OpReturnLast
<1>3. CASE OpJump
  BY <1>3, IpSound DEF OpJump
<1>4. CASE OpJumpIfFalse
  <2> DEFINE popped == pop(vm, 1)
  <2>1. Sound(e, popped)
    BY PopSound
  <2> HIDE DEF popped
  <2>2. Sound(e, [popped EXCEPT !.ip = arg]) /\ Sound(e, next(popped))
    BY <2>1, IpSound, NextSound
  <2>3. vm' = [popped EXCEPT !.ip = arg] \/ vm' = next(popped)
    BY <1>4 DEF OpJumpIfFalse, popped
  <2> QED BY <2>2, <2>3
<1>5. CASE OpClosureRef
  BY <1>5, PushSound, NextSound DEF OpClosureRef
<1>6. CASE OpStackRef
  BY <1>6, PushSound, NextSound, WildSound DEF OpStackRef
<1>7. CASE OpPushConst
  BY <1>7, PushSound, NextSound DEF OpPushConst
<1>8. CASE OpDoCall
  BY <1>8, DoCallSettled
<1>9. CASE OpDoTailcall
  BY <1>9, DoTailcallSettled
<1>10. CASE OpAdd \/ OpSub \/ OpMul \/ OpDiv
  BY <1>10, ArithmeticSound, NextSound DEF OpAdd, OpSub, OpMul, OpDiv, Primitive
<1>11. CASE OpCons \/ OpCar \/ OpCdr \/ OpIsNull \/ OpIsPair \/ OpIf
  BY <1>11, ListOperationsSound, NextSound
  DEF OpCons, OpCar, OpCdr, OpIsNull, OpIsPair, OpIf, Primitive
<1>12. CASE OpLessThan \/ OpGreaterThan \/ OpEqual
  <2>1. \E b : vm' = next(compare(vm, b))
    BY <1>12 DEF OpLessThan, OpGreaterThan, OpEqual, Primitive
  <2> QED BY <2>1, ListOperationsSound, NextSound
<1>13. CASE OpInternDefine \/ OpInternSet
  <2> DEFINE popped == pop(vm, 2)
             few    == vm_error(vm, "Invalid number of arguments for define")
             wrong  == vm_error(popped, "Invalid value type given to define")
  <2>1. Sound(e, popped)
    BY PopSound
  <2> HIDE DEF popped
  <2>2. Sound(e, few) /\ Sound(e, wrong)
    BY <2>1, ErrorSound
  <2>3. vm' = next(popped) \/ vm' = next(few) \/ vm' = next(wrong)
    BY <1>13 DEF OpInternDefine, OpInternSet, InternBinding, popped
  <2> QED BY <2>1, <2>2, <2>3, NextSound
<1>14. CASE OpDisplay \/ OpNewline
  BY <1>14, PopSound, NextSound DEF OpDisplay, OpNewline
<1>15. CASE OpRead
  <2>1. \E v : vm' = next(result(vm, 1, v))
    BY <1>15 DEF OpRead
  <2> QED BY <2>1, ResultSound, NextSound
<1> QED BY <1>1, <1>2, <1>3, <1>4, <1>5, <1>6, <1>7, <1>8, <1>9, <1>10, <1>11, <1>12,
           <1>13, <1>14, <1>15 DEF Execute

-----------------------------------------------------------------------------
(* The answers of main that reported an error.                             *)
Errors == {i \in DOMAIN out : out[i].error # "none"}

(* The inductive invariant.  Beside the properties it says that main only  *)
(* reads with both stacks empty (until an error was reported), that it     *)
(* never reads after a fault, and that it has a file left to finish.       *)
IInv ==
    /\ TypeOK
    /\ Settled(Errors, vm)
    /\ phase # "exit" => files # 0
    /\ phase # "run" /\ Errors = {} => vm.sp = 0 /\ vm.callp = 0
    /\ phase # "run" => ~ vm.fault

(* What appending an event does to the record of the session.              *)
LEMMA Recorded ==
    ASSUME NEW S, NEW o \in Seq(S), NEW v
    PROVE  LET p == Append(o, v)
           IN  /\ p \in Seq({p[i] : i \in DOMAIN p})
               /\ DOMAIN o \subseteq DOMAIN p
               /\ \A i \in DOMAIN o : p[i] = o[i]
               /\ Len(o) + 1 \in DOMAIN p
               /\ p[Len(o) + 1] = v
<1> DEFINE p == Append(o, v)
<1>1. /\ DOMAIN p = 1 .. Len(o) + 1 /\ DOMAIN o = 1 .. Len(o)
      /\ \A i \in 1 .. Len(o) : p[i] = o[i]
      /\ p[Len(o) + 1] = v /\ Len(o) \in Nat
      /\ p \in [1 .. Len(o) + 1 -> S \cup {v}]
  <2>1. o \in Seq(S \cup {v})
    BY SeqMonotonic
  <2>2. /\ p \in Seq(S \cup {v}) /\ Len(p) = Len(o) + 1
        /\ \A i \in 1 .. Len(o) : p[i] = o[i]
        /\ p[Len(o) + 1] = v
    BY <2>1, AppendProperties
  <2> QED BY <2>1, <2>2, LenProperties
<1> HIDE DEF p
<1>2. p \in Seq({p[i] : i \in DOMAIN p})
  <2> DEFINE T == {p[i] : i \in DOMAIN p}
  <2>1. p \in [1 .. Len(o) + 1 -> T]
    BY <1>1
  <2> HIDE DEF T
  <2>2. p \in Seq(T)
    BY <1>1, <2>1, Len(o) + 1 \in Nat, SeqDef
  <2> QED BY <2>2 DEF T
<1> QED BY <1>1, <1>2 DEF p

(* A reported error stays reported.                                        *)
LEMMA ErrorsGrow ==
    ASSUME TypeOK, NEW v, out' = out \/ out' = Append(out, v), Errors' = {}
    PROVE  Errors = {}
BY Recorded DEF TypeOK, Errors

(* vm_init establishes the invariant.                                      *)
LEMMA InitIInv == Init => IInv
<1> SUFFICES ASSUME Init PROVE IInv
  OBVIOUS
<1>1. Machine(vm) /\ vm.sp = 0 /\ vm.callp = 0 /\ ~ vm.running /\ ~ vm.fault
  BY VMAssumption DEF Init, vm_init, Machine, VmFields
<1>2. TypeOK
  <2>1. out = <<>> /\ <<>> \in Seq({<<>>[i] : i \in DOMAIN <<>>})
    BY DEF Init
  <2> QED BY <1>1, <2>1, VMAssumption DEF Init, TypeOK
<1> QED BY <1>1, <1>2, VMAssumption DEF Init, IInv, Settled

(* A turn of vm_run that leaves the machine settled keeps the invariant,   *)
(* whether or not it displays or reads something.                          *)
LEMMA Continues ==
    ASSUME IInv, Next, vm.running, phase = "run", phase' = phase, UNCHANGED <<files, evals>>,
           NEW v, out' = out \/ out' = Append(out, v), Settled(Errors, vm')
    PROVE  IInv'
<1>1. out' \in Seq({out'[i] : i \in DOMAIN out'})
  BY Recorded DEF IInv, TypeOK
<1>2. Errors' = {} => Errors = {}
  BY ErrorsGrow DEF IInv
<1>3. Settled(Errors', vm')
  BY <1>2 DEF Settled
<1> QED BY <1>1, <1>3 DEF IInv, TypeOK, Settled

(* Starting to evaluate an expression keeps the invariant: with both       *)
(* stacks empty, the new frame begins at slot 0 (vm.c:317-349).            *)
LEMMA ReadIInv == ASSUME IInv, ReadExpression PROVE IInv'
<1>1. PICK expr : /\ vm' = evaluate(vm, expr)
                  /\ out' = Append(out, event("read", expr))
                  /\ evals < MaxEvals \/ expr = EOF_VAL
                  /\ evals' = IF expr = EOF_VAL THEN evals ELSE evals + 1
  BY DEF ReadExpression
<1>2. out' \in Seq({out'[i] : i \in DOMAIN out'})
  BY <1>1, Recorded DEF IInv, TypeOK
<1>3. Errors' = {} => Errors = {}
  BY <1>1, ErrorsGrow DEF IInv
<1>4. /\ DOMAIN vm' = VmFields /\ vm'.stack = vm.stack /\ vm'.calls = vm.calls
      /\ vm'.sp = vm.sp /\ vm'.callp = vm.callp /\ vm'.argnum = 0
      /\ vm'.running = TRUE /\ vm'.fault = vm.fault
  BY <1>1 DEF IInv, TypeOK, Machine, evaluate, VmFields
<1>5. Machine(vm')
  <2>1. vm'.argnum \in Int
    BY <1>4, 0 \in Int
  <2>2. vm'.running \in BOOLEAN
    BY <1>4
  <2> QED BY <1>4, <2>1, <2>2 DEF IInv, TypeOK, Machine
<1>6. /\ phase = "prompt" /\ phase' = "run" /\ files' = files
      /\ Errors = {} => vm.sp = 0 /\ vm.callp = 0
  BY DEF ReadExpression, IInv
<1>7. Errors = {} => Chained(vm')
  BY <1>4, <1>6 DEF Chained, base, frame_base
<1>8. TypeOK'
  <2>1. evals' \in 0 .. MaxEvals
    BY <1>1, VMAssumption DEF IInv, TypeOK
  <2> QED BY <1>2, <1>5, <1>6, <2>1 DEF IInv, TypeOK
<1>9. Settled(Errors', vm')
  BY <1>3, <1>4, <1>5, <1>7 DEF Settled
<1> QED BY <1>6, <1>8, <1>9 DEF IInv

(* An answer of repl without an error ends an evaluation without one       *)
(* (main.c:8-28).                                                          *)
LEMMA ReplyRecorded ==
    ASSUME TypeOK, ReplReply
    PROVE  /\ out' \in Seq({out'[i] : i \in DOMAIN out'})
           /\ Errors' = {} => Errors = {} /\ vm.errormsg = "none"
<1> DEFINE reply == [event("reply", vm.stack[0]) EXCEPT !.error = vm.errormsg]
<1>1. out' = Append(out, reply)
  BY DEF ReplReply
<1>2. reply.error = vm.errormsg
  BY DEF event
<1> HIDE DEF reply
<1>3. out' \in Seq({out'[i] : i \in DOMAIN out'})
  BY <1>1, Recorded DEF TypeOK
<1>4. Errors' = {} => Errors = {}
  BY <1>1, ErrorsGrow
<1>5. Len(out) + 1 \in DOMAIN out' /\ out'[Len(out) + 1] = reply
  BY <1>1, Recorded DEF TypeOK
<1> QED BY <1>2, <1>3, <1>4, <1>5 DEF Errors

(* It keeps the invariant: either the evaluation ended normally, or the    *)
(* error is recorded.                                                      *)
LEMMA ReplReplyIInv == ASSUME IInv, ReplReply PROVE IInv'
<1>1. /\ UNCHANGED <<files, evals>>
      /\ phase' \in {"exit", "prompt"} /\ ~ vm.running /\ ~ vm.fault
      /\ phase = "run"
  BY DEF ReplReply, Returned
<1>2. /\ out' \in Seq({out'[i] : i \in DOMAIN out'})
      /\ Errors' = {} => Errors = {} /\ vm.errormsg = "none"
  BY ReplyRecorded DEF IInv
<1>3. /\ DOMAIN vm' = VmFields /\ vm'.stack = vm.stack /\ vm'.calls = vm.calls
      /\ vm'.sp = vm.sp /\ vm'.callp = vm.callp /\ vm'.argnum = vm.argnum
      /\ vm'.running \in BOOLEAN /\ vm'.fault = vm.fault
      /\ vm.errormsg = "none" => vm' = vm
  BY DEF ReplReply, IInv, TypeOK, Machine, VmFields
<1>4. Machine(vm')
  BY <1>3 DEF IInv, TypeOK, Machine
<1>5. TypeOK'
  BY <1>1, <1>2, <1>4 DEF IInv, TypeOK
<1>6. Errors' = {} => Errors = {} /\ vm.errormsg = "none"
  BY <1>2
<1> QED BY <1>1, <1>3, <1>4, <1>5, <1>6 DEF IInv, Settled

(* So does evaluate_file, which goes on or gives the file up               *)
(* (main.c:31-43).                                                         *)
LEMMA FileNextIInv == ASSUME IInv, FileNext PROVE IInv'
<1> DEFINE failure == [event("error", SCM_TYPE_NULL) EXCEPT !.error = vm.errormsg]
<1>1. /\ vm.errormsg = "none" => out' = out
      /\ vm.errormsg # "none" => out' = Append(out, failure)
      /\ UNCHANGED <<vm, evals>> /\ ~ vm.running /\ ~ vm.fault
      /\ phase = "run"
  BY DEF FileNext, Returned
<1>2. failure.error = vm.errormsg
  BY DEF event
<1> HIDE DEF failure
<1>3. out' \in Seq({out'[i] : i \in DOMAIN out'})
  BY <1>1, Recorded DEF IInv, TypeOK
<1>4. Errors' = {} => Errors = {} /\ vm.errormsg = "none"
  <2>1. Errors' = {} => Errors = {}
    BY <1>1, ErrorsGrow DEF IInv
  <2>2. vm.errormsg # "none" =>
            Len(out) + 1 \in DOMAIN out' /\ out'[Len(out) + 1] = failure
    BY <1>1, Recorded DEF IInv, TypeOK
  <2> QED BY <1>2, <2>1, <2>2 DEF Errors
<1>5. /\ phase' \in {"exit", "prompt"} /\ files' \in 0 .. Files
      /\ phase' # "exit" => files' # 0
  BY <1>1, VMAssumption DEF FileNext, IInv, TypeOK
<1>6. TypeOK'
  BY <1>1, <1>3, <1>5 DEF IInv, TypeOK
<1> QED BY <1>1, <1>4, <1>5, <1>6 DEF IInv, Settled

(* A turn of vm_run belongs to an evaluation that is running.              *)
LEMMA TurnRuns ==
    ASSUME Interpret \/ Execute
    PROVE  /\ phase = "run" /\ vm.running
           /\ \/ UNCHANGED driver
              \/ \E v : Show(v)
<1>1. CASE Interpret
  BY <1>1 DEF Interpret, InterpEvalOperand, InterpPushConstant,
      InterpPushVariable, InterpUndefined, InterpAtom, InterpApply, HandleLambda,
      HandleDefine, HandleIf, HandleBegin, HandleQuote, HandleSyntaxRules,
      ExpandMacro, SpecialForm, Symbol, Operand, Interpreting
<1>2. CASE Execute
  BY <1>2 DEF Execute, OpReturn, OpReturnLast, OpJump, OpJumpIfFalse,
      OpClosureRef, OpStackRef, OpPushConst, OpDoCall, OpDoTailcall, OpAdd, OpSub,
      OpMul, OpDiv, OpCons, OpCar, OpCdr, OpIsNull, OpIsPair, OpIf, OpLessThan,
      OpGreaterThan, OpEqual, OpInternDefine, OpInternSet, OpDisplay, OpNewline,
      OpRead, Primitive, InternBinding, Executing
<1> QED BY <1>1, <1>2

(* Every step keeps the invariant.                                         *)
LEMMA NextIInv == IInv /\ [Next]_vars => IInv'
<1> SUFFICES ASSUME IInv, [Next]_vars PROVE IInv'
  OBVIOUS
<1>1. CASE ReadExpression
  BY <1>1, ReadIInv
<1>2. ASSUME vm.running PROVE Sound(Errors, vm)
  BY <1>2 DEF IInv, Settled, Sound
<1>3. CASE Interpret \/ Execute
  <2>1. /\ phase = "run" /\ vm.running
        /\ UNCHANGED driver \/ \E v : Show(v)
    BY <1>3, TurnRuns
  <2>2. Settled(Errors, vm')
    BY <1>2, <1>3, <2>1, InterpretSettled, ExecuteSettled
  <2>3. /\ phase' = phase /\ UNCHANGED <<files, evals>>
        /\ \E v : out' = out \/ out' = Append(out, v)
    BY <2>1 DEF driver, Show
  <2> QED BY <1>3, <2>1, <2>2, <2>3, Continues DEF Next
<1>5. CASE Answer
  BY <1>5, ReplReplyIInv, FileNextIInv DEF Answer
<1>6. CASE Terminated \/ UNCHANGED vars
  BY <1>6 DEF Terminated, vars, IInv, TypeOK, Errors, Settled
<1> QED BY <1>1, <1>3, <1>5, <1>6 DEF Next

-----------------------------------------------------------------------------
(* The invariant holds in every reachable state.                           *)
LEMMA Invariance == Spec => []IInv
BY InitIInv, NextIInv, PTL DEF Spec

(* In every state the machine's registers and arrays keep their types and  *)
(* callp stays within vm->calls, for every program, every size of the      *)
(* stacks and every code generator (vm.h:116-145).                         *)
THEOREM TypeCorrect == Spec => []TypeOK
<1>1. IInv => TypeOK
  BY DEF IInv
<1> QED BY <1>1, Invariance, PTL

(* As long as no error was reported, every frame starts where its caller   *)
(* stopped: the equation by which interpreter, threaded code and           *)
(* primitives find their operands and leave their results (vm_ops.h:8-61,  *)
(* vm_ops.c:87-234).                                                       *)
THEOREM FramesChained == Spec => []FrameDiscipline
<1>1. IInv => FrameDiscipline
  BY DEF IInv, Settled, FrameDiscipline, Evaluating, NoErrorReported, Errors
<1> QED BY <1>1, Invariance, PTL

(* As long as nothing failed, an evaluation ends with both stacks empty,   *)
(* which is what the next one assumes (vm.c:329-331).                      *)
THEOREM StacksEmptied == Spec => []CleanPrompt
<1>1. IInv => CleanPrompt
  BY DEF IInv, Settled, CleanPrompt, NoErrorReported, Errors
<1> QED BY <1>1, Invariance, PTL

-----------------------------------------------------------------------------
(* What a turn leaves alone.  o is the machine before the turn, m the      *)
(* machine in the middle of it: no frame and no operand that o's callers   *)
(* saved has been touched, and m works above them, counting at least none  *)
(* of its operands and of those of its callers.                            *)
Counted(m) ==
    m.argnum >= 0 /\ \A k \in 0 .. m.callp - 1 : m.calls[k].argnum >= 0

Apart(o, m) ==
    /\ \A k \in 0 .. o.callp - 1 : m.calls[k] = o.calls[k]
    /\ \A i \in 0 .. base(o) - 1 : m.stack[i] = o.stack[i]

Safe(o, m) ==
    /\ Sound({}, m) /\ Machine(o)
    /\ o.callp <= m.callp /\ base(o) <= base(m)
    /\ Counted(m) /\ Apart(o, m)

(* How a turn may end: a return has left the frame, or the evaluation.     *)
Left(o, m) == (m.running => Counted(m)) /\ Apart(o, m)

(* A machine that is safe may end its turn.                                *)
LEMMA SafeLeft == ASSUME NEW o, NEW m, Safe(o, m) PROVE Left(o, m)
BY DEF Safe, Left

(* Only the base of the frame, the counts and the arrays matter.           *)
LEMMA KeptSafe ==
    ASSUME NEW o, NEW m, Safe(o, m), NEW r, Sound({}, r),
           r.callp = m.callp, r.calls = m.calls,
           base(r) = base(m), r.argnum >= 0,
           \A i \in 0 .. base(o) - 1 : r.stack[i] = m.stack[i]
    PROVE  Safe(o, r)
BY DEF Safe, Counted, Apart

(* An access outside the arrays writes nothing.                            *)
LEMMA WildSafe == ASSUME NEW o, NEW m, Safe(o, m) PROVE Safe(o, wild(m))
<1> DEFINE r == wild(m)
<1>1. Sound({}, r)
  BY WildSound DEF Safe
<1>2. /\ r.callp = m.callp /\ r.calls = m.calls /\ r.sp = m.sp
      /\ r.argnum = m.argnum /\ r.stack = m.stack
  BY DEF Safe, Sound, Machine, VmFields, wild
<1> HIDE DEF r
<1>3. Safe(o, r)
  BY <1>1, <1>2, KeptSafe DEF base, Safe, Counted
<1> QED BY <1>3 DEF r

(* Nor does vm_error (vm.c:295-305).                                       *)
LEMMA ErrorSafe ==
    ASSUME NEW o, NEW m, Safe(o, m), NEW msg, msg # "none" PROVE Safe(o, vm_error(m, msg))
<1> DEFINE r == vm_error(m, msg)
<1>1. Sound({}, r)
  BY ErrorSound DEF Safe
<1>2. /\ r.callp = m.callp /\ r.calls = m.calls /\ r.sp = m.sp
      /\ r.argnum = m.argnum /\ r.stack = m.stack
  BY DEF Safe, Sound, Machine, VmFields, vm_error
<1> HIDE DEF r
<1>3. Safe(o, r)
  BY <1>1, <1>2, KeptSafe DEF base, Safe, Counted
<1> QED BY <1>3 DEF r

(* The other registers are not what is suspended.                          *)
LEMMA RegistersSafe ==
    ASSUME NEW o, NEW m, Safe(o, m), NEW r, Sound({}, r), r.sp = m.sp,
           r.argnum = m.argnum, r.callp = m.callp, r.calls = m.calls, r.stack = m.stack
    PROVE  Safe(o, r)
BY KeptSafe DEF base, Safe, Counted

(* Setting vm->ptr or vm->ip keeps the machine safe.                       *)
LEMMA PtrSafe ==
    ASSUME NEW o, NEW m, Safe(o, m), NEW p
    PROVE  /\ Safe(o, [m EXCEPT !.ptr = p])
           /\ Safe(o, [m EXCEPT !.ip = p])
<1>1. ASSUME NEW r, Sound({}, r), \/ r = [m EXCEPT !.ptr = p]
                                  \/ r = [m EXCEPT !.ip = p]
      PROVE  Safe(o, r)
  <2>1. /\ r.sp = m.sp /\ r.argnum = m.argnum
        /\ r.callp = m.callp /\ r.calls = m.calls /\ r.stack = m.stack
    BY <1>1 DEF Safe, Sound, Machine, VmFields
  <2> QED BY <1>1, <2>1, RegistersSafe
<1>2. Sound({}, [m EXCEPT !.ptr = p]) /\ Sound({}, [m EXCEPT !.ip = p])
  BY PtrSound, IpSound DEF Safe
<1> QED BY <1>1, <1>2

(* Writing at or above the base of the frame is writing above the callers. *)
LEMMA StoreSafe ==
    ASSUME NEW o, NEW m, Safe(o, m), NEW i \in Int, i >= base(m), NEW v
    PROVE  Safe(o, store(m, i, v))
<1>1. CASE i \in DOMAIN m.stack
  <2> DEFINE r == [m EXCEPT !.stack[i] = v]
  <2>1. r = store(m, i, v)
    BY <1>1 DEF store
  <2>2. Sound({}, r)
    BY <2>1, StoreSound DEF Safe
  <2>3. /\ r.callp = m.callp /\ r.calls = m.calls /\ r.sp = m.sp /\ r.argnum = m.argnum
        /\ r.stack = [m.stack EXCEPT ![i] = v]
    BY DEF Safe, Sound, Machine, VmFields
  <2> HIDE DEF r
  <2>4. base(o) \in Int /\ base(m) \in Int
    BY DEF Safe, Sound, Machine, base
  <2>5. \A j \in 0 .. base(o) - 1 : r.stack[j] = m.stack[j]
    BY <2>3, <2>4 DEF Safe
  <2>6. base(r) = base(m) /\ r.argnum >= 0
    BY <2>3 DEF base, Safe, Counted
  <2>7. Safe(o, r)
    BY <2>2, <2>3, <2>5, <2>6, KeptSafe
  <2> QED BY <2>1, <2>7
<1>2. CASE i \notin DOMAIN m.stack
  BY <1>2, WildSafe DEF store
<1> QED BY <1>1, <1>2

(* vm_stack_push writes at sp, which is not below the base as long as no   *)
(* count is negative (vm_ops.h:8-11).                                      *)
LEMMA PushSafe ==
    ASSUME NEW o, NEW m, Safe(o, m), NEW v PROVE Safe(o, vm_stack_push(m, v))
<1> DEFINE n == store(m, m.sp, v)
           r == vm_stack_push(m, v)
<1>1. m.sp \in Int /\ m.argnum \in Int /\ m.sp >= base(m)
  BY DEF Safe, Sound, Machine, Counted, base
<1>2. Safe(o, n)
  BY <1>1, StoreSafe
<1>3. Sound({}, r)
  BY PushSound DEF Safe
<1>4. DOMAIN n = VmFields /\ n.sp \in Int /\ n.argnum \in Int /\ n.argnum >= 0
  BY <1>2 DEF Safe, Sound, Machine, Counted
<1>5. r = [n EXCEPT !.sp = @ + 1, !.argnum = @ + 1]
  BY DEF vm_stack_push
<1> HIDE DEF n, r
<1>6. /\ r.callp = n.callp /\ r.calls = n.calls /\ r.sp = n.sp + 1
      /\ r.argnum = n.argnum + 1 /\ r.stack = n.stack
  BY <1>4, <1>5 DEF VmFields
<1>7. base(r) = base(n) /\ r.argnum >= 0
  BY <1>4, <1>6 DEF base
<1>8. Safe(o, r)
  BY <1>2, <1>3, <1>6, <1>7, KeptSafe
<1> QED BY <1>8 DEF r

(* Popping what the frame has leaves its base alone (vm_ops.h:13-16).      *)
LEMMA PopSafe ==
    ASSUME NEW o, NEW m, Safe(o, m), NEW k \in Int, k <= m.argnum
    PROVE  Safe(o, pop(m, k))
<1> DEFINE n == IF k > m.sp THEN wild(m) ELSE m
           r == pop(m, k)
<1>1. Safe(o, n)
  BY WildSafe
<1>2. n.argnum = m.argnum
  BY DEF wild, Safe, Sound, Machine, VmFields
<1>3. Sound({}, r)
  BY PopSound DEF Safe
<1>4. r = [n EXCEPT !.sp = @ - k, !.argnum = @ - k]
  BY DEF pop
<1>5. DOMAIN n = VmFields /\ n.sp \in Int /\ n.argnum \in Int
  BY <1>1 DEF Safe, Sound, Machine
<1> HIDE DEF n, r
<1>6. /\ r.callp = n.callp /\ r.calls = n.calls /\ r.sp = n.sp - k
      /\ r.argnum = n.argnum - k /\ r.stack = n.stack
  BY <1>4, <1>5 DEF VmFields
<1>7. base(r) = base(n) /\ r.argnum >= 0
  BY <1>2, <1>5, <1>6 DEF base
<1>8. Safe(o, r)
  BY <1>1, <1>3, <1>6, <1>7, KeptSafe
<1> QED BY <1>8 DEF r

(* Popping operands and pushing a result.                                  *)
LEMMA ResultSafe ==
    ASSUME NEW o, NEW m, Safe(o, m), NEW k \in Int, k <= m.argnum, NEW v
    PROVE  Safe(o, result(m, k, v))
BY PopSafe, PushSafe DEF result

(* A new frame starts at or above the base, and what it saves is not a     *)
(* frame of the callers (vm_ops.h:26-38).                                  *)
LEMMA FrameSafe ==
    ASSUME NEW o, NEW m, Safe(o, m), m.callp \in DOMAIN m.calls, NEW f, f.argnum >= 0,
           NEW r, Sound({}, r), r.calls = [m.calls EXCEPT ![m.callp] = f],
           r.callp = m.callp + 1, r.stack = m.stack,
           r.argnum >= 0, base(m) <= base(r)
    PROVE  Safe(o, r)
<1>0. Machine(m) /\ Machine(o) /\ Machine(r) /\ CallsSize \in Nat
  BY VMAssumption DEF Safe, Sound
<1>1. /\ m.callp \in Nat /\ o.callp \in Nat /\ o.callp <= m.callp
      /\ base(o) \in Int /\ base(m) \in Int /\ base(r) \in Int /\ base(o) <= base(m)
  <2>1. o.callp <= m.callp /\ base(o) <= base(m)
    BY DEF Safe
  <2>2. base(m) \in Int /\ m.callp \in Nat
    BY <1>0 DEF Machine, base
  <2>3. base(o) \in Int /\ o.callp \in Nat
    BY <1>0 DEF Machine, base
  <2>4. base(r) \in Int
    BY <1>0 DEF Machine, base
  <2> QED BY <2>1, <2>2, <2>3, <2>4
<1>2. /\ r.calls[m.callp] = f
      /\ \A k \in 0 .. m.callp - 1 : r.calls[k] = m.calls[k]
  BY <1>1
<1>3. Counted(r)
  <2>1. ASSUME NEW k \in 0 .. r.callp - 1 PROVE r.calls[k].argnum >= 0
    <3>1. k = m.callp \/ k \in 0 .. m.callp - 1
      BY <1>1
    <3> QED BY <1>2, <3>1 DEF Safe, Counted
  <2> QED BY <2>1 DEF Counted
<1>4. Apart(o, r)
  <2>1. \A k \in 0 .. o.callp - 1 : k \in 0 .. m.callp - 1
    BY <1>1
  <2> QED BY <1>2, <2>1 DEF Safe, Apart
<1>5. o.callp <= r.callp /\ base(o) <= base(r)
  BY <1>1
<1> QED BY <1>3, <1>4, <1>5 DEF Safe

(* So it is with vm_call_eval, which starts the frame at sp.               *)
LEMMA CallEvalSafe ==
    ASSUME NEW o, NEW m, Safe(o, m), NEW ptr PROVE Safe(o, vm_call_eval(m, ptr))
<1> DEFINE r == vm_call_eval(m, ptr)
           f == [closure |-> m.closure, sp |-> m.sp, argnum |-> m.argnum,
                 runmode |-> "interp", ip |-> 0, ptr |-> m.ptr, env |-> m.env]
<1>1. CASE m.callp \notin DOMAIN m.calls
  BY <1>1, WildSafe DEF vm_call_eval
<1>2. CASE m.callp \in DOMAIN m.calls
  <2>1. Sound({}, r)
    BY CallEvalSound DEF Safe
  <2>2. /\ r.sp = m.sp /\ r.argnum = 0 /\ r.callp = m.callp + 1 /\ r.stack = m.stack
        /\ r.calls = [m.calls EXCEPT ![m.callp] = f]
    BY <1>2 DEF Safe, Sound, Machine, vm_call_eval, VmFields
  <2>3. f.argnum >= 0
    BY DEF Safe, Counted
  <2> HIDE DEF r, f
  <2>4. r.argnum >= 0 /\ base(m) <= base(r)
    BY <2>2 DEF base, Safe, Sound, Machine, Counted
  <2>5. Safe(o, r)
    BY <1>2, <2>1, <2>2, <2>3, <2>4, FrameSafe
  <2> QED BY <2>5 DEF r
<1> QED BY <1>1, <1>2

(* vm_call_return goes back to the innermost caller and writes nothing     *)
(* (vm_ops.h:40-61).                                                       *)
LEMMA ReturnLeft ==
    ASSUME NEW o, NEW m, Machine(m), Apart(o, m),
           \A k \in 0 .. m.callp - 1 : m.calls[k].argnum >= 0
    PROVE  Left(o, vm_call_return(m))
<1> DEFINE r == vm_call_return(m)
<1>1. CASE m.callp = 0
  <2>1. ~ r.running /\ r.calls = m.calls /\ r.stack = m.stack
    BY <1>1 DEF vm_call_return, halt, Machine, VmFields
  <2> QED BY <2>1 DEF Left, Apart
<1>2. CASE m.callp # 0
  <2> DEFINE frame == m.calls[m.callp - 1]
             back  == [m EXCEPT !.callp = @ - 1,
                                !.sp = frame.sp + 1,
                                !.argnum = frame.argnum + 1,
                                !.closure = frame.closure,
                                !.runmode = frame.runmode]
  <2>1. /\ DOMAIN back = VmFields /\ back.stack = m.stack /\ back.calls = m.calls
        /\ back.argnum = frame.argnum + 1 /\ back.callp = m.callp - 1
    BY DEF Machine, VmFields
  <2>2. r = IF frame.runmode = "compiled" THEN [back EXCEPT !.ip = frame.ip]
            ELSE [back EXCEPT !.ptr = frame.ptr, !.env = frame.env]
    BY <1>2 DEF vm_call_return
  <2> HIDE DEF back
  <2>3. /\ r.stack = m.stack /\ r.calls = m.calls
        /\ r.argnum = frame.argnum + 1 /\ r.callp = m.callp - 1
    BY <2>1, <2>2 DEF VmFields
  <2> HIDE DEF r
  <2>4. m.callp \in Nat /\ m.callp - 1 \in 0 .. m.callp - 1
    BY <1>2, VMAssumption DEF Machine
  <2>5. frame.argnum \in Int /\ frame.argnum >= 0
    BY <2>4 DEF Machine
  <2> HIDE DEF frame
  <2>6. \A k \in 0 .. r.callp - 1 : k \in 0 .. m.callp - 1
    BY <2>3, <2>4
  <2>7. Counted(r)
    BY <2>3, <2>5, <2>6 DEF Counted
  <2>8. Apart(o, r)
    BY <2>3 DEF Apart
  <2> QED BY <2>7, <2>8 DEF Left, r
<1> QED BY <1>1, <1>2

(* So it does from a machine that is safe.                                 *)
LEMMA SafeReturnLeft ==
    ASSUME NEW o, NEW m, Safe(o, m) PROVE Left(o, vm_call_return(m))
BY ReturnLeft DEF Safe, Sound, Counted

(* quote and syntax-rules push two values.                                 *)
LEMMA ReturnDatumSafe ==
    ASSUME NEW o, NEW m, Safe(o, m), NEW v PROVE Safe(o, ReturnDatum(m, v))
<1> DEFINE n == vm_stack_push(vm_stack_push(m, tag_primitive("return_last")), v)
<1>1. Safe(o, n)
  BY PushSafe
<1> HIDE DEF n
<1> QED BY <1>1, PtrSafe DEF ReturnDatum, n

(* The primitives look at how many operands they have before they take any *)
(* (vm_ops.c:236-504).                                                     *)
LEMMA ArithmeticSafe ==
    ASSUME NEW o, NEW m, Safe(o, m)
    PROVE  /\ Safe(o, vm_op_add(m)) /\ Safe(o, vm_op_sub(m))
           /\ Safe(o, vm_op_mul(m)) /\ Safe(o, vm_op_div(m))
<1>1. m.argnum \in Int /\ m.argnum <= m.argnum
  BY DEF Safe, Sound, Machine
<1>2. \A v : Safe(o, result(m, m.argnum, v))
  BY <1>1, ResultSafe
<1>3. Safe(o, vm_op_add(m))
  BY <1>2, WildSafe DEF vm_op_add
<1>4. Safe(o, vm_op_sub(m))
  BY <1>2, WildSafe DEF vm_op_sub
<1>5. Safe(o, vm_op_mul(m))
  BY <1>2, WildSafe DEF vm_op_mul
<1>6. CASE m.argnum < 2
  BY <1>3, <1>4, <1>5, <1>6, WildSafe DEF vm_op_div
<1>7. CASE m.argnum >= 2
  <2> DEFINE seen == {i \in 2 .. m.argnum - 1 :
                        \A j \in i + 1 .. m.argnum - 1 :
                            ~ (slot(m, j) = tag_integer(0))}
  <2>1. Cardinality(seen) \in Int /\ Cardinality(seen) <= m.argnum
    <3>1. /\ IsFiniteSet(2 .. m.argnum - 1)
          /\ Cardinality(2 .. m.argnum - 1) = IF 2 > m.argnum - 1 THEN 0
                                              ELSE m.argnum - 1 - 2 + 1
      BY <1>1, FS_Interval, 2 \in Int, m.argnum - 1 \in Int
    <3>2. seen \subseteq 2 .. m.argnum - 1
      OBVIOUS
    <3> HIDE DEF seen
    <3>3. IsFiniteSet(seen) /\ Cardinality(seen) <= Cardinality(2 .. m.argnum - 1)
      BY <3>1, <3>2, FS_Subset
    <3>4. Cardinality(seen) \in Nat
      BY <3>3, FS_CardinalityType
    <3> QED BY <1>1, <1>7, <3>1, <3>3, <3>4
  <2>2. Safe(o, vm_error(pop(m, Cardinality(seen)), "divide by zero!"))
    <3> DEFINE n == pop(m, Cardinality(seen))
    <3>1. Safe(o, n)
      BY <2>1, PopSafe
    <3> HIDE DEF n
    <3>2. Safe(o, vm_error(n, "divide by zero!"))
      BY <3>1, ErrorSafe
    <3> QED BY <3>2 DEF n
  <2>3. Safe(o, vm_op_div(m))
    BY <1>2, <2>2, WildSafe DEF vm_op_div
  <2> QED BY <1>3, <1>4, <1>5, <2>3
<1> QED BY <1>1, <1>6, <1>7

(* The other primitives do so too.                                         *)
LEMMA ListOperationsSafe ==
    ASSUME NEW o, NEW m, Safe(o, m)
    PROVE  /\ Safe(o, vm_op_cons(m)) /\ Safe(o, vm_op_car(m))
           /\ Safe(o, vm_op_cdr(m)) /\ Safe(o, vm_op_is_null(m))
           /\ Safe(o, vm_op_is_pair(m)) /\ Safe(o, vm_op_intern_if(m))
           /\ \A b : Safe(o, compare(m, b))
<1>1. m.argnum \in Int
  BY DEF Safe, Sound, Machine
<1>2. ASSUME NEW k \in {2, 3, 4}, m.argnum = k
      PROVE  /\ Safe(o, pop(m, k))
             /\ \A v : Safe(o, result(m, k, v))
             /\ \A msg : msg # "none" => Safe(o, vm_error(pop(m, k), msg))
  <2>1. k \in Int /\ k <= m.argnum
    BY <1>2
  <2>2. Safe(o, pop(m, k)) /\ \A v : Safe(o, result(m, k, v))
    BY <2>1, PopSafe, ResultSafe
  <2> QED BY <2>2, ErrorSafe
<1>3. \A msg : msg # "none" => Safe(o, vm_error(m, msg))
  BY ErrorSafe
<1>4. Safe(o, vm_op_cons(m))
  <2>1. Safe(o, vm_error(m, "cons: not enough args"))
    BY <1>3
  <2> QED BY <1>2, <2>1 DEF vm_op_cons
<1>5. Safe(o, vm_op_car(m))
  <2>1. Safe(o, vm_error(m, "Invalid number of arguments for car"))
    BY <1>3
  <2>2. m.argnum = 2 => Safe(o, vm_error(pop(m, 2), "Value given to car is not a pair"))
    BY <1>2
  <2>3. m.argnum = 2 => Safe(o, result(m, 2, scm_car(top(m))))
    BY <1>2
  <2> QED BY <2>1, <2>2, <2>3 DEF vm_op_car
<1>6. Safe(o, vm_op_cdr(m))
  <2>1. Safe(o, vm_error(m, "Invalid number of arguments for cdr"))
    BY <1>3
  <2>2. m.argnum = 2 => Safe(o, vm_error(pop(m, 2), "Value given to cdr is not a pair"))
    BY <1>2
  <2>3. m.argnum = 2 => Safe(o, result(m, 2, scm_cdr(top(m))))
    BY <1>2
  <2> QED BY <2>1, <2>2, <2>3 DEF vm_op_cdr
<1>7. Safe(o, vm_op_is_null(m))
  BY <1>2 DEF vm_op_is_null
<1>8. Safe(o, vm_op_is_pair(m))
  BY <1>2 DEF vm_op_is_pair
<1>9. Safe(o, vm_op_intern_if(m))
  BY <1>2 DEF vm_op_intern_if
<1>10. ASSUME NEW b PROVE Safe(o, compare(m, b))
  <2>1. Safe(o, vm_error(m, "Invalid number of arguments"))
    BY <1>3
  <2> QED BY <1>2, <2>1 DEF compare
<1> QED BY <1>4, <1>5, <1>6, <1>7, <1>8, <1>9, <1>10

(* Applying moves nothing below the frame of the function                  *)
(* (vm_ops.c:87-142).                                                      *)
LEMMA ApplySafe ==
    ASSUME NEW o, NEW m, Safe(o, m), vm_call_apply(m) PROVE Safe(o, vm')
<1>00. Sound({}, m) /\ m.argnum \in Int
  BY DEF Safe, Sound, Machine
<1>01. Sound({}, vm')
  BY <1>00, ApplySound
<1>0. m.argnum \in Int /\ m.argnum <= m.argnum /\ Sound({}, vm')
  BY <1>00, <1>01
<1>1. CASE ApplyCompiled(m)
  <2>1. /\ vm'.sp = m.sp /\ vm'.argnum = m.argnum
        /\ vm'.callp = m.callp /\ vm'.calls = m.calls /\ vm'.stack = m.stack
    BY <1>1 DEF ApplyCompiled, Safe, Sound, Machine, VmFields
  <2> QED BY <1>0, <2>1, RegistersSafe
<1>2. CASE ApplyInterpreted(m)
  <2> DEFINE func == slot(m, 0)
             clsr == closures[func.id]
             scope == env_create(envs, clsr.env)
             emptied == pop(m, m.argnum)
             entered == [emptied EXCEPT
                            !.closure = func, !.runmode = "interp",
                            !.env = Len(scope), !.ptr = clsr.definition]
             loaded == vm_load_lambda_args(entered, m.argnum, clsr)
  <2>1. Safe(o, emptied)
    BY <1>0, PopSafe
  <2> HIDE DEF func, clsr, scope, emptied
  <2>2. /\ DOMAIN entered = VmFields /\ entered.sp = emptied.sp
        /\ entered.argnum = emptied.argnum /\ entered.callp = emptied.callp
        /\ entered.calls = emptied.calls /\ entered.stack = emptied.stack
        /\ entered.running = emptied.running /\ entered.fault = emptied.fault
        /\ entered.errormsg = emptied.errormsg
    BY <2>1 DEF Safe, Sound, Machine, VmFields
  <2> HIDE DEF entered
  <2>3. Sound({}, entered)
    BY <2>1, <2>2, RegistersSound DEF Safe
  <2>4. Safe(o, entered)
    BY <2>1, <2>2, <2>3, RegistersSafe
  <2>5. Safe(o, vm_error(entered, "Couldn't define the top scope!"))
    BY <2>4, ErrorSafe
  <2>6. Safe(o, vm_stack_push(loaded, tag_primitive("return_last")))
    <3>1. Safe(o, vm_error(entered, "Invalid number of arguments given to lambda args"))
      BY <2>4, ErrorSafe
    <3>2. Safe(o, loaded)
      BY <2>4, <3>1, WildSafe DEF vm_load_lambda_args
    <3> QED BY <3>2, PushSafe
  <2> HIDE DEF loaded
  <2>7. \/ vm' = wild(entered)
        \/ vm' = vm_error(entered, "Couldn't define the top scope!")
        \/ vm' = vm_stack_push(loaded, tag_primitive("return_last"))
    BY <1>2 DEF ApplyInterpreted, func, clsr, scope, emptied, entered, loaded
  <2> QED BY <2>4, <2>5, <2>6, <2>7, WildSafe
<1>3. CASE ApplySetPtr(m)
  <2>1. Safe(o, vm_error(m, "can't eval"))
    BY ErrorSafe
  <2>2. CASE m.argnum = 2
    <3> DEFINE n == pop(m, 2)
    <3>1. Safe(o, n)
      BY <2>2, PopSafe, 2 \in Int, 2 <= m.argnum
    <3> HIDE DEF n
    <3>2. Safe(o, [n EXCEPT !.ptr = top(m)])
      BY <3>1, PtrSafe
    <3> QED BY <1>3, <2>2, <3>2 DEF ApplySetPtr, n
  <2> QED BY <1>3, <2>1, <2>2 DEF ApplySetPtr
<1>4. CASE ApplyOther(m)
  <2>1. Safe(o, vm_error(m, "can't apply value which is not a function"))
    BY ErrorSafe
  <2> QED BY <1>4, <2>1, WildSafe DEF ApplyOther
<1> QED BY <1>1, <1>2, <1>3, <1>4 DEF vm_call_apply

(* A turn of the interpreter works above the callers of the current frame  *)
(* (vm.c:33-293).                                                          *)
LEMMA InterpretLeft == ASSUME Safe(vm, vm), Interpret PROVE Left(vm, vm')
<1>1. Safe(vm, advanced)
  BY PtrSafe DEF advanced
<1>2. CASE InterpEvalOperand
  BY <1>1, <1>2, CallEvalSafe, SafeLeft DEF InterpEvalOperand
<1>3. CASE InterpPushConstant
  BY <1>1, <1>3, PushSafe, SafeLeft DEF InterpPushConstant
<1>4. CASE InterpPushVariable
  BY <1>1, <1>4, PushSafe, SafeLeft DEF InterpPushVariable
<1>5. CASE InterpUndefined
  <2>1. Safe(vm, vm_error(advanced, "undefined symbol"))
    BY <1>1, ErrorSafe
  <2> QED BY <1>5, <2>1, SafeLeft DEF InterpUndefined
<1>6. CASE InterpAtom
  <2>1. PICK looked, datum :
            /\ looked = vm \/ looked = vm_error(vm, "undefined symbol")
            /\ vm' = vm_call_return(store(looked, vm.sp, datum))
    BY <1>6 DEF InterpAtom
  <2>2. Safe(vm, vm_error(vm, "undefined symbol"))
    BY ErrorSafe
  <2>3. Safe(vm, looked)
    BY <2>1, <2>2
  <2>4. vm_error(vm, "undefined symbol").sp = vm.sp
    BY DEF Safe, Machine, VmFields, vm_error
  <2>5. looked.sp = vm.sp
    BY <2>1, <2>4
  <2>6. looked.sp \in Int /\ looked.sp >= base(looked)
    BY <2>3 DEF Safe, Sound, Machine, Counted, base
  <2>7. Safe(vm, store(looked, vm.sp, datum))
    BY <2>3, <2>5, <2>6, StoreSafe
  <2> QED BY <2>1, <2>7, SafeReturnLeft
<1>7. CASE InterpApply
  BY <1>7, ApplySafe, SafeLeft DEF InterpApply
<1>8. CASE HandleLambda
  <2>1. Safe(vm, wild(advanced))
    BY <1>1, WildSafe
  <2>2. Left(vm, vm_call_return(vm_stack_push(advanced, tag_closure(New))))
    BY <1>1, PushSafe, SafeReturnLeft
  <2>3. \/ vm' = wild(advanced) \/ vm' = advanced
        \/ vm' = vm_call_return(vm_stack_push(advanced, tag_closure(New)))
    BY <1>8 DEF HandleLambda
  <2> QED BY <1>1, <2>1, <2>2, <2>3, SafeLeft
<1>9. CASE HandleDefine
  <2>1. PICK pushed, v, w, p :
            /\ \E i : pushed = vm_stack_push(advanced, i)
            /\ \/ vm' = [vm_stack_push(vm_stack_push(pushed, v), w) EXCEPT !.ptr = p]
               \/ vm' = [vm_stack_push(pushed, v) EXCEPT !.ptr = p]
               \/ vm' = wild(pushed)
               \/ vm' = pushed
    BY <1>9 DEF HandleDefine
  <2>2. Safe(vm, pushed)
    BY <1>1, <2>1, PushSafe
  <2> DEFINE one == vm_stack_push(pushed, v)
             two == vm_stack_push(one, w)
  <2>3. Safe(vm, one) /\ Safe(vm, two)
    BY <2>2, PushSafe
  <2> HIDE DEF one, two
  <2>4. Safe(vm, [one EXCEPT !.ptr = p]) /\ Safe(vm, [two EXCEPT !.ptr = p])
    BY <2>3, PtrSafe
  <2> QED BY <2>1, <2>2, <2>4, WildSafe, SafeLeft DEF one, two
<1>10. CASE HandleIf
  <2> DEFINE pushed == vm_stack_push(advanced, SET_PTR)
             outer == [pushed EXCEPT !.ptr = SCM_TYPE_NULL]
             inner == vm_stack_push(vm_call_eval(outer, SCM_TYPE_NULL),
                                    tag_primitive("intern_if"))
             paths == scm_cdr(rest)
             yes   == vm_stack_push(inner, scm_car(paths))
             no    == vm_stack_push(yes, scm_car(scm_cdr(paths)))
  <2>1. Safe(vm, pushed)
    BY <1>1, PushSafe
  <2>2. Safe(vm, outer)
    <3> HIDE DEF pushed
    <3> QED BY <2>1, PtrSafe
  <2> HIDE DEF outer
  <2>3. Safe(vm, inner)
    BY <2>2, CallEvalSafe, PushSafe
  <2> HIDE DEF inner
  <2>4. Safe(vm, yes) /\ Safe(vm, no)
    BY <2>3, PushSafe
  <2> HIDE DEF yes, no
  <2>5. /\ Safe(vm, wild(inner))
        /\ Safe(vm, vm_error(inner, "Expected pair (first path)"))
        /\ Safe(vm, vm_error(yes, "Expected pair (second path)"))
        /\ Safe(vm, vm_call_eval(no, scm_car(rest)))
    <3>1. Safe(vm, vm_error(inner, "Expected pair (first path)"))
      BY <2>3, ErrorSafe
    <3>2. Safe(vm, vm_error(yes, "Expected pair (second path)"))
      BY <2>4, ErrorSafe
    <3> QED BY <2>3, <2>4, <3>1, <3>2, WildSafe, CallEvalSafe
  <2>6. \/ vm' = wild(inner)
        \/ vm' = vm_error(inner, "Expected pair (first path)")
        \/ vm' = vm_error(yes, "Expected pair (second path)")
        \/ vm' = vm_call_eval(no, scm_car(rest))
    BY <1>10 DEF HandleIf, outer, inner, yes, no
  <2> QED BY <2>5, <2>6, SafeLeft
<1>11. CASE HandleBegin
  BY <1>1, <1>11, PushSafe, SafeLeft DEF HandleBegin
<1>12. CASE HandleQuote
  BY <1>1, <1>12, ReturnDatumSafe, SafeLeft DEF HandleQuote
<1>13. CASE HandleSyntaxRules
  <2>1. Safe(vm, wild(advanced))
    BY <1>1, WildSafe
  <2>2. \A v : Safe(vm, ReturnDatum(advanced, v))
    BY <1>1, ReturnDatumSafe
  <2>3. vm' = wild(advanced) \/ \E v : vm' = ReturnDatum(advanced, v)
    BY <1>13 DEF HandleSyntaxRules
  <2> QED BY <2>1, <2>2, <2>3, SafeLeft
<1>14. CASE ExpandMacro
  <2> DEFINE started == ReturnDatum(advanced, SCM_TYPE_NULL)
             failed  == vm_error(started, "no matching syntax definition")
  <2>1. PICK matched, v :
            /\ matched = started \/ matched = failed
            /\ \/ vm' = wild(started)
               \/ vm' = vm_stack_push(
                            vm_call_eval(ReturnDatum(matched, SCM_TYPE_NULL), v),
                            tag_primitive("return_last"))
    BY <1>14 DEF ExpandMacro
  <2>2. Safe(vm, started)
    BY <1>1, ReturnDatumSafe
  <2> HIDE DEF started
  <2>3. Safe(vm, failed)
    BY <2>2, ErrorSafe
  <2> HIDE DEF failed
  <2>4. Safe(vm, ReturnDatum(matched, SCM_TYPE_NULL))
    BY <2>1, <2>2, <2>3, ReturnDatumSafe
  <2> QED BY <2>1, <2>2, <2>4, WildSafe, CallEvalSafe, PushSafe, SafeLeft
<1> QED BY <1>2, <1>3, <1>4, <1>5, <1>6, <1>7, <1>8, <1>9, <1>10, <1>11, <1>12,
           <1>13, <1>14 DEF Interpret

(* The frame do_call starts is within the caller's, because the operation  *)
(* has been supplied with the operands that it counts (vm_ops.c:199-215).  *)
LEMMA DoCallLeft ==
    ASSUME Safe(vm, vm), OpDoCall, arg <= vm.argnum PROVE Left(vm, vm')
<1>1. \/ arg \in Nat /\ vm.callp \in DOMAIN vm.calls /\ vm_call_apply(Callee)
      \/ vm' = wild(vm)
  BY DEF OpDoCall, Callee, CallerFrame
<1>2. CASE arg \in Nat /\ vm.callp \in DOMAIN vm.calls /\ vm_call_apply(Callee)
  <2> DEFINE r == Callee
  <2>1. /\ vm.sp \in Int /\ vm.argnum \in Int /\ arg \in Int
        /\ base(vm) = vm.sp - vm.argnum /\ Sound({}, vm)
    BY <1>2 DEF Safe, Sound, Machine, base
  <2>2. CallerFrame.argnum = arg /\ CallerFrame.argnum >= 0
    BY <1>2, <2>1 DEF CallerFrame
  <2>3. Sound({}, r)
    BY <1>2, <2>1, CalleeSound
  <2>4. /\ r.stack = vm.stack /\ r.sp = vm.sp
        /\ r.argnum = vm.sp - (base(vm) + arg)
        /\ r.callp = vm.callp + 1
        /\ r.calls = [vm.calls EXCEPT ![vm.callp] = CallerFrame]
    BY <2>1 DEF Sound, Machine, VmFields, Callee
  <2> HIDE DEF r
  <2>5. r.argnum >= 0 /\ base(vm) <= base(r)
    BY <1>2, <2>1, <2>4 DEF base
  <2>6. Safe(vm, r)
    BY <1>2, <2>2, <2>3, <2>4, <2>5, FrameSafe
  <2> QED BY <1>2, <2>6, ApplySafe, SafeLeft DEF r
<1> QED BY <1>1, <1>2, WildSafe, SafeLeft

(* do_tailcall writes to the frame's own slots (vm_ops.c:217-234).         *)
LEMMA DoTailcallLeft ==
    ASSUME Safe(vm, vm), OpDoTailcall PROVE Left(vm, vm')
<1>1. /\ arg \in Nat
      /\ \/ /\ vm.argnum - arg >= 0 /\ vm.sp <= StackSize
            /\ vm_call_apply(MovedDown)
         \/ vm' = wild(vm)
  BY DEF OpDoTailcall, MovedDown, MovedStack
<1>2. CASE /\ vm.argnum - arg >= 0 /\ vm.sp <= StackSize
           /\ vm_call_apply(MovedDown)
  <2> DEFINE r == MovedDown
  <2>1. /\ vm.sp \in Int /\ vm.argnum \in Int /\ arg \in Int
        /\ base(vm) \in Int /\ vm.sp = base(vm) + vm.argnum /\ Sound({}, vm)
    BY <1>1 DEF Safe, Sound, Machine, base
  <2>2. \A i \in 0 .. base(vm) - 1 : MovedStack[i] = vm.stack[i]
    <3>1. DOMAIN vm.stack = 0 .. StackSize - 1 /\ base(vm) <= StackSize
      BY <1>1, <1>2, <2>1, VMAssumption DEF Sound, Machine
    <3>2. ASSUME NEW i \in 0 .. base(vm) - 1
          PROVE  /\ i \in DOMAIN vm.stack
                 /\ i \notin base(vm) .. base(vm) + (vm.argnum - arg) - 1
      BY <2>1, <3>1, VMAssumption
    <3> QED BY <3>2 DEF MovedStack
  <2>3. Sound({}, r)
    BY <1>1, <2>1, MovedDownSound
  <2>4. /\ r.stack = MovedStack /\ r.sp = base(vm) + (vm.argnum - arg)
        /\ r.argnum = vm.argnum - arg /\ r.callp = vm.callp /\ r.calls = vm.calls
    BY <2>1 DEF Sound, Machine, VmFields, MovedDown
  <2> HIDE DEF r
  <2>5. base(r) = base(vm) /\ r.argnum >= 0
    BY <1>2, <2>1, <2>4 DEF base
  <2>6. Safe(vm, r)
    BY <2>2, <2>3, <2>4, <2>5, KeptSafe
  <2> QED BY <1>2, <2>6, ApplySafe, SafeLeft DEF r
<1> QED BY <1>1, <1>2, WildSafe, SafeLeft

(* return_last writes the last operand into the first slot, even when it   *)
(* was given none, and leaves the frame (vm_ops.c:152-161).                *)
LEMMA OpReturnLastLeft ==
    ASSUME Safe(vm, vm), OpReturnLast PROVE Left(vm, vm')
<1> DEFINE n == pop(vm, 1)
           r == store(n, base(vm), top(vm))
<1>1. vm' = vm_call_return(r)
  BY DEF OpReturnLast
<1>2. Sound({}, n) /\ Sound({}, r)
  BY PopSound, StoreSound DEF Safe
<1>3. n.calls = vm.calls /\ n.callp = vm.callp /\ n.stack = vm.stack
  BY DEF pop, wild, Safe, Sound, Machine, VmFields
<1> HIDE DEF n
<1>4. /\ r.calls = n.calls /\ r.callp = n.callp
      /\ \A i \in 0 .. base(vm) - 1 : r.stack[i] = n.stack[i]
  <2>1. base(vm) \in Int
    BY DEF Safe, Sound, Machine, base
  <2> QED BY <1>2, <2>1 DEF store, wild, Sound, Machine, VmFields
<1> HIDE DEF r
<1>5. Machine(r) /\ Apart(vm, r)
  BY <1>2, <1>3, <1>4 DEF Sound, Apart
<1>6. \A k \in 0 .. r.callp - 1 : r.calls[k].argnum >= 0
  BY <1>3, <1>4 DEF Safe, Counted
<1> QED BY <1>1, <1>5, <1>6, ReturnLeft

(* What an instruction needs of its frame.                                 *)
Given ==
    /\ OpJumpIfFalse \/ OpRead => vm.argnum >= 1
    /\ OpDoCall => arg <= vm.argnum

(* Supplied says no less while nothing has failed.                         *)
LEMMA SuppliedGiven == ASSUME Supplied, Evaluating PROVE Given
BY DEF Supplied, Given, OpJumpIfFalse, OpRead, OpDoCall

(* A turn of threaded code works above the callers of the current frame,   *)
(* whatever code the compiler has generated, as long as it is supplied.    *)
LEMMA ExecuteLeft == ASSUME Safe(vm, vm), Execute, Given PROVE Left(vm, vm')
<1> USE SafeLeft
<1>0. vm.argnum \in Int /\ \A m : Safe(vm, m) => Safe(vm, next(m))
  <2>1. vm.argnum \in Int
    BY DEF Safe, Machine
  <2> QED BY <2>1, PtrSafe DEF next
<1>1. CASE OpReturn
  BY <1>1, SafeReturnLeft DEF OpReturn
<1>2. CASE OpReturnLast
  BY <1>2, OpReturnLastLeft
<1>3. CASE OpJump
  BY <1>3, PtrSafe DEF OpJump
<1>4. CASE OpJumpIfFalse
  <2> DEFINE popped == pop(vm, 1)
  <2>1. Safe(vm, popped)
    BY <1>0, <1>4, PopSafe, 1 \in Int DEF Given
  <2> HIDE DEF popped
  <2>2. Safe(vm, [popped EXCEPT !.ip = arg]) /\ Safe(vm, next(popped))
    BY <1>0, <2>1, PtrSafe
  <2>3. vm' = [popped EXCEPT !.ip = arg] \/ vm' = next(popped)
    BY <1>4 DEF OpJumpIfFalse, popped
  <2> QED BY <2>2, <2>3
<1>5. CASE OpClosureRef
  BY <1>0, <1>5, PushSafe DEF OpClosureRef
<1>6. CASE OpStackRef
  BY <1>0, <1>6, PushSafe, WildSafe DEF OpStackRef
<1>7. CASE OpPushConst
  BY <1>0, <1>7, PushSafe DEF OpPushConst
<1>8. CASE OpDoCall
  BY <1>8, DoCallLeft DEF Given
<1>9. CASE OpDoTailcall
  BY <1>9, DoTailcallLeft
<1>10. CASE OpAdd \/ OpSub \/ OpMul \/ OpDiv
  BY <1>0, <1>10, ArithmeticSafe DEF OpAdd, OpSub, OpMul, OpDiv, Primitive
<1>11. CASE OpCons \/ OpCar \/ OpCdr \/ OpIsNull \/ OpIsPair \/ OpIf
  BY <1>0, <1>11, ListOperationsSafe
  DEF OpCons, OpCar, OpCdr, OpIsNull, OpIsPair, OpIf, Primitive
<1>12. CASE OpLessThan \/ OpGreaterThan \/ OpEqual
  <2>1. \E b : vm' = next(compare(vm, b))
    BY <1>12 DEF OpLessThan, OpGreaterThan, OpEqual, Primitive
  <2> QED BY <1>0, <2>1, ListOperationsSafe
<1>13. CASE OpInternDefine \/ OpInternSet
  <2> DEFINE popped == pop(vm, 2)
             few    == vm_error(vm, "Invalid number of arguments for define")
             wrong  == vm_error(popped, "Invalid value type given to define")
  <2>1. vm.argnum = 3 => Safe(vm, popped)
    BY PopSafe, 2 \in Int, 2 <= 3
  <2> HIDE DEF popped
  <2>2. Safe(vm, few)
    BY ErrorSafe
  <2>3. vm.argnum = 3 => Safe(vm, wrong)
    BY <2>1, ErrorSafe
  <2> HIDE DEF few, wrong
  <2>4. \/ vm' = next(few)
        \/ vm.argnum = 3 /\ (vm' = next(popped) \/ vm' = next(wrong))
    BY <1>13 DEF OpInternDefine, OpInternSet, InternBinding, popped, few, wrong
  <2> QED BY <1>0, <2>1, <2>2, <2>3, <2>4
<1>14. CASE OpDisplay \/ OpNewline
  <2>1. vm.argnum = 2 => Safe(vm, pop(vm, 1))
    BY PopSafe, 1 \in Int, 1 <= 2
  <2>2. vm' = next(vm) \/ (vm.argnum = 2 /\ vm' = next(pop(vm, 1)))
    BY <1>14 DEF OpDisplay, OpNewline
  <2> QED BY <1>0, <2>1, <2>2
<1>15. CASE OpRead
  <2>1. \E v : vm' = next(result(vm, 1, v))
    BY <1>15 DEF OpRead
  <2>2. vm.argnum >= 1
    BY <1>15 DEF Given
  <2>3. \A v : Safe(vm, result(vm, 1, v))
    BY <1>0, <2>2, ResultSafe, 1 \in Int
  <2> QED BY <1>0, <2>1, <2>3
<1> QED BY <1>1, <1>2, <1>3, <1>4, <1>5, <1>6, <1>7, <1>8, <1>9, <1>10, <1>11, <1>12,
           <1>13, <1>14, <1>15 DEF Execute

(* While no error has been reported no count is negative.                  *)
CInv == Errors = {} /\ vm.running => Counted(vm)

(* The machine as it is while it evaluates is above its own callers.       *)
LEMMA SafeSelf ==
    ASSUME IInv, CInv, Errors = {}, vm.running PROVE Safe(vm, vm)
<1>1. Sound({}, vm) /\ Machine(vm) /\ Counted(vm)
  BY DEF IInv, CInv, Settled, Sound
<1>2. base(vm) \in Int /\ vm.callp \in Int
  BY <1>1, VMAssumption DEF Machine, base
<1> QED BY <1>1, <1>2 DEF Safe, Apart

(* What every turn of vm_run does, while nothing has failed.               *)
LEMMA TurnLeft ==
    ASSUME IInv, CInv, Supplied, Errors = {}, vm.running, phase = "run",
           Interpret \/ Execute
    PROVE  Left(vm, vm')
<1>1. Safe(vm, vm)
  BY SafeSelf
<1>2. Evaluating
  BY DEF Evaluating, NoErrorReported, Errors
<1> QED BY <1>1, <1>2, SuppliedGiven, InterpretLeft, ExecuteLeft

(* Initially nothing runs; an evaluation starts with an empty frame.       *)
LEMMA InitCInv == Init => CInv
BY DEF Init, vm_init, CInv

(* Every step that is supplied keeps the counts.                           *)
LEMMA NextCInv == IInv /\ CInv /\ Supplied /\ [Next]_vars => CInv'
<1> SUFFICES ASSUME IInv, CInv, Supplied, [Next]_vars PROVE CInv'
  OBVIOUS
<1>1. CASE ReadExpression
  <2>1. PICK v : /\ out' = Append(out, event("read", v)) /\ vm' = evaluate(vm, v)
    BY <1>1 DEF ReadExpression
  <2>2. Errors' = {} => Errors = {}
    BY <2>1, ErrorsGrow DEF IInv
  <2>3. /\ vm'.argnum = 0 /\ vm'.callp = vm.callp
    BY <2>1 DEF IInv, TypeOK, Machine, evaluate, VmFields
  <2>4. Errors = {} => vm.callp = 0
    BY <1>1 DEF IInv, ReadExpression
  <2> QED BY <2>2, <2>3, <2>4 DEF CInv, Counted
<1>2. CASE Interpret \/ Execute
  <2>1. /\ phase = "run" /\ vm.running
        /\ \E v : out' = out \/ out' = Append(out, v)
    BY <1>2, TurnRuns DEF driver, Show
  <2>2. Errors' = {} => Errors = {}
    BY <2>1, ErrorsGrow DEF IInv
  <2> QED BY <1>2, <2>1, <2>2, TurnLeft DEF CInv, Left
<1>3. CASE ReplReply
  <2>1. vm.errormsg = "none" => vm' = vm
    BY <1>3 DEF ReplReply
  <2>2. ~ vm.running
    BY <1>3 DEF ReplReply, Returned
  <2>3. Errors' = {} => vm.errormsg = "none"
    BY <1>3, ReplyRecorded DEF IInv
  <2> QED BY <2>1, <2>2, <2>3 DEF CInv
<1>4. CASE FileNext
  BY <1>4 DEF FileNext, Returned, CInv
<1>5. CASE Terminated \/ UNCHANGED vars
  BY <1>5 DEF Terminated, vars, CInv, Errors, Counted
<1> QED BY <1>1, <1>2, <1>3, <1>4, <1>5 DEF Next, Answer

(* What the callers have saved is left alone by every step that is         *)
(* supplied with the operands it takes, for every program, every size of   *)
(* the stacks and every code generator (vm_ops.h:26-61).                   *)
THEOREM CallersStayUntouched == Spec /\ []Supplied => SuspendedUntouched
<1> DEFINE Untouched ==
             /\ \A k \in 0 .. vm.callp - 1 : vm'.calls[k] = vm.calls[k]
             /\ \A i \in 0 .. frame_base(vm, vm.callp) - 1 : vm'.stack[i] = vm.stack[i]
<1>1. IInv /\ CInv /\ Supplied /\ [Next]_vars
        => [Evaluating /\ ~ vm'.fault => Untouched]_vars
  <2> SUFFICES ASSUME IInv, CInv, Supplied, Next, Evaluating PROVE Untouched
    BY DEF vars
  <2>1. Errors = {} /\ phase = "run" /\ vm.running
    BY DEF Evaluating, NoErrorReported, Errors
  <2>2. CASE Interpret \/ Execute
    <3>1. Left(vm, vm')
      BY <2>1, <2>2, TurnLeft
    <3>2. base(vm) = frame_base(vm, vm.callp)
      BY <2>1 DEF IInv, Settled, Chained
    <3> QED BY <3>1, <3>2 DEF Left, Apart
  <2>3. CASE Terminated
    BY <2>3 DEF Terminated, vars
  <2> QED BY <2>1, <2>2, <2>3 DEF Next, ReadExpression, Answer, ReplReply, FileNext,
          Returned
<1>2. Spec => []IInv
  BY Invariance
<1> HIDE DEF Untouched
<1> QED BY <1>1, <1>2, InitCInv, NextCInv, PTL DEF Spec, SuspendedUntouched, Untouched

-----------------------------------------------------------------------------
(* Threaded code, instruction by instruction.  Code that fits a height at  *)
(* each instruction (Fits) is never run with fewer operands than that: at  *)
(* ip by the frame that runs, and by every suspended caller at the ip that *)
(* it saved, counting the value it waits for.                              *)

(* Function f can go on at ip, among the closures K, in a frame that       *)
(* counts n.                                                               *)
Ready(K, f, ip, n) ==
    \/ /\ f \in {tag_primitive(p) : p \in Builtins}
       /\ \/ ip = 0 /\ (f = tag_primitive("read") => n >= 1)
          \/ ip = 1 /\ f # tag_primitive("return_last")
    \/ /\ f.t = "closure" /\ f.id \in DOMAIN K /\ K[f.id].compiled
       /\ ip \in Nat /\ ip + 1 \in DOMAIN K[f.id].code
       /\ Heights(K[f.id])[ip + 1] \in 0 .. n

(* Every caller that waits in threaded code can go on when it gets its     *)
(* value.                                                                  *)
Resumable(K, m) ==
    \A k \in 0 .. m.callp - 1 :
        m.calls[k].runmode = "compiled"
            => Ready(K, m.calls[k].closure, m.calls[k].ip, m.calls[k].argnum + 1)

(* And so can the frame that runs, unless it has just been entered, which  *)
(* is what Entered is about.                                               *)
Ahead(K, m) ==
    m.runmode = "compiled" /\ m.ip # 0 => Ready(K, m.closure, m.ip, m.argnum)

(* No closure that is compiled changes any more.                           *)
CodeKept(K, L) ==
    \A id \in DOMAIN K : K[id].compiled => id \in DOMAIN L /\ L[id] = K[id]

(* So what could go on still can.                                          *)
LEMMA KeptReady ==
    ASSUME NEW K, NEW L, CodeKept(K, L), NEW f, NEW ip, NEW n, Ready(K, f, ip, n)
    PROVE  Ready(L, f, ip, n)
BY DEF CodeKept, Ready

LEMMA KeptResumable ==
    ASSUME NEW K, NEW L, CodeKept(K, L), NEW m, Resumable(K, m) PROVE Resumable(L, m)
BY KeptReady DEF Resumable

(* The fields that say who runs and who waits.                             *)
Same(o, m) ==
    /\ DOMAIN m = VmFields
    /\ m.calls = o.calls /\ m.callp = o.callp
    /\ m.closure = o.closure /\ m.runmode = o.runmode /\ m.ip = o.ip

(* Moving operands, an error and a fault leave them alone.                 *)
LEMMA OperandsSame ==
    ASSUME NEW o, NEW m, Same(o, m)
    PROVE  /\ Same(o, wild(m))
           /\ \A msg : Same(o, vm_error(m, msg))
           /\ \A i, v : Same(o, store(m, i, v))
           /\ \A v : Same(o, vm_stack_push(m, v))
           /\ \A n : Same(o, pop(m, n))
           /\ \A n, v : Same(o, result(m, n, v))
           /\ \A p : Same(o, [m EXCEPT !.ptr = p])
<1>1. ASSUME NEW r, Same(o, r)
      PROVE  /\ Same(o, wild(r))
             /\ \A i, v : Same(o, store(r, i, v))
  BY <1>1 DEF Same, VmFields, wild, store
<1>2. ASSUME NEW r, Same(o, r), NEW v PROVE Same(o, vm_stack_push(r, v))
  <2> DEFINE n == store(r, r.sp, v)
  <2>1. Same(o, n)
    BY <1>1, <1>2
  <2> HIDE DEF n
  <2>2. Same(o, [n EXCEPT !.sp = @ + 1, !.argnum = @ + 1])
    BY <2>1 DEF Same, VmFields
  <2> QED BY <2>2 DEF vm_stack_push, n
<1>3. ASSUME NEW n PROVE Same(o, pop(m, n))
  <2>1. CASE n > m.sp
    <3> DEFINE w == wild(m)
    <3>1. Same(o, w)
      BY <1>1
    <3> HIDE DEF w
    <3>2. Same(o, [w EXCEPT !.sp = @ - n, !.argnum = @ - n])
      BY <3>1 DEF Same, VmFields
    <3> QED BY <2>1, <3>1, <3>2 DEF pop, w
  <2>2. CASE ~ (n > m.sp)
    BY <2>2 DEF Same, VmFields, pop
  <2> QED BY <2>1, <2>2
<1>4. ASSUME NEW n, NEW v PROVE Same(o, result(m, n, v))
  BY <1>2, <1>3 DEF result
<1>5. /\ \A msg : Same(o, vm_error(m, msg))
      /\ \A p : Same(o, [m EXCEPT !.ptr = p])
  BY DEF Same, VmFields, vm_error
<1> QED BY <1>1, <1>2, <1>3, <1>4, <1>5

(* The frames are where they should be.                                    *)
Framed(m) ==
    /\ DOMAIN m = VmFields
    /\ m.callp \in 0 .. CallsSize /\ DOMAIN m.calls = 0 .. CallsSize - 1

LEMMA MachineFramed == ASSUME NEW m, Machine(m) PROVE Framed(m) /\ Same(m, m)
BY DEF Machine, Framed, Same

(* What the callers wait for is told by the frames alone.                  *)
LEMMA SameResumable ==
    ASSUME NEW K, NEW o, NEW m, Resumable(K, o), Framed(o), Same(o, m)
    PROVE  Resumable(K, m) /\ Framed(m)
BY DEF Resumable, Framed, Same

(* A caller of the interpreter waits in no code (vm_ops.h:26-40).          *)
LEMMA CallEvalResumable ==
    ASSUME NEW K, NEW m, Framed(m), Resumable(K, m), NEW p
    PROVE  LET r == vm_call_eval(m, p)
           IN  Framed(r) /\ Resumable(K, r) /\ r.runmode = m.runmode
<1> DEFINE r == vm_call_eval(m, p)
<1>1. CASE m.callp \notin DOMAIN m.calls
  <2>1. Same(m, m)
    BY DEF Same, Framed
  <2>2. Same(m, r)
    BY <1>1, <2>1, OperandsSame DEF vm_call_eval
  <2> QED BY <2>2, SameResumable DEF Same
<1>2. CASE m.callp \in DOMAIN m.calls
  <2>1. /\ DOMAIN r = VmFields /\ r.callp = m.callp + 1 /\ r.runmode = m.runmode
        /\ DOMAIN r.calls = DOMAIN m.calls
        /\ \A k \in DOMAIN m.calls : k # m.callp => r.calls[k] = m.calls[k]
        /\ r.calls[m.callp].runmode = "interp"
    BY <1>2 DEF vm_call_eval, Framed, VmFields
  <2> HIDE DEF r
  <2>2. r.callp \in 0 .. CallsSize
    BY <1>2, <2>1, VMAssumption DEF Framed
  <2>3. ASSUME NEW k \in 0 .. r.callp - 1, k # m.callp
        PROVE  k \in 0 .. m.callp - 1 /\ k \in DOMAIN m.calls
    BY <2>1, <2>3, VMAssumption DEF Framed
  <2>4. Resumable(K, r)
    BY <2>1, <2>3 DEF Resumable
  <2> QED BY <2>1, <2>2, <2>4 DEF r, Framed
<1> QED BY <1>1, <1>2

(* How a turn leaves a machine that goes on.                               *)
Going(K, m) == m.running => Ahead(K, m) /\ Resumable(K, m)

(* A return goes on with the caller (vm_ops.h:42-61).                      *)
LEMMA ReturnGoing ==
    ASSUME NEW K, NEW m, Framed(m), Resumable(K, m) PROVE Going(K, vm_call_return(m))
<1> DEFINE r == vm_call_return(m)
<1>1. CASE m.callp = 0
  <2>1. r.running = FALSE
    BY <1>1 DEF vm_call_return, halt, Framed, VmFields
  <2> QED BY <2>1 DEF Going
<1>2. CASE m.callp # 0
  <2> DEFINE frame == m.calls[m.callp - 1]
  <2>1. /\ m.callp - 1 \in 0 .. m.callp - 1 /\ m.callp - 1 \in 0 .. CallsSize
        /\ \A k \in 0 .. m.callp - 2 : k \in 0 .. m.callp - 1
    BY <1>2, VMAssumption DEF Framed
  <2>2. /\ r.callp = m.callp - 1 /\ r.calls = m.calls
        /\ r.closure = frame.closure /\ r.runmode = frame.runmode
        /\ r.argnum = frame.argnum + 1
        /\ frame.runmode = "compiled" => r.ip = frame.ip
    BY <1>2 DEF vm_call_return, Framed, VmFields
  <2> HIDE DEF r
  <2>3. Ahead(K, r)
    BY <2>1, <2>2 DEF Ahead, Resumable
  <2>4. Resumable(K, r)
    BY <2>1, <2>2 DEF Resumable, Framed
  <2>5. Going(K, r)
    BY <2>3, <2>4 DEF Going
  <2> QED BY <2>5 DEF r
<1> QED BY <1>1, <1>2

(* An error or a fault ends the evaluation.                                *)
LEMMA StoppedGoing ==
    ASSUME NEW K, NEW m, DOMAIN m = VmFields
    PROVE  /\ Going(K, wild(m))
           /\ \A msg : Going(K, vm_error(m, msg))
BY DEF Going, wild, vm_error, VmFields

(* Applying enters code at its start or walks a definition; in the         *)
(* interpreter set-ptr goes on walking (vm_ops.c:87-143).                  *)
LEMMA ApplyGoing ==
    ASSUME NEW m, Framed(m), Resumable(closures, m), vm_call_apply(m),
           CodeKept(closures, closures'),
           \/ m.runmode = "interp" \/ m.ip = 0 \/ slot(m, 0) # SET_PTR
    PROVE  Going(closures', vm')
<1>0. /\ Same(m, m) /\ Resumable(closures', m)
  BY KeptResumable DEF Same, Framed
<1>1. CASE ApplyCompiled(m)
  <2>1. /\ vm'.callp = m.callp /\ vm'.calls = m.calls /\ vm'.ip = 0
    BY <1>1 DEF ApplyCompiled, Framed, VmFields
  <2> QED BY <1>0, <2>1 DEF Going, Ahead, Resumable
<1>2. CASE ApplyInterpreted(m)
  <2> DEFINE func == slot(m, 0)
             clsr == closures[func.id]
             scope == env_create(envs, clsr.env)
             emptied == pop(m, m.argnum)
             entered == [emptied EXCEPT
                            !.closure = func, !.runmode = "interp",
                            !.env = Len(scope), !.ptr = clsr.definition]
             loaded == vm_load_lambda_args(entered, m.argnum, clsr)
             pushed == vm_stack_push(loaded, tag_primitive("return_last"))
  <2>1. Same(m, emptied)
    BY <1>0, OperandsSame
  <2> HIDE DEF func, clsr, scope, emptied
  <2>2. /\ DOMAIN entered = VmFields /\ entered.runmode = "interp"
        /\ entered.callp = m.callp /\ entered.calls = m.calls
    BY <2>1 DEF Same, VmFields
  <2> HIDE DEF entered
  <2>3. Same(entered, entered)
    BY <2>2 DEF Same
  <2>4. Same(entered, loaded)
    BY <2>3, OperandsSame DEF vm_load_lambda_args
  <2> HIDE DEF loaded
  <2>5. Same(entered, pushed)
    BY <2>4, OperandsSame
  <2> HIDE DEF pushed
  <2>6. Going(closures', pushed)
    BY <1>0, <2>2, <2>5 DEF Going, Ahead, Resumable, Same
  <2>7. \/ vm' = wild(entered)
        \/ \E msg : vm' = vm_error(entered, msg)
        \/ vm' = pushed
    BY <1>2 DEF ApplyInterpreted, func, clsr, scope, emptied, entered, loaded, pushed
  <2> QED BY <2>2, <2>6, <2>7, StoppedGoing
<1>3. CASE ApplySetPtr(m)
  <2> DEFINE popped == pop(m, 2)
             moved == [popped EXCEPT !.ptr = top(m)]
  <2>1. Same(m, popped)
    BY <1>0, OperandsSame
  <2> HIDE DEF popped
  <2>2. Same(m, moved)
    BY <2>1, OperandsSame
  <2> HIDE DEF moved
  <2>3. m.runmode = "interp" \/ m.ip = 0
    BY <1>3 DEF ApplySetPtr
  <2>4. Going(closures', moved)
    BY <1>0, <2>2, <2>3 DEF Going, Ahead, Resumable, Same
  <2>5. (\E msg : vm' = vm_error(m, msg)) \/ vm' = moved
    BY <1>3 DEF ApplySetPtr, popped, moved
  <2> QED BY <2>4, <2>5, StoppedGoing DEF Framed
<1>4. CASE ApplyOther(m)
  <2>1. vm' = wild(m) \/ \E msg : vm' = vm_error(m, msg)
    BY <1>4 DEF ApplyOther
  <2> QED BY <2>1, StoppedGoing DEF Framed
<1> QED BY <1>1, <1>2, <1>3, <1>4 DEF vm_call_apply

(* What a turn does to the closures: nothing, or it makes one (lambda,     *)
(* define), or it counts a call of one that is not compiled and may        *)
(* compile it.                                                             *)
LEMMA ApplyChanges ==
    ASSUME NEW m, vm_call_apply(m)
    PROVE  \/ closures' = closures
           \/ \E id, c : /\ ~ closures[id].compiled
                         /\ closures' = [closures EXCEPT ![id] = c]
BY DEF vm_call_apply, ApplyCompiled, ApplyInterpreted, ApplySetPtr, ApplyOther

LEMMA TurnChanges ==
    ASSUME Interpret \/ Execute
    PROVE  \/ closures' = closures
           \/ \E v : closures' = Append(closures, v)
           \/ \E id, c : /\ ~ closures[id].compiled
                         /\ closures' = [closures EXCEPT ![id] = c]
<1>1. CASE InterpApply \/ OpDoCall \/ OpDoTailcall
  <2>1. closures' = closures \/ \E m : vm_call_apply(m)
    BY <1>1 DEF InterpApply, OpDoCall, OpDoTailcall
  <2> QED BY <2>1, ApplyChanges
<1>2. CASE HandleLambda \/ HandleDefine
  BY <1>2 DEF HandleLambda, HandleDefine
<1>3. CASE \/ InterpEvalOperand \/ InterpPushConstant \/ InterpPushVariable
           \/ InterpUndefined \/ InterpAtom \/ HandleIf \/ HandleBegin
           \/ HandleQuote \/ HandleSyntaxRules \/ ExpandMacro
  BY <1>3 DEF InterpEvalOperand, InterpPushConstant, InterpPushVariable, InterpUndefined,
      InterpAtom, HandleIf, HandleBegin, HandleQuote, HandleSyntaxRules, ExpandMacro
<1>4. CASE \/ OpReturn \/ OpReturnLast \/ OpJump \/ OpJumpIfFalse \/ OpClosureRef
           \/ OpStackRef \/ OpPushConst \/ OpAdd \/ OpSub \/ OpMul \/ OpDiv \/ OpCons
           \/ OpCar \/ OpCdr \/ OpIsNull \/ OpIsPair \/ OpIf \/ OpLessThan
           \/ OpGreaterThan \/ OpEqual \/ OpInternDefine \/ OpInternSet \/ OpDisplay
           \/ OpNewline \/ OpRead
  BY <1>4 DEF OpReturn, OpReturnLast, OpJump, OpJumpIfFalse, OpClosureRef, OpStackRef,
      OpPushConst, OpAdd, OpSub, OpMul, OpDiv, OpCons, OpCar, OpCdr, OpIsNull, OpIsPair,
      OpIf, OpLessThan, OpGreaterThan, OpEqual, OpInternDefine, OpInternSet, OpDisplay,
      OpNewline, OpRead, Primitive, InternBinding
<1> QED BY <1>1, <1>2, <1>3, <1>4 DEF Interpret, Execute

(* So code, once compiled, stays what it is, whoever is suspended in it.   *)
LEMMA TurnKept ==
    ASSUME closures \in Seq({closures[i] : i \in DOMAIN closures}), Interpret \/ Execute
    PROVE  /\ CodeKept(closures, closures')
           /\ closures' \in Seq({closures'[i] : i \in DOMAIN closures'})
<1>1. CASE closures' = closures
  BY <1>1 DEF CodeKept
<1>2. CASE \E v : closures' = Append(closures, v)
  <2>1. /\ closures' \in Seq({closures'[i] : i \in DOMAIN closures'})
        /\ DOMAIN closures \subseteq DOMAIN closures'
        /\ \A i \in DOMAIN closures : closures'[i] = closures[i]
    BY <1>2, Recorded
  <2> QED BY <2>1 DEF CodeKept
<1>3. CASE \E id, c : /\ ~ closures[id].compiled
                      /\ closures' = [closures EXCEPT ![id] = c]
  <2>1. PICK id, c : /\ ~ closures[id].compiled
                     /\ closures' = [closures EXCEPT ![id] = c]
    BY <1>3
  <2>2. CodeKept(closures, closures')
    BY <2>1 DEF CodeKept
  <2>3. /\ DOMAIN closures' = DOMAIN closures
        /\ DOMAIN closures = 1 .. Len(closures) /\ Len(closures) \in Nat
    BY <2>1, LenProperties
  <2> DEFINE T == {closures'[i] : i \in DOMAIN closures'}
  <2>4. closures' \in [1 .. Len(closures) -> T]
    BY <2>1, <2>3
  <2> HIDE DEF T
  <2>5. closures' \in Seq(T)
    BY <2>3, <2>4, SeqDef
  <2> QED BY <2>2, <2>5 DEF T
<1> QED BY <1>1, <1>2, <1>3, TurnChanges

(* The interpreter in the middle of a turn.                                *)
Walks(K, m) == Framed(m) /\ Resumable(K, m) /\ m.runmode = "interp"

LEMMA SameWalks ==
    ASSUME NEW K, NEW m, Walks(K, m)
    PROVE  /\ Going(K, m)
           /\ Going(K, vm_call_return(m))
           /\ \A r : Same(m, r) => Walks(K, r)
           /\ \A p : Walks(K, vm_call_eval(m, p))
<1>1. Same(m, m)
  BY DEF Same, Walks, Framed
<1>2. \A r : Same(m, r) => Walks(K, r)
  BY SameResumable DEF Walks, Same
<1>3. Going(K, m) /\ Going(K, vm_call_return(m))
  BY ReturnGoing DEF Walks, Going, Ahead
<1>4. ASSUME NEW p PROVE Walks(K, vm_call_eval(m, p))
  BY CallEvalResumable DEF Walks
<1> QED BY <1>2, <1>3, <1>4

LEMMA WalksOn ==
    ASSUME NEW K, NEW m, Walks(K, m)
    PROVE  /\ Walks(K, wild(m))
           /\ \A msg : Walks(K, vm_error(m, msg))
           /\ \A i, v : Walks(K, store(m, i, v))
           /\ \A v : Walks(K, vm_stack_push(m, v))
           /\ \A p : Walks(K, [m EXCEPT !.ptr = p])
           /\ \A v : Walks(K, ReturnDatum(m, v))
<1>1. Same(m, m)
  BY DEF Same, Walks, Framed
<1>2. ASSUME NEW v PROVE Same(m, ReturnDatum(m, v))
  <2> DEFINE one == vm_stack_push(m, tag_primitive("return_last"))
             two == vm_stack_push(one, v)
  <2>1. Same(m, one)
    BY <1>1, OperandsSame
  <2> HIDE DEF one
  <2>2. Same(m, two)
    BY <2>1, OperandsSame
  <2> HIDE DEF two
  <2>3. Same(m, [two EXCEPT !.ptr = SCM_TYPE_NULL])
    BY <2>2, OperandsSame
  <2> QED BY <2>3 DEF ReturnDatum, two, one
<1> QED BY <1>1, <1>2, OperandsSame, SameWalks

(* A turn of the interpreter goes on with an expression, enters code, or   *)
(* returns to a caller that can go on.                                     *)
LEMMA InterpretGoing ==
    ASSUME Machine(vm), Resumable(closures, vm), CodeKept(closures, closures'), Interpret
    PROVE  Going(closures', vm')
<1> DEFINE K == closures'
<1>0. /\ vm.runmode = "interp" /\ Framed(vm)
      /\ Walks(K, vm) /\ Walks(K, advanced)
  <2>1. vm.runmode = "interp"
    BY DEF Interpret, InterpEvalOperand, InterpPushConstant, InterpPushVariable,
        InterpUndefined, InterpAtom, InterpApply, HandleLambda, HandleDefine, HandleIf,
        HandleBegin, HandleQuote, HandleSyntaxRules, ExpandMacro, SpecialForm, Symbol,
        Operand, Interpreting
  <2>2. Walks(K, vm)
    BY <2>1, KeptResumable, MachineFramed DEF Walks
  <2>3. Walks(K, advanced)
    BY <2>2, WalksOn DEF advanced
  <2> QED BY <2>1, <2>2, <2>3, MachineFramed
<1>7. CASE InterpApply
  BY <1>0, <1>7, ApplyGoing DEF InterpApply
<1> HIDE DEF K
<1> SUFFICES Going(K, vm')
  BY DEF K
<1>1. ASSUME NEW m, Walks(K, m) PROVE Going(K, m) /\ Going(K, vm_call_return(m))
  BY <1>1, SameWalks
<1>2. CASE InterpEvalOperand
  BY <1>0, <1>1, <1>2, SameWalks DEF InterpEvalOperand
<1>3. CASE InterpPushConstant \/ InterpPushVariable
  BY <1>0, <1>1, <1>3, WalksOn DEF InterpPushConstant, InterpPushVariable
<1>4. CASE InterpUndefined
  <2>1. \E msg : vm' = vm_error(advanced, msg)
    BY <1>4 DEF InterpUndefined
  <2> QED BY <1>0, <1>1, <2>1, WalksOn
<1>6. CASE InterpAtom
  <2>1. PICK looked, datum :
            /\ looked = vm \/ looked = vm_error(vm, "undefined symbol")
            /\ vm' = vm_call_return(store(looked, vm.sp, datum))
    BY <1>6 DEF InterpAtom
  <2>2. Walks(K, looked)
    BY <1>0, <2>1, WalksOn
  <2> QED BY <1>1, <2>1, <2>2, WalksOn
<1>8. CASE HandleLambda
  <2>1. Walks(K, wild(advanced)) /\ Walks(K, vm_stack_push(advanced, tag_closure(New)))
    BY <1>0, WalksOn
  <2>2. \/ vm' = wild(advanced) \/ vm' = advanced
        \/ vm' = vm_call_return(vm_stack_push(advanced, tag_closure(New)))
    BY <1>8 DEF HandleLambda
  <2> QED BY <1>0, <1>1, <2>1, <2>2
<1>9. CASE HandleDefine
  <2>1. PICK pushed, v, w, p :
            /\ \E i : pushed = vm_stack_push(advanced, i)
            /\ \/ vm' = [vm_stack_push(vm_stack_push(pushed, v), w) EXCEPT !.ptr = p]
               \/ vm' = [vm_stack_push(pushed, v) EXCEPT !.ptr = p]
               \/ vm' = wild(pushed)
               \/ vm' = pushed
    BY <1>9 DEF HandleDefine
  <2>2. Walks(K, pushed)
    BY <1>0, <2>1, WalksOn
  <2> DEFINE one == vm_stack_push(pushed, v)
             two == vm_stack_push(one, w)
  <2>3. Walks(K, one)
    BY <2>2, WalksOn
  <2>4. Walks(K, two)
    <3> HIDE DEF one
    <3> QED BY <2>3, WalksOn
  <2> HIDE DEF one, two
  <2>5. Walks(K, [one EXCEPT !.ptr = p]) /\ Walks(K, [two EXCEPT !.ptr = p])
    BY <2>3, <2>4, WalksOn
  <2> QED BY <1>1, <2>1, <2>2, <2>5, WalksOn DEF one, two
<1>10. CASE HandleIf
  <2> DEFINE pushed == vm_stack_push(advanced, SET_PTR)
             outer == [pushed EXCEPT !.ptr = SCM_TYPE_NULL]
             called == vm_call_eval(outer, SCM_TYPE_NULL)
             inner == vm_stack_push(called, tag_primitive("intern_if"))
             paths == scm_cdr(rest)
             yes   == vm_stack_push(inner, scm_car(paths))
             no    == vm_stack_push(yes, scm_car(scm_cdr(paths)))
  <2>1. Walks(K, pushed)
    BY <1>0, WalksOn
  <2>2. Walks(K, outer)
    <3> HIDE DEF pushed
    <3> QED BY <2>1, WalksOn
  <2> HIDE DEF outer
  <2>3. Walks(K, called)
    BY <2>2, SameWalks
  <2> HIDE DEF called
  <2>4. Walks(K, inner)
    BY <2>3, WalksOn
  <2> HIDE DEF inner
  <2>5. Walks(K, yes)
    BY <2>4, WalksOn
  <2> HIDE DEF yes
  <2>6. Walks(K, no)
    BY <2>5, WalksOn
  <2> HIDE DEF no
  <2>7. /\ Walks(K, wild(inner)) /\ \A p : Walks(K, vm_call_eval(no, p))
        /\ \A msg : Walks(K, vm_error(inner, msg)) /\ Walks(K, vm_error(yes, msg))
    BY <2>4, <2>5, <2>6, SameWalks, WalksOn
  <2>8. \/ vm' = wild(inner)
        \/ \E msg : vm' = vm_error(inner, msg)
        \/ \E msg : vm' = vm_error(yes, msg)
        \/ vm' = vm_call_eval(no, scm_car(rest))
    BY <1>10 DEF HandleIf, outer, called, inner, yes, no
  <2> QED BY <1>1, <2>7, <2>8
<1>11. CASE HandleBegin \/ HandleQuote
  BY <1>0, <1>1, <1>11, WalksOn DEF HandleBegin, HandleQuote
<1>13. CASE HandleSyntaxRules
  <2>1. vm' = wild(advanced) \/ \E v : vm' = ReturnDatum(advanced, v)
    BY <1>13 DEF HandleSyntaxRules
  <2> QED BY <1>0, <1>1, <2>1, WalksOn
<1>14. CASE ExpandMacro
  <2> DEFINE started == ReturnDatum(advanced, SCM_TYPE_NULL)
  <2>1. PICK matched, v :
            /\ matched = started \/ \E msg : matched = vm_error(started, msg)
            /\ \/ vm' = wild(started)
               \/ vm' = vm_stack_push(
                            vm_call_eval(ReturnDatum(matched, SCM_TYPE_NULL), v),
                            tag_primitive("return_last"))
    BY <1>14 DEF ExpandMacro
  <2>2. Walks(K, started)
    BY <1>0, WalksOn
  <2> HIDE DEF started
  <2>3. Walks(K, matched)
    BY <2>1, <2>2, WalksOn
  <2>4. Walks(K, ReturnDatum(matched, SCM_TYPE_NULL))
    BY <2>3, WalksOn
  <2>5. Walks(K, vm_call_eval(ReturnDatum(matched, SCM_TYPE_NULL), v))
    BY <2>4, SameWalks
  <2>6. Walks(K, wild(started))
    BY <2>2, WalksOn
  <2> QED BY <1>1, <2>1, <2>5, <2>6, WalksOn
<1> QED BY <1>2, <1>3, <1>4, <1>6, <1>7, <1>8, <1>9, <1>10, <1>11, <1>13, <1>14
        DEF Interpret, K

(* The operations of builtin procedures leave the frames alone too.        *)
LEMMA OperationsSame ==
    ASSUME NEW m, Same(m, m)
    PROVE  /\ Same(m, vm_op_add(m)) /\ Same(m, vm_op_sub(m))
           /\ Same(m, vm_op_mul(m)) /\ Same(m, vm_op_div(m))
           /\ Same(m, vm_op_cons(m)) /\ Same(m, vm_op_car(m))
           /\ Same(m, vm_op_cdr(m)) /\ Same(m, vm_op_is_null(m))
           /\ Same(m, vm_op_is_pair(m)) /\ Same(m, vm_op_intern_if(m))
           /\ \A b : Same(m, compare(m, b))
<1> USE OperandsSame
<1>0. /\ Same(m, wild(m)) /\ \A n, v : Same(m, result(m, n, v))
      /\ \A n, msg : Same(m, vm_error(m, msg)) /\ Same(m, vm_error(pop(m, n), msg))
  <2>1. ASSUME NEW n, NEW msg PROVE Same(m, vm_error(pop(m, n), msg))
    <3>1. Same(m, pop(m, n))
      OBVIOUS
    <3> QED BY <3>1
  <2> QED BY <2>1
<1>1. Same(m, vm_op_add(m)) /\ Same(m, vm_op_sub(m)) /\ Same(m, vm_op_mul(m))
  BY <1>0 DEF vm_op_add, vm_op_sub, vm_op_mul
<1>2. Same(m, vm_op_div(m))
  <2>1. \/ vm_op_div(m) = wild(m)
        \/ \E n, msg : vm_op_div(m) = vm_error(pop(m, n), msg)
        \/ \E n, v : vm_op_div(m) = result(m, n, v)
    BY DEF vm_op_div
  <2> QED BY <1>0, <2>1
<1>3. Same(m, vm_op_cons(m))
  <2>1. (\E msg : vm_op_cons(m) = vm_error(m, msg)) \/ \E n, v : vm_op_cons(m) = result(m, n, v)
    BY DEF vm_op_cons
  <2> QED BY <1>0, <2>1
<1>4. Same(m, vm_op_car(m)) /\ Same(m, vm_op_cdr(m))
  <2>1. ASSUME NEW r, r = vm_op_car(m) \/ r = vm_op_cdr(m)
        PROVE  \/ \E msg : r = vm_error(m, msg)
               \/ \E n, msg : r = vm_error(pop(m, n), msg)
               \/ \E n, v : r = result(m, n, v)
    BY <2>1 DEF vm_op_car, vm_op_cdr
  <2> QED BY <1>0, <2>1
<1>5. Same(m, vm_op_is_null(m)) /\ Same(m, vm_op_is_pair(m)) /\ Same(m, vm_op_intern_if(m))
  BY <1>0 DEF vm_op_is_null, vm_op_is_pair, vm_op_intern_if
<1>6. ASSUME NEW b PROVE Same(m, compare(m, b))
  <2>1. (\E msg : compare(m, b) = vm_error(m, msg)) \/ \E n, v : compare(m, b) = result(m, n, v)
    BY DEF compare
  <2> QED BY <1>0, <2>1
<1> QED BY <1>1, <1>2, <1>3, <1>4, <1>5, <1>6

(* The turns that run the C function of a builtin procedure.               *)
Operations ==
    \/ OpAdd \/ OpSub \/ OpMul \/ OpDiv \/ OpCons \/ OpCar \/ OpCdr
    \/ OpIsNull \/ OpIsPair \/ OpIf \/ OpLessThan \/ OpGreaterThan \/ OpEqual
    \/ OpInternDefine \/ OpInternSet \/ OpDisplay \/ OpNewline \/ OpRead

(* They move operands and go on with the next instruction.                 *)
LEMMA OperationsNext ==
    ASSUME Machine(vm), Operations
    PROVE  \E r, func : /\ Executing(func) /\ func \in Builtins \ {"return_last"}
                        /\ Same(vm, r) /\ vm' = next(r)
<1>0. Same(vm, vm)
  BY MachineFramed
<1>1. CASE \/ OpAdd \/ OpSub \/ OpMul \/ OpDiv \/ OpCons \/ OpCar \/ OpCdr
           \/ OpIsNull \/ OpIsPair \/ OpIf \/ OpLessThan \/ OpGreaterThan \/ OpEqual
  <2>1. \E r, func : /\ func \in Builtins \ {"return_last"}
                     /\ Same(vm, r) /\ Primitive(func, r)
    BY <1>0, <1>1, OperationsSame DEF OpAdd, OpSub, OpMul, OpDiv, OpCons, OpCar, OpCdr,
        OpIsNull, OpIsPair, OpIf, OpLessThan, OpGreaterThan, OpEqual, Builtins, Primitives
  <2> QED BY <2>1 DEF Primitive
<1>2. CASE OpInternDefine \/ OpInternSet
  <2>1. \E func, r, n :
            /\ Executing(func) /\ func \in {"intern_define", "intern_set"}
            /\ vm' = next(r)
            /\ \/ r = pop(vm, n)
               \/ \E msg : r = vm_error(vm, msg)
               \/ \E msg : r = vm_error(pop(vm, n), msg)
    BY <1>2 DEF OpInternDefine, OpInternSet, InternBinding
  <2>2. \A n : Same(vm, pop(vm, n))
    BY <1>0, OperandsSame
  <2>3. \A n, msg : Same(vm, vm_error(vm, msg)) /\ Same(vm, vm_error(pop(vm, n), msg))
    BY <1>0, <2>2, OperandsSame
  <2> QED BY <2>1, <2>2, <2>3 DEF Builtins
<1>3. CASE OpDisplay \/ OpNewline
  <2>1. Same(vm, pop(vm, 1))
    BY <1>0, OperandsSame
  <2> QED BY <1>0, <1>3, <2>1 DEF OpDisplay, OpNewline, Builtins, Primitives
<1>4. CASE OpRead
  <2>1. \E v : vm' = next(result(vm, 1, v))
    BY <1>4 DEF OpRead
  <2>2. Executing("read") /\ "read" \in Builtins \ {"return_last"}
    BY <1>4 DEF OpRead, Builtins, Primitives
  <2> QED BY <1>0, <2>1, <2>2, OperandsSame
<1> QED BY <1>1, <1>2, <1>3, <1>4 DEF Operations

(* return_last goes on with the caller, in a builtin procedure of its own  *)
(* or at the end of a closure.                                             *)
LEMMA ReturnLastGoing ==
    ASSUME NEW K, Machine(vm), Resumable(K, vm), OpReturnLast
    PROVE  Going(K, vm')
<1> DEFINE n == pop(vm, 1)
           r == store(n, base(vm), top(vm))
<1>1. Same(vm, n)
  BY MachineFramed, OperandsSame
<1>2. Same(vm, r)
  <2> HIDE DEF n
  <2> QED BY <1>1, OperandsSame
<1>3. vm' = vm_call_return(r)
  BY DEF OpReturnLast
<1> HIDE DEF r
<1>4. Framed(r) /\ Resumable(K, r)
  BY <1>2, MachineFramed, SameResumable
<1> QED BY <1>3, <1>4, ReturnGoing

(* A builtin procedure runs its function and then its return.              *)
LEMMA BuiltinGoing ==
    ASSUME Machine(vm), Resumable(closures', vm), Execute,
           vm.closure \in {tag_primitive(p) : p \in Builtins},
           \/ vm.ip = 0
           \/ vm.ip = 1 /\ vm.closure # tag_primitive("return_last")
    PROVE  Going(closures', vm')
<1>1. PICK p \in Builtins : vm.closure = tag_primitive(p)
  OBVIOUS
<1>2. ASSUME NEW func, Executing(func)
      PROVE  (func = p /\ vm.ip = 0) \/ func = "return"
  BY <1>1, <1>2 DEF Executing, code, primitive_code, op, tag_primitive
<1>3. CASE OpReturn
  BY <1>3, MachineFramed, ReturnGoing DEF OpReturn
<1>4. CASE OpReturnLast
  BY <1>4, ReturnLastGoing
<1>5. CASE \/ OpJump \/ OpJumpIfFalse \/ OpClosureRef \/ OpStackRef \/ OpPushConst
           \/ OpDoCall \/ OpDoTailcall
  <2>1. \E func \in Instructions \ {"return_last"} : Executing(func)
    BY <1>5 DEF OpJump, OpJumpIfFalse, OpClosureRef, OpStackRef, OpPushConst, OpDoCall,
        OpDoTailcall, Instructions
  <2> QED BY <1>2, <2>1 DEF Builtins, Primitives, Instructions
<1>6. CASE Operations
  <2>1. PICK r, func : /\ Executing(func) /\ func \in Builtins \ {"return_last"}
                       /\ Same(vm, r) /\ vm' = next(r)
    BY <1>6, OperationsNext
  <2>2. func = p /\ vm.ip = 0 /\ p # "return_last"
    BY <1>2, <2>1 DEF Builtins, Primitives
  <2>3. vm.closure # tag_primitive("return_last")
    BY <1>1, <2>2 DEF tag_primitive
  <2>4. /\ vm'.ip = 1 /\ vm'.closure = vm.closure
        /\ vm'.calls = vm.calls /\ vm'.callp = vm.callp
    BY <2>1, <2>2 DEF Same, next, VmFields
  <2> QED BY <2>3, <2>4 DEF Going, Ahead, Resumable, Ready
<1> QED BY <1>3, <1>4, <1>5, <1>6 DEF Execute, Operations

(* The closure that runs and the heights of its code.                      *)
Running == closures[vm.closure.id]

InClosure ==
    /\ vm.closure.t = "closure" /\ vm.closure.id \in DOMAIN closures /\ Running.compiled
    /\ vm.ip \in Nat /\ vm.ip + 1 \in DOMAIN Running.code
    /\ Heights(Running)[vm.ip + 1] \in 0 .. vm.argnum

(* The code that runs is the closure's, and what Fits says of the          *)
(* instruction at ip.                                                      *)
LEMMA AtInstruction ==
    ASSUME InClosure, CodeFits, NEW func, Executing(func)
    PROVE  LET height == Heights(Running)
               i == vm.ip + 1
           IN  /\ code = Running.code /\ code[i].func = func
               /\ func \in Instructions
               /\ func # "push_const" => arg \in Nat
               /\ func = "closure_ref" => arg + 1 \in DOMAIN Running.closed
               /\ needs(code[i]) <= height[i]
               /\ \A flow \in flows(code, i, height[i]) :
                       flow[1] \in DOMAIN code /\ height[flow[1]] \in 0 .. flow[2]
<1>1. code = Running.code
  BY DEF code, InClosure, Running
<1>2. Fits(Running) /\ Heights(Running)[vm.ip + 1] >= 0 /\ vm.ip + 1 \in DOMAIN Running.code
  BY DEF InClosure, CodeFits, Running
<1>3. code[vm.ip + 1].func = func
  BY DEF Executing
<1> HIDE DEF Running
<1> QED BY <1>1, <1>2, <1>3 DEF Fits, arg

(* A turn that follows a flow of the code leaves a frame that can go on.   *)
LEMMA FlowReady ==
    ASSUME InClosure, CodeFits, CodeKept(closures, closures'),
           NEW func, Executing(func), NEW ip \in Nat, NEW d \in Int, NEW n \in Int,
           vm.argnum \in Int, vm.argnum + d <= n,
           <<ip + 1, Heights(Running)[vm.ip + 1] + d>>
                \in flows(code, vm.ip + 1, Heights(Running)[vm.ip + 1])
    PROVE  Ready(closures', vm.closure, ip, n)
<1> DEFINE height == Heights(Running)
<1>1. /\ ip + 1 \in DOMAIN code /\ code = Running.code
      /\ height[ip + 1] \in 0 .. (height[vm.ip + 1] + d)
      /\ height[vm.ip + 1] \in 0 .. vm.argnum
  BY AtInstruction DEF InClosure
<1> HIDE DEF height
<1>2. height[ip + 1] \in 0 .. n
  BY <1>1
<1>3. Ready(closures, vm.closure, ip, n)
  BY <1>1, <1>2 DEF InClosure, Ready, Running, height
<1> QED BY <1>3, KeptReady

(* So the turn keeps its promise.                                          *)
LEMMA FlowGoing ==
    ASSUME Resumable(closures', vm), NEW m, m.calls = vm.calls, m.callp = vm.callp,
           m.closure = vm.closure, Ready(closures', vm.closure, m.ip, m.argnum)
    PROVE  Going(closures', m)
BY DEF Going, Ahead, Resumable

(* do_call leaves its caller in wait for one operand more than it keeps.   *)
LEMMA CalleeGoing ==
    ASSUME Machine(vm), InClosure, CodeFits, Resumable(closures, vm),
           CodeKept(closures, closures'), OpDoCall, slot(vm, arg) # SET_PTR
    PROVE  Going(closures', vm')
<1>0. Executing("do_call") /\ arg \in Nat
  BY DEF OpDoCall
<1>1. \/ vm.callp \in DOMAIN vm.calls /\ vm_call_apply(Callee)
      \/ vm' = wild(vm)
  BY DEF OpDoCall, Callee, CallerFrame
<1>2. CASE vm' = wild(vm)
  BY <1>2, MachineFramed, StoppedGoing DEF Framed
<1>3. CASE vm.callp \in DOMAIN vm.calls /\ vm_call_apply(Callee)
  <2> DEFINE r == Callee
  <2>1. vm.sp \in Int /\ vm.argnum \in Int /\ base(vm) = vm.sp - vm.argnum
    BY DEF Machine, base
  <2>2. CallerFrame.argnum = arg
    BY <1>0, <2>1 DEF CallerFrame
  <2>3. /\ DOMAIN r = VmFields /\ r.stack = vm.stack /\ r.sp = vm.sp
        /\ r.argnum = vm.sp - (base(vm) + arg) /\ r.callp = vm.callp + 1
        /\ r.calls = [vm.calls EXCEPT ![vm.callp] = CallerFrame]
    BY DEF Machine, VmFields, Callee
  <2>4. slot(r, 0) = slot(vm, arg)
    <3>1. base(r) + 0 = base(vm) + arg
      BY <1>0, <2>1, <2>3 DEF base
    <3> QED BY <2>3, <3>1 DEF slot, stack_at
  <2>5. Ready(closures, vm.closure, vm.ip + 1, arg + 1)
    <3>0. vm.ip \in Nat /\ (vm.ip + 1) + 1 = vm.ip + 2 /\ code[vm.ip + 1].func = "do_call"
      BY <1>0 DEF Executing, InClosure
    <3>1. <<vm.ip + 2, arg + 1>> \in flows(code, vm.ip + 1, Heights(Running)[vm.ip + 1])
      BY <3>0 DEF flows, arg
    <3>2. /\ vm.ip + 2 \in DOMAIN Running.code
          /\ Heights(Running)[vm.ip + 2] \in 0 .. (arg + 1)
      BY <1>0, <3>1, AtInstruction
    <3> QED BY <3>2 DEF InClosure, Ready, Running
  <2> HIDE DEF r
  <2>6. Framed(r)
    BY <1>3, <2>3, VMAssumption DEF Machine, Framed
  <2>7. Resumable(closures, r)
    <3> SUFFICES ASSUME NEW k \in 0 .. r.callp - 1, r.calls[k].runmode = "compiled"
                 PROVE  Ready(closures, r.calls[k].closure, r.calls[k].ip,
                              r.calls[k].argnum + 1)
      BY DEF Resumable
    <3>1. CASE k = vm.callp
      <4>1. r.calls[k] = CallerFrame
        BY <1>3, <2>3, <3>1
      <4>2. CallerFrame.closure = vm.closure /\ CallerFrame.ip = vm.ip + 1
        BY DEF CallerFrame
      <4> QED BY <2>2, <2>5, <4>1, <4>2
    <3>2. CASE k # vm.callp
      <4>1. k \in 0 .. vm.callp - 1 /\ k \in DOMAIN vm.calls
        BY <2>3, <3>2, VMAssumption DEF Machine
      <4>2. r.calls[k] = vm.calls[k]
        BY <2>3, <3>2, <4>1
      <4> QED BY <4>1, <4>2 DEF Resumable
    <3> QED BY <3>1, <3>2
  <2> QED BY <1>3, <2>4, <2>6, <2>7, ApplyGoing DEF r
<1> QED BY <1>1, <1>2, <1>3

(* do_tailcall gives its own frame up and enters what it calls.            *)
LEMMA TailcallGoing ==
    ASSUME Machine(vm), Resumable(closures, vm), CodeKept(closures, closures'), OpDoTailcall
    PROVE  Going(closures', vm')
<1>1. vm_call_apply(MovedDown) \/ vm' = wild(vm)
  BY DEF OpDoTailcall, MovedDown, MovedStack
<1>2. CASE vm' = wild(vm)
  BY <1>2, MachineFramed, StoppedGoing DEF Framed
<1>3. CASE vm_call_apply(MovedDown)
  <2> DEFINE r == MovedDown
  <2>1. /\ DOMAIN r = VmFields /\ r.callp = vm.callp /\ r.calls = vm.calls /\ r.ip = 0
    BY DEF Machine, VmFields, MovedDown
  <2> HIDE DEF r
  <2>2. Framed(r) /\ Resumable(closures, r)
    BY <2>1 DEF Machine, Framed, Resumable
  <2> QED BY <1>3, <2>1, <2>2, ApplyGoing DEF r
<1> QED BY <1>1, <1>2, <1>3

(* A turn in a closure's code that fits follows its flows, or returns, or  *)
(* applies with its caller ready.                                          *)
LEMMA ClosureGoing ==
    ASSUME Machine(vm), InClosure, CodeFits, Resumable(closures, vm),
           CodeKept(closures, closures'), Execute,
           Executing("do_call") => slot(vm, arg) # SET_PTR
    PROVE  Going(closures', vm')
<1>0. /\ Resumable(closures', vm) /\ Same(vm, vm) /\ Framed(vm) /\ vm.argnum \in Int
      /\ vm.ip \in Nat /\ Heights(Running)[vm.ip + 1] \in 0 .. vm.argnum
      /\ DOMAIN vm = VmFields
  BY KeptResumable, MachineFramed DEF Machine, InClosure
<1> DEFINE height == Heights(Running)[vm.ip + 1]
<1>1. ASSUME NEW func, Executing(func)
      PROVE  /\ func \in Instructions /\ code[vm.ip + 1].func = func
             /\ func # "push_const" => arg \in Nat
  BY <1>1, AtInstruction
<1>2. CASE OpClosureRef \/ OpStackRef \/ OpPushConst
  <2>1. PICK func \in {"push_const", "stack_ref", "closure_ref"} : Executing(func)
    BY <1>2 DEF OpClosureRef, OpStackRef, OpPushConst
  <2>2. vm' = wild(vm) \/ \E v : vm' = next(vm_stack_push(vm, v))
    BY <1>2 DEF OpClosureRef, OpStackRef, OpPushConst
  <2>3. ASSUME NEW v, vm' = next(vm_stack_push(vm, v)) PROVE Going(closures', vm')
    <3> DEFINE r == vm_stack_push(vm, v)
    <3>1. Same(vm, r)
      BY <1>0, OperandsSame
    <3>2. r.argnum = vm.argnum + 1
      BY <1>0 DEF vm_stack_push, store, wild, VmFields
    <3> HIDE DEF r
    <3>3. /\ vm'.calls = vm.calls /\ vm'.callp = vm.callp /\ vm'.closure = vm.closure
          /\ vm'.ip = vm.ip + 1 /\ vm'.argnum = vm.argnum + 1
      BY <2>3, <3>1, <3>2 DEF next, Same, VmFields, r
    <3>4. <<vm.ip + 2, height + 1>> \in flows(code, vm.ip + 1, height)
      BY <1>0, <1>1, <2>1 DEF flows
    <3>5. Ready(closures', vm.closure, vm.ip + 1, vm.argnum + 1)
      <4>1. vm.ip + 1 \in Nat /\ (vm.ip + 1) + 1 = vm.ip + 2
        BY <1>0
      <4>2. 1 \in Int /\ vm.argnum + 1 \in Int /\ vm.argnum + 1 <= vm.argnum + 1
        BY <1>0
      <4> QED BY <1>0, <2>1, <3>4, <4>1, <4>2, FlowReady
    <3> QED BY <1>0, <3>3, <3>5, FlowGoing
  <2> QED BY <1>0, <2>2, <2>3, StoppedGoing
<1>3. CASE OpJump
  <2>1. Executing("jump") /\ vm' = [vm EXCEPT !.ip = arg]
    BY <1>3 DEF OpJump
  <2>2. /\ vm'.calls = vm.calls /\ vm'.callp = vm.callp /\ vm'.closure = vm.closure
        /\ vm'.ip = arg /\ vm'.argnum = vm.argnum
    BY <1>0, <2>1 DEF VmFields
  <2>3. <<arg + 1, height + 0>> \in flows(code, vm.ip + 1, height)
    BY <1>0, <1>1, <2>1 DEF flows, arg
  <2>4. Ready(closures', vm.closure, arg, vm.argnum)
    <3>1. arg \in Nat /\ 0 \in Int /\ vm.argnum + 0 <= vm.argnum
      BY <1>0, <1>1, <2>1
    <3> QED BY <1>0, <2>1, <2>3, <3>1, FlowReady
  <2> QED BY <1>0, <2>2, <2>4, FlowGoing
<1>4. CASE OpJumpIfFalse
  <2> DEFINE popped == pop(vm, 1)
  <2>1. Executing("jump_if_false")
    BY <1>4 DEF OpJumpIfFalse
  <2>2. Same(vm, popped) /\ popped.argnum = vm.argnum - 1
    <3>1. Same(vm, popped)
      BY <1>0, OperandsSame
    <3>2. popped.argnum = vm.argnum - 1
      BY <1>0 DEF pop, wild, VmFields
    <3> QED BY <3>1, <3>2
  <2> HIDE DEF popped
  <2>3. /\ vm'.calls = vm.calls /\ vm'.callp = vm.callp /\ vm'.closure = vm.closure
        /\ vm'.argnum = vm.argnum - 1
        /\ vm'.ip = arg \/ vm'.ip = vm.ip + 1
    <3>1. vm' = [popped EXCEPT !.ip = arg] \/ vm' = next(popped)
      BY <1>4 DEF OpJumpIfFalse, popped
    <3> QED BY <2>2, <3>1 DEF next, Same, VmFields
  <2>4. /\ <<arg + 1, height - 1>> \in flows(code, vm.ip + 1, height)
        /\ <<vm.ip + 2, height - 1>> \in flows(code, vm.ip + 1, height)
    BY <1>0, <1>1, <2>1 DEF flows, arg
  <2>5. /\ arg \in Nat /\ vm.ip + 1 \in Nat /\ (vm.ip + 1) + 1 = vm.ip + 2
        /\ height - 1 = height + (-1) /\ -1 \in Int
        /\ vm.argnum - 1 \in Int /\ vm.argnum + (-1) <= vm.argnum - 1
    BY <1>0, <1>1, <2>1
  <2>6. /\ Ready(closures', vm.closure, arg, vm.argnum - 1)
        /\ Ready(closures', vm.closure, vm.ip + 1, vm.argnum - 1)
    <3> HIDE DEF height
    <3>1. /\ <<arg + 1, height + (-1)>> \in flows(code, vm.ip + 1, height)
          /\ <<(vm.ip + 1) + 1, height + (-1)>> \in flows(code, vm.ip + 1, height)
      BY <2>4, <2>5
    <3> QED BY <1>0, <2>1, <2>5, <3>1, FlowReady DEF height
  <2> QED BY <1>0, <2>3, <2>6, FlowGoing
<1>5. CASE OpDoCall
  BY <1>5, CalleeGoing DEF OpDoCall
<1>6. CASE OpDoTailcall
  BY <1>6, TailcallGoing
<1>7. CASE OpReturnLast
  BY <1>0, <1>7, ReturnLastGoing
<1>8. CASE OpReturn
  <2>1. Executing("return")
    BY <1>8 DEF OpReturn
  <2> QED BY <1>1, <2>1 DEF Instructions
<1>9. CASE Operations
  <2>1. \E func \in Builtins \ {"return_last"} : Executing(func)
    BY <1>9, OperationsNext
  <2> QED BY <1>1, <2>1 DEF Instructions, Builtins, Primitives
<1> QED BY <1>2, <1>3, <1>4, <1>5, <1>6, <1>7, <1>8, <1>9 DEF Execute, Operations

(* While nothing has failed, the frame that runs threaded code and every   *)
(* caller suspended in it can go on.                                       *)
KInv ==
    /\ closures \in Seq({closures[i] : i \in DOMAIN closures})
    /\ Errors = {} /\ vm.running => Ahead(closures, vm) /\ Resumable(closures, vm)

(* What has just been entered can go on as well.                           *)
LEMMA CompiledReady ==
    ASSUME IInv, KInv, Entered, CodeFits, Evaluating, vm.runmode = "compiled"
    PROVE  Ready(closures, vm.closure, vm.ip, vm.argnum)
<1>0. Errors = {} /\ vm.running /\ vm.argnum \in Int
  BY DEF Evaluating, NoErrorReported, Errors, IInv, TypeOK, Machine
<1>1. CASE vm.ip # 0
  BY <1>0, <1>1 DEF KInv, Ahead
<1>2. CASE /\ vm.ip = 0 /\ vm.closure \in {tag_primitive(p) : p \in Builtins}
           /\ vm.closure = tag_primitive("read") => vm.argnum >= 1
  BY <1>2 DEF Ready
<1>3. CASE /\ vm.ip = 0 /\ vm.closure.t = "closure" /\ vm.closure.id \in DOMAIN closures
           /\ closures[vm.closure.id].compiled
           /\ vm.argnum >= Len(Items(closures[vm.closure.id].args)) + 1
  <2> DEFINE clsr == closures[vm.closure.id]
             first == Heights(clsr)[1]
  <2>1. Fits(clsr)
    BY <1>3 DEF CodeFits
  <2> HIDE DEF clsr
  <2>2. 1 \in DOMAIN clsr.code /\ first = Len(Items(clsr.args)) + 1 /\ first \in Nat
    BY <2>1 DEF Fits
  <2> HIDE DEF first
  <2>3. first \in 0 .. vm.argnum
    BY <1>0, <1>3, <2>2 DEF clsr
  <2>4. 0 \in Nat /\ 0 + 1 = 1
    OBVIOUS
  <2>5. /\ vm.ip + 1 \in DOMAIN clsr.code
        /\ Heights(clsr)[vm.ip + 1] \in 0 .. vm.argnum
    BY <1>3, <2>2, <2>3, <2>4 DEF first
  <2> QED BY <1>3, <2>4, <2>5 DEF Ready, clsr
<1> QED BY <1>1, <1>2, <1>3 DEF Entered

LEMMA ExecuteCompiled == ASSUME Machine(vm), Execute PROVE vm.runmode = "compiled"
<1>1. ASSUME NEW func, Executing(func) PROVE vm.runmode = "compiled"
  BY <1>1 DEF Executing
<1>2. CASE Operations
  BY <1>1, <1>2, OperationsNext
<1>3. CASE \/ OpReturn \/ OpReturnLast \/ OpJump \/ OpJumpIfFalse \/ OpClosureRef
           \/ OpStackRef \/ OpPushConst \/ OpDoCall \/ OpDoTailcall
  BY <1>1, <1>3 DEF OpReturn, OpReturnLast, OpJump, OpJumpIfFalse, OpClosureRef,
      OpStackRef, OpPushConst, OpDoCall, OpDoTailcall
<1> QED BY <1>2, <1>3 DEF Execute, Operations

(* A turn, of either kind, leaves a machine that can go on.                *)
LEMMA TurnGoing ==
    ASSUME IInv, KInv, Entered, CodeFits, Evaluating, Interpret \/ Execute
    PROVE  Going(closures', vm')
<1>1. /\ Machine(vm) /\ Resumable(closures, vm) /\ CodeKept(closures, closures')
      /\ Resumable(closures', vm)
  <2>1. Machine(vm) /\ Resumable(closures, vm)
    BY DEF IInv, TypeOK, KInv, Evaluating, NoErrorReported, Errors
  <2>2. CodeKept(closures, closures')
    BY TurnKept DEF KInv
  <2> QED BY <2>1, <2>2, KeptResumable
<1>2. CASE Interpret
  BY <1>1, <1>2, InterpretGoing
<1>3. CASE Execute
  <2>1. vm.runmode = "compiled"
    BY <1>1, <1>3, ExecuteCompiled
  <2>2. Ready(closures, vm.closure, vm.ip, vm.argnum)
    BY <2>1, CompiledReady
  <2>3. Executing("do_call") => slot(vm, arg) # SET_PTR
    BY <2>1 DEF Entered
  <2>4. CASE /\ vm.closure \in {tag_primitive(p) : p \in Builtins}
             /\ \/ vm.ip = 0
                \/ vm.ip = 1 /\ vm.closure # tag_primitive("return_last")
    BY <1>1, <1>3, <2>4, BuiltinGoing
  <2>5. CASE InClosure
    BY <1>1, <1>3, <2>3, <2>5, ClosureGoing
  <2> QED BY <2>2, <2>4, <2>5 DEF Ready, InClosure, Running
<1> QED BY <1>2, <1>3

(* No closure exists yet, and nothing runs.                                *)
LEMMA InitKInv == Init => KInv
<1> SUFFICES ASSUME Init PROVE KInv
  OBVIOUS
<1>1. closures = <<>> /\ <<>> \in Seq({<<>>[i] : i \in DOMAIN <<>>})
  BY DEF Init
<1>2. vm.running = FALSE
  BY DEF Init, vm_init
<1> QED BY <1>1, <1>2 DEF KInv

(* Every step keeps what runs and what waits able to go on.                *)
LEMMA NextKInv == IInv /\ KInv /\ Entered /\ CodeFits /\ [Next]_vars => KInv'
<1> SUFFICES ASSUME IInv, KInv, Entered, CodeFits, [Next]_vars PROVE KInv'
  OBVIOUS
<1>1. CASE ReadExpression
  <2>1. PICK v : /\ out' = Append(out, event("read", v)) /\ vm' = evaluate(vm, v)
    BY <1>1 DEF ReadExpression
  <2>2. Errors' = {} => Errors = {}
    BY <2>1, ErrorsGrow DEF IInv
  <2>3. vm'.runmode = "interp" /\ vm'.callp = vm.callp /\ closures' = closures
    BY <1>1, <2>1 DEF IInv, TypeOK, Machine, evaluate, VmFields, ReadExpression
  <2>4. Errors = {} => vm.callp = 0
    BY <1>1 DEF IInv, ReadExpression
  <2>5. Errors' = {} => Ahead(closures', vm') /\ Resumable(closures', vm')
    BY <2>2, <2>3, <2>4 DEF Ahead, Resumable
  <2> QED BY <2>3, <2>5 DEF KInv
<1>2. CASE Interpret \/ Execute
  <2>1. /\ phase = "run" /\ vm.running
        /\ \E v : out' = out \/ out' = Append(out, v)
    BY <1>2, TurnRuns DEF driver, Show
  <2>2. Errors' = {} => Errors = {}
    BY <2>1, ErrorsGrow DEF IInv
  <2>3. Errors = {} => Evaluating
    BY <2>1 DEF Evaluating, NoErrorReported, Errors
  <2>4. closures' \in Seq({closures'[i] : i \in DOMAIN closures'})
    BY <1>2, TurnKept DEF KInv
  <2>5. Errors' = {} => Going(closures', vm')
    BY <1>2, <2>2, <2>3, TurnGoing
  <2> QED BY <2>4, <2>5 DEF KInv, Going
<1>3. CASE ReplReply
  <2>1. (vm.errormsg = "none" => vm' = vm) /\ closures' = closures /\ ~ vm.running
    BY <1>3 DEF ReplReply, Returned
  <2>2. Errors' = {} => vm.errormsg = "none"
    BY <1>3, ReplyRecorded DEF IInv
  <2> QED BY <2>1, <2>2 DEF KInv
<1>4. CASE FileNext
  BY <1>4 DEF FileNext, Returned, KInv
<1>5. CASE Terminated \/ UNCHANGED vars
  BY <1>5 DEF Terminated, vars, KInv, Errors, Ahead, Resumable
<1> QED BY <1>1, <1>2, <1>3, <1>4, <1>5 DEF Next, Answer

(* What can go on is supplied.                                             *)
LEMMA ReadySupplied == IInv /\ KInv /\ Entered /\ CodeFits => Supplied
<1> SUFFICES ASSUME IInv, KInv, Entered, CodeFits, Evaluating,
                    NEW func \in {"jump_if_false", "read", "do_call"}, Executing(func)
             PROVE  IF func = "do_call" THEN arg <= vm.argnum ELSE vm.argnum >= 1
  BY DEF Supplied
<1>1. Ready(closures, vm.closure, vm.ip, vm.argnum) /\ vm.argnum \in Int
  BY CompiledReady DEF Executing, IInv, TypeOK, Machine
<1>2. CASE InClosure
  <2>1. /\ code[vm.ip + 1].func = func /\ func \in Instructions /\ arg \in Nat
        /\ needs(code[vm.ip + 1]) <= Heights(Running)[vm.ip + 1]
    BY <1>2, AtInstruction
  <2>2. Heights(Running)[vm.ip + 1] \in 0 .. vm.argnum
    BY <1>2 DEF InClosure
  <2>3. needs(code[vm.ip + 1]) = IF func = "do_call" THEN arg ELSE 1
    BY <2>1 DEF needs, arg
  <2> QED BY <1>1, <2>1, <2>2, <2>3
<1>3. CASE ~ InClosure
  <2>1. PICK p \in Builtins : vm.closure = tag_primitive(p)
    BY <1>1, <1>3 DEF Ready, InClosure, Running
  <2>2. func = p /\ vm.ip = 0
    <3>1. (func = p /\ vm.ip = 0) \/ func = "return"
      BY <1>1, <1>3, <2>1 DEF Ready, InClosure, Running, Executing, code, primitive_code,
          op, tag_primitive
    <3> QED BY <3>1
  <2>3. func = "read"
    BY <2>2 DEF Builtins, Primitives
  <2> QED BY <1>1, <1>3, <2>1, <2>2, <2>3 DEF Ready, InClosure, Running
<1> QED BY <1>2, <1>3

(* And it has its next instruction before it.                              *)
LEMMA ReadyInCode == IInv /\ CInv /\ KInv /\ Entered /\ CodeFits => InCode
<1> SUFFICES ASSUME IInv, CInv, KInv, Entered, CodeFits, Evaluating,
                    vm.runmode = "compiled"
             PROVE  /\ vm.ip + 1 \in DOMAIN code
                    /\ needs(code[vm.ip + 1]) <= vm.argnum
                    /\ Executing("closure_ref")
                         => arg + 1 \in DOMAIN closures[vm.closure.id].closed
  BY DEF InCode
<1>1. /\ Ready(closures, vm.closure, vm.ip, vm.argnum)
      /\ vm.argnum \in Int /\ vm.argnum >= 0 /\ phase = "run" /\ vm.running
  BY CompiledReady DEF Evaluating, NoErrorReported, Errors, CInv, Counted, IInv, TypeOK,
     Machine
<1>2. CASE InClosure
  <2>1. vm.ip + 1 \in DOMAIN code
    BY <1>2 DEF InClosure, Running, code
  <2>2. Executing(code[vm.ip + 1].func)
    BY <1>1, <2>1 DEF Executing
  <2>3. needs(code[vm.ip + 1]) <= Heights(Running)[vm.ip + 1]
    BY <1>2, <2>2, AtInstruction
  <2>4. Executing("closure_ref") => arg + 1 \in DOMAIN closures[vm.closure.id].closed
    BY <1>2, AtInstruction DEF Running
  <2>5. Heights(Running)[vm.ip + 1] \in 0 .. vm.argnum
    BY <1>2 DEF InClosure
  <2>6. needs(code[vm.ip + 1]) \in Int
    <3>1. arg \in Nat \/ code[vm.ip + 1].func = "push_const"
      BY <1>2, <2>2, AtInstruction
    <3> QED BY <3>1 DEF needs, arg
  <2> QED BY <1>1, <2>1, <2>3, <2>4, <2>5, <2>6
<1>3. CASE ~ InClosure
  <2>1. PICK p \in Builtins : vm.closure = tag_primitive(p)
    BY <1>1, <1>3 DEF Ready, InClosure, Running
  <2>2. code = primitive_code(p)
    BY <2>1 DEF code, tag_primitive
  <2>3. \/ vm.ip = 0 /\ (p = "read" => vm.argnum >= 1)
        \/ vm.ip = 1 /\ p # "return_last"
    BY <1>1, <1>3, <2>1 DEF Ready, InClosure, Running
  <2>4. /\ vm.ip + 1 \in DOMAIN code
        /\ \/ code[vm.ip + 1].func = p /\ (p = "read" => vm.argnum >= 1)
           \/ code[vm.ip + 1].func = "return"
    BY <2>2, <2>3 DEF primitive_code, op
  <2>5. /\ p = "read" \/ needs(code[vm.ip + 1]) = 0
        /\ needs(code[vm.ip + 1]) \in {0, 1}
        /\ ~ Executing("closure_ref")
    BY <2>4 DEF needs, Builtins, Primitives, Executing
  <2> QED BY <1>1, <2>4, <2>5 DEF needs
<1> QED BY <1>2, <1>3

-----------------------------------------------------------------------------
LEMMA GoesOn == Spec /\ []Entered /\ []CodeFits => []KInv
BY Invariance, InitKInv, NextKInv, PTL DEF Spec

(* No instruction takes more operands than its frame has, if the code that *)
(* is compiled fits a height at each of its instructions and is entered    *)
(* with its arguments: whatever the code, however calls, returns and jumps *)
(* follow each other and whichever closures are made or compiled while     *)
(* others are suspended (vm_ops.c:87-234, compiler.c:183-237).             *)
THEOREM OperandsSupplied == Spec /\ []Entered /\ []CodeFits => []Supplied
BY Invariance, GoesOn, ReadySupplied, PTL

LEMMA CountsKept == Spec /\ []Entered /\ []CodeFits => []CInv
BY Invariance, OperandsSupplied, InitCInv, NextCInv, PTL DEF Spec

(* Under the same two conditions threaded code never leaves itself: there  *)
(* is an instruction at ip, its operands are there and so is the node it   *)
(* refers to (vm_ops.c:87-216, compiler.c:183-237).                        *)
THEOREM CodeIsFollowed == Spec /\ []Entered /\ []CodeFits => []InCode
BY Invariance, GoesOn, CountsKept, ReadyInCode, PTL

(* And so nothing that the callers have saved is ever touched              *)
(* (vm_ops.h:26-61).                                                       *)
THEOREM FittingCodeSparesCallers ==
    Spec /\ []Entered /\ []CodeFits => SuspendedUntouched
BY OperandsSupplied, CallersStayUntouched, PTL

=============================================================================
