-------------------------------- MODULE Heap --------------------------------
(***************************************************************************)
(* The heap and the marker (gc.c), under the operations of the machine     *)
(* that allocate in it or decide what the marker sees.                     *)
(*                                                                         *)
(* The heap is an array of bytes; what is allocated are pairs and the      *)
(* arrays of closed variables, each behind a header.  A value is 0 when it *)
(* is not a pair (an integer, a symbol, a calloc'ed closure: nothing the   *)
(* collector owns), and the address of the pair otherwise.  Only what      *)
(* refers to pairs is kept of the machine: its operands, frames and        *)
(* expression pointers.  The rest of it is VM.tla.                         *)
(***************************************************************************)
EXTENDS Integers, FiniteSets, SequencesExt

CONSTANTS
    Base,       \* the address malloc returned to gc_init
    HeapSize,   \* bytes; 0x8000 in the build
    MaxStack,   \* operands and frames of the machine, bounds of the model;
    MaxCalls    \* VM.tla has the real limits

(* The heap has room to be aligned in.                                     *)
ASSUME HeapAssumption ==
    Base \in Nat \ {0} /\ HeapSize \in Nat /\ HeapSize >= 16 /\ MaxStack \in Nat /\ MaxCalls \in Nat

VARIABLES
    allocend,   \* gc->allocend
    blocks,     \* the blocks by address: header, and the words of a pair
    stack,      \* vm->stack below vm->sp
    calls,      \* vm->calls below vm->callp
    ptr,        \* vm->ptr
    closure,    \* vm->closure
    closures,   \* the closures: root_closure, and one a lambda has made
    globals,    \* the values of the root environment's nodes
    locals,     \* C variables of the operation or the parser at work
    request,    \* the allocation that is in progress, and for what
    pc,         \* "run", or where vm_alloc is
    roots,      \* what mark_vm has still to mark
    cur, end    \* the variables of mark_traverse

machine == <<stack, calls, ptr, closure, closures, globals>>
marker  == <<roots, cur, end>>
heapvars == <<allocend, blocks, machine, locals, request, pc, marker>>

-----------------------------------------------------------------------------
(* Blocks.                                                                 *)

HeaderSize == 24     \* sizeof(scm_gc_block_t)
PairSize   == 16     \* sizeof(scm_pair_t)

align(n, a) == n + (IF n % a > 0 THEN a - (n % a) ELSE 0)

(* Mutant of block_end: no room is left for the header.                    *)
block_end_tight == align(allocend, 16)

(* Where gc_alloc puts the next block; it fails unless a byte is left.     *)
block_end == align(allocend + HeaderSize, 16)
Fits(n)   == block_end + n < Base + HeapSize

(* Mutant of Block: the flags are not cleared.                             *)
Block_marked(n, a, d) ==
    [size |-> n, marked |-> TRUE, grey |-> FALSE, link |-> 0, car |-> a, cdr |-> d]

(* A new header is unmarked; its link is the zero of fresh memory.         *)
Block(n, a, d) ==
    [size |-> n, marked |-> FALSE, grey |-> FALSE, link |-> 0, car |-> a, cdr |-> d]

gc_alloc(n, a, d) ==
    /\ Fits(n)
    /\ allocend' = block_end + n
    /\ blocks' = [b \in DOMAIN blocks \cup {block_end} |->
                    IF b = block_end THEN Block(n, a, d) ELSE blocks[b]]

is_gc_ptr(a)   == a >= Base /\ a < allocend

(* Mutant of is_unmarked: only the colour is looked at.                    *)
is_unmarked_grey(b) == ~ b.grey

is_unmarked(b) == ~ b.marked /\ ~ b.grey

(* should_link, for the blocks as they are in the middle of a step.        *)
should_link(B, v) == v # 0 /\ is_gc_ptr(v) /\ is_unmarked(B[v])

(* Mutant of link_end: the list keeps its end.                             *)
link_end_lost(W, v) ==
    [end |-> W.end,
     blocks |-> [W.blocks EXCEPT ![W.end].link = v,
                                 ![v].grey = TRUE, ![v].marked = FALSE, ![v].link = 0]]

(* link_end and try_link: v goes to the end of the work list.  W is the    *)
(* list's end and the blocks.                                              *)
link_end(W, v) ==
    [end |-> v,
     blocks |-> [W.blocks EXCEPT ![W.end].link = v,
                                 ![v].grey = TRUE, ![v].marked = FALSE, ![v].link = 0]]

try_link(W, v) == IF should_link(W.blocks, v) THEN link_end(W, v) ELSE W

-----------------------------------------------------------------------------
(* The machine, as far as it makes and drops references.                   *)

Running == pc = "run"
Closure(d) == [definition |-> d, array |-> 0]
child(v) == IF v = 0 THEN {} ELSE {blocks[v].car, blocks[v].cdr}

NoRequest == [for |-> "none", size |-> 0, car |-> 0, cdr |-> 0]

(* construct_pair, or store_closed_vars: the operation waits in vm_alloc.  *)
vm_alloc(for, n, car, cdr) ==
    /\ request' = [for |-> for, size |-> n, car |-> car, cdr |-> cdr]
    /\ pc' = "alloc"
    /\ UNCHANGED <<allocend, blocks, marker>>

(* parse.c builds a list from its end, holding on to it in a C variable,   *)
(* before the machine starts on it.  What an expression that failed has    *)
(* left on the stacks is still there.                                      *)
Parse ==
    /\ Running
    /\ \E car, cdr \in {0} \cup ToSet(locals) :
            vm_alloc("parse", PairSize, car, cdr) /\ locals' = <<car, cdr>>
    /\ UNCHANGED machine

EvaluateExpr ==
    /\ Running /\ Len(locals) = 1
    /\ ptr' = Head(locals)
    /\ closure' = 1 /\ closures' = [closures EXCEPT ![1].definition = Head(locals)]
    /\ locals' = <<>>
    /\ UNCHANGED <<allocend, blocks, stack, calls, globals, request, pc, marker>>

Idle == Running /\ locals = <<>>

(* The interpreter pushes a constant, or the value of a variable, and goes *)
(* on to the next operand.                                                 *)
Push ==
    /\ Idle /\ Len(stack) < MaxStack /\ ptr # 0
    /\ \E v \in {blocks[ptr].car} \cup ToSet(globals) : stack' = Append(stack, v)
    /\ ptr' = blocks[ptr].cdr
    /\ UNCHANGED <<allocend, blocks, calls, closure, closures, globals, locals, request, pc, marker>>

(* cons pops its operands and then allocates.                              *)
OpCons ==
    /\ Idle /\ Len(stack) >= 2
    /\ LET n == Len(stack) IN
            /\ vm_alloc("cons", PairSize, stack[n - 1], stack[n])
            /\ locals' = SubSeq(stack, n - 1, n)
            /\ stack' = SubSeq(stack, 1, n - 2)
    /\ UNCHANGED <<calls, ptr, closure, closures, globals>>

(* define and set! keep the operand they pop in a node of the environment. *)
Define ==
    /\ Idle /\ stack # <<>>
    /\ \E i \in DOMAIN globals : globals' = [globals EXCEPT ![i] = Last(stack)]
    /\ stack' = Front(stack)
    /\ UNCHANGED <<allocend, blocks, calls, ptr, closure, closures, locals, request, pc, marker>>

(* Any other procedure: the operand is gone.                               *)
Pop ==
    /\ Idle /\ stack # <<>>
    /\ stack' = Front(stack)
    /\ UNCHANGED <<allocend, blocks, calls, ptr, closure, closures, globals, locals, request, pc, marker>>

(* lambda: the body of the closure is part of what was read.               *)
Lambda ==
    /\ Idle /\ closures[2].definition = 0
    /\ \E d \in child(ptr) : closures' = [closures EXCEPT ![2] = Closure(d)]
    /\ UNCHANGED <<allocend, blocks, stack, calls, ptr, closure, globals, locals, request, pc, marker>>

(* A call saves the frame it was made in; only a closure that has been     *)
(* compiled may have been running threaded code.                           *)
Call ==
    /\ Idle /\ Len(calls) < MaxCalls /\ closures[2].definition # 0
    /\ \E mode \in IF closures[closure].array = 0 THEN {"interp"} ELSE {"interp", "compiled"} :
            calls' = Append(calls, [runmode |-> mode, ptr |-> ptr, closure |-> closure])
    /\ closure' = 2 /\ ptr' = closures[2].definition
    /\ UNCHANGED <<allocend, blocks, stack, closures, globals, locals, request, pc, marker>>

CallReturn ==
    /\ Idle /\ calls # <<>>
    /\ calls' = Front(calls)
    /\ ptr' = (IF Last(calls).runmode = "interp" THEN Last(calls).ptr ELSE ptr)
    /\ closure' = Last(calls).closure
    /\ UNCHANGED <<allocend, blocks, stack, closures, globals, locals, request, pc, marker>>

(* store_closed_vars: a word for each closed variable, often for none.     *)
Compile ==
    /\ Idle /\ closure = 2 /\ closures[2].array = 0
    /\ \E vars \in 0 .. 1 : vm_alloc("compile", 8 * vars, 0, 0)
    /\ UNCHANGED <<machine, locals>>

-----------------------------------------------------------------------------
(* vm_alloc.                                                               *)

(* gc_alloc succeeds and the operation goes on with its block.             *)
Allocate ==
    /\ gc_alloc(request.size, request.car, request.cdr)
    /\ pc' = "run"
    /\ locals' = IF request.for = "parse" THEN <<block_end>> ELSE <<>>
    /\ stack' = IF request.for = "cons" THEN Append(stack, block_end) ELSE stack
    /\ closures' = IF request.for = "compile"
                     THEN [closures EXCEPT ![closure].array = block_end] ELSE closures
    /\ request' = NoRequest
    /\ UNCHANGED <<calls, ptr, closure, globals, marker>>

AllocFirst == pc = "alloc" /\ Allocate

(* mark_vm marks the operands, the expression of every interpreted frame   *)
(* and the definition and array of every closure a frame was saved for,    *)
(* and vm->ptr.  An array refers to nothing and is marked like a value.    *)
(* Environments and their nodes are calloc'ed: whether they are gone into  *)
(* depends on the word found where their header would be, so any part of   *)
(* the root environment's tree may be.                                     *)
FrameRoots(f) ==
    <<IF f.runmode = "interp" THEN f.ptr ELSE 0,
      closures[f.closure].definition, closures[f.closure].array>>

CallRoots == [k \in 1 .. 3 * Len(calls) |-> FrameRoots(calls[(k + 2) \div 3])[1 + ((k + 2) % 3)]]

(* Mutant of mark_vm: vm->ptr is left out.                                 *)
mark_vm_operands(nodes) == stack \o CallRoots \o nodes

mark_vm(nodes) == stack \o CallRoots \o nodes \o <<ptr>>

NodesSeen == {<<>>} \cup {SubSeq(globals, 1, i) : i \in DOMAIN globals}

(* gc_alloc fails: gc_collect_vm.                                          *)
Collect ==
    /\ pc = "alloc" /\ ~ Fits(request.size)
    /\ \E nodes \in NodesSeen : roots' = mark_vm(nodes)
    /\ pc' = "mark"
    /\ UNCHANGED <<allocend, blocks, machine, locals, request, cur, end>>

Traversing == pc = "mark" /\ cur # 0

(* mark_traverse returns at once for a root that is no pair or is marked;  *)
(* it begins with the first that is neither.                               *)
Skipped(i) == \A k \in 1 .. i - 1 : ~ should_link(blocks, roots[k])

NextRoot ==
    /\ pc = "mark" /\ cur = 0
    /\ \E i \in DOMAIN roots :
            /\ Skipped(i) /\ should_link(blocks, roots[i])
            /\ cur' = roots[i] /\ end' = roots[i]
            /\ roots' = SubSeq(roots, i + 1, Len(roots))
    /\ UNCHANGED <<allocend, blocks, machine, locals, request, pc>>

(* Mutant of Traverse: the rest of a list is not linked.                   *)
Traverse_car ==
    /\ Traversing
    /\ LET V == try_link([end |-> end, blocks |-> [blocks EXCEPT ![cur].marked = TRUE]],
                         blocks[cur].car)
       IN  /\ blocks' = V.blocks
           /\ end' = V.end
           /\ cur' = V.blocks[cur].link
    /\ UNCHANGED <<allocend, machine, locals, request, pc, roots>>

(* One turn of its loop: cur is marked, its children are linked.           *)
Traverse ==
    /\ Traversing
    /\ LET W == [end |-> end, blocks |-> [blocks EXCEPT ![cur].marked = TRUE]]
           V == try_link(try_link(W, blocks[cur].car), blocks[cur].cdr)
       IN  /\ blocks' = V.blocks
           /\ end' = V.end
           /\ cur' = V.blocks[cur].link
    /\ UNCHANGED <<allocend, machine, locals, request, pc, roots>>

(* Mutant of MarkDone: what is not marked is freed.                        *)
MarkDone_sweep ==
    /\ pc = "mark" /\ cur = 0 /\ Skipped(Len(roots) + 1)
    /\ LET kept == {b \in DOMAIN blocks : blocks[b].marked} IN
            /\ blocks' = [b \in kept |-> blocks[b]]
            /\ allocend' = IF kept = {} THEN align(Base, 16)
                          ELSE CHOOSE e \in {b + blocks[b].size : b \in kept} :
                                    \A b \in kept : b <= e
    /\ pc' = "retry" /\ roots' = <<>>
    /\ UNCHANGED <<machine, locals, request, cur, end>>

MarkDone ==
    /\ pc = "mark" /\ cur = 0 /\ Skipped(Len(roots) + 1)
    /\ pc' = "retry" /\ roots' = <<>>
    /\ UNCHANGED <<allocend, blocks, machine, locals, request, cur, end>>

(* Mutant of AllocAgain: it collects until there is room.                  *)
AllocAgain_until ==
    /\ pc = "retry"
    /\ IF Fits(request.size) THEN Allocate
         ELSE pc' = "alloc" /\ UNCHANGED <<allocend, blocks, machine, locals, request, marker>>

(* gc_alloc again: "Allocated successfully?" or vm_panic.                  *)
AllocAgain ==
    /\ pc = "retry"
    /\ IF Fits(request.size) THEN Allocate
         ELSE pc' = "exit" /\ UNCHANGED <<allocend, blocks, machine, locals, request, marker>>

Exited == pc = "exit" /\ UNCHANGED heapvars

-----------------------------------------------------------------------------
HeapInit ==
    /\ allocend = align(Base, 16)
    /\ blocks = <<>>
    /\ stack = <<>> /\ calls = <<>>
    /\ ptr = 0
    /\ closure = 1 /\ closures = <<Closure(0), Closure(0)>>
    /\ globals = <<0>>
    /\ locals = <<>>
    /\ request = NoRequest
    /\ pc = "run"
    /\ roots = <<>> /\ cur = 0 /\ end = 0

Mutate == Parse \/ EvaluateExpr \/ Push \/ OpCons \/ Define \/ Pop \/ Lambda \/ Call \/ CallReturn
          \/ Compile

VmAlloc == AllocFirst \/ Collect \/ NextRoot \/ Traverse \/ MarkDone \/ AllocAgain

HeapNext == Mutate \/ VmAlloc \/ Exited

HeapSpec == HeapInit /\ [][HeapNext]_heapvars /\ WF_heapvars(VmAlloc)

-----------------------------------------------------------------------------
(* Properties.                                                             *)

Address == 0 .. Base + HeapSize

(* The registers of the heap and the marker keep their types: every value  *)
(* the machine or the marker holds is 0 or a block (gc.c:23-77, 164-200).  *)
HeapTypeOK ==
    /\ allocend \in Address
    /\ DOMAIN blocks \subseteq Address
    /\ \A b \in DOMAIN blocks :
            /\ blocks[b].size \in Nat
            /\ {blocks[b].car, blocks[b].cdr, blocks[b].link} \subseteq {0} \cup DOMAIN blocks
    /\ {ptr, cur, end} \cup ToSet(stack) \cup ToSet(globals) \cup ToSet(locals) \cup ToSet(roots)
            \subseteq {0} \cup DOMAIN blocks
    /\ pc \in {"run", "alloc", "mark", "retry", "exit"}

(* Blocks lie in the heap on 16-byte boundaries, and no block's bytes run  *)
(* into the header of the next, whatever the sizes asked for, zero         *)
(* included (gc.c:62-77).                                                  *)
BlocksApart ==
    /\ \A b \in DOMAIN blocks :
            /\ b % 16 = 0 /\ b - HeaderSize >= Base
            /\ b + blocks[b].size <= allocend
    /\ \A b, c \in DOMAIN blocks : b < c => b + blocks[b].size <= c - HeaderSize
    /\ allocend < Base + HeapSize \/ blocks = <<>>

flagged == {b \in DOMAIN blocks : ~ is_unmarked(blocks[b])}

(* The work list: the block being marked, and what is linked behind it,    *)
(* which is what every set has that holds it and is closed under link.     *)
Linked(S) == \A c \in S : blocks[c].link \in S \cup {0}

WorkList ==
    {b \in DOMAIN blocks : cur # 0 /\
        \A S \in SUBSET DOMAIN blocks : cur \in S /\ Linked(S) => b \in S}

(* No marked pair refers to one that will be forgotten: its children have  *)
(* flags, and what has been flagged and not marked waits on the work list, *)
(* whose last member is where the next is linked (gc.c:111-200).           *)
NoneForgotten ==
    /\ \A b \in DOMAIN blocks : blocks[b].marked => child(b) \subseteq {0} \cup flagged
    /\ \A b \in flagged : ~ blocks[b].marked => b \in WorkList
    /\ Traversing => end \in WorkList /\ blocks[end].link = 0

(* What values refer to, at any distance: the least set closed under child.*)
Closed(S) == \A c \in S : child(c) \subseteq S \cup {0}

Reachable(values) ==
    {b \in DOMAIN blocks :
        \A S \in SUBSET DOMAIN blocks : values \ {0} \subseteq S /\ Closed(S) => b \in S}

(* What the machine is working on: its operands, and the expressions of it *)
(* and of its interpreted callers.                                         *)
Expressions ==
    {ptr} \cup {calls[i].ptr : i \in {j \in DOMAIN calls : calls[j].runmode = "interp"}}

MachineRoots == ToSet(stack) \cup Expressions

(* When the marker is done, all that the operands and the expressions of   *)
(* the machine and of its interpreted callers refer to is marked           *)
(* (gc.c:228-246).                                                         *)
MachineMarked ==
    pc = "retry" => \A b \in Reachable(MachineRoots) : blocks[b].marked

(* A collection makes no room: after it vm_alloc fails for the same size,  *)
(* and the program ends (gc.c:28-38).                                      *)
FullForGood == [][pc = "retry" => pc' = "exit"]_heapvars

(* No block has its turn twice in mark_traverse, and no block loses the    *)
(* mark it has, though link_end clears the one of what it appends: so the  *)
(* marker is done after as many turns as there are blocks (gc.c:111-200).  *)
MarkedOnce ==
    [][/\ Traversing => ~ blocks[cur].marked
       /\ \A b \in DOMAIN blocks : blocks[b].marked => blocks'[b].marked]_heapvars

(* Every allocation is over in the end: the marker comes to the end of its *)
(* list and of its roots (gc.c:164-200).                                   *)
AllocationEnds == (pc = "alloc") ~> (pc \in {"run", "exit"})
=============================================================================
