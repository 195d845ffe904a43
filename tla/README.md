# A TLA+ development of nscheme

nscheme is a small Scheme system in C: a reader, a tree-walking interpreter and
a JIT compiler to threaded code that share one virtual machine, and a driver
that reads expressions from a prompt or from files. This directory holds
TLA+ modules that model it, TLC configurations that check them on small
instances, and TLAPS proofs about all of its components. Paths below are relative to the
repository.

## 1. Inventory

The program is one thread. Nothing is persisted and nothing is sent: its only
inputs are the expressions it reads. What makes it hard is of another kind: two
modes of execution that call each other on one stack, a frame discipline that
each of some forty functions keeps by its own arithmetic, code that is replaced
while it runs, and errors that stop the machine in the middle of things.

| component | source | state | operations | module |
|---|---|---|---|---|
| tagged values | `include/nscheme/values.h` | none | tagging, type tests, `scm_car`, `scm_cdr` | `Values` |
| virtual machine | `include/nscheme/vm.h`, `vm_ops.h`, `src/vm.c` | `vm_t`: registers, operand stack, call frames | push, pop, `vm_call_eval`, `vm_call_return`, `vm_error` | `VM` |
| interpreter | `src/vm.c:8-276` | `ptr`, `env`, `argnum` | `vm_step_interpreter`, eight special forms, macro use | `VM` |
| threaded code, builtins | `src/vm_ops.c` | `ip`, `closure` | `vm_call_apply`, 26 `vm_op_*` | `VM` |
| JIT compiler | `src/compiler.c`, `src/scope.c` | one `comp_state_t` per compilation | scope analysis, code generation | `Compiler` |
| macro expander | `src/syntax-rules.c` | bindings of one expansion | match, bind, expand | `SyntaxRules` |
| environments | `src/env.c` | search trees with a parent pointer | `env_set`, `env_find`, recursive forms | `Environments` |
| printer | `src/write.c` | none | `write_value` | `Writer` |
| driver | `src/main.c` | current input, options | `repl`, `evaluate_file` | `VM`, `Reader` |
| lexer | `src/lex.c` | the position in a `FILE` | `read_next_token` | `Lexer` |
| parser | `src/parse.c` | one cached token per parse state | `parse_expression`, lists, quotes, pairs | `Reader` |
| symbol table | `src/symbols.c` | a binary tree of names | look up, store | `Symbols` |
| heap and marker | `src/gc.c` | a bump pointer, block headers | allocate, mark | `Heap` |
| handles | `src/vm.c:363-435` | slots, a stack of free handles | alloc, free, get, set | `Handles` |
| build and test scripts | `Makefile`, `tests/` | none | | not modelled |

How they interact: `main.c` asks the parser for an expression and gives it to
`vm_evaluate_expr`, which points the machine at it and turns `vm_run` until
`running` is false. Each turn is one step of the interpreter or one threaded
instruction, by `runmode`. A list is evaluated by pushing its elements; at its
end `vm_call_apply` looks at the first of them. A nested list saves a frame
(`vm_call_eval`). A closure called for the third time is compiled then, but
that call still walks its definition; later calls, the recursive ones made by
that very call included, run the code. The compiler looks names up in the
environments when it runs and its code keeps pointers to their nodes. The value
of an expression ends in slot 0, where the driver reads it. The lexer makes
names into symbols through the symbol table, so that environments can compare
their keys as addresses. Pairs are allocated by the parser, by `cons`
and by the macro expander; an allocation that does not fit runs the
marker over the machine's stacks. `(read)` opens a second parse state on the
standard input that the prompt is reading.

What is hard to get right, and hard to test:

- `sp - argnum` must be the slot saved in the innermost frame, whatever mix of
  interpreted calls, compiled calls, tail calls and primitives got there;
- the compiler predicts the stack height at every instruction, over branches,
  `begin` and local `define`;
- a procedure changes its mode in the middle of its own recursion;
- an error leaves the stacks as they are (`vm_error`), while the next
  evaluation assumes them empty (`vm.c:329-331`);
- captured variables are reached through environments in one mode and through
  nodes found at compile time in the other, and `set!` must hit the same one;
- an evaluation of a finite program must end: every jump and every return must
  go where it should;
- two parse states read one input, each with a token of its own cached;
- the marker keeps its work list in the headers of the blocks it marks;
- names are compared by address, so a text must have one address for good;
- compiled code points into trees that go on growing.

Correctness, by component: the machine keeps its frames chained, its suspended
callers untouched, and ends an evaluation with both stacks empty; interpreter
and compiler together show what the rules of the language say; loops in tail
position run in constant space; every expression is answered. The reader gives
back the data a text was written from, whoever asks for them; the heap keeps
blocks apart and everything in use in place; the marker marks what the machine
can reach, and ends; a name has one address, and the trees of nodes behave as
plain scopes; a handle has one holder. `PROJECT.json`
lists the hazards with their lines and the properties aimed at each.

## 2. The modules

**`Values`** – a tagged word is a record whose field `t` is the tag. Pairs are
immutable in this program (there is no `set-car!`), so a chain of pairs is the
sequence of its elements and what ends it, and addresses are left out; where
an address shows (`eq?` of two equal lists, `<` of two symbols) the operation
chooses between the outcomes. Fixnums have the width `IntMod`.

**`VM`** – the machine and the driver. One action is one turn of `vm_run` (a
case of `vm_step_interpreter` or one `vm_op_*`), one turn of the read loop, or
one answer. The C functions that update the `vm_t` in place are operators from
the machine before to the machine after, with their C names, composed in the
order of the calls. The variables are the `vm_t` (`vm`), the environments and
closures the program has allocated (`envs`, `closures`), where the driver is
(`phase`, `files`, `evals`) and what was read and shown (`out`). An access
outside an array or through a bad pointer sets `fault`, at which the model
stops: what the program does from there on is undefined. The compiler and the
expander are parameters (`Compile`, `Expand`), so that the proofs hold for any
of them.

**`Compiler`** – `vm_compile_closure` as a function of the closure and the
environments: the slots and closed variables of `scope.c`, then the code of
`compiler.c`. The tracked `stack_ptr` is an argument.

**`SyntaxRules`** – matching, binding and expansion of one macro use.

**`Writer`** – what can be told from a printed value.

**`Session`** – the abstract specification: a session of expressions, each
answered in one step by a reference evaluator with environments and
procedures but no stack, frame, mode or compiler. It does integer arithmetic
as integers, checks arity, and reports an error exactly where the language has
no value.

**`MCVM`** – the instances of `VM`: the programs of the sessions, written with
a small notation, and the refinement mapping: `asked` is the sequence of
expressions read, `told` what was shown, both as of the last prompt.
`SessionSpec` says that `VM` implements `Session`.

**`VMProofs`**, **`HandlesProofs`**, **`HeapProofs`**, **`MemoryProofs`**,
**`LexerProofs`**, **`ReaderProofs`**, **`EnvironmentsProofs`**,
**`NamesProofs`** – the proofs (section 5), each about the module it is named
after.

**`Lexer`** – the tokens, as functions from a text (a sequence of characters) to
a token and the text that is left. What `ungetc` does is in the text that is
left: the character after a number or a name stays, the one after `#x` is lost.
Names are cut where the buffer of `read_symbol` is full, and numbers have the
width of a fixnum. Lines and columns are only printed and are left out.

**`Reader`** – `parse.c` and the loops of `main.c` over `Lexer`. The C stack of
the recursive descent is the variable `calls`; an action parses one token
(`ParseAtom`, `ParseList`, `ParseQuoted`, `ParseNone`) or returns to the
innermost call (`ReturnItem` ... `ReturnExpression`). `states` are the two
parse states there can be, the driver's and the one `vm_op_read` makes, each
with its cached token, and `text` is what is left of every input. The driver
opens the files in turn, with the options in front of them. What an evaluation
does is left to `VM`; of it `Evaluate` keeps what reaches the loops and the
texts. A constant is its own value and a symbol is looked up. Where there are
frames to run (`Applies`: a list, `()`, which applies what it finds in the slot
at `sp`, or frames that a failed evaluation has left) it may call `(read)` at
any point (`OpRead`), fail or not, leave frames behind (`left`) or not, and end
with any value; but an end-of-file object can only be one that was read, alone
or as an element of a datum (`EofRead`).

**`MCReader`** – inputs: texts written from data by a reference printer, with
comments or unknown characters between them and something wrong after them, all
short texts, and batches of files.

**`Heap`** – `gc.c` in addresses: `gc_alloc` puts a header and a block at the
next 16-byte boundary; `vm_alloc` is `AllocFirst`, or `Collect`, then
`NextRoot` and `Traverse` until `MarkDone`, then `AllocAgain`. One `Traverse`
is one turn of the loop of `mark_traverse`, with `try_link` for both parts of a
pair. The rest of the module is the part of the machine that allocates or keeps
references to pairs, each operation reduced to the references it moves: the
parser (`Parse`), `cons`, `define`, a call, a return, a closure that is
compiled, and so on. Values that are not pairs are 0.

**`Collector`** – the abstract specification of the marker: objects are
allocated one by one and refer to older ones; marking adds to the marks all
that an object reaches. `MCMemory` maps `Heap` to it: blocks are objects, and a
traversal counts as done from its start, so each of its turns is a stutter.

**`Handles`** – the five functions of `vm.c:363-435`; any caller, any number.
`held` is a history variable: the handles given out and not freed.

**`Memory`** – heap and handles in one `vm_t`, used by `main`, which has no
handles, or by a program that embeds the machine and keeps the pairs it
constructs in them.

**`Symbols`** – the tree of `symbols.c`. A text is a number, its order that of
`strcmp`; the address of a string is any that is free, so the trees of all
orders arise.

**`Environments`** – `env.c`: environments, nodes and their links, as functions
from a heap of nodes to the next, with the C names. Keys are compared as
numbers, as in the code.

**`Names`** – both together, under the operations that use them: `vm_init`'s
builtins, the lexer's names, `define`, `set!`, entering a closure, and the
compiler's `add_closure_node`, which keeps the address of a node.

**`Dictionary`** – the abstract specification: scopes that map texts to values
and lead to an enclosing scope, and references to variables. `VM` and
`Compiler` are written in these terms (an environment is a function, a node the
pair of its environment and its name), and `MCNames` shows that `Names`
implements them: a tree is mapped to what its nodes bind, by the texts of their
keys.

Operators whose comment begins with "Mutant" are deliberate errors, one for
each property of each passing run, named in `PROJECT.json`. Putting one in the
place of the definition it mutates makes TLC report that property violated:
they show that the properties can fail.

The model was compared with the compiled program on 66 small programs: what TLC
says the session shows is what `nscheme` prints for 60 of them. Of the other
six, three show a run-time marker that the printer names differently, two go on
after the model has stopped at undefined behaviour, and one uses a string.

## 3. The runs

### The machine

These runs use the module `MCVM`, `IntMod = 64`, `StackSize = 64`, `CallsSize =
32`, the real threshold `JitThreshold = 3`, and one file.

| run | session | properties | distinct states |
|---|---|---|---|
| `file_session` | the repository's test programs, a recursive sum, an error inside a call; 3 definitions, then 2 of 4 expressions | `TypeOK`, `FrameDiscipline`, `CleanPrompt`, `SessionSpec`, `Answered` | 1 803 |
| `repl_session` | 7 definitions and uses, then 2 of 12 prompts | `SessionSpec` | 5 045 |
| `misuse` | 2 definitions, then one of 44 uses and misuses | `SessionSpec` | 521 |
| `jit_bodies` | 2 definitions, then one of 384 bodies called 5 times | `Supplied`, `InCode`, `CodeFits`, `Entered`, `SessionSpec` | 67 097 |
| `tail_calls` | 3 loops that the preamble has had compiled, then one of 3 long calls | `ConstantSpace`, `Answered` | 939 |
| `any_program` | one function compiled badly, then 2 of 29 odd prompts | `FrameDiscipline`, `SuspendedUntouched` | 65 048 |
| `repl_error` | error, then anything | `StackPointersZero` (violated) | |
| `empty_branch` | `for-each` on a list of one | `SessionSpec` (violated) | |

- `FrameDiscipline`: while an expression is evaluated, every frame on the stack
  starts at the slot its caller saved, down to slot 0.
- `SuspendedUntouched`: no step changes a frame or an operand of a suspended
  caller. It is checked where it is hardest to keep: in `any_program`, whose
  badly compiled function leaves operands behind.
- `Supplied`: no instruction takes more operands than its frame has. This is
  what the machine expects of the code it runs, and what `SuspendedUntouched`
  rests on (section 5): `do_call`, `jump_if_false` and `read` pop without
  looking at `argnum`.
- `InCode`: while threaded code runs there is an instruction at `ip`, its
  operands and the slot it reads are in the frame, and the node it refers to is
  in the closure's array. The dispatch of `vm_step_compiled` checks none of it.
- `CodeFits`: every closure that has been compiled `Fits`. This is a check of
  the code alone, without running it: `Heights` follows the code once and gives
  each instruction the number of operands its frame has there at the least,
  and what leads to an instruction must bring no fewer than that.
- `Entered`: code is entered with what its first instruction counts on. For a
  closure these are its arguments, which nothing compares with its parameters
  once it is compiled (`vm_ops.c:100-106`); for `read`, itself; and compiled code
  never calls `set-ptr`, which gives the interpreter an expression and leaves
  `ip` where it is.

  Section 5 proves that the last two give the first two. They are checked for the
  code of every body of the grammar of `jit_bodies`, whose height of the stack the
  compiler must have predicted; all four also hold in every other passing run of
  `MCVM`, the badly compiled function of `any_program` included (its code leaves
  operands behind, which is more than it needs and not less).
- `CleanPrompt`: in a session without errors both stacks are empty between
  evaluations.
- `SessionSpec`: the session shows what the reference evaluator says, expression
  by expression, in the prompt's and in the file's form. In `misuse` this covers
  the misuses for which the code calls `vm_error`. It does not cover those that it
  lets pass with a value, which the session has no value for (section 4).
- `ConstantSpace`: a compiled tail-recursive loop needs at most one frame and
  nine slots, for 12 iterations as for 2.
- `Answered`: every expression that was read is answered.

Why the bounds are enough. The interesting changes happen at the third and
fourth call of a procedure, so each session has procedures called before,
across and after them, in different orders; five calls in `jit_bodies` are
three interpreted and two compiled. Prompts depend on one another through the
bindings and closures they leave, and two free prompts after a preamble give
every order of every pair. The stacks are large enough that no session that
should end reaches their limits (the machine's own limit is 4096), so no run
passes because the model has stopped; `any_program` is the exception on
purpose, and says of a faulting step only what its properties claim without
`fault`. The fixnums of the sessions stay within the positive half of the
width, where the unsigned comparisons of `vm_ops.c:364-410` agree with signed
ones.

Fairness. The program is one thread that waits only for input. While `vm_run`
has an expression to evaluate its next turn is always taken, and when it has
returned the driver goes on; nothing obliges the user to type, so
`ReadExpression` is not fair. `Fairness` is weak fairness of that one step:
`Due` is the condition under which a turn or an answer is enabled, written out
because it is simple and because the action is a large disjunction. After a
fault nothing is due. `Answered` is claimed in the runs whose programs end.

Deadlock is checked in every run: `Terminated` is the only step of a session
that is over or has faulted, so a machine that has no next turn is an error.

### The reader

`reader_texts` (module `MCReader`, 119 422 distinct states) has four kinds of
input: each pair of 13 data at the prompt, with a comment, an unknown character
or nothing before each; each datum followed by one of 12 remainders (unclosed
lists, stray parentheses, half a token); all texts of up to 3 of 10 characters
and of up to 5 of 4; and batches of one or three files out of four kinds, one
of them missing, with options.

- `ReadsWhatWasWritten`: the data a text was written from are what is read from
  it, in order, whether the loop or `(read)` asks, and a session that ends has
  read all of it.
- `NothingHeldBack`: a parse state not in use has no token cached, unless it is
  stuck at one; so the two parse states of the standard input lose nothing of
  each other's, in whichever evaluation `(read)` is called.
- `Forward`: only the text in use moves, and forward, but for a `#` put back.
- `StuckForGood`: at a stray parenthesis or `#` the prompt goes round for good,
  as long as no frames of a failed evaluation are left to call `(read)`.
- `StaleError`: after an error in a file, at most one expression of each later
  file is read.
- `SessionEnds`: a prompt whose text is written from data, or whose parentheses
  match, reads to the end of its text, and is over then, unless an error has left
  frames. It is stated with that exception because the loop of `main.c` looks at
  slot 0 and not at what it has read: with frames left the end-of-file object is
  an operand of one of them, and the loop may go on. After

      (define (f x) (+ (car 5) (f x)))
      (f 1)

  it never ends by itself: each time the prompt reads the end of file, that is the
  value of the failed `(car 5)`, the call of `f` that comes next fails one call
  deeper, and the stacks grow past their arrays.
- `UnclosedOverflows`: a list that is not closed ends in the overflow of the C
  stack.

`negative_numbers` is expected to be violated (section 4).

Bounds: `BufSize = 6` (32 in the build) so that a name of seven letters is cut;
`MaxDepth = 8` calls (the C stack has room for some hundred thousand), deeper
than any list in the texts that is closed; `MaxReads = 2` calls of `(read)` in one
evaluation, one before and one after the look-ahead of the other has been freed.
That an evaluation ends, without running off an array, is assumed here; `Answered`
is about that. The end of a text is noted once in `asked`, which would grow for
ever otherwise. Three files are enough for the error
of one to meet the second and the third. Fairness is weak fairness of the
reader's only thread: the whole input is there from the start, as with a file
or a pipe, so whatever it can do next it does. The end of a session that is
stuck is a lasso the deadlock check does not see, which is what `StuckForGood`
and `SessionEnds` are for.

### Memory

`memory` (module `MCMemory`, 529 445 distinct states) has a heap of 145 bytes
at address 16, which holds three pairs or more arrays of no closed variables;
two operands, two frames, two handles.

- `BlocksApart`: blocks are aligned, within the heap, and no block reaches into
  the header of the next, whatever sizes are asked for.
- `NoneForgotten`: a marked pair refers to flagged ones, and what is flagged
  and not yet marked is on the work list, whose end is where the next is
  linked.
- `CollectorSpec`, `MarksComplete`: the traversal implements the abstract
  marker, and when it is not at work no promised mark is missing.
- `MachineMarked`: after a collection all that operands and interpreted
  expressions reach is marked.
- `LiveStays`: what the program can still get at stays where it is with its
  contents: also what the marker does not look at (C variables of `cons` and of
  the parser, environments, handles). It holds because nothing is ever freed; a
  sweep added to today's marker would break it, and the mutant of the run is
  that sweep.
- `FullForGood`: a collection makes no room, and the program ends.
- `MarkedOnce`: no block has its turn in `mark_traverse` twice, and no block
  loses its mark, though `link_end` clears the one of what it appends.
- `AllocationEnds`: every allocation is over in the end.
- `NoDoubleGrant`: whatever is freed, in any order or twice, a handle is not
  given out while somebody holds it.

With three pairs there are shared pairs, pairs that are queued from different
roots, chains the marker follows, and pairs that are garbage; pairs refer only
to older pairs, so there are no cycles in this program to add. One of the three
has to be the expression that made the others, so no pair of this run has two
different pairs for its parts, and no turn of the marker links two blocks; with
four pairs the run would take longer than it may. The theorems of section 5 are
about any number. Fairness is weak
fairness of the steps of `vm_alloc`: its caller does nothing until it returns.
Nothing obliges anyone to allocate.

### Names

`names` (module `MCNames`, 21 187 distinct states up to the symmetry of the two
values) has three texts and three strings at every order of addresses, one
builtin name, two environments, four nodes, procedures of up to two parameters,
and one node pointer of compiled code.

- `OneWord`: of one text there is one address, the one the table goes on
  returning.
- `NamesMean`: in every reachable heap of nodes, `env_find_recurse`, `env_set`
  and `env_set_recurse` do for every name what they would to plain mappings.
- `DictionarySpec`: every step of the trees is a step of the scopes; in
  particular the node that compiled code points to stays the variable it was.

Three names give every shape of tree that differs in depth and side; a second
environment is where the search goes on and where shadowing begins, and a third
would only repeat that step (it is beyond this run's time). `vm_init` stores 23
names once at the start; one is enough for them to meet a name that is read,
and `BuiltinsAssumption` says what `store_symbol` relies on: no two of them are
alike.

## 4. Where the code departs from what it says

Three runs expect a violation and are listed as findings.

- `repl_error`. "This function assumes that the VM has stack pointers that are
  all zero" (`vm.c:329-331`). After an error at the prompt they are not:
  `vm_error` stops the loop with `sp` and `callp` as they are, and
  `vm_clear_error` does not reset them. After `(+ 1 (car 5))` the frame of the
  sum is still saved, with its two operands `+` and 1; `2` is put above them and
  returned to that frame, and the prompt answers with 3, the value of the failed
  sum.
- `empty_branch`. `tests/src/base/ops.scm:7-12` ends `for-each` with the branch
  `()`. The interpreter makes the chosen branch the expression of the current
  frame by applying `set-ptr` to it: both are popped, and `ptr` is the branch. If
  that is `()`, the next turn applies at once (`vm.c:252-253`), with no operands,
  what lies in the slot at `sp`. That is the `set-ptr` just popped, and with no
  operands it is the error "can't eval" (`vm_ops.c:124-129`). The compiled code
  pushes a constant and is right, so the test's list of four works on its own:
  `for-each` is compiled by then.
- `negative_numbers`. `tests/src/base/ops.scm:37-38` says `;; => 5` of `(add 10
  -5)`. A minus always begins a name (`lex.c:11, 67-69`), so `-5` is an
  undefined symbol, and the rest of the file is not read.

Met while modelling, and kept in the model as the code has them, without a run:
arity is not checked once a closure is compiled; `null?`, `pair?` and `display`
with a wrong number of operands print a message and return themselves
(`vm_ops.c:412-418, 427-433, 506-510`); `+`, `-`, `*`, `<` and `>` do not look at
the types of their operands, so that `(+ 1 #t)` and `(< #t 1)` have values; `-`
and `/` without operands count down from below zero (`vm_ops.c:257, 284`); `/`
divides tagged words, and with a third operand divides a quotient without a tag
by one that has it; `<` compares unsigned; a macro use without a matching rule
leaves a further frame behind; an invalid `lambda` goes on; a `begin` in operand
position of compiled code leaves more operands than the compiler counts. The
reference evaluator is not asked about programs that depend on these.

Of the machine, met while proving: an instruction can be left without the
operands it takes. The expression `()` is not a value here; it applies what is
in the slot at `sp`, with no operands (`vm.c:252-253`), and that slot holds
whatever an earlier evaluation left there: after `(begin 1 2 3 4)`, the
expression `(if () 1 2)` fails because 4 cannot be applied. If it is `read`
that was left, `read` runs with nothing to pop, pops an operand of the suspended
`if` and pushes what it reads in its place (after `(begin 1 2 3 read)` TLC
finds `SuspendedUntouched` violated in this way). A compiled closure that is
called with too few arguments starts its frame with fewer slots than its code
counts, with the same consequence. Neither is in the prompts of the passing
runs; `Entered` is the line between them and everything else.

And code that does not fit: a leading `define` whose expression uses a name
that a later one defines. `scope.c` gives all leading defines their slots before
any of them has a value, so in

    (define k 3)
    (define (f x) (define y (+ k x)) (define k 2) (* y k))

the first three calls add the outer `k`, and from the fourth on the code reads
the slot of the inner one, above the operands of its frame, where an earlier
evaluation has left something. With this body in `jit_bodies` TLC finds
`CodeFits` and `InCode` violated; the bodies of its grammar define one name.

Of the reader: at a stray `)`, or `#` and a character it does not know, the
loop of `main.c` evaluates "none" for ever (`StuckForGood`); an unclosed list
recurses on end-of-file tokens until the C stack is used up
(`UnclosedOverflows`); a file that cannot be opened is read through a null
pointer; `errormsg` is not cleared between files (`StaleError`).

Of memory: the marker frees nothing (`FullForGood`). `mark_environment` never
advances in its loop and takes the word before a `calloc`ed node for a header,
so whether it goes into the environments is left open in the model. Handles are
not visited by `mark_vm`, though `vm.h:141-143` introduces them for that.
`vm_handle_free` leaves the slot in use: a freed handle stays valid, and no
slot is ever given out a second time; `vm_handle_alloc` takes the height of the
free stack for the handle instead of popping one, finds the slot in use and
fails. The comment at `vm.c:382-385` takes that for the sign of a double free;
one correct free leads to it.

`README.md` of the repository lists nested lambdas and expansion inside compiled
code as not done; a closure whose body holds one is only called below the
threshold in the sessions.

## 5. The proofs

Every theorem holds for every value of the constants that meets the assumptions
of its modules. Those ask for little: `VMAssumption` and `IntModAssumption`
(stacks with at least one slot, a threshold of at least one, a file, a preamble
that fits the bound of the session, integers of some width), `HeapAssumption`
(a heap that does not start at address 0 and is no smaller than the 16 bytes
it is aligned to; the build has 32 KB), `HandlesAssumption` (one handle or more), `NullAssumption` (the
value of a handle that is not valid is no pair), `BufSizeAssumption` (room for a
character and the zero), `InputsAssumption` (texts are sequences of
characters), `TextAssumption` and `WordAssumption` (texts have an order, and
addresses are not NULL), `BuiltinsAssumption` (no builtin name occurs twice).
Nothing is assumed of programs, texts, the compiler, the expander or the order
in which `malloc` returns addresses.

| module | theorem | states |
|---|---|---|
| `VMProofs` | `TypeCorrect` | `Spec => []TypeOK` |
| | `FramesChained` | `Spec => []FrameDiscipline` |
| | `StacksEmptied` | `Spec => []CleanPrompt` |
| | `CallersStayUntouched` | `Spec /\ []Supplied => SuspendedUntouched` |
| | `OperandsSupplied` | `Spec /\ []Entered /\ []CodeFits => []Supplied` |
| | `CodeIsFollowed` | `Spec /\ []Entered /\ []CodeFits => []InCode` |
| | `FittingCodeSparesCallers` | `Spec /\ []Entered /\ []CodeFits => SuspendedUntouched` |
| `MemoryProofs` | `HeapTypeCorrect`, `HandlesTypeCorrect` | `Spec => []HeapTypeOK`, `Spec => []HandlesTypeOK` |
| | `BlocksStayApart` | `Spec => []BlocksApart` |
| | `WorkListHoldsAll` | `Spec => []NoneForgotten` |
| | `CollectionMarks`, `MarksAreComplete` | `Spec => []MachineMarked`, `Spec => []MarksComplete` |
| | `FullHeapIsFullForGood`, `InUseStays` | `Spec => FullForGood`, `Spec => LiveStays` |
| | `EveryBlockHasOneTurn` | `Spec => MarkedOnce` |
| | `OneHolder` | `Spec => NoDoubleGrant` |
| | `HeapImplementsCollector` | `Spec => CollectorSpec` |
| `LexerProofs` | `TokensAreConsumed` | what a token leaves is an end of the text |
| | `NamesFitTheBuffer` | a name leaves room for its zero |
| `ReaderProofs` | `ReaderTypeCorrect` | `Spec => []TypeOK` |
| | `NeitherReaderLosesATokenToTheOther` | `Spec => []NothingHeldBack` |
| | `ErrorsOutliveTheirFile` | `Spec => []StaleError` |
| | `StrayTokensStop`, `TextsAreReadForward` | `Spec => StuckForGood`, `Spec => Forward` |
| `NamesProofs` | `NamesTypeCorrect` | `Spec => []TypeOK` |
| | `NamesAreWords` | `Spec => []OneWord` |
| | `NamesKeepTheirMeaning` | `Spec => []NamesMean` |
| | `NamesImplementDictionary` | `Spec => DictionarySpec` |

### The machine

The inductive invariant is `IInv`. The chain of frames alone is not inductive:
an error breaks it for the rest of the session, a return at the bottom of the
call stack ends it by resetting `sp`, and the next evaluation starts a chain
only because both stacks are empty then. So `IInv` is, beside the types:

- `Settled(Errors, vm)`: as long as no error was reported, the frames are
  chained while the machine runs, and both stacks are empty once it has stopped
  without a fault or an error;
- between evaluations, as long as no error was reported, both stacks are empty;
- the driver never reads after a fault, and until it exits it has a file left.

The proof follows the code's own structure. Each operator of `VM` has a lemma
that it takes a sound machine to a sound one (`Sound`: chained, and not stopped
except by fault or error); only `vm_call_return` ends a turn otherwise, and
`ReturnSettled` covers its three cases. `ApplySound`, `CalleeSound` and
`MovedDownSound` are the heart of it: applying changes modes and frames and
keeps the equation. The lemmas carry the set `e` of errors reported so far, so
that the types are proved in any case and the chain only while `e` is empty, in
one induction. That threaded code is arbitrary here matters: whatever
instructions a compiler emits, operand by operand, the frames stay chained.

What wrong code can do is pop below its frame; then the next push lands on an
operand of the caller although every frame still starts where it should. So
`CallersStayUntouched` has a premise, `Supplied`, which is false for the kinds
of program named in section 4. Of all operations only `do_call`, `jump_if_false` and `read` are in
it: the others either look at `argnum` first, or write to the base of the
frame, or only push. The proof has a second invariant, `CInv` (the counts of
the running frame and of its callers are not negative), and a second family of
lemmas over the same operators: `Safe(o, m)` says of the machine `m` in the
middle of a turn that began at `o` that the base of its frame is at or above
`o`'s, and that frames and slots below are still `o`'s. Pushing, storing and
applying stay above the base; `pop` does if the frame has what it pops.

`Supplied` itself speaks of every turn of every run. `OperandsSupplied` and
`CodeIsFollowed` trace it back to two conditions, one on the code as it was
emitted (`CodeFits`) and one on the moment it is entered (`Entered`), as a
verifier of byte code does: what no single instruction checks holds because the
code was checked once. What has to be carried is that nothing between two turns
of one piece of code spoils it. That is the third invariant, `KInv`:

- the running frame can go on (`Ahead`): it counts at least as many operands as
  the code's height at `ip`, or it runs a builtin's two instructions, or it has
  only just been entered;
- every caller suspended in threaded code can go on too (`Resumable`), at the `ip`
  it has saved, with one operand more than it has saved: the value it waits for.

A call hands over and `do_call`'s flow says what is left behind (`CalleeGoing`);
a tail call gives its own frame up (`TailcallGoing`); a return, from either mode,
makes the top caller the running frame (`ReturnGoing`); the other instructions
follow a flow of the code (`FlowReady`). Meanwhile the interpreter makes closures
and compiles some, also one whose earlier call is still being walked. `TurnKept`
says that a closure that is compiled stays as it is (`CodeKept`), which is what a
saved `ip` relies on. The heights are computed by a recursive function, but
nothing is proved about how: `Fits` tests what they must satisfy, so that a wrong
scan could only make the test fail. For programs that stay in the interpreter
`CodeFits` says nothing, and what remains of the premise is that `read` is not
applied to an empty frame.

### Memory

`IInv` joins the invariants of the two parts (`HeapIInv`, `HandlesIInv`) with:
what a handle refers to is a pair of the heap. They are proved in modules of
their own and composed as the program composes them.

`HeapIInv` says that blocks are apart and pairs refer to pairs, that all the
machine holds are references to pairs, and about the marker (`Marks`):
what a marked pair refers to is flagged, links lead to flagged blocks, and the
flagged blocks that are not marked are on the chain of links from the current
block, which has the end of the list on it. Following links from the current
block is what makes this inductive: `TryLinkChained` is the step of `try_link`
(linking a block behind the end keeps the chain whole), and `ChainAdvances` that
of the loop (the head of the chain is done). The blocks on a chain are the least
set closed under links (`ChainOf`), so no recursive definition is needed. At the
end of a collection there is no current block, so what is flagged is marked, and
a set of marked pairs that is closed under references contains all that is
reachable. `BlocksStayApart` rests on the rounding of `align`
(`Aligned`, `BlockEnd`).

`EveryBlockHasOneTurn` needs more of that chain (`OneTurn`): that it never comes
back, which a set closed under links does not say. No link on it leads to its
head, no two lead to the same block, and all behind the head is unmarked
(`NeverBack`). `link_end` keeps this because what it appends had no flag, so no
link leads to it (`LinkEndNeverBack`); and what is left when the head is done is
in the chain without the head, because no link leads there (`NeverBackAdvances`).

`HeapImplementsCollector`: the abstract marks are all that the flagged blocks
and the current one reach, the least set closed under references; the lemmas
`LeastMonotone`, `LeastUnion` and `LeastExtended` say how it changes when an
object is added or a root is marked. `CollectorSpec` has no fairness, so this is safety only.

`OneHolder` needs less than one would think: `vm_handle_alloc` looks at the slot
and not at the free stack, and a slot once in use stays so.

### The reader

`LexerProofs` is about the functions of the lexer: what a token leaves is what
the text ended with (`Ends`), or, for a bad `#`, that with a `#` put back in
front of it (`NextToken`). `ReaderProofs` carries four named parts:
types, the two parse states (at most one token cached, and each on its own
text), `Held` (a parse state that nobody works on has nothing cached, unless it
is stuck, and the parser works for `(read)` only while frames run), and `Stale` (what was asked for since an error). The case that needs
`Held` is `(read)`: its parse state is new each time and works on the text the
prompt's state is on; a token left in either would be lost to the other.
`StuckForGood` and `Forward` are action properties over the same invariant; that
nothing calls `(read)` in a stuck session rests on none being neither a list nor
`()`.

### Names

A search tree is described without recursion, by the function that takes each
node to the node where the search that has come to it ends. There is exactly one
such function (`WalkExists`, `WalkUnique`), because every link leads to a node
that was added later (`Shape`). The invariant of the environments is that each
node belongs to one of them, that of its parent, and that the search for its key
from the root ends at it (`Owned`); of the symbol table, that every string in
the tree is found by its text (`SearchTree`). `WalkGrows` is the step on which
both rest: hanging a node where a walk ended changes no walk that did not end
there. From this `FindIsStop` says what `env_find` computes, and
`FindRecurse` and `EnvSetRecurse` what the recursive forms do along the chain of
environments.

`NamesImplementDictionary` maps a heap of nodes to scopes that bind texts
(`View`). Keys are addresses there, so it rests on `NamesAreWords`: of one text
there is one address among the names in use. `Distinct` is the hypothesis that
carries it into the refinement, in both the current and the next state.

### What is only model-checked, and why

- `Answered`, `AllocationEnds`, `SessionEnds`, `UnclosedOverflows`: liveness
  under fairness is out of the prover's reach. What `AllocationEnds` rests on is
  proved: `EveryBlockHasOneTurn` bounds the turns of the marker by the number of
  blocks, and `FullHeapIsFullForGood` its collections by one.
- `ReadsWhatWasWritten` relates a text of any length to the data it was written
  from: an induction over the data.
- `SessionSpec` rests on recursive operators in `Session`, `Compiler`,
  `SyntaxRules` and `Writer`, which the prover cannot use; `CodeFits` and
  `ConstantSpace` are about the code of this compiler, for the same reason.
- `Entered` is not a property of the code but of the programs it is given: TLC
  checks it for those of the runs.

## 6. What is not modelled

- Build and test scripts: they run the program. Two of the test programs are
  inputs of `file_session`, and one of `negative_numbers`.
- `VM` starts from parsed expressions, and `Reader` from texts without
  evaluating them. They meet at `vm_evaluate_expr`; the composition of both
  would add no interleaving, as the parser has returned when the machine
  starts, but for `(read)`, which `Reader` lets any evaluation call that has frames to run.
- In `VM` values have no addresses and memory does not run out; `Heap` has the
  addresses, and of the machine what refers to pairs. The pairs that `(read)`
  and the macro expander allocate are allocated like those of the parser.
  Environments and nodes come from `calloc`, outside the heap.
- More than one file: `FileNext` of `VM` has the loop and its runs use one file;
  `Reader` has three.
- Running out of C memory or C stack (`write_value` and the expander recurse),
  except in the parser. Line and column counts, the help text and debug output.

## 7. Plan

Done: every component with its run, and the theorems of section 5: of each
component its type invariant, the safety invariants its run checks and its
action properties, and two of the three refinements.

What is left:

1. `CodeFits` for every body the compiler accepts. It is an induction over the
   syntax of the body, which the prover has no means for; the check is written so
   that it can be run on any code.
2. `Entered` from conditions on programs: that arities agree, and that `()` is
   not evaluated. This needs to know the values that operands can have.
3. The reference evaluator: `SessionSpec` for programs without calls, whose
   evaluation needs no induction.

## 8. Running the checks

    tlc -workers 2 -config VMFile.cfg MCVM          # and the other VM*.cfg
    tlc -workers 2 -config ReaderTexts.cfg MCReader # and ReaderNumbers.cfg
    tlc -workers 2 -config MemoryMarks.cfg MCMemory
    tlc -workers 2 -config Names.cfg MCNames
    tlapm VMProofs.tla                              # and the other *Proofs.tla
