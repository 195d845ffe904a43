-------------------------------- MODULE MCVM --------------------------------
(* Instances of VM.tla for TLC: the compiler and the macro expander, the   *)
(* programs of the sessions, and the refinement of Session.tla.            *)
EXTENDS VM

C == INSTANCE Compiler
X == INSTANCE SyntaxRules
W == INSTANCE Writer

MCCompile(clsr, E)     == C!vm_compile_closure(clsr, E)
MCExpand(rules, form)  == X!expand_syntax_rules(rules, form)

-----------------------------------------------------------------------------
(* Notation for programs.                                                  *)

s(name)  == tag_symbol(name)
n(k)     == tag_integer(k)
T        == tag_boolean(TRUE)
F        == tag_boolean(FALSE)
l1(a)          == List(<<a>>)
l2(a, b)       == List(<<a, b>>)
l3(a, b, c)    == List(<<a, b, c>>)
l4(a, b, c, d) == List(<<a, b, c, d>>)

call1(f, a)    == l2(s(f), a)
call2(f, a, b) == l3(s(f), a, b)
if(a, b, c)    == l4(s("if"), a, b, c)
define(x, e)   == l3(s("define"), s(x), e)
set(x, e)      == l3(s("set!"), s(x), e)
lambda(ps, e)  == l3(s("lambda"), ps, e)
begin(es)      == List(<<s("begin")>> \o es)
quote(d)       == l2(s("quote"), d)
defun(f, x, e) == l3(s("define"), l2(s(f), s(x)), e)

-----------------------------------------------------------------------------
(* file_session: the two test programs, tests/src/base/count.scm and the   *)
(* for-each of tests/src/base/ops.scm, and an error inside a call.         *)
Countdown ==
    defun("countdown", "n",
        if(call2(">", s("n"), n(0)),
           begin(<<call1("display", s("n")), l1(s("newline")),
                   call1("countdown", call2("-", s("n"), n(1)))>>),
           n(0)))

ForEach ==
    l3(s("define"), l3(s("for-each"), s("func"), s("xs")),
       if(call1("null?", s("xs")), SCM_TYPE_NULL,
          begin(<<call1("func", call1("car", s("xs"))),
                  call2("for-each", s("func"), call1("cdr", s("xs")))>>)))

for_each(f, items) == call2("for-each", s(f), quote(List(items)))

Sum == defun("sum", "n",
        if(call2("<", s("n"), n(1)), n(0),
           call2("+", s("n"), call1("sum", call2("-", s("n"), n(1))))))

FilePreamble == <<Countdown, ForEach, Sum>>
FileExprs == {call1("countdown", n(4)),
              for_each("display", <<n(1), n(2), n(3), n(4)>>),
              call1("display", call1("sum", n(5))),
              call1("display", call2("+", n(1), call1("sum", call1("car", n(5)))))}

(* repl_session: closures, assignment, macros and redefinition, with addk  *)
(* compiled before the free part of the session.                           *)
Map ==
    l3(s("define"), l3(s("map"), s("f"), s("xs")),
       if(call1("null?", s("xs")), s("xs"),
          call2("cons", call1("f", call1("car", s("xs"))),
                        call2("map", s("f"), call1("cdr", s("xs"))))))

ReplPreamble == <<
    define("k", n(3)), Map,
    defun("addk", "x", call2("+", s("x"), s("k"))),
    l4(s("+"), call1("addk", n(1)), call1("addk", n(2)), call1("addk", n(3))),
    define("adder", lambda(l1(s("a")), lambda(l1(s("b")), call2("+", s("a"), s("b"))))),
    define("count",
        l2(lambda(l1(s("i")),
                  lambda(SCM_TYPE_NULL, begin(<<set("i", call2("+", s("i"), n(1))), s("i")>>))),
           n(0))),
    l3(s("define-syntax"), s("pick"),
       l4(s("syntax-rules"), l1(s("or")),
          l2(l4(s("_"), s("a"), s("or"), s("b")), if(s("a"), s("a"), s("b"))),
          l2(l3(s("_"), s("a"), s("...")),
             l2(s("quote"), l2(s("rest"), l2(s("a"), s("...")))))))>>

ReplExprs == {
    call1("addk", n(4)),
    define("k", n(7)),
    set("k", call1("addk", s("k"))),
    l1(s("count")),
    l2(call1("adder", s("k")), l1(s("count"))),
    l4(s("pick"), F, s("or"), call2("cons", s("k"), quote(l1(s("k"))))),
    l3(s("pick"), s("k"), n(2)),
    l4(s("pick"), l4(s("pick"), F, s("or"), F), s("or"), call1("addk", n(1))),
    call2("map", s("addk"), quote(l2(n(1), n(2)))),
    l3(lambda(l2(s("k"), s("x")),
              begin(<<set("x", call2("-", s("x"), n(1))), call2("cons", s("k"), s("x"))>>)),
       s("k"), n(9)),
    l2(l4(s("lambda"), l1(s("x")), define("y", call1("addk", s("x"))),
          call2("*", s("x"), s("y"))), n(2)),
    define("addk", lambda(l1(s("x")), call2("*", s("x"), s("k"))))}

(* misuse: the misuses that the code reports with vm_error, each at the end*)
(* of a file and inside a call, and the builtin procedures on the values   *)
(* they are meant for.  Misuses that it lets pass are left out: null?,     *)
(* pair? and display with a wrong number of operands print a message and   *)
(* go on (vm_ops.c:412-418, 427-433, 506-510), and arithmetic and < and >  *)
(* do not look at the types of their operands.                             *)
MisusePreamble == <<
    l3(s("define"), l3(s("two"), s("a"), s("b")), call2("cons", s("a"), s("b"))),
    call1("display", l3(s("two"), call2("/", n(9), n(2)), quote(l1(s("q")))))>>

Misused == {
    s("unbound"), call1("unbound", n(1)), call1("two", s("unbound")),
    call1("two", n(1)), l4(s("two"), n(1), n(2), n(3)), l2(n(1), n(2)), l1(T),
    l1(s("car")), call1("car", n(5)), call2("car", quote(l1(n(1))), n(2)),
    call1("cdr", quote(s("a"))), call2("cdr", n(1), n(2)), call1("cons", n(1)),
    call2("/", n(4), n(0)), l4(s("/"), n(8), n(0), n(2)), call1("<", n(1)),
    l4(s(">"), n(3), n(2), n(1)), call1("eq?", n(1))}

Used == {
    call1("car", call2("two", n(1), n(2))), call1("cdr", quote(l2(n(1), n(2)))),
    call1("null?", call1("cdr", quote(l1(n(1))))), call1("pair?", call2("two", n(1), T)),
    call2("eq?", quote(s("a")), quote(s("a"))), call2(">", n(2), call2("*", n(3), n(1))),
    l4(s("-"), n(9), n(2), n(3)), l4(s("*"), n(2), n(2), n(3))}

MisuseExprs == {call1("display", e) : e \in Used} \cup Misused
               \cup {call2("+", n(1), call2("two", e, n(2))) : e \in Misused}

(* jit_bodies: functions called five times each, twice after they have     *)
(* been compiled, with every body of a small grammar.                      *)
Small == {s("x"), n(1), call2("-", s("k"), s("x")), call1("g", s("x")),
          call1("g", call2("+", s("x"), n(1))),
          if(call2("<", s("x"), n(2)), call1("g", n(1)), s("x")),
          if(call1("null?", s("x")), n(0), if(call2(">", s("x"), n(2)), s("k"), s("x"))),
          begin(<<s("x")>>)}

BodiesWith(a) ==
    {l1(call2("+", a, b)) : b \in Small}
    \cup {l1(if(call2("<", a, n(2)), b, n(0))) : b \in Small}
    \cup {l1(if(call2("<", s("x"), n(2)), a, b)) : b \in Small}
    \cup {l2(define("y", a), call2("*", s("y"), b)) : b \in Small}
    \cup {l2(a, b) : b \in Small} \cup {l1(begin(<<a, b>>)) : b \in Small}

Program(body) ==
    LET call(i) == call1("display", call1("f", n(i)))
    IN  begin(<<Chain(<<s("define"), l2(s("f"), s("x"))>>, body),
                call(1), call(2), call(3), call(1), call(2)>>)

JitPreamble == <<define("k", n(3)), defun("g", "y", call2("*", s("y"), s("k")))>>
JitExprs == {Program(body) : body \in UNION {BodiesWith(a) : a \in Small}}

(* tail_calls: loops that the preamble has had compiled.                   *)
Descend(f, stop, go) ==
    defun(f, "n", if(call2("<", s("n"), n(1)), stop, call1(go, call2("-", s("n"), n(1)))))

Gather ==
    l3(s("define"), l3(s("gather"), s("n"), s("acc")),
       if(call2(">", s("n"), n(0)),
          begin(<<n(0), call2("gather", call2("-", s("n"), n(1)),
                               call2("+", s("acc"), s("n")))>>),
          s("acc")))

LoopPreamble == <<
    Descend("loop", n(0), "loop"), call1("loop", n(2)),
    Descend("even", T, "odd"), Descend("odd", F, "even"), call1("even", n(5)),
    Gather, call2("gather", n(2), n(0))>>
LoopExprs == {call1("loop", n(12)), call1("even", n(11)), call2("gather", n(10), n(0))}

(* any_program: forms the language does not allow, compiled code that      *)
(* loses track of its operands, read, and an end of input in the middle.   *)
AnyPreamble == <<
    defun("one", "x", call2("+", begin(<<n(1), n(2)>>), s("x"))),
    l4(s("+"), call1("one", n(1)), call1("one", n(2)), call1("one", n(3)))>>

AnyExprs == {
    call1("one", n(4)), call2("lambda", s("x"), s("x")), l1(s("lambda")),
    l3(s("if"), n(1), n(2)), l2(s("if"), n(1)), l1(s("if")), if(T, SCM_TYPE_NULL, n(1)),
    l1(s("begin")), l1(s("define")), define("x", s("x")), l3(s("define"), n(5), n(6)),
    l2(s("define"), s("x")), SCM_TYPE_NULL, s("if"), l1(s("display")), l1(s("newline")),
    call2("null?", n(1), n(2)), call2("pair?", n(1), n(2)), l1(s("+")), l1(s("-")),
    call2("+", n(1), T), call2("<", T, n(1)), call2("eq?", quote(l1(n(1))), quote(l1(n(1)))),
    l1(s("syntax-rules")), call1("display", l1(s("read"))), l1(s("read")),
    l4(s("define-syntax"), s("m"), l1(s("syntax-rules")), n(1)),
    l2(l3(s("syntax-rules"), SCM_TYPE_NULL, l2(l1(s("_")), n(1))), n(2)),
    begin(<<l3(s("define-syntax"), s("m"),
              l3(s("syntax-rules"), SCM_TYPE_NULL, l2(l1(s("_")), n(1)))),
            l1(s("m")), call1("m", n(2))>>)}

(* repl_error: an error in an operand, then anything.  empty_branch: a     *)
(* list too short for for-each to have been compiled.                      *)
NoPreamble == <<>>
ErrorExprs == {call2("+", n(1), call1("car", n(5))), n(2)}
EmptyPreamble == <<ForEach>>
EmptyExprs == {for_each("display", <<n(1)>>)}

-----------------------------------------------------------------------------
(* The session the user sees, as Session.tla states it.                    *)

(* What the session had recorded when it was last at a prompt.             *)
settled ==
    IF phase # "run" THEN out
    ELSE SubSeq(out, 1, (CHOOSE i \in DOMAIN out :
                            /\ out[i].event = "read"
                            /\ \A j \in i + 1 .. Len(out) : out[j].event # "read") - 1)

Asked == LET isRead(e) == e.event = "read"
             asked == SelectSeq(settled, isRead)
         IN  [i \in DOMAIN asked |-> asked[i].value]

Told == LET isShown(e) == e.event # "read"
            told == SelectSeq(settled, isShown)
        IN  [i \in DOMAIN told |->
                IF told[i].error = "none"
                  THEN [event |-> told[i].event, value |-> W!write_value(told[i].value)]
                  ELSE [event |-> "error", value |-> SCM_TYPE_NULL]]

Session == INSTANCE Session WITH asked <- Asked, told <- Told,
                Exprs <- Exprs \cup {Preamble[i] : i \in DOMAIN Preamble}

SessionSpec == Session!SSpec

(* A loop that has been compiled calls itself in tail position: however    *)
(* far it counts, it needs no more of either stack (README "Tail           *)
(* recursion"; vm_ops.c:218-234, compiler.c:202-237).                      *)
ConstantSpace == evals > Len(Preamble) => vm.callp <= 1 /\ vm.sp <= 9

(* "This function assumes that the VM has stack pointers that are all      *)
(* zero" (vm.c:329-331, of vm_evaluate_expr).                              *)
StackPointersZero == phase = "prompt" => vm.sp = 0 /\ vm.callp = 0
=============================================================================
