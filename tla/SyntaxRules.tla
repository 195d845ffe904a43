---------------------------- MODULE SyntaxRules ----------------------------
(***************************************************************************)
(* Matching and expanding syntax-rules macros (syntax-rules.c).            *)
(*                                                                         *)
(* The C code walks chains of pairs and ignores what is in the last cdr,   *)
(* so patterns and templates are the sequences of their elements.          *)
(***************************************************************************)
EXTENDS Values, SequencesExt

Ellipsis == tag_symbol("...")

symbol_in_list(keywords, sym) ==
    is_symbol(sym) /\ sym \in ToSet(Items(keywords))

(* The index of the element the ellipsis repeats; 0 when there is none.    *)
repeated(pattern) ==
    LET n == SelectInSeq(Tail(pattern), LAMBDA v : v = Ellipsis)
    IN  IF pattern = <<>> THEN 0 ELSE n

RECURSIVE matches(_, _, _)
matches(keywords, pattern, expr) ==
    LET element(p, v) ==
            IF is_symbol(p) THEN symbol_in_list(keywords, p) => v = p
            ELSE IF is_pair(p)
              THEN is_pair(v) /\ matches(keywords, p.items, v.items)
            ELSE p = v
        fixed == IF repeated(pattern) = 0 THEN Len(pattern)
                 ELSE repeated(pattern) - 1
    IN  /\ fixed <= Len(expr)
        /\ \A i \in 1 .. fixed : element(pattern[i], expr[i])
        /\ repeated(pattern) = 0 => Len(expr) = fixed

binding(sym, value, variable) ==
    [sym |-> sym, value |-> value, variable |-> variable]

(* The bindings of a matching expression, the latest last.  The repeated   *)
(* element is bound to all that is left of the list, its end included.     *)
RECURSIVE build_bindings(_, _, _)
build_bindings(keywords, pattern, expr) ==
    LET n     == repeated(pattern)
        given == Items(expr)
        bound(i) ==
            IF i = n
              THEN <<binding(pattern[i],
                       IF i > Len(given) THEN SCM_TYPE_NULL
                       ELSE Chain(SubSeq(given, i, Len(given)), expr.last), TRUE)>>
            ELSE IF is_symbol(pattern[i])
              THEN IF symbol_in_list(keywords, pattern[i]) THEN <<>>
                   ELSE <<binding(pattern[i], given[i], FALSE)>>
            ELSE IF is_pair(pattern[i])
              THEN build_bindings(keywords, pattern[i].items, given[i])
            ELSE <<>>
    IN  FlattenSeq([i \in 1 .. (IF n = 0 THEN Len(pattern) ELSE n) |-> bound(i)])

(* A variable-length binding takes the place of the rest of its list, and  *)
(* what follows it in the template is dropped.                             *)
RECURSIVE expand(_, _)
expand(bindings, template) ==
    LET found(v) == SelectLastInSeq(bindings, LAMBDA b : b.sym = v)
        copy(v)  == IF is_pair(v) THEN expand(bindings, v.items)
                    ELSE IF is_symbol(v) /\ found(v) # 0
                      THEN bindings[found(v)].value
                    ELSE v
        cut == SelectInSeq(template, LAMBDA v :
                    is_symbol(v) /\ found(v) # 0 /\ bindings[found(v)].variable)
    IN  IF cut = 0 THEN List([i \in DOMAIN template |-> copy(template[i])])
        ELSE FoldRight(construct_pair, [i \in 1 .. cut - 1 |-> copy(template[i])],
                       copy(template[cut]))

(* The first rule whose pattern matches is expanded.  Keywords that are no *)
(* list, or a rule that is not a list of a pattern and templates, make the *)
(* C code follow a bad pointer.                                            *)
expand_syntax_rules(rules, expr) ==
    LET clauses == Items(rules.patterns)
        well_formed(c) == is_pair(c) /\ is_pair(scm_car(c))
        decided(c) == ~ well_formed(c)
                      \/ matches(rules.keywords, scm_car(c).items, expr.items)
        n == SelectInSeq(clauses, decided)
        outcome(s, v) == [status |-> s, value |-> v]
        lists == /\ is_pair(rules.patterns)
                 /\ is_pair(rules.keywords) \/ is_null(rules.keywords)
    IN  IF ~ lists THEN outcome("crash", SCM_TYPE_NULL)
        ELSE IF n = 0 THEN outcome("no match", SCM_TYPE_NULL)
        ELSE IF ~ well_formed(clauses[n]) \/ ~ is_pair(scm_cdr(clauses[n]))
          THEN outcome("crash", SCM_TYPE_NULL)
        ELSE outcome("ok",
                expand(build_bindings(rules.keywords, scm_car(clauses[n]).items, expr),
                       scm_cdr(clauses[n]).items))
=============================================================================
