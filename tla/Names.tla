-------------------------------- MODULE Names --------------------------------
(***************************************************************************)
(* Names: the symbol table and the environments together, as the lexer,    *)
(* the machine and the compiler use them.  Interned strings are the keys   *)
(* of the environments, in the order of their addresses, whatever malloc   *)
(* makes of that.                                                          *)
(***************************************************************************)
EXTENDS Symbols, Environments, FiniteSets

CONSTANTS
    Builtins,   \* the names vm_init stores, in its order
    Value,      \* what a name may be bound to
    MaxEnvs,    \* environments, nodes and parameters of a procedure:
    MaxNodes,   \* bounds of the model, as is that of the node pointers
    MaxParams,  \* of compiled closures
    MaxRefs

(* vm_init stores 23 names, no two of them alike (vm.c:452-497).           *)
ASSUME BuiltinsAssumption == Builtins \in Seq(Text) /\ IsInjective(Builtins)
ASSUME BoundsAssumption == {MaxEnvs, MaxNodes, MaxParams, MaxRefs} \subseteq Nat

VARIABLES
    stored,     \* how many of the builtin names vm_init has bound
    words,      \* the strings that were returned as names
    var_refs    \* the node pointers of compiled closures

namevars == <<symbolvars, envvars, stored, words, var_refs>>

Running == stored = Len(Builtins)

(* The environment functions return a heap; the model has room for it.     *)
becomes(H) ==
    /\ envs' = H.envs /\ nodes' = H.nodes
    /\ Len(H.envs) <= MaxEnvs /\ Len(H.nodes) <= MaxNodes

(* vm_init: store_symbol of a name's copy, bound in the root environment.  *)
vm_add_op ==
    /\ ~ Running
    /\ LET s == Builtins[stored + 1] IN
            \E w \in Fresh, v \in Value :
                store_symbol(w, s) /\ words' = words \cup {w} /\ becomes(env_set(AllEnvs, 1, w, v))
    /\ stored' = stored + 1
    /\ UNCHANGED var_refs

(* The lexer or parse_quoted makes a symbol.                               *)
read_symbol ==
    /\ Running
    /\ \E w \in Word, s \in Text : try_store_symbol(w, s) /\ words' = words \cup {w}
    /\ UNCHANGED <<envvars, stored, var_refs>>

vm_op_intern_define ==
    /\ Running
    /\ \E e \in DOMAIN envs, sym \in words, datum \in Value : becomes(env_set(AllEnvs, e, sym, datum))
    /\ UNCHANGED <<symbolvars, stored, words, var_refs>>

vm_op_intern_set ==
    /\ Running
    /\ \E e \in DOMAIN envs, sym \in words, datum \in Value :
            becomes(env_set_recurse(AllEnvs, e, sym, datum))
    /\ UNCHANGED <<symbolvars, stored, words, var_refs>>

(* The youngest environment gets the arguments, one parameter after the    *)
(* other.                                                                  *)
Bound(H, args) ==
    LET after[i \in 0 .. Len(args)] ==
            IF i = 0 THEN H
            ELSE env_set(after[i - 1], Len(H.envs), args[i][1], args[i][2])
    IN  after[Len(args)]

(* A closure made in e is entered.                                         *)
vm_load_lambda_args ==
    /\ Running
    /\ \E e \in DOMAIN envs, args \in BoundedSeq(words \X Value, MaxParams) :
            becomes(Bound(env_create(AllEnvs, e), args))
    /\ UNCHANGED <<symbolvars, stored, words, var_refs>>

(* The compiler finds the node of a free variable and keeps its address.   *)
add_closure_node ==
    /\ Running /\ Cardinality(var_refs) < MaxRefs
    /\ \E e \in DOMAIN envs, sym \in words :
            LET n == env_find_recurse(AllEnvs, e, sym)
            IN  n # 0 /\ var_refs' = var_refs \cup {n}
    /\ UNCHANGED <<symbolvars, envvars, stored, words>>

Init ==
    /\ string = <<>> /\ tree = EmptyTree
    /\ envs = <<Environment(0)>> /\ nodes = <<>>
    /\ stored = 0 /\ words = {} /\ var_refs = {}

Next == vm_add_op \/ read_symbol \/ vm_op_intern_define \/ vm_op_intern_set
        \/ vm_load_lambda_args \/ add_closure_node

Spec == Init /\ [][Next]_namevars

-----------------------------------------------------------------------------
(* Properties.                                                             *)

(* The tables keep their shape: the strings of the tree are allocated, and *)
(* every node belongs to just one environment (symbols.c, env.c).          *)
TypeOK ==
    /\ words \subseteq DOMAIN string /\ DOMAIN string \subseteq Word
    /\ DOMAIN tree.left \subseteq DOMAIN string /\ DOMAIN tree.right = DOMAIN tree.left
    /\ tree.root \in {0} \cup DOMAIN tree.left
    /\ \A n \in DOMAIN tree.left :
            {tree.left[n], tree.right[n]} \subseteq {0} \cup DOMAIN tree.left
    /\ \A e \in DOMAIN envs : envs[e].root \in 0 .. Len(nodes) /\ envs[e].last \in 0 .. e - 1
    /\ \A n \in DOMAIN nodes :
            /\ nodes[n].key \in words /\ nodes[n].value \in Value
            /\ \E e \in DOMAIN envs :
                    /\ n \in Members(AllEnvs, e)
                    /\ \A f \in DOMAIN envs \ {e} : n \notin Members(AllEnvs, f)
    /\ var_refs \subseteq DOMAIN nodes

(* Names can be compared by address: of one text there is one word, which  *)
(* is the one the table will go on to return, though store_symbol gives    *)
(* back its argument and not what is in the tree (symbols.c:71-94).        *)
OneWord ==
    /\ \A v, w \in words : string[v] = string[w] => v = w
    /\ \A w \in words : lookup_symbol_address(string[w]) = w
=============================================================================
