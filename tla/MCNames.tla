------------------------------- MODULE MCNames -------------------------------
(* An instance of Names.tla for TLC, and the refinement of Dictionary.tla. *)
EXTENDS Names, TLC

MCBuiltins == <<2>>

Symmetry == Permutations(Value)

(* What the trees of a heap say, by the texts of the names.                *)
text(H, n) == string[H.nodes[n].key]

View(H) ==
    [e \in DOMAIN H.envs |->
        [bound |-> [t \in {text(H, n) : n \in Members(H, e)} |->
                        H.nodes[CHOOSE n \in Members(H, e) : text(H, n) = t].value],
         last  |-> H.envs[e].last]]

home(n) == CHOOSE e \in DOMAIN envs : n \in Members(AllEnvs, e)

D == INSTANCE Dictionary WITH
        scopes     <- View(AllEnvs),
        references <- {<<home(n), string[nodes[n].key]>> : n \in var_refs}

(* Whatever trees there are, what is defined is found: define, set! and    *)
(* the lookup of a name do what they would to plain mappings, whether the  *)
(* name is bound there or in a caller's environment (env.c:12-71).         *)
NamesMean ==
    \A e \in DOMAIN envs, w \in words :
        LET t == string[w]
            n == env_find_recurse(AllEnvs, e, w)
            r == D!Resolve(e, t)
        IN  /\ IF r = 0 THEN n = 0 ELSE n \in Members(AllEnvs, r) /\ nodes[n].key = w
            /\ \A v \in Value :
                    /\ View(env_set(AllEnvs, e, w, v)) = D!Bind(e, t, v)
                    /\ View(env_set_recurse(AllEnvs, e, w, v)) = D!Bind(IF r = 0 THEN e ELSE r, t, v)

(* The operations on the trees are operations on scopes, and a node that   *)
(* compiled code points to stays the variable it was when the code was     *)
(* compiled, however the trees grow (vm_ops.c:68-86, 174-180, 441-482).    *)
DictionarySpec == D!DSpec
=============================================================================
