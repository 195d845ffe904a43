---------------------------- MODULE Environments ----------------------------
(***************************************************************************)
(* Environments (env.c): chains of binary trees of nodes, one node for     *)
(* each name an environment binds.  Compiled code keeps pointers to nodes. *)
(*                                                                         *)
(* Environments and nodes are numbered as they are calloc'ed, and never    *)
(* freed; 0 is NULL.  A key is compared as the number it is.               *)
(***************************************************************************)
EXTENDS Integers, SequencesExt

VARIABLES
    envs,       \* the environment_t: root and last
    nodes       \* the env_node_t: key, value, left and right

envvars == <<envs, nodes>>

Environment(last) == [root |-> 0, last |-> last]
Node(key, v)      == [key |-> key, value |-> v, left |-> 0, right |-> 0]

(* The environments and nodes there are, as one record for functions that  *)
(* are called several times in a step.                                     *)
AllEnvs == [envs |-> envs, nodes |-> nodes]

env_create(H, last) == [H EXCEPT !.envs = Append(@, Environment(last))]

turn(H, n, key) == IF key < H.nodes[n].key THEN H.nodes[n].left ELSE H.nodes[n].right

env_find(H, e, key) ==
    LET at[n \in 0 .. Len(H.nodes)] ==
            IF n = 0 \/ H.nodes[n].key = key THEN n ELSE at[turn(H, n, key)]
    IN  at[H.envs[e].root]

(* The innermost node of the key, from e outwards.                         *)
env_find_recurse(H, e, key) ==
    LET at[i \in 0 .. Len(H.envs)] ==
            IF i = 0 THEN 0
            ELSE IF env_find(H, i, key) # 0 THEN env_find(H, i, key)
            ELSE at[H.envs[i].last]
    IN  at[e]

(* The node env_set's loop stops at: the key's, or the new one's parent.   *)
env_last(H, e, key) ==
    LET at[n \in 1 .. Len(H.nodes)] ==
            IF H.nodes[n].key = key \/ turn(H, n, key) = 0 THEN n ELSE at[turn(H, n, key)]
    IN  at[H.envs[e].root]

(* Mutants of env_set: a node greater than its parent takes the place of   *)
(* its parent, which is moved; it is not linked.                           *)
env_set_moved(H, e, key, v) ==
    LET n == env_last(H, e, key)
        new == Len(H.nodes) + 1
        grown == Append(H.nodes, Node(key, v))
    IN  IF H.envs[e].root = 0 THEN [envs |-> [H.envs EXCEPT ![e].root = new], nodes |-> grown]
        ELSE [H EXCEPT !.nodes =
                IF key < @[n].key THEN [grown EXCEPT ![n].left = new]
                ELSE IF key > @[n].key
                  THEN [Append(@, @[n]) EXCEPT ![n] = [Node(key, v) EXCEPT !.left = new]]
                ELSE [@ EXCEPT ![n].value = v]]

env_set_unlinked(H, e, key, v) ==
    LET n == env_last(H, e, key)
        new == Len(H.nodes) + 1
        grown == Append(H.nodes, Node(key, v))
    IN  IF H.envs[e].root = 0 THEN [envs |-> [H.envs EXCEPT ![e].root = new], nodes |-> grown]
        ELSE [H EXCEPT !.nodes =
                IF key < @[n].key THEN [grown EXCEPT ![n].left = new]
                ELSE IF key > @[n].key THEN grown
                ELSE [@ EXCEPT ![n].value = v]]

env_set(H, e, key, v) ==
    LET n == env_last(H, e, key)
        new == Len(H.nodes) + 1
        grown == Append(H.nodes, Node(key, v))
    IN  IF H.envs[e].root = 0 THEN [envs |-> [H.envs EXCEPT ![e].root = new], nodes |-> grown]
        ELSE [H EXCEPT !.nodes =
                IF key < @[n].key THEN [grown EXCEPT ![n].left = new]
                ELSE IF key > @[n].key THEN [grown EXCEPT ![n].right = new]
                ELSE [@ EXCEPT ![n].value = v]]

(* Mutant of env_set_recurse: the callers' environments are not searched.  *)
env_set_recurse_here(H, e, key, v) == env_set(H, e, key, v)

env_set_recurse(H, e, key, v) ==
    LET n == env_find_recurse(H, e, key)
    IN  IF n # 0 THEN [H EXCEPT !.nodes[n].value = v] ELSE env_set(H, e, key, v)

(* The nodes of an environment.                                            *)
Members(H, e) ==
    LET below[n \in 0 .. Len(H.nodes)] ==
            IF n = 0 THEN {}
            ELSE {n} \cup below[H.nodes[n].left] \cup below[H.nodes[n].right]
    IN  below[H.envs[e].root]
=============================================================================
