------------------------------- MODULE Symbols -------------------------------
(***************************************************************************)
(* The symbol table (symbols.c): a binary tree of the strings that are     *)
(* names, so that a name can be compared by the address of its string.     *)
(*                                                                         *)
(* A text is a number; < is the order of strcmp.  No two nodes of the tree *)
(* share a string, and the strings are never freed: a node is known by the *)
(* address of its string, 0 is NULL.                                       *)
(***************************************************************************)
EXTENDS Integers, SequencesExt

CONSTANTS
    Text,       \* the texts of names
    Word        \* the addresses malloc may return for a string

ASSUME TextAssumption == Text \subseteq Int
ASSUME WordAssumption == Word \subseteq Nat \ {0}

VARIABLES
    string,     \* the strings that were allocated, by address
    tree        \* symbol_tree: its root, and the left and right of each node

symbolvars == <<string, tree>>

(* f, with x mapped to y.                                                  *)
Put(f, x, y) == [z \in DOMAIN f \cup {x} |-> IF z = x THEN y ELSE f[z]]

EmptyTree == [root |-> 0, left |-> <<>>, right |-> <<>>]

(* Where the search for s turns at node n: smaller texts are on the right. *)
branch(n, s) == IF string[n] < s THEN tree.left[n] ELSE tree.right[n]

tree_lookup(s) ==
    LET at[n \in DOMAIN tree.left \cup {0}] ==
            IF n = 0 \/ string[n] = s THEN n ELSE at[branch(n, s)]
    IN  at[tree.root]

lookup_symbol_address(s) == tree_lookup(s)

(* Mutant of tree_insert: the new node always becomes a right child.       *)
tree_insert_right(w, s) ==
    LET last[n \in DOMAIN tree.left] ==
            IF string[n] = s \/ branch(n, s) = 0 THEN n ELSE last[branch(n, s)]
        parent == last[tree.root]
        grown == [tree EXCEPT !.left = Put(@, w, 0), !.right = Put(@, w, 0)]
    IN  IF tree.root = 0 THEN [grown EXCEPT !.root = w]
        ELSE IF string[parent] = s THEN tree
        ELSE [grown EXCEPT !.right[parent] = w]

(* The string w of text s becomes a leaf, unless its text is there.        *)
tree_insert(w, s) ==
    LET last[n \in DOMAIN tree.left] ==
            IF string[n] = s \/ branch(n, s) = 0 THEN n ELSE last[branch(n, s)]
        parent == last[tree.root]
        grown == [tree EXCEPT !.left = Put(@, w, 0), !.right = Put(@, w, 0)]
    IN  IF tree.root = 0 THEN [grown EXCEPT !.root = w]
        ELSE IF string[parent] = s THEN tree
        ELSE IF string[parent] < s THEN [grown EXCEPT !.left[parent] = w]
        ELSE [grown EXCEPT !.right[parent] = w]

(* A new string: strdup, or malloc and strncpy.                            *)
Fresh == Word \ DOMAIN string

(* store_symbol returns the string it was given, in the tree or not.       *)
store_symbol(w, s) ==
    /\ string' = Put(string, w, s)
    /\ tree' = tree_insert(w, s)

(* w is what it returns: the string of the tree, or a copy that is stored. *)
try_store_symbol(w, s) ==
    LET ret == lookup_symbol_address(s)
    IN  IF ret # 0 THEN w = ret /\ UNCHANGED symbolvars
        ELSE w \in Fresh /\ store_symbol(w, s)
=============================================================================
