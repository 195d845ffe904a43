----------------------------- MODULE Dictionary -----------------------------
(***************************************************************************)
(* What names promise to the rest of the interpreter: scopes that map      *)
(* texts to values and lead to an enclosing scope, and references to a     *)
(* variable of a scope.  Names.tla implements this with interned strings   *)
(* and trees of nodes; VM.tla is written in these terms.                   *)
(***************************************************************************)
EXTENDS Integers, SequencesExt

CONSTANTS
    Text,       \* names
    Value,      \* what a name may be bound to
    MaxParams   \* parameters of a procedure, a bound of the model

VARIABLES
    scopes,     \* each scope's bindings and enclosing scope (0: none)
    references  \* the variables compiled code refers to: scope and text

dvars == <<scopes, references>>

Scope(bound, last) == [bound |-> bound, last |-> last]

Bind(e, t, v) ==
    [scopes EXCEPT ![e].bound =
        [u \in DOMAIN @ \cup {t} |-> IF u = t THEN v ELSE @[u]]]

(* The innermost scope, from e outwards, that binds t, or 0.               *)
Resolve(e, t) ==
    LET at[i \in 0 .. Len(scopes)] ==
            IF i = 0 \/ t \in DOMAIN scopes[i].bound THEN i ELSE at[scopes[i].last]
    IN  at[e]

Define(e, t, v) == scopes' = Bind(e, t, v) /\ UNCHANGED references

(* set! binds where the variable is, or makes it.                          *)
Assign(e, t, v) == Define(IF Resolve(e, t) = 0 THEN e ELSE Resolve(e, t), t, v)

(* A procedure of e is entered: of two parameters of one name the last     *)
(* counts.                                                                 *)
Bindings(ps) ==
    LET LastOf(t) == CHOOSE i \in DOMAIN ps :
                        ps[i][1] = t /\ \A j \in DOMAIN ps : ps[j][1] = t => j <= i
    IN  [t \in {ps[i][1] : i \in DOMAIN ps} |-> ps[LastOf(t)][2]]

Enter(e, ps) ==
    scopes' = Append(scopes, Scope(Bindings(ps), e)) /\ UNCHANGED references

Refer(e, t) ==
    /\ Resolve(e, t) # 0
    /\ references' = references \cup {<<Resolve(e, t), t>>}
    /\ UNCHANGED scopes

DInit == scopes = <<Scope(<<>>, 0)>> /\ references = {}

DNext ==
    \/ \E e \in DOMAIN scopes, t \in Text, v \in Value : Define(e, t, v) \/ Assign(e, t, v)
    \/ \E e \in DOMAIN scopes, t \in Text : Refer(e, t)
    \/ /\ Len(scopes') > Len(scopes)
       /\ \E e \in DOMAIN scopes, ps \in BoundedSeq(Text \X Value, MaxParams) : Enter(e, ps)

DSpec == DInit /\ [][DNext]_dvars
=============================================================================
