------------------------------ MODULE Collector ------------------------------
(***************************************************************************)
(* What a marker promises: objects that refer to older objects, and marks  *)
(* that are put on everything an object reaches in one step.  Heap.tla     *)
(* implements this module with the linked work list of gc.c.               *)
(***************************************************************************)
VARIABLES
    objects,    \* the objects and what each one refers to
    marked      \* the objects that carry a mark

(* The least set of objects that holds roots and all that its members      *)
(* refer to.                                                               *)
Reach(roots) ==
    {o \in DOMAIN objects :
        \A S \in SUBSET DOMAIN objects :
            (roots \subseteq S /\ \A p \in S : objects[p] \subseteq S) => o \in S}

CInit == objects = <<>> /\ marked = {}

(* A new object refers to objects there are, and has no mark.              *)
Allocate ==
    /\ \E o \in DOMAIN objects' \ DOMAIN objects :
            /\ DOMAIN objects' = DOMAIN objects \cup {o}
            /\ objects'[o] \subseteq DOMAIN objects
    /\ \A p \in DOMAIN objects : objects'[p] = objects[p]
    /\ UNCHANGED marked

Mark ==
    /\ UNCHANGED objects
    /\ \E o \in DOMAIN objects : marked' = marked \cup Reach({o})

CSpec == CInit /\ [][Allocate \/ Mark]_<<objects, marked>>
=============================================================================
