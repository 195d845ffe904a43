------------------------------ MODULE MCMemory ------------------------------
(* Instances of Memory.tla for TLC, and the refinement of Collector.tla.   *)
EXTENDS Memory

(* The blocks and what they refer to; a traversal counts from its start    *)
(* for all that it will reach.                                             *)
C == INSTANCE Collector WITH
        objects <- [b \in DOMAIN blocks |-> child(b) \ {0}],
        marked  <- Reachable(flagged \cup {cur})

CollectorSpec == C!CSpec

(* Once it is not at work, the marker has marked what it promised.         *)
MarksComplete == cur = 0 => \A b \in Reachable(flagged) : blocks[b].marked

-----------------------------------------------------------------------------
(* Everything the program can still get at stays allocated, with the words *)
(* it was made of: what operands, expressions, frames, closures, the       *)
(* environment, C variables and handles refer to, most of which the marker *)
(* does not look at (gc.c:202-252, vm_ops.c:311-315, vm.h:141-143).        *)
InUse ==
    Reachable(ToSet(stack) \cup ToSet(globals) \cup ToSet(locals) \cup {ptr}
              \cup {calls[i].ptr : i \in DOMAIN calls}
              \cup UNION {{closures[i].definition, closures[i].array} : i \in DOMAIN closures}
              \cup {vm_handle_get(h) : h \in Handle})

LiveStays ==
    [][\A b \in InUse :
            /\ b \in DOMAIN blocks'
            /\ blocks'[b].size = blocks[b].size
            /\ blocks'[b].car = blocks[b].car /\ blocks'[b].cdr = blocks[b].cdr]_memvars
=============================================================================
