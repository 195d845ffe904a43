------------------------------- MODULE Memory -------------------------------
(***************************************************************************)
(* The memory of a vm_t: the heap and its marker, and the handles.  main   *)
(* evaluates what it reads and uses no handles; another program may embed  *)
(* the machine, and keep the pairs it constructs in handles (vm.h:141).    *)
(***************************************************************************)
EXTENDS Heap, Handles

(* SCM_TYPE_NULL, what an invalid handle refers to, is no pair.            *)
ASSUME NullAssumption == Null = 0

VARIABLE user       \* who uses the vm_t: main, or another program

memvars == <<heapvars, hvars, user>>

Init == HeapInit /\ vm_handles_init /\ user \in {"main", "embedder"}

(* construct_pair of a value the caller has in a handle, if it is valid.   *)
Construct ==
    /\ user = "embedder" /\ Running
    /\ \E cdr \in {vm_handle_get(h) : h \in Number} :
            vm_alloc("parse", PairSize, 0, cdr) /\ locals' = <<cdr>>
    /\ UNCHANGED <<machine, hvars, user>>

HandleAlloc ==
    user = "embedder" /\ Running /\ vm_handle_alloc /\ UNCHANGED <<heapvars, user>>

HandleFree ==
    /\ user = "embedder" /\ Running
    /\ \E h \in Number : vm_handle_free(h)
    /\ UNCHANGED <<heapvars, user>>

HandleSet ==
    /\ user = "embedder" /\ Running
    /\ \E h \in Number, v \in ToSet(locals) : vm_handle_set(h, v)
    /\ UNCHANGED <<heapvars, user>>

MainNext     == user = "main" /\ Mutate /\ UNCHANGED <<hvars, user>>
MemoryNext   == VmAlloc /\ UNCHANGED <<hvars, user>>
EmbedderNext == Construct \/ HandleAlloc \/ HandleFree \/ HandleSet

Next == MainNext \/ EmbedderNext \/ MemoryNext \/ (Exited /\ UNCHANGED memvars)

(* A program that has called vm_alloc does nothing else until it returns.  *)
Spec == Init /\ [][Next]_memvars /\ WF_memvars(MemoryNext)
=============================================================================
