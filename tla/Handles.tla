------------------------------- MODULE Handles -------------------------------
(***************************************************************************)
(* The handle stack (vm.c:363-435): slots that keep references to values   *)
(* for callers outside of the machine.  Nothing in the program calls it    *)
(* yet; any caller may allocate, free, set and get, with any number.       *)
(***************************************************************************)
EXTENDS Integers, FiniteSets

CONSTANTS
    MaxAvail,   \* initial_size of vm_handles_init: 0x1000 in the build
    Value,      \* what a handle may refer to,
    Null        \* SCM_TYPE_NULL, the value of a handle that is not valid

ASSUME HandlesAssumption == MaxAvail \in Nat \ {0}

VARIABLES
    slots,      \* [used, value] for each handle
    avail,      \* the stack of free handles
    num_avail,  \* its height
    returned,   \* what the last vm_handle_alloc returned
    held        \* the handles given out and not freed since (history)

hvars == <<slots, avail, num_avail, returned, held>>

Handle == 0 .. MaxAvail - 1

(* A caller's idea of a handle: one that exists, -1, or one too large.     *)
Number == -1 .. MaxAvail

vm_handles_init ==
    /\ slots = [h \in Handle |-> [used |-> FALSE, value |-> Null]]
    /\ avail = [h \in Handle |-> h]
    /\ num_avail = MaxAvail
    /\ returned = -1
    /\ held = {}

(* Mutant of vm_handle_alloc: the slot is not looked at.                   *)
vm_handle_alloc_blind ==
    IF num_avail = 0
      THEN returned' = -1 /\ UNCHANGED <<slots, avail, num_avail, held>>
      ELSE /\ num_avail' = num_avail - 1
           /\ slots' = [slots EXCEPT ![num_avail - 1].used = TRUE]
           /\ returned' = num_avail - 1
           /\ held' = held \cup {num_avail - 1}
           /\ UNCHANGED avail

(* num_avail is counted down even when the slot is found to be in use.     *)
vm_handle_alloc ==
    IF num_avail = 0
      THEN returned' = -1 /\ UNCHANGED <<slots, avail, num_avail, held>>
      ELSE LET ret == num_avail - 1 IN
            /\ num_avail' = ret
            /\ IF slots[ret].used
                 THEN returned' = -1 /\ UNCHANGED <<slots, held>>
                 ELSE /\ slots' = [slots EXCEPT ![ret].used = TRUE]
                      /\ returned' = ret
                      /\ held' = held \cup {ret}
            /\ UNCHANGED avail

(* Mutant of vm_handle_free: the stack is not checked to have room.        *)
vm_handle_free_over(handle) ==
    /\ IF handle \in Handle /\ slots[handle].used
         THEN /\ avail' = [avail EXCEPT ![num_avail] = handle]
              /\ num_avail' = num_avail + 1
              /\ held' = held \ {handle}
         ELSE UNCHANGED <<avail, num_avail, held>>
    /\ UNCHANGED <<slots, returned>>

(* Free leaves the slot in use and puts its number on the stack.           *)
vm_handle_free(handle) ==
    /\ IF num_avail < MaxAvail /\ handle \in Handle /\ slots[handle].used
         THEN /\ avail' = [avail EXCEPT ![num_avail] = handle]
              /\ num_avail' = num_avail + 1
              /\ held' = held \ {handle}
         ELSE UNCHANGED <<avail, num_avail, held>>
    /\ UNCHANGED <<slots, returned>>

vm_handle_valid(handle) == handle \in Handle /\ slots[handle].used

vm_handle_get(handle) ==
    IF vm_handle_valid(handle) THEN slots[handle].value ELSE Null

vm_handle_set(handle, value) ==
    /\ slots' = IF vm_handle_valid(handle) THEN [slots EXCEPT ![handle].value = value]
                ELSE slots
    /\ UNCHANGED <<avail, num_avail, returned, held>>

HandleNext ==
    \/ vm_handle_alloc
    \/ \E h \in Number : vm_handle_free(h)
    \/ \E h \in Number, v \in Value : vm_handle_set(h, v)

HandleSpec == vm_handles_init /\ [][HandleNext]_hvars

-----------------------------------------------------------------------------
(* Properties.                                                             *)

(* The stack of free handles stays within its array, also when a handle is *)
(* freed twice: what it holds are numbers of slots (vm.c:392-410).         *)
HandlesTypeOK ==
    /\ num_avail \in 0 .. MaxAvail
    /\ avail \in [Handle -> Handle]
    /\ \A h \in Handle : slots[h].used \in BOOLEAN
    /\ returned \in Handle \cup {-1}

(* Whatever is freed, twice or in any order, no handle is given to a second*)
(* holder while its first one has it: vm_handle_alloc takes the height of  *)
(* the stack for the handle it should pop, and finds out by the slot       *)
(* (vm.c:375-410).                                                         *)
NoDoubleGrant == [][vm_handle_alloc => returned' \notin held]_hvars
=============================================================================
