--------------------------- MODULE HandlesProofs ---------------------------
(***************************************************************************)
(* Proofs about the handle stack (module Handles), for any number of       *)
(* handles and any callers.                                                *)
(*                                                                         *)
(* The stack of free handles is of no use to the argument: what is on it   *)
(* may be there twice, and vm_handle_alloc does not read it.  That no      *)
(* handle has two holders rests on the slots alone, because a slot that    *)
(* was given out stays in use.                                             *)
(***************************************************************************)
EXTENDS Handles, TLAPS

(* The slots as they are kept, and: a handle somebody holds is in use.     *)
HandlesIInv ==
    /\ HandlesTypeOK
    /\ DOMAIN slots = Handle
    /\ \A h \in Handle : "used" \in DOMAIN slots[h] /\ "value" \in DOMAIN slots[h]
    /\ held \subseteq Handle
    /\ \A h \in held : slots[h].used

(* At first no slot is in use and the stack is empty (vm.c:363-373).       *)
LEMMA HandlesInitIInv == vm_handles_init => HandlesIInv
<1> SUFFICES ASSUME vm_handles_init PROVE HandlesIInv
  OBVIOUS
<1>1. /\ num_avail \in 0 .. MaxAvail /\ avail \in [Handle -> Handle]
      /\ returned \in Handle \cup {-1} /\ held = {}
  BY HandlesAssumption DEF vm_handles_init
<1>2. slots = [h \in Handle |-> [used |-> FALSE, value |-> Null]]
  BY DEF vm_handles_init
<1> QED BY <1>1, <1>2 DEF HandlesIInv, HandlesTypeOK

(* The part of the invariant about the slots, for a step that keeps it.    *)
SlotsKept ==
    /\ DOMAIN slots = Handle
    /\ \A h \in Handle : "used" \in DOMAIN slots[h] /\ "value" \in DOMAIN slots[h]
    /\ \A h \in Handle : slots[h].used \in BOOLEAN
    /\ \A h \in held : slots[h].used

(* Vm_handle_alloc takes a slot that is not in use, or none                *)
(* (vm.c:375-390).                                                         *)
LEMMA AllocIInv == ASSUME HandlesIInv, vm_handle_alloc PROVE HandlesIInv'
<1>1. CASE num_avail = 0
  BY <1>1 DEF HandlesIInv, HandlesTypeOK, vm_handle_alloc
<1>2. CASE num_avail # 0
  <2>1. num_avail - 1 \in Handle /\ num_avail' = num_avail - 1 /\ avail' = avail
    BY <1>2, HandlesAssumption DEF HandlesIInv, HandlesTypeOK, vm_handle_alloc, Handle
  <2>2. \/ /\ returned' = -1 /\ slots' = slots /\ held' = held
        \/ /\ slots' = [slots EXCEPT ![num_avail - 1].used = TRUE]
           /\ returned' = num_avail - 1 /\ held' = held \cup {num_avail - 1}
    BY <1>2 DEF vm_handle_alloc
  <2>3. num_avail' \in 0 .. MaxAvail /\ avail' \in [Handle -> Handle]
    BY <2>1, HandlesAssumption DEF HandlesIInv, HandlesTypeOK, Handle
  <2>4. returned' \in Handle \cup {-1} /\ held' \subseteq Handle
    BY <2>1, <2>2 DEF HandlesIInv
  <2>5. SlotsKept'
    <3> DEFINE k == num_avail - 1
    <3> HIDE DEF k
    <3>1. k \in Handle
      BY <2>1 DEF k
    <3>2. \/ slots' = slots /\ held' = held
          \/ slots' = [slots EXCEPT ![k].used = TRUE] /\ held' = held \cup {k}
      BY <2>2 DEF k
    <3>3. CASE slots' = slots /\ held' = held
      BY <3>3 DEF HandlesIInv, HandlesTypeOK, SlotsKept
    <3>4. CASE slots' = [slots EXCEPT ![k].used = TRUE] /\ held' = held \cup {k}
      <4>1. DOMAIN slots' = Handle /\ \A h \in Handle : h # k => slots'[h] = slots[h]
        BY <3>4 DEF HandlesIInv
      <4>2. slots'[k] = [slots[k] EXCEPT !.used = TRUE]
        BY <3>1, <3>4 DEF HandlesIInv
      <4>3. "used" \in DOMAIN slots'[k] /\ "value" \in DOMAIN slots'[k] /\ slots'[k].used = TRUE
        BY <3>1, <4>2 DEF HandlesIInv
      <4> HIDE <4>2
      <4> QED BY <3>4, <4>1, <4>3, Zenon DEF HandlesIInv, HandlesTypeOK, SlotsKept
    <3> QED BY <3>2, <3>3, <3>4
  <2> QED BY <2>3, <2>4, <2>5 DEF HandlesIInv, HandlesTypeOK, SlotsKept
<1> QED BY <1>1, <1>2

(* Vm_handle_free pushes only what is in the array and leaves the slot in  *)
(* use (vm.c:392-410).                                                     *)
LEMMA FreeIInv ==
    ASSUME HandlesIInv, NEW handle, vm_handle_free(handle) PROVE HandlesIInv'
<1>1. CASE num_avail < MaxAvail /\ handle \in Handle /\ slots[handle].used
  <2>1. /\ num_avail \in Handle
        /\ avail' = [avail EXCEPT ![num_avail] = handle]
        /\ num_avail' = num_avail + 1 /\ held' = held \ {handle}
        /\ UNCHANGED <<slots, returned>>
    BY <1>1, HandlesAssumption DEF HandlesIInv, HandlesTypeOK, vm_handle_free, Handle
  <2>2. num_avail' \in 0 .. MaxAvail
    BY <1>1, <2>1, HandlesAssumption DEF HandlesIInv, HandlesTypeOK, Handle
  <2>3. avail' \in [Handle -> Handle]
    BY <1>1, <2>1 DEF HandlesIInv, HandlesTypeOK
  <2>4. HandlesTypeOK'
    BY <2>1, <2>2, <2>3 DEF HandlesIInv, HandlesTypeOK
  <2> QED BY <2>1, <2>4 DEF HandlesIInv
<1>2. CASE ~ (num_avail < MaxAvail /\ handle \in Handle /\ slots[handle].used)
  BY <1>2 DEF HandlesIInv, HandlesTypeOK, vm_handle_free
<1> QED BY <1>1, <1>2

(* Vm_handle_set writes no more than the value of a slot (vm.c:428-435).   *)
LEMMA SetIInv ==
    ASSUME HandlesIInv, NEW handle, NEW value, vm_handle_set(handle, value) PROVE HandlesIInv'
<1>1. /\ DOMAIN slots' = Handle
      /\ \A h \in Handle : /\ "used" \in DOMAIN slots'[h] /\ "value" \in DOMAIN slots'[h]
                           /\ slots'[h].used = slots[h].used
  BY DEF HandlesIInv, vm_handle_set, vm_handle_valid
<1> QED BY <1>1 DEF HandlesIInv, HandlesTypeOK, vm_handle_set

(* No call gives a handle to a second holder.                              *)
LEMMA AllocGrants == ASSUME HandlesIInv, vm_handle_alloc PROVE returned' \notin held
BY HandlesAssumption DEF HandlesIInv, HandlesTypeOK, vm_handle_alloc, Handle

-----------------------------------------------------------------------------
(* The handle stack on its own, whatever is freed, set and allocated.      *)
LEMMA HandlesInvariance == HandleSpec => []HandlesIInv
<1>1. HandlesIInv /\ [HandleNext]_hvars => HandlesIInv'
  <2>1. CASE UNCHANGED hvars
    BY <2>1 DEF hvars, HandlesIInv, HandlesTypeOK
  <2> QED BY <2>1, AllocIInv, FreeIInv, SetIInv DEF HandleNext
<1> QED BY <1>1, HandlesInitIInv, PTL DEF HandleSpec
=============================================================================
