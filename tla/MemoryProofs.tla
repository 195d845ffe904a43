---------------------------- MODULE MemoryProofs ----------------------------
(***************************************************************************)
(* Theorems about the memory of a vm_t (module Memory): what the heap, the *)
(* marker and the handles keep whatever main or an embedding program does, *)
(* and that heap and marker implement Collector, for a heap of any size.   *)
(***************************************************************************)
EXTENDS MCMemory, HeapProofs, HandlesProofs

(* The invariants of the parts, and what handles refer to are pairs.       *)
IInv == HeapIInv /\ HandlesIInv /\ \A h \in Handle : slots[h].value \in Ref

(* Vm_init and vm_handles_init.                                            *)
LEMMA InitIInv == Init => IInv
<1> SUFFICES ASSUME Init PROVE IInv
  OBVIOUS
<1>1. \A h \in Handle : slots[h].value \in Ref
  BY NullAssumption DEF Init, vm_handles_init, Ref
<1> QED BY <1>1, HeapInitIInv, HandlesInitIInv DEF Init, IInv

(* A program that embeds the machine asks for a pair (vm.h:168-175).       *)
LEMMA ConstructIInv ==
    ASSUME IInv, Construct PROVE HeapIInv' /\ UNCHANGED <<blocks, allocend, marker, hvars>>
<1>1. PICK h \in Number :
            vm_alloc("parse", PairSize, 0, vm_handle_get(h)) /\ locals' = <<vm_handle_get(h)>>
  BY DEF Construct
<1> DEFINE cdr == vm_handle_get(h)
<1>2. cdr \in Ref /\ 0 \in Ref
  BY NullAssumption DEF IInv, vm_handle_get, vm_handle_valid, Ref
<1> HIDE DEF cdr
<1>3. vm_alloc("parse", PairSize, 0, cdr) /\ locals' = <<cdr>>
  BY <1>1 DEF cdr
<1>4. RequestTyped' /\ Ref' = Ref /\ ClosureRec' = ClosureRec /\ CallFrame' = CallFrame
  BY <1>2, <1>3, RequestKept DEF PairSize, IInv
<1>5. MachineRefs'
  BY <1>2, <1>3, <1>4 DEF IInv, HeapIInv, MachineRefs, Construct, machine
<1> QED BY <1>3, <1>4, <1>5, MachineStep DEF Construct, vm_alloc, IInv

(* Whoever uses the memory, a step is one of the heap, of the handles, or  *)
(* the request of an embedding program.                                    *)
LEMMA StepKinds ==
    ASSUME [Next]_memvars
    PROVE  \/ (HeapNext \/ UNCHANGED heapvars) /\ UNCHANGED hvars
           \/ Construct
           \/ UNCHANGED heapvars /\ (HandleAlloc \/ HandleFree \/ HandleSet)
BY DEF Next, MainNext, EmbedderNext, MemoryNext, HandleAlloc, HandleFree, HandleSet, HeapNext, memvars

(* Every step keeps both invariants.                                       *)
LEMMA NextIInv == ASSUME IInv, [Next]_memvars PROVE IInv'
<1>1. CASE (HeapNext \/ UNCHANGED heapvars) /\ UNCHANGED hvars
  <2>1. HeapIInv' /\ Ref \subseteq Ref'
    BY <1>1, HeapStepIInv, BlocksKept DEF IInv
  <2>2. HandlesIInv'
    BY <1>1 DEF IInv, HandlesIInv, HandlesTypeOK, hvars
  <2> QED BY <1>1, <2>1, <2>2 DEF IInv, hvars
<1>2. CASE Construct
  <2>1. HeapIInv' /\ UNCHANGED <<blocks, hvars>>
    BY <1>2, ConstructIInv
  <2>2. Ref' = Ref
    BY <2>1 DEF Ref, Pairs
  <2>3. HandlesIInv'
    BY <2>1 DEF IInv, HandlesIInv, HandlesTypeOK, hvars
  <2> QED BY <2>1, <2>2, <2>3 DEF IInv, hvars
<1>3. CASE UNCHANGED heapvars /\ (HandleAlloc \/ HandleFree \/ HandleSet)
  <2>1. HeapIInv' /\ Ref' = Ref
    BY <1>3, HeapStepIInv DEF IInv, heapvars, Ref, Pairs
  <2>2. HandlesIInv'
    BY <1>3, AllocIInv, FreeIInv, SetIInv DEF IInv, HandleAlloc, HandleFree, HandleSet
  <2>3. \A h \in Handle : slots'[h].value \in Ref
    <3>1. CASE HandleAlloc
      BY <3>1 DEF IInv, HandlesIInv, HandleAlloc, vm_handle_alloc
    <3>2. CASE HandleFree
      BY <3>2 DEF IInv, HandleFree, vm_handle_free
    <3>3. CASE HandleSet
      <4>1. PICK n \in Number, v \in ToSet(locals) : vm_handle_set(n, v)
        BY <3>3 DEF HandleSet
      <4>2. v \in Ref
        BY SeqParts DEF IInv, HeapIInv, MachineRefs
      <4> QED BY <4>1, <4>2 DEF IInv, HandlesIInv, vm_handle_set
    <3> QED BY <1>3, <3>1, <3>2, <3>3
  <2> QED BY <2>1, <2>2, <2>3 DEF IInv
<1> QED BY <1>1, <1>2, <1>3, StepKinds

(* The inductive invariant of heap and handles.                            *)
LEMMA Invariance == Spec => []IInv
BY InitIInv, NextIInv, PTL DEF Spec

-----------------------------------------------------------------------------
(* What the runs check of the memory.                                      *)

(* What is allocated, held by the machine or waiting for the marker keeps  *)
(* its type, and no reference leads out of the heap (gc.c:23-77, 164-200). *)
THEOREM HeapTypeCorrect == Spec => []HeapTypeOK
<1>1. IInv => HeapTypeOK
  BY HeapTyped DEF IInv
<1> QED BY <1>1, Invariance, PTL

(* Blocks never overlap, whatever is asked for, in whatever order, and the *)
(* heap is never written past its end (gc.c:62-77).                        *)
THEOREM BlocksStayApart == Spec => []BlocksApart
<1>1. IInv => BlocksApart
  BY DEF IInv, HeapIInv, HeapShape
<1> QED BY <1>1, Invariance, PTL

(* The work list of mark_traverse holds all that is flagged and not marked,*)
(* and ends where the next block is linked (gc.c:111-200).                 *)
THEOREM WorkListHoldsAll == Spec => []NoneForgotten
<1>1. IInv => NoneForgotten
  BY NothingForgotten DEF IInv
<1> QED BY <1>1, Invariance, PTL

(* A collection marks all that operands and expressions refer to, at any   *)
(* distance (gc.c:228-246).                                                *)
THEOREM CollectionMarks == Spec => []MachineMarked
<1>1. IInv => MachineMarked
  BY RootsMarked DEF IInv
<1> QED BY <1>1, Invariance, PTL

(* Between traversals, all that a marked block reaches is marked           *)
(* (gc.c:164-200).                                                         *)
THEOREM MarksAreComplete == Spec => []MarksComplete
<1>1. IInv => MarksComplete
  BY MarkedClosed, FlaggedBlocks DEF IInv, MarksComplete
<1> QED BY <1>1, Invariance, PTL

(* A collection makes no room (gc.c:28-38).                                *)
THEOREM FullHeapIsFullForGood == Spec => FullForGood
<1>1. IInv /\ [Next]_memvars => [pc = "retry" => pc' = "exit"]_heapvars
  <2> SUFFICES ASSUME IInv, [Next]_memvars, pc = "retry", ~ UNCHANGED heapvars
               PROVE  pc' = "exit"
    OBVIOUS
  <2>1. HeapNext
    BY StepKinds DEF Construct, Running
  <2> QED BY <2>1, RetryEnds DEF IInv
<1> QED BY <1>1, Invariance, PTL DEF Spec, FullForGood

(* No block has its turn twice, and no mark is lost: the chain the marker  *)
(* follows never leads back to a block that has had its turn               *)
(* (gc.c:111-200).                                                         *)
THEOREM EveryBlockHasOneTurn == Spec => MarkedOnce
<1>1. Init => OneTurn
  BY DEF Init, HeapInit, OneTurn
<1>2. ASSUME IInv, [Next]_memvars
      PROVE  /\ OneTurn => OneTurn'
             /\ \A b \in DOMAIN blocks : blocks[b].marked => blocks'[b].marked
  <2>1. CASE HeapNext \/ UNCHANGED heapvars
    BY <1>2, <2>1, OneTurnStep, MarksKept DEF IInv
  <2>2. CASE Construct
    <3>1. UNCHANGED <<blocks, cur>>
      BY <1>2, <2>2, ConstructIInv DEF marker
    <3> QED BY <3>1 DEF OneTurn
  <2> QED BY <1>2, <2>1, <2>2, StepKinds
<1>3. IInv /\ OneTurn /\ [Next]_memvars =>
        [/\ Traversing => ~ blocks[cur].marked
         /\ \A b \in DOMAIN blocks : blocks[b].marked => blocks'[b].marked]_heapvars
  BY <1>2 DEF OneTurn, Traversing
<1>4. IInv /\ OneTurn /\ [Next]_memvars => OneTurn'
  BY <1>2
<1> QED BY <1>1, <1>3, <1>4, Invariance, PTL DEF Spec, MarkedOnce

(* Nothing that was allocated is ever freed or written over, so all that   *)
(* is in use stays as it was made (gc.c:23-77, 202-252).                   *)
THEOREM InUseStays == Spec => LiveStays
<1>1. IInv /\ [Next]_memvars =>
        [\A b \in InUse :
            /\ b \in DOMAIN blocks'
            /\ blocks'[b].size = blocks[b].size
            /\ blocks'[b].car = blocks[b].car /\ blocks'[b].cdr = blocks[b].cdr]_memvars
  <2> SUFFICES ASSUME IInv, [Next]_memvars, NEW b \in DOMAIN blocks
               PROVE  /\ b \in DOMAIN blocks'
                      /\ blocks'[b].size = blocks[b].size
                      /\ blocks'[b].car = blocks[b].car /\ blocks'[b].cdr = blocks[b].cdr
    BY DEF InUse, Reachable
  <2>1. HeapIInv
    BY DEF IInv
  <2>2. CASE Construct
    BY <2>2, ConstructIInv
  <2> QED BY <2>1, <2>2, StepKinds, BlocksKept
<1> QED BY <1>1, Invariance, PTL DEF Spec, LiveStays

(* The stack of free handles keeps to its array (vm.c:392-410).            *)
THEOREM HandlesTypeCorrect == Spec => []HandlesTypeOK
<1>1. IInv => HandlesTypeOK
  BY DEF IInv, HandlesIInv
<1> QED BY <1>1, Invariance, PTL

(* No handle has two holders, whatever was freed twice (vm.c:375-410).     *)
THEOREM OneHolder == Spec => NoDoubleGrant
<1>1. IInv /\ [Next]_memvars => [vm_handle_alloc => returned' \notin held]_hvars
  BY AllocGrants DEF IInv
<1> QED BY <1>1, Invariance, PTL DEF Spec, NoDoubleGrant

-----------------------------------------------------------------------------
(* The refinement.  Least(O, A) is what the objects O reach from A.        *)

Least(O, A) ==
    {b \in DOMAIN O : \A S \in SUBSET DOMAIN O :
        A \subseteq S /\ (\A p \in S : O[p] \subseteq S) => b \in S}

(* The set the abstract marker adds is closed.                             *)
LEMMA LeastClosed ==
    ASSUME NEW O, NEW A, A \subseteq DOMAIN O, \A p \in DOMAIN O : O[p] \subseteq DOMAIN O
    PROVE  /\ A \subseteq Least(O, A) /\ Least(O, A) \subseteq DOMAIN O
           /\ \A p \in Least(O, A) : O[p] \subseteq Least(O, A)
BY DEF Least

(* From more objects, more is reached.                                     *)
LEMMA LeastMonotone ==
    ASSUME NEW O, NEW A, NEW B, A \subseteq B PROVE Least(O, A) \subseteq Least(O, B)
BY DEF Least

(* What is reached from an object, in addition to what is reached already. *)
LEMMA LeastUnion ==
    ASSUME NEW O, NEW A, A \subseteq DOMAIN O, \A p \in DOMAIN O : O[p] \subseteq DOMAIN O,
           NEW o \in DOMAIN O
    PROVE  Least(O, A \cup {o}) = Least(O, A) \cup Least(O, {o})
<1>1. Least(O, A) \cup Least(O, {o}) \subseteq Least(O, A \cup {o})
  BY LeastMonotone
<1>2. /\ A \cup {o} \subseteq Least(O, A) \cup Least(O, {o})
      /\ Least(O, A) \cup Least(O, {o}) \in SUBSET DOMAIN O
      /\ \A p \in Least(O, A) \cup Least(O, {o}) : O[p] \subseteq Least(O, A) \cup Least(O, {o})
  <2>1. {o} \subseteq DOMAIN O
    OBVIOUS
  <2> QED BY <2>1, LeastClosed
<1>3. Least(O, A \cup {o}) \subseteq Least(O, A) \cup Least(O, {o})
  BY <1>2 DEF Least
<1> QED BY <1>1, <1>3

(* Adding objects that are reached already reaches nothing new.            *)
LEMMA LeastAgain ==
    ASSUME NEW O, NEW A, NEW B, A \subseteq DOMAIN O, \A p \in DOMAIN O : O[p] \subseteq DOMAIN O,
           A \subseteq B, B \subseteq Least(O, A)
    PROVE  Least(O, B) = Least(O, A)
<1>1. Least(O, A) \subseteq Least(O, B)
  BY LeastMonotone
<1>2. /\ Least(O, A) \in SUBSET DOMAIN O
      /\ \A p \in Least(O, A) : O[p] \subseteq Least(O, A)
  BY LeastClosed
<1>3. Least(O, B) \subseteq Least(O, A)
  <2> DEFINE L == Least(O, A)
  <2>1. L \in SUBSET DOMAIN O /\ B \subseteq L /\ \A p \in L : O[p] \subseteq L
    BY <1>2
  <2> HIDE DEF L
  <2>2. Least(O, B) \subseteq L
    BY <2>1 DEF Least
  <2> QED BY <2>2 DEF L
<1> QED BY <1>1, <1>3

(* A new object that nothing refers to is not reached.                     *)
LEMMA LeastExtended ==
    ASSUME NEW O, NEW P, NEW A, A \subseteq DOMAIN O, \A p \in DOMAIN O : O[p] \subseteq DOMAIN O,
           DOMAIN O \subseteq DOMAIN P, \A p \in DOMAIN O : P[p] = O[p]
    PROVE  Least(P, A) = Least(O, A)
<1>1. Least(P, A) \subseteq DOMAIN O
  <2>1. /\ DOMAIN O \in SUBSET DOMAIN P /\ A \subseteq DOMAIN O
        /\ \A p \in DOMAIN O : P[p] \subseteq DOMAIN O
    OBVIOUS
  <2> QED BY <2>1 DEF Least
<1>2. \A S \in SUBSET DOMAIN O :
            (\A p \in S : O[p] \subseteq S) => S \in SUBSET DOMAIN P /\ \A p \in S : P[p] \subseteq S
  OBVIOUS
<1>3. Least(P, A) \subseteq Least(O, A)
  BY <1>1, <1>2 DEF Least
<1>4. \A S \in SUBSET DOMAIN P :
            A \subseteq S /\ (\A p \in S : P[p] \subseteq S) =>
                /\ S \cap DOMAIN O \in SUBSET DOMAIN O /\ A \subseteq S \cap DOMAIN O
                /\ \A p \in S \cap DOMAIN O : O[p] \subseteq S \cap DOMAIN O
  OBVIOUS
<1>5. Least(O, A) \subseteq Least(P, A)
  BY <1>4 DEF Least
<1> QED BY <1>3, <1>5

(* The state of Collector, as MCMemory maps it.                            *)
Objects == [b \in DOMAIN blocks |-> child(b) \ {0}]
Marked  == Least(Objects, (flagged \cup {cur}) \ {0})

ObjectsTyped ==
    /\ DOMAIN Objects = DOMAIN blocks /\ 0 \notin DOMAIN blocks
    /\ \A b \in DOMAIN blocks : Objects[b] = {blocks[b].car, blocks[b].cdr} \ {0}
    /\ \A p \in DOMAIN Objects : Objects[p] \subseteq DOMAIN Objects
    /\ flagged \subseteq DOMAIN Objects /\ cur \in DOMAIN Objects \cup {0}

(* The blocks, as the objects of the abstract specification.               *)
LEMMA ObjectFacts == HeapIInv => ObjectsTyped
<1> SUFFICES ASSUME HeapIInv PROVE ObjectsTyped
  OBVIOUS
<1>1. DOMAIN Objects = DOMAIN blocks /\ 0 \notin DOMAIN blocks
  BY DEF Objects, HeapIInv, HeapShape, Blocks
<1>2. \A b \in DOMAIN blocks : Objects[b] = {blocks[b].car, blocks[b].cdr} \ {0}
  BY <1>1 DEF Objects, child
<1>3. \A p \in DOMAIN Objects : Objects[p] \subseteq DOMAIN Objects
  BY <1>1, <1>2 DEF HeapIInv, HeapShape, Ref, Pairs
<1> QED BY <1>1, <1>2, <1>3 DEF ObjectsTyped, flagged, HeapIInv, Marks, Word

(* The same of the next state.                                             *)
LEMMA ObjectFactsNext == HeapIInv' => ObjectsTyped'
BY ObjectFacts, PTL

MarkedMapped == Reachable(flagged \cup {cur}) = Marked

(* Marks and work list, as the marks of the abstract specification.        *)
LEMMA MarkedReachable == HeapIInv => MarkedMapped
<1> SUFFICES ASSUME HeapIInv PROVE MarkedMapped
  OBVIOUS
<1>1. /\ DOMAIN Objects = DOMAIN blocks /\ 0 \notin DOMAIN blocks
      /\ \A b \in DOMAIN blocks : Objects[b] = child(b) \ {0}
  BY ObjectFacts DEF ObjectsTyped, Objects
<1>2. \A S \in SUBSET DOMAIN blocks : Closed(S) <=> \A p \in S : Objects[p] \subseteq S
  BY <1>1 DEF Closed
<1> QED BY <1>1, <1>2 DEF MarkedMapped, Reachable, Marked, Least

(* The same of the next state.                                             *)
LEMMA MarkedReachableNext == HeapIInv' => MarkedMapped'
BY MarkedReachable, PTL

(* A step of the heap marks one more object and what it reaches, or makes  *)
(* an object, or changes nothing that Collector speaks of.                 *)
LEMMA AllocateCollects ==
    ASSUME HeapIInv, HeapIInv', Allocate, pc # "mark"
    PROVE  /\ \E o \in DOMAIN Objects' \ DOMAIN Objects :
                /\ DOMAIN Objects' = DOMAIN Objects \cup {o}
                /\ Objects'[o] \subseteq DOMAIN Objects
           /\ \A p \in DOMAIN Objects : Objects'[p] = Objects[p]
           /\ Marked' = Marked
<1> DEFINE e == block_end
<1>1. request.car \in Ref /\ request.cdr \in Ref
  BY DEF HeapIInv, RequestTyped
<1>2. /\ e \notin DOMAIN blocks /\ DOMAIN blocks' = DOMAIN blocks \cup {e}
      /\ \A b \in DOMAIN blocks : blocks'[b] = blocks[b]
      /\ blocks'[e] = Block(request.size, request.car, request.cdr)
  BY AllocateBlocks
<1> HIDE DEF e
<1>3. /\ DOMAIN Objects = DOMAIN blocks /\ DOMAIN Objects' = DOMAIN blocks'
      /\ \A b \in DOMAIN blocks : Objects[b] = {blocks[b].car, blocks[b].cdr} \ {0}
      /\ \A b \in DOMAIN blocks' : Objects'[b] = {blocks'[b].car, blocks'[b].cdr} \ {0}
      /\ \A p \in DOMAIN Objects : Objects[p] \subseteq DOMAIN Objects
      /\ flagged \subseteq DOMAIN Objects
  BY ObjectFacts, ObjectFactsNext DEF ObjectsTyped
<1>4. Objects'[e] \subseteq DOMAIN Objects
  BY <1>1, <1>2, <1>3 DEF Block, Ref, Pairs
<1>5. \A p \in DOMAIN Objects : Objects'[p] = Objects[p]
  BY <1>2, <1>3
<1>6. Marked' = Marked
  <2>1. cur = 0 /\ cur' = 0
    BY DEF HeapIInv, Marks, Allocate, marker
  <2>2. flagged' = flagged
    BY <1>2 DEF flagged, is_unmarked, Block
  <2> DEFINE A == (flagged \cup {0}) \ {0}
             O == Objects
             P == Objects'
  <2>3. A \subseteq DOMAIN O /\ DOMAIN O \subseteq DOMAIN P
    BY <1>2, <1>3
  <2>4. Marked = Least(O, A) /\ Marked' = Least(P, A)
    BY <2>1, <2>2 DEF Marked, Least
  <2>5. /\ \A p \in DOMAIN O : O[p] \subseteq DOMAIN O
        /\ \A p \in DOMAIN O : P[p] = O[p]
    BY <1>3, <1>5
  <2> HIDE DEF A, O, P
  <2> QED BY <2>3, <2>4, <2>5, LeastExtended
<1> QED BY <1>2, <1>3, <1>4, <1>5, <1>6

(* The start of a traversal is the whole of it in the abstract.            *)
LEMMA NextRootCollects ==
    ASSUME HeapIInv, NextRoot
    PROVE  /\ Objects' = Objects
           /\ \E o \in DOMAIN Objects : Marked' = Marked \cup Least(Objects, {o})
<1>1. UNCHANGED blocks /\ cur = 0
  BY DEF NextRoot
<1>2. Objects' = Objects /\ flagged' = flagged
  BY <1>1 DEF Objects, child, flagged
<1>3. cur' \in DOMAIN Objects
  <2>1. PICK i \in DOMAIN roots : should_link(blocks, roots[i]) /\ cur' = roots[i]
    BY DEF NextRoot
  <2>2. roots[i] \in Word
    BY <2>1, ElementOfSeq, LenProperties DEF HeapIInv, Marks
  <2> QED BY <2>1, <2>2, ObjectFacts DEF ObjectsTyped, should_link, Word
<1> DEFINE A == flagged \ {0}
           o == cur'
<1>4. Marked = Least(Objects, A) /\ Marked' = Least(Objects, A \cup {o})
  <2>1. (flagged \cup {cur}) \ {0} = A /\ (flagged' \cup {cur'}) \ {0} = A \cup {o}
    BY <1>1, <1>2, <1>3, ObjectFacts DEF ObjectsTyped
  <2> QED BY <1>2, <2>1 DEF Marked, Least
<1>5. A \subseteq DOMAIN Objects /\ \A p \in DOMAIN Objects : Objects[p] \subseteq DOMAIN Objects
  BY ObjectFacts DEF ObjectsTyped
<1> HIDE DEF A, o
<1>6. o \in DOMAIN Objects
  BY <1>3 DEF o
<1>7. Least(Objects, A \cup {o}) = Least(Objects, A) \cup Least(Objects, {o})
  BY <1>5, <1>6, LeastUnion
<1> QED BY <1>2, <1>4, <1>6, <1>7

(* Each turn of the traversal is then a stutter: what the work list        *)
(* reaches, with what is marked, stays the same.                           *)
LEMMA TraverseCollects ==
    ASSUME HeapIInv, HeapIInv', Traverse PROVE Objects' = Objects /\ Marked' = Marked
<1>1. /\ LinksFlagged(blocks)' /\ DOMAIN blocks' = DOMAIN blocks /\ cur \in DOMAIN blocks
      /\ cur' = blocks'[cur].link
      /\ Flagged(blocks) \cup {cur} \subseteq Flagged(blocks')
      /\ Flagged(blocks') \subseteq Flagged(blocks) \cup {cur, blocks[cur].car, blocks[cur].cdr}
      /\ \A b \in DOMAIN blocks :
                blocks'[b].car = blocks[b].car /\ blocks'[b].cdr = blocks[b].cdr
  BY TraverseBlocks
<1>2. Objects' = Objects
  BY <1>1 DEF Objects, child
<1>3. flagged = Flagged(blocks) /\ flagged' = Flagged(blocks')
  BY DEF flagged, Flagged, is_unmarked
<1> DEFINE A == (flagged \cup {cur}) \ {0}
           B == (flagged' \cup {cur'}) \ {0}
           O == Objects
<1>4. cur' \in flagged' \cup {0}
  BY <1>1, <1>3 DEF LinksFlagged
<1>5. A \subseteq B
  BY <1>1, <1>3
<1>6. A \subseteq DOMAIN O /\ \A p \in DOMAIN O : O[p] \subseteq DOMAIN O
  BY ObjectFacts DEF ObjectsTyped
<1>7. B \subseteq Least(O, A)
  <2>1. A \subseteq Least(O, A) /\ \A p \in Least(O, A) : O[p] \subseteq Least(O, A)
    BY <1>6, LeastClosed
  <2>2. cur \in A /\ Objects[cur] = {blocks[cur].car, blocks[cur].cdr} \ {0}
    BY <1>1, ObjectFacts DEF ObjectsTyped
  <2>3. B \subseteq A \cup Objects[cur]
    BY <1>1, <1>3, <1>4, <2>2
  <2> HIDE DEF A, B
  <2> QED BY <2>1, <2>2, <2>3
<1>8. Marked = Least(O, A) /\ Marked' = Least(O, B)
  BY <1>2 DEF Marked, Least
<1> HIDE DEF A, B, O
<1>9. Least(O, B) = Least(O, A)
  BY <1>5, <1>6, <1>7, LeastAgain
<1> QED BY <1>2, <1>8, <1>9

(* Heap and marker, whoever uses them, do what Collector promises: objects *)
(* are made once and never change, and a traversal marks all that its root *)
(* reaches, and nothing else (gc.c:23-77, 164-246).                        *)
THEOREM HeapImplementsCollector == Spec => CollectorSpec
<1>1. Init => C!CInit
  <2> SUFFICES ASSUME Init PROVE C!CInit
    OBVIOUS
  <2>1. DOMAIN blocks = {}
    BY DEF Init, HeapInit
  <2> QED BY <2>1 DEF C!CInit, Reachable
<1>2. IInv /\ IInv' /\ [Next]_memvars =>
        [C!Allocate \/ C!Mark]_<<[b \in DOMAIN blocks |-> child(b) \ {0}],
                                Reachable(flagged \cup {cur})>>
  <2> SUFFICES ASSUME IInv, IInv', [Next]_memvars
               PROVE  C!Allocate \/ C!Mark \/ (Objects' = Objects /\ Marked' = Marked)
    BY MarkedReachable, MarkedReachableNext DEF MarkedMapped, IInv, Objects
  <2>1. Reachable(flagged \cup {cur}) = Marked /\ Reachable(flagged \cup {cur})' = Marked'
    BY MarkedReachable, MarkedReachableNext DEF MarkedMapped, IInv
  <2>2. CASE Allocate /\ pc # "mark"
    <3>1. C!Allocate
      BY <2>1, <2>2, AllocateCollects DEF IInv, C!Allocate, Objects
    <3> QED BY <3>1
  <2>3. CASE NextRoot
    <3>1. C!Mark
      BY <2>1, <2>3, NextRootCollects DEF IInv, C!Mark, C!Reach, Objects, Least
    <3> QED BY <3>1
  <2>4. CASE Traverse
    BY <2>4, TraverseCollects DEF IInv
  <2>5. CASE UNCHANGED <<blocks, cur>>
    BY <2>5 DEF Objects, Marked, Least, child, flagged
  <2>6. (Allocate /\ pc # "mark") \/ NextRoot \/ Traverse \/ UNCHANGED <<blocks, cur>>
    <3>1. CASE Construct
      BY <3>1, ConstructIInv DEF marker
    <3>2. CASE HeapNext \/ UNCHANGED heapvars
      BY <3>2 DEF HeapNext, Mutate, Parse, EvaluateExpr, Push, OpCons, Define, Pop, Lambda, Call,
             CallReturn, Compile, VmAlloc, AllocFirst, AllocAgain, Collect, MarkDone, Exited, vm_alloc,
             heapvars, marker
    <3> QED BY <3>1, <3>2, StepKinds
  <2> QED BY <2>2, <2>3, <2>4, <2>5, <2>6
<1> QED BY <1>1, <1>2, Invariance, PTL DEF Spec, CollectorSpec, C!CSpec
=============================================================================
