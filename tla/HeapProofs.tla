----------------------------- MODULE HeapProofs -----------------------------
(***************************************************************************)
(* Proofs about the heap and the marker (module Heap), for a heap of any   *)
(* size, with any number of blocks, operands and frames.                   *)
(*                                                                         *)
(* The work list of the marker is a chain of links through the headers of  *)
(* the blocks it has flagged.  The lemmas of the first part are about one  *)
(* such chain, in blocks B, from c to e (Chained): what try_link adds to   *)
(* it, and what is left of it when its first block is done.  The second    *)
(* part is the invariant and its proof, action by action.                  *)
(***************************************************************************)
EXTENDS Heap, SequenceTheorems, TLAPS

(* The flagged blocks of B, and those on the chain that starts at c.       *)
Flagged(B)   == {b \in DOMAIN B : B[b].marked \/ B[b].grey}
ChainOf(B, c) ==
    {b \in DOMAIN B : \A S \in SUBSET DOMAIN B :
        c \in S /\ (\A x \in S : B[x].link \in S \cup {0}) => b \in S}

(* Links lead to flagged blocks, and only flagged blocks have one.         *)
LinksFlagged(B) ==
    \A b \in DOMAIN B : /\ B[b].link \in Flagged(B) \cup {0}
                        /\ b \notin Flagged(B) => B[b].link = 0

(* The chain from c ends at e, and has all that is flagged and not marked. *)
Chained(B, c, e) ==
    /\ c \in DOMAIN B
    /\ e \in ChainOf(B, c) /\ B[e].link = 0
    /\ \A b \in Flagged(B) : ~ B[b].marked => b \in ChainOf(B, c)

Fields == {"size", "marked", "grey", "link", "car", "cdr"}

Blocks(B) ==
    /\ DOMAIN B \subseteq Nat \ {0}
    /\ B = [b \in DOMAIN B |-> B[b]]
    /\ \A b \in DOMAIN B : DOMAIN B[b] = Fields /\ B[b].size \in Nat

-----------------------------------------------------------------------------
(* Of a chain whose first block is flagged, every block is.                *)
LEMMA ChainFlagged ==
    ASSUME NEW B, Blocks(B), LinksFlagged(B), NEW c \in Flagged(B)
    PROVE  ChainOf(B, c) \subseteq Flagged(B)
<1>1. Flagged(B) \in SUBSET DOMAIN B
  BY DEF Flagged
<1>2. \A x \in Flagged(B) : B[x].link \in Flagged(B) \cup {0}
  BY <1>1 DEF LinksFlagged
<1> QED BY <1>1, <1>2 DEF ChainOf

(* What link_end does to the blocks, block by block.                       *)
LEMMA LinkEndBlocks ==
    ASSUME NEW B, Blocks(B), NEW e \in DOMAIN B, NEW v \in DOMAIN B, e # v,
           NEW R, R = link_end([end |-> e, blocks |-> B], v).blocks
    PROVE  /\ Blocks(R) /\ DOMAIN R = DOMAIN B
           /\ R[v].link = 0 /\ R[v].grey /\ ~ R[v].marked
           /\ R[e].link = v /\ R[e].grey = B[e].grey /\ R[e].marked = B[e].marked
           /\ \A b \in DOMAIN B : /\ R[b].size = B[b].size
                                  /\ R[b].car = B[b].car /\ R[b].cdr = B[b].cdr
                                  /\ b \notin {e, v} => R[b] = B[b]
<1>1. R = [B EXCEPT ![e].link = v, ![v].grey = TRUE, ![v].marked = FALSE, ![v].link = 0]
  BY DEF link_end
<1>2. /\ DOMAIN R = DOMAIN B /\ R = [b \in DOMAIN R |-> R[b]]
      /\ \A b \in DOMAIN B : b \notin {e, v} => R[b] = B[b]
  BY <1>1
<1>3. R[e] = [B[e] EXCEPT !.link = v]
  BY <1>1
<1>4. R[v] = [B[v] EXCEPT !.grey = TRUE, !.marked = FALSE, !.link = 0]
  BY <1>1
<1>5. /\ DOMAIN R[e] = Fields /\ R[e].size = B[e].size /\ R[e].link = v
      /\ R[e].car = B[e].car /\ R[e].cdr = B[e].cdr
      /\ R[e].marked = B[e].marked /\ R[e].grey = B[e].grey
  BY <1>3 DEF Blocks, Fields
<1>6. /\ DOMAIN R[v] = Fields /\ R[v].size = B[v].size /\ R[v].link = 0
      /\ R[v].car = B[v].car /\ R[v].cdr = B[v].cdr
      /\ R[v].marked = FALSE /\ R[v].grey = TRUE
  BY <1>4 DEF Blocks, Fields
<1> HIDE <1>1, <1>3, <1>4
<1>7. Blocks(R)
  BY <1>2, <1>5, <1>6 DEF Blocks
<1> QED BY <1>2, <1>5, <1>6, <1>7

(* link_end puts v at the end of the chain.                                *)
LEMMA LinkEndChained ==
    ASSUME NEW B, Blocks(B), LinksFlagged(B), NEW c \in Flagged(B), NEW e, Chained(B, c, e),
           NEW v \in DOMAIN B, v \notin Flagged(B),
           NEW R, R = link_end([end |-> e, blocks |-> B], v).blocks
    PROVE  /\ Blocks(R) /\ LinksFlagged(R) /\ Chained(R, c, v)
           /\ Flagged(R) = Flagged(B) \cup {v}
           /\ \A b \in DOMAIN B : R[b].marked <=> B[b].marked
           /\ DOMAIN R = DOMAIN B
           /\ \A b \in DOMAIN B : /\ R[b].size = B[b].size
                                  /\ R[b].car = B[b].car /\ R[b].cdr = B[b].cdr
<1>1. e \in Flagged(B) /\ e \in DOMAIN B /\ e # v /\ B[e].link = 0
  BY ChainFlagged DEF Chained, Flagged
<1>2. /\ Blocks(R) /\ DOMAIN R = DOMAIN B
      /\ R[v].link = 0 /\ R[v].grey /\ ~ R[v].marked
      /\ R[e].link = v /\ R[e].grey = B[e].grey /\ R[e].marked = B[e].marked
      /\ \A b \in DOMAIN B : /\ R[b].size = B[b].size
                             /\ R[b].car = B[b].car /\ R[b].cdr = B[b].cdr
                             /\ b \notin {e, v} => R[b] = B[b]
  BY <1>1, LinkEndBlocks
<1>3. ~ B[v].marked /\ B[v].link = 0
  BY DEF Flagged, LinksFlagged
<1>4. Flagged(R) = Flagged(B) \cup {v}
  BY <1>1, <1>2 DEF Flagged
<1>5. \A b \in DOMAIN B : R[b].marked <=> B[b].marked
  BY <1>1, <1>2, <1>3
<1>6. LinksFlagged(R)
  BY <1>1, <1>2, <1>4 DEF LinksFlagged
<1>7. \A S \in SUBSET DOMAIN B : \A x \in S :
            R[x].link \in S \cup {0} => B[x].link \in S \cup {0}
  BY <1>1, <1>2, <1>3
<1>8. ChainOf(B, c) \subseteq ChainOf(R, c)
  BY <1>2, <1>7 DEF ChainOf
<1>9. v \in ChainOf(R, c)
  <2> SUFFICES ASSUME NEW S \in SUBSET DOMAIN R, c \in S, \A x \in S : R[x].link \in S \cup {0}
               PROVE  v \in S
    BY <1>2 DEF ChainOf
  <2>1. e \in S
    BY <1>2, <1>8 DEF ChainOf, Chained
  <2> QED BY <1>2, <2>1 DEF Blocks
<1>10. Chained(R, c, v)
  BY <1>2, <1>4, <1>5, <1>8, <1>9 DEF Chained, Flagged
<1> QED BY <1>2, <1>4, <1>5, <1>6, <1>10

(* try_link flags v, if it is a pair, and keeps the chain whole.           *)
LEMMA TryLinkChained ==
    ASSUME NEW B, Blocks(B), LinksFlagged(B), NEW c \in Flagged(B), NEW e, Chained(B, c, e),
           NEW v \in DOMAIN B \cup {0},
           NEW W, W = try_link([end |-> e, blocks |-> B], v)
    PROVE  /\ W = [end |-> W.end, blocks |-> W.blocks]
           /\ Blocks(W.blocks) /\ LinksFlagged(W.blocks) /\ Chained(W.blocks, c, W.end)
           /\ Flagged(B) \subseteq Flagged(W.blocks)
           /\ Flagged(W.blocks) \subseteq Flagged(B) \cup {v}
           /\ v # 0 /\ is_gc_ptr(v) => v \in Flagged(W.blocks)
           /\ \A b \in DOMAIN B : W.blocks[b].marked <=> B[b].marked
           /\ DOMAIN W.blocks = DOMAIN B
           /\ \A b \in DOMAIN B : /\ W.blocks[b].size = B[b].size
                                  /\ W.blocks[b].car = B[b].car /\ W.blocks[b].cdr = B[b].cdr
<1>1. should_link(B, v) <=> v # 0 /\ is_gc_ptr(v) /\ v \notin Flagged(B)
  BY DEF should_link, is_unmarked, Flagged
<1>2. CASE should_link(B, v)
  <2>1. W = link_end([end |-> e, blocks |-> B], v)
    BY <1>2 DEF try_link
  <2>2. W = [end |-> v, blocks |-> W.blocks]
    BY <2>1 DEF link_end
  <2>3. W.end = v
    BY <2>2
  <2>4. v \in DOMAIN B /\ v \notin Flagged(B)
    BY <1>1, <1>2
  <2> DEFINE R == W.blocks
  <2>5. R = link_end([end |-> e, blocks |-> B], v).blocks
    BY <2>1
  <2> HIDE DEF R
  <2>6. /\ Blocks(R) /\ LinksFlagged(R) /\ Chained(R, c, v)
        /\ Flagged(R) = Flagged(B) \cup {v}
        /\ \A b \in DOMAIN B : R[b].marked <=> B[b].marked
        /\ DOMAIN R = DOMAIN B
        /\ \A b \in DOMAIN B : /\ R[b].size = B[b].size
                               /\ R[b].car = B[b].car /\ R[b].cdr = B[b].cdr
    BY <2>4, <2>5, LinkEndChained
  <2> QED BY <2>2, <2>3, <2>6 DEF R
<1>3. CASE ~ should_link(B, v)
  <2>1. W = [end |-> e, blocks |-> B]
    BY <1>3 DEF try_link
  <2>2. W.end = e /\ W.blocks = B
    BY <2>1
  <2> QED BY <1>1, <1>3, <2>1, <2>2
<1> QED BY <1>2, <1>3

(* When the first block of the chain is marked, the rest of it is a chain  *)
(* from the next one; when there is no next one, all that is flagged is    *)
(* marked.                                                                 *)
LEMMA ChainAdvances ==
    ASSUME NEW B, Blocks(B), LinksFlagged(B), NEW c, NEW e, Chained(B, c, e), B[c].marked
    PROVE  /\ B[c].link = 0 => \A b \in Flagged(B) : B[b].marked
           /\ B[c].link # 0 => Chained(B, B[c].link, e)
<1> DEFINE n == B[c].link
<1>1. c \in DOMAIN B /\ n \in DOMAIN B \cup {0}
  BY DEF Chained, LinksFlagged, Flagged
<1>2. CASE n = 0
  <2>1. ChainOf(B, c) \subseteq {c}
    <3>1. {c} \in SUBSET DOMAIN B /\ \A x \in {c} : B[x].link \in {c} \cup {0}
      BY <1>1, <1>2
    <3> QED BY <3>1 DEF ChainOf
  <2> QED BY <1>2, <2>1 DEF Chained
<1>3. CASE n # 0
  <2>1. \A b \in ChainOf(B, c) : b # c => b \in ChainOf(B, n)
    <3> SUFFICES ASSUME NEW b \in ChainOf(B, c), b # c, NEW S \in SUBSET DOMAIN B,
                        n \in S, \A x \in S : B[x].link \in S \cup {0}
                 PROVE  b \in S
      BY DEF ChainOf
    <3>1. S \cup {c} \in SUBSET DOMAIN B
      BY <1>1
    <3>2. \A x \in S \cup {c} : B[x].link \in (S \cup {c}) \cup {0}
      OBVIOUS
    <3> QED BY <3>1, <3>2 DEF ChainOf
  <2>2. e # c
    BY <1>3 DEF Chained
  <2> QED BY <1>1, <1>3, <2>1, <2>2 DEF Chained
<1> QED BY <1>2, <1>3

-----------------------------------------------------------------------------
(* The inductive invariant.                                                *)

Pairs == {b \in DOMAIN blocks : blocks[b].size = PairSize}
Ref   == Pairs \cup {0}
Word  == DOMAIN blocks \cup {0}

CallFrame  == [runmode : {"interp", "compiled"}, ptr : Ref, closure : {1, 2}]
ClosureRec == [definition : Ref, array : Word]

(* What the machine and the operation at work hold are pairs, or 0; only a *)
(* closure's array is a block of another size.                             *)
MachineRefs ==
    /\ stack \in Seq(Ref) /\ globals \in Seq(Ref) /\ locals \in Seq(Ref)
    /\ ptr \in Ref /\ closure \in {1, 2}
    /\ calls \in Seq(CallFrame)
    /\ closures \in Seq(ClosureRec) /\ Len(closures) = 2

(* What is asked for is as large as what it will be used for.              *)
RequestTyped ==
    /\ request.size \in Nat /\ request.car \in Ref /\ request.cdr \in Ref
    /\ request.for \in {"parse", "cons"} => request.size = PairSize

(* The blocks lie in the heap, and a pair refers to pairs.                 *)
HeapShape ==
    /\ Blocks(blocks) /\ BlocksApart
    /\ allocend \in Nat /\ Base <= allocend /\ allocend <= Base + HeapSize
    /\ \A b \in DOMAIN blocks : {blocks[b].car, blocks[b].cdr} \subseteq Ref
    /\ pc \in {"run", "alloc", "mark", "retry", "exit"}

(* The marker: its work list is a chain that holds what is flagged and not *)
(* yet marked, marked pairs refer to flagged ones, and what the machine is *)
(* working on is flagged, next, or waits among the roots.                  *)
Marks ==
    /\ LinksFlagged(blocks)
    /\ \A b \in DOMAIN blocks : blocks[b].marked =>
            {blocks[b].car, blocks[b].cdr} \subseteq Flagged(blocks) \cup {0}
    /\ roots \in Seq(Word) /\ cur \in Word /\ end \in Word
    /\ cur # 0 => pc = "mark" /\ Chained(blocks, cur, end)
    /\ cur = 0 => \A b \in Flagged(blocks) : blocks[b].marked
    /\ pc = "mark" => MachineRoots \subseteq Flagged(blocks) \cup {0, cur} \cup ToSet(roots)
    /\ pc = "retry" => MachineRoots \subseteq Flagged(blocks) \cup {0}
    /\ pc \in {"mark", "retry"} => ~ Fits(request.size)

HeapIInv == HeapShape /\ MachineRefs /\ RequestTyped /\ Marks

-----------------------------------------------------------------------------
(* Sequences.                                                              *)

(* Of a sequence over S, its range, its front and its last element.        *)
LEMMA SeqParts ==
    ASSUME NEW S, NEW s \in Seq(S)
    PROVE  /\ ToSet(s) \subseteq S
           /\ s # <<>> => Front(s) \in Seq(S) /\ Last(s) \in S
<1>1. ToSet(s) \subseteq S
  BY ElementOfSeq, LenProperties DEF ToSet
<1>2. ASSUME s # <<>> PROVE Front(s) \in Seq(S) /\ Last(s) \in S
  <2>1. Len(s) \in Nat \ {0}
    BY <1>2, EmptySeq
  <2> QED BY <2>1, ElementOfSeq, SubSeqProperties DEF Front, Last
<1> QED BY <1>1, <1>2

(* The range of a concatenation.                                           *)
LEMMA ToSetConcat ==
    ASSUME NEW S, NEW s \in Seq(S), NEW t \in Seq(S)
    PROVE  s \o t \in Seq(S) /\ ToSet(s \o t) = ToSet(s) \cup ToSet(t)
<1>1. /\ s \o t \in Seq(S)
      /\ Len(s \o t) = Len(s) + Len(t)
      /\ \A i \in 1 .. Len(s) + Len(t) : (s \o t)[i] = IF i <= Len(s) THEN s[i] ELSE t[i - Len(s)]
  BY ConcatProperties
<1>2. /\ Len(s) \in Nat /\ DOMAIN s = 1 .. Len(s)
      /\ Len(t) \in Nat /\ DOMAIN t = 1 .. Len(t)
      /\ DOMAIN (s \o t) = 1 .. Len(s) + Len(t)
  BY <1>1, LenProperties
<1>3. ToSet(s \o t) \subseteq ToSet(s) \cup ToSet(t)
  <2> SUFFICES ASSUME NEW i \in 1 .. Len(s) + Len(t)
               PROVE  (s \o t)[i] \in ToSet(s) \cup ToSet(t)
    BY <1>2 DEF ToSet
  <2>1. CASE i <= Len(s)
    BY <1>1, <1>2, <2>1 DEF ToSet
  <2>2. CASE i > Len(s)
    <3>1. i - Len(s) \in DOMAIN t /\ (s \o t)[i] = t[i - Len(s)]
      BY <1>1, <1>2, <2>2
    <3> QED BY <3>1 DEF ToSet
  <2> QED BY <1>2, <2>1, <2>2
<1>4. ToSet(s) \subseteq ToSet(s \o t)
  <2> SUFFICES ASSUME NEW i \in 1 .. Len(s) PROVE s[i] \in ToSet(s \o t)
    BY <1>2 DEF ToSet
  <2>1. i \in 1 .. Len(s) + Len(t) /\ (s \o t)[i] = s[i]
    BY <1>1, <1>2
  <2> QED BY <1>2, <2>1 DEF ToSet
<1>5. ToSet(t) \subseteq ToSet(s \o t)
  <2> SUFFICES ASSUME NEW i \in 1 .. Len(t) PROVE t[i] \in ToSet(s \o t)
    BY <1>2 DEF ToSet
  <2>1. i + Len(s) \in 1 .. Len(s) + Len(t) /\ (s \o t)[i + Len(s)] = t[i]
    BY <1>1, <1>2
  <2> QED BY <1>2, <2>1 DEF ToSet
<1> QED BY <1>1, <1>3, <1>4, <1>5

(* The range of the four parts of mark_vm.                                 *)
LEMMA ToSetConcatAll ==
    ASSUME NEW S, NEW s \in Seq(S), NEW t \in Seq(S), NEW u \in Seq(S), NEW w \in Seq(S)
    PROVE  /\ s \o t \o u \o w \in Seq(S)
           /\ ToSet(s \o t \o u \o w) = ToSet(s) \cup ToSet(t) \cup ToSet(u) \cup ToSet(w)
<1>1. s \o t \in Seq(S) /\ ToSet(s \o t) = ToSet(s) \cup ToSet(t)
  BY ToSetConcat
<1> DEFINE x == s \o t
<1>2. x \in Seq(S)
  BY <1>1
<1> HIDE DEF x
<1>3. x \o u \in Seq(S) /\ ToSet(x \o u) = ToSet(x) \cup ToSet(u)
  BY <1>2, ToSetConcat
<1> DEFINE y == x \o u
<1>4. y \in Seq(S)
  BY <1>3
<1> HIDE DEF y
<1>5. y \o w \in Seq(S) /\ ToSet(y \o w) = ToSet(y) \cup ToSet(w)
  BY <1>4, ToSetConcat
<1> QED BY <1>1, <1>3, <1>5, Zenon DEF x, y

-----------------------------------------------------------------------------
(* The machine: what it moves are references it has.                       *)

(* The heap is empty, and what the machine has are numbers and NULL.       *)
LEMMA HeapInitIInv == HeapInit => HeapIInv
<1> SUFFICES ASSUME HeapInit PROVE HeapIInv
  OBVIOUS
<1>1. DOMAIN blocks = {} /\ blocks = <<>>
  BY DEF HeapInit
<1>2. HeapShape
  <2>1. allocend \in Nat /\ Base <= allocend /\ allocend <= Base + HeapSize
    BY HeapAssumption DEF HeapInit, align
  <2> QED BY <1>1, <2>1 DEF HeapInit, HeapShape, Blocks, BlocksApart
<1>3. MachineRefs
  BY DEF HeapInit, MachineRefs, Ref, Pairs, Word, CallFrame, ClosureRec, Closure
<1>4. RequestTyped
  BY DEF HeapInit, RequestTyped, NoRequest, Ref
<1>5. Marks
  BY <1>1 DEF HeapInit, Marks, LinksFlagged, Flagged, Word
<1> QED BY <1>2, <1>3, <1>4, <1>5 DEF HeapIInv

(* A step of the machine leaves heap and marker alone.                     *)
LEMMA MachineStep ==
    ASSUME HeapIInv, Running, UNCHANGED <<allocend, blocks, marker>>, pc' \in {"run", "alloc"},
           MachineRefs', RequestTyped'
    PROVE  HeapIInv'
<1>1. HeapShape'
  BY DEF HeapIInv, HeapShape, BlocksApart, Ref, Pairs
<1>2. Marks'
  BY DEF HeapIInv, Marks, Word, marker, Running
<1> QED BY <1>1, <1>2 DEF HeapIInv

(* The two sides of an operation that makes a request of vm_alloc.         *)
LEMMA RequestKept ==
    ASSUME HeapIInv, NEW for, NEW n \in Nat, NEW car \in Ref, NEW cdr \in Ref,
           for \in {"parse", "cons"} => n = PairSize, vm_alloc(for, n, car, cdr)
    PROVE  RequestTyped' /\ Ref' = Ref /\ ClosureRec' = ClosureRec /\ CallFrame' = CallFrame
BY DEF vm_alloc, RequestTyped, Ref, Pairs, Word, ClosureRec, CallFrame

(* One of two elements is replaced.                                        *)
LEMMA ExceptPair ==
    ASSUME NEW S, NEW s \in Seq(S), Len(s) = 2, NEW i \in {1, 2}, NEW e \in S
    PROVE  [s EXCEPT ![i] = e] \in Seq(S) /\ Len([s EXCEPT ![i] = e]) = 2
<1>1. i \in 1 .. Len(s)
  OBVIOUS
<1> QED BY <1>1, ExceptSeq

(* What MachineRefs says of the two closures.                              *)
LEMMA TwoClosures ==
    ASSUME MachineRefs
    PROVE  /\ closures \in Seq(ClosureRec) /\ Len(closures) = 2
           /\ \A i \in {1, 2} : i \in 1 .. Len(closures) /\ closures[i] \in ClosureRec
<1>1. closures \in Seq(ClosureRec) /\ Len(closures) = 2
  BY DEF MachineRefs
<1>2. \A i \in {1, 2} : i \in 1 .. Len(closures)
  BY <1>1
<1> QED BY <1>1, <1>2, ElementOfSeq

(* The operations of the machine: each moves references it has and asks    *)
(* for memory at most (parse.c, vm.c, vm_ops.c).                           *)
LEMMA ParseIInv == ASSUME HeapIInv, Parse PROVE HeapIInv'
<1>1. PICK car \in {0} \cup ToSet(locals), cdr \in {0} \cup ToSet(locals) :
            vm_alloc("parse", PairSize, car, cdr) /\ locals' = <<car, cdr>>
  BY DEF Parse
<1>2. car \in Ref /\ cdr \in Ref
  BY SeqParts DEF HeapIInv, MachineRefs, Ref
<1>3. RequestTyped' /\ Ref' = Ref /\ ClosureRec' = ClosureRec /\ CallFrame' = CallFrame
  BY <1>1, <1>2, RequestKept DEF PairSize
<1>4. MachineRefs'
  BY <1>1, <1>2, <1>3 DEF HeapIInv, MachineRefs, Parse, machine
<1> QED BY <1>1, <1>3, <1>4, MachineStep DEF Parse, vm_alloc

(* Vm_evaluate_expr (vm.c:332-344).                                        *)
LEMMA EvaluateExprIInv == ASSUME HeapIInv, EvaluateExpr PROVE HeapIInv'
<1>1. Ref' = Ref /\ ClosureRec' = ClosureRec /\ CallFrame' = CallFrame
  BY DEF EvaluateExpr, Ref, Pairs, Word, ClosureRec, CallFrame
<1>2. Head(locals) \in Ref
  <2>1. locals \in Seq(Ref) /\ 1 \in 1 .. Len(locals)
    BY DEF EvaluateExpr, HeapIInv, MachineRefs
  <2>2. locals[1] \in Ref
    BY <2>1, ElementOfSeq
  <2> QED BY <2>2
<1>3. [closures[1] EXCEPT !.definition = Head(locals)] \in ClosureRec
  BY <1>2, TwoClosures DEF HeapIInv, ClosureRec
<1>4. closures' = [closures EXCEPT ![1] = [closures[1] EXCEPT !.definition = Head(locals)]]
  BY DEF EvaluateExpr
<1>5. closures' \in Seq(ClosureRec) /\ Len(closures') = 2
  BY <1>3, <1>4, TwoClosures, ExceptPair DEF HeapIInv
<1>6. MachineRefs'
  BY <1>1, <1>2, <1>5 DEF HeapIInv, MachineRefs, EvaluateExpr
<1> QED BY <1>6, MachineStep
        DEF EvaluateExpr, HeapIInv, HeapShape, RequestTyped, Ref, Pairs, Running

(* An operand is pushed (vm.c:198-250).                                    *)
LEMMA PushIInv == ASSUME HeapIInv, Push PROVE HeapIInv'
<1>1. Ref' = Ref /\ ClosureRec' = ClosureRec /\ CallFrame' = CallFrame
  BY DEF Push, Ref, Pairs, Word, ClosureRec, CallFrame
<1>2. {blocks[ptr].car, blocks[ptr].cdr} \subseteq Ref
  BY DEF Push, HeapIInv, HeapShape, MachineRefs, Ref, Pairs
<1>3. PICK v \in {blocks[ptr].car} \cup ToSet(globals) : stack' = Append(stack, v)
  BY DEF Push
<1>4. v \in Ref
  BY <1>2, SeqParts DEF HeapIInv, MachineRefs
<1>5. MachineRefs'
  BY <1>1, <1>2, <1>3, <1>4 DEF HeapIInv, MachineRefs, Push
<1> QED BY <1>5, MachineStep DEF Push, Idle, HeapIInv, HeapShape, RequestTyped, Ref, Pairs, Running

(* Vm_op_cons keeps its operands in C variables across the allocation      *)
(* (vm_ops.c:304-318).                                                     *)
LEMMA OpConsIInv == ASSUME HeapIInv, OpCons PROVE HeapIInv'
<1> DEFINE n == Len(stack)
<1>1. /\ n \in Nat /\ n >= 2
      /\ vm_alloc("cons", PairSize, stack[n - 1], stack[n])
      /\ locals' = SubSeq(stack, n - 1, n) /\ stack' = SubSeq(stack, 1, n - 2)
  BY LenProperties DEF OpCons, HeapIInv, MachineRefs
<1>2. stack[n - 1] \in Ref /\ stack[n] \in Ref
  BY <1>1, ElementOfSeq DEF HeapIInv, MachineRefs
<1>3. RequestTyped' /\ Ref' = Ref /\ ClosureRec' = ClosureRec /\ CallFrame' = CallFrame
  BY <1>1, <1>2, RequestKept DEF PairSize
<1>4. SubSeq(stack, n - 1, n) \in Seq(Ref) /\ SubSeq(stack, 1, n - 2) \in Seq(Ref)
  BY <1>1, SubSeqProperties DEF HeapIInv, MachineRefs
<1>5. MachineRefs'
  BY <1>1, <1>3, <1>4 DEF HeapIInv, MachineRefs, OpCons
<1> QED BY <1>1, <1>3, <1>5, MachineStep DEF OpCons, Idle, vm_alloc

(* A define keeps what it binds (vm_ops.c:442-482).                        *)
LEMMA DefineIInv == ASSUME HeapIInv, Define PROVE HeapIInv'
<1>1. Ref' = Ref /\ ClosureRec' = ClosureRec /\ CallFrame' = CallFrame
  BY DEF Define, Ref, Pairs, Word, ClosureRec, CallFrame
<1>2. Front(stack) \in Seq(Ref) /\ Last(stack) \in Ref
  BY SeqParts DEF Define, HeapIInv, MachineRefs
<1>3. PICK i \in DOMAIN globals : globals' = [globals EXCEPT ![i] = Last(stack)]
  BY DEF Define
<1>4. globals' \in Seq(Ref)
  BY <1>2, <1>3, ExceptSeq, LenProperties DEF HeapIInv, MachineRefs
<1>5. MachineRefs'
  BY <1>1, <1>2, <1>4 DEF HeapIInv, MachineRefs, Define
<1> QED BY <1>5, MachineStep DEF Define, Idle, HeapIInv, HeapShape, RequestTyped, Ref, Pairs, Running

(* Vm_stack_pop (vm_ops.h:13-16).                                          *)
LEMMA PopIInv == ASSUME HeapIInv, Pop PROVE HeapIInv'
<1>1. Ref' = Ref /\ ClosureRec' = ClosureRec /\ CallFrame' = CallFrame
  BY DEF Pop, Ref, Pairs, Word, ClosureRec, CallFrame
<1>2. Front(stack) \in Seq(Ref)
  BY SeqParts DEF Pop, HeapIInv, MachineRefs
<1>3. MachineRefs'
  BY <1>1, <1>2 DEF HeapIInv, MachineRefs, Pop
<1> QED BY <1>3, MachineStep DEF Pop, Idle, HeapIInv, HeapShape, RequestTyped, Ref, Pairs, Running

(* A closure is made of the expression the machine is at (vm.c:14-26).     *)
LEMMA LambdaIInv == ASSUME HeapIInv, Lambda PROVE HeapIInv'
<1>1. Ref' = Ref /\ ClosureRec' = ClosureRec /\ CallFrame' = CallFrame
  BY DEF Lambda, Ref, Pairs, Word, ClosureRec, CallFrame
<1>2. PICK d \in child(ptr) : closures' = [closures EXCEPT ![2] = Closure(d)]
  BY DEF Lambda
<1>3. d \in Ref
  BY DEF child, HeapIInv, HeapShape, MachineRefs, Ref, Pairs
<1>4. Closure(d) \in ClosureRec
  BY <1>3 DEF Closure, ClosureRec, Word
<1>5. closures' \in Seq(ClosureRec) /\ Len(closures') = 2
  BY <1>2, <1>4, TwoClosures, ExceptPair DEF HeapIInv
<1>6. MachineRefs'
  BY <1>1, <1>5 DEF HeapIInv, MachineRefs, Lambda
<1> QED BY <1>6, MachineStep DEF Lambda, Idle, HeapIInv, HeapShape, RequestTyped, Ref, Pairs, Running

(* A frame is saved (vm_ops.h:26-38).                                      *)
LEMMA CallIInv == ASSUME HeapIInv, Call PROVE HeapIInv'
<1>1. Ref' = Ref /\ ClosureRec' = ClosureRec /\ CallFrame' = CallFrame
  BY DEF Call, Ref, Pairs, Word, ClosureRec, CallFrame
<1>2. PICK mode \in {"interp", "compiled"} :
            calls' = Append(calls, [runmode |-> mode, ptr |-> ptr, closure |-> closure])
  BY DEF Call
<1>3. [runmode |-> mode, ptr |-> ptr, closure |-> closure] \in CallFrame
  BY DEF HeapIInv, MachineRefs, CallFrame
<1>4. calls' \in Seq(CallFrame)
  BY <1>2, <1>3, AppendProperties DEF HeapIInv, MachineRefs
<1>5. closures[2].definition \in Ref
  BY TwoClosures DEF HeapIInv, ClosureRec
<1>6. MachineRefs'
  BY <1>1, <1>4, <1>5 DEF HeapIInv, MachineRefs, Call
<1> QED BY <1>6, MachineStep DEF Call, Idle, HeapIInv, HeapShape, RequestTyped, Ref, Pairs, Running

(* A frame is restored (vm_ops.h:40-61).                                   *)
LEMMA CallReturnIInv == ASSUME HeapIInv, CallReturn PROVE HeapIInv'
<1>1. Ref' = Ref /\ ClosureRec' = ClosureRec /\ CallFrame' = CallFrame
  BY DEF CallReturn, Ref, Pairs, Word, ClosureRec, CallFrame
<1>2. Front(calls) \in Seq(CallFrame) /\ Last(calls) \in CallFrame
  BY SeqParts DEF CallReturn, HeapIInv, MachineRefs
<1>3. MachineRefs'
  BY <1>1, <1>2 DEF HeapIInv, MachineRefs, CallReturn, CallFrame
<1> QED BY <1>3, MachineStep
        DEF CallReturn, Idle, HeapIInv, HeapShape, RequestTyped, Ref, Pairs, Running

(* A closure gets its array of closed variables (compiler.c:262-284).      *)
LEMMA CompileIInv == ASSUME HeapIInv, Compile PROVE HeapIInv'
<1>1. PICK vars \in 0 .. 1 : vm_alloc("compile", 8 * vars, 0, 0)
  BY DEF Compile
<1>2. RequestTyped' /\ Ref' = Ref /\ ClosureRec' = ClosureRec /\ CallFrame' = CallFrame
  BY <1>1, RequestKept DEF Ref
<1>3. MachineRefs'
  BY <1>2 DEF HeapIInv, MachineRefs, Compile, machine
<1> QED BY <1>1, <1>2, <1>3, MachineStep DEF Compile, Idle, vm_alloc

(* All of them together.                                                   *)
LEMMA MutateIInv == ASSUME HeapIInv, Mutate PROVE HeapIInv'
BY ParseIInv, EvaluateExprIInv, PushIInv, OpConsIInv, DefineIInv, PopIInv, LambdaIInv, CallIInv,
   CallReturnIInv, CompileIInv DEF Mutate

-----------------------------------------------------------------------------
(* vm_alloc takes the bytes behind the last block.                         *)

(* Align rounds up to a multiple of 16 (gc.c:43-52).                       *)
LEMMA Aligned ==
    ASSUME NEW n \in Nat
    PROVE  align(n, 16) \in Nat /\ align(n, 16) % 16 = 0 /\ align(n, 16) >= n
<1>1. n % 16 \in 0 .. 15 /\ n = 16 * (n \div 16) + (n % 16)
  OBVIOUS
<1> DEFINE q == n \div 16
<1>2. q \in Nat /\ (16 * q) % 16 = 0 /\ (16 * q + 16) % 16 = 0
  OBVIOUS
<1> HIDE DEF q
<1>3. CASE n % 16 = 0
  BY <1>3 DEF align
<1>4. CASE n % 16 > 0
  <2>1. align(n, 16) = 16 * q + 16
    BY <1>1, <1>2, <1>4 DEF align, q
  <2> QED BY <1>1, <1>2, <2>1 DEF q
<1> QED BY <1>1, <1>3, <1>4

(* Gc_alloc puts the next block behind its header and behind every block   *)
(* there is (gc.c:62-77).                                                  *)
LEMMA BlockEnd ==
    ASSUME HeapShape
    PROVE  /\ block_end \in Nat \ {0} /\ block_end % 16 = 0 /\ block_end >= allocend + HeaderSize
           /\ \A b \in DOMAIN blocks : /\ b \in Nat /\ blocks[b].size \in Nat
                                       /\ b + blocks[b].size <= block_end - HeaderSize
<1>1. allocend + HeaderSize \in Nat /\ allocend \in Nat
  BY DEF HeapShape, HeaderSize
<1>2. block_end \in Nat /\ block_end % 16 = 0 /\ block_end >= allocend + HeaderSize
  BY <1>1, Aligned DEF block_end
<1> QED BY <1>1, <1>2 DEF HeapShape, Blocks, BlocksApart, HeaderSize

(* gc_alloc leaves the blocks there are as they were, and adds one that    *)
(* lies apart from them and has no flag.                                   *)
LEMMA GcAlloc ==
    ASSUME HeapShape, NEW n \in Nat, NEW car \in Ref, NEW cdr \in Ref, gc_alloc(n, car, cdr),
           NEW e, e = block_end
    PROVE  /\ e \notin DOMAIN blocks /\ DOMAIN blocks' = DOMAIN blocks \cup {e}
           /\ \A b \in DOMAIN blocks : blocks'[b] = blocks[b]
           /\ blocks'[e] = Block(n, car, cdr)
           /\ Ref \subseteq Ref' /\ Word \subseteq Word' /\ e \in Word'
           /\ n = PairSize => e \in Ref'
           /\ Blocks(blocks)' /\ BlocksApart'
           /\ allocend' \in Nat /\ Base <= allocend' /\ allocend' <= Base + HeapSize
           /\ \A b \in DOMAIN blocks' : {blocks'[b].car, blocks'[b].cdr} \subseteq Ref'
<1>1. /\ e \in Nat \ {0} /\ e % 16 = 0 /\ e >= allocend + HeaderSize
      /\ \A b \in DOMAIN blocks : /\ b \in Nat /\ blocks[b].size \in Nat
                                  /\ b + blocks[b].size <= e - HeaderSize
  BY BlockEnd
<1>2. e \notin DOMAIN blocks
  BY <1>1 DEF HeaderSize
<1>3. /\ DOMAIN blocks' = DOMAIN blocks \cup {e} /\ blocks'[e] = Block(n, car, cdr)
      /\ \A b \in DOMAIN blocks : blocks'[b] = blocks[b]
      /\ blocks' = [b \in DOMAIN blocks' |-> blocks'[b]]
  BY <1>2 DEF gc_alloc
<1>4. /\ DOMAIN Block(n, car, cdr) = Fields
      /\ Block(n, car, cdr).size = n /\ Block(n, car, cdr).car = car /\ Block(n, car, cdr).cdr = cdr
  BY DEF Block, Fields
<1>5. /\ Ref \subseteq Ref' /\ Word \subseteq Word' /\ e \in Word'
      /\ n = PairSize => e \in Ref'
  BY <1>3, <1>4 DEF Ref, Pairs, Word
<1>6. Blocks(blocks)'
  BY <1>1, <1>3, <1>4 DEF Blocks, HeapShape
<1>7. /\ allocend' = e + n /\ e + n < Base + HeapSize /\ allocend \in Nat /\ Base <= allocend
      /\ Base \in Nat /\ HeapSize \in Nat
  BY HeapAssumption DEF gc_alloc, Fits, HeapShape
<1>8. BlocksApart'
  <2>1. ASSUME NEW b \in DOMAIN blocks'
        PROVE  b % 16 = 0 /\ b - HeaderSize >= Base /\ b + blocks'[b].size <= allocend'
    <3>1. CASE b = e
      BY <1>1, <1>3, <1>4, <1>7, <3>1 DEF HeaderSize
    <3>2. CASE b # e
      <4>1. b \in DOMAIN blocks /\ blocks'[b] = blocks[b]
        BY <1>3, <3>2
      <4> QED BY <1>1, <1>7, <4>1 DEF HeapShape, BlocksApart, HeaderSize
    <3> QED BY <3>1, <3>2
  <2>2. ASSUME NEW b \in DOMAIN blocks', NEW c \in DOMAIN blocks', b < c
        PROVE  b + blocks'[b].size <= c - HeaderSize
    <3>1. b # e
      BY <1>1, <1>3, <2>2 DEF HeaderSize
    <3>2. b \in DOMAIN blocks /\ blocks'[b] = blocks[b]
      BY <1>3, <3>1
    <3> QED BY <1>1, <1>3, <2>2, <3>2 DEF HeapShape, BlocksApart
  <2> QED BY <1>7, <2>1, <2>2 DEF BlocksApart
<1>9. \A b \in DOMAIN blocks' : {blocks'[b].car, blocks'[b].cdr} \subseteq Ref'
  BY <1>3, <1>4, <1>5 DEF HeapShape
<1> QED BY <1>1, <1>2, <1>3, <1>5, <1>6, <1>7, <1>8, <1>9 DEF HeaderSize

(* A sequence over S is one over every larger set.                         *)
LEMMA SeqGrows == ASSUME NEW S, NEW T, S \subseteq T PROVE Seq(S) \subseteq Seq(T)
BY SeqMonotonic

(* Gc_alloc adds one block and changes none (gc.c:62-77).                  *)
LEMMA AllocateBlocks ==
    ASSUME HeapIInv, Allocate
    PROVE  /\ block_end \notin DOMAIN blocks /\ DOMAIN blocks' = DOMAIN blocks \cup {block_end}
           /\ \A b \in DOMAIN blocks : blocks'[b] = blocks[b]
           /\ blocks'[block_end] = Block(request.size, request.car, request.cdr)
           /\ Ref \subseteq Ref' /\ Word \subseteq Word' /\ block_end \in Word'
           /\ request.size = PairSize => block_end \in Ref'
           /\ Blocks(blocks)' /\ BlocksApart'
           /\ allocend' \in Nat /\ Base <= allocend' /\ allocend' <= Base + HeapSize
           /\ \A b \in DOMAIN blocks' : {blocks'[b].car, blocks'[b].cdr} \subseteq Ref'
BY GcAlloc DEF Allocate, HeapIInv, RequestTyped

(* Vm_alloc, when there is room (gc.c:23-41).                              *)
LEMMA AllocateIInv ==
    ASSUME HeapIInv, pc \in {"alloc", "retry"}, Allocate PROVE HeapIInv'
<1> DEFINE e == block_end
<1>1. /\ e \notin DOMAIN blocks /\ DOMAIN blocks' = DOMAIN blocks \cup {e}
      /\ \A b \in DOMAIN blocks : blocks'[b] = blocks[b]
      /\ blocks'[e] = Block(request.size, request.car, request.cdr)
      /\ Ref \subseteq Ref' /\ Word \subseteq Word' /\ e \in Word'
      /\ request.size = PairSize => e \in Ref'
      /\ Blocks(blocks)' /\ BlocksApart'
      /\ allocend' \in Nat /\ Base <= allocend' /\ allocend' <= Base + HeapSize
      /\ \A b \in DOMAIN blocks' : {blocks'[b].car, blocks'[b].cdr} \subseteq Ref'
  BY AllocateBlocks
<1>2. HeapShape'
  BY <1>1 DEF HeapShape, Allocate
<1>3. RequestTyped'
  BY DEF Allocate, RequestTyped, NoRequest, Ref
<1>4. MachineRefs'
  <2>1. request.for \in {"parse", "cons"} => e \in Ref'
    BY <1>1 DEF HeapIInv, RequestTyped
  <2>2. CallFrame \subseteq CallFrame' /\ ClosureRec \subseteq ClosureRec'
    BY <1>1 DEF CallFrame, ClosureRec
  <2>3. /\ Seq(Ref) \subseteq Seq(Ref') /\ Seq(CallFrame) \subseteq Seq(CallFrame')
        /\ Seq(ClosureRec) \subseteq Seq(ClosureRec')
    BY <1>1, <2>2, SeqGrows
  <2>4. stack' \in Seq(Ref')
    BY <2>1, <2>3, AppendProperties DEF HeapIInv, MachineRefs, Allocate
  <2>5. locals' \in Seq(Ref')
    BY <2>1 DEF Allocate
  <2>6. closures' \in Seq(ClosureRec') /\ Len(closures') = 2
    <3>1. CASE request.for = "compile"
      <4> DEFINE c == [closures[closure] EXCEPT !.array = e]
      <4>1. closures' = [closures EXCEPT ![closure] = c]
        BY <3>1 DEF Allocate
      <4>2. closure \in 1 .. Len(closures) /\ closures[closure] \in ClosureRec'
        BY <2>2, TwoClosures DEF HeapIInv, MachineRefs
      <4>3. c \in ClosureRec'
        BY <1>1, <4>2 DEF ClosureRec
      <4> HIDE DEF c
      <4>4. closures \in Seq(ClosureRec') /\ Len(closures) = 2
        BY <2>3 DEF HeapIInv, MachineRefs
      <4>5. closure \in {1, 2}
        BY DEF HeapIInv, MachineRefs
      <4> QED BY <4>1, <4>3, <4>4, <4>5, ExceptPair
    <3>2. CASE request.for # "compile"
      BY <2>3, <3>2 DEF HeapIInv, MachineRefs, Allocate
    <3> QED BY <3>1, <3>2
  <2> QED BY <1>1, <2>3, <2>4, <2>5, <2>6 DEF HeapIInv, MachineRefs, Allocate
<1>5. Flagged(blocks)' = Flagged(blocks)
  BY <1>1 DEF Flagged, Block
<1>6. Marks'
  <2>1. cur = 0 /\ UNCHANGED <<roots, cur, end>> /\ pc' = "run"
    BY DEF HeapIInv, Marks, Allocate, marker
  <2>2. LinksFlagged(blocks)'
    BY <1>1, <1>5 DEF HeapIInv, Marks, LinksFlagged, Block
  <2>3. \A b \in DOMAIN blocks' : blocks'[b].marked =>
            {blocks'[b].car, blocks'[b].cdr} \subseteq Flagged(blocks)' \cup {0}
    BY <1>1, <1>5 DEF HeapIInv, Marks, Block
  <2>4. roots' \in Seq(Word') /\ cur' \in Word' /\ end' \in Word'
    BY <1>1, <2>1, SeqGrows DEF HeapIInv, Marks
  <2>5. \A b \in Flagged(blocks)' : blocks'[b].marked
    BY <1>1, <1>5, <2>1 DEF HeapIInv, Marks, Flagged
  <2> QED BY <2>1, <2>2, <2>3, <2>4, <2>5 DEF Marks
<1> QED BY <1>2, <1>3, <1>4, <1>6 DEF HeapIInv

-----------------------------------------------------------------------------
(* The marker.                                                             *)

(* Only an array of no words can lie where is_gc_ptr does not see it.      *)
LEMMA PairIsPtr ==
    ASSUME HeapShape, NEW v \in Pairs
    PROVE  v # 0 /\ v \in DOMAIN blocks /\ is_gc_ptr(v)
<1>1. v \in Nat \ {0} /\ v - HeaderSize >= Base /\ v + PairSize <= allocend /\ allocend \in Nat
  BY DEF HeapShape, Pairs, Blocks, BlocksApart
<1> QED BY <1>1, HeapAssumption DEF Pairs, is_gc_ptr, HeaderSize, PairSize

(* The roots of the marker are NULL or pairs.                              *)
LEMMA MachineRootsRefs == ASSUME MachineRefs PROVE MachineRoots \subseteq Ref
<1>1. ToSet(stack) \subseteq Ref
  BY SeqParts DEF MachineRefs
<1>2. \A i \in DOMAIN calls : calls[i].ptr \in Ref
  <2>1. \A i \in DOMAIN calls : calls[i] \in CallFrame
    BY ElementOfSeq, LenProperties DEF MachineRefs
  <2> QED BY <2>1 DEF CallFrame
<1> QED BY <1>1, <1>2 DEF MachineRefs, MachineRoots, Expressions

(* A step of the marker that only moves along its lists.                   *)
LEMMA MarkerStep ==
    ASSUME HeapIInv, UNCHANGED <<allocend, blocks, machine, locals, request>>,
           pc' \in {"run", "alloc", "mark", "retry", "exit"}, Marks'
    PROVE  HeapIInv'
<1>1. HeapShape'
  BY DEF HeapIInv, HeapShape, BlocksApart, Ref, Pairs
<1>2. Ref' = Ref /\ ClosureRec' = ClosureRec /\ CallFrame' = CallFrame
  BY DEF Ref, Pairs, Word, ClosureRec, CallFrame
<1>3. MachineRefs' /\ RequestTyped'
  BY <1>2 DEF HeapIInv, MachineRefs, RequestTyped, machine
<1> QED BY <1>1, <1>3 DEF HeapIInv

(* What mark_vm takes from the frames: three words of each.                *)
LEMMA CallRootsRefs ==
    ASSUME MachineRefs
    PROVE  /\ CallRoots \in Seq(Word)
           /\ \A i \in DOMAIN calls : calls[i].runmode = "interp" => calls[i].ptr \in ToSet(CallRoots)
<1> DEFINE L == Len(calls)
<1>1. L \in Nat /\ DOMAIN calls = 1 .. L /\ \A i \in 1 .. L : calls[i] \in CallFrame
  BY LenProperties, ElementOfSeq DEF MachineRefs
<1>2. /\ CallRoots = [k \in 1 .. 3 * L |-> CallRoots[k]] /\ DOMAIN CallRoots = 1 .. 3 * L
      /\ \A k \in 1 .. 3 * L :
            CallRoots[k] = FrameRoots(calls[(k + 2) \div 3])[1 + ((k + 2) % 3)]
  BY DEF CallRoots
<1> HIDE DEF L
<1>3. \A i \in 1 .. L, j \in 1 .. 3 : FrameRoots(calls[i])[j] \in Word
  <2> SUFFICES ASSUME NEW i \in 1 .. L, NEW j \in 1 .. 3
               PROVE  FrameRoots(calls[i])[j] \in Word
    OBVIOUS
  <2>1. calls[i].ptr \in Ref /\ calls[i].closure \in {1, 2}
    BY <1>1 DEF CallFrame
  <2>2. closures[calls[i].closure] \in ClosureRec
    BY <2>1, TwoClosures
  <2>3. Ref \subseteq Word
    BY DEF Ref, Word, Pairs
  <2> QED BY <2>1, <2>2, <2>3 DEF FrameRoots, ClosureRec, Word
<1>4. CallRoots \in Seq(Word)
  <2>1. \A k \in 1 .. 3 * L : CallRoots[k] \in Word
    <3> SUFFICES ASSUME NEW k \in 1 .. 3 * L PROVE CallRoots[k] \in Word
      OBVIOUS
    <3>1. (k + 2) \div 3 \in 1 .. L /\ 1 + ((k + 2) % 3) \in 1 .. 3
      BY <1>1
    <3> QED BY <1>2, <1>3, <3>1
  <2>2. 3 * L \in Nat
    BY <1>1
  <2> QED BY <1>2, <2>1, <2>2, IsASeq
<1>5. ASSUME NEW i \in 1 .. L, calls[i].runmode = "interp"
      PROVE  calls[i].ptr \in ToSet(CallRoots)
  <2>1. 3 * i - 2 \in 1 .. 3 * L /\ (3 * i - 2 + 2) \div 3 = i /\ 1 + ((3 * i - 2 + 2) % 3) = 1
    BY <1>1
  <2>2. CallRoots[3 * i - 2] = FrameRoots(calls[i])[1]
    BY <1>2, <2>1
  <2>3. FrameRoots(calls[i])[1] = calls[i].ptr
    BY <1>5 DEF FrameRoots
  <2> QED BY <1>2, <2>1, <2>2, <2>3 DEF ToSet
<1> QED BY <1>1, <1>4, <1>5

(* Mark_vm lists its roots and has marked nothing yet (gc.c:228-246).      *)
LEMMA CollectIInv == ASSUME HeapIInv, Collect PROVE HeapIInv'
<1>1. PICK nodes \in NodesSeen : roots' = mark_vm(nodes)
  BY DEF Collect
<1>2. Ref \subseteq Word
  BY DEF Ref, Pairs, Word
<1>3. nodes \in Seq(Word)
  <2>1. globals \in Seq(Word) /\ DOMAIN globals = 1 .. Len(globals) /\ Len(globals) \in Nat
    BY <1>2, SeqGrows, LenProperties DEF HeapIInv, MachineRefs
  <2>2. ASSUME NEW i \in DOMAIN globals PROVE SubSeq(globals, 1, i) \in Seq(Word)
    BY <2>1, SubSeqProperties
  <2>3. <<>> \in Seq(Word)
    OBVIOUS
  <2>4. nodes = <<>> \/ \E i \in DOMAIN globals : nodes = SubSeq(globals, 1, i)
    BY DEF NodesSeen
  <2> QED BY <2>2, <2>3, <2>4
<1>4. stack \in Seq(Word) /\ <<ptr>> \in Seq(Word) /\ ToSet(<<ptr>>) = {ptr}
  BY <1>2, SeqGrows DEF HeapIInv, MachineRefs, ToSet
<1>5. /\ CallRoots \in Seq(Word)
      /\ \A i \in DOMAIN calls : calls[i].runmode = "interp" => calls[i].ptr \in ToSet(CallRoots)
  BY CallRootsRefs DEF HeapIInv
<1>6. /\ roots' \in Seq(Word)
      /\ ToSet(roots') = ToSet(stack) \cup ToSet(CallRoots) \cup ToSet(nodes) \cup {ptr}
  <2> DEFINE p == <<ptr>>
  <2>1. roots' = stack \o CallRoots \o nodes \o p
    BY <1>1 DEF mark_vm
  <2>2. p \in Seq(Word) /\ ToSet(p) = {ptr}
    BY <1>4
  <2> HIDE DEF p
  <2>3. /\ stack \o CallRoots \o nodes \o p \in Seq(Word)
        /\ ToSet(stack \o CallRoots \o nodes \o p)
              = ToSet(stack) \cup ToSet(CallRoots) \cup ToSet(nodes) \cup ToSet(p)
    BY <1>3, <1>4, <1>5, <2>2, ToSetConcatAll
  <2> QED BY <2>1, <2>2, <2>3
<1>7. MachineRoots \subseteq ToSet(roots')
  BY <1>5, <1>6 DEF MachineRoots, Expressions
<1>8. Marks'
  <2>1. cur' = 0 /\ end' = end /\ cur = 0 /\ pc' = "mark" /\ ~ Fits(request.size)
    BY DEF HeapIInv, Marks, Collect
  <2>2. MachineRoots' = MachineRoots /\ Fits(request.size)' = Fits(request.size)
    BY DEF Collect, machine, MachineRoots, Expressions, Fits, block_end
  <2> QED BY <1>6, <1>7, <2>1, <2>2 DEF HeapIInv, Marks, Collect, Word
<1> QED BY <1>8, MarkerStep DEF Collect

(* Of the roots that mark_traverse passes over, those that are pairs have  *)
(* their flag.                                                             *)
LEMMA SkippedFlagged ==
    ASSUME HeapIInv, NEW i \in Nat, i <= Len(roots) + 1, Skipped(i),
           NEW k \in 1 .. i - 1, roots[k] \in Ref
    PROVE  roots[k] \in Flagged(blocks) \cup {0}
BY PairIsPtr DEF HeapIInv, Skipped, should_link, is_unmarked, Flagged, Ref, Pairs

(* Mark_traverse is called for a root: flagged already, or a work list of  *)
(* one (gc.c:164-172).                                                     *)
LEMMA NextRootIInv == ASSUME HeapIInv, NextRoot PROVE HeapIInv'
<1>1. PICK i \in DOMAIN roots :
            /\ Skipped(i) /\ should_link(blocks, roots[i])
            /\ cur' = roots[i] /\ end' = roots[i]
            /\ roots' = SubSeq(roots, i + 1, Len(roots))
  BY DEF NextRoot
<1> DEFINE c == roots[i]
<1>2. Len(roots) \in Nat /\ DOMAIN roots = 1 .. Len(roots) /\ roots \in Seq(Word)
  BY LenProperties DEF HeapIInv, Marks
<1>3. c \in DOMAIN blocks /\ c # 0 /\ c \notin Flagged(blocks)
  BY <1>1, <1>2, ElementOfSeq DEF should_link, is_unmarked, Flagged, Word
<1>4. /\ roots' \in Seq(Word) /\ Len(roots') = Len(roots) - i
      /\ \A k \in 1 .. Len(roots) - i : roots'[k] = roots[i + k]
  <2>1. i + 1 \in 1 .. Len(roots) + 1 /\ Len(roots) \in i .. Len(roots)
    BY <1>2
  <2> QED BY <1>1, <1>2, <2>1, SubSeqProperties
<1>5. Chained(blocks, c, c)
  BY <1>3 DEF HeapIInv, Marks, NextRoot, Chained, ChainOf, LinksFlagged
<1>6. MachineRoots \subseteq Flagged(blocks) \cup {0, c} \cup ToSet(roots')
  <2> SUFFICES ASSUME NEW r \in MachineRoots, r \notin Flagged(blocks) \cup {0, c}
               PROVE  r \in ToSet(roots')
    OBVIOUS
  <2>1. PICK k \in 1 .. Len(roots) : r = roots[k]
    BY <1>2 DEF HeapIInv, Marks, NextRoot, ToSet
  <2>2. r \in Ref
    BY MachineRootsRefs DEF HeapIInv
  <2>3. k > i
    BY <1>1, <1>2, <2>1, <2>2, SkippedFlagged
  <2>4. k - i \in 1 .. Len(roots) - i /\ roots'[k - i] = r
    BY <1>2, <1>4, <2>1, <2>3
  <2>5. DOMAIN roots' = 1 .. Len(roots) - i
    BY <1>4, LenProperties
  <2> QED BY <2>4, <2>5 DEF ToSet
<1>7. Marks'
  <2>1. MachineRoots' = MachineRoots /\ Fits(request.size)' = Fits(request.size)
    BY DEF NextRoot, machine, MachineRoots, Expressions, Fits, block_end
  <2> QED BY <1>1, <1>3, <1>4, <1>5, <1>6, <2>1 DEF HeapIInv, Marks, NextRoot, Word
<1> QED BY <1>7, MarkerStep DEF NextRoot

(* The last root has been traversed: what the others reach is marked by    *)
(* closure of the marks.                                                   *)
LEMMA MarkDoneIInv == ASSUME HeapIInv, MarkDone PROVE HeapIInv'
<1>1. MachineRoots \subseteq Flagged(blocks) \cup {0}
  <2> SUFFICES ASSUME NEW r \in MachineRoots, r \notin Flagged(blocks) \cup {0}
               PROVE  FALSE
    OBVIOUS
  <2>1. Len(roots) \in Nat /\ DOMAIN roots = 1 .. Len(roots)
    BY LenProperties DEF HeapIInv, Marks
  <2>2. PICK k \in 1 .. Len(roots) : r = roots[k]
    BY <2>1 DEF HeapIInv, Marks, MarkDone, ToSet
  <2>3. r \in Ref
    BY MachineRootsRefs DEF HeapIInv
  <2> QED BY <2>1, <2>2, <2>3, SkippedFlagged DEF MarkDone
<1>2. Marks'
  <2>1. MachineRoots' = MachineRoots /\ Fits(request.size)' = Fits(request.size)
    BY DEF MarkDone, machine, MachineRoots, Expressions, Fits, block_end
  <2> QED BY <1>1, <2>1 DEF HeapIInv, Marks, MarkDone, Word
<1> QED BY <1>2, MarkerStep DEF MarkDone

(* When the block at the head of the chain is marked, it is still the head *)
(* of a chain to the same end.                                             *)
MarkHead(B, c) == [B EXCEPT ![c].marked = TRUE]

(* The head of the work list is marked, and the list is still the list.    *)
LEMMA HeadMarked ==
    ASSUME NEW B, Blocks(B), LinksFlagged(B), NEW c, NEW e, Chained(B, c, e),
           NEW M, M = MarkHead(B, c)
    PROVE  /\ Blocks(M) /\ LinksFlagged(M) /\ Chained(M, c, e) /\ M[c].marked
           /\ DOMAIN M = DOMAIN B /\ Flagged(M) = Flagged(B) \cup {c}
           /\ \A b \in DOMAIN B : /\ M[b].size = B[b].size /\ M[b].link = B[b].link
                                  /\ M[b].car = B[b].car /\ M[b].cdr = B[b].cdr
                                  /\ b # c => (M[b].marked <=> B[b].marked)
<1>1. c \in DOMAIN B
  BY DEF Chained
<1>2. /\ DOMAIN M = DOMAIN B /\ M = [b \in DOMAIN M |-> M[b]]
      /\ \A b \in DOMAIN B : b # c => M[b] = B[b]
  BY DEF MarkHead
<1>3. M[c] = [B[c] EXCEPT !.marked = TRUE]
  BY <1>1 DEF MarkHead
<1>4. /\ DOMAIN M[c] = Fields /\ M[c].size = B[c].size /\ M[c].link = B[c].link
      /\ M[c].car = B[c].car /\ M[c].cdr = B[c].cdr
      /\ M[c].marked = TRUE /\ M[c].grey = B[c].grey
  BY <1>1, <1>3 DEF Blocks, Fields
<1> HIDE <1>3
<1>5. Blocks(M)
  BY <1>2, <1>4 DEF Blocks
<1>6. Flagged(M) = Flagged(B) \cup {c}
  BY <1>1, <1>2, <1>4 DEF Flagged
<1>7. \A b \in DOMAIN B : M[b].link = B[b].link
  BY <1>2, <1>4
<1>8. LinksFlagged(M)
  BY <1>2, <1>6, <1>7 DEF LinksFlagged
<1>9. ChainOf(M, c) = ChainOf(B, c)
  BY <1>2, <1>7 DEF ChainOf
<1>10. Chained(M, c, e)
  <2>1. e \in ChainOf(M, c) /\ M[e].link = 0
    BY <1>7, <1>9 DEF Chained, ChainOf
  <2>2. ASSUME NEW b \in Flagged(M), ~ M[b].marked PROVE b \in ChainOf(M, c)
    <3>1. b # c
      BY <1>4, <2>2
    <3>2. b \in Flagged(B) /\ M[b] = B[b]
      BY <1>2, <1>6, <3>1 DEF Flagged
    <3> QED BY <1>9, <2>2, <3>2 DEF Chained
  <2> QED BY <1>1, <1>2, <2>1, <2>2 DEF Chained
<1> QED BY <1>2, <1>4, <1>5, <1>6, <1>8, <1>10

(* One turn of mark_traverse, on the blocks.                               *)
LEMMA TraverseBlocks ==
    ASSUME HeapIInv, Traverse
    PROVE  /\ Blocks(blocks)' /\ LinksFlagged(blocks)' /\ Chained(blocks', cur, end')
           /\ DOMAIN blocks' = DOMAIN blocks /\ cur \in DOMAIN blocks /\ blocks'[cur].marked
           /\ cur' = blocks'[cur].link
           /\ Flagged(blocks) \cup {cur} \subseteq Flagged(blocks')
           /\ Flagged(blocks') \subseteq
                    Flagged(blocks) \cup {cur, blocks[cur].car, blocks[cur].cdr}
           /\ {blocks[cur].car, blocks[cur].cdr} \subseteq Flagged(blocks') \cup {0}
           /\ \A b \in DOMAIN blocks :
                    /\ blocks'[b].size = blocks[b].size
                    /\ blocks'[b].car = blocks[b].car /\ blocks'[b].cdr = blocks[b].cdr
                    /\ b # cur => (blocks'[b].marked <=> blocks[b].marked)
<1> DEFINE M == [blocks EXCEPT ![cur].marked = TRUE]
           U == try_link([end |-> end, blocks |-> M], blocks[cur].car)
           V == try_link(U, blocks[cur].cdr)
<1>1. blocks' = V.blocks /\ end' = V.end /\ cur' = V.blocks[cur].link
  BY DEF Traverse
<1>0. M = MarkHead(blocks, cur)
  BY DEF MarkHead
<1> HIDE DEF M
<1>2. Blocks(blocks) /\ LinksFlagged(blocks) /\ Chained(blocks, cur, end)
  BY DEF HeapIInv, HeapShape, Marks, Traverse, Traversing
<1>3. /\ Blocks(M) /\ LinksFlagged(M) /\ Chained(M, cur, end) /\ M[cur].marked
      /\ DOMAIN M = DOMAIN blocks /\ Flagged(M) = Flagged(blocks) \cup {cur}
      /\ \A b \in DOMAIN blocks : /\ M[b].size = blocks[b].size
                                  /\ M[b].car = blocks[b].car /\ M[b].cdr = blocks[b].cdr
                                  /\ b # cur => (M[b].marked <=> blocks[b].marked)
  BY <1>0, <1>2, HeadMarked
<1>4. cur \in DOMAIN blocks
  BY <1>2 DEF Chained
<1>5. \A v \in {blocks[cur].car, blocks[cur].cdr} :
            v \in DOMAIN blocks \cup {0} /\ (v # 0 => is_gc_ptr(v))
  BY <1>4, PairIsPtr DEF HeapIInv, HeapShape, Ref, Pairs
<1> DEFINE car == blocks[cur].car
           cdr == blocks[cur].cdr
<1> HIDE DEF U, V, car, cdr
<1>6. U = try_link([end |-> end, blocks |-> M], car)
  BY DEF U, car
<1>7. /\ U = [end |-> U.end, blocks |-> U.blocks]
      /\ Blocks(U.blocks) /\ LinksFlagged(U.blocks) /\ Chained(U.blocks, cur, U.end)
      /\ Flagged(M) \subseteq Flagged(U.blocks) /\ Flagged(U.blocks) \subseteq Flagged(M) \cup {car}
      /\ car # 0 /\ is_gc_ptr(car) => car \in Flagged(U.blocks)
      /\ \A b \in DOMAIN M : U.blocks[b].marked <=> M[b].marked
      /\ DOMAIN U.blocks = DOMAIN M
      /\ \A b \in DOMAIN M : /\ U.blocks[b].size = M[b].size
                             /\ U.blocks[b].car = M[b].car /\ U.blocks[b].cdr = M[b].cdr
  <2>1. car \in DOMAIN M \cup {0} /\ cur \in Flagged(M)
    BY <1>3, <1>5 DEF car
  <2> QED BY <1>3, <1>6, <2>1, TryLinkChained
<1>8. V = try_link([end |-> U.end, blocks |-> U.blocks], cdr)
  BY <1>7 DEF V, cdr
<1>9. /\ Blocks(V.blocks) /\ LinksFlagged(V.blocks) /\ Chained(V.blocks, cur, V.end)
      /\ Flagged(U.blocks) \subseteq Flagged(V.blocks)
      /\ Flagged(V.blocks) \subseteq Flagged(U.blocks) \cup {cdr}
      /\ cdr # 0 /\ is_gc_ptr(cdr) => cdr \in Flagged(V.blocks)
      /\ \A b \in DOMAIN U.blocks : V.blocks[b].marked <=> U.blocks[b].marked
      /\ DOMAIN V.blocks = DOMAIN U.blocks
      /\ \A b \in DOMAIN U.blocks : /\ V.blocks[b].size = U.blocks[b].size
                                    /\ V.blocks[b].car = U.blocks[b].car
                                    /\ V.blocks[b].cdr = U.blocks[b].cdr
  <2>1. cdr \in DOMAIN U.blocks \cup {0} /\ cur \in Flagged(U.blocks)
    BY <1>3, <1>5, <1>7 DEF cdr
  <2> QED BY <1>7, <1>8, <2>1, TryLinkChained
<1>10. /\ Blocks(blocks)' /\ LinksFlagged(blocks)' /\ Chained(blocks', cur, end')
       /\ DOMAIN blocks' = DOMAIN blocks /\ cur' = blocks'[cur].link
  BY <1>1, <1>3, <1>7, <1>9
<1>11. /\ Flagged(blocks) \cup {cur} \subseteq Flagged(blocks')
       /\ Flagged(blocks') \subseteq Flagged(blocks) \cup {cur, car, cdr}
       /\ {car, cdr} \subseteq Flagged(blocks') \cup {0}
  <2>1. Flagged(V.blocks) = Flagged(blocks')
    BY <1>1
  <2>2. (car # 0 => is_gc_ptr(car)) /\ (cdr # 0 => is_gc_ptr(cdr))
    BY <1>5 DEF car, cdr
  <2> QED BY <1>3, <1>7, <1>9, <2>1, <2>2
<1>12. \A b \in DOMAIN blocks :
            /\ blocks'[b].size = blocks[b].size
            /\ blocks'[b].car = blocks[b].car /\ blocks'[b].cdr = blocks[b].cdr
            /\ b # cur => (blocks'[b].marked <=> blocks[b].marked)
  <2> SUFFICES ASSUME NEW b \in DOMAIN blocks
               PROVE  /\ V.blocks[b].size = blocks[b].size
                      /\ V.blocks[b].car = blocks[b].car /\ V.blocks[b].cdr = blocks[b].cdr
                      /\ b # cur => (V.blocks[b].marked <=> blocks[b].marked)
    BY <1>1
  <2>1. b \in DOMAIN M /\ b \in DOMAIN U.blocks
    BY <1>3, <1>7
  <2> QED BY <1>3, <1>7, <1>9, <2>1, Zenon
<1>13. blocks'[cur].marked
  BY <1>1, <1>3, <1>4, <1>7, <1>9
<1> QED BY <1>4, <1>10, <1>11, <1>12, <1>13 DEF car, cdr

(* A turn of mark_traverse: the head is marked, its children are appended, *)
(* the next becomes the head. That it is the end of the list is what       *)
(* decides whether it goes on (gc.c:174-200).                              *)
LEMMA TraverseIInv == ASSUME HeapIInv, Traverse PROVE HeapIInv'
<1>1. /\ Blocks(blocks)' /\ LinksFlagged(blocks)' /\ Chained(blocks', cur, end')
      /\ DOMAIN blocks' = DOMAIN blocks /\ cur \in DOMAIN blocks /\ blocks'[cur].marked
      /\ cur' = blocks'[cur].link
      /\ Flagged(blocks) \cup {cur} \subseteq Flagged(blocks')
      /\ {blocks[cur].car, blocks[cur].cdr} \subseteq Flagged(blocks') \cup {0}
      /\ \A b \in DOMAIN blocks :
                /\ blocks'[b].size = blocks[b].size
                /\ blocks'[b].car = blocks[b].car /\ blocks'[b].cdr = blocks[b].cdr
                /\ b # cur => (blocks'[b].marked <=> blocks[b].marked)
  BY TraverseBlocks
<1>2. Ref' = Ref /\ Word' = Word /\ ClosureRec' = ClosureRec /\ CallFrame' = CallFrame
  <2>1. Pairs' = Pairs
    BY <1>1 DEF Pairs
  <2> QED BY <1>1, <2>1 DEF Ref, Word, ClosureRec, CallFrame
<1>3. HeapShape'
  <2>1. blocks # <<>>
    BY <1>1
  <2>2. BlocksApart'
    BY <1>1, <2>1 DEF HeapIInv, HeapShape, BlocksApart, Traverse
  <2>3. \A b \in DOMAIN blocks' : {blocks'[b].car, blocks'[b].cdr} \subseteq Ref'
    BY <1>1, <1>2 DEF HeapIInv, HeapShape
  <2> QED BY <1>1, <2>2, <2>3 DEF HeapIInv, HeapShape, Traverse
<1>4. MachineRefs' /\ RequestTyped'
  BY <1>2 DEF HeapIInv, MachineRefs, RequestTyped, Traverse, machine
<1>5. Marks'
  <2>1. \A b \in DOMAIN blocks' : blocks'[b].marked =>
            {blocks'[b].car, blocks'[b].cdr} \subseteq Flagged(blocks') \cup {0}
    <3> SUFFICES ASSUME NEW b \in DOMAIN blocks, blocks'[b].marked
                 PROVE  {blocks[b].car, blocks[b].cdr} \subseteq Flagged(blocks') \cup {0}
      BY <1>1
    <3>1. CASE b = cur
      BY <1>1, <3>1
    <3>2. CASE b # cur
      <4>1. {blocks[b].car, blocks[b].cdr} \subseteq Flagged(blocks) \cup {0}
        BY <1>1, <3>2 DEF HeapIInv, Marks
      <4> QED BY <1>1, <4>1
    <3> QED BY <3>1, <3>2
  <2>2. roots' \in Seq(Word') /\ cur' \in Word' /\ end' \in Word'
    <3>1. cur' \in Word'
      BY <1>1 DEF LinksFlagged, Flagged, Word
    <3>2. end' \in Word'
      BY <1>1 DEF Chained, ChainOf, Word
    <3> QED BY <1>2, <3>1, <3>2 DEF HeapIInv, Marks, Traverse
  <2>3. pc' = "mark" /\ roots' = roots
    BY DEF Traverse, Traversing
  <2>4. cur' # 0 => Chained(blocks', cur', end')
    BY <1>1, ChainAdvances
  <2>5. cur' = 0 => \A b \in Flagged(blocks') : blocks'[b].marked
    BY <1>1, ChainAdvances
  <2>6. MachineRoots' = MachineRoots /\ Fits(request.size)' = Fits(request.size)
    BY DEF Traverse, machine, MachineRoots, Expressions, Fits, block_end
  <2>7. MachineRoots' \subseteq Flagged(blocks') \cup {0, cur'} \cup ToSet(roots')
    BY <1>1, <2>3, <2>6 DEF HeapIInv, Marks, Traverse, Traversing
  <2>8. ~ Fits(request.size)'
    BY <2>6 DEF HeapIInv, Marks, Traverse, Traversing
  <2> QED BY <1>1, <2>1, <2>2, <2>3, <2>4, <2>5, <2>7, <2>8 DEF Marks
<1> QED BY <1>3, <1>4, <1>5 DEF HeapIInv

(* All steps of vm_alloc.                                                  *)
LEMMA VmAllocIInv == ASSUME HeapIInv, VmAlloc PROVE HeapIInv'
<1>1. CASE AllocFirst
  BY <1>1, AllocateIInv DEF AllocFirst
<1>2. CASE AllocAgain
  <2>1. CASE Fits(request.size)
    BY <1>2, <2>1, AllocateIInv DEF AllocAgain
  <2>2. CASE ~ Fits(request.size)
    <3>1. pc = "retry" /\ pc' = "exit"
          /\ UNCHANGED <<allocend, blocks, machine, locals, request, marker>>
      BY <1>2, <2>2 DEF AllocAgain
    <3>2. Marks'
      BY <3>1 DEF HeapIInv, Marks, marker, Word
    <3> QED BY <3>1, <3>2, MarkerStep
  <2> QED BY <2>1, <2>2
<1> QED BY <1>1, <1>2, CollectIInv, NextRootIInv, TraverseIInv, MarkDoneIInv DEF VmAlloc

(* Steps of others that leave the heap, the machine and the marker alone.  *)
LEMMA HeapStutterIInv == ASSUME HeapIInv, UNCHANGED heapvars PROVE HeapIInv'
<1>1. MachineRoots' = MachineRoots /\ Fits(request.size)' = Fits(request.size)
  BY DEF heapvars, machine, MachineRoots, Expressions, Fits, block_end
<1>2. Marks'
  BY <1>1 DEF HeapIInv, Marks, heapvars, marker, Word
<1> QED BY <1>2, MarkerStep DEF heapvars, HeapIInv, HeapShape

-----------------------------------------------------------------------------
(* What follows from the invariant.                                        *)

(* What the invariant gives of the properties: the types.                  *)
LEMMA HeapTyped == HeapIInv => HeapTypeOK
<1> SUFFICES ASSUME HeapIInv PROVE HeapTypeOK
  OBVIOUS
<1>1. allocend \in Address /\ Base \in Nat /\ HeapSize \in Nat
  BY HeapAssumption DEF HeapIInv, HeapShape, Address
<1>2. \A b \in DOMAIN blocks : b \in Address
  <2> SUFFICES ASSUME NEW b \in DOMAIN blocks PROVE b \in Address
    OBVIOUS
  <2>1. b \in Nat /\ blocks[b].size \in Nat /\ b + blocks[b].size <= allocend
    BY DEF HeapIInv, HeapShape, Blocks, BlocksApart
  <2> QED BY <1>1, <2>1 DEF Address
<1>3. ASSUME NEW b \in DOMAIN blocks
      PROVE  {blocks[b].car, blocks[b].cdr, blocks[b].link} \subseteq {0} \cup DOMAIN blocks
  BY DEF HeapIInv, HeapShape, Ref, Pairs, Marks, LinksFlagged, Flagged
<1>4. {ptr, cur, end} \cup ToSet(stack) \cup ToSet(globals) \cup ToSet(locals) \cup ToSet(roots)
            \subseteq {0} \cup DOMAIN blocks
  <2>1. /\ ToSet(stack) \subseteq Ref /\ ToSet(globals) \subseteq Ref /\ ToSet(locals) \subseteq Ref
        /\ ToSet(roots) \subseteq Word
    BY SeqParts DEF HeapIInv, MachineRefs, Marks
  <2> QED BY <2>1 DEF HeapIInv, MachineRefs, Marks, Ref, Pairs, Word
<1> QED BY <1>1, <1>2, <1>3, <1>4 DEF HeapIInv, HeapShape, Blocks, HeapTypeOK

(* Flagged, as a function of the blocks.                                   *)
LEMMA FlaggedBlocks == flagged = Flagged(blocks)
BY DEF flagged, Flagged, is_unmarked

(* A chain from cur to end is a least set closed under link: what is on it *)
(* is on every such set.                                                   *)
LEMMA NothingForgotten == HeapIInv => NoneForgotten
<1> SUFFICES ASSUME HeapIInv PROVE NoneForgotten
  OBVIOUS
<1>1. cur # 0 => WorkList = ChainOf(blocks, cur)
  BY DEF WorkList, Linked, ChainOf
<1>2. \A b \in DOMAIN blocks : blocks[b].marked => child(b) \subseteq {0} \cup flagged
  BY FlaggedBlocks DEF HeapIInv, Marks, child
<1>3. \A b \in flagged : ~ blocks[b].marked => b \in WorkList
  BY <1>1, FlaggedBlocks DEF HeapIInv, Marks, Chained
<1>4. Traversing => end \in WorkList /\ blocks[end].link = 0
  BY <1>1 DEF HeapIInv, Marks, Chained, Traversing
<1> QED BY <1>2, <1>3, <1>4 DEF NoneForgotten

(* When the marker is between two traversals, the marked blocks are closed *)
(* under child, so all that is reached from them is marked.                *)
LEMMA MarkedClosed ==
    ASSUME HeapIInv, cur = 0, NEW values, values \subseteq Flagged(blocks) \cup {0}
    PROVE  \A b \in Reachable(values) : blocks[b].marked
<1>1. \A b \in Flagged(blocks) : b \in DOMAIN blocks /\ blocks[b].marked
  BY DEF HeapIInv, Marks, Flagged
<1>2. Flagged(blocks) \in SUBSET DOMAIN blocks /\ values \ {0} \subseteq Flagged(blocks)
  BY <1>1
<1>3. 0 \notin DOMAIN blocks
  BY DEF HeapIInv, HeapShape, Blocks
<1>4. Closed(Flagged(blocks))
  BY <1>1, <1>3 DEF HeapIInv, Marks, Closed, child
<1>5. Reachable(values) \subseteq Flagged(blocks)
  BY <1>2, <1>4 DEF Reachable
<1> QED BY <1>1, <1>5

(* The marks contain the roots and are closed under child, so they contain *)
(* all that is reachable.                                                  *)
LEMMA RootsMarked == HeapIInv => MachineMarked
<1> SUFFICES ASSUME HeapIInv, pc = "retry"
             PROVE  \A b \in Reachable(MachineRoots) : blocks[b].marked
  BY DEF MachineMarked
<1>1. cur = 0 /\ MachineRoots \subseteq Flagged(blocks) \cup {0}
  BY DEF HeapIInv, Marks
<1> QED BY <1>1, MarkedClosed

(* Once the marker is done, the block does not fit and the program ends.   *)
LEMMA RetryEnds == ASSUME HeapIInv, HeapNext, pc = "retry" PROVE pc' = "exit"
<1>1. ~ Fits(request.size)
  BY DEF HeapIInv, Marks
<1>2. AllocAgain
  BY DEF HeapNext, Mutate, Parse, EvaluateExpr, Push, OpCons, Define, Pop, Lambda, Call, CallReturn,
         Compile, Idle, Running, VmAlloc, AllocFirst, Collect, NextRoot, Traverse, Traversing,
         MarkDone, Exited
<1> QED BY <1>1, <1>2 DEF AllocAgain

(* No step takes a block away or changes what it was made of.              *)
LEMMA BlocksKept ==
    ASSUME HeapIInv, HeapNext \/ UNCHANGED heapvars
    PROVE  /\ \A b \in DOMAIN blocks :
                /\ b \in DOMAIN blocks' /\ blocks'[b].size = blocks[b].size
                /\ blocks'[b].car = blocks[b].car /\ blocks'[b].cdr = blocks[b].cdr
           /\ Ref \subseteq Ref'
<1>1. \A b \in DOMAIN blocks :
            /\ b \in DOMAIN blocks' /\ blocks'[b].size = blocks[b].size
            /\ blocks'[b].car = blocks[b].car /\ blocks'[b].cdr = blocks[b].cdr
  <2>1. CASE Allocate
    <3>1. /\ DOMAIN blocks' = DOMAIN blocks \cup {block_end}
          /\ \A b \in DOMAIN blocks : blocks'[b] = blocks[b]
      BY <2>1, AllocateBlocks
    <3> QED BY <3>1
  <2>2. CASE Traverse
    BY <2>2, TraverseBlocks
  <2>3. CASE UNCHANGED blocks
    BY <2>3
  <2>4. \/ Allocate \/ Traverse \/ UNCHANGED blocks
    BY DEF HeapNext, Mutate, Parse, EvaluateExpr, Push, OpCons, Define, Pop, Lambda, Call, CallReturn,
           Compile, VmAlloc, AllocFirst, AllocAgain, Collect, NextRoot, MarkDone, Exited, vm_alloc,
           heapvars
  <2> QED BY <2>1, <2>2, <2>3, <2>4
<1> QED BY <1>1 DEF Ref, Pairs

(* Every step of the heap.                                                 *)
LEMMA HeapStepIInv == ASSUME HeapIInv, HeapNext \/ UNCHANGED heapvars PROVE HeapIInv'
BY MutateIInv, VmAllocIInv, HeapStutterIInv DEF HeapNext, Exited

-----------------------------------------------------------------------------
(* Every block has one turn.                                               *)

(* The chain from c never comes back: no link on it leads to c, no two     *)
(* lead to the same block, and what waits on it has no mark.               *)
NeverBack(B, c) ==
    \A b \in ChainOf(B, c) :
        /\ B[b].link # c
        /\ b # c => ~ B[b].marked
        /\ \A d \in ChainOf(B, c) : B[b].link # 0 /\ B[d].link = B[b].link => d = b

OneTurn == cur # 0 => NeverBack(blocks, cur) /\ ~ blocks[cur].marked

(* A chain holds its first block, and is closed under link.                *)
LEMMA ChainClosed ==
    ASSUME NEW B, NEW c \in DOMAIN B
    PROVE  /\ c \in ChainOf(B, c) /\ ChainOf(B, c) \subseteq DOMAIN B
           /\ \A x \in ChainOf(B, c) : B[x].link \in DOMAIN B \cup {0} => B[x].link \in ChainOf(B, c) \cup {0}
<1>1. c \in ChainOf(B, c) /\ ChainOf(B, c) \subseteq DOMAIN B
  BY DEF ChainOf
<1>2. ASSUME NEW x \in ChainOf(B, c), B[x].link \in DOMAIN B, B[x].link # 0
      PROVE  B[x].link \in ChainOf(B, c)
  <2> SUFFICES ASSUME NEW S \in SUBSET DOMAIN B, c \in S, \A y \in S : B[y].link \in S \cup {0}
               PROVE  B[x].link \in S
    BY <1>2 DEF ChainOf
  <2>1. x \in S
    BY DEF ChainOf
  <2> QED BY <1>2, <2>1
<1> QED BY <1>1, <1>2

(* When the head is marked, the chain has the same links.                  *)
LEMMA HeadNeverBack ==
    ASSUME NEW B, Blocks(B), LinksFlagged(B), NEW c, NEW e, Chained(B, c, e), NeverBack(B, c),
           NEW M, M = MarkHead(B, c)
    PROVE  NeverBack(M, c)
<1>1. /\ DOMAIN M = DOMAIN B
      /\ \A b \in DOMAIN B : M[b].link = B[b].link /\ (b # c => (M[b].marked <=> B[b].marked))
  BY HeadMarked
<1>2. ChainOf(M, c) = ChainOf(B, c) /\ ChainOf(B, c) \subseteq DOMAIN B
  BY <1>1 DEF ChainOf
<1> QED BY <1>1, <1>2 DEF NeverBack

(* link_end appends a block that had no flag, and so was on no chain.      *)
LEMMA LinkEndNeverBack ==
    ASSUME NEW B, Blocks(B), LinksFlagged(B), NEW c \in Flagged(B), NEW e, Chained(B, c, e),
           NeverBack(B, c), NEW v \in DOMAIN B, v \notin Flagged(B),
           NEW R, R = link_end([end |-> e, blocks |-> B], v).blocks
    PROVE  NeverBack(R, c)
<1> DEFINE K == ChainOf(B, c)
<1>1. /\ K \subseteq Flagged(B) /\ Flagged(B) \subseteq DOMAIN B /\ e \in K /\ c \in K
      /\ B[e].link = 0 /\ 0 \notin DOMAIN B /\ c # 0 /\ v # 0 /\ e # v /\ e \in DOMAIN B
  BY ChainFlagged, ChainClosed DEF Chained, Flagged, Blocks
<1>2. \A x \in K : B[x].link \in K \cup {0}
  BY <1>1, ChainClosed DEF LinksFlagged, Flagged
<1>3. /\ DOMAIN R = DOMAIN B /\ R[v].link = 0 /\ ~ R[v].marked
      /\ R[e].link = v /\ R[e].marked = B[e].marked
      /\ \A b \in DOMAIN B : b \notin {e, v} => R[b] = B[b]
  BY <1>1, LinkEndBlocks
<1>4. ChainOf(R, c) \subseteq K \cup {v}
  <2>1. K \cup {v} \in SUBSET DOMAIN R
    BY <1>1, <1>3
  <2>2. \A x \in K \cup {v} : R[x].link \in (K \cup {v}) \cup {0}
    BY <1>1, <1>2, <1>3
  <2> QED BY <1>1, <2>1, <2>2 DEF ChainOf
<1>5. \A b \in K : b # v /\ B[b].link # v
  BY <1>1, <1>2
<1>6. \A b \in K : B[b].link # c /\ (b # c => ~ B[b].marked)
                   /\ \A d \in K : B[b].link # 0 /\ B[d].link = B[b].link => d = b
  BY DEF NeverBack
<1>7. \A b \in K : b # e => R[b] = B[b]
  BY <1>1, <1>3, <1>5
<1> HIDE DEF K
<1> SUFFICES ASSUME NEW b \in K \cup {v}, NEW d \in K \cup {v}
             PROVE  /\ R[b].link # c /\ (b # c => ~ R[b].marked)
                    /\ R[b].link # 0 /\ R[d].link = R[b].link => d = b
  BY <1>4 DEF NeverBack
<1>8. R[b].link # c /\ (b # c => ~ R[b].marked)
  BY <1>1, <1>3, <1>5, <1>6, <1>7
<1>9. R[b].link # 0 /\ R[d].link = R[b].link => d = b
  BY <1>1, <1>3, <1>5, <1>6, <1>7
<1> QED BY <1>8, <1>9

(* try_link, whether it appends v or not.                                  *)
LEMMA TryLinkNeverBack ==
    ASSUME NEW B, Blocks(B), LinksFlagged(B), NEW c \in Flagged(B), NEW e, Chained(B, c, e),
           NeverBack(B, c), NEW v \in DOMAIN B \cup {0},
           NEW W, W = try_link([end |-> e, blocks |-> B], v)
    PROVE  NeverBack(W.blocks, c)
<1>1. CASE should_link(B, v)
  <2>1. v \in DOMAIN B /\ v \notin Flagged(B)
    BY <1>1 DEF should_link, is_unmarked, Flagged
  <2>2. W.blocks = link_end([end |-> e, blocks |-> B], v).blocks
    BY <1>1 DEF try_link
  <2> QED BY <2>1, <2>2, LinkEndNeverBack
<1>2. CASE ~ should_link(B, v)
  <2>1. W.blocks = B
    BY <1>2 DEF try_link
  <2> QED BY <2>1
<1> QED BY <1>1, <1>2

(* What is left of such a chain when its head is done is one as well, and  *)
(* its first block has no mark.                                            *)
LEMMA NeverBackAdvances ==
    ASSUME NEW B, Blocks(B), LinksFlagged(B), NEW c \in DOMAIN B, NeverBack(B, c), B[c].link # 0,
           NEW n, n = B[c].link
    PROVE  NeverBack(B, n) /\ ~ B[n].marked
<1> DEFINE K == ChainOf(B, c)
           S == K \ {c}
<1>1. c \in K /\ K \subseteq DOMAIN B /\ \A x \in K : B[x].link \in K \cup {0}
  BY ChainClosed DEF LinksFlagged, Flagged
<1>2. /\ \A b \in K : B[b].link # c /\ (b # c => ~ B[b].marked)
                      /\ \A d \in K : B[b].link # 0 /\ B[d].link = B[b].link => d = b
  BY DEF NeverBack
<1> HIDE DEF K
<1>3. n \in S /\ S \in SUBSET DOMAIN B /\ \A x \in S : B[x].link \in S \cup {0}
  BY <1>1, <1>2
<1>4. ChainOf(B, n) \subseteq S
  BY <1>3 DEF ChainOf
<1>5. \A b \in S : B[b].link # n
  BY <1>1, <1>2
<1> QED BY <1>1, <1>2, <1>3, <1>4, <1>5 DEF NeverBack

(* A turn of mark_traverse: the blocks it appends are fresh, and the block *)
(* that is next has not had its turn (gc.c:174-200).                       *)
LEMMA TraverseOneTurn == ASSUME HeapIInv, OneTurn, Traverse PROVE OneTurn'
<1> DEFINE M == [blocks EXCEPT ![cur].marked = TRUE]
           car == blocks[cur].car
           cdr == blocks[cur].cdr
           U == try_link([end |-> end, blocks |-> M], car)
           V == try_link(U, cdr)
<1>1. blocks' = V.blocks /\ M = MarkHead(blocks, cur)
  BY DEF Traverse, MarkHead
<1>2. Blocks(blocks) /\ LinksFlagged(blocks) /\ Chained(blocks, cur, end) /\ NeverBack(blocks, cur)
  BY DEF HeapIInv, HeapShape, Marks, Traverse, Traversing, OneTurn
<1>3. cur \in DOMAIN blocks
  BY <1>2 DEF Chained
<1>4. {car, cdr} \subseteq DOMAIN blocks \cup {0}
  BY <1>3 DEF HeapIInv, HeapShape, Ref, Pairs
<1> HIDE DEF M, U, V, car, cdr
<1>5. /\ Blocks(M) /\ LinksFlagged(M) /\ Chained(M, cur, end) /\ cur \in Flagged(M)
      /\ DOMAIN M = DOMAIN blocks /\ NeverBack(M, cur)
  BY <1>1, <1>2, HeadMarked, HeadNeverBack
<1>6. U = try_link([end |-> end, blocks |-> M], car)
  BY DEF U
<1>7. /\ U = [end |-> U.end, blocks |-> U.blocks]
      /\ Blocks(U.blocks) /\ LinksFlagged(U.blocks) /\ Chained(U.blocks, cur, U.end)
      /\ cur \in Flagged(U.blocks) /\ DOMAIN U.blocks = DOMAIN blocks
  BY <1>4, <1>5, <1>6, TryLinkChained
<1>8. NeverBack(U.blocks, cur)
  BY <1>4, <1>5, <1>6, TryLinkNeverBack
<1>9. V = try_link([end |-> U.end, blocks |-> U.blocks], cdr)
  BY <1>7 DEF V
<1>10. NeverBack(V.blocks, cur)
  BY <1>4, <1>7, <1>8, <1>9, TryLinkNeverBack
<1>11. NeverBack(blocks', cur)
  BY <1>1, <1>10
<1>12. Blocks(blocks') /\ LinksFlagged(blocks') /\ cur \in DOMAIN blocks' /\ cur' = blocks'[cur].link
  BY TraverseBlocks
<1> QED BY <1>11, <1>12, NeverBackAdvances DEF OneTurn

(* A work list of one, of a block that has no flag and so no link.         *)
LEMMA NextRootOneTurn == ASSUME HeapIInv, NextRoot PROVE OneTurn'
<1>1. PICK i \in DOMAIN roots : should_link(blocks, roots[i]) /\ cur' = roots[i]
  BY DEF NextRoot
<1> DEFINE c == roots[i]
<1>2. c \in Word
  BY ElementOfSeq, LenProperties DEF HeapIInv, Marks
<1>3. c \in DOMAIN blocks /\ c # 0 /\ c \notin Flagged(blocks)
  BY <1>1, <1>2 DEF should_link, is_unmarked, Flagged, Word
<1>4. blocks[c].link = 0 /\ ~ blocks[c].marked
  BY <1>3 DEF HeapIInv, Marks, LinksFlagged, Flagged
<1> HIDE DEF c
<1>5. ChainOf(blocks, c) \subseteq {c}
  BY <1>3, <1>4 DEF ChainOf
<1>6. NeverBack(blocks, c)
  BY <1>3, <1>4, <1>5 DEF NeverBack
<1> QED BY <1>1, <1>4, <1>6 DEF OneTurn, NextRoot, c

(* What a step does to the blocks and to the marker's place in them.       *)
LEMMA BlockSteps ==
    ASSUME HeapIInv, HeapNext \/ UNCHANGED heapvars
    PROVE  \/ Allocate /\ cur = 0 /\ cur' = 0
           \/ NextRoot
           \/ Traverse
           \/ UNCHANGED <<blocks, cur>>
BY DEF HeapNext, Mutate, Parse, EvaluateExpr, Push, OpCons, Define, Pop, Lambda, Call, CallReturn,
       Compile, VmAlloc, AllocFirst, AllocAgain, Collect, MarkDone, Exited, vm_alloc, Allocate,
       heapvars, marker, HeapIInv, Marks

(* Every step of the heap.                                                 *)
LEMMA OneTurnStep ==
    ASSUME HeapIInv, OneTurn, HeapNext \/ UNCHANGED heapvars PROVE OneTurn'
<1>1. CASE cur' = 0
  BY <1>1 DEF OneTurn
<1>2. CASE UNCHANGED <<blocks, cur>>
  BY <1>2 DEF OneTurn
<1> QED BY <1>1, <1>2, BlockSteps, NextRootOneTurn, TraverseOneTurn

(* No step takes a mark away.                                              *)
LEMMA MarksKept ==
    ASSUME HeapIInv, HeapNext \/ UNCHANGED heapvars
    PROVE  \A b \in DOMAIN blocks : blocks[b].marked => blocks'[b].marked
<1>1. CASE Allocate
  BY <1>1, AllocateBlocks
<1>2. CASE Traverse
  BY <1>2, TraverseBlocks
<1>3. CASE UNCHANGED blocks
  BY <1>3
<1> QED BY <1>1, <1>2, <1>3, BlockSteps DEF NextRoot

=============================================================================
