--------------------------- MODULE CallDAGProofs ----------------------------
(***************************************************************************)
(* Proofs about the call graph, for any set of functions.                  *)
(*                                                                         *)
(* The search keeps several copies of a function on its stack; the copy    *)
(* that is being visited is the last one (HeadAt).  Between two heads lie  *)
(* callees of the lower one, and every callee of a visited function has an *)
(* index, lies above the head, or is still to be pushed.                   *)
(***************************************************************************)
EXTENDS CallDAG, SequenceTheorems, FiniteSetTheorems, WellFoundedInduction, NaturalsInduction, TLAPS

Positions == 1..Len(functionsToProcess)

\* Position p holds the copy of a function that is being visited.
HeadAt(p) ==
  /\ functionsToProcess[p] \in visiting
  /\ \A q \in Positions : q > p => functionsToProcess[q] # functionsToProcess[p]

LastHead(p) == p \in Positions /\ HeadAt(p) /\ \A q \in Positions : q > p => ~HeadAt(q)

VisitingHasHead == \A f \in visiting : \E p \in Positions : HeadAt(p) /\ functionsToProcess[p] = f

CalleesInSight ==
  \A p \in Positions : HeadAt(p) =>
    \A g \in callees[functionsToProcess[p]] :
      \/ g \in indexAssigned \cup pushing
      \/ \E q \in Positions : q > p /\ functionsToProcess[q] = g

SegmentsAreCallees ==
  \A p, q \in Positions :
    /\ HeadAt(p) /\ p < q
    /\ \A r \in Positions : p < r /\ r < q => ~HeadAt(r)
    => functionsToProcess[q] \in callees[functionsToProcess[p]]

PushingIsCallees ==
  pushing # {} => \E p \in Positions : LastHead(p) /\ pushing \subseteq callees[functionsToProcess[p]]

\* Everything on the stack is implemented or called by an implemented function.
StackReached ==
  \A p \in Positions : \/ functionsToProcess[p] \in definitionNode
                       \/ \E g \in definitionNode : functionsToProcess[p] \in callees[g]

RootsInSight ==
  \A f \in definitionNode :
    f \in remaining \cup indexAssigned \/ \E p \in Positions : functionsToProcess[p] = f

\* The state of the search.
SearchInv ==
  pc = "assign" =>
    /\ VisitingHasHead /\ CalleesInSight /\ SegmentsAreCallees /\ PushingIsCallees
    /\ StackReached /\ RootsInSight

\* Assigned indices are distinct, and smaller for callees than for callers.
OrderInv ==
  \A f \in indexAssigned :
    /\ index[f] < mCurrentIndex
    /\ callees[f] \subseteq indexAssigned
    /\ \A g \in callees[f] : index[g] < index[f]
    /\ \A g \in indexAssigned : index[f] = index[g] => f = g

\* How far init() has come.
PhaseInv ==
  /\ pc = "traverse" =>
       indexAssigned = {} /\ visiting = {} /\ pushing = {} /\ functionsToProcess = <<>>
  /\ pc \in {"traverse", "assign"} <=> result = "none"
  /\ pc \in {"depth", "trace", "scan", "tag", "tagging", "pruned"} => result = "SUCCESS"
  /\ result = "SUCCESS" => indexAssigned = definitionNode
  /\ result = "RECURSION" => Recursive
  /\ result = "UNDEFINED" => CallsUndefined

DagInv == TypeOK /\ SearchInv /\ OrderInv /\ PhaseInv

\* Tagging: callees of a tagged function are tagged or pending, and both are
\* within every closed set of functions that contains main.
TagInv ==
  /\ pc \notin {"tagging", "pruned"} => used = {} /\ pending = {}
  /\ pc # "pruned" => definitionNode \subseteq ast
  /\ pc \in {"tagging", "pruned"} =>
       /\ Main \in indexAssigned /\ index[Main] \in used \cup pending
       /\ \A f \in indexAssigned : index[f] \in used =>
            \A g \in callees[f] : index[g] \in used \cup pending
       /\ \A i \in used \cup pending : \E f \in indexAssigned : index[f] = i
       /\ \A S \in SUBSET Functions : Main \in S /\ ClosedUnderCalls(S) =>
            \A f \in indexAssigned : index[f] \in used \cup pending => f \in S
  /\ pc = "pruned" => pending = {} /\ ast = {f \in indexAssigned : index[f] \in used}

\* The depth recorded for a function is one more than the greatest depth of its
\* callees, and the records are visited after those of the callees.
DeepestCall(f) ==
  /\ \A g \in callees[f] : depths[index[g] + 1] < depths[index[f] + 1]
  /\ \/ depths[index[f] + 1] = 0
     \/ \E g \in callees[f] : depths[index[f] + 1] = depths[index[g] + 1] + 1
  /\ depths[index[f] + 1] <= index[f]

DepthInv ==
  /\ \A i \in 0..(mCurrentIndex - 1) : \E f \in indexAssigned : index[f] = i
  /\ pc \in {"traverse", "assign"} => depths = <<>>
  /\ depths \in Seq(Nat) /\ Len(depths) <= mCurrentIndex
  /\ \A f \in indexAssigned : index[f] < Len(depths) => DeepestCall(f)

-----------------------------------------------------------------------------
(* Facts about the stack                                                   *)

\* Every non-empty set of naturals has a least element.
LEMMA LeastElement ==
  ASSUME NEW S, S \subseteq Nat, S # {}
  PROVE  \E m \in S : \A n \in S : m <= n
<1>1. PICK m \in S : \A n \in S : <<n, m>> \notin OpToRel(<, Nat)
  BY Zenon, NatLessThanWellFounded, WFMin
<1>2. \A n \in S : ~(n < m)
  BY Zenon, <1>1 DEF OpToRel
<1> QED
  BY <1>2

LEMMA FrontOfSeq ==
  ASSUME NEW S, NEW seq \in Seq(S), NEW n \in Nat, n <= Len(seq)
  PROVE  /\ SubSeq(seq, 1, n) \in Seq(S)
         /\ Len(SubSeq(seq, 1, n)) = n
         /\ \A i \in 1..n : SubSeq(seq, 1, n)[i] = seq[i]
BY SubSeqProperties

\* popped is the stack without its top.
LEMMA PopFacts ==
  ASSUME NEW F, functionsToProcess \in Seq(F), functionsToProcess # <<>>
  PROVE  /\ Len(functionsToProcess) \in Nat \ {0}
         /\ function \in F
         /\ popped \in Seq(F)
         /\ Len(popped) = Len(functionsToProcess) - 1
         /\ \A i \in 1..(Len(functionsToProcess) - 1) : popped[i] = functionsToProcess[i]
<1> DEFINE n == Len(functionsToProcess) - 1
<1>1. /\ Len(functionsToProcess) \in Nat \ {0}
      /\ n \in Nat /\ n <= Len(functionsToProcess)
  BY EmptySeq
<1>2. function \in F
  BY <1>1, ElementOfSeq DEF function
<1>3. /\ popped \in Seq(F)
      /\ Len(popped) = n
      /\ \A i \in 1..n : popped[i] = functionsToProcess[i]
  BY Zenon, <1>1, FrontOfSeq DEF popped
<1> QED
  BY <1>1, <1>2, <1>3

-----------------------------------------------------------------------------
(* The type invariant                                                      *)

LEMMA TypeInit == Init => TypeOK
BY FunctionsAssumption, EmptySeq DEF Init, TypeOK

\* The steps that touch neither the functions nor the search.
LateStep ==
  \/ checkCallDepth \/ traceFunction \/ scanCallee
  \/ tagUsedFunctions \/ pruneUnusedFunctions
  \/ \E i \in pending : internalTagUsedFunction(i)

LEMMA LateFrame ==
  ASSUME LateStep
  PROVE  /\ UNCHANGED <<creatorVars, indexVars, dagVars>>
         /\ pc \in {"depth", "trace", "scan", "tag", "tagging"}
         /\ pc' \in {"depth", "trace", "scan", "tag", "tagging", "done", "pruned"}
BY SMTT(30) DEF LateStep, checkCallDepth, traceFunction, scanCallee, tagUsedFunctions,
       pruneUnusedFunctions, internalTagUsedFunction, dagVars, tagVars

\* A declaration gives out a symbol id.
LEMMA DeclareFacts ==
  ASSUME mFunctions \subseteq Functions, uniqueId \in [Functions -> Nat],
         NEW f \in Functions, declare(f)
  PROVE  mFunctions' = mFunctions \cup {f} /\ uniqueId' \in [Functions -> Nat]
<1>1. IsFiniteSet(mFunctions) BY Zenon, FunctionsAssumption, FS_Subset
<1>2. Cardinality(mFunctions) \in Nat BY Zenon, <1>1, FS_CardinalityType
<1> QED BY <1>2 DEF declare

LEMMA TypeStep == TypeOK /\ [Next]_vars => TypeOK'
<1> SUFFICES ASSUME TypeOK, [Next]_vars PROVE TypeOK'
  OBVIOUS
<1> USE DEF TypeOK
<1>1. ASSUME NEW f \in Functions, visitFunctionPrototype(f) PROVE TypeOK'
  <2>1. mFunctions' = mFunctions \cup {f} /\ uniqueId' \in [Functions -> Nat]
    BY <1>1, DeclareFacts DEF visitFunctionPrototype
  <2>2. functionsToProcess \in Seq(mFunctions')
    BY <2>1, SeqMonotonic
  <2> QED
    BY <1>1, <2>1, <2>2 DEF visitFunctionPrototype, indexVars, dagVars
<1>2. ASSUME NEW f \in Functions, NEW calls \in SUBSET Functions, visitFunctionDefinition(f, calls)
      PROVE  TypeOK'
  <2>1. mFunctions' = mFunctions \cup {f} /\ uniqueId' \in [Functions -> Nat]
    BY <1>2, DeclareFacts DEF visitFunctionDefinition
  <2>2. functionsToProcess \in Seq(mFunctions')
    BY <2>1, SeqMonotonic
  <2>3. callees' \in [Functions -> SUBSET mFunctions']
    BY <1>2, <2>1 DEF visitFunctionDefinition
  <2> QED
    BY <1>2, <2>1, <2>2, <2>3 DEF visitFunctionDefinition, indexVars, dagVars
<1>3. CASE init
  BY <1>3 DEF init, creatorVars, indexVars
<1>4. ASSUME NEW f \in Functions, assignIndices(f) PROVE TypeOK'
  <2>1. functionsToProcess' \in Seq(mFunctions)
    BY <1>4, EmptySeq DEF assignIndices
  <2> QED
    BY <1>4, <2>1 DEF assignIndices, creatorVars, indexVars
<1>5. CASE leave
  <2>1. popped \in Seq(mFunctions) /\ function \in mFunctions
    BY <1>5, PopFacts DEF leave, processing
  <2> QED
    BY <1>5, <2>1 DEF leave, creatorVars
<1>6. CASE undefinedFunction
  BY <1>6 DEF undefinedFunction, creatorVars, indexVars
<1>7. CASE alreadyAssigned
  <2>1. popped \in Seq(mFunctions)
    BY <1>7, PopFacts DEF alreadyAssigned, processing
  <2> QED
    BY <1>7, <2>1 DEF alreadyAssigned, creatorVars, indexVars
<1>8. CASE visit
  <2>1. function \in mFunctions
    BY <1>8, PopFacts DEF visit, processing
  <2> QED
    BY <1>8, <2>1 DEF visit, creatorVars
<1>9. CASE pushCallee
  <2>1. PICK callee \in pushing : functionsToProcess' = Append(functionsToProcess, callee)
    BY <1>9 DEF pushCallee
  <2>2. functionsToProcess' \in Seq(mFunctions)
    BY <2>1
  <2> QED
    BY <1>9, <2>2 DEF pushCallee, creatorVars, indexVars
<1>10. ASSUME NEW limit \in BOOLEAN, fillDataStructures(limit) PROVE TypeOK'
  BY <1>10 DEF fillDataStructures, creatorVars, indexVars
<1>11. CASE LateStep
  <2>1. ast' \subseteq mFunctions
    BY <1>11 DEF LateStep, checkCallDepth, traceFunction, scanCallee, tagUsedFunctions,
                 pruneUnusedFunctions, internalTagUsedFunction
  <2> QED
    BY <1>11, <2>1, LateFrame DEF creatorVars, indexVars, dagVars
<1>12. CASE UNCHANGED vars
  BY <1>12 DEF vars, creatorVars, indexVars, dagVars
<1> QED
  BY Zenon, <1>1, <1>2, <1>3, <1>4, <1>5, <1>6, <1>7, <1>8, <1>9, <1>10, <1>11, <1>12 DEF Next, LateStep

\* Type correctness of the call graph's state.
THEOREM TypeCorrect == Spec => []TypeOK
<1>1. Init => TypeOK
  BY TypeInit
<1>2. TypeOK /\ [Next]_vars => TypeOK'
  BY TypeStep
<1> QED
  BY <1>1, <1>2, PTL DEF Spec

-----------------------------------------------------------------------------
(* The search                                                              *)

\* Taking the top off leaves the heads below it alone.
LEMMA HeadsAfterPop ==
  ASSUME TypeOK, functionsToProcess # <<>>, functionsToProcess' = popped,
         visiting' = visiting \ {function}
  PROVE  /\ Positions' = {p \in Positions : p < Len(functionsToProcess)}
         /\ \A p \in Positions' : /\ functionsToProcess'[p] = functionsToProcess[p]
                                  /\ HeadAt(p)' <=> HeadAt(p)
<1> DEFINE n == Len(functionsToProcess)
<1>1. /\ n \in Nat \ {0} /\ Len(functionsToProcess') = n - 1
      /\ \A i \in 1..(n - 1) : functionsToProcess'[i] = functionsToProcess[i]
  BY PopFacts DEF TypeOK
<1>2. Positions = 1..n /\ Positions' = 1..(n - 1)
  BY <1>1 DEF Positions
<1>3. function = functionsToProcess[n]
  BY DEF function
<1> HIDE DEF n
<1>4. ASSUME NEW p \in 1..(n - 1) PROVE HeadAt(p)' <=> HeadAt(p)
  <2>1. HeadAt(p) <=> /\ functionsToProcess[p] \in visiting
                      /\ \A q \in 1..n : q > p => functionsToProcess[q] # functionsToProcess[p]
    BY <1>2 DEF HeadAt
  <2>2. HeadAt(p)' <=>
          /\ functionsToProcess'[p] \in visiting'
          /\ \A q \in 1..(n - 1) : q > p => functionsToProcess'[q] # functionsToProcess'[p]
    BY <1>2 DEF HeadAt
  <2>3. HeadAt(p)' <=>
          /\ functionsToProcess[p] \in visiting \ {functionsToProcess[n]}
          /\ \A q \in 1..(n - 1) : q > p => functionsToProcess[q] # functionsToProcess[p]
    BY <1>1, <1>3, <2>2
  <2> QED
    BY <1>1, <2>1, <2>3
<1> QED
  BY <1>1, <1>2, <1>4 DEF n

\* A function leaves the stack when it has its index.
LEMMA PopKeepsSearch ==
  ASSUME TypeOK, SearchInv, pc = "assign", pc' = "assign", functionsToProcess # <<>>,
         functionsToProcess' = popped, visiting' = visiting \ {function},
         indexAssigned' = indexAssigned \cup {function},
         pushing = {}, pushing' = {}, remaining' = remaining, UNCHANGED creatorVars
  PROVE  SearchInv'
<1> DEFINE n == Len(functionsToProcess)
<1>1. n \in Nat \ {0} /\ n \in Positions /\ functionsToProcess[n] = function /\ Positions \subseteq Nat
  BY PopFacts DEF TypeOK, Positions, function
<1>2. /\ Positions' = {p \in Positions : p < n}
      /\ \A p \in Positions' : /\ functionsToProcess'[p] = functionsToProcess[p]
                               /\ HeadAt(p)' <=> HeadAt(p)
  BY HeadsAfterPop
<1>3. UNCHANGED <<callees, definitionNode, mFunctions>>
  BY DEF creatorVars
<1> HIDE DEF n
<1>4. \A p \in Positions : p \in Positions' \/ p = n
  BY <1>1, <1>2 DEF Positions, n
<1>5. VisitingHasHead'
  <2> SUFFICES ASSUME NEW f \in visiting' PROVE \E p \in Positions' : HeadAt(p)' /\ functionsToProcess'[p] = f
    BY DEF VisitingHasHead
  <2>1. PICK p \in Positions : HeadAt(p) /\ functionsToProcess[p] = f
    BY DEF SearchInv, VisitingHasHead
  <2>2. p \in Positions'
    BY <1>1, <1>4, <2>1
  <2> QED
    BY <1>2, <2>1, <2>2
<1>6. CalleesInSight'
  <2> SUFFICES ASSUME NEW p \in Positions', HeadAt(p)', NEW g \in callees'[functionsToProcess'[p]]
               PROVE  \/ g \in indexAssigned' \cup pushing'
                      \/ \E q \in Positions' : q > p /\ functionsToProcess'[q] = g
    BY DEF CalleesInSight
  <2>1. p \in Positions /\ HeadAt(p) /\ g \in callees[functionsToProcess[p]]
    BY <1>2, <1>3
  <2>2. g \in indexAssigned \/ \E q \in Positions : q > p /\ functionsToProcess[q] = g
    BY <2>1 DEF SearchInv, CalleesInSight
  <2> QED
    BY <1>1, <1>2, <1>4, <2>2
<1>7. SegmentsAreCallees'
  <2> SUFFICES ASSUME NEW p \in Positions', NEW q \in Positions', HeadAt(p)', p < q,
                      \A r \in Positions' : p < r /\ r < q => ~HeadAt(r)'
               PROVE  functionsToProcess'[q] \in callees'[functionsToProcess'[p]]
    BY DEF SegmentsAreCallees
  <2>1. p \in Positions /\ q \in Positions /\ HeadAt(p)
    BY <1>2
  <2>2. \A r \in Positions : p < r /\ r < q => ~HeadAt(r)
    BY <1>1, <1>2
  <2> QED
    BY <1>2, <1>3, <2>1, <2>2 DEF SearchInv, SegmentsAreCallees
<1>8. PushingIsCallees'
  BY DEF PushingIsCallees
<1>9. StackReached'
  BY <1>2, <1>3 DEF SearchInv, StackReached
<1>10. RootsInSight'
  BY <1>1, <1>2, <1>3, <1>4 DEF SearchInv, RootsInSight
<1> QED
  BY <1>5, <1>6, <1>7, <1>8, <1>9, <1>10 DEF SearchInv

\* The callee on top of the stack that is not being visited yet disturbs no head.
LEMMA PushKeepsSearch ==
  ASSUME TypeOK, SearchInv, pc = "assign", pc' = "assign",
         NEW c \in pushing, c \notin visiting,
         functionsToProcess' = Append(functionsToProcess, c), pushing' = pushing \ {c},
         UNCHANGED <<creatorVars, visiting, indexAssigned, remaining>>
  PROVE  SearchInv'
<1>0. PICK n \in Nat : n = Len(functionsToProcess)
  BY DEF TypeOK
<1>1. /\ n \in Nat /\ Len(functionsToProcess') = n + 1
      /\ \A i \in 1..n : functionsToProcess'[i] = functionsToProcess[i]
      /\ functionsToProcess'[n + 1] = c
  BY <1>0 DEF TypeOK
<1>2. Positions = 1..n /\ Positions' = 1..(n + 1)
  BY <1>0, <1>1 DEF Positions
<1>3. UNCHANGED <<callees, definitionNode, mFunctions, visiting, indexAssigned, remaining>>
  BY DEF creatorVars
<1>4. ASSUME NEW p \in 1..n PROVE HeadAt(p)' <=> HeadAt(p)
  <2>1. HeadAt(p) <=> /\ functionsToProcess[p] \in visiting
                      /\ \A q \in 1..n : q > p => functionsToProcess[q] # functionsToProcess[p]
    BY <1>2 DEF HeadAt
  <2>2. HeadAt(p)' <=>
          /\ functionsToProcess'[p] \in visiting
          /\ \A q \in 1..(n + 1) : q > p => functionsToProcess'[q] # functionsToProcess'[p]
    BY <1>2, <1>3 DEF HeadAt
  <2>3. ASSUME functionsToProcess[p] \in visiting
        PROVE  functionsToProcess'[n + 1] # functionsToProcess'[p]
    BY <1>1, <2>3
  <2> QED
    BY <1>1, <2>1, <2>2, <2>3
<1>5. ~HeadAt(n + 1)'
  BY <1>1, <1>3 DEF HeadAt
<1>6. PICK top \in Positions : LastHead(top) /\ pushing \subseteq callees[functionsToProcess[top]]
  BY DEF SearchInv, PushingIsCallees
<1>7. VisitingHasHead'
  BY <1>1, <1>2, <1>3, <1>4 DEF SearchInv, VisitingHasHead
<1>8. CalleesInSight'
  <2> SUFFICES ASSUME NEW p \in Positions', HeadAt(p)', NEW g \in callees'[functionsToProcess'[p]]
               PROVE  \/ g \in indexAssigned' \cup pushing'
                      \/ \E q \in Positions' : q > p /\ functionsToProcess'[q] = g
    BY Zenon DEF CalleesInSight
  <2>1. p \in 1..n
    BY <1>1, <1>2, <1>5
  <2>2. HeadAt(p) /\ g \in callees[functionsToProcess[p]]
    BY <1>1, <1>3, <1>4, <2>1
  <2>3. \/ g \in indexAssigned \cup pushing
        \/ \E q \in Positions : q > p /\ functionsToProcess[q] = g
    BY <1>2, <2>1, <2>2 DEF SearchInv, CalleesInSight
  <2>4. n + 1 \in Positions' /\ n + 1 > p /\ functionsToProcess'[n + 1] = c
    BY <1>1, <1>2, <2>1
  <2>5. ASSUME NEW q \in Positions, q > p, functionsToProcess[q] = g
        PROVE  q \in Positions' /\ q > p /\ functionsToProcess'[q] = g
    BY <1>1, <1>2, <2>5
  <2> QED
    BY Zenon, <1>3, <2>3, <2>4, <2>5
<1>9. SegmentsAreCallees'
  <2> SUFFICES ASSUME NEW p \in Positions', NEW q \in Positions', HeadAt(p)', p < q,
                      \A r \in Positions' : p < r /\ r < q => ~HeadAt(r)'
               PROVE  functionsToProcess'[q] \in callees'[functionsToProcess'[p]]
    BY Zenon DEF SegmentsAreCallees
  <2>1. p \in 1..n /\ HeadAt(p)
    BY <1>1, <1>2, <1>4, <1>5
  <2>2. CASE q \in 1..n
    <3>1. \A r \in Positions : p < r /\ r < q => ~HeadAt(r)
      BY <1>1, <1>2, <1>4
    <3> QED
      BY <1>1, <1>2, <1>3, <2>1, <2>2, <3>1 DEF SearchInv, SegmentsAreCallees
  <2>3. CASE q = n + 1
    <3>1. \A r \in 1..n : p < r => ~HeadAt(r)
      BY <1>1, <1>2, <1>4, <2>3
    <3>2. p = top
      BY <1>1, <1>2, <1>6, <2>1, <3>1 DEF LastHead
    <3> QED
      BY <1>1, <1>3, <1>6, <2>1, <2>3, <3>2
  <2> QED
    BY <1>1, <1>2, <2>2, <2>3
<1>10. PushingIsCallees'
  <2>1. top \in Positions' /\ LastHead(top)'
    BY <1>1, <1>2, <1>4, <1>5, <1>6 DEF LastHead
  <2>2. pushing' \subseteq callees'[functionsToProcess'[top]]
    BY <1>1, <1>2, <1>3, <1>6
  <2> QED
    BY Zenon, <2>1, <2>2 DEF PushingIsCallees
<1>11. StackReached'
  <2>1. functionsToProcess[top] \in definitionNode /\ c \in callees[functionsToProcess[top]]
    BY <1>6 DEF LastHead, HeadAt, TypeOK
  <2>2. \A p \in 1..n : \/ functionsToProcess[p] \in definitionNode
                        \/ \E g \in definitionNode : functionsToProcess[p] \in callees[g]
    BY <1>2 DEF SearchInv, StackReached
  <2> QED
    BY <1>1, <1>2, <1>3, <2>1, <2>2 DEF StackReached
<1>12. RootsInSight'
  BY <1>1, <1>2, <1>3 DEF SearchInv, RootsInSight
<1> QED
  BY <1>7, <1>8, <1>9, <1>10, <1>11, <1>12 DEF SearchInv

\* The visit of the top function makes its copy on top the last head.
LEMMA VisitKeepsSearch ==
  ASSUME TypeOK, SearchInv, pc = "assign", pc' = "assign", functionsToProcess # <<>>,
         function \in definitionNode, function \notin visiting, pushing = {},
         visiting' = visiting \cup {function}, pushing' = callees[function],
         UNCHANGED <<creatorVars, functionsToProcess, indexAssigned, remaining>>
  PROVE  SearchInv'
<1>0. PICK n \in Nat : n = Len(functionsToProcess)
  BY DEF TypeOK
<1>1. n \in Nat \ {0} /\ functionsToProcess[n] = function
  BY <1>0, PopFacts DEF TypeOK, function
<1>2. Positions = 1..n /\ Positions' = 1..n
  BY <1>0 DEF Positions
<1>3. UNCHANGED <<callees, definitionNode, mFunctions, functionsToProcess, indexAssigned, remaining>>
  BY DEF creatorVars
<1>4. ASSUME NEW p \in 1..n, p # n PROVE HeadAt(p)' <=> HeadAt(p)
  <2>1. HeadAt(p) <=> /\ functionsToProcess[p] \in visiting
                      /\ \A q \in 1..n : q > p => functionsToProcess[q] # functionsToProcess[p]
    BY <1>2 DEF HeadAt
  <2>2. HeadAt(p)' <=>
          /\ functionsToProcess[p] \in visiting \cup {function}
          /\ \A q \in 1..n : q > p => functionsToProcess[q] # functionsToProcess[p]
    BY <1>2, <1>3 DEF HeadAt
  <2> QED
    BY <1>1, <1>4, <2>1, <2>2
<1>5. HeadAt(n)' /\ ~HeadAt(n) /\ n \in 1..n
  BY <1>1, <1>2, <1>3 DEF HeadAt
<1>6. VisitingHasHead'
  BY <1>1, <1>2, <1>3, <1>4, <1>5 DEF SearchInv, VisitingHasHead
<1>7. CalleesInSight'
  <2> SUFFICES ASSUME NEW p \in 1..n, HeadAt(p)', NEW g \in callees[functionsToProcess[p]]
               PROVE  \/ g \in indexAssigned \cup pushing'
                      \/ \E q \in 1..n : q > p /\ functionsToProcess[q] = g
    BY <1>2, <1>3 DEF CalleesInSight
  <2>1. CASE p = n
    BY <1>1, <2>1
  <2>2. CASE p # n
    BY <1>2, <1>4, <2>2 DEF SearchInv, CalleesInSight
  <2> QED
    BY <2>1, <2>2
<1>8. SegmentsAreCallees'
  <2> SUFFICES ASSUME NEW p \in 1..n, NEW q \in 1..n, HeadAt(p)', p < q,
                      \A r \in 1..n : p < r /\ r < q => ~HeadAt(r)'
               PROVE  functionsToProcess[q] \in callees[functionsToProcess[p]]
    BY <1>2, <1>3 DEF SegmentsAreCallees
  <2>1. p # n /\ HeadAt(p)
    BY <1>1, <1>4
  <2>2. \A r \in 1..n : p < r /\ r < q => ~HeadAt(r)
    BY <1>1, <1>4, <1>5
  <2> QED
    BY <1>2, <2>1, <2>2 DEF SearchInv, SegmentsAreCallees
<1>9. PushingIsCallees'
  <2>1. LastHead(n)'
    BY <1>1, <1>2, <1>5 DEF LastHead
  <2> QED
    BY <1>1, <1>2, <1>3, <1>5, <2>1 DEF PushingIsCallees
<1>10. StackReached' /\ RootsInSight'
  BY <1>2, <1>3 DEF SearchInv, StackReached, RootsInSight
<1> QED
  BY <1>6, <1>7, <1>8, <1>9, <1>10 DEF SearchInv

\* A search begins on an empty stack.
LEMMA RootKeepsSearch ==
  ASSUME TypeOK, SearchInv, NEW root \in remaining, assignIndices(root)
  PROVE  SearchInv'
<1>1. /\ pc = "assign" /\ functionsToProcess = <<>> /\ Len(functionsToProcess) = 0
      /\ remaining' = remaining \ {root}
      /\ functionsToProcess' = IF root \in definitionNode \ indexAssigned THEN <<root>> ELSE <<>>
      /\ UNCHANGED <<callees, definitionNode, indexAssigned, visiting, pushing>>
  BY DEF assignIndices, creatorVars, indexVars
<1>2. Positions = {} /\ visiting = {} /\ pushing = {}
  BY <1>1 DEF SearchInv, Positions, VisitingHasHead, PushingIsCallees
<1>3. \A p \in Positions' : /\ p = 1 /\ functionsToProcess'[p] = root /\ root \in definitionNode
                            /\ ~HeadAt(p)'
  BY <1>1, <1>2 DEF Positions, HeadAt
<1>4. VisitingHasHead' /\ CalleesInSight' /\ SegmentsAreCallees' /\ PushingIsCallees'
  BY <1>1, <1>2, <1>3 DEF VisitingHasHead, CalleesInSight, SegmentsAreCallees, PushingIsCallees
<1>5. StackReached'
  BY <1>1, <1>3 DEF StackReached
<1>6. root \in definitionNode \ indexAssigned =>
        1 \in Positions' /\ functionsToProcess'[1] = root
  BY <1>1 DEF Positions
<1>7. RootsInSight'
  BY <1>1, <1>2, <1>6 DEF SearchInv, RootsInSight
<1> QED
  BY <1>4, <1>5, <1>7 DEF SearchInv

\* A callee that is being visited closes a circle: the functions visited from it
\* on call one another.
LEMMA CircleFound ==
  ASSUME TypeOK, SearchInv, pc = "assign", NEW c \in pushing, c \in visiting
  PROVE  Recursive
<1> DEFINE at(p) == functionsToProcess[p]
<1>1. PICK top \in Positions : LastHead(top) /\ pushing \subseteq callees[at(top)]
  BY DEF SearchInv, PushingIsCallees
<1>2. PICK first \in Positions : HeadAt(first) /\ at(first) = c
  BY DEF SearchInv, VisitingHasHead
<1>3. Positions \subseteq Nat
  BY DEF Positions
<1> DEFINE S == {at(p) : p \in {q \in Positions : HeadAt(q) /\ first <= q}}
<1>4. c \in S
  BY <1>2, <1>3
<1>5. S \subseteq definitionNode
  BY DEF HeadAt, TypeOK
<1>6. ASSUME NEW f \in S PROVE callees[f] \cap S # {}
  <2>1. PICK p \in Positions : HeadAt(p) /\ first <= p /\ f = at(p)
    BY <1>6
  <2>2. CASE \A q \in Positions : q > p => ~HeadAt(q)
    <3>1. p = top
      BY <1>1, <1>3, <2>1, <2>2 DEF LastHead
    <3> QED
      BY <1>1, <1>4, <2>1, <3>1
  <2>3. CASE ~(\A q \in Positions : q > p => ~HeadAt(q))
    <3> DEFINE Above == {q \in Positions : q > p /\ HeadAt(q)}
    <3>0. Above \subseteq Nat /\ Above # {}
      BY <1>3, <2>3
    <3>1. PICK q \in Above : \A r \in Above : q <= r
      <4> HIDE DEF Above
      <4> QED
        BY <3>0, LeastElement
    <3>2. \A r \in Positions : p < r /\ r < q => ~HeadAt(r)
      BY <1>3, <3>1
    <3>3. at(q) \in callees[f]
      BY <1>3, <2>1, <3>1, <3>2 DEF SearchInv, SegmentsAreCallees
    <3>4. at(q) \in S
      <4>1. q \in Positions /\ HeadAt(q) /\ first <= q
        BY <1>3, <2>1, <3>1
      <4> QED
        BY <4>1
    <3> QED
      BY <3>3, <3>4
  <2> QED
    BY <2>2, <2>3
<1> HIDE DEF S
<1> QED
  BY <1>4, <1>5, <1>6 DEF Recursive

LEMMA SearchStep == TypeOK /\ SearchInv /\ PhaseInv /\ [Next]_vars => SearchInv'
<1> SUFFICES ASSUME TypeOK, SearchInv, PhaseInv, [Next]_vars, pc' = "assign" PROVE SearchInv'
  BY DEF SearchInv
<1>1. CASE init
  <2>1. /\ Positions' = {} /\ visiting' = {} /\ pushing' = {} /\ remaining' = mFunctions
        /\ UNCHANGED <<definitionNode, indexAssigned>>
    BY <1>1 DEF init, PhaseInv, Positions, creatorVars, indexVars
  <2> QED
    BY <2>1 DEF SearchInv, VisitingHasHead, CalleesInSight, SegmentsAreCallees, PushingIsCallees,
                StackReached, RootsInSight, TypeOK
<1>2. ASSUME NEW f \in Functions, assignIndices(f) PROVE SearchInv'
  BY <1>2, RootKeepsSearch DEF assignIndices
<1>3. CASE leave
  BY <1>3, PopKeepsSearch DEF leave, processing
<1>4. CASE alreadyAssigned
  <2>1. visiting' = visiting \ {function} /\ indexAssigned' = indexAssigned \cup {function}
    BY <1>4 DEF alreadyAssigned, indexVars
  <2> QED
    BY <1>4, <2>1, PopKeepsSearch DEF alreadyAssigned, processing
<1>5. CASE visit
  BY <1>5, VisitKeepsSearch DEF visit, processing
<1>6. CASE pushCallee
  <2>1. PICK c \in pushing : /\ functionsToProcess' = Append(functionsToProcess, c)
                             /\ c \notin visiting /\ pushing' = pushing \ {c}
    BY SMTT(30), <1>6 DEF pushCallee
  <2> QED
    BY <1>6, <2>1, PushKeepsSearch DEF pushCallee, indexVars
<1>7. CASE UNCHANGED vars
  <2>1. UNCHANGED <<pc, functionsToProcess, visiting, pushing, callees, indexAssigned, remaining,
                    definitionNode>>
    BY <1>7 DEF vars, creatorVars, indexVars, dagVars
  <2>2. Positions' = Positions BY <2>1 DEF Positions
  <2>3. \A p : HeadAt(p)' <=> HeadAt(p) BY <2>1, <2>2 DEF HeadAt
  <2>4. \A p : LastHead(p)' <=> LastHead(p) BY <2>1, <2>2, <2>3 DEF LastHead
  <2>5. VisitingHasHead' <=> VisitingHasHead BY <2>1, <2>2, <2>3 DEF VisitingHasHead
  <2>6. CalleesInSight' <=> CalleesInSight BY <2>1, <2>2, <2>3 DEF CalleesInSight
  <2>7. SegmentsAreCallees' <=> SegmentsAreCallees BY <2>1, <2>2, <2>3 DEF SegmentsAreCallees
  <2>8. PushingIsCallees' <=> PushingIsCallees BY <2>1, <2>2, <2>4 DEF PushingIsCallees
  <2>9. StackReached' <=> StackReached BY <2>1, <2>2 DEF StackReached
  <2>10. RootsInSight' <=> RootsInSight BY <2>1, <2>2 DEF RootsInSight
  <2> QED BY <2>1, <2>5, <2>6, <2>7, <2>8, <2>9, <2>10 DEF SearchInv
<1>8. CASE LateStep
  BY <1>8, LateFrame
<1>9. CASE undefinedFunction \/ \E limit \in BOOLEAN : fillDataStructures(limit)
  BY <1>9 DEF undefinedFunction, fillDataStructures
<1>10. ASSUME NEW f \in Functions, visitFunctionPrototype(f) PROVE FALSE
  BY <1>10 DEF visitFunctionPrototype
<1>11. ASSUME NEW f \in Functions, NEW calls \in SUBSET Functions, visitFunctionDefinition(f, calls)
       PROVE  FALSE
  BY <1>11 DEF visitFunctionDefinition
<1> QED
  BY <1>1, <1>2, <1>3, <1>4, <1>5, <1>6, <1>7, <1>8, <1>9, <1>10, <1>11 DEF Next, LateStep

-----------------------------------------------------------------------------
(* The order of the indices and the result of init()                       *)

\* The top function, once visited and with nothing left to push, has only
\* callees with an index.
LEMMA TopIsComplete ==
  ASSUME TypeOK, SearchInv, pc = "assign", functionsToProcess # <<>>, pushing = {},
         function \in visiting
  PROVE  callees[function] \subseteq indexAssigned
<1>0. PICK n \in Nat : n = Len(functionsToProcess)
  BY DEF TypeOK
<1>1. n \in Nat \ {0} /\ functionsToProcess[n] = function
  BY <1>0, PopFacts DEF TypeOK, function
<1>2. n \in Positions /\ \A q \in Positions : ~(q > n)
  BY <1>0, <1>1 DEF Positions
<1>3. HeadAt(n)
  BY <1>1, <1>2 DEF HeadAt
<1> QED
  BY <1>1, <1>2, <1>3 DEF SearchInv, CalleesInSight

LEMMA OrderStep == TypeOK /\ SearchInv /\ OrderInv /\ PhaseInv /\ [Next]_vars => OrderInv'
<1> SUFFICES ASSUME TypeOK, SearchInv, OrderInv, PhaseInv, [Next]_vars PROVE OrderInv'
  OBVIOUS
<1>1. CASE leave
  <2>1. callees[function] \subseteq indexAssigned
    BY <1>1, TopIsComplete DEF leave, processing
  <2>2. function \notin indexAssigned /\ function \in Functions
    BY <1>1 DEF leave, TypeOK
  <2>3. /\ index' = [index EXCEPT ![function] = mCurrentIndex] /\ mCurrentIndex' = mCurrentIndex + 1
        /\ indexAssigned' = indexAssigned \cup {function} /\ callees' = callees
    BY <1>1 DEF leave, creatorVars
  <2>4. indexAssigned \subseteq Functions /\ mCurrentIndex \in Nat /\ index \in [Functions -> Nat]
    BY DEF TypeOK
  <2>5. \A f \in indexAssigned : index'[f] = index[f] /\ index[f] < mCurrentIndex
    BY <2>2, <2>3, <2>4 DEF OrderInv
  <2>6. index'[function] = mCurrentIndex
    BY <2>2, <2>3, <2>4
  <2>7. ASSUME NEW f \in indexAssigned
        PROVE  /\ index'[f] < mCurrentIndex'
               /\ callees'[f] \subseteq indexAssigned'
               /\ \A g \in callees'[f] : index'[g] < index'[f]
               /\ \A g \in indexAssigned' : index'[f] = index'[g] => f = g
    <3>1. callees[f] \subseteq indexAssigned /\ \A g \in callees[f] : index[g] < index[f]
      BY DEF OrderInv
    <3>2. index'[f] < mCurrentIndex'
      BY <2>3, <2>4, <2>5
    <3>3. \A g \in callees'[f] : index'[g] < index'[f]
      BY <2>3, <2>5, <3>1
    <3>4. \A g \in indexAssigned' : index'[f] = index'[g] => f = g
      BY <2>3, <2>4, <2>5, <2>6 DEF OrderInv
    <3> QED
      BY <2>3, <3>1, <3>2, <3>3, <3>4
  <2>8. /\ index'[function] < mCurrentIndex'
        /\ callees'[function] \subseteq indexAssigned'
        /\ \A g \in callees'[function] : index'[g] < index'[function]
        /\ \A g \in indexAssigned' : index'[function] = index'[g] => function = g
    <3>1. \A g \in indexAssigned : index'[g] < index'[function]
      BY <2>5, <2>6
    <3>2. \A g \in indexAssigned : index'[g] # index'[function]
      BY <2>4, <2>5, <2>6
    <3> QED
      BY <2>1, <2>3, <2>4, <2>6, <3>1, <3>2
  <2> QED
    BY <2>3, <2>7, <2>8 DEF OrderInv
<1>2. ASSUME NEW f \in Functions, NEW calls \in SUBSET Functions, visitFunctionDefinition(f, calls)
      PROVE  OrderInv'
  BY <1>2 DEF visitFunctionDefinition, PhaseInv, OrderInv, indexVars
<1>3. CASE UNCHANGED <<callees, index, indexAssigned, mCurrentIndex>>
  BY <1>3 DEF OrderInv
<1>4. CASE LateStep
  BY <1>3, <1>4, LateFrame DEF creatorVars, indexVars
<1>5. CASE \/ init \/ undefinedFunction \/ alreadyAssigned \/ visit \/ pushCallee
           \/ \E limit \in BOOLEAN : fillDataStructures(limit)
           \/ \E f \in Functions : visitFunctionPrototype(f) \/ assignIndices(f)
           \/ UNCHANGED vars
  BY Zenon, <1>3, <1>5 DEF init, undefinedFunction, alreadyAssigned, visit, pushCallee,
       fillDataStructures, visitFunctionPrototype, assignIndices, vars, creatorVars, indexVars
<1> QED
  BY <1>1, <1>2, <1>4, <1>5 DEF Next, LateStep

LEMMA PhaseStep == TypeOK /\ SearchInv /\ PhaseInv /\ [Next]_vars => PhaseInv'
<1> SUFFICES ASSUME TypeOK, SearchInv, PhaseInv, [Next]_vars PROVE PhaseInv'
  OBVIOUS
<1>1. CASE UNCHANGED <<callees, definitionNode, indexAssigned, result>> /\
           /\ pc' # "traverse" /\ (pc \in {"traverse", "assign"} <=> pc' \in {"traverse", "assign"})
           /\ (result = "SUCCESS" \/ pc' = pc \/ pc' = "assign")
  BY <1>1 DEF PhaseInv, Recursive, CallsUndefined
<1>2. ASSUME NEW f \in Functions, visitFunctionPrototype(f) PROVE PhaseInv'
  BY <1>2 DEF visitFunctionPrototype, PhaseInv, indexVars, dagVars
<1>3. ASSUME NEW f \in Functions, NEW calls \in SUBSET Functions, visitFunctionDefinition(f, calls)
      PROVE  PhaseInv'
  BY <1>3 DEF visitFunctionDefinition, PhaseInv, indexVars, dagVars
<1>4. CASE init
  BY <1>1, <1>4 DEF init, creatorVars, indexVars
<1>5. ASSUME NEW f \in Functions, assignIndices(f) PROVE PhaseInv'
  BY <1>1, <1>5 DEF assignIndices, creatorVars, indexVars
<1>6. CASE leave
  BY <1>6 DEF leave, processing, PhaseInv
<1>7. CASE alreadyAssigned \/ visit
  BY <1>1, <1>7 DEF alreadyAssigned, visit, processing, creatorVars, indexVars
<1>8. CASE undefinedFunction
  <2>0. PICK n \in Nat : n = Len(functionsToProcess)
    BY DEF TypeOK
  <2>1. n \in Positions /\ functionsToProcess[n] = function
    BY <1>8, <2>0, PopFacts DEF undefinedFunction, processing, TypeOK, function, Positions
  <2>2. function \notin definitionNode
    BY <1>8 DEF undefinedFunction
  <2>3. \E g \in definitionNode : function \in callees[g]
    BY <1>8, <2>1, <2>2 DEF undefinedFunction, processing, SearchInv, StackReached
  <2>4. CallsUndefined
    BY <2>2, <2>3 DEF CallsUndefined
  <2> QED
    BY <1>8, <2>4 DEF undefinedFunction, PhaseInv, CallsUndefined, creatorVars
<1>9. CASE pushCallee
  <2>1. PICK c \in pushing :
          \/ c \in visiting /\ result' = "RECURSION" /\ pc' = "done"
          \/ c \notin visiting /\ UNCHANGED <<result, pc>>
    BY <1>9 DEF pushCallee
  <2>2. pc = "assign" /\ UNCHANGED <<callees, definitionNode, indexAssigned>>
    BY <1>9 DEF pushCallee, creatorVars, indexVars
  <2>3. CASE c \in visiting
    <3>1. Recursive
      BY <2>2, <2>3, CircleFound
    <3> QED
      BY <2>1, <2>2, <2>3, <3>1 DEF PhaseInv, Recursive
  <2>4. CASE c \notin visiting
    BY <1>1, <2>1, <2>2, <2>4
  <2> QED
    BY <2>3, <2>4
<1>10. ASSUME NEW limit \in BOOLEAN, fillDataStructures(limit) PROVE PhaseInv'
  <2>1. Positions = {}
    BY <1>10 DEF fillDataStructures, Positions
  <2>2. indexAssigned = definitionNode
    BY Zenon, <1>10, <2>1 DEF fillDataStructures, SearchInv, RootsInSight, TypeOK
  <2> QED
    BY <1>10, <2>2 DEF fillDataStructures, PhaseInv, creatorVars, indexVars
<1>11. CASE LateStep
  <2>1. result = "SUCCESS"
    BY <1>11, LateFrame DEF PhaseInv
  <2> QED
    BY <1>1, <1>11, <2>1, LateFrame DEF creatorVars, indexVars, dagVars
<1>12. CASE UNCHANGED vars
  BY <1>12 DEF vars, creatorVars, indexVars, dagVars, PhaseInv, Recursive, CallsUndefined
<1> QED
  BY <1>2, <1>3, <1>4, <1>5, <1>6, <1>7, <1>8, <1>9, <1>10, <1>11, <1>12 DEF Next, LateStep

LEMMA DagInvariant == Spec => []DagInv
<1>1. Init => DagInv
  <2> SUFFICES ASSUME Init PROVE DagInv
    OBVIOUS
  <2>1. TypeOK
    BY TypeInit
  <2>2. SearchInv /\ OrderInv /\ PhaseInv
    BY DEF Init, SearchInv, OrderInv, PhaseInv
  <2> QED
    BY <2>1, <2>2 DEF DagInv
<1>2. DagInv /\ [Next]_vars => DagInv'
  BY TypeStep, SearchStep, OrderStep, PhaseStep DEF DagInv
<1> QED
  BY <1>1, <1>2, PTL DEF Spec

\* "records are in reverse topological order", for every shader: init() gives
\* every implemented function an index greater than those of its callees.
THEOREM OrderCorrect == Spec => []ReverseTopological
<1>1. DagInv => ReverseTopological
  BY DEF DagInv, OrderInv, PhaseInv, ReverseTopological
<1> QED
  BY <1>1, DagInvariant, PTL

\* Smaller indices for callees leave no room for a circle.
LEMMA OrderedIsAcyclic ==
  ASSUME TypeOK, ReverseTopological, result = "SUCCESS"
  PROVE  ~Recursive
<1> SUFFICES ASSUME NEW S \in SUBSET definitionNode, S # {}, \A f \in S : callees[f] \cap S # {}
             PROVE  FALSE
  BY DEF Recursive
<1>1. S \subseteq Functions /\ index \in [Functions -> Nat]
  BY DEF TypeOK
<1> DEFINE Indices == {index[f] : f \in S}
<1>2. Indices \subseteq Nat /\ Indices # {}
  BY <1>1
<1>3. PICK m \in Indices : \A n \in Indices : m <= n
  <2> HIDE DEF Indices
  <2> QED
    BY Zenon, <1>2, LeastElement
<1>4. PICK f \in S : index[f] = m
  OBVIOUS
<1>5. PICK g \in S : g \in callees[f]
  OBVIOUS
<1>6. index[g] < index[f]
  BY <1>5 DEF ReverseTopological
<1>7. index[f] <= index[g] /\ index[f] \in Nat /\ index[g] \in Nat
  BY <1>1, <1>3, <1>4
<1> QED
  BY <1>6, <1>7

\* init() fails exactly for shaders with recursion or a call to a function without
\* a body, and the fault it names is there, for every set of functions and every
\* order in which the search meets them.
THEOREM FaultsCorrect == Spec => []FaultsFound
<1>1. DagInv => FaultsFound
  <2> SUFFICES ASSUME DagInv, result # "none" PROVE FaultsFound
    BY DEF FaultsFound
  <2>1. result \in {"SUCCESS", "RECURSION", "UNDEFINED"}
    BY DEF DagInv, TypeOK
  <2>2. (result = "RECURSION" => Recursive) /\ (result = "UNDEFINED" => CallsUndefined)
    BY DEF DagInv, PhaseInv
  <2>3. ASSUME result = "SUCCESS" PROVE ~Recursive /\ ~CallsUndefined
    <3>1. ReverseTopological
      BY DEF DagInv, OrderInv, PhaseInv, ReverseTopological
    <3> QED
      BY <2>3, <3>1, OrderedIsAcyclic DEF DagInv, ReverseTopological, CallsUndefined
  <2> QED
    BY <2>1, <2>2, <2>3 DEF FaultsFound
<1> QED
  BY <1>1, DagInvariant, PTL

-----------------------------------------------------------------------------
(* Tagging and pruning                                                     *)

\* The record at the index of a function is the function's.
LEMMA RecordOfIndex ==
  ASSUME OrderInv, NEW f \in indexAssigned
  PROVE  record(index[f]) = f
BY DEF OrderInv, record

LEMMA TagStep == DagInv /\ TagInv /\ [Next]_vars => TagInv'
<1> SUFFICES ASSUME DagInv, TagInv, [Next]_vars PROVE TagInv'
  OBVIOUS
<1>1. ASSUME NEW i \in pending, internalTagUsedFunction(i) PROVE TagInv'
  <2>1. /\ pc = "tagging" /\ pc' = "tagging" /\ used' = used \cup {i}
        /\ pending' = (pending \ {i}) \cup (IF i \in used THEN {} ELSE calleeIndices(i))
        /\ UNCHANGED <<index, indexAssigned, definitionNode, callees, ast>>
    BY <1>1 DEF internalTagUsedFunction, creatorVars, indexVars
  <2>2. PICK f \in indexAssigned : index[f] = i
    BY Zenon, <1>1, <2>1 DEF TagInv
  <2>3. calleeIndices(i) = {index[g] : g \in callees[f]}
    BY <2>2, RecordOfIndex DEF DagInv, calleeIndices
  <2>4. callees[f] \subseteq indexAssigned
    BY DEF DagInv, OrderInv
  <2>5. used \cup pending \subseteq used' \cup pending'
    BY <2>1
  <2>6. Main \in indexAssigned' /\ index'[Main] \in used' \cup pending'
    BY Zenon, <2>1, <2>5 DEF TagInv
  <2>7. ASSUME NEW h \in indexAssigned, index[h] \in used', NEW g \in callees[h]
        PROVE  index[g] \in used' \cup pending'
    <3>1. CASE index[h] \in used
      BY Zenon, <2>1, <2>5, <2>7, <3>1 DEF TagInv
    <3>2. CASE index[h] \notin used
      <4>1. h = f
        BY <2>1, <2>2, <2>7, <3>2 DEF DagInv, OrderInv
      <4> QED
        BY SMTT(30), <2>1, <2>2, <2>3, <2>7, <3>2, <4>1
    <3> QED
      BY <3>1, <3>2
  <2>8. ASSUME NEW j \in used' \cup pending' PROVE \E h \in indexAssigned : index[h] = j
    BY Zenon, <2>1, <2>2, <2>3, <2>4 DEF TagInv
  <2>9. ASSUME NEW S \in SUBSET Functions, Main \in S, ClosedUnderCalls(S),
               NEW h \in indexAssigned, index[h] \in used' \cup pending'
        PROVE  h \in S
    <3>1. CASE index[h] \in used \cup pending
      BY Zenon, <2>1, <2>9, <3>1 DEF TagInv
    <3>2. CASE index[h] \notin used \cup pending
      <4>1. PICK g \in callees[f] : index[h] = index[g]
        BY Zenon, <2>1, <2>3, <2>9, <3>2, <1>1
      <4>2. h = g
        BY Zenon, <2>4, <4>1 DEF DagInv, OrderInv
      <4>3. f \in S
        BY Zenon, <1>1, <2>1, <2>2, <2>9 DEF TagInv
      <4> QED
        BY <2>9, <4>1, <4>2, <4>3 DEF ClosedUnderCalls
    <3> QED
      BY <3>1, <3>2
  <2>10. \A S \in SUBSET Functions : (Main \in S /\ ClosedUnderCalls(S)) =>
           \A h \in indexAssigned : index[h] \in used' \cup pending' => h \in S
    BY <2>9
  <2>11. \A S : ClosedUnderCalls(S)' <=> ClosedUnderCalls(S)
    BY <2>1 DEF ClosedUnderCalls
  <2>12. \A S \in SUBSET Functions : (Main \in S /\ ClosedUnderCalls(S)') =>
           \A h \in indexAssigned : index[h] \in used' \cup pending' => h \in S
    BY <2>10, <2>11
  <2>13. definitionNode' \subseteq ast'
    BY Zenon, <2>1 DEF TagInv
  <2>14. \A h \in indexAssigned : index[h] \in used' =>
            \A g \in callees[h] : index[g] \in used' \cup pending'
    BY <2>7
  <2> HIDE DEF DagInv, TagInv
  <2> QED
    BY Zenon, <2>1, <2>6, <2>8, <2>12, <2>13, <2>14 DEF TagInv
<1>2. CASE tagUsedFunctions
  <2>1. /\ pc = "tag" /\ used = {} /\ pending = {} /\ used' = {}
        /\ definitionNode \subseteq ast
        /\ UNCHANGED <<index, indexAssigned, definitionNode, callees, ast>>
    BY Zenon, <1>2 DEF tagUsedFunctions, TagInv, creatorVars, indexVars
  <2>2. CASE Main \in indexAssigned
    <3>1. pc' = "tagging" /\ pending' = {index[Main]}
      BY <1>2, <2>2 DEF tagUsedFunctions
    <3>2. \A f \in indexAssigned : index[f] = index[Main] => f = Main
      BY <2>2 DEF DagInv, OrderInv
    <3> QED
      BY Zenon, <2>1, <2>2, <3>1, <3>2 DEF TagInv
  <2>3. CASE Main \notin indexAssigned
    <3>1. pc' = "done" /\ pending' = {}
      BY <1>2, <2>1, <2>3 DEF tagUsedFunctions
    <3> QED
      BY Zenon, <2>1, <3>1 DEF TagInv
  <2> QED
    BY <2>2, <2>3
<1>3. CASE pruneUnusedFunctions
  <2>1. /\ pc = "tagging" /\ pc' = "pruned" /\ pending = {}
        /\ ast' = {f \in ast : f \in indexAssigned /\ index[f] \in used}
        /\ UNCHANGED <<index, indexAssigned, definitionNode, callees, used, pending>>
    BY <1>3 DEF pruneUnusedFunctions, creatorVars, indexVars, tagVars
  <2>2. indexAssigned \subseteq ast
    BY <2>1 DEF TagInv, DagInv, TypeOK
  <2>3. ast' = {f \in indexAssigned : index[f] \in used}
    BY SMTT(30), <2>1, <2>2
  <2>4. \A S : ClosedUnderCalls(S)' <=> ClosedUnderCalls(S)
    BY <2>1 DEF ClosedUnderCalls
  <2> QED
    BY Zenon, <2>1, <2>3, <2>4 DEF TagInv
<1>4. CASE /\ UNCHANGED <<used, pending>>
           /\ pc \notin {"tagging", "pruned"} /\ pc' \notin {"tagging", "pruned"}
           /\ definitionNode' \subseteq ast'
  BY Zenon, <1>4 DEF TagInv
<1>5. CASE /\ \/ checkCallDepth \/ traceFunction \/ scanCallee \/ init
              \/ leave \/ undefinedFunction \/ alreadyAssigned \/ visit \/ pushCallee
              \/ \E limit \in BOOLEAN : fillDataStructures(limit)
              \/ \E f \in Functions : assignIndices(f)
  <2>1. /\ UNCHANGED <<used, pending, definitionNode, ast>>
        /\ pc \notin {"tagging", "pruned"} /\ pc' \notin {"tagging", "pruned"}
    BY <1>5, Zenon DEF checkCallDepth, traceFunction, scanCallee, init, leave, undefinedFunction,
         alreadyAssigned, visit, pushCallee, fillDataStructures, assignIndices, processing,
         creatorVars, tagVars
  <2> QED
    BY Zenon, <1>4, <2>1 DEF TagInv
<1>6. ASSUME NEW f \in Functions, visitFunctionPrototype(f) PROVE TagInv'
  BY Zenon, <1>4, <1>6 DEF visitFunctionPrototype, tagVars, TagInv
<1>7. ASSUME NEW f \in Functions, NEW calls \in SUBSET Functions, visitFunctionDefinition(f, calls)
      PROVE  TagInv'
  BY Zenon, <1>4, <1>7 DEF visitFunctionDefinition, tagVars, TagInv
<1>8. CASE UNCHANGED vars
  <2>1. UNCHANGED <<pc, index, indexAssigned, definitionNode, callees, used, pending, ast>>
    BY <1>8 DEF vars, creatorVars, indexVars, tagVars
  <2>2. \A S : ClosedUnderCalls(S)' <=> ClosedUnderCalls(S)
    BY <2>1 DEF ClosedUnderCalls
  <2> QED
    BY Zenon, <2>1, <2>2 DEF TagInv
<1> QED
  BY <1>1, <1>2, <1>3, <1>5, <1>6, <1>7, <1>8 DEF Next

\* Pruning keeps main and exactly the functions main may reach, in every shader.
THEOREM PruneCorrect == Spec => []PruneKeepsReachable
<1>1. Init => TagInv
  BY DEF Init, TagInv
<1>2. DagInv /\ TagInv /\ [Next]_vars => TagInv'
  BY TagStep
<1>3. DagInv /\ TagInv => PruneKeepsReachable
  <2> SUFFICES ASSUME DagInv, TagInv, pc = "pruned" PROVE PruneKeepsReachable
    BY DEF PruneKeepsReachable
  <2>1. pending = {} /\ ast = {f \in indexAssigned : index[f] \in used}
    BY DEF TagInv
  <2>2. Main \in ast
    BY <2>1 DEF TagInv
  <2>3. ClosedUnderCalls(ast)
    BY Zenon, <2>1 DEF TagInv, DagInv, OrderInv, ClosedUnderCalls
  <2>4. ASSUME NEW S \in SUBSET ast, Main \in S, ClosedUnderCalls(S) PROVE S = ast
    <3>1. S \in SUBSET Functions
      BY DEF DagInv, TypeOK
    <3>2. \A f \in indexAssigned : index[f] \in used => f \in S
      BY <2>4, <3>1 DEF TagInv
    <3> QED
      BY <2>1, <2>4, <3>2
  <2> QED
    BY <2>2, <2>3, <2>4 DEF PruneKeepsReachable
<1> QED
  BY <1>1, <1>2, <1>3, DagInvariant, PTL DEF Spec
-----------------------------------------------------------------------------
(* The call depth                                                          *)

\* The maximum of a non-empty set of naturals below a bound.
LEMMA MaxOfBounded ==
  ASSUME NEW S, S \subseteq Nat, S # {}, NEW b \in Nat, \A x \in S : x <= b
  PROVE  Max(S) \in S /\ \A x \in S : x <= Max(S)
<1> DEFINE B == {u \in Nat : \A x \in S : x <= u}
<1>1. B \subseteq Nat /\ B # {} OBVIOUS
<1>2. PICK m \in B : \A u \in B : m <= u BY Zenon, <1>1, LeastElement
<1>3. m \in S
  <2> SUFFICES ASSUME m \notin S PROVE FALSE OBVIOUS
  <2>1. PICK x \in S : TRUE BY Zenon
  <2>2. \A y \in S : y < m BY <1>2
  <2>3. m - 1 \in Nat BY <1>2, <2>1, <2>2
  <2>4. \A y \in S : y <= m - 1 BY <1>2, <2>2, <2>3
  <2>5. m - 1 \in B BY <2>3, <2>4
  <2> QED BY <1>2, <2>3, <2>5
<1>4. \E x \in S : \A y \in S : x >= y BY <1>2, <1>3
<1>5. Max(S) \in S /\ \A y \in S : Max(S) >= y BY Zenon, <1>4 DEF Max
<1> QED BY <1>5

\* One turn of checkCallDepth()'s loop: the callees' depths are known.
LEMMA DepthOfNext ==
  ASSUME DagInv, DepthInv, NEW f \in indexAssigned, index[f] = Len(depths)
  PROVE  /\ depthOf(index[f]) \in Nat /\ depthOf(index[f]) <= index[f]
         /\ \A g \in callees[f] : depths[index[g] + 1] < depthOf(index[f])
         /\ \/ depthOf(index[f]) = 0
            \/ \E g \in callees[f] : depthOf(index[f]) = depths[index[g] + 1] + 1
<1> DEFINE i == index[f]
           D == {0} \cup {depths[c + 1] + 1 : c \in calleeIndices(i)}
<1>1. calleeIndices(i) = {index[g] : g \in callees[f]} BY RecordOfIndex DEF DagInv, calleeIndices
<1>2. depths \in Seq(Nat) /\ Len(depths) \in Nat /\ i \in Nat BY DEF DepthInv
<1>3. ASSUME NEW g \in callees[f]
      PROVE  /\ index[g] \in Nat /\ index[g] < i
             /\ depths[index[g] + 1] \in Nat /\ depths[index[g] + 1] <= index[g]
  <2>1. g \in indexAssigned /\ index[g] < i BY DEF DagInv, OrderInv
  <2>2. index[g] \in Nat BY <2>1 DEF DagInv, TypeOK
  <2>3. DeepestCall(g) BY <2>1 DEF DepthInv
  <2>4. depths[index[g] + 1] \in Nat BY <1>2, <2>1, <2>2
  <2> QED BY <2>1, <2>2, <2>3, <2>4 DEF DeepestCall
<1>4. ASSUME NEW x \in D PROVE x \in Nat /\ x <= i
  <2>1. CASE x = 0 BY <1>2, <2>1
  <2>2. CASE x # 0
    <3>1. PICK g \in callees[f] : x = depths[index[g] + 1] + 1 BY <1>1, <2>2
    <3>2. PICK d \in Nat : d = depths[index[g] + 1] /\ d < i
      <4>1. /\ index[g] \in Nat /\ index[g] < i
            /\ depths[index[g] + 1] \in Nat /\ depths[index[g] + 1] <= index[g]
        BY <1>3
      <4> QED BY <1>2, <4>1
    <3>3. i \in Nat /\ x = d + 1 BY Zenon, <1>2, <3>1, <3>2
    <3> QED BY <3>2, <3>3
  <2> QED BY <2>1, <2>2
<1>5. \A g \in callees[f] : depths[index[g] + 1] + 1 \in D BY <1>1
<1>6. \A x \in D : x = 0 \/ \E g \in callees[f] : x = depths[index[g] + 1] + 1 BY <1>1
<1>7. depthOf(i) = Max(D) BY DEF depthOf
<1>8. 0 \in D OBVIOUS
<1> HIDE DEF D
<1>9. D \subseteq Nat /\ D # {} /\ \A x \in D : x <= i BY <1>4, <1>8
<1>10. Max(D) \in D /\ \A x \in D : x <= Max(D) BY Zenon, <1>2, <1>9, MaxOfBounded
<1>11. ASSUME NEW g \in callees[f] PROVE depths[index[g] + 1] < Max(D)
  <2>1. Max(D) \in Nat /\ depths[index[g] + 1] + 1 <= Max(D) BY Zenon, <1>5, <1>9, <1>10
  <2> QED BY <1>3, <2>1
<1> QED BY <1>4, <1>6, <1>7, <1>10, <1>11

LEMMA DepthFrame ==
  ASSUME DepthInv, UNCHANGED <<callees, index, indexAssigned, mCurrentIndex, depths>>,
         pc \in {"traverse", "assign"} \/ pc' \notin {"traverse", "assign"}
  PROVE  DepthInv'
BY DEF DepthInv, DeepestCall

LEMMA DepthStep == DagInv /\ DepthInv /\ [Next]_vars => DepthInv'
<1> SUFFICES ASSUME DagInv, DepthInv, [Next]_vars PROVE DepthInv' OBVIOUS
<1>1. CASE checkCallDepth
  <2>0. /\ pc = "depth" /\ pc' \notin {"traverse", "assign"}
        /\ UNCHANGED <<callees, index, indexAssigned, mCurrentIndex>>
    BY <1>1 DEF checkCallDepth, creatorVars, indexVars
  <2>1. CASE depths' = depths BY <2>0, <2>1, DepthFrame
  <2>2. CASE Len(depths) # mCurrentIndex /\ depths' = Append(depths, depthOf(Len(depths)))
    <3>1. depths \in Seq(Nat) /\ Len(depths) \in Nat /\ mCurrentIndex \in Nat /\ Len(depths) < mCurrentIndex
      BY <2>2 DEF DepthInv, DagInv, TypeOK
    <3>2. PICK f \in indexAssigned : index[f] = Len(depths) BY <3>1 DEF DepthInv
    <3>3. PICK d : d = depthOf(Len(depths)) OBVIOUS
    <3>4. /\ d \in Nat /\ d <= index[f] /\ \A g \in callees[f] : depths[index[g] + 1] < d
          /\ d = 0 \/ \E g \in callees[f] : d = depths[index[g] + 1] + 1
      BY Zenon, <3>2, <3>3, DepthOfNext
    <3>5. /\ depths' \in Seq(Nat) /\ Len(depths') = Len(depths) + 1
          /\ depths'[Len(depths) + 1] = d
          /\ \A k \in 1..Len(depths) : depths'[k] = depths[k]
      BY <2>2, <3>1, <3>3, <3>4
    <3>6. ASSUME NEW g \in indexAssigned, index[g] < Len(depths)
          PROVE  depths'[index[g] + 1] = depths[index[g] + 1]
      <4>1. index[g] \in Nat BY DEF DagInv, TypeOK
      <4>2. index[g] + 1 \in 1..Len(depths) BY <3>1, <3>6, <4>1
      <4> QED BY Zenon, <3>5, <4>2
    <3>7. ASSUME NEW h \in indexAssigned, index[h] < Len(depths') PROVE DeepestCall(h)'
      <4>0. index[h] \in Nat BY DEF DagInv, TypeOK
      <4>1. ASSUME NEW g \in callees[h] PROVE g \in indexAssigned /\ index[g] < index[h]
        BY DEF DagInv, OrderInv
      <4>2. CASE index[h] < Len(depths)
        <5>1. \A g \in callees[h] : depths'[index[g] + 1] = depths[index[g] + 1]
          <6> TAKE g \in callees[h]
          <6>1. g \in indexAssigned /\ index[g] < index[h] /\ index[g] \in Nat BY <4>1 DEF DagInv, TypeOK
          <6> QED BY <3>1, <3>6, <4>0, <4>2, <6>1
        <5>2. depths'[index[h] + 1] = depths[index[h] + 1] BY <3>6, <4>2
        <5>3. DeepestCall(h) BY <4>2 DEF DepthInv
        <5> QED BY Zenon, <2>0, <5>1, <5>2, <5>3 DEF DeepestCall
      <4>3. CASE ~(index[h] < Len(depths))
        <5>1. index[h] = Len(depths) BY <3>1, <3>5, <3>7, <4>0, <4>3
        <5>2. h = f BY <3>2, <5>1 DEF DagInv, OrderInv
        <5>3. \A g \in callees[f] : depths'[index[g] + 1] = depths[index[g] + 1]
          BY <3>2, <3>6, <4>1, <5>2
        <5>4. depths'[index[f] + 1] = d BY <3>2, <3>5
        <5> QED BY Zenon, <2>0, <3>4, <5>2, <5>3, <5>4 DEF DeepestCall
      <4> QED BY <4>2, <4>3
    <3>8. Len(depths') <= mCurrentIndex BY <3>1, <3>5
    <3>9. \A i \in 0..(mCurrentIndex - 1) : \E h \in indexAssigned : index[h] = i BY Zenon DEF DepthInv
    <3> QED BY Zenon, <2>0, <3>5, <3>7, <3>8, <3>9 DEF DepthInv
  <2> QED BY <1>1, <2>1, <2>2 DEF checkCallDepth, depthVars
<1>2. CASE leave
  <2>1. /\ pc = "assign" /\ pc' = "assign" /\ depths' = depths /\ depths = <<>>
        /\ index' = [index EXCEPT ![function] = mCurrentIndex] /\ mCurrentIndex' = mCurrentIndex + 1
        /\ indexAssigned' = indexAssigned \cup {function}
    BY <1>2 DEF leave, processing, depthVars, DepthInv
  <2>2. /\ function \notin indexAssigned /\ function \in Functions /\ indexAssigned \subseteq Functions
        /\ mCurrentIndex \in Nat /\ index \in [Functions -> Nat]
    BY <1>2 DEF leave, DagInv, TypeOK
  <2>3. ASSUME NEW i \in 0..(mCurrentIndex' - 1) PROVE \E f \in indexAssigned' : index'[f] = i
    <3>1. CASE i = mCurrentIndex BY <2>1, <2>2, <3>1
    <3>2. CASE i # mCurrentIndex
      <4>1. i \in 0..(mCurrentIndex - 1) BY <2>1, <2>2, <2>3, <3>2
      <4>2. PICK f \in indexAssigned : index[f] = i BY <4>1 DEF DepthInv
      <4> QED BY <2>1, <2>2, <4>2
    <3> QED BY <3>1, <3>2
  <2>4. depths' \in Seq(Nat) /\ Len(depths') = 0 BY <2>1
  <2>5. \A f \in indexAssigned' : ~(index'[f] < 0)
    <3>1. index' \in [Functions -> Nat] /\ indexAssigned' \subseteq Functions BY <2>1, <2>2
    <3> QED BY <3>1
  <2>6. Len(depths') <= mCurrentIndex' BY <2>1, <2>2, <2>4
  <2> QED BY <2>1, <2>3, <2>4, <2>5, <2>6 DEF DepthInv
<1>3. ASSUME NEW f \in Functions, NEW calls \in SUBSET Functions, visitFunctionDefinition(f, calls)
      PROVE  DepthInv'
  <2>1. /\ indexAssigned = {} /\ depths = <<>>
        /\ UNCHANGED <<pc, index, indexAssigned, mCurrentIndex, depths>>
    BY <1>3 DEF visitFunctionDefinition, indexVars, depthVars, DagInv, PhaseInv, DepthInv
  <2> QED BY <2>1 DEF DepthInv
<1>4. CASE traceFunction \/ scanCallee \/ tagUsedFunctions \/ pruneUnusedFunctions
           \/ \E i \in pending : internalTagUsedFunction(i)
  <2>1. UNCHANGED <<callees, index, indexAssigned, mCurrentIndex>> /\ pc' \notin {"traverse", "assign"}
    BY <1>4, LateFrame DEF LateStep, creatorVars, indexVars
  <2>2. depths' = depths
    BY Zenon, <1>4 DEF traceFunction, scanCallee, tagUsedFunctions, pruneUnusedFunctions,
                       internalTagUsedFunction, depthVars
  <2> QED BY <2>1, <2>2, DepthFrame
<1>5. CASE \/ init \/ undefinedFunction \/ alreadyAssigned \/ visit \/ pushCallee
           \/ \E limit \in BOOLEAN : fillDataStructures(limit)
           \/ \E f \in Functions : visitFunctionPrototype(f) \/ assignIndices(f)
           \/ UNCHANGED vars
  <2>1. UNCHANGED <<callees, index, indexAssigned, mCurrentIndex, depths>>
    BY Zenon, <1>5 DEF init, undefinedFunction, alreadyAssigned, visit, pushCallee,
         fillDataStructures, visitFunctionPrototype, assignIndices, vars, creatorVars, indexVars, depthVars
  <2>2. pc \in {"traverse", "assign"} \/ pc' = pc
    BY Zenon, <1>5 DEF init, undefinedFunction, alreadyAssigned, visit, pushCallee, processing,
         fillDataStructures, visitFunctionPrototype, assignIndices, vars
  <2> QED BY <2>1, <2>2, DepthFrame
<1> QED BY <1>1, <1>2, <1>3, <1>4, <1>5 DEF Next

\* A sequence of functions that is no longer than their number and whose members
\* call one another is one of the chains.
LEMMA ChainFacts ==
  ASSUME NEW p
  PROVE  /\ Cardinality(Functions) \in Nat
         /\ p \in CallChains <=> /\ p \in Seq(Functions) /\ Len(p) \in 1..Cardinality(Functions)
                                 /\ IsCallChain(p)
<1>1. Cardinality(Functions) \in Nat BY FunctionsAssumption, FS_CardinalityType
<1>2. ASSUME NEW n \in 1..Cardinality(Functions), p \in [1..n -> Functions]
      PROVE  p \in Seq(Functions) /\ Len(p) = n
  <2>1. n \in Nat BY <1>1
  <2>2. p \in Seq(Functions) BY <1>2, <2>1, SeqDef
  <2> QED BY <1>2, <2>1, <2>2
<1>3. ASSUME p \in Seq(Functions), Len(p) \in 1..Cardinality(Functions)
      PROVE  p \in [1..Len(p) -> Functions]
  BY <1>3, LenProperties
<1> QED BY <1>1, <1>2, <1>3 DEF CallChains

LEMMA DepthType ==
  ASSUME DagInv, DepthInv, NEW f \in indexAssigned, index[f] < Len(depths)
  PROVE  depths[index[f] + 1] \in Nat
<1>1. index[f] \in Nat BY DEF DagInv, TypeOK
<1>2. depths \in Seq(Nat) BY DEF DepthInv
<1>3. index[f] + 1 \in 1..Len(depths) BY <1>1, <1>2
<1> QED BY <1>2, <1>3

\* No chain of calls is longer than the depth says.
LEMMA DepthBounds ==
  ASSUME DagInv, DepthInv, NEW q \in Seq(Functions), Len(q) >= 1, IsCallChain(q),
         q[1] \in indexAssigned, index[q[1]] < Len(depths)
  PROVE  Len(q) - 1 <= depths[index[q[1]] + 1]
<1> DEFINE Bad(p) == /\ p \in Seq(Functions) /\ Len(p) >= 1 /\ IsCallChain(p)
                     /\ p[1] \in indexAssigned /\ index[p[1]] < Len(depths)
                     /\ ~(Len(p) - 1 <= depths[index[p[1]] + 1])
           Lengths == {n \in Nat : \E p : Bad(p) /\ Len(p) = n}
<1> SUFFICES ASSUME Bad(q) PROVE FALSE OBVIOUS
<1>1. Len(q) \in Lengths BY LenProperties
<1>2. PICK m \in Lengths : \A n \in Lengths : m <= n
  <2>1. Lengths \subseteq Nat /\ Lengths # {} BY Zenon, <1>1
  <2> QED BY Zenon, <2>1, LeastElement
<1>3. PICK p : Bad(p) /\ Len(p) = m BY Zenon, <1>2
<1>4. m \in Nat /\ m >= 1 BY Zenon, <1>2, <1>3
<1>5. PICK f \in indexAssigned : f = p[1] BY <1>3
<1>6. PICK d \in Nat : d = depths[index[f] + 1] /\ ~(m - 1 <= d)
  <2>1. index[f] < Len(depths) /\ ~(m - 1 <= depths[index[f] + 1]) BY Zenon, <1>3, <1>5
  <2>2. depths[index[f] + 1] \in Nat BY Zenon, <2>1, DepthType
  <2> QED BY Zenon, <2>1, <2>2
<1>7. m >= 2 BY <1>4, <1>6
<1>8. PICK g : g = p[2] /\ g \in callees[f]
  <2>1. IsCallChain(p) BY <1>3
  <2>2. 1 \in 1..(Len(p) - 1) BY <1>3, <1>4, <1>7
  <2>3. p[1 + 1] \in callees[p[1]] BY Zenon, <2>1, <2>2 DEF IsCallChain
  <2> QED BY <1>5, <2>3
<1>9. /\ g \in indexAssigned /\ index[g] < index[f] /\ index[g] < Len(depths)
      /\ index[g] \in Nat /\ depths[index[g] + 1] \in Nat /\ depths[index[g] + 1] < d
  <2>1. g \in indexAssigned /\ index[g] < index[f] BY <1>8 DEF DagInv, OrderInv
  <2>2. index[g] \in Nat /\ index[f] \in Nat BY <2>1 DEF DagInv, TypeOK
  <2>3. Len(depths) \in Nat BY DEF DepthInv
  <2>4. index[f] < Len(depths) BY Zenon, <1>3, <1>5
  <2>5. DeepestCall(f) BY <2>4 DEF DepthInv
  <2>6. depths[index[g] + 1] < d BY <1>6, <1>8, <2>5 DEF DeepestCall
  <2>7. index[g] < Len(depths) BY <2>1, <2>2, <2>3, <2>4
  <2>8. depths[index[g] + 1] \in Nat BY Zenon, <2>1, <2>7, DepthType
  <2> QED BY Zenon, <2>1, <2>2, <2>6, <2>7, <2>8
<1>10. PICK t : t = Tail(p) BY Zenon
<1>11. /\ t \in Seq(Functions) /\ Len(t) = m - 1 /\ \A i \in 1..(m - 1) : t[i] = p[i + 1]
  <2>1. p \in Seq(Functions) /\ p # <<>> BY <1>3, <1>4
  <2>2. /\ Tail(p) \in Seq(Functions) /\ Len(Tail(p)) = Len(p) - 1
        /\ \A i \in 1..Len(Tail(p)) : Tail(p)[i] = p[i + 1]
    BY Zenon, <2>1, HeadTailProperties
  <2> QED BY <1>3, <1>10, <2>2
<1>12. IsCallChain(t)
  <2> SUFFICES ASSUME NEW k \in 1..(Len(t) - 1) PROVE t[k + 1] \in callees[t[k]] BY DEF IsCallChain
  <2>0. k \in 1..(m - 2) BY <1>4, <1>11
  <2>a. m \in Nat /\ k \in Nat /\ 1 <= k /\ k <= m - 2
    <3>1. k \in Nat /\ 1 <= k /\ k <= m - 2 BY <2>0
    <3> QED BY Zenon, <1>4, <3>1
  <2>1. k \in 1..(m - 1) /\ k + 1 \in 1..(m - 1) BY <2>a
  <2>2. IsCallChain(p) /\ k + 1 \in 1..(Len(p) - 1) BY Zenon, <1>3, <2>1
  <2>3. p[k + 1 + 1] \in callees[p[k + 1]] BY Zenon, <2>2 DEF IsCallChain
  <2>4. t[k] = p[k + 1] /\ t[k + 1] = p[k + 1 + 1] BY <1>11, <2>1
  <2> QED BY <2>3, <2>4
<1>13. t[1] = g BY <1>4, <1>7, <1>8, <1>11
<1>14. ~(Len(t) - 1 <= depths[index[g] + 1])
  <2>1. PICK e \in Nat : e = depths[index[g] + 1] /\ e < d BY Zenon, <1>9
  <2>2. d \in Nat /\ m \in Nat /\ ~(m - 1 <= d) BY Zenon, <1>4, <1>6
  <2>3. ~(m - 1 - 1 <= e) BY <2>1, <2>2
  <2>4. Len(t) = m - 1 BY Zenon, <1>11
  <2> QED BY Zenon, <2>1, <2>3, <2>4
<1>15. Bad(t) BY <1>4, <1>7, <1>9, <1>11, <1>12, <1>13, <1>14
<1>16. m - 1 \in Nat BY <1>4
<1>17. m - 1 \in Lengths BY Zenon, <1>11, <1>15, <1>16
<1>18. m <= m - 1 BY Zenon, <1>2, <1>17
<1> QED BY <1>4, <1>18

\* A chain of calls of the depth the record says.
DeepChain(f, p) ==
  /\ p \in Seq(Functions) /\ IsCallChain(p) /\ Len(p) = depths[index[f] + 1] + 1 /\ p[1] = f
  /\ \A i \in 1..Len(p) : p[i] \in indexAssigned /\ index[p[i]] <= index[f]
  /\ \A i, j \in 1..Len(p) : p[i] = p[j] => i = j

\* A function in front of a chain of calls from one of its callees.
LEMMA LongerChain ==
  ASSUME DagInv, NEW f \in indexAssigned, NEW g \in callees[f], NEW q, DeepChain(g, q),
         depths[index[g] + 1] \in Nat, depths[index[f] + 1] = depths[index[g] + 1] + 1
  PROVE  DeepChain(f, <<f>> \o q)
<1>0. /\ q \in Seq(Functions) /\ IsCallChain(q) /\ Len(q) = depths[index[g] + 1] + 1 /\ q[1] = g
      /\ \A i \in 1..Len(q) : q[i] \in indexAssigned /\ index[q[i]] <= index[g]
      /\ \A i, j \in 1..Len(q) : q[i] = q[j] => i = j
  BY DEF DeepChain
<1>1. PICK m \in Nat : m = Len(q) /\ m >= 1 BY <1>0
<1>2. f \in Functions /\ g \in indexAssigned /\ index[g] < index[f] /\ index[f] \in Nat /\ index[g] \in Nat
  <2>1. g \in indexAssigned /\ index[g] < index[f] BY DEF DagInv, OrderInv
  <2> QED BY <2>1 DEF DagInv, TypeOK
<1>3. PICK p : p = <<f>> \o q BY Zenon
<1>4. /\ p \in Seq(Functions) /\ Len(p) = m + 1 /\ p[1] = f
      /\ \A i \in 1..m : p[i + 1] = q[i]
  <2>1. <<f>> \in Seq(Functions) /\ Len(<<f>>) = 1 /\ <<f>>[1] = f BY <1>2
  <2>2. /\ p \in Seq(Functions) /\ Len(p) = 1 + Len(q)
        /\ \A i \in 1..(1 + Len(q)) : p[i] = IF i <= 1 THEN <<f>>[i] ELSE q[i - 1]
    BY <1>0, <1>3, <2>1, ConcatProperties
  <2>3. p[1] = f BY <1>1, <2>1, <2>2
  <2>4. ASSUME NEW i \in 1..m PROVE p[i + 1] = q[i]
    <3>1. i + 1 \in 1..(1 + Len(q)) /\ ~(i + 1 <= 1) /\ (i + 1) - 1 = i BY <1>1
    <3>2. p[i + 1] = q[(i + 1) - 1] BY Zenon, <2>2, <3>1
    <3> QED BY <3>1, <3>2
  <2> QED BY <1>1, <2>2, <2>3, <2>4
<1>5. ASSUME NEW k \in 1..(m + 1), k # 1 PROVE k - 1 \in 1..m /\ p[k] = q[k - 1]
  <2>1. k - 1 \in 1..m /\ (k - 1) + 1 = k BY <1>5
  <2>2. p[(k - 1) + 1] = q[k - 1] BY Zenon, <1>4, <2>1
  <2> QED BY <2>1, <2>2
<1>6. IsCallChain(p)
  <2> SUFFICES ASSUME NEW k \in 1..m PROVE p[k + 1] \in callees[p[k]] BY <1>4 DEF IsCallChain
  <2>1. p[k + 1] = q[k] BY <1>4
  <2>2. CASE k = 1 BY <1>0, <1>4, <2>1, <2>2
  <2>3. CASE k # 1
    <3>1. k \in 1..(m + 1) OBVIOUS
    <3>2. k - 1 \in 1..m /\ p[k] = q[k - 1] BY Zenon, <1>5, <2>3, <3>1
    <3>3. k - 1 \in 1..(Len(q) - 1) /\ (k - 1) + 1 = k BY <1>1, <3>2
    <3>4. q[(k - 1) + 1] \in callees[q[k - 1]] BY Zenon, <1>0, <3>3 DEF IsCallChain
    <3> QED BY <2>1, <3>2, <3>3, <3>4
  <2> QED BY <2>2, <2>3
<1>7. ASSUME NEW k \in 1..(m + 1), k # 1 PROVE p[k] \in indexAssigned /\ index[p[k]] < index[f]
  <2>1. k - 1 \in 1..Len(q) /\ p[k] = q[k - 1] BY <1>1, <1>5, <1>7
  <2>2. p[k] \in indexAssigned /\ index[p[k]] <= index[g] BY <1>0, <2>1
  <2>3. index[p[k]] \in Nat BY <2>2 DEF DagInv, TypeOK
  <2> QED BY <1>2, <2>2, <2>3
<1>8. ASSUME NEW k \in 1..(m + 1) PROVE p[k] \in indexAssigned /\ index[p[k]] <= index[f]
  <2>1. CASE k = 1 BY <1>2, <1>4, <2>1
  <2>2. CASE k # 1
    <3>1. p[k] \in indexAssigned /\ index[p[k]] < index[f] BY <1>7, <2>2
    <3>2. index[p[k]] \in Nat BY <3>1 DEF DagInv, TypeOK
    <3> QED BY <1>2, <3>1, <3>2
  <2> QED BY <2>1, <2>2
<1>9. ASSUME NEW i \in 1..(m + 1), NEW j \in 1..(m + 1), p[i] = p[j] PROVE i = j
  <2>1. CASE i = 1 /\ j = 1 BY <2>1
  <2>2. CASE i = 1 /\ j # 1
    <3>1. index[f] < index[f] BY <1>4, <1>7, <1>9, <2>2
    <3> QED BY <1>2, <3>1
  <2>3. CASE i # 1 /\ j = 1
    <3>1. index[f] < index[f] BY <1>4, <1>7, <1>9, <2>3
    <3> QED BY <1>2, <3>1
  <2>4. CASE i # 1 /\ j # 1
    <3>1. i - 1 \in 1..Len(q) /\ j - 1 \in 1..Len(q) /\ q[i - 1] = q[j - 1] BY <1>1, <1>5, <1>9, <2>4
    <3>2. i - 1 = j - 1 BY Zenon, <1>0, <3>1
    <3> QED BY <3>2
  <2> QED BY <2>1, <2>2, <2>3, <2>4
<1>10. Len(p) = depths[index[f] + 1] + 1 BY <1>0, <1>1, <1>4
<1>11. DeepChain(f, p) BY Zenon, <1>4, <1>6, <1>8, <1>9, <1>10 DEF DeepChain
<1> QED BY <1>3, <1>11

\* The depth is reached by a chain of calls that visits no function twice.
LEMMA DepthReached ==
  ASSUME DagInv, DepthInv, NEW h \in indexAssigned, index[h] < Len(depths)
  PROVE  \E p : DeepChain(h, p)
<1> DEFINE Bad(f) == f \in indexAssigned /\ index[f] < Len(depths) /\ ~\E p : DeepChain(f, p)
           Indices == {n \in Nat : \E f : Bad(f) /\ index[f] = n}
<1> SUFFICES ASSUME Bad(h) PROVE FALSE OBVIOUS
<1>i. \A f \in indexAssigned : index[f] \in Nat /\ f \in Functions BY DEF DagInv, TypeOK
<1>1. index[h] \in Indices BY <1>i
<1>2. PICK m \in Indices : \A n \in Indices : m <= n
  <2>1. Indices \subseteq Nat /\ Indices # {} BY Zenon, <1>1
  <2> QED BY Zenon, <2>1, LeastElement
<1>3. PICK f : Bad(f) /\ index[f] = m BY <1>2
<1>4. DeepestCall(f) BY <1>3 DEF DepthInv
<1>5. CASE depths[index[f] + 1] = 0
  <2>1. PICK p : p = <<f>> BY Zenon
  <2>2. p \in Seq(Functions) /\ Len(p) = 1 /\ p[1] = f BY <1>3, <1>i, <2>1
  <2>3. IsCallChain(p) BY <2>2 DEF IsCallChain
  <2>4. \A i \in 1..1 : i = 1 OBVIOUS
  <2>5. index[f] <= index[f] BY <1>3, <1>i
  <2>6. \A i \in 1..Len(p) : p[i] \in indexAssigned /\ index[p[i]] <= index[f] BY Zenon, <1>3, <2>2, <2>4, <2>5
  <2>7. \A i, j \in 1..Len(p) : p[i] = p[j] => i = j BY Zenon, <2>2, <2>4
  <2>8. Len(p) = depths[index[f] + 1] + 1 BY <1>5, <2>2
  <2>9. DeepChain(f, p) BY Zenon, <2>2, <2>3, <2>6, <2>7, <2>8 DEF DeepChain
  <2> QED BY <1>3, <2>9
<1>6. ASSUME NEW g \in callees[f], depths[index[f] + 1] = depths[index[g] + 1] + 1 PROVE FALSE
  <2>1. g \in indexAssigned /\ index[g] < index[f] BY <1>3 DEF DagInv, OrderInv
  <2>2. index[g] \in Nat /\ index[f] \in Nat /\ Len(depths) \in Nat BY <1>3, <1>i, <2>1 DEF DepthInv
  <2>3. index[g] < Len(depths) BY <1>3, <2>1, <2>2
  <2>4. ~Bad(g)
    <3> SUFFICES ASSUME Bad(g) PROVE FALSE OBVIOUS
    <3>1. index[g] \in Indices BY <2>2
    <3>2. m <= index[g] BY <1>2, <3>1
    <3> QED BY <1>3, <2>1, <2>2, <3>2
  <2>5. PICK q : DeepChain(g, q) BY Zenon, <2>1, <2>3, <2>4
  <2>6. depths[index[g] + 1] \in Nat BY <2>2, <2>3 DEF DepthInv
  <2>7. DeepChain(f, <<f>> \o q) BY Zenon, <1>3, <1>6, <2>5, <2>6, LongerChain
  <2> QED BY <1>3, <2>7
<1> QED BY <1>4, <1>5, <1>6 DEF DeepestCall

\* The depth checkCallDepth() records for a function is the length of the longest
\* chain of calls from it, in every shader without recursion.
THEOREM DepthCorrect == Spec => []CallDepthExact
<1>1. Init => DepthInv BY DEF Init, DepthInv
<1>2. DagInv /\ DepthInv /\ [Next]_vars => DepthInv' BY DepthStep
<1>3. DagInv /\ DepthInv => CallDepthExact
  <2> SUFFICES ASSUME DagInv, DepthInv, NEW k \in DOMAIN depths
               PROVE  depths[k] = Max({Len(p) - 1 : p \in {q \in CallChains : q[1] = record(k - 1)}})
    BY DEF CallDepthExact
  <2>1. /\ depths \in Seq(Nat) /\ Len(depths) \in Nat /\ mCurrentIndex \in Nat
        /\ Len(depths) <= mCurrentIndex /\ k \in 1..Len(depths)
    BY DEF DepthInv, DagInv, TypeOK
  <2>2. k - 1 \in 0..(mCurrentIndex - 1) /\ (k - 1) + 1 = k /\ k - 1 < Len(depths) BY <2>1
  <2>3. PICK f \in indexAssigned : index[f] = k - 1 BY <2>2 DEF DepthInv
  <2>4. record(k - 1) = f BY <2>3, RecordOfIndex DEF DagInv
  <2>5. index[f] < Len(depths) /\ depths[index[f] + 1] = depths[k] /\ depths[k] \in Nat BY <2>1, <2>2, <2>3
  <2> DEFINE S == {Len(p) - 1 : p \in {q \in CallChains : q[1] = f}}
  <2>6. depths[k] \in S
    <3>1. PICK p : DeepChain(f, p) BY Zenon, <2>5, DepthReached
    <3>2. /\ p \in Seq(Functions) /\ IsCallChain(p) /\ Len(p) = depths[k] + 1 /\ p[1] = f
          /\ \A i, j \in 1..Len(p) : p[i] = p[j] => i = j
      BY Zenon, <2>5, <3>1 DEF DeepChain
    <3>3. Len(p) \in Nat /\ Len(p) >= 1 BY <2>5, <3>2
    <3>4. Len(p) <= Cardinality(Functions)
      <4>1. p \in [1..Len(p) -> Functions] BY <3>2, LenProperties
      <4>2. p \in Injection(1..Len(p), Functions) BY <3>2, <4>1 DEF Injection, IsInjective
      <4>3. Cardinality(1..Len(p)) <= Cardinality(Functions) BY Zenon, <4>2, FS_Injection, FunctionsAssumption
      <4>4. Cardinality(1..Len(p)) = Len(p) BY <3>3, FS_Interval
      <4> QED BY <4>3, <4>4
    <3>5. p \in CallChains BY <3>2, <3>3, <3>4, ChainFacts
    <3>6. Len(p) - 1 = depths[k] BY <2>5, <3>2
    <3> QED BY <3>2, <3>5, <3>6
  <2>7. ASSUME NEW x \in S PROVE x \in Nat /\ x <= depths[k]
    <3>1. PICK p \in CallChains : p[1] = f /\ x = Len(p) - 1 OBVIOUS
    <3>2. p \in Seq(Functions) /\ Len(p) \in 1..Cardinality(Functions) /\ IsCallChain(p) BY ChainFacts
    <3>3. Len(p) \in Nat /\ Len(p) >= 1 BY <3>2, ChainFacts
    <3>4. Len(p) - 1 <= depths[index[p[1]] + 1] BY <2>5, <3>1, <3>2, <3>3, DepthBounds
    <3> QED BY <2>5, <3>1, <3>3, <3>4
  <2> HIDE DEF S
  <2>8. S \subseteq Nat /\ S # {} /\ \A x \in S : x <= depths[k] BY <2>6, <2>7
  <2>9. Max(S) \in S /\ depths[k] <= Max(S) BY Zenon, <2>5, <2>6, <2>8, MaxOfBounded
  <2>10. Max(S) \in Nat /\ Max(S) <= depths[k] BY Zenon, <2>8, <2>9
  <2>11. depths[k] = Max(S) BY <2>5, <2>9, <2>10
  <2> QED BY Zenon, <2>4, <2>11 DEF S
<1> QED BY <1>1, <1>2, <1>3, DagInvariant, PTL DEF Spec
=============================================================================
