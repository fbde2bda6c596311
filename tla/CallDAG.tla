------------------------------ MODULE CallDAG -------------------------------
(***************************************************************************)
(* The call graph of a shader and what TCompiler derives from it           *)
(* (src/src/compiler/translator/CallDAG.cpp and Compiler.cpp): records in  *)
(* reverse topological order, the call depth, and the removal of unused    *)
(* functions.                                                              *)
(*                                                                         *)
(* A function stands for its CreatorFunctionData; the order of Functions   *)
(* is the order of their addresses, in which a std::set of callees is      *)
(* walked.  mFunctions is walked by symbol id, which grows in the order in *)
(* which the functions are first declared; that order is unrelated to the  *)
(* addresses.                                                              *)
(***************************************************************************)
EXTENDS Integers, Sequences, FiniteSets, FiniteSetsExt

CONSTANTS
  Functions,            \* the functions a shader may declare
  Main,                 \* the one called main
  MaxCallStackDepth,    \* mResources.MaxCallStackDepth
  MaxCallees            \* bound on the functions called by one function

ASSUME FunctionsAssumption == Functions \subseteq Nat /\ IsFiniteSet(Functions) /\ Main \in Functions

VARIABLES
  pc,                   \* the loop that is running
  mFunctions,           \* functions with a CreatorFunctionData
  uniqueId,             \* their symbol ids, 0 for the others
  definitionNode,       \* those with a definition
  callees,
  index,
  indexAssigned,        \* functions whose index is assigned
  visiting,             \* functions being visited
  mCurrentIndex,
  remaining,            \* functions assignIndices() has not come to
  functionsToProcess,
  pushing,              \* callees of the top function still to be pushed
  result,               \* InitResult, or "none"
  chain,                \* the call chain of the error message
  depths,               \* checkCallDepth(): index |-> depth, as far as computed
  trace,                \* checkCallDepth(): locals of the trace-back loop
  used,                 \* indices whose metadata says used
  pending,              \* indices internalTagUsedFunction() has still to be called for
  ast                   \* functions with a node at the top level of the tree

creatorVars == <<mFunctions, uniqueId, definitionNode, callees>>
indexVars == <<index, indexAssigned, visiting, mCurrentIndex>>
dagVars == <<remaining, functionsToProcess, pushing, result>>
depthVars == <<depths, trace>>
tagVars == <<used, pending>>
vars == <<pc, creatorVars, indexVars, dagVars, chain, depthVars, tagVars, ast>>

NoTrace == [currentFunction |-> -1, currentDepth |-> 0, nextFunction |-> -1, scan |-> {}]

Init ==
  /\ pc = "traverse"
  /\ mFunctions = {} /\ uniqueId = [f \in Functions |-> 0]
  /\ definitionNode = {} /\ callees = [f \in Functions |-> {}]
  /\ index = [f \in Functions |-> 0] /\ indexAssigned = {} /\ visiting = {} /\ mCurrentIndex = 0
  /\ remaining = {} /\ functionsToProcess = <<>> /\ pushing = {}
  /\ result = "none" /\ chain = <<>>
  /\ depths = <<>> /\ trace = NoTrace
  /\ used = {} /\ pending = {}
  /\ ast = {}

-----------------------------------------------------------------------------
(* CallDAGCreator: the traversal of the tree                               *)

\* The first declaration of f gives it its symbol and its CreatorFunctionData.
declare(f) ==
  /\ mFunctions' = mFunctions \cup {f}
  /\ uniqueId' = IF f \in mFunctions THEN uniqueId
                  ELSE [uniqueId EXCEPT ![f] = Cardinality(mFunctions) + 1]

visitFunctionPrototype(f) ==
  /\ pc = "traverse"
  /\ declare(f)
  /\ ast' = ast \cup {f}
  /\ UNCHANGED <<pc, definitionNode, callees, indexVars, dagVars, chain, depthVars, tagVars>>

\* A function is defined once and calls itself or what is declared before it.
visitFunctionDefinition(f, calls) ==
  /\ pc = "traverse"
  /\ f \notin definitionNode
  /\ calls \subseteq mFunctions \cup {f}
  /\ declare(f)
  /\ definitionNode' = definitionNode \cup {f}
  /\ callees' = [callees EXCEPT ![f] = calls]
  /\ ast' = ast \cup {f}
  /\ UNCHANGED <<pc, indexVars, dagVars, chain, depthVars, tagVars>>

\* init() after the traversal.
init ==
  /\ pc = "traverse"
  /\ pc' = "assign"
  /\ remaining' = mFunctions
  /\ UNCHANGED <<creatorVars, indexVars, functionsToProcess, pushing, result, chain, depthVars,
                 tagVars, ast>>

-----------------------------------------------------------------------------
(* CallDAGCreator: assignIndices() and assignIndicesInternal()             *)

\* The function with the least id of those left, unless unimplemented or done,
\* becomes the root of a search.
assignIndices(root) ==
  /\ pc = "assign" /\ functionsToProcess = <<>>
  /\ root \in remaining /\ \A other \in remaining : uniqueId[root] <= uniqueId[other]
  /\ remaining' = remaining \ {root}
  /\ functionsToProcess' = IF root \in definitionNode \ indexAssigned THEN <<root>> ELSE <<>>
  /\ UNCHANGED <<pc, creatorVars, indexVars, pushing, result, chain, depthVars, tagVars, ast>>

function == functionsToProcess[Len(functionsToProcess)]
processing == pc = "assign" /\ functionsToProcess # <<>> /\ pushing = {}
popped == SubSeq(functionsToProcess, 1, Len(functionsToProcess) - 1)

\* The functions being visited, in the order of the stack.
isVisiting(f) == f \in visiting
callChain(stack) == SelectSeq(stack, isVisiting)

\* Mutant of leave: indices are handed out from the top.
leaveFromTop ==
  /\ processing /\ function \in visiting
  /\ visiting' = visiting \ {function}
  /\ index' = [index EXCEPT ![function] = Cardinality(definitionNode) - 1 - mCurrentIndex]
  /\ indexAssigned' = indexAssigned \cup {function}
  /\ mCurrentIndex' = mCurrentIndex + 1
  /\ functionsToProcess' = popped
  /\ UNCHANGED <<pc, creatorVars, remaining, pushing, result, chain, depthVars, tagVars, ast>>

\* All callees of the top function have been dealt with.
leave ==
  /\ processing /\ function \in visiting
  /\ visiting' = visiting \ {function}
  /\ index' = [index EXCEPT ![function] = mCurrentIndex]
  /\ indexAssigned' = indexAssigned \cup {function}
  /\ mCurrentIndex' = mCurrentIndex + 1
  /\ functionsToProcess' = popped
  /\ UNCHANGED <<pc, creatorVars, remaining, pushing, result, chain, depthVars, tagVars, ast>>

undefinedFunction ==
  /\ processing /\ function \notin visiting \cup definitionNode
  /\ result' = "UNDEFINED" /\ pc' = "done"
  /\ chain' = callChain(functionsToProcess)
  /\ UNCHANGED <<creatorVars, indexVars, remaining, functionsToProcess, pushing, depthVars,
                 tagVars, ast>>

\* Mutant of alreadyAssigned: the function stays on the stack.
alreadyAssignedStays ==
  /\ processing /\ function \in definitionNode \ visiting /\ function \in indexAssigned
  /\ UNCHANGED vars

\* A function reached a second time.
alreadyAssigned ==
  /\ processing /\ function \in definitionNode \ visiting /\ function \in indexAssigned
  /\ functionsToProcess' = popped
  /\ UNCHANGED <<pc, creatorVars, indexVars, remaining, pushing, result, chain, depthVars,
                 tagVars, ast>>

\* The visit of the top function begins.
visit ==
  /\ processing /\ function \in definitionNode \ (visiting \cup indexAssigned)
  /\ visiting' = visiting \cup {function}
  /\ pushing' = callees[function]
  /\ UNCHANGED <<pc, creatorVars, index, indexAssigned, mCurrentIndex, remaining,
                 functionsToProcess, result, chain, depthVars, tagVars, ast>>

\* Mutant of pushCallee: does not look whether the callee is being visited.
pushCalleeUnchecked ==
  /\ pc = "assign" /\ pushing # {}
  /\ \E callee \in pushing :
       /\ functionsToProcess' = Append(functionsToProcess, callee)
       /\ pushing' = pushing \ {callee}
  /\ UNCHANGED <<pc, creatorVars, indexVars, remaining, result, chain, depthVars, tagVars, ast>>

\* Its callees are pushed; one that is being visited ends the search.
pushCallee ==
  /\ pc = "assign" /\ pushing # {}
  /\ \E callee \in pushing :
       LET stack == Append(functionsToProcess, callee) IN
         /\ \A other \in pushing : callee <= other
         /\ functionsToProcess' = stack
         /\ IF callee \in visiting
              THEN /\ result' = "RECURSION" /\ pc' = "done" /\ pushing' = {}
                   /\ chain' = callChain(stack)
              ELSE /\ pushing' = pushing \ {callee}
                   /\ UNCHANGED <<result, pc, chain>>
  /\ UNCHANGED <<creatorVars, indexVars, remaining, depthVars, tagVars, ast>>

\* assignIndices() and fillDataStructures() are done; limitCallStackDepth is a
\* compile option.
fillDataStructures(limitCallStackDepth) ==
  /\ pc = "assign" /\ functionsToProcess = <<>> /\ remaining = {}
  /\ result' = "SUCCESS"
  /\ pc' = IF limitCallStackDepth THEN "depth" ELSE "tag"
  /\ UNCHANGED <<creatorVars, indexVars, remaining, functionsToProcess, pushing, chain,
                 depthVars, tagVars, ast>>

-----------------------------------------------------------------------------
(* TCompiler: checkCallDepth()                                             *)

\* mRecords[i]
record(i) == CHOOSE f \in indexAssigned : index[f] = i
calleeIndices(i) == {index[f] : f \in callees[record(i)]}

\* Mutant of depthOf: counts only the callee with the least index.
depthOfFirst(i) ==
  IF calleeIndices(i) = {} THEN 0 ELSE depths[Min(calleeIndices(i)) + 1] + 1

depthOf(i) == Max({0} \cup {depths[c + 1] + 1 : c \in calleeIndices(i)})

checkCallDepth ==
  /\ pc = "depth"
  /\ LET i == Len(depths)
     IN  IF i = mCurrentIndex
           THEN pc' = "tag" /\ UNCHANGED <<chain, depthVars>>
           ELSE /\ depths' = Append(depths, depthOf(i))
                /\ IF depthOf(i) >= MaxCallStackDepth
                     THEN /\ pc' = "trace"
                          /\ chain' = <<record(i)>>
                          /\ trace' = [NoTrace EXCEPT !.currentFunction = i, !.currentDepth = depthOf(i)]
                     ELSE UNCHANGED <<pc, chain, trace>>
  /\ UNCHANGED <<creatorVars, indexVars, dagVars, tagVars, ast>>

\* while (currentFunction != -1): the function is printed and its callees are
\* scanned for the next one.
traceFunction ==
  /\ pc = "trace"
  /\ IF trace.currentFunction = -1
       THEN pc' = "done" /\ UNCHANGED <<chain, trace>>
       ELSE /\ chain' = Append(chain, record(trace.currentFunction))
            /\ trace' = [trace EXCEPT !.scan = callees[record(trace.currentFunction)], !.nextFunction = -1]
            /\ pc' = "scan"
  /\ UNCHANGED <<creatorVars, indexVars, dagVars, depths, tagVars, ast>>

scanCallee ==
  /\ pc = "scan"
  /\ IF trace.scan = {}
       THEN pc' = "trace" /\ trace' = [trace EXCEPT !.currentFunction = trace.nextFunction]
       ELSE LET callee == Min(trace.scan)
                rest == [trace EXCEPT !.scan = @ \ {callee}]
            IN  /\ trace' = IF depths[index[callee] + 1] = trace.currentDepth - 1
                              THEN [rest EXCEPT !.currentDepth = @ - 1, !.nextFunction = index[callee]]
                              ELSE rest
                /\ UNCHANGED pc
  /\ UNCHANGED <<creatorVars, indexVars, dagVars, chain, depths, tagVars, ast>>

-----------------------------------------------------------------------------
(* TCompiler: tagUsedFunctions() and pruneUnusedFunctions()                *)

tagUsedFunctions ==
  /\ pc = "tag"
  /\ IF Main \in indexAssigned
       THEN pc' = "tagging" /\ pending' = {index[Main]}
       ELSE pc' = "done" /\ UNCHANGED pending     \* "Missing main()"
  /\ UNCHANGED <<creatorVars, indexVars, dagVars, chain, depthVars, used, ast>>

\* Mutant of internalTagUsedFunction: does not descend into the callees.
tagOnlyItself(i) ==
  /\ pc = "tagging" /\ i \in pending
  /\ used' = used \cup {i}
  /\ pending' = pending \ {i}
  /\ UNCHANGED <<pc, creatorVars, indexVars, dagVars, chain, depthVars, ast>>

\* One call, in any order: a function tagged before returns at once, another one
\* is tagged and calls for its callees.
internalTagUsedFunction(i) ==
  /\ pc = "tagging" /\ i \in pending
  /\ used' = used \cup {i}
  /\ pending' = (pending \ {i}) \cup (IF i \in used THEN {} ELSE calleeIndices(i))
  /\ UNCHANGED <<pc, creatorVars, indexVars, dagVars, chain, depthVars, ast>>

\* Definitions and prototypes of unused or unimplemented functions go.
pruneUnusedFunctions ==
  /\ pc = "tagging" /\ pending = {}
  /\ ast' = {f \in ast : f \in indexAssigned /\ index[f] \in used}
  /\ pc' = "pruned"
  /\ UNCHANGED <<creatorVars, indexVars, dagVars, chain, depthVars, tagVars>>

Next ==
  \/ \E f \in Functions :
       \/ visitFunctionPrototype(f)
       \/ \E calls \in SUBSET Functions :
            Cardinality(calls) <= MaxCallees /\ visitFunctionDefinition(f, calls)
       \/ assignIndices(f)
  \/ init
  \/ leave \/ undefinedFunction \/ alreadyAssigned \/ visit \/ pushCallee
  \/ \E limitCallStackDepth \in BOOLEAN : fillDataStructures(limitCallStackDepth)
  \/ checkCallDepth \/ traceFunction \/ scanCallee
  \/ tagUsedFunctions \/ pruneUnusedFunctions
  \/ \E i \in pending : internalTagUsedFunction(i)

\* The tree is finite and every loop runs to its end.
Spec == Init /\ [][Next]_vars /\ WF_vars(Next)

-----------------------------------------------------------------------------
(* Properties                                                              *)

\* Type invariant: indices below mCurrentIndex belong to implemented functions.
TypeOK ==
  /\ pc \in {"traverse", "assign", "depth", "trace", "scan", "tag", "tagging", "done", "pruned"}
  /\ definitionNode \subseteq mFunctions /\ mFunctions \subseteq Functions
  /\ uniqueId \in [Functions -> Nat] /\ callees \in [Functions -> SUBSET mFunctions]
  /\ indexAssigned \cup visiting \subseteq definitionNode
  /\ indexAssigned \cap visiting = {}
  /\ index \in [Functions -> Nat] /\ mCurrentIndex \in Nat
  /\ remaining \subseteq mFunctions /\ pushing \subseteq mFunctions
  /\ functionsToProcess \in Seq(mFunctions)
  /\ result \in {"none", "SUCCESS", "RECURSION", "UNDEFINED"}
  /\ ast \subseteq mFunctions

\* Functions that call one another in a circle, at any distance.
Recursive == \E S \in SUBSET definitionNode : S # {} /\ \A f \in S : callees[f] \cap S # {}
CallsUndefined == \E f \in definitionNode : ~(callees[f] \subseteq definitionNode)

\* "records are in reverse topological order": when init() succeeds every
\* implemented function has an index of its own and a smaller one than its callers.
ReverseTopological ==
  result = "SUCCESS" =>
    /\ indexAssigned = definitionNode
    /\ \A f \in definitionNode :
         /\ index[f] < mCurrentIndex
         /\ \A g \in definitionNode : index[f] = index[g] => f = g
         /\ callees[f] \subseteq definitionNode
         /\ \A g \in callees[f] : index[g] < index[f]

\* init() refuses exactly the shaders with recursion or with a call to a function
\* without a body, wherever the search starts, and names a fault that is there.
FaultsFound ==
  result # "none" =>
    /\ result = "SUCCESS" <=> ~Recursive /\ ~CallsUndefined
    /\ result = "RECURSION" => Recursive
    /\ result = "UNDEFINED" => CallsUndefined

\* The depth checkCallDepth() computes in one pass over the records is the length
\* of the longest chain of calls from the function.
IsCallChain(p) == \A k \in 1..(Len(p) - 1) : p[k + 1] \in callees[p[k]]
CallChains == {p \in UNION {[1..n -> Functions] : n \in 1..Cardinality(Functions)} : IsCallChain(p)}
CallDepthExact ==
  \A k \in DOMAIN depths :
    depths[k] = Max({Len(p) - 1 : p \in {q \in CallChains : q[1] = record(k - 1)}})

\* Pruning leaves main and exactly what main may reach: no call of a function
\* that was removed, and no function that is not called.
ClosedUnderCalls(S) == \A f \in S : callees[f] \subseteq S
PruneKeepsReachable ==
  pc = "pruned" =>
    /\ Main \in ast /\ ClosedUnderCalls(ast)
    /\ \A S \in SUBSET ast : Main \in S /\ ClosedUnderCalls(S) => S = ast

\* The search over the call graph, the depth check and the tagging all end.
Terminates == <>(pc \in {"done", "pruned"})

\* "Recursive function call in the following call chain": each function of the
\* chain that assignIndicesInternal() prints calls the next one.
RecursionChainIsCalls == result = "RECURSION" => IsCallChain(chain)

\* "Trace back the function chain": after the name that opens the message, the
\* chain printed for a call stack that is too deep is a chain of calls that is
\* really that deep.
DepthChainComplete ==
  pc = "done" /\ result = "SUCCESS" /\ chain # <<>> =>
    /\ IsCallChain(Tail(chain))
    /\ Len(Tail(chain)) > MaxCallStackDepth
=============================================================================
