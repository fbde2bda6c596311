---------------------------- MODULE SymbolTable ----------------------------
(***************************************************************************)
(* TSymbolTable (src/compiler/translator/SymbolTable.cpp): the scopes of   *)
(* the shader being compiled.  mTable has one level per open scope, the    *)
(* global one first, and is empty between compilations; mPrecisionStack    *)
(* has one level more, the predefined default precisions, which stay.      *)
(*                                                                         *)
(* A level maps keys to symbols.  A variable is entered under its name; a  *)
(* function is entered in the global level under its mangled name, here a  *)
(* Signature, and under its plain name as well, so that a variable of that *)
(* name is refused.  One basic type stands for the types that have a       *)
(* default precision.  Built-in symbols are left out: no operation below   *)
(* depends on them.                                                        *)
(***************************************************************************)
EXTENDS Naturals, Sequences

CONSTANTS
    Name,               \* identifiers
    Signature,          \* mangled names of functions
    nameOf,             \* the plain name of each signature
    NoSymbol,           \* nullptr
    Precision,          \* precision qualifiers
    NoPrecision,        \* a level that sets no default precision
    BuiltInPrecision    \* the predefined default precision

ASSUME SymbolAssumption ==
    /\ nameOf \in [Signature -> Name]
    /\ Name \cap Signature = {}
    /\ NoPrecision \notin Precision
    /\ BuiltInPrecision \in Precision
    /\ NoSymbol \notin [id : Nat, isFunction : BOOLEAN]

VARIABLES
    mTable,             \* one map from keys to symbols per scope
    mPrecisionStack,    \* the default precision set in each scope
    mUniqueIdCounter,   \* the last id handed to a symbol
    mVariableMetadata   \* ids of the variables marked invariant

tableVars == <<mTable, mPrecisionStack, mUniqueIdCounter, mVariableMetadata>>

Key == Name \cup Signature

Symbol == [id : Nat, isFunction : BOOLEAN]

EmptyLevel == [k \in Key |-> NoSymbol]

-----------------------------------------------------------------------------
(***************************************************************************)
(* The operations, on a table as a value: the parser's actions chain them. *)
(***************************************************************************)
pushTable(table) == Append(table, EmptyLevel)

popTable(table) == SubSeq(table, 1, Len(table) - 1)

pushPrecision(stack) == Append(stack, NoPrecision)

popPrecision(stack) == SubSeq(stack, 1, Len(stack) - 1)

atGlobalLevel(table) == Len(table) = 1

\* A key already present at the level keeps its symbol.
insertAt(table, level, key, symbol) ==
    IF table[level][key] = NoSymbol
    THEN [table EXCEPT ![level][key] = symbol]
    ELSE table

declare(table, name, symbol) == insertAt(table, Len(table), name, symbol)

declareUserDefinedFunction(table, sig, symbol, insertUnmangledName) ==
    LET named == IF insertUnmangledName
                 THEN insertAt(table, 1, nameOf[sig], symbol)
                 ELSE table
    IN  insertAt(named, 1, sig, symbol)

\* The topmost of some levels.
Topmost(S) == CHOOSE i \in S : \A j \in S : j <= i

findUserDefined(table, key) ==
    LET S == {i \in 1..Len(table) : table[i][key] # NoSymbol}
    IN  IF S = {} THEN NoSymbol ELSE table[Topmost(S)][key]

\* A declaration refused for any visible symbol of that name.
canDeclareUnseen(table, name) == findUserDefined(table, name) = NoSymbol

\* What declare() returns: the current level has no symbol of that name.
canDeclare(table, name) == table[Len(table)][name] = NoSymbol

setDefaultPrecision(stack, prec) == [stack EXCEPT ![Len(stack)] = prec]

\* The built-in level always sets a precision.
getDefaultPrecision(stack) ==
    stack[Topmost({i \in 1..Len(stack) : stack[i] # NoPrecision})]
=============================================================================
