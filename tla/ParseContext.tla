--------------------------- MODULE ParseContext ----------------------------
(***************************************************************************)
(* TParseContext (src/compiler/translator/ParseContext.cpp) and the scopes *)
(* of the grammar (glslang.y): what the parser's semantic actions do to    *)
(* the symbol table, to the nesting counters that validate break and       *)
(* continue, and to the error count.  The grammar's own stack is `open',   *)
(* the constructs being parsed; types and expressions are left out.        *)
(*                                                                         *)
(* compound_statement_with_scope and the statement_with_scope of an if or  *)
(* else do the same to the table and are both a "block"; while, for and do *)
(* are each a "loop".                                                      *)
(***************************************************************************)
EXTENDS SymbolTable

CONSTANTS
    NoName,         \* a function without a named parameter
    NoFunction,     \* no function header is being parsed
    IsWebGL,        \* IsWebGLBasedSpec of the handle's specification
    MaxId,          \* bound on the symbols of one shader
    MaxNesting      \* bound on the constructs open at a time

ASSUME HeaderAssumption ==
    NoFunction \notin [sig : Signature, param : Name \cup {NoName}, id : Nat]

VARIABLES
    mShaderVersion,         \* 100, or 320 for the later ones
    mDeclaringFunction,     \* the function header being parsed, or NoFunction
    mFunctionBodyNewScope,  \* the body has a scope of its own
    mLoopNestingLevel,
    mSwitchNestingLevel,
    mErrors,                \* "redefinition" or "other" errors reported
    hasPrototype,           \* functions with a prototype declaration
    isDefined,              \* functions with a body
    open,                   \* the constructs being parsed, outermost first
    decls,                  \* history: the declarations in scope
    precisions,             \* history: the precision statements in scope
    clash                   \* history: a scope declared a name twice

contextVars == <<mShaderVersion, mDeclaringFunction, mFunctionBodyNewScope, mLoopNestingLevel,
                 mSwitchNestingLevel, mErrors, hasPrototype, isDefined, open>>
historyVars == <<decls, precisions, clash>>
parseVars == <<tableVars, contextVars, historyVars>>

functionVars == <<mDeclaringFunction, mFunctionBodyNewScope, hasPrototype, isDefined>>
nestingVars == <<mLoopNestingLevel, mSwitchNestingLevel>>

Construct == {"function", "block", "loop", "switch"}

IsSpecWithFunctionBodyNewScope == mShaderVersion = 100 /\ ~ IsWebGL

\* A declaration may come next: at global scope or among statements, and not
\* inside a function's parameter list.
AtDeclaration == mDeclaringFunction = NoFunction

\* A statement may come next.
AtStatement == AtDeclaration /\ open # <<>>

error(failed, kind) == mErrors' = IF failed THEN mErrors \cup {kind} ELSE mErrors

-----------------------------------------------------------------------------
(***************************************************************************)
(* The language's scopes, for reference: scope 0 is global, the construct  *)
(* at depth d has 2 * d + 1 for its statements and, when it is a function, *)
(* 2 * d for its parameters.  The two are one scope except in ESSL 1.00    *)
(* outside WebGL.                                                          *)
(***************************************************************************)
Scope == IF open = <<>> THEN 0 ELSE 2 * Len(open) + 1

ParameterScope == 2

SameScope(s, t) == s = t \/ ({s, t} = {2, 3} /\ ~ IsSpecWithFunctionBodyNewScope)

Declared(name) == {d \in decls : d.name = name}

Clashes(name, scope) == \E d \in Declared(name) : SameScope(d.scope, scope)

Innermost(S) == CHOOSE d \in S : \A e \in S : e.scope <= d.scope

LexicalFind(name) ==
    IF Declared(name) = {} THEN NoSymbol ELSE Innermost(Declared(name)).symbol

LexicalPrecision ==
    IF precisions = {} THEN BuiltInPrecision ELSE Innermost(precisions).prec

\* What is still in scope when the construct at depth d has been left.
Outside(S, d) == {e \in S : e.scope < 2 * d}

-----------------------------------------------------------------------------
(***************************************************************************)
(* Declarations.                                                           *)
(***************************************************************************)
declareVariable(name) ==
    LET symbol == [id |-> mUniqueIdCounter + 1, isFunction |-> FALSE]
    IN  /\ AtDeclaration
        /\ mUniqueIdCounter < MaxId
        /\ mUniqueIdCounter' = mUniqueIdCounter + 1
        /\ mTable' = declare(mTable, name, symbol)
        /\ error(~ canDeclare(mTable, name), "redefinition")
        /\ IF Clashes(name, Scope)
           THEN clash' = TRUE /\ decls' = decls
           ELSE decls' = decls \cup {[name |-> name, scope |-> Scope, symbol |-> symbol]}
                /\ clash' = clash
        /\ UNCHANGED <<mPrecisionStack, mVariableMetadata, mShaderVersion, functionVars,
                       nestingVars, open, precisions>>

parseDefaultPrecisionQualifier(prec) ==
    /\ AtDeclaration
    /\ mPrecisionStack' = setDefaultPrecision(mPrecisionStack, prec)
    /\ precisions' = {p \in precisions : p.scope # Scope} \cup {[scope |-> Scope, prec |-> prec]}
    /\ UNCHANGED <<mTable, mUniqueIdCounter, mVariableMetadata, contextVars, decls, clash>>

\* "invariant x;" and "precise x;", a keyword of the later versions.  Only the
\* former has to be global.
parseGlobalQualifierDeclaration(name, invariant) ==
    LET symbol == findUserDefined(mTable, name)
        refused == \/ invariant /\ ~ atGlobalLevel(mTable)
                   \/ symbol = NoSymbol
                   \/ symbol.isFunction
    IN  /\ AtDeclaration
        /\ invariant \/ mShaderVersion # 100
        /\ error(refused, "other")
        /\ mVariableMetadata' = IF refused THEN mVariableMetadata
                                ELSE mVariableMetadata \cup {symbol.id}
        /\ UNCHANGED <<mTable, mPrecisionStack, mUniqueIdCounter, mShaderVersion, functionVars,
                       nestingVars, open, historyVars>>

-----------------------------------------------------------------------------
(***************************************************************************)
(* Functions.  A header opens the scope of the parameters before the       *)
(* parser knows whether a prototype or a definition follows.               *)
(***************************************************************************)
function_header(sig, param) ==
    LET used == IF param = NoName THEN 1 ELSE 2
    IN  /\ AtDeclaration
        /\ mUniqueIdCounter + used <= MaxId
        /\ mUniqueIdCounter' = mUniqueIdCounter + used
        /\ mTable' = pushTable(mTable)
        /\ mPrecisionStack' = pushPrecision(mPrecisionStack)
        /\ mDeclaringFunction' = [sig |-> sig, param |-> param, id |-> mUniqueIdCounter + 1]
        /\ UNCHANGED <<mVariableMetadata, mShaderVersion, mFunctionBodyNewScope, nestingVars,
                       mErrors, hasPrototype, isDefined, open, historyVars>>

\* parseFunctionDeclarator, at the closing parenthesis: the function is entered
\* in the global level, whatever scope the parser is in.
Function == [id |-> mDeclaringFunction.id, isFunction |-> TRUE]

FunctionName == nameOf[mDeclaringFunction.sig]

HidesVariable(symbol) == symbol # NoSymbol /\ ~ symbol.isFunction

WithFunction(table) ==
    declareUserDefinedFunction(table, mDeclaringFunction.sig, Function,
                               findUserDefined(table, FunctionName) = NoSymbol)

DeclsWithFunction ==
    IF Declared(FunctionName) = {}
    THEN decls \cup {[name |-> FunctionName, scope |-> 0, symbol |-> Function]}
    ELSE decls

FunctionErrors(failed) ==
    mErrors' = mErrors
                 \cup (IF HidesVariable(findUserDefined(mTable, FunctionName))
                       THEN {"redefinition"} ELSE {})
                 \cup (IF failed THEN {"other"} ELSE {})

FunctionClash == clash' = (clash \/ HidesVariable(LexicalFind(FunctionName)))

addFunctionPrototypeDeclaration ==
    LET sig == mDeclaringFunction.sig
    IN  /\ mDeclaringFunction # NoFunction
        /\ mTable' = popTable(WithFunction(mTable))
        /\ mPrecisionStack' = popPrecision(mPrecisionStack)
        /\ FunctionErrors(\/ sig \in hasPrototype /\ mShaderVersion = 100
                          \/ ~ atGlobalLevel(mTable'))
        /\ hasPrototype' = hasPrototype \cup {sig}
        /\ mDeclaringFunction' = NoFunction
        /\ decls' = DeclsWithFunction
        /\ FunctionClash
        /\ UNCHANGED <<mUniqueIdCounter, mVariableMetadata, mShaderVersion,
                       mFunctionBodyNewScope, nestingVars, isDefined, open, precisions>>

\* The parameter is declared in the scope the header opened; ESSL 1.00 then
\* opens another one for the body.
parseFunctionDefinitionHeader ==
    LET sig == mDeclaringFunction.sig
        param == mDeclaringFunction.param
        symbol == [id |-> mDeclaringFunction.id + 1, isFunction |-> FALSE]
        declared == IF param = NoName THEN WithFunction(mTable)
                    ELSE declare(WithFunction(mTable), param, symbol)
        scoped == IsSpecWithFunctionBodyNewScope
    IN  /\ mDeclaringFunction # NoFunction
        /\ open = <<>>
        /\ mTable' = IF scoped THEN pushTable(declared) ELSE declared
        /\ mPrecisionStack' = IF scoped THEN pushPrecision(mPrecisionStack) ELSE mPrecisionStack
        /\ mFunctionBodyNewScope' = (mFunctionBodyNewScope \/ scoped)
        /\ FunctionErrors(sig \in isDefined)
        /\ isDefined' = isDefined \cup {sig}
        /\ mLoopNestingLevel' = 0
        /\ mDeclaringFunction' = NoFunction
        /\ open' = <<"function">>
        /\ decls' = DeclsWithFunction \cup
                      {[name |-> p, scope |-> ParameterScope, symbol |-> symbol] :
                          p \in {param} \ {NoName}}
        /\ FunctionClash
        /\ UNCHANGED <<mUniqueIdCounter, mVariableMetadata, mShaderVersion, mSwitchNestingLevel,
                       hasPrototype, precisions>>

\* The scope of the body is left, the one of the parameters is not.
definitionPopsOnce ==
    /\ AtDeclaration
    /\ open = <<"function">>
    /\ mTable' = popTable(mTable)
    /\ mPrecisionStack' = popPrecision(mPrecisionStack)
    /\ mFunctionBodyNewScope' = FALSE
    /\ open' = <<>>
    /\ decls' = Outside(decls, 1)
    /\ precisions' = Outside(precisions, 1)
    /\ UNCHANGED <<mUniqueIdCounter, mVariableMetadata, mShaderVersion, mDeclaringFunction,
                   nestingVars, mErrors, hasPrototype, isDefined, clash>>

addFunctionDefinition ==
    LET pops == IF mFunctionBodyNewScope THEN 2 ELSE 1
    IN  /\ AtDeclaration
        /\ open = <<"function">>
        /\ mTable' = SubSeq(mTable, 1, Len(mTable) - pops)
        /\ mPrecisionStack' = SubSeq(mPrecisionStack, 1, Len(mPrecisionStack) - pops)
        /\ mFunctionBodyNewScope' = FALSE
        /\ open' = <<>>
        /\ decls' = Outside(decls, 1)
        /\ precisions' = Outside(precisions, 1)
        /\ UNCHANGED <<mUniqueIdCounter, mVariableMetadata, mShaderVersion, mDeclaringFunction,
                       nestingVars, mErrors, hasPrototype, isDefined, clash>>

-----------------------------------------------------------------------------
(***************************************************************************)
(* Statements.                                                             *)
(***************************************************************************)
EnterScope ==
    /\ mTable' = pushTable(mTable)
    /\ mPrecisionStack' = pushPrecision(mPrecisionStack)

LeaveScope ==
    /\ mTable' = popTable(mTable)
    /\ mPrecisionStack' = popPrecision(mPrecisionStack)

One(construct, kind) == IF construct = kind THEN 1 ELSE 0

\* The opening of a compound statement, a branch, a loop or a switch.
enter(construct) ==
    /\ AtStatement
    /\ Len(open) < MaxNesting
    /\ EnterScope
    /\ mLoopNestingLevel' = mLoopNestingLevel + One(construct, "loop")
    /\ mSwitchNestingLevel' = mSwitchNestingLevel + One(construct, "switch")
    /\ open' = Append(open, construct)
    /\ UNCHANGED <<mUniqueIdCounter, mVariableMetadata, mShaderVersion, functionVars, mErrors,
                   historyVars>>

exit ==
    LET construct == open[Len(open)]
    IN  /\ AtStatement
        /\ construct # "function"
        /\ LeaveScope
        /\ mLoopNestingLevel' = mLoopNestingLevel - One(construct, "loop")
        /\ mSwitchNestingLevel' = mSwitchNestingLevel - One(construct, "switch")
        /\ open' = SubSeq(open, 1, Len(open) - 1)
        /\ decls' = Outside(decls, Len(open))
        /\ precisions' = Outside(precisions, Len(open))
        /\ UNCHANGED <<mUniqueIdCounter, mVariableMetadata, mShaderVersion, functionVars,
                       mErrors, clash>>

addBranch(op) ==
    /\ AtStatement
    /\ error(/\ mLoopNestingLevel <= 0
             /\ op = "continue" \/ mSwitchNestingLevel <= 0, "other")
    /\ UNCHANGED <<tableVars, mShaderVersion, functionVars, nestingVars, open, historyVars>>

Parse ==
    \/ \E name \in Name : declareVariable(name)
    \/ \E prec \in Precision : parseDefaultPrecisionQualifier(prec)
    \/ \E name \in Name, invariant \in BOOLEAN : parseGlobalQualifierDeclaration(name, invariant)
    \/ \E sig \in Signature, param \in Name \cup {NoName} : function_header(sig, param)
    \/ addFunctionPrototypeDeclaration
    \/ parseFunctionDefinitionHeader
    \/ addFunctionDefinition
    \/ \E construct \in Construct \ {"function"} : enter(construct)
    \/ exit
    \/ \E op \in {"break", "continue"} : addBranch(op)
=============================================================================
