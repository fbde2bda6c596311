------------------------------ MODULE Compiler ------------------------------
(***************************************************************************)
(* TCompiler::compile (src/compiler/translator/Compiler.cpp): one handle   *)
(* compiles one shader after the other, with the symbol table it keeps.    *)
(* A compilation clears the previous results, opens the global scope,      *)
(* parses, and then checks and transforms the tree.  It may end early at a *)
(* syntax error anywhere in the parse, when the parse has reported errors, *)
(* or in any later pass; on every way out the destructor of                *)
(* TScopedSymbolTableLevel closes the scopes that are still open.          *)
(*                                                                         *)
(* The passes after the parse are one step, which tells apart whether they *)
(* failed before or after the variables were collected.  Assertions are    *)
(* not enforced, as in a release build; the properties state them.         *)
(***************************************************************************)
EXTENDS ParseContext, FiniteSets

VARIABLES
    parsing,                \* compile() is in PaParseStrings
    mVariablesCollected     \* the handle holds the variables of a shader

vars == <<parseVars, parsing, mVariablesCollected>>

Init ==
    /\ mTable = <<>>
    /\ mPrecisionStack = <<BuiltInPrecision>>
    /\ mUniqueIdCounter = 0
    /\ mVariableMetadata = {}
    /\ mShaderVersion = 100
    /\ mDeclaringFunction = NoFunction
    /\ mFunctionBodyNewScope = FALSE
    /\ mLoopNestingLevel = 0
    /\ mSwitchNestingLevel = 0
    /\ mErrors = {}
    /\ hasPrototype = {}
    /\ isDefined = {}
    /\ open = <<>>
    /\ decls = {}
    /\ precisions = {}
    /\ clash = FALSE
    /\ parsing = FALSE
    /\ mVariablesCollected = FALSE

\* A compilation whose predecessor's metadata stays.
compileKeepsMetadata(version) ==
    /\ ~ parsing
    /\ mUniqueIdCounter' = 0
    /\ mVariablesCollected' = FALSE
    /\ mErrors' = {}
    /\ mTable' = pushTable(mTable)
    /\ mPrecisionStack' = pushPrecision(mPrecisionStack)
    /\ mShaderVersion' = version
    /\ parsing' = TRUE
    /\ UNCHANGED <<mVariableMetadata, functionVars, nestingVars, open, historyVars>>

\* clearResults, a new TParseContext, and the global scope.  The version is the
\* one the shader states before anything else.
compile(version) ==
    /\ ~ parsing
    /\ mUniqueIdCounter' = 0
    /\ mVariableMetadata' = {}
    /\ mVariablesCollected' = FALSE
    /\ mErrors' = {}
    /\ mTable' = pushTable(mTable)
    /\ mPrecisionStack' = pushPrecision(mPrecisionStack)
    /\ mShaderVersion' = version
    /\ parsing' = TRUE
    /\ UNCHANGED <<functionVars, nestingVars, open, historyVars>>

\* The way out of compileTreeImpl: ~TScopedSymbolTableLevel, and the end of the
\* TParseContext, whose fields are as a new one finds them.
Leave ==
    /\ mTable' = <<>>
    /\ mPrecisionStack' = SubSeq(mPrecisionStack, 1, Len(mPrecisionStack) - Len(mTable))
    /\ mDeclaringFunction' = NoFunction
    /\ mFunctionBodyNewScope' = FALSE
    /\ mLoopNestingLevel' = 0
    /\ mSwitchNestingLevel' = 0
    /\ hasPrototype' = {}
    /\ isDefined' = {}
    /\ open' = <<>>
    /\ decls' = {}
    /\ precisions' = {}
    /\ clash' = FALSE
    /\ parsing' = FALSE
    /\ UNCHANGED <<mUniqueIdCounter, mVariableMetadata, mShaderVersion>>

syntaxError ==
    /\ parsing
    /\ mErrors' = mErrors \cup {"other"}
    /\ Leave
    /\ UNCHANGED mVariablesCollected

parseFails ==
    /\ parsing
    /\ AtDeclaration
    /\ open = <<>>
    /\ mErrors # {}
    /\ Leave
    /\ UNCHANGED <<mErrors, mVariablesCollected>>

\* A pass after the parse that fails reports an error; passes may fail before
\* and after the variables are collected.
checkAndSimplifyAST(collected, failed) ==
    /\ parsing
    /\ AtDeclaration
    /\ open = <<>>
    /\ mErrors = {}
    /\ collected \/ failed
    /\ mVariablesCollected' = collected
    /\ error(failed, "other")
    /\ Leave

Next ==
    \/ \E version \in {100, 320} : compile(version)
    \/ parsing /\ Parse /\ UNCHANGED <<parsing, mVariablesCollected>>
    \/ syntaxError
    \/ parseFails
    \/ \E collected, failed \in BOOLEAN : checkAndSimplifyAST(collected, failed)

Spec == Init /\ [][Next]_vars

-----------------------------------------------------------------------------
(***************************************************************************)
(* Properties.                                                             *)
(***************************************************************************)

Opened(construct) == Cardinality({i \in 1..Len(open) : open[i] = construct})

\* A name in the shader resolves to the declaration its lexical scope gives it,
\* a type without a qualifier gets the precision of the innermost precision
\* statement, and the counters by which addBranch() accepts break and continue
\* are the numbers of loops and switches around the statement: no construct of
\* the grammar leaves a scope behind or closes one too many, whether a header
\* turned out a prototype or a definition, in either version
\* (TSymbolTable::find, getDefaultPrecision, and every push and pop of
\* glslang.y and ParseContext.cpp).
ContextIsLexical ==
    /\ parsing => /\ \A name \in Name : findUserDefined(mTable, name) = LexicalFind(name)
                  /\ getDefaultPrecision(mPrecisionStack) = LexicalPrecision
    /\ mLoopNestingLevel = Opened("loop")
    /\ mSwitchNestingLevel = Opened("switch")

\* "redefinition" is reported exactly when a scope declares a name twice: a
\* local may hide a global or an outer local, and a parameter only where ESSL
\* 1.00 gives the body a scope of its own; a function's name is taken for its
\* variables (TParseContext::declareVariable, parseFunctionDeclarator).
DuplicatesRejected == parsing => (clash <=> "redefinition" \in mErrors)

\* Whatever way a compilation ended, the next one finds no scope and only the
\* predefined precision, as clearCompilationResults() and
\* TScopedSymbolTableLevel assert; between two external declarations the table
\* is at the global level, as setGlobalInvariant() and isVaryingInvariant()
\* assert after the parse; and the marks of invariant variables are those of
\* symbols of this shader, although ids start again from the first.
CompilationsIndependent ==
    /\ ~ parsing => mTable = <<>> /\ mPrecisionStack = <<BuiltInPrecision>>
    /\ parsing /\ AtDeclaration /\ open = <<>> => atGlobalLevel(mTable)
    /\ parsing => \A id \in mVariableMetadata : id <= mUniqueIdCounter
    /\ parsing => ~ mVariablesCollected
=============================================================================
