-------------------------- MODULE DirectiveParser ---------------------------
(***************************************************************************)
(* The directive parser of the shader preprocessor                         *)
(* (src/src/compiler/preprocessor/DirectiveParser.cpp) together with the   *)
(* version half of its handler (TDirectiveHandler::handleVersion).         *)
(*                                                                         *)
(* A step is one line: program text, a directive, or the end of the input. *)
(* What a line says is the environment's choice; what the parser does with *)
(* it is the code's.  Every directive may be the last line of the input    *)
(* without a newline (parameter eof).                                      *)
(***************************************************************************)
EXTENDS Integers, Sequences

CONSTANTS
  UserMacros,       \* names a shader may define
  ReservedNames,    \* "defined" and names starting with GL_
  ExtensionMacros,  \* names handleVersion predefines for the extensions
  Values,           \* macro bodies, as far as Macro::equals tells them apart
  ShaderSpecs,      \* subset of {"ESSL", "WEBGL", "GL"}
  Versions,         \* numbers a #version directive may carry
  MaxNesting,       \* bound on open conditional blocks
  MaxGroups         \* bound on groups of one block

VersionMacro == "__VERSION__"
EsMacro == "GL_ES"

ASSUME ConstantsAssumption ==
  /\ Versions \subseteq Nat
  /\ ShaderSpecs \subseteq {"ESSL", "WEBGL", "GL"}
  /\ MaxNesting \in Nat /\ MaxGroups \in Nat
  /\ {VersionMacro, EsMacro} \cap (UserMacros \cup ExtensionMacros) = {}
  /\ UserMacros \cap (ReservedNames \cup ExtensionMacros) = {}

VARIABLES
  mConditionalStack,
  mHandledVersion,
  mPastFirstStatement,
  mSeenNonPreprocessorToken,
  mShaderVersion,
  mMacroSet,        \* defined names |-> [predefined, value]
  shaderSpec,       \* mSettings.shaderSpec
  error,            \* an error (not a warning) has been reported
  done,             \* the LAST token has been returned
  out,              \* what the last line handed on (auxiliary)
  history,          \* the conditions seen by the open blocks (auxiliary)
  versionCalls      \* how often the handler was told the version (auxiliary)

flagVars == <<mPastFirstStatement, mSeenNonPreprocessorToken, mShaderVersion>>
versionVars == <<mHandledVersion, mMacroSet, versionCalls>>
condVars == <<mConditionalStack, history>>
vars == <<condVars, flagVars, versionVars, shaderSpec, error, done, out>>

ConditionalBlock ==
  [skipBlock : BOOLEAN, skipGroup : BOOLEAN,
   foundValidGroup : BOOLEAN, foundElseGroup : BOOLEAN]

Effects == {"define", "undef", "error", "pragma", "extension", "version", "line"}

Abstract == INSTANCE ConditionalInclusion WITH groups <- history

-----------------------------------------------------------------------------
(* Helpers                                                                 *)

\* Mutant of skipping: forgets blocks that are skipped as a whole.
skippingGroupOnly ==
  /\ mConditionalStack # <<>>
  /\ mConditionalStack[Len(mConditionalStack)].skipGroup

skipping ==
  /\ mConditionalStack # <<>>
  /\ LET block == mConditionalStack[Len(mConditionalStack)]
     IN  block.skipBlock \/ block.skipGroup

isDesktopGLSpec == shaderSpec = "GL"

\* TDirectiveHandler::handleVersion refuses other numbers for ESSL.
versionSupported(v) == isDesktopGLSpec \/ v \in {100, 300, 310, 320}

predefinedNames(v) ==
  {VersionMacro} \cup (IF versionSupported(v) THEN ExtensionMacros ELSE {})

\* PredefineMacro overwrites whatever the set held under the name.
handleVersion(macros, v) ==
  [n \in DOMAIN macros \cup predefinedNames(v) |->
     IF n \in predefinedNames(v)
       THEN [predefined |-> TRUE, value |-> IF n = VersionMacro THEN v ELSE 1]
       ELSE macros[n]]

\* The macro set a directive other than #version works on: the version is
\* settled first when it has not been.
settledMacros ==
  IF mHandledVersion THEN mMacroSet ELSE handleVersion(mMacroSet, mShaderVersion)

\* Settling the version may itself report "version number not supported".
settleError == ~mHandledVersion /\ ~versionSupported(mShaderVersion)

SettleVersion ==
  /\ mHandledVersion' = TRUE
  /\ versionCalls' = IF mHandledVersion THEN versionCalls ELSE versionCalls + 1

\* Mutant of EndLine: the first statement is never past.
EndLineStillFirst(bad, eof) ==
  /\ error' = (error \/ bad \/ (eof /\ mConditionalStack' # <<>>))
  /\ done' = eof
  /\ UNCHANGED <<mPastFirstStatement, shaderSpec>>

\* How lex() ends a line: the error flag, and LAST with open blocks.
EndLine(bad, eof) ==
  /\ error' = (error \/ bad \/ (eof /\ mConditionalStack' # <<>>))
  /\ done' = eof
  /\ mPastFirstStatement' = TRUE
  /\ UNCHANGED shaderSpec

\* A directive other than #version that leaves the macro set alone.
DirectiveEnd(bad, eof) ==
  /\ SettleVersion
  /\ mMacroSet' = settledMacros
  /\ EndLine(bad \/ settleError, eof)
  /\ UNCHANGED <<mSeenNonPreprocessorToken, mShaderVersion>>

-----------------------------------------------------------------------------
Init ==
  /\ mConditionalStack = <<>> /\ history = <<>>
  /\ mHandledVersion = FALSE
  /\ mPastFirstStatement = FALSE
  /\ mSeenNonPreprocessorToken = FALSE
  /\ mShaderVersion = 100
  /\ shaderSpec \in ShaderSpecs
  /\ mMacroSet = [n \in {EsMacro} |-> [predefined |-> TRUE, value |-> 1]]
  /\ error = FALSE /\ done = FALSE
  /\ out = "none" /\ versionCalls = 0

\* lex(): a token that is neither a directive nor the end of a line.
Text ==
  /\ ~done
  /\ IF skipping
       THEN /\ out' = "dropped"
            /\ UNCHANGED <<condVars, flagVars, versionVars, shaderSpec, error, done>>
       ELSE /\ out' = "token"
            /\ mSeenNonPreprocessorToken' = TRUE
            /\ SettleVersion
            /\ mMacroSet' = settledMacros
            /\ UNCHANGED <<condVars, mShaderVersion>>
            /\ EndLine(settleError, FALSE)

\* lex(): the LAST token ends the input, complaining about an open block.
EndOfInput ==
  /\ ~done /\ UNCHANGED condVars
  /\ out' = "none"
  /\ EndLine(FALSE, TRUE)
  /\ UNCHANGED <<versionVars, mSeenNonPreprocessorToken, mShaderVersion>>

\* parseDirective(): a lone '#' returns before the version is settled.
EmptyDirective(eof) ==
  /\ ~done /\ UNCHANGED condVars
  /\ out' = "none"
  /\ EndLine(FALSE, eof)
  /\ UNCHANGED <<versionVars, mSeenNonPreprocessorToken, mShaderVersion>>

\* parseDirective(): in an excluded group only conditional directives are parsed.
\* A #version there does not settle the version, any other directive does.
SkippedDirective(isVersion, eof) ==
  /\ ~done /\ skipping /\ UNCHANGED condVars
  /\ out' = "none"
  /\ IF isVersion
       THEN /\ EndLine(FALSE, eof)
            /\ UNCHANGED <<versionVars, mSeenNonPreprocessorToken, mShaderVersion>>
       ELSE DirectiveEnd(FALSE, eof)

-----------------------------------------------------------------------------
(* Conditional directives                                                  *)

top == Len(mConditionalStack)

\* Mutant of parseConditionalIf: a block in a skipped block is not skipped.
parseConditionalIfShallow(cond, bad, eof) ==
  /\ top < MaxNesting
  /\ LET skip == mConditionalStack # <<>> /\ mConditionalStack[top].skipGroup IN
     mConditionalStack' = Append(mConditionalStack,
       [skipBlock |-> skip,
        skipGroup |-> ~skip /\ ~cond,
        foundValidGroup |-> ~skip /\ cond,
        foundElseGroup |-> FALSE])
  /\ history' = Append(history, [conds |-> <<cond>>, hasElse |-> FALSE])
  /\ out' = "none"
  /\ DirectiveEnd(bad /\ ~skipping, eof)

\* parseConditionalIf(): cond is the value of the expression (or of the #ifdef
\* test) and bad whether evaluating the line reported an error; neither is
\* looked at inside a skipped group.
parseConditionalIf(cond, bad, eof) ==
  /\ top < MaxNesting
  /\ mConditionalStack' = Append(mConditionalStack,
       [skipBlock |-> skipping,
        skipGroup |-> ~skipping /\ ~cond,
        foundValidGroup |-> ~skipping /\ cond,
        foundElseGroup |-> FALSE])
  /\ history' = Append(history, [conds |-> <<cond>>, hasElse |-> FALSE])
  /\ out' = "none"
  /\ DirectiveEnd(bad /\ ~skipping, eof)

\* #if: the value of the expression is the environment's choice.
parseIf(cond, bad, eof) == ~done /\ parseConditionalIf(cond, bad, eof)

\* #ifdef and #ifndef test the macro set as it is once the version is settled.
\* parseExpressionIfdef() yields 0 when no name follows, which #ifndef negates;
\* tokens after the name are an error that leaves the value alone.
parseIfdef(name, negated, malformed, extra, eof) ==
  /\ ~done
  /\ LET expression == ~malformed /\ name \in DOMAIN settledMacros
     IN  parseConditionalIf(expression # negated, malformed \/ extra, eof)

\* An #else or #elif no open block can take: a stray one, or one after #else.
strayGroup ==
  mConditionalStack # <<>> =>
    ~mConditionalStack[top].skipBlock /\ mConditionalStack[top].foundElseGroup

skippedBlock == mConditionalStack # <<>> /\ mConditionalStack[top].skipBlock

\* Mutant of parseElse: trailing tokens are checked in skipped blocks too.
parseElseLoud(extra, eof) ==
  /\ ~done
  /\ out' = "none"
  /\ skippedBlock /\ UNCHANGED condVars /\ DirectiveEnd(extra, eof)

\* #else begins the last group; it is valid when no earlier group was.
parseElse(extra, eof) ==
  /\ ~done
  /\ out' = "none"
  /\ \/ strayGroup /\ UNCHANGED condVars /\ DirectiveEnd(TRUE, eof)
     \/ skippedBlock /\ UNCHANGED condVars /\ DirectiveEnd(FALSE, eof)
     \/ /\ ~strayGroup /\ ~skippedBlock
        /\ Len(history[top].conds) < MaxGroups
        /\ mConditionalStack' = [mConditionalStack EXCEPT ![top] =
             [skipBlock |-> FALSE, skipGroup |-> @.foundValidGroup,
              foundValidGroup |-> TRUE, foundElseGroup |-> TRUE]]
        /\ history' = [history EXCEPT ![top] =
             [conds |-> Append(@.conds, TRUE), hasElse |-> TRUE]]
        /\ DirectiveEnd(extra, eof)

\* Mutant of parseElif: evaluates the expression after a valid group as well.
parseElifAgain(cond, bad, eof) ==
  /\ ~done
  /\ out' = "none"
  /\ ~strayGroup /\ ~skippedBlock
  /\ Len(history[top].conds) < MaxGroups
  /\ history' = [history EXCEPT ![top] =
       [conds |-> Append(@.conds, cond), hasElse |-> FALSE]]
  /\ mConditionalStack' = [mConditionalStack EXCEPT ![top] =
       [skipBlock |-> FALSE, skipGroup |-> ~cond,
        foundValidGroup |-> cond, foundElseGroup |-> FALSE]]
  /\ DirectiveEnd(bad, eof)

\* #elif: the expression is evaluated only when no earlier group was valid.
parseElif(cond, bad, eof) ==
  /\ ~done
  /\ out' = "none"
  /\ \/ strayGroup /\ UNCHANGED condVars /\ DirectiveEnd(TRUE, eof)
     \/ skippedBlock /\ UNCHANGED condVars /\ DirectiveEnd(FALSE, eof)
     \/ /\ ~strayGroup /\ ~skippedBlock
        /\ Len(history[top].conds) < MaxGroups
        /\ history' = [history EXCEPT ![top] =
             [conds |-> Append(@.conds, cond), hasElse |-> FALSE]]
        /\ LET found == mConditionalStack[top].foundValidGroup IN
           /\ mConditionalStack' = [mConditionalStack EXCEPT ![top] =
                [skipBlock |-> FALSE, skipGroup |-> found \/ ~cond,
                 foundValidGroup |-> found \/ cond, foundElseGroup |-> FALSE]]
           /\ DirectiveEnd(bad /\ ~found, eof)

\* #endif closes the innermost block.
parseEndif(extra, eof) ==
  /\ ~done
  /\ out' = "none"
  /\ IF mConditionalStack = <<>>
       THEN UNCHANGED condVars /\ DirectiveEnd(TRUE, eof)
       ELSE /\ mConditionalStack' = SubSeq(mConditionalStack, 1, top - 1)
            /\ history' = SubSeq(history, 1, top - 1)
            /\ DirectiveEnd(extra, eof)

-----------------------------------------------------------------------------
(* The other directives, parsed only outside excluded groups               *)

isMacroPredefined(name, macros) == name \in DOMAIN macros /\ macros[name].predefined

\* Mutant of parseDefine: a later definition replaces an earlier one.
parseDefineReplaces(name, value, malformed, eof) ==
  /\ ~done /\ ~skipping /\ UNCHANGED condVars
  /\ ~malformed /\ ~isMacroPredefined(name, settledMacros) /\ name \notin ReservedNames
  /\ mMacroSet' = [n \in DOMAIN settledMacros \cup {name} |->
                     IF n = name THEN [predefined |-> FALSE, value |-> value]
                                 ELSE settledMacros[n]]
  /\ out' = "define"
  /\ EndLine(settleError, eof)
  /\ SettleVersion
  /\ UNCHANGED <<mSeenNonPreprocessorToken, mShaderVersion>>

\* #define: an identical redefinition is accepted and changes nothing.
parseDefine(name, value, malformed, eof) ==
  /\ ~done /\ ~skipping /\ UNCHANGED condVars
  /\ LET macros == settledMacros
         bad == \/ malformed
                \/ isMacroPredefined(name, macros)
                \/ name \in ReservedNames
                \/ name \in DOMAIN macros /\ macros[name].value # value
     IN  /\ mMacroSet' = IF bad \/ name \in DOMAIN macros THEN macros
                         ELSE [n \in DOMAIN macros \cup {name} |->
                                 IF n = name THEN [predefined |-> FALSE, value |-> value]
                                             ELSE macros[n]]
         /\ out' = IF bad THEN "none" ELSE "define"
         /\ EndLine(bad \/ settleError, eof)
  /\ SettleVersion
  /\ UNCHANGED <<mSeenNonPreprocessorToken, mShaderVersion>>

\* #undef: refused for a predefined macro and for one whose expansion is under
\* way (inUse: Macro::expansionCount > 0, which the macro expander maintains).
parseUndef(name, inUse, malformed, extra, eof) ==
  /\ ~done /\ ~skipping /\ UNCHANGED condVars
  /\ LET macros == settledMacros
         bad == \/ malformed
                \/ name \in DOMAIN macros /\ (macros[name].predefined \/ inUse)
     IN  /\ mMacroSet' = IF bad THEN macros
                         ELSE [n \in DOMAIN macros \ {name} |-> macros[n]]
         /\ out' = IF bad \/ name \notin DOMAIN macros THEN "none" ELSE "undef"
         /\ EndLine(bad \/ extra \/ settleError, eof)
  /\ SettleVersion
  /\ UNCHANGED <<mSeenNonPreprocessorToken, mShaderVersion>>

\* #error
parseError(eof) ==
  /\ ~done /\ ~skipping /\ UNCHANGED condVars
  /\ out' = "error" /\ DirectiveEnd(TRUE, eof)

\* #pragma: malformed ones only warn, empty ones are ignored; the handler may
\* refuse the value.
parsePragma(notify, refused, eof) ==
  /\ ~done /\ ~skipping /\ UNCHANGED condVars
  /\ out' = IF notify THEN "pragma" ELSE "none"
  /\ DirectiveEnd(notify /\ refused, eof)

\* #extension: too late after program text, except that WebGL only warns before
\* ESSL 3.00; the handler may refuse the name or the behaviour.
parseExtension(malformed, refused, eof) ==
  /\ ~done /\ ~skipping /\ UNCHANGED condVars
  /\ LET late == mSeenNonPreprocessorToken
                   /\ (mShaderVersion >= 300 \/ shaderSpec # "WEBGL")
         valid == ~malformed /\ ~late
     IN  /\ out' = IF valid THEN "extension" ELSE "none"
         /\ DirectiveEnd(~valid \/ refused, eof)

\* Which #version lines parse: ESSL below 3.00 takes no profile, from 3.00 on it
\* takes "es"; desktop GLSL takes "core" or, before a newline, nothing.
versionWellFormed(version, profile, extra, eof) ==
  /\ ~extra
  /\ IF isDesktopGLSpec THEN profile = "core" \/ (profile = "none" /\ ~eof)
     ELSE profile = IF version < 300 THEN "none" ELSE "es"

\* #version: only as the first statement, and from 3.00 on only on line 1.
parseVersion(version, profile, badNumber, extra, firstLine, eof) ==
  /\ ~done /\ ~skipping /\ UNCHANGED condVars
  /\ LET valid == /\ ~mPastFirstStatement
                  /\ ~badNumber
                  /\ versionWellFormed(version, profile, extra, eof)
                  /\ version >= 300 => firstLine
     IN  /\ out' = IF valid THEN "version" ELSE "none"
         /\ IF valid
              THEN /\ mShaderVersion' = version
                   /\ mMacroSet' = handleVersion(mMacroSet, version)
                   /\ mHandledVersion' = TRUE
                   /\ versionCalls' = versionCalls + 1
                   /\ EndLine(~versionSupported(version), eof)
              ELSE /\ EndLine(TRUE, eof)
                   /\ UNCHANGED <<mShaderVersion, versionVars>>
  /\ UNCHANGED mSeenNonPreprocessorToken

\* #line: a malformed one is an error (line numbers are not modelled).
parseLine(bad, eof) ==
  /\ ~done /\ ~skipping /\ UNCHANGED condVars
  /\ out' = IF bad THEN "none" ELSE "line"
  /\ DirectiveEnd(bad, eof)

\* A name that is no directive.
invalidDirective(eof) ==
  /\ ~done /\ ~skipping /\ UNCHANGED condVars
  /\ out' = "none" /\ DirectiveEnd(TRUE, eof)

MacroNames == UserMacros \cup ReservedNames \cup {VersionMacro, EsMacro}

Conditional(eof) ==
  \/ \E cond, bad \in BOOLEAN : parseIf(cond, bad, eof) \/ parseElif(cond, bad, eof)
  \/ \E name \in MacroNames, negated, malformed, extra \in BOOLEAN :
       parseIfdef(name, negated, malformed, extra, eof)
  \/ \E extra \in BOOLEAN : parseElse(extra, eof) \/ parseEndif(extra, eof)

MacroDirective(eof) ==
  \E name \in MacroNames, malformed \in BOOLEAN :
    \/ \E value \in Values : parseDefine(name, value, malformed, eof)
    \/ \E inUse, extra \in BOOLEAN : parseUndef(name, inUse, malformed, extra, eof)

OtherDirective(eof) ==
  \/ EmptyDirective(eof)
  \/ invalidDirective(eof)
  \/ parseError(eof)
  \/ \E bad \in BOOLEAN : parseLine(bad, eof) \/ SkippedDirective(bad, eof)
  \/ \E b, refused \in BOOLEAN :
       parsePragma(b, refused, eof) \/ parseExtension(b, refused, eof)
  \/ \E version \in Versions, profile \in {"none", "es", "core", "other"},
        badNumber, extra, firstLine \in BOOLEAN :
       parseVersion(version, profile, badNumber, extra, firstLine, eof)

Next ==
  \/ Text
  \/ EndOfInput
  \/ \E eof \in BOOLEAN : Conditional(eof) \/ MacroDirective(eof) \/ OtherDirective(eof)

Spec == Init /\ [][Next]_vars

-----------------------------------------------------------------------------
(* Properties                                                              *)

Macro == [predefined : BOOLEAN, value : Values \cup Versions \cup {1, 100}]

\* Type invariant of the directive parser's state.
TypeOK ==
  /\ mConditionalStack \in Seq(ConditionalBlock)
  /\ history \in Seq([conds : Seq(BOOLEAN), hasElse : BOOLEAN])
  /\ Len(history) = Len(mConditionalStack)
  /\ {mHandledVersion, mPastFirstStatement, mSeenNonPreprocessorToken, error, done}
       \subseteq BOOLEAN
  /\ mShaderVersion \in Versions \cup {100}
  /\ shaderSpec \in ShaderSpecs
  /\ DOMAIN mMacroSet \subseteq MacroNames \cup ExtensionMacros
  /\ \A n \in DOMAIN mMacroSet : mMacroSet[n] \in Macro
  /\ out \in Effects \cup {"none", "token", "dropped"}
  /\ versionCalls \in Nat

\* What the four flags of an open block mean: skipBlock is set when an
\* enclosing group is excluded; otherwise skipGroup tells whether the current
\* group is excluded, foundValidGroup whether some group so far was taken, and
\* foundElseGroup whether #else was seen.
FlagsFollowHistory ==
  /\ Len(history) = Len(mConditionalStack)
  /\ \A i \in 1..Len(mConditionalStack) :
       LET block == mConditionalStack[i]
           conds == history[i].conds
       IN  /\ Len(conds) > 0
           /\ block.skipBlock <=> \E j \in 1..(i - 1) : ~Abstract!Selected(history[j])
           /\ ~block.skipBlock =>
                /\ block.skipGroup <=> ~Abstract!Selected(history[i])
                /\ block.foundValidGroup <=> \E k \in 1..Len(conds) : conds[k]
                /\ block.foundElseGroup <=> history[i].hasElse

\* skipping() looks at the innermost block only; it must nevertheless say that
\* a line is excluded exactly when SOME open block's current group is not the
\* selected one.
SkippingIsExclusion == skipping <=> ~Abstract!Included

\* The parser implements conditional inclusion: groups open and close as the
\* directives say, and a line takes effect exactly when every open block's
\* current group is selected.
ImplementsInclusion == Abstract!Spec

\* Inside a group that lies in an excluded group no line reports an error ("Be
\* careful not to emit a diagnostic"), except an #endif, whose trailing tokens
\* are checked everywhere, and the end of the input.
EnclosingExcluded == \E i \in 1..(Len(history) - 1) : ~Abstract!Selected(history[i])
QuietWhenExcluded ==
  [][EnclosingExcluded /\ ~done' /\ Len(history') >= Len(history) => error' = error]_vars

\* The handler learns the version exactly once, and before any program text is
\* delivered; __VERSION__ then has the value that #extension is judged by.
VersionHandledOnce ==
  /\ versionCalls = IF mHandledVersion THEN 1 ELSE 0
  /\ mSeenNonPreprocessorToken => mHandledVersion
  /\ mHandledVersion => /\ VersionMacro \in DOMAIN mMacroSet
                        /\ mMacroSet[VersionMacro].value = mShaderVersion

\* A macro keeps its body for as long as it is defined, so settling the version
\* never overwrites a user's macro, and a predefined macro is never removed.
MacrosStable ==
  [][\A n \in DOMAIN mMacroSet :
       /\ n \in DOMAIN mMacroSet' => mMacroSet'[n] = mMacroSet[n]
       /\ mMacroSet[n].predefined => n \in DOMAIN mMacroSet']_vars
=============================================================================
