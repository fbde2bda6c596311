--------------------------- MODULE MacroExpander ----------------------------
(***************************************************************************)
(* Macro expansion (src/src/compiler/preprocessor/MacroExpander.cpp).      *)
(*                                                                         *)
(* frames is the stack of live MacroExpander objects: the main one, one    *)
(* for the arguments of every invocation being pre-expanded ("arg"), and   *)
(* one for an #if or #line being evaluated ("dir").  Only the last runs.   *)
(* A step is one getToken() and what lex() or collectMacroArgs() does with *)
(* the token, or one popMacro().  The source is chosen token by token; a   *)
(* directive is processed where the main expander asks for a token, also   *)
(* in the middle of the arguments of an invocation.                        *)
(***************************************************************************)
EXTENDS Integers, Sequences, FiniteSets

CONSTANTS
  Text,                \* texts a token may have, unless it is LAST
  Definitions,         \* what #define may define: [name, func, arity, body]
  SourceTokens,        \* texts the tokenizer may produce
  InitialMacros,       \* the sets of definitions a run starts from
  WebGL,               \* IsWebGLBasedSpec(shaderSpec)
  kMaxContextTokens,
  maxMacroExpansionDepth,
  MaxFuel,             \* bound on the source tokens of a run
  MaxMacros            \* bound on the macro objects of a run

Definition == [name : Text, func : BOOLEAN, arity : Nat, body : Seq(Text)]
ASSUME TextAssumption ==
  /\ "LAST" \notin Text
  /\ SourceTokens \cup {"nl", "x"} \subseteq Text
  /\ Definitions \subseteq Definition
  /\ InitialMacros \subseteq Seq(Definition)
ASSUME LimitAssumption == kMaxContextTokens \in Nat /\ maxMacroExpansionDepth \in Nat

VARIABLES
  frames,              \* live expanders, the running one last
  macros,              \* macro objects by identity: the definition, disabled, count
  mMacroSet,           \* name |-> macro object
  error,               \* an error has been reported
  done,                \* the main expander has returned LAST
  eof,                 \* the tokenizer is at the end of the input
  fuel,                \* source tokens left
  expression,          \* how far the parser of an #if or #line has come
  abandoned            \* an #if or #line expander was destroyed with contexts (auxiliary)

vars == <<frames, macros, mMacroSet, error, done, eof, fuel, expression, abandoned>>
sourceVars == <<eof, fuel>>

\* As in SequencesExt, of which these are all that is needed.
Front(s) == SubSeq(s, 1, Len(s) - 1)
Last(s) == s[Len(s)]
Contains(s, x) == \E i \in 1..Len(s) : s[i] = x

Names == {d.name : d \in Definitions}
Identifiers == Names \cup {"defined"}
Tok(text) == [text |-> text, expansionDisabled |-> FALSE]
EODs == {"nl", "LAST"}

\* The locals of collectMacroArgs() for the macro being invoked.
NoCall == [macro |-> 0, openParens |-> 0, args |-> <<>>, arg |-> 0, numTokens |-> 0, first |-> TRUE]

\* ExpressionParser: unclosed parentheses; whether an operand has just ended; whether
\* || or && skips it; whether it belongs to the file number of #line.
NoExpression == [open |-> 0, ends |-> FALSE, skip |-> FALSE, file |-> FALSE]

NewExpander(kind, lexer, depth, parseDefined) ==
  [kind |-> kind, lexer |-> lexer, depth |-> depth, parseDefined |-> parseDefined, pc |-> "lex", reserve |-> <<>>,
   contexts |-> <<>>, total |-> 0, reenable |-> <<>>, call |-> NoCall]

\* Expander e at pc in lex(), with the locals of collectMacroArgs() given.
at(e, pc, call) == [e EXCEPT !.pc = pc, !.call = call]

NewMacro(d) ==
  [name |-> d.name, func |-> d.func, arity |-> d.arity, body |-> d.body,
   disabled |-> FALSE, expansionCount |-> 0]

Init ==
  /\ \E defs \in InitialMacros :
       /\ macros = [i \in 1..Len(defs) |-> NewMacro(defs[i])]
       /\ mMacroSet = [n \in {defs[i].name : i \in 1..Len(defs)} |->
                         CHOOSE i \in 1..Len(defs) : defs[i].name = n]
  /\ frames = <<NewExpander("main", <<>>, maxMacroExpansionDepth, FALSE)>>
  /\ error = FALSE /\ done = FALSE /\ eof = FALSE /\ fuel = MaxFuel
  /\ expression = NoExpression /\ abandoned = FALSE

-----------------------------------------------------------------------------
(* getToken(), ungetToken(), popMacro()                                    *)

top == Last(frames)
context == Last(top.contexts)
contextEmpty == context.index = Len(context.replacements)

\* mDeferReenablingMacros: set while arguments are collected and expanded.
deferReenabling == top.pc = "collect"

\* Whether getToken() will ask mLexer.
asksLexer == top.reserve = <<>> /\ top.contexts = <<>>

\* Mutant of popMacro: the total is not taken back.
popMacroKeepsTotal ==
  /\ ~done /\ top.reserve = <<>> /\ top.contexts # <<>>
  /\ contextEmpty
  /\ macros' = [macros EXCEPT ![context.macro].expansionCount = @ - 1,
                              ![context.macro].disabled = deferReenabling]
  /\ frames' = Append(Front(frames),
       [top EXCEPT !.contexts = Front(@),
                   !.reenable = IF deferReenabling THEN Append(@, context.macro) ELSE @])
  /\ UNCHANGED <<mMacroSet, error, done, expression, abandoned, sourceVars>>

\* Mutant of popMacro: re-enables at once while arguments are collected.
popMacroEager ==
  /\ ~done /\ top.reserve = <<>> /\ top.contexts # <<>>
  /\ contextEmpty
  /\ macros' = [macros EXCEPT ![context.macro].expansionCount = @ - 1, ![context.macro].disabled = FALSE]
  /\ frames' = Append(Front(frames),
       [top EXCEPT !.contexts = Front(@),
                   !.total = @ - Len(context.replacements),
                   !.reenable = IF deferReenabling THEN Append(@, context.macro) ELSE @])
  /\ UNCHANGED <<mMacroSet, error, done, expression, abandoned, sourceVars>>

popMacro ==
  /\ ~done /\ top.reserve = <<>> /\ top.contexts # <<>>
  /\ contextEmpty
  /\ macros' = [macros EXCEPT ![context.macro].expansionCount = @ - 1,
                              ![context.macro].disabled = deferReenabling]
  /\ frames' = Append(Front(frames),
       [top EXCEPT !.contexts = Front(@),
                   !.total = @ - Len(context.replacements),
                   !.reenable = IF deferReenabling THEN Append(@, context.macro) ELSE @])
  /\ UNCHANGED <<mMacroSet, error, done, expression, abandoned, sourceVars>>

\* What the tokenizer may give next; the expander of a directive sees newlines.
sourceTexts ==
  IF eof \/ fuel = 0 THEN {"LAST"}
  ELSE SourceTokens \cup {"LAST"} \cup (IF top.kind = "dir" THEN {"nl"} ELSE {})

\* getToken() once empty contexts are popped: its possible results, with the
\* expander it leaves behind and whether the source was read.
getToken ==
  LET got(token, e) == {[token |-> token, expander |-> e, fromSource |-> FALSE]}
  IN  CASE top.reserve # <<>> ->
             got(top.reserve[1], [top EXCEPT !.reserve = <<>>])
        [] top.reserve = <<>> /\ top.contexts # <<>> ->
             IF contextEmpty THEN {}
             ELSE got(context.replacements[context.index + 1],
                      [top EXCEPT !.contexts[Len(top.contexts)].index = @ + 1])
        [] asksLexer /\ top.kind = "arg" ->
             IF top.lexer = <<>> THEN got(Tok("LAST"), top)
             ELSE got(Head(top.lexer), [top EXCEPT !.lexer = Tail(@)])
        [] asksLexer /\ top.kind # "arg" ->
             {[token |-> Tok(text), expander |-> top, fromSource |-> TRUE] : text \in sourceTexts}

\* What getting a token does to the source.
readSource(got) ==
  IF ~got.fromSource THEN UNCHANGED sourceVars
  ELSE /\ eof' = (got.token.text = "LAST")
       /\ fuel' = IF got.token.text = "LAST" THEN fuel ELSE fuel - 1

\* A token that came from the top context goes back there.
ungetToken(token, e) ==
  IF e.contexts # <<>>
    THEN [e EXCEPT !.contexts[Len(e.contexts)].index = @ - 1]
    ELSE [e EXCEPT !.reserve = <<token>>]

-----------------------------------------------------------------------------
(* pushMacro(), expandMacro()                                              *)

\* ~ScopedMacroReenabler
reenabled(table, e) ==
  [m \in DOMAIN table |->
     IF Contains(e.reenable, m) THEN [table[m] EXCEPT !.disabled = FALSE] ELSE table[m]]

\* pushMacro() after a successful expandMacro(): stack is the frames below e.
push(stack, e, table, m, replacements) ==
  /\ macros' = [table EXCEPT ![m].disabled = TRUE]
  /\ frames' = Append(stack, [e EXCEPT
       !.pc = "lex", !.call = NoCall, !.reenable = <<>>,
       !.contexts = Append(@, [macro |-> m, replacements |-> replacements, index |-> 0]),
       !.total = @ + Len(replacements)])

\* expandMacro() failed: lex() goes on, expansionCount is not taken back.
fail(stack, e, table) ==
  /\ error' = TRUE
  /\ macros' = reenabled(table, e)
  /\ frames' = Append(stack, [at(e, "lex", NoCall) EXCEPT !.reenable = <<>>])

\* replaceMacroParams(): parameters give way to the expanded arguments; the list
\* is cut, with an error, when it grows past kMaxContextTokens.
params == <<"p", "q">>
Replace(e, body) ==
  LET Step(acc, text) ==
        IF acc.cut \/ (acc.list # <<>> /\ Len(acc.list) + e.total > kMaxContextTokens)
          THEN [acc EXCEPT !.cut = TRUE]
        ELSE IF \E i \in 1..Len(e.call.args) : params[i] = text
          THEN [acc EXCEPT !.list = @ \o
                  e.call.args[CHOOSE i \in 1..Len(e.call.args) : params[i] = text]]
        ELSE [acc EXCEPT !.list = Append(@, Tok(text))]
      after[n \in 0..Len(body)] ==
        IF n = 0 THEN [list |-> <<>>, cut |-> FALSE] ELSE Step(after[n - 1], body[n])
  IN  after[Len(body)]

\* The next argument gets an expander of its own; after the last one the
\* parameters are replaced and the macro is pushed.
expandArgs(stack, e, table, bad) ==
  LET call == e.call
      result == Replace(e, table[call.macro].body)
  IN  \/ /\ call.arg > Len(call.args)
         /\ push(stack, e, reenabled(table, e), call.macro, result.list)
         /\ error' = (error \/ bad \/ result.cut)
      \/ /\ call.arg <= Len(call.args) /\ e.depth < 1
         /\ fail(stack, e, table)
      \/ /\ call.arg <= Len(call.args) /\ e.depth >= 1
         /\ frames' = Append(Append(stack, at(e, "args", [call EXCEPT !.args[call.arg] = <<>>])),
                             NewExpander("arg", call.args[call.arg], e.depth - 1, e.parseDefined))
         /\ macros' = table /\ error' = (error \/ bad)

-----------------------------------------------------------------------------
(* ExpressionParser (preprocessor.y), as far as it decides about errors    *)

\* The expression may end here.
complete == expression.ends /\ expression.open = 0

\* An operand may begin: in its place, or after the line number of #line.
operandBegins(e) == expression.ends => complete /\ ~e.parseDefined /\ ~expression.file

\* The parser takes token and goes on.  An identifier is reported unless its
\* operand is skipped; errors that depend on values are reported with an operand.
parseToken(token, e, bad) ==
  LET operand == [expression EXCEPT !.file = @ \/ expression.ends, !.skip = @ /\ ~expression.ends]
  IN  \/ /\ token.text = "(" /\ operandBegins(e)
         /\ expression' = [operand EXCEPT !.open = @ + 1, !.ends = FALSE]
         /\ error' = (error \/ bad)
      \/ /\ token.text = ")" /\ expression.ends /\ expression.open > 0
         /\ expression' = [expression EXCEPT !.open = @ - 1]
         /\ error' = (error \/ bad)
      \/ /\ token.text \in Identifiers /\ operandBegins(e)
         /\ expression' = [operand EXCEPT !.ends = TRUE]
         /\ error' = (error \/ bad \/ ~operand.skip)
      \/ \* An integer or a unary operator.
         /\ token.text \notin Identifiers \cup {"(", ")", ","} /\ operandBegins(e)
         /\ \E ends \in BOOLEAN : expression' = [operand EXCEPT !.ends = ends]
         /\ error' \in {error \/ bad, TRUE}
      \/ \* A binary operator; after || and && an operand may be skipped.
         /\ token.text \notin Identifiers \cup {"(", ")", ","} /\ expression.ends
         /\ \E skip \in BOOLEAN :
              expression' = [expression EXCEPT !.ends = FALSE, !.skip = skip]
         /\ error' \in {error \/ bad, TRUE}

-----------------------------------------------------------------------------
\* lex() of expander e, at its beginning again, returns token to its caller, with
\* the macro table given.
return(token, e, table, bad) ==
  LET last == token.text = "LAST"
      below == Front(frames)
      caller == Last(below)
      call == caller.call
      count == call.numTokens + (IF call.first THEN 0 ELSE 1)
  IN  \/ /\ e.kind = "main"
         /\ done' = last /\ frames' = Append(below, e) /\ UNCHANGED <<expression, abandoned>>
         /\ macros' = table /\ error' = (error \/ bad)
      \/ \* The expression parser goes on, or gives up with an error, or has its line.
         /\ e.kind = "dir"
         /\ \/ /\ token.text \notin EODs /\ frames' = Append(below, e)
               /\ parseToken(token, e, bad) /\ UNCHANGED abandoned
            \/ /\ token.text \notin EODs /\ frames' = below /\ error' = TRUE
               /\ expression' = NoExpression /\ abandoned' = (abandoned \/ e.contexts # <<>>)
            \/ /\ token.text \in EODs /\ frames' = below /\ error' = (error \/ bad \/ ~complete)
               /\ expression' = NoExpression /\ abandoned' = (abandoned \/ e.contexts # <<>>)
         /\ macros' = table /\ UNCHANGED done
      \/ /\ e.kind = "arg" /\ ~call.first /\ count + caller.total > kMaxContextTokens
         /\ fail(Front(below), caller, table)
         /\ UNCHANGED <<done, expression, abandoned>>
      \/ /\ e.kind = "arg" /\ (call.first \/ count + caller.total <= kMaxContextTokens)
         /\ IF last
              THEN expandArgs(Front(below),
                     at(caller, "args", [call EXCEPT !.arg = @ + 1, !.numTokens = count, !.first = TRUE]),
                     table, bad)
              ELSE /\ frames' = Append(Append(Front(below),
                        at(caller, "args", [call EXCEPT !.args[call.arg] = Append(@, token),
                                                        !.numTokens = count, !.first = FALSE])), e)
                   /\ macros' = table /\ error' = (error \/ bad)
         /\ UNCHANGED <<done, expression, abandoned>>

-----------------------------------------------------------------------------
(* lex() and collectMacroArgs()                                            *)

continue(e, pc, call) == frames' = Append(Front(frames), at(e, pc, call))

\* lex(): what becomes of a token.
lexToken(token, e) ==
  LET m == mMacroSet[token.text]
      expandable == /\ token.text \in DOMAIN mMacroSet
                    /\ ~token.expansionDisabled
      counted == [macros EXCEPT ![m].expansionCount = @ + 1]
      isDefined == /\ token.text = "defined" /\ e.parseDefined
                   /\ e.contexts # <<>> => ~WebGL
  IN  \/ /\ isDefined
         /\ continue(e, "defined", e.call)
         /\ UNCHANGED <<macros, error, done, expression, abandoned>>
      \/ /\ ~expandable /\ ~isDefined
         /\ return(token, e, macros, FALSE)
      \/ /\ expandable /\ macros[m].disabled
         /\ return([token EXCEPT !.expansionDisabled = TRUE], e, macros, FALSE)
      \/ /\ expandable /\ ~macros[m].disabled /\ ~macros[m].func
         /\ push(Front(frames), e, counted, m, [i \in 1..Len(macros[m].body) |-> Tok(macros[m].body[i])])
         /\ UNCHANGED <<error, done, expression, abandoned>>
      \/ /\ expandable /\ ~macros[m].disabled /\ macros[m].func
         /\ macros' = counted
         /\ continue(e, "peek", [e.call EXCEPT !.macro = m])
         /\ UNCHANGED <<error, done, expression, abandoned>>

\* lex(): the operand of defined.
definedToken(token, e) ==
  \/ /\ e.pc = "defined" /\ token.text = "("
     /\ continue(e, "definedParen", e.call) /\ UNCHANGED <<macros, error, done, expression, abandoned>>
  \/ /\ e.pc = "definedParen" /\ token.text \in Identifiers
     /\ continue(e, "definedClose", e.call) /\ UNCHANGED <<macros, error, done, expression, abandoned>>
  \/ /\ \/ e.pc = "defined" /\ token.text \in Identifiers
        \/ e.pc = "definedClose" /\ token.text = ")"
     /\ return(Tok("x"), at(e, "lex", e.call), macros, FALSE)
  \/ /\ \/ e.pc = "defined" /\ token.text \notin Identifiers \cup {"("}
        \/ e.pc = "definedParen" /\ token.text \notin Identifiers
        \/ e.pc = "definedClose" /\ token.text # ")"
     /\ return(token, at(e, "lex", e.call), macros, TRUE)

\* Mutant of peekToken: the count stays up when no '(' follows.
peekTokenStaysCounted(token, e) ==
  IF token.text = "("
    THEN /\ continue(e, "collect", [e.call EXCEPT !.openParens = 1, !.args = << <<>> >>])
         /\ UNCHANGED <<macros, error, done, expression, abandoned>>
    ELSE return(Tok(macros[e.call.macro].name), at(ungetToken(token, e), "lex", NoCall),
                macros, FALSE)

\* isNextTokenLeftParen(); the '(' is put back and read again by
\* collectMacroArgs(), which is one step here.
peekToken(token, e) ==
  LET m == e.call.macro IN
  IF token.text = "("
    THEN /\ continue(e, "collect", [e.call EXCEPT !.openParens = 1, !.args = << <<>> >>])
         /\ UNCHANGED <<macros, error, done, expression, abandoned>>
    ELSE return(Tok(macros[m].name), at(ungetToken(token, e), "lex", NoCall),
                [macros EXCEPT ![m].expansionCount = @ - 1], FALSE)

\* The closing parenthesis: the arguments are counted, then expanded.
endOfArgs(e) ==
  LET arity == macros[e.call.macro].arity
      args == IF arity = 0 /\ e.call.args = << <<>> >> THEN <<>> ELSE e.call.args
  IN  IF Len(args) # arity THEN fail(Front(frames), e, macros)
      ELSE expandArgs(Front(frames), at(e, "collect", [e.call EXCEPT !.args = args, !.arg = 1]), macros, FALSE)

\* Mutant of collectToken: does not stop at the end of the input.
collectTokenPastEnd(token, e) ==
  /\ token.text = "LAST" /\ continue(ungetToken(token, e), "collect", e.call)
  /\ UNCHANGED <<macros, error, done, expression, abandoned>>

\* collectMacroArgs(): what becomes of a token between the parentheses.
collectToken(token, e) ==
  LET call == e.call
      arg == Len(call.args)
      keep(parens) == /\ continue(e, "collect", [call EXCEPT !.openParens = parens,
                                                          !.args[arg] = Append(@, token)])
                      /\ UNCHANGED <<macros, error>>
  IN  /\ \/ token.text = "LAST" /\ fail(Front(frames), ungetToken(token, e), macros)
         \/ token.text = "(" /\ keep(call.openParens + 1)
         \/ token.text = ")" /\ call.openParens > 1 /\ keep(call.openParens - 1)
         \/ token.text = ")" /\ call.openParens = 1 /\ endOfArgs(e)
         \/ /\ token.text = "," /\ call.openParens = 1
            /\ continue(e, "collect", [call EXCEPT !.args = Append(@, <<>>)])
            /\ UNCHANGED <<macros, error>>
         \/ /\ token.text \notin {"LAST", "(", ")"}
            /\ token.text = "," => call.openParens > 1
            /\ keep(call.openParens)
      /\ UNCHANGED <<done, expression, abandoned>>

running == ~done /\ UNCHANGED mMacroSet

lex ==
  /\ running /\ top.pc = "lex"
  /\ \E got \in getToken : lexToken(got.token, got.expander) /\ readSource(got)
lexDefined ==
  /\ running /\ top.pc \in {"defined", "definedParen", "definedClose"}
  /\ \E got \in getToken : definedToken(got.token, got.expander) /\ readSource(got)
isNextTokenLeftParen ==
  /\ running /\ top.pc = "peek"
  /\ \E got \in getToken : peekToken(got.token, got.expander) /\ readSource(got)
collectMacroArgs ==
  /\ running /\ top.pc = "collect"
  /\ \E got \in getToken : collectToken(got.token, got.expander) /\ readSource(got)

-----------------------------------------------------------------------------
(* Directives met when the main expander asks for a token                  *)

betweenTokens == ~done /\ ~eof /\ fuel > 0 /\ top.kind = "main" /\ asksLexer

parseDefine(d) ==
  /\ betweenTokens
  /\ d.name \notin DOMAIN mMacroSet /\ Len(macros) < MaxMacros
  /\ macros' = Append(macros, NewMacro(d))
  /\ mMacroSet' = [n \in DOMAIN mMacroSet \cup {d.name} |->
                     IF n = d.name THEN Len(macros) + 1 ELSE mMacroSet[n]]
  /\ fuel' = fuel - 1
  /\ UNCHANGED <<frames, error, done, eof, expression, abandoned>>

\* Mutant of parseUndef: removes macros that are being invoked.
parseUndefAlways(name) ==
  /\ betweenTokens
  /\ name \in DOMAIN mMacroSet
  /\ mMacroSet' = [n \in DOMAIN mMacroSet \ {name} |-> mMacroSet[n]]
  /\ fuel' = fuel - 1
  /\ UNCHANGED <<frames, macros, error, done, eof, expression, abandoned>>

\* #undef of a macro whose invocation is under way is an error.
parseUndef(name) ==
  /\ betweenTokens
  /\ name \in DOMAIN mMacroSet
  /\ IF macros[mMacroSet[name]].expansionCount > 0
       THEN error' = TRUE /\ UNCHANGED mMacroSet
       ELSE /\ mMacroSet' = [n \in DOMAIN mMacroSet \ {name} |-> mMacroSet[n]]
            /\ UNCHANGED error
  /\ fuel' = fuel - 1
  /\ UNCHANGED <<frames, macros, done, eof, expression, abandoned>>

\* #if, #elif and #line expand their line with an expander of their own.
parseExpression ==
  /\ betweenTokens
  /\ \E parseDefined \in BOOLEAN :
       frames' = Append(frames, NewExpander("dir", <<>>, maxMacroExpansionDepth, parseDefined))
  /\ fuel' = fuel - 1
  /\ UNCHANGED <<macros, mMacroSet, error, done, eof, expression, abandoned>>

expand == popMacro \/ lex \/ lexDefined \/ isNextTokenLeftParen \/ collectMacroArgs

Next ==
  \/ expand
  \/ parseExpression
  \/ \E d \in Definitions : parseDefine(d)
  \/ \E name \in Names : parseUndef(name)

Spec == Init /\ [][Next]_vars /\ WF_vars(Next)

-----------------------------------------------------------------------------
(* Properties                                                              *)

\* The tokens of all the contexts of an expander.
TokensIn(contexts) ==
  LET sum[n \in 0..Len(contexts)] ==
        IF n = 0 THEN 0 ELSE sum[n - 1] + Len(contexts[n].replacements)
  IN  sum[Len(contexts)]
InContexts(m) ==
  UNION {{<<i, j>> : j \in {k \in DOMAIN frames[i].contexts : frames[i].contexts[k].macro = m}}
           : i \in DOMAIN frames}
Invoking(m) ==
  {i \in DOMAIN frames : frames[i].pc \in {"peek", "collect", "args"} /\ frames[i].call.macro = m}
AwaitsReenabling(m) == \E i \in DOMAIN frames : Contains(frames[i].reenable, m)

\* The macro set names live macro objects, and the context stacks and the token
\* total agree: contexts are non-empty lists of known macros, the total is the sum
\* of their lengths, and a reserve token is held only over an empty stack (the
\* assertions of getToken() and ungetToken()).
TypeOK ==
  /\ \A n \in DOMAIN mMacroSet : macros[mMacroSet[n]].name = n
  /\ \A i \in DOMAIN frames :
       LET e == frames[i] IN
       /\ e.total = TokensIn(e.contexts)
       /\ \A j \in DOMAIN e.contexts :
            LET c == e.contexts[j] IN c.macro \in DOMAIN macros /\ c.index \in 0..Len(c.replacements)
       /\ e.reserve # <<>> => e.contexts = <<>>
       /\ e.kind = "main" <=> i = 1
       /\ i < Len(frames) => e.pc \in {"args", "lex", "peek", "collect"}

\* Nothing has gone wrong that leaves a macro marked: no error was reported, and
\* no directive's expander was destroyed in the middle of an expansion.
clean == ~error /\ ~abandoned

\* expansionCount, which #undef relies on, never undercounts the expansions and
\* invocations under way, and is exact while the state is clean (a failed
\* invocation is never counted down again).
ExpansionCountExact ==
  \A m \in DOMAIN macros :
    LET uses == Cardinality(InContexts(m)) + Cardinality(Invoking(m)) IN
    /\ macros[m].expansionCount >= uses
    /\ clean => macros[m].expansionCount = uses

\* A macro is being expanded at most once in all live expanders together, and is
\* disabled while it is or while its re-enabling is deferred; while the state is
\* clean it is disabled only then.
DisabledWhileExpanded ==
  \A m \in DOMAIN macros :
    /\ Cardinality(InContexts(m)) <= 1
    /\ InContexts(m) # {} \/ AwaitsReenabling(m) => macros[m].disabled
    /\ clean /\ macros[m].disabled => InContexts(m) # {} \/ AwaitsReenabling(m)

\* "otherwise there could be a #undef of the macro before the next token": no
\* directive removes or replaces a macro that is being expanded or invoked.
InUseStaysDefined ==
  \A m \in DOMAIN macros :
    InContexts(m) # {} \/ Invoking(m) # {} =>
      /\ macros[m].name \in DOMAIN mMacroSet
      /\ mMacroSet[macros[m].name] = m

\* Expansion always finishes: self-referential and mutually recursive macros,
\* unterminated invocations and the limits included, LAST is returned.
Terminates == <>done

\* "macro undefined while being invoked" is what #undef reports when it finds
\* expansionCount > 0: in a shader without errors so far, such a macro really is
\* being expanded or invoked.
CountedOnlyWhenInvoked ==
  ~error => \A m \in DOMAIN macros :
              macros[m].expansionCount > 0 => InContexts(m) # {} \/ Invoking(m) # {}
=============================================================================
