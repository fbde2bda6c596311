------------------------ MODULE MacroExpanderProofs -------------------------
(***************************************************************************)
(* Every step of the macro expander keeps the invariant IInv of            *)
(* MacroExpanderInv, and the four invariants of MacroExpander follow.      *)
(***************************************************************************)
EXTENDS MacroExpanderInv

\* A good state with a running expander on top is sound.
LEMMA SoundTop ==
  ASSUME NEW B \in Seq(Frame), NEW e \in Frame, NEW M, NEW S, NEW c, Good(Append(B, e), M, S, c), e.pc # "args"
  PROVE  Sound(Append(B, e), M, S, c)
<1>1. Append(B, e) # <<>> /\ Last(Append(B, e)) = e
  BY AppendFacts
<1> QED
  BY <1>1, Zenon DEF Sound

\* Getting a token keeps the stack good.
LEMMA GotGood ==
  ASSUME Laws, NEW B \in Seq(Frame), NEW d \in Frame, NEW M, NEW S, NEW c \in BOOLEAN, NEW c2 \in BOOLEAN, c2 => c,
         Good(Append(B, d), M, S, c), NEW token, NEW e, Got(d, token, e)
  PROVE  Good(Append(B, e), M, S, c2) /\ Got(e, token, e) /\ e.pc = d.pc
<1>1. Local(e) /\ e.kind = d.kind /\ In(e) = In(d) /\ e.pc = d.pc /\ e.call = d.call /\ e.reenable = d.reenable
  BY Zenon DEF Got
<1>2. Re(e) = Re(d) /\ Iv(e) = Iv(d)
  BY <1>1, Zenon DEF Re, Iv
<1>3. Good(Append(B, e), M, S, c2)
  BY <1>1, <1>2, GoodSame
<1>4. Got(e, token, e)
  BY <1>1, Zenon DEF Got
<1> QED
  BY Zenon, <1>1, <1>3, <1>4

\* What is known of an expander and the token it has got.
LEMMA GotFacts ==
  ASSUME NEW e, NEW token, Got(e, token, e)
  PROVE  /\ e \in Frame /\ Local(e) /\ Core(e) /\ token \in Token /\ e.call \in Call
         /\ token.text = "LAST" => e.contexts = <<>>
         /\ e.pc \notin {"collect", "args"} => e.reenable = <<>> /\ Re(e) = {}
         /\ e.pc \notin {"peek", "collect", "args"} => Iv(e) = {}
         /\ e.pc \in {"peek", "collect", "args"} => Iv(e) = {e.call.macro}
<1>1. Local(e) /\ token \in Token /\ e.reserve = <<>> /\ (token.text = "LAST" => e.contexts = <<>>)
  BY Zenon DEF Got
<1>2. Core(e) /\ e \in Frame
  BY <1>1, CoreOfLocal, Zenon DEF Core, Calm
<1>3. e.pc \notin {"collect", "args"} => e.reenable = <<>>
  BY <1>1, Zenon DEF Local
<1>4. e.reenable = <<>> => Re(e) = {}
  BY DEF Re, Elements
<1>5. e.call \in Call
  BY Zenon, <1>2, FrameFields
<1> QED
  BY Zenon, <1>1, <1>2, <1>3, <1>4, <1>5 DEF Iv

\* expandMacro() fails: the error is on record, so the count may stay up.
LEMMA FailSound ==
  ASSUME Laws, NEW B \in Seq(Frame), NEW d \in Frame, NEW M, NEW S, NEW c \in BOOLEAN, Good(Append(B, d), M, S, c),
         NEW e, Calm(e), e.kind = d.kind, In(e) = In(d), Re(e) = Re(d),
         fail(B, e, M), NEW c2 \in BOOLEAN, c2 => ~error'
  PROVE  Sound(frames', macros', S, c2)
<1> DEFINE g == at(e, "lex", NoCall)
           f == [g EXCEPT !.reenable = <<>>]
<1>1. frames' = Append(B, f) /\ macros' = reenabled(M, e) /\ error' /\ e \in Frame
  BY Zenon DEF fail, Calm
<1>2. NoCall \in Call /\ <<>> \in Seq(Nat)
  BY DEF NoCall, Call
<1>3. At(e, g, "lex", NoCall)
  BY Zenon, <1>1, <1>2, AtFrame
<1> HIDE DEF g
<1>4. Idled(e, f)
  BY Zenon, <1>2, <1>3 DEF At, Idled, Frame
<1> HIDE DEF f
<1>5. Local(f) /\ f \in Frame /\ f.kind = e.kind /\ In(f) = In(e) /\ Re(f) = {} /\ Iv(f) = {} /\ f.pc = "lex"
  BY Zenon, <1>4, IdleFrame
<1>6. Good(Append(B, f), macros', S, c2)
  BY Zenon, <1>1, <1>5, FailGood
<1> QED
  BY Zenon, <1>1, <1>5, <1>6, SoundTop

\* The expander goes on, with the same macros.
LEMMA GoOn ==
  ASSUME Laws, NEW B \in Seq(Frame), B = Front(frames), NEW e, Core(e), NEW S, NEW c \in BOOLEAN,
         Good(Append(B, e), macros, S, c), NEW p \in {"collect"} \cup Defineds, NEW k \in Call,
         continue(e, p, k), macros' = macros,
         p = "collect" => k.args # <<>> /\ Iv(e) = {k.macro},
         p \in Defineds => e.reenable = <<>> /\ Iv(e) = {} /\ e.kind # "main"
  PROVE  Sound(frames', macros', S, c)
<1> DEFINE f == at(e, p, k)
<1>1. frames' = Append(B, f) /\ e \in Frame
  BY Zenon DEF continue, Core, Calm
<1>2. At(e, f, p, k)
  BY Zenon, <1>1, AtFrame
<1> HIDE DEF f
<1>3. Core(f) /\ f \in Frame /\ f.kind = e.kind /\ f.pc = p /\ f.call = k /\ In(f) = In(e) /\ Re(f) = Re(e)
  BY Zenon, <1>2, AtCore
<1>4. Local(f) /\ Iv(f) = Iv(e)
  <2>1. CASE p = "collect"
    BY Zenon, <1>2, <2>1, AtCollecting
  <2>2. CASE p \in Defineds
    <3>1. p # "peek"
      BY Zenon, <2>2 DEF Defineds
    <3> QED BY Zenon, <1>2, <2>2, <3>1, AtOther
  <2> QED BY Zenon, <2>1, <2>2
<1>5. f.pc # "args"
  BY Zenon, <1>3 DEF Defineds
<1>6. Good(Append(B, f), macros, S, c)
  BY <1>1, <1>3, <1>4, GoodSame
<1>7. Sound(Append(B, f), macros, S, c)
  BY Zenon, <1>3, <1>5, <1>6, SoundTop
<1> QED
  BY Zenon, <1>1, <1>7

\* e is d with its arguments collected, or one more of them expanded.
Resumes(d, e) ==
  /\ d.pc \in {"collect", "args"} /\ Core(e) /\ e.kind = d.kind /\ In(e) = In(d) /\ Re(e) = Re(d)
  /\ e.call.macro = d.call.macro /\ e.call.arg >= 1

\* expandMacro() once its arguments are known, or one of them is expanded.
LEMMA ExpandArgs ==
  ASSUME Laws, NEW B \in Seq(Frame), NEW d \in Frame, NEW M, NEW S, NEW c \in BOOLEAN, NEW c2 \in BOOLEAN, c2 => c, c2 => ~error',
         Good(Append(B, d), M, S, c), NEW e, Resumes(d, e), NEW bad, expandArgs(B, e, M, bad)
  PROVE  Sound(frames', macros', S, c2)
<1>0. /\ d.pc \in {"collect", "args"} /\ Core(e) /\ e.kind = d.kind /\ In(e) = In(d) /\ Re(e) = Re(d)
      /\ e.call.macro = d.call.macro /\ e.call.arg >= 1
  BY Zenon DEF Resumes
<1> USE <1>0
<1> DEFINE call == e.call
           m == call.macro
           list == Replace(e, M[m].body).list
           k == [call EXCEPT !.args[call.arg] = <<>>]
           lexer == call.args[call.arg]
           depth == e.depth - 1
           g == NewExpander("arg", lexer, depth, e.parseDefined)
<1>1. Iv(d) = {m} /\ e \in Frame /\ Calm(e)
  BY Zenon DEF Iv, Core, Calm
<1>2. call \in Call /\ call.args \in Seq(Seq(Plain)) /\ call.arg \in Nat /\ e.depth \in Int /\ e.parseDefined \in BOOLEAN
  BY Zenon, <1>1, FrameFields DEF Call
<1>3. /\ Held(d) \subseteq Dis(M) /\ Iv(d) \subseteq Live(M, S) /\ Iv(d) \cap Held(d) = {} /\ M \in Seq(Macro)
  BY GoodParts, Zenon
<1>4. m \in 1..Len(M) /\ m \in Nat /\ m \notin In(e)
  <2>1. m \in Live(M, S) /\ m \notin Held(d)
    BY Zenon, <1>1, <1>3
  <2>2. m \in 1..Len(M)
    BY Zenon, <2>1, LiveIsMacro
  <2> QED BY <2>1, <2>2 DEF Held
<1>5. \/ frames' = Append(B, Pushed(e, m, list)) /\ Marked(reenabled(M, e), m, macros')
      \/ fail(B, e, M)
      \/ /\ call.arg <= Len(call.args) /\ macros' = M
         /\ frames' = Append(Append(B, at(e, "args", k)), g)
  BY Zenon DEF expandArgs, push, Pushed, Marked
<1>6. CASE fail(B, e, M)
  BY Zenon, <1>1, <1>6, FailSound
<1> HIDE DEF m
<1>7. CASE frames' = Append(B, Pushed(e, m, list)) /\ Marked(reenabled(M, e), m, macros')
  <2> DEFINE f == Pushed(e, m, list)
             M1 == reenabled(M, e)
  <2>1. M[m].body \in Seq(Text)
    BY Zenon, <1>3, <1>4, MacroFacts
  <2>2. list \in Seq(Plain)
    BY <1>2, <2>1, Zenon DEF Laws, ReplaceLaw
  <2>3. frames' = Append(B, f) /\ Marked(M1, m, macros')
    BY <1>7, Zenon
  <2> HIDE DEF list
  <2>4. Local(f) /\ f.kind = e.kind /\ In(f) = In(e) \cup {m} /\ Re(f) = {} /\ Iv(f) = {} /\ f.pc = "lex"
    BY <1>4, <2>2, PushedFrame
  <2> HIDE DEF f
  <2>5. f \in Frame /\ f.pc # "args"
    BY Zenon, <2>4 DEF Local
  <2>6. Good(Append(B, f), macros', S, c2)
    BY <1>1, <2>3, <2>4, PushInvokedGood
  <2> QED BY <2>3, <2>5, <2>6, SoundTop, Zenon
<1>8. CASE /\ call.arg <= Len(call.args) /\ macros' = M
           /\ frames' = Append(Append(B, at(e, "args", k)), g)
  <2> DEFINE f == at(e, "args", k)
  <2>1. call.arg \in 1..Len(call.args) /\ depth \in Int /\ frames' = Append(Append(B, f), g)
    BY <1>2, <1>8
  <2>2. lexer \in Seq(Plain) /\ k \in Call /\ k.macro = m /\ k.arg \in 1..Len(k.args)
    <3> DEFINE args == [call.args EXCEPT ![call.arg] = <<>>]
    <3>1. args \in Seq(Seq(Plain)) /\ Len(args) = Len(call.args) /\ lexer \in Seq(Plain)
      BY <1>2, <2>1
    <3>2. k = [call EXCEPT !.args = args]
      BY Zenon
    <3> HIDE DEF args, k
    <3> QED BY Zenon, <1>2, <2>1, <3>1, <3>2 DEF Call, m
  <2> HIDE DEF k, lexer, depth
  <2>3. At(e, f, "args", k)
    BY Zenon, <1>1, <2>2, AtFrame
  <2> HIDE DEF f
  <2>4. Core(f) /\ f \in Frame /\ f.kind = e.kind /\ f.pc = "args" /\ f.call = k /\ In(f) = In(e) /\ Re(f) = Re(e)
    BY Zenon, <2>3, AtCore
  <2>5. Local(f) /\ Iv(f) = Iv(d)
    BY Zenon, <1>1, <2>2, <2>3, AtCollecting
  <2>6. Local(g) /\ In(g) = {} /\ Re(g) = {} /\ Iv(g) = {} /\ g.kind = "arg" /\ g.pc = "lex" /\ g \in Frame
    BY <1>2, <2>1, <2>2, NewFrame
  <2> HIDE DEF g
  <2>7. Append(B, f) \in Seq(Frame) /\ Append(B, f) # <<>> /\ Last(Append(B, f)) = f
    BY <2>4, AppendFacts
  <2>8. Good(Append(B, f), M, S, c2)
    BY <2>4, <2>5, GoodSame
  <2>9. Below(Append(B, f), g)
    BY Zenon, <2>4, <2>6, <2>7 DEF Below, Link
  <2>10. Good(Append(Append(B, f), g), M, S, c2)
    BY Zenon, <2>6, <2>7, <2>8, <2>9, GoodAdd
  <2>11. Sound(Append(Append(B, f), g), M, S, c2)
    BY Zenon, <2>6, <2>7, <2>10, SoundTop
  <2> QED BY Zenon, <1>8, <2>1, <2>11
<1> QED
  BY <1>5, <1>6, <1>7, <1>8, Zenon

\* lex() returns a token to whoever called it: the preprocessor, the expression
\* parser, or expandMacro() for an argument.
LEMMA Return ==
  ASSUME Laws, NEW B \in Seq(Frame), B = Front(frames), NEW e, Local(e), e.pc = "lex", Re(e) = {}, Iv(e) = {},
         NEW M, NEW S, NEW c \in BOOLEAN, c => ~error' /\ ~abandoned',
         Good(Append(B, e), M, S, c), NEW token \in Token, token.text = "LAST" => e.contexts = <<>>,
         NEW bad, return(token, e, M, bad)
  PROVE  Sound(frames', macros', S, c)
<1> DEFINE A == Front(B)
           a == Last(B)
           call == a.call
           count == call.numTokens + (IF call.first THEN 0 ELSE 1)
           next == [call EXCEPT !.arg = @ + 1, !.numTokens = count, !.first = TRUE]
           more == [call EXCEPT !.args[call.arg] = Append(@, token), !.numTokens = count, !.first = FALSE]
<1>1. e \in Frame /\ (e.contexts = <<>> => In(e) = {}) /\ e.pc # "args"
  BY DEF Local, In, MacrosOf
<1>2. Below(B, e) /\ Stack(B)
  BY <1>1, GoodParts, Zenon
<1>3. \/ frames' = Append(B, e) /\ macros' = M
      \/ e.kind = "dir" /\ frames' = B /\ macros' = M /\ abandoned' = (abandoned \/ e.contexts # <<>>)
      \/ e.kind = "arg" /\ fail(A, a, M)
      \/ e.kind = "arg" /\ token.text = "LAST" /\ expandArgs(A, at(a, "args", next), M, bad)
      \/ /\ e.kind = "arg" /\ token.text # "LAST" /\ macros' = M
         /\ frames' = Append(Append(A, at(a, "args", more)), e)
  BY Zenon DEF return
<1>4. CASE frames' = Append(B, e) /\ macros' = M
  BY Zenon, <1>1, <1>4, SoundTop
<1>5. CASE e.kind = "dir" /\ frames' = B /\ macros' = M /\ abandoned' = (abandoned \/ e.contexts # <<>>)
  <2>1. Good(B, M, S, c)
    BY <1>1, <1>5, GoodDrop
  <2>2. B # <<>> /\ Last(B).pc # "args"
    BY Zenon, <1>2, <1>5 DEF Below, Link
  <2> QED BY <1>5, <2>1, <2>2, Zenon DEF Sound
<1> HIDE DEF A, a, next, more
<1>6. CASE e.kind = "arg"
  <2>1. B # <<>> /\ a.pc = "args"
    BY Zenon, <1>2, <1>6 DEF Below, Link, a
  <2>2. A \in Seq(Frame) /\ B = Append(A, a) /\ a \in Frame
    BY Zenon, <2>1, FrontLast DEF A, a
  <2>3. Local(a)
    BY <1>2, <2>2, StackSplit, Zenon
  <2>4. Core(a) /\ Calm(a) /\ Iv(a) = {call.macro} /\ call.arg \in 1..Len(call.args)
    BY Zenon, <2>1, <2>3 DEF Core, Calm, Local, Iv
  <2>5. call \in Call /\ call.args \in Seq(Seq(Plain)) /\ call.arg \in Nat /\ count \in Int
    BY <2>2, FrameFields DEF Call
  <2> HIDE DEF call, count
  <2>6. CASE fail(A, a, M)
    <3>1. ~c
      BY Zenon, <2>6 DEF fail
    <3>2. Good(B, M, S, c)
      BY <1>1, <3>1, GoodDrop
    <3> QED BY Zenon, <2>2, <2>4, <2>6, <3>2, FailSound
  <2>7. CASE token.text = "LAST" /\ expandArgs(A, at(a, "args", next), M, bad)
    <3> DEFINE f == at(a, "args", next)
    <3>1. next \in Call /\ next.macro = call.macro /\ next.arg >= 1
      <4> DEFINE x == call.arg + 1
      <4>1. x \in Nat /\ x >= 1 /\ next = [call EXCEPT !.arg = x, !.numTokens = count, !.first = TRUE]
        BY <2>5 DEF next
      <4> HIDE DEF x
      <4> QED BY Zenon, <2>5, <4>1 DEF Call
    <3>2. At(a, f, "args", next)
      BY Zenon, <2>2, <3>1, AtFrame
    <3>3. expandArgs(A, f, M, bad)
      BY Zenon, <2>7
    <3> HIDE DEF f
    <3>4. Core(f) /\ f.kind = a.kind /\ f.call = next /\ In(f) = In(a) /\ Re(f) = Re(a)
      BY <2>4, <3>2, AtCore
    <3>5. Good(B, M, S, c)
      BY <1>1, <2>7, GoodDrop
    <3>6. f.call.macro = a.call.macro /\ f.call.arg >= 1 /\ a.pc \in {"collect", "args"}
      BY Zenon, <2>1, <3>1, <3>4 DEF call
    <3>7. Resumes(a, f)
      BY Zenon, <3>4, <3>6 DEF Resumes
    <3> QED BY Zenon, <2>2, <3>3, <3>5, <3>7, ExpandArgs
  <2>8. CASE /\ token.text # "LAST" /\ macros' = M
             /\ frames' = Append(Append(A, at(a, "args", more)), e)
    <3> DEFINE f == at(a, "args", more)
               arg == Append(call.args[call.arg], token)
               args == [call.args EXCEPT ![call.arg] = arg]
    <3>1. more \in Call /\ more.macro = call.macro /\ more.arg \in 1..Len(more.args)
      <4>1. arg \in Seq(Plain)
        BY <2>4, <2>5, <2>8, PlainToken
      <4>2. more = [call EXCEPT !.args = args, !.numTokens = count, !.first = FALSE]
        BY Zenon DEF more
      <4> HIDE DEF arg
      <4>3. args \in Seq(Seq(Plain)) /\ Len(args) = Len(call.args)
        BY <2>4, <2>5, <4>1
      <4> HIDE DEF args
      <4> QED BY Zenon, <2>4, <2>5, <4>2, <4>3 DEF Call
    <3>2. At(a, f, "args", more)
      BY Zenon, <2>2, <3>1, AtFrame
    <3>3. frames' = Append(Append(A, f), e)
      BY Zenon, <2>8
    <3> HIDE DEF f
    <3>4. Core(f) /\ f \in Frame /\ f.kind = a.kind /\ f.pc = "args" /\ In(f) = In(a) /\ Re(f) = Re(a)
      BY Zenon, <2>4, <3>2, AtCore
    <3>5. Local(f) /\ Iv(f) = Iv(a)
      BY <2>4, <3>1, <3>2, AtCollecting
    <3>6. Good(Append(Append(A, a), e), M, S, c)
      BY Zenon, <2>2
    <3>7. Good(Append(Append(A, f), e), M, S, c)
      BY <1>1, <2>1, <2>2, <3>4, <3>5, <3>6, GoodUnder
    <3>8. Append(A, f) \in Seq(Frame)
      BY <2>2, <3>4
    <3>9. Sound(Append(Append(A, f), e), M, S, c)
      BY Zenon, <1>1, <3>7, <3>8, SoundTop
    <3> QED BY Zenon, <2>8, <3>3, <3>9
  <2> QED BY <1>3, <1>4, <1>5, <1>6, <2>6, <2>7, <2>8, Zenon
<1> QED
  BY <1>3, <1>4, <1>5, <1>6, Zenon

\* What ungetToken() leaves behind.
Unget(e, u) ==
  Calm(u) /\ u \in Frame /\ u.kind = e.kind /\ u.reenable = e.reenable /\ In(u) = In(e)

\* ungetToken() after getToken(), outside the fetch of lex().
LEMMA UngetFrame ==
  ASSUME Laws, NEW d, NEW token, NEW e, Got(d, token, e), d.pc # "lex", NEW u, u = ungetToken(token, e)
  PROVE  Unget(e, u)
<1>1. e \in Frame /\ e.contexts \in Seq(Context) /\ Local(e) /\ Core(e)
  BY Zenon, FrameFields DEF Local, Got, Core, Calm
<1>2. CASE e.contexts # <<>>
  <2> DEFINE x == Last(e.contexts).index - 1
             f == Moved(e, x)
  <2>1. u = f
    BY <1>2, Zenon DEF ungetToken, Last, Moved
  <2>2. x \in 0..Len(Last(e.contexts).replacements)
    <3>1. Len(e.contexts) \in 1..Len(e.contexts)
      BY <1>1, <1>2
    <3>2. Last(e.contexts).index \in 0..Len(Last(e.contexts).replacements) /\ Last(e.contexts) \in Context
      BY <1>1, <3>1 DEF Local, ContextsOK, Last
    <3>3. Len(Last(e.contexts).replacements) \in Nat
      BY <3>2 DEF Context
    <3>4. Last(e.contexts).index >= 1
      BY Zenon, <1>2 DEF Got
    <3> QED BY <3>2, <3>3, <3>4
  <2> HIDE DEF x
  <2>3. /\ Local(f) /\ f.kind = e.kind /\ f.pc = e.pc /\ f.call = e.call /\ f.reenable = e.reenable
        /\ In(f) = In(e) /\ f.reserve = e.reserve /\ f.contexts # <<>> /\ Last(f.contexts).index = x
    BY <1>1, <1>2, <2>2, MoveIndex, Zenon
  <2> HIDE DEF f
  <2> QED BY Zenon, <1>1, <2>1, <2>3, CoreOfLocal DEF Unget, Core, Calm
<1>3. CASE e.contexts = <<>>
  <2> DEFINE r == <<token>>
  <2>1. u = [e EXCEPT !.reserve = r]
    BY <1>3, Zenon DEF ungetToken
  <2>2. r \in Seq(Token) /\ Len(r) = 1
    BY DEF Got
  <2> HIDE DEF r
  <2>3. /\ u \in Frame /\ u.contexts = e.contexts /\ u.kind = e.kind
        /\ u.reserve = r /\ u.total = e.total /\ u.reenable = e.reenable /\ u.parseDefined = e.parseDefined
    BY Zenon, <1>1, <2>1, <2>2 DEF Frame
  <2> QED BY <1>1, <1>3, <2>2, <2>3, Zenon DEF Unget, Core, Calm, In
<1> QED
  BY Zenon, <1>2, <1>3

\* lex(): the operand of defined.
LEMMA DefinedToken ==
  ASSUME Laws, NEW B \in Seq(Frame), B = Front(frames), NEW e, NEW token, Got(e, token, e),
         NEW S, NEW c \in BOOLEAN, c => ~error' /\ ~abandoned', Good(Append(B, e), macros, S, c),
         e.pc \in Defineds, definedToken(token, e)
  PROVE  Sound(frames', macros', S, c)
<1> DEFINE f == at(e, "lex", e.call)
<1>1. /\ e \in Frame /\ Core(e) /\ token \in Token /\ e.reenable = <<>> /\ Re(e) = {} /\ Iv(e) = {}
      /\ Local(e) /\ (token.text = "LAST" => e.contexts = <<>>) /\ e.call \in Call
  BY Zenon, GotFacts DEF Defineds
<1>2. e.kind # "main"
  BY Zenon, <1>1 DEF Local
<1>3. \/ \E p \in Defineds : continue(e, p, e.call) /\ macros' = macros
      \/ return(Tok("x"), f, macros, FALSE)
      \/ return(token, f, macros, TRUE)
  BY Zenon DEF definedToken, Defineds
<1>4. CASE \E p \in Defineds : continue(e, p, e.call) /\ macros' = macros
  <2>1. PICK p \in Defineds : continue(e, p, e.call) /\ macros' = macros
    BY Zenon, <1>4
  <2>2. p # "collect"
    BY Zenon DEF Defineds
  <2> QED BY Zenon, <1>1, <1>2, <2>1, <2>2, GoOn
<1>5. At(e, f, "lex", e.call)
  BY Zenon, <1>1, AtFrame
<1> HIDE DEF f
<1>6. Core(f) /\ f \in Frame /\ f.kind = e.kind /\ f.pc = "lex" /\ In(f) = In(e) /\ Re(f) = Re(e)
  BY Zenon, <1>1, <1>5, AtCore
<1>7. Local(f) /\ Iv(f) = {} /\ Iv(f) = Iv(e)
  <2>1. "lex" \notin Defineds
    BY Zenon DEF Defineds
  <2> QED BY <1>1, <1>5, <2>1, AtOther
<1>8. Good(Append(B, f), macros, S, c)
  <2>1. e \in Frame
    BY Zenon, <1>1
  <2> QED BY <1>6, <1>7, <2>1, GoodSame
<1>9. Tok("x") \in Token /\ Tok("x").text # "LAST" /\ f.contexts = e.contexts
  BY Zenon, <1>5, TextAssumption, PlainToken DEF At
<1>10. CASE return(Tok("x"), f, macros, FALSE)
  BY Zenon, <1>1, <1>6, <1>7, <1>8, <1>9, <1>10, Return
<1>11. CASE return(token, f, macros, TRUE)
  BY Zenon, <1>1, <1>6, <1>7, <1>8, <1>9, <1>11, Return
<1> QED
  BY Zenon, <1>3, <1>4, <1>10, <1>11

\* lex(): what becomes of a token.
LEMMA LexToken ==
  ASSUME Laws, NEW B \in Seq(Frame), B = Front(frames), NEW e, NEW token, Got(e, token, e),
         NEW c \in BOOLEAN, c => ~error' /\ ~abandoned', Good(Append(B, e), macros, mMacroSet, c),
         e.pc = "lex", lexToken(token, e)
  PROVE  Sound(frames', macros', mMacroSet, c)
<1> DEFINE m == mMacroSet[token.text]
           given == [token EXCEPT !.expansionDisabled = TRUE]
           list == [i \in 1..Len(macros[m].body) |-> Tok(macros[m].body[i])]
           k == [e.call EXCEPT !.macro = m]
           Enabled == token.text \in DOMAIN mMacroSet /\ ~macros[m].disabled
<1>1. /\ e \in Frame /\ Core(e) /\ token \in Token /\ e.reenable = <<>> /\ Re(e) = {} /\ Iv(e) = {}
      /\ Local(e) /\ (token.text = "LAST" => e.contexts = <<>>) /\ e.call \in Call
  BY Zenon, GotFacts
<1>2. \/ e.parseDefined /\ continue(e, "defined", e.call) /\ macros' = macros
      \/ return(token, e, macros, FALSE)
      \/ return(given, e, macros, FALSE)
      \/ /\ Enabled /\ \E M1 : Counts(macros, m, 1, M1) /\ Marked(M1, m, macros')
         /\ frames' = Append(B, Pushed(e, m, list))
      \/ Enabled /\ Counts(macros, m, 1, macros') /\ frames' = Append(B, at(e, "peek", k))
  BY Zenon DEF lexToken, continue, push, Pushed, Marked, Counts
<1>3. Held(e) \subseteq Dis(macros) /\ macros \in Seq(Macro) /\ Table(macros, mMacroSet)
  BY <1>1, GoodParts, Zenon DEF Good
<1>4. ASSUME Enabled
      PROVE  /\ m \in 1..Len(macros) /\ m \in Nat /\ m \in Live(macros, mMacroSet) /\ m \notin Dis(macros) /\ m \notin In(e)
             /\ macros[m].body \in Seq(Text)
  <2>1. m \in 1..Len(macros)
    BY Zenon, <1>3, <1>4 DEF Table
  <2>2. m \in Live(macros, mMacroSet) /\ m \notin Dis(macros)
    BY <1>4, <2>1, Zenon DEF Live, Dis
  <2>3. m \notin In(e)
    BY <1>3, <2>2, Zenon DEF Held
  <2>4. macros[m].body \in Seq(Text)
    BY Zenon, <1>3, <2>1, MacroFacts
  <2> QED BY <2>1, <2>2, <2>3, <2>4
<1> HIDE DEF m
<1>5. CASE e.parseDefined /\ continue(e, "defined", e.call) /\ macros' = macros
  <2>1. "defined" \in Defineds /\ e.kind # "main"
    BY Zenon, <1>1, <1>5 DEF Core, Calm, Defineds
  <2> QED BY Zenon, <1>1, <1>5, <2>1, GoOn
<1>6. CASE return(token, e, macros, FALSE)
  BY Zenon, <1>1, <1>6, Return
<1>7. CASE return(given, e, macros, FALSE)
  <2>1. given \in Token /\ given.text = token.text
    BY Zenon, <1>1 DEF Token
  <2> HIDE DEF given
  <2> QED BY Zenon, <1>1, <1>7, <2>1, Return
<1>8. CASE /\ Enabled /\ \E M1 : Counts(macros, m, 1, M1) /\ Marked(M1, m, macros')
           /\ frames' = Append(B, Pushed(e, m, list))
  <2> DEFINE f == Pushed(e, m, list)
  <2>1. list \in Seq(Plain) /\ frames' = Append(B, f)
    <3>1. list \in [1..Len(macros[m].body) -> Plain] /\ Len(macros[m].body) \in Nat
      BY <1>4, <1>8, PlainToken
    <3> QED BY Zenon, <1>8, <3>1, SeqOf
  <2> HIDE DEF list
  <2>2. Local(f) /\ f.kind = e.kind /\ In(f) = In(e) \cup {m} /\ Re(f) = {} /\ Iv(f) = {} /\ f.pc = "lex"
    BY <1>1, <1>4, <1>8, <2>1, PushedFrame
  <2> HIDE DEF f
  <2>3. PICK M1 : Counts(macros, m, 1, M1) /\ Marked(M1, m, macros')
    BY <1>8, Zenon
  <2>4. m \in Live(macros, mMacroSet) /\ m \notin Dis(macros)
    BY Zenon, <1>4, <1>8
  <2>5. Good(Append(B, f), macros', mMacroSet, c)
    <3>1. Expands(e, f, m)
      BY Zenon, <1>1, <2>2 DEF Expands
    <3> QED BY Zenon, <1>1, <2>3, <2>4, <3>1, PushObjectGood
  <2>6. f \in Frame /\ f.pc # "args"
    BY Zenon, <2>2 DEF Local
  <2> QED BY <2>1, <2>5, <2>6, SoundTop, Zenon
<1>9. CASE Enabled /\ Counts(macros, m, 1, macros') /\ frames' = Append(B, at(e, "peek", k))
  <2> DEFINE f == at(e, "peek", k)
  <2>1. m \in Nat /\ m \in Live(macros, mMacroSet) /\ m \notin Dis(macros) /\ Counts(macros, m, 1, macros')
    BY Zenon, <1>4, <1>9
  <2>2. k \in Call /\ k.macro = m /\ frames' = Append(B, f)
    BY Zenon, <1>1, <1>9, <2>1 DEF Call
  <2> HIDE DEF k
  <2>3. At(e, f, "peek", k)
    BY Zenon, <1>1, <2>2, AtFrame
  <2> HIDE DEF f
  <2>4. f \in Frame /\ f.kind = e.kind /\ f.pc = "peek" /\ In(f) = In(e) /\ Re(f) = Re(e)
    BY Zenon, <1>1, <2>3, AtCore
  <2>5. Local(f) /\ Iv(f) = {m}
    <3>1. "peek" \notin Defineds
      BY Zenon DEF Defineds
    <3> QED BY Zenon, <1>1, <2>2, <2>3, <3>1, AtOther
  <2>6. Good(Append(B, f), macros', mMacroSet, c)
    <3>1. Invokes(e, f, m)
      BY Zenon, <1>1, <2>4, <2>5 DEF Invokes
    <3> QED BY Zenon, <1>1, <2>1, <3>1, BeginGood
  <2> QED BY Zenon, <2>2, <2>4, <2>6, SoundTop
<1> QED
  BY <1>2, <1>5, <1>6, <1>7, <1>8, <1>9, Zenon

\* isNextTokenLeftParen(): what becomes of the token after the macro's name.
LEMMA PeekToken ==
  ASSUME Laws, NEW B \in Seq(Frame), B = Front(frames), NEW e, NEW token, Got(e, token, e),
         NEW S, NEW c \in BOOLEAN, c => ~error' /\ ~abandoned', Good(Append(B, e), macros, S, c),
         e.pc = "peek", peekToken(token, e)
  PROVE  Sound(frames', macros', S, c)
<1> DEFINE m == e.call.macro
           k == [e.call EXCEPT !.openParens = 1, !.args = << <<>> >>]
           u == ungetToken(token, e)
           f == at(u, "lex", NoCall)
           M == [macros EXCEPT ![m].expansionCount = @ - 1]
           given == Tok(macros[m].name)
<1>1. e \in Frame /\ Core(e) /\ e.reenable = <<>> /\ Re(e) = {} /\ Iv(e) = {m} /\ e.call \in Call
  BY Zenon, GotFacts
<1>2. \/ continue(e, "collect", k) /\ macros' = macros
      \/ return(given, f, M, FALSE)
  BY Zenon DEF peekToken
<1>3. CASE continue(e, "collect", k) /\ macros' = macros
  <2> DEFINE none == <<>>
             args == <<none>>
  <2>1. none \in Seq(Plain) /\ k = [e.call EXCEPT !.openParens = 1, !.args = args]
    OBVIOUS
  <2> HIDE DEF none, k
  <2>2. args \in Seq(Seq(Plain)) /\ args # <<>>
    BY <2>1
  <2> HIDE DEF args
  <2>3. k \in Call /\ k.macro = m /\ k.args # <<>>
    <3> DEFINE one == 1
    <3>1. one \in Int /\ k = [e.call EXCEPT !.openParens = one, !.args = args]
      BY <2>1
    <3> HIDE DEF one
    <3> QED BY Zenon, <1>1, <2>2, <3>1 DEF Call
  <2>4. "collect" \notin Defineds
    BY Zenon DEF Defineds
  <2> QED BY Zenon, <1>1, <1>3, <2>3, <2>4, GoOn
<1>4. CASE return(given, f, M, FALSE)
  <2>1. Iv(e) \subseteq Live(macros, S) /\ macros \in Seq(Macro)
    BY <1>1, GoodParts, Zenon
  <2>2. m \in 1..Len(macros)
    BY Zenon, <1>1, <2>1, LiveIsMacro
  <2>3. macros[m].name \in Text /\ macros[m].expansionCount \in Int
    BY Zenon, <2>1, <2>2, MacroFacts
  <2> HIDE DEF m
  <2>4. given \in Token /\ given.text # "LAST"
    BY Zenon, <2>3, PlainToken
  <2>5. Counts(macros, m, -1, M)
    <3>1. macros[m].expansionCount - 1 = macros[m].expansionCount + (-1)
      BY Zenon, <2>3
    <3> QED BY <3>1, Zenon DEF Counts
  <2>6. Unget(e, u)
    BY Zenon, <1>1, UngetFrame
  <2> HIDE DEF M, given, u
  <2>7. u \in Frame /\ NoCall \in Call
    BY <2>6 DEF Unget, NoCall, Call
  <2>8. At(u, f, "lex", NoCall)
    BY Zenon, <2>7, AtFrame
  <2> HIDE DEF f
  <2>9. Calm(u) /\ Idled(u, f) /\ u.kind = e.kind /\ In(u) = In(e)
    BY Zenon, <1>1, <2>6, <2>8 DEF Unget, At, Idled
  <2>10. Local(f) /\ f \in Frame /\ f.kind = e.kind /\ In(f) = In(e) /\ Re(f) = {} /\ Iv(f) = {} /\ f.pc = "lex"
    BY Zenon, <2>9, IdleFrame
  <2>11. Good(Append(B, f), M, S, c)
    BY Zenon, <1>1, <2>5, <2>10, EndGood
  <2> QED BY Zenon, <1>4, <2>4, <2>10, <2>11, Return
<1> QED
  BY Zenon, <1>2, <1>3, <1>4

\* collectMacroArgs(): what becomes of a token between the parentheses.
LEMMA CollectToken ==
  ASSUME Laws, NEW B \in Seq(Frame), B = Front(frames), NEW e, NEW token, Got(e, token, e),
         NEW S, NEW c \in BOOLEAN, c => ~error' /\ ~abandoned', Good(Append(B, e), macros, S, c),
         e.pc = "collect", collectToken(token, e)
  PROVE  Sound(frames', macros', S, c)
<1> DEFINE call == e.call
           n == Len(call.args)
           kept(parens) == [call EXCEPT !.openParens = parens, !.args[n] = Append(@, token)]
           comma == [call EXCEPT !.args = Append(@, <<>>)]
           u == ungetToken(token, e)
           ready(args) == [call EXCEPT !.args = args, !.arg = 1]
<1>1. e \in Frame /\ Core(e) /\ Calm(e) /\ Local(e) /\ token \in Token /\ Iv(e) = {call.macro} /\ call \in Call
  BY Zenon, GotFacts DEF Core
<1>2. /\ call.args \in Seq(Seq(Plain)) /\ call.args # <<>> /\ call.openParens \in Int
      /\ call.openParens + 1 \in Int /\ call.openParens - 1 \in Int
  BY <1>1 DEF Local, Call
<1>3. \/ fail(B, u, macros)
      \/ /\ token.text # "LAST" /\ macros' = macros
         /\ \E parens \in Int : continue(e, "collect", kept(parens))
      \/ continue(e, "collect", comma) /\ macros' = macros
      \/ fail(B, e, macros)
      \/ \E args \in {<<>>, call.args} : expandArgs(B, at(e, "collect", ready(args)), macros, FALSE)
  <2>1. "(" # "LAST" /\ ")" # "LAST"
    BY Zenon
  <2> QED BY <1>2, <2>1, Zenon DEF collectToken, endOfArgs
<1>4. "collect" \notin Defineds /\ (c => ~error') /\ e.pc \in {"collect", "args"} /\ e.pc # "lex"
  BY Zenon DEF Defineds
<1>5. CASE fail(B, u, macros)
  <2>1. Unget(e, u)
    BY Zenon, <1>4, UngetFrame
  <2> HIDE DEF u
  <2>2. Calm(u) /\ u.kind = e.kind /\ In(u) = In(e) /\ Re(u) = Re(e)
    BY <2>1, Zenon DEF Unget, Re
  <2> QED BY Zenon, <1>1, <1>4, <1>5, <2>2, FailSound
<1>6. CASE /\ token.text # "LAST" /\ macros' = macros
           /\ \E parens \in Int : continue(e, "collect", kept(parens))
  <2>1. PICK parens \in Int : continue(e, "collect", kept(parens))
    BY Zenon, <1>6
  <2> DEFINE k == kept(parens)
             arg == Append(call.args[n], token)
             args == [call.args EXCEPT ![n] = arg]
  <2>2. n \in 1..Len(call.args) /\ call.args[n] \in Seq(Plain) /\ token \in Plain
    <3>1. token \in Plain
      BY Zenon, <1>1, <1>6, PlainToken
    <3>2. \A T : \A s \in Seq(T) : s # <<>> => Len(s) \in 1..Len(s) /\ s[Len(s)] \in T
      OBVIOUS
    <3> QED BY Zenon, <1>2, <3>1, <3>2
  <2>3. arg \in Seq(Plain) /\ k = [call EXCEPT !.openParens = parens, !.args = args]
    BY <2>2
  <2> HIDE DEF k, arg, n
  <2>4. args \in Seq(Seq(Plain)) /\ args # <<>>
    <3>1. args \in Seq(Seq(Plain)) /\ Len(args) = Len(call.args) /\ Len(call.args) # 0
      BY <1>2, <2>2, <2>3
    <3> QED BY Zenon, <3>1
  <2> HIDE DEF args
  <2>5. k \in Call /\ k.macro = call.macro /\ k.args # <<>> /\ continue(e, "collect", k)
    <3>1. k \in Call /\ k.macro = call.macro /\ k.args # <<>>
      BY Zenon, <1>1, <2>3, <2>4 DEF Call
    <3> QED BY Zenon, <2>1, <3>1 DEF k
  <2> QED BY <1>1, <1>4, <1>6, <2>5, GoOn
<1>7. CASE continue(e, "collect", comma) /\ macros' = macros
  <2> DEFINE none == <<>>
             args == Append(call.args, none)
  <2>1. none \in Seq(Plain) /\ comma = [call EXCEPT !.args = args]
    OBVIOUS
  <2> HIDE DEF none, comma
  <2>2. args \in Seq(Seq(Plain)) /\ args # <<>>
    <3>1. \A T : \A s \in Seq(T) : \A x \in T : Append(s, x) \in Seq(T) /\ Append(s, x) # <<>>
      BY AppendFacts
    <3> QED BY Zenon, <1>2, <2>1, <3>1
  <2> HIDE DEF args
  <2>3. comma \in Call /\ comma.macro = call.macro /\ comma.args # <<>>
    BY Zenon, <1>1, <2>1, <2>2 DEF Call
  <2> QED BY Zenon, <1>1, <1>4, <1>7, <2>3, GoOn
<1>8. CASE fail(B, e, macros)
  BY Zenon, <1>1, <1>4, <1>8, FailSound
<1>9. CASE \E args \in {<<>>, call.args} : expandArgs(B, at(e, "collect", ready(args)), macros, FALSE)
  <2>1. PICK args \in {<<>>, call.args} : expandArgs(B, at(e, "collect", ready(args)), macros, FALSE)
    BY Zenon, <1>9
  <2> DEFINE k == ready(args)
             f == at(e, "collect", k)
  <2>2. args \in Seq(Seq(Plain)) /\ expandArgs(B, f, macros, FALSE)
    <3>1. <<>> \in Seq(Seq(Plain))
      OBVIOUS
    <3> QED BY <1>2, <2>1, <3>1, Zenon
  <2>3. k \in Call /\ k.macro = call.macro /\ k.arg >= 1
    <3> DEFINE one == 1
    <3>1. one \in Nat /\ one >= 1 /\ k = [call EXCEPT !.args = args, !.arg = one]
      OBVIOUS
    <3> HIDE DEF one, k
    <3> QED BY Zenon, <1>1, <2>2, <3>1 DEF Call
  <2> HIDE DEF k
  <2>4. At(e, f, "collect", k)
    BY Zenon, <1>1, <2>3, AtFrame
  <2> HIDE DEF f
  <2>5. Core(f) /\ f.kind = e.kind /\ f.call = k /\ In(f) = In(e) /\ Re(f) = Re(e)
    BY <1>1, <2>4, AtCore
  <2>6. f.call.macro = e.call.macro /\ f.call.arg >= 1
    BY Zenon, <2>3, <2>5
  <2>7. Resumes(e, f)
    BY Zenon, <1>1, <2>5, <2>6 DEF Resumes
  <2>8. e \in Frame /\ (c => ~error') /\ expandArgs(B, f, macros, FALSE)
    BY Zenon, <1>1, <2>2
  <2> QED BY Zenon, <2>7, <2>8, ExpandArgs
<1> QED
  BY <1>3, <1>5, <1>6, <1>7, <1>8, <1>9, Zenon

\* The running expander.
LEMMA Running ==
  ASSUME IInv
  PROVE  /\ Front(frames) \in Seq(Frame) /\ top \in Frame /\ frames = Append(Front(frames), top)
         /\ Local(top) /\ top.pc # "args"
         /\ Good(Append(Front(frames), top), macros, mMacroSet, clean)
         /\ clean \in BOOLEAN /\ frames \in Seq(Frame) /\ frames # <<>>
<1>1. Good(frames, macros, mMacroSet, clean) /\ frames # <<>> /\ top.pc # "args"
  BY Zenon DEF IInv, Sound, top
<1>2. frames \in Seq(Frame)
  BY <1>1, Zenon DEF Good, Stack
<1>3. Front(frames) \in Seq(Frame) /\ top \in Frame /\ frames = Append(Front(frames), top)
  BY Zenon, <1>1, <1>2, FrontLast DEF top
<1>4. Good(Append(Front(frames), top), macros, mMacroSet, clean)
  BY <1>1, <1>3, Zenon
<1>5. Local(top)
  BY <1>3, <1>4, GoodParts, Zenon
<1>6. clean \in BOOLEAN
  BY Zenon DEF IInv, clean
<1> QED
  BY Zenon, <1>1, <1>2, <1>3, <1>4, <1>5, <1>6

\* popMacro() leaves the expander without its last context.
Shorter(e, m, y, f) ==
  /\ m = Last(e.contexts).macro
  /\ y <=> e.pc = "collect"
  /\ f = [e EXCEPT !.contexts = Front(@), !.total = @ - Len(Last(e.contexts).replacements),
                   !.reenable = IF y THEN Append(@, m) ELSE @]

\* The elements of a longer sequence.
LEMMA ElementsAppend ==
  ASSUME NEW s \in Seq(Nat), NEW m \in Nat
  PROVE  Append(s, m) \in Seq(Nat) /\ Elements(Append(s, m)) = Elements(s) \cup {m}
<1> DEFINE n == Len(s)
           r == Append(s, m)
<1>1. /\ r \in Seq(Nat) /\ Len(r) = n + 1 /\ n \in Nat /\ r[n + 1] = m
      /\ \A i \in 1..n : r[i] = s[i]
  BY AppendFacts
<1>2. \A i : i \in 1..(n + 1) <=> i = n + 1 \/ i \in 1..n
  BY <1>1
<1> HIDE DEF r
<1>3. ASSUME NEW x PROVE x \in Elements(r) <=> x \in Elements(s) \/ x = m
  BY Zenon, <1>1, <1>2 DEF Elements
<1> QED
  BY Zenon, <1>1, <1>3 DEF r

\* What popMacro() does to the expander.
LEMMA PopFrame ==
  ASSUME Laws, NEW e, Local(e), e.contexts # <<>>, e.reserve = <<>>, NEW m \in Nat, NEW y \in BOOLEAN,
         NEW f, Shorter(e, m, y, f)
  PROVE  /\ Local(f) /\ f.kind = e.kind /\ f.pc = e.pc /\ In(f) = In(e) \ {m} /\ Iv(f) = Iv(e) /\ m \in In(e)
         /\ y => Re(f) = Re(e) \cup {m}
         /\ ~y => Re(f) = Re(e)
<1> DEFINE s == Front(e.contexts)
           t == e.total - Len(Last(e.contexts).replacements)
           r == IF y THEN Append(e.reenable, m) ELSE e.reenable
<1>1. e \in Frame /\ ContextsOK(e.contexts) /\ e.total = TokensIn(e.contexts)
  BY Zenon DEF Local
<1>0. m = Last(e.contexts).macro /\ (y <=> e.pc = "collect")
  BY Zenon DEF Shorter
<1>2. /\ ContextsOK(s) /\ MacrosOf(s) = MacrosOf(e.contexts) \ {m} /\ m \in MacrosOf(e.contexts)
      /\ TokensIn(s) = TokensIn(e.contexts) - Len(Last(e.contexts).replacements)
  BY Zenon, <1>0, <1>1, ContextsFront
<1>3. TokensIn(s) = t /\ s \in Seq(Context) /\ t \in Int
  <2>1. TokensIn(s) = t
    BY Zenon, <1>1, <1>2
  <2>2. e.contexts \in Seq(Context) /\ e.total \in Int
    BY Zenon, <1>1, FrameFields
  <2>3. Last(e.contexts) \in Context /\ s \in Seq(Context)
    BY <2>2, FrontLast, Zenon
  <2>4. Len(Last(e.contexts).replacements) \in Nat
    BY <2>3 DEF Context
  <2> QED BY <2>1, <2>2, <2>3, <2>4
<1>4. e.reenable \in Seq(Nat)
  BY Zenon, <1>1, FrameFields
<1>5. /\ r \in Seq(Nat)
      /\ y => Elements(r) = Elements(e.reenable) \cup {m}
      /\ ~y => r = e.reenable
  <2>1. CASE y
    BY Zenon, <1>4, <2>1, ElementsAppend
  <2>2. CASE ~y
    BY Zenon, <1>4, <2>2
  <2> QED BY Zenon, <2>1, <2>2
<1>6. f = [e EXCEPT !.contexts = s, !.total = t, !.reenable = r]
  BY Zenon DEF Shorter
<1> HIDE DEF s, t, r
<1>7. /\ f \in Frame /\ f.contexts = s /\ f.total = t /\ f.reenable = r /\ f.pc = e.pc /\ f.kind = e.kind
      /\ f.call = e.call /\ f.reserve = e.reserve /\ f.parseDefined = e.parseDefined
  BY Zenon, <1>1, <1>3, <1>4, <1>5, <1>6 DEF Frame
<1>8. Local(f)
  BY Zenon, <1>0, <1>2, <1>3, <1>5, <1>7 DEF Local
<1>9. In(f) = In(e) \ {m} /\ m \in In(e)
  BY <1>2, <1>7, Zenon DEF In
<1>10. Iv(f) = Iv(e)
  BY <1>7, Zenon DEF Iv
<1>11. (y => Re(f) = Re(e) \cup {m}) /\ (~y => Re(f) = Re(e))
  BY <1>5, <1>7, Zenon DEF Re
<1> QED
  BY Zenon, <1>7, <1>8, <1>9, <1>10, <1>11

\* popMacro() keeps the invariant.
LEMMA PopStep ==
  ASSUME Laws, IInv, popMacro, clean' = clean
  PROVE  Sound(frames', macros', mMacroSet', clean')
<1> DEFINE B == Front(frames)
           m == context.macro
           y == deferReenabling
           f == [top EXCEPT !.contexts = Front(@), !.total = @ - Len(context.replacements),
                            !.reenable = IF deferReenabling THEN Append(@, context.macro) ELSE @]
<1>1. /\ B \in Seq(Frame) /\ top \in Frame /\ Local(top) /\ top.pc # "args"
      /\ Good(Append(B, top), macros, mMacroSet, clean) /\ clean \in BOOLEAN
  BY Running, Zenon
<1>2. /\ frames' = Append(B, f) /\ mMacroSet' = mMacroSet
      /\ Popped(macros, m, y, macros') /\ top.reserve = <<>> /\ top.contexts # <<>>
  BY Zenon DEF popMacro, Popped
<1>3. y \in BOOLEAN /\ (y <=> top.pc = "collect") /\ m = Last(top.contexts).macro
  BY Zenon DEF deferReenabling, context
<1>4. m \in Nat
  <2>1. top.contexts \in Seq(Context)
    BY Zenon, <1>1, FrameFields
  <2>2. Last(top.contexts) \in Context
    BY <1>2, <2>1, FrontLast, Zenon
  <2> QED BY Zenon, <1>3, <2>2 DEF Context
<1> DEFINE d == top
<1>5. Shorter(d, m, y, f)
  BY <1>3, Zenon DEF context, Shorter
<1>6. Local(d) /\ d.contexts # <<>> /\ d.reserve = <<>> /\ d \in Frame /\ Good(Append(B, d), macros, mMacroSet, clean) /\ d.pc # "args"
  BY Zenon, <1>1, <1>2, <1>3
<1> HIDE DEF d, f, m, y, B
<1>7. /\ Local(f) /\ f.kind = d.kind /\ f.pc = d.pc /\ In(f) = In(d) \ {m} /\ Iv(f) = Iv(d) /\ m \in In(d)
      /\ y => Re(f) = Re(d) \cup {m}
      /\ ~y => Re(f) = Re(d)
  BY <1>3, <1>4, <1>5, <1>6, PopFrame
<1>8. Good(Append(B, f), macros', mMacroSet, clean)
  <2>1. PoppedFrame(d, f, m, y)
    BY Zenon, <1>7 DEF PoppedFrame
  <2>2. B \in Seq(Frame) /\ clean \in BOOLEAN
    BY Zenon, <1>1
  <2> QED BY Zenon, <1>1, <1>2, <1>3, <1>6, <2>1, <2>2, PopGood
<1>9. f \in Frame /\ f.pc # "args"
  BY Zenon, <1>6, <1>7 DEF Local
<1>10. Sound(Append(B, f), macros', mMacroSet, clean)
  BY Zenon, <1>1, <1>8, <1>9, SoundTop
<1> QED
  BY <1>2, <1>10, Zenon

\* The steps that take a token.
LEMMA TokenStep ==
  ASSUME Laws, IInv, clean' \in BOOLEAN, clean' => clean, mMacroSet' = mMacroSet, NEW got \in getToken,
         \/ top.pc = "lex" /\ lexToken(got.token, got.expander)
         \/ top.pc \in Defineds /\ definedToken(got.token, got.expander)
         \/ top.pc = "peek" /\ peekToken(got.token, got.expander)
         \/ top.pc = "collect" /\ collectToken(got.token, got.expander)
  PROVE  Sound(frames', macros', mMacroSet', clean')
<1> DEFINE B == Front(frames)
           e == got.expander
           token == got.token
<1>1. /\ B \in Seq(Frame) /\ top \in Frame /\ Local(top)
      /\ Good(Append(B, top), macros, mMacroSet, clean) /\ clean \in BOOLEAN
  BY Running, Zenon
<1>2. Got(top, token, e)
  BY <1>1, GetToken, Zenon
<1>3. clean' => ~error' /\ ~abandoned'
  BY Zenon DEF clean
<1> HIDE DEF e, token
<1>4. Good(Append(B, e), macros, mMacroSet, clean') /\ Got(e, token, e) /\ e.pc = top.pc
  BY <1>1, <1>2, GotGood
<1>5. B = Front(frames)
  BY Zenon
<1> HIDE DEF B
<1>6. CASE top.pc = "lex" /\ lexToken(token, e)
  <2>1. e.pc = "lex" /\ lexToken(token, e)
    BY Zenon, <1>4, <1>6
  <2>2. Sound(frames', macros', mMacroSet, clean')
    BY Zenon, <1>1, <1>3, <1>4, <1>5, <2>1, LexToken
  <2> QED BY <2>2, Zenon
<1>7. CASE top.pc \in Defineds /\ definedToken(token, e)
  <2>1. e.pc \in Defineds /\ definedToken(token, e)
    BY Zenon, <1>4, <1>7
  <2>2. Sound(frames', macros', mMacroSet, clean')
    BY Zenon, <1>1, <1>3, <1>4, <1>5, <2>1, DefinedToken
  <2> QED BY <2>2, Zenon
<1>8. CASE top.pc = "peek" /\ peekToken(token, e)
  <2>1. e.pc = "peek" /\ peekToken(token, e)
    BY Zenon, <1>4, <1>8
  <2>2. Sound(frames', macros', mMacroSet, clean')
    BY Zenon, <1>1, <1>3, <1>4, <1>5, <2>1, PeekToken
  <2> QED BY <2>2, Zenon
<1>9. CASE top.pc = "collect" /\ collectToken(token, e)
  <2>1. e.pc = "collect" /\ collectToken(token, e)
    BY Zenon, <1>4, <1>9
  <2>2. Sound(frames', macros', mMacroSet, clean')
    BY Zenon, <1>1, <1>3, <1>4, <1>5, <2>1, CollectToken
  <2> QED BY <2>2, Zenon
<1> QED
  BY <1>6, <1>7, <1>8, <1>9, Zenon DEF token, e

\* The expander of a directive starts.
LEMMA ExpressionStep ==
  ASSUME Laws, IInv, parseExpression, clean' = clean
  PROVE  Sound(frames', macros', mMacroSet', clean')
<1>1. PICK parseDefined \in BOOLEAN :
        frames' = Append(frames, NewExpander("dir", <<>>, maxMacroExpansionDepth, parseDefined))
  BY Zenon DEF parseExpression
<1> DEFINE g == NewExpander("dir", <<>>, maxMacroExpansionDepth, parseDefined)
<1>2. top.kind = "main" /\ macros' = macros /\ mMacroSet' = mMacroSet
  BY Zenon DEF parseExpression, betweenTokens
<1>3. /\ top.pc # "args" /\ frames \in Seq(Frame) /\ frames # <<>> /\ clean \in BOOLEAN
      /\ Good(frames, macros, mMacroSet, clean)
  BY Running, Zenon
<1>4. Local(g) /\ In(g) = {} /\ Re(g) = {} /\ Iv(g) = {} /\ g.kind = "dir" /\ g.pc = "lex" /\ g \in Frame
  <2>1. <<>> \in Seq(Plain) /\ maxMacroExpansionDepth \in Int
    BY LimitAssumption
  <2> QED BY Zenon, <2>1, NewFrame
<1>5. frames' = Append(frames, g)
  BY Zenon, <1>1
<1> HIDE DEF g
<1>6. Below(frames, g)
  BY Zenon, <1>2, <1>3, <1>4 DEF Below, Link, top
<1>7. Good(Append(frames, g), macros, mMacroSet, clean)
  BY Zenon, <1>3, <1>4, <1>6, GoodAdd
<1>8. g.pc # "args"
  BY Zenon, <1>4
<1>9. Sound(Append(frames, g), macros, mMacroSet, clean)
  BY Zenon, <1>3, <1>4, <1>7, <1>8, SoundTop
<1> QED
  BY <1>2, <1>5, <1>9, Zenon

\* parseDefine() keeps the invariant.
LEMMA DefineStep ==
  ASSUME Laws, IInv, NEW d \in Definitions, parseDefine(d), clean' = clean
  PROVE  Sound(frames', macros', mMacroSet', clean')
<1>1. Good(frames, macros, mMacroSet, clean) /\ frames # <<>> /\ Last(frames).pc # "args" /\ clean \in BOOLEAN
  BY Running, Zenon DEF IInv, Sound
<1>2. d \in Definition
  BY Zenon, TextAssumption
<1>3. Defined(macros, mMacroSet, d, macros', mMacroSet') /\ frames' = frames
  BY Zenon DEF parseDefine, Defined
<1>4. Good(frames, macros', mMacroSet', clean)
  BY <1>1, <1>2, <1>3, DefineGood, Zenon
<1> QED
  BY <1>1, <1>3, <1>4, Zenon DEF Sound

\* parseUndef() keeps the invariant: a macro it removes has count 0, so no uses.
LEMMA UndefStep ==
  ASSUME Laws, IInv, NEW name, parseUndef(name), clean' \in BOOLEAN, clean' => clean
  PROVE  Sound(frames', macros', mMacroSet', clean')
<1>1. Good(frames, macros, mMacroSet, clean) /\ frames # <<>> /\ Last(frames).pc # "args" /\ clean \in BOOLEAN
      /\ Front(frames) \in Seq(Frame) /\ top \in Frame /\ frames = Append(Front(frames), top) /\ Local(top)
  BY Running, Zenon DEF IInv, Sound
<1>2. Good(frames, macros, mMacroSet, clean')
  <2> DEFINE B == Front(frames)
             d == top
  <2>1. Good(Append(B, d), macros, mMacroSet, clean) /\ B \in Seq(Frame) /\ d \in Frame /\ Local(d)
    BY <1>1, Running, Zenon
  <2>2. frames = Append(B, d)
    BY Zenon, <1>1
  <2> HIDE DEF B, d
  <2>3. Good(Append(B, d), macros, mMacroSet, clean')
    BY <1>1, <2>1, GoodSame
  <2> QED BY Zenon, <2>2, <2>3
<1>3. /\ name \in DOMAIN mMacroSet /\ macros' = macros /\ frames' = frames
      /\ \/ mMacroSet' = mMacroSet
         \/ /\ ~(macros[mMacroSet[name]].expansionCount > 0)
            /\ mMacroSet' = [n \in DOMAIN mMacroSet \ {name} |-> mMacroSet[n]]
  BY Zenon DEF parseUndef
<1>4. Good(frames, macros, mMacroSet', clean')
  BY <1>2, <1>3, UndefGood
<1> QED
  BY <1>1, <1>3, <1>4, Zenon DEF Sound

\* Every step keeps the invariant.
LEMMA NextSound ==
  ASSUME Laws
  PROVE  IInv /\ [Next]_vars => IInv'
<1> SUFFICES ASSUME IInv, [Next]_vars PROVE IInv'
  BY Zenon
<1>1. CASE UNCHANGED vars
  BY <1>1, Zenon DEF vars, IInv, clean
<1>2. CASE Next
  <2>1. error' \in BOOLEAN /\ abandoned' \in BOOLEAN /\ clean' \in BOOLEAN /\ (clean' => clean)
    BY Zenon, <1>2, Sticky
  <2>2. Sound(frames', macros', mMacroSet', clean')
    <3>1. CASE popMacro
      <4>1. clean' = clean
        BY <3>1, Zenon DEF popMacro, clean
      <4> QED BY <3>1, <4>1, PopStep, Zenon
    <3>2. CASE lex
      <4>1. PICK got \in getToken : top.pc = "lex" /\ lexToken(got.token, got.expander) /\ mMacroSet' = mMacroSet
        BY <3>2, Zenon DEF lex, running
      <4> QED BY <2>1, <4>1, TokenStep, Zenon
    <3>3. CASE lexDefined
      <4>1. PICK got \in getToken : top.pc \in Defineds /\ definedToken(got.token, got.expander) /\ mMacroSet' = mMacroSet
        BY <3>3, Zenon DEF lexDefined, running, Defineds
      <4> QED BY <2>1, <4>1, TokenStep, Zenon
    <3>4. CASE isNextTokenLeftParen
      <4>1. PICK got \in getToken : top.pc = "peek" /\ peekToken(got.token, got.expander) /\ mMacroSet' = mMacroSet
        BY <3>4, Zenon DEF isNextTokenLeftParen, running
      <4> QED BY <2>1, <4>1, TokenStep, Zenon
    <3>5. CASE collectMacroArgs
      <4>1. PICK got \in getToken : top.pc = "collect" /\ collectToken(got.token, got.expander) /\ mMacroSet' = mMacroSet
        BY <3>5, Zenon DEF collectMacroArgs, running
      <4> QED BY <2>1, <4>1, TokenStep, Zenon
    <3>6. CASE parseExpression
      <4>1. clean' = clean
        BY <3>6, Zenon DEF parseExpression, clean
      <4> QED BY <3>6, <4>1, ExpressionStep, Zenon
    <3>7. ASSUME NEW d \in Definitions, parseDefine(d) PROVE Sound(frames', macros', mMacroSet', clean')
      <4>1. clean' = clean
        BY <3>7, Zenon DEF parseDefine, clean
      <4> QED BY <3>7, <4>1, DefineStep, Zenon
    <3>8. ASSUME NEW name \in Names, parseUndef(name) PROVE Sound(frames', macros', mMacroSet', clean')
      BY <2>1, <3>8, UndefStep, Zenon
    <3> QED BY <1>2, <3>1, <3>2, <3>3, <3>4, <3>5, <3>6, <3>7, <3>8, Zenon DEF Next, expand
  <2>3. IInv' = (Sound(frames', macros', mMacroSet', clean') /\ error' \in BOOLEAN /\ abandoned' \in BOOLEAN)
    BY Zenon DEF IInv
  <2> QED BY <2>1, <2>2, <2>3, Zenon
<1> QED
  BY <1>1, <1>2, Zenon

-----------------------------------------------------------------------------
(* The laws, proved                                                        *)

FS == INSTANCE FiniteSetTheorems
LOCAL INSTANCE WellFoundedInduction

\* A non-empty set of naturals has a least element.
LEMMA LeastElement ==
  ASSUME NEW S, S \subseteq Nat, S # {}
  PROVE  \E m \in S : \A n \in S : m <= n
<1>1. PICK m \in S : \A n \in S : <<n, m>> \notin OpToRel(<, Nat)
  BY Zenon, NatLessThanWellFounded, WFMin
<1>2. \A n \in S : ~(n < m)
  BY Zenon, <1>1 DEF OpToRel
<1> QED
  BY <1>2

\* The laws the lemmas above assume.
LEMMA LawsHold == Laws
<1>1. LeastLaw
  BY LeastElement, Zenon DEF LeastLaw
<1>2. TokenLaws /\ ReplaceLaw
  BY <1>1, RecursionLaws, Zenon
<1>3. \A X : Cardinality(X) = FS!Cardinality(X)
  BY Zenon DEF Cardinality, FS!Cardinality
<1>4. FS!Cardinality({}) = 0 /\ \A p : FS!Cardinality({p}) = 1
  BY Zenon, FS!FS_EmptySet, FS!FS_Singleton
<1>5. ASSUME NEW n \in Nat, NEW X \in SUBSET (1..n)
      PROVE  /\ FS!Cardinality(X) \in Nat /\ (FS!Cardinality(X) = 0 <=> X = {})
             /\ FS!Cardinality(X \cup {n + 1}) = FS!Cardinality(X) + 1
  <2>1. FS!IsFiniteSet(1..n)
    BY FS!FS_Interval
  <2>2. FS!IsFiniteSet(X)
    BY Zenon, <2>1, FS!FS_Subset
  <2>3. n + 1 \notin X
    OBVIOUS
  <2> QED BY Zenon, <2>2, <2>3, FS!FS_CardinalityType, FS!FS_EmptySet, FS!FS_AddElement
<1>6. CountLaws
  BY Zenon, <1>3, <1>4, <1>5 DEF CountLaws
<1> QED
  BY Zenon, <1>2, <1>6 DEF Laws

\* At every moment of every expansion the expanders form a proper stack, the macro
\* set names live macros, and what the expanders hold and invoke agrees with the
\* counts and the marks in the table (MacroExpander.cpp, DirectiveParser.cpp).
THEOREM Inductive == Spec => []IInv
<1>1. Laws
  BY Zenon, LawsHold
<1>2. Init => IInv
  BY Zenon, <1>1, InitSound
<1>3. IInv /\ [Next]_vars => IInv'
  BY Zenon, <1>1, NextSound
<1> QED
  BY <1>2, <1>3, PTL DEF Spec

\* The macro set, the context stacks, mTotalTokensInContexts and the reserve token
\* are always consistent: the assertions of getToken() and ungetToken() hold, for
\* all macros, all sources and all limits.
THEOREM TypeCorrect == Spec => []TypeOK
<1>1. IInv => TypeOK
  BY Zenon, LawsHold, Consequences
<1> QED
  BY <1>1, Inductive, PTL

\* expansionCount never falls below the expansions and invocations under way, and is
\* exact until an error or an abandoned directive: lex(), expandMacro() and popMacro()
\* count up and down in pairs.
THEOREM CountIsExact == Spec => []ExpansionCountExact
<1>1. IInv => ExpansionCountExact
  BY Zenon, LawsHold, Consequences
<1> QED
  BY <1>1, Inductive, PTL

\* No macro is expanded inside its own expansion, in all the live expanders together:
\* lex(), popMacro() and ScopedMacroReenabler keep it disabled exactly that long.
THEOREM DisabledIsExact == Spec => []DisabledWhileExpanded
<1>1. IInv => DisabledWhileExpanded
  BY Zenon, LawsHold, Consequences
<1> QED
  BY <1>1, Inductive, PTL

\* parseUndef() and parseDefine() never remove or replace a macro that is being
\* expanded or invoked, also from within the arguments of its own invocation.
THEOREM InUseIsDefined == Spec => []InUseStaysDefined
<1>1. IInv => InUseStaysDefined
  BY Zenon, LawsHold, Consequences
<1> QED
  BY <1>1, Inductive, PTL
=============================================================================
