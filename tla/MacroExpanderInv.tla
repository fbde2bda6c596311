-------------------------- MODULE MacroExpanderInv --------------------------
(***************************************************************************)
(* The inductive invariant of the macro expander, for all macros, sources  *)
(* and limits, and what its state may undergo.  MacroExpanderProofs shows  *)
(* that every step keeps it and what follows.                              *)
(*                                                                         *)
(* An expander holds a macro that it has a context of or will re-enable,   *)
(* and invokes the one whose '(' it looks for, whose arguments it collects *)
(* or has expanded.  No macro is held twice in the whole stack; what an    *)
(* expander invokes is not held by it or by any below it, but an expander  *)
(* above may hold it, since a macro is not disabled while its arguments    *)
(* are collected and expanded.  What is held is disabled, what is in a     *)
(* context or invoked is in the macro set, and expansionCount is the       *)
(* number of both.  Errors and destroyed directive expanders may leave     *)
(* counts too high and marks set, never the opposite.                      *)
(*                                                                         *)
(* The frame on top is treated apart from the others throughout: a step    *)
(* changes it, or it and the one below.  The updates of records inside     *)
(* sequences are named (Put, Marked, Counts, Popped, Pushed, Shorter) and  *)
(* characterised once, so that the later proofs use only what they do.     *)
(***************************************************************************)
EXTENDS MacroExpander, TLAPS

\* A prefix of a sequence.
LEMMA FrontOfSeq ==
  ASSUME NEW S, NEW seq \in Seq(S), NEW n \in Nat, n <= Len(seq)
  PROVE  /\ SubSeq(seq, 1, n) \in Seq(S)
         /\ Len(SubSeq(seq, 1, n)) = n
         /\ \A i \in 1..n : SubSeq(seq, 1, n)[i] = seq[i]
OBVIOUS

\* Front, Last and Append.
LEMMA FrontLast ==
  ASSUME NEW S, NEW s \in Seq(S), s # <<>>
  PROVE  /\ Front(s) \in Seq(S) /\ Len(Front(s)) = Len(s) - 1
         /\ \A i \in 1..(Len(s) - 1) : Front(s)[i] = s[i]
         /\ Last(s) \in S
         /\ s = Append(Front(s), Last(s))
         /\ Len(s) \in Nat \ {0}
<1>1. Len(s) \in Nat \ {0}
  OBVIOUS
<1>2. /\ Front(s) \in Seq(S) /\ Len(Front(s)) = Len(s) - 1
      /\ \A i \in 1..(Len(s) - 1) : Front(s)[i] = s[i]
  <2>1. Len(s) - 1 \in Nat /\ Len(s) - 1 <= Len(s)
    BY <1>1
  <2> QED BY Zenon, <2>1, FrontOfSeq DEF Front
<1>3. Last(s) \in S
  BY <1>1 DEF Last
<1> QED
  BY <1>1, <1>2, <1>3 DEF Last

\* What Append does, in one place.
LEMMA AppendFacts ==
  ASSUME NEW S, NEW s \in Seq(S), NEW x \in S
  PROVE  /\ Append(s, x) \in Seq(S) /\ Len(Append(s, x)) = Len(s) + 1 /\ Len(s) \in Nat
         /\ \A i \in 1..Len(s) : Append(s, x)[i] = s[i]
         /\ Append(s, x)[Len(s) + 1] = x
         /\ Append(s, x) # <<>>
         /\ Front(Append(s, x)) = s /\ Last(Append(s, x)) = x
<1>1. /\ Append(s, x) \in Seq(S) /\ Len(Append(s, x)) = Len(s) + 1 /\ Len(s) \in Nat
      /\ \A i \in 1..Len(s) : Append(s, x)[i] = s[i]
      /\ Append(s, x)[Len(s) + 1] = x
      /\ Append(s, x) # <<>>
  OBVIOUS
<1>2. Front(Append(s, x)) = s
  BY <1>1 DEF Front
<1> QED
  BY <1>1, <1>2 DEF Last

\* A function on 1..n is a sequence.
LEMMA SeqOf ==
  ASSUME NEW S, NEW n \in Nat, NEW f \in [1..n -> S]
  PROVE  f \in Seq(S) /\ Len(f) = n
OBVIOUS

-----------------------------------------------------------------------------
(* The state                                                               *)

\* A token other than LAST, and a context: a macro and how far into its
\* replacement list the expander is.
Plain == [text : Text, expansionDisabled : BOOLEAN]

Context == [macro : Nat, replacements : Seq(Plain), index : Nat]

\* The types of the state.  Call is what collectMacroArgs() keeps of an
\* invocation; Defineds is where lex() is inside a defined operator.
Token == [text : Text \cup {"LAST"}, expansionDisabled : BOOLEAN]

Call == [macro : Nat, openParens : Int, args : Seq(Seq(Plain)), arg : Nat, numTokens : Int, first : BOOLEAN]

Defineds == {"defined", "definedParen", "definedClose"}

Frame ==
  [kind : {"main", "arg", "dir"}, lexer : Seq(Plain), depth : Int, parseDefined : BOOLEAN,
   pc : {"lex", "peek", "collect", "args"} \cup Defineds, reserve : Seq(Token), contexts : Seq(Context),
   total : Int, reenable : Seq(Nat), call : Call]

Macro ==
  [name : Text, func : BOOLEAN, arity : Nat, body : Seq(Text), disabled : BOOLEAN, expansionCount : Int]

\* The macros an expander has contexts of, will re-enable, and is invoking.
MacrosOf(contexts) == {contexts[j].macro : j \in 1..Len(contexts)}

Elements(list) == {list[j] : j \in 1..Len(list)}

In(e) == MacrosOf(e.contexts)

Re(e) == Elements(e.reenable)

Iv(e) == IF e.pc \in {"peek", "collect", "args"} THEN {e.call.macro} ELSE {}

Held(e) == In(e) \cup Re(e)

\* The disabled macros of a table, and the ones the macro set names.
Dis(M) == {m \in 1..Len(M) : M[m].disabled}

Live(M, S) == {m \in 1..Len(M) : \E n \in DOMAIN S : S[n] = m}

\* No macro is held twice, or both held and invoked by the same expander or one
\* above; what is held is disabled, and what is in use is in the macro set.
Separate(F, D, L) ==
  /\ \A i \in 1..Len(F) : Held(F[i]) \subseteq D /\ In(F[i]) \subseteq L /\ Iv(F[i]) \subseteq L
  /\ \A i \in 1..Len(F) : In(F[i]) \cap Re(F[i]) = {}
  /\ \A i, j \in 1..Len(F) : i # j => Held(F[i]) \cap Held(F[j]) = {}
  /\ \A i, j \in 1..Len(F) : j <= i => Iv(F[i]) \cap Held(F[j]) = {}

\* The expanders that are invoking m, and how often m is in use in all of F and
\* in e alone: what expansionCount counts.
Invoked(F, m) == {i \in 1..Len(F) : m \in Iv(F[i])}

Uses(F, m) ==
  (IF \E i \in 1..Len(F) : m \in In(F[i]) THEN 1 ELSE 0) + Cardinality(Invoked(F, m))

\* expansionCount is never too low; when nothing has gone wrong (c) it is exact.
Counted(F, M, c) ==
  \A m \in 1..Len(M) :
    /\ M[m].expansionCount >= Uses(F, m)
    /\ c => M[m].expansionCount = Uses(F, m)

\* Every disabled macro is held by some expander.
Covered(F, D) == \A m \in D : \E i \in 1..Len(F) : m \in Held(F[i])

\* The conditions on what the expanders do with the macros, together.
Kept(F, M, S, c) ==
  Separate(F, Dis(M), Live(M, S)) /\ Counted(F, M, c) /\ (c => Covered(F, Dis(M)))

\* A context stack: no macro twice, and every index within its list.
ContextsOK(s) ==
  /\ s \in Seq(Context)
  /\ \A j \in 1..Len(s) : s[j].index \in 0..Len(s[j].replacements)
  /\ \A j, k \in 1..Len(s) : s[j].macro = s[k].macro => j = k

\* What holds of every live expander by itself.
Local(e) ==
  /\ e \in Frame
  /\ ContextsOK(e.contexts)
  /\ e.total = TokensIn(e.contexts)
  /\ e.reserve # <<>> => e.contexts = <<>> /\ e.pc = "lex" /\ Len(e.reserve) = 1
  /\ e.pc \notin {"collect", "args"} => e.reenable = <<>>
  /\ e.pc = "collect" => e.call.args # <<>>
  /\ e.pc = "args" => e.call.arg \in 1..Len(e.call.args)
  /\ e.kind = "main" => ~e.parseDefined /\ e.pc \notin Defineds

\* Expander b is directly above a.
Link(a, b) ==
  /\ b.kind # "main"
  /\ a.pc = "args" <=> b.kind = "arg"
  /\ b.kind = "dir" => a.kind = "main"

\* The live expanders: the main one at the bottom, each linked to the next.
Stack(F) ==
  /\ F \in Seq(Frame)
  /\ \A i \in 1..Len(F) : Local(F[i])
  /\ F # <<>> => F[1].kind = "main"
  /\ \A i \in 1..(Len(F) - 1) : Link(F[i], F[i + 1])

\* The macro set names macros of the table by their names.
Table(M, S) ==
  /\ M \in Seq(Macro)
  /\ \A n \in DOMAIN S : S[n] \in 1..Len(M) /\ M[S[n]].name = n

\* The state between two steps, c telling whether nothing has gone wrong.
Good(F, M, S, c) == Stack(F) /\ Table(M, S) /\ Kept(F, M, S, c)

\* A good state whose top expander can run: it is not waiting for its arguments.
Sound(F, M, S, c) == Good(F, M, S, c) /\ F # <<>> /\ Last(F).pc # "args"

\* The inductive invariant: a sound state, exact as long as nothing has gone wrong.
IInv == Sound(frames, macros, mMacroSet, clean) /\ error \in BOOLEAN /\ abandoned \in BOOLEAN

-----------------------------------------------------------------------------
(* Laws of the operators                                                   *)

\* The number of tokens when a context is pushed, popped, or read further.
TokenLaws ==
  /\ TokensIn(<<>>) = 0
  /\ \A s \in Seq(Context) :
       /\ TokensIn(s) \in Nat
       /\ \A c \in Context : TokensIn(Append(s, c)) = TokensIn(s) + Len(c.replacements)
       /\ s # <<>> => TokensIn(Front(s)) = TokensIn(s) - Len(Last(s).replacements)
       /\ \A t \in Seq(Context) :
            Len(t) = Len(s) /\ (\A i \in 1..Len(s) : t[i].replacements = s[i].replacements)
              => TokensIn(t) = TokensIn(s)

\* replaceMacroParams() gives a list of ordinary tokens.
ReplaceLaw ==
  \A e : \A body \in Seq(Text) :
    e.call.args \in Seq(Seq(Plain)) => Replace(e, body).list \in Seq(Plain) /\ Replace(e, body).cut \in BOOLEAN

\* The number of elements of the sets that are counted.
CountLaws ==
  /\ Cardinality({}) = 0 /\ \A p : Cardinality({p}) = 1
  /\ \A n \in Nat : \A X \in SUBSET (1..n) :
       /\ Cardinality(X) \in Nat /\ (Cardinality(X) = 0 <=> X = {})
       /\ Cardinality(X \cup {n + 1}) = Cardinality(X) + 1

\* A non-empty set of naturals has a least element.
LeastLaw == \A S \in SUBSET Nat : S # {} => \E m \in S : \A n \in S : m <= n

\* What is proved of TokensIn, Replace and Cardinality (LawsHold, at the end of
\* MacroExpanderProofs), and assumed by the lemmas that need it until then.
Laws == TokenLaws /\ ReplaceLaw /\ CountLaws

-----------------------------------------------------------------------------
(* TokensIn and Replace, functions defined by recursion                    *)

\* g is the function on 0..n with first value b and steps h, and h stays in T.
Closed(T, n, h) == \A i \in 1..n : \A t \in T : h[i][t] \in T

Solves(T, b, n, h, g) ==
  /\ g \in [0..n -> T]
  /\ g[0] = b
  /\ \A i \in 1..n : g[i] = h[i][g[i - 1]]

\* The partial sums of the lengths of s.
Sums(s, g) ==
  /\ g \in [0..Len(s) -> Nat] /\ g[0] = 0
  /\ \A i \in 1..Len(s) : g[i] = g[i - 1] + Len(s[i].replacements)

\* The laws of TokensIn and Replace, by induction in the form of a least
\* counterexample.
LEMMA RecursionLaws == LeastLaw => TokenLaws /\ ReplaceLaw
<1> SUFFICES ASSUME LeastLaw PROVE TokenLaws /\ ReplaceLaw
  OBVIOUS
<1>LeastElement.
     ASSUME NEW S, S \subseteq Nat, S # {}
     PROVE  \E m \in S : \A n \in S : m <= n
  BY Zenon, <1>LeastElement DEF LeastLaw
\* A recursion on 0..n whose step is a function has a solution.
<1>RecursionExists.
     ASSUME NEW T, NEW b \in T, NEW n \in Nat, NEW h, Closed(T, n, h)
     PROVE  \E g : Solves(T, b, n, h, g)
  <2> USE <1>RecursionExists
  <2> DEFINE P(k) == \E g : Solves(T, b, k, h, g)
  <2>1. P(0)
    <3> DEFINE g == [i \in 0..0 |-> b]
    <3>1. Solves(T, b, 0, h, g)
      BY DEF Solves
    <3> QED BY <3>1, Zenon
  <2>2. ASSUME NEW k \in 1..n, P(k - 1) PROVE P(k)
    <3>1. PICK g : Solves(T, b, k - 1, h, g)
      BY <2>2, Zenon
    <3> DEFINE f == [i \in 0..k |-> IF i = k THEN h[k][g[k - 1]] ELSE g[i]]
    <3>2. h[k][g[k - 1]] \in T
      BY <3>1 DEF Solves, Closed
    <3>3. f \in [0..k -> T]
      BY <3>1, <3>2 DEF Solves
    <3>4. f[0] = b
      BY <3>1 DEF Solves
    <3>5. ASSUME NEW i \in 1..k PROVE f[i] = h[i][f[i - 1]]
      <4>1. CASE i = k
        BY <4>1
      <4>2. CASE i # k
        BY <4>2, <3>1 DEF Solves
      <4> QED BY <4>1, <4>2
    <3> HIDE DEF f
    <3>6. Solves(T, b, k, h, f)
      BY <3>3, <3>4, <3>5 DEF Solves
    <3> QED
      BY <3>6, Zenon
  <2> HIDE DEF P
  <2> DEFINE S == {k \in 0..n : ~P(k)}
  <2>3. SUFFICES ASSUME S # {} PROVE FALSE
    <3>1. n \in 0..n
      OBVIOUS
    <3> QED BY <3>1 DEF P
  <2>4. S \subseteq Nat
    OBVIOUS
  <2>5. PICK k \in S : \A j \in S : k <= j
    BY <2>3, <2>4, <1>LeastElement, Zenon
  <2>6. k \in 1..n
    BY <2>1
  <2>7. P(k - 1)
    BY <2>5, <2>6
  <2> QED
    BY <2>2, <2>6, <2>7
\* TokensIn, a function defined by recursion, is the last partial sum.
<1>TokensAreSum.
     ASSUME NEW s \in Seq(Context)
     PROVE  \E g : Sums(s, g) /\ TokensIn(s) = g[Len(s)]
  <2> USE <1>TokensAreSum
  <2> DEFINE n == Len(s)
  <2> DEFINE h == [i \in 1..n |-> [t \in Nat |-> t + Len(s[i].replacements)]]
  <2> DEFINE G(f) == f = [k \in 0..n |-> IF k = 0 THEN 0 ELSE f[k - 1] + Len(s[k].replacements)]
  <2>1. n \in Nat /\ \A i \in 1..n : Len(s[i].replacements) \in Nat
    BY DEF Context
  <2>2. \A i \in 1..n : \A t \in Nat : h[i][t] \in Nat /\ h[i][t] = t + Len(s[i].replacements)
    BY <2>1
  <2> HIDE DEF n, h
  <2>3. PICK g : Solves(Nat, 0, n, h, g)
    <3>1. 0 \in Nat /\ Closed(Nat, n, h)
      BY <2>2 DEF Closed
    <3> QED BY <2>1, <3>1, <1>RecursionExists, Zenon
  <2>4. ASSUME NEW i \in 1..n PROVE g[i] = g[i - 1] + Len(s[i].replacements)
    <3>1. g[i - 1] \in Nat
      BY <2>1, <2>3 DEF Solves
    <3> QED BY Zenon, <2>2, <2>3, <3>1 DEF Solves
  <2>5. G(g)
    <3>1. \A k \in 0..n : k # 0 => k \in 1..n
      BY <2>1
    <3>2. \A k \in 0..n : g[k] = IF k = 0 THEN 0 ELSE g[k - 1] + Len(s[k].replacements)
      BY <3>1, <2>3, <2>4 DEF Solves
    <3>3. g = [k \in 0..n |-> g[k]]
      BY <2>3 DEF Solves
    <3> QED BY Zenon, <3>2, <3>3
  <2> DEFINE f == CHOOSE f : G(f)
  <2>6. G(f)
    BY <2>5, Zenon
  <2>7. TokensIn(s) = f[n]
    BY Zenon DEF TokensIn, n
  <2> HIDE DEF f
  <2>8. f[0] = 0 /\ \A k \in 1..n : f[k] = f[k - 1] + Len(s[k].replacements)
    BY <2>1, <2>6
  <2>9. f = g
    <3> DEFINE S == {k \in 0..n : f[k] # g[k]}
    <3>1. SUFFICES S = {}
      <4>1. f = [k \in 0..n |-> f[k]]
        BY <2>6
      <4>2. g = [k \in 0..n |-> g[k]]
        BY <2>3 DEF Solves
      <4>3. S = {} => \A k \in 0..n : f[k] = g[k]
        OBVIOUS
      <4> QED BY Zenon, <4>1, <4>2, <4>3
    <3>2. SUFFICES ASSUME S # {} PROVE FALSE
      OBVIOUS
    <3>3. S \subseteq Nat
      BY <2>1
    <3>4. PICK k \in S : \A j \in S : k <= j
      BY <3>2, <3>3, <1>LeastElement, Zenon
    <3>5. k # 0 /\ k \in 1..n /\ k - 1 \in 0..n
      BY <2>1, <2>3, <2>8 DEF Solves
    <3>6. f[k - 1] = g[k - 1]
      BY <3>4, <3>5, <2>1
    <3> QED
      BY <2>4, <2>8, <3>5, <3>6
  <2> QED
    BY <2>3, <2>4, <2>7, <2>9 DEF Sums, n, Solves
\* The sums of a list that agrees with s on its first n elements.
<1>SumsAgree.
     ASSUME NEW s \in Seq(Context), NEW t \in Seq(Context), NEW f, NEW g, Sums(s, f), Sums(t, g),
            NEW n \in Nat, n <= Len(s), n <= Len(t),
            \A i \in 1..n : Len(s[i].replacements) = Len(t[i].replacements)
     PROVE  f[n] = g[n]
  <2> USE <1>SumsAgree
  <2> DEFINE S == {k \in 0..n : f[k] # g[k]}
  <2>1. SUFFICES ASSUME S # {} PROVE FALSE
    OBVIOUS
  <2> USE DEF Sums
  <2>2. S \subseteq Nat
    OBVIOUS
  <2>3. PICK k \in S : \A j \in S : k <= j
    BY <2>1, <2>2, <1>LeastElement, Zenon
  <2>4. k # 0 /\ k \in 1..n /\ k - 1 \in 0..n
    OBVIOUS
  <2>5. f[k - 1] = g[k - 1]
    BY <2>3, <2>4
  <2> QED
    BY <2>4, <2>5
\* The number of tokens when a context is pushed, popped, or read further.
<1>TokensFacts.
     ASSUME NEW s \in Seq(Context)
     PROVE  /\ TokensIn(<<>>) = 0
            /\ TokensIn(s) \in Nat
            /\ \A c \in Context : TokensIn(Append(s, c)) = TokensIn(s) + Len(c.replacements)
            /\ s # <<>> => TokensIn(Front(s)) = TokensIn(s) - Len(Last(s).replacements)
            /\ \A t \in Seq(Context) :
                 Len(t) = Len(s) /\ (\A i \in 1..Len(s) : t[i].replacements = s[i].replacements)
                   => TokensIn(t) = TokensIn(s)
  <2> USE <1>TokensFacts
  <2>1. PICK f : Sums(s, f) /\ TokensIn(s) = f[Len(s)]
    BY <1>TokensAreSum, Zenon
  <2>2. TokensIn(<<>>) = 0
    <3>1. <<>> \in Seq(Context) /\ Len(<<>>) = 0
      OBVIOUS
    <3>2. PICK g : Sums(<<>>, g) /\ TokensIn(<<>>) = g[0]
      BY <3>1, <1>TokensAreSum, Zenon
    <3> QED BY <3>2 DEF Sums
  <2>3. TokensIn(s) \in Nat
    BY <2>1 DEF Sums
  <2>4. ASSUME NEW c \in Context PROVE TokensIn(Append(s, c)) = TokensIn(s) + Len(c.replacements)
    <3> DEFINE t == Append(s, c)
    <3>1. /\ t \in Seq(Context) /\ Len(t) = Len(s) + 1 /\ Len(s) \in Nat
          /\ \A i \in 1..Len(s) : t[i] = s[i]
          /\ t[Len(s) + 1] = c
      BY AppendFacts
    <3> HIDE DEF t
    <3>2. PICK g : Sums(t, g) /\ TokensIn(t) = g[Len(t)]
      BY <3>1, <1>TokensAreSum, Zenon
    <3>3. f[Len(s)] = g[Len(s)]
      <4>1. Len(s) <= Len(t) /\ Len(s) <= Len(s)
        BY <3>1
      <4>2. \A i \in 1..Len(s) : Len(s[i].replacements) = Len(t[i].replacements)
        BY <3>1
      <4>3. t \in Seq(Context) /\ Len(s) \in Nat /\ Sums(s, f) /\ Sums(t, g)
        BY <2>1, <3>1, <3>2, Zenon
      <4> QED BY <4>1, <4>2, <4>3, <1>SumsAgree
    <3>4. g[Len(s) + 1] = g[Len(s)] + Len(c.replacements)
      BY <3>1, <3>2 DEF Sums
    <3> QED BY <2>1, <3>1, <3>2, <3>3, <3>4 DEF t
  <2>5. ASSUME s # <<>> PROVE TokensIn(Front(s)) = TokensIn(s) - Len(Last(s).replacements)
    <3> DEFINE t == Front(s)
    <3>1. /\ t \in Seq(Context) /\ Len(t) = Len(s) - 1 /\ Len(s) \in Nat \ {0}
          /\ \A i \in 1..(Len(s) - 1) : t[i] = s[i]
          /\ Last(s) \in Context
      BY <2>5, FrontLast, Zenon
    <3> HIDE DEF t
    <3>2. PICK g : Sums(t, g) /\ TokensIn(t) = g[Len(t)]
      BY <3>1, <1>TokensAreSum, Zenon
    <3>3. f[Len(t)] = g[Len(t)]
      <4>1. Len(t) <= Len(s) /\ Len(t) <= Len(t) /\ Len(t) \in Nat
        BY <3>1
      <4>2. \A i \in 1..Len(t) : Len(s[i].replacements) = Len(t[i].replacements)
        BY <3>1
      <4>3. t \in Seq(Context) /\ Sums(s, f) /\ Sums(t, g)
        BY <2>1, <3>1, <3>2, Zenon
      <4> QED BY <4>1, <4>2, <4>3, <1>SumsAgree
    <3>4. f[Len(s)] = f[Len(t)] + Len(Last(s).replacements)
      BY <3>1, <2>1 DEF Sums, Last
    <3>5. Len(Last(s).replacements) \in Nat /\ f[Len(t)] \in Nat
      <4>1. Len(Last(s).replacements) \in Nat
        BY <3>1 DEF Context
      <4>2. Len(t) \in 0..Len(s)
        BY <3>1
      <4>3. f[Len(t)] \in Nat
        BY <4>2, <2>1 DEF Sums
      <4> QED BY <4>1, <4>3
    <3>6. TokensIn(s) = TokensIn(t) + Len(Last(s).replacements) /\ TokensIn(t) \in Nat
      <4>1. TokensIn(t) = f[Len(t)]
        BY <3>2, <3>3
      <4>2. TokensIn(s) = f[Len(s)]
        BY <2>1
      <4> QED BY <4>1, <4>2, <3>4, <3>5
    <3> QED BY <3>5, <3>6 DEF t
  <2>6. ASSUME NEW t \in Seq(Context), Len(t) = Len(s),
               \A i \in 1..Len(s) : t[i].replacements = s[i].replacements
        PROVE  TokensIn(t) = TokensIn(s)
    <3>1. PICK g : Sums(t, g) /\ TokensIn(t) = g[Len(t)]
      BY <1>TokensAreSum, Zenon
    <3>2. Len(s) \in Nat /\ Len(s) <= Len(s) /\ Len(s) <= Len(t)
      BY <2>6
    <3>3. \A i \in 1..Len(s) : Len(s[i].replacements) = Len(t[i].replacements)
      BY <2>6
    <3>4. f[Len(s)] = g[Len(s)]
      BY <3>2, <3>3, <2>1, <3>1, <1>SumsAgree
    <3> QED BY <2>1, <3>1, <3>4, <2>6
  <2> QED
    BY <2>2, <2>3, <2>4, <2>5, <2>6
\* replaceMacroParams() gives a list of ordinary tokens.
<1>ReplaceFacts.
     ASSUME NEW e, e.call.args \in Seq(Seq(Plain)), NEW body \in Seq(Text)
     PROVE  Replace(e, body).list \in Seq(Plain) /\ Replace(e, body).cut \in BOOLEAN
  <2> USE <1>ReplaceFacts
  <2> DEFINE T == [list : Seq(Plain), cut : BOOLEAN]
  <2> DEFINE n == Len(body)
  <2> DEFINE b == [list |-> <<>>, cut |-> FALSE]
  <2> DEFINE Step(acc, text) ==
          IF acc.cut \/ (acc.list # <<>> /\ Len(acc.list) + e.total > kMaxContextTokens)
            THEN [acc EXCEPT !.cut = TRUE]
          ELSE IF \E i \in 1..Len(e.call.args) : params[i] = text
            THEN [acc EXCEPT !.list = @ \o
                    e.call.args[CHOOSE i \in 1..Len(e.call.args) : params[i] = text]]
          ELSE [acc EXCEPT !.list = Append(@, Tok(text))]
  <2> DEFINE h == [i \in 1..n |-> [t \in T |-> Step(t, body[i])]]
  <2> DEFINE G(f) == f = [k \in 0..n |-> IF k = 0 THEN b ELSE Step(f[k - 1], body[k])]
  <2>1. n \in Nat
    OBVIOUS
  <2>2. b \in T
    OBVIOUS
  <2>3. ASSUME NEW acc \in T, NEW text \in Text PROVE Step(acc, text) \in T
    <3>1. [acc EXCEPT !.cut = TRUE] \in T
      BY Zenon
    <3>2. [acc EXCEPT !.list = Append(@, Tok(text))] \in T
      <4>1. Tok(text) \in Plain
        BY DEF Tok, Plain
      <4>2. Append(acc.list, Tok(text)) \in Seq(Plain)
        BY <4>1
      <4> QED BY <4>2
    <3>3. ASSUME \E i \in 1..Len(e.call.args) : params[i] = text
          PROVE  [acc EXCEPT !.list = @ \o
                    e.call.args[CHOOSE i \in 1..Len(e.call.args) : params[i] = text]] \in T
      <4> DEFINE j == CHOOSE i \in 1..Len(e.call.args) : params[i] = text
      <4>1. j \in 1..Len(e.call.args)
        BY <3>3, Zenon
      <4> HIDE DEF j
      <4>2. e.call.args[j] \in Seq(Plain)
        BY <4>1
      <4>3. acc.list \o e.call.args[j] \in Seq(Plain)
        BY <4>2
      <4>4. [acc EXCEPT !.list = @ \o e.call.args[j]] \in T
        BY Zenon, <4>3
      <4> QED BY <4>4 DEF j
    <3> QED BY <3>1, <3>2, <3>3, Zenon
  <2> HIDE DEF Step
  <2>4. ASSUME NEW i \in 1..n, NEW t \in T PROVE h[i][t] = Step(t, body[i]) /\ h[i][t] \in T
    <3>1. body[i] \in Text
      BY <2>1
    <3> QED BY <3>1, <2>3
  <2>5. Closed(T, n, h)
    BY <2>4 DEF Closed
  <2> HIDE DEF n, h, T, b
  <2>6. PICK g : Solves(T, b, n, h, g)
    BY <2>1, <2>2, <2>5, <1>RecursionExists, Zenon
  <2>7. G(g)
    <3>1. \A k \in 0..n : k # 0 => k \in 1..n /\ k - 1 \in 0..n
      BY <2>1
    <3>2. \A k \in 0..n : g[k] = IF k = 0 THEN b ELSE Step(g[k - 1], body[k])
      BY Zenon, <3>1, <2>4, <2>6 DEF Solves
    <3>3. g = [k \in 0..n |-> g[k]]
      BY <2>6 DEF Solves
    <3> QED BY Zenon, <3>2, <3>3
  <2> DEFINE f == CHOOSE f : G(f)
  <2>8. G(f)
    BY <2>7, Zenon
  <2>9. Replace(e, body) = f[n]
    BY Zenon DEF Replace, n, Step, b
  <2> HIDE DEF f
  <2>10. f[0] = b /\ \A k \in 1..n : f[k] = Step(f[k - 1], body[k])
    <3>1. \A k \in 0..n : f[k] = IF k = 0 THEN b ELSE Step(f[k - 1], body[k])
      BY <2>8, Zenon
    <3> QED BY <2>1, <3>1
  <2>11. f[n] \in T
    <3> DEFINE S == {k \in 0..n : f[k] \notin T}
    <3>1. SUFFICES ASSUME S # {} PROVE FALSE
      BY <2>1
    <3>2. S \subseteq Nat
      BY <2>1
    <3>3. PICK k \in S : \A j \in S : k <= j
      BY <3>1, <3>2, <1>LeastElement, Zenon
    <3>4. k \in 1..n /\ k - 1 \in 0..n
      BY <2>1, <2>2, <2>10
    <3>5. f[k - 1] \in T
      BY <3>3, <3>4
    <3>6. h[k][f[k - 1]] = Step(f[k - 1], body[k]) /\ h[k][f[k - 1]] \in T
      BY <2>4, <3>4, <3>5
    <3> QED BY <2>10, <3>4, <3>6
  <2> QED
    BY <2>9, <2>11 DEF T
<1>1. TokenLaws
  <2>1. <<>> \in Seq(Context)
    OBVIOUS
  <2> QED BY <2>1, <1>TokensFacts, Zenon DEF TokenLaws
<1>2. ReplaceLaw
  BY <1>ReplaceFacts, Zenon DEF ReplaceLaw
<1> QED BY <1>1, <1>2

-----------------------------------------------------------------------------
(* What follows from the inductive invariant                               *)

\* The fields of an expander.
LEMMA FrameFields ==
  ASSUME NEW e \in Frame
  PROVE  /\ e.kind \in {"main", "arg", "dir"} /\ e.lexer \in Seq(Plain) /\ e.depth \in Int
         /\ e.parseDefined \in BOOLEAN /\ e.reserve \in Seq(Token) /\ e.contexts \in Seq(Context)
         /\ e.total \in Int /\ e.reenable \in Seq(Nat) /\ e.call \in Call
BY DEF Frame

\* A macro the set names is one of the table.
LEMMA LiveIsMacro ==
  ASSUME NEW M, NEW S, NEW m \in Live(M, S)
  PROVE  m \in 1..Len(M)
BY DEF Live

\* What the inductive invariant says of the state: the four invariants of
\* MacroExpander.
LEMMA Consequences ==
  ASSUME Laws, IInv
  PROVE  TypeOK /\ ExpansionCountExact /\ DisabledWhileExpanded /\ InUseStaysDefined
<1>IInvParts. /\ frames \in Seq(Frame) /\ DOMAIN frames = 1..Len(frames) /\ Len(frames) \in Nat
              /\ macros \in Seq(Macro) /\ DOMAIN macros = 1..Len(macros)
              /\ Stack(frames) /\ Table(macros, mMacroSet) /\ Separate(frames, Dis(macros), Live(macros, mMacroSet))
              /\ Counted(frames, macros, clean) /\ (clean => Covered(frames, Dis(macros)))
              /\ \A i \in 1..Len(frames) : Local(frames[i]) /\ frames[i] \in Frame
  <2>1. Stack(frames) /\ Table(macros, mMacroSet) /\ Kept(frames, macros, mMacroSet, clean)
    BY Zenon DEF IInv, Sound, Good
  <2>2. frames \in Seq(Frame) /\ macros \in Seq(Macro) /\ \A i \in 1..Len(frames) : Local(frames[i])
    BY <2>1, Zenon DEF Stack, Table
  <2>3. \A i \in 1..Len(frames) : frames[i] \in Frame
    BY <2>2, Zenon DEF Local
  <2>4. DOMAIN frames = 1..Len(frames) /\ Len(frames) \in Nat
    BY <2>2
  <2>5. DOMAIN macros = 1..Len(macros)
    BY <2>2
  <2> QED
    BY <2>1, <2>2, <2>3, <2>4, <2>5, Zenon DEF Kept
<1>FrameContexts. ASSUME NEW e, Local(e)
                  PROVE  /\ DOMAIN e.contexts = 1..Len(e.contexts)
                         /\ \A j \in 1..Len(e.contexts) : e.contexts[j].index \in 0..Len(e.contexts[j].replacements)
                         /\ \A j, k \in 1..Len(e.contexts) : e.contexts[j].macro = e.contexts[k].macro => j = k
                         /\ \A m : m \in In(e) <=> \E j \in 1..Len(e.contexts) : e.contexts[j].macro = m
  <2>1. ContextsOK(e.contexts)
    BY <1>FrameContexts, Zenon DEF Local
  <2>2. e.contexts \in Seq(Context)
    BY <2>1, Zenon DEF ContextsOK
  <2>3. DOMAIN e.contexts = 1..Len(e.contexts)
    BY <2>2
  <2>4. \A m : m \in In(e) <=> \E j \in 1..Len(e.contexts) : e.contexts[j].macro = m
    BY Zenon DEF In, MacrosOf
  <2> QED
    BY <2>1, <2>3, <2>4, Zenon DEF ContextsOK
<1>StackKinds. ASSUME NEW F, Stack(F), NEW i \in 1..Len(F)
               PROVE  /\ F[i].kind = "main" <=> i = 1
                      /\ i < Len(F) => F[i].pc \in {"args", "lex", "peek", "collect"}
  <2>1. /\ F \in Seq(Frame) /\ Len(F) \in Nat /\ F[i] \in Frame /\ Local(F[i])
    BY <1>StackKinds DEF Stack
  <2>2. F[1].kind = "main"
    <3>1. F # <<>>
      BY <2>1
    <3> QED BY <1>StackKinds, <3>1 DEF Stack
  <2>3. ASSUME i # 1 PROVE F[i].kind # "main"
    <3> DEFINE j == i - 1
    <3>1. j \in 1..(Len(F) - 1) /\ j + 1 = i
      BY <2>1, <2>3
    <3> HIDE DEF j
    <3>2. Link(F[j], F[j + 1])
      BY <1>StackKinds, <3>1 DEF Stack
    <3> QED BY <3>1, <3>2 DEF Link
  <2>4. ASSUME i < Len(F) PROVE F[i].pc \in {"args", "lex", "peek", "collect"}
    <3>1. i \in 1..(Len(F) - 1) /\ i + 1 \in 1..Len(F)
      BY <2>1, <2>4
    <3>2. Link(F[i], F[i + 1]) /\ F[i + 1] \in Frame
      BY <1>StackKinds, <2>1, <3>1 DEF Stack
    <3>3. F[i].pc = "args" \/ F[i].kind = "main"
      BY <3>2, FrameFields DEF Link
    <3>4. F[i].pc \in {"lex", "peek", "collect", "args"} \cup Defineds
      BY Zenon, <2>1 DEF Frame
    <3>5. F[i].kind = "main" => F[i].pc \notin Defineds
      BY <2>1, Zenon DEF Local
    <3> QED BY <3>3, <3>4, <3>5
  <2> QED
    BY <2>2, <2>3, <2>4
<1>TypeFollows. TypeOK
  <2>1. /\ frames \in Seq(Frame) /\ DOMAIN frames = 1..Len(frames)
        /\ macros \in Seq(Macro) /\ DOMAIN macros = 1..Len(macros)
        /\ Stack(frames) /\ Table(macros, mMacroSet) /\ Separate(frames, Dis(macros), Live(macros, mMacroSet))
        /\ \A i \in 1..Len(frames) : Local(frames[i])
    BY <1>IInvParts, Zenon
  <2>2. \A n \in DOMAIN mMacroSet : macros[mMacroSet[n]].name = n
    BY <2>1, Zenon DEF Table
  <2>3. ASSUME NEW i \in DOMAIN frames
        PROVE  LET e == frames[i] IN
               /\ e.total = TokensIn(e.contexts)
               /\ \A j \in DOMAIN e.contexts :
                    LET c == e.contexts[j] IN c.macro \in DOMAIN macros /\ c.index \in 0..Len(c.replacements)
               /\ e.reserve # <<>> => e.contexts = <<>>
               /\ e.kind = "main" <=> i = 1
               /\ i < Len(frames) => e.pc \in {"args", "lex", "peek", "collect"}
    <3> DEFINE e == frames[i]
    <3>1. i \in 1..Len(frames) /\ Local(e)
      BY <2>1, Zenon
    <3>2. /\ e.kind = "main" <=> i = 1
          /\ i < Len(frames) => e.pc \in {"args", "lex", "peek", "collect"}
      BY <2>1, <3>1, <1>StackKinds, Zenon
    <3>3. In(e) \subseteq Live(macros, mMacroSet)
      BY <2>1, <3>1, Zenon DEF Separate
    <3> HIDE DEF e
    <3>4. ASSUME NEW j \in DOMAIN e.contexts
          PROVE  e.contexts[j].macro \in DOMAIN macros /\ e.contexts[j].index \in 0..Len(e.contexts[j].replacements)
      <4>1. /\ e.contexts[j].macro \in In(e)
            /\ e.contexts[j].index \in 0..Len(e.contexts[j].replacements)
        BY Zenon, <3>1, <1>FrameContexts
      <4>2. e.contexts[j].macro \in Live(macros, mMacroSet)
        BY <4>1, <3>3
      <4>3. e.contexts[j].macro \in 1..Len(macros)
        BY <4>2, LiveIsMacro, Zenon
      <4> QED BY <2>1, <4>1, <4>3
    <3>5. e.total = TokensIn(e.contexts) /\ (e.reserve # <<>> => e.contexts = <<>>)
      BY <3>1, Zenon DEF Local
    <3> QED BY <3>2, <3>4, <3>5, Zenon DEF e
  <2> QED
    BY <2>2, <2>3, Zenon DEF TypeOK
<1>InContextsFacts. ASSUME NEW m
                    PROVE  /\ InContexts(m) # {} <=> \E i \in 1..Len(frames) : m \in In(frames[i])
                           /\ Cardinality(InContexts(m)) = IF \E i \in 1..Len(frames) : m \in In(frames[i]) THEN 1 ELSE 0
  <2> DEFINE X == InContexts(m)
  <2>1. /\ DOMAIN frames = 1..Len(frames) /\ Separate(frames, Dis(macros), Live(macros, mMacroSet))
        /\ \A i \in 1..Len(frames) : Local(frames[i])
    BY <1>IInvParts, Zenon
  <2>2. \A p : p \in X <=> \E i \in DOMAIN frames : \E j \in DOMAIN frames[i].contexts :
                              frames[i].contexts[j].macro = m /\ p = <<i, j>>
    BY SMT DEF InContexts
  <2>3. \A i \in 1..Len(frames) :
          /\ DOMAIN frames[i].contexts = 1..Len(frames[i].contexts)
          /\ \A j, k \in 1..Len(frames[i].contexts) : frames[i].contexts[j].macro = frames[i].contexts[k].macro => j = k
          /\ m \in In(frames[i]) <=> \E j \in 1..Len(frames[i].contexts) : frames[i].contexts[j].macro = m
    BY <2>1, <1>FrameContexts, Zenon
  <2> HIDE DEF X
  <2>4. X # {} <=> \E i \in 1..Len(frames) : m \in In(frames[i])
    <3>1. ASSUME NEW p \in X PROVE \E i \in 1..Len(frames) : m \in In(frames[i])
      <4>1. PICK i \in DOMAIN frames : \E j \in DOMAIN frames[i].contexts : frames[i].contexts[j].macro = m
        BY <2>2, Zenon
      <4>2. i \in 1..Len(frames)
        BY <2>1, Zenon
      <4>3. m \in In(frames[i])
        BY <2>3, <4>1, <4>2
      <4> QED BY <4>2, <4>3, Zenon
    <3>2. ASSUME NEW i \in 1..Len(frames), m \in In(frames[i]) PROVE \E p : p \in X
      <4>1. PICK j \in 1..Len(frames[i].contexts) : frames[i].contexts[j].macro = m
        BY <2>3, <3>2, Zenon
      <4>2. <<i, j>> \in X
        BY <2>1, <2>2, <2>3, <4>1, Zenon
      <4> QED BY <4>2
    <3> QED BY <3>1, <3>2
  <2>5. ASSUME NEW p \in X, NEW q \in X PROVE p = q
    <3>1. PICK i \in 1..Len(frames) : \E j \in DOMAIN frames[i].contexts : frames[i].contexts[j].macro = m /\ p = <<i, j>>
      BY <2>1, <2>2
    <3>7. PICK j \in DOMAIN frames[i].contexts : frames[i].contexts[j].macro = m /\ p = <<i, j>>
      BY <3>1
    <3>2. PICK k \in 1..Len(frames) : \E l \in DOMAIN frames[k].contexts : frames[k].contexts[l].macro = m /\ q = <<k, l>>
      BY <2>1, <2>2
    <3>8. PICK l \in DOMAIN frames[k].contexts : frames[k].contexts[l].macro = m /\ q = <<k, l>>
      BY <3>2
    <3>3. m \in In(frames[i]) /\ m \in In(frames[k])
      BY <2>3, <3>7, <3>8
    <3>4. m \in Held(frames[i]) /\ m \in Held(frames[k])
      BY <3>3, Zenon DEF Held
    <3>5. i = k
      BY <2>1, <3>4 DEF Separate
    <3>6. j = l
      BY Zenon, <2>3, <3>7, <3>8, <3>5
    <3> QED BY <3>7, <3>8, <3>5, <3>6
  <2>6. CASE X = {}
    <3>1. Cardinality({}) = 0
      BY Zenon DEF Laws, CountLaws
    <3> QED BY <2>4, <2>6, <3>1 DEF X
  <2>7. CASE X # {}
    <3>1. PICK p : p \in X
      BY <2>7
    <3>2. X = {p}
      BY <2>5, <3>1
    <3>3. Cardinality({p}) = 1
      BY Zenon DEF Laws, CountLaws
    <3> QED BY <2>4, <2>7, <3>2, <3>3 DEF X
  <2> QED
    BY <2>6, <2>7
<1>InvokingFacts. ASSUME NEW m
                  PROVE  /\ Invoking(m) = Invoked(frames, m)
                         /\ AwaitsReenabling(m) <=> \E i \in 1..Len(frames) : m \in Re(frames[i])
  <2>1. DOMAIN frames = 1..Len(frames)
    BY <1>IInvParts, Zenon
  <2>2. \A i : m \in Iv(frames[i]) <=> frames[i].pc \in {"peek", "collect", "args"} /\ frames[i].call.macro = m
    BY DEF Iv
  <2>3. Invoking(m) = Invoked(frames, m)
    BY <2>1, <2>2 DEF Invoking, Invoked
  <2>4. \A i : Contains(frames[i].reenable, m) <=> m \in Re(frames[i])
    BY Zenon DEF Contains, Re, Elements
  <2> QED
    BY <2>1, <2>3, <2>4, Zenon DEF AwaitsReenabling
<1>CountFollows. ExpansionCountExact
  <2> SUFFICES ASSUME NEW m \in DOMAIN macros
               PROVE  LET uses == Cardinality(InContexts(m)) + Cardinality(Invoking(m)) IN
                      /\ macros[m].expansionCount >= uses
                      /\ clean => macros[m].expansionCount = uses
    BY Zenon DEF ExpansionCountExact
  <2>1. m \in 1..Len(macros) /\ Counted(frames, macros, clean)
    BY <1>IInvParts, Zenon
  <2>2. Cardinality(InContexts(m)) + Cardinality(Invoking(m)) = Uses(frames, m)
    BY <1>InContextsFacts, <1>InvokingFacts, Zenon DEF Uses
  <2> QED
    BY <2>1, <2>2 DEF Counted
<1>DisabledFollows. DisabledWhileExpanded
  <2> SUFFICES ASSUME NEW m \in DOMAIN macros
               PROVE  /\ Cardinality(InContexts(m)) <= 1
                      /\ InContexts(m) # {} \/ AwaitsReenabling(m) => macros[m].disabled
                      /\ clean /\ macros[m].disabled => InContexts(m) # {} \/ AwaitsReenabling(m)
    BY Zenon DEF DisabledWhileExpanded
  <2>1. /\ m \in 1..Len(macros) /\ Separate(frames, Dis(macros), Live(macros, mMacroSet))
        /\ clean => Covered(frames, Dis(macros))
    BY <1>IInvParts, Zenon
  <2>2. /\ InContexts(m) # {} <=> \E i \in 1..Len(frames) : m \in In(frames[i])
        /\ Cardinality(InContexts(m)) = IF \E i \in 1..Len(frames) : m \in In(frames[i]) THEN 1 ELSE 0
    BY <1>InContextsFacts, Zenon
  <2>3. AwaitsReenabling(m) <=> \E i \in 1..Len(frames) : m \in Re(frames[i])
    BY <1>InvokingFacts, Zenon
  <2>4. InContexts(m) # {} \/ AwaitsReenabling(m) <=> \E i \in 1..Len(frames) : m \in Held(frames[i])
    BY <2>2, <2>3, Zenon DEF Held
  <2>5. m \in Dis(macros) <=> macros[m].disabled
    BY <2>1, Zenon DEF Dis
  <2>6. ASSUME NEW i \in 1..Len(frames), m \in Held(frames[i]) PROVE m \in Dis(macros)
    BY <2>1, <2>6 DEF Separate
  <2>7. ASSUME clean, m \in Dis(macros) PROVE \E i \in 1..Len(frames) : m \in Held(frames[i])
    BY <2>1, <2>7, Zenon DEF Covered
  <2>8. Cardinality(InContexts(m)) <= 1
    BY <2>2
  <2> QED
    BY <2>4, <2>5, <2>6, <2>7, <2>8, Zenon
<1>InUseFollows. InUseStaysDefined
  <2> SUFFICES ASSUME NEW m \in DOMAIN macros, InContexts(m) # {} \/ Invoking(m) # {}
               PROVE  macros[m].name \in DOMAIN mMacroSet /\ mMacroSet[macros[m].name] = m
    BY Zenon DEF InUseStaysDefined
  <2>1. Separate(frames, Dis(macros), Live(macros, mMacroSet)) /\ Table(macros, mMacroSet)
    BY <1>IInvParts, Zenon
  <2>2. InContexts(m) # {} <=> \E i \in 1..Len(frames) : m \in In(frames[i])
    BY <1>InContextsFacts, Zenon
  <2>3. Invoking(m) # {} <=> \E i \in 1..Len(frames) : m \in Iv(frames[i])
    <3>1. Invoking(m) = Invoked(frames, m)
      BY <1>InvokingFacts, Zenon
    <3> QED BY <3>1 DEF Invoked
  <2>4. m \in Live(macros, mMacroSet)
    BY <2>1, <2>2, <2>3 DEF Separate
  <2>5. PICK n \in DOMAIN mMacroSet : mMacroSet[n] = m
    BY <2>4, Zenon DEF Live
  <2>6. macros[m].name = n
    BY <2>1, <2>5, Zenon DEF Table
  <2> QED
    BY <2>5, <2>6
<1> QED
  BY <1>TypeFollows, <1>CountFollows, <1>DisabledFollows, <1>InUseFollows, Zenon

\* What an expander satisfies wherever it is in lex(): with a reserve token, and
\* without one.
Calm(e) ==
  /\ e \in Frame /\ ContextsOK(e.contexts) /\ e.total = TokensIn(e.contexts)
  /\ e.reserve # <<>> => e.contexts = <<>> /\ Len(e.reserve) = 1
  /\ e.kind = "main" => ~e.parseDefined

Core(e) == Calm(e) /\ e.reserve = <<>>

\* The empty context stack.
LEMMA ContextsEmpty ==
  ASSUME Laws
  PROVE  ContextsOK(<<>>) /\ MacrosOf(<<>>) = {} /\ TokensIn(<<>>) = 0
<1>1. <<>> \in Seq(Context)
  OBVIOUS
<1>2. TokensIn(<<>>) = 0
  BY Zenon DEF Laws, TokenLaws
<1>3. ContextsOK(<<>>) /\ MacrosOf(<<>>) = {}
  BY DEF ContextsOK, MacrosOf
<1> QED BY <1>2, <1>3

\* At the beginning of lex() with nothing to re-enable, Calm is all there is to Local.
LEMMA LocalOfCalm ==
  ASSUME NEW e, Calm(e), e.pc = "lex", e.reenable = <<>>
  PROVE  Local(e)
BY DEF Local, Calm, Defineds

\* A fresh expander.
LEMMA NewFrame ==
  ASSUME Laws, NEW kind \in {"main", "arg", "dir"}, NEW lexer \in Seq(Plain), NEW depth \in Int,
         NEW parseDefined \in BOOLEAN, kind = "main" => ~parseDefined,
         NEW g, g = NewExpander(kind, lexer, depth, parseDefined)
  PROVE  Local(g) /\ In(g) = {} /\ Re(g) = {} /\ Iv(g) = {} /\ g.kind = kind /\ g.pc = "lex" /\ g \in Frame
<1>1. NoCall \in Call /\ <<>> \in Seq(Nat) /\ <<>> \in Seq(Token) /\ <<>> \in Seq(Context)
  BY DEF NoCall, Call
<1>2. ContextsOK(<<>>) /\ MacrosOf(<<>>) = {} /\ TokensIn(<<>>) = 0
  BY ContextsEmpty
<1>3. /\ g \in Frame /\ g.contexts = <<>> /\ g.reserve = <<>> /\ g.reenable = <<>> /\ g.total = 0
      /\ g.kind = kind /\ g.pc = "lex" /\ g.parseDefined = parseDefined
  BY <1>1 DEF Frame, NewExpander
<1>4. Calm(g)
  BY <1>2, <1>3, Zenon DEF Calm
<1>5. Local(g)
  BY <1>3, <1>4, LocalOfCalm, Zenon
<1>6. In(g) = {} /\ Re(g) = {} /\ Iv(g) = {}
  BY <1>2, <1>3 DEF In, Re, Iv, Elements
<1> QED
  BY <1>3, <1>5, <1>6

\* A macro with no uses is in no context and in no invocation.
LEMMA UsesFacts ==
  ASSUME Laws, NEW F \in Seq(Frame), NEW m
  PROVE  /\ Uses(F, m) \in Nat
         /\ Uses(F, m) <= 0 <=> \A i \in 1..Len(F) : m \notin In(F[i]) /\ m \notin Iv(F[i])
<1>1. Len(F) \in Nat
  OBVIOUS
<1>2. Invoked(F, m) \in SUBSET (1..Len(F))
  BY DEF Invoked
<1>3. Cardinality(Invoked(F, m)) \in Nat
  BY <1>1, <1>2, Zenon DEF Laws, CountLaws
<1>4. Cardinality(Invoked(F, m)) = 0 <=> Invoked(F, m) = {}
  BY <1>1, <1>2, Zenon DEF Laws, CountLaws
<1>5. Invoked(F, m) = {} <=> \A i \in 1..Len(F) : m \notin Iv(F[i])
  BY DEF Invoked
<1> QED
  BY <1>3, <1>4, <1>5 DEF Uses

\* The invariant holds at the start, whatever the predefined macros.
LEMMA InitSound ==
  ASSUME Laws
  PROVE  Init => IInv
<1> SUFFICES ASSUME Init PROVE IInv
  OBVIOUS
<1>1. PICK defs \in InitialMacros :
        /\ macros = [i \in 1..Len(defs) |-> NewMacro(defs[i])]
        /\ mMacroSet = [n \in {defs[i].name : i \in 1..Len(defs)} |->
                          CHOOSE i \in 1..Len(defs) : defs[i].name = n]
  BY Zenon DEF Init
<1>2. defs \in Seq(Definition) /\ Len(defs) \in Nat
  BY TextAssumption
<1>3. ASSUME NEW i \in 1..Len(defs)
      PROVE  /\ NewMacro(defs[i]) \in Macro /\ NewMacro(defs[i]).name = defs[i].name
             /\ NewMacro(defs[i]).disabled = FALSE /\ NewMacro(defs[i]).expansionCount = 0
  <2>1. defs[i] \in Definition
    BY <1>2
  <2> QED BY <2>1 DEF NewMacro, Macro, Definition
<1>4. macros \in Seq(Macro) /\ Len(macros) = Len(defs)
  <2>1. macros \in [1..Len(defs) -> Macro] /\ DOMAIN macros = 1..Len(defs)
    BY Zenon, <1>1, <1>3
  <2> QED BY <1>2, <2>1, SeqOf
<1>5. \A i \in 1..Len(defs) : macros[i].name = defs[i].name /\ macros[i].disabled = FALSE /\ macros[i].expansionCount = 0
  BY Zenon, <1>1, <1>3
<1>6. ASSUME NEW n \in DOMAIN mMacroSet
      PROVE  mMacroSet[n] \in 1..Len(macros) /\ macros[mMacroSet[n]].name = n
  <2>1. n \in {defs[i].name : i \in 1..Len(defs)}
    BY <1>1, Zenon
  <2>2. \E i \in 1..Len(defs) : defs[i].name = n
    BY <2>1, Zenon
  <2>3. mMacroSet[n] = CHOOSE i \in 1..Len(defs) : defs[i].name = n
    BY <1>1, <2>1, Zenon
  <2>4. mMacroSet[n] \in 1..Len(defs) /\ defs[mMacroSet[n]].name = n
    BY <2>2, <2>3, Zenon
  <2> QED BY <1>4, <1>5, <2>4
<1>7. Table(macros, mMacroSet)
  BY <1>4, <1>6 DEF Table
<1>8. Dis(macros) = {}
  BY <1>4, <1>5 DEF Dis
<1> DEFINE g == NewExpander("main", <<>>, maxMacroExpansionDepth, FALSE)
<1>9. Local(g) /\ In(g) = {} /\ Re(g) = {} /\ Iv(g) = {} /\ g.kind = "main" /\ g.pc = "lex" /\ g \in Frame
  <2>1. <<>> \in Seq(Plain) /\ maxMacroExpansionDepth \in Int /\ FALSE \in BOOLEAN
    BY LimitAssumption
  <2> QED BY Zenon, <2>1, NewFrame
<1>10. frames = <<g>> /\ clean = TRUE /\ error \in BOOLEAN /\ abandoned \in BOOLEAN
  BY Zenon DEF Init, clean
<1> HIDE DEF g
<1>11. frames \in Seq(Frame) /\ Len(frames) = 1 /\ frames[1] = g /\ frames # <<>> /\ Last(frames) = g
  BY <1>9, <1>10 DEF Last
<1>12. Stack(frames)
  BY <1>9, <1>11 DEF Stack
<1>13. \A i \in 1..Len(frames) : In(frames[i]) = {} /\ Re(frames[i]) = {} /\ Iv(frames[i]) = {} /\ Held(frames[i]) = {}
  BY <1>9, <1>11 DEF Held
<1>14. Separate(frames, Dis(macros), Live(macros, mMacroSet))
  BY Zenon, <1>13 DEF Separate
<1>15. Counted(frames, macros, clean)
  <2>1. ASSUME NEW m \in 1..Len(macros) PROVE macros[m].expansionCount = 0 /\ Uses(frames, m) = 0
    <3>1. Uses(frames, m) \in Nat /\ Uses(frames, m) <= 0
      BY <1>11, <1>13, UsesFacts
    <3> QED BY <1>4, <1>5, <3>1
  <2> QED BY <2>1 DEF Counted
<1>16. Covered(frames, Dis(macros))
  BY <1>8 DEF Covered
<1>17. g.pc # "args"
  BY <1>9
<1> QED
  BY <1>7, <1>10, <1>11, <1>12, <1>14, <1>15, <1>16, <1>17, Zenon DEF IInv, Sound, Good, Kept

\* error and abandoned are never taken back.
LEMMA Sticky ==
  ASSUME IInv, Next
  PROVE  error' \in BOOLEAN /\ abandoned' \in BOOLEAN /\ clean' \in BOOLEAN /\ (clean' => clean)
<1> USE DEF IInv
<1> DEFINE Ok == error' \in BOOLEAN /\ (error => error')
           Kept2 == abandoned' \in BOOLEAN /\ (abandoned => abandoned')
<1>1. ASSUME NEW B, NEW e, NEW M, fail(B, e, M) PROVE Ok
  BY <1>1 DEF fail
<1>2. ASSUME NEW B, NEW e, NEW M, NEW bad, expandArgs(B, e, M, bad) PROVE Ok
  BY Zenon, <1>1, <1>2 DEF expandArgs
<1>3. ASSUME NEW token, NEW e, NEW M, NEW bad, return(token, e, M, bad) PROVE Ok /\ Kept2
  <2>1. ASSUME parseToken(token, e, bad) PROVE Ok
    BY Zenon, <2>1 DEF parseToken
  <2> QED BY Zenon, <1>1, <1>2, <1>3, <2>1 DEF return
<1>4. ASSUME NEW token, NEW e, lexToken(token, e) PROVE Ok /\ Kept2
  BY Zenon, <1>3, <1>4 DEF lexToken
<1>5. ASSUME NEW token, NEW e, definedToken(token, e) PROVE Ok /\ Kept2
  BY Zenon, <1>3, <1>5 DEF definedToken
<1>6. ASSUME NEW token, NEW e, peekToken(token, e) PROVE Ok /\ Kept2
  BY Zenon, <1>3, <1>6 DEF peekToken
<1>7. ASSUME NEW token, NEW e, collectToken(token, e) PROVE Ok /\ Kept2
  <2>1. endOfArgs(e) => Ok
    BY Zenon, <1>1, <1>2 DEF endOfArgs
  <2> QED BY Zenon, <1>1, <1>7, <2>1 DEF collectToken
<1>8. Ok /\ Kept2
  <2>1. CASE popMacro
    BY <2>1 DEF popMacro
  <2>2. CASE lex
    BY <1>4, <2>2, Zenon DEF lex
  <2>3. CASE lexDefined
    BY <1>5, <2>3, Zenon DEF lexDefined
  <2>4. CASE isNextTokenLeftParen
    BY <1>6, <2>4, Zenon DEF isNextTokenLeftParen
  <2>5. CASE collectMacroArgs
    BY <1>7, <2>5, Zenon DEF collectMacroArgs
  <2>6. CASE parseExpression
    BY <2>6 DEF parseExpression
  <2>7. ASSUME NEW d \in Definitions, parseDefine(d) PROVE Ok /\ Kept2
    BY <2>7 DEF parseDefine
  <2>8. ASSUME NEW name \in Names, parseUndef(name) PROVE Ok /\ Kept2
    BY Zenon, <2>8 DEF parseUndef
  <2> QED BY <2>1, <2>2, <2>3, <2>4, <2>5, <2>6, <2>7, <2>8, Zenon DEF Next, expand
<1> QED
  BY <1>8 DEF clean

TopUses(e, m) == (IF m \in In(e) THEN 1 ELSE 0) + (IF m \in Iv(e) THEN 1 ELSE 0)

\* One frame on top of the others.
LEMMA SeparateSplit ==
  ASSUME NEW B \in Seq(Frame), NEW e \in Frame, NEW D, NEW L
  PROVE  Separate(Append(B, e), D, L) <=>
           /\ Separate(B, D, L)
           /\ Held(e) \subseteq D /\ In(e) \subseteq L /\ Iv(e) \subseteq L
           /\ In(e) \cap Re(e) = {} /\ Iv(e) \cap Held(e) = {}
           /\ \A i \in 1..Len(B) : Held(B[i]) \cap Held(e) = {} /\ Iv(e) \cap Held(B[i]) = {}
<1> DEFINE n == Len(B)
           F == Append(B, e)
<1>1. /\ Len(F) = n + 1 /\ n \in Nat /\ F[n + 1] = e
      /\ \A i \in 1..n : F[i] = B[i]
  OBVIOUS
<1> HIDE DEF F
<1>2. /\ \A i \in 1..(n + 1) : i = n + 1 \/ i \in 1..n
      /\ \A i \in 1..n : i \in 1..(n + 1) /\ i # n + 1 /\ i <= n + 1 /\ ~(n + 1 <= i)
      /\ n + 1 \in 1..(n + 1) /\ n + 1 <= n + 1
  BY <1>1
<1>3. ASSUME Separate(F, D, L)
      PROVE  /\ Held(e) \subseteq D /\ In(e) \subseteq L /\ Iv(e) \subseteq L
             /\ In(e) \cap Re(e) = {} /\ Iv(e) \cap Held(e) = {}
             /\ \A i \in 1..n : Held(B[i]) \cap Held(e) = {} /\ Iv(e) \cap Held(B[i]) = {}
  BY <1>1, <1>2, <1>3, Zenon DEF Separate
<1>4. ASSUME Separate(F, D, L) PROVE Separate(B, D, L)
  BY <1>1, <1>2, <1>4 DEF Separate
<1>5. ASSUME Separate(B, D, L),
             Held(e) \subseteq D, In(e) \subseteq L, Iv(e) \subseteq L,
             In(e) \cap Re(e) = {}, Iv(e) \cap Held(e) = {},
             \A i \in 1..n : Held(B[i]) \cap Held(e) = {} /\ Iv(e) \cap Held(B[i]) = {}
      PROVE  Separate(F, D, L)
  <2>1. \A i \in 1..(n + 1) : Held(F[i]) \subseteq D /\ In(F[i]) \subseteq L /\ Iv(F[i]) \subseteq L
    BY <1>1, <1>2, <1>5 DEF Separate
  <2>2. \A i \in 1..(n + 1) : In(F[i]) \cap Re(F[i]) = {}
    BY Zenon, <1>1, <1>2, <1>5 DEF Separate
  <2>3. \A i, j \in 1..(n + 1) : i # j => Held(F[i]) \cap Held(F[j]) = {}
    <3> SUFFICES ASSUME NEW i \in 1..(n + 1), NEW j \in 1..(n + 1), i # j
                 PROVE  Held(F[i]) \cap Held(F[j]) = {}
      OBVIOUS
    <3>1. CASE i = n + 1 /\ j \in 1..n
      BY <3>1, <1>1, <1>5
    <3>2. CASE j = n + 1 /\ i \in 1..n
      BY <3>2, <1>1, <1>5
    <3>3. CASE i \in 1..n /\ j \in 1..n
      BY Zenon, <3>3, <1>1, <1>5 DEF Separate
    <3> QED BY <3>1, <3>2, <3>3, <1>2
  <2>4. \A i, j \in 1..(n + 1) : j <= i => Iv(F[i]) \cap Held(F[j]) = {}
    <3> SUFFICES ASSUME NEW i \in 1..(n + 1), NEW j \in 1..(n + 1), j <= i
                 PROVE  Iv(F[i]) \cap Held(F[j]) = {}
      OBVIOUS
    <3>1. CASE i = n + 1 /\ j = n + 1
      BY Zenon, <3>1, <1>1, <1>5
    <3>2. CASE i = n + 1 /\ j \in 1..n
      BY Zenon, <3>2, <1>1, <1>5
    <3>3. CASE i \in 1..n /\ j \in 1..n
      BY Zenon, <3>3, <1>1, <1>5 DEF Separate
    <3> QED BY <3>1, <3>2, <3>3, <1>2
  <2> QED BY <1>1, <2>1, <2>2, <2>3, <2>4 DEF Separate
<1> QED
  BY <1>3, <1>4, <1>5, Zenon DEF F

\* The uses of a macro, those of the frame on top apart.
LEMMA UsesSplit ==
  ASSUME Laws, NEW B \in Seq(Frame), NEW e \in Frame, NEW m,
         \A i \in 1..Len(B) : m \in In(e) => m \notin In(B[i])
  PROVE  Uses(Append(B, e), m) = Uses(B, m) + TopUses(e, m) /\ Uses(B, m) \in Nat
<1> DEFINE n == Len(B)
           F == Append(B, e)
<1>1. /\ Len(F) = n + 1 /\ n \in Nat /\ F[n + 1] = e
      /\ \A i \in 1..n : F[i] = B[i]
  OBVIOUS
<1> HIDE DEF F
<1>2. /\ Invoked(B, m) \in SUBSET (1..n) /\ Cardinality(Invoked(B, m)) \in Nat
      /\ Cardinality(Invoked(B, m) \cup {n + 1}) = Cardinality(Invoked(B, m)) + 1
  <2>1. Invoked(B, m) \in SUBSET (1..n)
    BY DEF Invoked
  <2> QED BY <1>1, <2>1, Zenon DEF Laws, CountLaws
<1>4. Cardinality(Invoked(F, m)) = Cardinality(Invoked(B, m)) + (IF m \in Iv(e) THEN 1 ELSE 0)
  <2>1. CASE m \in Iv(e)
    <3>1. Invoked(F, m) = Invoked(B, m) \cup {n + 1}
      BY <1>1, <2>1 DEF Invoked
    <3> QED BY <3>1, <1>2, <2>1
  <2>2. CASE m \notin Iv(e)
    <3>1. Invoked(F, m) = Invoked(B, m)
      BY <1>1, <2>2 DEF Invoked
    <3> QED BY <3>1, <1>2, <2>2
  <2> QED BY <2>1, <2>2
<1>5. (\E i \in 1..(n + 1) : m \in In(F[i])) <=> (m \in In(e) \/ \E i \in 1..n : m \in In(B[i]))
  BY <1>1
<1>6. ~(m \in In(e) /\ \E i \in 1..n : m \in In(B[i]))
  OBVIOUS
<1>7. (IF \E i \in 1..Len(F) : m \in In(F[i]) THEN 1 ELSE 0) =
        (IF \E i \in 1..n : m \in In(B[i]) THEN 1 ELSE 0) + (IF m \in In(e) THEN 1 ELSE 0)
  <2> DEFINE P == \E i \in 1..n : m \in In(B[i])
  <2>1. (\E i \in 1..Len(F) : m \in In(F[i])) <=> (m \in In(e) \/ P)
    BY <1>1, <1>5, Zenon
  <2>2. ~(m \in In(e) /\ P)
    BY <1>6, Zenon
  <2> HIDE DEF P
  <2>3. (IF m \in In(e) \/ P THEN 1 ELSE 0) = (IF P THEN 1 ELSE 0) + (IF m \in In(e) THEN 1 ELSE 0)
    BY <2>2
  <2> QED BY <2>1, <2>3, Zenon DEF P
<1> DEFINE p == IF \E i \in 1..n : m \in In(B[i]) THEN 1 ELSE 0
<1>8. p \in Nat
  OBVIOUS
<1>9. Uses(B, m) = p + Cardinality(Invoked(B, m))
  BY Zenon DEF Uses
<1>10. Uses(F, m) = p + (IF m \in In(e) THEN 1 ELSE 0) + Cardinality(Invoked(F, m))
  BY <1>7, Zenon DEF Uses
<1> HIDE DEF p
<1> QED
  BY <1>2, <1>4, <1>8, <1>9, <1>10 DEF TopUses, F

\* Covered, with the frame on top apart.
LEMMA CoveredSplit ==
  ASSUME NEW B \in Seq(Frame), NEW e \in Frame, NEW D
  PROVE  Covered(Append(B, e), D) <=> \A m \in D : m \in Held(e) \/ \E i \in 1..Len(B) : m \in Held(B[i])
<1> DEFINE n == Len(B)
           F == Append(B, e)
<1>1. /\ Len(F) = n + 1 /\ n \in Nat /\ F[n + 1] = e
      /\ \A i \in 1..n : F[i] = B[i]
  OBVIOUS
<1> HIDE DEF F
<1>2. \A m : (\E i \in 1..(n + 1) : m \in Held(F[i])) <=> (m \in Held(e) \/ \E i \in 1..n : m \in Held(B[i]))
  BY <1>1
<1> QED
  BY <1>1, <1>2, Zenon DEF Covered, F

\* The fields of a macro of the table.
LEMMA MacroFacts ==
  ASSUME NEW M \in Seq(Macro), NEW m \in 1..Len(M)
  PROVE  /\ M[m] \in Macro /\ M[m].expansionCount \in Int /\ M[m].disabled \in BOOLEAN
         /\ M[m].body \in Seq(Text) /\ M[m].arity \in Nat /\ M[m].name \in Text
<1>1. M[m] \in Macro
  OBVIOUS
<1> QED
  BY <1>1 DEF Macro

\* What Kept says of the frame on top.
LEMMA KeptSeparate ==
  ASSUME NEW B \in Seq(Frame), NEW e \in Frame, NEW M, NEW S, NEW c, Kept(Append(B, e), M, S, c)
  PROVE  /\ Separate(B, Dis(M), Live(M, S))
         /\ Held(e) \subseteq Dis(M) /\ In(e) \subseteq Live(M, S) /\ Iv(e) \subseteq Live(M, S)
         /\ In(e) \cap Re(e) = {} /\ Iv(e) \cap Held(e) = {}
         /\ \A i \in 1..Len(B) : Held(B[i]) \cap Held(e) = {} /\ Iv(e) \cap Held(B[i]) = {}
BY SeparateSplit, Zenon DEF Kept

\* The frame on top changes from e to e2 and the table from M to M2: what e2
\* holds or invokes anew was not disabled, only macros that e held are
\* re-enabled, and the counts follow.
TopStep(e, e2, M, M2, S, c, c2) ==
  /\ Len(M2) = Len(M)
  /\ Held(e2) \subseteq Dis(M2) /\ In(e2) \subseteq Live(M, S) /\ Iv(e2) \subseteq Live(M, S)
  /\ In(e2) \cap Re(e2) = {} /\ Iv(e2) \cap Held(e2) = {}
  /\ \A m : m \in Held(e2) \/ m \in Iv(e2) => m \in Held(e) \/ m \in Iv(e) \/ m \notin Dis(M)
  /\ \A m \in Dis(M) : m \in Dis(M2) \/ m \in Held(e)
  /\ \A m \in 1..Len(M) : M2[m].expansionCount - TopUses(e2, m) >= M[m].expansionCount - TopUses(e, m)
  /\ c2 => /\ c
           /\ \A m \in 1..Len(M) :
                M2[m].expansionCount - TopUses(e2, m) = M[m].expansionCount - TopUses(e, m)
           /\ \A m \in Dis(M2) : m \in Held(e2) \/ (m \in Dis(M) /\ m \notin Held(e))

\* Such a change keeps the conditions.
LEMMA KeptTop ==
  ASSUME Laws, NEW B \in Seq(Frame), NEW e \in Frame, NEW e2 \in Frame,
         NEW M \in Seq(Macro), NEW M2 \in Seq(Macro), NEW S, NEW c \in BOOLEAN, NEW c2 \in BOOLEAN,
         Kept(Append(B, e), M, S, c), TopStep(e, e2, M, M2, S, c, c2)
  PROVE  Kept(Append(B, e2), M2, S, c2)
<1>a. /\ Len(M2) = Len(M)
      /\ Held(e2) \subseteq Dis(M2) /\ In(e2) \subseteq Live(M, S) /\ Iv(e2) \subseteq Live(M, S)
      /\ In(e2) \cap Re(e2) = {} /\ Iv(e2) \cap Held(e2) = {}
      /\ \A m : m \in Held(e2) \/ m \in Iv(e2) => m \in Held(e) \/ m \in Iv(e) \/ m \notin Dis(M)
      /\ \A m \in Dis(M) : m \in Dis(M2) \/ m \in Held(e)
  BY Zenon DEF TopStep
<1>1. Live(M2, S) = Live(M, S)
  BY <1>a DEF Live
<1>2. /\ Separate(B, Dis(M), Live(M, S))
      /\ Held(e) \subseteq Dis(M) /\ In(e) \cap Re(e) = {} /\ Iv(e) \cap Held(e) = {}
      /\ \A i \in 1..Len(B) : Held(B[i]) \cap Held(e) = {} /\ Iv(e) \cap Held(B[i]) = {}
  BY KeptSeparate, Zenon
<1>3. \A i \in 1..Len(B) : Held(B[i]) \subseteq Dis(M)
  BY <1>2 DEF Separate
<1>4. \A i \in 1..Len(B) : Held(B[i]) \subseteq Dis(M2)
  BY <1>a, <1>2, <1>3
<1>5. \A i \in 1..Len(B) : Held(B[i]) \cap Held(e2) = {} /\ Iv(e2) \cap Held(B[i]) = {}
  BY <1>a, <1>2, <1>3
<1>6. Separate(B, Dis(M2), Live(M, S))
  BY <1>2, <1>4, Zenon DEF Separate
<1>7. Separate(Append(B, e2), Dis(M2), Live(M, S))
  BY <1>a, <1>5, <1>6, SeparateSplit, Zenon
<1>8. ASSUME NEW m \in 1..Len(M)
      PROVE  /\ M2[m].expansionCount >= Uses(Append(B, e2), m)
             /\ c2 => M2[m].expansionCount = Uses(Append(B, e2), m)
  <2>1. /\ \A i \in 1..Len(B) : m \in In(e) => m \notin In(B[i])
        /\ \A i \in 1..Len(B) : m \in In(e2) => m \notin In(B[i])
    BY <1>2, <1>5 DEF Held
  <2>2. /\ Uses(Append(B, e), m) = Uses(B, m) + TopUses(e, m) /\ Uses(B, m) \in Nat
        /\ Uses(Append(B, e2), m) = Uses(B, m) + TopUses(e2, m)
    BY <2>1, UsesSplit
  <2>3. TopUses(e, m) \in Int /\ TopUses(e2, m) \in Int
    BY DEF TopUses
  <2>4. M[m].expansionCount \in Int /\ M2[m].expansionCount \in Int
    BY <1>a, MacroFacts
  <2>5. M[m].expansionCount >= Uses(Append(B, e), m) /\ (c => M[m].expansionCount = Uses(Append(B, e), m))
    BY DEF Kept, Counted
  <2>6. /\ M2[m].expansionCount - TopUses(e2, m) >= M[m].expansionCount - TopUses(e, m)
        /\ c2 => c /\ M2[m].expansionCount - TopUses(e2, m) = M[m].expansionCount - TopUses(e, m)
    BY Zenon DEF TopStep
  <2> DEFINE u == Uses(B, m)
             a == M[m].expansionCount
             b == M2[m].expansionCount
             v == TopUses(e, m)
             t == TopUses(e2, m)
  <2>d. /\ u \in Nat /\ a \in Int /\ b \in Int /\ v \in Int /\ t \in Int
        /\ a >= u + v /\ (c => a = u + v)
        /\ b - t >= a - v /\ (c2 => c /\ b - t = a - v)
    BY <2>2, <2>3, <2>4, <2>5, <2>6, Zenon
  <2> HIDE DEF u, a, b, v, t
  <2>7. b >= u + t
    BY <2>d
  <2>8. ASSUME c2 PROVE b = u + t
    BY <2>d, <2>8
  <2> QED BY <2>2, <2>7, <2>8, Zenon DEF u, b, t
<1>9. ASSUME c2 PROVE Covered(Append(B, e2), Dis(M2))
  <2>1. Covered(Append(B, e), Dis(M)) /\ \A m \in Dis(M2) : m \in Held(e2) \/ (m \in Dis(M) /\ m \notin Held(e))
    BY <1>9, Zenon DEF Kept, TopStep
  <2>2. \A m \in Dis(M) : m \in Held(e) \/ \E i \in 1..Len(B) : m \in Held(B[i])
    BY <2>1, CoveredSplit, Zenon
  <2>3. \A m \in Dis(M2) : m \in Held(e2) \/ \E i \in 1..Len(B) : m \in Held(B[i])
    BY <2>1, <2>2, Zenon
  <2> QED BY <2>3, CoveredSplit, Zenon
<1>10. Counted(Append(B, e2), M2, c2)
  BY <1>a, <1>8 DEF Counted
<1> QED
  BY <1>1, <1>7, <1>9, <1>10, Zenon DEF Kept

\* The expander on top is destroyed; nothing is lost when it is idle.
LEMMA KeptDrop ==
  ASSUME Laws, NEW B \in Seq(Frame), NEW e \in Frame, NEW M \in Seq(Macro),
         NEW S, NEW c \in BOOLEAN, NEW c2 \in BOOLEAN,
         Kept(Append(B, e), M, S, c),
         c2 => c /\ In(e) = {} /\ Re(e) = {} /\ Iv(e) = {}
  PROVE  Kept(B, M, S, c2)
<1>1. /\ Separate(B, Dis(M), Live(M, S))
      /\ \A i \in 1..Len(B) : Held(B[i]) \cap Held(e) = {} /\ Iv(e) \cap Held(B[i]) = {}
  BY SeparateSplit, Zenon DEF Kept
<1>2. ASSUME NEW m \in 1..Len(M)
      PROVE  /\ M[m].expansionCount >= Uses(B, m)
             /\ c2 => M[m].expansionCount = Uses(B, m)
  <2>1. \A i \in 1..Len(B) : m \in In(e) => m \notin In(B[i])
    BY <1>1 DEF Held
  <2>2. Uses(Append(B, e), m) = Uses(B, m) + TopUses(e, m) /\ Uses(B, m) \in Nat
    BY <2>1, UsesSplit
  <2>3. TopUses(e, m) \in Nat /\ (c2 => TopUses(e, m) = 0)
    BY DEF TopUses
  <2>4. M[m].expansionCount \in Int
    BY MacroFacts
  <2>5. M[m].expansionCount >= Uses(Append(B, e), m) /\ (c => M[m].expansionCount = Uses(Append(B, e), m))
    BY DEF Kept, Counted
  <2> QED BY <2>2, <2>3, <2>4, <2>5
<1>3. ASSUME c2 PROVE Covered(B, Dis(M))
  <2>1. Covered(Append(B, e), Dis(M))
    BY <1>3 DEF Kept
  <2>2. \A m \in Dis(M) : m \in Held(e) \/ \E i \in 1..Len(B) : m \in Held(B[i])
    BY <2>1, CoveredSplit, Zenon
  <2> QED BY <1>3, <2>2 DEF Covered, Held
<1> QED
  BY <1>1, <1>2, <1>3 DEF Kept, Counted

\* An idle expander is put on top.
LEMMA KeptAdd ==
  ASSUME Laws, NEW B \in Seq(Frame), NEW e \in Frame, NEW M \in Seq(Macro),
         NEW S, NEW c \in BOOLEAN, Kept(B, M, S, c),
         In(e) = {}, Re(e) = {}, Iv(e) = {}
  PROVE  Kept(Append(B, e), M, S, c)
<1>1. Held(e) = {}
  BY DEF Held
<1>2. Separate(Append(B, e), Dis(M), Live(M, S))
  <2>1. /\ Held(e) \subseteq Dis(M) /\ In(e) \subseteq Live(M, S) /\ Iv(e) \subseteq Live(M, S)
        /\ In(e) \cap Re(e) = {} /\ Iv(e) \cap Held(e) = {}
        /\ \A i \in 1..Len(B) : Held(B[i]) \cap Held(e) = {} /\ Iv(e) \cap Held(B[i]) = {}
    BY <1>1
  <2> QED BY <2>1, SeparateSplit, Zenon DEF Kept
<1>3. ASSUME NEW m PROVE Uses(Append(B, e), m) = Uses(B, m)
  <2>1. \A i \in 1..Len(B) : m \in In(e) => m \notin In(B[i])
    OBVIOUS
  <2>2. TopUses(e, m) = 0
    BY DEF TopUses
  <2> QED BY <2>1, <2>2, UsesSplit
<1>4. ASSUME Covered(B, Dis(M)) PROVE Covered(Append(B, e), Dis(M))
  <2>1. \A m \in Dis(M) : m \in Held(e) \/ \E i \in 1..Len(B) : m \in Held(B[i])
    BY <1>4, Zenon DEF Covered
  <2> QED BY <2>1, CoveredSplit, Zenon
<1> QED
  BY <1>2, <1>3, <1>4 DEF Kept, Counted

\* Only what the expanders hold and invoke matters.
SameUse(F, G) ==
  /\ Len(G) = Len(F)
  /\ \A i \in 1..Len(F) : In(G[i]) = In(F[i]) /\ Re(G[i]) = Re(F[i]) /\ Iv(G[i]) = Iv(F[i])

\* Frames that hold and invoke the same macros are as good.
LEMMA KeptSame ==
  ASSUME NEW F, NEW G, SameUse(F, G),
         NEW M, NEW S, NEW c \in BOOLEAN, NEW c2 \in BOOLEAN, c2 => c, Kept(F, M, S, c)
  PROVE  Kept(G, M, S, c2)
<1> USE DEF SameUse
<1>1. \A i \in 1..Len(F) : Held(G[i]) = Held(F[i])
  BY DEF Held
<1>2. Separate(G, Dis(M), Live(M, S))
  BY <1>1, Zenon DEF Kept, Separate
<1>3. ASSUME NEW m PROVE Uses(G, m) = Uses(F, m)
  <2>1. Invoked(G, m) = Invoked(F, m)
    BY DEF Invoked
  <2>2. (\E i \in 1..Len(G) : m \in In(G[i])) <=> (\E i \in 1..Len(F) : m \in In(F[i]))
    OBVIOUS
  <2> QED BY <2>1, <2>2, Zenon DEF Uses
<1>4. Covered(F, Dis(M)) => Covered(G, Dis(M))
  BY <1>1, Zenon DEF Covered
<1> QED
  BY <1>2, <1>3, <1>4 DEF Kept, Counted

\* A context is pushed.
LEMMA ContextsAppend ==
  ASSUME Laws, NEW s, ContextsOK(s), NEW c \in Context, c.index \in 0..Len(c.replacements), c.macro \notin MacrosOf(s)
  PROVE  /\ ContextsOK(Append(s, c))
         /\ MacrosOf(Append(s, c)) = MacrosOf(s) \cup {c.macro}
         /\ TokensIn(Append(s, c)) = TokensIn(s) + Len(c.replacements)
         /\ Append(s, c) # <<>>
<1> DEFINE t == Append(s, c)
           n == Len(s)
<1>1. s \in Seq(Context)
  BY DEF ContextsOK
<1>2. /\ t \in Seq(Context) /\ Len(t) = n + 1 /\ n \in Nat
      /\ \A i \in 1..n : t[i] = s[i]
      /\ t[n + 1] = c /\ t # <<>>
  BY <1>1
<1>3. TokensIn(t) = TokensIn(s) + Len(c.replacements)
  BY <1>1, Zenon DEF Laws, TokenLaws
<1> HIDE DEF t
<1>4. \A i \in 1..(n + 1) : i = n + 1 \/ i \in 1..n
  BY <1>2
<1>5. MacrosOf(t) = MacrosOf(s) \cup {c.macro}
  BY <1>2, <1>4 DEF MacrosOf
<1>6. \A j \in 1..n : s[j].macro # c.macro
  BY DEF MacrosOf
<1>7. \A j \in 1..(n + 1) : t[j].index \in 0..Len(t[j].replacements)
  BY <1>2, <1>4 DEF ContextsOK
<1>8. \A j, k \in 1..(n + 1) : t[j].macro = t[k].macro => j = k
  <2> SUFFICES ASSUME NEW j \in 1..(n + 1), NEW k \in 1..(n + 1), t[j].macro = t[k].macro PROVE j = k
    OBVIOUS
  <2>1. CASE j \in 1..n /\ k \in 1..n
    BY <2>1, <1>2 DEF ContextsOK
  <2>2. CASE j = n + 1 /\ k \in 1..n
    BY <2>2, <1>2, <1>6
  <2>3. CASE k = n + 1 /\ j \in 1..n
    BY <2>3, <1>2, <1>6
  <2> QED BY <2>1, <2>2, <2>3, <1>4
<1> QED
  BY <1>2, <1>3, <1>5, <1>7, <1>8 DEF ContextsOK, t

\* The last context is popped.
LEMMA ContextsFront ==
  ASSUME Laws, NEW s, ContextsOK(s), s # <<>>
  PROVE  /\ ContextsOK(Front(s))
         /\ MacrosOf(Front(s)) = MacrosOf(s) \ {Last(s).macro}
         /\ Last(s).macro \in MacrosOf(s)
         /\ TokensIn(Front(s)) = TokensIn(s) - Len(Last(s).replacements)
<1> DEFINE t == Front(s)
           n == Len(s)
           c == Last(s)
<1>1. s \in Seq(Context)
  BY DEF ContextsOK
<1>2. /\ t \in Seq(Context) /\ Len(t) = n - 1 /\ n \in Nat \ {0}
      /\ \A i \in 1..(n - 1) : t[i] = s[i]
  BY <1>1, FrontLast, Zenon
<1>3. TokensIn(t) = TokensIn(s) - Len(c.replacements)
  BY <1>1, Zenon DEF Laws, TokenLaws
<1>4. c = s[n]
  BY DEF Last
<1> HIDE DEF t, c
<1>5. \A i \in 1..n : i = n \/ i \in 1..(n - 1)
  BY <1>2
<1>6. n \in 1..n /\ \A i \in 1..(n - 1) : i \in 1..n /\ i # n
  BY <1>2
<1>7. c.macro \in MacrosOf(s)
  BY <1>4, <1>6 DEF MacrosOf
<1>8. \A i \in 1..(n - 1) : s[i].macro # c.macro
  BY <1>4, <1>6 DEF ContextsOK
<1>9. MacrosOf(t) = MacrosOf(s) \ {c.macro}
  <2>1. ASSUME NEW x PROVE x \in MacrosOf(t) <=> \E i \in 1..(n - 1) : x = s[i].macro
    BY <1>2 DEF MacrosOf
  <2>2. ASSUME NEW x PROVE x \in MacrosOf(s) <=> x = c.macro \/ \E i \in 1..(n - 1) : x = s[i].macro
    BY <1>4, <1>5, <1>6, Zenon DEF MacrosOf
  <2> QED BY <2>1, <2>2, <1>8
<1>10. ContextsOK(t)
  BY Zenon, <1>2, <1>6 DEF ContextsOK
<1> QED
  BY <1>3, <1>7, <1>9, <1>10 DEF t, c

\* The last context is read further, or back.
LEMMA ContextsIndex ==
  ASSUME Laws, NEW s, ContextsOK(s), s # <<>>, NEW x \in 0..Len(Last(s).replacements)
  PROVE  LET t == [s EXCEPT ![Len(s)] = [@ EXCEPT !.index = x]]
         IN  /\ ContextsOK(t) /\ MacrosOf(t) = MacrosOf(s) /\ TokensIn(t) = TokensIn(s)
             /\ t # <<>> /\ Last(t).index = x /\ Last(t).replacements = Last(s).replacements
<1> DEFINE n == Len(s)
           t == [s EXCEPT ![n] = [@ EXCEPT !.index = x]]
<1>1. s \in Seq(Context) /\ n \in Nat \ {0} /\ n \in 1..n
  BY DEF ContextsOK
<1>2. s[n] \in Context
  BY <1>1
<1>3. x \in Nat
  BY <1>2 DEF Context, Last
<1>4. [s[n] EXCEPT !.index = x] \in Context
  BY <1>2, <1>3 DEF Context
<1>5. t \in Seq(Context) /\ Len(t) = n /\ t # <<>>
  BY <1>1, <1>4
<1>6. t[n] = [s[n] EXCEPT !.index = x] /\ \A i \in 1..n : i # n => t[i] = s[i]
  BY <1>1
<1>7. t[n].macro = s[n].macro /\ t[n].replacements = s[n].replacements /\ t[n].index = x
  BY <1>2, <1>6 DEF Context
<1> HIDE DEF t
<1>8. \A i \in 1..n : t[i].macro = s[i].macro /\ t[i].replacements = s[i].replacements
  BY Zenon, <1>6, <1>7
<1>9. TokensIn(t) = TokensIn(s)
  BY <1>1, <1>5, <1>8 DEF Laws, TokenLaws
<1>10. MacrosOf(t) = MacrosOf(s)
  BY <1>5, <1>8 DEF MacrosOf
<1>11. \A i \in 1..n : t[i].index \in 0..Len(t[i].replacements)
  BY Zenon, <1>6, <1>7 DEF ContextsOK, Last
<1>12. ContextsOK(t)
  BY <1>5, <1>8, <1>11 DEF ContextsOK
<1> QED
  BY <1>5, <1>7, <1>9, <1>10, <1>12 DEF t, Last

Below(B, e) == IF B = <<>> THEN e.kind = "main" ELSE Link(Last(B), e)

\* Stack, with the frame on top apart.
LEMMA StackSplit ==
  ASSUME NEW B \in Seq(Frame), NEW e \in Frame
  PROVE  Stack(Append(B, e)) <=> Stack(B) /\ Local(e) /\ Below(B, e)
<1> DEFINE n == Len(B)
           F == Append(B, e)
<1>1. /\ F \in Seq(Frame) /\ Len(F) = n + 1 /\ n \in Nat /\ F[n + 1] = e /\ F # <<>>
      /\ \A i \in 1..n : F[i] = B[i]
  OBVIOUS
<1> HIDE DEF F
<1>2. B = <<>> <=> n = 0
  OBVIOUS
<1>3. /\ \A i \in 1..(n + 1) : i = n + 1 \/ i \in 1..n
      /\ \A i \in 1..n : i \in 1..(n + 1)
      /\ n + 1 \in 1..(n + 1) /\ n + 1 - 1 = n
      /\ \A i \in 1..n : i = n \/ (i \in 1..(n - 1) /\ i + 1 \in 1..n)
      /\ \A i \in 1..(n - 1) : i \in 1..n /\ i + 1 \in 1..n
      /\ n # 0 => n \in 1..n /\ 1 \in 1..n
  BY <1>1
<1> DEFINE Links == \A i \in 1..n : Link(F[i], F[i + 1])
<1>6. Len(F) - 1 = n
  BY <1>1
<1>7. Stack(F) <=> (\A i \in 1..(n + 1) : Local(F[i])) /\ F[1].kind = "main" /\ Links
  BY <1>1, <1>6, Zenon DEF Stack
<1>4. ASSUME Stack(F) PROVE Stack(B) /\ Local(e) /\ Below(B, e)
  <2>1. Local(e)
    BY <1>1, <1>3, <1>4, Zenon DEF Stack
  <2>2. Below(B, e)
    <3>1. CASE n = 0
      BY <1>1, <1>2, <1>4, <3>1 DEF Stack, Below
    <3>2. CASE n # 0
      <4>1. Link(F[n], F[n + 1]) /\ F[n] = B[n]
        BY <1>1, <1>3, <1>4, <1>7, <3>2, Zenon
      <4> QED BY <4>1, <1>1, <1>2, <3>2 DEF Below, Last
    <3> QED BY <3>1, <3>2
  <2>3. ASSUME NEW i \in 1..(n - 1) PROVE Link(B[i], B[i + 1])
    <3>1. i \in 1..n /\ i + 1 \in 1..n
      BY <1>3, Zenon
    <3>2. Link(F[i], F[i + 1]) /\ F[i] = B[i] /\ F[i + 1] = B[i + 1]
      BY <3>1, <1>1, <1>4, <1>7
    <3> QED BY <3>2
  <2>4. \A i \in 1..n : Local(B[i])
    BY <1>1, <1>3, <1>4, Zenon DEF Stack
  <2>5. B # <<>> => B[1].kind = "main"
    BY <1>1, <1>2, <1>3, <1>4, Zenon DEF Stack
  <2> QED BY <2>1, <2>2, <2>3, <2>4, <2>5 DEF Stack
<1>5. ASSUME Stack(B), Local(e), Below(B, e) PROVE Stack(F)
  <2>1. \A i \in 1..(n + 1) : Local(F[i])
    BY <1>1, <1>3, <1>5, Zenon DEF Stack
  <2>2. F[1].kind = "main"
    <3>1. CASE n = 0
      BY <1>1, <1>2, <1>5, <3>1 DEF Below
    <3>2. CASE n # 0
      BY <1>1, <1>2, <1>3, <1>5, <3>2, Zenon DEF Stack
    <3> QED BY <3>1, <3>2
  <2>3. ASSUME NEW i \in 1..n PROVE Link(F[i], F[i + 1])
    <3>1. CASE i = n
      <4>1. F[i] = Last(B) /\ F[i + 1] = e /\ B # <<>>
        <5>1. n # 0 /\ n \in 1..n
          BY <1>1, <3>1
        <5>2. F[n] = B[n] /\ F[n + 1] = e /\ B # <<>>
          BY <5>1, <1>1, <1>2
        <5> QED BY <5>2, <3>1 DEF Last
      <4> QED BY <4>1, <1>5, Zenon DEF Below
    <3>2. CASE i # n
      <4>1. i \in 1..(n - 1) /\ i + 1 \in 1..n
        BY <1>3, <3>2, Zenon
      <4>2. Link(B[i], B[i + 1])
        BY <4>1, <1>5 DEF Stack
      <4> QED BY <4>1, <4>2, <1>1
    <3> QED BY <3>1, <3>2
  <2> QED BY <1>7, <2>1, <2>2, <2>3, Zenon
<1> QED
  BY <1>4, <1>5, Zenon DEF F

\* Below looks only at the kind of the expander on top.
LEMMA BelowKind ==
  ASSUME NEW B, NEW e, NEW e2, e2.kind = e.kind, Below(B, e)
  PROVE  Below(B, e2)
BY Zenon DEF Below, Link

\* What a good stack with e on top says of e.
LEMMA GoodParts ==
  ASSUME NEW B, NEW e, NEW M, NEW S, NEW c, Good(Append(B, e), M, S, c), B \in Seq(Frame), e \in Frame
  PROVE  /\ Local(e) /\ Below(B, e) /\ Stack(B)
         /\ M \in Seq(Macro)
         /\ Held(e) \subseteq Dis(M) /\ In(e) \subseteq Live(M, S) /\ Iv(e) \subseteq Live(M, S)
         /\ In(e) \cap Re(e) = {} /\ Iv(e) \cap Held(e) = {}
<1>1. Stack(Append(B, e)) /\ M \in Seq(Macro) /\ Kept(Append(B, e), M, S, c)
  BY Zenon DEF Good, Table
<1>2. Local(e) /\ Below(B, e) /\ Stack(B)
  BY <1>1, StackSplit, Zenon
<1> QED
  BY <1>1, <1>2, KeptSeparate, Zenon

\* A change of the frame on top of a good state, and of its table.
GoodStep(B, e, e2, M, M2, S, c, c2) ==
  /\ B \in Seq(Frame) /\ e \in Frame /\ Local(e2) /\ e2.kind = e.kind
  /\ c \in BOOLEAN /\ c2 \in BOOLEAN
  /\ Good(Append(B, e), M, S, c) /\ Table(M2, S) /\ TopStep(e, e2, M, M2, S, c, c2)

\* A step of the frame on top alone.
LEMMA GoodTop ==
  ASSUME Laws, NEW B, NEW e, NEW e2, NEW M, NEW M2, NEW S, NEW c, NEW c2,
         GoodStep(B, e, e2, M, M2, S, c, c2)
  PROVE  Good(Append(B, e2), M2, S, c2)
<1>0. /\ B \in Seq(Frame) /\ e \in Frame /\ Local(e2) /\ e2.kind = e.kind
      /\ c \in BOOLEAN /\ c2 \in BOOLEAN
      /\ Good(Append(B, e), M, S, c) /\ Table(M2, S) /\ TopStep(e, e2, M, M2, S, c, c2)
  BY Zenon DEF GoodStep
<1> USE <1>0
<1>1. e2 \in Frame /\ M \in Seq(Macro) /\ M2 \in Seq(Macro)
  BY Zenon DEF Local, Good, Table
<1>2. Stack(B) /\ Below(B, e)
  BY GoodParts, Zenon
<1>3. Stack(Append(B, e2))
  BY <1>1, <1>2, StackSplit, BelowKind, Zenon
<1>4. Kept(Append(B, e), M, S, c)
  BY Zenon DEF Good
<1>5. Kept(Append(B, e2), M2, S, c2)
  BY <1>1, <1>4, KeptTop
<1> QED
  BY <1>3, <1>5, Zenon DEF Good

\* e2 holds and invokes what e does, and the table is unchanged.
LEMMA GoodSame ==
  ASSUME Laws, NEW B \in Seq(Frame), NEW e \in Frame, NEW e2, Local(e2), e2.kind = e.kind,
         In(e2) = In(e), Re(e2) = Re(e), Iv(e2) = Iv(e),
         NEW M, NEW S, NEW c \in BOOLEAN, NEW c2 \in BOOLEAN, c2 => c,
         Good(Append(B, e), M, S, c)
  PROVE  Good(Append(B, e2), M, S, c2)
<1>1. /\ Held(e) \subseteq Dis(M) /\ In(e) \subseteq Live(M, S) /\ Iv(e) \subseteq Live(M, S)
      /\ In(e) \cap Re(e) = {} /\ Iv(e) \cap Held(e) = {}
      /\ M \in Seq(Macro)
  BY GoodParts, Zenon
<1>2. Held(e2) = Held(e) /\ \A m : TopUses(e2, m) = TopUses(e, m)
  BY Zenon DEF Held, TopUses
<1>3. ASSUME c2 PROVE \A m \in Dis(M) : m \in Held(e2) \/ (m \in Dis(M) /\ m \notin Held(e))
  BY <1>2
<1>4. \A m \in 1..Len(M) : M[m].expansionCount - TopUses(e2, m) >= M[m].expansionCount - TopUses(e, m)
  <2> SUFFICES ASSUME NEW m \in 1..Len(M)
               PROVE  M[m].expansionCount - TopUses(e2, m) >= M[m].expansionCount - TopUses(e, m)
    OBVIOUS
  <2>1. M[m].expansionCount \in Int /\ TopUses(e, m) \in Int
    BY <1>1, MacroFacts DEF TopUses
  <2> QED BY <2>1, <1>2
<1>5. TopStep(e, e2, M, M, S, c, c2)
  BY <1>1, <1>2, <1>3, <1>4, Zenon DEF TopStep
<1>6. Table(M, S)
  BY Zenon DEF Good
<1>7. GoodStep(B, e, e2, M, M, S, c, c2)
  BY <1>5, <1>6, Zenon DEF GoodStep
<1> QED
  BY <1>7, GoodTop, Zenon

\* An expander is destroyed.
LEMMA GoodDrop ==
  ASSUME Laws, NEW B \in Seq(Frame), NEW e \in Frame,
         NEW M, NEW S, NEW c \in BOOLEAN, NEW c2 \in BOOLEAN, Good(Append(B, e), M, S, c),
         c2 => c /\ In(e) = {} /\ Re(e) = {} /\ Iv(e) = {}
  PROVE  Good(B, M, S, c2)
<1>1. Stack(Append(B, e)) /\ M \in Seq(Macro) /\ Kept(Append(B, e), M, S, c) /\ Table(M, S)
  BY Zenon DEF Good, Table
<1>2. Stack(B)
  BY <1>1, StackSplit, Zenon
<1>3. Kept(B, M, S, c2)
  BY <1>1, KeptDrop
<1> QED
  BY <1>1, <1>2, <1>3, Zenon DEF Good

\* A fresh expander is put on top.
LEMMA GoodAdd ==
  ASSUME Laws, NEW B \in Seq(Frame), NEW e, Local(e), Below(B, e),
         NEW M, NEW S, NEW c \in BOOLEAN, Good(B, M, S, c),
         In(e) = {}, Re(e) = {}, Iv(e) = {}
  PROVE  Good(Append(B, e), M, S, c)
<1>1. e \in Frame /\ M \in Seq(Macro) /\ Stack(B) /\ Table(M, S) /\ Kept(B, M, S, c)
  BY Zenon DEF Good, Table, Local
<1>2. Stack(Append(B, e))
  BY <1>1, StackSplit, Zenon
<1>3. Kept(Append(B, e), M, S, c)
  BY <1>1, KeptAdd, Zenon
<1> QED
  BY <1>1, <1>2, <1>3, Zenon DEF Good

\* The caller d of the expander on top changes, but not what it holds and invokes.
LEMMA GoodUnder ==
  ASSUME NEW B \in Seq(Frame), NEW d \in Frame, NEW e \in Frame, NEW d2, NEW e2, Local(d2), Local(e2),
         d2.kind = d.kind, d2.pc = d.pc, e2.kind = e.kind,
         In(d2) = In(d), Re(d2) = Re(d), Iv(d2) = Iv(d), In(e2) = In(e), Re(e2) = Re(e), Iv(e2) = Iv(e),
         NEW M, NEW S, NEW c \in BOOLEAN, NEW c2 \in BOOLEAN, c2 => c,
         Good(Append(Append(B, d), e), M, S, c)
  PROVE  Good(Append(Append(B, d2), e2), M, S, c2)
<1> DEFINE F == Append(Append(B, d), e)
           G == Append(Append(B, d2), e2)
<1>1. /\ d2 \in Frame /\ e2 \in Frame
      /\ Append(B, d) \in Seq(Frame) /\ Append(B, d2) \in Seq(Frame)
  BY DEF Local
<1>2. Stack(F) /\ Table(M, S) /\ Kept(F, M, S, c)
  BY Zenon DEF Good
<1>3. Stack(G)
  <2>1. Stack(Append(B, d)) /\ Local(e) /\ Below(Append(B, d), e)
    BY <1>1, <1>2, StackSplit, Zenon
  <2>2. Stack(B) /\ Below(B, d)
    BY <2>1, StackSplit, Zenon
  <2>3. Stack(Append(B, d2))
    BY <1>1, <2>2, StackSplit, BelowKind, Zenon
  <2>4. /\ Append(B, d) # <<>> /\ Last(Append(B, d)) = d
        /\ Append(B, d2) # <<>> /\ Last(Append(B, d2)) = d2
    BY <1>1, AppendFacts
  <2>5. Below(Append(B, d2), e2)
    BY <2>1, <2>4, Zenon DEF Below, Link
  <2> QED BY <1>1, <2>3, <2>5, StackSplit, Zenon
<1>4. Kept(G, M, S, c2)
  <2> DEFINE n == Len(B)
  <2>1. /\ Len(F) = n + 2 /\ Len(G) = n + 2 /\ n \in Nat
        /\ F[n + 1] = d /\ F[n + 2] = e /\ G[n + 1] = d2 /\ G[n + 2] = e2
        /\ \A i \in 1..n : F[i] = B[i] /\ G[i] = B[i]
    BY <1>1
  <2> HIDE DEF F, G
  <2>2. \A i \in 1..(n + 2) : i \in 1..n \/ i = n + 1 \/ i = n + 2
    BY <2>1
  <2>3. \A i \in 1..(n + 2) : In(G[i]) = In(F[i]) /\ Re(G[i]) = Re(F[i]) /\ Iv(G[i]) = Iv(F[i])
    BY <2>1, <2>2
  <2>4. SameUse(F, G)
    BY <2>1, <2>3 DEF SameUse
  <2>5. Kept(F, M, S, c)
    BY <1>2
  <2> QED BY <2>4, <2>5, KeptSame
<1> QED
  BY <1>2, <1>3, <1>4, Zenon DEF Good

\* What getToken() leaves behind in expander d: the token and the expander.
Got(d, token, e) ==
  /\ Local(e) /\ token \in Token
  /\ e.kind = d.kind /\ e.pc = d.pc /\ e.call = d.call /\ e.reenable = d.reenable
  /\ In(e) = In(d)
  /\ e.reserve = <<>>
  /\ token.text = "LAST" => e.contexts = <<>>
  /\ d.pc # "lex" /\ e.contexts # <<>> => Last(e.contexts).index >= 1

\* LAST is the only token that is not an ordinary one.
LEMMA PlainToken ==
  /\ \A token \in Plain : token \in Token /\ token.text # "LAST"
  /\ \A token \in Token : token.text # "LAST" => token \in Plain
  /\ \A text \in Text : Tok(text) \in Plain /\ Tok(text).text = text
  /\ Tok("LAST") \in Token
BY TextAssumption DEF Plain, Token, Tok

\* Expander e at index x of its last context.
Moved(e, x) == [e EXCEPT !.contexts[Len(e.contexts)].index = x]

\* The contexts of an expander move on within the same macros.
LEMMA MoveIndex ==
  ASSUME Laws, NEW e, Local(e), e.contexts # <<>>, NEW x \in 0..Len(Last(e.contexts).replacements)
  PROVE LET f == Moved(e, x) IN
        /\ Local(f) /\ f.kind = e.kind /\ f.pc = e.pc /\ f.call = e.call /\ f.reenable = e.reenable
         /\ In(f) = In(e) /\ f.reserve = e.reserve /\ f.contexts # <<>> /\ Last(f.contexts).index = x
<1> DEFINE t == [e.contexts EXCEPT ![Len(e.contexts)] = [@ EXCEPT !.index = x]]
           f == Moved(e, x)
<1>1. e \in Frame /\ ContextsOK(e.contexts)
  BY DEF Local
<1>2. /\ ContextsOK(t) /\ MacrosOf(t) = MacrosOf(e.contexts) /\ TokensIn(t) = TokensIn(e.contexts)
      /\ t # <<>> /\ Last(t).index = x
  BY <1>1, ContextsIndex, Zenon
<1> HIDE DEF t
<1>3. f = [e EXCEPT !.contexts = t]
  BY DEF t, Moved
<1>4. t \in Seq(Context)
  BY <1>2 DEF ContextsOK
<1>5. f \in Frame
  BY Zenon, <1>1, <1>3, <1>4 DEF Frame
<1>6. /\ f.contexts = t /\ f.kind = e.kind /\ f.pc = e.pc /\ f.call = e.call /\ f.reenable = e.reenable
      /\ f.reserve = e.reserve /\ f.total = e.total /\ f.parseDefined = e.parseDefined
  BY <1>1, <1>3 DEF Frame
<1> HIDE DEF f
<1>7. Local(f)
  BY <1>2, <1>5, <1>6, Zenon DEF Local
<1> QED
  BY <1>2, <1>6, <1>7, Zenon DEF In, f

\* getToken() leaves the expander where it was, but for the token taken.
LEMMA GetToken ==
  ASSUME Laws, Local(top), NEW got \in getToken
  PROVE  Got(top, got.token, got.expander)
<1> DEFINE d == top
<1>0. d \in Frame
  BY DEF Local
<1>1. /\ d.kind \in {"main", "arg", "dir"} /\ d.lexer \in Seq(Plain)
      /\ d.reserve \in Seq(Token) /\ d.contexts \in Seq(Context)
  BY <1>0, FrameFields, Zenon
<1> HIDE DEF d
<1>2. CASE d.reserve # <<>>
  <2> DEFINE e == [d EXCEPT !.reserve = <<>>]
  <2>1. getToken = {[token |-> d.reserve[1], expander |-> e, fromSource |-> FALSE]}
    BY <1>2, Zenon DEF getToken, asksLexer, d
  <2>2. got.token = d.reserve[1] /\ got.expander = e
    BY <2>1
  <2>3. d.contexts = <<>> /\ d.pc = "lex" /\ Len(d.reserve) = 1
    BY <1>2, Zenon DEF Local, d
  <2>4. d.reserve[1] \in Token
    BY <1>1, <2>3
  <2>5. /\ e \in Frame /\ e.reserve = <<>> /\ e.contexts = d.contexts /\ e.kind = d.kind /\ e.pc = d.pc
        /\ e.call = d.call /\ e.reenable = d.reenable /\ e.total = d.total /\ e.parseDefined = d.parseDefined
    <3>1. <<>> \in Seq(Token)
      OBVIOUS
    <3> QED BY Zenon, <1>0, <3>1 DEF Frame
  <2>6. Local(e)
    BY <2>5, Zenon DEF Local, d
  <2> HIDE DEF e
  <2> QED BY <2>2, <2>3, <2>4, <2>5, <2>6, Zenon DEF Got, In, d
<1>3. CASE d.reserve = <<>> /\ d.contexts # <<>>
  <2> DEFINE c == Last(d.contexts)
             n == Len(d.contexts)
             e == [d EXCEPT !.contexts[n].index = @ + 1]
  <2>1. getToken = IF contextEmpty THEN {}
                   ELSE {[token |-> c.replacements[c.index + 1], expander |-> e, fromSource |-> FALSE]}
    BY <1>3, Zenon DEF getToken, asksLexer, context, d
  <2>2. ~contextEmpty
    BY <2>1
  <2>3. got.token = c.replacements[c.index + 1] /\ got.expander = e
    BY <2>1, <2>2
  <2>4. n \in Nat \ {0} /\ c = d.contexts[n] /\ c \in Context
    BY <1>1, <1>3 DEF Last
  <2>5. c.index \in 0..Len(c.replacements) /\ c.index # Len(c.replacements)
    <3>1. ContextsOK(d.contexts)
      BY Zenon DEF Local, d
    <3>2. n \in 1..n
      BY <2>4
    <3>3. c.index \in 0..Len(c.replacements)
      BY <2>4, <3>1, <3>2 DEF ContextsOK
    <3>4. c.index # Len(c.replacements)
      BY <2>2, Zenon DEF contextEmpty, context, d
    <3> QED BY <3>3, <3>4
  <2>6. c.replacements \in Seq(Plain)
    BY <2>4 DEF Context
  <2>7. c.index + 1 \in 1..Len(c.replacements) /\ c.index + 1 \in 0..Len(c.replacements) /\ c.index + 1 >= 1
    BY <2>5, <2>6
  <2>8. got.token \in Plain
    BY <2>3, <2>6, <2>7
  <2>9. e = Moved(d, c.index + 1)
    BY <2>4, Zenon DEF Moved
  <2> HIDE DEF c, n, e
  <2>10. /\ Local(e) /\ e.kind = d.kind /\ e.pc = d.pc /\ e.call = d.call /\ e.reenable = d.reenable
         /\ In(e) = In(d) /\ e.reserve = d.reserve /\ e.contexts # <<>> /\ Last(e.contexts).index = c.index + 1
    <3>1. Local(d)
      BY DEF d
    <3> QED BY <3>1, <1>3, <2>7, <2>9, MoveIndex, Zenon DEF c
  <2>11. got.token \in Token /\ got.token.text # "LAST"
    BY <2>8, PlainToken, Zenon
  <2> QED BY <1>3, <2>3, <2>7, <2>10, <2>11, Zenon DEF Got, d
<1>4. CASE d.reserve = <<>> /\ d.contexts = <<>> /\ d.kind = "arg" /\ d.lexer = <<>>
  <2>1. getToken = {[token |-> Tok("LAST"), expander |-> d, fromSource |-> FALSE]}
    BY <1>4, Zenon DEF getToken, asksLexer, d
  <2>2. got.token = Tok("LAST") /\ got.expander = d
    BY <2>1
  <2>3. Tok("LAST") \in Token
    BY PlainToken, Zenon
  <2> QED BY <1>4, <2>2, <2>3, Zenon DEF Got, d
<1>5. CASE d.reserve = <<>> /\ d.contexts = <<>> /\ d.kind = "arg" /\ d.lexer # <<>>
  <2> DEFINE e == [d EXCEPT !.lexer = Tail(@)]
  <2>1. getToken = {[token |-> Head(d.lexer), expander |-> e, fromSource |-> FALSE]}
    BY <1>5, Zenon DEF getToken, asksLexer, d
  <2>2. got.token = Head(d.lexer) /\ got.expander = e
    BY <2>1
  <2>3. Head(d.lexer) \in Plain /\ Tail(d.lexer) \in Seq(Plain)
    BY <1>1, <1>5
  <2>4. Head(d.lexer) \in Token
    BY <2>3, PlainToken, Zenon
  <2>5. /\ e \in Frame /\ e.reserve = d.reserve /\ e.contexts = d.contexts /\ e.kind = d.kind /\ e.pc = d.pc
        /\ e.call = d.call /\ e.reenable = d.reenable /\ e.total = d.total /\ e.parseDefined = d.parseDefined
    BY Zenon, <1>0, <2>3 DEF Frame
  <2>6. Local(e)
    BY <2>5, Zenon DEF Local, d
  <2> HIDE DEF e
  <2> QED BY <1>5, <2>2, <2>4, <2>5, <2>6, Zenon DEF Got, In, d
<1>6. CASE d.reserve = <<>> /\ d.contexts = <<>> /\ d.kind # "arg"
  <2>1. getToken = {[token |-> Tok(text), expander |-> d, fromSource |-> TRUE] : text \in sourceTexts}
    BY <1>6, Zenon DEF getToken, asksLexer, d
  <2>2. PICK text \in sourceTexts : got = [token |-> Tok(text), expander |-> d, fromSource |-> TRUE]
    BY <2>1, Zenon
  <2>3. got.token = Tok(text) /\ got.expander = d
    BY Zenon, <2>2
  <2>4. text \in Text \/ text = "LAST"
    <3>1. \A t \in sourceTexts : t \in SourceTokens \/ t = "LAST" \/ t = "nl"
      BY Zenon DEF sourceTexts
    <3> QED BY Zenon, <3>1, TextAssumption
  <2>5. Tok(text) \in Token
    BY <2>4, PlainToken, Zenon
  <2> QED BY <1>6, <2>3, <2>5, Zenon DEF Got, d
<1> QED
  BY <1>2, <1>3, <1>4, <1>5, <1>6, Zenon DEF d

\* Without a reserve token, Core is part of Local.
LEMMA CoreOfLocal ==
  ASSUME NEW e, Local(e), e.reserve = <<>>
  PROVE  Core(e)
BY Zenon DEF Local, Core, Calm

\* f is expander u at the beginning of lex(), with nothing to re-enable.
Idled(u, f) ==
  /\ f \in Frame /\ f.pc = "lex" /\ f.reenable = <<>> /\ f.kind = u.kind /\ f.contexts = u.contexts
  /\ f.total = u.total /\ f.reserve = u.reserve /\ f.parseDefined = u.parseDefined

\* An expander that goes back to the beginning of lex().
LEMMA IdleFrame ==
  ASSUME NEW u, Calm(u), NEW f, Idled(u, f)
  PROVE  Local(f) /\ f \in Frame /\ f.kind = u.kind /\ In(f) = In(u) /\ Re(f) = {} /\ Iv(f) = {} /\ f.pc = "lex"
<1>1. Calm(f) /\ In(f) = In(u)
  BY Zenon DEF Calm, Idled, In
<1>2. Local(f)
  BY <1>1, LocalOfCalm, Zenon DEF Idled
<1> QED
  BY <1>1, <1>2 DEF Idled, Re, Iv, Elements

\* f is expander e at p with the locals k of collectMacroArgs().
At(e, f, p, k) ==
  /\ f \in Frame /\ f.pc = p /\ f.call = k /\ f.kind = e.kind /\ f.contexts = e.contexts /\ f.reserve = e.reserve
  /\ f.total = e.total /\ f.reenable = e.reenable /\ f.parseDefined = e.parseDefined

\* What at does.
LEMMA AtFrame ==
  ASSUME NEW e \in Frame, NEW p \in {"lex", "peek", "collect", "args"} \cup Defineds, NEW k \in Call
  PROVE  At(e, at(e, p, k), p, k)
BY Zenon DEF Frame, At, at

\* Where the expander is does not matter to Core, nor to what it holds.
LEMMA AtCore ==
  ASSUME NEW e, Core(e), NEW f, NEW p, NEW k, At(e, f, p, k)
  PROVE  Core(f) /\ f \in Frame /\ f.kind = e.kind /\ f.pc = p /\ f.call = k /\ In(f) = In(e) /\ Re(f) = Re(e)
BY Zenon DEF At, Core, Calm, In, Re

\* An expander that collects or expands arguments.
LEMMA AtCollecting ==
  ASSUME NEW e, Core(e), NEW f, NEW p \in {"collect", "args"}, NEW k, At(e, f, p, k),
         p = "collect" => k.args # <<>>, p = "args" => k.arg \in 1..Len(k.args)
  PROVE  Local(f) /\ Iv(f) = {k.macro}
BY Zenon DEF At, Local, Core, Calm, Iv, Defineds

\* An expander elsewhere.
LEMMA AtOther ==
  ASSUME NEW e, Core(e), e.reenable = <<>>, NEW f, NEW p \in {"lex", "peek"} \cup Defineds, NEW k, At(e, f, p, k),
         p \in Defineds => e.kind # "main"
  PROVE  Local(f) /\ Iv(f) = IF p = "peek" THEN {k.macro} ELSE {}
BY Zenon DEF At, Local, Core, Calm, Iv, Defineds

\* The frame part of pushMacro().
Pushed(e, m, replacements) ==
  [e EXCEPT !.pc = "lex", !.call = NoCall, !.reenable = <<>>,
            !.contexts = Append(@, [macro |-> m, replacements |-> replacements, index |-> 0]),
            !.total = @ + Len(replacements)]

\* What pushMacro() does to an expander.
LEMMA PushedFrame ==
  ASSUME Laws, NEW e, Core(e), NEW m \in Nat, m \notin In(e), NEW replacements \in Seq(Plain)
  PROVE  LET f == Pushed(e, m, replacements)
         IN  Local(f) /\ f.kind = e.kind /\ In(f) = In(e) \cup {m} /\ Re(f) = {} /\ Iv(f) = {} /\ f.pc = "lex"
<1> DEFINE c == [macro |-> m, replacements |-> replacements, index |-> 0]
           t == Append(e.contexts, c)
           f == Pushed(e, m, replacements)
<1>1. NoCall \in Call /\ <<>> \in Seq(Nat)
  BY DEF NoCall, Call
<1>2. c \in Context /\ c.macro = m /\ c.replacements = replacements /\ c.index \in 0..Len(c.replacements)
  BY DEF Context
<1> HIDE DEF c
<1>3. e \in Frame /\ ContextsOK(e.contexts) /\ e.total = TokensIn(e.contexts) /\ e.reserve = <<>>
  BY Zenon DEF Core, Calm
<1>4. c.macro \notin MacrosOf(e.contexts)
  BY <1>2, Zenon DEF In
<1>5. ContextsOK(t) /\ MacrosOf(t) = MacrosOf(e.contexts) \cup {m} /\ TokensIn(t) = TokensIn(e.contexts) + Len(replacements)
  BY Zenon, <1>2, <1>3, <1>4, ContextsAppend
<1> HIDE DEF t
<1>6. t \in Seq(Context)
  BY <1>5, Zenon DEF ContextsOK
<1>7. f = [e EXCEPT !.pc = "lex", !.call = NoCall, !.reenable = <<>>, !.contexts = t, !.total = @ + Len(replacements)]
  BY Zenon DEF t, c, Pushed
<1>8. /\ f \in Frame /\ f.contexts = t /\ f.kind = e.kind /\ f.pc = "lex" /\ f.reserve = e.reserve
      /\ f.total = e.total + Len(replacements) /\ f.reenable = <<>> /\ f.parseDefined = e.parseDefined
  <2> DEFINE z == e.total + Len(replacements)
  <2>1. z \in Int
    BY <1>3 DEF Frame
  <2>2. f = [e EXCEPT !.pc = "lex", !.call = NoCall, !.reenable = <<>>, !.contexts = t, !.total = z]
    BY <1>7, Zenon
  <2> HIDE DEF f, z
  <2>3. /\ f \in Frame /\ f.contexts = t /\ f.kind = e.kind /\ f.pc = "lex" /\ f.reserve = e.reserve
        /\ f.total = z /\ f.reenable = <<>> /\ f.parseDefined = e.parseDefined
    BY Zenon, <1>1, <1>3, <1>6, <2>1, <2>2 DEF Frame
  <2> QED BY <2>3, Zenon DEF z
<1> HIDE DEF f
<1>9. Calm(f)
  BY <1>3, <1>5, <1>8, Zenon DEF Core, Calm
<1>10. Local(f)
  BY <1>8, <1>9, LocalOfCalm, Zenon
<1>11. Re(f) = {} /\ Iv(f) = {}
  BY <1>8 DEF Re, Iv, Elements
<1>12. In(f) = In(e) \cup {m}
  BY <1>5, <1>8, Zenon DEF In
<1> QED
  BY <1>8, <1>10, <1>11, <1>12, Zenon DEF f

\* What the table M2 is to M: only macro m differs, by x in its count; or only the marks differ,
\* and D are the disabled ones.
Recount(M, M2, S, m, x) ==
  /\ Table(M2, S) /\ Len(M2) = Len(M)
  /\ M2[m].expansionCount = M[m].expansionCount + x
  /\ \A k \in 1..Len(M) : k # m => M2[k].expansionCount = M[k].expansionCount
  /\ Dis(M2) = Dis(M)

Remark(M, M2, S, D) ==
  /\ Table(M2, S) /\ Len(M2) = Len(M)
  /\ \A k \in 1..Len(M) : M2[k].expansionCount = M[k].expansionCount
  /\ Dis(M2) = D

\* M2 is M with r for macro m.
Put(M, m, r, M2) == M2 = [M EXCEPT ![m] = r]

\* What a definition adds to the table.
LEMMA NewMacroFacts ==
  ASSUME NEW d \in Definition
  PROVE  /\ NewMacro(d) \in Macro /\ NewMacro(d).name = d.name /\ NewMacro(d).disabled = FALSE
         /\ NewMacro(d).expansionCount = 0
BY DEF NewMacro, Macro, Definition

\* M2 is table M with macro x at its end.
Added(M, M2, x) ==
  /\ Len(M) \in Nat /\ M2 \in Seq(Macro) /\ Len(M2) = Len(M) + 1 /\ M2[Len(M) + 1] = x
  /\ \A i \in 1..Len(M) : M2[i] = M[i]

LEMMA AddMacro ==
  ASSUME NEW M \in Seq(Macro), NEW x \in Macro
  PROVE  Added(M, Append(M, x), x)
BY DEF Added

\* Equal differences are in order.
LEMMA SameDistance ==
  ASSUME NEW a \in Int, NEW t \in Int
  PROVE  a - t >= a - t
OBVIOUS

\* Setting the mark or the count of one macro.
LEMMA SetMacro ==
  ASSUME NEW M, NEW S, Table(M, S), NEW m \in 1..Len(M), NEW r \in Macro, r.name = M[m].name,
         NEW M2, Put(M, m, r, M2)
  PROVE  /\ Table(M2, S) /\ Len(M2) = Len(M) /\ M2[m] = r
         /\ \A k \in 1..Len(M) : k # m => M2[k] = M[k]
<1>1. M \in Seq(Macro)
  BY Zenon DEF Table
<1>4. M2 \in Seq(Macro) /\ Len(M2) = Len(M)
  BY <1>1 DEF Put
<1>5. M2[m] = r /\ \A k \in 1..Len(M) : k # m => M2[k] = M[k]
  <2>1. DOMAIN M = 1..Len(M)
    BY <1>1
  <2> QED BY <2>1, Zenon DEF Put
<1>6. \A k \in 1..Len(M) : M2[k].name = M[k].name
  BY Zenon, <1>5
<1>7. Table(M2, S)
  BY Zenon, <1>4, <1>6 DEF Table
<1> QED
  BY Zenon, <1>4, <1>5, <1>7

\* The updates of the model: a macro is disabled, or counted x more.
Marked(M, m, M2) == M2 = [M EXCEPT ![m].disabled = TRUE]

Counts(M, m, x, M2) == M2 = [M EXCEPT ![m].expansionCount = @ + x]

\* Disabling a macro changes nothing else.
LEMMA MarkMacro ==
  ASSUME NEW M, NEW S, Table(M, S), NEW m \in 1..Len(M), NEW M2, Marked(M, m, M2)
  PROVE  Remark(M, M2, S, Dis(M) \cup {m})
<1> DEFINE r == [M[m] EXCEPT !.disabled = TRUE]
<1>1. M[m] \in Macro
  BY DEF Table
<1>2. r \in Macro /\ r.name = M[m].name /\ r.expansionCount = M[m].expansionCount /\ r.disabled = TRUE
  BY Zenon, <1>1 DEF Macro
<1>3. Put(M, m, r, M2)
  BY Zenon DEF Put, Marked
<1> HIDE DEF r
<1>4. /\ Table(M2, S) /\ Len(M2) = Len(M) /\ M2[m] = r
      /\ \A k \in 1..Len(M) : k # m => M2[k] = M[k]
  BY <1>2, <1>3, SetMacro
<1>5. Dis(M2) = Dis(M) \cup {m}
  BY Zenon, <1>2, <1>4 DEF Dis
<1> QED
  BY Zenon, <1>2, <1>4, <1>5 DEF Remark

\* Counting a macro changes nothing else.
LEMMA CountMacro ==
  ASSUME NEW M, NEW S, Table(M, S), NEW m \in 1..Len(M), NEW x \in Int, NEW M2, Counts(M, m, x, M2)
  PROVE  Recount(M, M2, S, m, x)
<1> DEFINE z == M[m].expansionCount + x
           r == [M[m] EXCEPT !.expansionCount = z]
<1>1. M[m] \in Macro
  BY DEF Table
<1>2. z \in Int
  BY <1>1 DEF Macro
<1> HIDE DEF z
<1>3. r \in Macro /\ r.name = M[m].name /\ r.expansionCount = z /\ r.disabled = M[m].disabled
  BY Zenon, <1>1, <1>2 DEF Macro
<1>4. Put(M, m, r, M2)
  BY Zenon DEF z, Counts, Put
<1> HIDE DEF r
<1>5. /\ Table(M2, S) /\ Len(M2) = Len(M) /\ M2[m] = r
      /\ \A k \in 1..Len(M) : k # m => M2[k] = M[k]
  BY <1>3, <1>4, SetMacro
<1>6. Dis(M2) = Dis(M)
  BY Zenon, <1>3, <1>5 DEF Dis
<1> QED
  BY Zenon, <1>3, <1>5, <1>6 DEF Recount, z

\* ~ScopedMacroReenabler enables the macros it holds, and no other.
LEMMA Reenabled ==
  ASSUME NEW M, NEW S, Table(M, S), NEW e \in Frame, NEW M2, M2 = reenabled(M, e)
  PROVE  Remark(M, M2, S, Dis(M) \ Re(e)) /\ \A k \in 1..Len(M) : M2[k].body = M[k].body
<1>1. M \in Seq(Macro) /\ Len(M) \in Nat /\ DOMAIN M = 1..Len(M)
  BY DEF Table
<1>2. \A k : Contains(e.reenable, k) <=> k \in Re(e)
  BY Zenon DEF Contains, Re, Elements
<1>3. M2 = [k \in 1..Len(M) |-> IF k \in Re(e) THEN [M[k] EXCEPT !.disabled = FALSE] ELSE M[k]]
  BY <1>1, <1>2, Zenon DEF reenabled
<1>4. ASSUME NEW k \in 1..Len(M)
      PROVE  /\ M2[k] \in Macro /\ M2[k].name = M[k].name /\ M2[k].expansionCount = M[k].expansionCount
             /\ M2[k].body = M[k].body
             /\ M2[k].disabled = (k \notin Re(e) /\ M[k].disabled)
  <2>1. M[k] \in Macro
    BY <1>1
  <2>2. CASE k \in Re(e)
    <3>1. M2[k] = [M[k] EXCEPT !.disabled = FALSE]
      BY Zenon, <1>3, <2>2
    <3> QED BY Zenon, <2>1, <2>2, <3>1 DEF Macro
  <2>3. CASE k \notin Re(e)
    <3>1. M2[k] = M[k]
      BY Zenon, <1>3, <2>3
    <3> QED BY Zenon, <2>1, <2>3, <3>1 DEF Macro
  <2> QED BY Zenon, <2>2, <2>3
<1>5. M2 \in Seq(Macro) /\ Len(M2) = Len(M)
  <2>1. M2 \in [1..Len(M) -> Macro] /\ DOMAIN M2 = 1..Len(M)
    BY Zenon, <1>3, <1>4
  <2> QED BY Zenon, <1>1, <2>1, SeqOf
<1>6. Table(M2, S)
  BY Zenon, <1>4, <1>5 DEF Table
<1>7. Dis(M2) = Dis(M) \ Re(e)
  BY Zenon, <1>4, <1>5 DEF Dis
<1> QED
  BY Zenon, <1>4, <1>5, <1>6, <1>7 DEF Remark

\* Expanders e and f use macro k alike; f uses it once more than e.
Alike(e, f, k) == (k \in In(f) <=> k \in In(e)) /\ (k \in Iv(f) <=> k \in Iv(e))

More(e, f, k) ==
  \/ k \notin In(e) /\ k \in In(f) /\ (k \in Iv(f) <=> k \in Iv(e))
  \/ k \notin Iv(e) /\ k \in Iv(f) /\ (k \in In(f) <=> k \in In(e))

\* Between M and M2 only the count of macro m changes, by x, and so does the use that
\* the expander on top makes of m; the counts keep their distance from the use.
Follows(e, f, M, M2, m, x) ==
  /\ TopUses(f, m) = TopUses(e, m) + x
  /\ M2[m].expansionCount = M[m].expansionCount + x
  /\ \A k \in 1..Len(M) : k # m => Alike(e, f, k) /\ M2[k].expansionCount = M[k].expansionCount

Balanced(e, f, M, M2) ==
  \A k \in 1..Len(M) :
    /\ M2[k].expansionCount - TopUses(f, k) >= M[k].expansionCount - TopUses(e, k)
    /\ M2[k].expansionCount - TopUses(f, k) = M[k].expansionCount - TopUses(e, k)

\* A count that follows the use stays in balance with it.
LEMMA Balance ==
  ASSUME NEW e, NEW f, NEW M \in Seq(Macro), NEW M2, NEW m \in 1..Len(M), NEW x \in Int,
         Follows(e, f, M, M2, m, x)
  PROVE  Balanced(e, f, M, M2)
<1>1. ASSUME NEW k \in 1..Len(M)
      PROVE  /\ M2[k].expansionCount - TopUses(f, k) >= M[k].expansionCount - TopUses(e, k)
             /\ M2[k].expansionCount - TopUses(f, k) = M[k].expansionCount - TopUses(e, k)
  <2>1. M[k].expansionCount \in Int
    BY MacroFacts, Zenon
  <2>2. TopUses(e, k) \in Int
    BY DEF TopUses
  <2>3. CASE k = m
    <3>1. M2[k].expansionCount = M[k].expansionCount + x /\ TopUses(f, k) = TopUses(e, k) + x
      BY <2>3, Zenon DEF Follows
    <3> QED BY <2>1, <2>2, <3>1
  <2>4. CASE k # m
    <3>1. M2[k].expansionCount = M[k].expansionCount /\ TopUses(f, k) = TopUses(e, k)
      BY <2>4, Zenon DEF Follows, Alike, TopUses
    <3> QED BY <2>1, <2>2, <3>1
  <2> QED BY <2>3, <2>4, Zenon
<1> QED BY <1>1, Zenon DEF Balanced

\* fail: nothing is invoked any more and the deferred macros are re-enabled.
LEMMA FailGood ==
  ASSUME Laws, NEW B \in Seq(Frame), NEW e \in Frame, NEW M, NEW S, NEW c \in BOOLEAN, Good(Append(B, e), M, S, c),
         NEW f, Local(f), f.kind = e.kind, In(f) = In(e), Re(f) = {}, Iv(f) = {},
         NEW r \in Frame, Re(r) = Re(e), NEW M2, M2 = reenabled(M, r), NEW c2 \in BOOLEAN, ~c2
  PROVE  Good(Append(B, f), M2, S, c2)
<1>1. /\ Held(e) \subseteq Dis(M) /\ In(e) \subseteq Live(M, S) /\ In(e) \cap Re(e) = {}
      /\ M \in Seq(Macro)
  BY GoodParts, Zenon
<1>2. Table(M, S)
  BY Zenon DEF Good
<1>3. /\ Table(M2, S) /\ Len(M2) = Len(M)
      /\ \A k \in 1..Len(M) : M2[k].expansionCount = M[k].expansionCount
      /\ Dis(M2) = Dis(M) \ Re(e)
  <2>1. Remark(M, M2, S, Dis(M) \ Re(e))
    BY Zenon, <1>2, Reenabled
  <2> QED BY Zenon, <2>1 DEF Remark
<1>4. Held(f) = In(e) /\ Held(e) = In(e) \cup Re(e)
  BY Zenon DEF Held
<1>5. ASSUME NEW m \in 1..Len(M)
      PROVE  M2[m].expansionCount - TopUses(f, m) >= M[m].expansionCount - TopUses(e, m)
  <2>1. TopUses(f, m) \in Int /\ TopUses(e, m) \in Int /\ TopUses(f, m) <= TopUses(e, m)
    BY DEF TopUses
  <2>2. M[m].expansionCount \in Int /\ M2[m].expansionCount = M[m].expansionCount
    BY Zenon, <1>1, <1>3, MacroFacts
  <2> QED BY <2>1, <2>2
<1>6. TopStep(e, f, M, M2, S, c, c2)
  <2>1. Held(f) \subseteq Dis(M2) /\ In(f) \subseteq Live(M, S) /\ Iv(f) \subseteq Live(M, S)
    BY Zenon, <1>1, <1>3, <1>4
  <2>2. In(f) \cap Re(f) = {} /\ Iv(f) \cap Held(f) = {}
    BY Zenon
  <2>3. \A m : m \in Held(f) \/ m \in Iv(f) => m \in Held(e) \/ m \in Iv(e) \/ m \notin Dis(M)
    BY Zenon, <1>4
  <2>4. \A m \in Dis(M) : m \in Dis(M2) \/ m \in Held(e)
    BY Zenon, <1>3, <1>4
  <2> QED BY <1>3, <1>5, <2>1, <2>2, <2>3, <2>4, Zenon DEF TopStep
<1>10. Table(M2, S)
  BY <1>3, Zenon
<1>11. GoodStep(B, e, f, M, M2, S, c, c2)
  BY <1>6, <1>10, Zenon DEF GoodStep
<1> QED
  BY <1>11, GoodTop, Zenon

\* pushMacro() of the macro that e was invoking.
LEMMA PushInvokedGood ==
  ASSUME Laws, NEW B \in Seq(Frame), NEW e \in Frame, NEW M, NEW S, NEW c \in BOOLEAN, NEW c2 \in BOOLEAN, c2 => c,
         Good(Append(B, e), M, S, c), NEW m, Iv(e) = {m},
         NEW f, Local(f), f.kind = e.kind, In(f) = In(e) \cup {m}, Re(f) = {}, Iv(f) = {},
         NEW r \in Frame, Re(r) = Re(e), NEW M1, M1 = reenabled(M, r), NEW M2, Marked(M1, m, M2)
  PROVE  Good(Append(B, f), M2, S, c2)
<1>1. /\ Held(e) \subseteq Dis(M) /\ In(e) \subseteq Live(M, S) /\ In(e) \cap Re(e) = {}
      /\ M \in Seq(Macro) /\ Iv(e) \subseteq Live(M, S) /\ Iv(e) \cap Held(e) = {}
  BY GoodParts, Zenon
<1>2. Table(M, S)
  BY Zenon DEF Good
<1>3. m \in 1..Len(M) /\ m \in Live(M, S) /\ m \notin Held(e)
  BY Zenon, <1>1, LiveIsMacro
<1>4. /\ Table(M1, S) /\ Len(M1) = Len(M)
      /\ \A k \in 1..Len(M) : M1[k].expansionCount = M[k].expansionCount
      /\ Dis(M1) = Dis(M) \ Re(e)
  <2>1. Remark(M, M1, S, Dis(M) \ Re(e))
    BY Zenon, <1>2, Reenabled
  <2> QED BY Zenon, <2>1 DEF Remark
<1>6. /\ Table(M2, S) /\ Len(M2) = Len(M)
      /\ \A k \in 1..Len(M) : M2[k].expansionCount = M[k].expansionCount
      /\ Dis(M2) = (Dis(M) \ Re(e)) \cup {m}
  <2>1. m \in 1..Len(M1)
    BY Zenon, <1>3, <1>4
  <2>2. Remark(M1, M2, S, Dis(M1) \cup {m})
    BY <1>4, <2>1, MarkMacro, Zenon
  <2> QED BY Zenon, <2>2, <1>4 DEF Remark
<1>7. Held(f) = In(e) \cup {m} /\ Held(e) = In(e) \cup Re(e)
  BY Zenon DEF Held
<1>8. ASSUME NEW k \in 1..Len(M)
      PROVE  /\ M2[k].expansionCount - TopUses(f, k) >= M[k].expansionCount - TopUses(e, k)
             /\ M2[k].expansionCount - TopUses(f, k) = M[k].expansionCount - TopUses(e, k)
  <2>1. TopUses(f, k) \in Int /\ TopUses(e, k) = TopUses(f, k)
    BY <1>3, <1>7 DEF TopUses
  <2>2. M[k].expansionCount \in Int /\ M2[k].expansionCount = M[k].expansionCount
    BY Zenon, <1>1, <1>6, MacroFacts
  <2> QED BY Zenon, <2>1, <2>2, SameDistance
<1>9. TopStep(e, f, M, M2, S, c, c2)
  <2>1. Held(f) \subseteq Dis(M2) /\ In(f) \subseteq Live(M, S) /\ Iv(f) \subseteq Live(M, S)
    BY Zenon, <1>1, <1>3, <1>6, <1>7
  <2>2. In(f) \cap Re(f) = {} /\ Iv(f) \cap Held(f) = {}
    BY Zenon
  <2>3. \A k : k \in Held(f) \/ k \in Iv(f) => k \in Held(e) \/ k \in Iv(e) \/ k \notin Dis(M)
    BY Zenon, <1>7
  <2>4. \A k \in Dis(M) : k \in Dis(M2) \/ k \in Held(e)
    BY Zenon, <1>6, <1>7
  <2>5. \A k \in Dis(M2) : k \in Held(f) \/ (k \in Dis(M) /\ k \notin Held(e))
    BY Zenon, <1>6, <1>7
  <2> QED BY <1>6, <1>8, <2>1, <2>2, <2>3, <2>4, <2>5, Zenon DEF TopStep
<1>10. Table(M2, S)
  BY <1>6, Zenon
<1>11. GoodStep(B, e, f, M, M2, S, c, c2)
  BY <1>9, <1>10, Zenon DEF GoodStep
<1> QED
  BY <1>11, GoodTop, Zenon

\* f is e with a context of m on top.
Expands(e, f, m) ==
  /\ Iv(e) = {} /\ Re(e) = {} /\ Local(f) /\ f.kind = e.kind
  /\ In(f) = In(e) \cup {m} /\ Re(f) = {} /\ Iv(f) = {}

\* pushMacro() of an object-like macro.
LEMMA PushObjectGood ==
  ASSUME Laws, NEW B \in Seq(Frame), NEW e \in Frame, NEW M, NEW S, NEW c \in BOOLEAN,
         Good(Append(B, e), M, S, c), NEW m \in Live(M, S), m \notin Dis(M),
         NEW f, Expands(e, f, m), NEW M1, Counts(M, m, 1, M1), NEW M2, Marked(M1, m, M2)
  PROVE  Good(Append(B, f), M2, S, c)
<1>0. /\ Iv(e) = {} /\ Re(e) = {} /\ Local(f) /\ f.kind = e.kind
      /\ In(f) = In(e) \cup {m} /\ Re(f) = {} /\ Iv(f) = {}
  BY Zenon DEF Expands
<1> USE <1>0
<1>1. /\ Held(e) \subseteq Dis(M) /\ In(e) \subseteq Live(M, S) /\ M \in Seq(Macro)
  BY GoodParts, Zenon
<1>2. Table(M, S)
  BY Zenon DEF Good
<1>3. m \in 1..Len(M)
  BY Zenon, LiveIsMacro
<1>4. /\ Table(M1, S) /\ Len(M1) = Len(M) /\ M1[m].expansionCount = M[m].expansionCount + 1
      /\ \A k \in 1..Len(M) : k # m => M1[k].expansionCount = M[k].expansionCount
      /\ Dis(M1) = Dis(M)
  <2>1. 1 \in Int
    OBVIOUS
  <2>2. Recount(M, M1, S, m, 1)
    BY <1>2, <1>3, <2>1, CountMacro, Zenon
  <2> QED BY Zenon, <2>2 DEF Recount
<1>6. /\ Table(M2, S) /\ Len(M2) = Len(M)
      /\ \A k \in 1..Len(M) : M2[k].expansionCount = M1[k].expansionCount
      /\ Dis(M2) = Dis(M) \cup {m}
  <2>1. m \in 1..Len(M1)
    BY Zenon, <1>3, <1>4
  <2>2. Remark(M1, M2, S, Dis(M1) \cup {m})
    BY <1>4, <2>1, MarkMacro, Zenon
  <2> QED BY Zenon, <2>2, <1>4 DEF Remark
<1>7. Held(f) = In(e) \cup {m} /\ Held(e) = In(e)
  BY Zenon DEF Held
<1>8. Balanced(e, f, M, M2)
  <2>1. More(e, f, m)
    BY Zenon, <1>1, <1>7 DEF More
  <2>a. \A k \in 1..Len(M) : k # m => Alike(e, f, k)
    BY Zenon, <1>1, <1>7 DEF Alike
  <2>2. Follows(e, f, M, M2, m, 1) /\ 1 \in Int
    <3>1. TopUses(f, m) = TopUses(e, m) + 1
      BY <2>1 DEF More, TopUses
    <3>2. M2[m].expansionCount = M[m].expansionCount + 1
      BY <1>3, <1>4, <1>6, Zenon
    <3>3. 1 \in Int
      OBVIOUS
    <3> QED BY <1>4, <1>6, <2>a, <3>1, <3>2, <3>3, Zenon DEF Follows
  <2> QED BY <1>1, <1>3, <2>2, Balance, Zenon
<1>9. TopStep(e, f, M, M2, S, c, c)
  <2>1. Held(f) \subseteq Dis(M2) /\ In(f) \subseteq Live(M, S) /\ Iv(f) \subseteq Live(M, S)
    BY Zenon, <1>1, <1>3, <1>6, <1>7
  <2>2. In(f) \cap Re(f) = {} /\ Iv(f) \cap Held(f) = {}
    BY Zenon
  <2>3. \A k : k \in Held(f) \/ k \in Iv(f) => k \in Held(e) \/ k \in Iv(e) \/ k \notin Dis(M)
    BY Zenon, <1>7
  <2>4. \A k \in Dis(M) : k \in Dis(M2) \/ k \in Held(e)
    BY Zenon, <1>6, <1>7
  <2>5. c => \A k \in Dis(M2) : k \in Held(f) \/ (k \in Dis(M) /\ k \notin Held(e))
    BY Zenon, <1>6, <1>7
  <2> QED BY <1>6, <1>8, <2>1, <2>2, <2>3, <2>4, <2>5, Zenon DEF TopStep, Balanced
<1>10. Table(M2, S)
  BY <1>6, Zenon
<1>11. GoodStep(B, e, f, M, M2, S, c, c)
  BY <1>9, <1>10, Zenon DEF GoodStep
<1> QED
  BY <1>11, GoodTop, Zenon

\* f is e once it invokes m.
Invokes(e, f, m) ==
  /\ Iv(e) = {} /\ Local(f) /\ f.kind = e.kind
  /\ In(f) = In(e) /\ Re(f) = Re(e) /\ Iv(f) = {m}

\* lex() counts a function-like macro and looks for its arguments.
LEMMA BeginGood ==
  ASSUME Laws, NEW B \in Seq(Frame), NEW e \in Frame, NEW M, NEW S, NEW c \in BOOLEAN,
         Good(Append(B, e), M, S, c), NEW m \in Live(M, S), m \notin Dis(M),
         NEW f, Invokes(e, f, m), NEW M2, Counts(M, m, 1, M2)
  PROVE  Good(Append(B, f), M2, S, c)
<1>0. /\ Iv(e) = {} /\ Local(f) /\ f.kind = e.kind
      /\ In(f) = In(e) /\ Re(f) = Re(e) /\ Iv(f) = {m}
  BY Zenon DEF Invokes
<1> USE <1>0
<1>1. /\ Held(e) \subseteq Dis(M) /\ In(e) \subseteq Live(M, S) /\ M \in Seq(Macro) /\ In(e) \cap Re(e) = {}
  BY GoodParts, Zenon
<1>2. Table(M, S)
  BY Zenon DEF Good
<1>3. m \in 1..Len(M)
  BY Zenon, LiveIsMacro
<1>4. /\ Table(M2, S) /\ Len(M2) = Len(M) /\ M2[m].expansionCount = M[m].expansionCount + 1
      /\ \A k \in 1..Len(M) : k # m => M2[k].expansionCount = M[k].expansionCount
      /\ Dis(M2) = Dis(M)
  <2>1. 1 \in Int
    OBVIOUS
  <2>2. Recount(M, M2, S, m, 1)
    BY <1>2, <1>3, <2>1, CountMacro, Zenon
  <2> QED BY Zenon, <2>2 DEF Recount
<1>7. Held(f) = Held(e)
  BY Zenon DEF Held
<1>8. Balanced(e, f, M, M2)
  <2>1. More(e, f, m)
    BY Zenon DEF More
  <2>a. \A k \in 1..Len(M) : k # m => Alike(e, f, k)
    BY Zenon DEF Alike
  <2>2. Follows(e, f, M, M2, m, 1) /\ 1 \in Int
    <3>1. TopUses(f, m) = TopUses(e, m) + 1
      BY <2>1 DEF More, TopUses
    <3>2. 1 \in Int
      OBVIOUS
    <3> QED BY <1>4, <2>a, <3>1, <3>2, Zenon DEF Follows
  <2> QED BY <1>1, <1>3, <2>2, Balance, Zenon
<1>9. TopStep(e, f, M, M2, S, c, c)
  <2>1. Held(f) \subseteq Dis(M2) /\ In(f) \subseteq Live(M, S) /\ Iv(f) \subseteq Live(M, S)
    BY Zenon, <1>1, <1>3, <1>4, <1>7
  <2>2. In(f) \cap Re(f) = {} /\ Iv(f) \cap Held(f) = {}
    BY Zenon, <1>1, <1>7
  <2>3. \A k : k \in Held(f) \/ k \in Iv(f) => k \in Held(e) \/ k \in Iv(e) \/ k \notin Dis(M)
    BY Zenon, <1>7
  <2>4. \A k \in Dis(M) : k \in Dis(M2) \/ k \in Held(e)
    BY Zenon, <1>4
  <2>5. c => \A k \in Dis(M2) : k \in Held(f) \/ (k \in Dis(M) /\ k \notin Held(e))
    BY Zenon, <1>4, <1>7
  <2> QED BY <1>4, <1>8, <2>1, <2>2, <2>3, <2>4, <2>5, Zenon DEF TopStep, Balanced
<1>10. Table(M2, S)
  BY <1>4, Zenon
<1>11. GoodStep(B, e, f, M, M2, S, c, c)
  BY <1>9, <1>10, Zenon DEF GoodStep
<1> QED
  BY <1>11, GoodTop, Zenon

\* No '(' follows: the invocation is taken back.
LEMMA EndGood ==
  ASSUME Laws, NEW B \in Seq(Frame), NEW e \in Frame, NEW M, NEW S, NEW c \in BOOLEAN,
         Good(Append(B, e), M, S, c), NEW m, Iv(e) = {m},
         NEW f, Local(f), f.kind = e.kind, In(f) = In(e), Re(f) = Re(e), Iv(f) = {},
         NEW M2, Counts(M, m, -1, M2)
  PROVE  Good(Append(B, f), M2, S, c)
<1>1. /\ Held(e) \subseteq Dis(M) /\ In(e) \subseteq Live(M, S) /\ M \in Seq(Macro) /\ In(e) \cap Re(e) = {}
      /\ Iv(e) \subseteq Live(M, S)
  BY GoodParts, Zenon
<1>2. Table(M, S)
  BY Zenon DEF Good
<1>3. m \in 1..Len(M)
  BY Zenon, <1>1, LiveIsMacro
<1>4. /\ Table(M2, S) /\ Len(M2) = Len(M) /\ M2[m].expansionCount = M[m].expansionCount + (-1)
      /\ \A k \in 1..Len(M) : k # m => M2[k].expansionCount = M[k].expansionCount
      /\ Dis(M2) = Dis(M)
  <2>1. -1 \in Int
    OBVIOUS
  <2>2. Recount(M, M2, S, m, -1)
    BY <1>2, <1>3, <2>1, CountMacro, Zenon
  <2> QED BY Zenon, <2>2 DEF Recount
<1>7. Held(f) = Held(e)
  BY Zenon DEF Held
<1>8. Balanced(e, f, M, M2)
  <2>1. More(f, e, m)
    BY Zenon DEF More
  <2>a. \A k \in 1..Len(M) : k # m => Alike(e, f, k)
    BY Zenon DEF Alike
  <2>2. Follows(e, f, M, M2, m, -1) /\ -1 \in Int
    <3>1. TopUses(f, m) = TopUses(e, m) + (-1)
      BY <2>1 DEF More, TopUses
    <3>2. -1 \in Int
      OBVIOUS
    <3> QED BY <1>4, <2>a, <3>1, <3>2, Zenon DEF Follows
  <2> QED BY <1>1, <1>3, <2>2, Balance, Zenon
<1>9. TopStep(e, f, M, M2, S, c, c)
  <2>1. Held(f) \subseteq Dis(M2) /\ In(f) \subseteq Live(M, S) /\ Iv(f) \subseteq Live(M, S)
    BY Zenon, <1>1, <1>4, <1>7
  <2>2. In(f) \cap Re(f) = {} /\ Iv(f) \cap Held(f) = {}
    BY Zenon, <1>1
  <2>3. \A k : k \in Held(f) \/ k \in Iv(f) => k \in Held(e) \/ k \in Iv(e) \/ k \notin Dis(M)
    BY Zenon, <1>7
  <2>4. \A k \in Dis(M) : k \in Dis(M2) \/ k \in Held(e)
    BY Zenon, <1>4
  <2>5. c => \A k \in Dis(M2) : k \in Held(f) \/ (k \in Dis(M) /\ k \notin Held(e))
    BY Zenon, <1>4, <1>7
  <2> QED BY <1>4, <1>8, <2>1, <2>2, <2>3, <2>4, <2>5, Zenon DEF TopStep, Balanced
<1>10. Table(M2, S)
  BY <1>4, Zenon
<1>11. GoodStep(B, e, f, M, M2, S, c, c)
  BY <1>9, <1>10, Zenon DEF GoodStep
<1> QED
  BY <1>11, GoodTop, Zenon

\* popMacro() on the table: y is mDeferReenablingMacros.
Popped(M, m, y, M2) == M2 = [M EXCEPT ![m].expansionCount = @ - 1, ![m].disabled = y]

\* The table after that.
PoppedTable(M, M2, S, m, y) ==
  /\ Table(M2, S) /\ Len(M2) = Len(M)
  /\ M2[m].expansionCount = M[m].expansionCount + (-1)
  /\ \A k \in 1..Len(M) : k # m => M2[k].expansionCount = M[k].expansionCount
  /\ \A k : k # m => (k \in Dis(M2) <=> k \in Dis(M))
  /\ m \in Dis(M2) <=> y

\* popMacro() counts one macro down and sets its mark to y.
LEMMA PopTable ==
  ASSUME NEW M, NEW S, Table(M, S), NEW m \in 1..Len(M), NEW y \in BOOLEAN, NEW M2, Popped(M, m, y, M2)
  PROVE  PoppedTable(M, M2, S, m, y)
<1> DEFINE z == M[m].expansionCount - 1
           r == [M[m] EXCEPT !.expansionCount = z]
           M1 == [M EXCEPT ![m] = r]
           r2 == [M1[m] EXCEPT !.disabled = y]
<1>1. M[m] \in Macro
  BY DEF Table
<1>2. z \in Int /\ z = M[m].expansionCount + (-1)
  BY <1>1 DEF Macro
<1>3. M2 = [M1 EXCEPT ![m] = r2]
  BY Zenon DEF Popped
<1> HIDE DEF z
<1>4. r \in Macro /\ r.name = M[m].name /\ r.expansionCount = z
  BY Zenon, <1>1, <1>2 DEF Macro
<1> HIDE DEF r
<1>5. Put(M, m, r, M1)
  BY Zenon DEF Put
<1> HIDE DEF M1
<1>6. /\ Table(M1, S) /\ Len(M1) = Len(M) /\ M1[m] = r
      /\ \A k \in 1..Len(M) : k # m => M1[k] = M[k]
  BY <1>4, <1>5, SetMacro
<1>7. r2 \in Macro /\ r2.name = M1[m].name /\ r2.expansionCount = z /\ r2.disabled = y
  BY Zenon, <1>4, <1>6 DEF Macro
<1>8. Put(M1, m, r2, M2) /\ m \in 1..Len(M1)
  BY <1>3, <1>6, Zenon DEF Put
<1> HIDE DEF r2
<1>9. /\ Table(M2, S) /\ Len(M2) = Len(M1) /\ M2[m] = r2
      /\ \A k \in 1..Len(M1) : k # m => M2[k] = M1[k]
  BY <1>6, <1>7, <1>8, SetMacro
<1>10. (\A k : k # m => (k \in Dis(M2) <=> k \in Dis(M))) /\ (m \in Dis(M2) <=> y)
  BY Zenon, <1>6, <1>7, <1>9 DEF Dis
<1> QED
  BY Zenon, <1>2, <1>6, <1>7, <1>9, <1>10 DEF PoppedTable

\* popMacro() in the frame on top: the macro leaves its contexts.
PoppedFrame(e, f, m, y) ==
  /\ m \in In(e) /\ Local(f) /\ f.kind = e.kind /\ In(f) = In(e) \ {m} /\ Iv(f) = Iv(e)
  /\ y => Re(f) = Re(e) \cup {m}
  /\ ~y => Re(f) = Re(e)

\* popMacro() keeps the state good: the macro leaves the contexts and is enabled,
\* or is held for re-enabling.
LEMMA PopGood ==
  ASSUME Laws, NEW B \in Seq(Frame), NEW e \in Frame, NEW M, NEW S, NEW c \in BOOLEAN,
         Good(Append(B, e), M, S, c), NEW m, NEW y \in BOOLEAN,
         NEW f, PoppedFrame(e, f, m, y), NEW M2, Popped(M, m, y, M2)
  PROVE  Good(Append(B, f), M2, S, c)
<1>0. /\ m \in In(e) /\ Local(f) /\ f.kind = e.kind /\ In(f) = In(e) \ {m} /\ Iv(f) = Iv(e)
      /\ y => Re(f) = Re(e) \cup {m}
      /\ ~y => Re(f) = Re(e)
  BY Zenon DEF PoppedFrame
<1> USE <1>0
<1>1. /\ Held(e) \subseteq Dis(M) /\ In(e) \subseteq Live(M, S) /\ M \in Seq(Macro) /\ In(e) \cap Re(e) = {}
      /\ Iv(e) \subseteq Live(M, S) /\ Iv(e) \cap Held(e) = {}
  BY GoodParts, Zenon
<1>2. Table(M, S)
  BY Zenon DEF Good
<1>3. m \in 1..Len(M) /\ m \in Dis(M)
  <2>1. m \in Live(M, S)
    BY Zenon, <1>1
  <2>2. m \in Held(e)
    BY Zenon DEF Held
  <2> QED BY Zenon, <1>1, <2>1, <2>2, LiveIsMacro
<1>4. /\ Table(M2, S) /\ Len(M2) = Len(M)
      /\ M2[m].expansionCount = M[m].expansionCount + (-1)
      /\ \A k \in 1..Len(M) : k # m => M2[k].expansionCount = M[k].expansionCount
      /\ \A k : k # m => (k \in Dis(M2) <=> k \in Dis(M))
      /\ m \in Dis(M2) <=> y
  <2>1. PoppedTable(M, M2, S, m, y)
    BY Zenon, <1>2, <1>3, PopTable
  <2> QED BY Zenon, <2>1 DEF PoppedTable
<1>7. /\ Held(e) = In(e) \cup Re(e)
      /\ y => Held(f) = Held(e)
      /\ ~y => Held(f) = Held(e) \ {m}
  BY Zenon, <1>1 DEF Held
<1>8. Balanced(e, f, M, M2)
  <2>1. More(f, e, m)
    BY Zenon DEF More
  <2>a. \A k \in 1..Len(M) : k # m => Alike(e, f, k)
    BY Zenon DEF Alike
  <2>2. Follows(e, f, M, M2, m, -1) /\ -1 \in Int
    <3>1. TopUses(f, m) = TopUses(e, m) + (-1)
      BY <2>1 DEF More, TopUses
    <3>2. -1 \in Int
      OBVIOUS
    <3> QED BY <1>4, <2>a, <3>1, <3>2, Zenon DEF Follows
  <2> QED BY <1>1, <1>3, <2>2, Balance, Zenon
<1>9. TopStep(e, f, M, M2, S, c, c)
  <2>1. Held(f) \subseteq Dis(M2) /\ In(f) \subseteq Live(M, S) /\ Iv(f) \subseteq Live(M, S)
    BY Zenon, <1>1, <1>4, <1>7
  <2>2. In(f) \cap Re(f) = {} /\ Iv(f) \cap Held(f) = {}
    BY Zenon, <1>1, <1>7
  <2>3. \A k : k \in Held(f) \/ k \in Iv(f) => k \in Held(e) \/ k \in Iv(e) \/ k \notin Dis(M)
    BY Zenon, <1>7
  <2>4. \A k \in Dis(M) : k \in Dis(M2) \/ k \in Held(e)
    BY Zenon, <1>4, <1>7
  <2>5. c => \A k \in Dis(M2) : k \in Held(f) \/ (k \in Dis(M) /\ k \notin Held(e))
    BY Zenon, <1>4, <1>7
  <2> QED BY <1>4, <1>8, <2>1, <2>2, <2>3, <2>4, <2>5, Zenon DEF TopStep, Balanced
<1>10. Table(M2, S)
  BY <1>4, Zenon
<1>11. GoodStep(B, e, f, M, M2, S, c, c)
  BY <1>9, <1>10, Zenon DEF GoodStep
<1> QED
  BY <1>11, GoodTop, Zenon

\* A new macro joins the table and the set.
Defined(M, S, d, M2, S2) ==
  /\ d.name \notin DOMAIN S /\ M2 = Append(M, NewMacro(d))
  /\ S2 = [n \in DOMAIN S \cup {d.name} |-> IF n = d.name THEN Len(M) + 1 ELSE S[n]]

\* #define adds a macro that nobody uses.
LEMMA DefineGood ==
  ASSUME Laws, NEW F, NEW M, NEW S, NEW c \in BOOLEAN, Good(F, M, S, c),
         NEW d \in Definition, NEW M2, NEW S2, Defined(M, S, d, M2, S2)
  PROVE  Good(F, M2, S2, c)
<1>1. /\ Stack(F) /\ M \in Seq(Macro) /\ Table(M, S) /\ Kept(F, M, S, c) /\ F \in Seq(Frame)
      /\ \A n \in DOMAIN S : S[n] \in 1..Len(M) /\ M[S[n]].name = n
  BY Zenon DEF Good, Table, Stack
<1>2. /\ NewMacro(d) \in Macro /\ NewMacro(d).name = d.name /\ NewMacro(d).disabled = FALSE
      /\ NewMacro(d).expansionCount = 0
  BY Zenon, NewMacroFacts
<1> DEFINE k == Len(M)
<1>3. /\ k \in Nat /\ M2 \in Seq(Macro) /\ Len(M2) = k + 1 /\ M2[k + 1] = NewMacro(d)
      /\ \A i \in 1..k : M2[i] = M[i]
  <2>1. M2 = Append(M, NewMacro(d))
    BY Zenon DEF Defined
  <2>2. M \in Seq(Macro) /\ NewMacro(d) \in Macro
    BY Zenon, <1>1, <1>2
  <2>3. Added(M, Append(M, NewMacro(d)), NewMacro(d))
    BY Zenon, <2>2, AddMacro
  <2>4. Added(M, M2, NewMacro(d))
    BY Zenon, <2>1, <2>3
  <2> QED BY Zenon, <2>4 DEF Added
<1>4. (\A i \in 1..(k + 1) : i = k + 1 \/ i \in 1..k) /\ (\A i \in 1..k : i \in 1..(k + 1) /\ i # k + 1) /\ k + 1 \in 1..(k + 1)
  BY <1>3
<1> HIDE DEF k
<1>5. DOMAIN S2 = DOMAIN S \cup {d.name} /\ S2[d.name] = k + 1 /\ \A n \in DOMAIN S : S2[n] = S[n]
  BY Zenon DEF k, Defined
<1>6. Table(M2, S2)
  <2>1. ASSUME NEW n \in DOMAIN S2 PROVE S2[n] \in 1..(k + 1) /\ M2[S2[n]].name = n
    <3>1. CASE n = d.name
      BY Zenon, <1>2, <1>3, <1>4, <1>5, <3>1
    <3>2. CASE n # d.name
      <4>1. n \in DOMAIN S
        BY <1>5, <3>2, Zenon
      <4>2. S2[n] = S[n] /\ S[n] \in 1..k /\ M[S[n]].name = n
        BY <4>1, <1>1, <1>5, Zenon DEF k
      <4> QED BY Zenon, <4>2, <1>3, <1>4
    <3> QED BY Zenon, <3>1, <3>2
  <2> QED BY Zenon, <1>3, <2>1 DEF Table
<1>7. Dis(M2) = Dis(M)
  BY Zenon, <1>2, <1>3, <1>4 DEF Dis, k
<1>8. Live(M, S) \subseteq Live(M2, S2) /\ k + 1 \notin Live(M, S)
  <2>1. ASSUME NEW m \in Live(M, S) PROVE m \in Live(M2, S2)
    <3>1. m \in 1..k /\ \E n \in DOMAIN S : S[n] = m
      BY Zenon DEF Live, k
    <3>2. \E n \in DOMAIN S2 : S2[n] = m
      BY <3>1, <1>5, Zenon
    <3> QED BY Zenon, <3>1, <3>2, <1>3, <1>4 DEF Live
  <2>2. k + 1 \notin Live(M, S)
    BY <1>3 DEF Live, k
  <2> QED BY Zenon, <2>1, <2>2
<1>9. Separate(F, Dis(M), Live(M, S)) /\ Counted(F, M, c) /\ (c => Covered(F, Dis(M)))
  BY <1>1, Zenon DEF Kept
<1>10. Separate(F, Dis(M2), Live(M2, S2))
  BY Zenon, <1>7, <1>8, <1>9 DEF Separate
<1>11. Counted(F, M2, c)
  <2>1. ASSUME NEW m \in 1..(k + 1)
        PROVE  M2[m].expansionCount >= Uses(F, m) /\ (c => M2[m].expansionCount = Uses(F, m))
    <3>1. CASE m = k + 1
      <4>1. \A i \in 1..Len(F) : m \notin In(F[i]) /\ m \notin Iv(F[i])
        BY Zenon, <1>8, <1>9, <3>1 DEF Separate
      <4>2. Uses(F, m) \in Nat /\ Uses(F, m) <= 0
        BY Zenon, <4>1, <1>1, UsesFacts
      <4>3. M2[m].expansionCount = 0
        BY Zenon, <1>2, <1>3, <3>1
      <4> QED BY <4>2, <4>3
    <3>2. CASE m # k + 1
      <4>1. m \in 1..k /\ M2[m] = M[m]
        BY <1>3, <1>4, <3>2, Zenon
      <4> QED BY Zenon, <4>1, <1>9 DEF Counted, k
    <3> QED BY Zenon, <3>1, <3>2
  <2> QED BY Zenon, <1>3, <2>1 DEF Counted
<1> QED
  BY <1>1, <1>6, <1>7, <1>9, <1>10, <1>11, Zenon DEF Good, Kept

\* A macro with nothing counted leaves the set.
LEMMA UndefGood ==
  ASSUME Laws, NEW F, NEW M, NEW S, NEW c \in BOOLEAN, Good(F, M, S, c),
         NEW name \in DOMAIN S, ~(M[S[name]].expansionCount > 0),
         NEW S2, S2 = [n \in DOMAIN S \ {name} |-> S[n]]
  PROVE  Good(F, M, S2, c)
<1>1. /\ Stack(F) /\ M \in Seq(Macro) /\ Table(M, S) /\ Kept(F, M, S, c) /\ F \in Seq(Frame)
      /\ \A n \in DOMAIN S : S[n] \in 1..Len(M) /\ M[S[n]].name = n
  BY Zenon DEF Good, Table, Stack
<1> DEFINE m == S[name]
<1>2. m \in 1..Len(M)
  BY Zenon, <1>1
<1>3. DOMAIN S2 = DOMAIN S \ {name} /\ \A n \in DOMAIN S : n # name => n \in DOMAIN S2 /\ S2[n] = S[n]
  BY Zenon
<1>4. Table(M, S2)
  BY <1>1, <1>3, Zenon DEF Table
<1>5. Separate(F, Dis(M), Live(M, S)) /\ Counted(F, M, c) /\ (c => Covered(F, Dis(M)))
  BY <1>1, Zenon DEF Kept
<1>6. \A i \in 1..Len(F) : m \notin In(F[i]) /\ m \notin Iv(F[i])
  <2>1. M[m].expansionCount \in Int /\ M[m].expansionCount >= Uses(F, m) /\ ~(M[m].expansionCount > 0)
    BY <1>1, <1>2, <1>5, MacroFacts, Zenon DEF Counted
  <2>2. Uses(F, m) \in Nat
    BY Zenon, <1>1, UsesFacts
  <2>3. Uses(F, m) <= 0
    BY <2>1, <2>2
  <2> QED BY Zenon, <1>1, <2>3, UsesFacts
<1>7. \A k \in Live(M, S) : k # m => k \in Live(M, S2)
  BY <1>3, Zenon DEF Live
<1> HIDE DEF m
<1>8. Separate(F, Dis(M), Live(M, S2))
  BY Zenon, <1>5, <1>6, <1>7 DEF Separate
<1> QED
  BY <1>1, <1>4, <1>5, <1>8, Zenon DEF Good, Kept
=============================================================================
