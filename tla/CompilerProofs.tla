--------------------------- MODULE CompilerProofs ---------------------------
(***************************************************************************)
(* For every set of names and signatures, every nesting and any number of  *)
(* compilations, in WebGL or not: compilations are independent of each     *)
(* other, the parser's context is the lexical one, and duplicates are      *)
(* rejected (the properties of Compiler).                                  *)
(*                                                                         *)
(* The argument counts the levels of the table (ScopeInv), then says which *)
(* level each scope of the language lives at (InLevel) and that the levels *)
(* hold exactly the declarations and the precision statements of their     *)
(* scopes (NameInv, PrecisionInv).                                         *)
(***************************************************************************)
EXTENDS Compiler, FiniteSetTheorems, TLAPS

Bit(b) == IF b THEN 1 ELSE 0

\* The symbols handed out when the last id is n, and what holds them.
SymbolUpTo(n) == [id : 0..n, isFunction : BOOLEAN]

Level(n) == [Key -> SymbolUpTo(n) \cup {NoSymbol}]

Header(n) == [sig : Signature, param : Name \cup {NoName}, id : 1..n]

\* The number of levels follows from what is being parsed.
ScopeInv ==
    /\ mUniqueIdCounter \in Nat
    /\ mTable \in Seq(Level(mUniqueIdCounter))
    /\ mPrecisionStack \in Seq(Precision \cup {NoPrecision})
    /\ Len(mPrecisionStack) = Len(mTable) + 1
    /\ mPrecisionStack[1] = BuiltInPrecision
    /\ mFunctionBodyNewScope \in BOOLEAN
    /\ parsing \in BOOLEAN
    /\ mDeclaringFunction \in Header(mUniqueIdCounter) \cup {NoFunction}
    /\ ~ AtDeclaration /\ mDeclaringFunction.param # NoName
           => mDeclaringFunction.id < mUniqueIdCounter
    /\ open \in Seq(Construct)
    /\ open # <<>> => open[1] = "function"
    /\ open = <<>> => ~ mFunctionBodyNewScope
    /\ parsing => /\ Len(mTable) = 1 + Len(open) + Bit(mFunctionBodyNewScope)
                                     + Bit(~ AtDeclaration)
                  /\ mVariableMetadata \subseteq 0..mUniqueIdCounter
                  /\ ~ mVariablesCollected
    /\ ~ parsing => mTable = <<>> /\ AtDeclaration /\ open = <<>>

\* Level i of the table holds scope s of the language.
InLevel(s, i, new) ==
    \/ s = 0 /\ i = 1
    \/ s = 2 /\ i = 2
    \/ s > 2 /\ s = 2 * (i - 1 - Bit(new)) + 1

\* The levels of table t hold exactly the declarations D, none further in than
\* scope top.
Names(D, t, new, n, top) ==
    /\ \A d \in D :
          /\ d \in [name : Name, scope : Nat, symbol : SymbolUpTo(n)]
          /\ d.scope <= top
          /\ \E i \in 1..Len(t) : InLevel(d.scope, i, new) /\ t[i][d.name] = d.symbol
    /\ \A i \in 1..Len(t), name \in Name :
          t[i][name] # NoSymbol => \E d \in D : d.name = name /\ InLevel(d.scope, i, new)

\* The table holds the declarations in scope, and a header's level is empty.
NameInv ==
    /\ Names(decls, mTable, mFunctionBodyNewScope, mUniqueIdCounter, Scope)
    /\ ~ AtDeclaration => \A name \in Name : mTable[Len(mTable)][name] = NoSymbol
    /\ ~ parsing => decls = {}
    /\ open # <<>> => (mFunctionBodyNewScope <=> IsSpecWithFunctionBodyNewScope)

\* The levels of stack q above the built-in one hold exactly the precision
\* statements P, none further in than scope top.
Stated(P, q, new, top) ==
    /\ \A p \in P :
          /\ p \in [scope : Nat, prec : Precision]
          /\ p.scope # 2 /\ p.scope <= top
          /\ \E i \in 1..(Len(q) - 1) : InLevel(p.scope, i, new) /\ q[i + 1] = p.prec
    /\ \A i \in 1..(Len(q) - 1) :
          q[i + 1] # NoPrecision => \E p \in P : InLevel(p.scope, i, new)

\* The stack holds the precision statements in scope, and a header's level none.
PrecisionInv ==
    /\ Stated(precisions, mPrecisionStack, mFunctionBodyNewScope, Scope)
    /\ ~ AtDeclaration => mPrecisionStack[Len(mPrecisionStack)] = NoPrecision
    /\ ~ parsing => precisions = {}

\* The nesting counters count the constructs around the statement.
NestingInv ==
    /\ mLoopNestingLevel = Opened("loop")
    /\ mSwitchNestingLevel = Opened("switch")

\* DuplicatesRejected, and no clash between compilations.
ClashInv ==
    /\ clash \in BOOLEAN
    /\ DuplicatesRejected
    /\ ~ parsing => ~ clash

-----------------------------------------------------------------------------
(* Helpers                                                                 *)

\* A sequence with an element more (push).
LEMMA PushFacts ==
  ASSUME NEW S, NEW s \in Seq(S), NEW e \in S
  PROVE  /\ Append(s, e) \in Seq(S) /\ Len(Append(s, e)) = Len(s) + 1
         /\ \A i \in 1..Len(s) : Append(s, e)[i] = s[i]
         /\ Append(s, e)[Len(s) + 1] = e
OBVIOUS

\* A level that sets no precision yet.
LEMMA PushPrecisionFacts ==
  ASSUME NEW s \in Seq(Precision \cup {NoPrecision})
  PROVE  /\ pushPrecision(s) \in Seq(Precision \cup {NoPrecision})
         /\ Len(pushPrecision(s)) = Len(s) + 1
         /\ \A i \in 1..Len(s) : pushPrecision(s)[i] = s[i]
         /\ pushPrecision(s)[Len(s) + 1] = NoPrecision
BY DEF pushPrecision

\* The first n elements of a sequence (pop).
LEMMA PrefixFacts ==
  ASSUME NEW S, NEW s \in Seq(S), NEW n \in 0..Len(s)
  PROVE  /\ SubSeq(s, 1, n) \in Seq(S) /\ Len(SubSeq(s, 1, n)) = n
         /\ \A i \in 1..n : SubSeq(s, 1, n)[i] = s[i]
OBVIOUS

\* Ids only grow: what was in range stays in range.
LEMMA LevelGrows ==
  ASSUME NEW m \in Nat, NEW n \in Nat, m <= n
  PROVE  /\ SymbolUpTo(m) \subseteq SymbolUpTo(n)
         /\ Seq(Level(m)) \subseteq Seq(Level(n))
<1>1. SymbolUpTo(m) \subseteq SymbolUpTo(n) BY DEF SymbolUpTo
<1>2. Level(m) \subseteq Level(n) BY <1>1 DEF Level
<1>3. ASSUME NEW s \in Seq(Level(m)) PROVE s \in Seq(Level(n)) BY <1>2
<1> QED BY <1>1, <1>3

\* An empty level is a level.
LEMMA EmptyLevelType ==
  ASSUME NEW n \in Nat
  PROVE  EmptyLevel \in Level(n)
BY DEF EmptyLevel, Level

\* Table u is t with y entered under k at level l, unless something was there.
Inserted(t, u, l, k, y) ==
    \A i \in 1..Len(t), j \in Key :
       u[i][j] = IF i = l /\ j = k /\ t[l][k] = NoSymbol THEN y ELSE t[i][j]

\* insertAt() changes one entry, and only when it was empty.
LEMMA InsertFacts ==
  ASSUME NEW n \in Nat, NEW t \in Seq(Level(n)), NEW l \in 1..Len(t), NEW k \in Key,
         NEW y \in SymbolUpTo(n)
  PROVE  /\ insertAt(t, l, k, y) \in Seq(Level(n))
         /\ Len(insertAt(t, l, k, y)) = Len(t)
         /\ Inserted(t, insertAt(t, l, k, y), l, k, y)
<1>1. t[l] \in [Key -> SymbolUpTo(n) \cup {NoSymbol}] BY DEF Level
<1>2. [t[l] EXCEPT ![k] = y] \in Level(n) BY <1>1 DEF Level
<1>3. \A j \in Key : [t[l] EXCEPT ![k] = y][j] = IF j = k THEN y ELSE t[l][j] BY <1>1
<1>4. CASE t[l][k] # NoSymbol BY <1>4 DEF insertAt, Inserted
<1>5. CASE t[l][k] = NoSymbol
  <2>1. insertAt(t, l, k, y) = [t EXCEPT ![l] = [t[l] EXCEPT ![k] = y]] BY <1>5 DEF insertAt
  <2> DEFINE e == [t[l] EXCEPT ![k] = y]
  <2>2. e \in Level(n) BY <1>2
  <2>3. \A j \in Key : e[j] = IF j = k THEN y ELSE t[l][j] BY <1>3
  <2> HIDE DEF e
  <2>4. /\ [t EXCEPT ![l] = e] \in Seq(Level(n)) /\ Len([t EXCEPT ![l] = e]) = Len(t)
        /\ \A i \in 1..Len(t) : [t EXCEPT ![l] = e][i] = IF i = l THEN e ELSE t[i]
    BY <2>2
  <2>5. insertAt(t, l, k, y) = [t EXCEPT ![l] = e] BY <2>1 DEF e
  <2> QED BY <2>3, <2>4, <2>5, <1>5 DEF Inserted
<1> QED BY <1>4, <1>5

\* The same without the entries.
LEMMA InsertType ==
  ASSUME NEW n \in Nat, NEW t \in Seq(Level(n)), NEW l \in 1..Len(t), NEW k \in Key,
         NEW y \in SymbolUpTo(n)
  PROVE  insertAt(t, l, k, y) \in Seq(Level(n)) /\ Len(insertAt(t, l, k, y)) = Len(t)
BY InsertFacts

\* The topmost of some levels exists.
LEMMA TopmostFacts ==
  ASSUME NEW n \in Nat, NEW S \in SUBSET (1..n), S # {}
  PROVE  Topmost(S) \in S /\ \A j \in S : j <= Topmost(S)
<1> DEFINE T == {n - i : i \in S}
<1>1. T \subseteq Nat /\ T # {}
  <2>1. \A i \in S : n - i \in Nat OBVIOUS
  <2>2. PICK i \in S : TRUE BY Zenon
  <2>3. n - i \in T BY <2>2
  <2> QED BY <2>1, <2>3
<1>2. PICK m \in T : \A k \in T : m <= k
  <2> HIDE DEF T
  <2>1. PICK m \in T : \A k \in T : <<k, m>> \notin OpToRel(<, Nat)
    BY Zenon, <1>1, NatLessThanWellFounded, WFMin
  <2>2. \A k \in T : ~(k < m) BY Zenon, <1>1, <2>1 DEF OpToRel
  <2> QED BY <1>1, <2>2
<1>3. PICK i \in S : m = n - i OBVIOUS
<1>4. \A j \in S : j <= i
  <2> TAKE j \in S
  <2>1. n - j \in T OBVIOUS
  <2> QED BY <2>1, <1>2, <1>3
<1> QED BY Zenon, <1>4 DEF Topmost

\* What findUserDefined() finds is a symbol of the table.
LEMMA FindType ==
  ASSUME NEW n \in Nat, NEW t \in Seq(Level(n)), NEW k \in Key
  PROVE  findUserDefined(t, k) \in SymbolUpTo(n) \cup {NoSymbol}
<1> DEFINE S == {i \in 1..Len(t) : t[i][k] # NoSymbol}
<1>1. findUserDefined(t, k) = IF S = {} THEN NoSymbol ELSE t[Topmost(S)][k]
  BY DEF findUserDefined
<1>2. S # {} => Topmost(S) \in 1..Len(t)
  <2>1. Len(t) \in Nat /\ S \in SUBSET (1..Len(t)) OBVIOUS
  <2> HIDE DEF S
  <2> QED BY Zenon, <2>1, TopmostFacts
<1>3. \A i \in 1..Len(t) : t[i][k] \in SymbolUpTo(n) \cup {NoSymbol} BY DEF Level
<1> QED BY <1>1, <1>2, <1>3

\* A header being parsed is a record, never the mark of its absence.
LEMMA HeaderFacts ==
  ASSUME ScopeInv, ~ AtDeclaration
  PROVE  /\ mDeclaringFunction \in Header(mUniqueIdCounter)
         /\ mDeclaringFunction.sig \in Signature
         /\ mDeclaringFunction.sig \in Key
         /\ FunctionName \in Name /\ FunctionName \in Key
         /\ mDeclaringFunction.param \in Name \cup {NoName}
         /\ mDeclaringFunction.id \in 1..mUniqueIdCounter
         /\ Function \in SymbolUpTo(mUniqueIdCounter)
<1>1. mDeclaringFunction \in Header(mUniqueIdCounter) BY DEF ScopeInv, AtDeclaration
<1> QED BY <1>1, SymbolAssumption DEF Header, FunctionName, Function, SymbolUpTo, Key, ScopeInv

\* The table with the function entered: one name of the global level may be new.
LEMMA WithFunctionFacts ==
  ASSUME ScopeInv, parsing, ~ AtDeclaration
  PROVE  /\ WithFunction(mTable) \in Seq(Level(mUniqueIdCounter))
         /\ Len(WithFunction(mTable)) = Len(mTable)
         /\ \A i \in 1..Len(mTable), name \in Name :
               WithFunction(mTable)[i][name] =
                  IF i = 1 /\ name = FunctionName
                       /\ findUserDefined(mTable, FunctionName) = NoSymbol
                       /\ mTable[1][name] = NoSymbol
                  THEN Function ELSE mTable[i][name]
<1> DEFINE n == mUniqueIdCounter
           unseen == findUserDefined(mTable, FunctionName) = NoSymbol
           named == IF unseen THEN insertAt(mTable, 1, FunctionName, Function) ELSE mTable
           sig == mDeclaringFunction.sig
<1>1. n \in Nat /\ mTable \in Seq(Level(n)) /\ 1 \in 1..Len(mTable)
  BY DEF ScopeInv, Bit
<1>2. sig \in Key /\ sig \notin Name /\ FunctionName \in Key /\ Function \in SymbolUpTo(n)
  BY HeaderFacts, SymbolAssumption DEF Key
<1>3. WithFunction(mTable) = insertAt(named, 1, sig, Function)
  BY DEF WithFunction, declareUserDefinedFunction, FunctionName
<1>4. /\ named \in Seq(Level(n)) /\ Len(named) = Len(mTable)
      /\ \A i \in 1..Len(mTable), j \in Key :
            named[i][j] = IF i = 1 /\ j = FunctionName /\ unseen /\ mTable[1][j] = NoSymbol
                          THEN Function ELSE mTable[i][j]
  <2>1. CASE unseen
    <3>1. named = insertAt(mTable, 1, FunctionName, Function) BY Zenon, <2>1
    <3> HIDE DEF n, unseen, named
    <3>2. /\ named \in Seq(Level(n)) /\ Len(named) = Len(mTable)
          /\ Inserted(mTable, named, 1, FunctionName, Function)
      BY <3>1, <1>1, <1>2, InsertFacts
    <3> QED BY <2>1, <3>2 DEF Inserted
  <2>2. CASE ~ unseen BY <2>2, <1>1
  <2> QED BY <2>1, <2>2
<1> HIDE DEF n, unseen, named, sig
<1>5. /\ insertAt(named, 1, sig, Function) \in Seq(Level(n))
      /\ Len(insertAt(named, 1, sig, Function)) = Len(mTable)
      /\ \A i \in 1..Len(mTable), j \in Key :
            insertAt(named, 1, sig, Function)[i][j] =
               IF i = 1 /\ j = sig /\ named[1][sig] = NoSymbol THEN Function ELSE named[i][j]
  BY <1>1, <1>2, <1>4, InsertFacts DEF Inserted
<1>6. \A i \in 1..Len(mTable), name \in Name :
         insertAt(named, 1, sig, Function)[i][name] = named[i][name]
  BY <1>2, <1>5 DEF Key
<1>7. \A i \in 1..Len(mTable), name \in Name :
         named[i][name] = IF i = 1 /\ name = FunctionName /\ unseen /\ mTable[1][name] = NoSymbol
                          THEN Function ELSE mTable[i][name]
  BY <1>4 DEF Key
<1> QED BY <1>3, <1>5, <1>6, <1>7 DEF n, unseen

-----------------------------------------------------------------------------
(* The levels of the table                                                 *)

\* The table is empty when the handle is made.
LEMMA ScopeInit == Init => ScopeInv
<1> SUFFICES ASSUME Init PROVE ScopeInv OBVIOUS
<1>1. mTable \in Seq(Level(0)) /\ open \in Seq(Construct) BY DEF Init
<1>2. BuiltInPrecision \in Precision \cup {NoPrecision} BY SymbolAssumption
<1>3. /\ mPrecisionStack \in Seq(Precision \cup {NoPrecision})
      /\ Len(mPrecisionStack) = 1 /\ mPrecisionStack[1] = BuiltInPrecision
  BY <1>2 DEF Init
<1>4. Len(mPrecisionStack) = Len(mTable) + 1 /\ 0 \in Nat BY <1>3 DEF Init
<1> QED BY Zenon, <1>1, <1>3, <1>4 DEF Init, ScopeInv, AtDeclaration

\* Every way out of compileTreeImpl closes the scopes that are open.
LEMMA ScopeLeave ==
  ASSUME ScopeInv, Leave, parsing
  PROVE  ScopeInv'
<1> DEFINE n == Len(mPrecisionStack) - Len(mTable)
<1>1. n = 1 /\ n \in 0..Len(mPrecisionStack)
  <2>1. Len(mTable) \in Nat /\ Len(mPrecisionStack) = Len(mTable) + 1 BY DEF ScopeInv
  <2> QED BY <2>1
<1>2. mPrecisionStack' = SubSeq(mPrecisionStack, 1, n) BY DEF Leave
<1> HIDE DEF n
<1>3. /\ mPrecisionStack' \in Seq(Precision \cup {NoPrecision})
      /\ Len(mPrecisionStack') = 1 /\ mPrecisionStack'[1] = BuiltInPrecision
  <2>1. mPrecisionStack \in Seq(Precision \cup {NoPrecision}) /\ 1 \in 1..n BY <1>1 DEF ScopeInv
  <2>2. /\ SubSeq(mPrecisionStack, 1, n) \in Seq(Precision \cup {NoPrecision})
        /\ Len(SubSeq(mPrecisionStack, 1, n)) = n
        /\ SubSeq(mPrecisionStack, 1, n)[1] = mPrecisionStack[1]
    BY <1>1, <2>1, PrefixFacts
  <2> QED BY <1>1, <1>2, <2>2 DEF ScopeInv
<1>4. mTable' = <<>> /\ open' = <<>> /\ mTable' \in Seq(Level(mUniqueIdCounter)')
  BY DEF Leave
<1>5. open' \in Seq(Construct) BY <1>4
<1>6. Len(mPrecisionStack') = Len(mTable') + 1 BY <1>3, <1>4
<1> QED BY Zenon, <1>3, <1>4, <1>5, <1>6 DEF Leave, ScopeInv, AtDeclaration

\* clearResults and the global scope.
LEMMA ScopeCompile ==
  ASSUME ScopeInv, NEW version, compile(version)
  PROVE  ScopeInv'
<1>1. mTable = <<>> /\ open = <<>> /\ mDeclaringFunction = NoFunction /\ ~ mFunctionBodyNewScope
  BY DEF compile, ScopeInv, AtDeclaration
<1>2. mTable' \in Seq(Level(0)) /\ Len(mTable') = 1
  <2>1. EmptyLevel \in Level(0) BY EmptyLevelType
  <2> QED BY <1>1, <2>1 DEF compile, pushTable
<1>3. /\ mPrecisionStack' \in Seq(Precision \cup {NoPrecision})
      /\ Len(mPrecisionStack') = 2 /\ mPrecisionStack'[1] = BuiltInPrecision
  <2>1. /\ mPrecisionStack \in Seq(Precision \cup {NoPrecision}) /\ Len(mPrecisionStack) = 1
        /\ mPrecisionStack[1] = BuiltInPrecision
    BY <1>1 DEF ScopeInv
  <2>2. 1 \in 1..Len(mPrecisionStack) /\ Len(mPrecisionStack) + 1 = 2 BY <2>1
  <2> QED BY Zenon, <2>1, <2>2, PushPrecisionFacts DEF compile
<1>4. UNCHANGED <<mDeclaringFunction, mFunctionBodyNewScope, open>>
  BY DEF compile, functionVars
<1>5. /\ Len(mPrecisionStack') = Len(mTable') + 1 /\ 0 \in Nat
      /\ Len(mTable') = 1 + Len(open') + Bit(mFunctionBodyNewScope') + Bit(~ AtDeclaration')
  BY <1>1, <1>2, <1>3, <1>4 DEF AtDeclaration, Bit
<1>6. open' \in Seq(Construct) /\ mFunctionBodyNewScope' \in BOOLEAN BY <1>4 DEF ScopeInv
<1> QED BY Zenon, <1>1, <1>2, <1>3, <1>4, <1>5, <1>6 DEF compile, ScopeInv, AtDeclaration

\* Each operation of the parser keeps the table in step with the constructs.
LEMMA ScopeParse ==
  ASSUME ScopeInv, parsing, Parse, UNCHANGED <<parsing, mVariablesCollected>>
  PROVE  ScopeInv'
<1> DEFINE n == mUniqueIdCounter
           P == Precision \cup {NoPrecision}
<1>0. /\ n \in Nat /\ mTable \in Seq(Level(n)) /\ mPrecisionStack \in Seq(P)
      /\ Len(mTable) \in Nat /\ Len(mTable) >= 1 /\ Len(open) \in Nat
      /\ Len(mPrecisionStack) = Len(mTable) + 1
      /\ EmptyLevel \in Level(n) /\ NoPrecision \in P
  BY EmptyLevelType DEF ScopeInv, Bit
<1>a. /\ pushTable(mTable) \in Seq(Level(n)) /\ Len(pushTable(mTable)) = Len(mTable) + 1
      /\ pushPrecision(mPrecisionStack) \in Seq(P)
      /\ Len(pushPrecision(mPrecisionStack)) = Len(mPrecisionStack) + 1
      /\ pushPrecision(mPrecisionStack)[1] = BuiltInPrecision
  <2>1. /\ Append(mTable, EmptyLevel) \in Seq(Level(n))
        /\ Len(Append(mTable, EmptyLevel)) = Len(mTable) + 1
    BY <1>0, PushFacts
  <2>2. /\ Append(mPrecisionStack, NoPrecision) \in Seq(P)
        /\ Len(Append(mPrecisionStack, NoPrecision)) = Len(mPrecisionStack) + 1
        /\ Append(mPrecisionStack, NoPrecision)[1] = mPrecisionStack[1]
    BY <1>0, PushFacts
  <2> QED BY <2>1, <2>2 DEF pushTable, pushPrecision, ScopeInv
<1>b. ASSUME NEW k \in 0..(Len(mTable) - 1)
      PROVE  /\ SubSeq(mTable, 1, Len(mTable) - k) \in Seq(Level(n))
             /\ Len(SubSeq(mTable, 1, Len(mTable) - k)) = Len(mTable) - k
             /\ SubSeq(mPrecisionStack, 1, Len(mPrecisionStack) - k) \in Seq(P)
             /\ Len(SubSeq(mPrecisionStack, 1, Len(mPrecisionStack) - k)) = Len(mTable) - k + 1
             /\ SubSeq(mPrecisionStack, 1, Len(mPrecisionStack) - k)[1] = BuiltInPrecision
  <2>1. /\ Len(mTable) - k \in 0..Len(mTable)
        /\ Len(mPrecisionStack) - k \in 0..Len(mPrecisionStack)
        /\ 1 \in 1..(Len(mPrecisionStack) - k)
    BY <1>0
  <2>2. /\ SubSeq(mTable, 1, Len(mTable) - k) \in Seq(Level(n))
        /\ Len(SubSeq(mTable, 1, Len(mTable) - k)) = Len(mTable) - k
    BY <1>0, <2>1, PrefixFacts
  <2>3. /\ SubSeq(mPrecisionStack, 1, Len(mPrecisionStack) - k) \in Seq(P)
        /\ Len(SubSeq(mPrecisionStack, 1, Len(mPrecisionStack) - k)) = Len(mPrecisionStack) - k
        /\ SubSeq(mPrecisionStack, 1, Len(mPrecisionStack) - k)[1] = mPrecisionStack[1]
    BY <1>0, <2>1, PrefixFacts
  <2>4. mPrecisionStack[1] = BuiltInPrecision BY DEF ScopeInv
  <2> QED BY <1>0, <2>2, <2>3, <2>4
<1>1. CASE \E name \in Name : declareVariable(name)
  <2> PICK name \in Name : declareVariable(name) BY <1>1
  <2> DEFINE y == [id |-> n + 1, isFunction |-> FALSE]
  <2>1. mUniqueIdCounter' = n + 1 /\ n + 1 \in Nat /\ n <= n + 1 BY <1>0 DEF declareVariable
  <2>2. mTable \in Seq(Level(n + 1)) BY <1>0, <2>1, LevelGrows
  <2>3. y \in SymbolUpTo(n + 1) /\ name \in Key /\ Len(mTable) \in 1..Len(mTable)
    BY <1>0 DEF SymbolUpTo, Key
  <2>4. mTable' = insertAt(mTable, Len(mTable), name, y) BY DEF declareVariable, declare
  <2> HIDE DEF y
  <2>5. mTable' \in Seq(Level(n + 1)) /\ Len(mTable') = Len(mTable)
    BY <2>1, <2>2, <2>3, <2>4, InsertFacts
  <2>6. mDeclaringFunction = NoFunction BY DEF declareVariable, AtDeclaration
  <2>7. UNCHANGED <<mPrecisionStack, mVariableMetadata, mDeclaringFunction, mFunctionBodyNewScope,
                    open>>
    BY DEF declareVariable, functionVars
  <2>8. mVariableMetadata' \subseteq 0..mUniqueIdCounter' BY <1>0, <2>1, <2>7 DEF ScopeInv
  <2> QED BY <2>1, <2>5, <2>6, <2>7, <2>8 DEF ScopeInv, AtDeclaration
<1>2. CASE \E prec \in Precision : parseDefaultPrecisionQualifier(prec)
  <2> PICK prec \in Precision : parseDefaultPrecisionQualifier(prec) BY <1>2
  <2>1. mPrecisionStack' = [mPrecisionStack EXCEPT ![Len(mPrecisionStack)] = prec]
    BY DEF parseDefaultPrecisionQualifier, setDefaultPrecision
  <2>2. /\ mPrecisionStack' \in Seq(P) /\ Len(mPrecisionStack') = Len(mPrecisionStack)
        /\ mPrecisionStack'[1] = mPrecisionStack[1]
    BY <1>0, <2>1
  <2>3. UNCHANGED <<mTable, mUniqueIdCounter, mVariableMetadata, mDeclaringFunction,
                    mFunctionBodyNewScope, open>>
    BY DEF parseDefaultPrecisionQualifier, contextVars
  <2> QED BY <2>2, <2>3 DEF ScopeInv, AtDeclaration
<1>3. CASE \E name \in Name, invariant \in BOOLEAN :
              parseGlobalQualifierDeclaration(name, invariant)
  <2> PICK name \in Name, invariant \in BOOLEAN : parseGlobalQualifierDeclaration(name, invariant)
    BY <1>3
  <2> DEFINE y == findUserDefined(mTable, name)
  <2>1. y \in SymbolUpTo(n) \cup {NoSymbol} BY <1>0, FindType DEF Key
  <2>2. \/ mVariableMetadata' = mVariableMetadata
        \/ y # NoSymbol /\ mVariableMetadata' = mVariableMetadata \cup {y.id}
    BY DEF parseGlobalQualifierDeclaration
  <2> HIDE DEF y
  <2>3. mVariableMetadata' \subseteq 0..n BY <2>1, <2>2 DEF ScopeInv, SymbolUpTo
  <2>4. UNCHANGED <<mTable, mPrecisionStack, mUniqueIdCounter, mDeclaringFunction,
                    mFunctionBodyNewScope, open>>
    BY DEF parseGlobalQualifierDeclaration, functionVars
  <2> QED BY <2>3, <2>4 DEF ScopeInv, AtDeclaration
<1>4. CASE \E sig \in Signature, param \in Name \cup {NoName} : function_header(sig, param)
  <2> PICK sig \in Signature, param \in Name \cup {NoName} : function_header(sig, param) BY <1>4
  <2> DEFINE m == mUniqueIdCounter'
             h == [sig |-> sig, param |-> param, id |-> n + 1]
  <2>1. m \in Nat /\ n + 1 <= m /\ (param # NoName => n + 1 < m)
    BY <1>0 DEF function_header
  <2>2. Seq(Level(n)) \subseteq Seq(Level(m))
    <3>1. n <= m BY <1>0, <2>1
    <3> QED BY <1>0, <2>1, <3>1, LevelGrows
  <2>3. mTable' \in Seq(Level(m)) /\ Len(mTable') = Len(mTable) + 1
    BY <1>a, <2>2 DEF function_header
  <2>4. mDeclaringFunction' = h BY DEF function_header
  <2>5. h \in Header(m) /\ h.param = param /\ h.id = n + 1 BY <1>0, <2>1 DEF Header
  <2>6. h # NoFunction
    <3>1. h \in [sig : Signature, param : Name \cup {NoName}, id : Nat] BY <1>0
    <3> QED BY <3>1, HeaderAssumption
  <2>7. UNCHANGED <<mVariableMetadata, mFunctionBodyNewScope, open>> BY DEF function_header
  <2>8. mPrecisionStack' = pushPrecision(mPrecisionStack) /\ mDeclaringFunction = NoFunction
    BY DEF function_header, AtDeclaration
  <2>9. mVariableMetadata' \subseteq 0..m BY <1>0, <2>1, <2>7 DEF ScopeInv
  <2> HIDE DEF m, h
  <2>10. Len(mTable') = 1 + Len(open') + Bit(mFunctionBodyNewScope') + Bit(~ AtDeclaration')
    BY <1>0, <2>3, <2>4, <2>6, <2>7, <2>8 DEF ScopeInv, AtDeclaration, Bit
  <2>11. Len(mPrecisionStack') = Len(mTable') + 1 BY <1>0, <1>a, <2>3, <2>8
  <2> QED BY <1>a, <2>1, <2>3, <2>4, <2>5, <2>7, <2>8, <2>9, <2>10, <2>11
          DEF ScopeInv, AtDeclaration, m
<1>5. CASE addFunctionPrototypeDeclaration
  <2>1. ~ AtDeclaration BY <1>5 DEF addFunctionPrototypeDeclaration, AtDeclaration
  <2>2. Len(mTable) >= 2 /\ 1 \in 0..(Len(mTable) - 1)
    BY <1>0, <2>1 DEF ScopeInv, Bit
  <2> DEFINE w == WithFunction(mTable)
  <2>3. w \in Seq(Level(n)) /\ Len(w) = Len(mTable) BY <2>1, WithFunctionFacts
  <2>4. mTable' = SubSeq(w, 1, Len(w) - 1) BY <1>5 DEF addFunctionPrototypeDeclaration, popTable
  <2> HIDE DEF w
  <2>5. mTable' \in Seq(Level(n)) /\ Len(mTable') = Len(mTable) - 1
    <3>1. Len(w) - 1 \in 0..Len(w) BY <1>0, <2>2, <2>3
    <3> QED BY <2>3, <2>4, <3>1, PrefixFacts
  <2>6. mPrecisionStack' = SubSeq(mPrecisionStack, 1, Len(mPrecisionStack) - 1)
    BY <1>5 DEF addFunctionPrototypeDeclaration, popPrecision
  <2>7. /\ mPrecisionStack' \in Seq(P) /\ Len(mPrecisionStack') = Len(mTable') + 1
        /\ mPrecisionStack'[1] = BuiltInPrecision
    BY <1>b, <2>2, <2>5, <2>6
  <2>8. /\ UNCHANGED <<mUniqueIdCounter, mVariableMetadata, mFunctionBodyNewScope, open>>
        /\ mDeclaringFunction' = NoFunction
    BY <1>5 DEF addFunctionPrototypeDeclaration
  <2>9. Len(mTable') = 1 + Len(open') + Bit(mFunctionBodyNewScope') + Bit(~ AtDeclaration')
    BY <1>0, <2>1, <2>5, <2>8 DEF ScopeInv, AtDeclaration, Bit
  <2> QED BY <2>5, <2>7, <2>8, <2>9 DEF ScopeInv, AtDeclaration
<1>6. CASE parseFunctionDefinitionHeader
  <2>1. ~ AtDeclaration /\ open = <<>> /\ ~ mFunctionBodyNewScope
    BY <1>6 DEF parseFunctionDefinitionHeader, AtDeclaration, ScopeInv
  <2>2. Len(mTable) = 2 BY <1>0, <2>1 DEF ScopeInv, Bit
  <2> DEFINE w == WithFunction(mTable)
             param == mDeclaringFunction.param
             y == [id |-> mDeclaringFunction.id + 1, isFunction |-> FALSE]
             declared == IF param = NoName THEN w ELSE declare(w, param, y)
             scoped == IsSpecWithFunctionBodyNewScope
  <2>3. w \in Seq(Level(n)) /\ Len(w) = 2 BY <2>1, <2>2, WithFunctionFacts
  <2>4. param # NoName => param \in Key /\ y \in SymbolUpTo(n)
    BY <1>0, <2>1, HeaderFacts DEF ScopeInv, SymbolUpTo, Key
  <2>5. /\ mTable' = IF scoped THEN pushTable(declared) ELSE declared
        /\ mPrecisionStack' = IF scoped THEN pushPrecision(mPrecisionStack) ELSE mPrecisionStack
        /\ mFunctionBodyNewScope' = (mFunctionBodyNewScope \/ scoped)
        /\ open' = <<"function">> /\ mDeclaringFunction' = NoFunction
        /\ UNCHANGED <<mUniqueIdCounter, mVariableMetadata>>
    BY <1>6 DEF parseFunctionDefinitionHeader
  <2>6. scoped \in BOOLEAN BY DEF IsSpecWithFunctionBodyNewScope
  <2> HIDE DEF w, y, param, scoped
  <2>7. declared \in Seq(Level(n)) /\ Len(declared) = 2
    <3>1. CASE param = NoName BY <2>3, <3>1
    <3>2. CASE param # NoName
      <4>1. declared = insertAt(w, Len(w), param, y) /\ Len(w) \in 1..Len(w)
        BY <2>3, <3>2 DEF declare
      <4>2. n \in Nat /\ param \in Key /\ y \in SymbolUpTo(n) BY <1>0, <2>4, <3>2
      <4>3. /\ insertAt(w, Len(w), param, y) \in Seq(Level(n))
            /\ Len(insertAt(w, Len(w), param, y)) = Len(w)
        BY Zenon, <2>3, <4>1, <4>2, InsertType
      <4> QED BY Zenon, <2>3, <4>1, <4>3
    <3> QED BY <3>1, <3>2
  <2> HIDE DEF declared
  <2>8. pushTable(declared) \in Seq(Level(n)) /\ Len(pushTable(declared)) = 3
    <3>1. EmptyLevel \in Level(n) BY <1>0
    <3>2. /\ Append(declared, EmptyLevel) \in Seq(Level(n))
          /\ Len(Append(declared, EmptyLevel)) = Len(declared) + 1
      BY ZenonT(30), <2>7, <3>1, PushFacts
    <3> QED BY <2>7, <3>2 DEF pushTable
  <2>9. mTable' \in Seq(Level(n)) /\ Len(mTable') = 2 + Bit(scoped)
    <3>1. CASE scoped BY <2>5, <2>8, <3>1 DEF Bit
    <3>2. CASE ~ scoped BY <2>5, <2>7, <3>2 DEF Bit
    <3> QED BY <3>1, <3>2
  <2>10. /\ mPrecisionStack' \in Seq(P) /\ Len(mPrecisionStack') = 3 + Bit(scoped)
         /\ mPrecisionStack'[1] = BuiltInPrecision
    <3>1. mPrecisionStack[1] = BuiltInPrecision BY DEF ScopeInv
    <3>2. CASE scoped BY <1>0, <1>a, <2>2, <2>5, <3>2 DEF Bit
    <3>3. CASE ~ scoped BY <1>0, <2>2, <2>5, <3>1, <3>3 DEF Bit
    <3> QED BY <3>2, <3>3
  <2>11. mFunctionBodyNewScope' \in BOOLEAN /\ mFunctionBodyNewScope' = scoped BY <2>1, <2>5, <2>6
  <2>12. open' \in Seq(Construct) /\ Len(open') = 1 /\ open'[1] = "function" BY <2>5 DEF Construct
  <2> QED BY <2>5, <2>9, <2>10, <2>11, <2>12 DEF ScopeInv, AtDeclaration, Bit
<1>7. CASE addFunctionDefinition
  <2> DEFINE k == IF mFunctionBodyNewScope THEN 2 ELSE 1
  <2>1. /\ mTable' = SubSeq(mTable, 1, Len(mTable) - k)
        /\ mPrecisionStack' = SubSeq(mPrecisionStack, 1, Len(mPrecisionStack) - k)
        /\ mFunctionBodyNewScope' = FALSE /\ open = <<"function">> /\ open' = <<>>
        /\ mDeclaringFunction = NoFunction
        /\ UNCHANGED <<mUniqueIdCounter, mVariableMetadata, mDeclaringFunction>>
    BY <1>7 DEF addFunctionDefinition, AtDeclaration
  <2>2. Len(mTable) = 1 + k BY <2>1 DEF ScopeInv, AtDeclaration, Bit
  <2>3. k \in 0..(Len(mTable) - 1) BY <2>2
  <2>4. open' \in Seq(Construct) /\ Len(open') = 0 BY <2>1
  <2> HIDE DEF k
  <2>5. /\ mTable' \in Seq(Level(n)) /\ Len(mTable') = 1
        /\ mPrecisionStack' \in Seq(P) /\ Len(mPrecisionStack') = 2
        /\ mPrecisionStack'[1] = BuiltInPrecision
    <3>1. /\ mTable' \in Seq(Level(n)) /\ Len(mTable') = Len(mTable) - k
          /\ mPrecisionStack' \in Seq(P) /\ Len(mPrecisionStack') = Len(mTable') + 1
          /\ mPrecisionStack'[1] = BuiltInPrecision
      BY Zenon, <1>b, <2>1, <2>3
    <3>2. k \in Nat BY DEF k
    <3>3. Len(mTable') = 1
      <4>1. Len(mTable') = Len(mTable) - k BY Zenon, <3>1
      <4> QED BY <2>2, <3>2, <4>1
    <3>4. Len(mPrecisionStack') = 2
      <4>1. Len(mPrecisionStack') = 1 + 1 BY Zenon, <3>1, <3>3
      <4> QED BY <4>1
    <3> QED BY Zenon, <3>1, <3>3, <3>4
  <2>6. /\ Len(mTable') = 1 + Len(open') + Bit(mFunctionBodyNewScope') + Bit(~ AtDeclaration')
        /\ Len(mPrecisionStack') = Len(mTable') + 1
    BY <2>1, <2>4, <2>5 DEF AtDeclaration, Bit
  <2> QED BY Zenon, <2>1, <2>4, <2>5, <2>6 DEF ScopeInv, AtDeclaration
<1>8. CASE \E construct \in Construct \ {"function"} : enter(construct)
  <2> PICK construct \in Construct \ {"function"} : enter(construct) BY <1>8
  <2>1. /\ mTable' = pushTable(mTable) /\ mPrecisionStack' = pushPrecision(mPrecisionStack)
        /\ open # <<>> /\ mDeclaringFunction = NoFunction /\ open' = Append(open, construct)
        /\ UNCHANGED <<mUniqueIdCounter, mVariableMetadata, mDeclaringFunction,
                       mFunctionBodyNewScope>>
    BY DEF enter, EnterScope, AtStatement, AtDeclaration, functionVars
  <2>2. /\ open' \in Seq(Construct) /\ Len(open') = Len(open) + 1 /\ open' # <<>>
        /\ open'[1] = "function"
    BY <2>1 DEF ScopeInv
  <2> QED BY <1>0, <1>a, <2>1, <2>2 DEF ScopeInv, AtDeclaration, Bit
<1>9. CASE exit
  <2>1. /\ mTable' = SubSeq(mTable, 1, Len(mTable) - 1)
        /\ mPrecisionStack' = SubSeq(mPrecisionStack, 1, Len(mPrecisionStack) - 1)
        /\ open # <<>> /\ open[Len(open)] # "function"
        /\ mDeclaringFunction = NoFunction /\ open' = SubSeq(open, 1, Len(open) - 1)
        /\ UNCHANGED <<mUniqueIdCounter, mVariableMetadata, mDeclaringFunction,
                       mFunctionBodyNewScope>>
    BY <1>9 DEF exit, LeaveScope, popTable, popPrecision, AtStatement, AtDeclaration, functionVars
  <2>2. open \in Seq(Construct) /\ open[1] = "function" BY <2>1 DEF ScopeInv
  <2>3. Len(open) >= 2 BY <2>1, <2>2
  <2>4. /\ open' \in Seq(Construct) /\ Len(open') = Len(open) - 1 /\ open' # <<>>
        /\ open'[1] = "function"
    <3>1. Len(open) - 1 \in 0..Len(open) /\ 1 \in 1..(Len(open) - 1) BY <2>2, <2>3
    <3>2. /\ open' \in Seq(Construct) /\ Len(open') = Len(open) - 1
          /\ \A i \in 1..(Len(open) - 1) : open'[i] = open[i]
      BY Zenon, <2>1, <2>2, <3>1, PrefixFacts
    <3>3. open' # <<>> BY <2>3, <3>2
    <3> QED BY <2>2, <3>1, <3>2, <3>3
  <2>5. 1 \in 0..(Len(mTable) - 1) /\ Len(mTable) = 1 + Len(open) + Bit(mFunctionBodyNewScope)
    BY <1>0, <2>1, <2>3 DEF ScopeInv, AtDeclaration, Bit
  <2>6. /\ mTable' \in Seq(Level(n)) /\ Len(mTable') = Len(mTable) - 1
        /\ mPrecisionStack' \in Seq(P) /\ Len(mPrecisionStack') = Len(mTable') + 1
        /\ mPrecisionStack'[1] = BuiltInPrecision
    BY Zenon, <1>b, <2>1, <2>5
  <2>7. Len(mTable') = 1 + Len(open') + Bit(mFunctionBodyNewScope') + Bit(~ AtDeclaration')
    BY <2>1, <2>3, <2>4, <2>5, <2>6 DEF AtDeclaration, Bit
  <2> QED BY Zenon, <2>1, <2>4, <2>6, <2>7 DEF ScopeInv, AtDeclaration
<1>10. CASE \E op \in {"break", "continue"} : addBranch(op)
  <2>1. UNCHANGED <<mTable, mPrecisionStack, mUniqueIdCounter, mVariableMetadata,
                    mDeclaringFunction, mFunctionBodyNewScope, open>>
    BY <1>10 DEF addBranch, tableVars, functionVars
  <2> QED BY <2>1 DEF ScopeInv, AtDeclaration
<1> QED
  BY <1>1, <1>2, <1>3, <1>4, <1>5, <1>6, <1>7, <1>8, <1>9, <1>10 DEF Parse

\* Every step keeps the count of the levels.
LEMMA ScopeStep ==
  ASSUME ScopeInv, [Next]_vars
  PROVE  ScopeInv'
<1>1. CASE \E version \in {100, 320} : compile(version) BY <1>1, ScopeCompile
<1>2. CASE parsing /\ Parse /\ UNCHANGED <<parsing, mVariablesCollected>> BY <1>2, ScopeParse
<1>3. CASE syntaxError BY <1>3, ScopeLeave DEF syntaxError
<1>4. CASE parseFails BY <1>4, ScopeLeave DEF parseFails
<1>5. CASE \E collected, failed \in BOOLEAN : checkAndSimplifyAST(collected, failed)
  BY <1>5, ScopeLeave DEF checkAndSimplifyAST
<1>6. CASE UNCHANGED vars
  BY <1>6 DEF vars, parseVars, tableVars, contextVars, ScopeInv, AtDeclaration
<1> QED BY <1>1, <1>2, <1>3, <1>4, <1>5, <1>6 DEF Next

\* ScopeInv holds throughout.
LEMMA ScopesBalanced == Spec => []ScopeInv
<1>1. Init => ScopeInv BY ScopeInit
<1>2. ScopeInv /\ [Next]_vars => ScopeInv' BY ScopeStep
<1> QED BY <1>1, <1>2, PTL DEF Spec

\* Whatever way a compilation ended, at whatever nesting, the next one finds no
\* scope, only the predefined precision, and no invariant mark of a former
\* shader; between external declarations the table is at the global level
\* (TCompiler::compile, ~TScopedSymbolTableLevel, clearCompilationResults).
THEOREM Independent == Spec => []CompilationsIndependent
<1>1. ScopeInv => CompilationsIndependent
  <2> SUFFICES ASSUME ScopeInv PROVE CompilationsIndependent OBVIOUS
  <2>1. CASE parsing
    <3>1. AtDeclaration /\ open = <<>> => Len(mTable) = 1 BY <2>1 DEF ScopeInv, Bit
    <3>2. \A id \in mVariableMetadata : id <= mUniqueIdCounter BY <2>1 DEF ScopeInv
    <3>3. ~ mVariablesCollected BY Zenon, <2>1 DEF ScopeInv
    <3> QED BY Zenon, <2>1, <3>1, <3>2, <3>3 DEF CompilationsIndependent, atGlobalLevel
  <2>2. CASE ~ parsing
    <3>1. mTable = <<>> BY <2>2 DEF ScopeInv
    <3>2. mPrecisionStack = <<BuiltInPrecision>>
      <4>1. /\ mPrecisionStack \in Seq(Precision \cup {NoPrecision}) /\ Len(mPrecisionStack) = 1
            /\ mPrecisionStack[1] = BuiltInPrecision
        BY <3>1 DEF ScopeInv
      <4> QED BY <4>1
    <3> QED BY Zenon, <2>2, <3>1, <3>2 DEF CompilationsIndependent
  <2> QED BY <2>1, <2>2
<1> QED BY <1>1, ScopesBalanced, PTL

-----------------------------------------------------------------------------
(* Scopes of the language and levels of the table                          *)

\* A scope has one level, and an inner scope no lower one.
LEMMA LevelsOrdered ==
  ASSUME NEW s \in Nat, NEW t \in Nat, NEW i \in Nat, NEW j \in Nat, i >= 1, j >= 1,
         NEW b \in BOOLEAN, InLevel(s, i, b), InLevel(t, j, b), s <= t
  PROVE  i <= j /\ (s = t => i = j)
<1>1. Bit(b) \in 0..1 BY DEF Bit
<1> QED BY <1>1 DEF InLevel

\* Two scopes of one level are the same, the parameters' apart.
LEMMA LevelsApart ==
  ASSUME NEW s \in Nat, NEW t \in Nat, NEW i \in Nat, NEW b \in BOOLEAN,
         InLevel(s, i, b), InLevel(t, i, b), s # 2, t # 2, i >= 1
  PROVE  s = t
<1>1. Bit(b) \in 0..1 BY DEF Bit
<1> QED BY <1>1 DEF InLevel

\* Small facts of arithmetic.
LEMMA OneMore == \A n \in Nat : \A i : i \in 1..(n + 1) <=> i \in 1..n \/ i = n + 1
OBVIOUS

LEMMA OneNotTwo == 1 # 2
OBVIOUS

LEMMA NextNat == \A n \in Nat : n + 1 \in Nat
OBVIOUS

\* The scope a declaration goes to is the top level.
LEMMA ScopeIsTop ==
  ASSUME ScopeInv, parsing, AtDeclaration
  PROVE  Scope \in Nat /\ InLevel(Scope, Len(mTable), mFunctionBodyNewScope)
<1>1. Bit(mFunctionBodyNewScope) \in 0..1 /\ Len(open) \in Nat BY DEF Bit, ScopeInv
<1>2. Len(mTable) = 1 + Len(open) + Bit(mFunctionBodyNewScope)
  BY <1>1 DEF ScopeInv, Bit
<1>3. CASE open = <<>>
  <2>1. Len(open) = 0 /\ Bit(mFunctionBodyNewScope) = 0 BY <1>3 DEF ScopeInv, Bit
  <2> QED BY <1>2, <1>3, <2>1 DEF Scope, InLevel
<1>4. CASE open # <<>>
  <2>1. Len(open) >= 1 BY <1>1, <1>4 DEF ScopeInv
  <2> QED BY <1>1, <1>2, <1>4, <2>1 DEF Scope, InLevel
<1> QED BY <1>3, <1>4

\* There is a top level.
LEMMA TopExists ==
  ASSUME ScopeInv, parsing
  PROVE  Len(mTable) \in Nat /\ Len(mTable) >= 1 /\ Len(mTable) \in 1..Len(mTable)
<1>1. /\ mTable \in Seq(Level(mUniqueIdCounter)) /\ open \in Seq(Construct)
      /\ Len(mTable) = 1 + Len(open) + Bit(mFunctionBodyNewScope) + Bit(~ AtDeclaration)
  BY Zenon DEF ScopeInv
<1>2. Bit(mFunctionBodyNewScope) \in Nat /\ Bit(~ AtDeclaration) \in Nat /\ Len(open) \in Nat
  BY <1>1 DEF Bit
<1>3. Len(mTable) \in Nat BY <1>1
<1> QED BY <1>1, <1>2, <1>3

\* The innermost of some declarations or precision statements exists.
LEMMA InnermostFacts ==
  ASSUME NEW D, D # {}, NEW n \in Nat, \A d \in D : d.scope \in 0..n
  PROVE  Innermost(D) \in D /\ \A e \in D : e.scope <= Innermost(D).scope
<1> DEFINE S == {d.scope + 1 : d \in D}
<1>1. n + 1 \in Nat /\ S \in SUBSET (1..(n + 1)) OBVIOUS
<1>2. S # {}
  <2>1. PICK d \in D : TRUE BY Zenon
  <2>2. d.scope + 1 \in S BY <2>1
  <2> QED BY Zenon, <2>2
<1>3. Topmost(S) \in S /\ \A j \in S : j <= Topmost(S)
  <2> HIDE DEF S
  <2> QED BY Zenon, <1>1, <1>2, TopmostFacts
<1>4. PICK d \in D : Topmost(S) = d.scope + 1 BY Zenon, <1>3
<1>5. \A e \in D : e.scope <= d.scope
  <2> TAKE e \in D
  <2>1. e.scope + 1 \in S OBVIOUS
  <2>2. e.scope + 1 <= d.scope + 1 BY Zenon, <1>3, <1>4, <2>1
  <2> QED BY <2>2
<1> QED BY Zenon, <1>5 DEF Innermost

-----------------------------------------------------------------------------
(* Names                                                                   *)

\* The types in NameInv, and that a symbol is not the mark of its absence.
LEMMA NameTypes ==
  ASSUME ScopeInv, NameInv
  PROVE  /\ NoSymbol \notin SymbolUpTo(mUniqueIdCounter)
         /\ Scope \in Nat
         /\ \A d \in decls : /\ d.name \in Name /\ d.scope \in Nat
                             /\ d.symbol \in SymbolUpTo(mUniqueIdCounter)
                             /\ d.symbol # NoSymbol
<1>1. NoSymbol \notin SymbolUpTo(mUniqueIdCounter)
  <2>1. SymbolUpTo(mUniqueIdCounter) \subseteq [id : Nat, isFunction : BOOLEAN]
    BY DEF SymbolUpTo, ScopeInv
  <2> QED BY <2>1, SymbolAssumption
<1>2. Scope \in Nat BY DEF Scope, ScopeInv
<1> QED BY <1>1, <1>2 DEF NameInv, Names

\* findUserDefined() finds the innermost declaration.
LEMMA Resolve ==
  ASSUME ScopeInv, NameInv, NEW name \in Name
  PROVE  findUserDefined(mTable, name) = LexicalFind(name)
<1> DEFINE S == {i \in 1..Len(mTable) : mTable[i][name] # NoSymbol}
           D == Declared(name)
           new == mFunctionBodyNewScope
<1>1. findUserDefined(mTable, name) = IF S = {} THEN NoSymbol ELSE mTable[Topmost(S)][name]
  BY DEF findUserDefined
<1>2. LexicalFind(name) = IF D = {} THEN NoSymbol ELSE Innermost(D).symbol BY DEF LexicalFind
<1>3. \A d \in D : d \in decls /\ d.name = name /\ d.scope \in 0..Scope
  <2>1. \A d \in D : d \in decls /\ d.name = name BY DEF Declared
  <2>2. \A d \in decls : d.scope <= Scope BY DEF NameInv, Names
  <2> QED BY <2>1, <2>2, NameTypes
<1>4. \A d \in D : \E i \in S : InLevel(d.scope, i, new) /\ mTable[i][name] = d.symbol
  <2> TAKE d \in D
  <2>1. PICK i \in 1..Len(mTable) : InLevel(d.scope, i, new) /\ mTable[i][d.name] = d.symbol
    BY <1>3 DEF NameInv, Names
  <2>2. mTable[i][name] = d.symbol /\ d.symbol # NoSymbol BY <1>3, <2>1, NameTypes
  <2> QED BY <2>1, <2>2
<1>5. \A i \in S : \E d \in D : InLevel(d.scope, i, new) BY DEF NameInv, Names, Declared
<1>6. CASE D = {}
  <2>1. S = {} BY <1>5, <1>6
  <2> QED BY <1>1, <1>2, <1>6, <2>1
<1>7. CASE D # {}
  <2> DEFINE d == Innermost(D)
  <2>1. d \in D /\ \A e \in D : e.scope <= d.scope
    <3>1. Scope \in Nat BY NameTypes
    <3> HIDE DEF D
    <3> QED BY Zenon, <1>3, <1>7, <3>1, InnermostFacts
  <2> HIDE DEF d
  <2>2. PICK i \in S : InLevel(d.scope, i, new) /\ mTable[i][name] = d.symbol BY <1>4, <2>1
  <2>3. \A j \in S : j <= i
    <3> TAKE j \in S
    <3>1. PICK e \in D : InLevel(e.scope, j, new) BY <1>5
    <3>2. e.scope \in Nat /\ d.scope \in Nat /\ e.scope <= d.scope BY <1>3, <2>1, NameTypes
    <3>3. i \in Nat /\ j \in Nat /\ i >= 1 /\ j >= 1 /\ new \in BOOLEAN BY DEF ScopeInv
    <3> HIDE DEF S, D, new
    <3> QED BY <2>2, <3>1, <3>2, <3>3, LevelsOrdered
  <2>4. Topmost(S) \in S /\ \A j \in S : j <= Topmost(S)
    <3>1. Len(mTable) \in Nat BY DEF ScopeInv
    <3>2. S \in SUBSET (1..Len(mTable)) BY Zenon
    <3> HIDE DEF S
    <3>3. S # {} BY <2>2, Zenon
    <3> QED BY Zenon, <3>1, <3>2, <3>3, TopmostFacts
  <2>5. Topmost(S) = i
    <3>1. Topmost(S) <= i /\ i <= Topmost(S) BY <2>3, <2>4
    <3>2. Topmost(S) \in Nat /\ i \in Nat BY <2>4
    <3> HIDE DEF S
    <3> QED BY <3>1, <3>2
  <2>6. S # {} BY <2>2
  <2> QED BY Zenon, <1>1, <1>2, <1>7, <2>2, <2>5, <2>6 DEF d
<1> QED BY <1>6, <1>7

\* canDeclare() refuses a name exactly when its scope has declared it.
LEMMA ClashIsTop ==
  ASSUME ScopeInv, NameInv, parsing, AtDeclaration, NEW name \in Name
  PROVE  Clashes(name, Scope) <=> mTable[Len(mTable)][name] # NoSymbol
<1> DEFINE L == Len(mTable)
           new == mFunctionBodyNewScope
<1>1. /\ L \in Nat /\ L >= 1 /\ L \in 1..L /\ new \in BOOLEAN /\ Scope \in Nat
      /\ InLevel(Scope, L, new)
  BY ScopeIsTop DEF ScopeInv, Bit
<1>2. ASSUME NEW d \in decls
      PROVE  SameScope(d.scope, Scope) <=> InLevel(d.scope, L, new)
  <2>1. d.scope \in Nat /\ d.scope <= Scope /\ Len(open) \in Nat
    <3>1. d.scope <= Scope BY Zenon DEF NameInv, Names
    <3>2. d.scope \in Nat BY Zenon, NameTypes
    <3>3. open \in Seq(Construct) BY Zenon DEF ScopeInv
    <3>4. Len(open) \in Nat BY <3>3
    <3> QED BY Zenon, <3>1, <3>2, <3>4
  <2>2. PICK i \in 1..L : InLevel(d.scope, i, new) BY DEF NameInv, Names
  <2>3. CASE open = <<>>
    <3>1. Scope = 0 /\ d.scope = 0 BY <2>1, <2>3 DEF Scope
    <3> QED BY <1>1, <3>1 DEF SameScope
  <2>4. CASE open # <<>>
    <3>1. /\ Scope = 2 * Len(open) + 1 /\ Len(open) >= 1
          /\ L = 1 + Len(open) + Bit(new) /\ Bit(new) \in 0..1
      BY <2>1, <2>4 DEF Scope, ScopeInv, Bit
    <3>2. new <=> IsSpecWithFunctionBodyNewScope BY <2>4 DEF NameInv
    <3>3. {d.scope, Scope} = {2, 3} <=> d.scope = 2 /\ Scope = 3
      <4>1. Scope # 2 BY <3>1
      <4> QED BY <4>1
    <3>4. SameScope(d.scope, Scope) <=> \/ d.scope = Scope
                                        \/ d.scope = 2 /\ Scope = 3 /\ ~ new
      BY Zenon, <3>2, <3>3 DEF SameScope
    <3>5. CASE d.scope = Scope BY <1>1, <3>4, <3>5
    <3>6. CASE d.scope = 2
      <4>1. InLevel(2, L, new) <=> L = 2 BY DEF InLevel
      <4>2. L = 2 <=> Len(open) = 1 /\ ~ new
        <5> HIDE DEF L
        <5>1. CASE new
          <6>1. Bit(new) = 1 BY <5>1 DEF Bit
          <6>2. L # 2 BY <2>1, <3>1, <6>1
          <6> QED BY Zenon, <5>1, <6>2
        <5>2. CASE ~ new
          <6>1. Bit(new) = 0 BY <5>2 DEF Bit
          <6>2. L = 2 <=> Len(open) = 1
            <7> DEFINE k == Len(open)
            <7>1. k \in Nat /\ L = 1 + k BY <2>1, <3>1, <6>1
            <7> HIDE DEF k
            <7>2. L = 2 <=> k = 1 BY <7>1
            <7> QED BY <7>2 DEF k
          <6> QED BY Zenon, <5>2, <6>2
        <5> QED BY Zenon, <5>1, <5>2
      <4>3. Len(open) = 1 <=> Scope = 3
        <5> DEFINE k == Len(open)
        <5>1. k \in Nat /\ Scope = 2 * k + 1 BY <2>1, <3>1
        <5> HIDE DEF k
        <5>2. k = 1 <=> Scope = 3 BY <5>1
        <5> QED BY <5>2 DEF k
      <4>4. Scope # 2 BY <3>1
      <4> QED BY Zenon, <3>4, <3>6, <4>1, <4>2, <4>3, <4>4
    <3>7. CASE d.scope # Scope /\ d.scope # 2
      <4>1. Scope # 2 BY <3>1
      <4>2. ~ InLevel(d.scope, L, new) BY Zenon, <1>1, <2>1, <3>7, <4>1, LevelsApart
      <4> QED BY Zenon, <3>4, <3>7, <4>2
    <3> QED BY <3>5, <3>6, <3>7
  <2> QED BY <2>3, <2>4
<1>3. ASSUME Clashes(name, Scope) PROVE mTable[L][name] # NoSymbol
  <2>1. PICK d \in decls : d.name = name /\ SameScope(d.scope, Scope)
    BY <1>3 DEF Clashes, Declared
  <2>2. InLevel(d.scope, L, new) BY <1>2, <2>1
  <2>3. PICK i \in 1..L : InLevel(d.scope, i, new) /\ mTable[i][name] = d.symbol
    BY <2>1 DEF NameInv, Names
  <2>4. d.scope \in Nat /\ d.symbol # NoSymbol BY NameTypes
  <2>5. i = L BY <1>1, <2>2, <2>3, <2>4, LevelsOrdered
  <2> QED BY <2>3, <2>4, <2>5
<1>4. ASSUME mTable[L][name] # NoSymbol PROVE Clashes(name, Scope)
  <2>1. PICK d \in decls : d.name = name /\ InLevel(d.scope, L, new)
    BY <1>1, <1>4 DEF NameInv, Names
  <2> QED BY Zenon, <1>2, <2>1 DEF Clashes, Declared
<1> QED BY <1>3, <1>4

\* The function a header introduces joins the global scope and the global level
\* together, and the level of the header is still empty.
LEMMA FunctionJoins ==
  ASSUME ScopeInv, NameInv, parsing, ~ AtDeclaration
  PROVE  /\ \A d \in DeclsWithFunction :
               /\ d \in [name : Name, scope : Nat, symbol : SymbolUpTo(mUniqueIdCounter)]
               /\ d.scope <= Scope
               /\ \E i \in 1..(Len(mTable) - 1) :
                     /\ InLevel(d.scope, i, mFunctionBodyNewScope)
                     /\ WithFunction(mTable)[i][d.name] = d.symbol
         /\ \A i \in 1..Len(mTable), name \in Name :
               WithFunction(mTable)[i][name] # NoSymbol =>
                  \E d \in DeclsWithFunction : /\ d.name = name
                                               /\ InLevel(d.scope, i, mFunctionBodyNewScope)
         /\ \A name \in Name : WithFunction(mTable)[Len(mTable)][name] = NoSymbol
<1> DEFINE w == WithFunction(mTable)
           L == Len(mTable)
           new == mFunctionBodyNewScope
           f == FunctionName
           unseen == findUserDefined(mTable, f) = NoSymbol
           n == mUniqueIdCounter
           Decl == [name : Name, scope : Nat, symbol : SymbolUpTo(n)]
<1>1. L \in Nat /\ L >= 2 /\ 1 \in 1..L /\ L \in 1..L /\ n \in Nat /\ Scope \in Nat
  BY NameTypes DEF ScopeInv, Bit
<1>2. f \in Name /\ Function \in SymbolUpTo(n) BY HeaderFacts
<1>3. unseen <=> Declared(f) = {}
  <2>1. findUserDefined(mTable, f) = LexicalFind(f) BY <1>2, Resolve
  <2>2. CASE Declared(f) = {} BY <2>1, <2>2 DEF LexicalFind
  <2>3. CASE Declared(f) # {}
    <3>1. \A d \in Declared(f) : d \in decls /\ d.scope \in 0..Scope
      BY NameTypes DEF Declared, NameInv, Names
    <3>2. Innermost(Declared(f)) \in Declared(f) BY <1>1, <2>3, <3>1, InnermostFacts
    <3>3. Innermost(Declared(f)).symbol # NoSymbol BY <3>1, <3>2, NameTypes
    <3> QED BY Zenon, <2>1, <2>3, <3>3 DEF LexicalFind
  <2> QED BY Zenon, <2>2, <2>3
<1>4. unseen => \A i \in 1..L : mTable[i][f] = NoSymbol
  BY <1>2, <1>3 DEF NameInv, Names, Declared
<1>5. \A i \in 1..L, name \in Name :
         w[i][name] = IF i = 1 /\ name = f /\ unseen THEN Function ELSE mTable[i][name]
  <2>1. \A i \in 1..L, name \in Name :
           w[i][name] = IF i = 1 /\ name = f /\ unseen /\ mTable[1][name] = NoSymbol
                        THEN Function ELSE mTable[i][name]
    BY Zenon, WithFunctionFacts
  <2> HIDE DEF w, L, f, unseen
  <2> QED BY <1>1, <1>4, <2>1
<1>6. \A name \in Name : mTable[L][name] = NoSymbol BY Zenon DEF NameInv
<1>7. DeclsWithFunction = IF unseen
                          THEN decls \cup {[name |-> f, scope |-> 0, symbol |-> Function]}
                          ELSE decls
  BY Zenon, <1>3 DEF DeclsWithFunction
<1>8. \A d \in decls : /\ d \in Decl /\ d.scope <= Scope
                       /\ \E i \in 1..L : InLevel(d.scope, i, new) /\ mTable[i][d.name] = d.symbol
                       /\ d.name \in Name /\ d.symbol # NoSymbol
                       /\ unseen => d.name # f
  BY Zenon, <1>3, NameTypes DEF NameInv, Names, Declared
<1>9. \A i \in 1..L, name \in Name :
         mTable[i][name] # NoSymbol => \E d \in decls : d.name = name /\ InLevel(d.scope, i, new)
  BY DEF NameInv, Names
<1>10. InLevel(0, 1, new) BY DEF InLevel
<1> HIDE DEF w, L, new, f, unseen, n
<1>11. ASSUME NEW d \in DeclsWithFunction
       PROVE  /\ d \in Decl /\ d.scope <= Scope
              /\ \E i \in 1..(L - 1) : InLevel(d.scope, i, new) /\ w[i][d.name] = d.symbol
  <2>1. CASE d \in decls
    <3>1. PICK i \in 1..L : InLevel(d.scope, i, new) /\ mTable[i][d.name] = d.symbol
      BY <1>8, <2>1
    <3>2. d.name \in Name /\ d.symbol # NoSymbol /\ (unseen => d.name # f) BY <1>8, <2>1
    <3>3. i # L BY <1>6, <3>1, <3>2
    <3>4. w[i][d.name] = d.symbol BY <1>5, <3>1, <3>2
    <3>5. i \in 1..(L - 1) BY <1>1, <3>3
    <3> QED BY <1>8, <2>1, <3>1, <3>4, <3>5
  <2>2. CASE d \notin decls
    <3>1. unseen /\ d = [name |-> f, scope |-> 0, symbol |-> Function] BY <1>7, <2>2
    <3>2. d \in Decl /\ d.scope = 0 /\ d.name = f /\ d.symbol = Function BY <1>2, <3>1
    <3>3. w[1][f] = Function /\ 1 \in 1..(L - 1) BY <1>1, <1>2, <1>5, <3>1
    <3> QED BY <1>1, <1>10, <3>2, <3>3
  <2> QED BY <2>1, <2>2
<1>12. ASSUME NEW i \in 1..L, NEW name \in Name, w[i][name] # NoSymbol
       PROVE  \E d \in DeclsWithFunction : d.name = name /\ InLevel(d.scope, i, new)
  <2>1. CASE i = 1 /\ name = f /\ unseen
    <3> DEFINE d == [name |-> f, scope |-> 0, symbol |-> Function]
    <3>1. d \in DeclsWithFunction /\ d.name = name /\ d.scope = 0 BY <1>7, <2>1
    <3>2. InLevel(d.scope, i, new) BY <1>10, <2>1, <3>1
    <3> QED BY <3>1, <3>2
  <2>2. CASE ~ (i = 1 /\ name = f /\ unseen)
    <3>1. mTable[i][name] # NoSymbol BY <1>5, <1>12, <2>2
    <3>2. PICK d \in decls : d.name = name /\ InLevel(d.scope, i, new) BY <1>9, <3>1
    <3> QED BY <1>7, <3>2
  <2> QED BY <2>1, <2>2
<1>13. ASSUME NEW name \in Name PROVE w[L][name] = NoSymbol
  <2>1. L # 1 BY <1>1
  <2>2. w[L][name] = mTable[L][name] BY <1>1, <1>5, <2>1
  <2> QED BY <1>6, <2>2
<1> QED BY Zenon, <1>11, <1>12, <1>13 DEF w, L, new, n

\* What of D is in E is what has its scope in one of the first m of l levels;
\* those scopes have the same levels with c as with b.
SplitAt(D, E, l, b, c, m) ==
    \A d \in D, i \in 1..l :
       InLevel(d.scope, i, b) => /\ d \in E <=> i <= m
                                 /\ i <= m => InLevel(d.scope, i, c)

\* Where the declarations of the scopes inside a construct at depth k are: a
\* scope is inside it exactly when its level is above m.
LEMMA OutsideLevels ==
  ASSUME ScopeInv, parsing, AtDeclaration, NEW k \in 1..Len(open), NEW m \in Nat,
         m = IF k = 1 THEN 1 ELSE k + Bit(mFunctionBodyNewScope),
         NEW s \in Nat, NEW i \in 1..Len(mTable), InLevel(s, i, mFunctionBodyNewScope)
  PROVE  s < 2 * k <=> i <= m
<1>1. Len(open) \in Nat /\ k \in Nat /\ k >= 1 /\ i \in Nat /\ i >= 1 BY DEF ScopeInv
<1>2. Bit(mFunctionBodyNewScope) \in 0..1 BY DEF Bit
<1> DEFINE b == Bit(mFunctionBodyNewScope)
<1>3. b \in 0..1 /\ (\/ s = 0 /\ i = 1
                     \/ s = 2 /\ i = 2
                     \/ s > 2 /\ s = 2 * (i - 1 - b) + 1)
  BY <1>2 DEF InLevel
<1>4. m = IF k = 1 THEN 1 ELSE k + b OBVIOUS
<1> HIDE DEF b
<1>5. CASE k = 1 BY <1>1, <1>3, <1>4, <1>5
<1>6. CASE k # 1 BY <1>1, <1>3, <1>4, <1>6
<1> QED BY <1>5, <1>6

\* No declaration, and levels that hold no name.
LEMMA NamesEmpty ==
  ASSUME NEW D, NEW t, NEW b, NEW n, NEW top, D = {},
         \A i \in 1..Len(t), name \in Name : t[i][name] = NoSymbol
  PROVE  Names(D, t, b, n, top)
BY Zenon DEF Names

\* Every step keeps the levels and the declarations together.
LEMMA NameStep ==
  ScopeInv /\ NameInv /\ [Next]_vars => NameInv'
\* declareVariable() enters the name at the top level, for the current scope.
<1>NameDeclare.
     ASSUME ScopeInv, NameInv, parsing, NEW x \in Name, declareVariable(x), UNCHANGED parsing
     PROVE  NameInv'
  <2> USE <1>NameDeclare
  <2> DEFINE n == mUniqueIdCounter
             L == Len(mTable)
             new == mFunctionBodyNewScope
             y == [id |-> n + 1, isFunction |-> FALSE]
             e == [name |-> x, scope |-> Scope, symbol |-> y]
             Decl == [name : Name, scope : Nat, symbol : SymbolUpTo(n + 1)]
  <2>1. /\ n \in Nat /\ n + 1 \in Nat /\ L \in Nat /\ L \in 1..L /\ Scope \in Nat
        /\ AtDeclaration /\ InLevel(Scope, L, new)
    <3>1. n \in Nat /\ AtDeclaration BY Zenon DEF ScopeInv, declareVariable
    <3>2. n + 1 \in Nat BY Zenon, <3>1, NextNat
    <3>3. L \in Nat /\ L \in 1..L BY Zenon, <3>1, TopExists
    <3>4. Scope \in Nat /\ InLevel(Scope, L, new) BY Zenon, <3>1, ScopeIsTop
    <3> QED BY Zenon, <3>1, <3>2, <3>3, <3>4
  <2>2. /\ mUniqueIdCounter' = n + 1 /\ mTable' = insertAt(mTable, L, x, y)
        /\ UNCHANGED <<mFunctionBodyNewScope, mDeclaringFunction, open, mShaderVersion>>
        /\ decls' = IF Clashes(x, Scope) THEN decls ELSE decls \cup {e}
    BY DEF declareVariable, declare, functionVars
  <2>3. mTable \in Seq(Level(n + 1)) /\ SymbolUpTo(n) \subseteq SymbolUpTo(n + 1)
    <3>1. n <= n + 1 /\ mTable \in Seq(Level(n)) BY <2>1 DEF ScopeInv
    <3> QED BY <2>1, <3>1, LevelGrows
  <2>4. y \in SymbolUpTo(n + 1) /\ y # NoSymbol
    <3>1. y \in [id : Nat, isFunction : BOOLEAN] BY <2>1
    <3>2. y # NoSymbol BY Zenon, <3>1, SymbolAssumption
    <3> QED BY <2>1, <3>2 DEF SymbolUpTo
  <2>5. Clashes(x, Scope) <=> mTable[L][x] # NoSymbol BY <2>1, ClashIsTop
  <2>6. Scope' = Scope /\ AtDeclaration' BY <2>1, <2>2 DEF Scope, AtDeclaration
  <2>7. e \in Decl /\ e.name = x /\ e.scope = Scope /\ e.symbol = y BY <2>1, <2>4
  <2> HIDE DEF y, e, n
  <2>8. /\ Len(mTable') = L
        /\ \A i \in 1..L, j \in Name :
              mTable'[i][j] = IF i = L /\ j = x /\ mTable[L][x] = NoSymbol THEN y ELSE mTable[i][j]
    <3>1. x \in Key /\ \A j \in Name : j \in Key BY DEF Key
    <3>2. Len(insertAt(mTable, L, x, y)) = L BY Zenon, <2>1, <2>3, <2>4, <3>1, InsertType
    <3>3. \A i \in 1..L, j \in Key :
             insertAt(mTable, L, x, y)[i][j] =
                IF i = L /\ j = x /\ mTable[L][x] = NoSymbol THEN y ELSE mTable[i][j]
      <4>1. Inserted(mTable, insertAt(mTable, L, x, y), L, x, y)
        BY Zenon, <2>1, <2>3, <2>4, <3>1, InsertFacts
      <4> QED BY Zenon, <4>1 DEF Inserted
    <3> QED BY Zenon, <2>2, <3>1, <3>2, <3>3
  <2>9. \A d \in decls : /\ d \in Decl /\ d.scope <= Scope
                         /\ \E i \in 1..L : InLevel(d.scope, i, new) /\ mTable[i][d.name] = d.symbol
                         /\ d.name \in Name /\ d.symbol # NoSymbol
    <3>1. \A d \in decls : d \in [name : Name, scope : Nat, symbol : SymbolUpTo(n)]
      BY DEF NameInv, Names, n
    <3>2. \A d \in decls : d \in Decl BY <2>3, <3>1
    <3> QED BY Zenon, <3>2, NameTypes DEF NameInv, Names
  <2>10. \A i \in 1..L, j \in Name :
            mTable[i][j] # NoSymbol => \E d \in decls : d.name = j /\ InLevel(d.scope, i, new)
    BY DEF NameInv, Names
  <2> HIDE DEF L, new
  <2>11. ASSUME NEW d \in decls'
         PROVE  /\ d \in Decl /\ d.scope <= Scope
                /\ \E i \in 1..L : InLevel(d.scope, i, new) /\ mTable'[i][d.name] = d.symbol
    <3>1. CASE d \in decls
      <4>1. PICK i \in 1..L : InLevel(d.scope, i, new) /\ mTable[i][d.name] = d.symbol
        BY <2>9, <3>1
      <4>2. d.name \in Name /\ d.symbol # NoSymbol BY <2>9, <3>1
      <4>3. mTable'[i][d.name] = d.symbol BY <2>8, <4>1, <4>2
      <4> QED BY <2>9, <3>1, <4>1, <4>3
    <3>2. CASE d \notin decls
      <4>1. d = e /\ mTable[L][x] = NoSymbol BY <2>2, <2>5, <3>2
      <4>2. mTable'[L][x] = y BY <2>1, <2>8, <4>1
      <4> QED BY <2>1, <2>7, <4>1, <4>2
    <3> QED BY <3>1, <3>2
  <2>12. ASSUME NEW i \in 1..L, NEW j \in Name, mTable'[i][j] # NoSymbol
         PROVE  \E d \in decls' : d.name = j /\ InLevel(d.scope, i, new)
    <3>1. CASE i = L /\ j = x /\ mTable[L][x] = NoSymbol
      <4>1. e \in decls' BY <2>2, <2>5, <3>1
      <4> QED BY <2>1, <2>7, <3>1, <4>1
    <3>2. CASE ~ (i = L /\ j = x /\ mTable[L][x] = NoSymbol)
      <4>1. mTable[i][j] # NoSymbol BY <2>8, <2>12, <3>2
      <4>2. PICK d \in decls : d.name = j /\ InLevel(d.scope, i, new) BY <2>10, <4>1
      <4> QED BY <2>2, <4>2
    <3> QED BY <3>1, <3>2
  <2>13. open' # <<>> => (mFunctionBodyNewScope' <=> IsSpecWithFunctionBodyNewScope')
    BY Zenon, <2>2 DEF NameInv, IsSpecWithFunctionBodyNewScope
  <2>14. parsing' BY Zenon
  <2>15. mFunctionBodyNewScope' = new BY <2>2 DEF new
  <2>16. Len(mTable') = L /\ mUniqueIdCounter' = n + 1 BY <2>2, <2>8
  <2>17. Names(decls', mTable', mFunctionBodyNewScope', mUniqueIdCounter', Scope')
    BY Zenon, <2>6, <2>11, <2>12, <2>15, <2>16 DEF Names
  <2> QED BY Zenon, <2>6, <2>13, <2>14, <2>17 DEF NameInv
\* A header opens a level that no scope of the language has yet.
<1>NameHeader.
     ASSUME ScopeInv, NameInv, parsing, NEW sig \in Signature, NEW param \in Name \cup {NoName},
            function_header(sig, param), UNCHANGED parsing
     PROVE  NameInv'
  <2> USE <1>NameHeader
  <2> DEFINE n == mUniqueIdCounter
             m == mUniqueIdCounter'
             L == Len(mTable)
             new == mFunctionBodyNewScope
  <2>1. /\ n \in Nat /\ m \in Nat /\ n <= m /\ mTable \in Seq(Level(n)) /\ L \in Nat
        /\ EmptyLevel \in Level(n)
    BY EmptyLevelType DEF ScopeInv, function_header
  <2>2. /\ mTable' = Append(mTable, EmptyLevel)
        /\ UNCHANGED <<mFunctionBodyNewScope, open, mShaderVersion, decls>>
    BY DEF function_header, pushTable, historyVars
  <2>3. /\ Len(mTable') = L + 1 /\ \A i \in 1..L : mTable'[i] = mTable[i]
        /\ mTable'[L + 1] = EmptyLevel
    BY <2>1, <2>2
  <2>4. \A j \in Name : mTable'[L + 1][j] = NoSymbol BY <2>3 DEF EmptyLevel, Key
  <2>5. Scope' = Scope BY <2>2 DEF Scope
  <2>6. SymbolUpTo(n) \subseteq SymbolUpTo(m) BY <2>1, LevelGrows
  <2> HIDE DEF n, m
  <2>7. ASSUME NEW d \in decls
        PROVE  /\ d \in [name : Name, scope : Nat, symbol : SymbolUpTo(m)]
               /\ d.scope <= Scope
               /\ \E i \in 1..(L + 1) : InLevel(d.scope, i, new) /\ mTable'[i][d.name] = d.symbol
    <3>1. d \in [name : Name, scope : Nat, symbol : SymbolUpTo(n)] BY DEF NameInv, Names, n
    <3>2. PICK i \in 1..L : InLevel(d.scope, i, new) /\ mTable[i][d.name] = d.symbol
      BY DEF NameInv, Names
    <3>3. i \in 1..(L + 1) BY Zenon, <2>1, OneMore
    <3>4. mTable'[i][d.name] = d.symbol BY Zenon, <2>3, <3>2
    <3>5. d.scope <= Scope BY Zenon DEF NameInv, Names
    <3> QED BY Zenon, <2>6, <3>1, <3>2, <3>3, <3>4, <3>5
  <2>8. ASSUME NEW i \in 1..(L + 1), NEW j \in Name, mTable'[i][j] # NoSymbol
        PROVE  \E d \in decls : d.name = j /\ InLevel(d.scope, i, new)
    <3>1. i \in 1..L BY <2>1, <2>4, <2>8
    <3>2. mTable[i][j] # NoSymbol BY <2>3, <2>8, <3>1
    <3> QED BY <3>1, <3>2 DEF NameInv, Names
  <2>9. open' # <<>> => (mFunctionBodyNewScope' <=> IsSpecWithFunctionBodyNewScope')
    BY Zenon, <2>2 DEF NameInv, IsSpecWithFunctionBodyNewScope
  <2>10. parsing' BY Zenon
  <2>11. Names(decls', mTable', mFunctionBodyNewScope', mUniqueIdCounter', Scope')
    BY Zenon, <2>2, <2>3, <2>5, <2>7, <2>8 DEF Names, m
  <2>12. \A j \in Name : mTable'[Len(mTable')][j] = NoSymbol BY Zenon, <2>3, <2>4
  <2> QED BY Zenon, <2>9, <2>10, <2>11, <2>12 DEF NameInv
\* A prototype takes the level of its header away again.
<1>NamePrototype.
     ASSUME ScopeInv, NameInv, parsing, addFunctionPrototypeDeclaration, UNCHANGED parsing
     PROVE  NameInv'
  <2> USE <1>NamePrototype
  <2> DEFINE w == WithFunction(mTable)
             L == Len(mTable)
             new == mFunctionBodyNewScope
  <2>1. ~ AtDeclaration BY DEF addFunctionPrototypeDeclaration, AtDeclaration
  <2>2. L \in Nat /\ L >= 2 BY <2>1 DEF ScopeInv, Bit
  <2>3. w \in Seq(Level(mUniqueIdCounter)) /\ Len(w) = L BY <2>1, WithFunctionFacts
  <2>4. /\ mTable' = SubSeq(w, 1, Len(w) - 1) /\ decls' = DeclsWithFunction
        /\ UNCHANGED <<mUniqueIdCounter, mFunctionBodyNewScope, open, mShaderVersion>>
        /\ AtDeclaration'
    BY DEF addFunctionPrototypeDeclaration, popTable, AtDeclaration
  <2> HIDE DEF w
  <2>5. Len(mTable') = L - 1 /\ \A i \in 1..(L - 1) : mTable'[i] = w[i]
    <3>1. L - 1 \in 0..Len(w) BY <2>2, <2>3
    <3> QED BY <2>3, <2>4, <3>1, PrefixFacts
  <2>6. Scope' = Scope BY <2>4 DEF Scope
  <2>7. \A d \in DeclsWithFunction :
           /\ d \in [name : Name, scope : Nat, symbol : SymbolUpTo(mUniqueIdCounter)]
           /\ d.scope <= Scope
           /\ \E i \in 1..(L - 1) : InLevel(d.scope, i, new) /\ w[i][d.name] = d.symbol
    BY Zenon, <2>1, FunctionJoins DEF w
  <2>8. \A i \in 1..L, j \in Name :
           w[i][j] # NoSymbol =>
              \E d \in DeclsWithFunction : d.name = j /\ InLevel(d.scope, i, new)
    BY Zenon, <2>1, FunctionJoins DEF w
  <2>9. \A i \in 1..(L - 1) : i \in 1..L BY <2>2
  <2>10. open' # <<>> => (mFunctionBodyNewScope' <=> IsSpecWithFunctionBodyNewScope')
    BY Zenon, <2>4 DEF NameInv, IsSpecWithFunctionBodyNewScope
  <2>11. ASSUME NEW d \in DeclsWithFunction
         PROVE  \E i \in 1..(L - 1) : InLevel(d.scope, i, new) /\ mTable'[i][d.name] = d.symbol
    BY Zenon, <2>5, <2>7
  <2>12. ASSUME NEW i \in 1..(L - 1), NEW j \in Name, mTable'[i][j] # NoSymbol
         PROVE  \E d \in DeclsWithFunction : d.name = j /\ InLevel(d.scope, i, new)
    <3>1. i \in 1..L BY <2>9
    <3>2. w[i][j] # NoSymbol BY Zenon, <2>5, <2>12
    <3> QED BY Zenon, <2>8, <3>1, <3>2
  <2>13. Names(decls', mTable', mFunctionBodyNewScope', mUniqueIdCounter', Scope')
    BY Zenon, <2>4, <2>5, <2>6, <2>7, <2>11, <2>12 DEF Names
  <2>14. parsing' BY Zenon
  <2> QED BY Zenon, <2>4, <2>10, <2>13, <2>14 DEF NameInv
\* Names with a further level that is empty, and a scope further in.
<1>NamesPush.
     ASSUME NEW D, NEW n \in Nat, NEW t \in Seq(Level(n)), NEW b \in BOOLEAN, NEW top \in Nat,
            NEW top2 \in Nat, top <= top2, Names(D, t, b, n, top)
     PROVE  Names(D, pushTable(t), b, n, top2)
  <2> USE <1>NamesPush
  <2> DEFINE u == pushTable(t)
  <2>1. EmptyLevel \in Level(n) /\ Len(t) \in Nat BY EmptyLevelType
  <2>2. /\ Len(u) = Len(t) + 1 /\ \A i \in 1..Len(t) : u[i] = t[i]
        /\ u[Len(t) + 1] = EmptyLevel
    BY <2>1 DEF pushTable
  <2>3. \A j \in Name : u[Len(t) + 1][j] = NoSymbol BY <2>2 DEF EmptyLevel, Key
  <2> HIDE DEF u
  <2>4. ASSUME NEW d \in D
        PROVE  /\ d \in [name : Name, scope : Nat, symbol : SymbolUpTo(n)] /\ d.scope <= top2
               /\ \E i \in 1..Len(u) : InLevel(d.scope, i, b) /\ u[i][d.name] = d.symbol
    <3>1. d \in [name : Name, scope : Nat, symbol : SymbolUpTo(n)] /\ d.scope <= top
      BY DEF Names
    <3>2. PICK i \in 1..Len(t) : InLevel(d.scope, i, b) /\ t[i][d.name] = d.symbol BY DEF Names
    <3>3. i \in 1..Len(u) /\ u[i][d.name] = d.symbol BY <2>1, <2>2, <3>2
    <3>4. d.scope <= top2 BY <3>1
    <3> QED BY <3>1, <3>2, <3>3, <3>4
  <2>5. ASSUME NEW i \in 1..Len(u), NEW j \in Name, u[i][j] # NoSymbol
        PROVE  \E d \in D : d.name = j /\ InLevel(d.scope, i, b)
    <3>1. i \in 1..Len(t) BY <2>1, <2>2, <2>3, <2>5
    <3>2. t[i][j] # NoSymbol BY <2>2, <2>5, <3>1
    <3> QED BY <3>1, <3>2 DEF Names
  <2> QED BY Zenon, <2>4, <2>5 DEF Names, u
\* Names when all but the first m levels are left, with the scopes they held.
<1>NamesPop.
     ASSUME NEW E, NEW t, NEW m \in 0..Len(t), NEW c, NEW n, NEW top2, NEW D, NEW b, NEW top,
            Names(D, t, b, n, top), SplitAt(D, E, Len(t), b, c, m), t \in Seq(Level(n)),
            E \subseteq D, \A d \in E : d.scope <= top2
     PROVE  Names(E, SubSeq(t, 1, m), c, n, top2)
  <2> USE <1>NamesPop
  <2> DEFINE u == SubSeq(t, 1, m)
  <2>1. Len(u) = m /\ (\A i \in 1..m : u[i] = t[i] /\ i \in 1..Len(t) /\ i <= m)
    BY PrefixFacts
  <2> HIDE DEF u
  <2>2. ASSUME NEW d \in E
        PROVE  /\ d \in [name : Name, scope : Nat, symbol : SymbolUpTo(n)]
               /\ \E i \in 1..Len(u) : InLevel(d.scope, i, c) /\ u[i][d.name] = d.symbol
    <3>1. d \in D /\ d \in [name : Name, scope : Nat, symbol : SymbolUpTo(n)] BY DEF Names
    <3>2. PICK i \in 1..Len(t) : InLevel(d.scope, i, b) /\ t[i][d.name] = d.symbol
      BY <3>1 DEF Names
    <3>3. i <= m /\ InLevel(d.scope, i, c) BY Zenon, <3>1, <3>2 DEF SplitAt
    <3>4. i \in 1..Len(u)
      <4>1. i \in 1..m BY <3>3
      <4> QED BY Zenon, <2>1, <4>1
    <3>5. u[i][d.name] = d.symbol BY Zenon, <2>1, <3>2, <3>4
    <3> QED BY Zenon, <3>1, <3>3, <3>4, <3>5
  <2>3. ASSUME NEW i \in 1..Len(u), NEW j \in Name, u[i][j] # NoSymbol
        PROVE  \E d \in E : d.name = j /\ InLevel(d.scope, i, c)
    <3>1. i \in 1..Len(t) /\ i <= m /\ t[i][j] # NoSymbol BY Zenon, <2>1, <2>3
    <3>2. PICK d \in D : d.name = j /\ InLevel(d.scope, i, b) BY <3>1 DEF Names
    <3> QED BY Zenon, <3>1, <3>2 DEF SplitAt
  <2> QED BY Zenon, <2>2, <2>3 DEF Names, u
\* A definition's parameter joins the level of its header; ESSL 1.00 opens
\* another level for the body.
<1>NameDefinition.
     ASSUME ScopeInv, NameInv, parsing, parseFunctionDefinitionHeader, UNCHANGED parsing
     PROVE  NameInv'
  <2> USE <1>NameDefinition
  <2> DEFINE n == mUniqueIdCounter
             w == WithFunction(mTable)
             param == mDeclaringFunction.param
             y == [id |-> mDeclaringFunction.id + 1, isFunction |-> FALSE]
             t == IF param = NoName THEN w ELSE declare(w, param, y)
             scoped == IsSpecWithFunctionBodyNewScope
             e == [name |-> param, scope |-> 2, symbol |-> y]
             D == DeclsWithFunction
             E == decls'
             Decl == [name : Name, scope : Nat, symbol : SymbolUpTo(n)]
  <2>1. ~ AtDeclaration /\ open = <<>> /\ ~ mFunctionBodyNewScope /\ n \in Nat
    BY Zenon DEF parseFunctionDefinitionHeader, AtDeclaration, ScopeInv
  <2>2. Len(mTable) = 2 /\ Scope = 0 BY <2>1 DEF ScopeInv, Bit, Scope
  <2>3. w \in Seq(Level(n)) /\ Len(w) = 2 BY <2>1, <2>2, WithFunctionFacts
  <2>4. param # NoName => param \in Name /\ y \in SymbolUpTo(n)
    <3> DEFINE i == mDeclaringFunction.id
    <3>1. param \in Name \cup {NoName} /\ i \in 1..n BY Zenon, <2>1, HeaderFacts
    <3>2. param # NoName => i < n BY Zenon, <2>1 DEF ScopeInv
    <3>3. param # NoName => param \in Name BY Zenon, <3>1
    <3> HIDE DEF i, n
    <3>4. param # NoName => i + 1 \in 0..n BY <2>1, <3>1, <3>2
    <3>5. i + 1 \in 0..n => y \in SymbolUpTo(n) BY Zenon DEF SymbolUpTo, i
    <3> QED BY Zenon, <3>3, <3>4, <3>5
  <2>5. /\ mTable' = IF scoped THEN pushTable(t) ELSE t
        /\ mFunctionBodyNewScope' = (mFunctionBodyNewScope \/ scoped)
        /\ open' = <<"function">> /\ mDeclaringFunction' = NoFunction
        /\ UNCHANGED <<mUniqueIdCounter, mShaderVersion>>
    BY Zenon DEF parseFunctionDefinitionHeader
  <2>6. E = D \cup {[name |-> p, scope |-> 2, symbol |-> y] : p \in {param} \ {NoName}}
    BY Zenon DEF parseFunctionDefinitionHeader, ParameterScope
  <2>7. scoped \in BOOLEAN BY DEF IsSpecWithFunctionBodyNewScope
  <2>8. mFunctionBodyNewScope' = scoped BY <2>1, <2>5, <2>7
  <2>9. Scope' = 3
    <3>1. Len(open') = 1 /\ open' # <<>> BY <2>5
    <3> QED BY <3>1 DEF Scope
  <2>10. \A d \in D : d \in Decl /\ d.scope = 0 /\ w[1][d.name] = d.symbol
    <3> TAKE d \in D
    <3>1. /\ d \in Decl /\ d.scope <= 0
          /\ \E i \in 1..(Len(mTable) - 1) : w[i][d.name] = d.symbol
      BY Zenon, <2>1, <2>2, FunctionJoins
    <3>2. PICK i \in 1..(Len(mTable) - 1) : w[i][d.name] = d.symbol BY <3>1
    <3>3. i = 1 BY <2>2, <3>2
    <3>4. d.scope = 0 BY <3>1
    <3> QED BY Zenon, <3>1, <3>2, <3>3, <3>4
  <2>11. \A j \in Name : /\ w[1][j] # NoSymbol => \E d \in D : d.name = j
                         /\ w[2][j] = NoSymbol
    <3>1. 1 \in 1..Len(mTable) BY <2>2
    <3> QED BY Zenon, <2>1, <2>2, <3>1, FunctionJoins
  <2>12. e \in Decl <=> (param \in Name /\ y \in SymbolUpTo(n)) OBVIOUS
  <2>13. e.name = param /\ e.scope = 2 /\ e.symbol = y OBVIOUS
  <2>14. E = IF param = NoName THEN D ELSE D \cup {e}
    <3>1. CASE param = NoName BY Zenon, <2>6, <3>1
    <3>2. CASE param # NoName BY Zenon, <2>6, <3>2
    <3> QED BY <3>1, <3>2
  <2> HIDE DEF w, y, e, param, scoped, D, E
  <2>15. /\ t \in Seq(Level(n)) /\ Len(t) = 2
         /\ \A j \in Name : t[1][j] = w[1][j]
         /\ \A j \in Name : t[2][j] = IF param # NoName /\ j = param THEN y ELSE w[2][j]
    <3>1. CASE param = NoName BY <2>3, <3>1
    <3>2. CASE param # NoName
      <4>1. t = insertAt(w, 2, param, y) BY <2>3, <3>2 DEF declare
      <4>2. 2 \in 1..Len(w) /\ 1 \in 1..Len(w) /\ param \in Key /\ \A j \in Name : j \in Key
        BY <2>3, <2>4, <3>2 DEF Key
      <4>3. /\ insertAt(w, 2, param, y) \in Seq(Level(n)) /\ Len(insertAt(w, 2, param, y)) = Len(w)
            /\ Inserted(w, insertAt(w, 2, param, y), 2, param, y)
        BY Zenon, <2>1, <2>3, <2>4, <3>2, <4>2, InsertFacts
      <4>4. ASSUME NEW j \in Name
            PROVE  t[1][j] = w[1][j] /\ t[2][j] = IF j = param THEN y ELSE w[2][j]
        <5>1. \A i \in 1..Len(w), k \in Key :
                t[i][k] = IF i = 2 /\ k = param /\ w[2][param] = NoSymbol THEN y ELSE w[i][k]
          BY Zenon, <4>1, <4>3 DEF Inserted
        <5>2. w[2][param] = NoSymbol BY Zenon, <2>4, <2>11, <3>2
        <5>3. j \in Key BY Zenon, <4>2
        <5>4. t[1][j] = w[1][j] BY Zenon, <4>2, <5>1, <5>3, OneNotTwo
        <5>5. t[2][j] = IF j = param THEN y ELSE w[2][j] BY Zenon, <4>2, <5>1, <5>2, <5>3
        <5> QED BY Zenon, <5>4, <5>5
      <4> QED BY Zenon, <2>3, <3>2, <4>1, <4>3, <4>4
    <3> QED BY <3>1, <3>2
  <2> HIDE DEF t
  <2>16. Names(E, t, scoped, n, 3)
    <3>1. InLevel(0, 1, scoped) /\ InLevel(2, 2, scoped) BY DEF InLevel
    <3>2. 1 \in 1..Len(t) /\ 2 \in 1..Len(t) BY <2>15
    <3>3. ASSUME NEW d \in E
          PROVE  /\ d \in Decl /\ d.scope <= 3
                 /\ \E i \in 1..Len(t) : InLevel(d.scope, i, scoped) /\ t[i][d.name] = d.symbol
      <4>1. CASE d \in D
        <5>1. d \in Decl /\ d.scope = 0 /\ w[1][d.name] = d.symbol BY <2>10, <4>1
        <5>2. d.name \in Name BY <5>1
        <5>3. t[1][d.name] = d.symbol BY <2>15, <5>1, <5>2
        <5> QED BY <3>1, <3>2, <5>1, <5>3
      <4>2. CASE d \notin D
        <5>1. d = e /\ param # NoName BY <2>14, <4>2
        <5>2. d \in Decl /\ d.scope = 2 /\ d.name = param /\ d.symbol = y /\ param \in Name
          BY <2>4, <2>12, <2>13, <5>1
        <5>3. t[2][d.name] = d.symbol BY <2>15, <5>1, <5>2
        <5> QED BY <3>1, <3>2, <5>2, <5>3
      <4> QED BY <4>1, <4>2
    <3>4. ASSUME NEW i \in 1..Len(t), NEW j \in Name, t[i][j] # NoSymbol
          PROVE  \E d \in E : d.name = j /\ InLevel(d.scope, i, scoped)
      <4>1. CASE i = 1
        <5>1. w[1][j] # NoSymbol BY <2>15, <3>4, <4>1
        <5>2. PICK d \in D : d.name = j BY <2>11, <5>1
        <5>3. d.scope = 0 /\ d \in E BY <2>10, <2>14, <5>2
        <5> QED BY <3>1, <4>1, <5>2, <5>3
      <4>2. CASE i = 2
        <5>1. param # NoName /\ j = param BY <2>11, <2>15, <3>4, <4>2
        <5>2. e \in E BY <2>14, <5>1
        <5> QED BY <2>13, <3>1, <4>2, <5>1, <5>2
      <4> QED BY <2>15, <4>1, <4>2
    <3> QED BY Zenon, <3>3, <3>4 DEF Names
  <2>17. Names(E, mTable', scoped, n, 3)
    <3>1. CASE scoped
      <4>1. 3 \in Nat /\ 3 <= 3 OBVIOUS
      <4>2. Names(E, pushTable(t), scoped, n, 3)
        BY Zenon, <2>1, <2>7, <2>15, <2>16, <4>1, <1>NamesPush
      <4> QED BY Zenon, <2>5, <3>1, <4>2
    <3>2. CASE ~ scoped BY Zenon, <2>5, <2>16, <3>2
    <3> QED BY <3>1, <3>2
  <2>18. mFunctionBodyNewScope' <=> IsSpecWithFunctionBodyNewScope'
    <3>1. IsSpecWithFunctionBodyNewScope' <=> scoped
      BY Zenon, <2>5 DEF IsSpecWithFunctionBodyNewScope, scoped
    <3> QED BY Zenon, <2>8, <3>1
  <2>19. AtDeclaration' /\ parsing' BY <2>5 DEF AtDeclaration
  <2>20. mUniqueIdCounter' = n BY <2>5
  <2> QED BY Zenon, <2>8, <2>9, <2>17, <2>18, <2>19, <2>20 DEF NameInv, E
\* The end of a function takes the levels of its body and parameters away.
<1>NameLeaveFunction.
     ASSUME ScopeInv, NameInv, parsing, addFunctionDefinition, UNCHANGED parsing
     PROVE  NameInv'
  <2> USE <1>NameLeaveFunction
  <2> DEFINE n == mUniqueIdCounter
             b == mFunctionBodyNewScope
             E == Outside(decls, 1)
  <2>1. /\ open = <<"function">> /\ open' = <<>> /\ mDeclaringFunction = NoFunction
        /\ mFunctionBodyNewScope' = FALSE /\ decls' = E
        /\ mTable' = SubSeq(mTable, 1, Len(mTable) - (IF b THEN 2 ELSE 1))
        /\ UNCHANGED <<mUniqueIdCounter, mDeclaringFunction>>
    BY DEF addFunctionDefinition, AtDeclaration
  <2>2. AtDeclaration /\ AtDeclaration' /\ parsing' BY <2>1 DEF AtDeclaration
  <2>3. /\ n \in Nat /\ mTable \in Seq(Level(n)) /\ b \in BOOLEAN /\ Len(mTable) \in Nat
        /\ Len(open) = 1 /\ Scope \in Nat
    BY <2>1, NameTypes DEF ScopeInv
  <2>4. Len(mTable) - (IF b THEN 2 ELSE 1) = 1 /\ 1 \in 0..Len(mTable)
    BY <2>1, <2>2, <2>3 DEF ScopeInv, Bit
  <2>5. mTable' = SubSeq(mTable, 1, 1) BY Zenon, <2>1, <2>4
  <2>6. Names(decls, mTable, b, n, Scope) BY DEF NameInv
  <2>7. E \in SUBSET decls /\ \A d \in decls : d \in E <=> d.scope < 2 * 1
    BY DEF Outside
  <2>8. ASSUME NEW d \in decls, NEW i \in 1..Len(mTable), InLevel(d.scope, i, b)
        PROVE  (d \in E <=> i <= 1) /\ (i <= 1 => InLevel(d.scope, i, FALSE))
    <3>1. d.scope \in Nat /\ 1 \in 1..Len(open) /\ 1 \in Nat BY <2>3, NameTypes
    <3>2. d.scope < 2 * 1 <=> i <= 1
      BY <2>2, <2>8, <3>1, OutsideLevels
    <3>3. i <= 1 => InLevel(d.scope, i, FALSE) BY <2>3, <2>8, <3>1 DEF InLevel, Bit
    <3> QED BY Zenon, <2>7, <3>2, <3>3
  <2>9. \A d \in E : d.scope <= 0
    <3> TAKE d \in E
    <3>1. d \in decls /\ d.scope < 2 * 1 /\ d.scope \in Nat BY <2>7, NameTypes
    <3>2. PICK i \in 1..Len(mTable) : InLevel(d.scope, i, b) BY <3>1 DEF NameInv, Names
    <3> QED BY <2>3, <3>1, <3>2 DEF InLevel
  <2> HIDE DEF E, b, n
  <2>10. Names(E, SubSeq(mTable, 1, 1), FALSE, n, 0)
    <3>1. FALSE \in BOOLEAN /\ 0 \in Nat OBVIOUS
    <3>2. SplitAt(decls, E, Len(mTable), b, FALSE, 1) BY Zenon, <2>8 DEF SplitAt
    <3> QED BY Zenon, <2>3, <2>4, <2>6, <2>7, <2>9, <3>1, <3>2, <1>NamesPop
  <2>11. Scope' = 0 BY <2>1 DEF Scope
  <2>12. mUniqueIdCounter' = n BY <2>1 DEF n
  <2> QED BY Zenon, <2>1, <2>2, <2>5, <2>10, <2>11, <2>12 DEF NameInv
\* A construct opens a level and a scope.
<1>NameEnter.
     ASSUME ScopeInv, NameInv, parsing, NEW construct \in Construct, enter(construct),
            UNCHANGED parsing
     PROVE  NameInv'
  <2> USE <1>NameEnter
  <2>1. /\ mTable' = pushTable(mTable) /\ open # <<>> /\ open' = Append(open, construct)
        /\ mDeclaringFunction = NoFunction
        /\ UNCHANGED <<mUniqueIdCounter, mFunctionBodyNewScope, mDeclaringFunction, mShaderVersion,
                       decls>>
    BY DEF enter, EnterScope, AtStatement, AtDeclaration, functionVars, historyVars
  <2>2. Scope' \in Nat /\ Scope \in Nat /\ Scope <= Scope'
    <3>1. Len(open) \in Nat /\ Len(open') = Len(open) + 1 /\ open' # <<>> BY <2>1 DEF ScopeInv
    <3> QED BY <2>1, <3>1 DEF Scope
  <2>3. /\ mUniqueIdCounter \in Nat /\ mTable \in Seq(Level(mUniqueIdCounter))
        /\ mFunctionBodyNewScope \in BOOLEAN
    BY DEF ScopeInv
  <2>4. Names(decls, mTable, mFunctionBodyNewScope, mUniqueIdCounter, Scope) BY DEF NameInv
  <2>5. Names(decls, pushTable(mTable), mFunctionBodyNewScope, mUniqueIdCounter, Scope')
    BY Zenon, <2>2, <2>3, <2>4, <1>NamesPush
  <2>6. Names(decls', mTable', mFunctionBodyNewScope', mUniqueIdCounter', Scope')
    BY Zenon, <2>1, <2>5
  <2>7. mFunctionBodyNewScope' <=> IsSpecWithFunctionBodyNewScope'
    BY Zenon, <2>1 DEF NameInv, IsSpecWithFunctionBodyNewScope
  <2>8. AtDeclaration' /\ parsing' BY <2>1 DEF AtDeclaration
  <2> QED BY Zenon, <2>6, <2>7, <2>8 DEF NameInv
\* The end of a construct takes its level and its scope away.
<1>NameExit.
     ASSUME ScopeInv, NameInv, parsing, exit, UNCHANGED parsing
     PROVE  NameInv'
  <2> USE <1>NameExit
  <2> DEFINE n == mUniqueIdCounter
             b == mFunctionBodyNewScope
             k == Len(open)
             m == Len(mTable) - 1
             E == Outside(decls, k)
  <2>1. /\ open # <<>> /\ open[k] # "function" /\ open' = SubSeq(open, 1, k - 1)
        /\ mDeclaringFunction = NoFunction /\ decls' = E
        /\ mTable' = SubSeq(mTable, 1, m)
        /\ UNCHANGED <<mUniqueIdCounter, mDeclaringFunction, mFunctionBodyNewScope, mShaderVersion>>
    BY DEF exit, LeaveScope, popTable, AtStatement, AtDeclaration, functionVars
  <2>2. AtDeclaration /\ AtDeclaration' /\ parsing' BY <2>1 DEF AtDeclaration
  <2>3. /\ n \in Nat /\ mTable \in Seq(Level(n)) /\ b \in BOOLEAN /\ Len(mTable) \in Nat
        /\ k \in Nat /\ Scope \in Nat /\ open \in Seq(Construct)
    BY NameTypes DEF ScopeInv
  <2>4. k >= 2
    <3>1. open[1] = "function" BY <2>1 DEF ScopeInv
    <3>2. k # 0 BY <2>1, <2>3
    <3>3. k # 1 BY <2>1, <3>1
    <3> HIDE DEF k
    <3> QED BY <2>3, <3>2, <3>3
  <2>5. m = k + Bit(b) /\ Bit(b) \in 0..1 BY <2>1, <2>2, <2>3 DEF ScopeInv, Bit
  <2>6. m \in Nat /\ m \in 0..Len(mTable) /\ k \in 1..Len(open) /\ k # 1
    <3>1. m = Len(mTable) - 1 /\ k = Len(open) OBVIOUS
    <3> HIDE DEF m, k, b
    <3>2. m \in Nat /\ k # 1 BY <2>3, <2>4, <2>5
    <3>3. m \in 0..Len(mTable) BY <2>3, <3>1, <3>2
    <3>4. k \in 1..k BY <2>3, <2>4
    <3> QED BY Zenon, <3>1, <3>2, <3>3, <3>4
  <2>7. Scope' = 2 * k - 1 /\ Scope' \in Nat
    <3>1. Len(open') = k - 1 /\ open' # <<>>
      <4>1. k - 1 \in 0..Len(open) BY <2>3, <2>4
      <4>2. Len(open') = k - 1 BY Zenon, <2>1, <2>3, <4>1, PrefixFacts
      <4>3. k - 1 # 0
        <5> HIDE DEF k
        <5> QED BY <2>3, <2>4
      <4>4. open' # <<>> BY <4>2, <4>3
      <4> QED BY <4>2, <4>4
    <3>2. Scope' = 2 * (k - 1) + 1 BY Zenon, <3>1 DEF Scope
    <3> QED BY <2>3, <2>4, <3>2
  <2>8. Names(decls, mTable, b, n, Scope) BY DEF NameInv
  <2>9. E \in SUBSET decls /\ \A d \in decls : d \in E <=> d.scope < 2 * k BY DEF Outside
  <2>10. ASSUME NEW d \in decls, NEW i \in 1..Len(mTable), InLevel(d.scope, i, b)
         PROVE  (d \in E <=> i <= m) /\ (i <= m => InLevel(d.scope, i, b))
    <3>1. d.scope \in Nat BY NameTypes
    <3>2. m = IF k = 1 THEN 1 ELSE k + Bit(b) BY Zenon, <2>5, <2>6
    <3>3. d.scope < 2 * k <=> i <= m
      BY Zenon, <2>2, <2>6, <2>10, <3>1, <3>2, OutsideLevels
    <3> QED BY Zenon, <2>9, <2>10, <3>3
  <2>11. \A d \in E : d.scope <= Scope'
    <3> TAKE d \in E
    <3>1. d \in decls /\ d.scope < 2 * k /\ d.scope \in Nat BY <2>9, NameTypes
    <3> QED BY <2>3, <2>7, <3>1
  <2> HIDE DEF E, b, n, m, k
  <2>12. Names(E, SubSeq(mTable, 1, m), b, n, Scope')
    <3>1. SplitAt(decls, E, Len(mTable), b, b, m) BY Zenon, <2>10 DEF SplitAt
    <3> QED BY Zenon, <2>3, <2>6, <2>7, <2>8, <2>9, <2>11, <3>1, <1>NamesPop
  <2>13. mUniqueIdCounter' = n /\ mFunctionBodyNewScope' = b BY <2>1 DEF n, b
  <2>14. Names(decls', mTable', mFunctionBodyNewScope', mUniqueIdCounter', Scope')
    BY Zenon, <2>1, <2>12, <2>13
  <2>15. mFunctionBodyNewScope' <=> IsSpecWithFunctionBodyNewScope'
    BY Zenon, <2>1 DEF NameInv, IsSpecWithFunctionBodyNewScope
  <2> QED BY Zenon, <2>2, <2>14, <2>15 DEF NameInv
\* The steps that neither declare a name nor open or close a scope.
<1>NameUnchanged.
     ASSUME NameInv, UNCHANGED <<mTable, mUniqueIdCounter, mFunctionBodyNewScope, mDeclaringFunction,
                                 mShaderVersion, open, decls, parsing>>
     PROVE  NameInv'
  <2> USE <1>NameUnchanged
  <2>1. Scope' = Scope /\ (AtDeclaration' <=> AtDeclaration)
    BY DEF Scope, AtDeclaration
  <2>2. IsSpecWithFunctionBodyNewScope' <=> IsSpecWithFunctionBodyNewScope
    BY Zenon DEF IsSpecWithFunctionBodyNewScope
  <2>3. Names(decls', mTable', mFunctionBodyNewScope', mUniqueIdCounter', Scope')
    BY Zenon, <2>1 DEF NameInv
  <2> QED BY Zenon, <2>1, <2>2, <2>3 DEF NameInv
<1> SUFFICES ASSUME ScopeInv, NameInv, [Next]_vars PROVE NameInv' OBVIOUS
<1>1. CASE \E version \in {100, 320} : compile(version)
  <2> PICK version \in {100, 320} : compile(version) BY <1>1
  <2>1. mTable = <<>> /\ open = <<>> /\ mDeclaringFunction = NoFunction /\ decls = {}
    BY Zenon DEF compile, ScopeInv, NameInv, AtDeclaration
  <2>2. /\ decls' = {} /\ open' = <<>> /\ mDeclaringFunction' = NoFunction
        /\ mTable' = Append(<<>>, EmptyLevel)
    BY Zenon, <2>1 DEF compile, pushTable, functionVars, historyVars
  <2>3. Len(mTable') = 1 /\ mTable'[1] = EmptyLevel BY <2>2
  <2>4. \A i \in 1..Len(mTable'), name \in Name : mTable'[i][name] = NoSymbol
    BY <2>3 DEF EmptyLevel, Key
  <2>5. Names(decls', mTable', mFunctionBodyNewScope', mUniqueIdCounter', Scope')
    <3>1. decls' = {} BY <2>2
    <3> QED BY Zenon, <2>4, <3>1, NamesEmpty
  <2> QED BY Zenon, <2>2, <2>5 DEF NameInv, AtDeclaration
<1>2. CASE parsing /\ Parse /\ UNCHANGED <<parsing, mVariablesCollected>>
  <2>1. CASE \E x \in Name : declareVariable(x) BY Zenon, <1>2, <2>1, <1>NameDeclare
  <2>2. CASE \E prec \in Precision : parseDefaultPrecisionQualifier(prec)
    <3>1. UNCHANGED <<mTable, mUniqueIdCounter, mFunctionBodyNewScope, mDeclaringFunction,
                      mShaderVersion, open, decls, parsing>>
      BY <1>2, <2>2 DEF parseDefaultPrecisionQualifier, contextVars
    <3> QED BY Zenon, <3>1, <1>NameUnchanged
  <2>3. CASE \E name \in Name, invariant \in BOOLEAN :
                parseGlobalQualifierDeclaration(name, invariant)
    <3>1. UNCHANGED <<mTable, mUniqueIdCounter, mFunctionBodyNewScope, mDeclaringFunction,
                      mShaderVersion, open, decls, parsing>>
      BY <1>2, <2>3 DEF parseGlobalQualifierDeclaration, functionVars, historyVars
    <3> QED BY Zenon, <3>1, <1>NameUnchanged
  <2>4. CASE \E sig \in Signature, param \in Name \cup {NoName} : function_header(sig, param)
    BY Zenon, <1>2, <2>4, <1>NameHeader
  <2>5. CASE addFunctionPrototypeDeclaration BY Zenon, <1>2, <2>5, <1>NamePrototype
  <2>6. CASE parseFunctionDefinitionHeader BY Zenon, <1>2, <2>6, <1>NameDefinition
  <2>7. CASE addFunctionDefinition BY Zenon, <1>2, <2>7, <1>NameLeaveFunction
  <2>8. CASE \E construct \in Construct \ {"function"} : enter(construct)
    BY Zenon, <1>2, <2>8, <1>NameEnter
  <2>9. CASE exit BY Zenon, <1>2, <2>9, <1>NameExit
  <2>10. CASE \E op \in {"break", "continue"} : addBranch(op)
    <3>1. UNCHANGED <<mTable, mUniqueIdCounter, mFunctionBodyNewScope, mDeclaringFunction,
                      mShaderVersion, open, decls, parsing>>
      BY <1>2, <2>10 DEF addBranch, tableVars, functionVars, historyVars
    <3> QED BY Zenon, <3>1, <1>NameUnchanged
  <2> QED BY Zenon, <1>2, <2>1, <2>2, <2>3, <2>4, <2>5, <2>6, <2>7, <2>8, <2>9, <2>10 DEF Parse
<1>3. CASE Leave
  <2>1. decls' = {} /\ open' = <<>> /\ mDeclaringFunction' = NoFunction /\ mTable' = <<>>
    BY Zenon, <1>3 DEF Leave
  <2>2. \A i \in 1..Len(mTable') : FALSE BY <2>1
  <2>3. Names(decls', mTable', mFunctionBodyNewScope', mUniqueIdCounter', Scope')
    BY Zenon, <2>1, <2>2, NamesEmpty
  <2> QED BY Zenon, <2>1, <2>3 DEF NameInv, AtDeclaration
<1>4. CASE UNCHANGED vars
  <2>1. UNCHANGED <<mTable, mUniqueIdCounter, mFunctionBodyNewScope, mDeclaringFunction,
                    mShaderVersion, open, decls, parsing>>
    BY <1>4 DEF vars, parseVars, tableVars, contextVars, historyVars
  <2> QED BY Zenon, <2>1, <1>NameUnchanged
<1> QED
  BY Zenon, <1>1, <1>2, <1>3, <1>4 DEF Next, syntaxError, parseFails, checkAndSimplifyAST

\* NameInv holds throughout.
LEMMA NamesHeld == Spec => [](ScopeInv /\ NameInv)
<1>1. Init => NameInv
  <2> SUFFICES ASSUME Init PROVE NameInv OBVIOUS
  <2>1. mTable = <<>> /\ decls = {} /\ open = <<>> /\ AtDeclaration BY DEF Init, AtDeclaration
  <2>2. \A i \in 1..Len(mTable) : FALSE BY <2>1
  <2>3. Names(decls, mTable, mFunctionBodyNewScope, mUniqueIdCounter, Scope)
    BY Zenon, <2>1, <2>2, NamesEmpty
  <2> QED BY Zenon, <2>1, <2>3 DEF NameInv
<1>2. ScopeInv /\ NameInv /\ [Next]_vars => NameInv' BY NameStep
<1> QED BY <1>1, <1>2, ScopesBalanced, PTL DEF Spec

-----------------------------------------------------------------------------
(* Duplicates                                                              *)

\* A step that reports another error, or none, and no clash.
LEMMA ClashUnchanged ==
  ASSUME ClashInv, parsing, parsing', clash' = clash,
         mErrors' = mErrors \/ mErrors' = mErrors \cup {"other"}
  PROVE  ClashInv'
<1>1. "redefinition" \in mErrors' <=> "redefinition" \in mErrors OBVIOUS
<1> QED BY Zenon, <1>1 DEF ClashInv, DuplicatesRejected

\* A function that takes a variable's name clashes exactly when it is refused.
LEMMA ClashFunction ==
  ASSUME ScopeInv, NameInv, ClashInv, parsing, parsing', ~ AtDeclaration,
         NEW failed \in BOOLEAN, FunctionErrors(failed), FunctionClash
  PROVE  ClashInv'
<1> DEFINE hides == HidesVariable(findUserDefined(mTable, FunctionName))
<1>1. findUserDefined(mTable, FunctionName) = LexicalFind(FunctionName)
  BY Zenon, HeaderFacts, Resolve
<1>2. clash' = (clash \/ hides) BY Zenon, <1>1 DEF FunctionClash
<1>3. mErrors' = mErrors \cup (IF hides THEN {"redefinition"} ELSE {})
                         \cup (IF failed THEN {"other"} ELSE {})
  BY Zenon DEF FunctionErrors
<1>4. hides \in BOOLEAN BY Zenon DEF HidesVariable
<1> HIDE DEF hides
<1>5. "redefinition" \in mErrors' <=> "redefinition" \in mErrors \/ hides BY <1>3, <1>4
<1>6. clash' \in BOOLEAN /\ (clash' <=> clash \/ hides) BY Zenon, <1>2 DEF ClashInv
<1> QED BY Zenon, <1>5, <1>6 DEF ClashInv, DuplicatesRejected

\* Every step reports a redefinition exactly when a scope declares twice.
LEMMA ClashStep ==
  ASSUME ScopeInv, NameInv, ClashInv, [Next]_vars
  PROVE  ClashInv'
<1>1. CASE \E version \in {100, 320} : compile(version)
  <2>1. ~ parsing /\ mErrors' = {} /\ clash' = clash BY Zenon, <1>1 DEF compile, historyVars
  <2>2. "redefinition" \notin mErrors' BY <2>1
  <2>3. parsing' /\ ~ clash' /\ clash' \in BOOLEAN BY Zenon, <1>1, <2>1 DEF compile, ClashInv
  <2> QED BY Zenon, <2>2, <2>3 DEF ClashInv, DuplicatesRejected
<1>2. CASE parsing /\ Parse /\ UNCHANGED <<parsing, mVariablesCollected>>
  <2>0. parsing /\ parsing' BY Zenon, <1>2
  <2>1. CASE \E name \in Name : declareVariable(name)
    <3> PICK name \in Name : declareVariable(name) BY <2>1
    <3>1. AtDeclaration BY DEF declareVariable
    <3>2. Clashes(name, Scope) <=> ~ canDeclare(mTable, name)
      BY Zenon, <2>0, <3>1, ClashIsTop DEF canDeclare
    <3>3. mErrors' = IF ~ canDeclare(mTable, name) THEN mErrors \cup {"redefinition"} ELSE mErrors
      BY Zenon DEF declareVariable, error
    <3>4. IF Clashes(name, Scope) THEN clash' = TRUE ELSE clash' = clash
      BY Zenon DEF declareVariable
    <3>5. CASE Clashes(name, Scope)
      <4>1. "redefinition" \in mErrors' BY <3>2, <3>3, <3>5
      <4> QED BY Zenon, <2>0, <3>4, <3>5, <4>1 DEF ClashInv, DuplicatesRejected
    <3>6. CASE ~ Clashes(name, Scope)
      <4>1. mErrors' = mErrors /\ clash' = clash BY Zenon, <3>2, <3>3, <3>4, <3>6
      <4> QED BY Zenon, <2>0, <4>1, ClashUnchanged
    <3> QED BY Zenon, <3>5, <3>6
  <2>2. CASE \E prec \in Precision : parseDefaultPrecisionQualifier(prec)
    <3>1. mErrors' = mErrors /\ clash' = clash
      BY Zenon, <2>2 DEF parseDefaultPrecisionQualifier, contextVars
    <3> QED BY Zenon, <2>0, <3>1, ClashUnchanged
  <2>3. CASE \E name \in Name, invariant \in BOOLEAN :
                parseGlobalQualifierDeclaration(name, invariant)
    <3>1. /\ mErrors' = mErrors \/ mErrors' = mErrors \cup {"other"}
          /\ clash' = clash
      BY <2>3 DEF parseGlobalQualifierDeclaration, historyVars, error
    <3> QED BY Zenon, <2>0, <3>1, ClashUnchanged
  <2>4. CASE \E sig \in Signature, param \in Name \cup {NoName} : function_header(sig, param)
    <3>1. mErrors' = mErrors /\ clash' = clash BY Zenon, <2>4 DEF function_header, historyVars
    <3> QED BY Zenon, <2>0, <3>1, ClashUnchanged
  <2>5. CASE addFunctionPrototypeDeclaration
    <3> DEFINE failed == \/ mDeclaringFunction.sig \in hasPrototype /\ mShaderVersion = 100
                         \/ ~ atGlobalLevel(mTable')
    <3>1. FunctionErrors(failed) /\ FunctionClash /\ ~ AtDeclaration
      BY Zenon, <2>5 DEF addFunctionPrototypeDeclaration, AtDeclaration
    <3>2. failed \in BOOLEAN BY Zenon
    <3> HIDE DEF failed
    <3> QED BY Zenon, <2>0, <3>1, <3>2, ClashFunction
  <2>6. CASE parseFunctionDefinitionHeader
    <3> DEFINE failed == mDeclaringFunction.sig \in isDefined
    <3>1. FunctionErrors(failed) /\ FunctionClash /\ ~ AtDeclaration
      BY Zenon, <2>6 DEF parseFunctionDefinitionHeader, AtDeclaration
    <3>2. failed \in BOOLEAN OBVIOUS
    <3> HIDE DEF failed
    <3> QED BY Zenon, <2>0, <3>1, <3>2, ClashFunction
  <2>7. CASE addFunctionDefinition
    <3>1. mErrors' = mErrors /\ clash' = clash BY Zenon, <2>7 DEF addFunctionDefinition
    <3> QED BY Zenon, <2>0, <3>1, ClashUnchanged
  <2>8. CASE \E construct \in Construct \ {"function"} : enter(construct)
    <3>1. mErrors' = mErrors /\ clash' = clash BY Zenon, <2>8 DEF enter, historyVars
    <3> QED BY Zenon, <2>0, <3>1, ClashUnchanged
  <2>9. CASE exit
    <3>1. mErrors' = mErrors /\ clash' = clash BY Zenon, <2>9 DEF exit
    <3> QED BY Zenon, <2>0, <3>1, ClashUnchanged
  <2>10. CASE \E op \in {"break", "continue"} : addBranch(op)
    <3>1. /\ mErrors' = mErrors \/ mErrors' = mErrors \cup {"other"}
          /\ clash' = clash
      BY <2>10 DEF addBranch, historyVars, error
    <3> QED BY Zenon, <2>0, <3>1, ClashUnchanged
  <2> QED BY Zenon, <1>2, <2>1, <2>2, <2>3, <2>4, <2>5, <2>6, <2>7, <2>8, <2>9, <2>10 DEF Parse
<1>3. CASE Leave
  <2>1. clash' = FALSE /\ parsing' = FALSE BY Zenon, <1>3 DEF Leave
  <2> QED BY Zenon, <2>1 DEF ClashInv, DuplicatesRejected
<1>4. CASE UNCHANGED vars
  <2>1. clash' = clash /\ parsing' = parsing /\ mErrors' = mErrors
    BY Zenon, <1>4 DEF vars, parseVars, contextVars, historyVars
  <2> QED BY Zenon, <2>1 DEF ClashInv, DuplicatesRejected
<1> QED
  BY Zenon, <1>1, <1>2, <1>3, <1>4 DEF Next, syntaxError, parseFails, checkAndSimplifyAST

\* "redefinition" is reported exactly when a scope declares a name twice, for
\* every set of names, at every nesting and in every version
\* (TParseContext::declareVariable, parseFunctionDeclarator).
THEOREM Duplicates == Spec => []DuplicatesRejected
<1>1. Init => ClashInv BY Zenon DEF Init, ClashInv, DuplicatesRejected
<1>2. ScopeInv /\ NameInv /\ ClashInv /\ [Next]_vars => ClashInv' BY ClashStep
<1>3. ClashInv => DuplicatesRejected BY DEF ClashInv
<1> QED BY <1>1, <1>2, <1>3, NamesHeld, PTL DEF Spec

-----------------------------------------------------------------------------
(* Default precisions                                                      *)

\* The types in PrecisionInv.
LEMMA PrecisionTypes ==
  ASSUME ScopeInv, PrecisionInv
  PROVE  /\ Scope \in Nat /\ NoPrecision \notin Precision
         /\ mPrecisionStack \in Seq(Precision \cup {NoPrecision})
         /\ Len(mPrecisionStack) \in Nat /\ Len(mPrecisionStack) >= 1
         /\ Len(mPrecisionStack) - 1 = Len(mTable) /\ Len(mTable) \in Nat
         /\ mFunctionBodyNewScope \in BOOLEAN
         /\ \A p \in precisions : p.scope \in Nat /\ p.scope <= Scope /\ p.prec \in Precision
<1>1. Scope \in Nat BY DEF Scope, ScopeInv
<1>2. /\ mPrecisionStack \in Seq(Precision \cup {NoPrecision})
      /\ Len(mTable) \in Nat /\ Len(mPrecisionStack) = Len(mTable) + 1
      /\ mFunctionBodyNewScope \in BOOLEAN
  BY DEF ScopeInv
<1>3. \A p \in precisions : p.scope \in Nat /\ p.scope <= Scope /\ p.prec \in Precision
  BY DEF PrecisionInv, Stated
<1> QED BY <1>1, <1>2, <1>3, SymbolAssumption

\* getDefaultPrecision() gives the innermost precision statement.
LEMMA ResolvePrecision ==
  ASSUME ScopeInv, PrecisionInv
  PROVE  getDefaultPrecision(mPrecisionStack) = LexicalPrecision
<1> DEFINE q == mPrecisionStack
           S == {i \in 1..Len(q) : q[i] # NoPrecision}
           b == mFunctionBodyNewScope
<1>1. getDefaultPrecision(q) = q[Topmost(S)] BY DEF getDefaultPrecision
<1>2. Len(q) \in Nat /\ Len(q) >= 1 /\ q[1] = BuiltInPrecision /\ 1 \in S /\ b \in BOOLEAN
  <2>1. Len(q) \in Nat /\ Len(q) >= 1 /\ b \in BOOLEAN BY Zenon, PrecisionTypes
  <2>2. q[1] = BuiltInPrecision BY Zenon DEF ScopeInv
  <2>3. 1 \in 1..Len(q) BY <2>1
  <2> QED BY Zenon, <2>1, <2>2, <2>3, SymbolAssumption
<1>3. Topmost(S) \in S /\ \A j \in S : j <= Topmost(S)
  <2>1. S \in SUBSET (1..Len(q)) /\ S # {} BY <1>2
  <2> HIDE DEF S
  <2> QED BY Zenon, <1>2, <2>1, TopmostFacts
<1>4. \A j \in S : j # 1 => \E p \in precisions : InLevel(p.scope, j - 1, b)
  <2> TAKE j \in S
  <2> HAVE j # 1
  <2> DEFINE i == j - 1
  <2>1. i \in 1..(Len(q) - 1) /\ i + 1 = j BY <1>2
  <2>2. q[i + 1] # NoPrecision BY <2>1
  <2> HIDE DEF i
  <2>3. \E p \in precisions : InLevel(p.scope, i, b) BY Zenon, <2>1, <2>2 DEF PrecisionInv, Stated
  <2> QED BY Zenon, <2>3 DEF i
<1>5. CASE precisions = {}
  <2>1. Topmost(S) = 1 BY Zenon, <1>3, <1>4, <1>5
  <2> QED BY Zenon, <1>1, <1>2, <1>5, <2>1 DEF LexicalPrecision
<1>6. CASE precisions # {}
  <2> DEFINE p == Innermost(precisions)
  <2>1. p \in precisions /\ \A e \in precisions : e.scope <= p.scope
    <3>1. Scope \in Nat /\ \A e \in precisions : e.scope \in 0..Scope BY PrecisionTypes
    <3> QED BY Zenon, <1>6, <3>1, InnermostFacts
  <2> HIDE DEF p
  <2>2. PICK i \in 1..(Len(q) - 1) : InLevel(p.scope, i, b) /\ q[i + 1] = p.prec
    BY <2>1 DEF PrecisionInv, Stated
  <2>3. p.prec # NoPrecision BY <2>1, PrecisionTypes
  <2>4. i + 1 \in S BY <1>2, <2>2, <2>3
  <2>5. \A j \in S : j <= i + 1
    <3> TAKE j \in S
    <3>1. CASE j = 1 BY <1>2, <2>2, <3>1
    <3>2. CASE j # 1
      <4>1. PICK e \in precisions : InLevel(e.scope, j - 1, b) BY <1>4, <3>2
      <4>2. e.scope \in Nat /\ p.scope \in Nat /\ e.scope <= p.scope BY <2>1, PrecisionTypes
      <4>3. i \in Nat /\ j - 1 \in Nat /\ i >= 1 /\ j - 1 >= 1 BY <1>2, <3>2
      <4>4. j - 1 <= i
        <5> HIDE DEF S, b, q
        <5>1. b \in BOOLEAN BY Zenon, <1>2
        <5> QED BY <2>2, <4>1, <4>2, <4>3, <5>1, LevelsOrdered
      <4> QED BY <1>2, <4>3, <4>4
    <3> QED BY <3>1, <3>2
  <2>6. Topmost(S) = i + 1
    <3>1. Topmost(S) <= i + 1 /\ i + 1 <= Topmost(S) BY <1>3, <2>4, <2>5
    <3>2. Topmost(S) \in Nat /\ i + 1 \in Nat BY <1>3, <2>4
    <3> HIDE DEF S
    <3> QED BY <3>1, <3>2
  <2>7. getDefaultPrecision(q) = p.prec BY Zenon, <1>1, <2>2, <2>6
  <2> QED BY Zenon, <1>6, <2>7 DEF LexicalPrecision, p
<1> QED BY <1>5, <1>6

\* No precision statement, and levels that set none.
LEMMA StatedEmpty ==
  ASSUME NEW P, NEW q, NEW b, NEW top, P = {},
         \A i \in 1..(Len(q) - 1) : q[i + 1] = NoPrecision
  PROVE  Stated(P, q, b, top)
BY Zenon DEF Stated

\* Every step keeps the levels and the precision statements together.
LEMMA PrecisionStep ==
  ScopeInv /\ ScopeInv' /\ PrecisionInv /\ [Next]_vars => PrecisionInv'
\* Precision statements with a further level that sets none.
<1>StatedPush.
     ASSUME NEW P, NEW q \in Seq(Precision \cup {NoPrecision}), Len(q) >= 1, NEW b,
            NEW top2 \in Nat, NEW top \in Nat, top <= top2, Stated(P, q, b, top)
     PROVE  Stated(P, pushPrecision(q), b, top2)
  <2> USE <1>StatedPush
  <2> DEFINE u == pushPrecision(q)
  <2>1. /\ Len(q) \in Nat /\ Len(u) = Len(q) + 1 /\ \A i \in 1..Len(q) : u[i] = q[i]
        /\ u[Len(q) + 1] = NoPrecision
    BY PushPrecisionFacts
  <2> HIDE DEF u
  <2>2. ASSUME NEW p \in P
        PROVE  /\ p \in [scope : Nat, prec : Precision] /\ p.scope # 2 /\ p.scope <= top2
               /\ \E i \in 1..(Len(u) - 1) : InLevel(p.scope, i, b) /\ u[i + 1] = p.prec
    <3>1. p \in [scope : Nat, prec : Precision] /\ p.scope # 2 /\ p.scope <= top BY DEF Stated
    <3>2. PICK i \in 1..(Len(q) - 1) : InLevel(p.scope, i, b) /\ q[i + 1] = p.prec BY DEF Stated
    <3>3. i \in 1..(Len(u) - 1) /\ i + 1 \in 1..Len(q) BY <2>1
    <3>4. u[i + 1] = p.prec BY <2>1, <3>2, <3>3
    <3>5. p.scope <= top2 BY <3>1
    <3> QED BY Zenon, <3>1, <3>2, <3>3, <3>4, <3>5
  <2>3. ASSUME NEW i \in 1..(Len(u) - 1), u[i + 1] # NoPrecision
        PROVE  \E p \in P : InLevel(p.scope, i, b)
    <3>1. i # Len(q) BY <2>1, <2>3
    <3>2. i \in 1..(Len(q) - 1) /\ i + 1 \in 1..Len(q) BY <2>1, <3>1
    <3>3. q[i + 1] # NoPrecision BY <2>1, <2>3, <3>2
    <3> QED BY Zenon, <3>2, <3>3 DEF Stated
  <2> QED BY Zenon, <2>2, <2>3 DEF Stated, u
\* Precision statements when all but the first m scopes are left.
<1>StatedPop.
     ASSUME NEW E, NEW q, NEW m \in 0..(Len(q) - 1), NEW c, NEW top2, NEW P, NEW b, NEW top,
            Stated(P, q, b, top), SplitAt(P, E, Len(q) - 1, b, c, m),
            q \in Seq(Precision \cup {NoPrecision}), E \subseteq P, \A p \in E : p.scope <= top2
     PROVE  Stated(E, SubSeq(q, 1, m + 1), c, top2)
  <2> USE <1>StatedPop
  <2> DEFINE u == SubSeq(q, 1, m + 1)
  <2>1. Len(q) \in Nat /\ m \in Nat /\ m + 1 \in 0..Len(q) OBVIOUS
  <2>2. Len(u) = m + 1 /\ \A i \in 1..(m + 1) : u[i] = q[i] BY <2>1, PrefixFacts
  <2> HIDE DEF u
  <2>3. \A i \in 1..(Len(u) - 1) : /\ i \in 1..(Len(q) - 1) /\ i <= m
                                   /\ u[i + 1] = q[i + 1]
    <3> TAKE i \in 1..(Len(u) - 1)
    <3>1. Len(u) - 1 = m /\ i \in 1..m BY <2>1, <2>2
    <3>2. i \in 1..(Len(q) - 1) /\ i <= m /\ i + 1 \in 1..(m + 1) BY <2>1, <3>1
    <3> QED BY Zenon, <2>2, <3>2
  <2>4. ASSUME NEW p \in E
        PROVE  /\ p \in [scope : Nat, prec : Precision] /\ p.scope # 2
               /\ \E i \in 1..(Len(u) - 1) : InLevel(p.scope, i, c) /\ u[i + 1] = p.prec
    <3>1. p \in P /\ p \in [scope : Nat, prec : Precision] /\ p.scope # 2 BY DEF Stated
    <3>2. PICK i \in 1..(Len(q) - 1) : InLevel(p.scope, i, b) /\ q[i + 1] = p.prec
      BY <3>1 DEF Stated
    <3>3. i <= m /\ InLevel(p.scope, i, c) BY Zenon, <3>1, <3>2 DEF SplitAt
    <3>4. i \in 1..(Len(u) - 1)
      <4>1. i \in 1..((m + 1) - 1) BY <2>1, <3>3
      <4> QED BY Zenon, <2>2, <4>1
    <3>5. u[i + 1] = p.prec BY Zenon, <2>3, <3>2, <3>4
    <3> QED BY Zenon, <3>1, <3>3, <3>4, <3>5
  <2>5. ASSUME NEW i \in 1..(Len(u) - 1), u[i + 1] # NoPrecision
        PROVE  \E p \in E : InLevel(p.scope, i, c)
    <3>1. i \in 1..(Len(q) - 1) /\ i <= m /\ q[i + 1] # NoPrecision BY <2>3, <2>5
    <3>2. PICK p \in P : InLevel(p.scope, i, b) BY Zenon, <3>1 DEF Stated
    <3> QED BY Zenon, <3>1, <3>2 DEF SplitAt
  <2> QED BY Zenon, <2>4, <2>5 DEF Stated, u
\* A precision statement is recorded at the top level, for the current scope.
<1>PrecisionSet.
     ASSUME ScopeInv, PrecisionInv, parsing, NEW prec \in Precision,
            parseDefaultPrecisionQualifier(prec), UNCHANGED parsing
     PROVE  PrecisionInv'
  <2> USE <1>PrecisionSet
  <2> DEFINE q == mPrecisionStack
             l == Len(mPrecisionStack) - 1
             b == mFunctionBodyNewScope
             e == [scope |-> Scope, prec |-> prec]
  <2>1. /\ mPrecisionStack' = [q EXCEPT ![Len(q)] = prec]
        /\ precisions' = {p \in precisions : p.scope # Scope} \cup {e}
        /\ mDeclaringFunction = NoFunction
        /\ UNCHANGED <<mTable, mDeclaringFunction, mFunctionBodyNewScope, open>>
    BY DEF parseDefaultPrecisionQualifier, setDefaultPrecision, AtDeclaration, contextVars
  <2>2. AtDeclaration /\ AtDeclaration' /\ Scope' = Scope /\ parsing'
    BY <2>1 DEF AtDeclaration, Scope
  <2>3. /\ Scope \in Nat /\ b \in BOOLEAN /\ l = Len(mTable) /\ l \in Nat /\ l >= 1
        /\ InLevel(Scope, l, b) /\ Len(q) = l + 1 /\ Len(q) \in 1..Len(q)
    <3>1. /\ mPrecisionStack \in Seq(Precision \cup {NoPrecision}) /\ b \in BOOLEAN
          /\ mTable \in Seq(Level(mUniqueIdCounter)) /\ open \in Seq(Construct)
          /\ Len(mPrecisionStack) = Len(mTable) + 1
          /\ Len(mTable) = 1 + Len(open) + Bit(b) + Bit(~ AtDeclaration)
      BY Zenon DEF ScopeInv
    <3>2. Len(mTable) \in Nat /\ Len(open) \in Nat BY <3>1
    <3>3. Scope \in Nat /\ InLevel(Scope, Len(mTable), b) BY Zenon, <2>2, PrecisionTypes, ScopeIsTop
    <3>4. Bit(b) \in Nat /\ Bit(~ AtDeclaration) \in Nat BY DEF Bit
    <3>5. l = Len(mTable) /\ l \in Nat /\ l >= 1 /\ Len(q) = l + 1 /\ Len(q) \in 1..Len(q)
      BY <3>1, <3>2, <3>4
    <3>6. InLevel(Scope, l, b) BY Zenon, <3>3, <3>5
    <3> QED BY Zenon, <3>1, <3>3, <3>5, <3>6
  <2>4. /\ Len(mPrecisionStack') = Len(q)
        /\ \A i \in 1..Len(q) : mPrecisionStack'[i] = IF i = Len(q) THEN prec ELSE q[i]
    BY <2>1, <2>3, PrecisionTypes
  <2>5. Scope # 2
    <3>1. Len(open) \in Nat BY DEF ScopeInv
    <3> QED BY <3>1 DEF Scope
  <2>6. e \in [scope : Nat, prec : Precision] /\ e.scope = Scope /\ e.prec = prec BY <2>3
  <2>7. \A p \in precisions :
           /\ p \in [scope : Nat, prec : Precision] /\ p.scope # 2 /\ p.scope <= Scope
           /\ \E i \in 1..l : InLevel(p.scope, i, b) /\ q[i + 1] = p.prec
    BY Zenon DEF PrecisionInv, Stated
  <2>8. \A i \in 1..l : q[i + 1] # NoPrecision => \E p \in precisions : InLevel(p.scope, i, b)
    BY Zenon DEF PrecisionInv, Stated
  <2>9. \A p \in precisions : InLevel(p.scope, l, b) => p.scope = Scope
    <3> TAKE p \in precisions
    <3> HAVE InLevel(p.scope, l, b)
    <3>1. p.scope \in Nat /\ p.scope # 2 /\ p.scope <= Scope BY <2>7
    <3> HIDE DEF l, b
    <3> QED BY Zenon, <2>3, <2>5, <3>1, LevelsApart
  <2> HIDE DEF e, b, l, q
  <2>10. ASSUME NEW p \in precisions'
         PROVE  /\ p \in [scope : Nat, prec : Precision] /\ p.scope # 2 /\ p.scope <= Scope
                /\ \E i \in 1..l : InLevel(p.scope, i, b) /\ mPrecisionStack'[i + 1] = p.prec
    <3>1. CASE p = e
      <4>1. l \in 1..l /\ mPrecisionStack'[l + 1] = prec BY <2>3, <2>4
      <4> QED BY <2>3, <2>5, <2>6, <3>1, <4>1
    <3>2. CASE p # e
      <4>1. p \in precisions /\ p.scope # Scope BY <2>1, <3>2
      <4>2. PICK i \in 1..l : InLevel(p.scope, i, b) /\ q[i + 1] = p.prec BY <2>7, <4>1
      <4>3. i # l BY <2>9, <4>1, <4>2
      <4>4. i + 1 \in 1..Len(q) /\ i + 1 # Len(q) BY <2>3, <4>3
      <4>5. mPrecisionStack'[i + 1] = p.prec BY <2>4, <4>2, <4>4
      <4> QED BY Zenon, <2>7, <4>1, <4>2, <4>5
    <3> QED BY <3>1, <3>2
  <2>11. ASSUME NEW i \in 1..l, mPrecisionStack'[i + 1] # NoPrecision
         PROVE  \E p \in precisions' : InLevel(p.scope, i, b)
    <3>1. CASE i = l
      <4>1. e \in precisions' BY <2>1
      <4> QED BY Zenon, <2>3, <2>6, <3>1, <4>1
    <3>2. CASE i # l
      <4>1. i + 1 \in 1..Len(q) /\ i + 1 # Len(q) BY <2>3, <3>2
      <4>2. q[i + 1] # NoPrecision BY <2>4, <2>11, <4>1
      <4>3. PICK p \in precisions : InLevel(p.scope, i, b) BY Zenon, <2>8, <4>2
      <4>4. p.scope # Scope
        <5>1. ASSUME p.scope = Scope PROVE FALSE
          <6>1. InLevel(Scope, i, b) BY Zenon, <4>3, <5>1
          <6>2. i \in Nat /\ i >= 1 /\ Scope <= Scope BY <2>3
          <6>3. i = l BY <2>3, <6>1, <6>2, LevelsOrdered
          <6> QED BY <3>2, <6>3
        <5> QED BY <5>1
      <4>5. p \in precisions' BY <2>1, <4>3, <4>4
      <4> QED BY Zenon, <4>3, <4>5
    <3> QED BY <3>1, <3>2
  <2>12. Len(mPrecisionStack') - 1 = l /\ mFunctionBodyNewScope' = b BY <2>1, <2>3, <2>4 DEF b
  <2>13. Stated(precisions', mPrecisionStack', mFunctionBodyNewScope', Scope')
    BY Zenon, <2>2, <2>10, <2>11, <2>12 DEF Stated
  <2> QED BY Zenon, <2>2, <2>13 DEF PrecisionInv
\* The steps that open a level: a header and a construct.
<1>PrecisionPush.
     ASSUME ScopeInv, PrecisionInv, parsing, parsing', Scope' \in Nat, Scope <= Scope',
            mPrecisionStack' = pushPrecision(mPrecisionStack),
            UNCHANGED <<precisions, mFunctionBodyNewScope>>
     PROVE  PrecisionInv'
  <2> USE <1>PrecisionPush
  <2> DEFINE q == mPrecisionStack
             top2 == Scope'
  <2>1. q \in Seq(Precision \cup {NoPrecision}) /\ Len(q) >= 1 /\ Scope \in Nat /\ Len(q) \in Nat
    BY PrecisionTypes
  <2>2. Stated(precisions, q, mFunctionBodyNewScope, Scope) BY DEF PrecisionInv
  <2>3. top2 \in Nat /\ Scope <= top2 OBVIOUS
  <2> HIDE DEF top2
  <2>4. Stated(precisions, pushPrecision(q), mFunctionBodyNewScope, top2)
    BY Zenon, <2>1, <2>2, <2>3, <1>StatedPush
  <2>5. Stated(precisions', mPrecisionStack', mFunctionBodyNewScope', Scope')
    BY Zenon, <2>4 DEF top2
  <2>6. pushPrecision(q)[Len(pushPrecision(q))] = NoPrecision BY Zenon, <2>1, PushPrecisionFacts
  <2> QED BY Zenon, <2>5, <2>6 DEF PrecisionInv
\* The steps that leave all but m levels, with the statements of their scopes.
<1>PrecisionPop.
     ASSUME ScopeInv, PrecisionInv, parsing', AtDeclaration', NEW m \in 0..Len(mTable),
            mPrecisionStack' = SubSeq(mPrecisionStack, 1, m + 1), precisions' \subseteq precisions,
            SplitAt(precisions, precisions', Len(mTable), mFunctionBodyNewScope,
                    mFunctionBodyNewScope', m),
            \A p \in precisions' : p.scope <= Scope'
     PROVE  PrecisionInv'
  <2> USE <1>PrecisionPop
  <2> DEFINE q == mPrecisionStack
             b == mFunctionBodyNewScope
             c == mFunctionBodyNewScope'
             E == precisions'
             top2 == Scope'
  <2>1. q \in Seq(Precision \cup {NoPrecision}) /\ Len(q) - 1 = Len(mTable)
    BY PrecisionTypes
  <2>2. Stated(precisions, q, b, Scope) BY DEF PrecisionInv
  <2>3. /\ m \in 0..(Len(q) - 1) /\ E \subseteq precisions /\ \A p \in E : p.scope <= top2
        /\ SplitAt(precisions, E, Len(q) - 1, b, c, m)
    BY Zenon, <2>1
  <2> HIDE DEF q, b, c, E, top2
  <2>4. Stated(E, SubSeq(q, 1, m + 1), c, top2) BY Zenon, <2>1, <2>2, <2>3, <1>StatedPop
  <2>5. Stated(precisions', mPrecisionStack', mFunctionBodyNewScope', Scope')
    BY Zenon, <2>4 DEF E, c, top2, q
  <2> QED BY Zenon, <2>5 DEF PrecisionInv
\* A prototype takes the level of its header away, which sets no precision.
<1>PrecisionPrototype.
     ASSUME ScopeInv, PrecisionInv, parsing, addFunctionPrototypeDeclaration, UNCHANGED parsing
     PROVE  PrecisionInv'
  <2> USE <1>PrecisionPrototype
  <2> DEFINE q == mPrecisionStack
             b == mFunctionBodyNewScope
             l == Len(mTable)
             m == Len(mTable) - 1
  <2>1. /\ ~ AtDeclaration /\ mPrecisionStack' = SubSeq(q, 1, Len(q) - 1)
        /\ UNCHANGED <<precisions, mFunctionBodyNewScope, open>> /\ AtDeclaration'
    BY DEF addFunctionPrototypeDeclaration, popPrecision, AtDeclaration
  <2>2. /\ l \in Nat /\ l >= 2 /\ Len(q) - 1 = l /\ Len(q) \in Nat /\ b \in BOOLEAN
    <3>1. l \in Nat /\ Len(q) - 1 = l /\ Len(q) \in Nat /\ b \in BOOLEAN
      BY Zenon, PrecisionTypes
    <3>2. l = 1 + Len(open) + Bit(b) + Bit(~ AtDeclaration) /\ open \in Seq(Construct)
      BY Zenon DEF ScopeInv
    <3>3. Bit(b) \in 0..1 /\ Bit(~ AtDeclaration) = 1 BY <2>1 DEF Bit
    <3>4. Len(open) \in Nat BY <3>2
    <3> HIDE DEF l
    <3>5. l >= 2 BY <3>2, <3>3, <3>4
    <3> QED BY Zenon, <3>1, <3>5
  <2>3. m \in 0..l /\ Len(q) - 1 = m + 1 /\ l + 1 = Len(q) BY <2>2
  <2>4. Scope' = Scope /\ parsing' BY <2>1 DEF Scope
  <2>5. q[l + 1] = NoPrecision BY Zenon, <2>1, <2>3 DEF PrecisionInv
  <2>6. ASSUME NEW p \in precisions, NEW i \in 1..l, InLevel(p.scope, i, b)
        PROVE  i <= m
    <3>1. PICK j \in 1..l : InLevel(p.scope, j, b) /\ q[j + 1] = p.prec
      BY Zenon, <2>2 DEF PrecisionInv, Stated
    <3>2. p.prec # NoPrecision /\ p.scope \in Nat /\ p.scope <= p.scope BY PrecisionTypes
    <3>3. j # l BY Zenon, <2>5, <3>1, <3>2
    <3>4. i \in Nat /\ j \in Nat /\ i >= 1 /\ j >= 1 BY <2>2
    <3>5. i = j
      <4> HIDE DEF b, l, m, q
      <4> QED BY <2>2, <2>6, <3>1, <3>2, <3>4, LevelsOrdered
    <3> QED BY <2>2, <3>1, <3>3, <3>5
  <2>7. SplitAt(precisions, precisions', l, b, mFunctionBodyNewScope', m)
    BY Zenon, <2>1, <2>6 DEF SplitAt
  <2>8. precisions' \subseteq precisions /\ \A p \in precisions' : p.scope <= Scope'
    BY <2>1, <2>4, PrecisionTypes
  <2>9. mPrecisionStack' = SubSeq(mPrecisionStack, 1, m + 1) BY Zenon, <2>1, <2>3
  <2> HIDE DEF m
  <2> QED BY Zenon, <2>1, <2>3, <2>4, <2>7, <2>8, <2>9, <1>PrecisionPop
\* At global scope the levels do not depend on the version.
<1>PrecisionDefinition.
     ASSUME ScopeInv, PrecisionInv, parsing, parseFunctionDefinitionHeader, UNCHANGED parsing
     PROVE  PrecisionInv'
  <2> USE <1>PrecisionDefinition
  <2> DEFINE q == mPrecisionStack
             b == mFunctionBodyNewScope
             l == Len(q) - 1
             scoped == IsSpecWithFunctionBodyNewScope
             P == precisions
  <2>1. /\ open = <<>> /\ open' = <<"function">> /\ AtDeclaration' /\ parsing' /\ ~ b
        /\ mPrecisionStack' = IF scoped THEN pushPrecision(q) ELSE q
        /\ mFunctionBodyNewScope' = (b \/ scoped) /\ precisions' = P
    BY Zenon DEF parseFunctionDefinitionHeader, AtDeclaration, ScopeInv
  <2>2. scoped \in BOOLEAN BY DEF IsSpecWithFunctionBodyNewScope
  <2>3. mFunctionBodyNewScope' = scoped BY <2>1, <2>2
  <2>4. Scope = 0 /\ Scope' = 3
    <3>1. Len(open') = 1 /\ open' # <<>> BY <2>1
    <3> QED BY <2>1, <3>1 DEF Scope
  <2>5. /\ q \in Seq(Precision \cup {NoPrecision}) /\ Len(q) \in Nat /\ Len(q) >= 1
        /\ l \in 0..(Len(q) - 1) /\ l + 1 = Len(q)
    BY PrecisionTypes
  <2>6. SubSeq(q, 1, l + 1) = q
    <3>1. SubSeq(q, 1, Len(q)) = q BY <2>5
    <3> QED BY Zenon, <2>5, <3>1
  <2>7. Stated(P, q, b, 0) BY Zenon, <2>4 DEF PrecisionInv
  <2>8. \A p \in P : p.scope = 0 /\ p.scope <= 3 BY <2>4, PrecisionTypes
  <2>9. SplitAt(P, P, l, b, scoped, l)
    <3>1. ASSUME NEW p \in P, NEW i \in 1..l, InLevel(p.scope, i, b)
          PROVE  i <= l /\ InLevel(p.scope, i, scoped)
      <4>1. i <= l BY <2>5
      <4>2. InLevel(p.scope, i, scoped) BY <2>8, <3>1 DEF InLevel
      <4> QED BY <4>1, <4>2
    <3> HIDE DEF l, P, b, scoped
    <3> QED BY Zenon, <3>1 DEF SplitAt
  <2> HIDE DEF l, P, b, scoped, q
  <2>10. Stated(P, q, scoped, 3)
    <3>1. P \subseteq P /\ \A p \in P : p.scope <= 3 BY Zenon, <2>8
    <3>2. l \in 0..(Len(q) - 1) /\ SplitAt(P, P, Len(q) - 1, b, scoped, l)
      BY Zenon, <2>5, <2>9 DEF l
    <3>3. Stated(P, SubSeq(q, 1, l + 1), scoped, 3) BY Zenon, <2>5, <2>7, <3>1, <3>2, <1>StatedPop
    <3> QED BY Zenon, <2>6, <3>3
  <2>11. Stated(P, mPrecisionStack', scoped, 3)
    <3>1. CASE scoped
      <4>1. 3 \in Nat /\ 3 <= 3 OBVIOUS
      <4>2. Stated(P, pushPrecision(q), scoped, 3) BY Zenon, <2>5, <2>10, <4>1, <1>StatedPush
      <4> QED BY Zenon, <2>1, <3>1, <4>2
    <3>2. CASE ~ scoped BY Zenon, <2>1, <2>10, <3>2
    <3> QED BY Zenon, <3>1, <3>2
  <2>12. Stated(precisions', mPrecisionStack', mFunctionBodyNewScope', Scope')
    BY Zenon, <2>1, <2>3, <2>4, <2>11
  <2> QED BY Zenon, <2>1, <2>12 DEF PrecisionInv
\* The end of a function takes the levels of its body and parameters away.
<1>PrecisionLeaveFunction.
     ASSUME ScopeInv, PrecisionInv, parsing, addFunctionDefinition, UNCHANGED parsing
     PROVE  PrecisionInv'
  <2> USE <1>PrecisionLeaveFunction
  <2> DEFINE q == mPrecisionStack
             b == mFunctionBodyNewScope
             pops == IF b THEN 2 ELSE 1
             E == precisions'
  <2>1. /\ open = <<"function">> /\ open' = <<>> /\ mDeclaringFunction = NoFunction
        /\ mFunctionBodyNewScope' = FALSE /\ precisions' = Outside(precisions, 1)
        /\ mPrecisionStack' = SubSeq(q, 1, Len(q) - pops)
        /\ UNCHANGED mDeclaringFunction
    BY DEF addFunctionDefinition, AtDeclaration
  <2>2. AtDeclaration /\ AtDeclaration' /\ parsing' /\ Scope' = 0 BY <2>1 DEF AtDeclaration, Scope
  <2>3. b \in BOOLEAN /\ Len(mTable) \in Nat /\ Len(open) = 1 /\ Len(q) = Len(mTable) + 1
    BY <2>1, PrecisionTypes DEF ScopeInv
  <2>4. Len(mTable) = 1 + pops BY <2>1, <2>2, <2>3 DEF ScopeInv, Bit
  <2>5. Len(q) - pops = 1 + 1 /\ 1 \in 0..Len(mTable) BY <2>3, <2>4
  <2>6. E \subseteq precisions /\ \A p \in precisions : p \in E <=> p.scope < 2 * 1
    BY <2>1 DEF Outside
  <2>7. ASSUME NEW p \in precisions, NEW i \in 1..Len(mTable), InLevel(p.scope, i, b)
        PROVE  (p \in E <=> i <= 1) /\ (i <= 1 => InLevel(p.scope, i, FALSE))
    <3>1. p.scope \in Nat /\ 1 \in 1..Len(open) /\ 1 \in Nat BY <2>3, PrecisionTypes
    <3>2. p.scope < 2 * 1 <=> i <= 1 BY <2>2, <2>7, <3>1, OutsideLevels
    <3>3. i <= 1 => InLevel(p.scope, i, FALSE) BY <2>3, <2>7, <3>1 DEF InLevel, Bit
    <3> QED BY Zenon, <2>6, <3>2, <3>3
  <2>8. \A p \in E : p.scope <= 0
    <3> TAKE p \in E
    <3>1. p \in precisions /\ p.scope < 2 * 1 /\ p.scope \in Nat BY <2>6, PrecisionTypes
    <3>2. PICK i \in 1..(Len(q) - 1) : InLevel(p.scope, i, b) BY <3>1 DEF PrecisionInv, Stated
    <3> QED BY <2>3, <3>1, <3>2 DEF InLevel
  <2>9. SplitAt(precisions, E, Len(mTable), b, FALSE, 1)
    <3> HIDE DEF E, b
    <3> QED BY Zenon, <2>7 DEF SplitAt
  <2>10. mPrecisionStack' = SubSeq(mPrecisionStack, 1, 1 + 1) BY Zenon, <2>1, <2>5
  <2>11. SplitAt(precisions, precisions', Len(mTable), mFunctionBodyNewScope,
                 mFunctionBodyNewScope', 1)
    BY Zenon, <2>1, <2>9
  <2>12. precisions' \subseteq precisions /\ \A p \in precisions' : p.scope <= Scope'
    BY Zenon, <2>2, <2>6, <2>8
  <2> QED BY Zenon, <2>2, <2>5, <2>10, <2>11, <2>12, <1>PrecisionPop
\* The end of a construct takes its level and its scope away.
<1>PrecisionExit.
     ASSUME ScopeInv, PrecisionInv, parsing, exit, UNCHANGED parsing
     PROVE  PrecisionInv'
  <2> USE <1>PrecisionExit
  <2> DEFINE q == mPrecisionStack
             b == mFunctionBodyNewScope
             k == Len(open)
             m == Len(mTable) - 1
             E == precisions'
  <2>1. /\ open # <<>> /\ open[k] # "function" /\ open' = SubSeq(open, 1, k - 1)
        /\ mDeclaringFunction = NoFunction /\ E = Outside(precisions, k)
        /\ mPrecisionStack' = SubSeq(q, 1, Len(q) - 1)
        /\ UNCHANGED <<mDeclaringFunction, mFunctionBodyNewScope>>
    BY DEF exit, LeaveScope, popPrecision, AtStatement, AtDeclaration, functionVars
  <2>2. AtDeclaration /\ AtDeclaration' /\ parsing' BY <2>1 DEF AtDeclaration
  <2>3. /\ b \in BOOLEAN /\ Len(mTable) \in Nat /\ k \in Nat /\ open \in Seq(Construct)
        /\ Len(q) - 1 = Len(mTable)
    BY PrecisionTypes DEF ScopeInv
  <2>4. k >= 2
    <3>1. open[1] = "function" BY <2>1 DEF ScopeInv
    <3>2. k # 0 BY <2>1, <2>3
    <3>3. k # 1 BY <2>1, <3>1
    <3> HIDE DEF k
    <3> QED BY <2>3, <3>2, <3>3
  <2>5. m = k + Bit(b) /\ Bit(b) \in 0..1 BY <2>1, <2>2, <2>3 DEF ScopeInv, Bit
  <2>6. m \in Nat /\ m \in 0..Len(mTable) /\ k \in 1..Len(open) /\ k # 1 /\ Len(q) - 1 = m + 1
    <3>1. m = Len(mTable) - 1 /\ k = Len(open) OBVIOUS
    <3> HIDE DEF m, k, b, q
    <3>2. m \in Nat /\ k # 1 BY <2>3, <2>4, <2>5
    <3>3. m \in 0..Len(mTable) /\ Len(q) - 1 = m + 1 BY <2>3, <3>1, <3>2
    <3>4. k \in 1..k BY <2>3, <2>4
    <3> QED BY Zenon, <3>1, <3>2, <3>3, <3>4
  <2>7. Scope' = 2 * k - 1
    <3>1. Len(open') = k - 1 /\ open' # <<>>
      <4>1. k - 1 \in 0..Len(open) BY <2>3, <2>4
      <4>2. Len(open') = k - 1 BY Zenon, <2>1, <2>3, <4>1, PrefixFacts
      <4>3. k - 1 # 0
        <5> HIDE DEF k
        <5> QED BY <2>3, <2>4
      <4>4. open' # <<>> BY <4>2, <4>3
      <4> QED BY <4>2, <4>4
    <3>2. Scope' = 2 * (k - 1) + 1 BY Zenon, <3>1 DEF Scope
    <3> QED BY <2>3, <2>4, <3>2
  <2>8. E \subseteq precisions /\ \A p \in precisions : p \in E <=> p.scope < 2 * k
    BY <2>1 DEF Outside
  <2>9. ASSUME NEW p \in precisions, NEW i \in 1..Len(mTable), InLevel(p.scope, i, b)
        PROVE  (p \in E <=> i <= m) /\ (i <= m => InLevel(p.scope, i, b))
    <3>1. p.scope \in Nat BY PrecisionTypes
    <3>2. m = IF k = 1 THEN 1 ELSE k + Bit(b) BY Zenon, <2>5, <2>6
    <3>3. p.scope < 2 * k <=> i <= m
      BY Zenon, <2>2, <2>6, <2>9, <3>1, <3>2, OutsideLevels
    <3> QED BY Zenon, <2>8, <2>9, <3>3
  <2>10. \A p \in E : p.scope <= Scope'
    <3> TAKE p \in E
    <3>1. p.scope < 2 * k /\ p.scope \in Nat BY <2>8, PrecisionTypes
    <3> QED BY <2>3, <2>7, <3>1
  <2>11. SplitAt(precisions, E, Len(mTable), b, b, m)
    <3> HIDE DEF E, b, m, k
    <3> QED BY Zenon, <2>9 DEF SplitAt
  <2>12. SplitAt(precisions, precisions', Len(mTable), mFunctionBodyNewScope,
                 mFunctionBodyNewScope', m)
    BY Zenon, <2>1, <2>11
  <2>13. mPrecisionStack' = SubSeq(mPrecisionStack, 1, m + 1) BY Zenon, <2>1, <2>6
  <2> HIDE DEF m
  <2> QED BY Zenon, <2>2, <2>6, <2>8, <2>10, <2>12, <2>13, <1>PrecisionPop
\* The steps that neither state a precision nor open or close a scope.
<1>PrecisionUnchanged.
     ASSUME PrecisionInv, UNCHANGED <<mPrecisionStack, mFunctionBodyNewScope, mDeclaringFunction,
                                      open, precisions, parsing>>
     PROVE  PrecisionInv'
  <2> USE <1>PrecisionUnchanged
  <2>1. Scope' = Scope /\ (AtDeclaration' <=> AtDeclaration)
    BY DEF Scope, AtDeclaration
  <2>2. Stated(precisions', mPrecisionStack', mFunctionBodyNewScope', Scope')
    BY Zenon, <2>1 DEF PrecisionInv
  <2> QED BY Zenon, <2>1, <2>2 DEF PrecisionInv
<1> SUFFICES ASSUME ScopeInv, ScopeInv', PrecisionInv, [Next]_vars PROVE PrecisionInv' OBVIOUS
<1>1. CASE \E version \in {100, 320} : compile(version)
  <2> PICK version \in {100, 320} : compile(version) BY <1>1
  <2>1. mTable = <<>> /\ mDeclaringFunction = NoFunction /\ precisions = {}
    BY Zenon DEF compile, ScopeInv, PrecisionInv, AtDeclaration
  <2>2. /\ precisions' = {} /\ mDeclaringFunction' = NoFunction
        /\ mPrecisionStack' = pushPrecision(mPrecisionStack) /\ parsing'
    BY Zenon, <2>1 DEF compile, functionVars, historyVars
  <2>3. /\ mPrecisionStack \in Seq(Precision \cup {NoPrecision}) /\ Len(mPrecisionStack) = 1
    <3>1. /\ mPrecisionStack \in Seq(Precision \cup {NoPrecision})
          /\ Len(mPrecisionStack) = Len(mTable) + 1
      BY Zenon DEF ScopeInv
    <3>2. Len(mTable) = 0 BY <2>1
    <3> QED BY <3>1, <3>2
  <2>4. /\ Len(pushPrecision(mPrecisionStack)) = Len(mPrecisionStack) + 1
        /\ pushPrecision(mPrecisionStack)[Len(mPrecisionStack) + 1] = NoPrecision
    BY Zenon, <2>3, PushPrecisionFacts
  <2>5. Len(mPrecisionStack') = 2 /\ mPrecisionStack'[2] = NoPrecision BY <2>2, <2>3, <2>4
  <2>6. \A i \in 1..(Len(mPrecisionStack') - 1) : mPrecisionStack'[i + 1] = NoPrecision
    <3> TAKE i \in 1..(Len(mPrecisionStack') - 1)
    <3>1. i + 1 = 2 BY <2>5
    <3> QED BY Zenon, <2>5, <3>1
  <2>7. Stated(precisions', mPrecisionStack', mFunctionBodyNewScope', Scope')
    BY Zenon, <2>2, <2>6, StatedEmpty
  <2> QED BY Zenon, <2>2, <2>7 DEF PrecisionInv, AtDeclaration
<1>2. CASE parsing /\ Parse /\ UNCHANGED <<parsing, mVariablesCollected>>
  <2>0. parsing /\ parsing' /\ UNCHANGED parsing BY Zenon, <1>2
  <2>1. CASE \E name \in Name : declareVariable(name)
    <3>1. UNCHANGED <<mPrecisionStack, mFunctionBodyNewScope, mDeclaringFunction, open, precisions,
                      parsing>>
      BY <2>0, <2>1 DEF declareVariable, functionVars
    <3> QED BY Zenon, <3>1, <1>PrecisionUnchanged
  <2>2. CASE \E prec \in Precision : parseDefaultPrecisionQualifier(prec)
    BY Zenon, <2>0, <2>2, <1>PrecisionSet
  <2>3. CASE \E name \in Name, invariant \in BOOLEAN :
                parseGlobalQualifierDeclaration(name, invariant)
    <3>1. UNCHANGED <<mPrecisionStack, mFunctionBodyNewScope, mDeclaringFunction, open, precisions,
                      parsing>>
      BY <2>0, <2>3 DEF parseGlobalQualifierDeclaration, functionVars, historyVars
    <3> QED BY Zenon, <3>1, <1>PrecisionUnchanged
  <2>4. CASE \E sig \in Signature, param \in Name \cup {NoName} : function_header(sig, param)
    <3>1. /\ mPrecisionStack' = pushPrecision(mPrecisionStack)
          /\ UNCHANGED <<precisions, mFunctionBodyNewScope, open>>
      BY <2>4 DEF function_header, historyVars
    <3>2. Scope' = Scope BY <3>1 DEF Scope
    <3>3. Scope' \in Nat /\ Scope <= Scope' BY <3>2, PrecisionTypes
    <3> QED BY Zenon, <2>0, <3>1, <3>3, <1>PrecisionPush
  <2>5. CASE addFunctionPrototypeDeclaration BY Zenon, <2>0, <2>5, <1>PrecisionPrototype
  <2>6. CASE parseFunctionDefinitionHeader BY Zenon, <2>0, <2>6, <1>PrecisionDefinition
  <2>7. CASE addFunctionDefinition BY Zenon, <2>0, <2>7, <1>PrecisionLeaveFunction
  <2>8. CASE \E construct \in Construct \ {"function"} : enter(construct)
    <3> PICK construct \in Construct \ {"function"} : enter(construct) BY <2>8
    <3>1. /\ mPrecisionStack' = pushPrecision(mPrecisionStack) /\ open # <<>>
          /\ open' = Append(open, construct)
          /\ UNCHANGED <<precisions, mFunctionBodyNewScope>>
      BY DEF enter, EnterScope, AtStatement, functionVars, historyVars
    <3>2. Len(open) \in Nat /\ Len(open') = Len(open) + 1 /\ open' # <<>>
      <4>1. open \in Seq(Construct) /\ construct \in Construct BY DEF ScopeInv
      <4>2. open' = Append(open, construct) BY <3>1
      <4> QED BY <4>1, <4>2
    <3>3. Scope' \in Nat /\ Scope <= Scope' BY <3>1, <3>2 DEF Scope
    <3>4. UNCHANGED <<precisions, mFunctionBodyNewScope>> BY <3>1
    <3>5. mPrecisionStack' = pushPrecision(mPrecisionStack) BY <3>1
    <3> QED BY Zenon, <2>0, <3>3, <3>4, <3>5, <1>PrecisionPush
  <2>9. CASE exit BY Zenon, <2>0, <2>9, <1>PrecisionExit
  <2>10. CASE \E op \in {"break", "continue"} : addBranch(op)
    <3>1. UNCHANGED <<mPrecisionStack, mFunctionBodyNewScope, mDeclaringFunction, open, precisions,
                      parsing>>
      BY <2>0, <2>10 DEF addBranch, tableVars, functionVars, historyVars
    <3> QED BY Zenon, <3>1, <1>PrecisionUnchanged
  <2> QED BY Zenon, <1>2, <2>1, <2>2, <2>3, <2>4, <2>5, <2>6, <2>7, <2>8, <2>9, <2>10 DEF Parse
<1>3. CASE Leave
  <2>1. precisions' = {} /\ mDeclaringFunction' = NoFunction /\ mTable' = <<>>
    BY Zenon, <1>3 DEF Leave
  <2>2. Len(mPrecisionStack') = 1
    <3>1. Len(mPrecisionStack') = Len(mTable') + 1 BY Zenon DEF ScopeInv
    <3>2. Len(mTable') = 0 BY <2>1
    <3> QED BY <3>1, <3>2
  <2>3. \A i \in 1..(Len(mPrecisionStack') - 1) : FALSE BY <2>2
  <2>4. Stated(precisions', mPrecisionStack', mFunctionBodyNewScope', Scope')
    BY Zenon, <2>1, <2>3, StatedEmpty
  <2> QED BY Zenon, <2>1, <2>4 DEF PrecisionInv, AtDeclaration
<1>4. CASE UNCHANGED vars
  <2>1. UNCHANGED <<mPrecisionStack, mFunctionBodyNewScope, mDeclaringFunction, open, precisions,
                    parsing>>
    BY <1>4 DEF vars, parseVars, tableVars, contextVars, historyVars
  <2> QED BY Zenon, <2>1, <1>PrecisionUnchanged
<1> QED
  BY Zenon, <1>1, <1>2, <1>3, <1>4 DEF Next, syntaxError, parseFails, checkAndSimplifyAST

\* PrecisionInv holds throughout.
LEMMA PrecisionsHeld == Spec => [](ScopeInv /\ PrecisionInv)
<1>1. Init => PrecisionInv
  <2> SUFFICES ASSUME Init PROVE PrecisionInv OBVIOUS
  <2>1. precisions = {} /\ AtDeclaration /\ mPrecisionStack = <<BuiltInPrecision>>
    BY DEF Init, AtDeclaration
  <2>2. \A i \in 1..(Len(mPrecisionStack) - 1) : FALSE BY <2>1
  <2>3. Stated(precisions, mPrecisionStack, mFunctionBodyNewScope, Scope)
    <3>1. precisions = {} BY <2>1
    <3> QED BY Zenon, <2>2, <3>1, StatedEmpty
  <2> QED BY Zenon, <2>1, <2>3 DEF PrecisionInv
<1>2. ScopeInv /\ ScopeInv' /\ PrecisionInv /\ [Next]_vars => PrecisionInv' BY PrecisionStep
<1> QED BY <1>1, <1>2, ScopesBalanced, PTL DEF Spec

-----------------------------------------------------------------------------
(* Nesting                                                                 *)

\* How many of the constructs s are c.
Count(s, c) == Cardinality({i \in 1..Len(s) : s[i] = c})

\* One more construct counts one more, or none.
LEMMA CountAppend ==
  ASSUME NEW s \in Seq(Construct), NEW e \in Construct, NEW c
  PROVE  Count(s, c) \in Nat /\ Count(Append(s, e), c) = Count(s, c) + One(e, c)
<1> DEFINE I == {i \in 1..Len(s) : s[i] = c}
           J == {i \in 1..Len(Append(s, e)) : Append(s, e)[i] = c}
<1>1. Len(s) \in Nat /\ Len(Append(s, e)) = Len(s) + 1 /\ Append(s, e)[Len(s) + 1] = e
      /\ \A i \in 1..Len(s) : Append(s, e)[i] = s[i]
  OBVIOUS
<1>2. IsFiniteSet(I)
  <2>1. IsFiniteSet(1..Len(s)) BY <1>1, FS_Interval
  <2>2. I \subseteq 1..Len(s) OBVIOUS
  <2> QED BY Zenon, <2>1, <2>2, FS_Subset
<1>3. Cardinality(I) \in Nat BY <1>2, FS_CardinalityType
<1>4. CASE e = c
  <2>1. J = I \cup {Len(s) + 1} BY <1>1, <1>4
  <2>2. Len(s) + 1 \notin I BY <1>1
  <2> HIDE DEF I, J
  <2>3. Cardinality(J) = Cardinality(I) + 1 BY Zenon, <1>2, <2>1, <2>2, FS_AddElement
  <2> QED BY Zenon, <1>3, <1>4, <2>3 DEF Count, One, I, J
<1>5. CASE e # c
  <2>1. J = I BY Zenon, <1>1, <1>5, OneMore
  <2>2. Count(Append(s, e), c) = Count(s, c) /\ Count(s, c) \in Nat BY Zenon, <1>3, <2>1 DEF Count
  <2>3. One(e, c) = 0 BY <1>5 DEF One
  <2> QED BY <2>2, <2>3
<1> QED BY <1>4, <1>5

\* Nothing is open, or only the function itself.
LEMMA CountNone ==
  ASSUME NEW c, c # "function"
  PROVE  Count(<<>>, c) = 0 /\ Count(<<"function">>, c) = 0
<1>1. {i \in 1..Len(<<>>) : <<>>[i] = c} = {} OBVIOUS
<1>2. {i \in 1..Len(<<"function">>) : <<"function">>[i] = c} = {} OBVIOUS
<1> QED BY <1>1, <1>2, FS_EmptySet DEF Count

\* Every step keeps the counters in step with the constructs.
LEMMA NestingStep ==
  ASSUME ScopeInv, NestingInv, [Next]_vars
  PROVE  NestingInv'
<1> USE DEF Opened
<1>0. /\ mLoopNestingLevel = Count(open, "loop") /\ mSwitchNestingLevel = Count(open, "switch")
  BY DEF NestingInv, Count
<1> SUFFICES mLoopNestingLevel' = Count(open', "loop") /\ mSwitchNestingLevel' = Count(open', "switch")
  BY DEF NestingInv, Count
<1>1. ASSUME UNCHANGED <<mLoopNestingLevel, mSwitchNestingLevel, open>>
      PROVE  mLoopNestingLevel' = Count(open', "loop") /\ mSwitchNestingLevel' = Count(open', "switch")
  BY Zenon, <1>0, <1>1
<1>2. CASE \E version \in {100, 320} : compile(version)
  BY Zenon, <1>1, <1>2 DEF compile, nestingVars
<1>3. CASE parsing /\ Parse /\ UNCHANGED <<parsing, mVariablesCollected>>
  <2>1. CASE \E name \in Name : declareVariable(name)
    BY Zenon, <1>1, <2>1 DEF declareVariable, nestingVars
  <2>2. CASE \E prec \in Precision : parseDefaultPrecisionQualifier(prec)
    BY Zenon, <1>1, <2>2 DEF parseDefaultPrecisionQualifier, contextVars
  <2>3. CASE \E name \in Name, invariant \in BOOLEAN :
                parseGlobalQualifierDeclaration(name, invariant)
    BY Zenon, <1>1, <2>3 DEF parseGlobalQualifierDeclaration, nestingVars
  <2>4. CASE \E sig \in Signature, param \in Name \cup {NoName} : function_header(sig, param)
    BY Zenon, <1>1, <2>4 DEF function_header, nestingVars
  <2>5. CASE addFunctionPrototypeDeclaration
    BY Zenon, <1>1, <2>5 DEF addFunctionPrototypeDeclaration, nestingVars
  <2>6. CASE parseFunctionDefinitionHeader
    <3>1. /\ open = <<>> /\ open' = <<"function">> /\ mLoopNestingLevel' = 0
          /\ mSwitchNestingLevel' = mSwitchNestingLevel
      BY Zenon, <2>6 DEF parseFunctionDefinitionHeader
    <3> QED BY <1>0, <3>1, CountNone
  <2>7. CASE addFunctionDefinition
    <3>1. /\ open = <<"function">> /\ open' = <<>>
          /\ UNCHANGED <<mLoopNestingLevel, mSwitchNestingLevel>>
      BY Zenon, <2>7 DEF addFunctionDefinition, nestingVars
    <3> QED BY <1>0, <3>1, CountNone
  <2>8. CASE \E construct \in Construct \ {"function"} : enter(construct)
    <3> PICK construct \in Construct \ {"function"} : enter(construct) BY <2>8
    <3>1. /\ open' = Append(open, construct) /\ open \in Seq(Construct)
          /\ mLoopNestingLevel' = mLoopNestingLevel + One(construct, "loop")
          /\ mSwitchNestingLevel' = mSwitchNestingLevel + One(construct, "switch")
      BY Zenon DEF enter, ScopeInv
    <3> QED BY Zenon, <1>0, <3>1, CountAppend
  <2>9. CASE exit
    <3> DEFINE k == Len(open)
               e == open[Len(open)]
    <3>1. /\ open # <<>> /\ open' = SubSeq(open, 1, k - 1) /\ open \in Seq(Construct)
          /\ mLoopNestingLevel' = mLoopNestingLevel - One(e, "loop")
          /\ mSwitchNestingLevel' = mSwitchNestingLevel - One(e, "switch")
      BY Zenon, <2>9 DEF exit, AtStatement, ScopeInv
    <3>2. open' \in Seq(Construct) /\ e \in Construct /\ open = Append(open', e)
      BY <3>1
    <3> HIDE DEF e
    <3>3. \A c : Count(open', c) \in Nat /\ Count(open, c) = Count(open', c) + One(e, c)
      BY Zenon, <3>2, CountAppend
    <3>4. \A c : One(e, c) \in Nat BY DEF One
    <3>5. ASSUME NEW a \in Nat, NEW o \in Nat PROVE (a + o) - o = a OBVIOUS
    <3>6. ASSUME NEW c PROVE Count(open, c) - One(e, c) = Count(open', c)
      <4>1. Count(open', c) \in Nat /\ One(e, c) \in Nat BY Zenon, <3>3, <3>4
      <4>2. (Count(open', c) + One(e, c)) - One(e, c) = Count(open', c) BY Zenon, <4>1, <3>5
      <4> QED BY Zenon, <3>3, <4>2
    <3> QED BY Zenon, <1>0, <3>1, <3>6
  <2>10. CASE \E op \in {"break", "continue"} : addBranch(op)
    BY Zenon, <1>1, <2>10 DEF addBranch, nestingVars
  <2> QED BY Zenon, <1>3, <2>1, <2>2, <2>3, <2>4, <2>5, <2>6, <2>7, <2>8, <2>9, <2>10 DEF Parse
<1>4. CASE Leave
  <2>1. open' = <<>> /\ mLoopNestingLevel' = 0 /\ mSwitchNestingLevel' = 0 BY Zenon, <1>4 DEF Leave
  <2> QED BY <2>1, CountNone
<1>5. CASE UNCHANGED vars
  BY Zenon, <1>1, <1>5 DEF vars, parseVars, contextVars
<1> QED
  BY Zenon, <1>2, <1>3, <1>4, <1>5 DEF Next, syntaxError, parseFails, checkAndSimplifyAST

\* For every set of names, at every nesting and in every version, a name
\* resolves to its innermost declaration, a type gets the precision of the
\* innermost precision statement, and the counters of addBranch() are the loops
\* and switches around it (TSymbolTable::find, getDefaultPrecision, glslang.y).
THEOREM Context == Spec => []ContextIsLexical
<1>1. Init => NestingInv
  <2> SUFFICES ASSUME Init PROVE NestingInv OBVIOUS
  <2>1. open = <<>> /\ mLoopNestingLevel = 0 /\ mSwitchNestingLevel = 0 BY DEF Init
  <2> QED BY <2>1, CountNone DEF NestingInv, Opened, Count
<1>2. ScopeInv /\ NestingInv /\ [Next]_vars => NestingInv' BY NestingStep
<1>3. ScopeInv /\ NameInv /\ PrecisionInv /\ NestingInv => ContextIsLexical
  BY Zenon, Resolve, ResolvePrecision DEF ContextIsLexical, NestingInv
<1> QED BY <1>1, <1>2, <1>3, NamesHeld, PrecisionsHeld, PTL DEF Spec
=============================================================================
