----------------------- MODULE DirectiveParserProofs ------------------------
(***************************************************************************)
(* Proofs about the directive parser, for every set of macros, values and  *)
(* versions and every nesting depth and number of groups.                  *)
(*                                                                         *)
(* TypeOK is inductive.  FlagsFollowHistory is inductive relative to it    *)
(* and implies that skipping(), which reads the innermost block only, is   *)
(* exclusion; with it every line is a line of ConditionalInclusion.        *)
(***************************************************************************)
EXTENDS DirectiveParser, SequenceTheorems, TLAPS

Group == [conds : Seq(BOOLEAN), hasElse : BOOLEAN]

\* What a line may do to the open blocks.
Pushes(c) ==
  /\ mConditionalStack' = Append(mConditionalStack,
       [skipBlock |-> skipping, skipGroup |-> ~skipping /\ ~c,
        foundValidGroup |-> ~skipping /\ c, foundElseGroup |-> FALSE])
  /\ history' = Append(history, [conds |-> <<c>>, hasElse |-> FALSE])

Continues(c, isElse) ==
  /\ ~strayGroup /\ ~skippedBlock
  /\ isElse => c
  /\ history' = [history EXCEPT ![top] =
       [conds |-> Append(@.conds, c), hasElse |-> isElse]]
  /\ mConditionalStack' = [mConditionalStack EXCEPT ![top] =
       [skipBlock |-> FALSE, skipGroup |-> @.foundValidGroup \/ ~c,
        foundValidGroup |-> @.foundValidGroup \/ c, foundElseGroup |-> isElse]]

Pops ==
  /\ mConditionalStack # <<>>
  /\ mConditionalStack' = SubSeq(mConditionalStack, 1, top - 1)
  /\ history' = SubSeq(history, 1, top - 1)

BlockStep ==
  \/ UNCHANGED condVars
  \/ \E c \in BOOLEAN : Pushes(c)
  \/ \E c, isElse \in BOOLEAN : Continues(c, isElse)
  \/ Pops

StackType ==
  /\ mConditionalStack \in Seq(ConditionalBlock)
  /\ history \in Seq(Group)
  /\ Len(history) = Len(mConditionalStack)

LEMMA NonEmptyTop ==
  ASSUME StackType, mConditionalStack # <<>>
  PROVE  top \in 1..Len(mConditionalStack) /\ mConditionalStack[top] \in ConditionalBlock
<1>1. top \in 1..Len(mConditionalStack)
  BY DEF StackType, top
<1> QED BY <1>1 DEF StackType

\* Any line opens, continues or closes the innermost block, or leaves all
\* blocks alone.
LEMMA NextIsBlockStep == ASSUME StackType, [Next]_vars PROVE BlockStep
<1>1. CASE UNCHANGED vars
  BY <1>1 DEF vars, condVars, BlockStep
<1>2. CASE Text
  BY Zenon, <1>2 DEF Text, BlockStep
<1>3. CASE EndOfInput
  BY <1>3 DEF EndOfInput, BlockStep
<1>4. ASSUME NEW eof \in BOOLEAN, Conditional(eof) PROVE BlockStep
  <2>1. ASSUME NEW c \in BOOLEAN, NEW bad \in BOOLEAN, parseConditionalIf(c, bad, eof)
        PROVE BlockStep
    BY Zenon, <2>1 DEF parseConditionalIf, BlockStep, Pushes
  <2>2. ASSUME NEW c \in BOOLEAN, NEW bad \in BOOLEAN, parseElif(c, bad, eof)
        PROVE BlockStep
    <3>1. CASE UNCHANGED condVars
      BY <3>1 DEF BlockStep
    <3>2. CASE ~UNCHANGED condVars
      <4>1. ~strayGroup /\ ~skippedBlock
        BY Zenon, <2>2, <3>2 DEF parseElif
      <4>2. /\ top \in 1..Len(mConditionalStack)
            /\ mConditionalStack[top].foundValidGroup \in BOOLEAN
        BY <4>1, NonEmptyTop DEF strayGroup, ConditionalBlock
      <4>4. Continues(c, FALSE)
        BY Zenon, <2>2, <3>2, <4>1, <4>2 DEF parseElif, Continues
      <4> QED BY Zenon, <4>4 DEF BlockStep
    <3> QED BY <3>1, <3>2
  <2>3. ASSUME NEW extra \in BOOLEAN, parseElse(extra, eof) PROVE BlockStep
    <3>1. CASE UNCHANGED condVars
      BY <3>1 DEF BlockStep
    <3>2. CASE ~UNCHANGED condVars
      <4>1. ~strayGroup /\ ~skippedBlock
        BY Zenon, <2>3, <3>2 DEF parseElse
      <4>2. /\ top \in 1..Len(mConditionalStack)
            /\ mConditionalStack[top].foundValidGroup \in BOOLEAN
        BY <4>1, NonEmptyTop DEF strayGroup, ConditionalBlock
      <4>4. Continues(TRUE, TRUE)
        BY Zenon, <2>3, <3>2, <4>1, <4>2 DEF parseElse, Continues
      <4> QED BY Zenon, <4>4 DEF BlockStep
    <3> QED BY <3>1, <3>2
  <2>4. ASSUME NEW extra \in BOOLEAN, parseEndif(extra, eof) PROVE BlockStep
    BY Zenon, <2>4 DEF parseEndif, BlockStep, Pops
  <2>5. ASSUME NEW name \in MacroNames, NEW negated \in BOOLEAN, NEW malformed \in BOOLEAN,
               NEW extra \in BOOLEAN, parseIfdef(name, negated, malformed, extra, eof)
        PROVE BlockStep
    BY Zenon, <2>1, <2>5 DEF parseIfdef
  <2> QED BY <1>4, <2>1, <2>2, <2>3, <2>4, <2>5 DEF Conditional, parseIf
<1>5. ASSUME NEW eof \in BOOLEAN, MacroDirective(eof) PROVE BlockStep
  BY <1>5 DEF MacroDirective, parseDefine, parseUndef, BlockStep
<1>6. ASSUME NEW eof \in BOOLEAN, OtherDirective(eof) PROVE BlockStep
  BY ZenonT(40), <1>6 DEF OtherDirective, EmptyDirective, invalidDirective, parseError, parseLine,
     SkippedDirective, parsePragma, parseExtension, parseVersion, BlockStep
<1> QED BY <1>1, <1>2, <1>3, <1>4, <1>5, <1>6 DEF Next

-----------------------------------------------------------------------------
(* Exclusion                                                               *)

\* A new group is selected exactly when its condition holds and no earlier
\* group's did.
LEMMA SelectedAppend ==
  ASSUME NEW conds \in Seq(BOOLEAN), NEW c \in BOOLEAN, NEW e
  PROVE  Abstract!Selected([conds |-> Append(conds, c), hasElse |-> e])
           <=> c /\ ~\E k \in 1..Len(conds) : conds[k]
<1> DEFINE all == Append(conds, c)
<1>1. /\ Len(all) = Len(conds) + 1
      /\ all[Len(all)] = c
      /\ \A k \in 1..Len(conds) : all[k] = conds[k]
  OBVIOUS
<1>2. Len(all) - 1 = Len(conds)
  BY <1>1
<1> HIDE DEF all
<1>3. Abstract!Selected([conds |-> all, hasElse |-> e])
        <=> all[Len(all)] /\ \A k \in 1..(Len(all) - 1) : ~all[k]
  BY DEF Abstract!Selected
<1> QED BY <1>1, <1>2, <1>3 DEF all

\* skipping() decides exclusion although it reads the innermost block only.
LEMMA TopDecides ==
  ASSUME StackType, FlagsFollowHistory
  PROVE  SkippingIsExclusion
<1>1. CASE mConditionalStack = <<>>
  BY <1>1 DEF StackType, FlagsFollowHistory, SkippingIsExclusion, skipping, Abstract!Included
<1>2. CASE mConditionalStack # <<>>
  <2>1. top \in 1..Len(mConditionalStack) /\ top = Len(history)
    BY <1>2, NonEmptyTop DEF StackType, top
  <2>2. mConditionalStack[top].skipBlock
          <=> \E j \in 1..(top - 1) : ~Abstract!Selected(history[j])
    BY <2>1 DEF FlagsFollowHistory
  <2>3. ~mConditionalStack[top].skipBlock =>
          (mConditionalStack[top].skipGroup <=> ~Abstract!Selected(history[top]))
    BY <2>1 DEF FlagsFollowHistory
  <2>4. Abstract!Included <=> \A i \in 1..top : Abstract!Selected(history[i])
    BY <2>1 DEF Abstract!Included
  <2>5. 1..top = 1..(top - 1) \cup {top}
    BY <2>1
  <2>6. skipping <=> mConditionalStack[top].skipBlock \/ mConditionalStack[top].skipGroup
    BY <1>2 DEF skipping, top
  <2> QED BY <2>2, <2>3, <2>4, <2>5, <2>6 DEF SkippingIsExclusion
<1> QED BY <1>1, <1>2

\* FlagsFollowHistory, block by block, on any stack and history.
BlockOK(block, group, outer) ==
  /\ Len(group.conds) > 0
  /\ block.skipBlock <=> outer
  /\ ~block.skipBlock =>
       /\ block.skipGroup <=> ~Abstract!Selected(group)
       /\ block.foundValidGroup <=> \E k \in 1..Len(group.conds) : group.conds[k]
       /\ block.foundElseGroup <=> group.hasElse

Outer(hist, i) == \E j \in 1..(i - 1) : ~Abstract!Selected(hist[j])

AllOK(stack, hist) ==
  Len(hist) = Len(stack) /\ \A i \in 1..Len(stack) : BlockOK(stack[i], hist[i], Outer(hist, i))

LEMMA FlagsAreOK == FlagsFollowHistory <=> AllOK(mConditionalStack, history)
BY DEF FlagsFollowHistory, AllOK, BlockOK, Outer

\* A block opened in a stack that is in order, with the flags #if gives it.
LEMMA PushKeepsOK ==
  ASSUME NEW stack \in Seq(ConditionalBlock), NEW hist \in Seq(Group), AllOK(stack, hist),
         NEW block \in ConditionalBlock, NEW group \in Group,
         BlockOK(block, group, Outer(hist, Len(stack) + 1))
  PROVE  AllOK(Append(stack, block), Append(hist, group))
<1> DEFINE s == Append(stack, block)
           h == Append(hist, group)
           n == Len(stack) + 1
<1>1. /\ Len(s) = n /\ Len(h) = n /\ n \in Nat
      /\ s[n] = block /\ h[n] = group
      /\ \A i \in 1..(n - 1) : s[i] = stack[i] /\ h[i] = hist[i]
  BY DEF AllOK
<1> HIDE DEF s, h
<1>2. \A i \in 1..n : Outer(h, i) <=> Outer(hist, i)
  BY <1>1 DEF Outer
<1>3. ASSUME NEW i \in 1..n PROVE BlockOK(s[i], h[i], Outer(h, i))
  <2>1. CASE i = n
    BY <2>1, <1>1, <1>2 DEF BlockOK
  <2>2. CASE i # n
    <3>1. i \in 1..Len(stack)
      BY <2>2, <1>1
    <3>2. BlockOK(stack[i], hist[i], Outer(hist, i))
      BY <3>1 DEF AllOK
    <3>3. s[i] = stack[i] /\ h[i] = hist[i] /\ (Outer(h, i) <=> Outer(hist, i))
      BY <3>1, <1>1, <1>2
    <3> QED BY <3>2, <3>3 DEF BlockOK
  <2> QED BY <2>1, <2>2
<1> QED BY <1>1, <1>3 DEF AllOK, s, h

\* The front of a sequence.
LEMMA FrontProperties ==
  ASSUME NEW S, NEW seq \in Seq(S), NEW n \in Nat, n <= Len(seq)
  PROVE  /\ SubSeq(seq, 1, n) \in Seq(S)
         /\ Len(SubSeq(seq, 1, n)) = n
         /\ \A i \in 1..n : SubSeq(seq, 1, n)[i] = seq[i]
BY SubSeqProperties

\* Replacing the last element is dropping it and appending another.
LEMMA ReplaceLast ==
  ASSUME NEW S, NEW seq \in Seq(S), seq # <<>>, NEW x \in S
  PROVE  [seq EXCEPT ![Len(seq)] = x] = Append(SubSeq(seq, 1, Len(seq) - 1), x)
<1> DEFINE n == Len(seq)
           r == Append(SubSeq(seq, 1, n - 1), x)
           l == [seq EXCEPT ![n] = x]
<1>1. n \in Nat \ {0} /\ n - 1 \in Nat /\ n - 1 <= Len(seq)
  BY EmptySeq
<1>2. /\ SubSeq(seq, 1, n - 1) \in Seq(S)
      /\ Len(SubSeq(seq, 1, n - 1)) = n - 1
      /\ \A i \in 1..(n - 1) : SubSeq(seq, 1, n - 1)[i] = seq[i]
  BY Zenon, <1>1, FrontProperties
<1>3. r \in Seq(S) /\ Len(r) = n /\ r[n] = x /\ \A i \in 1..(n - 1) : r[i] = seq[i]
  BY <1>1, <1>2
<1>4. l \in Seq(S) /\ Len(l) = n /\ l[n] = x /\ \A i \in 1..(n - 1) : l[i] = seq[i]
  BY <1>1
<1> HIDE DEF n, r, l
<1>5. \A i \in 1..n : l[i] = r[i]
  BY <1>1, <1>3, <1>4
<1>6. l = r
  BY <1>3, <1>4, <1>5, SeqEqual
<1> QED BY <1>6 DEF l, r, n

\* Closing the innermost block.
LEMMA PopKeepsOK ==
  ASSUME NEW stack \in Seq(ConditionalBlock), NEW hist \in Seq(Group), AllOK(stack, hist),
         stack # <<>>
  PROVE  /\ SubSeq(stack, 1, Len(stack) - 1) \in Seq(ConditionalBlock)
         /\ SubSeq(hist, 1, Len(stack) - 1) \in Seq(Group)
         /\ AllOK(SubSeq(stack, 1, Len(stack) - 1), SubSeq(hist, 1, Len(stack) - 1))
<1> DEFINE n == Len(stack) - 1
           s == SubSeq(stack, 1, n)
           h == SubSeq(hist, 1, n)
<1>1. /\ n \in Nat /\ Len(s) = n /\ Len(h) = n
      /\ \A i \in 1..n : s[i] = stack[i] /\ h[i] = hist[i]
      /\ s \in Seq(ConditionalBlock) /\ h \in Seq(Group)
  <2>1. n \in Nat /\ n < Len(stack) /\ Len(stack) = Len(hist)
    BY DEF AllOK
  <2> QED BY <2>1, FrontProperties
<1> HIDE DEF s, h, n
<1>2. \A i \in 1..n : Outer(h, i) <=> Outer(hist, i)
  BY <1>1 DEF Outer
<1>3. ASSUME NEW i \in 1..n PROVE BlockOK(s[i], h[i], Outer(h, i))
  <2>1. BlockOK(stack[i], hist[i], Outer(hist, i))
    BY <1>1 DEF AllOK, n
  <2> QED BY Zenon, <2>1, <1>1, <1>2 DEF BlockOK
<1> QED BY <1>1, <1>3 DEF AllOK, s, h, n

\* Opening, continuing and closing blocks keeps the flags true to the history.
LEMMA BlockStepKeepsFlags ==
  ASSUME StackType, FlagsFollowHistory, BlockStep
  PROVE  StackType' /\ FlagsFollowHistory'
<1> DEFINE Keeps == /\ mConditionalStack' \in Seq(ConditionalBlock)
                    /\ history' \in Seq(Group)
                    /\ AllOK(mConditionalStack', history')
<1> SUFFICES Keeps
  <2>1. FlagsFollowHistory' <=> AllOK(mConditionalStack', history')
    BY DEF FlagsFollowHistory, AllOK, BlockOK, Outer
  <2> QED BY <2>1 DEF StackType, AllOK
<1> USE DEF StackType
<1>0. AllOK(mConditionalStack, history)
  BY FlagsAreOK
<1>1. CASE UNCHANGED condVars
  BY <1>0, <1>1 DEF condVars
<1>2. ASSUME NEW c \in BOOLEAN, Pushes(c) PROVE Keeps
  <2> DEFINE block == [skipBlock |-> skipping, skipGroup |-> ~skipping /\ ~c,
                       foundValidGroup |-> ~skipping /\ c, foundElseGroup |-> FALSE]
             group == [conds |-> <<c>>, hasElse |-> FALSE]
  <2>1. skipping \in BOOLEAN
    BY DEF skipping
  <2>2. block \in ConditionalBlock /\ group \in Group
    BY <2>1 DEF ConditionalBlock, Group
  <2>3. skipping <=> Outer(history, Len(mConditionalStack) + 1)
    BY TopDecides DEF SkippingIsExclusion, Abstract!Included, Outer
  <2>4. Abstract!Selected(group) <=> c
    BY DEF Abstract!Selected
  <2>5. BlockOK(block, group, Outer(history, Len(mConditionalStack) + 1))
    <3>1. Len(group.conds) = 1 /\ group.conds[1] = c
      OBVIOUS
    <3>2. (\E k \in 1..Len(group.conds) : group.conds[k]) <=> c
      BY <3>1
    <3>3. /\ block.skipBlock = skipping /\ block.skipGroup = (~skipping /\ ~c)
          /\ block.foundValidGroup = (~skipping /\ c) /\ block.foundElseGroup = FALSE
          /\ group.hasElse = FALSE
      OBVIOUS
    <3> HIDE DEF block, group
    <3>4. block.skipBlock <=> Outer(history, Len(mConditionalStack) + 1)
      BY <2>3, <3>3
    <3>5. ~block.skipBlock => /\ block.skipGroup <=> ~Abstract!Selected(group)
                              /\ block.foundValidGroup <=> c
                              /\ block.foundElseGroup <=> group.hasElse
      BY Zenon, <2>1, <2>4, <3>3
    <3> QED BY <3>1, <3>2, <3>4, <3>5 DEF BlockOK
  <2>6. mConditionalStack' = Append(mConditionalStack, block) /\ history' = Append(history, group)
    BY <1>2 DEF Pushes
  <2> HIDE DEF block, group
  <2> QED BY <1>0, <2>2, <2>5, <2>6, PushKeepsOK
<1>3. ASSUME NEW c \in BOOLEAN, NEW isElse \in BOOLEAN, Continues(c, isElse) PROVE Keeps
  <2> DEFINE old == mConditionalStack[top]
             was == history[top]
             block == [skipBlock |-> FALSE, skipGroup |-> old.foundValidGroup \/ ~c,
                       foundValidGroup |-> old.foundValidGroup \/ c, foundElseGroup |-> isElse]
             group == [conds |-> Append(was.conds, c), hasElse |-> isElse]
             s == SubSeq(mConditionalStack, 1, top - 1)
             h == SubSeq(history, 1, top - 1)
  <2>1. /\ mConditionalStack # <<>> /\ history # <<>>
        /\ top = Len(mConditionalStack) /\ top = Len(history) /\ top \in Nat \ {0}
        /\ ~old.skipBlock
    BY <1>3, NonEmptyTop DEF Continues, strayGroup, skippedBlock, top
  <2>2. old \in ConditionalBlock /\ was \in Group
    BY <2>1
  <2>3. BlockOK(old, was, Outer(history, top))
    BY <1>0, <2>1 DEF AllOK
  <2>4. block \in ConditionalBlock /\ group \in Group
    BY <2>2 DEF ConditionalBlock, Group
  <2>5. /\ s \in Seq(ConditionalBlock) /\ h \in Seq(Group) /\ AllOK(s, h)
        /\ Len(s) = top - 1 /\ \A j \in 1..(top - 1) : h[j] = history[j]
    BY <1>0, <2>1, PopKeepsOK, FrontProperties
  <2>6. Outer(h, Len(s) + 1) <=> Outer(history, top)
    BY <2>1, <2>5 DEF Outer
  <2>7. Abstract!Selected(group) <=> c /\ ~old.foundValidGroup
    BY <2>1, <2>2, <2>3, SelectedAppend DEF BlockOK, Group
  <2>8. BlockOK(block, group, Outer(h, Len(s) + 1))
    <3> HIDE DEF old, was, s, h
    <3>1. Len(group.conds) > 0
      BY <2>2 DEF Group
    <3>2. (\E k \in 1..Len(group.conds) : group.conds[k])
            <=> c \/ \E k \in 1..Len(was.conds) : was.conds[k]
      <4>1. /\ Len(group.conds) = Len(was.conds) + 1 /\ Len(was.conds) \in Nat
            /\ group.conds[Len(was.conds) + 1] = c
            /\ \A k \in 1..Len(was.conds) : group.conds[k] = was.conds[k]
        BY <2>2 DEF Group
      <4> QED BY <4>1
    <3>3. old.foundValidGroup \in BOOLEAN
      BY <2>2 DEF ConditionalBlock
    <3> QED BY Zenon, <2>1, <2>3, <2>6, <2>7, <3>1, <3>2, <3>3 DEF BlockOK
  <2>9. mConditionalStack' = Append(s, block) /\ history' = Append(h, group)
    BY <1>3, <2>1, <2>4, ReplaceLast DEF Continues
  <2> HIDE DEF old, was, block, group, s, h
  <2> QED BY <2>4, <2>5, <2>8, <2>9, PushKeepsOK
<1>4. CASE Pops
  BY <1>0, <1>4, PopKeepsOK DEF Pops, top
<1> QED BY Zenon, <1>1, <1>2, <1>3, <1>4 DEF BlockStep

-----------------------------------------------------------------------------
(* Exclusion and refinement, for every behaviour                           *)

ExclusionInv == StackType /\ FlagsFollowHistory

LEMMA ExclusionInvariant == Spec => []ExclusionInv
<1>1. Init => ExclusionInv
  BY DEF Init, ExclusionInv, StackType, FlagsFollowHistory
<1>2. ExclusionInv /\ [Next]_vars => ExclusionInv'
  BY NextIsBlockStep, BlockStepKeepsFlags DEF ExclusionInv
<1> QED BY <1>1, <1>2, PTL DEF Spec

\* The four flags of every open block mean what FlagsFollowHistory says.
THEOREM FlagsCorrect == Spec => []FlagsFollowHistory
BY ExclusionInvariant, PTL DEF ExclusionInv

\* skipping(), which reads the innermost block only, is exclusion by any block.
THEOREM SkippingCorrect == Spec => []SkippingIsExclusion
<1>1. ExclusionInv => SkippingIsExclusion
  BY TopDecides DEF ExclusionInv
<1> QED BY <1>1, ExclusionInvariant, PTL

\* Every line of the parser is a line of conditional inclusion.
LEMMA LineRefines ==
  ASSUME ExclusionInv, [Next]_vars
  PROVE  [Abstract!Next]_<<history, out>>
<1> USE DEF Abstract!Next
<1>0. skipping <=> ~Abstract!Included
  BY TopDecides DEF ExclusionInv, SkippingIsExclusion
<1>1. CASE UNCHANGED vars
  BY <1>1 DEF vars, condVars
<1>2. CASE Text
  BY Zenon, <1>0, <1>2 DEF Text, condVars, Abstract!Text
<1>3. CASE EndOfInput
  BY <1>3 DEF EndOfInput, condVars, Abstract!Ignored
<1>4. ASSUME NEW eof \in BOOLEAN, Conditional(eof) PROVE Abstract!Next
  <2>1. out' = "none"
    BY Zenon, <1>4 DEF Conditional, parseIf, parseIfdef, parseConditionalIf, parseElif, parseElse,
       parseEndif
  <2>2. BlockStep
    BY <1>4, NextIsBlockStep DEF Next, ExclusionInv
  <2>3. CASE UNCHANGED condVars
    BY <2>1, <2>3 DEF condVars, Abstract!Ignored
  <2>4. ASSUME NEW c \in BOOLEAN, Pushes(c) PROVE Abstract!Next
    BY Zenon, <2>1, <2>4 DEF Pushes, Abstract!Open
  <2>5. ASSUME NEW c \in BOOLEAN, NEW isElse \in BOOLEAN, Continues(c, isElse)
        PROVE Abstract!Next
    <3>1. /\ mConditionalStack # <<>> /\ history # <<>>
          /\ top = Len(history) /\ top \in 1..Len(mConditionalStack)
          /\ ~mConditionalStack[top].skipBlock /\ ~mConditionalStack[top].foundElseGroup
      BY <2>5, NonEmptyTop
         DEF ExclusionInv, StackType, Continues, strayGroup, skippedBlock, top
    <3>2. ~history[top].hasElse
      BY <3>1 DEF ExclusionInv, FlagsFollowHistory
    <3>3. CASE isElse
      BY <2>1, <2>5, <3>1, <3>2, <3>3 DEF Continues, Abstract!Else
    <3>4. CASE ~isElse
      BY Zenon, <2>1, <2>5, <3>1, <3>2, <3>4 DEF Continues, Abstract!Elif
    <3> QED BY <3>3, <3>4
  <2>6. CASE Pops
    BY <2>1, <2>6 DEF Pops, top, ExclusionInv, StackType, Abstract!Endif
  <2> QED BY <2>2, <2>3, <2>4, <2>5, <2>6 DEF BlockStep
<1>5. ASSUME NEW eof \in BOOLEAN, MacroDirective(eof) PROVE Abstract!Next
  BY <1>0, <1>5 DEF MacroDirective, parseDefine, parseUndef, condVars, Effects,
     Abstract!Effect, Abstract!Ignored
<1>6. ASSUME NEW eof \in BOOLEAN, OtherDirective(eof) PROVE Abstract!Next
  <2>1. ASSUME out' = "none", history' = history PROVE Abstract!Next
    BY <2>1 DEF Abstract!Ignored
  <2>2. ASSUME ~skipping, out' \in Effects, history' = history PROVE Abstract!Next
    BY <1>0, <2>2 DEF Abstract!Effect
  <2>3. ASSUME EmptyDirective(eof) \/ invalidDirective(eof) \/ parseError(eof)
        PROVE Abstract!Next
    BY Zenon, <2>1, <2>2, <2>3 DEF EmptyDirective, invalidDirective, parseError, condVars, Effects
  <2>4. ASSUME NEW b \in BOOLEAN, parseLine(b, eof) \/ SkippedDirective(b, eof)
        PROVE Abstract!Next
    BY Zenon, <2>1, <2>2, <2>4 DEF parseLine, SkippedDirective, condVars, Effects
  <2>5. ASSUME NEW b \in BOOLEAN, NEW refused \in BOOLEAN,
               parsePragma(b, refused, eof) \/ parseExtension(b, refused, eof)
        PROVE Abstract!Next
    BY <2>1, <2>2, <2>5 DEF parsePragma, parseExtension, condVars, Effects
  <2>6. ASSUME NEW version \in Versions, NEW profile \in {"none", "es", "core", "other"},
               NEW badNumber \in BOOLEAN, NEW extra \in BOOLEAN, NEW firstLine \in BOOLEAN,
               parseVersion(version, profile, badNumber, extra, firstLine, eof)
        PROVE Abstract!Next
    <3>1. ~skipping /\ history' = history /\ out' \in {"version", "none"}
      BY <2>6 DEF parseVersion, condVars
    <3> QED BY <2>1, <2>2, <3>1 DEF Effects
  <2> QED BY <1>6, <2>3, <2>4, <2>5, <2>6 DEF OtherDirective
<1> QED BY <1>1, <1>2, <1>3, <1>4, <1>5, <1>6 DEF Next

\* The directive parser implements conditional inclusion.
THEOREM Refinement == Spec => ImplementsInclusion
<1>1. Init => Abstract!Init
  BY DEF Init, Abstract!Init
<1>2. ExclusionInv /\ [Next]_vars => [Abstract!Next]_<<history, out>>
  BY LineRefines
<1> QED BY <1>1, <1>2, ExclusionInvariant, PTL DEF Spec, ImplementsInclusion, Abstract!Spec

-----------------------------------------------------------------------------
(* The version and the macro set                                           *)

\* Before the version is settled only GL_ES is defined, so that predefining the
\* version's macros overwrites nothing; afterwards __VERSION__ is predefined
\* and out of reach of #define and #undef.
VersionInv ==
  /\ mHandledVersion \in BOOLEAN
  /\ mHandledVersion => mPastFirstStatement
  /\ mSeenNonPreprocessorToken => mHandledVersion
  /\ versionCalls = IF mHandledVersion THEN 1 ELSE 0
  /\ ~mHandledVersion => DOMAIN mMacroSet = {EsMacro}
  /\ mHandledVersion => /\ VersionMacro \in DOMAIN mMacroSet
                        /\ mMacroSet[VersionMacro] = [predefined |-> TRUE, value |-> mShaderVersion]

\* What a line may do to one macro.
Kept(macros) ==
  \A n \in DOMAIN mMacroSet :
    /\ n \in DOMAIN macros => macros[n] = mMacroSet[n]
    /\ mMacroSet[n].predefined => n \in DOMAIN macros

\* Settling the version, or meeting a first #version, keeps the macros there are.
LEMMA HandleVersionKeeps ==
  ASSUME VersionInv, ~mHandledVersion, NEW v
  PROVE  /\ Kept(handleVersion(mMacroSet, v))
         /\ VersionMacro \in DOMAIN handleVersion(mMacroSet, v)
         /\ handleVersion(mMacroSet, v)[VersionMacro] = [predefined |-> TRUE, value |-> v]
<1>1. EsMacro \notin predefinedNames(v) /\ VersionMacro \in predefinedNames(v)
  BY ConstantsAssumption DEF predefinedNames, EsMacro, VersionMacro
<1>2. DOMAIN mMacroSet = {EsMacro}
  BY DEF VersionInv
<1> QED BY <1>1, <1>2 DEF handleVersion, Kept

LEMMA SettledKeeps ==
  ASSUME VersionInv
  PROVE  /\ Kept(settledMacros)
         /\ DOMAIN mMacroSet \subseteq DOMAIN settledMacros
         /\ VersionMacro \in DOMAIN settledMacros
         /\ settledMacros[VersionMacro] = [predefined |-> TRUE, value |-> mShaderVersion]
<1>1. CASE mHandledVersion
  BY <1>1 DEF settledMacros, Kept, VersionInv
<1>2. CASE ~mHandledVersion
  BY <1>2, HandleVersionKeeps DEF settledMacros, handleVersion
<1> QED BY <1>1, <1>2

\* A line that settles the version and then adds or removes user macros only.
LEMMA SettlingLine ==
  ASSUME VersionInv, SettleVersion, mShaderVersion' = mShaderVersion,
         mPastFirstStatement', Kept(mMacroSet'),
         VersionMacro \in DOMAIN mMacroSet',
         mMacroSet'[VersionMacro] = settledMacros[VersionMacro]
  PROVE  VersionInv' /\ Kept(mMacroSet')
BY SettledKeeps DEF VersionInv, SettleVersion

LEMMA VersionStep ==
  ASSUME VersionInv, [Next]_vars
  PROVE  VersionInv' /\ Kept(mMacroSet')
<1> DEFINE Goal == VersionInv' /\ Kept(mMacroSet')
<1>1. ASSUME UNCHANGED versionVars, UNCHANGED <<mSeenNonPreprocessorToken, mShaderVersion>>,
             mPastFirstStatement => mPastFirstStatement'
      PROVE Goal
  BY <1>1 DEF versionVars, VersionInv, Kept
<1>2. ASSUME NEW bad, NEW eof, DirectiveEnd(bad, eof) PROVE Goal
  BY <1>2, SettledKeeps, SettlingLine DEF DirectiveEnd, EndLine
<1>3. CASE UNCHANGED vars
  BY <1>1, <1>3 DEF vars, flagVars, versionVars
<1>4. CASE Text
  <2>1. CASE skipping
    BY <1>1, <1>4, <2>1 DEF Text, flagVars
  <2>2. CASE ~skipping
    BY <1>4, <2>2, SettledKeeps, SettlingLine DEF Text, EndLine
  <2> QED BY <2>1, <2>2
<1>5. CASE EndOfInput
  BY <1>1, <1>5 DEF EndOfInput, EndLine
<1>6. ASSUME NEW eof \in BOOLEAN, Conditional(eof) PROVE Goal
  BY Zenon, <1>2, <1>6 DEF Conditional, parseIf, parseIfdef, parseConditionalIf, parseElse, parseElif,
     parseEndif
<1>7. ASSUME NEW eof \in BOOLEAN, MacroDirective(eof) PROVE Goal
  <2>1. ASSUME NEW name \in MacroNames, NEW malformed \in BOOLEAN, NEW value \in Values,
               parseDefine(name, value, malformed, eof)
        PROVE Goal
    <3>1. /\ DOMAIN settledMacros \subseteq DOMAIN mMacroSet'
          /\ \A n \in DOMAIN settledMacros : mMacroSet'[n] = settledMacros[n]
      BY <2>1 DEF parseDefine
    <3>2. Kept(mMacroSet')
      BY <3>1, SettledKeeps DEF Kept
    <3> QED BY <2>1, <3>1, <3>2, SettledKeeps, SettlingLine DEF parseDefine, EndLine
  <2>2. ASSUME NEW name \in MacroNames, NEW malformed \in BOOLEAN, NEW inUse \in BOOLEAN,
               NEW extra \in BOOLEAN, parseUndef(name, inUse, malformed, extra, eof)
        PROVE Goal
    <3>1. /\ DOMAIN mMacroSet' \subseteq DOMAIN settledMacros
          /\ \A n \in DOMAIN mMacroSet' : mMacroSet'[n] = settledMacros[n]
          /\ \A n \in DOMAIN settledMacros : settledMacros[n].predefined => n \in DOMAIN mMacroSet'
      BY <2>2 DEF parseUndef
    <3>2. Kept(mMacroSet')
      BY <3>1, SettledKeeps DEF Kept
    <3> QED BY <2>2, <3>1, <3>2, SettledKeeps, SettlingLine DEF parseUndef, EndLine
  <2> QED BY <1>7, <2>1, <2>2 DEF MacroDirective
<1>8. ASSUME NEW eof \in BOOLEAN, OtherDirective(eof) PROVE Goal
  <2>1. ASSUME EmptyDirective(eof) PROVE Goal
    BY <1>1, <2>1 DEF EmptyDirective, EndLine
  <2>2. ASSUME NEW b \in BOOLEAN, SkippedDirective(b, eof) PROVE Goal
    BY Zenon, <1>1, <1>2, <2>2 DEF SkippedDirective, EndLine
  <2>3. ASSUME NEW version \in Versions, NEW profile \in {"none", "es", "core", "other"},
               NEW badNumber \in BOOLEAN, NEW extra \in BOOLEAN, NEW firstLine \in BOOLEAN,
               parseVersion(version, profile, badNumber, extra, firstLine, eof)
        PROVE Goal
    <3>1. CASE UNCHANGED <<mShaderVersion, versionVars>>
      BY <1>1, <2>3, <3>1 DEF parseVersion, EndLine
    <3>2. CASE /\ ~mPastFirstStatement /\ mShaderVersion' = version
               /\ mMacroSet' = handleVersion(mMacroSet, version)
               /\ mHandledVersion' = TRUE /\ versionCalls' = versionCalls + 1
               /\ mPastFirstStatement' = TRUE
      <4>1. ~mHandledVersion
        BY <3>2 DEF VersionInv
      <4> QED BY <3>2, <4>1, HandleVersionKeeps DEF VersionInv
    <3> QED BY Zenon, <2>3, <3>1, <3>2 DEF parseVersion, EndLine
  <2> QED BY Zenon, <1>2, <1>8, <2>1, <2>2, <2>3 DEF OtherDirective, invalidDirective, parseError,
        parseLine, parsePragma, parseExtension
<1> QED BY <1>3, <1>4, <1>5, <1>6, <1>7, <1>8 DEF Next

LEMMA VersionInvariant == Spec => []VersionInv
<1>1. Init => VersionInv
  BY Zenon DEF Init, VersionInv, EsMacro
<1>2. VersionInv /\ [Next]_vars => VersionInv'
  BY VersionStep
<1> QED BY <1>1, <1>2, PTL DEF Spec

\* The handler learns the version once, before any program text is delivered.
THEOREM VersionCorrect == Spec => []VersionHandledOnce
<1>1. VersionInv => VersionHandledOnce
  BY DEF VersionInv, VersionHandledOnce
<1> QED BY <1>1, VersionInvariant, PTL

\* A macro keeps its body while it is defined; predefined ones stay defined.
THEOREM MacrosCorrect == Spec => MacrosStable
<1>1. VersionInv /\ [Next]_vars =>
        [\A n \in DOMAIN mMacroSet :
           /\ n \in DOMAIN mMacroSet' => mMacroSet'[n] = mMacroSet[n]
           /\ mMacroSet[n].predefined => n \in DOMAIN mMacroSet']_vars
  BY VersionStep DEF Kept
<1> QED BY <1>1, VersionInvariant, PTL DEF Spec, MacrosStable

-----------------------------------------------------------------------------
(* Types                                                                   *)

MacrosTyped(macros) ==
  /\ DOMAIN macros \subseteq MacroNames \cup ExtensionMacros
  /\ \A n \in DOMAIN macros : macros[n] \in Macro

LEMMA HandleVersionTyped ==
  ASSUME MacrosTyped(mMacroSet), NEW v \in Versions \cup {100}
  PROVE  MacrosTyped(handleVersion(mMacroSet, v))
<1>1. predefinedNames(v) \subseteq MacroNames \cup ExtensionMacros
  BY DEF predefinedNames, MacroNames
<1>2. \A n : [predefined |-> TRUE, value |-> IF n = VersionMacro THEN v ELSE 1] \in Macro
  BY DEF Macro
<1> QED BY <1>1, <1>2 DEF MacrosTyped, handleVersion

LEMMA SettledTyped ==
  ASSUME TypeOK
  PROVE  MacrosTyped(settledMacros)
<1>1. MacrosTyped(mMacroSet) /\ mShaderVersion \in Versions \cup {100}
  BY DEF TypeOK, MacrosTyped
<1> QED BY <1>1, HandleVersionTyped DEF settledMacros

\* Everything TypeOK says but for the stack and the macros.
RestType ==
  /\ {mHandledVersion, mPastFirstStatement, mSeenNonPreprocessorToken, error, done}
       \subseteq BOOLEAN
  /\ mShaderVersion \in Versions \cup {100}
  /\ shaderSpec \in ShaderSpecs
  /\ out \in Effects \cup {"none", "token", "dropped"}
  /\ versionCalls \in Nat

LEMMA TypeSplit == TypeOK <=> StackType /\ RestType /\ MacrosTyped(mMacroSet)
BY DEF TypeOK, StackType, RestType, MacrosTyped, Group

LEMMA RestStep ==
  ASSUME TypeOK, [Next]_vars
  PROVE  RestType' /\ MacrosTyped(mMacroSet')
<1> DEFINE Goal == RestType' /\ MacrosTyped(mMacroSet')
<1> DEFINE Outs == Effects \cup {"none", "token", "dropped"}
<1>0. RestType /\ MacrosTyped(mMacroSet) /\ MacrosTyped(settledMacros)
  BY TypeSplit, SettledTyped
<1>e. ASSUME NEW bad \in BOOLEAN, NEW eof \in BOOLEAN, EndLine(bad, eof)
      PROVE /\ error' \in BOOLEAN /\ done' \in BOOLEAN /\ mPastFirstStatement' \in BOOLEAN
            /\ shaderSpec' \in ShaderSpecs
  BY <1>0, <1>e DEF EndLine, RestType
<1>s. settleError \in BOOLEAN
  BY DEF settleError
<1>1. ASSUME NEW bad \in BOOLEAN, NEW eof \in BOOLEAN, EndLine(bad, eof), out' \in Outs,
             SettleVersion, MacrosTyped(mMacroSet'),
             mSeenNonPreprocessorToken' \in BOOLEAN, mShaderVersion' = mShaderVersion
      PROVE Goal
  BY <1>0, <1>1, <1>e DEF SettleVersion, RestType
<1>2. ASSUME NEW bad \in BOOLEAN, NEW eof \in BOOLEAN, EndLine(bad, eof), out' \in Outs,
             UNCHANGED <<versionVars, mSeenNonPreprocessorToken, mShaderVersion>>
      PROVE Goal
  BY <1>0, <1>2, <1>e DEF versionVars, RestType
<1>3. ASSUME NEW bad \in BOOLEAN, NEW eof \in BOOLEAN, DirectiveEnd(bad, eof), out' \in Outs
      PROVE Goal
  <2>1. (bad \/ settleError) \in BOOLEAN
    BY <1>s
  <2>2. mSeenNonPreprocessorToken \in BOOLEAN
    BY <1>0 DEF RestType
  <2> QED BY Zenon, <1>0, <1>1, <1>3, <2>1, <2>2 DEF DirectiveEnd
<1>4. CASE UNCHANGED vars
  BY <1>0, <1>4 DEF vars, flagVars, versionVars, RestType
<1>5. CASE Text
  <2>1. CASE skipping
    BY <1>0, <1>5, <2>1 DEF Text, flagVars, versionVars, RestType
  <2>2. CASE ~skipping
    BY Zenon, <1>0, <1>1, <1>5, <1>s, <2>2 DEF Text
  <2> QED BY <2>1, <2>2
<1>6. CASE EndOfInput
  BY Zenon, <1>2, <1>6 DEF EndOfInput
<1>7. ASSUME NEW eof \in BOOLEAN, Conditional(eof) PROVE Goal
  <2>1. \E bad : DirectiveEnd(bad, eof) /\ bad \in BOOLEAN /\ out' = "none"
    BY Zenon, <1>7 DEF Conditional, parseIf, parseIfdef, parseConditionalIf, parseElse, parseElif,
       parseEndif
  <2> QED BY <1>3, <2>1
<1>8. ASSUME NEW eof \in BOOLEAN, MacroDirective(eof) PROVE Goal
  <2>0. mSeenNonPreprocessorToken \in BOOLEAN
    BY <1>0 DEF RestType
  <2>1. ASSUME NEW name \in MacroNames, NEW malformed \in BOOLEAN, NEW value \in Values,
               parseDefine(name, value, malformed, eof)
        PROVE Goal
    <3>1. MacrosTyped(mMacroSet')
      <4>1. \/ mMacroSet' = settledMacros
            \/ mMacroSet' = [n \in DOMAIN settledMacros \cup {name} |->
                               IF n = name THEN [predefined |-> FALSE, value |-> value]
                                           ELSE settledMacros[n]]
        BY <2>1 DEF parseDefine
      <4>2. [predefined |-> FALSE, value |-> value] \in Macro
        BY DEF Macro
      <4> QED BY Zenon, <1>0, <4>1, <4>2 DEF MacrosTyped
    <3>2. \E bad \in BOOLEAN : EndLine(bad, eof) /\ out' \in Outs
      BY Zenon, <2>1, <1>s DEF parseDefine, Effects
    <3> QED BY <1>1, <2>0, <2>1, <3>1, <3>2 DEF parseDefine
  <2>2. ASSUME NEW name \in MacroNames, NEW malformed \in BOOLEAN, NEW inUse \in BOOLEAN,
               NEW extra \in BOOLEAN, parseUndef(name, inUse, malformed, extra, eof)
        PROVE Goal
    <3>1. MacrosTyped(mMacroSet')
      BY <1>0, <2>2 DEF parseUndef, MacrosTyped
    <3>2. \E bad \in BOOLEAN : EndLine(bad, eof) /\ out' \in Outs
      BY Zenon, <2>2, <1>s DEF parseUndef, Effects
    <3> QED BY <1>1, <2>0, <2>2, <3>1, <3>2 DEF parseUndef
  <2> QED BY <1>8, <2>1, <2>2 DEF MacroDirective
<1>9. ASSUME NEW eof \in BOOLEAN, OtherDirective(eof) PROVE Goal
  <2>1. ASSUME EmptyDirective(eof) PROVE Goal
    BY Zenon, <1>2, <2>1 DEF EmptyDirective
  <2>2. ASSUME NEW b \in BOOLEAN, SkippedDirective(b, eof) PROVE Goal
    BY Zenon, <1>2, <1>3, <2>2 DEF SkippedDirective
  <2>3. ASSUME NEW version \in Versions, NEW profile \in {"none", "es", "core", "other"},
               NEW badNumber \in BOOLEAN, NEW extra \in BOOLEAN, NEW firstLine \in BOOLEAN,
               parseVersion(version, profile, badNumber, extra, firstLine, eof)
        PROVE Goal
    <3>1. out' \in Outs /\ UNCHANGED mSeenNonPreprocessorToken
      BY <2>3 DEF parseVersion, Effects
    <3>2. versionSupported(version) \in BOOLEAN
      BY DEF versionSupported
    <3>3. CASE EndLine(TRUE, eof) /\ UNCHANGED <<mShaderVersion, versionVars>>
      BY Zenon, <1>2, <3>1, <3>3
    <3>4. CASE /\ mShaderVersion' = version
               /\ mMacroSet' = handleVersion(mMacroSet, version)
               /\ mHandledVersion' = TRUE /\ versionCalls' = versionCalls + 1
               /\ EndLine(~versionSupported(version), eof)
      <4>1. MacrosTyped(mMacroSet')
        BY <1>0, <3>4, HandleVersionTyped
      <4>2. /\ error' \in BOOLEAN /\ done' \in BOOLEAN /\ mPastFirstStatement' \in BOOLEAN
            /\ shaderSpec' \in ShaderSpecs
        <5>1. (~versionSupported(version)) \in BOOLEAN
          BY <3>2
        <5> QED BY Zenon, <1>e, <3>4, <5>1
      <4> QED BY <1>0, <3>1, <3>4, <4>1, <4>2 DEF RestType
    <3> QED BY Zenon, <2>3, <3>3, <3>4 DEF parseVersion
  <2>4. ASSUME NEW b \in BOOLEAN, NEW r \in BOOLEAN,
               \/ invalidDirective(eof) \/ parseError(eof) \/ parseLine(b, eof)
               \/ parsePragma(b, r, eof) \/ parseExtension(b, r, eof)
        PROVE Goal
    <3>1. \E bad \in BOOLEAN : DirectiveEnd(bad, eof) /\ out' \in Outs
      BY Zenon, <2>4 DEF invalidDirective, parseError, parseLine, parsePragma, parseExtension, Effects
    <3> QED BY <1>3, <3>1
  <2> QED BY <1>9, <2>1, <2>2, <2>3, <2>4 DEF OtherDirective
<1> QED BY <1>4, <1>5, <1>6, <1>7, <1>8, <1>9 DEF Next

\* Every state of the directive parser is well typed.
THEOREM TypeCorrect == Spec => []TypeOK
<1>1. Init => TypeOK
  <2> SUFFICES ASSUME Init PROVE TypeOK
    OBVIOUS
  <2>1. MacrosTyped(mMacroSet)
    BY DEF Init, MacrosTyped, MacroNames, Macro
  <2>2. StackType
    BY DEF Init, StackType
  <2>3. RestType
    BY Zenon DEF Init, RestType
  <2> QED BY <2>1, <2>2, <2>3, TypeSplit
<1>2. TypeOK /\ ExclusionInv /\ ExclusionInv' /\ [Next]_vars => TypeOK'
  <2> SUFFICES ASSUME TypeOK, ExclusionInv', [Next]_vars PROVE TypeOK'
    OBVIOUS
  <2>1. RestType' /\ MacrosTyped(mMacroSet') /\ StackType'
    BY RestStep DEF ExclusionInv
  <2> QED BY Zenon, <2>1 DEF TypeOK, RestType, MacrosTyped, StackType, Group
<1> QED BY <1>1, <1>2, ExclusionInvariant, PTL DEF Spec

-----------------------------------------------------------------------------
(* Silence inside excluded groups                                          *)

\* The version is settled before any block is open.
SettledInside == mConditionalStack # <<>> => mHandledVersion

LEMMA SettledInsideStep ==
  ASSUME SettledInside, [Next]_vars
  PROVE  SettledInside'
<1>1. mHandledVersion' \/ (mHandledVersion' = mHandledVersion /\ UNCHANGED condVars)
  <2>1. ASSUME NEW eof \in BOOLEAN, Conditional(eof) PROVE mHandledVersion'
    BY Zenon, <2>1 DEF Conditional, parseIf, parseIfdef, parseConditionalIf, parseElse, parseElif,
       parseEndif, DirectiveEnd, SettleVersion
  <2>2. ASSUME NEW eof \in BOOLEAN, MacroDirective(eof) PROVE mHandledVersion'
    BY <2>2 DEF MacroDirective, parseDefine, parseUndef, SettleVersion
  <2>3. ASSUME NEW eof \in BOOLEAN, OtherDirective(eof)
        PROVE mHandledVersion' \/ (mHandledVersion' = mHandledVersion /\ UNCHANGED condVars)
    <3>1. ASSUME NEW bad, DirectiveEnd(bad, eof) PROVE mHandledVersion'
      BY <3>1 DEF DirectiveEnd, SettleVersion
    <3>2. ASSUME NEW version, NEW profile, NEW badNumber, NEW extra, NEW firstLine,
                 parseVersion(version, profile, badNumber, extra, firstLine, eof)
          PROVE mHandledVersion' \/ (mHandledVersion' = mHandledVersion /\ UNCHANGED condVars)
      <4>1. mHandledVersion' = TRUE \/ UNCHANGED versionVars
        BY <3>2, Zenon DEF parseVersion
      <4>2. UNCHANGED condVars
        BY <3>2 DEF parseVersion
      <4> QED BY <4>1, <4>2 DEF versionVars
    <3>3. ASSUME EmptyDirective(eof)
          PROVE mHandledVersion' = mHandledVersion /\ UNCHANGED condVars
      BY <3>3 DEF EmptyDirective, versionVars
    <3>4. ASSUME NEW b \in BOOLEAN, SkippedDirective(b, eof)
          PROVE mHandledVersion' \/ (mHandledVersion' = mHandledVersion /\ UNCHANGED condVars)
      BY Zenon, <3>1, <3>4 DEF SkippedDirective, versionVars
    <3> QED BY Zenon, <2>3, <3>1, <3>2, <3>3, <3>4 DEF OtherDirective, invalidDirective, parseError, parseLine,
          parsePragma, parseExtension
  <2> QED BY Zenon, <2>1, <2>2, <2>3
          DEF Next, Text, EndOfInput, vars, versionVars, SettleVersion
<1> QED BY <1>1 DEF SettledInside, condVars

LEMMA QuietStep ==
  ASSUME TypeOK, ExclusionInv, SettledInside, [Next]_vars,
         EnclosingExcluded, ~done', Len(history') >= Len(history)
  PROVE  error' = error
<1>1. /\ mConditionalStack # <<>> /\ top \in 1..Len(mConditionalStack)
      /\ mConditionalStack[top].skipBlock
  <2>1. PICK i \in 1..(Len(history) - 1) : ~Abstract!Selected(history[i])
    BY DEF EnclosingExcluded
  <2>2. top = Len(history) /\ top \in 1..Len(mConditionalStack)
    BY <2>1 DEF ExclusionInv, StackType, top
  <2>3. mConditionalStack[top].skipBlock <=> \E j \in 1..(top - 1) : ~Abstract!Selected(history[j])
    BY Zenon, <2>2 DEF ExclusionInv, FlagsFollowHistory
  <2>4. mConditionalStack # <<>> BY <2>2
  <2> QED BY Zenon, <2>1, <2>2, <2>3, <2>4
<1>2. skipping /\ skippedBlock /\ ~strayGroup /\ ~settleError /\ error \in BOOLEAN
  BY <1>1 DEF skipping, skippedBlock, strayGroup, settleError, SettledInside, top, TypeOK
<1>3. ASSUME EndLine(FALSE, FALSE) PROVE error' = error
  BY <1>2, <1>3 DEF EndLine
<1>4. ASSUME NEW eof \in BOOLEAN, DirectiveEnd(FALSE, eof) PROVE error' = error
  BY <1>2, <1>4 DEF DirectiveEnd, EndLine
<1>5. CASE UNCHANGED vars
  BY <1>5 DEF vars
<1>6. CASE Text \/ EndOfInput
  BY <1>2, <1>6 DEF Text, EndOfInput, EndLine
<1>7. ASSUME NEW eof \in BOOLEAN, Conditional(eof) PROVE error' = error
  <2>1. ASSUME NEW extra \in BOOLEAN, parseEndif(extra, eof) PROVE FALSE
    <3>1. history' = SubSeq(history, 1, top - 1)
      BY <1>1, <2>1 DEF parseEndif
    <3>2. Len(history') = top - 1 /\ Len(history) = top
      BY <1>1, <3>1, FrontProperties DEF ExclusionInv, StackType, top
    <3> QED BY <1>1, <3>2
  <2>2. DirectiveEnd(FALSE, eof)
    BY Zenon, <1>2, <1>7, <2>1 DEF Conditional, parseIf, parseIfdef, parseConditionalIf, parseElse,
       parseElif
  <2> QED BY Zenon, <1>4, <2>2
<1>8. ASSUME NEW eof \in BOOLEAN, MacroDirective(eof) PROVE FALSE
  BY <1>2, <1>8 DEF MacroDirective, parseDefine, parseUndef
<1>9. ASSUME NEW eof \in BOOLEAN, OtherDirective(eof) PROVE error' = error
  <2>1. EmptyDirective(eof) \/ \E b \in BOOLEAN : SkippedDirective(b, eof)
    BY <1>2, <1>9 DEF OtherDirective, invalidDirective, parseError, parseLine, parsePragma,
       parseExtension, parseVersion
  <2>2. EndLine(FALSE, eof) \/ DirectiveEnd(FALSE, eof)
    BY Zenon, <2>1 DEF EmptyDirective, SkippedDirective
  <2> QED BY Zenon, <1>3, <1>4, <2>2 DEF EndLine
<1> QED BY <1>5, <1>6, <1>7, <1>8, <1>9 DEF Next

\* A line nested in an excluded group reports nothing, whatever it contains.
THEOREM QuietCorrect == Spec => QuietWhenExcluded
<1>1. Init => SettledInside
  BY DEF Init, SettledInside
<1>2. SettledInside /\ [Next]_vars => SettledInside'
  BY SettledInsideStep
<1>3. TypeOK /\ ExclusionInv /\ SettledInside /\ [Next]_vars =>
        [EnclosingExcluded /\ ~done' /\ Len(history') >= Len(history) => error' = error]_vars
  BY QuietStep
<1> QED BY <1>1, <1>2, <1>3, TypeCorrect, ExclusionInvariant, PTL DEF Spec, QuietWhenExcluded
=============================================================================
