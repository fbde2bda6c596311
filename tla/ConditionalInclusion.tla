------------------------ MODULE ConditionalInclusion ------------------------
(***************************************************************************)
(* What conditional compilation promises, stated without the flags the     *)
(* directive parser keeps.                                                 *)
(*                                                                         *)
(* Every open #if block is remembered as the truth values of the groups    *)
(* begun so far, in order (#else begins a group whose condition is TRUE).  *)
(* A group is selected when its condition holds and no earlier group of    *)
(* its block held; a line takes effect exactly when the current group of   *)
(* EVERY open block is selected.                                           *)
(***************************************************************************)
EXTENDS Naturals, Sequences

CONSTANT Effects    \* what an included line may hand to the rest of the system

VARIABLES
  groups,           \* the open blocks, outermost first: [conds, hasElse]
  out               \* what the last line handed on, or "none"

Block == [conds : Seq(BOOLEAN), hasElse : BOOLEAN]

Selected(block) ==
  LET c == block.conds IN
  /\ c[Len(c)]
  /\ \A j \in 1..(Len(c) - 1) : ~c[j]

Included == \A i \in 1..Len(groups) : Selected(groups[i])

Init == groups = <<>> /\ out = "none"

\* #if, #ifdef and #ifndef open a block with its first group.
Open ==
  \E c \in BOOLEAN :
    /\ groups' = Append(groups, [conds |-> <<c>>, hasElse |-> FALSE])
    /\ out' = "none"

\* #elif begins another group of the innermost block, unless it had its #else.
Elif ==
  /\ groups # <<>>
  /\ ~groups[Len(groups)].hasElse
  /\ \E c \in BOOLEAN :
       groups' = [groups EXCEPT ![Len(groups)] =
                    [conds |-> Append(@.conds, c), hasElse |-> FALSE]]
  /\ out' = "none"

\* #else begins the last group of the innermost block.
Else ==
  /\ groups # <<>>
  /\ ~groups[Len(groups)].hasElse
  /\ groups' = [groups EXCEPT ![Len(groups)] =
                  [conds |-> Append(@.conds, TRUE), hasElse |-> TRUE]]
  /\ out' = "none"

Endif ==
  /\ groups # <<>>
  /\ groups' = SubSeq(groups, 1, Len(groups) - 1)
  /\ out' = "none"

\* Program text is delivered when it is included and dropped when it is not.
Text == out' = (IF Included THEN "token" ELSE "dropped") /\ UNCHANGED groups

\* Only an included directive has an effect.
Effect == Included /\ out' \in Effects /\ UNCHANGED groups

\* A directive without effect: excluded, malformed, or empty.
Ignored == out' = "none" /\ UNCHANGED groups

Next == Open \/ Elif \/ Else \/ Endif \/ Text \/ Effect \/ Ignored

Spec == Init /\ [][Next]_<<groups, out>>
=============================================================================
