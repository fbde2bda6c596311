------------------------------- MODULE Input -------------------------------
(***************************************************************************)
(* pp::Input (src/compiler/preprocessor/Input.cpp): the reader under the   *)
(* preprocessor's lexer.  The shader is an array of strings; read() copies *)
(* the next run of characters into the lexer's buffer and removes line     *)
(* continuations (a backslash followed by a newline, a carriage return, or *)
(* both), counting each as a line.  A read stops before every backslash    *)
(* and leaves it to the next call.  The lexer (generated by flex from      *)
(* preprocessor.l) is external: it calls read() whenever its buffer runs   *)
(* out, with whatever room it has, and takes a result of zero for the end  *)
(* of the input, after which it never calls again.                         *)
(*                                                                         *)
(* A character is one of the three the code tells apart or an ordinary     *)
(* one.  The code looks at the first character of a string also when the   *)
(* string is empty.  Nul is what it meets there: the terminator, or any    *)
(* ordinary character of data that was given with length 0, which read()   *)
(* passes over alike.  A string given with length 0 in front of a          *)
(* backslash, a newline or a return is outside the model.                  *)
(***************************************************************************)
EXTENDS Naturals, Sequences, SequencesExt

CONSTANTS
    Inputs,     \* the arrays of strings to read, a set of sequences of strings
    MaxSizes,   \* the room the lexer may have when it calls
    IntMax      \* INT_MAX, the largest line number

Backslash == "\\"
Newline == "nl"
Return == "cr"
Nul == "nul"        \* what an empty string shows
NoChar == "none"    \* nullptr: the data ran out

ASSUME InputAssumption ==
    /\ MaxSizes \subseteq Nat \ {0}
    /\ IntMax \in Nat \ {0}

VARIABLES
    mString,    \* the array of strings, fixed by the constructor
    mReadLoc,   \* [sIndex, cIndex]: the next character, both counted from 0
    lineNo,     \* yylineno of the lexer, which read() increments
    text,       \* what the lexer has received, all calls together
    eof         \* read() has returned zero

vars == <<mString, mReadLoc, lineNo, text, eof>>

mCount == Len(mString)

mLength(i) == Len(mString[i + 1])

AtEnd(loc) == loc.sIndex >= mCount

CharAt(loc) ==
    IF AtEnd(loc) THEN NoChar
    ELSE IF loc.cIndex < mLength(loc.sIndex)
         THEN mString[loc.sIndex + 1][loc.cIndex + 1]
         ELSE Nul

\* Move n characters on within the current string, and to the next string at
\* its end.
Advance(loc, n) ==
    IF loc.cIndex + n = mLength(loc.sIndex)
    THEN [sIndex |-> loc.sIndex + 1, cIndex |-> 0]
    ELSE [loc EXCEPT !.cIndex = @ + n]

skipChar(loc) == Advance(loc, 1)

-----------------------------------------------------------------------------
(***************************************************************************)
(* The two halves of read(): the backslash the previous call may have      *)
(* stopped at, and the copying loop.                                       *)
(***************************************************************************)
IsContinuation(loc) ==
    CharAt(loc) = Backslash /\ CharAt(skipChar(loc)) \in {Newline, Return}

\* The newline of a "\r\n" is left in the input.
SkipReturnOnly(loc) == skipChar(skipChar(loc))

SkipContinuation(loc) ==
    LET first == skipChar(loc)
        second == skipChar(first)
    IN  IF CharAt(first) = Return /\ CharAt(second) = Newline
        THEN skipChar(second)
        ELSE second

\* What one turn of the loop copies from the current string: at most maxSize
\* characters, and nothing from the first backslash on.
Chunk(loc, maxSize) ==
    LET s == mString[loc.sIndex + 1]
        room == SubSeq(s, loc.cIndex + 1, Min({Len(s), loc.cIndex + maxSize}))
        stop == SelectInSeq(room, LAMBDA c : c = Backslash)
    IN  [chars |-> IF stop = 0 THEN room ELSE SubSeq(room, 1, stop - 1),
         stopped |-> stop # 0]

\* The copying loop, from loc with nRead characters already in the buffer.
RECURSIVE Copy(_, _, _)
Copy(loc, nRead, maxSize) ==
    IF nRead >= maxSize \/ AtEnd(loc) THEN [chars |-> <<>>, loc |-> loc]
    ELSE LET chunk == Chunk(loc, maxSize)
             next == Advance(loc, Len(chunk.chars))
             rest == Copy(next, nRead + Len(chunk.chars), maxSize)
         IN  IF chunk.stopped
             THEN [chars |-> chunk.chars, loc |-> next]
             ELSE [chars |-> chunk.chars \o rest.chars, loc |-> rest.loc]

Deliver(copied) ==
    /\ mReadLoc' = copied.loc
    /\ text' = text \o copied.chars
    /\ eof' = (copied.chars = <<>>)

\* A continuation at the read position is skipped and counted.  At the last
\* line number the reader fakes an end of the input.
ReadContinuation(maxSize) ==
    LET loc == SkipContinuation(mReadLoc)
    IN  /\ IsContinuation(mReadLoc)
        /\ IF lineNo = IntMax
           THEN /\ mReadLoc' = loc
                /\ eof' = TRUE
                /\ UNCHANGED <<lineNo, text>>
           ELSE /\ lineNo' = lineNo + 1
                /\ Deliver(Copy(loc, 0, maxSize))

\* Any other backslash is text.
ReadBackslash(maxSize) ==
    LET copied == Copy(skipChar(mReadLoc), 1, maxSize)
    IN  /\ CharAt(mReadLoc) = Backslash
        /\ ~ IsContinuation(mReadLoc)
        /\ Deliver([copied EXCEPT !.chars = <<Backslash>> \o @])
        /\ UNCHANGED lineNo

ReadPlain(maxSize) ==
    /\ CharAt(mReadLoc) # Backslash
    /\ Deliver(Copy(mReadLoc, 0, maxSize))
    /\ UNCHANGED lineNo

\* The mutant of read() that copies up to the backslash again.
ReadIgnoresBackslash(maxSize) ==
    /\ Deliver(Copy(mReadLoc, 0, maxSize))
    /\ UNCHANGED lineNo

read(maxSize) ==
    \/ ReadContinuation(maxSize)
    \/ ReadBackslash(maxSize)
    \/ ReadPlain(maxSize)

-----------------------------------------------------------------------------
(***************************************************************************)
(* The lexer asks for more until a call returns nothing.                   *)
(***************************************************************************)
Init ==
    /\ mString \in Inputs
    /\ mReadLoc = [sIndex |-> 0, cIndex |-> 0]
    /\ lineNo = 1
    /\ text = <<>>
    /\ eof = FALSE

Refill ==
    /\ ~ eof
    /\ \E maxSize \in MaxSizes : read(maxSize)
    /\ UNCHANGED mString

Next == Refill

Spec == Init /\ [][Next]_vars

-----------------------------------------------------------------------------
(***************************************************************************)
(* The reference: the strings joined, and every continuation removed from  *)
(* the left.  An empty string separates what stands on its two sides, as   *)
(* its NUL does in the code.                                               *)
(***************************************************************************)
Joined(strings) ==
    FlattenSeq([i \in DOMAIN strings |-> IF strings[i] = <<>> THEN <<Nul>> ELSE strings[i]])

SpliceLength(t) ==
    CASE Len(t) < 2 \/ t[1] # Backslash -> 0
      [] t[2] = Newline -> 2
      [] t[2] = Return -> IF Len(t) > 2 /\ t[3] = Newline THEN 3 ELSE 2
      [] OTHER -> 0

RECURSIVE Splice(_)
Splice(t) ==
    IF t = <<>> THEN [text |-> <<>>, lines |-> 0]
    ELSE LET n == SpliceLength(t)
             rest == Splice(SubSeq(t, (IF n = 0 THEN 1 ELSE n) + 1, Len(t)))
         IN  IF n > 0 THEN [rest EXCEPT !.lines = @ + 1]
             ELSE IF t[1] = Nul THEN rest
             ELSE [rest EXCEPT !.text = <<t[1]>> \o @]

Unread ==
    IF AtEnd(mReadLoc) THEN <<>>
    ELSE LET s == mReadLoc.sIndex + 1
         IN  Joined(<<SubSeq(mString[s], mReadLoc.cIndex + 1, Len(mString[s]))>>
                      \o SubSeq(mString, s + 1, mCount))

\* What the lexer has received, followed by the reference's reading of what is
\* left, is the reference's reading of the whole shader: however the lexer's
\* requests cut the strings, no call loses a character, repeats one, keeps a
\* continuation or takes one apart.  The line number counts each continuation
\* passed exactly once, so that a diagnostic after it names the right line; at
\* INT_MAX it stays, and the reader has reported the end of the input instead
\* of wrapping around (Input::read, Input::skipChar).
SplicedExactly ==
    LET whole == Splice(Joined(mString))
        left == Splice(Unread)
    IN  /\ text \o left.text = whole.text
        /\ \/ lineNo + left.lines = 1 + whole.lines
           \/ lineNo = IntMax /\ eof

\* Every call moves the read position on until the end of the last string: the
\* backslash a call stopped at is consumed by the next one, whatever follows
\* it, and the lexer cannot be answered with the same characters for ever
\* (Input::read, the check that precedes the loop).
EveryCallAdvances == [][mReadLoc' # mReadLoc \/ AtEnd(mReadLoc)]_vars

\* The lexer is told that the input has ended only when it has, or when the
\* line number is about to overflow: Input::read says of the backslash it
\* stops at that "it will be processed on the next call", and the lexer's end
\* rule expects nothing behind it but empty strings.
EofAtEnd == eof => Unread = <<>> \/ lineNo = IntMax
=============================================================================
