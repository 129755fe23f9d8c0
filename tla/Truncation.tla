----------------------------- MODULE Truncation -----------------------------
(***************************************************************************)
(* What the tools show of a text that is longer than they may return: the  *)
(* first lines of a file (read), or the last lines of a command's output   *)
(* (bash).  A text is the sequence of its lines, as splitLines cuts it: a  *)
(* text that ends with a newline has an empty line at its end.             *)
(***************************************************************************)
EXTENDS Naturals, Sequences, FiniteSetsExt

CONSTANTS
  Bytes,     \* Bytes[w]: the length of a line with the words w
  MaxLines,  \* DEFAULT_MAX_LINES
  MaxBytes   \* DEFAULT_MAX_BYTES

ASSUME LimitsAssumption ==
  /\ MaxLines \in Nat \ {0} /\ MaxBytes \in Nat \ {0}
  /\ \A w \in DOMAIN Bytes : Bytes[w] \in Nat

Size(line) == Bytes[line.word]

(* The length of joinLines(lines), which puts a newline between two lines. *)
JoinedBytes(lines) ==
  LET joined[n \in 0..Len(lines)] ==
        IF n = 0 THEN 0
        ELSE joined[n - 1] + Size(lines[n]) + (IF n > 1 THEN 1 ELSE 0)
  IN joined[Len(lines)]

Fits(lines) == Len(lines) <= MaxLines /\ JoinedBytes(lines) <= MaxBytes

FirstLines(lines, k) == SubSeq(lines, 1, k)

LastLines(lines, k) == SubSeq(lines, Len(lines) - k + 1, Len(lines))

(* The whole lines that are taken one by one until the next does not fit; *)
(* tooLong if not even the first does.                                     *)
TruncateHead(lines) ==
  LET k == Min({n \in 0..Len(lines) :
                  n = Len(lines) \/ ~Fits(FirstLines(lines, n + 1))})
  IN [shown     |-> FirstLines(lines, k),
      truncated |-> k < Len(lines),
      tooLong   |-> Size(lines[1]) > MaxBytes]

(* Mutant: the newline between two lines is not counted. *)
TruncateTail_NoNewlines(lines) ==
  LET fit(n) == n <= MaxLines
                  /\ JoinedBytes(LastLines(lines, n)) < MaxBytes + n
      k == Min({n \in 0..Len(lines) : n = Len(lines) \/ ~fit(n + 1)})
      partial == Size(lines[Len(lines)]) > MaxBytes
  IN [shown     |-> LastLines(lines, IF partial THEN 1 ELSE k),
      truncated |-> k < Len(lines),
      partial   |-> partial]

(* The last lines, taken one by one from the end until the next does not   *)
(* fit; the end of the last line if not even that does.                    *)
TruncateTail(lines) ==
  LET k == Min({n \in 0..Len(lines) :
                  n = Len(lines) \/ ~Fits(LastLines(lines, n + 1))})
      partial == Size(lines[Len(lines)]) > MaxBytes
  IN [shown     |-> LastLines(lines, IF partial THEN 1 ELSE k),
      truncated |-> k < Len(lines),
      partial   |-> partial]
-----------------------------------------------------------------------------
(* handleTextRead: one page of a file *)

Start(offset) == IF offset > 0 THEN offset - 1 ELSE 0

BeyondEnd(lines, offset) == Start(offset) >= Len(lines)

Selected(lines, offset, limit) ==
  SubSeq(lines, Start(offset) + 1,
         IF limit > 0 THEN Min({Start(offset) + limit, Len(lines)})
                      ELSE Len(lines))

(* Mutant: the next offset is the number of the last line shown. *)
NextOffset_Repeats(lines, offset, limit) ==
  LET from == Start(offset)
      selected == Selected(lines, offset, limit)
      page == TruncateHead(selected)
  IN IF page.tooLong THEN 0
     ELSE IF page.truncated THEN from + Len(page.shown)
     ELSE IF from + Len(selected) < Len(lines) THEN from + Len(selected) + 1
     ELSE 0

(* Where the notice under the page says to go on, 0 if it says nothing. *)
NextOffset(lines, offset, limit) ==
  LET from == Start(offset)
      selected == Selected(lines, offset, limit)
      page == TruncateHead(selected)
  IN IF page.tooLong THEN 0
     ELSE IF page.truncated THEN from + Len(page.shown) + 1
     ELSE IF from + Len(selected) < Len(lines) THEN from + Len(selected) + 1
     ELSE 0

(* The lines of the page, each with its number in the file. *)
Page(lines, offset, limit) ==
  LET shown == TruncateHead(Selected(lines, offset, limit)).shown
  IN [i \in 1..Len(shown) |->
        [number |-> Start(offset) + i, line |-> shown[i]]]
=============================================================================
