-------------------------- MODULE ToolCalls_proofs --------------------------
(***************************************************************************)
(* Proofs about ToolCalls, for any number of callers, files, texts, limits *)
(* and outputs: type correctness (the file is one, whoever emptied and     *)
(* overwrote it), that the edit tool tells the truth, that the pages of a  *)
(* read cover the file, and that what the bash tool shows is the end of    *)
(* the output.                                                             *)
(*                                                                         *)
(* The inductive invariant IInv says of each caller what its call is, by   *)
(* where it is in it; of an edit that nobody has disturbed that the file   *)
(* is empty and then what was written; and of a read that nobody has       *)
(* disturbed that its pages are the first lines of the file and the next   *)
(* begins behind them.                                                     *)
(*                                                                         *)
(* That the diff is true: the changes lead from the beginnings of both     *)
(* texts to their ends (Leads); the parts are cut from them, without a gap *)
(* (Cuts); the diff shows some of them, and all that change something,     *)
(* under the numbers they have on that way (DiffTells).                    *)
(***************************************************************************)
EXTENDS ToolCalls, WellFoundedInduction, SequenceTheorems, TLAPS

-----------------------------------------------------------------------------
(* Numbers and texts *)

(* A set of numbers that is not empty has a least one. *)
LEMMA Least ==
  ASSUME NEW S \in SUBSET Nat, S # {}
  PROVE  \E n \in S : \A m \in S : n <= m
<1> DEFINE R == {ss \in Nat \X Nat : ss[1] < ss[2]}
<1>1. IsWellFoundedOn(R, Nat)
  BY NatLessThanWellFounded DEF OpToRel
<1> HIDE DEF R
<1>2. PICK n \in S : \A m \in S : ~(<<m, n>> \in R)
  BY <1>1, WFMin
<1>3. \A m \in S : ~(m < n)
  BY <1>2 DEF R
<1> QED
  BY <1>3

(* What holds of 0 and goes on from each number to the next holds of all.  *)
LEMMA Induct ==
  ASSUME NEW S, 0 \in S, \A n \in Nat : n \in S => n + 1 \in S
  PROVE  Nat \subseteq S
<1> DEFINE Rest == Nat \ S
           R == {ss \in Nat \X Nat : ss[1] < ss[2]}
<1> SUFFICES ASSUME Rest # {} PROVE FALSE
  OBVIOUS
<1>1. IsWellFoundedOn(R, Nat)
  BY NatLessThanWellFounded DEF OpToRel
<1> HIDE DEF R
<1>2. PICK n \in Rest : \A m \in Rest : ~(<<m, n>> \in R)
  BY <1>1, WFMin
<1>3. n # 0 /\ n - 1 \in Nat /\ <<n - 1, n>> \in R
  BY <1>2 DEF R
<1>4. n - 1 \in S
  BY <1>2, <1>3
<1> QED
  BY <1>2, <1>3, <1>4

LEMMA MinIs ==
  ASSUME NEW S \in SUBSET Nat, S # {}
  PROVE  Min(S) \in S /\ \A m \in S : Min(S) <= m
BY Least DEF Min

(* A text without lines fits; a line does unless it is longer than a page. *)
LEMMA SizeType ==
  ASSUME NEW line \in Line
  PROVE  Size(line) \in Nat
BY LimitsAssumption DEF Size, Line

LEMMA NoLineFits == Fits(<<>>)
<1> DEFINE none == <<>>
           def(f) == [n \in 0..0 |-> IF n = 0 THEN 0
                                     ELSE f[n - 1] + Size(none[n])
                                            + (IF n > 1 THEN 1 ELSE 0)]
           zero == [n \in 0..0 |-> 0]
           f == CHOOSE g : g = def(g)
<1>1. zero = def(zero)
  OBVIOUS
<1>2. f = def(f)
  <2> HIDE DEF def, zero
  <2> QED
    BY <1>1
<1>3. f[0] = 0
  BY <1>2
<1>4. JoinedBytes(<<>>) = 0
  BY <1>3 DEF JoinedBytes
<1> QED
  BY <1>4, LimitsAssumption DEF Fits

LEMMA OneLine ==
  ASSUME NEW line \in Line
  PROVE  Fits(<<line>>) <=> Size(line) <= MaxBytes
<1> DEFINE lines == <<line>>
           def(f) == [n \in 0..1 |-> IF n = 0 THEN 0
                                     ELSE f[n - 1] + Size(lines[n])
                                            + (IF n > 1 THEN 1 ELSE 0)]
           sum == [n \in 0..1 |-> IF n = 0 THEN 0 ELSE Size(line)]
           f == CHOOSE g : g = def(g)
<1>1. Size(line) \in Nat
  BY SizeType
<1>2. sum = def(sum)
  <2>1. \A n \in 0..1 : n = 0 \/ n = 1
    OBVIOUS
  <2>2. sum[0] = 0 /\ sum[1] = Size(line) /\ lines[1] = line
    OBVIOUS
  <2>3. \A n \in 0..1 : sum[n] = def(sum)[n]
    BY <1>1, <2>1, <2>2
  <2> QED
    BY <2>3
<1>3. f = def(f)
  <2> HIDE DEF def, sum
  <2> QED
    BY <1>2
<1>4. f[0] = 0 /\ f[1] = f[1 - 1] + Size(lines[1]) + 0
  <2>1. \A n \in 0..1 : f[n] = IF n = 0 THEN 0
                               ELSE f[n - 1] + Size(lines[n])
                                      + (IF n > 1 THEN 1 ELSE 0)
    <3> HIDE DEF f, lines
    <3> QED
      BY <1>3
  <2> HIDE DEF f, lines
  <2> QED
    BY <2>1
<1>5. f[1] = Size(line)
  <2>1. 1 - 1 = 0 /\ lines[1] = line
    OBVIOUS
  <2> HIDE DEF f, lines
  <2> QED
    BY <1>1, <1>4, <2>1
<1>6. JoinedBytes(lines) = f[1]
  BY DEF JoinedBytes
<1> QED
  <2>1. JoinedBytes(<<line>>) = Size(line)
    BY <1>5, <1>6
  <2>2. Len(<<line>>) = 1 /\ 1 <= MaxLines
    BY LimitsAssumption
  <2> QED
    BY <2>1, <2>2 DEF Fits

(* The lines that are taken from the beginning: as many as fit.            *)
LEMMA HeadIs ==
  ASSUME NEW lines \in Seq(Line), lines # <<>>
  PROVE  \E k \in 0..Len(lines) :
           /\ TruncateHead(lines).shown = FirstLines(lines, k)
           /\ TruncateHead(lines).truncated <=> k < Len(lines)
           /\ TruncateHead(lines).tooLong <=> Size(lines[1]) > MaxBytes
           /\ TruncateHead(lines).tooLong => k = 0
<1> DEFINE S == {n \in 0..Len(lines) :
                   n = Len(lines) \/ ~Fits(FirstLines(lines, n + 1))}
           k == Min(S)
<1>1. Len(lines) \in Nat /\ Len(lines) > 0 /\ lines[1] \in Line
  BY LenProperties, EmptySeq, ElementOfSeq
<1>2. S \in SUBSET Nat /\ Len(lines) \in S
  BY <1>1
<1>3. k \in S /\ \A n \in S : k <= n
  <2> HIDE DEF S
  <2> QED
    BY <1>2, MinIs
<1>4. ASSUME Size(lines[1]) > MaxBytes PROVE k = 0
  <2>1. FirstLines(lines, 0 + 1) = <<lines[1]>>
    <3> DEFINE one == SubSeq(lines, 1, 1)
               line == lines[1]
    <3>1. one \in Seq(Line) /\ Len(one) = 1 /\ one[1] = line
      BY <1>1
    <3>2. FirstLines(lines, 0 + 1) = one
      BY DEF FirstLines
    <3> HIDE DEF one, line
    <3>3. one = <<line>>
      BY <3>1
    <3> QED
      BY <3>2, <3>3 DEF line
  <2>2. MaxBytes \in Nat /\ Size(lines[1]) \in Nat
    BY <1>1, SizeType, LimitsAssumption
  <2>3. ~Fits(<<lines[1]>>)
    BY <1>1, <1>4, <2>2, OneLine
  <2>4. 0 \in S
    BY <1>1, <2>1, <2>3
  <2> QED
    BY <1>3, <2>4
<1>5. /\ TruncateHead(lines).shown = FirstLines(lines, k)
      /\ TruncateHead(lines).truncated <=> k < Len(lines)
      /\ TruncateHead(lines).tooLong <=> Size(lines[1]) > MaxBytes
  BY DEF TruncateHead
<1>6. k \in 0..Len(lines)
  BY <1>3
<1> HIDE DEF k
<1> QED
  BY <1>4, <1>5, <1>6

(* The lines that are taken from the end: as many as fit, or a piece of    *)
(* the last one.                                                           *)
LEMMA TailIs ==
  ASSUME NEW lines \in Seq(Line), lines # <<>>
  PROVE  LET partial == TruncateTail(lines).partial
         IN \E k \in 0..Len(lines) :
              /\ TruncateTail(lines).shown = LastLines(lines, k)
              /\ partial => k = 1 /\ Size(lines[Len(lines)]) > MaxBytes
              /\ ~partial => Fits(LastLines(lines, k))
              /\ ~partial /\ k < Len(lines) => ~Fits(LastLines(lines, k + 1))
<1> DEFINE S == {n \in 0..Len(lines) :
                   n = Len(lines) \/ ~Fits(LastLines(lines, n + 1))}
           j == Min(S)
           partial == Size(lines[Len(lines)]) > MaxBytes
           k == IF partial THEN 1 ELSE j
<1>1. Len(lines) \in Nat /\ Len(lines) > 0
  BY LenProperties, EmptySeq
<1>2. S \in SUBSET Nat /\ Len(lines) \in S
  BY <1>1
<1>3. j \in S /\ \A n \in S : j <= n
  <2> HIDE DEF S
  <2> QED
    BY <1>2, MinIs
<1> HIDE DEF j
<1>4. j \in 0..Len(lines) /\ (j < Len(lines) => ~Fits(LastLines(lines, j + 1)))
  BY <1>3
<1>5. Fits(LastLines(lines, j))
  <2>1. CASE j = 0
    <3>1. LastLines(lines, 0) = <<>>
      BY <1>1 DEF LastLines
    <3> QED
      BY <2>1, <3>1, NoLineFits
  <2>2. CASE j # 0
    <3>1. j - 1 \in 0..Len(lines) /\ (j - 1) + 1 = j /\ j - 1 # Len(lines)
          /\ ~(j <= j - 1)
      BY <1>1, <1>4, <2>2
    <3>2. j - 1 \notin S
      BY <1>3, <3>1
    <3> QED
      BY <3>1, <3>2
  <2> QED
    BY <2>1, <2>2
<1>6. /\ TruncateTail(lines).shown = LastLines(lines, k)
      /\ TruncateTail(lines).partial <=> partial
  BY DEF TruncateTail, j
<1>7. k \in 0..Len(lines)
  BY <1>1, <1>4
<1> QED
  BY <1>4, <1>5, <1>6, <1>7

Numbered == [number : Nat, line : Line]

(* A page is lines of the file, one after the other under their numbers;   *)
(* the next begins where it ends; the last comes to the end of the file    *)
(* or to a line that is too long.                                          *)
LEMMA PageIs ==
  ASSUME NEW lines \in Seq(Line), NEW offset \in Nat, NEW limit \in Nat,
         ~BeyondEnd(lines, offset)
  PROVE  LET from == Start(offset)
             page == Page(lines, offset, limit)
             next == NextOffset(lines, offset, limit)
             to   == from + Len(page)
         IN /\ from \in Nat /\ Len(page) \in Nat /\ to <= Len(lines)
            /\ page = [i \in 1..Len(page) |->
                         [number |-> from + i, line |-> lines[from + i]]]
            /\ page \in Seq(Numbered)
            /\ next \in Nat /\ (next # 0 => Start(next) = to)
            /\ next = 0 => \/ to = Len(lines)
                           \/ /\ to < Len(lines)
                              /\ Size(lines[to + 1]) > MaxBytes
<1> DEFINE from == Start(offset)
           page == Page(lines, offset, limit)
           next == NextOffset(lines, offset, limit)
           end == IF limit > 0 THEN Min({from + limit, Len(lines)})
                  ELSE Len(lines)
           selected == Selected(lines, offset, limit)
           head == TruncateHead(selected)
<1>1. from \in Nat /\ Len(lines) \in Nat /\ from < Len(lines)
  BY LenProperties DEF Start, BeyondEnd
<1>2. end \in (from + 1)..Len(lines)
  <2>1. CASE limit > 0
    <3> DEFINE S == {from + limit, Len(lines)}
    <3>1. S \in SUBSET Nat /\ S # {}
      BY <1>1
    <3>2. Min(S) \in S /\ \A m \in S : Min(S) <= m
      <4> HIDE DEF S
      <4> QED
        BY <3>1, MinIs
    <3>3. Min(S) = from + limit \/ Min(S) = Len(lines)
      BY <3>2
    <3>4. Min(S) <= Len(lines)
      BY <3>2
    <3> HIDE DEF S, from
    <3>5. Min(S) \in (from + 1)..Len(lines)
      BY <1>1, <2>1, <3>3, <3>4
    <3> QED
      BY <2>1, <3>5 DEF S
  <2>2. CASE ~(limit > 0)
    BY <1>1, <2>2
  <2> QED
    BY <2>1, <2>2
<1>3. selected = SubSeq(lines, from + 1, end)
  BY DEF Selected
<1> HIDE DEF from, end, selected, head
<1>4. /\ selected \in Seq(Line) /\ Len(selected) = end - from
      /\ \A i \in 1..(end - from) : selected[i] = lines[from + i]
  BY <1>1, <1>2, <1>3
<1>5. selected # <<>> /\ selected[1] = lines[from + 1]
  BY <1>1, <1>2, <1>4
<1>6. PICK k \in 0..Len(selected) :
        /\ head.shown = FirstLines(selected, k)
        /\ head.truncated <=> k < Len(selected)
        /\ head.tooLong <=> Size(selected[1]) > MaxBytes
        /\ head.tooLong => k = 0
  BY <1>4, <1>5, HeadIs DEF head
<1>7. k \in Nat /\ from + k <= end
  BY <1>1, <1>2, <1>4
<1>8. /\ Len(head.shown) = k
      /\ \A i \in 1..k : head.shown[i] = lines[from + i]
  <2>1. /\ Len(head.shown) = k
        /\ \A i \in 1..k : head.shown[i] = selected[i]
    BY <1>4, <1>6 DEF FirstLines
  <2>2. \A i \in 1..k : i \in 1..(end - from)
    BY <1>1, <1>2, <1>7
  <2> QED
    BY <1>4, <2>1, <2>2
<1>9. page = [i \in 1..k |-> [number |-> from + i, line |-> lines[from + i]]]
  <2>1. page = [i \in 1..k |-> [number |-> from + i, line |-> head.shown[i]]]
    BY <1>8 DEF Page, head, from, selected
  <2> QED
    BY <1>8, <2>1
<1>10. Len(page) = k
  BY <1>7, <1>9
<1>11. page \in Seq(Numbered)
  <2>1. ASSUME NEW i \in 1..k
        PROVE  [number |-> from + i, line |-> lines[from + i]] \in Numbered
    <3>1. from + i \in 1..Len(lines)
      BY <1>1, <1>2, <1>7
    <3>2. lines[from + i] \in Line
      BY <3>1, ElementOfSeq
    <3> QED
      BY <3>1, <3>2 DEF Numbered
  <2> DEFINE item(i) == [number |-> from + i, line |-> lines[from + i]]
  <2>2. \A i \in 1..k : item(i) \in Numbered
    BY <2>1
  <2>3. page = [i \in 1..k |-> item(i)]
    BY <1>9
  <2> HIDE DEF item, page
  <2> QED
    BY <1>7, <2>2, <2>3
<1>12. next = IF head.tooLong THEN 0
              ELSE IF head.truncated THEN from + k + 1
              ELSE IF end < Len(lines) THEN end + 1 ELSE 0
  <2>1. from + Len(selected) = end
    BY <1>1, <1>2, <1>4
  <2> QED
    BY <1>8, <2>1 DEF NextOffset, head, from, selected
<1> HIDE DEF page, next
<1>13. \A m \in Nat : m # 0 => Start(m) = m - 1
  BY DEF Start
<1>14. CASE head.tooLong
  <2>1. next = 0 /\ k = 0 /\ Size(lines[from + 1]) > MaxBytes
    BY <1>5, <1>6, <1>12, <1>14
  <2> QED
    BY <1>1, <1>9, <1>10, <1>11, <2>1 DEF from, page, next
<1>15. CASE ~head.tooLong /\ head.truncated
  <2>1. next = from + k + 1 /\ from + k \in Nat
    BY <1>1, <1>7, <1>12, <1>15
  <2>2. next # 0 /\ next \in Nat /\ Start(next) = from + k
    BY <1>13, <2>1
  <2>3. from + k <= Len(lines)
    BY <1>1, <1>2, <1>7
  <2> QED
    BY <1>1, <1>9, <1>10, <1>11, <1>7, <2>2, <2>3 DEF from, page, next
<1>16. CASE ~head.tooLong /\ ~head.truncated
  <2>1. k = end - from /\ from + k = end
    BY <1>1, <1>2, <1>4, <1>6, <1>7, <1>16
  <2>2. CASE end < Len(lines)
    <3>1. next = end + 1 /\ end \in Nat
      BY <1>1, <1>2, <1>12, <1>16, <2>2
    <3>2. next # 0 /\ next \in Nat /\ Start(next) = end
      BY <1>13, <3>1
    <3> QED
      BY <1>1, <1>2, <1>9, <1>10, <1>11, <1>7, <2>1, <3>2 DEF from, page, next
  <2>3. CASE ~(end < Len(lines))
    <3>1. next = 0 /\ from + k = Len(lines)
      BY <1>1, <1>2, <1>12, <1>16, <2>1, <2>3
    <3> QED
      BY <1>1, <1>9, <1>10, <1>11, <1>7, <3>1 DEF from, page, next
  <2> QED
    BY <2>2, <2>3
<1> QED
  BY <1>14, <1>15, <1>16

-----------------------------------------------------------------------------
(* Files *)

LEMMA FileFact ==
  ASSUME NEW f, IsFile(f)
  PROVE  /\ f.lines \in Seq(Line) /\ f.lines # <<>>
         /\ Len(f.lines) \in Nat /\ Len(f.lines) > 0
         /\ f.ends \in Seq({"LF", "CRLF"}) /\ Len(f.ends) = Len(f.lines) - 1
         /\ f.bom \in BOOLEAN /\ f.stray \in Nat
<1>1. f.lines \in Seq(Line) /\ f.lines # <<>> /\ f.bom \in BOOLEAN
      /\ f.stray \in Nat /\ f.ends \in Seq({"LF", "CRLF"})
      /\ Len(f.ends) = Len(f.lines) - 1
  BY DEF IsFile, Text
<1>2. Len(f.lines) \in Nat /\ Len(f.lines) # 0
  BY <1>1, LenProperties, EmptySeq
<1> QED
  BY <1>1, <1>2

LEMMA FileMade ==
  ASSUME NEW bom \in BOOLEAN, NEW stray \in Nat,
         NEW lines \in Seq(Line), lines # <<>>,
         NEW ends \in Seq({"LF", "CRLF"}), Len(ends) = Len(lines) - 1
  PROVE  IsFile([bom |-> bom, stray |-> stray, lines |-> lines,
                 ends |-> ends])
BY DEF IsFile, Text

LEMMA EmptyFileIs == IsFile(EmptyFile) /\ EmptyLine \in Line
<1>1. EmptyLine \in Line
  BY ToolsAssumption DEF EmptyLine, Line
<1>2. <<EmptyLine>> \in Seq(Line) /\ <<EmptyLine>> # <<>>
      /\ Len(<<EmptyLine>>) = 1
  BY <1>1
<1> DEFINE none == <<>>
<1>3. none \in Seq({"LF", "CRLF"}) /\ Len(none) = 1 - 1
  BY EmptySeq
<1> QED
  BY <1>1, <1>2, <1>3, FileMade DEF EmptyFile

LEMMA ConcatIs ==
  ASSUME NEW S, NEW p \in Seq(S), NEW q \in Seq(S)
  PROVE  p \o q \in Seq(S) /\ Len(p \o q) = Len(p) + Len(q)
BY ConcatProperties

LEMMA SubSeqIs ==
  ASSUME NEW S, NEW q \in Seq(S), NEW a \in Nat, a > 0, NEW b \in Nat,
         b <= Len(q)
  PROVE  /\ SubSeq(q, a, b) \in Seq(S)
         /\ Len(SubSeq(q, a, b)) = IF a <= b THEN b - a + 1 ELSE 0
<1>1. \A i \in a..b : q[i] \in S
  OBVIOUS
<1> QED
  BY <1>1

LEMMA SubSeqItem ==
  ASSUME NEW S, NEW q \in Seq(S), NEW a \in Nat, a > 0, NEW b \in Nat,
         b <= Len(q), NEW k \in 1..(b - a + 1)
  PROVE  SubSeq(q, a, b)[k] = q[a + k - 1]
<1>1. \A i \in a..b : q[i] \in S
  OBVIOUS
<1> QED
  BY <1>1

LEMMA TailJoins ==
  ASSUME NEW S, NEW p \in Seq(S), NEW q \in Seq(S), NEW a \in Nat, a > 0
  PROVE  /\ p \o SubSeq(q, a, Len(q)) \in Seq(S)
         /\ Len(p \o SubSeq(q, a, Len(q)))
              = Len(p) + (IF a <= Len(q) THEN Len(q) - a + 1 ELSE 0)
<1> DEFINE s == SubSeq(q, a, Len(q))
<1>1. Len(q) \in Nat
  BY LenProperties
<1>2. s \in Seq(S) /\ Len(s) = IF a <= Len(q) THEN Len(q) - a + 1 ELSE 0
  BY <1>1, SubSeqIs
<1> HIDE DEF s
<1>3. p \o s \in Seq(S) /\ Len(p \o s) = Len(p) + Len(s)
  BY <1>2, ConcatIs
<1> QED
  BY <1>2, <1>3 DEF s

LEMMA FileWith ==
  ASSUME NEW f, IsFile(f), NEW lines \in Text,
         NEW ends \in Seq({"LF", "CRLF"}), Len(ends) = Len(lines) - 1
  PROVE  IsFile([f EXCEPT !.lines = lines, !.ends = ends])
<1> DEFINE E == Seq({"LF", "CRLF"})
<1>1. f \in [bom : BOOLEAN, stray : Nat, lines : Text, ends : E]
  BY DEF IsFile
<1> HIDE DEF E
<1>2. /\ [f EXCEPT !.lines = lines, !.ends = ends]
           \in [bom : BOOLEAN, stray : Nat, lines : Text, ends : E]
      /\ [f EXCEPT !.lines = lines, !.ends = ends].lines = lines
      /\ [f EXCEPT !.lines = lines, !.ends = ends].ends = ends
  BY <1>1 DEF E
<1> QED
  BY <1>2 DEF IsFile, E

(* The file that a write leaves behind is one. *)
LEMMA CoversIs ==
  ASSUME NEW new, NEW old, IsFile(new), IsFile(old)
  PROVE  IsFile(Covers(new, old))
<1> DEFINE n == Len(new.lines)
           m == Len(old.lines)
           lines == new.lines \o SubSeq(old.lines, n + 1, Len(old.lines))
           ends == new.ends \o SubSeq(old.ends, n, Len(old.ends))
<1>1. /\ n \in Nat /\ n > 0 /\ m \in Nat /\ m > 0
      /\ new.lines \in Seq(Line) /\ old.lines \in Seq(Line)
      /\ new.ends \in Seq({"LF", "CRLF"}) /\ Len(new.ends) = n - 1
      /\ old.ends \in Seq({"LF", "CRLF"}) /\ Len(old.ends) = m - 1
      /\ new.bom \in BOOLEAN /\ new.stray \in Nat
  BY FileFact
<1>2. n + 1 \in Nat /\ n + 1 > 0
  BY <1>1
<1>3. /\ lines \in Seq(Line)
      /\ Len(lines) = n + (IF n + 1 <= m THEN m - (n + 1) + 1 ELSE 0)
  BY <1>1, <1>2, TailJoins, Zenon
<1>4. /\ ends \in Seq({"LF", "CRLF"})
      /\ Len(ends) = Len(new.ends)
                       + (IF n <= Len(old.ends) THEN Len(old.ends) - n + 1
                          ELSE 0)
  BY <1>1, TailJoins, ZenonT(30)
<1>5. Covers(new, old) = [new EXCEPT !.lines = lines, !.ends = ends]
  BY Zenon DEF Covers
<1> HIDE DEF lines, ends, n, m
<1>6. Len(lines) > 0 /\ Len(ends) = Len(lines) - 1
  BY <1>1, <1>3, <1>4
<1>7. lines # <<>>
  <2>1. Len(<<>>) = 0
    BY EmptySeq
  <2> QED
    BY <1>6, <2>1
<1>8. lines \in Text
  BY <1>3, <1>7 DEF Text
<1>9. ends \in Seq({"LF", "CRLF"}) /\ Len(ends) = Len(lines) - 1
  BY <1>4, <1>6
<1>10. IsFile([new EXCEPT !.lines = lines, !.ends = ends])
  BY <1>8, <1>9, FileWith, Zenon
<1> QED
  BY <1>5, <1>10, Zenon

-----------------------------------------------------------------------------
(* The edit *)

LEMMA NormalizedIs ==
  ASSUME NEW lines \in Seq(Line)
  PROVE  /\ normalizeForFuzzyMatch(lines) \in Seq(Line)
         /\ Len(normalizeForFuzzyMatch(lines)) = Len(lines)
<1> DEFINE item(i) == [lines[i] EXCEPT !.odd = FALSE]
<1>1. Len(lines) \in Nat /\ \A i \in 1..Len(lines) : lines[i] \in Line
  BY LenProperties, ElementOfSeq
<1>2. \A i \in 1..Len(lines) : item(i) \in Line
  BY <1>1 DEF Line
<1> HIDE DEF item
<1>3. normalizeForFuzzyMatch(lines) = [i \in 1..Len(lines) |-> item(i)]
  BY DEF normalizeForFuzzyMatch, item
<1> QED
  BY <1>1, <1>2, <1>3

LEMMA IndexIs ==
  ASSUME NEW lines \in Seq(Line), NEW old \in Seq(Line),
         Index(lines, old) # 0
  PROVE  Index(lines, old) \in 1..(Len(lines) - Len(old) + 1)
<1> DEFINE P == Places(lines, old)
<1>1. P \subseteq 1..(Len(lines) - Len(old) + 1)
  BY DEF Places
<1>2. P # {} /\ P \in SUBSET Nat
  BY <1>1 DEF Index
<1>3. \E i \in P : \A j \in P : i <= j
  <2> HIDE DEF P
  <2> QED
    BY <1>2, Least
<1>4. Index(lines, old) = CHOOSE i \in P : \A j \in P : i <= j
  BY <1>2 DEF Index
<1> HIDE DEF P
<1> QED
  BY <1>1, <1>3, <1>4

(* The text with the edit made is one. *)
LEMMA NewContentIs ==
  ASSUME NEW lines \in Seq(Line), NEW old \in Text, NEW new \in Text,
         Accepts(lines, old, new)
  PROVE  NewContent(lines, old, new) \in Text
<1> DEFINE base == ContentForReplacement(lines, old)
           i == MatchIndex(lines, old)
           n == Len(base)
           m == Len(old)
           first == SubSeq(base, 1, i - 1)
           last == SubSeq(base, i + m, n)
<1>1. /\ old \in Seq(Line) /\ new \in Seq(Line) /\ new # <<>>
      /\ m \in Nat /\ Len(new) \in Nat /\ Len(new) > 0
  <2>1. old \in Seq(Line) /\ new \in Seq(Line) /\ new # <<>>
    BY DEF Text
  <2> QED
    BY <2>1, LenProperties, EmptySeq
<1>2. base \in Seq(Line) /\ n \in Nat /\ i \in 1..(n - m + 1)
  <2>1. i # 0
    BY DEF Accepts
  <2>2. CASE Index(lines, old) # 0
    <3>1. base = lines /\ i = Index(lines, old)
      BY <2>2 DEF ContentForReplacement, MatchIndex
    <3> QED
      BY <1>1, <2>2, <3>1, IndexIs, LenProperties
  <2>3. CASE Index(lines, old) = 0
    <3> DEFINE flat == normalizeForFuzzyMatch(lines)
               find == normalizeForFuzzyMatch(old)
    <3>1. base = flat /\ i = Index(flat, find)
      BY <2>3 DEF ContentForReplacement, MatchIndex
    <3>2. flat \in Seq(Line) /\ find \in Seq(Line) /\ Len(find) = m
      BY <1>1, NormalizedIs
    <3>3. Index(flat, find) \in 1..(Len(flat) - Len(find) + 1)
      BY <2>1, <3>1, <3>2, IndexIs
    <3> QED
      BY <3>1, <3>2, <3>3, LenProperties
  <2> QED
    BY <2>2, <2>3
<1>3. NewContent(lines, old, new) = first \o new \o last
  BY DEF NewContent
<1> HIDE DEF base, i, n
<1>4. first \in Seq(Line)
  <2> DEFINE j == i - 1
  <2>1. j \in Nat /\ j <= Len(base)
    BY <1>1, <1>2 DEF n
  <2> HIDE DEF j
  <2>2. SubSeq(base, 1, j) \in Seq(Line)
    BY <1>2, <2>1, SubSeqIs
  <2> QED
    BY <2>2 DEF j
<1>5. last \in Seq(Line)
  <2>1. i + m \in Nat /\ i + m > 0
    BY <1>1, <1>2
  <2> QED
    BY <1>2, <2>1, SubSeqIs DEF n
<1> HIDE DEF first, last
<1>6. /\ first \o new \in Seq(Line)
      /\ Len(first \o new) = Len(first) + Len(new)
  BY <1>1, <1>4, ConcatIs
<1>7. /\ first \o new \o last \in Seq(Line)
      /\ Len(first \o new \o last) = Len(first) + Len(new) + Len(last)
  BY <1>5, <1>6, ConcatIs
<1>8. Len(first) \in Nat /\ Len(last) \in Nat
  BY <1>4, <1>5, LenProperties
<1>9. Len(first \o new \o last) # 0
  BY <1>1, <1>7, <1>8
<1>10. first \o new \o last # <<>>
  BY <1>9, EmptySeq
<1> QED
  BY <1>3, <1>7, <1>10 DEF Text

LEMMA EditedIs ==
  ASSUME NEW f, IsFile(f), NEW old \in Text, NEW new \in Text,
         Accepts(f.lines, old, new)
  PROVE  IsFile(Edited(f, old, new))
<1> DEFINE text == NewContent(f.lines, old, new)
           ends == [i \in 1..(Len(text) - 1) |-> detectLineEnding(f)]
<1>1. /\ f.lines \in Seq(Line) /\ f.bom \in BOOLEAN /\ f.stray \in Nat
      /\ f.ends \in Seq({"LF", "CRLF"})
  BY FileFact
<1>2. text \in Seq(Line) /\ text # <<>>
  BY <1>1, NewContentIs DEF Text
<1>3. Len(text) \in Nat /\ Len(text) > 0
  <2> HIDE DEF text
  <2> QED
    BY <1>2, LenProperties, EmptySeq
<1>4. detectLineEnding(f) \in {"LF", "CRLF"}
  <2>1. CASE f.ends = <<>>
    BY <2>1 DEF detectLineEnding
  <2>2. CASE f.ends # <<>>
    <3>1. f.ends[1] \in {"LF", "CRLF"}
      BY <1>1, <2>2, EmptySeq
    <3> QED
      BY <2>2, <3>1 DEF detectLineEnding
  <2> QED
    BY <2>1, <2>2
<1>5. ends \in Seq({"LF", "CRLF"}) /\ Len(ends) = Len(text) - 1
  <2> DEFINE k == Len(text) - 1
             e == detectLineEnding(f)
  <2>1. k \in Nat /\ e \in {"LF", "CRLF"}
    BY <1>3, <1>4
  <2> HIDE DEF k, e
  <2>2. [i \in 1..k |-> e] \in Seq({"LF", "CRLF"})
        /\ Len([i \in 1..k |-> e]) = k
    BY <2>1
  <2> QED
    BY <2>2 DEF k, e
<1>6. StrayAfter(f) \in Nat
  BY <1>1 DEF StrayAfter
<1>7. Edited(f, old, new)
        = [bom |-> f.bom, stray |-> StrayAfter(f), lines |-> text,
           ends |-> ends]
  BY DEF Edited
<1> HIDE DEF text, ends
<1> QED
  BY <1>1, <1>2, <1>5, <1>6, <1>7, FileMade

-----------------------------------------------------------------------------
(* The changes *)

Token == [line : Line, ended : BOOLEAN]

Change == [type : {"equal", "insert", "delete"}, line : Line]

(* A change leads on from i and j tokens of the two texts to i2 and j2.    *)
LeadsOn(change, i, j, i2, j2, old, new) ==
  \/ /\ change.type = "equal" /\ i2 = i + 1 /\ j2 = j + 1
     /\ i2 <= Len(old) /\ j2 <= Len(new)
     /\ old[i2] = new[j2] /\ change.line = old[i2].line
  \/ /\ change.type = "insert" /\ i2 = i /\ j2 = j + 1
     /\ j2 <= Len(new) /\ change.line = new[j2].line
  \/ /\ change.type = "delete" /\ i2 = i + 1 /\ j2 = j
     /\ i2 <= Len(old) /\ change.line = old[i2].line

(* What a change leads on by in each text, and which line it is about.     *)
LEMMA OneOn ==
  ASSUME NEW change, NEW i, NEW j, NEW i2, NEW j2, NEW old, NEW new,
         LeadsOn(change, i, j, i2, j2, old, new)
  PROVE  /\ change.type = "insert" => i2 = i
         /\ change.type # "insert" =>
              i2 = i + 1 /\ i2 <= Len(old) /\ change.line = old[i2].line
         /\ change.type = "delete" => j2 = j
         /\ change.type # "delete" =>
              j2 = j + 1 /\ j2 <= Len(new) /\ change.line = new[j2].line
BY DEF LeadsOn

(* The changes lead from the beginnings of both texts to i and j: after k  *)
(* changes, a[k] and b[k] tokens of the texts are behind.                  *)
Leads(changes, a, b, i, j, old, new) ==
  LET n == Len(changes)
  IN /\ changes \in Seq(Change)
     /\ a \in [0..n -> Nat] /\ b \in [0..n -> Nat]
     /\ a[0] = 0 /\ b[0] = 0 /\ a[n] = i /\ b[n] = j
     /\ \A k \in 1..n :
          LeadsOn(changes[k], a[k - 1], b[k - 1], a[k], b[k], old, new)

(* One change more leads on from where the others have led.                *)
LEMMA OneMore ==
  ASSUME NEW old, NEW new,
         NEW changes, NEW a, NEW b, NEW i \in Nat, NEW j \in Nat,
         Leads(changes, a, b, i, j, old, new),
         NEW change \in Change, NEW i2 \in Nat, NEW j2 \in Nat,
         LeadsOn(change, i, j, i2, j2, old, new)
  PROVE  \E c, d : Leads(Append(changes, change), c, d, i2, j2, old, new)
<1> DEFINE n == Len(changes)
           all == Append(changes, change)
           c == [k \in 0..(n + 1) |-> IF k <= n THEN a[k] ELSE i2]
           d == [k \in 0..(n + 1) |-> IF k <= n THEN b[k] ELSE j2]
<1>1. /\ changes \in Seq(Change) /\ n \in Nat
      /\ a \in [0..n -> Nat] /\ b \in [0..n -> Nat]
      /\ a[0] = 0 /\ b[0] = 0 /\ a[n] = i /\ b[n] = j
      /\ \A k \in 1..n :
           LeadsOn(changes[k], a[k - 1], b[k - 1], a[k], b[k], old, new)
  BY LenProperties DEF Leads
<1>2. /\ all \in Seq(Change) /\ Len(all) = n + 1
      /\ \A k \in 1..n : all[k] = changes[k]
      /\ all[n + 1] = change
  BY <1>1, AppendProperties
<1> HIDE DEF n, all
<1>3. /\ c \in [0..(n + 1) -> Nat] /\ d \in [0..(n + 1) -> Nat]
      /\ c[0] = 0 /\ d[0] = 0 /\ c[n + 1] = i2 /\ d[n + 1] = j2
      /\ \A k \in 0..n : c[k] = a[k] /\ d[k] = b[k]
  BY <1>1
<1> HIDE DEF c, d
<1>4. \A k \in 1..n :
        LeadsOn(all[k], c[k - 1], d[k - 1], c[k], d[k], old, new)
  <2> TAKE k \in 1..n
  <2>1. LeadsOn(changes[k], a[k - 1], b[k - 1], a[k], b[k], old, new)
    BY <1>1
  <2>2. k \in 0..n /\ k - 1 \in 0..n
    BY <1>1
  <2>3. /\ all[k] = changes[k] /\ c[k] = a[k] /\ d[k] = b[k]
        /\ c[k - 1] = a[k - 1] /\ d[k - 1] = b[k - 1]
    BY <1>2, <1>3, <2>2
  <2> QED
    BY <2>1, <2>3
<1>5. LeadsOn(all[n + 1], c[n], d[n], c[n + 1], d[n + 1], old, new)
  <2>1. n \in 0..n
    BY <1>1
  <2>2. c[n] = i /\ d[n] = j
    BY <1>1, <1>3, <2>1
  <2> QED
    BY <1>2, <1>3, <2>2
<1>6. \A k \in 1..(n + 1) :
        LeadsOn(all[k], c[k - 1], d[k - 1], c[k], d[k], old, new)
  <2>1. \A k \in 1..(n + 1) : k \in 1..n \/ (k = n + 1 /\ k - 1 = n)
    BY <1>1
  <2> QED
    BY <1>4, <1>5, <2>1
<1>7. Leads(all, c, d, i2, j2, old, new)
  BY <1>2, <1>3, <1>6 DEF Leads
<1> QED
  BY <1>7 DEF all

(* The changes that are found lead from one text to the other. *)
LEMMA ChangesLead ==
  ASSUME NEW old \in Seq(Token), NEW new \in Seq(Token)
  PROVE  \E a, b : Leads(Changes(old, new), a, b, Len(old), Len(new),
                         old, new)
<1> DEFINE Cells == (0..Len(old)) \X (0..Len(new))
           common ==
             CHOOSE f :
               f = [p \in Cells |->
                      LET i == p[1]
                          j == p[2]
                      IN IF i = 0 \/ j = 0 THEN 0
                         ELSE IF old[i] = new[j] THEN f[<<i - 1, j - 1>>] + 1
                         ELSE IF f[<<i - 1, j>>] >= f[<<i, j - 1>>]
                              THEN f[<<i - 1, j>>]
                         ELSE f[<<i, j - 1>>]]
           same(i, j) == i > 0 /\ j > 0 /\ old[i] = new[j]
           longer(i, j) == common[<<i, j - 1>>] >= common[<<i - 1, j>>]
           body(f, i, j) ==
             IF i = 0 /\ j = 0 THEN <<>>
             ELSE IF same(i, j)
                  THEN Append(f[<<i - 1, j - 1>>],
                              [type |-> "equal", line |-> old[i].line])
             ELSE IF j > 0 /\ (i = 0 \/ longer(i, j))
                  THEN Append(f[<<i, j - 1>>],
                              [type |-> "insert", line |-> new[j].line])
             ELSE Append(f[<<i - 1, j>>],
                         [type |-> "delete", line |-> old[i].line])
           def(f) == [p \in Cells |-> body(f, p[1], p[2])]
           upTo == CHOOSE f : f = def(f)
<1>1. Changes(old, new) = upTo[<<Len(old), Len(new)>>]
  BY DEF Changes
<1>2. Len(old) \in Nat /\ Len(new) \in Nat
  BY LenProperties
<1> HIDE DEF common
<1>3. ASSUME NEW f, NEW g, NEW p \in Cells,
             \A q \in Cells : q[1] + q[2] < p[1] + p[2] => f[q] = g[q]
      PROVE  body(f, p[1], p[2]) = body(g, p[1], p[2])
  <2>1. PICK i \in 0..Len(old), j \in 0..Len(new) : p = <<i, j>>
    OBVIOUS
  <2> HIDE DEF longer, same
  <2>0. ASSUME NEW k \in 0..Len(old), NEW l \in 0..Len(new), k + l < i + j
        PROVE  f[<<k, l>>] = g[<<k, l>>]
    <3> DEFINE q == <<k, l>>
    <3>1. q \in Cells /\ q[1] + q[2] = k + l /\ p[1] + p[2] = i + j
      BY <2>1
    <3> HIDE DEF q, Cells
    <3>2. f[q] = g[q]
      BY <1>3, <2>0, <3>1
    <3> QED
      BY <3>2 DEF q
  <2>2. i > 0 /\ j > 0 => f[<<i - 1, j - 1>>] = g[<<i - 1, j - 1>>]
    <3>1. i > 0 /\ j > 0 => /\ i - 1 \in 0..Len(old) /\ j - 1 \in 0..Len(new)
                            /\ (i - 1) + (j - 1) < i + j
      BY <1>2
    <3> QED
      BY <2>0, <3>1
  <2>3. j > 0 => f[<<i, j - 1>>] = g[<<i, j - 1>>]
    <3>1. j > 0 => j - 1 \in 0..Len(new) /\ i + (j - 1) < i + j
      BY <1>2
    <3> QED
      BY <2>0, <3>1
  <2>4. i > 0 => f[<<i - 1, j>>] = g[<<i - 1, j>>]
    <3>1. i > 0 => i - 1 \in 0..Len(old) /\ (i - 1) + j < i + j
      BY <1>2
    <3> QED
      BY <2>0, <3>1
  <2>5. body(f, i, j) = body(g, i, j)
    <3>1. same(i, j) => i > 0 /\ j > 0
      BY DEF same
    <3>2. i > 0 \/ j > 0 \/ (i = 0 /\ j = 0)
      BY <1>2
    <3> QED
      BY <2>2, <2>3, <2>4, <3>1, <3>2
  <2> HIDE DEF body
  <2> QED
    BY <2>1, <2>5
<1> HIDE DEF body
<1>4. \E f : f = def(f)
  <2> DEFINE Some(n) == {p \in Cells : p[1] + p[2] <= n}
             part(f, n) == [p \in Some(n) |-> body(f, p[1], p[2])]
             Has == {n \in Nat : \E f : f = part(f, n)}
  <2>1. 0 \in Has
    <3> DEFINE f == [p \in Some(0) |-> body(<<>>, p[1], p[2])]
    <3>1. \A p \in Some(0) : body(f, p[1], p[2]) = body(<<>>, p[1], p[2])
      <4> TAKE p \in Some(0)
      <4>1. \A q \in Cells : ~(q[1] + q[2] < p[1] + p[2])
        BY <1>2
      <4> HIDE DEF f, Cells
      <4> QED
        BY <1>3, <4>1
    <3>2. f = part(f, 0)
      BY <3>1
    <3> HIDE DEF part, f
    <3> QED
      BY <3>2
  <2>2. ASSUME NEW n \in Nat, n \in Has PROVE n + 1 \in Has
    <3>1. PICK f : f = part(f, n)
      BY <2>2
    <3> DEFINE g == part(f, n + 1)
    <3>2. ASSUME NEW p \in Some(n + 1)
          PROVE  body(g, p[1], p[2]) = body(f, p[1], p[2])
      <4>1. ASSUME NEW q \in Cells, q[1] + q[2] < p[1] + p[2]
            PROVE  g[q] = f[q]
        <5>1. q \in Some(n) /\ q \in Some(n + 1)
          BY <1>2, <4>1
        <5>2. f[q] = body(f, q[1], q[2])
          BY <3>1, <5>1
        <5> HIDE DEF Some
        <5>3. g[q] = body(f, q[1], q[2])
          BY <5>1
        <5> QED
          BY <5>2, <5>3
      <4> HIDE DEF g
      <4> QED
        BY <1>3, <4>1
    <3>3. g = part(g, n + 1)
      BY <3>2
    <3> HIDE DEF part, g
    <3> QED
      BY <3>3
  <2>3. Nat \subseteq Has
    <3> HIDE DEF Has
    <3> QED
      BY <2>1, <2>2, Induct
  <2>4. PICK f : f = part(f, Len(old) + Len(new))
    <3> DEFINE all == Len(old) + Len(new)
    <3>1. all \in Nat
      BY <1>2
    <3> HIDE DEF all, part
    <3>2. \E f : f = part(f, all)
      BY <2>3, <3>1
    <3> QED
      BY <3>2 DEF all, part
  <2>5. Some(Len(old) + Len(new)) = Cells
    BY <1>2
  <2> QED
    BY <2>4, <2>5
<1>5. upTo = def(upTo)
  <2> HIDE DEF def
  <2> QED
    BY <1>4
<1> HIDE DEF upTo
<1>6. \A i \in 0..Len(old), j \in 0..Len(new) :
        upTo[<<i, j>>] = body(upTo, i, j)
  BY <1>5
<1> DEFINE Led(i, j) ==
             \E a, b : Leads(upTo[<<i, j>>], a, b, i, j, old, new)
           Known == {n \in Nat : \A i \in 0..Len(old), j \in 0..Len(new) :
                                   i + j <= n => Led(i, j)}
<1>7. ASSUME NEW i \in 0..Len(old), NEW j \in 0..Len(new),
             i > 0 /\ j > 0 => Led(i - 1, j - 1),
             j > 0 => Led(i, j - 1),
             i > 0 => Led(i - 1, j)
      PROVE  Led(i, j)
  <2>1. /\ i \in Nat /\ j \in Nat
        /\ i > 0 => i - 1 \in Nat /\ i = (i - 1) + 1 /\ old[i] \in Token
        /\ j > 0 => j - 1 \in Nat /\ j = (j - 1) + 1 /\ new[j] \in Token
        /\ i <= Len(old) /\ j <= Len(new)
    BY <1>2, ElementOfSeq
  <2>2. CASE i = 0 /\ j = 0
    <3> DEFINE zero == [k \in 0..0 |-> 0]
    <3>1. upTo[<<i, j>>] = <<>>
      BY <1>6, <2>2 DEF body
    <3>2. Leads(<<>>, zero, zero, 0, 0, old, new)
      <4>1. <<>> \in Seq(Change) /\ Len(<<>>) = 0
        OBVIOUS
      <4>2. zero \in [0..0 -> Nat] /\ zero[0] = 0
        OBVIOUS
      <4>3. 1..0 = {}
        OBVIOUS
      <4> HIDE DEF zero
      <4> QED
        BY <4>1, <4>2, <4>3 DEF Leads
    <3> HIDE DEF zero
    <3> QED
      BY <2>2, <3>1, <3>2
  <2>3. CASE ~(i = 0 /\ j = 0) /\ same(i, j)
    <3> DEFINE change == [type |-> "equal", line |-> old[i].line]
               before == upTo[<<i - 1, j - 1>>]
    <3>1. upTo[<<i, j>>] = Append(before, change)
      BY <1>6, <2>3 DEF body
    <3>2. PICK a, b : Leads(before, a, b, i - 1, j - 1, old, new)
      BY <1>7, <2>3
    <3>3. change \in Change
      BY <2>1, <2>3 DEF Change, Token
    <3>4. LeadsOn(change, i - 1, j - 1, i, j, old, new)
      BY <2>1, <2>3 DEF LeadsOn
    <3> HIDE DEF before, change
    <3> QED
      BY <2>1, <2>3, <3>1, <3>2, <3>3, <3>4, OneMore
  <2>4. CASE ~(i = 0 /\ j = 0) /\ ~same(i, j)
             /\ (j > 0 /\ (i = 0 \/ longer(i, j)))
    <3> DEFINE change == [type |-> "insert", line |-> new[j].line]
               before == upTo[<<i, j - 1>>]
    <3>1. upTo[<<i, j>>] = Append(before, change)
      BY <1>6, <2>4 DEF body
    <3>0. j > 0
      BY <2>4
    <3>2. PICK a, b : Leads(before, a, b, i, j - 1, old, new)
      BY <1>7, <3>0
    <3>3. change \in Change
      BY <2>1, <3>0 DEF Change, Token
    <3>4. LeadsOn(change, i, j - 1, i, j, old, new)
      BY <2>1, <3>0 DEF LeadsOn
    <3> HIDE DEF before, change
    <3> QED
      BY <2>1, <3>0, <3>1, <3>2, <3>3, <3>4, OneMore
  <2>5. CASE ~(i = 0 /\ j = 0) /\ ~same(i, j)
             /\ ~(j > 0 /\ (i = 0 \/ longer(i, j)))
    <3> DEFINE change == [type |-> "delete", line |-> old[i].line]
               before == upTo[<<i - 1, j>>]
    <3>1. upTo[<<i, j>>] = Append(before, change)
      BY <1>6, <2>5 DEF body
    <3>0. i > 0
      BY <2>1, <2>5
    <3>2. PICK a, b : Leads(before, a, b, i - 1, j, old, new)
      BY <1>7, <3>0
    <3>3. change \in Change
      BY <2>1, <3>0 DEF Change, Token
    <3>4. LeadsOn(change, i - 1, j, i, j, old, new)
      BY <2>1, <3>0 DEF LeadsOn
    <3> HIDE DEF before, change
    <3> QED
      BY <2>1, <3>0, <3>1, <3>2, <3>3, <3>4, OneMore
  <2> QED
    BY <2>2, <2>3, <2>4, <2>5
<1> HIDE DEF Led
<1>8. 0 \in Known
  BY <1>2, <1>7
<1>9. ASSUME NEW n \in Nat, n \in Known PROVE n + 1 \in Known
  <2> SUFFICES ASSUME NEW i \in 0..Len(old), NEW j \in 0..Len(new),
                      i + j <= n + 1
               PROVE  Led(i, j)
    OBVIOUS
  <2>1. i > 0 /\ j > 0 => Led(i - 1, j - 1)
    BY <1>2, <1>9
  <2>2. j > 0 => Led(i, j - 1)
    BY <1>2, <1>9
  <2>3. i > 0 => Led(i - 1, j)
    BY <1>2, <1>9
  <2> QED
    BY <1>7, <2>1, <2>2, <2>3
<1>10. Nat \subseteq Known
  <2> HIDE DEF Known
  <2> QED
    BY <1>8, <1>9, Induct
<1>11. Led(Len(old), Len(new))
  <2> DEFINE all == Len(old) + Len(new)
  <2>1. all \in Known
    BY <1>2, <1>10
  <2>2. Len(old) \in 0..Len(old) /\ Len(new) \in 0..Len(new)
    BY <1>2
  <2> QED
    BY <1>2, <2>1, <2>2
<1> QED
  BY <1>1, <1>11 DEF Led

-----------------------------------------------------------------------------
(* The parts *)

Part == [type : {"equal", "insert", "delete"}, lines : Seq(Line)]

(* The parts are cut from the first m changes, part i up to cut[i]. *)
Cuts(parts, cut, changes, m) ==
  /\ parts \in Seq(Part)
  /\ cut \in [0..Len(parts) -> Nat]
  /\ cut[0] = 0 /\ cut[Len(parts)] = m
  /\ \A i \in 1..Len(parts) :
       /\ Len(parts[i].lines) > 0
       /\ cut[i] = cut[i - 1] + Len(parts[i].lines)
       /\ \A k \in 1..Len(parts[i].lines) :
            changes[cut[i - 1] + k]
              = [type |-> parts[i].type, line |-> parts[i].lines[k]]

(* A change that goes to the parts is cut from the changes in turn.        *)
LEMMA MergedCuts ==
  ASSUME NEW changes \in Seq(Change), NEW parts, NEW cut,
         NEW m \in 0..(Len(changes) - 1), Cuts(parts, cut, changes, m)
  PROVE  \E next : Cuts(Merged(parts, changes[m + 1]), next, changes, m + 1)
<1> DEFINE change == changes[m + 1]
           n == Len(parts)
           all == Merged(parts, change)
<1>1. /\ parts \in Seq(Part) /\ n \in Nat
      /\ cut \in [0..n -> Nat] /\ cut[0] = 0 /\ cut[n] = m
      /\ \A i \in 1..n :
           /\ Len(parts[i].lines) > 0
           /\ cut[i] = cut[i - 1] + Len(parts[i].lines)
           /\ \A k \in 1..Len(parts[i].lines) :
                changes[cut[i - 1] + k]
                  = [type |-> parts[i].type, line |-> parts[i].lines[k]]
  BY LenProperties DEF Cuts
<1>2. /\ change \in Change /\ m \in Nat
      /\ change.type \in {"equal", "insert", "delete"} /\ change.line \in Line
      /\ change = [type |-> change.type, line |-> change.line]
  <2>1. m + 1 \in 1..Len(changes) /\ m \in Nat
    BY LenProperties
  <2>2. change \in Change
    BY <2>1, ElementOfSeq
  <2> HIDE DEF change
  <2> QED
    BY <2>1, <2>2 DEF Change
<1> HIDE DEF change, n
<1>3. CASE parts # <<>> /\ Last(parts).type = change.type
  <2> DEFINE last == parts[n]
             longer == Append(last.lines, change.line)
             next == [cut EXCEPT ![n] = m + 1]
  <2>1. n \in 1..n /\ n - 1 \in 0..n /\ n \in 0..n /\ n # 0
    BY <1>1, <1>3, EmptySeq DEF n
  <2>2. /\ last \in Part /\ last.lines \in Seq(Line)
        /\ last.type = change.type
        /\ Len(last.lines) \in Nat
    <3>1. last \in Part
      BY <1>1, <2>1, ElementOfSeq DEF n
    <3>2. last.type = change.type
      BY <1>3 DEF Last, n
    <3> HIDE DEF last
    <3> QED
      BY <3>1, <3>2, LenProperties DEF Part
  <2>3. all = [parts EXCEPT ![n].lines = longer]
    BY <1>3 DEF Merged, n
  <2>4. /\ longer \in Seq(Line) /\ Len(longer) = Len(last.lines) + 1
        /\ \A k \in 1..Len(last.lines) : longer[k] = last.lines[k]
        /\ longer[Len(last.lines) + 1] = change.line
    <3> HIDE DEF last
    <3> QED
      BY <1>2, <2>2, AppendProperties
  <2> DEFINE bigger == [last EXCEPT !.lines = longer]
  <2>5. /\ bigger \in Part
        /\ bigger.type = change.type /\ bigger.lines = longer
    <3> HIDE DEF last, longer
    <3> QED
      BY <2>2, <2>4 DEF Part
  <2>6. all = [parts EXCEPT ![n] = bigger]
    BY <2>3
  <2> HIDE DEF bigger
  <2>7. /\ all \in Seq(Part) /\ Len(all) = n
        /\ all[n] = bigger
        /\ \A i \in 1..n : i # n => all[i] = parts[i]
    <3> HIDE DEF all
    <3> QED
      BY <1>1, <2>1, <2>5, <2>6, ExceptSeq DEF n
  <2>8. /\ next \in [0..n -> Nat]
        /\ next[0] = 0 /\ next[n] = m + 1
        /\ \A i \in 0..n : i # n => next[i] = cut[i]
    BY <1>1, <1>2, <2>1
  <2> HIDE DEF all, next, longer
  <2>9. ASSUME NEW i \in 1..n, i # n
        PROVE  /\ Len(all[i].lines) > 0
               /\ next[i] = next[i - 1] + Len(all[i].lines)
               /\ \A k \in 1..Len(all[i].lines) :
                    changes[next[i - 1] + k]
                      = [type |-> all[i].type, line |-> all[i].lines[k]]
    <3>1. i \in 0..n /\ i - 1 \in 0..n /\ i - 1 # n
      BY <1>1
    <3>2. /\ all[i] = parts[i] /\ next[i] = cut[i] /\ next[i - 1] = cut[i - 1]
      BY <2>7, <2>8, <2>9, <3>1
    <3> QED
      BY <1>1, <3>2
  <2>10. /\ Len(all[n].lines) > 0
         /\ next[n] = next[n - 1] + Len(all[n].lines)
         /\ \A k \in 1..Len(all[n].lines) :
              changes[next[n - 1] + k]
                = [type |-> all[n].type, line |-> all[n].lines[k]]
    <3>1. all[n].lines = longer /\ all[n].type = change.type
      BY <2>5, <2>7
    <3>2. n - 1 # n /\ next[n - 1] = cut[n - 1] /\ next[n] = m + 1
      BY <2>1, <2>8
    <3>3. m = cut[n - 1] + Len(last.lines) /\ cut[n - 1] \in Nat
      BY <1>1, <2>1
    <3>4. ASSUME NEW k \in 1..Len(longer)
          PROVE  changes[cut[n - 1] + k]
                   = [type |-> change.type, line |-> longer[k]]
      <4>1. CASE k \in 1..Len(last.lines)
        BY <1>1, <2>1, <2>2, <2>4, <4>1
      <4>2. CASE k = Len(last.lines) + 1
        <5>1. cut[n - 1] + k = m + 1
          BY <2>2, <3>3, <4>2
        <5>2. changes[m + 1] = [type |-> change.type, line |-> change.line]
          BY <1>2 DEF change
        <5>3. longer[k] = change.line
          BY <2>4, <4>2
        <5> QED
          BY <5>1, <5>2, <5>3
      <4>3. k \in 1..Len(last.lines) \/ k = Len(last.lines) + 1
        BY <2>2, <2>4
      <4> QED
        BY <4>1, <4>2, <4>3
    <3>5. Len(longer) > 0 /\ m + 1 = cut[n - 1] + Len(longer)
      BY <2>2, <2>4, <3>3
    <3> QED
      BY <3>1, <3>2, <3>4, <3>5
  <2>11. Cuts(all, next, changes, m + 1)
    BY <2>7, <2>8, <2>9, <2>10 DEF Cuts
  <2> QED
    BY <2>11 DEF all, change
<1>4. CASE ~(parts # <<>> /\ Last(parts).type = change.type)
  <2> DEFINE part == [type |-> change.type, lines |-> <<change.line>>]
             next == [i \in 0..(n + 1) |-> IF i <= n THEN cut[i] ELSE m + 1]
  <2>1. all = Append(parts, part)
    BY <1>4 DEF Merged
  <2>2. /\ part \in Part /\ Len(part.lines) = 1
        /\ part.lines[1] = change.line /\ part.type = change.type
    BY <1>2 DEF Part
  <2> HIDE DEF part
  <2>3. /\ all \in Seq(Part) /\ Len(all) = n + 1 /\ all[n + 1] = part
        /\ \A i \in 1..n : all[i] = parts[i]
    <3> HIDE DEF all
    <3> QED
      BY <1>1, <2>1, <2>2, AppendProperties DEF n
  <2>4. /\ next \in [0..(n + 1) -> Nat]
        /\ next[0] = 0 /\ next[n + 1] = m + 1
        /\ \A i \in 0..n : next[i] = cut[i]
    BY <1>1, <1>2
  <2> HIDE DEF all, next
  <2>5. ASSUME NEW i \in 1..n
        PROVE  /\ Len(all[i].lines) > 0
               /\ next[i] = next[i - 1] + Len(all[i].lines)
               /\ \A k \in 1..Len(all[i].lines) :
                    changes[next[i - 1] + k]
                      = [type |-> all[i].type, line |-> all[i].lines[k]]
    <3>1. i \in 0..n /\ i - 1 \in 0..n
      BY <1>1
    <3>2. /\ all[i] = parts[i] /\ next[i] = cut[i] /\ next[i - 1] = cut[i - 1]
      BY <2>3, <2>4, <3>1
    <3> QED
      BY <1>1, <3>2
  <2>6. /\ Len(all[n + 1].lines) > 0
        /\ next[n + 1] = next[n] + Len(all[n + 1].lines)
        /\ \A k \in 1..Len(all[n + 1].lines) :
             changes[next[n] + k]
               = [type |-> all[n + 1].type, line |-> all[n + 1].lines[k]]
    <3>1. next[n] = m /\ next[n + 1] = m + 1 /\ all[n + 1] = part
      <4>1. n \in 0..n
        BY <1>1
      <4> QED
        BY <1>1, <2>3, <2>4, <4>1
    <3>2. \A k \in 1..1 : k = 1
      OBVIOUS
    <3>3. changes[m + 1] = [type |-> part.type, line |-> part.lines[1]]
      BY <1>2, <2>2 DEF change
    <3>4. \A k \in 1..1 :
            changes[m + k] = [type |-> part.type, line |-> part.lines[k]]
      BY <3>2, <3>3
    <3>5. Len(part.lines) > 0 /\ m + 1 = m + Len(part.lines)
      BY <2>2
    <3> QED
      BY <2>2, <3>1, <3>4, <3>5
  <2>7. \A i \in 1..(n + 1) : i \in 1..n \/ (i = n + 1 /\ i - 1 = n)
    BY <1>1
  <2>8. ASSUME NEW i \in 1..(n + 1)
        PROVE  /\ Len(all[i].lines) > 0
               /\ next[i] = next[i - 1] + Len(all[i].lines)
               /\ \A k \in 1..Len(all[i].lines) :
                    changes[next[i - 1] + k]
                      = [type |-> all[i].type, line |-> all[i].lines[k]]
    <3>1. CASE i \in 1..n
      BY <2>5, <3>1
    <3>2. CASE i = n + 1 /\ i - 1 = n
      BY <2>6, <3>2
    <3> QED
      BY <2>7, <3>1, <3>2
  <2>9. Cuts(all, next, changes, m + 1)
    BY <2>3, <2>4, <2>8 DEF Cuts
  <2> QED
    BY <2>9 DEF all, change
<1> QED
  BY <1>3, <1>4

(* The parts of the diff are cut from its changes. *)
LEMMA PartsCut ==
  ASSUME NEW old, NEW new,
         Changes(tokenize(old), tokenize(new)) \in Seq(Change)
  PROVE  LET changes == Changes(tokenize(old), tokenize(new))
         IN \E cut : Cuts(diffLines(old, new), cut, changes, Len(changes))
<1> DEFINE changes == Changes(tokenize(old), tokenize(new))
           L == Len(changes)
           body(f, n) == IF n = 0 THEN <<>> ELSE Merged(f[n - 1], changes[n])
           def(f) == [n \in 0..L |-> body(f, n)]
           parts == CHOOSE f : f = def(f)
<1>1. diffLines(old, new) = parts[L]
  BY DEF diffLines
<1>2. changes \in Seq(Change) /\ L \in Nat
  BY LenProperties
<1> HIDE DEF changes, L
<1>3. \E f : f = def(f)
  <2> DEFINE part(f, n) == [k \in 0..n |-> body(f, k)]
             Has == {n \in Nat : \E f : f = part(f, n)}
  <2>1. 0 \in Has
    <3> DEFINE f == [k \in 0..0 |-> <<>>]
    <3>1. f = part(f, 0)
      OBVIOUS
    <3> HIDE DEF f, part
    <3> QED
      BY <3>1
  <2>2. ASSUME NEW n \in Nat, n \in Has PROVE n + 1 \in Has
    <3>1. PICK f : f = part(f, n)
      BY <2>2
    <3> DEFINE g == part(f, n + 1)
    <3>2. \A k \in 0..(n + 1) : k # 0 => g[k - 1] = f[k - 1]
      <4> TAKE k \in 0..(n + 1)
      <4> HAVE k # 0
      <4>1. k - 1 \in 0..n /\ k - 1 \in 0..(n + 1)
        OBVIOUS
      <4> HIDE DEF body
      <4> QED
        BY <3>1, <4>1
    <3>3. \A k \in 0..(n + 1) : body(g, k) = body(f, k)
      <4> HIDE DEF g
      <4> QED
        BY <3>2
    <3>4. g = part(g, n + 1)
      <4> HIDE DEF body
      <4> QED
        BY <3>3
    <3> HIDE DEF part, g
    <3> QED
      BY <3>4
  <2>3. Nat \subseteq Has
    <3> HIDE DEF Has
    <3> QED
      BY <2>1, <2>2, Induct
  <2>4. L \in Has
    BY <1>2, <2>3
  <2> QED
    BY <2>4
<1>4. parts = def(parts)
  <2> HIDE DEF def
  <2> QED
    BY <1>3
<1> HIDE DEF parts
<1>5. \A n \in 0..L :
        parts[n] = IF n = 0 THEN <<>> ELSE Merged(parts[n - 1], changes[n])
  BY <1>4
<1> DEFINE Cut(n) == \E cut : Cuts(parts[n], cut, changes, n)
           Known == {n \in Nat : n <= L => Cut(n)}
<1>6. 0 \in Known
  <2> DEFINE zero == [k \in 0..0 |-> 0]
  <2>1. parts[0] = <<>>
    BY <1>2, <1>5
  <2>2. /\ <<>> \in Seq(Part) /\ Len(<<>>) = 0
        /\ zero \in [0..0 -> Nat] /\ zero[0] = 0 /\ 1..0 = {}
    OBVIOUS
  <2> HIDE DEF zero
  <2>3. Cuts(<<>>, zero, changes, 0)
    BY <2>2 DEF Cuts
  <2> QED
    BY <2>1, <2>3
<1>7. ASSUME NEW n \in Nat, n \in Known PROVE n + 1 \in Known
  <2> SUFFICES ASSUME n + 1 <= L PROVE Cut(n + 1)
    OBVIOUS
  <2>1. n \in 0..(Len(changes) - 1) /\ n <= L
    BY <1>2 DEF L
  <2>2. PICK cut : Cuts(parts[n], cut, changes, n)
    BY <1>7, <2>1
  <2>3. \E next : Cuts(Merged(parts[n], changes[n + 1]), next, changes, n + 1)
    BY <1>2, <2>1, <2>2, MergedCuts
  <2>4. parts[n + 1] = Merged(parts[n], changes[n + 1])
    BY <1>2, <1>5
  <2> QED
    BY <2>3, <2>4
<1>8. Nat \subseteq Known
  <2> HIDE DEF Known
  <2> QED
    BY <1>6, <1>7, Induct
<1>9. Cut(L)
  BY <1>2, <1>8
<1> QED
  BY <1>1, <1>9 DEF changes, L

-----------------------------------------------------------------------------
(* The diff *)

(* Every line of a part that is not cut out by a shorter one leads on in   *)
(* the same way.                                                           *)
LEMMA AlongPart ==
  ASSUME NEW changes, NEW a, NEW b, NEW x, NEW y, NEW old, NEW new,
         Leads(changes, a, b, x, y, old, new),
         NEW parts, NEW cut, Cuts(parts, cut, changes, Len(changes)),
         NEW i \in 1..Len(parts),
         cut[i - 1] \in Nat, cut[i] <= Len(changes)
  PROVE  \A k \in 0..Len(parts[i].lines) :
           /\ a[cut[i - 1] + k] = a[cut[i - 1]]
                + (IF parts[i].type = "insert" THEN 0 ELSE k)
           /\ b[cut[i - 1] + k] = b[cut[i - 1]]
                + (IF parts[i].type = "delete" THEN 0 ELSE k)
<1> DEFINE n == Len(parts[i].lines)
           from == cut[i - 1]
           type == parts[i].type
           L == Len(changes)
           Along(k) ==
             /\ a[from + k] = a[from] + (IF type = "insert" THEN 0 ELSE k)
             /\ b[from + k] = b[from] + (IF type = "delete" THEN 0 ELSE k)
           Known == {k \in Nat : k <= n => Along(k)}
<1>1. /\ changes \in Seq(Change) /\ L \in Nat
      /\ a \in [0..L -> Nat] /\ b \in [0..L -> Nat]
      /\ \A k \in 1..L :
           LeadsOn(changes[k], a[k - 1], b[k - 1], a[k], b[k], old, new)
  BY LenProperties DEF Leads
<1>2. /\ n \in Nat /\ from \in Nat /\ from + n <= L
      /\ \A k \in 1..n : changes[from + k].type = type
  <2>1. parts[i] \in Part
    BY ElementOfSeq DEF Cuts
  <2>2. n \in Nat
    BY <2>1, LenProperties DEF Part
  <2>3. cut[i] = from + n
    BY DEF Cuts
  <2>4. \A k \in 1..n :
          changes[from + k] = [type |-> type, line |-> parts[i].lines[k]]
    BY DEF Cuts
  <2> HIDE DEF n, from, type, L
  <2>5. ASSUME NEW k \in 1..n PROVE changes[from + k].type = type
    <3>1. changes[from + k] = [type |-> type, line |-> parts[i].lines[k]]
      BY <2>4
    <3> QED
      BY <3>1
  <2>6. from \in Nat /\ from + n <= L
    BY <2>3 DEF from, L
  <2> QED
    BY <2>2, <2>5, <2>6
<1> HIDE DEF n, from, type, L
<1>3. 0 \in Known
  <2>1. from + 0 = from /\ a[from] \in Nat /\ b[from] \in Nat
    BY <1>1, <1>2
  <2> QED
    BY <2>1
<1>4. ASSUME NEW k \in Nat, k \in Known PROVE k + 1 \in Known
  <2> SUFFICES ASSUME k + 1 <= n PROVE Along(k + 1)
    OBVIOUS
  <2>1. Along(k)
    BY <1>2, <1>4
  <2> DEFINE t == from + (k + 1)
  <2>2. t \in 1..L /\ t - 1 = from + k /\ k + 1 \in 1..n
    BY <1>1, <1>2
  <2>3. changes[t].type = type
    BY <1>2, <2>2
  <2>4. LeadsOn(changes[t], a[t - 1], b[t - 1], a[t], b[t], old, new)
    BY <1>1, <2>2
  <2>5. a[from] \in Nat /\ b[from] \in Nat
    BY <1>1, <1>2
  <2> HIDE DEF t
  <2>6. /\ a[t] = a[t - 1] + (IF type = "insert" THEN 0 ELSE 1)
        /\ b[t] = b[t - 1] + (IF type = "delete" THEN 0 ELSE 1)
    <3>1. a[t - 1] \in Nat /\ b[t - 1] \in Nat
      BY <1>1, <2>2
    <3>2. /\ type = "insert" => a[t] = a[t - 1]
          /\ type # "insert" => a[t] = a[t - 1] + 1
          /\ type = "delete" => b[t] = b[t - 1]
          /\ type # "delete" => b[t] = b[t - 1] + 1
      BY <2>3, <2>4, OneOn
    <3> QED
      BY <3>1, <3>2
  <2>7. Along(k + 1)
    <3>1. /\ a[t - 1] = a[from] + (IF type = "insert" THEN 0 ELSE k)
          /\ b[t - 1] = b[from] + (IF type = "delete" THEN 0 ELSE k)
      BY <2>1, <2>2
    <3>2. a[t] = a[from] + (IF type = "insert" THEN 0 ELSE k + 1)
      <4>1. CASE type = "insert"
        BY <2>5, <2>6, <3>1, <4>1
      <4>2. CASE type # "insert"
        <5>1. a[t] = (a[from] + k) + 1
          BY <2>6, <3>1, <4>2
        <5> QED
          BY <2>5, <4>2, <5>1
      <4> QED
        BY <4>1, <4>2
    <3>3. b[t] = b[from] + (IF type = "delete" THEN 0 ELSE k + 1)
      <4>1. CASE type = "delete"
        BY <2>5, <2>6, <3>1, <4>1
      <4>2. CASE type # "delete"
        <5>1. b[t] = (b[from] + k) + 1
          BY <2>6, <3>1, <4>2
        <5> QED
          BY <2>5, <4>2, <5>1
      <4> QED
        BY <4>1, <4>2
    <3> QED
      BY <3>2, <3>3 DEF t
  <2> QED
    BY <2>7
<1>5. Nat \subseteq Known
  <2> HIDE DEF Known
  <2> QED
    BY <1>3, <1>4, Induct
<1>6. \A k \in 0..n : Along(k)
  <2>1. \A k \in 0..n : k \in Nat /\ k <= n
    BY <1>2
  <2> HIDE DEF Along
  <2> QED
    BY <1>5, <2>1
<1> QED
  BY <1>6 DEF n, from, type

(* A change as the diff shows it. *)
EntryOf(changes, a, b, k) ==
  [type   |-> changes[k].type,
   number |-> IF changes[k].type = "delete" THEN a[k] ELSE b[k],
   line   |-> changes[k].line]

(* The diff so far tells of the first m changes. *)
DiffTells(diff, changes, a, b, m) ==
  /\ diff.old = a[m] + 1 /\ diff.new = b[m] + 1
  /\ \A entry \in diff.lines :
       \E k \in 1..m : entry = EntryOf(changes, a, b, k)
  /\ \A k \in 1..m :
       changes[k].type # "equal" => EntryOf(changes, a, b, k) \in diff.lines
  /\ \/ /\ diff.first = 0
        /\ \A k \in 1..m : changes[k].type = "equal"
     \/ /\ diff.first # 0
        /\ \E k \in 1..m :
             /\ changes[k].type # "equal"
             /\ diff.first = b[k - 1] + 1
             /\ \A j \in 1..(k - 1) : changes[j].type = "equal"

(* The diff of one part more tells of the changes of that part too.        *)
LEMMA ShowingTells ==
  ASSUME NEW changes, NEW a, NEW b, NEW x, NEW y, NEW old, NEW new,
         Leads(changes, a, b, x, y, old, new),
         NEW parts, NEW cut, Cuts(parts, cut, changes, Len(changes)),
         NEW i \in 1..Len(parts),
         cut[i - 1] \in Nat, cut[i] <= Len(changes),
         NEW before, DiffTells(before, changes, a, b, cut[i - 1])
  PROVE  DiffTells(Showing(parts, i, before), changes, a, b, cut[i])
<1> DEFINE n == Len(parts[i].lines)
           from == cut[i - 1]
           type == parts[i].type
           after == Showing(parts, i, before)
           L == Len(changes)
<1>1. /\ n \in Nat /\ n > 0 /\ from \in Nat /\ cut[i] = from + n
      /\ from + n <= L
      /\ type \in {"equal", "insert", "delete"}
      /\ \A k \in 1..n :
           changes[from + k] = [type |-> type, line |-> parts[i].lines[k]]
  <2>1. parts[i] \in Part
    BY ElementOfSeq DEF Cuts
  <2>2. n \in Nat /\ type \in {"equal", "insert", "delete"}
    BY <2>1, LenProperties DEF Part
  <2>3. cut[i] = from + n /\ n > 0
    BY DEF Cuts
  <2>4. \A k \in 1..n :
          changes[from + k] = [type |-> type, line |-> parts[i].lines[k]]
    BY DEF Cuts
  <2> QED
    BY <2>2, <2>3, <2>4
<1>2. /\ a \in [0..L -> Nat] /\ b \in [0..L -> Nat] /\ L \in Nat
  BY LenProperties DEF Leads
<1>3. \A k \in 0..n :
        /\ a[from + k] = a[from] + (IF type = "insert" THEN 0 ELSE k)
        /\ b[from + k] = b[from] + (IF type = "delete" THEN 0 ELSE k)
  BY AlongPart
<1>4. /\ after.old = before.old + (IF type = "insert" THEN 0 ELSE n)
      /\ after.new = before.new + (IF type = "delete" THEN 0 ELSE n)
      /\ after.first = IF before.first = 0 /\ type # "equal" THEN before.new
                                                          ELSE before.first
      /\ after.lines = before.lines \cup Entries(parts, i, before)
  BY DEF Showing, Counted
<1> DEFINE shown == Shown(parts, i)
<1>5. shown \subseteq 1..n /\ (type # "equal" => shown = 1..n)
  BY DEF Shown
<1> DEFINE entry(k) ==
             [type |-> type,
              number |-> (IF type = "delete" THEN before.old
                          ELSE before.new) + k - 1,
              line |-> parts[i].lines[k]]
<1>6. Entries(parts, i, before) = {entry(k) : k \in shown}
  BY DEF Entries
<1>7. before.old = a[from] + 1 /\ before.new = b[from] + 1
  BY DEF DiffTells
<1>8. a[from] \in Nat /\ b[from] \in Nat
  BY <1>1, <1>2
<1>9. \A k \in 1..n : entry(k) = EntryOf(changes, a, b, from + k)
  <2> TAKE k \in 1..n
  <2>1. k \in 0..n /\ k \in Nat
    BY <1>1
  <2>2. changes[from + k] = [type |-> type, line |-> parts[i].lines[k]]
    BY <1>1
  <2> HIDE DEF n, from, type
  <2>3. CASE type = "delete"
    <3>1. a[from + k] = a[from] + k
      BY <1>3, <2>1, <2>3
    <3>2. before.old + k - 1 = a[from] + k
      BY <1>7, <1>8, <2>1
    <3> QED
      BY <2>2, <2>3, <3>1, <3>2 DEF EntryOf
  <2>4. CASE type # "delete"
    <3>1. b[from + k] = b[from] + k
      BY <1>3, <2>1, <2>4
    <3>2. before.new + k - 1 = b[from] + k
      BY <1>7, <1>8, <2>1
    <3> QED
      BY <2>2, <2>4, <3>1, <3>2 DEF EntryOf
  <2> QED
    BY <2>3, <2>4
<1>10. ASSUME NEW k \in 1..n PROVE changes[from + k].type = type
  <2> HIDE DEF from, n, type
  <2>1. changes[from + k] = [type |-> type, line |-> parts[i].lines[k]]
    BY <1>1
  <2> QED
    BY <2>1
<1>11. \A k \in 1..(from + n) :
         \/ k \in 1..from
         \/ /\ k - from \in 1..n /\ k = from + (k - from)
            /\ changes[k].type = type
  <2> TAKE k \in 1..(from + n)
  <2> HIDE DEF from, n, type
  <2>1. CASE k > from
    <3> DEFINE l == k - from
    <3>1. l \in 1..n /\ k = from + l
      BY <1>1, <2>1
    <3> HIDE DEF l
    <3>2. changes[from + l].type = type
      BY <1>10, <3>1
    <3> QED
      BY <3>1, <3>2 DEF l
  <2> QED
    BY <1>1, <2>1
<1>12. \A k \in 1..n : from + k \in 1..(from + n)
  BY <1>1
<1>13. \A k \in 1..from : k \in 1..(from + n)
  BY <1>1
<1> HIDE DEF n, from, type, after, shown, entry
<1>14. after.old = a[from + n] + 1 /\ after.new = b[from + n] + 1
  <2>1. n \in 0..n /\ n \in Nat
    BY <1>1
  <2>2. /\ a[from + n] = a[from] + (IF type = "insert" THEN 0 ELSE n)
        /\ b[from + n] = b[from] + (IF type = "delete" THEN 0 ELSE n)
    BY <1>3, <2>1
  <2>3. after.old = a[from + n] + 1
    <3>1. CASE type = "insert"
      BY <1>4, <1>7, <1>8, <2>1, <2>2, <3>1
    <3>2. CASE type # "insert"
      BY <1>4, <1>7, <1>8, <2>1, <2>2, <3>2
    <3> QED
      BY <3>1, <3>2
  <2>4. after.new = b[from + n] + 1
    <3>1. CASE type = "delete"
      BY <1>4, <1>7, <1>8, <2>1, <2>2, <3>1
    <3>2. CASE type # "delete"
      BY <1>4, <1>7, <1>8, <2>1, <2>2, <3>2
    <3> QED
      BY <3>1, <3>2
  <2> QED
    BY <2>3, <2>4
<1>15. /\ \A e \in before.lines :
            \E k \in 1..from : e = EntryOf(changes, a, b, k)
       /\ \A k \in 1..from :
            changes[k].type # "equal"
              => EntryOf(changes, a, b, k) \in before.lines
       /\ \/ /\ before.first = 0
             /\ \A k \in 1..from : changes[k].type = "equal"
          \/ /\ before.first # 0
             /\ \E k \in 1..from :
                  /\ changes[k].type # "equal"
                  /\ before.first = b[k - 1] + 1
                  /\ \A j \in 1..(k - 1) : changes[j].type = "equal"
  BY DEF DiffTells, from
<1>16. \A e \in after.lines :
         \E k \in 1..(from + n) : e = EntryOf(changes, a, b, k)
  BY <1>4, <1>5, <1>6, <1>9, <1>12, <1>13, <1>15
<1>17. \A k \in 1..(from + n) :
         changes[k].type # "equal"
           => EntryOf(changes, a, b, k) \in after.lines
  <2> SUFFICES ASSUME NEW k \in 1..(from + n), changes[k].type # "equal"
               PROVE  EntryOf(changes, a, b, k) \in after.lines
    OBVIOUS
  <2>1. CASE k \in 1..from
    BY <1>4, <1>15, <2>1
  <2>2. CASE ~(k \in 1..from)
    <3>1. k - from \in 1..n /\ k = from + (k - from) /\ type # "equal"
      BY <1>11, <2>2
    <3>2. entry(k - from) = EntryOf(changes, a, b, k)
      BY <1>9, <3>1
    <3> QED
      BY <1>4, <1>5, <1>6, <3>1, <3>2
  <2> QED
    BY <2>1, <2>2
<1>18. \/ /\ after.first = 0
          /\ \A k \in 1..(from + n) : changes[k].type = "equal"
       \/ /\ after.first # 0
          /\ \E k \in 1..(from + n) :
               /\ changes[k].type # "equal"
               /\ after.first = b[k - 1] + 1
               /\ \A j \in 1..(k - 1) : changes[j].type = "equal"
  <2>1. CASE before.first # 0
    <3>1. after.first = before.first
      BY <1>4, <2>1
    <3> QED
      BY <1>13, <1>15, <2>1, <3>1
  <2>2. CASE before.first = 0 /\ type = "equal"
    <3>1. after.first = 0
      BY <1>4, <2>2
    <3> QED
      BY <1>11, <1>15, <2>2, <3>1
  <2>3. CASE before.first = 0 /\ type # "equal"
    <3>1. after.first = b[from] + 1 /\ after.first # 0
      BY <1>4, <1>7, <1>8, <2>3
    <3>2. \A j \in 1..from : changes[j].type = "equal"
      BY <1>15, <2>3
    <3>3. /\ from + 1 \in 1..(from + n) /\ (from + 1) - 1 = from
          /\ ~(from + 1 \in 1..from)
      BY <1>1
    <3>4. changes[from + 1].type # "equal"
      BY <1>11, <2>3, <3>3
    <3> QED
      BY <3>1, <3>2, <3>3, <3>4
  <2> QED
    BY <2>1, <2>2, <2>3
<1> QED
  BY <1>1, <1>14, <1>16, <1>17, <1>18 DEF DiffTells, after

(* Nothing is cut behind the last change. *)
LEMMA CutsEnd ==
  ASSUME NEW changes, NEW parts, NEW cut, NEW m \in Nat,
         Cuts(parts, cut, changes, m)
  PROVE  \A i \in 0..Len(parts) : cut[i] <= m
<1> DEFINE n == Len(parts)
           Known == {d \in Nat : d <= n => cut[n - d] <= m}
<1>1. /\ n \in Nat /\ cut \in [0..n -> Nat] /\ cut[n] = m
      /\ \A i \in 1..n : cut[i] = cut[i - 1] + Len(parts[i].lines)
      /\ \A i \in 1..n : Len(parts[i].lines) > 0
      /\ parts \in Seq(Part)
  BY LenProperties DEF Cuts
<1>2. \A i \in 1..n : Len(parts[i].lines) \in Nat
  <2> TAKE i \in 1..n
  <2>1. parts[i] \in Part
    BY <1>1, ElementOfSeq
  <2> QED
    BY <2>1, LenProperties DEF Part
<1> HIDE DEF n
<1>3. 0 \in Known
  BY <1>1
<1>4. ASSUME NEW d \in Nat, d \in Known PROVE d + 1 \in Known
  <2> SUFFICES ASSUME d + 1 <= n PROVE cut[n - (d + 1)] <= m
    OBVIOUS
  <2>1. n - d \in 1..n /\ n - (d + 1) = (n - d) - 1 /\ n - (d + 1) \in 0..n
    BY <1>1
  <2>2. cut[n - d] = cut[n - (d + 1)] + Len(parts[n - d].lines)
    BY <1>1, <2>1
  <2>3. cut[n - d] <= m
    BY <1>1, <1>4
  <2>4. cut[n - (d + 1)] \in Nat /\ Len(parts[n - d].lines) \in Nat
    BY <1>1, <1>2, <2>1
  <2> QED
    BY <2>2, <2>3, <2>4
<1>5. Nat \subseteq Known
  <2> HIDE DEF Known
  <2> QED
    BY <1>3, <1>4, Induct
<1>6. \A i \in 0..n : cut[i] <= m
  <2> TAKE i \in 0..n
  <2>1. n - i \in Nat /\ n - i <= n /\ n - (n - i) = i
    BY <1>1
  <2>2. cut[n - (n - i)] <= m
    BY <1>5, <2>1
  <2> QED
    BY <2>1, <2>2
<1> QED
  BY <1>6 DEF n

(* The diff tells of all changes. *)
LEMMA GeneratedTells ==
  ASSUME NEW old, NEW new, NEW x, NEW y, NEW a, NEW b,
         Leads(Changes(tokenize(old), tokenize(new)), a, b, x, y,
               tokenize(old), tokenize(new))
  PROVE  LET changes == Changes(tokenize(old), tokenize(new))
         IN DiffTells(generateDiffString(old, new), changes, a, b,
                      Len(changes))
<1> DEFINE changes == Changes(tokenize(old), tokenize(new))
           parts == diffLines(old, new)
           n == Len(parts)
           start == [old |-> 1, new |-> 1, first |-> 0, lines |-> {}]
           body(f, i) == IF i = 0 THEN start ELSE Showing(parts, i, f[i - 1])
           def(f) == [i \in 0..n |-> body(f, i)]
           upTo == CHOOSE f : f = def(f)
<1>1. generateDiffString(old, new) = upTo[n]
  BY DEF generateDiffString
<1>2. PICK cut : Cuts(parts, cut, changes, Len(changes))
  BY PartsCut DEF Leads
<1>3. /\ n \in Nat /\ Len(changes) \in Nat
      /\ cut \in [0..n -> Nat] /\ cut[0] = 0 /\ cut[n] = Len(changes)
  BY <1>2, LenProperties DEF Cuts, Leads
<1>4. \A i \in 0..n : cut[i] <= Len(changes)
  BY <1>2, <1>3, CutsEnd
<1>5. \A i \in 1..n :
        \A before : DiffTells(before, changes, a, b, cut[i - 1])
          => DiffTells(Showing(parts, i, before), changes, a, b, cut[i])
  <2> TAKE i \in 1..n
  <2>1. i - 1 \in 0..n /\ i \in 0..n
    BY <1>3
  <2>2. cut[i - 1] \in Nat /\ cut[i] <= Len(changes)
    BY <1>3, <1>4, <2>1
  <2> QED
    BY <1>2, <2>2, ShowingTells
<1>6. DiffTells(start, changes, a, b, 0)
  <2>1. a[0] = 0 /\ b[0] = 0 /\ 1..0 = {}
    BY DEF Leads
  <2> QED
    BY <2>1 DEF DiffTells
<1> HIDE DEF changes, parts, n, start
<1>7. \E f : f = def(f)
  <2> DEFINE part(f, m) == [i \in 0..m |-> body(f, i)]
             Has == {m \in Nat : \E f : f = part(f, m)}
  <2>1. 0 \in Has
    <3> DEFINE f == [i \in 0..0 |-> start]
    <3>1. f = part(f, 0)
      OBVIOUS
    <3> HIDE DEF f, part
    <3> QED
      BY <3>1
  <2>2. ASSUME NEW m \in Nat, m \in Has PROVE m + 1 \in Has
    <3>1. PICK f : f = part(f, m)
      BY <2>2
    <3> DEFINE g == part(f, m + 1)
    <3>2. \A i \in 0..(m + 1) : i # 0 => g[i - 1] = f[i - 1]
      <4> TAKE i \in 0..(m + 1)
      <4> HAVE i # 0
      <4>1. i - 1 \in 0..m /\ i - 1 \in 0..(m + 1)
        OBVIOUS
      <4> HIDE DEF body
      <4> QED
        BY <3>1, <4>1
    <3>3. \A i \in 0..(m + 1) : body(g, i) = body(f, i)
      <4> HIDE DEF g
      <4> QED
        BY <3>2
    <3>4. g = part(g, m + 1)
      <4> HIDE DEF body
      <4> QED
        BY <3>3
    <3> HIDE DEF part, g
    <3> QED
      BY <3>4
  <2>3. Nat \subseteq Has
    <3> HIDE DEF Has
    <3> QED
      BY <2>1, <2>2, Induct
  <2>4. n \in Has
    BY <1>3, <2>3
  <2> QED
    BY <2>4
<1>8. upTo = def(upTo)
  <2> HIDE DEF def
  <2> QED
    BY <1>7
<1> HIDE DEF upTo
<1>9. \A i \in 0..n :
        upTo[i] = IF i = 0 THEN start ELSE Showing(parts, i, upTo[i - 1])
  BY <1>8
<1> DEFINE Told(i) == DiffTells(upTo[i], changes, a, b, cut[i])
           Known == {i \in Nat : i <= n => Told(i)}
<1>10. 0 \in Known
  <2>1. upTo[0] = start
    BY <1>3, <1>9
  <2> QED
    BY <1>3, <1>6, <2>1
<1>11. ASSUME NEW i \in Nat, i \in Known PROVE i + 1 \in Known
  <2> SUFFICES ASSUME i + 1 <= n PROVE Told(i + 1)
    OBVIOUS
  <2>1. i + 1 \in 1..n /\ (i + 1) - 1 = i /\ i + 1 \in 0..n /\ i <= n
    BY <1>3
  <2>2. upTo[i + 1] = Showing(parts, i + 1, upTo[i])
    BY <1>9, <2>1
  <2>3. DiffTells(upTo[i], changes, a, b, cut[(i + 1) - 1])
    BY <1>11, <2>1
  <2> QED
    BY <1>5, <2>1, <2>2, <2>3
<1>12. Nat \subseteq Known
  <2> HIDE DEF Known
  <2> QED
    BY <1>10, <1>11, Induct
<1>13. DiffTells(upTo[n], changes, a, b, cut[n])
  BY <1>3, <1>12
<1> QED
  BY <1>1, <1>3, <1>13 DEF changes

-----------------------------------------------------------------------------
(* The way through both texts *)

(* The way never leads back. *)
LEMMA Rises ==
  ASSUME NEW changes, NEW a, NEW b, NEW x, NEW y, NEW old, NEW new,
         Leads(changes, a, b, x, y, old, new)
  PROVE  \A k \in 0..Len(changes) : \A j \in 0..k :
           a[j] <= a[k] /\ b[j] <= b[k]
<1> DEFINE n == Len(changes)
           Rise(k) == \A j \in 0..k : a[j] <= a[k] /\ b[j] <= b[k]
           Known == {k \in Nat : k <= n => Rise(k)}
<1>1. /\ n \in Nat /\ a \in [0..n -> Nat] /\ b \in [0..n -> Nat]
      /\ \A k \in 1..n :
           LeadsOn(changes[k], a[k - 1], b[k - 1], a[k], b[k], old, new)
  BY LenProperties DEF Leads
<1> HIDE DEF n
<1>2. 0 \in Known
  <2>1. \A j \in 0..0 : j = 0
    OBVIOUS
  <2>2. a[0] \in Nat /\ b[0] \in Nat
    BY <1>1
  <2> QED
    BY <2>1, <2>2
<1>3. ASSUME NEW k \in Nat, k \in Known PROVE k + 1 \in Known
  <2> SUFFICES ASSUME k + 1 <= n, NEW j \in 0..(k + 1)
               PROVE  a[j] <= a[k + 1] /\ b[j] <= b[k + 1]
    OBVIOUS
  <2>1. k + 1 \in 1..n /\ (k + 1) - 1 = k /\ k \in 0..n /\ k + 1 \in 0..n
        /\ j \in 0..n
    BY <1>1
  <2>2. /\ a[k] \in Nat /\ b[k] \in Nat /\ a[j] \in Nat /\ b[j] \in Nat
        /\ a[k + 1] \in Nat /\ b[k + 1] \in Nat
    BY <1>1, <2>1
  <2>3. LeadsOn(changes[k + 1], a[k], b[k], a[k + 1], b[k + 1], old, new)
    BY <1>1, <2>1
  <2>4. a[k] <= a[k + 1] /\ b[k] <= b[k + 1]
    BY <2>2, <2>3 DEF LeadsOn
  <2>5. CASE j \in 0..k
    <3>1. a[j] <= a[k] /\ b[j] <= b[k]
      BY <1>1, <1>3, <2>1, <2>5
    <3> QED
      BY <2>2, <2>4, <3>1
  <2>6. CASE j = k + 1
    BY <2>2, <2>6
  <2> QED
    BY <2>5, <2>6
<1>4. Nat \subseteq Known
  <2> HIDE DEF Known
  <2> QED
    BY <1>2, <1>3, Induct
<1>5. \A k \in 0..n : Rise(k)
  <2>1. \A k \in 0..n : k \in Nat /\ k <= n
    BY <1>1
  <2> HIDE DEF Rise
  <2> QED
    BY <1>4, <2>1
<1> QED
  BY <1>5 DEF n

(* As long as nothing is changed, both texts are the same. *)
LEMMA SameSoFar ==
  ASSUME NEW changes, NEW a, NEW b, NEW x, NEW y, NEW old, NEW new,
         Leads(changes, a, b, x, y, old, new),
         NEW m \in 0..Len(changes),
         \A j \in 1..m : changes[j].type = "equal"
  PROVE  /\ a[m] = m /\ b[m] = m
         /\ \A j \in 1..m : old[j] = new[j]
<1> DEFINE n == Len(changes)
           Known == {k \in Nat : k <= m => /\ a[k] = k /\ b[k] = k
                                           /\ \A j \in 1..k : old[j] = new[j]}
<1>1. /\ n \in Nat /\ a \in [0..n -> Nat] /\ b \in [0..n -> Nat]
      /\ a[0] = 0 /\ b[0] = 0 /\ m \in Nat /\ m <= n
      /\ \A k \in 1..n :
           LeadsOn(changes[k], a[k - 1], b[k - 1], a[k], b[k], old, new)
  BY LenProperties DEF Leads
<1> HIDE DEF n
<1>2. 0 \in Known
  BY <1>1
<1>3. ASSUME NEW k \in Nat, k \in Known PROVE k + 1 \in Known
  <2> SUFFICES ASSUME k + 1 <= m
               PROVE  /\ a[k + 1] = k + 1 /\ b[k + 1] = k + 1
                      /\ \A j \in 1..(k + 1) : old[j] = new[j]
    OBVIOUS
  <2>1. k + 1 \in 1..n /\ (k + 1) - 1 = k /\ k + 1 \in 1..m /\ k <= m
    BY <1>1
  <2>2. LeadsOn(changes[k + 1], a[k], b[k], a[k + 1], b[k + 1], old, new)
    BY <1>1, <2>1
  <2>3. a[k] = k /\ b[k] = k /\ \A j \in 1..k : old[j] = new[j]
    BY <1>3, <2>1
  <2>4. /\ a[k + 1] = k + 1 /\ b[k + 1] = k + 1
        /\ old[k + 1] = new[k + 1]
    BY <2>1, <2>2, <2>3 DEF LeadsOn
  <2>5. \A j \in 1..(k + 1) : j \in 1..k \/ j = k + 1
    OBVIOUS
  <2> QED
    BY <2>3, <2>4, <2>5
<1>4. Nat \subseteq Known
  <2> HIDE DEF Known
  <2> QED
    BY <1>2, <1>3, Induct
<1> QED
  BY <1>1, <1>4

(* rest[n] are the first n tokens without those that have the numbers. *)
Leaves(rest, tokens, numbers) ==
  /\ Without(tokens, numbers) = rest[Len(tokens)]
  /\ \A n \in 0..Len(tokens) :
       rest[n] = IF n = 0 THEN <<>>
                 ELSE IF n \in numbers THEN rest[n - 1]
                 ELSE Append(rest[n - 1], tokens[n])

(* There is such a rest, whatever the numbers are.                         *)
LEMMA WithoutIs ==
  ASSUME NEW tokens, NEW numbers, Len(tokens) \in Nat
  PROVE  \E rest : Leaves(rest, tokens, numbers)
<1> DEFINE L == Len(tokens)
           body(f, n) == IF n = 0 THEN <<>>
                         ELSE IF n \in numbers THEN f[n - 1]
                         ELSE Append(f[n - 1], tokens[n])
           def(f) == [n \in 0..L |-> body(f, n)]
           rest == CHOOSE f : f = def(f)
<1>1. Without(tokens, numbers) = rest[L]
  BY DEF Without
<1> HIDE DEF L
<1>2. \E f : f = def(f)
  <2> DEFINE part(f, m) == [i \in 0..m |-> body(f, i)]
             Has == {m \in Nat : \E f : f = part(f, m)}
  <2>1. 0 \in Has
    <3> DEFINE f == [i \in 0..0 |-> <<>>]
    <3>1. f = part(f, 0)
      OBVIOUS
    <3> HIDE DEF f, part
    <3> QED
      BY <3>1
  <2>2. ASSUME NEW m \in Nat, m \in Has PROVE m + 1 \in Has
    <3>1. PICK f : f = part(f, m)
      BY <2>2
    <3> DEFINE g == part(f, m + 1)
    <3>2. \A i \in 0..(m + 1) : i # 0 => g[i - 1] = f[i - 1]
      <4> TAKE i \in 0..(m + 1)
      <4> HAVE i # 0
      <4>1. i - 1 \in 0..m /\ i - 1 \in 0..(m + 1)
        OBVIOUS
      <4> HIDE DEF body
      <4> QED
        BY <3>1, <4>1
    <3>3. \A i \in 0..(m + 1) : body(g, i) = body(f, i)
      <4> HIDE DEF g
      <4> QED
        BY <3>2
    <3>4. g = part(g, m + 1)
      <4> HIDE DEF body
      <4> QED
        BY <3>3
    <3> HIDE DEF part, g
    <3> QED
      BY <3>4
  <2>3. Nat \subseteq Has
    <3> HIDE DEF Has
    <3> QED
      BY <2>1, <2>2, Induct
  <2>4. L \in Has
    BY <2>3 DEF L
  <2> QED
    BY <2>4
<1>3. rest = def(rest)
  <2> HIDE DEF def
  <2> QED
    BY <1>2
<1> HIDE DEF rest
<1>4. \A n \in 0..L :
        rest[n] = IF n = 0 THEN <<>>
                  ELSE IF n \in numbers THEN rest[n - 1]
                  ELSE Append(rest[n - 1], tokens[n])
  BY <1>3
<1> QED
  BY <1>1, <1>4 DEF L, Leaves

(* The numbers of the changes of a type, in one of the texts. *)
NumbersOf(numbers, changes, type, at) ==
  \A n : n \in numbers <=>
    \E k \in 1..Len(changes) : changes[k].type = type /\ n = at[k]

(* Without what is deleted and inserted, both texts are the same.          *)
LEMMA WithoutSame ==
  ASSUME NEW changes, NEW a, NEW b,
         NEW old \in Seq(Token), NEW new \in Seq(Token),
         Leads(changes, a, b, Len(old), Len(new), old, new),
         NEW deleted, NumbersOf(deleted, changes, "delete", a),
         NEW inserted, NumbersOf(inserted, changes, "insert", b)
  PROVE  Without(old, deleted) = Without(new, inserted)
<1> DEFINE L == Len(changes)
<1>1. /\ L \in Nat /\ a \in [0..L -> Nat] /\ b \in [0..L -> Nat]
      /\ a[0] = 0 /\ b[0] = 0 /\ a[L] = Len(old) /\ b[L] = Len(new)
      /\ \A k \in 1..L :
           LeadsOn(changes[k], a[k - 1], b[k - 1], a[k], b[k], old, new)
      /\ Len(old) \in Nat /\ Len(new) \in Nat
  BY LenProperties DEF Leads
<1>2. \A k \in 0..L : \A j \in 0..k : a[j] <= a[k] /\ b[j] <= b[k]
  BY Rises
<1>3. PICK rest : Leaves(rest, old, deleted)
  BY <1>1, WithoutIs
<1>4. PICK left : Leaves(left, new, inserted)
  BY <1>1, WithoutIs
<1>5. /\ \A n : n \in deleted <=>
           \E k \in 1..L : changes[k].type = "delete" /\ n = a[k]
      /\ \A n : n \in inserted <=>
           \E k \in 1..L : changes[k].type = "insert" /\ n = b[k]
  BY DEF NumbersOf
<1> HIDE DEF L
<1>6. ASSUME NEW k \in 1..L, changes[k].type = "equal"
      PROVE  a[k] \notin deleted /\ b[k] \notin inserted
  <2>1. ASSUME NEW j \in 1..L, changes[j].type # "equal", a[j] = a[k]
        PROVE  changes[j].type # "delete"
    <3> SUFFICES ASSUME changes[j].type = "delete" PROVE FALSE
      OBVIOUS
    <3>1. /\ j - 1 \in 0..L /\ k - 1 \in 0..L /\ j \in 0..L /\ k \in 0..L
          /\ a[j - 1] \in Nat /\ a[k - 1] \in Nat
      BY <1>1
    <3>2. a[k] = a[k - 1] + 1
      BY <1>1, <1>6 DEF LeadsOn
    <3>3. a[j] = a[j - 1] + 1
      BY <1>1 DEF LeadsOn
    <3>4. j # k
      BY <1>6
    <3>5. CASE j < k
      <4>1. j \in 0..(k - 1)
        BY <3>5
      <4>2. a[j] <= a[k - 1]
        BY <1>2, <3>1, <4>1
      <4> QED
        BY <2>1, <3>1, <3>2, <4>2
    <3>6. CASE k < j
      <4>1. k \in 0..(j - 1)
        BY <3>6
      <4>2. a[k] <= a[j - 1]
        BY <1>2, <3>1, <4>1
      <4> QED
        BY <2>1, <3>1, <3>3, <4>2
    <3> QED
      BY <3>4, <3>5, <3>6
  <2>2. ASSUME NEW j \in 1..L, changes[j].type # "equal", b[j] = b[k]
        PROVE  changes[j].type # "insert"
    <3> SUFFICES ASSUME changes[j].type = "insert" PROVE FALSE
      OBVIOUS
    <3>1. /\ j - 1 \in 0..L /\ k - 1 \in 0..L /\ j \in 0..L /\ k \in 0..L
          /\ b[j - 1] \in Nat /\ b[k - 1] \in Nat
      BY <1>1
    <3>2. b[k] = b[k - 1] + 1
      BY <1>1, <1>6 DEF LeadsOn
    <3>3. b[j] = b[j - 1] + 1
      BY <1>1 DEF LeadsOn
    <3>4. j # k
      BY <1>6
    <3>5. CASE j < k
      <4>1. j \in 0..(k - 1)
        BY <3>5
      <4>2. b[j] <= b[k - 1]
        BY <1>2, <3>1, <4>1
      <4> QED
        BY <2>2, <3>1, <3>2, <4>2
    <3>6. CASE k < j
      <4>1. k \in 0..(j - 1)
        BY <3>6
      <4>2. b[k] <= b[j - 1]
        BY <1>2, <3>1, <4>1
      <4> QED
        BY <2>2, <3>1, <3>3, <4>2
    <3> QED
      BY <3>4, <3>5, <3>6
  <2> QED
    BY <1>5, <2>1, <2>2
<1> DEFINE Known == {k \in Nat : k <= L => rest[a[k]] = left[b[k]]}
<1>7. 0 \in Known
  <2>1. rest[0] = <<>> /\ left[0] = <<>>
    BY <1>1, <1>3, <1>4 DEF Leaves
  <2> QED
    BY <1>1, <2>1
<1>8. ASSUME NEW k \in Nat, k \in Known PROVE k + 1 \in Known
  <2> SUFFICES ASSUME k + 1 <= L PROVE rest[a[k + 1]] = left[b[k + 1]]
    OBVIOUS
  <2>1. k + 1 \in 1..L /\ (k + 1) - 1 = k /\ k \in 0..L /\ k + 1 \in 0..L
    BY <1>1
  <2> DEFINE l == k + 1
             i == a[k]
             j == b[k]
             to == a[l]
             at == b[l]
  <2>2. /\ i \in Nat /\ j \in Nat /\ to \in Nat /\ at \in Nat
        /\ LeadsOn(changes[l], i, j, to, at, old, new)
    BY <1>1, <2>1
  <2>3. rest[i] = left[j]
    BY <1>8, <2>1
  <2>4. changes[l].type = "equal" => to \notin deleted /\ at \notin inserted
    BY <1>6, <2>1
  <2>5. /\ changes[l].type = "insert" => at \in inserted
        /\ changes[l].type = "delete" => to \in deleted
    BY <1>5, <2>1
  <2>6. Len(old) \in Nat /\ Len(new) \in Nat
    BY <1>1
  <2> SUFFICES rest[to] = left[at]
    OBVIOUS
  <2> HIDE DEF l, i, j, to, at
  <2>7. CASE changes[l].type = "equal"
    <3>1. /\ to = i + 1 /\ at = j + 1
          /\ to <= Len(old) /\ at <= Len(new) /\ old[to] = new[at]
      BY <2>2, <2>7 DEF LeadsOn
    <3>2. to \in 0..Len(old) /\ to # 0 /\ to - 1 = i
      BY <2>2, <2>6, <3>1
    <3>3. at \in 0..Len(new) /\ at # 0 /\ at - 1 = j
      BY <2>2, <2>6, <3>1
    <3>4. rest[to] = Append(rest[i], old[to])
      BY <1>3, <2>4, <2>7, <3>2 DEF Leaves
    <3>5. left[at] = Append(left[j], new[at])
      BY <1>4, <2>4, <2>7, <3>3 DEF Leaves
    <3> QED
      BY <2>3, <3>1, <3>4, <3>5
  <2>8. CASE changes[l].type = "insert"
    <3>1. to = i /\ at = j + 1 /\ at <= Len(new)
      BY <2>2, <2>8 DEF LeadsOn
    <3>2. at \in 0..Len(new) /\ at # 0 /\ at - 1 = j
      BY <2>2, <2>6, <3>1
    <3>3. left[at] = left[j]
      BY <1>4, <2>5, <2>8, <3>2 DEF Leaves
    <3> QED
      BY <2>3, <3>1, <3>3
  <2>9. CASE changes[l].type = "delete"
    <3>1. at = j /\ to = i + 1 /\ to <= Len(old)
      BY <2>2, <2>9 DEF LeadsOn
    <3>2. to \in 0..Len(old) /\ to # 0 /\ to - 1 = i
      BY <2>2, <2>6, <3>1
    <3>3. rest[to] = rest[i]
      BY <1>3, <2>5, <2>9, <3>2 DEF Leaves
    <3> QED
      BY <2>3, <3>1, <3>3
  <2> QED
    BY <2>2, <2>7, <2>8, <2>9 DEF LeadsOn
<1>9. Nat \subseteq Known
  <2> HIDE DEF Known
  <2> QED
    BY <1>7, <1>8, Induct
<1>10. rest[a[L]] = left[b[L]]
  BY <1>1, <1>9
<1> QED
  BY <1>1, <1>3, <1>4, <1>10 DEF Leaves

(* The tokens of a text are its lines, but for an empty one at its end.    *)
LEMMA TokensAre ==
  ASSUME NEW lines \in Text
  PROVE  LET n == Len(lines)
             m == Len(tokenize(lines))
         IN /\ tokenize(lines) \in Seq(Token) /\ n \in Nat /\ n > 0
            /\ m = IF lines[n] = EmptyLine THEN n - 1 ELSE n
            /\ \A i \in 1..m :
                 tokenize(lines)[i] = [line |-> lines[i], ended |-> i < n]
<1> DEFINE n == Len(lines)
           item(i) == [line |-> lines[i], ended |-> i < n]
           whole == [i \in 1..n |-> item(i)]
<1>1. lines \in Seq(Line) /\ lines # <<>>
  BY DEF Text
<1>2. n \in Nat /\ n > 0 /\ \A i \in 1..n : lines[i] \in Line
  BY <1>1, LenProperties, EmptySeq, ElementOfSeq
<1>3. tokenize(lines) = IF lines[n] = EmptyLine THEN Front(whole) ELSE whole
  BY DEF tokenize
<1> HIDE DEF n
<1>4. \A i \in 1..n : item(i) \in Token
  BY <1>2 DEF Token
<1> HIDE DEF item
<1>5. /\ whole \in Seq(Token) /\ Len(whole) = n
      /\ \A i \in 1..n : whole[i] = item(i)
  BY <1>2, <1>4
<1> HIDE DEF whole
<1>6. CASE lines[n] = EmptyLine
  <2> DEFINE j == n - 1
             front == SubSeq(whole, 1, j)
  <2>1. tokenize(lines) = front
    BY <1>3, <1>5, <1>6 DEF Front
  <2>2. j \in Nat /\ j <= n
    BY <1>2
  <2>3. front \in Seq(Token) /\ Len(front) = j
        /\ \A i \in 1..j : front[i] = whole[i]
    <3> HIDE DEF j
    <3> QED
      BY <1>2, <1>5, <2>2
  <2>4. \A i \in 1..j : i \in 1..n
    BY <1>2
  <2> HIDE DEF front
  <2>5. \A i \in 1..j : front[i] = item(i)
    BY <1>5, <2>3, <2>4
  <2> QED
    BY <1>2, <1>6, <2>1, <2>3, <2>5 DEF n, item
<1>7. CASE lines[n] # EmptyLine
  BY <1>2, <1>3, <1>5, <1>7 DEF n, item
<1> QED
  BY <1>6, <1>7

(* Texts that are not the same do not have the same tokens.                *)
LEMMA TokensTell ==
  ASSUME NEW lines \in Text, NEW text \in Text,
         tokenize(lines) = tokenize(text)
  PROVE  lines = text
<1> DEFINE n == Len(lines)
           m == Len(text)
           k == Len(tokenize(lines))
           tokens == tokenize(lines)
<1>1. lines \in Seq(Line) /\ text \in Seq(Line)
  BY DEF Text
<1>2. /\ n \in Nat /\ n > 0
      /\ k = IF lines[n] = EmptyLine THEN n - 1 ELSE n
      /\ \A i \in 1..k : tokens[i] = [line |-> lines[i], ended |-> i < n]
  BY TokensAre
<1>3. /\ m \in Nat /\ m > 0
      /\ k = IF text[m] = EmptyLine THEN m - 1 ELSE m
      /\ \A i \in 1..k : tokens[i] = [line |-> text[i], ended |-> i < m]
  BY TokensAre
<1> HIDE DEF n, m, k, tokens
<1>4. \A i \in 1..k : lines[i] = text[i] /\ (i < n <=> i < m)
  <2> TAKE i \in 1..k
  <2>1. [line |-> lines[i], ended |-> i < n]
          = [line |-> text[i], ended |-> i < m]
    BY <1>2, <1>3
  <2> DEFINE r == [line |-> lines[i], ended |-> i < n]
             s == [line |-> text[i], ended |-> i < m]
  <2>2. r.line = lines[i] /\ s.line = text[i]
    OBVIOUS
  <2>3. (r.ended <=> i < n) /\ (s.ended <=> i < m)
    OBVIOUS
  <2>4. r.line = s.line /\ r.ended = s.ended
    BY <2>1
  <2> HIDE DEF r, s
  <2> QED
    BY <2>2, <2>3, <2>4
<1>5. n = m
  <2>1. CASE n < m
    <3>1. n = k /\ m = k + 1
      BY <1>2, <1>3, <2>1
    <3>2. k \in 1..k
      BY <1>2, <3>1
    <3> QED
      BY <1>2, <1>3, <1>4, <3>1, <3>2
  <2>2. CASE m < n
    <3>1. m = k /\ n = k + 1
      BY <1>2, <1>3, <2>2
    <3>2. k \in 1..k
      BY <1>3, <3>1
    <3> QED
      BY <1>2, <1>3, <1>4, <3>1, <3>2
  <2> QED
    BY <1>2, <1>3, <2>1, <2>2
<1>6. \A i \in 1..n : lines[i] = text[i]
  <2> TAKE i \in 1..n
  <2>1. CASE i \in 1..k
    BY <1>4, <2>1
  <2>2. CASE ~(i \in 1..k)
    <3>1. i = n /\ k = n - 1
      BY <1>2, <2>2
    <3>2. lines[n] = EmptyLine /\ text[m] = EmptyLine
      BY <1>2, <1>3, <1>5, <3>1
    <3> QED
      BY <1>5, <3>1, <3>2
  <2> QED
    BY <2>1, <2>2
<1> QED
  BY <1>1, <1>5, <1>6, SeqEqual DEF n, m

(* The diff of two texts that differ is one. *)
LEMMA DiffTrue ==
  ASSUME NEW r, r.base \in Text, r.text \in Text, r.base # r.text,
         r.diff = generateDiffString(r.base, r.text).lines,
         r.firstChangedLine = generateDiffString(r.base, r.text).first
  PROVE  DiffIsTrue(r)
<1> DEFINE base == r.base
           text == r.text
           old == tokenize(base)
           new == tokenize(text)
           changes == Changes(old, new)
           L == Len(changes)
           diff == generateDiffString(base, text)
           first == diff.first
<1>1. /\ old \in Seq(Token) /\ Len(old) \in Nat /\ Len(old) <= Len(base)
      /\ \A i \in 1..Len(old) : old[i].line = base[i]
  <2> DEFINE n == Len(base)
  <2>1. /\ old \in Seq(Token) /\ n \in Nat /\ n > 0
        /\ Len(old) = IF base[n] = EmptyLine THEN n - 1 ELSE n
        /\ \A i \in 1..Len(old) : old[i] = [line |-> base[i], ended |-> i < n]
    BY TokensAre
  <2> HIDE DEF base, old, n
  <2>2. ASSUME NEW i \in 1..Len(old) PROVE old[i].line = base[i]
    <3>1. old[i] = [line |-> base[i], ended |-> i < n]
      BY <2>1
    <3> QED
      BY <3>1
  <2> QED
    BY <2>1, <2>2 DEF n
<1>2. /\ new \in Seq(Token) /\ Len(new) \in Nat /\ Len(new) <= Len(text)
      /\ \A i \in 1..Len(new) : new[i].line = text[i]
  <2> DEFINE n == Len(text)
  <2>1. /\ new \in Seq(Token) /\ n \in Nat /\ n > 0
        /\ Len(new) = IF text[n] = EmptyLine THEN n - 1 ELSE n
        /\ \A i \in 1..Len(new) : new[i] = [line |-> text[i], ended |-> i < n]
    BY TokensAre
  <2> HIDE DEF text, new, n
  <2>2. ASSUME NEW i \in 1..Len(new) PROVE new[i].line = text[i]
    <3>1. new[i] = [line |-> text[i], ended |-> i < n]
      BY <2>1
    <3> QED
      BY <3>1
  <2> QED
    BY <2>1, <2>2 DEF n
<1>3. old # new
  BY TokensTell
<1>4. Len(base) \in Nat /\ Len(text) \in Nat
  BY LenProperties DEF Text
<1>5. PICK a, b : Leads(changes, a, b, Len(old), Len(new), old, new)
  <2> HIDE DEF old, new
  <2> QED
    BY <1>1, <1>2, ChangesLead
<1>6. DiffTells(diff, changes, a, b, L)
  BY <1>5, GeneratedTells
<1>7. /\ L \in Nat /\ a \in [0..L -> Nat] /\ b \in [0..L -> Nat]
      /\ a[0] = 0 /\ b[0] = 0 /\ a[L] = Len(old) /\ b[L] = Len(new)
      /\ \A k \in 1..L :
           LeadsOn(changes[k], a[k - 1], b[k - 1], a[k], b[k], old, new)
  BY <1>5, LenProperties DEF Leads
<1>8. ASSUME NEW m \in 0..L, \A j \in 1..m : changes[j].type = "equal"
      PROVE  /\ a[m] = m /\ b[m] = m
             /\ \A j \in 1..m : old[j] = new[j]
  <2> HIDE DEF old, new, changes
  <2> QED
    BY <1>5, <1>8, SameSoFar
<1>9. /\ r.diff = diff.lines /\ r.firstChangedLine = first
      /\ r.base = base /\ r.text = text
  OBVIOUS
<1> DEFINE of(type) == {entry \in r.diff : entry.type = type}
           numbers(type) == {entry.number : entry \in of(type)}
<1>10. DiffIsTrue(r) <=>
         /\ \A entry \in of("insert") \cup of("equal") :
              entry.number \in 1..Len(r.text)
                /\ entry.line = r.text[entry.number]
         /\ \A entry \in of("delete") :
              entry.number \in 1..Len(r.base)
                /\ entry.line = r.base[entry.number]
         /\ Without(tokenize(r.base), numbers("delete"))
              = Without(tokenize(r.text), numbers("insert"))
         /\ r.firstChangedLine \in numbers("insert") \cup numbers("delete")
         /\ \A i \in 1..(r.firstChangedLine - 1) : r.base[i] = r.text[i]
  BY DEF DiffIsTrue
<1>11. Without(tokenize(r.base), numbers("delete"))
           = Without(tokenize(r.text), numbers("insert"))
         <=> Without(old, numbers("delete")) = Without(new, numbers("insert"))
  OBVIOUS
<1> HIDE DEF base, text, old, new, changes, L, diff, first
<1> DEFINE entry(k) == EntryOf(changes, a, b, k)
<1>12. /\ \A e \in r.diff : \E k \in 1..L : e = entry(k)
       /\ \A k \in 1..L : changes[k].type # "equal" => entry(k) \in r.diff
       /\ \/ /\ first = 0
             /\ \A k \in 1..L : changes[k].type = "equal"
          \/ /\ first # 0
             /\ \E k \in 1..L :
                  /\ changes[k].type # "equal"
                  /\ first = b[k - 1] + 1
                  /\ \A j \in 1..(k - 1) : changes[j].type = "equal"
  BY <1>6, <1>9 DEF DiffTells, first
<1>13. \A k \in 1..L :
         /\ entry(k).type = changes[k].type
         /\ entry(k).line = changes[k].line
         /\ changes[k].type = "delete" => entry(k).number = a[k]
         /\ changes[k].type # "delete" => entry(k).number = b[k]
  BY DEF EntryOf
<1>14. ASSUME NEW k \in 1..L, changes[k].type # "delete"
       PROVE  b[k] \in 1..Len(text) /\ changes[k].line = text[b[k]]
  <2> DEFINE i == a[k - 1]
             j == b[k - 1]
             to == a[k]
             at == b[k]
  <2>1. /\ i \in Nat /\ j \in Nat /\ to \in Nat /\ at \in Nat
        /\ LeadsOn(changes[k], i, j, to, at, old, new)
    BY <1>7
  <2> HIDE DEF i, j, to, at
  <2>2. at = j + 1 /\ at <= Len(new) /\ changes[k].line = new[at].line
    BY <1>14, <2>1, OneOn
  <2>3. at \in 1..Len(new) /\ at \in 1..Len(text)
    BY <1>2, <1>4, <2>1, <2>2
  <2>4. new[at].line = text[at]
    BY <1>2, <2>3
  <2> QED
    BY <2>2, <2>3, <2>4 DEF at
<1>15. ASSUME NEW k \in 1..L, changes[k].type = "delete"
       PROVE  a[k] \in 1..Len(base) /\ changes[k].line = base[a[k]]
  <2> DEFINE i == a[k - 1]
             j == b[k - 1]
             to == a[k]
             at == b[k]
  <2>1. /\ i \in Nat /\ j \in Nat /\ to \in Nat /\ at \in Nat
        /\ LeadsOn(changes[k], i, j, to, at, old, new)
    BY <1>7
  <2> HIDE DEF i, j, to, at
  <2>2. to = i + 1 /\ to <= Len(old) /\ changes[k].line = old[to].line
    BY <1>15, <2>1, OneOn
  <2>3. to \in 1..Len(old) /\ to \in 1..Len(base)
    BY <1>1, <1>4, <2>1, <2>2
  <2>4. old[to].line = base[to]
    BY <1>1, <2>3
  <2> QED
    BY <2>2, <2>3, <2>4 DEF to
<1> HIDE DEF entry
<1>16. ASSUME NEW e \in of("insert") \cup of("equal")
       PROVE  e.number \in 1..Len(r.text) /\ e.line = r.text[e.number]
  <2>1. PICK k \in 1..L : e = entry(k)
    BY <1>12
  <2>2. e.type # "delete"
    OBVIOUS
  <2>3. changes[k].type # "delete"
    BY <1>13, <2>1, <2>2
  <2> QED
    BY <1>9, <1>13, <1>14, <2>1, <2>3
<1>17. ASSUME NEW e \in of("delete")
       PROVE  e.number \in 1..Len(r.base) /\ e.line = r.base[e.number]
  <2>1. PICK k \in 1..L : e = entry(k)
    BY <1>12
  <2>2. changes[k].type = "delete"
    BY <1>13, <2>1
  <2> QED
    BY <1>9, <1>13, <1>15, <2>1, <2>2
<1>18. \A n : n \in numbers("delete") <=>
         \E k \in 1..L : changes[k].type = "delete" /\ n = a[k]
  <2> TAKE n
  <2>1. ASSUME n \in numbers("delete")
        PROVE  \E k \in 1..L : changes[k].type = "delete" /\ n = a[k]
    <3>1. PICK e \in r.diff : e.type = "delete" /\ n = e.number
      BY <2>1
    <3>2. PICK k \in 1..L : e = entry(k)
      BY <1>12
    <3> QED
      BY <1>13, <3>1, <3>2
  <2>2. ASSUME NEW k \in 1..L, changes[k].type = "delete", n = a[k]
        PROVE  n \in numbers("delete")
    <3>1. /\ entry(k) \in r.diff /\ entry(k).type = "delete"
          /\ entry(k).number = n
      BY <1>12, <1>13, <2>2
    <3>2. entry(k) \in of("delete")
      BY <3>1
    <3> HIDE DEF of
    <3> QED
      BY <3>1, <3>2
  <2> HIDE DEF numbers
  <2> QED
    BY <2>1, <2>2
<1>19. \A n : n \in numbers("insert") <=>
         \E k \in 1..L : changes[k].type = "insert" /\ n = b[k]
  <2> TAKE n
  <2>1. ASSUME n \in numbers("insert")
        PROVE  \E k \in 1..L : changes[k].type = "insert" /\ n = b[k]
    <3>1. PICK e \in r.diff : e.type = "insert" /\ n = e.number
      BY <2>1
    <3>2. PICK k \in 1..L : e = entry(k)
      BY <1>12
    <3> QED
      BY <1>13, <3>1, <3>2
  <2>2. ASSUME NEW k \in 1..L, changes[k].type = "insert", n = b[k]
        PROVE  n \in numbers("insert")
    <3>1. /\ entry(k) \in r.diff /\ entry(k).type = "insert"
          /\ entry(k).number = n
      BY <1>12, <1>13, <2>2
    <3>2. entry(k) \in of("insert")
      BY <3>1
    <3> HIDE DEF of
    <3> QED
      BY <3>1, <3>2
  <2> HIDE DEF numbers
  <2> QED
    BY <2>1, <2>2
<1> HIDE DEF numbers
<1>20. Without(old, numbers("delete")) = Without(new, numbers("insert"))
  <2> DEFINE deleted == numbers("delete")
             inserted == numbers("insert")
  <2>1. /\ NumbersOf(deleted, changes, "delete", a)
        /\ NumbersOf(inserted, changes, "insert", b)
    BY <1>18, <1>19 DEF NumbersOf, L
  <2> HIDE DEF deleted, inserted
  <2>2. Without(old, deleted) = Without(new, inserted)
    BY <1>1, <1>2, <1>5, <2>1, WithoutSame
  <2> QED
    BY <2>2 DEF deleted, inserted
<1>21. first # 0
  <2> SUFFICES ASSUME first = 0 PROVE FALSE
    OBVIOUS
  <2>1. \A k \in 1..L : changes[k].type = "equal"
    BY <1>12
  <2>2. L \in 0..L
    BY <1>7
  <2>3. a[L] = L /\ b[L] = L /\ \A j \in 1..L : old[j] = new[j]
    BY <1>8, <2>1, <2>2
  <2>4. Len(old) = L /\ Len(new) = L
    BY <1>7, <2>3
  <2>5. old = new
    BY <1>1, <1>2, <2>3, <2>4, SeqEqual
  <2> QED
    BY <1>3, <2>5
<1>22. PICK k \in 1..L :
         /\ changes[k].type # "equal"
         /\ first = b[k - 1] + 1
         /\ \A j \in 1..(k - 1) : changes[j].type = "equal"
  BY <1>12, <1>21
<1> DEFINE m == k - 1
<1>23. m \in 0..L /\ m + 1 = k /\ m \in Nat
  BY <1>7
<1>24. a[m] = m /\ b[m] = m /\ \A j \in 1..m : old[j] = new[j]
  BY <1>8, <1>22, <1>23
<1>25. first = k
  BY <1>22, <1>23, <1>24
<1>26. LeadsOn(changes[k], m, m, a[k], b[k], old, new)
  BY <1>7, <1>24
<1>27. \/ changes[k].type = "delete" /\ a[k] = k
       \/ changes[k].type = "insert" /\ b[k] = k
  BY <1>22, <1>23, <1>26 DEF LeadsOn
<1>28. first \in numbers("insert") \cup numbers("delete")
  BY <1>18, <1>19, <1>25, <1>27
<1>29. \A i \in 1..m : base[i] = text[i]
  <2> TAKE i \in 1..m
  <2>1. a[m] <= Len(old) /\ b[m] <= Len(new)
    <3>1. L \in 0..L /\ m \in 0..L
      BY <1>7, <1>23
    <3>2. a[m] <= a[L] /\ b[m] <= b[L]
      BY <1>5, <3>1, Rises DEF L
    <3> QED
      BY <1>7, <3>2
  <2>2. i \in 1..Len(old) /\ i \in 1..Len(new)
    BY <1>1, <1>2, <1>23, <1>24, <2>1
  <2>3. old[i] = new[i]
    BY <1>24
  <2> QED
    BY <1>1, <1>2, <2>2, <2>3
<1>30. \A i \in 1..(r.firstChangedLine - 1) : r.base[i] = r.text[i]
  BY <1>9, <1>25, <1>29
<1>31. r.firstChangedLine \in numbers("insert") \cup numbers("delete")
  BY <1>9, <1>28
<1> HIDE DEF of
<1> QED
  BY <1>10, <1>11, <1>16, <1>17, <1>20, <1>30, <1>31

-----------------------------------------------------------------------------
(* The place of the old text *)

(* Two places that do not overlap are counted as two. *)
LEMMA OccurrencesAre ==
  ASSUME NEW lines, Len(lines) \in Nat, NEW old, Len(old) \in Nat,
         Len(old) > 0,
         NEW i \in Places(lines, old), NEW j \in Places(lines, old),
         i + Len(old) <= j
  PROVE  ~(Occurrences(lines, old) <= 1)
<1> DEFINE L == Len(lines)
           m == Len(old)
           hit(n) == Matches(lines, old, L - n + 1)
           body(f, n) == IF n < m THEN 0
                         ELSE IF hit(n) THEN 1 + f[n - m] ELSE f[n - 1]
           def(f) == [n \in 0..L |-> body(f, n)]
           count == CHOOSE f : f = def(f)
<1>1. Occurrences(lines, old) = count[L]
  BY DEF Occurrences
<1>2. /\ i \in 1..(L - m + 1) /\ Matches(lines, old, i)
      /\ j \in 1..(L - m + 1) /\ Matches(lines, old, j)
      /\ L \in Nat /\ m \in Nat /\ m > 0 /\ i + m <= j
  BY DEF Places
<1> HIDE DEF L, m
<1>3. \A n : n = L - i + 1 \/ n = L - j + 1 => hit(n)
  <2>1. L - (L - i + 1) + 1 = i /\ L - (L - j + 1) + 1 = j
    BY <1>2
  <2> QED
    BY <1>2, <2>1
<1> HIDE DEF hit
<1>4. \E f : f = def(f)
  <2> DEFINE part(f, n) == [k \in 0..n |-> body(f, k)]
             Has == {n \in Nat : \E f : f = part(f, n)}
  <2>1. 0 \in Has
    <3> DEFINE f == [k \in 0..0 |-> 0]
    <3>1. f = part(f, 0)
      BY <1>2
    <3> HIDE DEF f, part
    <3> QED
      BY <3>1
  <2>2. ASSUME NEW n \in Nat, n \in Has PROVE n + 1 \in Has
    <3>1. PICK f : f = part(f, n)
      BY <2>2
    <3> DEFINE g == part(f, n + 1)
    <3>2. \A k \in 0..n : g[k] = f[k]
      <4> TAKE k \in 0..n
      <4>1. k \in 0..n /\ k \in 0..(n + 1)
        OBVIOUS
      <4> HIDE DEF body
      <4> QED
        BY <3>1, <4>1
    <3>3. \A k \in 0..(n + 1) : body(g, k) = body(f, k)
      <4> TAKE k \in 0..(n + 1)
      <4>1. ~(k < m) => k - m \in 0..n /\ k - 1 \in 0..n
        BY <1>2
      <4> HIDE DEF g
      <4> QED
        BY <3>2, <4>1
    <3>4. g = part(g, n + 1)
      <4> HIDE DEF body
      <4> QED
        BY <3>3
    <3> HIDE DEF part, g
    <3> QED
      BY <3>4
  <2>3. Nat \subseteq Has
    <3> HIDE DEF Has
    <3> QED
      BY <2>1, <2>2, Induct
  <2>4. L \in Has
    BY <1>2, <2>3
  <2> QED
    BY <2>4
<1>5. count = def(count)
  <2> HIDE DEF def
  <2> QED
    BY <1>4
<1> HIDE DEF count
<1>6. \A n \in 0..L :
        count[n] = IF n < m THEN 0
                   ELSE IF hit(n) THEN 1 + count[n - m] ELSE count[n - 1]
  BY <1>5
(* By induction over the lines left: with a place in them, or two.         *)
<1> DEFINE x == L - i + 1
           y == L - j + 1
           Good(n) == /\ count[n] \in Nat
                      /\ n >= y => count[n] > 0
                      /\ n >= x => count[n] > 1
           Known == {n \in Nat : \A k \in 0..n : k <= L => Good(k)}
<1>7. /\ x \in m..L /\ y \in m..L /\ y + m <= x
      /\ hit(x) /\ hit(y)
  BY <1>2, <1>3
<1> HIDE DEF x, y
<1>8. ASSUME NEW n \in 0..L, \A k \in 0..(n - 1) : Good(k)
      PROVE  Good(n)
  <2>1. CASE n < m
    <3>1. count[n] = 0
      BY <1>6, <2>1
    <3>2. n < y /\ n < x
      BY <1>2, <1>7, <2>1
    <3> QED
      BY <1>7, <3>1, <3>2
  <2>2. CASE ~(n < m) /\ hit(n)
    <3>1. count[n] = 1 + count[n - m] /\ n - m \in 0..(n - 1)
      BY <1>2, <1>6, <2>2
    <3>2. Good(n - m)
      BY <1>8, <3>1
    <3>3. n >= x => n - m >= y
      BY <1>2, <1>7
    <3> QED
      BY <3>1, <3>2, <3>3
  <2>3. CASE ~(n < m) /\ ~hit(n)
    <3>1. count[n] = count[n - 1] /\ n - 1 \in 0..(n - 1)
      BY <1>2, <1>6, <2>3
    <3>2. Good(n - 1)
      BY <1>8, <3>1
    <3>3. (n >= x => n - 1 >= x) /\ (n >= y => n - 1 >= y)
      BY <1>2, <1>7, <2>3
    <3> QED
      BY <3>1, <3>2, <3>3
  <2> QED
    BY <2>1, <2>2, <2>3
<1> HIDE DEF Good
<1>9. 0 \in Known
  BY <1>2, <1>8
<1>10. ASSUME NEW n \in Nat, n \in Known PROVE n + 1 \in Known
  <2> SUFFICES ASSUME NEW k \in 0..(n + 1), k <= L PROVE Good(k)
    OBVIOUS
  <2>1. \A l \in 0..(k - 1) : l \in 0..n /\ l <= L
    BY <1>2
  <2>2. \A l \in 0..(k - 1) : Good(l)
    BY <1>10, <2>1
  <2> QED
    BY <1>2, <1>8, <2>2
<1>11. Nat \subseteq Known
  <2> HIDE DEF Known
  <2> QED
    BY <1>9, <1>10, Induct
<1>12. Good(L)
  BY <1>2, <1>11
<1>13. L >= x
  BY <1>2, <1>7
<1> QED
  BY <1>1, <1>12, <1>13 DEF Good

(* What is found in a text is found in it too when nothing is odd. *)
LEMMA NormalPlaces ==
  ASSUME NEW lines \in Seq(Line), NEW old \in Seq(Line)
  PROVE  Places(lines, old)
           \subseteq Places(normalizeForFuzzyMatch(lines),
                            normalizeForFuzzyMatch(old))
<1> DEFINE flat == normalizeForFuzzyMatch(lines)
           find == normalizeForFuzzyMatch(old)
           n == Len(lines)
           m == Len(old)
           plain(line) == [line EXCEPT !.odd = FALSE]
<1>1. /\ flat \in Seq(Line) /\ find \in Seq(Line)
      /\ Len(flat) = n /\ Len(find) = m /\ n \in Nat /\ m \in Nat
  BY NormalizedIs, LenProperties
<1>2. /\ \A i \in 1..n : flat[i] = plain(lines[i])
      /\ \A i \in 1..m : find[i] = plain(old[i])
  BY DEF normalizeForFuzzyMatch
<1> HIDE DEF flat, find, plain, n, m
<1> SUFFICES ASSUME NEW i \in Places(lines, old)
             PROVE  i \in Places(flat, find)
  BY DEF flat, find
<1>3. i \in 1..(n - m + 1) /\ SubSeq(lines, i, i + m - 1) = old
  BY DEF Places, Matches, n, m
<1> DEFINE j == i + m - 1
           there == SubSeq(flat, i, j)
<1>4. /\ i \in Nat /\ i > 0 /\ j \in Nat /\ j <= n
      /\ m = IF i <= j THEN j - i + 1 ELSE 0
  BY <1>1, <1>3
<1>5. /\ there \in Seq(Line) /\ Len(there) = m
      /\ \A k \in 1..m : there[k] = flat[i + k - 1]
      /\ \A k \in 1..m : old[k] = lines[i + k - 1]
  <2>1. there \in Seq(Line) /\ Len(there) = IF i <= j THEN j - i + 1 ELSE 0
    <3> HIDE DEF j
    <3> QED
      BY <1>1, <1>4, SubSeqIs
  <2>2. ASSUME NEW k \in 1..m
        PROVE  there[k] = flat[i + k - 1] /\ old[k] = lines[i + k - 1]
    <3>1. k \in 1..(j - i + 1)
      BY <1>4
    <3>2. SubSeq(flat, i, j)[k] = flat[i + k - 1]
      <4> HIDE DEF j
      <4> QED
        BY <1>1, <1>4, <3>1, SubSeqItem
    <3>3. SubSeq(lines, i, j)[k] = lines[i + k - 1]
      <4> HIDE DEF j
      <4> QED
        BY <1>4, <3>1, SubSeqItem DEF n
    <3> QED
      BY <1>3, <3>2, <3>3
  <2> QED
    BY <1>4, <2>1, <2>2
<1> HIDE DEF there, j
<1>6. ASSUME NEW k \in 1..m PROVE there[k] = find[k]
  <2>1. i + k - 1 \in 1..n
    BY <1>1, <1>3
  <2> QED
    BY <1>2, <1>5, <2>1
<1>7. there = find
  BY <1>1, <1>5, <1>6, SeqEqual
<1> QED
  BY <1>1, <1>3, <1>7 DEF Places, Matches, there, j, n, m

(* An edit that is accepted where the old text is found as it was given    *)
(* changes its first place, and there is no other but what overlaps it.    *)
LEMMA PlaceIs ==
  ASSUME NEW lines \in Seq(Line), NEW old \in Text, NEW new,
         Accepts(lines, old, new), Places(lines, old) # {}
  PROVE  LET i == MatchIndex(lines, old)
         IN /\ i \in Places(lines, old)
            /\ ContentForReplacement(lines, old) = lines
            /\ \A j \in Places(lines, old) :
                 j - i < Len(old) /\ i - j < Len(old)
<1> DEFINE P == Places(lines, old)
           i == Index(lines, old)
           n == Len(lines)
           m == Len(old)
           flat == normalizeForFuzzyMatch(lines)
           find == normalizeForFuzzyMatch(old)
<1>1. /\ n \in Nat /\ m \in Nat /\ m > 0 /\ old \in Seq(Line)
      /\ Len(flat) = n /\ Len(find) = m
  <2>1. old \in Seq(Line) /\ old # <<>>
    BY DEF Text
  <2> QED
    BY <2>1, LenProperties, EmptySeq, NormalizedIs
<1>2. P # {} /\ P \in SUBSET Nat /\ P \subseteq 1..(n - m + 1)
  BY <1>1 DEF Places
<1>3. i \in P /\ \A j \in P : i <= j
  <2>1. i = CHOOSE k \in P : \A j \in P : k <= j
    BY DEF Index
  <2>2. \E k \in P : \A j \in P : k <= j
    <3> HIDE DEF P
    <3> QED
      BY <1>2, Least
  <2> HIDE DEF P, i
  <2> QED
    BY <2>1, <2>2
<1>4. i # 0
  <2> HIDE DEF P, i
  <2> QED
    BY <1>2, <1>3
<1>5. MatchIndex(lines, old) = i /\ ContentForReplacement(lines, old) = lines
  BY <1>4 DEF MatchIndex, ContentForReplacement
<1>6. ASSUME NEW j \in P PROVE j - i < m /\ i - j < m
  <2>1. P \subseteq Places(flat, find)
    BY <1>1, NormalPlaces
  <2>2. Occurrences(flat, find) <= 1
    BY DEF Accepts
  <2> HIDE DEF P, i, flat, find
  <2>3. i \in Places(flat, find) /\ j \in Places(flat, find)
    BY <1>3, <2>1
  <2>4. i + m <= j => ~(Occurrences(flat, find) <= 1)
    BY <1>1, <2>3, OccurrencesAre
  <2>5. ~(i + m <= j)
    BY <2>2, <2>4
  <2>6. i \in Nat /\ j \in Nat /\ i <= j
    BY <1>2, <1>3
  <2> QED
    BY <1>1, <2>5, <2>6
<1> HIDE DEF P, i, n, m
<1> QED
  BY <1>3, <1>5, <1>6 DEF P, m

(* Nothing of an empty file is left behind what is written to it. *)
LEMMA CoversEmpty ==
  ASSUME NEW f, IsFile(f)
  PROVE  /\ Covers(f, EmptyFile).lines = f.lines
         /\ Covers(f, EmptyFile).ends = f.ends
         /\ Covers(f, EmptyFile).stray = f.stray
<1> DEFINE n == Len(f.lines)
           one == <<EmptyLine>>
           none == <<>>
           lines == f.lines \o SubSeq(one, n + 1, Len(one))
           ends == f.ends \o SubSeq(none, n, Len(none))
<1>1. /\ n \in Nat /\ n > 0
      /\ f.lines \in Seq(Line) /\ f.ends \in Seq({"LF", "CRLF"})
  BY FileFact
<1>2. EmptyFile.lines = one /\ EmptyFile.ends = none
  BY DEF EmptyFile
<1>3. Covers(f, EmptyFile) = [f EXCEPT !.lines = lines, !.ends = ends]
  BY <1>2, Zenon DEF Covers
<1>4. SubSeq(one, n + 1, Len(one)) = <<>>
  <2>1. Len(one) = 1
    OBVIOUS
  <2>2. n + 1 > Len(one)
    BY <1>1, <2>1
  <2> QED
    BY <1>1, <2>1, <2>2
<1>5. SubSeq(none, n, Len(none)) = <<>>
  BY <1>1
<1>6. lines = f.lines /\ ends = f.ends
  BY <1>1, <1>4, <1>5, ConcatEmptySeq
<1> HIDE DEF lines, ends, n
<1>7. f \in [bom : BOOLEAN, stray : Nat, lines : Text,
             ends : Seq({"LF", "CRLF"})]
  BY DEF IsFile
<1> QED
  BY <1>3, <1>6, <1>7

(* made is the file before with the one place of the old text changed into *)
(* the new one, and nothing else.                                          *)
EditDone(before, old, new, made) ==
  /\ \E i \in Places(before.lines, old) :
       /\ made.lines =
            SubSeq(before.lines, 1, i - 1) \o new
              \o SubSeq(before.lines, i + Len(old), Len(before.lines))
       /\ \A j \in Places(before.lines, old) :
            j - i < Len(old) /\ i - j < Len(old)
  /\ ToSet(made.ends) \subseteq
       IF before.ends = <<>> THEN {"LF"} ELSE ToSet(before.ends)
  /\ made.stray = before.stray

(* That is the file that is written, if nobody else writes. *)
LEMMA EditMakes ==
  ASSUME NEW before, IsFile(before), NEW old \in Text, NEW new \in Text,
         Accepts(before.lines, old, new), Plain(before, old)
  PROVE  EditDone(before, old, new,
                  Covers(Edited(before, old, new), EmptyFile))
<1> DEFINE edited == Edited(before, old, new)
           made == Covers(edited, EmptyFile)
           lines == before.lines
           text == NewContent(lines, old, new)
           i == MatchIndex(lines, old)
           ending == detectLineEnding(before)
<1>1. /\ lines \in Seq(Line) /\ before.ends \in Seq({"LF", "CRLF"})
      /\ ~before.bom
  BY FileFact DEF Plain
<1>2. /\ made.lines = edited.lines /\ made.ends = edited.ends
      /\ made.stray = edited.stray
  BY EditedIs, CoversEmpty
<1>3. /\ edited.lines = text /\ edited.stray = StrayAfter(before)
      /\ edited.ends = [k \in 1..(Len(text) - 1) |-> ending]
  BY DEF Edited
<1>4. /\ i \in Places(lines, old)
      /\ ContentForReplacement(lines, old) = lines
      /\ \A j \in Places(lines, old) : j - i < Len(old) /\ i - j < Len(old)
  BY <1>1, PlaceIs DEF Plain
<1>5. text = SubSeq(lines, 1, i - 1) \o new
               \o SubSeq(lines, i + Len(old), Len(lines))
  BY <1>4 DEF NewContent
<1>6. StrayAfter(before) = before.stray
  BY <1>1 DEF StrayAfter
<1>7. ToSet(edited.ends) \subseteq {ending}
  BY <1>3 DEF ToSet
<1>8. ending \in IF before.ends = <<>> THEN {"LF"} ELSE ToSet(before.ends)
  <2>1. CASE before.ends = <<>>
    BY <2>1 DEF detectLineEnding
  <2>2. CASE before.ends # <<>>
    <3>1. 1 \in DOMAIN before.ends
      BY <1>1, <2>2, EmptySeq, LenProperties
    <3>2. ending = before.ends[1]
      BY <2>2 DEF detectLineEnding
    <3> QED
      BY <2>2, <3>1, <3>2 DEF ToSet
  <2> QED
    BY <2>1, <2>2
<1> HIDE DEF edited, made, text, i, ending
<1>9. made.lines = SubSeq(lines, 1, i - 1) \o new
                     \o SubSeq(lines, i + Len(old), Len(lines))
  BY <1>2, <1>3, <1>5
<1>10. ToSet(made.ends) \subseteq
         IF before.ends = <<>> THEN {"LF"} ELSE ToSet(before.ends)
  BY <1>2, <1>7, <1>8
<1>11. made.stray = before.stray
  BY <1>2, <1>3, <1>6
<1> QED
  BY <1>4, <1>9, <1>10, <1>11 DEF EditDone, made, edited

(* The diff that is reported of an edit is one. *)
LEMMA ReportTrue ==
  ASSUME NEW c, IsFile(seen[c]), call[c].old \in Text, call[c].new \in Text,
         Accepts(seen[c].lines, call[c].old, call[c].new)
  PROVE  DiffIsTrue(EditReport(c))
<1> DEFINE lines == seen[c].lines
           old == call[c].old
           new == call[c].new
           base == ContentForReplacement(lines, old)
           text == NewContent(lines, old, new)
           diff == generateDiffString(base, text)
           r == EditReport(c)
<1>1. lines \in Seq(Line) /\ lines # <<>>
  BY FileFact
<1>2. base \in Text
  <2>1. CASE Index(lines, old) # 0
    BY <1>1, <2>1 DEF ContentForReplacement, Text
  <2>2. CASE Index(lines, old) = 0
    <3> DEFINE flat == normalizeForFuzzyMatch(lines)
    <3>1. flat \in Seq(Line) /\ Len(flat) = Len(lines)
      BY <1>1, NormalizedIs
    <3>2. base = flat
      BY <2>2 DEF ContentForReplacement
    <3> HIDE DEF flat, lines
    <3>3. flat # <<>>
      BY <1>1, <3>1, EmptySeq
    <3> HIDE DEF base
    <3> QED
      BY <3>1, <3>2, <3>3 DEF Text
  <2> QED
    BY <2>1, <2>2
<1>3. text \in Text /\ base # text
  BY <1>1, NewContentIs DEF Accepts
<1>4. /\ r.base = base /\ r.text = text /\ r.diff = diff.lines
      /\ r.firstChangedLine = diff.first
  BY DEF EditReport
<1> HIDE DEF lines, old, new, base, text, diff, r
<1>5. diff = generateDiffString(r.base, r.text)
  BY <1>4 DEF diff
<1>6. /\ r.base \in Text /\ r.text \in Text /\ r.base # r.text
      /\ r.diff = generateDiffString(r.base, r.text).lines
      /\ r.firstChangedLine = generateDiffString(r.base, r.text).first
  BY <1>2, <1>3, <1>4, <1>5
<1>7. DiffIsTrue(r)
  BY <1>6, DiffTrue
<1> QED
  BY <1>7 DEF r

-----------------------------------------------------------------------------
(* The inductive invariant *)

Where == {"idle", "edit", "fill", "read", "bash", "told"}

EditCall == [tool : {"edit"}, old : OldTexts, new : NewTexts]

WriteCall == [tool : {"write"}, contents : Contents]

ReadCall == [tool : {"read"}, offset : Nat, pages : Seq(Numbered)]

BashCall == {bash \in [tool : {"bash"}, output : Text, code : Int,
                       killed : BOOLEAN, over : BOOLEAN, reaped : BOOLEAN,
                       open : BOOLEAN] : bash.killed => bash.over}

Frame ==
  /\ IsFile(file)
  /\ pc \in [Callers -> Where]
  /\ met \in [Callers -> BOOLEAN]
  /\ calls \in 0..MaxCalls
  /\ DOMAIN call = Callers
  /\ DOMAIN report = Callers
  /\ DOMAIN seen = Callers
  /\ \A c \in Callers : IsFile(seen[c])

(* Pages so far, of a file that nobody else changes: its first lines, and  *)
(* the next page begins behind them.                                       *)
ReadSoFar(c) ==
  LET lines == file.lines
      pages == call[c].pages
  IN /\ seen[c] = file
     /\ Start(call[c].offset) = Len(pages)
     /\ Len(pages) <= Len(lines)
     /\ pages = [i \in 1..Len(pages) |-> [number |-> i, line |-> lines[i]]]

(* Where a caller is says what its call is, and what it has found out. *)
InCall(c) ==
  /\ pc[c] = "idle" => call[c] = NoCall
  /\ pc[c] = "edit" => call[c] \in EditCall
  /\ pc[c] = "fill" =>
       \/ call[c] \in WriteCall
       \/ /\ call[c] \in EditCall
          /\ Accepts(seen[c].lines, call[c].old, call[c].new)
          /\ ~met[c] => file = EmptyFile
  /\ pc[c] = "read" => call[c] \in ReadCall /\ (~met[c] => ReadSoFar(c))
  /\ pc[c] = "bash" => call[c] \in BashCall
  /\ pc[c] = "told" => call[c].tool # "none" /\ report[c].of # "none"
  /\ pc[c] # "told" => report[c] = NoReport

ReadTold(c) ==
  report[c].of = "read" /\ ~met[c] =>
    LET lines == seen[c].lines
        pages == report[c].pages
    IN /\ Len(pages) <= Len(lines)
       /\ pages = [i \in 1..Len(pages) |-> [number |-> i, line |-> lines[i]]]
       /\ \/ Len(pages) = Len(lines)
          \/ Size(lines[Len(pages) + 1]) > MaxBytes

BashTold(c) ==
  report[c].of = "bash" =>
    LET output == call[c].output
        r      == report[c]
        n      == Len(r.shown)
    IN /\ \A i \in 1..n : r.shown[i] = output[r.from + i - 1]
       /\ r.from + n - 1 = Len(output)
       /\ n <= MaxLines
       /\ r.partial => n = 1 /\ Size(r.shown[1]) > MaxBytes
       /\ ~r.partial => Fits(r.shown)
       /\ ~r.partial /\ n < Len(output) => ~Fits(LastLines(output, n + 1))
       /\ r.code >= 0 => ~r.error /\ r.code = call[c].code
       /\ ~call[c].over => ~r.error /\ r.code = call[c].code

(* What an edit was told, it was told of a call that was accepted, and     *)
(* what it wrote is there if nobody else wrote.                            *)
EditTold(c) ==
  report[c].of = "edit" =>
    /\ call[c] \in EditCall
    /\ Accepts(seen[c].lines, call[c].old, call[c].new)
    /\ report[c] = EditReport(c)
    /\ ~met[c] =>
         file = Covers(Edited(seen[c], call[c].old, call[c].new), EmptyFile)

Fine(c) == InCall(c) /\ EditTold(c) /\ ReadTold(c) /\ BashTold(c)

IInv == Frame /\ \A c \in Callers : Fine(c)

LEMMA InvImplies ==
  ASSUME IInv
  PROVE  /\ TypeOK /\ EditTellsTruth
         /\ PagesCoverFile /\ BashTellsTruth
<1>1. ASSUME NEW c \in Callers
      PROVE  /\ pc[c] = "idle" <=> call[c] = NoCall
             /\ pc[c] = "told" <=> report[c] # NoReport
  <2>1. pc[c] \in Where /\ InCall(c)
    BY DEF IInv, Frame, Fine
  <2>2. NoCall.tool = "none" /\ NoReport.of = "none"
    BY DEF NoCall, NoReport
  <2>3. pc[c] # "idle" => call[c].tool # "none"
    BY <2>1
    DEF InCall, Where, EditCall, WriteCall, ReadCall, BashCall
  <2>4. pc[c] = "idle" => call[c] = NoCall
    BY <2>1 DEF InCall
  <2>5. pc[c] = "told" => report[c].of # "none"
    BY <2>1 DEF InCall
  <2>6. pc[c] # "told" => report[c] = NoReport
    BY <2>1 DEF InCall
  <2> QED
    BY <2>2, <2>3, <2>4, <2>5, <2>6
<1>2. TypeOK
  BY <1>1 DEF IInv, Frame, TypeOK, Where
<1>3. PagesCoverFile
  BY DEF PagesCoverFile, IInv, Fine, ReadTold
<1>4. BashTellsTruth
  BY DEF BashTellsTruth, IInv, Fine, BashTold
<1>5. EditTellsTruth
  <2> SUFFICES ASSUME NEW c \in Callers, report[c].of = "edit"
               PROVE  /\ DiffIsTrue(report[c])
                      /\ ~met[c] /\ Plain(seen[c], call[c].old) =>
                           EditDone(seen[c], call[c].old, call[c].new, file)
    BY DEF EditTellsTruth, EditDone
  <2>1. /\ IsFile(seen[c]) /\ call[c] \in EditCall
        /\ Accepts(seen[c].lines, call[c].old, call[c].new)
        /\ report[c] = EditReport(c)
        /\ ~met[c] => file = Covers(Edited(seen[c], call[c].old, call[c].new),
                                    EmptyFile)
    BY DEF IInv, Frame, Fine, EditTold
  <2>2. call[c].old \in Text /\ call[c].new \in Text
    BY <2>1, ToolsAssumption DEF EditCall
  <2>3. DiffIsTrue(report[c])
    BY <2>1, <2>2, ReportTrue
  <2>4. ASSUME ~met[c], Plain(seen[c], call[c].old)
        PROVE  EditDone(seen[c], call[c].old, call[c].new, file)
    BY <2>1, <2>2, <2>4, EditMakes
  <2> QED
    BY <2>3, <2>4
<1> QED
  BY <1>2, <1>3, <1>4, <1>5

LEMMA InvInit == Init => IInv
<1> SUFFICES ASSUME Init PROVE IInv
  OBVIOUS
<1>1. Frame
  BY EmptyFileIs, ToolsAssumption DEF Init, Frame, Where
<1>2. ASSUME NEW c \in Callers PROVE Fine(c)
  <2>1. pc[c] = "idle" /\ call[c] = NoCall /\ report[c] = NoReport
    BY DEF Init
  <2> QED
    BY <2>1 DEF Fine, InCall, EditTold, ReadTold, BashTold, NoReport
<1> QED
  BY <1>1, <1>2 DEF IInv

(* What a step of another caller may do to a caller: nothing, or to change *)
(* the file under its call.                                                *)
Kept(d) ==
  /\ pc'[d] = pc[d] /\ call'[d] = call[d]
  /\ seen'[d] = seen[d] /\ report'[d] = report[d]
  /\ \/ file' = file /\ met'[d] = met[d]
     \/ met'[d] = (met[d] \/ pc[d] # "idle")

LEMMA KeptFine ==
  ASSUME NEW d \in Callers, Fine(d), Kept(d)
  PROVE  Fine(d)'
<1>1. /\ pc'[d] = pc[d] /\ call'[d] = call[d]
      /\ seen'[d] = seen[d] /\ report'[d] = report[d]
  BY DEF Kept
<1>2. pc[d] # "idle" /\ ~met'[d] => ~met[d] /\ file' = file
  BY DEF Kept
<1>3. pc[d] = "idle" => report[d].of = "none"
  BY DEF Fine, InCall, NoReport
<1>4. InCall(d)'
  <2>1. pc[d] = "read" /\ ~met'[d] => ReadSoFar(d)'
    <3> SUFFICES ASSUME pc[d] = "read", ~met'[d] PROVE ReadSoFar(d)'
      OBVIOUS
    <3>1. ReadSoFar(d) /\ file' = file
      BY <1>2 DEF Fine, InCall
    <3> QED
      BY <1>1, <3>1 DEF ReadSoFar
  <2>2. pc[d] = "fill" /\ ~met'[d] => ~met[d] /\ file' = file
    BY <1>2
  <2> QED
    BY <1>1, <2>1, <2>2 DEF Fine, InCall
<1>5. ReadTold(d)'
  <2> SUFFICES ASSUME report[d].of = "read", ~met'[d] PROVE ReadTold(d)'
    BY <1>1 DEF ReadTold
  <2>1. ~met[d]
    BY <1>2, <1>3
  <2> QED
    BY <1>1, <2>1 DEF Fine, ReadTold
<1>6. BashTold(d)'
  BY <1>1 DEF Fine, BashTold
<1>7. EditTold(d)'
  <2> SUFFICES ASSUME report[d].of = "edit" PROVE EditTold(d)'
    BY <1>1 DEF EditTold
  <2>1. EditReport(d)' = EditReport(d)
    BY <1>1 DEF EditReport
  <2>2. ~met'[d] => ~met[d] /\ file' = file
    BY <1>2, <1>3
  <2> QED
    BY <1>1, <2>1, <2>2 DEF Fine, EditTold
<1> QED
  BY <1>4, <1>5, <1>6, <1>7 DEF Fine

(* What is left to show of a step. *)
LEMMA Step ==
  ASSUME IInv, NEW c \in Callers, Frame', Fine(c)',
         \A d \in Callers \ {c} : Kept(d)
  PROVE  IInv'
<1>1. \A d \in Callers \ {c} : Fine(d)'
  BY KeptFine DEF IInv
<1> QED
  BY <1>1 DEF IInv

-----------------------------------------------------------------------------
(* The steps *)

LEMMA ReturnKeeps ==
  ASSUME IInv, NEW c \in Callers, Returns(c),
         met' = [met EXCEPT ![c] = FALSE], UNCHANGED <<file, calls>>
  PROVE  IInv'
<1>1. Frame'
  BY EmptyFileIs DEF IInv, Frame, Returns, Where
<1>2. \A d \in Callers \ {c} : Kept(d)
  BY DEF IInv, Frame, Returns, Kept
<1>3. pc'[c] = "idle" /\ call'[c] = NoCall /\ report'[c] = NoReport
  BY DEF IInv, Frame, Returns
<1>4. Fine(c)'
  BY <1>3 DEF Fine, InCall, EditTold, ReadTold, BashTold, NoReport
<1> QED
  BY <1>1, <1>2, <1>4, Step

LEMMA EditReadsKeeps ==
  ASSUME IInv, NEW c \in Callers, NEW old \in OldTexts, NEW new \in NewTexts,
         EditReads(c, old, new)
  PROVE  IInv'
<1>1. Frame'
  BY ToolsAssumption DEF IInv, Frame, EditReads, Begins, Where
<1>2. \A d \in Callers \ {c} : Kept(d)
  BY DEF IInv, Frame, EditReads, Begins, Kept
<1>3. /\ pc[c] = "idle" /\ pc'[c] = "edit" /\ report'[c] = report[c]
      /\ call'[c] = [tool |-> "edit", old |-> old, new |-> new]
  BY DEF IInv, Frame, EditReads, Begins
<1>4. report'[c] = NoReport
  BY <1>3 DEF IInv, Fine, InCall
<1>5. call'[c] \in EditCall
  BY <1>3 DEF EditCall
<1>6. Fine(c)'
  BY <1>3, <1>4, <1>5 DEF Fine, InCall, EditTold, ReadTold, BashTold, NoReport
<1> QED
  BY <1>1, <1>2, <1>6, Step

LEMMA EditOpensKeeps ==
  ASSUME IInv, NEW c \in Callers, EditOpens(c)
  PROVE  IInv'
<1>1. Frame'
  BY EmptyFileIs DEF IInv, Frame, EditOpens, Touches, Where
<1>2. \A d \in Callers \ {c} : Kept(d)
  BY DEF IInv, Frame, EditOpens, Touches, Kept
<1>3. /\ pc[c] = "edit" /\ pc'[c] = "fill" /\ report'[c] = report[c]
      /\ call'[c] = call[c] /\ seen'[c] = seen[c]
      /\ Accepts(seen[c].lines, call[c].old, call[c].new)
      /\ file' = EmptyFile
  BY DEF IInv, Frame, EditOpens, Touches
<1>4. report'[c] = NoReport /\ call'[c] \in EditCall
  BY <1>3 DEF IInv, Fine, InCall
<1>5. Fine(c)'
  BY <1>3, <1>4 DEF Fine, InCall, EditTold, ReadTold, BashTold, NoReport
<1> QED
  BY <1>1, <1>2, <1>5, Step

LEMMA WriteOpensKeeps ==
  ASSUME IInv, NEW c \in Callers, NEW contents \in Contents,
         WriteOpens(c, contents)
  PROVE  IInv'
<1>1. Frame'
  BY EmptyFileIs, ToolsAssumption
  DEF IInv, Frame, WriteOpens, Begins, Touches, Where
<1>2. \A d \in Callers \ {c} : Kept(d)
  BY DEF IInv, Frame, WriteOpens, Begins, Touches, Kept
<1>3. /\ pc[c] = "idle" /\ pc'[c] = "fill" /\ report'[c] = report[c]
      /\ call'[c] = [tool |-> "write", contents |-> contents]
  BY DEF IInv, Frame, WriteOpens, Begins
<1>4. report'[c] = NoReport
  BY <1>3 DEF IInv, Fine, InCall
<1>5. call'[c] \in WriteCall
  BY <1>3 DEF WriteCall
<1>6. Fine(c)'
  BY <1>3, <1>4, <1>5 DEF Fine, InCall, EditTold, ReadTold, BashTold, NoReport
<1> QED
  BY <1>1, <1>2, <1>6, Step

LEMMA EditFillsKeeps ==
  ASSUME IInv, NEW c \in Callers, EditFills(c)
  PROVE  IInv'
<1> DEFINE edited == Edited(seen[c], call[c].old, call[c].new)
           made == Covers(edited, file)
<1>1. /\ IsFile(file) /\ IsFile(seen[c]) /\ pc[c] = "fill"
      /\ call[c] \in EditCall
      /\ Accepts(seen[c].lines, call[c].old, call[c].new)
      /\ ~met[c] => file = EmptyFile
  BY DEF IInv, Frame, Fine, InCall, EditFills, WriteCall
<1>2. call[c].old \in Text /\ call[c].new \in Text
  BY <1>1, ToolsAssumption DEF EditCall
<1>3. IsFile(made)
  BY <1>1, <1>2, EditedIs, CoversIs
<1>4. /\ Touches(c, made) /\ Tells(c, EditReport(c))
      /\ UNCHANGED <<call, seen, calls>>
  BY DEF EditFills
<1>5. EditReport(c).of = "edit" /\ EditReport(c)' = EditReport(c)
  BY <1>4 DEF EditReport
<1>6. ~met[c] => made = Covers(edited, EmptyFile)
  BY <1>1
<1>7. (Edited(seen[c], call[c].old, call[c].new))' = edited
  BY <1>4
<1> HIDE DEF made
<1>8. Frame'
  BY <1>3, <1>4 DEF IInv, Frame, Touches, Tells, Where
<1>9. \A d \in Callers \ {c} : Kept(d)
  BY <1>4 DEF IInv, Frame, Touches, Tells, Kept
<1>10. /\ pc'[c] = "told" /\ report'[c] = EditReport(c)
       /\ call'[c] = call[c] /\ seen'[c] = seen[c]
       /\ file' = made /\ met'[c] = met[c]
  BY <1>4 DEF IInv, Frame, Touches, Tells
<1>11. call'[c].tool # "none"
  BY <1>1, <1>10 DEF EditCall
<1> HIDE DEF edited
<1>12. EditTold(c)'
  BY <1>1, <1>5, <1>6, <1>7, <1>10 DEF EditTold
<1>13. Fine(c)'
  BY <1>5, <1>10, <1>11, <1>12 DEF Fine, InCall, ReadTold, BashTold
<1> QED
  BY <1>8, <1>9, <1>13, Step

LEMMA WriteFillsKeeps ==
  ASSUME IInv, NEW c \in Callers, WriteFills(c)
  PROVE  IInv'
<1> DEFINE made == Covers(call[c].contents, file)
           answer == [of |-> "write"]
<1>1. IsFile(file) /\ pc[c] = "fill" /\ call[c] \in WriteCall
  BY DEF IInv, Frame, Fine, InCall, WriteFills, EditCall
<1>2. IsFile(made)
  BY <1>1, ToolsAssumption, CoversIs DEF WriteCall
<1>3. answer.of = "write"
  OBVIOUS
<1>4. /\ Touches(c, made) /\ Tells(c, answer)
      /\ UNCHANGED <<call, seen, calls>>
  BY DEF WriteFills
<1> HIDE DEF made, answer
<1>5. Frame'
  BY <1>2, <1>4 DEF IInv, Frame, Touches, Tells, Where
<1>6. \A d \in Callers \ {c} : Kept(d)
  BY <1>4 DEF IInv, Frame, Touches, Tells, Kept
<1>7. pc'[c] = "told" /\ report'[c] = answer /\ call'[c] = call[c]
  BY <1>4 DEF IInv, Frame, Tells
<1>8. call'[c].tool # "none"
  BY <1>1, <1>7 DEF WriteCall
<1>9. Fine(c)'
  BY <1>3, <1>7, <1>8 DEF Fine, InCall, EditTold, ReadTold, BashTold
<1> QED
  BY <1>5, <1>6, <1>9, Step

LEMMA ReadBeginsKeeps ==
  ASSUME IInv, NEW c \in Callers, ReadBegins(c)
  PROVE  IInv'
<1> DEFINE none == <<>>
<1>1. Frame'
  BY ToolsAssumption DEF IInv, Frame, ReadBegins, Begins, Where
<1>2. \A d \in Callers \ {c} : Kept(d)
  BY DEF IInv, Frame, ReadBegins, Begins, Kept
<1>3. /\ pc[c] = "idle" /\ pc'[c] = "read" /\ report'[c] = report[c]
      /\ call'[c] = [tool |-> "read", offset |-> 0, pages |-> none]
      /\ seen'[c] = file /\ file' = file
  BY DEF IInv, Frame, ReadBegins, Begins
<1>4. report'[c] = NoReport
  BY <1>3 DEF IInv, Fine, InCall
<1>5. call'[c] \in ReadCall
  <2>1. none \in Seq(Numbered)
    BY EmptySeq
  <2> HIDE DEF none
  <2> QED
    BY <1>3, <2>1 DEF ReadCall
<1>6. ReadSoFar(c)'
  <2>1. IsFile(file)
    BY DEF IInv, Frame
  <2>2. Len(file.lines) \in Nat
    BY <2>1, FileFact
  <2>3. Start(0) = 0
    BY DEF Start
  <2>4. Len(none) = 0 /\ none = [i \in 1..Len(none) |->
                                   [number |-> i, line |-> file.lines[i]]]
    BY EmptySeq
  <2> HIDE DEF none
  <2>5. call'[c].pages = none /\ call'[c].offset = 0
    BY <1>3
  <2> QED
    BY <1>3, <2>2, <2>3, <2>4, <2>5 DEF ReadSoFar
<1>7. Fine(c)'
  BY <1>3, <1>4, <1>5, <1>6
  DEF Fine, InCall, EditTold, ReadTold, BashTold, NoReport
<1> QED
  BY <1>1, <1>2, <1>7, Step

(* The lines of a page, put behind the first lines of the file. *)
FirstOnes(lines, n) == [i \in 1..n |-> [number |-> i, line |-> lines[i]]]

NextOnes(lines, n, m) ==
  [i \in 1..m |-> [number |-> n + i, line |-> lines[n + i]]]

LEMMA PagesJoin ==
  ASSUME NEW lines, NEW n \in Nat, NEW m \in Nat
  PROVE  LET joined == FirstOnes(lines, n) \o NextOnes(lines, n, m)
         IN Len(joined) = n + m /\ joined = FirstOnes(lines, n + m)
<1> DEFINE pages == FirstOnes(lines, n)
           page == NextOnes(lines, n, m)
<1> DEFINE item(i) == [number |-> i, line |-> lines[i]]
<1>1. pages = [i \in 1..n |-> item(i)] /\ page = [i \in 1..m |-> item(n + i)]
  BY DEF FirstOnes, NextOnes
<1> HIDE DEF item, pages, page
<1> DEFINE S == {item(i) : i \in Nat}
<1>2. /\ pages \in Seq(S) /\ page \in Seq(S)
      /\ Len(pages) = n /\ Len(page) = m
  <2>1. \A i \in Nat : item(i) \in S
    OBVIOUS
  <2> HIDE DEF S
  <2>2. /\ \A i \in 1..n : item(i) \in S
        /\ \A i \in 1..m : item(n + i) \in S
    BY <2>1
  <2>3. pages \in Seq(S) /\ Len(pages) = n
    <3>1. pages = [i \in 1..n |-> item(i)] /\ \A i \in 1..n : item(i) \in S
      BY <1>1, <2>2
    <3> QED
      BY <3>1
  <2>4. page \in Seq(S) /\ Len(page) = m
    <3> DEFINE next(i) == item(n + i)
    <3>1. page = [i \in 1..m |-> next(i)] /\ \A i \in 1..m : next(i) \in S
      BY <1>1, <2>2
    <3> HIDE DEF next
    <3> QED
      BY <3>1
  <2> QED
    BY <2>3, <2>4
<1> HIDE DEF S
<1>3. /\ Len(pages \o page) = n + m
      /\ pages \o page \in Seq(S)
      /\ \A i \in 1..(n + m) :
           (pages \o page)[i] = IF i <= n THEN pages[i] ELSE page[i - n]
  BY <1>2, ConcatProperties
<1>4. ASSUME NEW i \in 1..(n + m)
      PROVE  (IF i <= n THEN pages[i] ELSE page[i - n]) = item(i)
  <2>1. CASE i <= n
    BY <1>1, <2>1
  <2>2. CASE ~(i <= n)
    <3>1. i - n \in 1..m /\ n + (i - n) = i
      BY <2>2
    <3>2. page[i - n] = item(n + (i - n))
      BY <1>1, <3>1
    <3> QED
      BY <2>2, <3>1, <3>2
  <2> QED
    BY <2>1, <2>2
<1>5. pages \o page = [i \in 1..(n + m) |-> item(i)]
  <2> DEFINE joined == pages \o page
  <2>1. joined = [i \in 1..(n + m) |-> joined[i]]
    BY <1>3, LenProperties
  <2>2. \A i \in 1..(n + m) : joined[i] = item(i)
    BY <1>3, <1>4
  <2> HIDE DEF joined
  <2> QED
    BY <2>1, <2>2 DEF joined
<1> QED
  BY <1>3, <1>5 DEF item, pages, page, FirstOnes

LEMMA ReadsPageKeeps ==
  ASSUME IInv, NEW c \in Callers, NEW limit \in Limits, ReadsPage(c, limit)
  PROVE  IInv'
<1> DEFINE lines  == file.lines
           offset == call[c].offset
           old    == call[c].pages
           page   == Page(lines, offset, limit)
           next   == NextOffset(lines, offset, limit)
           pages  == old \o page
           from   == Start(offset)
           to     == from + Len(page)
<1>1. /\ pc[c] = "read" /\ ~BeyondEnd(lines, offset)
      /\ UNCHANGED <<file, seen, met, calls>>
      /\ \/ /\ next # 0 /\ UNCHANGED <<pc, report>>
            /\ call' = [call EXCEPT ![c].offset = next, ![c].pages = pages]
         \/ /\ next = 0 /\ UNCHANGED call
            /\ Tells(c, [of |-> "read", pages |-> pages])
  BY DEF ReadsPage
<1>2. /\ call[c] \in ReadCall /\ IsFile(file) /\ report[c] = NoReport
      /\ ~met[c] => ReadSoFar(c)
  BY <1>1 DEF IInv, Frame, Fine, InCall
<1>3. lines \in Seq(Line) /\ offset \in Nat /\ old \in Seq(Numbered)
      /\ limit \in Nat
  BY <1>2, FileFact, ToolsAssumption DEF ReadCall
<1>4. /\ from \in Nat /\ Len(page) \in Nat /\ to <= Len(lines)
      /\ page = [i \in 1..Len(page) |->
                   [number |-> from + i, line |-> lines[from + i]]]
      /\ page \in Seq(Numbered)
      /\ next \in Nat /\ (next # 0 => Start(next) = to)
      /\ next = 0 => \/ to = Len(lines)
                     \/ to < Len(lines) /\ Size(lines[to + 1]) > MaxBytes
  <2> HIDE DEF lines, offset
  <2> QED
    BY <1>1, <1>3, PageIs
<1> HIDE DEF lines, offset, old, page, next, from
<1>5. pages \in Seq(Numbered)
  BY <1>3, <1>4, ConcatIs
<1>6. ASSUME ~met[c]
      PROVE  /\ seen[c] = file /\ Len(pages) = to
             /\ pages = [i \in 1..Len(pages) |->
                           [number |-> i, line |-> lines[i]]]
  <2>1. ReadSoFar(c)
    BY <1>2, <1>6
  <2>2. /\ seen[c] = file /\ from = Len(old)
        /\ old = [i \in 1..Len(old) |-> [number |-> i, line |-> lines[i]]]
    BY <2>1 DEF ReadSoFar, lines, old, from, offset
  <2>3. /\ Len(pages) = from + Len(page)
        /\ pages = [i \in 1..(from + Len(page)) |->
                      [number |-> i, line |-> lines[i]]]
    <3>1. old = FirstOnes(lines, from)
      BY <2>2 DEF FirstOnes
    <3>2. page = NextOnes(lines, from, Len(page))
      BY <1>4 DEF NextOnes
    <3>3. /\ Len(old \o page) = from + Len(page)
          /\ old \o page = FirstOnes(lines, from + Len(page))
      <4> DEFINE m == Len(page)
      <4>1. m \in Nat /\ page = NextOnes(lines, from, m)
        BY <1>4, <3>2
      <4> HIDE DEF m
      <4>2. LET joined == FirstOnes(lines, from) \o NextOnes(lines, from, m)
            IN Len(joined) = from + m /\ joined = FirstOnes(lines, from + m)
        BY <1>4, <4>1, PagesJoin
      <4>3. FirstOnes(lines, from) \o NextOnes(lines, from, m) = old \o page
        BY <3>1, <4>1
      <4> QED
        BY <4>2, <4>3 DEF m
    <3> QED
      BY <3>3 DEF FirstOnes
  <2> QED
    BY <2>2, <2>3
<1> HIDE DEF pages
<1>7. Frame'
  <2>1. CASE next # 0
    BY <1>1, <2>1 DEF IInv, Frame
  <2>2. CASE next = 0
    BY <1>1, <2>2 DEF IInv, Frame, Tells, Where
  <2> QED
    BY <2>1, <2>2
<1>8. \A d \in Callers \ {c} : Kept(d)
  BY <1>1 DEF IInv, Frame, Tells, Kept
<1>9. CASE next # 0
  <2>1. /\ pc'[c] = "read" /\ report'[c] = NoReport /\ met'[c] = met[c]
        /\ call'[c] = [call[c] EXCEPT !.offset = next, !.pages = pages]
        /\ seen'[c] = seen[c] /\ file' = file
    BY <1>1, <1>2, <1>9 DEF IInv, Frame
  <2>2. /\ call'[c] \in ReadCall /\ call'[c].offset = next
        /\ call'[c].pages = pages
    BY <1>2, <1>4, <1>5, <2>1 DEF ReadCall
  <2>3. ASSUME ~met'[c] PROVE ReadSoFar(c)'
    <3>1. /\ seen[c] = file /\ Len(pages) = to
          /\ pages = [i \in 1..Len(pages) |->
                        [number |-> i, line |-> lines[i]]]
      BY <1>6, <2>1, <2>3
    <3> QED
      BY <1>4, <1>9, <2>1, <2>2, <3>1 DEF ReadSoFar, lines
  <2>4. Fine(c)'
    BY <2>1, <2>2, <2>3 DEF Fine, InCall, EditTold, ReadTold, BashTold, NoReport
  <2> QED
    BY <1>7, <1>8, <2>4, Step
<1>10. CASE next = 0
  <2>1. /\ pc'[c] = "told" /\ met'[c] = met[c] /\ seen'[c] = seen[c]
        /\ call'[c] = call[c]
        /\ report'[c] = [of |-> "read", pages |-> pages]
    BY <1>1, <1>10 DEF IInv, Frame, Tells
  <2>2. /\ call'[c].tool # "none" /\ report'[c].of = "read"
        /\ report'[c].pages = pages
    BY <1>2, <2>1 DEF ReadCall
  <2>3. ReadTold(c)'
    <3> SUFFICES ASSUME ~met[c] PROVE ReadTold(c)'
      BY <2>1 DEF ReadTold
    <3>1. /\ seen[c] = file /\ Len(pages) = to
          /\ pages = [i \in 1..Len(pages) |->
                        [number |-> i, line |-> lines[i]]]
      BY <1>6
    <3>2. /\ Len(pages) <= Len(lines)
          /\ Len(pages) = Len(lines)
             \/ Size(lines[Len(pages) + 1]) > MaxBytes
      BY <1>4, <1>10, <3>1
    <3>3. seen'[c].lines = lines
      BY <2>1, <3>1 DEF lines
    <3> QED
      BY <2>2, <3>1, <3>2, <3>3 DEF ReadTold
  <2>4. Fine(c)'
    BY <2>1, <2>2, <2>3 DEF Fine, InCall, EditTold, BashTold
  <2> QED
    BY <1>7, <1>8, <2>4, Step
<1> QED
  BY <1>9, <1>10

LEMMA BashBeginsKeeps ==
  ASSUME IInv, NEW c \in Callers, NEW output \in Outputs,
         BashBegins(c, output)
  PROVE  IInv'
<1>1. Frame'
  BY ToolsAssumption DEF IInv, Frame, BashBegins, Begins, Where
<1>2. \A d \in Callers \ {c} : Kept(d)
  BY DEF IInv, Frame, BashBegins, Begins, Kept
<1>3. /\ pc[c] = "idle" /\ pc'[c] = "bash" /\ report'[c] = report[c]
      /\ call'[c] = [tool |-> "bash", output |-> output, code |-> NotEnded,
                     killed |-> FALSE, over |-> FALSE, reaped |-> FALSE,
                     open |-> TRUE]
  BY DEF IInv, Frame, BashBegins, Begins
<1>4. report'[c] = NoReport
  BY <1>3 DEF IInv, Fine, InCall
<1>5. call'[c] \in BashCall
  BY <1>3, ToolsAssumption DEF BashCall, NotEnded
<1>6. Fine(c)'
  BY <1>3, <1>4, <1>5 DEF Fine, InCall, EditTold, ReadTold, BashTold, NoReport
<1> QED
  BY <1>1, <1>2, <1>6, Step

LEMMA BashNotStartedKeeps ==
  ASSUME IInv, NEW c \in Callers, BashNotStarted(c)
  PROVE  IInv'
<1> DEFINE one == <<EmptyLine>>
           answer == [of |-> "bash", shown |-> one, from |-> 1,
                      partial |-> FALSE, code |-> -1, error |-> TRUE]
           args == [tool |-> "bash", output |-> one, code |-> NotEnded,
                    killed |-> FALSE, over |-> TRUE, reaped |-> FALSE,
                    open |-> FALSE]
<1>1. Begins(c, args, "told") /\ report' = [report EXCEPT ![c] = answer]
      /\ UNCHANGED <<file, seen, met>>
  BY DEF BashNotStarted
<1>2. Len(one) = 1 /\ Fits(one)
  <2>1. Size(EmptyLine) <= MaxBytes
    BY ToolsAssumption, LimitsAssumption DEF Size, EmptyLine
  <2> QED
    BY <2>1, EmptyFileIs, OneLine
<1>3. /\ answer.of = "bash" /\ answer.shown = one /\ answer.from = 1
      /\ ~answer.partial /\ answer.code = -1
      /\ args.tool = "bash" /\ args.output = one /\ args.over
  OBVIOUS
<1> HIDE DEF one, answer, args
<1>4. Frame'
  BY <1>1, ToolsAssumption DEF IInv, Frame, Begins, Where
<1>5. \A d \in Callers \ {c} : Kept(d)
  BY <1>1 DEF IInv, Frame, Begins, Kept
<1>6. pc'[c] = "told" /\ report'[c] = answer /\ call'[c] = args
  BY <1>1 DEF IInv, Frame, Begins
<1>7. BashTold(c)'
  <2>1. /\ \A i \in 1..1 : one[i] = one[1 + i - 1]
        /\ 1 + 1 - 1 = 1 /\ 1 <= MaxLines /\ ~(1 < 1) /\ ~(-1 >= 0)
    BY LimitsAssumption
  <2>2. /\ report'[c].shown = one /\ report'[c].from = 1
        /\ ~report'[c].partial /\ report'[c].code = -1
        /\ call'[c].output = one /\ call'[c].over
    BY <1>3, <1>6
  <2> QED
    BY <1>2, <2>1, <2>2 DEF BashTold
<1>8. Fine(c)'
  BY <1>3, <1>6, <1>7 DEF Fine, InCall, EditTold, ReadTold
<1> QED
  BY <1>4, <1>5, <1>8, Step

(* The steps between the start of a shell and the tool's answer. *)
LEMMA BashRunsKeeps ==
  ASSUME IInv, NEW c \in Callers,
         \/ \E code \in ExitCodes : ShellExits(c, code)
         \/ ContextEnds(c)
         \/ ShellReaped(c)
         \/ PipeCloses(c)
  PROVE  IInv'
<1>1. pc[c] = "bash" /\ UNCHANGED <<file, pc, seen, met, report, calls>>
  BY DEF ShellExits, ContextEnds, ShellReaped, PipeCloses, Running
<1>2. call[c] \in BashCall /\ report[c] = NoReport
  BY <1>1 DEF IInv, Fine, InCall
<1>3. \E made \in BashCall : call' = [call EXCEPT ![c] = made]
  <2>1. CASE \E code \in ExitCodes : ShellExits(c, code)
    <3>1. PICK code \in ExitCodes : ShellExits(c, code)
      BY <2>1
    <3>2. call' = [call EXCEPT ![c] = [call[c] EXCEPT !.code = code]]
      BY <3>1 DEF ShellExits
    <3>3. [call[c] EXCEPT !.code = code] \in BashCall
      BY <1>2, ToolsAssumption DEF BashCall
    <3> QED
      BY <3>2, <3>3
  <2>2. CASE ContextEnds(c)
    <3>1. call' = [call EXCEPT ![c] = [call[c] EXCEPT !.over = TRUE,
                                                      !.killed = Running(c)]]
      BY <2>2 DEF ContextEnds
    <3>2. Running(c) \in BOOLEAN
      BY DEF Running
    <3>3. [call[c] EXCEPT !.over = TRUE, !.killed = Running(c)] \in BashCall
      BY <1>2, <3>2 DEF BashCall
    <3> QED
      BY <3>1, <3>3
  <2>3. CASE PipeCloses(c)
    <3>1. call' = [call EXCEPT ![c] = [call[c] EXCEPT !.open = FALSE]]
      BY <2>3 DEF PipeCloses
    <3>2. [call[c] EXCEPT !.open = FALSE] \in BashCall
      BY <1>2 DEF BashCall
    <3> QED
      BY <3>1, <3>2
  <2>4. CASE ShellReaped(c)
    <3>1. call' = [call EXCEPT ![c] = [call[c] EXCEPT !.reaped = TRUE]]
      BY <2>4 DEF ShellReaped
    <3>2. [call[c] EXCEPT !.reaped = TRUE] \in BashCall
      BY <1>2 DEF BashCall
    <3> QED
      BY <3>1, <3>2
  <2> QED
    BY <2>1, <2>2, <2>3, <2>4
<1>4. Frame'
  BY <1>1, <1>3 DEF IInv, Frame
<1>5. \A d \in Callers \ {c} : Kept(d)
  BY <1>1, <1>3 DEF IInv, Frame, Kept
<1>6. call'[c] \in BashCall /\ pc'[c] = "bash" /\ report'[c] = NoReport
  BY <1>1, <1>2, <1>3 DEF IInv, Frame
<1>7. Fine(c)'
  BY <1>6 DEF Fine, InCall, EditTold, ReadTold, BashTold, NoReport
<1> QED
  BY <1>4, <1>5, <1>7, Step

LEMMA LastLinesAre ==
  ASSUME NEW lines \in Seq(Line), NEW k \in 0..Len(lines)
  PROVE  /\ Len(LastLines(lines, k)) = k
         /\ \A i \in 1..k : LastLines(lines, k)[i] = lines[Len(lines) - k + i]
<1> DEFINE m == Len(lines)
           a == m - k + 1
           last == SubSeq(lines, a, m)
<1>1. m \in Nat /\ a \in 1..(m + 1) /\ m - a + 1 = k
  BY LenProperties
<1>2. LastLines(lines, k) = last
  BY DEF LastLines
<1> HIDE DEF a
<1>3. /\ Len(last) = m - a + 1
      /\ \A i \in 1..(m - a + 1) : last[i] = lines[a + i - 1]
  BY <1>1
<1> HIDE DEF last
<1>4. Len(last) = k /\ \A i \in 1..k : last[i] = lines[a + i - 1]
  BY <1>1, <1>3
<1> HIDE DEF m
<1>5. \A i \in 1..k : a + i - 1 = m - k + i
  BY <1>1 DEF a
<1> QED
  BY <1>2, <1>4, <1>5 DEF m

LEMMA BashReturnsKeeps ==
  ASSUME IInv, NEW c \in Callers, BashReturns(c)
  PROVE  IInv'
<1> DEFINE output == call[c].output
           tail   == TruncateTail(output)
           m      == Len(output)
           shown  == tail.shown
           from   == m - Len(shown) + 1
           answer == [of |-> "bash", shown |-> tail.shown,
                      partial |-> tail.partial, from |-> from,
                      code |-> Exec(c).code, error |-> Exec(c).error]
<1>1. /\ pc[c] = "bash" /\ Tells(c, answer)
      /\ UNCHANGED <<file, call, seen, met, calls>>
  BY DEF BashReturns
<1>2. call[c] \in BashCall
  BY <1>1 DEF IInv, Fine, InCall
<1>3. /\ output \in Seq(Line) /\ output # <<>> /\ m \in Nat /\ m > 0
      /\ call[c].tool = "bash"
  <2>1. output \in Text /\ call[c].tool = "bash"
    BY <1>2 DEF BashCall
  <2> HIDE DEF output
  <2> QED
    BY <2>1, LenProperties, EmptySeq DEF Text
<1>4. /\ Exec(c).code >= 0 => ~Exec(c).error /\ Exec(c).code = call[c].code
      /\ ~call[c].over => ~Exec(c).error /\ Exec(c).code = call[c].code
  BY <1>2 DEF Exec, BashCall
<1>5. /\ answer.of = "bash" /\ answer.shown = shown /\ answer.from = from
      /\ answer.partial = tail.partial
      /\ answer.code = Exec(c).code /\ answer.error = Exec(c).error
  OBVIOUS
<1>6. PICK k \in 0..m :
        /\ shown = LastLines(output, k)
        /\ tail.partial => k = 1 /\ Size(output[m]) > MaxBytes
        /\ ~tail.partial => Fits(LastLines(output, k))
        /\ ~tail.partial /\ k < m => ~Fits(LastLines(output, k + 1))
  <2> HIDE DEF output
  <2> QED
    BY <1>3, TailIs
<1> HIDE DEF output, tail, m, shown, answer
<1>7. /\ Len(shown) = k
      /\ \A i \in 1..k : shown[i] = output[m - k + i]
  BY <1>3, <1>6, LastLinesAre DEF m
<1>8. /\ Frame' /\ \A d \in Callers \ {c} : Kept(d)
      /\ pc'[c] = "told" /\ report'[c] = answer /\ call'[c] = call[c]
  BY <1>1 DEF IInv, Frame, Tells, Where, Kept
<1>9. BashTold(c)'
  <2>1. /\ from = m - k + 1 /\ from + k - 1 = m
        /\ \A i \in 1..k : from + i - 1 = m - k + i
    BY <1>3, <1>7
  <2>2. \A i \in 1..k : shown[i] = output[from + i - 1]
    BY <1>7, <2>1
  <2>3. tail.partial => k = 1 /\ Size(shown[1]) > MaxBytes
    <3> SUFFICES ASSUME tail.partial
                 PROVE  k = 1 /\ Size(shown[1]) > MaxBytes
      OBVIOUS
    <3>1. k = 1 /\ Size(output[m]) > MaxBytes
      BY <1>6
    <3>2. shown[1] = output[m - 1 + 1] /\ m - 1 + 1 = m
      BY <1>3, <1>7, <3>1
    <3> QED
      BY <3>1, <3>2
  <2>4. ~tail.partial => Fits(shown)
    BY <1>6
  <2>5. k <= MaxLines
    <3>1. CASE tail.partial
      BY <2>3, <3>1, LimitsAssumption
    <3>2. CASE ~tail.partial
      BY <1>7, <2>4, <3>2 DEF Fits
    <3> QED
      BY <3>1, <3>2
  <2>6. call'[c].output = output /\ Len(output) = m
    BY <1>8 DEF output, m
  <2> HIDE DEF from
  <2> QED
    BY <1>4, <1>5, <1>6, <1>7, <1>8, <2>1, <2>2, <2>3, <2>4, <2>5, <2>6
    DEF BashTold
<1>10. Fine(c)'
  BY <1>3, <1>5, <1>8, <1>9 DEF Fine, InCall, EditTold, ReadTold
<1> QED
  BY <1>8, <1>10, Step

LEMMA InvNext == IInv /\ [Next]_vars => IInv'
<1> SUFFICES ASSUME IInv, [Next]_vars PROVE IInv'
  OBVIOUS
<1>1. CASE UNCHANGED vars
  <2>1. Frame'
    BY <1>1 DEF IInv, Frame, vars
  <2>2. \A c \in Callers : Fine(c)'
    <3> TAKE c \in Callers
    <3>1. Fine(c) /\ Kept(c)
      BY <1>1 DEF IInv, Kept, vars
    <3> QED
      BY <3>1, KeptFine
  <2> QED
    BY <2>1, <2>2 DEF IInv
<1>2. ASSUME NEW c \in Callers,
             \/ EditRefused(c) \/ FillFails(c) \/ ReadRefused(c) \/ Return(c)
      PROVE  IInv'
  BY <1>2, ReturnKeeps DEF EditRefused, FillFails, ReadRefused, Return
<1>3. ASSUME NEW c \in Callers,
             \/ \E old \in OldTexts, new \in NewTexts : EditReads(c, old, new)
             \/ EditOpens(c) \/ EditFills(c)
             \/ \E contents \in Contents : WriteOpens(c, contents)
             \/ WriteFills(c)
      PROVE  IInv'
  BY <1>3, EditReadsKeeps, EditOpensKeeps, WriteOpensKeeps, EditFillsKeeps,
     WriteFillsKeeps
<1>4. ASSUME NEW c \in Callers,
             \/ ReadBegins(c)
             \/ \E limit \in Limits : ReadsPage(c, limit)
      PROVE  IInv'
  BY <1>4, ReadBeginsKeeps, ReadsPageKeeps
<1>5. ASSUME NEW c \in Callers,
             \/ \E output \in Outputs : BashBegins(c, output)
             \/ BashNotStarted(c)
             \/ \E code \in ExitCodes : ShellExits(c, code)
             \/ ContextEnds(c) \/ ShellReaped(c) \/ PipeCloses(c)
             \/ BashReturns(c)
      PROVE  IInv'
  BY <1>5, BashBeginsKeeps, BashNotStartedKeeps, BashRunsKeeps,
     BashReturnsKeeps
<1> QED
  BY <1>1, <1>2, <1>3, <1>4, <1>5 DEF Next

LEMMA Invariant == Spec => []IInv
BY InvInit, InvNext, PTL DEF Spec

(* The file is always a text with an ending for each line but the last,    *)
(* whoever opened, emptied and overwrote it in between; a caller that is   *)
(* in no call has none, and one is told something only by its own.         *)
THEOREM TypeCorrect == Spec => []TypeOK
<1>1. IInv => TypeOK
  BY InvImplies
<1> QED
  BY <1>1, Invariant, PTL

(* performEdit, generateDiffString: each line of a diff stands where its   *)
(* number says, and what it leaves out is the same before and after; and   *)
(* if nobody else wrote, the file has the one place of the old text        *)
(* changed into the new one and nothing else.                              *)
THEOREM EditTrue == Spec => []EditTellsTruth
<1>1. IInv => EditTellsTruth
  BY InvImplies
<1> QED
  BY <1>1, Invariant, PTL

(* handleTextRead: whoever goes on from page to page of a file that nobody *)
(* changes sees every line once, under its number, up to the end or to a   *)
(* line that is longer than a page.                                        *)
THEOREM PagesCover == Spec => []PagesCoverFile
<1>1. IInv => PagesCoverFile
  BY InvImplies
<1> QED
  BY <1>1, Invariant, PTL

(* The bash tool shows the end of the output, within the limits and as     *)
(* much of it as they allow, and no code that the shell did not exit with; *)
(* and the code of a shell that was reaped before the context ended is     *)
(* told without an error, whenever its children let go of the pipe.        *)
THEOREM BashTrue == Spec => []BashTellsTruth
<1>1. IInv => BashTellsTruth
  BY InvImplies
<1> QED
  BY <1>1, Invariant, PTL

=============================================================================
