------------------------------ MODULE EditDiff ------------------------------
(***************************************************************************)
(* What the edit tool computes: where the old text is in the file, what    *)
(* the file becomes, and the diff it reports.                              *)
(*                                                                         *)
(* A text is a sequence of lines.  A line has words, and may be odd: it    *)
(* has typographic quotes, dashes, spaces or blanks at its end, which      *)
(* normalizeForFuzzyMatch takes away.  The old text is one or more whole   *)
(* lines, none of them part of another line, and neither its first nor its *)
(* last line is empty.                                                     *)
(*                                                                         *)
(* A file also has the ending of each line but the last, and may begin     *)
(* with a byte order mark and with stray bytes after it.                   *)
(***************************************************************************)
EXTENDS Naturals, Sequences, FiniteSets, SequencesExt

CONSTANTS
  Empty,    \* the words of an empty line
  Context   \* CONTEXT_LINES

ASSUME ContextAssumption == Context \in Nat

EmptyLine == [word |-> Empty, odd |-> FALSE]

EmptyFile ==
  [bom |-> FALSE, stray |-> 0, lines |-> <<EmptyLine>>, ends |-> <<>>]
-----------------------------------------------------------------------------
(* Finding and replacing *)

(* The mark has three bytes, of which one is taken off and three are put   *)
(* back in front.                                                          *)
StrayAfter(file) == IF file.bom THEN file.stray + 2 ELSE file.stray

detectLineEnding(file) == IF file.ends = <<>> THEN "LF" ELSE file.ends[1]

normalizeForFuzzyMatch(lines) ==
  [i \in 1..Len(lines) |-> [lines[i] EXCEPT !.odd = FALSE]]

Matches(lines, old, i) == SubSeq(lines, i, i + Len(old) - 1) = old

Places(lines, old) ==
  {i \in 1..(Len(lines) - Len(old) + 1) : Matches(lines, old, i)}

(* strings.Index, in lines; 0 if there is no match. *)
Index(lines, old) ==
  IF Places(lines, old) = {} THEN 0
  ELSE CHOOSE i \in Places(lines, old) :
         \A j \in Places(lines, old) : i <= j

(* strings.Split, which goes on after a match behind it; count[n] is how   *)
(* many it finds in the last n lines.                                      *)
Occurrences(lines, old) ==
  LET count[n \in 0..Len(lines)] ==
        IF n < Len(old) THEN 0
        ELSE IF Matches(lines, old, Len(lines) - n + 1)
             THEN 1 + count[n - Len(old)]
        ELSE count[n - 1]
  IN count[Len(lines)]

(* The text that is edited: all of it is normalised if only that helps. *)
ContentForReplacement(lines, old) ==
  IF Index(lines, old) # 0 THEN lines ELSE normalizeForFuzzyMatch(lines)

MatchIndex(lines, old) ==
  IF Index(lines, old) # 0 THEN Index(lines, old)
  ELSE Index(normalizeForFuzzyMatch(lines), normalizeForFuzzyMatch(old))

NewContent(lines, old, new) ==
  LET base == ContentForReplacement(lines, old)
      i == MatchIndex(lines, old)
  IN SubSeq(base, 1, i - 1) \o new \o SubSeq(base, i + Len(old), Len(base))

(* The edit is made: there is a match, only one, and it changes the text. *)
Accepts(lines, old, new) ==
  /\ MatchIndex(lines, old) # 0
  /\ Occurrences(normalizeForFuzzyMatch(lines),
                 normalizeForFuzzyMatch(old)) <= 1
  /\ NewContent(lines, old, new) # ContentForReplacement(lines, old)

(* Mutant: the last line gets an ending too. *)
Edited_AllEnded(file, old, new) ==
  LET text == NewContent(file.lines, old, new)
  IN [bom |-> file.bom, stray |-> StrayAfter(file), lines |-> text,
      ends |-> [i \in 1..Len(text) |-> detectLineEnding(file)]]

(* The file that is written: every line gets the ending of the first.      *)
Edited(file, old, new) ==
  LET text == NewContent(file.lines, old, new)
  IN [bom |-> file.bom, stray |-> StrayAfter(file), lines |-> text,
      ends |-> [i \in 1..(Len(text) - 1) |-> detectLineEnding(file)]]
-----------------------------------------------------------------------------
(* The diff *)

(* Lines with their newline; no newline ends the last one. *)
tokenize(lines) ==
  LET whole == [i \in 1..Len(lines) |->
                  [line |-> lines[i], ended |-> i < Len(lines)]]
  IN IF lines[Len(lines)] = EmptyLine THEN Front(whole) ELSE whole

(* The primitive changes, from the lengths of the longest common           *)
(* subsequences of the beginnings of both texts.                           *)
Changes(old, new) ==
  LET Cells == (0..Len(old)) \X (0..Len(new))
      common[p \in Cells] ==
        LET i == p[1]
            j == p[2]
        IN IF i = 0 \/ j = 0 THEN 0
           ELSE IF old[i] = new[j] THEN common[<<i - 1, j - 1>>] + 1
           ELSE IF common[<<i - 1, j>>] >= common[<<i, j - 1>>]
                THEN common[<<i - 1, j>>]
           ELSE common[<<i, j - 1>>]
      upTo[p \in Cells] ==
        LET i == p[1]
            j == p[2]
        IN IF i = 0 /\ j = 0 THEN <<>>
           ELSE IF i > 0 /\ j > 0 /\ old[i] = new[j]
                THEN Append(upTo[<<i - 1, j - 1>>],
                            [type |-> "equal", line |-> old[i].line])
           ELSE IF j > 0 /\ (i = 0 \/ common[<<i, j - 1>>]
                                        >= common[<<i - 1, j>>])
                THEN Append(upTo[<<i, j - 1>>],
                            [type |-> "insert", line |-> new[j].line])
           ELSE Append(upTo[<<i - 1, j>>],
                       [type |-> "delete", line |-> old[i].line])
  IN upTo[<<Len(old), Len(new)>>]

(* A change goes to the last part, if that is of its type. *)
Merged(parts, change) ==
  IF parts # <<>> /\ Last(parts).type = change.type
  THEN [parts EXCEPT ![Len(parts)].lines = Append(@, change.line)]
  ELSE Append(parts, [type |-> change.type, lines |-> <<change.line>>])

(* diffLines: the changes, those of one type in a row as one part. *)
diffLines(old, new) ==
  LET changes == Changes(tokenize(old), tokenize(new))
      parts[n \in 0..Len(changes)] ==
        IF n = 0 THEN <<>> ELSE Merged(parts[n - 1], changes[n])
  IN parts[Len(changes)]

(* Which lines of a part are shown: an unchanged part in full between two  *)
(* changes, else only the lines next to the change.                        *)
Shown(parts, i) ==
  LET n == Len(parts[i].lines)
      after  == i > 1
      before == i < Len(parts)
  IN IF parts[i].type # "equal" \/ (after /\ before) THEN 1..n
     ELSE IF before THEN {k \in 1..n : k > n - Context}
     ELSE IF after THEN {k \in 1..n : k <= Context}
     ELSE {}

(* Mutant: lines that are skipped are not counted. *)
Counted_ShownOnly(parts, i) == Cardinality(Shown(parts, i))

(* How many lines the line numbers go on by. *)
Counted(parts, i) == Len(parts[i].lines)

(* The lines of a part in the diff, numbered in the new text, or in the    *)
(* old one if they are deleted, where the next line has the number at.old  *)
(* or at.new.                                                              *)
Entries(parts, i, at) ==
  LET part == parts[i]
      from == IF part.type = "delete" THEN at.old ELSE at.new
  IN {[type |-> part.type, number |-> from + k - 1, line |-> part.lines[k]] :
        k \in Shown(parts, i)}

(* The diff up to part i: its lines, the first line in the new text that   *)
(* is changed, and where the next part begins in both texts.               *)
Showing(parts, i, before) ==
  LET type == parts[i].type
      n == Counted(parts, i)
  IN [old   |-> before.old + (IF type = "insert" THEN 0 ELSE n),
      new   |-> before.new + (IF type = "delete" THEN 0 ELSE n),
      first |-> IF before.first = 0 /\ type # "equal" THEN before.new
                                                     ELSE before.first,
      lines |-> before.lines \cup Entries(parts, i, before)]

generateDiffString(old, new) ==
  LET parts == diffLines(old, new)
      upTo[i \in 0..Len(parts)] ==
        IF i = 0 THEN [old |-> 1, new |-> 1, first |-> 0, lines |-> {}]
        ELSE Showing(parts, i, upTo[i - 1])
  IN upTo[Len(parts)]
=============================================================================
