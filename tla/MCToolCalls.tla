---------------------------- MODULE MCToolCalls ----------------------------
(* A small instance of ToolCalls for TLC. *)
EXTENDS ToolCalls, TLC

(* An empty line, short lines, one that fills a page, one that exceeds it. *)
Lengths == [empty |-> 0, x |-> 2, y |-> 2, full |-> 5, long |-> 6]

L(word) == [word |-> word, odd |-> FALSE]
Odd(word) == [word |-> word, odd |-> TRUE]

LFs(n) == [i \in 1..n |-> "LF"]

Plainly(lines) ==
  [bom |-> FALSE, stray |-> 0, lines |-> lines, ends |-> LFs(Len(lines) - 1)]

x == L("x")
y == L("y")
nothing == L("empty")

SomeFiles ==
  { Plainly(<<x, y, x, nothing>>),
    Plainly(<<y, x, x, y>>),
    Plainly(<<x, Odd("y"), L("full"), x, y>>),
    Plainly(<<nothing, L("long"), x>>),
    [bom |-> FALSE, stray |-> 0, lines |-> <<y, x, y, nothing>>,
     ends |-> <<"CRLF", "CRLF", "CRLF">>],
    [bom |-> TRUE, stray |-> 0, lines |-> <<x, y, nothing>>,
     ends |-> <<"LF", "CRLF">>] }

SomeOld == { <<x>>, <<x, y>>, <<y, x>>, <<L("full")>> }

SomeNew == { <<y, x>>, <<x, nothing>>, <<nothing>> }

SomeContents == { Plainly(<<x, y>>) }

SomeOutputs ==
  { <<nothing>>, <<x, y>>, <<x, y, nothing>>, <<L("long"), nothing>>,
    <<x, L("long")>>, <<nothing, nothing, nothing, nothing>>,
    <<y, L("full"), nothing>> }

Symmetry == Permutations(Callers)
=============================================================================
