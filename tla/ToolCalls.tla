----------------------------- MODULE ToolCalls -----------------------------
(***************************************************************************)
(* The read, edit, write and bash tools.  genkit runs the tool calls of    *)
(* one model message at the same time, so that several callers work on one *)
(* file: it is opened, and thereby emptied, in one step and written in     *)
(* another, and no lock is taken.  A caller of read goes on with the       *)
(* offset each page gives it.                                              *)
(*                                                                         *)
(* The bash tool starts a shell whose output, and whose children, are not  *)
(* modelled but for what the tool sees of them: the lines they print, the  *)
(* exit code, and whether somebody holds the pipe open.                    *)
(***************************************************************************)
EXTENDS Truncation, EditDiff, Integers

CONSTANTS
  Callers,
  Files,     \* the files to begin with
  OldTexts,  \* old_text and new_text of an edit
  NewTexts,
  Contents,  \* the files that are written by the write tool
  Limits,    \* the limits a caller of read may give, 0 for none
  Outputs,   \* what a command may print, as lines
  ExitCodes, \* the exit codes of a shell
  MaxCalls   \* bound on the calls

Line == [word : DOMAIN Bytes, odd : BOOLEAN]

Text == Seq(Line) \ {<<>>}

(* A file is a text, with an ending for each line but the last. *)
IsFile(f) ==
  /\ f \in [bom : BOOLEAN, stray : Nat, lines : Text,
            ends : Seq({"LF", "CRLF"})]
  /\ Len(f.ends) = Len(f.lines) - 1

ASSUME ToolsAssumption ==
  /\ MaxCalls \in Nat
  /\ Limits \subseteq Nat /\ ExitCodes \subseteq Nat
  /\ Empty \in DOMAIN Bytes /\ Bytes[Empty] = 0
  /\ \A f \in Files \cup Contents : IsFile(f)
  /\ OldTexts \cup NewTexts \cup Outputs \subseteq Text

VARIABLES
  file,    \* what is on disk
  pc,      \* where the caller is in its call
  call,    \* the call
  seen,    \* the file as the caller has read it
  met,     \* history: another caller has changed the file since the call began
  report,  \* what the caller has been told
  calls    \* how many calls there have been

client == <<pc, call, seen, met, report>>
vars == <<file, pc, call, seen, met, report, calls>>

NoCall   == [tool |-> "none"]
NoReport == [of |-> "none"]
-----------------------------------------------------------------------------

Init ==
  /\ file \in Files
  /\ pc = [c \in Callers |-> "idle"]
  /\ call = [c \in Callers |-> NoCall]
  /\ seen = [c \in Callers |-> EmptyFile]
  /\ met = [c \in Callers |-> FALSE]
  /\ report = [c \in Callers |-> NoReport]
  /\ calls = 0

Begins(c, args, next) ==
  /\ pc[c] = "idle"
  /\ calls < MaxCalls
  /\ calls' = calls + 1
  /\ pc' = [pc EXCEPT ![c] = next]
  /\ call' = [call EXCEPT ![c] = args]

(* The caller changes the file, under the calls of the others. *)
Touches(c, contents) ==
  /\ file' = contents
  /\ met' = [d \in Callers |-> met[d] \/ (d # c /\ pc[d] # "idle")]

Tells(c, answer) ==
  /\ pc' = [pc EXCEPT ![c] = "told"]
  /\ report' = [report EXCEPT ![c] = answer]

Returns(c) ==
  /\ pc' = [pc EXCEPT ![c] = "idle"]
  /\ call' = [call EXCEPT ![c] = NoCall]
  /\ seen' = [seen EXCEPT ![c] = EmptyFile]
  /\ report' = [report EXCEPT ![c] = NoReport]

Return(c) ==
  /\ pc[c] = "told"
  /\ Returns(c)
  /\ met' = [met EXCEPT ![c] = FALSE]
  /\ UNCHANGED <<file, calls>>
-----------------------------------------------------------------------------
(* edit and write *)

EditReads(c, old, new) ==
  /\ Begins(c, [tool |-> "edit", old |-> old, new |-> new], "edit")
  /\ seen' = [seen EXCEPT ![c] = file]
  /\ UNCHANGED <<file, met, report>>

(* There is no match, or more than one, or nothing would change; or the    *)
(* context is cancelled.                                                   *)
EditRefused(c) ==
  /\ pc[c] = "edit"
  /\ Returns(c)
  /\ met' = [met EXCEPT ![c] = FALSE]
  /\ UNCHANGED <<file, calls>>

(* The file is opened for writing, which empties it. *)
EditOpens(c) ==
  /\ pc[c] = "edit"
  /\ Accepts(seen[c].lines, call[c].old, call[c].new)
  /\ Touches(c, EmptyFile)
  /\ pc' = [pc EXCEPT ![c] = "fill"]
  /\ UNCHANGED <<call, seen, report, calls>>

WriteOpens(c, contents) ==
  /\ Begins(c, [tool |-> "write", contents |-> contents], "fill")
  /\ Touches(c, EmptyFile)
  /\ UNCHANGED <<seen, report>>

(* What is written covers what has been written by others in the meantime, *)
(* as far as it goes.  (As if the lines of both were equally long.)        *)
Covers(new, old) ==
  LET n == Len(new.lines)
  IN [new EXCEPT !.lines = @ \o SubSeq(old.lines, n + 1, Len(old.lines)),
                 !.ends  = @ \o SubSeq(old.ends, n, Len(old.ends))]

EditReport(c) ==
  LET lines == seen[c].lines
      old   == call[c].old
      base  == ContentForReplacement(lines, old)
      text  == NewContent(lines, old, call[c].new)
      diff  == generateDiffString(base, text)
  IN [of |-> "edit", base |-> base, text |-> text,
      diff |-> diff.lines, firstChangedLine |-> diff.first]

EditFills(c) ==
  /\ pc[c] = "fill" /\ call[c].tool = "edit"
  /\ Touches(c, Covers(Edited(seen[c], call[c].old, call[c].new), file))
  /\ Tells(c, EditReport(c))
  /\ UNCHANGED <<call, seen, calls>>

WriteFills(c) ==
  /\ pc[c] = "fill" /\ call[c].tool = "write"
  /\ Touches(c, Covers(call[c].contents, file))
  /\ Tells(c, [of |-> "write"])
  /\ UNCHANGED <<call, seen, calls>>

(* The write fails: the file stays empty. *)
FillFails(c) ==
  /\ pc[c] = "fill"
  /\ Returns(c)
  /\ met' = [met EXCEPT ![c] = FALSE]
  /\ UNCHANGED <<file, calls>>
-----------------------------------------------------------------------------
(* read, page after page *)

ReadBegins(c) ==
  /\ Begins(c, [tool |-> "read", offset |-> 0, pages |-> <<>>], "read")
  /\ seen' = [seen EXCEPT ![c] = file]
  /\ UNCHANGED <<file, met, report>>

ReadsPage(c, limit) ==
  LET offset == call[c].offset
      next   == NextOffset(file.lines, offset, limit)
      pages  == call[c].pages \o Page(file.lines, offset, limit)
  IN /\ pc[c] = "read"
     /\ ~BeyondEnd(file.lines, offset)
     /\ IF next # 0
        THEN /\ call' = [call EXCEPT ![c].offset = next, ![c].pages = pages]
             /\ UNCHANGED <<pc, report>>
        ELSE /\ Tells(c, [of |-> "read", pages |-> pages])
             /\ UNCHANGED call
     /\ UNCHANGED <<file, seen, met, calls>>

(* The file has become shorter than the offset. *)
ReadRefused(c) ==
  /\ pc[c] = "read"
  /\ BeyondEnd(file.lines, call[c].offset)
  /\ Returns(c)
  /\ met' = [met EXCEPT ![c] = FALSE]
  /\ UNCHANGED <<file, calls>>
-----------------------------------------------------------------------------
(* bash *)

NotEnded == -2

(* The shell is started with an output the tool has yet to see.  over: the *)
(* context ended before the shell was reaped.                              *)
BashBegins(c, output) ==
  /\ Begins(c, [tool |-> "bash", output |-> output, code |-> NotEnded,
                killed |-> FALSE, over |-> FALSE, reaped |-> FALSE,
                open |-> TRUE], "bash")
  /\ UNCHANGED <<file, seen, met, report>>

(* The context is over, cancelled or at its deadline, before the start.    *)
BashNotStarted(c) ==
  /\ Begins(c, [tool |-> "bash", output |-> <<EmptyLine>>, code |-> NotEnded,
                killed |-> FALSE, over |-> TRUE, reaped |-> FALSE,
                open |-> FALSE], "told")
  /\ report' = [report EXCEPT ![c] =
       [of |-> "bash", shown |-> <<EmptyLine>>, from |-> 1, partial |-> FALSE,
        code |-> -1, error |-> TRUE]]
  /\ UNCHANGED <<file, seen, met>>

Running(c) == pc[c] = "bash" /\ call[c].code = NotEnded /\ ~call[c].killed

ShellExits(c, code) ==
  /\ Running(c)
  /\ call' = [call EXCEPT ![c].code = code]
  /\ UNCHANGED <<file, pc, seen, met, report, calls>>

(* The timeout passes, or the call is cancelled: the shell is killed if it *)
(* still runs, its children are not.  Once the shell is reaped nobody      *)
(* notices: the kill finds the process done, and Run goes on waiting for   *)
(* the pipe.                                                               *)
ContextEnds(c) ==
  /\ pc[c] = "bash"
  /\ ~call[c].over /\ ~call[c].reaped
  /\ call' = [call EXCEPT ![c].over = TRUE, ![c].killed = Running(c)]
  /\ UNCHANGED <<file, pc, seen, met, report, calls>>

(* Run learns that the shell has ended; its children may hold the pipe. *)
ShellReaped(c) ==
  /\ pc[c] = "bash"
  /\ ~Running(c)
  /\ ~call[c].reaped
  /\ call' = [call EXCEPT ![c].reaped = TRUE]
  /\ UNCHANGED <<file, pc, seen, met, report, calls>>

(* Neither the shell nor a child of it holds the pipe any more. *)
PipeCloses(c) ==
  /\ pc[c] = "bash"
  /\ ~Running(c)
  /\ call[c].open
  /\ call' = [call EXCEPT ![c].open = FALSE]
  /\ UNCHANGED <<file, pc, seen, met, report, calls>>

(* A killed shell gives an ExitError of code -1.  One that has exited with *)
(* 0 but is not reaped yet when it is killed gives the error of the        *)
(* context instead.  If the context ends later the shell's 0 stands.       *)
Exec(c) ==
  IF call[c].killed THEN [code |-> -1, error |-> FALSE]
  ELSE IF call[c].code = 0 /\ call[c].over THEN [code |-> -1, error |-> TRUE]
  ELSE [code |-> call[c].code, error |-> FALSE]

BashReturns(c) ==
  LET tail == TruncateTail(call[c].output)
  IN /\ pc[c] = "bash"
     /\ call[c].reaped /\ ~call[c].open
     /\ Tells(c, [of |-> "bash", shown |-> tail.shown, partial |-> tail.partial,
                  from |-> Len(call[c].output) - Len(tail.shown) + 1,
                  code |-> Exec(c).code, error |-> Exec(c).error])
     /\ UNCHANGED <<file, call, seen, met, calls>>
-----------------------------------------------------------------------------

Next ==
  \E c \in Callers :
    \/ \E old \in OldTexts, new \in NewTexts : EditReads(c, old, new)
    \/ EditRefused(c) \/ EditOpens(c) \/ EditFills(c)
    \/ \E contents \in Contents : WriteOpens(c, contents)
    \/ WriteFills(c) \/ FillFails(c)
    \/ ReadBegins(c) \/ ReadRefused(c)
    \/ \E limit \in Limits : ReadsPage(c, limit)
    \/ \E output \in Outputs : BashBegins(c, output)
    \/ BashNotStarted(c)
    \/ \E code \in ExitCodes : ShellExits(c, code)
    \/ ContextEnds(c) \/ ShellReaped(c) \/ PipeCloses(c) \/ BashReturns(c)
    \/ Return(c)

Spec == Init /\ [][Next]_vars
-----------------------------------------------------------------------------
(* Properties *)

TypeOK ==
  /\ IsFile(file)
  /\ pc \in [Callers -> {"idle", "edit", "fill", "read", "bash", "told"}]
  /\ \A c \in Callers : pc[c] = "idle" <=> call[c] = NoCall
  /\ \A c \in Callers : pc[c] = "told" <=> report[c] # NoReport
  /\ met \in [Callers -> BOOLEAN]
  /\ calls \in 0..MaxCalls

(* The tokens of a text whose numbers are not in a set. *)
Without(tokens, numbers) ==
  LET rest[n \in 0..Len(tokens)] ==
        IF n = 0 THEN <<>>
        ELSE IF n \in numbers THEN rest[n - 1]
        ELSE Append(rest[n - 1], tokens[n])
  IN rest[Len(tokens)]

(* The diff of an edit is one: each line stands where its number says, and *)
(* the lines that it neither adds nor deletes are the same in both texts.  *)
(* Nothing is changed before FirstChangedLine.                             *)
DiffIsTrue(r) ==
  LET of(type) == {entry \in r.diff : entry.type = type}
      numbers(type) == {entry.number : entry \in of(type)}
  IN /\ \A entry \in of("insert") \cup of("equal") :
          entry.number \in 1..Len(r.text) /\ entry.line = r.text[entry.number]
     /\ \A entry \in of("delete") :
          entry.number \in 1..Len(r.base) /\ entry.line = r.base[entry.number]
     /\ Without(tokenize(r.base), numbers("delete"))
          = Without(tokenize(r.text), numbers("insert"))
     /\ r.firstChangedLine \in numbers("insert") \cup numbers("delete")
     /\ \A i \in 1..(r.firstChangedLine - 1) : r.base[i] = r.text[i]

(* A file all of whose lines end alike and that has no byte order mark, in *)
(* which the old text is found as it was given.                            *)
Plain(before, old) ==
  /\ ~before.bom
  /\ \A i, j \in 1..Len(before.ends) : before.ends[i] = before.ends[j]
  /\ Places(before.lines, old) # {}

(* What the edit tool tells is true: its diff is one; and if nobody else   *)
(* wrote to the file during the call, the file is what the model was shown *)
(* before with the one place of the old text changed into the new one, and *)
(* nothing else.                                                           *)
EditTellsTruth ==
  \A c \in Callers :
    report[c].of = "edit" =>
      LET before == seen[c]
          old    == call[c].old
          new    == call[c].new
      IN /\ DiffIsTrue(report[c])
         /\ ~met[c] /\ Plain(before, old) =>
              /\ \E i \in Places(before.lines, old) :
                   /\ file.lines =
                        SubSeq(before.lines, 1, i - 1) \o new
                          \o SubSeq(before.lines, i + Len(old),
                                    Len(before.lines))
                   /\ \A j \in Places(before.lines, old) :
                        j - i < Len(old) /\ i - j < Len(old)
              /\ ToSet(file.ends) \subseteq
                   IF before.ends = <<>> THEN {"LF"} ELSE ToSet(before.ends)
              /\ file.stray = before.stray

(* A caller that goes on from page to page of a file that does not change  *)
(* sees every line once, in order and under its number, up to the end of   *)
(* the file or to a line that is longer than a page.                       *)
PagesCoverFile ==
  \A c \in Callers :
    report[c].of = "read" /\ ~met[c] =>
      LET lines == seen[c].lines
          pages == report[c].pages
      IN /\ Len(pages) <= Len(lines)
         /\ pages = [i \in 1..Len(pages) |-> [number |-> i, line |-> lines[i]]]
         /\ \/ Len(pages) = Len(lines)
            \/ Size(lines[Len(pages) + 1]) > MaxBytes

(* What the bash tool shows is the end of the output, under its line       *)
(* number, within the limits and no shorter than they ask for.  An exit    *)
(* code that is not negative is the shell's own, and comes without an      *)
(* error; a shell that was killed is never taken for one that was done,    *)
(* and one that was reaped before the context ended always is, however     *)
(* long its children hold the pipe.                                        *)
BashTellsTruth ==
  \A c \in Callers :
    report[c].of = "bash" =>
      LET output == call[c].output
          r      == report[c]
          n      == Len(r.shown)
      IN /\ \A i \in 1..n : r.shown[i] = output[r.from + i - 1]
         /\ r.from + n - 1 = Len(output)
         /\ n <= MaxLines
         /\ r.partial => n = 1 /\ Size(r.shown[1]) > MaxBytes
         /\ ~r.partial => Fits(r.shown)
         /\ ~r.partial /\ n < Len(output) =>
              ~Fits(LastLines(output, n + 1))
         /\ r.code >= 0 => ~r.error /\ r.code = call[c].code
         /\ ~call[c].over => ~r.error /\ r.code = call[c].code
=============================================================================
