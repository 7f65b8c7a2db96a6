----------------------------- MODULE ShellInput -----------------------------
(***************************************************************************)
(* How the shell (src/client/EtDBShell.h) comes by the statements it runs: *)
(* at the prompt, where readCommand() gathers lines and run() cuts them at *)
(* semicolons, or from a script, which runScript() scans for quotes,       *)
(* comments and semicolons; either may run files with source, which may    *)
(* run files in turn.                                                      *)
(*                                                                         *)
(* Text is a sequence of tokens: words, blanks and the marks the scanner   *)
(* looks for.  The standard input is written piece by piece by somebody    *)
(* whose statements are kept in the history variables open and written.    *)
(***************************************************************************)
EXTENDS LineReader

CONSTANTS
  Modes,     (* subset of {"tty", "file"}: what the standard input is      *)
  Words,     (* the words of statements                                    *)
  Literals,  (* what stands between quotes                                 *)
  Marks,     (* the marks that begin a comment of a line, of "--" and "#"  *)
  Junk,      (* what stands in comments                                    *)
  Tails,     (* what may follow a file name on its source line             *)
  ContLines, (* the lines typed at the continuation prompt                 *)
  Files,     (* Files[f]: the lines of file f                              *)
  MaxOpen,   (* how many scripts the system lets a process have open       *)
  MaxKeys,   (* bound on the keys pressed                                  *)
  MaxPieces  (* bound on the pieces of a script                            *)

ASSUME InputAssumption ==
  /\ Modes \subseteq {"tty", "file"} /\ MaxOpen \in Nat
  /\ Char \cup Words \cup Literals \cup Marks \cup Junk \subseteq STRING
  /\ Tails \cup ContLines \subseteq Seq(STRING)
  /\ DOMAIN Files \subseteq STRING
  /\ \A f \in DOMAIN Files : Files[f] \in Seq(Seq(STRING))
  (* No word, literal or name is what the scanner or the shell looks for.  *)
  /\ Blank \notin {"source", ";", "'", "\"", "/*", "*/", "--", "#"}
  /\ Words \cap {Blank, "'", "\"", "/*", "--", "#"} = {}
  /\ Literals \cap {Blank, "'", "\""} = {}
  /\ Marks \subseteq {"--", "#"} /\ "*/" \notin Junk
  /\ DOMAIN Files \cap {Blank, ";", "--", "#"} = {}
  (* A name is followed by a semicolon or by a comment, or by nothing.     *)
  /\ \A t \in Tails \ {<<>>} :
       \/ t[1] = ";"
       \/ /\ Len(t) > 1 /\ t[1] = Blank /\ t[2] \in {"--", "#"}
          /\ t[2] = "#" => \A i \in 3 .. Len(t) : t[i] # "--"

VARIABLES
  mode,      (* _interactive                                               *)
  pc,        (* "edit", "cont": waiting for a line; "run"; "done"          *)
  fullCmd,   (* readCommand(): the lines so far                            *)
  queue,     (* run(): the statements of the command not yet executed      *)
  running,   (* _running                                                   *)
  frames,    (* the calls of runScript(), the innermost last               *)
  result,    (* what the outermost one returned                            *)
  pend, ctx, (* the line being written; in code or in what comment it is   *)
  open, written, (* history: the statement being written, those written    *)
  ran, bad,  (* history: those executed; whether anything has failed       *)
  typed

prompt == <<fullCmd, queue, running>>
author == <<pend, ctx, open, written, typed>>
vars   == <<reader, prompt, mode, pc, frames, result, author, ran, bad>>

Trim(l)     == LET s == {i \in 1 .. Len(l) : l[i] # Blank}
               IN  IF s = {} THEN <<>> ELSE SubSeq(l, Min(s), Max(s))
NoBlanks(l) == LET kept[i \in 0 .. Len(l)] ==
                     IF i = 0 THEN <<>>
                     ELSE IF l[i] = Blank THEN kept[i - 1]
                     ELSE Append(kept[i - 1], l[i])
               IN  kept[Len(l)]
Pending(s)  == IF s = <<>> THEN <<>> ELSE <<s>>
IsSource(l) == /\ l # <<>> /\ l[1] = "source"
               /\ Len(l) > 1 => l[2] = Blank

(* A call of runScript(): the lines to come, the line and the position in  *)
(* it (0: none), the quote and the comment it is in, the text of this line *)
(* and the statement so far, what is to be executed before it goes on, and *)
(* the failures counted.                                                   *)
Frame(lines) == [todo |-> lines, raw |-> <<>>, at |-> 0, quote |-> "",
                 blk |-> FALSE, buf |-> <<>>, stmt |-> <<>>, exec |-> <<>>,
                 errs |-> 0]

Init ==
  /\ ReaderInit
  /\ mode \in Modes
  /\ pc = IF mode = "tty" THEN "edit" ELSE "run"
  /\ fullCmd = <<>> /\ queue = <<>> /\ running = TRUE
  /\ frames = IF mode = "tty" THEN <<>> ELSE <<Frame(<<>>)>>
  /\ result = 0
  /\ pend = <<>> /\ ctx = "code" /\ open = <<>> /\ written = <<>> /\ typed = 0
  /\ ran = <<>> /\ bad = FALSE

-----------------------------------------------------------------------------
(* What a text at the prompt means: a semicolon ends a statement, even     *)
(* within quotes, which run() does not look at.                            *)

Closed(done, o) == IF o = <<>> THEN done ELSE Append(done, o)
Meant(m, c) == CASE c = ";"   -> [done |-> Closed(m.done, m.rest), rest |-> <<>>]
                 [] c = Blank -> m
                 [] OTHER     -> [m EXCEPT !.rest = Append(@, c)]

(* What a line adds to the statements and the part of one before it.       *)
NoText  == [done |-> <<>>, rest |-> <<>>]
SoFar   == [done |-> written, rest |-> open]
After(from, l) == LET m[i \in 0 .. Len(l)] ==
                        IF i = 0 THEN from ELSE Meant(m[i - 1], l[i])
                  IN  m[Len(l)]

Writes(m)   == written' = m.done /\ open' = m.rest
Finishes(m) == written' = Closed(m.done, m.rest) /\ open' = <<>>

-----------------------------------------------------------------------------
(* The prompt *)

Type(bound) == typed < bound /\ typed' = typed + 1

PressKey ==
  /\ pc = "edit" /\ Type(MaxKeys) /\ Key
  /\ UNCHANGED <<prompt, mode, pc, frames, result, pend, ctx, open, written, ran,
                 bad>>

(* run() cuts the command at the semicolons.                               *)
Split(l) ==
  LET cut[i \in 0 .. Len(l)] ==
        IF i = 0 THEN [start |-> 1, stmts |-> <<>>]
        ELSE IF l[i] # ";" THEN cut[i - 1]
        ELSE [start |-> i + 1,
              stmts |-> cut[i - 1].stmts \o
                        Pending(Trim(SubSeq(l, cut[i - 1].start, i - 1)))]
      all == cut[Len(l)]
  IN  all.stmts \o Pending(Trim(SubSeq(l, all.start, Len(l))))

Command(l) == /\ queue' = Split(l) /\ pc' = "run" /\ fullCmd' = <<>>
              /\ ran' = <<>>

Complete(l) == l[1] = "\\q" \/ Last(l) = ";" \/ IsSource(Trim(l))

(* readLine() returns to readCommand(), which may want another line.       *)
EnterLine ==
  /\ pc = "edit" /\ Type(MaxKeys)
  /\ EnterKey
  /\ LET l == TrimRight(line)
     IN  \/ /\ l = <<>>
            /\ UNCHANGED <<pc, fullCmd, queue, ran, written, open>>
         \/ l # <<>> /\ Complete(l) /\ Command(l) /\ Finishes(After(SoFar, l))
         \/ /\ l # <<>> /\ ~Complete(l)
            /\ pc' = "cont" /\ fullCmd' = l
            /\ Writes(After(SoFar, l))
            /\ UNCHANGED <<queue, ran>>
  /\ UNCHANGED <<mode, running, frames, result, pend, ctx, bad>>

(* A continuation line: an empty one, or the end of the input, ends the    *)
(* command, a meta-command takes its place.                                *)
Joined(l) == fullCmd \o <<Blank>> \o l
AddHistory(l) == /\ history' = AddedTo(history, l)
                 /\ UNCHANGED <<line, cursor, histIdx, savedLine>>

Continue(l) ==
  /\ pc = "cont" /\ Type(MaxKeys)
  /\ \/ l = <<>> /\ Command(fullCmd) /\ AddHistory(fullCmd) /\ Finishes(SoFar)
     \/ /\ l # <<>> /\ l[1] = "\\q"
        /\ Command(l) /\ UNCHANGED reader /\ Finishes(After(NoText, l))
     \/ /\ l # <<>> /\ l[1] # "\\q" /\ Last(l) = ";"
        /\ Command(Joined(l)) /\ AddHistory(Joined(l))
        /\ Finishes(After(SoFar, l))
     \/ /\ l # <<>> /\ l[1] # "\\q" /\ Last(l) # ";"
        /\ fullCmd' = Joined(l) /\ Writes(After(SoFar, l))
        /\ UNCHANGED <<reader, queue, pc, ran>>
  /\ UNCHANGED <<mode, running, frames, result, pend, ctx, bad>>

NextPrompt ==
  /\ pc = "run" /\ mode = "tty" /\ queue = <<>> /\ frames = <<>>
  /\ pc' = IF running THEN "edit" ELSE "done"
  /\ written' = <<>> /\ ran' = <<>>
  /\ UNCHANGED <<reader, prompt, mode, frames, result, pend, ctx, open, typed, bad>>

-----------------------------------------------------------------------------
(* runScript() *)

depth == Len(frames)
Top   == frames[depth]
Idle  == depth > 0 /\ Top.exec = <<>> /\ Top.at = 0
Scans == depth > 0 /\ Top.exec = <<>> /\ Top.at \in 1 .. Len(Top.raw)

InScript == UNCHANGED <<reader, prompt, mode, pc, result, author, ran, bad>>
Becomes(f) == frames' = [frames EXCEPT ![depth] = f] /\ InScript

(* flushStmt() *)
WithText(f) == LET b == Trim(f.buf)
               IN  IF b = <<>> THEN f.stmt
                   ELSE IF f.stmt = <<>> THEN b ELSE f.stmt \o <<Blank>> \o b

(* The argument of a source line ends at a semicolon or a comment.         *)
ArgOf(l) ==
  LET a    == Tail(l)
      semi == Min({Len(a) + 1} \cup {i \in 1 .. Len(a) : a[i] = ";"})
      b    == SubSeq(a, 1, semi - 1)
      Starts(m) == {i \in 2 .. Len(b) : b[i] = m /\ b[i - 1] = Blank}
      cut  == IF Starts("--") # {} THEN Min(Starts("--")) - 1
              ELSE IF Starts("#") # {} THEN Min(Starts("#")) - 1
              ELSE Len(b)
  IN  Trim(SubSeq(b, 1, cut))

(* getline(), and handleSourceLine(), which first flushes what is pending. *)
NextLine ==
  /\ Idle /\ Top.todo # <<>>
  /\ LET raw == Head(Top.todo)
         f   == [Top EXCEPT !.todo = Tail(@)]
     IN  IF ~f.blk /\ IsSource(Trim(raw))
         THEN Becomes([f EXCEPT
                !.exec = Pending(f.stmt) \o
                         <<<<"source", Blank>> \o ArgOf(Trim(raw))>>,
                !.stmt = <<>>])
         ELSE Becomes([f EXCEPT !.raw = raw, !.at = 1, !.quote = "", !.buf = <<>>])

(* The scan of a line, a token a step. *)
Scan(c) == Scans /\ Top.raw[Top.at] = c
Forward(f) == [f EXCEPT !.at = @ + 1]
Copies(f, c) == [Forward(f) EXCEPT !.buf = Append(@, c)]

InQuote == /\ Scans /\ Top.quote # ""
           /\ LET c == Top.raw[Top.at]
              IN  Becomes([Copies(Top, c) EXCEPT
                            !.quote = IF c = @ THEN "" ELSE @])

InBlock == /\ Scans /\ Top.quote = "" /\ Top.blk
           /\ Becomes([Forward(Top) EXCEPT !.blk = Top.raw[Top.at] # "*/"])

DoubleOnly == {"\""}                                             \* mutant
Quotes     == {"'", "\""}
InCode == Scans /\ Top.quote = "" /\ ~Top.blk

OpenQuote == /\ InCode /\ Top.raw[Top.at] \in Quotes
             /\ Becomes([Copies(Top, Top.raw[Top.at]) EXCEPT
                           !.quote = Top.raw[Top.at]])

OpenBlock == InCode /\ Scan("/*") /\ Becomes([Forward(Top) EXCEPT !.blk = TRUE])

LineComment == /\ InCode /\ (Scan("--") \/ Scan("#"))
               /\ Becomes([Top EXCEPT !.at = Len(Top.raw) + 1])

Terminator == /\ InCode /\ Scan(";")
              /\ Becomes([Forward(Top) EXCEPT !.exec = Pending(WithText(Top)),
                            !.stmt = <<>>, !.buf = <<>>])

Plain == /\ InCode
         /\ Top.raw[Top.at] \notin Quotes \cup {"/*", "--", "#", ";"}
         /\ Becomes(Copies(Top, Top.raw[Top.at]))

SamePlace == Top.at                                              \* mutant
NoLine    == 0
(* What remains of the line goes on with the next one.                     *)
EndLine == /\ depth > 0 /\ Top.exec = <<>> /\ Top.at = Len(Top.raw) + 1
           /\ Top.at > 0
           /\ Becomes([Top EXCEPT !.stmt = WithText(Top), !.buf = <<>>,
                         !.raw = <<>>, !.at = NoLine])

Ended == Idle /\ Top.todo = <<>> /\ (depth > 1 \/ mode = "tty" \/ ctx = "eof")

LastStatement == /\ Ended /\ Top.stmt # <<>>
                 /\ Becomes([Top EXCEPT !.exec = <<Top.stmt>>, !.stmt = <<>>])

(* sourceFile() fails when a statement of its file has failed.             *)
Ignored(errs) == 0                                               \* mutant
Failure(errs) == IF errs > 0 THEN 1 ELSE 0
EndFile ==
  /\ Ended /\ Top.stmt = <<>>
  /\ frames' = IF depth = 1 THEN <<>>
               ELSE [SubSeq(frames, 1, depth - 1) EXCEPT
                       ![depth - 1].errs = @ + Failure(Top.errs)]
  /\ IF mode = "file" /\ depth = 1
     THEN pc' = "done" /\ result' = Top.errs
     ELSE UNCHANGED <<pc, result>>
  /\ UNCHANGED <<reader, prompt, mode, author, ran, bad>>

Reading == NextLine \/ EndLine \/ LastStatement \/ EndFile
Scanning == \/ InQuote \/ InBlock \/ OpenQuote \/ OpenBlock \/ LineComment
            \/ Terminator \/ Plain

-----------------------------------------------------------------------------
(* A statement is executed, of the command or of the innermost script: by  *)
(* executeSQL(), which may fail, or as a command of the client.            *)

Due == IF depth = 0 THEN queue ELSE Top.exec

Takes(failed) ==
  /\ IF depth = 0
     THEN queue' = Tail(queue) /\ UNCHANGED frames
     ELSE /\ frames' = [frames EXCEPT ![depth].exec = Tail(@),
                                      ![depth].errs = @ + IF failed THEN 1 ELSE 0]
          /\ UNCHANGED queue
  /\ bad' = (bad \/ failed)

Logs == ran' = IF depth = (IF mode = "tty" THEN 0 ELSE 1)
               THEN Append(ran, NoBlanks(Head(Due))) ELSE ran

Executes == /\ pc = "run" /\ Due # <<>> /\ Logs
            /\ UNCHANGED <<reader, fullCmd, mode, pc, result, author>>

RunSql ==
  /\ Executes /\ Head(Due)[1] # "\\q" /\ ~IsSource(Head(Due))
  /\ \E failed \in BOOLEAN : Takes(failed)
  /\ UNCHANGED running

(* \q ends the shell after the rest of the command, and nothing in scripts.*)
Quit ==
  /\ Executes /\ Head(Due)[1] = "\\q"
  /\ Takes(FALSE)
  /\ running' = (running /\ depth > 0)

(* The file a source command names; the system may refuse to open it.      *)
FileOf(s) == Trim(Tail(s))
CanOpen(s) == /\ Len(FileOf(s)) = 1 /\ FileOf(s)[1] \in DOMAIN Files
              /\ depth < MaxOpen

SourceFails ==
  /\ Executes /\ IsSource(Head(Due)) /\ ~CanOpen(Head(Due))
  /\ Takes(TRUE)
  /\ UNCHANGED running

Source ==
  /\ Executes /\ IsSource(Head(Due)) /\ CanOpen(Head(Due))
  /\ LET f == Frame(Files[FileOf(Head(Due))[1]])
     IN  IF depth = 0
         THEN queue' = Tail(queue) /\ frames' = <<f>>
         ELSE /\ frames' = Append([frames EXCEPT ![depth].exec = Tail(@)], f)
              /\ UNCHANGED queue
  /\ UNCHANGED <<running, bad>>

Run == RunSql \/ Quit \/ Source \/ SourceFails

-----------------------------------------------------------------------------
(* Somebody writes a script, while the shell waits for its next line. *)

Writing == /\ mode = "file" /\ depth = 1 /\ Idle /\ Top.todo = <<>>
           /\ ctx # "eof" /\ Type(MaxPieces)
           /\ UNCHANGED <<reader, prompt, mode, pc, result, ran, bad>>
Adds(l, c) == pend' = pend \o l /\ ctx' = c /\ UNCHANGED frames
Silently == UNCHANGED <<open, written>>

(* A word named source only begins a line where it is a command.           *)
WriteWord(w) ==
  /\ Writing /\ ctx = "code"
  /\ w = "source" => NoBlanks(pend) # <<>>
  /\ Adds(<<w>>, "code") /\ Writes(Meant(SoFar, w))
WriteLiteral(q, x) ==
  /\ Writing /\ ctx = "code"
  /\ Adds(<<q, x, q>>, "code")
  /\ open' = open \o <<q, x, q>> /\ UNCHANGED written
WriteComment(m) ==
  /\ Writing /\ ctx = "code" /\ m # "*/"
  /\ Adds(<<m>>, IF m = "/*" THEN "block" ELSE "line") /\ Silently
WriteJunk(x) ==
  /\ Writing /\ ctx \in {"line", "block"}
  /\ Adds(<<x>>, ctx) /\ Silently
CloseComment == Writing /\ ctx = "block" /\ Adds(<<"*/">>, "code") /\ Silently

WriteSource(f, tail) ==
  /\ Writing /\ ctx = "code" /\ pend = <<>> /\ open = <<>>
  /\ Adds(<<"source", Blank, f>> \o tail, "end")
  /\ written' = Append(written, <<"source", f>>) /\ UNCHANGED open

NewLine ==
  /\ Writing
  /\ frames' = [frames EXCEPT ![1].todo = <<pend>>]
  /\ pend' = <<>> /\ ctx' = IF ctx = "block" THEN ctx ELSE "code"
  /\ Silently

EndOfInput ==
  /\ Writing
  /\ frames' = [frames EXCEPT ![1].todo = Pending(pend)]
  /\ pend' = <<>> /\ ctx' = "eof" /\ Finishes(SoFar)

Write ==
  \/ \E w \in Words : WriteWord(w)
  \/ \E q \in {"'", "\""}, x \in Literals : WriteLiteral(q, x)
  \/ \E m \in Marks \cup {"/*"} : WriteComment(m)
  \/ \E x \in Junk : WriteJunk(x)
  \/ \E f \in DOMAIN Files, tail \in Tails : WriteSource(f, tail)
  \/ CloseComment \/ NewLine \/ EndOfInput

Prompt == PressKey \/ EnterLine \/ (\E l \in ContLines : Continue(l)) \/ NextPrompt

Next == Prompt \/ Reading \/ Scanning \/ Run \/ Write

Spec == Init /\ [][Next]_vars

(* The shell goes on with what it has; nobody has to type.                 *)
FairSpec == Spec /\ WF_vars(Reading \/ Scanning \/ Run)

-----------------------------------------------------------------------------
(* The statements executed are those written, in their order and complete, *)
(* blanks apart.  In a script no semicolon or comment mark within quotes   *)
(* cuts one and no comment and no line break loses a part of one; at the   *)
(* prompt every semicolon ends one and a comment is part of one, as run()  *)
(* has it.  None is left behind when the shell waits for more.             *)
AllRun == \/ depth = 0 /\ queue = <<>> /\ pc # "cont"
          \/ mode = "file" /\ depth = 1 /\ Idle /\ Top.todo = <<>>
             /\ pend = <<>> /\ ctx # "eof"

RunAsWritten ==
  /\ IsPrefix(ran, written)
  /\ AllRun => ran = written

(* A script returns the number of failures, and each level of source hands *)
(* its failure on: it is positive when anything failed, at whatever depth. *)
FailureReported == pc = "done" /\ mode = "file" => (result > 0) = bad

(* source comes back, although a file may run itself: each level holds it  *)
(* open, until the system opens it no more.                                *)
SourceReturns == depth > 1 ~> depth <= 1
=============================================================================
