------------------------- MODULE GetBeginningOfToken -------------------------
(***************************************************************************)
(* Lexer::GetBeginningOfToken (src/lib/Lex/Lexer.cpp): given a location    *)
(* in a file buffer, find where the token it lands in begins.              *)
(* getBeginningOfFileToken backs up to the start of the line with          *)
(* findBeginningOfLine, constructs a second raw Lexer there, and lexes     *)
(* until a token ends after the location.                                  *)
(*                                                                         *)
(* The Lexer model is run twice over one buffer: first from BufferStart  *)
(* to eof, which gives the file's tokens that a location can land in;      *)
(* then as TheLexer, the raw Lexer the function constructs at the line     *)
(* start.                                                                  *)
(***************************************************************************)
EXTENDS Lexer

VARIABLES
  fileTokens, \* the tokens of lexing the whole file
  Loc,        \* offset of the location (LocInfo.second)
  phase,      \* "lexing" the file, "relex" in the do-while, "returned"
  lexed,      \* TheLexer.LexFromRawLexer was called in this pass of the loop
  result      \* the offset getBeginningOfFileToken returns, -1 before

lexVars == <<BufferPtr, IsAtStartOfLine, IsAtPhysicalStartOfLine,
             HasLeadingSpace, HasLeadingEmptyMacro, pc, tok, out>>
searchVars == <<fileTokens, Loc, phase, lexed, result>>
allVars == <<buf, lexVars, searchVars>>

NoToken == [kind |-> "unknown", start |-> 0, len |-> 0, flags |-> {}]

\* Lexer(fileloc, langOpts, BufStart, BufPtr, BufEnd): InitLexer with the
\* given BufferPtr, skipping a BOM only when BufPtr is BufferStart.
\* HasLeadingEmptyMacro is left as the storage held it.
InitLexerAt(start) ==
  /\ BufferPtr' = start + (IF start = 0 THEN BOMLength(buf) ELSE 0)
  /\ IsAtStartOfLine' = TRUE
  /\ IsAtPhysicalStartOfLine' = TRUE
  /\ HasLeadingSpace' = FALSE
  /\ HasLeadingEmptyMacro' \in BOOLEAN
  /\ pc' = "Idle"
  /\ tok' = NoToken
  /\ out' = <<>>

\* A file, one of Bufs, about to be lexed, and no call yet.
SearchInitWith(Bufs) ==
  /\ InitWith(Bufs)
  /\ fileTokens = <<>>
  /\ Loc = 0
  /\ phase = "lexing"
  /\ lexed = FALSE
  /\ result = -1

SearchInit == SearchInitWith(BoundedSeq(Alphabet, MaxLen))

\* A call of Lex while lexing the whole file, until it has handed out eof.
LexFile ==
  /\ phase = "lexing"
  /\ Lex
  /\ UNCHANGED searchVars

\* The call, with Loc anywhere in the file or at its end, up to the loop:
\* return Loc when findBeginningOfLine gives nullptr or Loc itself, else
\* construct TheLexer at the line start.
Search ==
  /\ phase = "lexing"
  /\ pc = "Idle"
  /\ Finished
  /\ fileTokens' = out
  /\ \E l \in 0 .. Len(buf) :
     LET LexStart == FindBeginningOfLine(l) IN
     /\ Loc' = l
     /\ IF LexStart = -1 \/ LexStart = l
        THEN /\ result' = l
             /\ phase' = "returned"
             /\ UNCHANGED lexVars
        ELSE /\ InitLexerAt(LexStart)
             /\ phase' = "relex"
             /\ UNCHANGED result
  /\ UNCHANGED <<buf, lexed>>

\* The loop body's TheLexer.LexFromRawLexer(TheTok), and the steps of that
\* call.
Relex ==
  /\ phase = "relex"
  /\ ~lexed
  /\ Lex
  /\ lexed' = TRUE
  /\ UNCHANGED <<fileTokens, Loc, phase, result>>

\* A step inside a call of Lex, of either lexing.
LexerStep ==
  /\ phase \in {"lexing", "relex"}
  /\ LexStep
  /\ UNCHANGED searchVars

\* The loop body returning the token's location once past Loc, without the
\* test that the token began at or before Loc.
InspectNoBreak ==
  /\ phase = "relex"
  /\ lexed
  /\ pc = "Idle"
  /\ IF BufferPtr > Loc
     THEN /\ result' = tok.start
          /\ phase' = "returned"
          /\ UNCHANGED lexed
     ELSE IF tok.kind = "eof"
     THEN /\ result' = Loc
          /\ phase' = "returned"
          /\ UNCHANGED lexed
     ELSE /\ lexed' = FALSE
          /\ UNCHANGED <<phase, result>>
  /\ UNCHANGED <<buf, lexVars, fileTokens, Loc>>

\* The rest of the loop body, once the call has returned: past Loc, the
\* token's location if the token began at or before Loc, else Loc; at eof
\* Loc; otherwise lex again.  The call's return value is not looked at.
Inspect ==
  /\ phase = "relex"
  /\ lexed
  /\ pc = "Idle"
  /\ IF BufferPtr > Loc
     THEN /\ result' = IF BufferPtr - tok.len <= Loc THEN tok.start ELSE Loc
          /\ phase' = "returned"
          /\ UNCHANGED lexed
     ELSE IF tok.kind = "eof"
     THEN /\ result' = Loc
          /\ phase' = "returned"
          /\ UNCHANGED lexed
     ELSE /\ lexed' = FALSE
          /\ UNCHANGED <<phase, result>>
  /\ UNCHANGED <<buf, lexVars, fileTokens, Loc>>

Returned ==
  /\ phase = "returned"
  /\ UNCHANGED allVars

SearchNext == LexFile \/ Search \/ Relex \/ LexerStep \/ Inspect \/ Returned

\* Both lexings and the function run without waiting on anything.
SearchSpec == SearchInit /\ [][SearchNext]_allVars /\ WF_allVars(SearchNext)

-----------------------------------------------------------------------------
\* Where the token of the whole-file lexing that holds Loc begins; Loc
\* itself when Loc lies in whitespace or at the end.
ContainingStart ==
  LET hits == {i \in 1 .. Len(fileTokens) : fileTokens[i].start <= Loc /\ Loc < fileTokens[i].start + fileTokens[i].len}
  IN  IF hits = {} THEN Loc ELSE fileTokens[CHOOSE i \in hits : TRUE].start

\* GetBeginningOfToken returns the beginning of the token the location
\* lands in, as lexing the whole file finds it: relexing from the line
\* start that findBeginningOfLine and isNewLineEscaped pick must reproduce
\* the file's tokens, and the loop must stop at the right one.
BeginningOfTokenFound == phase = "returned" => result = ContainingStart

\* GetBeginningOfToken returns: the file's lexing reaches eof, every call
\* of TheLexer returns, and the do-while reaches a token past Loc or eof.
SearchReturns == <>(phase = "returned")
==============================================================================
