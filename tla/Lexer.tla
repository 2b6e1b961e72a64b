------------------------------- MODULE Lexer -------------------------------
(***************************************************************************)
(* The raw lexer of src/lib/Lex/Lexer.cpp, one Lexer object scanning one   *)
(* NUL-terminated buffer, driven by a client that calls Lex until it gets  *)
(* an eof token (the loop of getBeginningOfFileToken).                     *)
(*                                                                         *)
(* Bytes are abstracted to a small alphabet of names: "a", "e", "x" are    *)
(* letters, "0", "1" digits, "sp" "tab" "ff" "vt" horizontal whitespace,   *)
(* "nl" "cr" newlines, "bs" a backslash, "sq" and "dq" the quotes, "nul"  *)
(* an embedded NUL byte, "xC2" "xEF" UTF-8 lead bytes, "xA0" "xBB" "xBF"  *)
(* continuation bytes, and punctuators stand for themselves.  Positions    *)
(* are offsets from BufferStart: 0 .. End, and Byte(End) is the sentinel. *)
(*                                                                         *)
(* One Lex call is a sequence of steps, one per pass through a label of    *)
(* LexTokenInternal (LexNextToken, SkipIgnoreUnits, the spin inside        *)
(* SkipLineComment); the scanning helpers, whose loops always end, are     *)
(* operators evaluated inside the step that calls them.                    *)
(***************************************************************************)
EXTENDS Integers, Sequences, SequencesExt

CONSTANTS
  Alphabet,   \* the bytes a buffer may contain
  MaxLen,     \* longest buffer checked
  MaxTokens   \* bound on the tokens one client collects

ASSUME MaxLen \in Nat /\ MaxTokens \in Nat

VARIABLES
  buf,                      \* the bytes in [BufferStart, BufferEnd)
  BufferPtr,                \* next unconsumed byte
  IsAtStartOfLine,
  IsAtPhysicalStartOfLine,
  HasLeadingSpace,
  HasLeadingEmptyMacro,
  pc,                       \* "Idle", a label of LexTokenInternal, or "Done"
  tok,                      \* the Token Result being filled
  out                       \* tokens for which Lex returned true, in order

vars == <<buf, BufferPtr, IsAtStartOfLine, IsAtPhysicalStartOfLine,
          HasLeadingSpace, HasLeadingEmptyMacro, pc, tok, out>>

End == Len(buf)

Byte(p) == IF p < End THEN buf[p + 1] ELSE "nul"

(***************************************************************************)
(* Character classes (latino/Basic/CharInfo.h).                            *)
(***************************************************************************)
Letters == {"a", "e", "x"}
Digits == {"0", "1"}
HorizontalWS == {"sp", "tab", "ff", "vt"}
VerticalWS == {"nl", "cr"}
Whitespace == HorizontalWS \cup VerticalWS
IdentifierBody == Letters \cup Digits \cup {"_"}
PPNumberBody == IdentifierBody \cup {"."}
NonASCII == {"xC2", "xEF", "xA0", "xBB", "xBF"}
UTF8Continuation == {"xA0", "xBB", "xBF"}
IsASCII(c) == c \notin NonASCII

Flags == {"StartOfLine", "LeadingSpace", "NeedsCleaning", "LeadingEmptyMacro"}

OneCharKind ==
  [c \in {"?", "[", "]", "(", ")", "{", "}", ".", "*", "+", "-", "!", "/",
          "%", "<", ">", ":", ";", "=", ","} |->
     CASE c = "?" -> "question"  [] c = "[" -> "l_square" [] c = "]" -> "r_square"
       [] c = "(" -> "l_paren"   [] c = ")" -> "r_paren"  [] c = "{" -> "l_brace"
       [] c = "}" -> "r_brace"   [] c = "." -> "period"   [] c = "*" -> "star"
       [] c = "+" -> "plus"      [] c = "-" -> "minus"    [] c = "!" -> "exclaim"
       [] c = "/" -> "slash"     [] c = "%" -> "percent"  [] c = "<" -> "less"
       [] c = ">" -> "greater"   [] c = ":" -> "colon"    [] c = ";" -> "semi"
       [] c = "=" -> "equal"     [] c = "," -> "comma"]

\* The two-character punctuators, found by one character of look-ahead.
TwoCharKind ==
  [p \in {<<"&", "&">>, <<"*", "=">>, <<"+", "+">>, <<"+", "=">>, <<"-", "-">>,
          <<"-", "=">>, <<"~", "=">>, <<"!", "=">>, <<"/", "=">>, <<"%", "=">>,
          <<"<", "=">>, <<">", "=">>, <<"|", "|">>, <<"=", "=">>, <<".", ".">>} |->
     CASE p = <<"&", "&">> -> "ampamp"       [] p = <<"*", "=">> -> "starequal"
       [] p = <<"+", "+">> -> "plusplus"     [] p = <<"+", "=">> -> "plusequal"
       [] p = <<"-", "-">> -> "minusminus"   [] p = <<"-", "=">> -> "minusequal"
       [] p = <<"~", "=">> -> "tildeequal"   [] p = <<"!", "=">> -> "exclaimequal"
       [] p = <<"/", "=">> -> "slashequal"   [] p = <<"%", "=">> -> "percentequal"
       [] p = <<"<", "=">> -> "lessequal"    [] p = <<">", "=">> -> "greaterequal"
       [] p = <<"|", "|">> -> "pipepipe"     [] p = <<"=", "=">> -> "equalequal"
       [] p = <<".", ".">> -> "periodperiod"]

\* '&', '~' and '|' not followed by their partner leave Kind unassigned.
UnassignedKindChars == {"&", "~", "|"}
PunctChars == DOMAIN OneCharKind \cup UnassignedKindChars

TokenKinds ==
  {"eof", "unknown", "raw_identifier", "numeric_constant", "char_constant",
   "string_literal", "ellipsis"}
    \cup {OneCharKind[c] : c \in DOMAIN OneCharKind}
    \cup {TwoCharKind[p] : p \in DOMAIN TwoCharKind}

(***************************************************************************)
(* Escaped newlines.                                                       *)
(***************************************************************************)
\* getEscapedNewLineSize: the size of the whitespace-then-newline run at p.
EscapedNewLineSize(p) ==
  LET Loop[size \in 0 .. MaxLen + 1] ==
        IF Byte(p + size) \notin Whitespace THEN size
        ELSE LET s == size + 1 IN
             IF Byte(p + s - 1) # "nl" /\ Byte(p + s) # "cr" THEN Loop[s]
             ELSE IF Byte(p + s) \in VerticalWS /\ Byte(p + s - 1) # Byte(p + s)
                  THEN s + 1
                  ELSE s
  IN Loop[0]

\* A backslash at p starts an escaped newline of the given total size.
SpliceAt(p) ==
  /\ Byte(p) = "bs"
  /\ Byte(p + 1) \in Whitespace
  /\ EscapedNewLineSize(p + 1) # 0

\* getCharAndSize / getCharAndSizeSlow: the character at p after skipping
\* any stack of escaped newlines, the bytes it spans, and whether a
\* splice was skipped (which sets NeedsCleaning on the token).
RECURSIVE CharAndSize(_)
CharAndSize(p) ==
  IF SpliceAt(p)
  THEN LET n == EscapedNewLineSize(p + 1)
           r == CharAndSize(p + 1 + n)
       IN  [c |-> r.c, size |-> 1 + n + r.size, clean |-> TRUE]
  ELSE [c |-> Byte(p), size |-> 1, clean |-> FALSE]

\* getCharAndSizeNoWarn answering from the fast path alone.
CharAndSizeNoWarnNoSplice(p) == [c |-> Byte(p), size |-> 1]

\* getCharAndSizeSlowNoWarn: the same scan without touching a token.
RECURSIVE CharAndSizeNoWarn(_)
CharAndSizeNoWarn(p) ==
  IF SpliceAt(p)
  THEN LET n == EscapedNewLineSize(p + 1)
           r == CharAndSizeNoWarn(p + 1 + n)
       IN  [c |-> r.c, size |-> 1 + n + r.size]
  ELSE [c |-> Byte(p), size |-> 1]

(***************************************************************************)
(* Scanners.  Each returns where the token ends and whether a splice was   *)
(* consumed on the way.                                                    *)
(***************************************************************************)
\* isHexaLiteral: the constant at start begins with 0x or 0X.
IsHexaLiteral(start) ==
  LET c1 == CharAndSizeNoWarn(start)
  IN  c1.c = "0" /\ CharAndSizeNoWarn(start + c1.size).c \in {"x", "X"}

\* LexNumericConstant, from cur (just after the first character).
RECURSIVE LexNumericConstant(_, _)
LexNumericConstant(cur, start) ==
  LET Body[q \in 0 .. End + 1, prev \in PPNumberBody \cup {"nul"}, cl \in BOOLEAN] ==
        LET r == CharAndSize(q) IN
        IF r.c \in PPNumberBody THEN Body[q + r.size, r.c, cl \/ r.clean]
        ELSE [end |-> q, prev |-> prev, clean |-> cl, next |-> r]
      b == Body[cur, "nul", FALSE]
  IN  IF /\ b.next.c \in {"+", "-"}
         /\ b.prev \in {"e", "E"}
         /\ ~IsHexaLiteral(start)
      THEN LET rest == LexNumericConstant(b.end + b.next.size, start)
           IN  [end |-> rest.end, clean |-> b.clean \/ b.next.clean \/ rest.clean]
      ELSE [end |-> b.end, clean |-> b.clean]

\* The loop shared by LexCharConstant and LexStringLiteral, from the read
\* at q: skip the character after a backslash; an unterminated literal
\* ends before the newline or the sentinel.  (A recursive function, so
\* that its arguments are values.)
LexQuoted(cur, quote, kind) ==
  LET Q[q \in 0 .. End + 1, cl \in BOOLEAN] ==
        LET r   == CharAndSize(q)
            e   == IF r.c = "bs" THEN CharAndSize(q + r.size)
                                 ELSE [c |-> r.c, size |-> 0, clean |-> FALSE]
            q2  == q + r.size + e.size
            cl2 == cl \/ r.clean \/ e.clean
        IN  IF r.c = quote THEN [end |-> q + r.size, kind |-> kind, clean |-> cl \/ r.clean]
            ELSE IF e.c \in VerticalWS \/ (e.c = "nul" /\ q2 - 1 = End)
            THEN [end |-> q2 - 1, kind |-> "unknown", clean |-> cl2]
            ELSE Q[q2, cl2]
  IN  Q[cur, FALSE]

LexCharConstant(cur) ==
  LET first == CharAndSize(cur) IN
  IF first.c = "sq" THEN [end |-> cur + first.size, kind |-> "unknown", clean |-> first.clean]
  ELSE LexQuoted(cur, "sq", "char_constant")

LexStringLiteral(cur) == LexQuoted(cur, "dq", "string_literal")

\* LexIdentifier scans raw bytes; it forms a token only when the run of
\* identifier characters is followed by a non-ASCII byte.
LexIdentifier(cur) ==
  LET Scan[q \in 0 .. End] == IF Byte(q) \in IdentifierBody THEN Scan[q + 1] ELSE q
      e == Scan[cur]
  IN  [formed |-> ~IsASCII(Byte(e)), end |-> e]

\* SkipWhitespace, from cur (just after the character that led here).
SkipWhitespace(cur) ==
  LET Skip[q \in 0 .. End, saw \in BOOLEAN] ==
        IF Byte(q) \in HorizontalWS THEN Skip[q + 1, saw]
        ELSE IF Byte(q) \in VerticalWS THEN Skip[q + 1, TRUE]
        ELSE [ptr |-> q, saw |-> saw]
      r == Skip[cur, Byte(cur - 1) \in VerticalWS]
  IN  [ptr |-> r.ptr, leading |-> Byte(r.ptr - 1) \notin VerticalWS, sol |-> r.saw]

\* The token flags after SkipWhitespace: LeadingSpace takes the computed
\* value, StartOfLine is added when a newline was skipped.
AfterSkip(flags, s) ==
  (flags \ {"LeadingSpace"})
    \cup (IF s.leading THEN {"LeadingSpace"} ELSE {})
    \cup (IF s.sol THEN {"StartOfLine"} ELSE {})

\* convertUTF8Sequence in strict mode: the length of a well-formed
\* sequence at p, or 0.
UTF8Length(p) ==
  LET n == CASE Byte(p) = "xC2" -> 2 [] Byte(p) = "xEF" -> 3 [] OTHER -> 0
  IN  IF n > 0 /\ n <= End - p /\ \A i \in 1 .. n - 1 : Byte(p + i) \in UTF8Continuation
      THEN n ELSE 0

\* InitLexer skips a UTF-8 byte order mark at the start of the buffer.
BOMLength(b) ==
  IF Len(b) >= 3 /\ SubSeq(b, 1, 3) = <<"xEF", "xBB", "xBF">> THEN 3 ELSE 0

(***************************************************************************)
(* The client and Lex.                                                     *)
(***************************************************************************)
\* InitLexer on a buffer of Bufs.
InitWith(Bufs) ==
  /\ buf \in Bufs
  /\ BufferPtr = BOMLength(buf)
  /\ IsAtStartOfLine = TRUE
  /\ IsAtPhysicalStartOfLine = TRUE
  /\ HasLeadingSpace = FALSE
  \* InitLexer never assigns HasLeadingEmptyMacro: it holds whatever the
  \* storage held.
  /\ HasLeadingEmptyMacro \in BOOLEAN
  /\ pc = "Idle"
  /\ tok = [kind |-> "unknown", start |-> 0, len |-> 0, flags |-> {}]
  /\ out = <<>>

Init == InitWith(BoundedSeq(Alphabet, MaxLen))

Finished == out # <<>> /\ Last(out).kind = "eof"

\* Lex without the reset of IsAtStartOfLine after copying it.
LexKeepsStartOfLine ==
  /\ pc = "Idle"
  /\ ~Finished
  /\ Len(out) < MaxTokens
  /\ tok' = [kind |-> "unknown", start |-> 0, len |-> 0,
             flags |-> (IF IsAtStartOfLine THEN {"StartOfLine"} ELSE {})
                         \cup (IF HasLeadingSpace THEN {"LeadingSpace"} ELSE {})
                         \cup (IF HasLeadingEmptyMacro THEN {"LeadingEmptyMacro"} ELSE {})]
  /\ UNCHANGED IsAtStartOfLine
  /\ HasLeadingSpace' = FALSE
  /\ HasLeadingEmptyMacro' = FALSE
  /\ IsAtPhysicalStartOfLine' = FALSE
  /\ pc' = "LexNextToken"
  /\ UNCHANGED <<buf, BufferPtr, out>>

\* Lex: startToken, move the pending line/space flags onto the token.
Lex ==
  /\ pc = "Idle"
  /\ ~Finished
  /\ Len(out) < MaxTokens
  /\ tok' = [kind |-> "unknown", start |-> 0, len |-> 0,
             flags |-> (IF IsAtStartOfLine THEN {"StartOfLine"} ELSE {})
                         \cup (IF HasLeadingSpace THEN {"LeadingSpace"} ELSE {})
                         \cup (IF HasLeadingEmptyMacro THEN {"LeadingEmptyMacro"} ELSE {})]
  /\ IsAtStartOfLine' = FALSE
  /\ HasLeadingSpace' = FALSE
  /\ HasLeadingEmptyMacro' = FALSE
  /\ IsAtPhysicalStartOfLine' = FALSE
  /\ pc' = "LexNextToken"
  /\ UNCHANGED <<buf, BufferPtr, out>>

\* FormTokenWithChars (the token runs from BufferPtr, here start, to end)
\* followed by the return of true from Lex.
FormToken(t, start, end, kind) ==
  LET formed == [t EXCEPT !.kind = kind, !.start = start, !.len = end - start]
  IN  /\ tok' = formed
      /\ BufferPtr' = end
      /\ out' = Append(out, formed)
      /\ pc' = "Idle"

\* LexTokenInternal returns false without forming a token.
ReturnFalse(t) ==
  /\ tok' = t
  /\ pc' = "Idle"
  /\ UNCHANGED out

\* Read without clearing NeedsCleaning at LexNextToken.
ReadKeepsClean ==
  LET blanks == LET B[q \in 0 .. End] == IF Byte(q) \in {"sp", "tab"} THEN B[q + 1] ELSE q
                IN  B[BufferPtr]
      ptr == blanks
      f0  == tok.flags \cup (IF ptr # BufferPtr THEN {"LeadingSpace"} ELSE {})
      r   == CharAndSize(ptr)
  IN  [ptr |-> ptr, c |-> r.c, cur |-> ptr + r.size,
       t |-> [tok EXCEPT !.flags = f0 \cup (IF r.clean THEN {"NeedsCleaning"} ELSE {})]]

\* The first part of every pass through LexNextToken: clear NeedsCleaning,
\* skip spaces and tabs, read one character with getAndAdvanceChar.
Read ==
  LET blanks == LET B[q \in 0 .. End] == IF Byte(q) \in {"sp", "tab"} THEN B[q + 1] ELSE q
                IN  B[BufferPtr]
      ptr == blanks
      f0  == (tok.flags \ {"NeedsCleaning"})
               \cup (IF ptr # BufferPtr THEN {"LeadingSpace"} ELSE {})
      r   == CharAndSize(ptr)
  IN  [ptr |-> ptr, c |-> r.c, cur |-> ptr + r.size,
       t |-> [tok EXCEPT !.flags = f0 \cup (IF r.clean THEN {"NeedsCleaning"} ELSE {})]]

WithClean(t, cl) ==
  IF cl THEN [t EXCEPT !.flags = @ \cup {"NeedsCleaning"}] ELSE t

Unchanged == UNCHANGED <<buf, IsAtStartOfLine, IsAtPhysicalStartOfLine,
                         HasLeadingSpace, HasLeadingEmptyMacro>>

\* LexEndOfFile committing CurPtr (one past the sentinel) to BufferPtr.
LexEndOfFileAtCurPtr ==
  /\ pc = "LexNextToken"
  /\ LET r == Read IN
     /\ r.c = "nul" /\ r.cur - 1 = End
     /\ LET eof == [kind |-> "eof", start |-> End, len |-> 0, flags |-> {}]
        IN  /\ tok' = eof
            /\ BufferPtr' = r.cur
            /\ out' = Append(out, eof)
            /\ pc' = "Idle"
  /\ Unchanged

\* LexEndOfFile forming the eof token over the sentinel byte.
LexEndOfFilePastSentinel ==
  /\ pc = "LexNextToken"
  /\ LET r == Read IN
     /\ r.c = "nul" /\ r.cur - 1 = End
     /\ LET eof == [kind |-> "eof", start |-> End, len |-> 1, flags |-> {}]
        IN  /\ tok' = eof
            /\ BufferPtr' = End
            /\ out' = Append(out, eof)
            /\ pc' = "Idle"
  /\ Unchanged

\* case 0 at BufferEnd: LexEndOfFile forms the eof token at BufferEnd.
LexEndOfFile ==
  /\ pc = "LexNextToken"
  /\ LET r == Read IN
     /\ r.c = "nul" /\ r.cur - 1 = End
     /\ LET eof == [kind |-> "eof", start |-> End, len |-> 0, flags |-> {}]
        IN  /\ tok' = eof
            /\ BufferPtr' = End
            /\ out' = Append(out, eof)
            /\ pc' = "Idle"
  /\ Unchanged

\* The embedded-NUL arm restarting without SkipWhitespace moving BufferPtr.
LexSkipNulOrNewlineStuck ==
  /\ pc = "LexNextToken"
  /\ LET r == Read IN
     \/ /\ r.c = "nul" /\ r.cur - 1 # End
        /\ tok' = [r.t EXCEPT !.flags = @ \cup {"LeadingSpace"}]
        /\ BufferPtr' = r.ptr
     \/ /\ r.c \in VerticalWS
        /\ LET cur == IF r.c = "cr" /\ Byte(r.cur) = "nl" THEN r.cur + 1 ELSE r.cur
               s   == SkipWhitespace(cur)
           IN  /\ tok' = [r.t EXCEPT !.flags = AfterSkip(@ \ {"LeadingSpace"}, s)]
               /\ BufferPtr' = s.ptr
  /\ pc' = "LexNextToken"
  /\ UNCHANGED out
  /\ Unchanged

\* case 0 before BufferEnd, '\r', '\n': skip whitespace and start again.
LexSkipNulOrNewline ==
  /\ pc = "LexNextToken"
  /\ LET r == Read IN
     \/ /\ r.c = "nul" /\ r.cur - 1 # End
        /\ LET s == SkipWhitespace(r.cur) IN
           /\ tok' = [r.t EXCEPT !.flags = AfterSkip(@ \cup {"LeadingSpace"}, s)]
           /\ BufferPtr' = s.ptr
     \/ /\ r.c \in VerticalWS
        /\ LET cur == IF r.c = "cr" /\ Byte(r.cur) = "nl" THEN r.cur + 1 ELSE r.cur
               s   == SkipWhitespace(cur)
           IN  /\ tok' = [r.t EXCEPT !.flags = AfterSkip(@ \ {"LeadingSpace"}, s)]
               /\ BufferPtr' = s.ptr
  /\ pc' = "LexNextToken"
  /\ UNCHANGED out
  /\ Unchanged

\* ' ', '\t', '\f', '\v' (reached after an escaped newline or for \f, \v):
\* SkipHorizontalWhitespace, then the ignorable-unit loop.
LexHorizontalWhitespace ==
  /\ pc = "LexNextToken"
  /\ LET r == Read
         s == SkipWhitespace(r.cur)
     IN  /\ r.c \in HorizontalWS
         /\ tok' = [r.t EXCEPT !.flags = AfterSkip(@ \cup {"LeadingSpace"}, s)]
         /\ BufferPtr' = s.ptr
  /\ pc' = "SkipIgnoreUnits"
  /\ UNCHANGED out
  /\ Unchanged

\* SkipIgnoreUnits: '#' or "//" enter SkipLineComment; "/*" runs
\* SkipBlockComment and comes back here; anything else lexes a token.  The
\* horizontal-whitespace arm (goto SkipHorizontalWhitespace) is left out:
\* it cannot be taken, since SkipWhitespace has just left BufferPtr on a
\* byte that is not whitespace and SkipBlockComment leaves it on '/' or at
\* BufferEnd.
SkipIgnoreUnits ==
  /\ pc = "SkipIgnoreUnits"
  /\ LET c0 == Byte(BufferPtr)
         c1 == Byte(BufferPtr + 1)
         blockEOF == CharAndSize(BufferPtr + 2).c = "nul"
                       /\ BufferPtr + 2 + CharAndSize(BufferPtr + 2).size = End + 1
     IN  CASE c0 = "#" \/ (c0 = "/" /\ c1 = "/") ->
                /\ pc' = "SkipLineComment" /\ UNCHANGED BufferPtr
           [] c0 = "/" /\ c1 = "*" ->
                /\ pc' = "SkipIgnoreUnits"
                /\ BufferPtr' = IF blockEOF THEN End ELSE BufferPtr
           [] OTHER -> pc' = "LexNextToken" /\ UNCHANGED BufferPtr
  /\ UNCHANGED <<tok, out>>
  /\ Unchanged

\* SkipLineComment never leaves its outer while (true) loop.
SkipLineCommentSpin ==
  /\ pc = "SkipLineComment"
  /\ UNCHANGED vars

\* '0'..'9': LexNumericConstant.
LexNumber ==
  /\ pc = "LexNextToken"
  /\ LET r == Read
         n == LexNumericConstant(r.cur, r.ptr)
     IN  /\ r.c \in Digits
         /\ FormToken(WithClean(r.t, n.clean), r.ptr, n.end, "numeric_constant")
  /\ Unchanged

\* 'A'..'Z', 'a'..'z', '_': LexIdentifier, which may return false.
LexIdentifierStep ==
  /\ pc = "LexNextToken"
  /\ LET r == Read
         id == LexIdentifier(r.cur)
     IN  /\ r.c \in Letters \cup {"_"}
         /\ IF id.formed
            THEN FormToken(r.t, r.ptr, id.end, "raw_identifier")
            ELSE ReturnFalse(r.t) /\ BufferPtr' = r.ptr
  /\ Unchanged

\* '\'' and '"': LexCharConstant and LexStringLiteral.
LexLiteral ==
  /\ pc = "LexNextToken"
  /\ LET r == Read IN
     /\ r.c \in {"sq", "dq"}
     /\ LET l == IF r.c = "sq" THEN LexCharConstant(r.cur) ELSE LexStringLiteral(r.cur)
        IN  FormToken(WithClean(r.t, l.clean), r.ptr, l.end, l.kind)
  /\ Unchanged

\* '.': a digit continues a numeric constant, then "...", "..", ".".
LexPeriod ==
  /\ pc = "LexNextToken"
  /\ LET r  == Read
         n1 == CharAndSize(r.cur)
         n2 == CharAndSize(r.cur + n1.size)
         t1 == WithClean(r.t, n1.clean)
     IN  /\ r.c = "."
         /\ CASE n1.c \in Digits ->
                   LET n == LexNumericConstant(r.cur + n1.size, r.ptr)
                   IN  FormToken(WithClean(t1, n.clean), r.ptr, n.end, "numeric_constant")
              [] n1.c = "." /\ n2.c = "." ->
                   FormToken(WithClean(t1, n2.clean), r.ptr, r.cur + n1.size + n2.size, "ellipsis")
              [] n1.c = "." ->
                   FormToken(t1, r.ptr, r.cur + n1.size, "periodperiod")
              [] OTHER ->
                   FormToken(r.t, r.ptr, r.cur, "period")
  /\ Unchanged

\* The kinds the punctuator starting with c, followed by n, may get.  When
\* the switch arm leaves Kind unassigned the token carries whatever the
\* uninitialised local held: any kind.
PunctKinds(c, n) ==
  IF <<c, n>> \in DOMAIN TwoCharKind THEN {TwoCharKind[<<c, n>>]}
  ELSE IF c \in DOMAIN OneCharKind THEN {OneCharKind[c]}
  ELSE TokenKinds

\* The other punctuator arms of the switch: maximal munch over one
\* character of look-ahead.  "//" and "/*" are comments (below).
LexPunctuator ==
  /\ pc = "LexNextToken"
  /\ LET r == Read
         n == CharAndSize(r.cur)
         two == <<r.c, n.c>> \in DOMAIN TwoCharKind
     IN  /\ r.c \in PunctChars \ {"."}
         /\ ~(r.c = "/" /\ n.c \in {"/", "*"})
         /\ \E k \in PunctKinds(r.c, n.c) :
               IF two THEN FormToken(WithClean(r.t, n.clean), r.ptr, r.cur + n.size, k)
                      ELSE FormToken(r.t, r.ptr, r.cur, k)
  /\ Unchanged

\* '/' followed by '/' enters SkipLineComment; followed by '*' runs
\* SkipBlockComment, which only moves BufferPtr when "/*" ends the buffer,
\* and goes back to LexNextToken.
LexSlashComment ==
  /\ pc = "LexNextToken"
  /\ LET r == Read
         n == CharAndSize(r.cur)
         p2 == r.cur + n.size
         b == CharAndSize(p2)
     IN  /\ r.c = "/"
         /\ n.c \in {"/", "*"}
         /\ tok' = WithClean(r.t, n.clean)
         /\ IF n.c = "/"
            THEN pc' = "SkipLineComment" /\ BufferPtr' = r.ptr
            ELSE /\ pc' = "LexNextToken"
                 /\ BufferPtr' = IF b.c = "nul" /\ p2 + b.size = End + 1 THEN End ELSE r.ptr
  /\ UNCHANGED out
  /\ Unchanged

\* default: an ASCII byte no arm handles is an unknown token.
LexOtherASCII ==
  /\ pc = "LexNextToken"
  /\ LET r == Read IN
     /\ IsASCII(r.c)
     /\ r.c \notin {"nul", "sq", "dq", "_"} \cup Whitespace \cup Digits \cup Letters \cup PunctChars
     /\ FormToken(r.t, r.ptr, r.cur, "unknown")
  /\ Unchanged

\* default, non-ASCII: a well-formed UTF-8 sequence is an unknown token
\* (CheckUnicodeWhitespace always answers false); an ill-formed one is
\* dropped one byte at a time.
LexNonASCII ==
  /\ pc = "LexNextToken"
  /\ LET r == Read
         p == r.cur - 1
         n == UTF8Length(p)
     IN  /\ ~IsASCII(r.c)
         /\ IF n > 0
            THEN FormToken(r.t, r.ptr, p + n, "unknown")
            ELSE /\ tok' = r.t
                 /\ BufferPtr' = p + 1
                 /\ pc' = "LexNextToken"
                 /\ UNCHANGED out
  /\ Unchanged

\* The client stops once it holds the eof token (or its bound).
Terminated ==
  /\ pc = "Idle"
  /\ Finished \/ Len(out) >= MaxTokens
  /\ UNCHANGED vars

LexStep ==
  \/ LexEndOfFile \/ LexSkipNulOrNewline \/ LexHorizontalWhitespace
  \/ SkipIgnoreUnits \/ SkipLineCommentSpin
  \/ LexNumber \/ LexIdentifierStep \/ LexLiteral \/ LexPeriod
  \/ LexPunctuator \/ LexSlashComment \/ LexOtherASCII \/ LexNonASCII

Next == Lex \/ LexStep \/ Terminated

\* The program is sequential: the caller keeps calling and each call keeps
\* running, so the whole next-state relation is weakly fair.
Spec == Init /\ [][Next]_vars /\ WF_vars(Next)

-----------------------------------------------------------------------------
(***************************************************************************)
(* What clients ask of a token once it is lexed: its spelling, and where   *)
(* the line holding a location begins (to relex from there).               *)
(***************************************************************************)
\* getSpelling / getSpellingSlow: a token not flagged NeedsCleaning is its
\* bytes; otherwise the characters getCharAndSizeNoWarn reads from its
\* first byte while the read pointer is below BufEnd.  A string literal is
\* first read up to its first '"'; if that read two or more characters,
\* the bytes up to the last '"' before BufEnd are copied raw.  Result is
\* the characters and where the last read ended.
GetSpelling(t) ==
  LET BufEnd == t.start + t.len
      Clean[q \in 0 .. End + 1] ==
        IF q >= BufEnd THEN [chars |-> <<>>, end |-> q]
        ELSE LET r == CharAndSizeNoWarn(q)  rest == Clean[q + r.size]
             IN  [chars |-> <<r.c>> \o rest.chars, end |-> rest.end]
      ToQuote[q \in 0 .. End + 1] ==
        IF q >= BufEnd THEN [chars |-> <<>>, end |-> q]
        ELSE LET r == CharAndSizeNoWarn(q) IN
             IF r.c = "dq" THEN [chars |-> <<r.c>>, end |-> q + r.size]
             ELSE LET rest == ToQuote[q + r.size]
                  IN  [chars |-> <<r.c>> \o rest.chars, end |-> rest.end]
      head == ToQuote[t.start]
      RawEnd == Max({p \in head.end .. BufEnd - 1 : Byte(p) = "dq"} \cup {head.end - 1})
      raw == IF Len(head.chars) >= 2 /\ Last(head.chars) = "dq"
             THEN [chars |-> head.chars \o SubSeq(buf, head.end + 1, RawEnd + 1), end |-> RawEnd + 1]
             ELSE head
      tail(h) == LET r == Clean[h.end] IN [chars |-> h.chars \o r.chars, end |-> r.end]
  IN  CASE "NeedsCleaning" \notin t.flags -> [chars |-> SubSeq(buf, t.start + 1, BufEnd), end |-> BufEnd]
        [] t.kind = "string_literal"    -> tail(raw)
        [] OTHER                        -> Clean[t.start]

\* The step back over horizontal whitespace, never below BufferStart.
RECURSIVE SkipBlankBack(_)
SkipBlankBack(q) ==
  IF q > 0 /\ Byte(q) \in HorizontalWS THEN SkipBlankBack(q - 1) ELSE q

\* isNewLineEscaped: the newline byte at s ends an escaped newline.  Step
\* back over the other half of a CR LF or LF CR pair, then over horizontal
\* whitespace, and look for a backslash.
IsNewLineEscaped(s) ==
  LET pair == Byte(s - 1) \in VerticalWS /\ Byte(s - 1) # Byte(s)
  IN  /\ s - 1 >= 0
      /\ pair => s - 2 >= 0
      /\ Byte(SkipBlankBack(IF pair THEN s - 2 ELSE s - 1)) = "bs"

\* findBeginningOfLine's backward scan from q for a newline that is not
\* escaped.
RECURSIVE ScanToLineStart(_)
ScanToLineStart(q) ==
  IF q = 0 THEN 0
  ELSE IF Byte(q) \in VerticalWS /\ ~IsNewLineEscaped(q) THEN q + 1
  ELSE ScanToLineStart(q - 1)

\* findBeginningOfLine: the offset just after the closest newline at or
\* before off that is not escaped, or BufferStart; -1 (nullptr) when off
\* is not inside the buffer.
FindBeginningOfLine(off) == IF off >= End THEN -1 ELSE ScanToLineStart(off)

-----------------------------------------------------------------------------
Token == [kind : TokenKinds, start : 0 .. MaxLen, len : 0 .. MaxLen, flags : SUBSET Flags]

TypeOK ==
  /\ buf \in Seq(Alphabet) /\ Len(buf) <= MaxLen
  /\ BufferPtr \in 0 .. End
  /\ pc \in {"Idle", "LexNextToken", "SkipIgnoreUnits", "SkipLineComment"}
  /\ tok \in Token
  /\ out \in Seq(Token)
  /\ {IsAtStartOfLine, IsAtPhysicalStartOfLine, HasLeadingSpace, HasLeadingEmptyMacro} \subseteq BOOLEAN

\* Where the i-th returned token may start: the end of the one before it.
PrevEnd(i) == IF i = 1 THEN BOMLength(buf) ELSE out[i - 1].start + out[i - 1].len

\* Every token Lex returns lies inside the buffer after the previous one;
\* every token but eof spans at least one byte (so the cursor advances),
\* and eof is the empty token at BufferEnd.  About FormTokenWithChars and
\* the end each scanner computes (CurPtr - 1 for unterminated literals).
TokenSpansOrdered ==
  \A i \in 1 .. Len(out) :
    LET t == out[i] IN
    /\ PrevEnd(i) <= t.start
    /\ t.start + t.len <= End
    /\ t.kind # "eof" => t.len >= 1
    /\ t.kind = "eof" => t.start = End /\ t.len = 0

\* The bytes in [s, e) contain a whole escaped newline.
HasSplice(s, e) ==
  \E p \in s .. e - 1 : SpliceAt(p) /\ p + 1 + EscapedNewLineSize(p + 1) <= e

\* A token is flagged NeedsCleaning exactly when its bytes contain an
\* escaped newline: getAndAdvanceChar and ConsumeChar set the flag, the
\* look-ahead getCharAndSize must not, and LexNextToken clears it when it
\* starts over.  getSpelling trusts the flag to decide whether to re-scan.
NeedsCleaningExact ==
  \A i \in 1 .. Len(out) :
    out[i].kind # "eof" =>
      ("NeedsCleaning" \in out[i].flags <=> HasSplice(out[i].start, out[i].start + out[i].len))

\* Byte p lies inside an escaped newline.
InSplice(p) ==
  \E q \in 0 .. p - 1 :
    SpliceAt(q) /\ p < q + 1 + EscapedNewLineSize(q + 1)

NewlineBetween(a, b) ==
  \E p \in a .. b - 1 : Byte(p) \in VerticalWS /\ ~InSplice(p)

\* getSpellingSlow's assertion holds for every token the lexer flags
\* NeedsCleaning: re-reading it through getCharAndSizeNoWarn gives fewer
\* characters than it has bytes.  The flag, set while lexing, and the
\* re-scan, done later by getSpelling, must agree on what is an escaped
\* newline, across the look-ahead and consume paths of every scanner.
SpellingShorterThanToken ==
  \A i \in 1 .. Len(out) :
    "NeedsCleaning" \in out[i].flags => Len(GetSpelling(out[i]).chars) < out[i].len

\* A token is flagged StartOfLine exactly when it is the first token or a
\* newline that is not part of an escaped newline lies between it and the
\* token before: IsAtStartOfLine, SkipWhitespace and the goto loops of
\* LexTokenInternal together must carry the fact to the token.
StartOfLineExact ==
  \A i \in 1 .. Len(out) :
    out[i].kind # "eof" =>
      ("StartOfLine" \in out[i].flags <=> (i = 1 \/ NewlineBetween(PrevEnd(i), out[i].start)))

\* The client's loop ends with the eof token.
EventuallyEOF == <>Finished

-----------------------------------------------------------------------------
(***************************************************************************)
(* What spec.md says of the lexer, where the code does something else.     *)
(***************************************************************************)
\* The bytes from p on are a line continuation: a backslash, optional
\* horizontal whitespace, then a newline (spec 4.1 step 2).
LineContinuationAt(p) ==
  /\ Byte(p) = "bs"
  /\ \E q \in p + 1 .. End - 1 :
       Byte(q) \in VerticalWS /\ \A m \in p + 1 .. q - 1 : Byte(m) \in HorizontalWS

\* Where the line continuation at p ends: after its newline, a CR LF or
\* LF CR pair counting as one newline.
ContinuationEnd(p) ==
  LET q == CHOOSE q \in p + 1 .. End - 1 :
             Byte(q) \in VerticalWS /\ \A m \in p + 1 .. q - 1 : Byte(m) \in HorizontalWS
  IN  IF Byte(q + 1) \in VerticalWS /\ Byte(q + 1) # Byte(q) THEN q + 2 ELSE q + 1

\* The logical text of bytes [s, e): every line continuation starting
\* there folded away (spec 4.1 steps 2 and spelling reconstruction).
RECURSIVE Folded(_, _)
Folded(s, e) ==
  IF s >= e THEN <<>>
  ELSE IF LineContinuationAt(s) THEN Folded(ContinuationEnd(s), e)
  ELSE <<Byte(s)>> \o Folded(s + 1, e)

\* getSpelling returns "the characters used to represent the token in the
\* source file after ... escaped-newline folding" (its comment; spec 4.1
\* and 8): the token's bytes with its line continuations removed.  About
\* getCharAndSizeSlow's idea of an escaped newline, and the end the
\* literal scanners give a token they cut short.
SpellingIsFolded ==
  \A i \in 1 .. Len(out) :
    out[i].kind # "eof" => GetSpelling(out[i]).chars = Folded(out[i].start, out[i].start + out[i].len)

\* GetBeginningOfToken relexes from findBeginningOfLine of the location;
\* for a location inside a returned token that start must lie at or
\* before the token, or no relexed token begins where this one does.
\* isNewLineEscaped, scanning backwards, must agree with the forward
\* getEscapedNewLineSize on which newlines are escaped.
RelexStartsBeforeToken ==
  \A i \in 1 .. Len(out) :
    \A p \in out[i].start + 1 .. out[i].start + out[i].len - 1 :
      FindBeginningOfLine(p) <= out[i].start

\* The eof token comes once, last, at BufferEnd (spec 8): the punctuator
\* switch of LexTokenInternal must give every token it forms a kind.
EOFOnceAndLast ==
  \A i \in 1 .. Len(out) :
    out[i].kind = "eof" => i = Len(out) /\ out[i].start = End

\* Once the client has the eof token, every non-ASCII byte of the buffer
\* lies in some token: an invalid UTF-8 sequence "becomes an unknown-kind
\* token" (spec 4.1), whatever convertUTF8Sequence answers.
NonASCIIInTokens ==
  Finished =>
    \A p \in BOMLength(buf) .. End - 1 :
      ~IsASCII(Byte(p)) => \E i \in 1 .. Len(out) : out[i].start <= p /\ p < out[i].start + out[i].len
=============================================================================
