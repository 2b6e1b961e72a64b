------------------------ MODULE MCGetBeginningOfToken ------------------------
(***************************************************************************)
(* Buffers and bounds for checking GetBeginningOfToken with TLC.           *)
(***************************************************************************)
EXTENDS GetBeginningOfToken

\* Digits, backslashes, both newlines, a space, a string quote and
\* an embedded NUL: splices, CR LF pairs, unterminated literals and NUL
\* filler before and after a location.  Letters, '/', '#', '&' and
\* non-ASCII bytes are left out: they make a lexer hang or hand out a
\* token of arbitrary kind (the no_eof and amp runs).
MCAlphabet == {"1", "bs", "nl", "cr", "sp", "dq", "nul"}

\* A newline at q that the forward getEscapedNewLineSize swallows into
\* the escaped newline of a backslash before it.
SwallowedNewline(q) ==
  /\ Byte(q) \in VerticalWS
  /\ \E p \in 0 .. q - 1 : SpliceAt(p) /\ q <= p + EscapedNewLineSize(p + 1)

\* The forward and the backward scan disagree on a newline: the lexer
\* swallows it, isNewLineEscaped calls it real (the relex run's finding,
\* for \ CR blank LF and \ CR LF CR alike).
ScansDisagree == \E q \in 0 .. End - 1 : SwallowedNewline(q) /\ ~IsNewLineEscaped(q)

\* Four bytes are needed for a token on each side of a splice, or for a
\* splice with a blank before its newline; those buffers are taken over
\* the classes such cases are made of.
MCAlphabetLong == {"1", "bs", "nl", "cr", "sp"}

\* The buffers of at most n bytes over S, built a byte at a time.
RECURSIVE BuffersUpTo(_, _)
BuffersUpTo(S, n) ==
  IF n = 0 THEN {<<>>}
  ELSE {<<>>} \cup {<<c>> \o w : c \in S, w \in BuffersUpTo(S, n - 1)}

MCBuffers == BuffersUpTo(MCAlphabetLong, MaxLen) \cup BuffersUpTo(Alphabet, MaxLen - 1)

MCInit == SearchInitWith(MCBuffers) /\ ~ScansDisagree

MCSpec == MCInit /\ [][SearchNext]_allVars /\ WF_allVars(SearchNext)
==============================================================================
