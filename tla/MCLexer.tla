------------------------------ MODULE MCLexer ------------------------------
(***************************************************************************)
(* Alphabets and bounds for checking the Lexer with TLC.  Each alphabet is *)
(* chosen so that the branches a run is about occur in buffers of at most  *)
(* MaxLen bytes.                                                           *)
(***************************************************************************)
EXTENDS Lexer

\* The bytes of the one case that takes four: a splice, then whitespace
\* that restarts LexNextToken, then a token.
MCAlphabetLong == {"1", "bs", "nl", "sp"}

\* Numbers, exponent signs, splices, literals, newlines, spaces, letters,
\* identifiers ended by a UTF-8 sequence or not, comments and '#', form
\* feed before the ignorable units, embedded NUL, carriage returns,
\* strings and periods.
MCAlphabetSafety ==
  MCAlphabetLong \cup {"e", "+", ".", "sq", "a", "/", "*", "#", "ff", "nul", "xC2", "xA0", "cr", "dq"}

\* Buffers of up to MaxLen bytes of MCAlphabetLong, or up to MaxLen - 1 of
\* any byte of MCAlphabetSafety.
MCInitSafety ==
  InitWith(BoundedSeq(MCAlphabetLong, MaxLen) \cup BoundedSeq(Alphabet, MaxLen - 1))
MCSpecSafety == MCInitSafety /\ [][Next]_vars /\ WF_vars(Next)

\* Identifiers followed by an ASCII byte, and "/*" followed by text.
MCAlphabetNoEOF == {"a", "1", "/", "*"}

\* Splices through a space that no newline follows, and an unterminated
\* literal whose last read goes through a splice.
MCAlphabetSpelling == {"1", "bs", "sp", "nl", "dq"}

\* Escaped newlines with a CR LF pair and a space in either order.
MCAlphabetRelex == {"1", "bs", "sp", "cr", "nl"}

\* A lone '&'.
MCAlphabetAmp == {"&", "1"}

\* U+00A0 and an ill-formed UTF-8 lead byte.
MCAlphabetUnicode == {"xC2", "xA0", "1"}

\* Buffers without "//", so that only block comments are in play.
MCInitNoLineComment ==
  /\ Init
  /\ \A p \in 1 .. Len(buf) - 1 : ~(buf[p] = "/" /\ buf[p + 1] = "/")

MCSpecNoLineComment == MCInitNoLineComment /\ [][Next]_vars /\ WF_vars(Next)
=============================================================================
