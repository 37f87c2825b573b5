-------------------------------- MODULE Lexer --------------------------------
(***************************************************************************)
(* The lexer of compiler/lexer.rs, from characters to the tokens that      *)
(* Parser takes.  A character is a string; a letter may stand for a whole  *)
(* word, so that names need not be spelled.  Columns, wording, the reader  *)
(* that hands the text over in pieces, and bytes above 127 are left out.   *)
(***************************************************************************)
EXTENDS Integers, SequencesExt, TLC

Digits == {"0", "1", "2", "3", "4", "5", "6", "7", "8", "9"}
Newlines == {"\n", "\r"}
Blanks == {" ", "\t"}
Quotes == {"\"", "'"}
Symbols == {"-", "[", "]", "=", "<", ">", "~", ".", "+", "*", "/", "%", "^", "#",
            "(", ")", "{", "}", ";", ":", ",", "\\", "<eof>"}

NoLetter == Newlines \union Blanks \union Quotes \union Symbols
Alpha(c) == c \notin Digits \union NoLetter

Peek(s, i) == IF i <= Len(s) THEN s[i] ELSE "<eof>"

\* The first place from i on that is not of a class, and the first that is.
RECURSIVE Past(_, _, _), Until(_, _, _)
Past(s, i, class) == IF Peek(s, i) \in class THEN Past(s, i + 1, class) ELSE i
Until(s, i, class) == IF i > Len(s) \/ s[i] \in class THEN i ELSE Until(s, i + 1, class)

Joined(chars) == FoldLeft(LAMBDA a, b : a \o b, "", chars)

\* inc_line: two different newline characters are one line break.
PastBreak(s, i) == IF Peek(s, i + 1) \in Newlines \ {s[i]} THEN i + 2 ELSE i + 1

(***************************************************************************)
(* What has been read of s: up to i, where line begins to count; err when  *)
(* that is not "".                                                         *)
(***************************************************************************)
Read(i, line, v) == [i |-> i, line |-> line, v |-> v, err |-> ""]
Failed(why) == [i |-> 0, line |-> 0, v |-> "", err |-> why]

-----------------------------------------------------------------------------
(* Long strings and comments.                                                *)

CountSep(s, i) ==
  LET past == Past(s, i + 1, {"="})
      n == past - i - 1
  IN IF Peek(s, past) = "[" THEN n ELSE IF n > 0 THEN -1 ELSE -2

Closes(s, i, sep) ==
  /\ Peek(s, i) = "]" /\ Peek(s, i + sep + 1) = "]"
  /\ \A j \in i + 1 .. i + sep : Peek(s, j) = "="

RECURSIVE LongRest(_, _, _, _, _), ShortRest(_, _, _, _, _), Scan(_, _, _)

LongRest(s, i, line, sep, buf) ==
  CASE i > Len(s) -> Failed("unfinished long")
    [] Closes(s, i, sep) -> Read(i + sep + 2, line, buf)
    [] Peek(s, i) \in Newlines -> LongRest(s, PastBreak(s, i), line + 1, sep, buf \o "\n")
    [] OTHER -> LongRest(s, i + 1, line, sep, buf \o s[i])

ReadLongString(s, i, line, sep) ==
  LET from == i + sep + 2
  IN IF Peek(s, from) \in Newlines
     THEN LongRest(s, PastBreak(s, from), line + 1, sep, "")
     ELSE LongRest(s, from, line, sep, "")

-----------------------------------------------------------------------------
(* Strings in quotes, with their escapes.                                    *)

Escapes ==
  [c \in {"a", "b", "f", "n", "r", "t", "v"} |->
     CASE c = "n" -> "\n" [] c = "r" -> "\r" [] c = "t" -> "\t" [] OTHER -> "<" \o c \o ">"]

DigitValue(c) == CHOOSE d \in 0 .. 9 : ToString(d) = c
Value(digits) == FoldLeft(LAMBDA n, c : 10 * n + DigitValue(c), 0, digits)
Byte(n) == "<" \o ToString(n) \o ">"

HexDigits == Digits \union {"a", "b", "c", "d", "e", "f"}

\* \x and \u, which Lua 5.1 does not have; i is behind the letter.
HexEscape(s, i, line, n) ==
  IF \A j \in i .. i + n - 1 : Peek(s, j) \in HexDigits
  THEN Read(i + n, line, "<x" \o Joined(SubSeq(s, i, i + n - 1)) \o ">")
  ELSE Failed("invalid escape")

Escape(s, i, line) ==
  LET c == Peek(s, i)
      digits == Min({Past(s, i, Digits), i + 3})
      n == Value(SubSeq(s, i, digits - 1))
  IN CASE c = "<eof>" -> Failed("unfinished string")
       [] c \in DOMAIN Escapes -> Read(i + 1, line, Escapes[c])
       [] c = "x" -> HexEscape(s, i + 1, line, 2)
       [] c = "u" -> HexEscape(s, i + 1, line, 4)
       [] c \in Newlines -> Read(PastBreak(s, i), line + 1, "\n")
       [] c \in Digits -> IF n > 255 THEN Failed("escape too large") ELSE Read(digits, line, Byte(n))
       [] OTHER -> Read(i + 1, line, c)

ShortRest(s, i, line, quote, buf) ==
  LET c == Peek(s, i)
      e == Escape(s, i + 1, line)
  IN CASE c \in Newlines \union {"<eof>"} -> Failed("unfinished string")
       [] c = quote -> Read(i + 1, line, buf)
       [] c = "\\" -> IF e.err = "" THEN ShortRest(s, e.i, e.line, quote, buf \o e.v) ELSE e
       [] OTHER -> ShortRest(s, i + 1, line, quote, buf \o c)

-----------------------------------------------------------------------------
(* Numbers: everything that could belong to one is taken, and then has to be *)
(* one, by what strtod accepts.                                              *)

PastNumber(s, i) ==
  LET mantissa == Past(s, i, Digits \union {"."})
      exponent == IF Peek(s, mantissa) \in {"e", "E"} THEN mantissa + 1 ELSE mantissa
      sign == IF exponent > mantissa /\ Peek(s, exponent) \in {"+", "-"} THEN exponent + 1 ELSE exponent
  IN Until(s, sign, NoLetter)

Strtod(chars) ==
  LET only(class, from, to) == \A k \in from .. to : chars[k] \in class
      n == Len(chars)
      decimal(to) == /\ only(Digits \union {"."}, 1, to)
                     /\ \E k \in 1 .. to : chars[k] \in Digits
                     /\ \A j, k \in 1 .. to : chars[j] = "." /\ chars[k] = "." => j = k
  IN \/ decimal(n)
     \/ \E e \in 2 .. n - 1 :
          /\ chars[e] \in {"e", "E"} /\ decimal(e - 1)
          /\ only(Digits, IF chars[e + 1] \in {"+", "-"} THEN e + 2 ELSE e + 1, n)
          /\ chars[n] \in Digits
     \/ n > 2 /\ chars[1] = "0" /\ chars[2] = "x" /\ only(HexDigits, 3, n)

ReadNumber(s, i, line) ==
  LET past == PastNumber(s, i)
      chars == SubSeq(s, i, past - 1)
  IN IF ~Strtod(chars) THEN Failed("malformed number")
     ELSE Read(past, line, IF ToSet(chars) \subseteq Digits THEN Value(chars) ELSE Joined(chars))

-----------------------------------------------------------------------------
(* scan: the next token from i on, as kind and what was read.                *)

Keywords ==
  {"and", "break", "do", "else", "elseif", "end", "false", "for", "function", "if", "in",
   "local", "nil", "not", "or", "repeat", "return", "then", "true", "until", "while"}

Longer == [c \in {"=", "<", ">", "~"} |-> c \o "="]

\* A token that begins at i, on line.
Tok(kind, i, line, read) == [t |-> kind, at |-> i, line |-> line, read |-> read]

\* A comment, from behind its two dashes.
PastComment(s, i, line) ==
  LET sep == IF Peek(s, i) = "[" THEN CountSep(s, i) ELSE -1
  IN IF sep >= 0 THEN ReadLongString(s, i, line, sep)
     ELSE Read(Until(s, i, Newlines), line, "")

Scan(s, i, line) ==
  LET c == Peek(s, i)
      d == Peek(s, i + 1)
      op(kind, n) == Tok(kind, i, line, Read(i + n, line, ""))
      comment == PastComment(s, i + 2, line)
      sep == CountSep(s, i)
      word == Until(s, i, NoLetter)
      name == Joined(SubSeq(s, i, word - 1))
  IN CASE c = "<eof>" -> op("<eof>", 0)
       [] c \in Blanks -> Scan(s, i + 1, line)
       [] c \in Newlines -> Scan(s, PastBreak(s, i), line + 1)
       [] c = "-" /\ d = "-" ->
            IF comment.err = "" THEN Scan(s, comment.i, comment.line) ELSE Tok("--", i, line, comment)
       [] c = "[" /\ sep >= 0 -> Tok("string", i, line, ReadLongString(s, i, line, sep))
       [] c = "[" /\ sep = -1 -> Tok("[", i, line, Failed("invalid long string delimiter"))
       [] c \in DOMAIN Longer /\ d = "=" -> op(Longer[c], 2)
       [] c = "~" /\ d # "=" -> Tok("~", i, line, Failed("unexpected symbol"))
       [] c = "." /\ d = "." -> IF Peek(s, i + 2) = "." THEN op("...", 3) ELSE op("..", 2)
       [] c \in Digits \/ (c = "." /\ d \in Digits) -> Tok("number", i, line, ReadNumber(s, i, line))
       [] c \in Quotes -> Tok("string", i, line, ShortRest(s, i + 1, line, c, ""))
       [] Alpha(c) -> IF name \in Keywords THEN op(name, word - i)
                      ELSE Tok("name", i, line, Read(word, line, name))
       [] OTHER -> op(c, 1)

-----------------------------------------------------------------------------
(* The tokens of a text.  nl says that a token and the one before it begin   *)
(* on different lines, which is what the parser asks of a parenthesis.  A    *)
(* first line that begins with # is skipped.                                 *)

RECURSIVE Rest(_, _, _, _, _)
Rest(s, i, line, from, toks) ==
  LET t == Scan(s, i, line)
  IN IF t.read.err # "" THEN [toks |-> toks, err |-> t.read.err]
     ELSE IF t.t = "<eof>" THEN [toks |-> toks, err |-> ""]
     ELSE Rest(s, t.read.i, t.read.line, t.line,
               Append(toks, [t |-> t.t, v |-> t.read.v, nl |-> t.line # from,
                             at |-> t.at, line |-> t.line]))

Lex(s) ==
  LET first == Until(s, 1, Newlines)
  IN IF Peek(s, 1) = "#" THEN Rest(s, first + 1, 2, 1, <<>>) ELSE Rest(s, 1, 1, 1, <<>>)
=============================================================================
