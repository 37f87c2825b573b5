------------------------------ MODULE Patterns ------------------------------
(***************************************************************************)
(* The pattern matcher of stdlib/string.rs and the functions on top of it: *)
(* find, match, gmatch, gsub, and sub for the positions they share.  The   *)
(* matcher is a set of recursive functions that hand the list of captures  *)
(* to each other and take back what they did to it when they fail.  A step *)
(* is one attempt to match at one place.                                   *)
(***************************************************************************)
EXTENDS Integers, Sequences, FiniteSets, SequencesExt

CONSTANTS MAXCCALLS,        \* how deep matches may nest
          LUA_MAXCAPTURES   \* captures of one pattern

VARIABLE m   \* the call of a library function: see Begin

Letters == {"a", "b", "c"}
Digits == {"0", "1", "2"}
Zero == "<0>"   \* the byte 0, which the ends of a string look like

\* Characters in the order of their codes.
Code(c) ==
  CHOOSE n \in 1 .. 21 :
    << Zero, "$", "%", "(", ")", "*", "+", "-", ".", "0", "1", "2", "?", "A", "D", "[", "]", "^",
       "a", "b", "c" >>[n] = c

Classes == [a |-> Letters, d |-> Digits, z |-> {Zero}]
Complements == [A |-> "a", D |-> "d"]

MatchClass(c, class) ==
  IF class \in DOMAIN Classes THEN c \in Classes[class]
  ELSE IF class \in DOMAIN Complements THEN c \notin Classes[Complements[class]]
  ELSE c = class

-----------------------------------------------------------------------------
(* Where an item of pattern p that begins at j ends.                         *)

RECURSIVE BracketEnd(_, _), BracketHolds(_, _, _, _)

\* The first character of a set is never its end.
BracketEnd(p, j) ==
  LET k == IF j < Len(p) /\ p[j] = "%" THEN j + 2 ELSE j + 1
  IN IF j > Len(p) THEN j
     ELSE IF k <= Len(p) /\ p[k] = "]" THEN k + 1
     ELSE BracketEnd(p, k)

ClassEnd(p, j) ==
  CASE p[j] = "%" -> IF j < Len(p) THEN j + 2 ELSE j + 1
    [] p[j] = "[" -> BracketEnd(p, IF j < Len(p) /\ p[j + 1] = "^" THEN j + 2 ELSE j + 1)
    [] OTHER -> j + 1

\* Whether a set holds c, from j up to the place ec of its closing bracket.
BracketHolds(c, p, j, ec) ==
  CASE j >= ec -> FALSE
    [] p[j] = "%" /\ j + 1 < ec -> MatchClass(c, p[j + 1]) \/ BracketHolds(c, p, j + 2, ec)
    [] ~(p[j] = "%" /\ j + 1 < ec) /\ j + 2 < ec /\ p[j + 1] = "-" ->
         Code(c) \in Code(p[j]) .. Code(p[j + 2]) \/ BracketHolds(c, p, j + 3, ec)
    [] OTHER -> c = p[j] \/ BracketHolds(c, p, j + 1, ec)

MatchBracketClass(c, p, j) ==
  LET ec == ClassEnd(p, j) - 1
      complement == j + 1 < ec /\ p[j + 1] = "^"
  IN IF complement THEN ~BracketHolds(c, p, j + 2, ec) ELSE BracketHolds(c, p, j + 1, ec)

SingleMatch(s, i, p, j) ==
  /\ i <= Len(s)
  /\ CASE p[j] = "." -> TRUE
       [] p[j] = "%" -> j < Len(p) /\ MatchClass(s[i], p[j + 1])
       [] p[j] = "[" -> MatchBracketClass(s[i], p, j)
       [] OTHER -> s[i] = p[j]

-----------------------------------------------------------------------------
(* The matcher.  A match of s from i on, by pattern p from j on, with the    *)
(* captures so far, at a depth; it returns where the match ends, 0 for none, *)
(* and the captures as it leaves them.                                       *)

Unfinished == -1
Position == -2

Found(end, caps) == [end |-> end, caps |-> caps, err |-> ""]
None(caps) == [end |-> 0, caps |-> caps, err |-> ""]
Wrong(why) == [end |-> 0, caps |-> <<>>, err |-> why]
Misses(r) == r.end = 0 /\ r.err = ""

RECURSIVE Match(_, _, _, _, _, _), Inner(_, _, _, _, _, _), Fewer(_, _, _, _, _, _, _), More(_, _, _, _, _, _, _)

Match(s, i, p, j, caps, depth) ==
  IF depth >= MAXCCALLS THEN Wrong("too complex") ELSE Inner(s, i, p, j, caps, depth + 1)

\* match_greedy and match_lazy: n of a class, then fewer or more of it.
Fewer(s, i, n, p, j, caps, depth) ==
  LET r == Match(s, i + n, p, j, caps, depth)
  IN IF Misses(r) /\ n > 0 THEN Fewer(s, i, n - 1, p, j, r.caps, depth) ELSE r

Most(s, i, p, j) ==
  CHOOSE n \in 0 .. Len(s) :
    /\ \A k \in 0 .. n - 1 : SingleMatch(s, i + k, p, j)
    /\ ~SingleMatch(s, i + n, p, j)

More(s, i, p, class, j, caps, depth) ==
  LET r == Match(s, i, p, j, caps, depth)
  IN IF Misses(r) /\ SingleMatch(s, i, p, class) THEN More(s, i + 1, p, class, j, r.caps, depth) ELSE r

\* match_open_capture and match_position_capture: len is Unfinished or
\* Position, and rest where the pattern goes on.
\* Slip: a capture that did not lead to a match stays.
OpenCaptureStays(s, i, p, rest, len, caps, depth) ==
  Match(s, i, p, rest, Append(caps, [start |-> i, len |-> len]), depth)
OpenCapture(s, i, p, rest, len, caps, depth) ==
  LET r == Match(s, i, p, rest, Append(caps, [start |-> i, len |-> len]), depth)
  IN IF Len(caps) >= LUA_MAXCAPTURES THEN Wrong("too many captures")
     ELSE IF Misses(r) THEN None(SubSeq(r.caps, 1, Len(caps))) ELSE r

\* The last capture that is open is closed, and open again without a match.
CloseCapture(s, i, p, j, caps, depth) ==
  LET open == {k \in DOMAIN caps : caps[k].len = Unfinished}
      k == CHOOSE x \in open : \A y \in open : y <= x
      r == Match(s, i, p, j + 1, [caps EXCEPT ![k].len = i - caps[k].start], depth)
  IN IF open = {} THEN Wrong("invalid pattern capture")
     ELSE IF Misses(r) THEN None([r.caps EXCEPT ![k].len = Unfinished]) ELSE r

\* %bxy: up to where as many y as x have passed.
MatchBalance(s, i, p, j, caps, depth) ==
  LET x == p[j + 2]
      y == p[j + 3]
      count[k \in i .. Len(s)] ==
        IF k = i THEN 1
        ELSE LET before == count[k - 1]
             IN IF s[k] = y THEN before - 1 ELSE IF s[k] = x THEN before + 1 ELSE before
      ends == {k \in i + 1 .. Len(s) : count[k] = 0}
      end == CHOOSE k \in ends : \A l \in ends : k <= l
  IN IF j + 3 > Len(p) THEN Wrong("unbalanced pattern")
     ELSE IF i > Len(s) \/ s[i] # x \/ ends = {} THEN None(caps)
     ELSE Match(s, end + 1, p, j + 4, caps, depth)

MatchFrontier(s, i, p, j, caps, depth) ==
  LET at(k) == IF k \in DOMAIN s THEN s[k] ELSE Zero
  IN IF j + 2 > Len(p) \/ p[j + 2] # "[" THEN Wrong("missing [ after %f")
     ELSE IF ~MatchBracketClass(at(i - 1), p, j + 2) /\ MatchBracketClass(at(i), p, j + 2)
     THEN Match(s, i, p, ClassEnd(p, j + 2), caps, depth)
     ELSE None(caps)

MatchBackref(s, i, p, j, caps, depth) ==
  LET n == CHOOSE k \in 0 .. 2 : <<"0", "1", "2">>[k + 1] = p[j + 1]
      cap == caps[n]
  IN IF n \notin DOMAIN caps \/ cap.len < 0 THEN Wrong("invalid capture index")
     ELSE IF i + cap.len - 1 <= Len(s)
             /\ SubSeq(s, i, i + cap.len - 1) = SubSeq(s, cap.start, cap.start + cap.len - 1)
     THEN Match(s, i + cap.len, p, j + 2, caps, depth)
     ELSE None(caps)

Inner(s, i, p, j, caps, depth) ==
  LET at(k) == IF k <= Len(p) THEN p[k] ELSE ""
      e == ClassEnd(p, j)
      one == SingleMatch(s, i, p, j)
      maybe == Match(s, i + 1, p, e + 1, caps, depth)
  IN CASE j > Len(p) -> Found(i, caps)
       [] at(j) = "(" -> IF at(j + 1) = ")" THEN OpenCapture(s, i, p, j + 2, Position, caps, depth)
                         ELSE OpenCapture(s, i, p, j + 1, Unfinished, caps, depth)
       [] at(j) = ")" -> CloseCapture(s, i, p, j, caps, depth)
       [] at(j) = "$" /\ j = Len(p) -> IF i = Len(s) + 1 THEN Found(i, caps) ELSE None(caps)
       [] OTHER ->
            CASE at(e) = "*" -> Fewer(s, i, Most(s, i, p, j), p, e + 1, caps, depth)
              [] at(e) = "-" -> More(s, i, p, j, e + 1, caps, depth)
              [] at(e) = "+" -> IF one THEN Fewer(s, i + 1, Most(s, i + 1, p, j), p, e + 1, caps, depth)
                                ELSE None(caps)
              [] at(e) = "?" -> IF ~one THEN Inner(s, i, p, e + 1, caps, depth)
                                ELSE IF Misses(maybe) THEN Inner(s, i, p, e + 1, maybe.caps, depth) ELSE maybe
              [] at(j) = "%" /\ at(j + 1) = "b" -> MatchBalance(s, i, p, j, caps, depth)
              [] at(j) = "%" /\ at(j + 1) = "f" -> MatchFrontier(s, i, p, j, caps, depth)
              [] at(j) = "%" /\ at(j + 1) \in Digits -> MatchBackref(s, i, p, j, caps, depth)
              [] OTHER -> IF one THEN Inner(s, i + 1, p, e, caps, depth) ELSE None(caps)

-----------------------------------------------------------------------------
(* The functions.  out is what has come out: for find the two positions and  *)
(* the captures; for gmatch the matches so far; for gsub the pieces of the   *)
(* result, each the place it came from and whether it was replaced.          *)

\* Positions from the end are negative.
PosRelat(pos, len) == IF pos >= 0 THEN pos ELSE pos + len + 1

AtLeast(n, low) == IF n < low THEN low ELSE n
AtMost(n, high) == IF n > high THEN high ELSE n

\* str_sub.
Sub(s, i, j) ==
  LET start == AtLeast(PosRelat(i, Len(s)), 1)
      end == AtLeast(AtMost(PosRelat(j, Len(s)), Len(s)), 0)
  IN IF start <= end THEN SubSeq(s, start, end) ELSE <<>>

Anchored(p) == p # <<>> /\ p[1] = "^"
Body(p) == IF Anchored(p) THEN Tail(p) ELSE p

Begin(op, s, p, init, max, repl) ==
  [op |-> op, s |-> s, p |-> p, init |-> init, max |-> max, repl |-> repl, count |-> 0, out |-> <<>>,
   pos |-> IF op = "find" THEN AtLeast(PosRelat(init, Len(s)), 1) ELSE 1, status |-> "run"]

Try == Match(m.s, m.pos, Body(m.p), 1, <<>>, 0)
Open(r) == \E k \in DOMAIN r.caps : r.caps[k].len = Unfinished
Answer(r) == [from |-> m.pos, end |-> r.end, caps |-> r.caps]

Stop(status) == m' = [m EXCEPT !.status = status]

\* A pattern in error, or a match in which a capture is not finished.
Fail(r) == r.err # "" \/ (r.end > 0 /\ Open(r))

FindStep ==
  /\ m.op = "find"
  /\ LET r == Try
     IN IF Fail(r) THEN Stop("error")
        ELSE IF r.end > 0 THEN m' = [m EXCEPT !.out = <<Answer(r)>>, !.status = "done"]
        ELSE m' = [m EXCEPT !.pos = m.pos + 1,
                            !.status = IF Anchored(m.p) \/ m.pos > Len(m.s) THEN "done" ELSE "run"]

\* Slip: an empty match does not move on.
PastMatchStays(pos, end) == end
\* An empty match is followed by the place after it.
PastMatch(pos, end) == IF end = pos THEN end + 1 ELSE end

\* The iterator of gmatch, from one place; it remembers where to go on.
GmatchStep ==
  /\ m.op = "gmatch"
  /\ LET r == Try
     IN IF m.pos > Len(m.s) + 1 THEN Stop("done")
        ELSE IF Fail(r) THEN Stop("error")
        ELSE IF r.end > 0 THEN m' = [m EXCEPT !.out = Append(m.out, Answer(r)), !.pos = PastMatch(m.pos, r.end)]
        ELSE m' = [m EXCEPT !.pos = m.pos + 1, !.status = IF Anchored(m.p) THEN "done" ELSE "run"]

\* What a capture stands for; a position is its number.
CaptureText(s, cap) ==
  IF cap.len = Position THEN <<cap.start>> ELSE SubSeq(s, cap.start, cap.start + cap.len - 1)

(***************************************************************************)
(* The replacement of a match by a template, from character k of it on;    *)
(* bad when it names a capture that is not there or not finished.  %1      *)
(* without captures is the whole match.                                    *)
(***************************************************************************)
RECURSIVE Expand(_, _, _, _)
Expand(t, k, whole, caps) ==
  LET n == CHOOSE x \in 0 .. 2 : <<"0", "1", "2">>[x + 1] = t[k + 1]
      all == n = 0 \/ (n = 1 /\ caps = <<>>)
      with(text, next) ==
        LET rest == Expand(t, next, whole, caps)
        IN [rest EXCEPT !.text = text \o rest.text]
  IN IF k > Len(t) THEN [bad |-> FALSE, text |-> <<>>]
     ELSE IF t[k] = "%" /\ k < Len(t) /\ t[k + 1] \in Digits
     THEN IF all THEN with(whole, k + 2)
          ELSE IF n \notin DOMAIN caps \/ caps[n].len = Unfinished THEN [bad |-> TRUE, text |-> <<>>]
          ELSE with(CaptureText(m.s, caps[n]), k + 2)
     ELSE IF t[k] = "%" /\ k < Len(t) /\ t[k + 1] = "%" THEN with(<<"%">>, k + 2)
     ELSE with(<<t[k]>>, k + 1)

Piece(from, end, replaced, text) == [from |-> from, end |-> end, replaced |-> replaced, text |-> text]
Kept(from, end) ==
  IF from < end THEN <<Piece(from, end, FALSE, SubSeq(m.s, from, end - 1))>> ELSE <<>>

\* gsub: the character behind an empty match, or where none begins, is kept.
GsubStep ==
  /\ m.op = "gsub"
  /\ LET r == Try
         size == Len(m.s) + 1
         single == Kept(m.pos, AtMost(m.pos + 1, size))
         past == IF r.end > 0 THEN PastMatch(m.pos, r.end) ELSE m.pos + 1
         by == Expand(m.repl, 1, SubSeq(m.s, m.pos, r.end - 1), r.caps)
         pieces == m.out \o (IF r.end > 0 THEN <<Piece(m.pos, r.end, TRUE, by.text)>> ELSE <<>>)
                         \o (IF r.end > m.pos THEN <<>> ELSE single)
     IN IF m.count >= m.max \/ m.pos > size
        THEN m' = [m EXCEPT !.out = m.out \o Kept(m.pos, size), !.status = "done"]
        ELSE IF r.err # "" \/ (r.end > 0 /\ by.bad) THEN Stop("error")
        ELSE LET next == [m EXCEPT !.out = pieces, !.pos = past, !.count = IF r.end > 0 THEN m.count + 1 ELSE @]
             IN m' = IF Anchored(m.p)
                     THEN [next EXCEPT !.out = pieces \o Kept(past, size), !.status = "done"]
                     ELSE next

Step == m.status = "run" /\ (FindStep \/ GmatchStep \/ GsubStep)
=============================================================================
