---------------------------- MODULE PatternSpec ----------------------------
(***************************************************************************)
(* What patterns mean, by the reference manual (5.4.1) and not by the      *)
(* code.  A pattern is a sequence of parts; all its matches at a place are *)
(* listed in the order in which they are preferred, and the first counts.  *)
(***************************************************************************)
EXTENDS Integers, Sequences, FiniteSets, SequencesExt

LOCAL Set(text, k, set) == [text |-> text, k |-> k, set |-> set]
LOCAL Other(text, k) == [text |-> text, k |-> k, set |-> {}]

Alphabet == {"a", "b", "1"}

\* The parts that patterns here are put together from: classes with a
\* repetition, captures, and the items of their own kind.
Parts ==
  [ a |-> Set(<<"a">>, "one", {"a"}),
    dot |-> Set(<<".">>, "one", Alphabet),
    noDigit |-> Set(<<"%", "D">>, "one", {"a", "b"}),
    notA |-> Set(<<"[", "^", "a", "]", "-">>, "few", {"b", "1"}),
    letters |-> Set(<<"[", "]", "a", "-", "c", "]", "+">>, "some", {"a", "b"}),
    classIn |-> Set(<<"[", "%", "d", "b", "]", "?">>, "maybe", {"b", "1"}),
    many |-> Set(<<".", "*">>, "many", Alphabet),
    few |-> Set(<<"%", "a", "-">>, "few", {"a", "b"}),
    maybe |-> Set(<<"a", "?">>, "maybe", {"a"}),
    manyA |-> Set(<<"a", "*">>, "many", {"a"}),
    open |-> Other(<<"(">>, "open"),
    close |-> Other(<<")">>, "close"),
    here |-> Other(<<"(", ")">>, "here"),
    again |-> Other(<<"%", "1">>, "again"),
    balance |-> Other(<<"%", "b", "a", "b">>, "balance"),
    frontier |-> Set(<<"%", "f", "[", "a", "b", "]">>, "frontier", {"a", "b"}),
    end |-> Other(<<"$">>, "end") ]

TextOf(names) == FlattenSeq([i \in DOMAIN names |-> Parts[names[i]].text])

\* An opening parenthesis before a closing one would read as a position, and
\* a dollar sign is an anchor at the end only.
Readable(names) ==
  \A i \in 1 .. Len(names) - 1 : names[i] # "end" /\ ~(names[i] = "open" /\ names[i + 1] = "close")

-----------------------------------------------------------------------------
(* Parentheses, and which capture a part opens or closes.                    *)

LOCAL Count(names, kinds, from, to) == Cardinality({i \in from .. to : names[i] \in kinds})

Balanced(names) ==
  /\ \A i \in DOMAIN names : Count(names, {"close"}, 1, i) <= Count(names, {"open"}, 1, i)
  /\ Count(names, {"close"}, 1, Len(names)) = Count(names, {"open"}, 1, Len(names))

Number(names, i) == Count(names, {"open", "here"}, 1, i)

Opener(names, i) ==
  CHOOSE o \in 1 .. i - 1 :
    /\ names[o] = "open"
    /\ Count(names, {"open"}, o, i) = Count(names, {"close"}, o, i)
    /\ \A k \in o + 1 .. i - 1 : Count(names, {"open"}, k, i) < Count(names, {"close"}, k, i)

\* The first capture is closed before it is referred to.
WellFormed(names) ==
  /\ Balanced(names)
  /\ \A i \in DOMAIN names : names[i] = "again" =>
       \E c \in 1 .. i - 1 : names[c] = "close" /\ Number(names, Opener(names, c)) = 1

-----------------------------------------------------------------------------
(* All matches of parts k.. of a pattern from place i of s on, the preferred *)
(* ones first: where they end and what the captures are.                     *)

RECURSIVE Ways(_, _, _, _, _)

LOCAL Run(s, i, set) ==
  CHOOSE n \in 0 .. Len(s) - i + 1 :
    /\ \A x \in i .. i + n - 1 : s[x] \in set
    /\ i + n <= Len(s) => s[i + n] \notin set

LOCAL Text(s, cap) == SubSeq(s, cap.start, cap.start + cap.len - 1)

\* A balanced string: as many of both, and never so before its end.
LOCAL Balances(s, i, e) ==
  LET n(c, to) == Cardinality({x \in i .. to : s[x] = c})
  IN /\ s[i] = "a" /\ n("a", e) = n("b", e)
     /\ \A x \in i .. e - 1 : n("a", x) > n("b", x)

Ways(names, k, s, i, caps) ==
  LET part == Parts[names[k]]
      after(n) == Ways(names, k + 1, s, i + n, caps)
      run == Run(s, i, part.set)
      upto(lo, hi) == FlattenSeq([x \in 1 .. hi - lo + 1 |-> after(hi + 1 - x)])
      number == Number(names, k)
      same == Text(s, caps[1])
      balanced == {e \in i .. Len(s) : Balances(s, i, e)}
      in(x) == x \in DOMAIN s /\ s[x] \in part.set
  IN IF k > Len(names) THEN <<[end |-> i, caps |-> caps]>>
     ELSE CASE part.k = "one" -> IF run > 0 THEN after(1) ELSE <<>>
            [] part.k = "many" -> upto(0, run)
            [] part.k = "some" -> upto(1, run)
            [] part.k = "maybe" -> upto(0, IF run > 0 THEN 1 ELSE 0)
            [] part.k = "few" -> FlattenSeq([x \in 1 .. run + 1 |-> after(x - 1)])
            [] part.k = "open" -> Ways(names, k + 1, s, i, Append(caps, [start |-> i, len |-> -1]))
            [] part.k = "here" -> Ways(names, k + 1, s, i, Append(caps, [start |-> i, len |-> -2]))
            [] part.k = "close" ->
                 LET n == Number(names, Opener(names, k))
                 IN Ways(names, k + 1, s, i, [caps EXCEPT ![n].len = i - caps[n].start])
            [] part.k = "again" ->
                 IF i + Len(same) - 1 <= Len(s) /\ SubSeq(s, i, i + Len(same) - 1) = same
                 THEN after(Len(same)) ELSE <<>>
            [] part.k = "balance" ->
                 IF balanced = {} THEN <<>> ELSE after((CHOOSE e \in balanced : TRUE) - i + 1)
            [] part.k = "frontier" -> IF in(i) /\ ~in(i - 1) THEN after(0) ELSE <<>>
            [] part.k = "end" -> IF i = Len(s) + 1 THEN after(0) ELSE <<>>

\* The match at a place, and the first place from i on that has one, none
\* being behind the end.
At(names, s, i) == Ways(names, 1, s, i, <<>>)
Matches(names, s, i) == At(names, s, i) # <<>>
=============================================================================
