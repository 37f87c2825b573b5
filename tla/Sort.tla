-------------------------------- MODULE Sort --------------------------------
(***************************************************************************)
(* table.sort (stdlib/table.rs): median of three, partition by two scans   *)
(* that run towards each other, recursion into the smaller part.  A step   *)
(* is one question to the comparison and what the sort does until the next *)
(* one.  The comparison is the program's: it may be an order, answer at    *)
(* random, fail, or write the table that is being sorted.                  *)
(***************************************************************************)
EXTENDS Integers, Sequences, FiniteSets, SequencesExt

CONSTANT Values   \* what a table holds, ordered as the numbers that they are

VARIABLE m   \* the sort: see Begin

\* "order": a strict order; "any": any answer at any time, or an error;
\* "meddle": an order that once, during a question, writes an entry.
Comparisons == {"order", "any", "meddle"}

(***************************************************************************)
(* a: the table, in its array part or not; frames: the calls of auxsort,   *)
(* the running one last; asked: the places whose values are compared, and  *)
(* vals those values, read before the question.                            *)
(***************************************************************************)
Frame(l, u) == [l |-> l, u |-> u, i |-> 0, j |-> 0, pc |-> "ends", pivot |-> 0]

Middle(f) == (f.l + f.u) \div 2
Top == m.frames[Len(m.frames)]

\* The two values that are compared where a call of auxsort stands.
Question(a, f) ==
  CASE f.pc = "ends" -> <<a[f.u], a[f.l]>>
    [] f.pc = "low" -> <<a[Middle(f)], a[f.l]>>
    [] f.pc = "high" -> <<a[f.u], a[Middle(f)]>>
    [] f.pc = "up" -> <<a[f.i], f.pivot>>
    [] f.pc = "down" -> <<f.pivot, a[f.j]>>

\* The sort waits for an answer, with frames as they are.
Asks(a, frames) ==
  [m EXCEPT !.a = a, !.frames = frames, !.vals = Question(a, frames[Len(frames)])]
Stops(verdict) == [m EXCEPT !.verdict = verdict]

\* The top of the loop: a part of one entry or none is sorted.
RECURSIVE Loop(_, _)
Loop(a, frames) ==
  IF frames = <<>> THEN [m EXCEPT !.a = a, !.frames = <<>>, !.verdict = "done"]
  ELSE IF Last(frames).l < Last(frames).u THEN Asks(a, frames)
  ELSE Loop(a, Front(frames))

With(f) == Append(Front(m.frames), f)

\* swap_sort_values: entries of the array part change places as they are now,
\* others are written with the values read before.
Swap(i, x, j, y) ==
  IF i = j THEN m.a
  ELSE IF m.inArray THEN [m.a EXCEPT ![i] = m.a[j], ![j] = m.a[i]]
  ELSE [m.a EXCEPT ![i] = y, ![j] = x]

\* Two entries only, or three: the part is done.
Finish(a) == Loop(a, Front(m.frames))

-----------------------------------------------------------------------------
Ends(yes) ==
  LET f == Top
      a == IF yes THEN Swap(f.l, m.vals[2], f.u, m.vals[1]) ELSE m.a
  IN /\ f.pc = "ends"
     /\ m' = IF f.u - f.l = 1 THEN Finish(a) ELSE Asks(a, With([f EXCEPT !.pc = "low"]))

\* The pivot goes to the last place but one, and the first scan begins.
Partition(a) ==
  LET f == Top
      p == a[Middle(f)]
      b == IF Middle(f) = f.u - 1 THEN a ELSE [a EXCEPT ![Middle(f)] = a[f.u - 1], ![f.u - 1] = p]
  IN IF f.u - f.l = 2 THEN Finish(a)
     ELSE Asks(b, With([f EXCEPT !.pc = "up", !.i = f.l + 1, !.j = f.u - 1, !.pivot = p]))

Low(yes) ==
  LET f == Top
  IN /\ f.pc = "low"
     /\ m' = IF yes THEN Partition(Swap(Middle(f), m.vals[1], f.l, m.vals[2]))
             ELSE Asks(m.a, With([f EXCEPT !.pc = "high"]))

High(yes) ==
  LET f == Top
  IN /\ f.pc = "high"
     /\ m' = Partition(IF yes THEN Swap(Middle(f), m.vals[2], f.u, m.vals[1]) ELSE m.a)

\* scan_sort_forward and scan_sort_backward; the scan does not leave the part.
Up(yes) ==
  LET f == Top
  IN /\ f.pc = "up"
     /\ m' = IF ~yes THEN [Asks(m.a, With([f EXCEPT !.pc = "down", !.j = f.j - 1]))
                             EXCEPT !.found = m.vals[1]]
             ELSE IF f.i + 1 > f.u THEN Stops("invalid")
             ELSE Asks(m.a, With([f EXCEPT !.i = f.i + 1]))

\* The smaller part is sorted by a call, the larger by the loop.
\* Slip: the last entry of the right part is taken for sorted.
LargerShort(f) == IF f.i - f.l < f.u - f.i THEN Frame(f.i + 1, f.u - 1) ELSE Frame(f.l, f.i - 1)
Larger(f) == IF f.i - f.l < f.u - f.i THEN Frame(f.i + 1, f.u) ELSE Frame(f.l, f.i - 1)

Smaller(f) == IF f.i - f.l < f.u - f.i THEN Frame(f.l, f.i - 1) ELSE Frame(f.i + 1, f.u)
Divided(a, f) == Loop(a, Front(m.frames) \o <<Larger(f), Smaller(f)>>)

Down(yes) ==
  LET f == Top
  IN /\ f.pc = "down"
     /\ m' = IF yes /\ f.j - 1 < f.l THEN Stops("invalid")
             ELSE IF yes THEN Asks(m.a, With([f EXCEPT !.j = f.j - 1]))
             ELSE IF f.j < f.i THEN Divided(Swap(f.u - 1, f.pivot, f.i, m.a[f.i]), f)
             ELSE Asks(Swap(f.i, m.found, f.j, m.vals[2]),
                       With([f EXCEPT !.pc = "up", !.i = f.i + 1]))

-----------------------------------------------------------------------------
Running == m.verdict = "run"

Answers == IF m.comp = "any" THEN BOOLEAN ELSE {m.vals[1] < m.vals[2]}

Answer == Running /\ \E yes \in Answers : Ends(yes) \/ Low(yes) \/ High(yes) \/ Up(yes) \/ Down(yes)

Fail == Running /\ m.comp = "any" /\ m' = Stops("failed")

\* The comparison writes the table, once.
Meddle ==
  /\ Running /\ m.comp = "meddle" /\ ~m.meddled
  /\ \E i \in DOMAIN m.a, v \in Values : m' = [m EXCEPT !.a[i] = v, !.meddled = TRUE]

\* tab_sort, of a table with at least two entries: others are left as they are.
Begin(a, comp, inArray) ==
  [a |-> a, from |-> a, comp |-> comp, inArray |-> inArray, meddled |-> FALSE, found |-> 0,
   frames |-> <<Frame(1, Len(a))>>, verdict |-> "run",
   vals |-> <<a[Len(a)], a[1]>>]

Next == Answer \/ Fail \/ Meddle
=============================================================================
