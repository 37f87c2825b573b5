----------------------------- MODULE MCKeepAlive -----------------------------
EXTENDS KeepAlive
CONSTANTS t, w, f, u1, u2, s
MCAge == [u \in {u1, u2} |-> IF u = u1 THEN 1 ELSE 2]
None == [o \in {t, w} |-> {}]
MCStarts == {
  [fields |-> [None EXCEPT ![t] = {<<Plain, w>>}, ![w] = {<<u1, s>>, <<Plain, u2>>}],
   mode |-> [None EXCEPT ![w] = {"key"}], holds |-> [g \in {f} |-> Nil],
   held |-> {t, f}],
  [fields |-> [None EXCEPT ![w] = {<<Plain, t>>, <<s, u2>>}],
   mode |-> [None EXCEPT ![w] = {"value"}], holds |-> [g \in {f} |-> u1],
   held |-> {w, f}]}
=============================================================================
