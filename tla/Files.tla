-------------------------------- MODULE Files --------------------------------
(***************************************************************************)
(* The io library: handles over the streams of the C library, the default   *)
(* input and output in the registry, iterators over lines, and the          *)
(* collector, which closes what nobody can reach any more.  A stream is     *)
(* what fopen, popen or tmpfile returned; its buffers are its own affair.   *)
(***************************************************************************)
EXTENDS Integers, Sequences, FiniteSets, SequencesExt

CONSTANT Content   \* of the files there are: characters by name

VARIABLE m   \* handles, streams, defaults, iterators, what the program holds

None == 0
Newline == "newline"
Digits == {"1", "2"}

-----------------------------------------------------------------------------
(* Streams, which is C.                                                      *)

Stream(text, kind) == [text |-> text, kind |-> kind, pos |-> 0, open |-> TRUE]

Opens(name, mode) == mode = "w" \/ name \in DOMAIN Content
Fopen(name, mode) == Stream(IF mode = "w" THEN <<>> ELSE Content[name], "file")

\* A stream that is closed, or not of this kind, must not be given to C.
Touched(after, s, kinds) == [after EXCEPT !.wrong = @ \/ ~m.streams[s].open \/ m.streams[s].kind \notin kinds]
Used(after, s) == Touched(after, s, {"file", "pipe"})

-----------------------------------------------------------------------------
(* Handles.                                                                  *)

IsOpen(h) == m.files[h].file # None
IoType(h) == IF IsOpen(h) THEN "file" ELSE "closed file"

NewFile(after, stream, isPipe, isStd) ==
  [after EXCEPT !.streams = Append(@, stream),
                !.files = Append(@, [file |-> Len(after.streams) + 1, isPipe |-> isPipe, isStd |-> isStd, freed |-> FALSE])]

\* Slip: the pointer stays behind.
AuxCloseStale(h) ==
  LET s == m.files[h].file
  IN [Touched(m, s, {IF m.files[h].isPipe THEN "pipe" ELSE "file"}) EXCEPT !.streams[s].open = FALSE]

\* fclose or pclose, with the handle emptied before.
AuxClose(h) ==
  LET s == m.files[h].file
  IN [Touched(m, s, {IF m.files[h].isPipe THEN "pipe" ELSE "file"}) EXCEPT
        !.streams[s].open = FALSE, !.files[h].file = None]

\* A call by the program, which gets the handles `news' into its hands.
Call(after, news) == m' = [after EXCEPT !.did = @ + 1, !.held = @ \cup news]
Fails == Call(m, {})
May == m.did < m.limit
Room == Len(m.files) < m.room

Newest == Len(m.files) + 1

IoOpen(name, mode) ==
  /\ May /\ Room
  /\ IF Opens(name, mode) THEN Call(NewFile(m, Fopen(name, mode), FALSE, FALSE), {Newest}) ELSE Fails
IoTmpfile == May /\ Room /\ Call(NewFile(m, Stream(<<>>, "file"), FALSE, FALSE), {Newest})
IoPopen == May /\ Room /\ Call(NewFile(m, Stream(<<"x">>, "pipe"), TRUE, FALSE), {Newest})

\* close(file), and close() of the default output.
Close(h) == IF IsOpen(h) THEN Call(AuxClose(h), {}) ELSE Fails
IoClose == May /\ \/ \E h \in m.held : Close(h)
                  \/ Close(m.default.output)

\* The finalizer: the collector's, and the one the program calls itself.
IoGc(h) == IF IsOpen(h) /\ ~m.files[h].isStd THEN AuxClose(h) ELSE m
ProgramGc == May /\ \E h \in m.held : Call(IoGc(h), {})

Reachable ==
  m.held \cup Range(m.default) \cup {h \in DOMAIN m.files : m.files[h].isStd}
         \cup {m.iters[i].file : i \in {j \in DOMAIN m.iters : m.iters[j].held}}
Finalize ==
  \E h \in DOMAIN m.files \ Reachable :
    /\ ~m.files[h].freed
    /\ m' = [IoGc(h) EXCEPT !.files[h].freed = TRUE]

\* The program loses a handle, or an iterator.
Forget ==
  /\ May
  /\ \/ \E h \in m.held : m' = [m EXCEPT !.held = @ \ {h}, !.did = @ + 1]
     \/ \E i \in DOMAIN m.iters : m.iters[i].held /\ m' = [m EXCEPT !.iters[i].held = FALSE, !.did = @ + 1]

\* input and output: which one it is, or another one from now on.
IoFile(key, mode) ==
  /\ May
  /\ \/ Call(m, {m.default[key]})
     \/ \E h \in m.held : Call([m EXCEPT !.default[key] = h], {h})
     \/ \E name \in DOMAIN Content \cup {"missing"} :
          IF Opens(name, mode)
          THEN Room /\ Call([NewFile(m, Fopen(name, mode), FALSE, FALSE) EXCEPT !.default[key] = Newest], {Newest})
          ELSE Fails

\* write, flush and setvbuf, of a handle and of the default.
Use(h) == IF IsOpen(h) THEN Call(Used(m, m.files[h].file), {}) ELSE Fails
IoUse == May /\ \/ \E h \in m.held : Use(h)
                \/ Use(m.default.output)

-----------------------------------------------------------------------------
(* Reading: a number, a line, the rest, or so many characters.  Each format  *)
(* has its answer: success, what is pushed, and where the stream is then.    *)

From(text, pos) == SubSeq(text, pos + 1, Len(text))
Prefix(text, P(_)) == SelectInSeq(text \o <<"end">>, LAMBDA c : ~P(c)) - 1   \* how many satisfy P

ReadNumber(text, pos) ==
  LET blanks == Prefix(From(text, pos), LAMBDA c : c = Newline)
      n == Prefix(From(text, pos + blanks), LAMBDA c : c \in Digits)
  IN [ok |-> n > 0, pushed |-> IF n > 0 THEN <<SubSeq(text, pos + blanks + 1, pos + blanks + n)>> ELSE <<>>,
      pos |-> pos + blanks + n]

ReadLine(text, pos) ==
  LET n == Prefix(From(text, pos), LAMBDA c : c # Newline /\ c # "end")
      ends == pos + n < Len(text)
  IN [ok |-> n > 0 \/ ends, pushed |-> IF n > 0 \/ ends THEN <<SubSeq(text, pos + 1, pos + n)>> ELSE <<>>,
      pos |-> pos + n + (IF ends THEN 1 ELSE 0)]

ReadChars(text, pos, n) ==
  LET got == IF pos + n > Len(text) THEN Len(text) - pos ELSE n
  IN [ok |-> n = 0 \/ got > 0, pushed |-> <<SubSeq(text, pos + 1, pos + got)>>, pos |-> pos + got]

TestEof(text, pos) == [ok |-> pos < Len(text), pushed |-> <<<<>>>>, pos |-> pos]

Answer(text, pos, format) ==
  CASE format = <<"*n">> -> ReadNumber(text, pos)
    [] format = <<"*l">> -> ReadLine(text, pos)
    [] format = <<"*a">> -> [ReadChars(text, pos, Len(text) - pos) EXCEPT !.ok = TRUE]
    [] format = <<"0">> -> TestEof(text, pos)
    [] OTHER -> ReadChars(text, pos, IF format = <<"1">> THEN 1 ELSE 2)

\* One format after the other until one fails; `stack' starts with the arguments.
Reading(text, pos, formats) ==
  LET step[i \in 0 .. Len(formats)] ==
        IF i = 0 THEN [ok |-> TRUE, pos |-> pos, count |-> 0, stack |-> formats]
        ELSE LET before == step[i - 1]
             IN IF ~before.ok THEN before
                ELSE LET answer == Answer(text, before.pos, formats[i])
                     IN [ok |-> answer.ok, pos |-> answer.pos, count |-> i, stack |-> before.stack \o answer.pushed]
  IN step[Len(formats)]

Nil == <<"nil">>
\* Slip: the value of the format that failed is left on the stack.
ReturnedUnpopped(done) ==
  LET stack == IF done.ok THEN done.stack ELSE Append(done.stack, Nil)
  IN SubSeq(stack, Len(stack) - done.count + 1, Len(stack))

\* Whatever is on top gives way to nil, if a format failed.
Returned(done) ==
  LET stack == IF done.ok THEN done.stack ELSE Append(Front(done.stack), Nil)
  IN SubSeq(stack, Len(stack) - done.count + 1, Len(stack))

\* g_read, with a line for want of formats.
Read(h, formats) ==
  IF ~IsOpen(h) THEN Fails
  ELSE LET s == m.files[h].file
           done == Reading(m.streams[s].text, m.streams[s].pos, IF formats = <<>> THEN <<<<"*l">>>> ELSE formats)
       IN Call([Used(m, s) EXCEPT !.streams[s].pos = done.pos,
                                  !.last = [formats |-> formats, stream |-> s, from |-> m.streams[s].pos,
                                            to |-> done.pos, values |-> Returned(done)]], {})
IoRead(formats) == May /\ \/ \E h \in m.held : Read(h, formats)
                          \/ Read(m.default.input, formats)

\* seek: from the start, from here, from the end; not before the start.
Seek(h, whence, offset) ==
  IF ~IsOpen(h) THEN Fails
  ELSE LET s == m.files[h].file
           base == CASE whence = "set" -> 0 [] whence = "cur" -> m.streams[s].pos [] OTHER -> Len(m.streams[s].text)
       IN Call([Used(m, s) EXCEPT
                  !.streams[s].pos = IF base + offset < 0 \/ m.streams[s].kind = "pipe" THEN @ ELSE base + offset], {})
FSeek == May /\ \E h \in m.held, whence \in {"set", "cur", "end"}, offset \in {0, -1} : Seek(h, whence, offset)

-----------------------------------------------------------------------------
(* Lines: the iterator has its file, and closes it at the end if it opened   *)
(* it.                                                                       *)

AuxLines(after, h, toclose) ==
  Call([after EXCEPT !.iters = Append(@, [file |-> h, stream |-> after.files[h].file, toclose |-> toclose,
                                          lines |-> <<>>, held |-> TRUE, ended |-> FALSE])], {})
FewLines == Len(m.iters) < 2

FLines == May /\ FewLines /\ \E h \in m.held : IF IsOpen(h) THEN AuxLines(m, h, FALSE) ELSE Fails
IoLines ==
  /\ May /\ FewLines
  /\ \/ AuxLines(m, m.default.input, FALSE)
     \/ \E name \in DOMAIN Content \cup {"missing"} :
          IF Opens(name, "r") THEN Room /\ AuxLines(NewFile(m, Fopen(name, "r"), FALSE, FALSE), Newest, TRUE) ELSE Fails

IoReadline ==
  /\ May
  /\ \E i \in DOMAIN m.iters :
       /\ m.iters[i].held
       /\ LET h == m.iters[i].file
              s == m.files[h].file
              answer == ReadLine(m.streams[s].text, m.streams[s].pos)
          IN IF ~IsOpen(h) THEN Fails
             ELSE IF answer.ok
             THEN Call([Used(m, s) EXCEPT !.streams[s].pos = answer.pos, !.iters[i].lines = @ \o answer.pushed], {})
             ELSE Call([(IF m.iters[i].toclose THEN AuxClose(h) ELSE m) EXCEPT !.iters[i].ended = TRUE], {})

-----------------------------------------------------------------------------
(* open_io_lib: the standard files, of which two are the defaults.  A        *)
(* behaviour is about handles, or about what reads return.                   *)

Begin(what, room, limit, text) ==
  [files |-> [i \in 1 .. 3 |-> [file |-> i, isPipe |-> FALSE, isStd |-> TRUE, freed |-> FALSE]],
   streams |-> [i \in 1 .. 3 |-> Stream(IF i = 1 THEN text ELSE <<>>, "file")],
   default |-> [input |-> 1, output |-> 2], iters |-> <<>>, held |-> {}, wrong |-> FALSE, about |-> what,
   last |-> [formats |-> <<>>, stream |-> None, from |-> 0, to |-> 0, values |-> <<>>],
   did |-> 0, room |-> room, limit |-> limit]

Formats == {<<"*n">>, <<"*l">>, <<"*a">>, <<"0">>, <<"1">>, <<"2">>}

Step ==
  \/ /\ m.about = "handles"
     /\ \/ \E name \in DOMAIN Content \cup {"missing"} : IoOpen(name, "r")
        \/ IoOpen("new", "w")
        \/ IoTmpfile \/ IoPopen \/ IoClose \/ ProgramGc \/ Forget \/ IoUse \/ IoRead(<<>>)
        \/ IoFile("input", "r") \/ IoFile("output", "w")
        \/ FLines \/ IoLines
  \/ Finalize \/ IoReadline
  \/ /\ m.about = "reads"
     /\ \/ \E formats \in {<<>>} \cup {<<f>> : f \in Formats} \cup (Formats \X Formats) : IoRead(formats)
        \/ IoFile("input", "r") \/ FSeek \/ FLines
=============================================================================
