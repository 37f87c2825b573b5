------------------------------ MODULE Debugging ------------------------------
(***************************************************************************)
(* Debug hooks and stack levels.  A hook runs in the middle of what the     *)
(* machine does: behind the start of a call, before an instruction, before  *)
(* a frame is left; it may call, fail, or install another hook, and then    *)
(* the machine goes on.  A tail call puts the new function in the frame of  *)
(* the one that makes it, and the frame counts the functions it has lost.   *)
(*                                                                         *)
(* A hook for a return event that fails is left out: see the README.        *)
(***************************************************************************)
EXTENDS Integers, Sequences, FiniteSets, SequencesExt

CONSTANTS Lines,            \* line_info of every function
          LEVELS1, LEVELS2, \* of a traceback
          MaxFrames,        \* for each topic: levels, events, lines
          MaxTails

VARIABLE m   \* the frames, the hook, and what the machine was about to do

(***************************************************************************)
(* Frames of the running thread, above its first one.  prev and steady are  *)
(* for the properties: the instruction before, and whether line hooks were  *)
(* on when it ran.                                                          *)
(***************************************************************************)
Frame(lua, hook) == [lua |-> lua, hook |-> hook, tails |-> 0, saved |-> 0, next |-> 1, prev |-> 0, steady |-> TRUE]
Push(s, frame) == [s EXCEPT !.frames = Append(@, frame)]
With(s, frame) == [s EXCEPT !.frames = Append(Front(@), frame)]
Top(s) == Last(s.frames)

NoHook == [set |-> FALSE, mask |-> {}, base |-> 0, count |-> 0]

-----------------------------------------------------------------------------
(* What the machine does when the hooks for it have run.                     *)

PopFrame(s) == [s EXCEPT !.frames = Front(@)]

\* The callee's frame is put in place of the caller's.
InPlace(s, tails) ==
  LET n == Len(s.frames)
  IN [s EXCEPT !.frames = Append(SubSeq(@, 1, n - 2), [s.frames[n] EXCEPT !.tails = tails, !.hook = s.frames[n - 1].hook])]

Merged(s) == InPlace(s, s.frames[Len(s.frames) - 1].tails + 1)

Done(s, what) ==
  CASE what = "pop" -> PopFrame(s)
    [] what = "tail" -> Merged(s)
    [] OTHER -> s

Watched(s) == {"call", "return"} \subseteq s.hook.mask

\* callhook, for one event after the other: what is left waits in the queue.
CallHook(s, events, what) ==
  IF events # <<>> /\ s.allow /\ s.hook.set
  THEN Push([s EXCEPT !.allow = FALSE, !.queue = Tail(events), !.what = what,
                      !.balance = @ + (IF ~Watched(s) THEN 0 ELSE IF events[1] = "call" THEN 1 ELSE -1)],
            Frame(TRUE, TRUE))
  ELSE Done(s, what)

\* The hook has returned, and hooks are allowed again.
Resumed(s) == LET after == [PopFrame(s) EXCEPT !.allow = TRUE, !.queue = <<>>, !.what = "none"]
              IN CallHook(after, s.queue, s.what)

-----------------------------------------------------------------------------
Room == Len(m.frames) < MaxFrames[m.topic]

\* precall: the caller's place is saved, and the frame is there when the hook runs.
Precall(lua, what) ==
  LET saved == With(m, [Top(m) EXCEPT !.saved = Top(m).prev])
  IN CallHook(Push(saved, Frame(lua, FALSE)), IF "call" \in m.hook.mask THEN <<"call">> ELSE <<>>, what)

MayCall == Room /\ Top(m).lua /\ (m.topic = "lines" => Top(m).prev # 0)
Call(lua) == MayCall /\ m' = Precall(lua, "none")
TailCall == MayCall /\ Top(m).tails < MaxTails[m.topic] /\ m' = Precall(TRUE, "tail")

\* poscall, of any frame but the first.
ReturnEvents(frame) == <<"return">> \o [i \in 1 .. frame.tails |-> "tail return"]
Return ==
  /\ Len(m.frames) > 1
  /\ m' = IF Top(m).hook THEN Resumed(m)
          ELSE CallHook(m, IF "return" \in m.hook.mask THEN ReturnEvents(Top(m)) ELSE <<>>, "pop")

\* traceexec: the hooks before an instruction, then the way to the next one.
LineFires(frame) ==
  \/ frame.next = 1
  \/ frame.next <= frame.saved
  \/ frame.saved = 0
  \/ Lines[frame.next] # Lines[frame.saved]
NewLine(frame) == frame.prev = 0 \/ frame.next <= frame.prev \/ Lines[frame.next] # Lines[frame.prev]

Instruction(next) ==
  LET frame == Top(m)
      counting == "count" \in m.hook.mask
      lining == "line" \in m.hook.mask
      counted == counting /\ m.hook.count = 1
      fires == lining /\ LineFires(frame)
      events == (IF counted THEN <<"count">> ELSE <<>>) \o (IF fires THEN <<"line">> ELSE <<>>)
      after == [frame EXCEPT !.next = next, !.prev = frame.next, !.steady = lining,
                             !.saved = IF counted \/ lining THEN frame.next ELSE @]
  IN /\ m.topic = "lines" /\ frame.lua
     /\ m' = CallHook([With(m, after) EXCEPT
                         !.hook.count = IF ~counting THEN @ ELSE IF counted THEN m.hook.base ELSE @ - 1,
                         !.wrong = lining /\ frame.steady /\ (fires # NewLine(frame))], events, "none")

-----------------------------------------------------------------------------
(* Levels as the program counts them, for the properties: a frame that is    *)
(* being left has only the events it still waits for.                        *)
RECURSIVE SumOver(_, _)
SumOver(frames, set) ==
  IF set = {} THEN 0
  ELSE LET i == CHOOSE i \in set : TRUE IN 1 + frames[i].tails + SumOver(frames, set \ {i})
Levels(s) ==
  LET below == {i \in DOMAIN s.frames : \A j \in 1 .. i : ~s.frames[j].hook}
      leaving == IF s.what = "pop" THEN s.frames[Cardinality(below)].tails + 1 - Len(s.queue) ELSE 0
  IN SumOver(s.frames, below) - leaving
Rebased(s) == [s EXCEPT !.from = Levels(s), !.balance = 0]

\* sethook, called by the program or by the hook: the frames know nothing of it.
SetHook(mask, count) ==
  /\ m.topic # "levels" /\ ~Top(m).lua
  /\ m' = Rebased([m EXCEPT
                     !.hook = IF mask = {} /\ count = 0 THEN NoHook
                              ELSE [set |-> TRUE, mask |-> mask \cup (IF count > 0 THEN {"count"} ELSE {}),
                                    base |-> count, count |-> count],
                     !.frames = [i \in DOMAIN @ |-> [@[i] EXCEPT !.steady = FALSE]]])

\* Slip: hooks stay forbidden when the hook has failed.
AllowedAsBefore(kept) == m.allow

\* An error that passes through callhook allows hooks again, one caught above it does not.
Allowed(kept) == m.allow \/ \E i \in (kept + 1) .. Len(m.frames) : m.frames[i].hook

\* The function that a hook interrupts does not catch what the hook raises, nor
\* does the one that was about to be replaced.
Catches(k) ==
  /\ ~m.frames[k + 1].hook
  /\ m.what = "tail" => ~(k + 2 <= Len(m.frames) /\ m.frames[k + 2].hook)
  /\ m.what = "pop" => \E i \in 1 .. k : m.frames[i].hook

Raise ==
  \E kept \in 1 .. Len(m.frames) - 1 :
    /\ Catches(kept)
    /\ LET s == [m EXCEPT !.frames = SubSeq(@, 1, kept), !.allow = Allowed(kept)]
       IN m' = Rebased(IF \E i \in 1 .. kept : m.frames[i].hook THEN s ELSE [s EXCEPT !.queue = <<>>, !.what = "none"])

-----------------------------------------------------------------------------
(* resolve_stack_level_raw: a frame, an elided function, or nothing.         *)

RECURSIVE Walk(_, _)
Walk(ci, remaining) ==
  IF remaining > 0 /\ ci > 0
  THEN Walk(ci - 1, remaining - 1 - (IF m.frames[ci].lua THEN m.frames[ci].tails ELSE 0))
  ELSE IF remaining < 0 THEN "tail call"
  ELSE IF remaining = 0 /\ (ci > 0 \/ m.main) THEN ToString(ci) ELSE "none"
ResolveStackLevel(level) == Walk(Len(m.frames), level)

HasNoTailCalls == \A i \in DOMAIN m.frames : m.frames[i].tails = 0
\* Slip: the first frame of the main thread is no level.
CountFramesAbove == Len(m.frames)
CountFrames == Len(m.frames) + (IF m.main THEN 1 ELSE 0)

\* The lines of a traceback.
FrameRange(start, len) == [i \in 1 .. len |-> ToString(Len(m.frames) - (start + i - 1))]
TracebackWithoutTailCalls(start) ==
  LET remaining == CountFrames - start
      split == remaining > LEVELS1 + LEVELS2
  IN IF remaining <= 0 THEN <<>>
     ELSE IF split THEN FrameRange(start, LEVELS1) \o <<"...">> \o FrameRange(CountFrames - LEVELS2, LEVELS2)
     ELSE FrameRange(start, remaining)

RECURSIVE LinesFrom(_, _)
LinesFrom(level, first) ==
  LET at == ResolveStackLevel(level)
      past == CHOOSE probe \in (level + LEVELS2) .. (level + LEVELS2 + Len(m.frames) * (MaxTails[m.topic] + 1)) :
                /\ ResolveStackLevel(probe) = "none"
                /\ \A q \in (level + LEVELS2) .. (probe - 1) : ResolveStackLevel(q) # "none"
  IN CASE at = "none" -> <<>>
       [] at # "none" /\ level > LEVELS1 /\ first /\ ResolveStackLevel(level + LEVELS2) # "none" ->
            <<"...">> \o LinesFrom(past - LEVELS2, FALSE)
       [] OTHER -> <<at>> \o LinesFrom(level + 1, first /\ level <= LEVELS1)

Traceback(start) == IF HasNoTailCalls THEN TracebackWithoutTailCalls(start) ELSE LinesFrom(start, TRUE)

-----------------------------------------------------------------------------
\* A thread whose first function is a Lua function.
Begin(topic, main) ==
  [frames |-> <<Frame(TRUE, FALSE)>>, hook |-> NoHook, allow |-> TRUE, queue |-> <<>>, what |-> "none",
   balance |-> 0, from |-> 1, wrong |-> FALSE, topic |-> topic, main |-> main]

\* A hook, and what it calls, is straight code; other functions jump anywhere.
Ways == IF m.allow THEN DOMAIN Lines ELSE {Top(m).next + 1} \cap DOMAIN Lines
Masks == IF m.topic = "lines" THEN {{}, {"line"}} ELSE SUBSET {"call", "return"}
Counts == IF m.topic = "lines" THEN {0, 2} ELSE {0}

Step ==
  \/ \E lua \in BOOLEAN : Call(lua)
  \/ TailCall \/ Return \/ Raise
  \/ \E next \in Ways : Instruction(next)
  \/ \E mask \in Masks, count \in Counts : SetHook(mask, count)
=============================================================================
