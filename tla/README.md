# A TLA+ model of rilua

rilua is a Lua 5.1.1 virtual machine in Rust. This directory holds TLA+ modules
translated from its source, the TLC configurations that check them on small
instances, and theorems about them with TLAPS proofs. Paths below are relative
to the repository's `src/`.

## 1. Inventory

| Part | State it keeps | Operations | What makes it correct |
|---|---|---|---|
| Collector (`vm/gc/collector.rs`) | colour of every slot, gray lists, phase, sweep cursor, finalizer queue | one `gc_singlestep` at a time, between instructions | nothing reachable is freed, garbage is freed within a cycle, a finalizer runs once and only on garbage |
| Collector drivers (`collector.rs`, `stdlib/base.rs`) | `gc_running`, the loops on the Rust stack | `gc_step`, `full_gc`, `collectgarbage`, finalizer calls | re-entrancy never locks the collector, `collectgarbage()` collects everything |
| Arena (`vm/gc/arena.rs`) | slots, generations, free list, colours, flags | alloc, get, free, sweep_partial | a stale reference never denotes a new object; the cursor visits every slot |
| Freeze, pin (`vm/gc/freeze.rs`, `pin.rs`) | flag byte of a slot | freeze_table, pin_object, read-only roots | what is not traversed is never needed |
| Interned strings (`vm/string.rs`) | hash buckets over the string arena | intern, sweep_dead, resize | one live string per content; a dead one is revived before it is handed out |
| State (`vm/state.rs`) | running stack, call stack, open upvalues, roots | push, allocation, thread swap | the running thread's state is in one place only |
| Interpreter (`vm/execute.rs`) | program counters, frames | the opcodes, precall, poscall, hooks | every result reaches the operation that called for it |
| Coroutines (`stdlib/coroutine.rs`) | status per thread, `saved_threads`, `current_thread` | create, resume, yield, wrap, status | a captured variable is one variable whichever thread runs |
| Protected calls (`stdlib/base.rs`) | saved ci, base, depths | pcall, xpcall, error | an error leaves the caller's frame as it was |
| Instruction budgets (`vm/state/instruction_budget.rs`) | owner, used, limit | scopes, charge | no owner runs past its limit; owners are restored on unwind |
| Secret access, table security (`secret_access.rs`, `table_security.rs`) | revoked contexts per thread and depth | revoke, tail transfer, prune | a revoked frame and its callees stay without access until it returns |
| Environment transfer (`environment_transfer.rs`) | hook, re-entrancy flag | convert arguments and results | each crossing is converted once |
| Taint (`stdlib/taint.rs`) | stack taint, slot stamps | securecall, forceinsecure | taint is restored on every exit |
| Tables (`vm/table.rs`) | array part, node part | get, set, rehash, next | lookups find what was stored; next visits every key once |
| Table library (`stdlib/table.rs`) | none | sort, insert, remove | sort permutes, and terminates under any comparison |
| String library (`stdlib/string.rs`) | position, captures | find, match, gmatch, gsub | a match is the one the manual prefers; none is missed or found twice |
| Package (`stdlib/package.rs`, `dynmod.rs`) | `package.loaded` with a sentinel, open libraries | require, module | a module is loaded once; recursion is refused |
| Io library (`stdlib/io.rs`) | handles, default files, line iterators | open, close, read, lines, seek | a stream is closed once and not used after |
| Debug library, hooks (`stdlib/debug.rs`, `vm/execute.rs`) | hook, mask, count, last line | sethook, getinfo, traceback, hook events | hooks are off while one runs; calls and returns pair up |
| Compiler (`compiler/`) | tokens, registers, jump lists | lex, parse, generate | the code does what the program says |
| Names in messages (`vm/debug_info.rs`) | none | find the name of a register | an error names the value that is to blame |
| Binary chunks (`vm/dump.rs`, `undump.rs`) | none | dump, undump | undump inverts dump |
| Rust API | handles | thin operations | each does what the instruction it stands for does |
| Math, os, values, platform, test library | none | pure or external | not modelled, see section 6 |

The system is single-threaded. What makes it hard is re-entrancy: the collector
works in slices between the instructions of the program and calls back into the
program for finalizers; coroutines swap stacks under open variables; errors and
yields unwind Rust frames that hold half-finished work; hooks and metamethods
run Lua code in the middle of an instruction.

## 2. Modules and what they stand for

| Module | Stands for |
|---|---|
| `Collector` | the heap, the collection cycle and every program operation on them |
| `CollectorInv` | its inductive invariant, in named parts |
| `GcDriver` | `gc_step`, `full_gc` and the finalizers that run inside them; extends `Collector` |
| `KeepAlive` | weak tables, the order of finalizers, frozen graphs and pinned objects over cycles |
| `StringTable` | the string table over a generational arena that is swept in steps |
| `CoroutineSpec` | what coroutines and captured variables promise to a Lua program (abstract) |
| `Coroutine` | the thread swap with its open upvalues, shown to implement `CoroutineSpec` |
| `CallStack` | frames, nested entries of `execute`, errors and yields in one thread |
| `Guards` | secrets, taint, environments and instruction budgets over call stacks |
| `Debugging` | hooks, levels and tracebacks |
| `Tables` | the two parts of a table, traversals, and what the collector does to its keys |
| `Lexer`, `Parser` | `compiler/lexer.rs`, `compiler/parser.rs` |
| `Grammar` | how a tree is written, by the manual (reference for the two) |
| `CodeGen` | `compiler/codegen.rs`, and constant folding |
| `Machine` | the opcodes of `vm/execute.rs` on one thread; extends `CodeGen` |
| `Names` | `vm/debug_info.rs`; extends `Machine` |
| `Semantics` | what a program means, by the manual (reference for the compiler and the machine) |
| `Sort` | `table.sort` |
| `Patterns` | the pattern matcher, find, match, gmatch, gsub |
| `PatternSpec` | what a pattern means, by the manual (reference for `Patterns`) |
| `Chunk` | dump and undump |
| `Package` | require, module, native libraries |
| `Files` | the io library over C streams |
| `CollectorProofs`, `GcDriverProofs`, `KeepAliveProofs`, `StringTableProofs`, `CoroutineProofs`, `CallStackProofs`, `GuardsProofs` | the proofs about the module of that name |
| `CoroutineRefinement` | the proof that `Coroutine` implements `CoroutineSpec` |
| `MCCompiler`, `MCLibrary`, and `MC` with a module's name | instances for TLC |

Several definitions are preceded by a variant of them whose comment calls it a
*slip*: a plausible mistake in the same code. No action uses a slip; each shows
that a property notices when the definition after it is replaced by it.

### Collector

An element of `Obj` is a `GcRef`, a slot with its generation; `color` is the
colour byte of the slot and `refs` the strong references of its object. The
running thread is not in the heap: its stack is `stack`, its `open_upvalues`
`open`, the resumer put away on `saved_threads` is `saved`, and that resumer's
`suspended_upvals` are `parked`. `gray`, `grayagain`, `phase`, `currentWhite`,
`tmudata` are the fields of `GcState`; `arena` and `unswept` together are the
`SweepCursor`.

`SingleStep` is `gc_singlestep`, with one action per phase:

* `StartCycle`: `mark_roots`.
* `PropagateOne`, `PropagateMain`: `propagate_one` on a gray object and on
  `GrayItem::MainThread`. `mark_value` blackens strings, upvalues and userdata
  at once (`Marked`, `Shade`).
* `Atomic`: the second traversal of the threads, `separate_userdata`,
  `mark_tmudata`, the flip of the whites.
* `SweepStrings`, `SweepOther`: the arenas one after the other, `SweepMax`
  slots at a time, in any order of the slots.
* `CallFinalizer`, `EndCycle`: finalizers and the end of the cycle.

Program actions run between two steps because the interpreter calls the
collector at its allocation opcodes only (`gc_check`). `HeapOps` are the writes
with their barriers, `UnbarrieredWrites` the ones that have none (a program
uses those of `Unbarriered` at any time and those of `Quiet` between two cycles
only), `CoroutineOps` the swap as the collector sees it (one level of resume).
`doomed` is a history variable: what was garbage when the cycle marked its
roots.

### GcDriver

`calls` is the part of the Rust stack that concerns the collector: loops of
`gc_step` ("step"), the two loops of `full_gc_inner` ("finish", "cycle"), and
`__gc` metamethods ("gc") called by the loop below them. Whenever a finalizer
is on top the whole of `Collector`'s `Program` may run, the finalizer may call
the collector again, and it may fail, which unwinds the loop under it. When a
`gc_step` stops is left open, which covers every budget.

### Coroutine and CoroutineSpec

`slots`, `open` and `current` are `LuaState`'s stack, `open_upvalues` and
`current_thread`; `arena` holds the `LuaThread` of each coroutine, `saved` is
`saved_threads`. `at` and `own` are the two cases of `UpvalueState`. Two
history variables name things: `names` says which variable a slot is, `of`
which variable an upvalue was made for. `Resume` is `auxresume` down to the
first instruction, `Return` is `save_and_restore_by_ref` after a yield, a
return or an error; both take a thread back with `Swap`, which reopens the
upvalues recorded in `suspended_upvals`, and only the first sorts the list.

`Sorted` and `Relisted` are sets of lists: where the code's list depends on the
order of the pairs put away, any order is allowed.

The refinement mapping (`Promise`) turns `saved_threads` and `current_thread`
into a chain of resumptions, and stacks and upvalues into one value per
variable. `CoroutineSpec` then says that a variable changes by assignments
only, that a coroutine is in the chain at most once, and that a dead one stays
dead.

### CallStack

`frames` is `call_stack[1..ci]`, which survives a yield; `native` is the Rust
stack, which does not: entries of `execute` with their `nexeccalls`, the calls
made by metamethods, comparisons and iterators, and pcall, xpcall (or its
handler) and load, which catch errors. `mode` says what the entry on top is
doing; an error and a yield unwind `native` entry by entry, and each entry
takes back its share of `n_ccalls` and `call_depth`. `top` is kept as where it
stands: at the frame's limit, just above results, or open. `Resume` and
`ResumeNext` are the loop of `auxresume` that enters `execute` once for every
frame. `cut` is a history variable: the frame's `execute` was lost to a yield.

### KeepAlive

The same cycle as `Collector`'s, on a smaller heap, with what `Collector` leaves
out: the fields of a table told apart into keys and values, the mode of weak
tables, the flags `Frozen` and `Pinned`, and the order of `tmudata`. `weak` is
`weak_tables`, filled by `PropagateOne` and emptied by `clear_weak_tables` at
the end of `Atomic`. A function stands for a closure with one closed upvalue.

The constant `Careless` opens four doors that the run keeps shut because the
code does lose objects behind them (section 5): freezing a graph with strings or
userdata in it, writing an upvalue of a frozen function, pinning anything but a
string, and taking a part of `__mode` away while the marker works.

### StringTable

`entries`, `head` and `len` are the `Arena` of strings, `buckets` and `count`
the intern table, `cache` the static cache. `Swept` is `sweep_partial`. A bucket is the set of the references in its chain, because the code looks for a
text along the whole chain and which of two is first makes no difference; where
a sweep stops in a chain is left open. The
program holds references (`held`, roots) and remembers some that are no roots
(`kept`: the key of a removed field), which may go stale; generations count
modulo `GenMod`. `Abandon` is a full collection that breaks
off a cycle. Every arena of the collector is this arena, so that the module is
also what `Collector` takes for granted of identities.

### Tables

`array`, `nodes` and `lastFree` are the fields of `Table`; the operators above
the actions are its functions by name (`MainPosition`, `NewKey`, `Rehash`,
`Resize`, `FindIndex`). The actions are an assignment, the swaps of
`table.sort`, a list of a constructor (SETLIST), what the collector does to
weak fields and to the strings of removed ones, and a traversal with `next`,
one key at a time. `content` and `rest` are history: what the program stored,
and which keys a traversal has yet to show; `next` ends a traversal in `Off`, or in
`Failed` when the table has lost the key it is given. `Mixed` admits constructors that mix
a list with explicit integer keys, which go wrong (section 5).

### Lexer, Parser, Grammar

A character is a string, and a letter may stand for a word; a token has a kind,
a value and its line. The parser's functions are its operators, with the
priorities, the level counter, the scopes of locals and captured variables, and
the loop depth. `Grammar` puts a tree down as text by the manual alone. The
reader of `load` is not modelled: the text is there from the start.

### CodeGen, Machine, Names

A function state carries the code, the constants, the free register and the
active locals, and its parent; an expression context is a record with its two
jump lists. Each function of `codegen.rs` is an operator that takes and returns
state and context. `Machine` has one action per opcode, the whole arm of
`execute_inner` with the calls it makes; a Rust function that calls back into
`execute` leaves its continuation in the frame (`cont`), so that all frames are
one list. `Names` works out what an error message calls a register, from the
code before the failing instruction and the ranges of the locals.

Numbers are integers. Division, power, coercions between strings and numbers,
and `tostring` are left out.

### Semantics

An evaluator of the tree over a store, written from the reference manual: a
local is an address of its own, a closure a body with the addresses it sees.
It also says which operand is to blame for an error. Where several answers are
right (an operand that is an `and` or `or`), any name is accepted; a field whose
key sits in a register may be called "?". Failing programs with a `for` loop
behind the failing point or an `__index` chain that ends at a non-table are left
out: the names are wrong there (section 5).

### Guards

Four parts of the state that follow the call stacks, one of them (`topic`) in
each behaviour: `secrets` (`revoked`, `resumers`), `taint` (stack taint, stamps
of closures, taint of slots), `transfer` (`environment_transfer.rs`), `budget`
(`instruction_budget.rs`). All share calls, tail calls, pcall, errors, resumes
and yields, each with what the code does to the topic's state on the way. Rust
functions that call back (`Callers`) stay on the stack with what they restore.
An error ends all frames above the one that catches it, and each restores what
it keeps, the newest first: what remains is what the lowest of them kept
(`Restored`, `ScopesUnwound`).

Simplified: coroutines take part in the topics of `Resuming` only (secrets and
budgets in the run); what a conversion hook calls back into Lua, and values
outside of the environments and the globals, are the embedder's; the reporting
functions of `taint.rs` only read.

### Sort, Patterns, PatternSpec

A step of `Sort` is one question to the comparison and what `auxsort` does until
the next; the comparison is an order, answers at random, fails, or writes the
table (`Meddle`). A step of `Patterns` is one attempt at one place; the matcher
is a set of mutually recursive operators with the captures passed through, as
in the code. `PatternSpec` lists all matches of a sequence of parts in the order
in which the manual prefers them.

### Chunk

A chunk is a sequence of fields with their widths; `Dumped` and `Undumped` write
and read one function after the other, with the sources left out of nested
functions, stripping, and constants that are not interned yet. `Prepare` is what
happens to a function before it runs: its strings are interned and, once
`InstallGlobalSlots` has been called, its globals rewritten into slots. Sources
are not empty.

### Package

`m.loaded` is `package.loaded`, with the sentinel; `m.calls` the calls of
`require` under way, with the loader each has got to. Between two steps the
program requires, declares modules, fails, and writes `package.loaded` and
`package.preload` (three such actions in a behaviour). Where a module's code is
found is given by its home; files, paths and the dynamic linker are external.
The feature `dynmod` is on or off. A name becomes `loose` when the program has
itself written over what `require` keeps, and little is promised of it then.

### Debugging

The frames of one thread with their `tailcalls`, the hook with its mask and
count, `allow_hook`, `old_pc`. Hooks run straight code that may fail or install
another hook. Three topics: levels and tracebacks, call and return events, line
and count events. A hook that fails for a return event is left out, because the
machine then returns from the wrong frame (section 5); so is `yield_on_hook`,
by which the host suspends a coroutine.

### Files

Handles, the two default files, iterators, and `__gc`, over C streams which are
external: no buffering, a write keeps no content, a read of a stream that is
open for writing gives nil. Reads take one or two formats; digits are 1 and 2.

## 3. Runs

| Run | Shows | Bounds and why they are enough |
|---|---|---|
| `collector` | the invariant `IInv`, `NoCondemned`, `Reclaimed` | a global table, a closure, an upvalue and a coroutine: every kind of reference once, one reference per object, stack of two; one object in each arena, so that the sweep stops between arenas |
| `collector_live` | `Collected`, `FinalizerRuns` | a second table and a userdata with a finalizer; batches of one make the sweep stop inside the arena of the tables |
| `collector_gap` | a suspension breaks `NoCondemned` (violated) | starts with a coroutine already resumed, to keep the counterexample within reach |
| `driver` | `NoDangling`, `NeverLocked`, `FullCollects`, `OnlyGarbageFinalized` | two userdata, so that a finalizer may run inside another's collection; six entries on the call stack allow three drivers nested. Finalizers collect and do not step, because `NoDangling` fails when they do (section 5); `FullCollects` does not depend on that, which is proved |
| `coroutine` | `OneVariable`, and that `Coroutine` implements `CoroutineSpec` | three coroutines: a chain of main, two waiting and one running; three variables and upvalues, so that a new upvalue may belong before, between or after others |
| `calls` | `Counters`, `CatchersStand`, `ExecutesLua`, `Settled` | 4 frames before the first overflow, 9 in all, two nested entries: both limits are met inside and outside of handlers |
| `compiler` | `Agrees`, `Reads`, `WellFormed`, `BlamesRight` | programs by hand for every construct; every logical operator over five operands, negated or not, in eleven places, and nested twice in two of them, called with two lists of arguments; every sequence of up to four (five for operators) tokens or characters that is only read. Operands name 3 constants and lists flush after 2, so that both limits are met |
| `compiler_gap` | six programs break `Agrees` (violated) | one program for each departure |
| `tables` | `Faithful`, `LengthIsBorder`, `Visits` | three integer keys, two strings and an object whose hashes collide, a table that begins empty or with room for two items and three fields: each key can be in either part, displaced, or swept |
| `keepalive` | `NoneFreed`, `OnlyLostTaken`, `NewestFirst` | two tables, a function, two userdata, a string; two heaps to start from, one with a weak-keyed and one with a weak-valued table; one write of the program or the host at any point of any cycle |
| `strings` | `OneReference`, `SlotsExact`, `NeverMistaken` | two texts that collide and one that does not, one static address, one bucket to begin with, sweeps of one slot, two sweeps, two generations |
| `library` | `Sorted`, `Finds`, `Replaces`, `Denied`, `TaintKept`, `Fits`, `Metered`, `RoundTrip`, `Loaded`, `Hooked`, `Traced`, `Filed` | below |

The parts of `library` have nothing in common, so a behaviour is about one:

* sort: tables of up to six of three values for orders, of up to six for
  answers at random, of four for a comparison that writes the table.
* patterns: one or two parts with captures around and between them, over nine
  subjects of up to four characters.
* guards: five frames of a thread (four for secrets and budgets), two
  coroutines, two owners with a limit of one, two environments beside the globals.
* chunks: three levels of functions over two sources, stripped and not.
* packages: modules `a` and `a.b` in eight homes, three actions of the program.
* debugging: six frames and two elided ones for levels (a traceback shows 2 + 2
  of them, 12 + 10 in the code), four and one for events, three for lines.
* files: five handles and two iterators in six operations; five texts and four
  reads.

What a bound limits and the code does not: `MaxRefs`, `MaxStack`, `MaxSlots`,
`MaxSaved`, `GcDriver`'s `MaxCalls`, `MaxFields`, `MaxHeld`, `MaxKept`,
`MaxWrites`, `MaxSweeps`, `MaxFrames`, `MaxTails`. Constants of the code with
small values: `SweepMax` (`GCSWEEPMAX`), `MaxCalls` and `MaxCCalls` of
`CallStack` (`MAXCALLS`, `MAXCCALLS`), `MAXINDEXRK`, `LFIELDS_PER_FLUSH`,
`MAXARG_C`, `MAXACTIVEVARS`, `MAX_SYNTAX_LEVELS`, `MAXUPVALUES`, `MAXTAGLOOP`,
`LUA_MINSTACK`, `MinBuckets`, `GenMod`, `LEVELS1`, `LEVELS2`.

`SYMMETRY` is used in runs without temporal properties that need fairness;
objects of one kind, threads, upvalues and variables are only compared for
equality. `CHECK_DEADLOCK FALSE` stands in `keepalive` and `strings` only, whose
behaviours end when `MaxWrites` or `MaxSweeps` is used up.

`collector_live` assumes `WF_vars(SingleStep)`: a program that keeps allocating
keeps reaching `gc_check`, which steps the collector whenever the debt is
positive, and each step is enabled in every state. A program that stops
allocating, or one that stops the collector with `collectgarbage("stop")`, is
promised nothing. Nothing is assumed of the program's own actions. No other run
states liveness: the library's functions run on the program's comparisons and
hooks, which promise nothing, and that a sort or a search comes to an end is
seen from the bounded state spaces and from `Sorted` (depth of the recursion).

## 4. What is proved

The theorems hold for every value of the constants that the modules' named
assumptions allow. Those assumptions say what kind a constant is (limits are
numbers, an object is of one kind, the main thread is no coroutine) and TLC
evaluates them in the runs. Hypotheses beyond them are stated in each theorem:

| Theorems about | Hypothesis | Why |
|---|---|---|
| `Collector` | `Barriered` (all but `TypeCorrect`) | `StopTheWorld`, or every write made while a cycle is under way has its barrier (`Unbarriered = {}`). `collector_gap` and section 5 say what the code does otherwise |
| `GcDriver` | none (`LockHolds`, `FullCollectionComplete`); `Barriered`, `NoStepping` (the others) | no finalizer steps the collector, see below |
| `KeepAlive` | `~Careless` (`Invariance`, `NothingFreed`, `OnlyLostAreTaken`) | the host and the program keep four doors shut behind which the code loses objects (section 2) |
| `StringTable` | none | |
| `Coroutine` | `~Escapes` | no frame is dropped with upvalues open; `restore_state` does that (section 5) |
| `CallStack` | `~LateErrors` | a reader of `load` fails at its first call if at all; later, `ci` is left at its frame (section 5) |
| `Guards` | none | |

### Collector

* `TypeCorrect`: the shape of every reachable state.
* `InvariantHolds`: `IInv`. `CollectionSafe` and `SweepSpares` follow from it:
  nothing reachable is freed (`NoDangling`) or condemned (`NoCondemned`).
* `GarbageReclaimed` (`Reclaimed`): garbage does not survive a cycle.
* `FinalizersSpare` (`OnlyGarbageFinalized`): finalizers are called on garbage
  only, and once.

`NoDangling` is not inductive: that a reachable object is allocated now says
nothing about the sweep to come. `IInv` has two parts. `Cursor` needs no
barrier: types, where the sweep cursor stands, and when finalizers and a waiting
resumer exist. `Tricolor` needs them: roots and children of live objects are
live, where an object is live unless the sweep condemns it; while marking, a
black object has no white child, except for the stacks of threads and the
upvalues of a waiting resumer, which are traversed again; whatever is gray is
on a list. The step that carries the weight is `Atomic`: from the lists alone
everything reachable is marked, because the unlisted black objects are closed
under references (`UnlistedClosed`). `GarbageInv` adds that doomed objects stay
apart from the rest of the heap and white.

`Reach` is the least closed superset and not a recursive operator, so that what
the proofs need of it (`ReachLeast`, `MarkedClosed`) is first-order.

### GcDriver

* `LockHolds` (`NeverLocked`): however loops and failing finalizers are nested,
  `gc_running` is up exactly while a `gc_step` is on the stack. Inductive with
  `Nested` (drivers and finalizers alternate) and `Locks` (above a `gc_step`
  that holds the lock there is nothing but its finalizer). It says that an
  error unwinds one driver, and lowers the lock if that one had raised it.
* `DriverInvariant`, and from it `DriversSafe` (`NoDangling`) and `DriversSpare`
  (`OnlyGarbageFinalized`): the collector's own invariants, with the drivers in
  between. `Placed` says at which phase each driver on the stack can be: below
  the top only at the phase in which finalizers are called.
* `FreshHeap` (`FreshCycle`): the marking of a full collection starts on a heap
  that is white, with empty lists.
* `FullCollectionComplete` (`FullCollects`): what was garbage when a full
  collection began is free when it ends, for every program and every finalizer:
  also for finalizers that step the collector, and for writes without barriers,
  after which the heap is in no order that the other theorems would need.

The last rests on what does not depend on that order. A set of objects is
`Sealed` when it holds the roots and the finalizers to be called and no
reference leaves it; what was reachable when the collection began is such a set,
and what is still owed (`Unpaid`) is outside of one at every later step. The
program can only name what is in the set and what it allocates (`ProgramGrows`:
the set grows by slots that were free); the marker marks nothing outside of it
as long as its lists lie in it (`Listed`, `SingleWithin`), be they complete or
not. So what is owed is white whenever a marking is under way, whoever runs it,
and the atomic step of the fresh cycle condemns it. That cycle calls its first
finalizer after the sweep, and then nothing is owed (`Owes`): whatever
finalizers do happens before the fresh cycle begins or after it has paid.
Nothing here says that what is in the set survives; that is `DriversSafe`.

`DriversSafe` and `FreshHeap` need `NoStepping`: with "step" in `FinalizerCalls` TLC finds a
reachable table freed. A finalizer called in the first loop of `full_gc` steps
the collector (`collectgarbage("step")`, or `gc_check` after it has allocated
enough, `vm/gc/collector.rs:1493`) into a new cycle and leaves it marking;
`mark_roots` then starts the "complete fresh cycle" of the comment at
`collector.rs:1390` on a heap that is half marked, where a black table is not
traversed again.

### KeepAlive

* `TypeCorrect`, and `FinalizersOrdered` (`NewestFirst`): hold whatever the
  program and the host do.
* `NothingFreed` (`NoneFreed`) and `OnlyLostAreTaken` (`OnlyLostTaken`): for
  those that are not `Careless`.

`Queued` is behind the order: userdata that were found together wait in the
order of their ages, and what is put behind the queue never waited before. That
`ByAge` has a value at all (a finite set of numbers can be listed in order) is
`RisingExists`, by induction over a set of numbers.

`NoneFreed` alone says nothing of a sweep to come. `AllLive` says that what is
live, in the sense that the sweep under way will not free it, has the roots and
is closed under references, weak ones included. For that the atomic phase has
to leave nothing white that a black object refers to (`BlackFollowed`): a strong
reference is marked, a frozen object keeps all of its graph (`Flagged`), and a
weak reference belongs to a table on `weak_tables`, whose dead fields are
cleared and whose strings are kept (`AtomicSafe`). `BlackFollowed` is why taking
a part of `__mode` away while the marker works is a door of `Careless`: the
table was not put on the list for that part. `AtomicMarks`, what the last
marking leaves black, gives `OnlyLostTaken` as well, because whatever is
reachable by strong references is then black or kept by a flag
(`ReachedMarked`).

### StringTable

* `TypeCorrect`, `Invariance`.
* `ReferenceUnique` (`OneReference`): a text has one reference, and those the
  program and the cache hold stay valid.
* `StaleRefused` (`NeverMistaken`): a reference outside the roots never reads as
  another string before its slot has gone through all its generations.
* `FreeListExact` (`SlotsExact`): the free list runs once through every free
  slot, and `len` counts the others.

The invariant: slots say whether they are free (`Colored`); what `head` and the
free slots link to is free, and no two links are the same (`Linked`), so that
`alloc` cannot take a slot in use; every string is in the bucket of its text
(`Filed`) and no two slots have one text (`Single`); what is condemned lies in
front of the cursor and no root is among it (`Passed`, `Rooted`), which is why a
revived string survives; the generation of a slot tells how often it was freed
since a reference to it was kept (`Aged`). That the links form one list, and not
a ring beside a list, is not visible in them one by one: `Exact` says that some
sequence without repetition lists the free slots in the order of the links, and
that `SlotsExact` follows, for a walk of any length, is an induction done by
least counterexample (`LeastExists`, `Inducts`).

### Coroutine

* `TypeCorrect`, `Invariance`.
* `VariablesAreOne` (`OneVariable`): the function that declared a variable and
  all that captured it see one value, however the threads are swapped.

`OneVariable` speaks of the running thread and says nothing of the pairs put
away, from which the next swap makes the open upvalues. The invariant gives
every stack, wherever it is kept (`Places`, `Family`), what the running one
needs: the upvalues it is to reopen are exactly those of its variables (`Fits`,
`Bound`) and its list has them once, the highest slot first (`Ordered`). No
variable is in two slots (`Apart`), an upvalue is free, open or closed (`Kept`),
and the waiting threads form a line from the main thread to the running one
(`Lined`), which is where a resumed thread comes back to. A swap only moves
stacks (`Moved`, `ApartMoved`); what it takes back is sound because values
written meanwhile went to closed upvalues of the same variables (`SwapTakes`).

* `Refinement` (`Implements`): `Coroutine` implements `CoroutineSpec`, step by
  step. The program sees threads in a chain and variables with one value.

The abstract state is read off stacks and upvalues with `CHOOSE`, so the proof
first says without it what each part is (`ChainLaw`, `ScopeLaw`, `ValueLaw`):
the chain is the line of waiting threads, the scope of a thread is what its
stack names wherever that is kept, and the value of a variable is that of any
of its upvalues and, if no function has captured it, that of its only slot. The
three follow from the invariant, hence hold before and after a step. What is
left for each action is which stacks and upvalues it changes:

| Action | Step of `CoroutineSpec` |
|---|---|
| `Create`, `Declare` | of the same name |
| `Resume`, `Yield` | of the same name: a swap keeps `Get` of every upvalue and every slot without one (`SwapKeeps`), so that only the chain changes |
| `Finish`, `Fail` | `End`: what is left without a value is what was in scope and not captured |
| `Leave`, `Abandon` | `Leave` |
| `FindUpvalue` | `Capture`; nothing, if the upvalue is there |
| `SetLocal`, `SetUpval` | `Assign` |
| `DebugSetLocal` | `DebugAssign`; nothing, on a captured variable, whose upvalue is closed, or a dead coroutine |

### CallStack

* `TypeCorrect`, `Invariance`.
* `CountersHold` (`Counters`): both depth counters are the numbers of the native
  entries that raised them.
* `CatchersHold` (`CatchersStand`), `ExecutesHold` (`ExecutesLua`),
  `SettledHolds` (`Settled`).

None of them is inductive, because what an entry of the Rust stack does on its
return depends on frames that are then on top again. The invariant places the
entries: each stands on the frames that were there when it began, `From(e)`, and
works on those up to `UpTo(e)`; one begins where the one below it ends
(`Stacked`), and the frames it works on are of its kind (`Standing`). The rest
says where the last entry stands for each `mode` (`Placed`), that no frame but
the last waits for a call (`Waiting`), where frames of Rust functions can be
(`Foreign`), what a yield has cut (`Resumed`), and that a frame above the limit
was called for a handler (`Limited`). `Counted` is `Counters`. Unwinding then
gives back to each entry the frames it stood on.

### Guards

* `TypeCorrect`, `Invariance`.
* `AccessDenied` (`Denied`), `TaintsAreKept` (`TaintKept`), `ValuesFit`
  (`Fits`), `InstructionsMetered` (`Metered`): for any number of coroutines,
  frames, owners and environments, whichever topics have coroutines.

The steps are of five kinds (`Steps`): a frame is pushed, frames end, access is
revoked, a thread goes back to its resumer, a coroutine is resumed. `Core` says
what all topics need: the threads of `chain` are distinct and each but the last
ends in its call of `resume` (`Linked`), a suspended coroutine is Lua functions
under a `yield` (`Parked`), and every stack is `Proper`, also one that waits.

* Taint: `TaintKept` is about the frames as they are now; `TaintsStand` says
  besides that what a securecall keeps is what the frames below it show without
  it, so that after an error through several of them the lowest has the last
  word.
* Environments: `AtHome` is `Fits` for every stack.
* Secrets: `Entered` says that the entry of a thread is its lowest frame that
  lost access. There is one exception: when an error reaches the host nothing
  is pruned, and the entry of the main thread outlives its frames. It is
  dropped by the next push and until then has no frame to deny anything to.
  `Enrolled` says that a waiting thread that is not among the resumers has no
  entry, which is why the code may list resumers only while something is
  revoked.
* Budgets: `Metered` looks at the innermost scope. When it ends, what it kept
  becomes the truth, so `ScopesStand` says of every scope, in every thread of
  the chain, that what it keeps is what the scopes around it make (`Made`), and
  of every Lua frame that it is metered as they say. A step changes only what
  is at or above one place of the chain (`Carries`, `CarriedScopes`).

### What stays with TLC

* Liveness (`Collected`, `FinalizerRuns`): TLAPS has no ENABLED.
* What recursive operators compute: the compiler, the patterns, and what
  `library` checks beside `Guards`. `CodeGen`, `Parser`, `Semantics` and the modules
  above them declare RECURSIVE operators, and induction over data is out of the
  provers' reach.
* `Tables` (`Faithful`, `LengthIsBorder`, `Visits`): what rehashing computes is
  an induction over the table; the operations between two rehashes are within
  reach, and next (section 6).

## 5. Where the code departs from what it says

Shown by a run:

* `collector_gap`: `save_and_restore_by_ref` closes upvalues without the barrier
  that `close_upvalues` has (`vm/state.rs:1166`).
* `compiler_gap`, for the program that `Departure` numbers (the run takes the
  first; each of the other five, in this order, breaks `Agrees` too):
  a `while` loop jumps back before its block is left, so closures of different
  rounds share a local (`compiler/codegen.rs:2058`); `emit_nil` at the start of
  a function skips nil for a parameter (`codegen.rs:342`); an operand too far
  down the constants is freed out of order, and `free_reg` ignores that
  (`codegen.rs:697`); `{f(), x = 1}` takes all results of `f`
  (`codegen.rs:2766`); `...` behind more values than variables writes a register
  of another variable; the parser counts the variables of finished `for` loops
  until the block around them ends, so 51 loops in sequence are refused.

Stated as a property, false, and not run (a run each would show no more than
the sentence here):

* `FreshCycle` and `NoDangling` (`GcDriver`, with "step" in `FinalizerCalls`): the
  fresh cycle of `full_gc` may begin on a heap that is half marked
  (`vm/gc/collector.rs:1427`), and then frees what is reachable. Both hold, and are
  proved, when finalizers make full collections only.
* `TopRestored` (`CallStack`): after a nested yield, `top` is not restored in the
  outer frames (`stdlib/coroutine.rs:318`).
* `ExecutesLua` with `LateErrors`: an error of a reader that the lexer called
  leaves `ci` at the reader's frame (`stdlib/base.rs:1280`).
* `OneVariable` with `Escapes`: `restore_state` leaves upvalues open on dead
  slots (`stdlib/base.rs:1341`); so do the error paths of `call_function` and of
  `call_gc_finalizer`.
* `Faithful` with `Mixed`: SETLIST grows the array over integer keys that live
  in the hash part, which then have two places (`vm/execute.rs:2153`,
  `vm/table.rs:392`).
* `NoneFreed` and `OnlyLostTaken` with `Careless`: frozen tables are not
  traversed while their strings and threads are not pinned (`vm/gc/freeze.rs:56`,
  against the comment at `vm/gc/collector.rs:435`); frozen and pinned objects are
  cleared from weak tables and finalized; SETUPVAL writes a frozen upvalue;
  pinning keeps an object and not its children; the mode of a weak table is read
  again when it is cleared (`collector.rs:957`).

Met while modelling. Collector, strings and threads:

* Five more writes have no barrier: `setfenv` (`stdlib/base.rs:1664`),
  `debug.setmetatable` (`stdlib/debug.rs:599`) and the typed handles' setters,
  `debug.setupvalue` (`stdlib/debug.rs:1439`), and a store that fails on the
  allocation limit after writing (`vm/execute/runtime_ops.rs:371`). They are in
  `UnbarrieredOps`.
* A rehash of the string table in the middle of a sweep drops stale references
  without counting them off (`vm/string.rs:386`): `count` may be too high.
* Finalizers of different batches run in another order than PUC-Rio's.
* `coroutine.status` never answers "normal": the arena's copy of a waiting
  coroutine stays `Running` (`stdlib/coroutine.rs:570`, against its own comment).
  `CoStatus` says what it answers.
* `debug.setlocal` on a suspended coroutine has no effect on a captured
  variable, whose value comes back from the upvalue (`DebugSetLocal`).
* New coroutines do not inherit the hook of their creator (`vm/state.rs:626`).

Interpreter:

* An iterator of a generic `for` and an order metamethod do not raise
  `n_ccalls`, so a yield in them is let through and the resumed frame goes on
  behind the test (`vm/execute.rs:1808`, `runtime_ops.rs:162`); see `cut`.
* The room between `MAXCCALLS` and the hard limit is never entered: every call
  that fails takes back its `call_depth` before a handler runs.
* An error in a return hook is dropped with the hook's frames still on the call
  stack (`vm/execute.rs:744`); an error in a call hook is raised with `ci.top`
  restored on the wrong frame.
* A metamethod call leaves `top` one slot higher than it found it
  (`vm/execute/runtime_ops.rs:66`).
* The counter of a numeric `for` may overflow 64 bits.
* An `__index` chain that ends at a non-table blames the operand it started from
  (`runtime_ops.rs:625`); "(for index)" names a register before its loop starts,
  because `activate_locals(3)` dates the newest three names (`codegen.rs:2241`).

Compiler:

* `compile_local_func` does not reserve the function's register
  (`codegen.rs:2365`). `...` is accepted outside of vararg functions.
* "ambiguous syntax" compares with the line where the token before starts; a
  first line with `#` is skipped in any source, and counted twice before "\r\n";
  `\x` and `\u` escapes are accepted; an error of the reader inside a string is
  reported as an unfinished string.

Library:

* `table`: numeric strings are refused as positions; `table.sort` does not root
  the values it holds while the comparison runs, and its room check is on an
  absolute stack size.
* Patterns: find and match do not clamp `init`; `%` at the end and an unclosed
  `[` are no errors; gmatch takes `^` as an anchor; a reference back to a
  position capture is an error; in a replacement `%x` keeps its `%`, and
  replacement values that are not strings are ignored or kept.
* Chunks: stripping keeps the source; a chunk named "" loses it; a function
  dumped after its globals became slots carries slot numbers of this machine.
* `require` marks a module before it looks for it: after a loader failed, the
  next call complains of a loop (`stdlib/package.rs:565`); options of `module`
  that are no functions, and native libraries that do not open, are skipped.
* `secureexecuterange` suspends the taint of its own frame only (`taint.rs`).
* A traceback counts its first lines from the level it starts at, or from level
  1, depending on which of two ways it takes.
* `io`: at the end of the file `read("*l", "*l")` replaces a value already read,
  or its own format, by nil (`stdlib/io.rs:625`); see `ReadsTile`.
* Tables written through the Rust API are not checked for being frozen or read
  only, nor accounted (`vm/state/api_ops.rs:81`).

## 6. What is not modelled, and the plan

`PROJECT.json` lists every component with its status. Left out for good:
conversions and formatting of values, math and os, the operating system and the
platform layer, the embedder's hooks, argument parsing of the programs, the
listing of `riluac`, and the test library.

Left out so far:

* The pacing of the collector (threshold and debt, `vm/gc/collector.rs:1268`):
  when a step runs is an open choice.
* The tables that `debug.getinfo` fills, and the parts of the table, string and
  base libraries that are plain loops over get and set.
* `vm/state/api_ops.rs`, which repeats the machine's table access for Rust
  callers.
* Errors that are caught, in `Machine` (`CallStack` has them without the
  values), and several threads in `CallStack`.

Next, theorems: `Tables`, `Faithful` for the operations that do not rehash.
