# TLA+ specifications of the ANGLE shader translator

These modules describe parts of the shader translator in `src/` as state
machines. TLC checks them on small instances and TLAPS proves the main safety
properties for every instance. Paths below are relative to `src/src/`.

    tlc -workers 2 -config Directive.cfg MCDirectiveParser
    tlapm DirectiveParserProofs.tla

`PROJECT.json` lists the runs, the source lines behind each definition, the
mutants that show each property can fail, the hazards and the theorems.

## 1. The system

A client constructs a compiler handle (`sh::ConstructCompiler`), gives it shader
source (`sh::Compile`) and reads back translated code, diagnostics and the
variables of the shader. `TCompiler::compile` runs these stages in order:

| Part | Code | State it keeps | Operations |
|---|---|---|---|
| Input, tokenizer | `compiler/preprocessor/Input`, `Tokenizer` | read position, line numbers | joins continued lines, makes tokens |
| Directive parser | `compiler/preprocessor/DirectiveParser` | stack of conditional blocks, macro set, version, "past first statement" flag | one per directive, plain tokens, end of input |
| Macro expander | `compiler/preprocessor/MacroExpander` | stack of macro contexts, one reserved token, deferred re-enabling, counters in the macros | lex, get, unget, push, pop, collect arguments |
| Directive handler | `compiler/translator/DirectiveHandler` | pragma state, extension behaviours, shader version | pragma, extension, version |
| Parser | `compiler/translator/ParseContext`, grammar | syntax tree under construction | one per production |
| Symbol table | `compiler/translator/SymbolTable` | stack of scopes, built-ins, unique ids | push, pop, declare, find |
| Call graph | `compiler/translator/CallDAG`, `Compiler` | per-function records, index assignment | build, check depth, tag, prune |
| Validators, tree transformations | `compiler/translator/Validate*`, `tree_ops` | per-traversal | one traversal each |
| Variables and layout | `CollectVariables`, `VariablePacker`, `blocklayout` | lists of variables | collect, pack, lay out |
| Output | `OutputGLSL`, `OutputHLSL`, `msl`, `spirv` | text or instructions | one traversal each |
| Worker pools | `common/WorkerThread` | task queue, threads, events | post, wait, destroy |
| Queue between two threads | `common/FixedQueue.h` | ring storage, two indices, atomic size | push, pop, front, back, clear, updateCapacity |
| Ring buffer allocator | `common/RingBufferAllocator` | buffers, data and fragment pointers, margin, shared check point | allocate, take a check point, hand it back, release |
| Pool allocator | `common/PoolAlloc` | pages, marks | allocate, push, pop |

The stages pull: the parser asks `Preprocessor::lex`, which asks the macro
expander, which asks the directive parser, which asks the tokenizer. So a
directive can be executed while the expander is in the middle of collecting the
arguments of a macro, and an `#undef` can meet a macro that is in use. That
call-back structure, the conditional stack, the call graph search with its
explicit stack, the scopes that the grammar opens and closes in different places,
the reader that leaves half a line continuation to its next call, and the
allocators and queues of `common` are where the state is hard, and they are what
is modelled here.

## 2. Modules

| Module | Models |
|---|---|
| `ConditionalInclusion` | what conditional inclusion promises: a stack of groups with the values of their conditions, and when a line is delivered |
| `DirectiveParser` | `DirectiveParser.cpp` and `handleVersion` of `DirectiveHandler.cpp` |
| `Input` | `Input.cpp`, called by a lexer with any room |
| `MacroExpander` | `MacroExpander.cpp`, with the directives that run while it pulls tokens |
| `CallDAG` | `CallDAG.cpp`, and `checkCallDepth`, `tagUsedFunctions`, `pruneUnusedFunctions` of `Compiler.cpp` |
| `SymbolTable` | the operations of `SymbolTable.cpp` on scopes, as operators on a table |
| `ParseContext` | what the semantic actions of `glslang.y` and `ParseContext.cpp` do to the table, the nesting counters and the errors |
| `Compiler` | `TCompiler::compile` around them: one handle, one shader after the other |
| `WorkerPool` | `WorkerThread.cpp` and `.h` |
| `Fifo` | what a bounded queue promises |
| `FixedQueue` | `FixedQueue.h` |
| `RingBufferAllocator` | `RingBufferAllocator.cpp` and `.h` |
| `PoolAllocator` | `PoolAlloc.cpp` and `.h` |
| `MC*` | constants for TLC |
| `*Proofs` | theorems about the module of that name; `ThreadProofs` those about `WorkerPool` and `FixedQueue` |
| `MacroExpanderInv` | the inductive invariant of the expander, and the lemmas `MacroExpanderProofs` rests on |

### DirectiveParser

One action is one line of the shader: a directive or a line of plain tokens, up
to the newline, including `skipUntilEOD` and the settling of the version. The
state is that of the class: `mConditionalStack` (records with the fields of
`ConditionalBlock`), `mMacroSet`, `mPastFirstStatement`,
`mSeenNonPreprocessorToken`, `mHandledVersion`, `mShaderVersion`. Three auxiliary
variables record what the last line handed on (`out`), the conditions seen by the
open blocks (`history`) and how often the handler was told the version. An
expression's value, whether it is malformed, whether tokens trail the directive,
and whether the input ends there are chosen by the environment. So are pragma and
extension payloads.

The properties relate the four flags of a block to the history of conditions
(`FlagsFollowHistory`). They say that looking only at the innermost block is the
same as asking whether any open block excludes the line
(`SkippingIsExclusion`), and that the parser implements `ConditionalInclusion`
(`ImplementsInclusion`). Excluded groups report nothing (`QuietWhenExcluded`), with
two exceptions that the code has: `parseEndif` checks for trailing tokens also when the
enclosing block is excluded, and the end of the input reports the unterminated
block. `VersionHandledOnce` and `MacrosStable` are about the order of
`#version`, other directives and program text, and about which macros a
directive may change.

### Input

The shader is an array of strings and `mReadLoc` the next character. One action is
one call of `read()`: a continuation or another backslash at the read position
first, then the copying loop, which stops before the next backslash. The lexer,
generated by flex, is external. It calls with any room from `MaxSizes`, takes
zero for the end of the input and does not call again. The reference is
`Splice`, which removes the continuations from the joined strings.
`SplicedExactly` compares what was delivered, and the line number, with it at
every step. An empty string separates its neighbours, in the reference too: the
code sees its terminator, so a backslash before it and a newline behind it are not a
continuation. The constructor also takes data with length 0 that is not empty; an
ordinary character there is passed over like a terminator, and `Nul` stands for
both. Length 0 in front of a backslash, a newline or a return is outside the model. The lexer's buffer is taken to hold what `read()` returns.

### MacroExpander

`frames` is the stack of live expanders: the main one, the one that
an `#if`, `#elif` or `#line` makes for its line, and the ones `collectMacroArgs`
makes for arguments. A token's text is a member of `Text`; `"LAST"`, the end of the
input, is not one. A frame has the context stack, the reserved token, the list of
macros whose re-enabling is deferred, and a program counter for the function it
is in. Tokens are drawn by the environment from a small set with a `fuel` bound;
`#define`, `#undef` and an `#if` line may arrive whenever the lexer is asked.
`expansionCount` and `disabled` are fields of the macro object, so an
old object can survive a redefinition, as with `std::shared_ptr`.

The expander of a directive is asked by the expression parser (`preprocessor.y`), which
decides how long it lives. `expression` keeps what that parser must remember to
accept or reject the next token: open parentheses, whether an operand has just ended,
whether the operand is skipped by `||` or `&&`, and whether it belongs to the file
number of `#line`. At the end of the line an incomplete expression is an error and a
complete one is not. Values are left out: errors that depend on them, such as a division by
zero, and whether an operand is skipped are choices.

The failed invocation keeps its count, and the destructor of an expander does
not count down; both are in the model. `ExpansionCountExact` and
`DisabledWhileExpanded` therefore claim equality only while no error was
reported and no expander was abandoned, and the safe inequality always.

### CallDAG

Functions are numbers and a shader is any sequence of prototypes and definitions
with any sets of callees. The steps are those of the AST visitor
(`visitFunctionPrototype`, `visitFunctionDefinition`), then of
`assignIndicesInternal` with its explicit stack `functionsToProcess`,
`fillDataStructures`, `checkCallDepth`, the tagging and the pruning. The
callees of a function are a `std::set` of pointers in the code, so they are walked
in one fixed order, that of the numbers. The functions themselves are kept by
symbol id, which follows the order of their first declaration (`uniqueId`), so
`assignIndices` takes them in that order, which is unrelated to the order of the
numbers.

### SymbolTable, ParseContext, Compiler

`mTable` and `mPrecisionStack` are the two stacks of `TSymbolTable`. The operators of
`SymbolTable` take and return them as values, because the parser's actions chain
several. `ParseContext` has one action per production or callback that
touches the table: declarations, `precision`, `invariant` and `precise`, function
headers, prototypes, definitions, the opening and closing of blocks, loops and
switches, and `break` and `continue`. The grammar's own stack is `open`. Types,
expressions, layouts and built-ins are left out, and with them all errors that
depend on them. `Compiler` opens the global scope, parses, and leaves in one
of three ways: a syntax error at any point, errors after the parse, or the later
passes, which may fail before or after the variables were collected. On each way
the destructor of `TScopedSymbolTableLevel` empties the table.

Three history variables (`decls`, `precisions`, `clash`) keep the declarations with the
lexical scope the language gives them, computed from `open` alone. So
`ContextIsLexical` and `DuplicatesRejected` compare the pushes and pops of
the code with the scopes of the text. `CompilationsIndependent` says that a
compilation starts and ends with an empty table, is at the global level between
external declarations, and sees no invariant mark of an earlier shader although
ids start again.

### WorkerPool

`pool` is one of the three kinds (single-threaded, asynchronous, delegating).
A step is a critical section under `mMutex` or a notification outside it.
Threads sleep and wake also spuriously, and `notify_one` wakes any sleeping
thread or none when nobody sleeps. Clients post, wait and return; the destructor
terminates, notifies and joins. The platform behind the delegating pool is a set
of posted tasks that it runs in any order (external).

### FixedQueue

`push` and `pop` are split at each access to shared memory: slot, index, atomic
size. The producer and the consumer interleave, each after its own look at
`full()` or `empty()`. `front` and `clear` belong to the consumer and run beside
the producer. `updateCapacity` runs alone, as the header asks ("Caller must
ensure no one is accessing the data while update storage"), and so does `back`.
The assertions are the property `AssertionsHold`. In the refinement mapping to `Fifo` a push
takes effect when it raises the size and a pop when it erases its slot.

### RingBufferAllocator

Pointers are offsets into the current buffer and the variables are the members
of the class. A buffer that is replaced keeps its id and size in `mOldBuffers`.
`allocate` is the fast path and `allocateInNewFragment` the two slow ones: wrap to
the front, or grow. `live` lists the blocks that were handed out and not released,
and a check point remembers how many of them it covers. Other threads hand check
points back through the shared one in the order they were taken
(`releaseAndUpdate`, which overwrites a value nobody popped), while the owner goes
on allocating; `pop` and `release` are the two halves of `releaseToSharedCP`.
`getReleaseCheckPoint` has no condition, as in the code. `Spec` is about callers that take
a check point only when something was allocated since the one before
(`takeCheckPoint`); `AnySpec` drops that, see section 6. `reset` leaves the shared
check point as it is, and the id of the buffer tells that it is old.
The listener, which only observes, the move operations and the reference count of
the shared check point are left out.

No two live blocks overlap (`LiveDisjoint`), a block's storage outlives it
(`LiveStored`), the assertions hold for every check point that reaches `release`, and the margin does not
pass below zero (`AssertionsHold`), an allocator without blocks starts again at the front
(`EmptyIsReset`), and each block leaves the reserve behind it (`ReserveKept`).

### PoolAllocator

A page is an id with an address, the memory obtained for it (`extent`) and its `pageCount`;
`mInUseList` is the list of pages in use with its head, the current page, last, and
`mFreeList` is a set, because any free page may be the one put there last. `allocate` has the
three cases of the code: room in the current page, a multi-page allocation, a new page
from the free list or from the system; `fastAllocate` is the path for pools of
alignment 1. The padding before a block is computed from the address as in
`AllocationSize`, with the sizes of the header and the guard blocks as constants. The
room in the current page is an unsigned difference (`room`), since the offset can pass
the end of a page. `MaxOffset` bounds the offset at which a block is put in place.
`blocks` holds what was handed out, with the number of marks at that time.

Live blocks are behind the header of a page in use and stay apart (`BlocksApart`), for every
alignment and address. Their data is aligned and they end within their page
(`BlocksUsable`): in multi-page allocations always, and in single pages when the first
block of a page needs no padding (`Snug`: the alignment is at most that of the pages and
their headers); without that condition the property is `BlocksFit`, which fails, see section 6. A
page is on one list and free pages are single (`PagesOwnedOnce`), and `pop()` frees what
came since its `push()` and nothing else (`PopFreesSincePush`). The build with
`ANGLE_DISABLE_POOL_ALLOC`, the contents of guard blocks and headers, and statistics
are left out.

## 3. Runs

| Run configuration | Shows | Bounds |
|---|---|---|
| `Directive` | flags, skipping, refinement, silence, version and macro stability | nesting 3, 3 groups a block, three shader specs, versions 100, 200 and 300, user, reserved and extension names; blocks inside blocks only for WebGL and version 100 (`NestedOnce`) |
| `InputRead` | text and line count, progress | every shader of 5 characters in 3 strings, room 1 or 2, last line number 2 |
| `InputEof` | finding, see section 6 | 4 characters |
| `MacroExpansion` | all macro properties and termination | 5 source tokens from 7 kinds, depth limit 1, context limit 3 |
| `MacroLeak` | finding, see section 6 | 6 source tokens, else as `MacroExpansion` |
| `CallGraph` | order, faults, depth, pruning, termination | all shaders of 3 functions |
| `Compiler` | scopes, duplicates, independence of compilations | 2 names, 1 function, 3 symbols a shader, nesting 3, any number of shaders |
| `WorkerPool` | safety and liveness of the pools | 3 tasks, 3 threads |
| `FixedQueue` | assertions, slots, refinement | 2 values, capacities 0 to 3, indices below 6 |
| `RingBuffer` | all properties of the ring buffer | blocks of 1, 5 and 12 bytes, buffers of 2 to 13, 4 buffers, 3 live blocks, 2 check points out |
| `PoolAllocator` | all properties of the pool | 3 pages of 12 bytes with a header of 4, requests of 0, 2, 7 and 9 bytes, alignments 1, 4 and 8, pages at multiples of 4, 3 nested marks, offsets up to 16 |
| `PoolOverrun` | finding, see section 6 | as `PoolAllocator` |

Why these bounds suffice for the interesting cases:

- Nesting 3 has an excluded block inside an included and inside an excluded
  one; three groups a block allow `#if`, `#elif`, `#else` and one directive too
  many. Nested blocks are explored for one specification and version, because no
  condition of the conditional directives reads either; the theorems hold for all.
- Five characters in three strings allow two continuations in a row, `\`, CR and LF
  in three strings, and empty strings between them; room for one character ends
  a call at every place.
- Three symbols in three nested constructs allow a function with a parameter and a
  local of the same name, a local that hides a global in a block of a block,
  and a prototype followed by its definition. `IsWebGL` is FALSE: WebGL never
  opens the second scope, which version 320 covers.
- Five tokens are enough for a whole invocation with an argument and its
  parentheses, an unterminated one, a directive in the middle of the arguments,
  and both limits. `WebGL` is FALSE, so a `defined` that comes out of a macro
  is an operator; for WebGL it is handed on as a plain token, which is the
  shorter path through `lex`.
- Three functions contain self-recursion, mutual recursion, a function reached
  along paths of different lengths, and a chain deeper than the limit of 2.
- Three threads and three tasks let a notification reach the wrong thread and
  let a task be queued while every other thread is asleep, busy or waking.
- Indices below 6 let a queue of capacity 3 wrap twice; resizing happens at
  any index.
- Blocks of 1 and 5 bytes wrap and fill a buffer exactly, the reserve of 1 takes a byte
  from the fragment, and 12 bytes grow the buffer so far that the margin can
  decay to a shrink while smaller blocks are live.
- With 8 bytes behind the header, requests of 7 and 9 bytes are one page or several
  depending on padding, two blocks of 2 bytes share a page, and three pages
  let a mark lie behind a multi-page allocation. With alignment 8 the first block is
  padded in two of the pages and not in the third.

Deadlock is checked for `FixedQueue`, `RingBuffer` and `Compiler`. The other systems may legitimately stop:
the shader has ended, the compilation is done, or the pool is destroyed and
every client has returned.

Fairness. `MacroExpander` and `CallDAG` are sequential code, so a weakly fair
`Next` says only that the program goes on running (the input of the expander is
finite). In `WorkerPool` each thread, each client that has posted, the platform
and a destructor that has been entered are weakly fair, which is what an
operating system scheduler gives. Nothing makes a client post or makes anyone
call the destructor. `TasksFinish` promises the end of a wait only while the
pool is not destroyed: a queued task that the destructor finds is dropped and
its event is never signalled.

## 4. Proofs

Each proof module proves its theorems from the named assumption about the
constants in the module it extends. The inductive invariants are:

- **DirectiveParserProofs.** `TypeCorrect`, `FlagsCorrect`, `SkippingCorrect`,
  `Refinement`, `QuietCorrect`, `VersionCorrect`, `MacrosCorrect`. The flags
  are inductive once the stack and the history are known to have the same height
  (`ExclusionInv`), because the meaning of `skipBlock` refers to the blocks below.
  From the flags it follows that the innermost block decides and that each line
  is a step of the abstract specification. The version properties rest on
  `VersionInv` (the flags are raised in order, and `__VERSION__` is defined when the
  version is settled) and on `SettledInside` (no block is open before that).
- **CallDAGProofs.** `TypeCorrect`, `OrderCorrect`, `FaultsCorrect`,
  `PruneCorrect`, `DepthCorrect`. The invariant says what is on the explicit stack (`SearchInv`:
  segments of a function being visited and of its callees, roots still to come),
  that indices grow from callees to callers (`OrderInv`), what each phase has
  established (`PhaseInv`), and that callees of tagged functions are tagged or
  pending (`TagInv`). Reachability is stated through sets closed under calls, so
  no induction over paths is needed. `DepthCorrect` needs that the records computed
  so far are those of the functions with the smallest indices, each one more than the
  greatest depth of its callees (`DepthInv`, from `OrderInv`). That this is the longest
  chain of calls follows by taking a shortest chain, or a function of least index, for
  which it fails. A chain that reaches the depth visits no function twice, so it is among
  the chains of at most `Cardinality(Functions)` calls; this is where the set of
  functions has to be finite.
- **ThreadProofs**, on the pools. `TypeCorrect`, `OnceCorrect`, `ReadyCorrect`,
  `WakeupCorrect`, `JoinCorrect`. `WakeupCorrect` needs a count: while a thread
  sleeps, queued tasks are no more than the threads about to look at the queue
  plus the pending notifications. "Some thread is about to look" alone is not
  inductive, because that thread may take a different task. `PoolInv` adds where
  a task can be at a time and what each kind of pool leaves unused.
- **ThreadProofs**, on the queue. `QueueTypeCorrect`, `AssertionsCorrect`, `SlotsCorrect`,
  `Refinement`. The size is the distance of the indices up to the half-done
  push and pop (`SizeInv`), and what a push has written stays until it is counted
  (`WriteInv`). Lemmas on `%` show that distinct indices less than a capacity
  apart are distinct slots.
- **RingBufferAllocatorProofs.** `TypeCorrect`,
  `DisjointCorrect`, `StoredCorrect`, `AssertionsCorrect`, `EmptyCorrect`,
  `ReserveCorrect`, of `Spec`. Disjointness is not inductive alone: a release moves
  `mDataBegin` to a check point, so one has to know which blocks lie before it.
  `RingInv` says where the live blocks are (`BlockInv`), how each check point splits
  them before and after the wrap (`PointsInv`), and in which order check points are
  handed back (`ChainInv`). `release` has by far the longest proof, because it moves the
  pointers under blocks that stay. The margin stays non-negative by a lemma on `\div`.

- **PoolAllocatorProofs.** `PoolInvariant`, `BlocksStayApart`, `BlocksStayUsable`,
  `PagesStayOwned`, `PopFreesExactly`. `PoolAssumption` says of the
  layout only that a page is larger than its header: alignments are any positive numbers,
  and pages have any addresses. Disjointness is not inductive alone: after `pop()`
  the offset is the one of a mark, so one must know which blocks lie behind it.
  `PoolInv` orders the pages in use by the marks (the depth of a page in the list
  is that of the mark that names it) and says that a block made under n marks is
  in a page above the n-th mark and, in the page of a later mark, ends before the
  offset the mark remembers. Offsets may lie behind the end of a page there; only when the
  pool is `Snug` they do not, which is a part of the invariant of its own and what
  `BlocksStayUsable` needs. `PopFreesExactly` follows because `push()` gives up the
  rest of its page, so no page has blocks from both sides of a mark.

- **CompilerProofs.** `Independent`, `Duplicates`, `Context`, for any set of names
  and signatures, in WebGL or not, and without the bounds of the run mattering. What the
  language calls a scope and what the code keeps as a level are not the same: the
  parameters of a function and its body share a scope or not by version, and a
  header opens a level before anyone knows what it belongs to. `ScopeInv` counts the levels
  from the constructs that are open, `InLevel` says which level a scope lives at, and
  `NameInv` and `PrecisionInv` that each level holds exactly the declarations and the
  precision statement of its scopes. Neither is inductive without `ScopeInv`, since a
  pop removes whatever is on top. That the topmost level with a name is the innermost
  scope that declares it then follows from the order of the levels (`LevelsOrdered`).
  `NestingInv` counts open loops and switches, and `ClashInv` relates the error to the
  duplicates found so far.

- **MacroExpanderInv, MacroExpanderProofs.** `Inductive`, `TypeCorrect`, `CountIsExact`,
  `DisabledIsExact`, `InUseIsDefined`, for all macros, sources and limits that
  `TextAssumption` and `LimitAssumption` allow. None of the four invariants is inductive
  alone: whether `popMacro` may clear a mark depends on who else has the macro, and
  whether a count may go down on who is still invoking it. `IInv` distinguishes what an
  expander *holds* (a context, or a deferred re-enabling) from what it *invokes* (the macro
  whose `(` it looks for, or whose arguments it collects or has expanded). No macro is
  held twice in the whole stack of expanders. What an expander invokes is held neither by
  it nor by one below it, although an expander above may hold it: a macro is not disabled
  while its arguments are expanded, so `f(f(x))` works. What is held is disabled, what is in
  a context or invoked is in the macro set, and `expansionCount` is the number of both, or
  more after an error or an abandoned directive. `Local` and `Link` say what an expander
  looks like at each program counter and which may stand on which. The first module defines
  them and shows what a change of the table, or of the expander on top, does to the
  invariant; the second goes through the steps of the code. The proof treats
  the top of the stack apart from the rest; each function of the code has a lemma that
  takes a good state to a good state, and the actions combine them. The number of tokens
  in the contexts and the replacement list are recursive functions. That the recursion
  has a solution, and what it computes, is proved by least counterexample
  (`RecursionExists`, `TokensFacts`, `ReplaceFacts`); the lemmas before them use only the
  facts collected in `Laws`, which `LawsHold` discharges, so that the provers
  do not see the definitions.

Only model-checked: every liveness property (`Terminates`, `TasksFinish`,
`TakenTasksFinish`, `DestructorReturns`), because the prover handles neither
fairness nor `ENABLED`; and `Input`, whose copying loop and whose reference are
recursive operators, out of this prover's reach. The type invariants (`TypeOK`, `QueueTypeOK`) of the directive parser,
the call graph, the pools, the queue and the two allocators are proved and not asked of TLC
again.

## 5. Abstractions

- Token texts, locations, messages and line numbers are left out. An error is a
  flag or a kind.
- `FixedQueue` indices stay below `SizeMax`. The wrap-around of the 64-bit
  index after 2^64 operations, which changes slots for capacities that do not
  divide it, is not explored.
- `WorkerPool` assumes at least one thread, as the constructor asserts.
- Atomics are sequentially consistent.
- Assertions of the parser and the symbol table are not enforced, as in a release
  build. `CompilationsIndependent` states those that can fail by a
  sequence of scopes.
- In `Compiler` the passes after the parse are one step; `CallDAG` models three of
  them in detail, from any shader, so the two need no common state.

## 6. Disagreements found

- `MacroLeak`: the expander of a `#line` or `#if` line may be destroyed in
  the middle of an expansion without any error. After `#line 1 f(` the newline is taken as
  the argument of `f`, a `)` on the next line closes the call, and the newline that comes
  out of the expansion ends a complete expression, so the directive is accepted.
  The macro stays disabled and counted as expanding, and a later `#undef` is refused
  with "macro undefined while being invoked".
- `PoolOverrun`: whether a request fits into a page is decided with the padding at the old
  place, and the block is put into a new page with the padding there. In a pool with an
  alignment larger than that of its pages (the unit test uses up to 128) the block may end
  behind the page (`BlocksFit`). `BlocksStayUsable` shows that it cannot where the first
  block of a page needs no padding.
- `InputEof`: when a continuation is followed at once by a backslash, `read()`
  skips the continuation, stops before the backslash and returns 0. The lexer takes
  that for the end of the input: the rest of the shader is dropped without an
  error, where the comment in `Input.cpp` expects the backslash to be processed on
  the next call. Two continued lines in a row with nothing on the second are enough.

Four more can be seen with TLC by a change of one line in a configuration:

- `CallGraph` with the invariant `RecursionChainIsCalls` only: the call chain printed for a
  recursive shader may contain calls that do not exist. When 1 is declared first and calls
  2 and 3, 3 calls 2 and 2 calls itself, `CallDAG.cpp` prints 1 -> 2 -> 3 -> 2 -> 2. The
  comment at `CallDAG.cpp:165` describes the stack as segments of "[F visiting = true,
  subset of F callees with visiting = false]"; a copy of a function that is visited from
  elsewhere breaks that.
- `CallGraph` with `DepthChainComplete` only: the chain printed for a too deep call stack may
  leave out the function that makes it too deep. When 1 calls 2 and 3, and 2 calls 3, it is
  1 -> 1 -> 3, where `Compiler.cpp:1607` asks for "a meaningful info log". This and the
  last concern messages only; `FaultsFound` and `CallDepthExact` show that the right
  shaders are rejected.
- `RingBuffer` with the specification `AnySpec` and the invariant `AssertionsHold`: two check
  points with nothing allocated between them have the same pointer. Releasing the first may
  reset the buffer, and then the second fails the assertion at
  `RingBufferAllocator.cpp:223`. `getReleaseCheckPoint` states no condition for its callers.
- `PoolAllocator` with the property `PopAllFreesAll`: "Call popAll() to free all memory
  allocated." (`PoolAlloc.h:89`, and "Free everything" at `PoolAlloc_unittest.cpp:49`), but
  what was allocated before the first `push()` stays until the destructor. Neither does
  `pop()` without a `push()` free anything, where `PoolAlloc.h:84` says that it "frees all
  memory since first allocation".

Met while modelling and not stated as a property:

- A `precise x;` inside a function reaches `addInvariantVarying`, which asserts the
  global level (`SymbolTable.cpp:229`): `parseGlobalQualifierDeclaration` checks the
  level for `invariant` only. In a release build the local variable is marked.
- `compile()` with no strings returns true and keeps the results of the shader
  before. `clearResults()` leaves the fields that only `setASTMetadata` writes, so after a
  failed parse they are still those of the previous shader.
- A compilation without `emulateGLDrawID` erases `ANGLE_multi_draw` from the
  extension behaviours for good; later compilations of the handle do not get it back.
- An empty string between a backslash and a newline keeps them from being a
  continuation.

## 7. Not modelled

- **Tokenizer, values of `#if` expressions.** A generated scanner over character patterns and
  arithmetic, without state beyond the location. The models take a token, or the value of
  an expression, as a choice; which tokens the expression parser accepts is part of
  `MacroExpander`.
- **Directive handler** beyond the version: pragma flags and extension behaviours are
  stored for later stages, and nothing modelled here reads them.
- **Parser** beyond scopes, declarations and nesting: type rules, qualifiers,
  layouts and constant folding decide about one expression or declaration at a time
  and keep no state.
- **Validators, tree transformations, variable collection, packing and layout.** Each is
  one traversal of a tree, a function from trees to trees or errors. A TLA+
  model would repeat its recursion, and whether a transformation is right
  depends on the meaning of GLSL programs, which is far beyond a small model.
- **Back ends** (GLSL, HLSL, MSL, SPIR-V): generation of text and instructions.
- **Translator interface** (`ShaderLang.cpp`): forwarding to the handle. The global pool pointer of
  each thread is not modelled.
- **Generated tables** of built-ins and formats, most of the lines under `src/`, and the plain
  helpers of `common`: no protocol to check.
