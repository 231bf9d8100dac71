# Specifications of the llvm-profiler passes and runtimes

`src/llvm-profiler` is a set of LLVM passes and runtime libraries that profile a program *per context*. A context
is a chain of calls and loops from `main`. A pass numbers all contexts at compile time (the context tree), other
passes insert calls of runtime functions ("hooks") around calls, loops and memory accesses, and a runtime library
linked into the program keeps a global `currentCtx` up to date by adding and subtracting constants. Everything a
profile says is indexed by that number, so the central question is whether it is right.

The modules here model the parts that compute, keep and use it; TLC checks them on small programs, and TLAPS proves
for every program that the tree, the hooks' constants and `currentCtx` are right, and on which conditions.
`PROJECT.json` maps every definition to the lines it stands for and lists runs, mutations, findings, hazards and
theorems.

## 1. Inventory

| component | state | operations | interacts with |
|---|---|---|---|
| Context tree builder (`lib/CAMP/ContextTreeBuilder`) | `cxtTree`, `assignerUcID`, local ids per call site, per indirect candidate, per loop | a depth-first traversal of calls and loops; writing the tree to two files | recursion analysis (where to stop), indirect call analysis (candidates), LoadNamer (loop ids); its tables are the constants of all hooks |
| Recursion analysis (`lib/AliasAnalysis/RecursiveFuncAnal`) | `callHistory`, `recFuncList`, `nonRecFuncList` | depth-first walk from every function | delivers `recFuncList` |
| Indirect call analysis (`IndirectCallAnal`) | candidates per indirect call | type matching | both of the above |
| Loop traversal (`LoopTraverse`) | depth per function | the nesting of loops through calls | only printed |
| Instrumentation passes (`CtxObjtrace`, `ObjTrace`, `CAMP`, `CampExectime`, `Qprofiler`) | none at run time | put hooks before and after calls, into loop preheaders, headers and exits, before loads and stores; replace allocators; add a constructor and a destructor | tables of the builder; hooks of the runtimes |
| Context part of the runtimes (`ctxObjtraceRuntime`, `campRuntime`, ...) | `currentCtx`, `disableC(t)xtChange`, the iteration stack | LoopBegin/Next/End, CallSiteBegin/End, Disable/Enable | called by the instrumented program |
| Object tracing (`ctxObjtraceRuntime`) | tags in shadow memory, counts per (context, object) | Load, Store, Malloc, Calloc, Realloc | context part, shadow memory |
| Time tracing (`objtraceruntime`, `x86timer`) | a timer, time per context | the context hooks | context part |
| Dependence profiler (`camp`, `campSampling`) | load and store history per byte, dependence table, sampling bits | Load, Store, Malloc, Calloc, Realloc, Free, the loop hooks | context part, shadow memory |
| Loop execution time (`campExecRuntime`) | a start time and a sum per context, time in any loop | the context hooks; a table and a drawing at the end | context part; the builder's files |
| Queue profiler (`tools/Qprofiler`) | the watched context, a count of changes | the begin hooks with a unique id | context part; a file of watched contexts read by the pass |
| Shadow memory (`ShadowMemory.hpp`) | pages mapped | SIGSEGV handler | object tracing, dependence profiler |
| Namers (`Namer`, `LoadNamer`, `EsperantoNamer`) | ids of functions, loops, instructions; devices of calls | naming, a file written and read back; walks along uses | builder, hooks of accesses |
| Register dependence finder (`RegiInterIterDepFinder`) | loops that carry a dependence in a register | `isIndVar` over expression graphs | the loop ids |
| Cache pass, plain pass (`CampCache`, `CampPlain`) | a copy of a function per context; none | cloning calls along the tree | the tree |
| Utilities (`GlobalCtors`, `InstInsertPt`) | | constructors and destructors of the module; where an instruction goes | all passes |

What is hard here: the tables are computed in one traversal and used in another order at run time; one constant per
instruction must suit all copies of it in the tree; exceptions leave calls and loops by other ways than returns;
recursion must mute all hooks and unmute them exactly at the call that muted them; every counter has a width (16-bit
local ids, 32-bit context, 7-bit iteration counts, 16 slots); the edits of one block by several loops and calls
must nest; history of freed memory must not leak into its next use; pages appear in the middle of an access; results
travel through text files by name. Nothing is concurrent: the runtimes are not thread-safe and do not try to be.

What makes each component correct:

- *Builder*: the assertions in it never fail (they do where loops share an id); the tree has exactly one node per chain of calls and loops (a recursive
  function is a leaf); a node's id is its parent's plus the local id of the way to it; the traversal ends.
- *Recursion and indirect call analysis*: the marked functions cut every cycle the program can really go through (but for
  pointers to functions of another type), are recursive themselves, and the walk ends.
- *Passes*: the edited function is well formed and behaves as before, and when it executes one of its own
  instructions, the hooks have opened exactly the loops and the call it is in.
- *Hooks and context*: `currentCtx` is the node of the call path, at every step and after every return or exception.
- *Dependence profiler*: every dependence between two hooked accesses is in the table (without sampling), the table
  has no others, sampling only omits, and nothing of first iterations.
- *Shadow memory*: its users see flat, zeroed memory.
- *Object tracing*: an access is counted for the object it touches, in the context it is made in.
- *Execution times, time tracing, queue profiler*: begin and end of a context pair up; times are those the program
  spent; what is drawn hangs together; changes of the watched context are counted.
- *Namers*: two accesses or loops that must be told apart have two ids, also after the file.
- *Start and end*: Initialize runs before `main`, Finalize after it, and no function of the program is lost.

## 2. Plan

The order follows the importance of the number `currentCtx`: first what computes it, then what keeps it, then what
is recorded under it, then what surrounds it.

| module | is | composes / refines | state |
|---|---|---|---|
| `Program` | the programs that are compiled and run: regions, edges, candidates, landing pads | | done |
| `ContextTreeBuilder` | the pass that builds the tree and the tables | extends `Program` | done, proved |
| `RecursiveFuncAnal` | the pass whose result cuts the builder's recursion | its theorem is the builder's assumption | done, proved |
| `IndirectCallAnal` | the candidates that analysis walks along | extends `RecursiveFuncAnal` | done |
| `ContextRuntime` | program and hooks | extends `ContextTreeBuilder`; implements `ContextSpec` | done, proved |
| `ContextSpec` | what the context part promises | | done |
| `HookEdits`, `CAMP`, `CampExectime`, `CtxObjtrace`, `ObjTrace`, `Qprofiler` | the edits of the five passes | | done |
| `HookPlacement` | a function edited by one of the passes, then run | composes these six; implements `PlainProgram` | done |
| `IterStack`, `CampExec`, `TimeTrace`, `ObjectTrace`, `QueueProfiler` | the runtimes' parts | | done |
| `Profilers` | a program over a context tree, with one of four runtimes | composes these five | done, proved |
| `FullProfiler`, `DependenceProfiler` | the runtimes without and with sampling | the second has one program with both | done, proved |
| `ShadowMemory` | pages on demand | implements `FlatMemory` | done, proved |
| `FlatMemory` | what users of the shadow rely on | | done |
| `TreePasses` | what `CampCache` and `LoopTraverse` derive from the tree | extends `ContextTreeBuilder` | done, proved |
| `Namer` (with `LoadNamer.cpp`), `EsperantoNamer`, `RegiInterIterDepFinder` | the passes around | | done |
| `Compilation` | one compilation and the life of the process | composes these and the passes | done, proved |

Theorems are in a module of their own, named after what they are about (`...Proofs`), those of `ShadowMemory` in the module itself.
Worth proving next: `DevicesFollowUses` of `Compilation`, whose walks along uses are folds over all instructions.

## 3. Modules and code

**Program.** A region is a function or a loop; its body is the sequence of edges the traversal meets, calls before
loops, as `functionNodeTraverse` and `LoopNodeTraverse` order them (external declarations have no node). An edge
`<<site, function>>` is a call, several edges with one site are the candidates of an indirect call, `<<loop, loop>>`
enters a loop. Assumed of programs (`NamesAssumption`, `ProgramsAssumption`): names are distinct, a loop is in one
place, every candidate appears once, `main` is not recursive (asserted in the source), and the marked functions cut all
cycles (which is `EveryCycleCut`, proved of the recursion analysis). `Offset` numbers the edges; it is characterised
by its equations, so that no recursion is needed in proofs. `loopIdOf` are the context ids `LoadNamer` finds by the names
of the headers. That no two loops share one is not assumed: `OwnLoopIds` is a condition where it is needed.

**ContextTreeBuilder.** `cxtTree`, `assignerUcID`, `locIdOf_callSite`, `locIdOf_indCall`, `locIdOf_loop` are the
members of the class. `path` is the C++ stack of the mutually recursive traversals, `visited` how far each of them has
come. `MakeNodeOfCallSite` and `MakeNodeOfLoop` are one round of the loops in the traversals including the table entry
and the new node; `ReturnToParent` and `FinishTree` are the returns. The assertions are explicit: a failing one sets
`status`. A local id is the difference of two ids modulo `LocMod` (2^16 in the code). The table
of loops has their context ids as keys, and so have the duplicates looked for: loops without a header name share the entry 0.

**RecursiveFuncAnal, IndirectCallAnal.** `callHistory` with a position per function is the recursion stack of
`traverseAndMarkRecCalls`; the actions are its branches (known callee, callee on the history, new callee, end). The call
graph it walks on is the one `IndirectCallAnal` makes: a call through a pointer has the functions of its type as
callees, a call of a cast function that function or, if it is external and no known library function, all functions
of the cast type. What a pointer really points to is arbitrary (`targets`, of any types); `Missed` names the targets the
matching cannot see.

**ContextRuntime.** Builder and running program in one specification: after `FinishTree`, `Initialize` starts the
program. One action per way the program can move together with the hooks the pass puts there, in their order: a call
runs `CallSiteBegin` and, at a recursive leaf, `Disable`; a return `Enable` and `CallSiteEnd`; loops `LoopBegin`,
`LoopNext`, `LoopEnd`; an exception unwinds plain calls without hooks and runs the hooks at a landing pad. `stack` is
the program's, with ghost fields that name the tree node expected. `ContextSpec` promises the same without arithmetic.

**HookEdits and the passes.** All five passes carry the same editing code, so `HookEdits` has it once and `CAMP`,
`CampExectime`, `CtxObjtrace`, `ObjTrace`, `Qprofiler` say which hooks they call, which edits they make and in which
order (`CAMP` no call sites; `CtxObjtrace` and `CAMP` accesses and allocators; `Qprofiler` a unique id for places in its
file). A function is the instructions and successors of its blocks. An edge out of a loop gets a block of its own for
`LoopEnd`, unless it enters a landing pad; an indirect call gets a chain of comparisons that stores the local id of the
candidate it recognises. Its last part is `GlobalCtors.cpp`, by which a pass has its functions called before and after `main`.

**HookPlacement, PlainProgram.** The compiler edits the function, one table entry per step (`EditFunction`); then it
runs, instruction by instruction, with hooks that count what they open and close per place. `PlainProgram` is the
function as it was. The number of a context is `ContextRuntime`'s business; here it is whether the hooks are in the right
blocks. An uninitialised `locID` is the value `"junk"`, whatever it is.

**Profilers.** A program walks over a given tree with its hooks where they should be and one of four runtimes linked in:
`CampExec` (times with inner contexts), `TimeTrace` (without them), `ObjectTrace`, `QueueProfiler`; `IterStack` is the
part they share; the second part of `CampExec` is what its finalizer makes of the builder's files. Beside the runtime's
state there is the truth: `spent` time, `owner` of words, `touched` objects, `watched` places. Functions that only a
library calls have hooks with the id 0; their loops are `EnterCallbackLoop`, what they call is not followed.
Known from the code and stated in the properties: `objtraceruntime.cpp:201` stops the timer where the other hooks
start it, so the time before a call is counted for the callee a second time; its finalizer drops the last segment; the
queue profiler's `CallSiteBegin` moves the guard also while changes are disabled; after `exit()` the open contexts of
`CampExec` lack their last time.

**FullProfiler, DependenceProfiler.** `FullProfiler` is the runtime `camp`, as operators on a record of its static
variables; `DependenceProfiler` has the variables of `campSampling` and a program that calls the hooks of both: loops with
contexts, iteration slots and their overflow, `LoadInstr` and `StoreInstr` with history, merging of iteration counters and
sampling, and the replacements of the allocator. As `CAMP.cpp` has the hooks of calls commented out, contexts are sums of
local ids of loops and `Disable` never runs. `accesses` is a log for the properties: dependences are defined from the log
alone, without any variable of the runtimes.

**ShadowMemory.** An access names the word it touches first; if the page is missing, `SegFaultHandler` maps it
(and the next one, when `SIZE_ELEM` words reach into it), then the access is made. `FlatMemory` has the same requests and
answers without pages.

**TreePasses.** `CampCache` runs behind the builder: `VisitNode` is a round of `runOnModule`, `VisitCall` and
`ReplaceCall` are `recurDuplicateFunction` before and after the recursion, `frames` its stack. `getLoopDepth`, of
`LoopTraverse`, is a recursive function over regions.

**Compilation.** `NameFunction` is `Namer` on one function, `LoadMetadata` the file read back, `recordLoopIDforEachLoop`
the builder's table of loops by id, `FindDependences` the register dependence finder, `AddInitAndFini` a pass's constructor and
destructor; the rest is the loader. `GiveDevices` is `EsperantoNamer`, which ends in `"crashed"` where it follows a null
callee. `getClassNameInFunction` adds to the length, at every digit, the number that begins there, so that 12 becomes 122:
the name of a class of ten or more characters comes out with characters behind it, which is no class, or the end of
the function's name is passed; then a compiler with assertions stops (`"crashed"` again), one without finds no class either.
`isIndVar` counts the values it came through: a call with more than `SearchLimit` (50 in the code) of them asserts, which is
the stage `"too big"`, or answers no in a build without assertions, and both outcomes are in `FindDependences`. Loops whose
header has no name share the id 0. `UnitsAssumption` is what LLVM makes sure of: names and headers
that have names are distinct, instructions have the operands of their kind, priorities are in 0 .. 65535,
a function is called once at the start or the end, and no function of the program has the name of a pass's. TLC evaluates
it on the units of the run. `HookEdits` puts lists together with `Joined`, the `FlattenSeq` of `SequencesExt` under
another name: every pass is an instance of it here, and `SequencesExt` would bring its library of bags into each.

The `MC...` modules give the constants their values for TLC (`MCPrograms` the sets of programs that two of them share).
Definitions marked "Faulty" (as `LoadAgainLast`) are mutations of a definition, used to show that the properties can
fail; no specification uses them.

## 4. Runs

| run | question | result |
|---|---|---|
| `tree_builder` | is the tree right, do the copies of `CampCache` and the depths of `LoopTraverse` follow it? | holds; the builder's assertions do unless loops share an id |
| `recursion_analysis` | do the marked functions cut all real cycles and no more? | holds, but for pointers to functions of other types |
| `context_runtime` | is `currentCtx` the node of the call path, whatever the program does? | holds, and `ContextSpec` is implemented |
| `hook_placement` | do the hooks of all five passes stand right, and leave the program as it was? | holds |
| `profilers` | do times, object counts and queue changes say what the program did? | holds |
| `dependences` | are dependences and their loop relations recorded, with and without sampling? | holds |
| `dependences_objects` | are histories forgotten with the object and only with it? | holds |
| `shadow_memory` | is mapping on demand visible? | not, if no access is near the end of a page |
| `compilation` | do ids, devices, dependences and start functions survive the compilation? | holds |
| `context_mixed_targets` | `context_runtime` with a call site that may call a recursive and a non-recursive function | violated |
| `exec_callback_loop` | does `LoopEnd`'s assertion hold when a library calls back a function with a loop? | violated |
| `cache_copies` | is a call replaced by the copy made for its own context? | violated |

`context_runtime` holds for programs whose call sites have only recursive or only non-recursive candidates, and whose
throwing *hooked* calls are invokes with a landing pad each; calls below a recursion may be plain or share a pad.
These are conditions on the *profiled program*, which nothing in the repository states or checks. A call through which
an exception passes without a landing pad misses its end hook, and two invokes with one pad run both end hooks
(see hazards).

The three violated runs are the findings in `PROJECT.json`, each where code and documentation part. Not counted as a
finding: the recursion analysis does not mark *every* recursive function, one that is on a cycle only through an already
marked function is skipped. For the builder this is enough (`EveryCycleCut`), and a TODO in the source hints at it.

What the deeper properties hold against:

- `LocalIdsAgree`, `TablesMatchTree`: one constant serves all copies of a place. Loops without header names share the id 0
  and so an entry of the table: two of them one behind the other fail the assertion at `ContextTreeBuilder.cpp:492`, one in
  the other that or the one at line 270. Programs of both kinds are in `tree_builder`, where TLC reaches both failures, and
  the property excuses no others. (Of named loops `LoopsKeepTheirIds` says that the ids differ.)
- "parent context id = context id - local id" (the repository's `README.md:12`) is certain only in trees of at most 2^16
  contexts, since nothing asks whether a local id fits its 16 bits; it is a lemma (`ParentFollows`) with this condition, as
  are the theorems on contexts and copies.
- `EveryRealCycleCut`: pointers may point to any function. A cycle left uncut needs a pointer that is followed to a
  function of another type; the run has such pointers, and modules in which they close a cycle that nothing cuts.
- `DependencesListed`: a search that is cut off may list an inductive loop, but never drops one with a dependence.
- `OneCopyPerContext`: `CampCache`'s search, which goes on behind the last node found and starts again after a recursion,
  misses no context. That the copy is the one of *this* call is another matter (`cache_copies`).
- `ContextNamesCallPath` against `ContextIsHere`: the first compares the reported id with the path of names from the
  root, the second with the node the program was led to.
- `ContextsOpen`: at every instruction of the program itself, in every order of the edits, begin hooks less end hooks are
  1 for the places around and 0 elsewhere, for candidates of indirect calls and for targets that are no candidate.
- `DrawingIsConnected`: nodes and edges of the drawing are chosen by separate conditions over two files; no node hangs
  in the air, with loops or without.
- `SamplingOnlyOmits`: the sampled table, bit by bit, is part of the full one, although sampling skips loads and not
  stores and so keeps other histories.

### Bounds

- *Programs*: two functions beside `main`, three loops, five call sites, all combinations of the listed bodies. This has
  the cases that matter to the builder: the same callee from two places (copies must agree), several candidates, self and
  mutual recursion, calls in loops, nested loops. The theorems remove the bound, for tree and context.
- *Call graphs* of the recursion analysis: modules of three functions with direct, indirect, cast and external calls (a
  cycle found only through an already listed function needs three).
- *Runtime*: depth 6 and 3 iterations; `STK_MAX_SIZE = 2` so that loops overflow the slots, `IterMod = 2` so that
  iterations wrap; `CtxMod` (64), `DisMod` (8) are chosen so that these two do not (a recursion of depth 2^16 would, see
  hazards).
- *Hook placement*: a function of 13 blocks with two nested loops in the form LoopSimplify leaves, a break out of both, a
  call as plain call or invoke, direct, recursive or indirect, with its pad inside or outside the loop; the five passes.
  `IterMod = 3`, three watched contexts. One call is an invoke; two invokes on one block are a hazard that is not covered.
- *Profilers*: trees of 6 nodes (4 where memory is modelled), depth 4 (3), the clock up to 5, two accesses, two words,
  three watched begin hooks. `MaxTime` allows a context to be entered twice with time before, in and between.
- *Dependences*: `MaxEvents` counts allocations and accesses together; 4 allow one object with load, load,
  store (a merged history) or an object freed and replaced between two accesses. The inner loop runs 3 iterations with
  `IterMod = 3` and threshold 1, so it is sampled and its counter wraps; `SamplingCycle = 2` stands for the period of the
  counter that lets a sample through. With objects: 5 events, two bytes, one loop. Loops start over without bound.
- *Shadow*: three pages of two elements. `SIZE_ELEM` is 4 words as in the history table. The malloc map has elements of
  one word, but addresses of objects are multiples of 16, so its first touches never come within 4 words of the end of a
  page; it is the same model with `Stride = 1` (the theorem covers it).
- *Compilation*: two functions of five or six instructions and up to four loops; one loop with all ways to compute three
  values from each other; lists of three constructors and destructors; four calls that use each other's values. `IdMod = 8`
  stands for 2^16, so that counters of a kind come close to half of it and beyond. `SearchLimit = 4` stands for 50: with three
  values in each other's expressions there are searches that end within it and searches that do not. Class names have one
  character or twelve, and names of functions end before or behind what is read.

### Fairness

The passes are sequential programs: weak fairness of their next step (`BuildStep`; `ModuleNext`, which is
`AnalNext`) says that the
compiler keeps running, and the liveness properties (`TreeFinished`, `AnalysisEnds`) say that the recursion ends. The
profiled program may stop or loop wherever it likes: the specifications with a running program have no fairness and only safety
properties. In `ShadowMemory` the processor delivers a fault and repeats the access after the handler, so handler and access
are weakly fair; that an access ends then means that the handler maps the right page.
Deadlock checking is off because compilers and programs end (and the bounds stop the others).

## 5. Proofs

`ContextTreeBuilderProofs`, `RecursiveFuncAnalProofs`, `ContextRuntimeProofs`, `DependenceProfilerProofs`,
`ShadowMemory` (behind the model), `ProfilersProofs`, `TreePassesProofs`,
`CompilationProofs`; all leaves are checked by SMT, Zenon or LS4. The type invariants of builder,
analysis and shadow memory are proved and not run again.

*Builder.* For every set of programs satisfying `NamesAssumption`, `ProgramsAssumption` and `OffsetAssumption`.
`BuilderInv` has three parts. `TreeInv`: a node's id is its parent's id plus the offset of its edge (`NodesRight`), a
traversal has visited a prefix of its region's body and made a child for each edge of it (`VisitedRight`), the stack
leads from the root to the current node and traversals nest (`PathRight`: what a child's traversal will number ends
before its parent's does, so no region is on the stack twice), and the next id is the one the numbering says (`NextUcID`).
`TableInv`: every entry made is the offset of its place. `StatusRight`: an assertion failed only if two loops share an id. The offset of a place
depends on the region and the position only, not on the copy, which is why copies agree: the whole argument rests on
`NextUcID`, because local ids are differences of a counter that runs through all copies. From it: types, the
assertions (on programs with `OwnLoopIds`), the tables as long as no assertion has stopped the pass, completeness.

*Context.* For every program that is `WellHooked`: the candidates of a site are all recursive or none is
(`UniformSites`); if anything throws, every site is an invoke with a pad of its own (`OwnPads`, a little more than the
run asks, which lets muted calls be plain); the tree has fewer nodes than there are local ids; and `LocMod <= CtxMod`,
`MaxDepth < DisMod`. Each of the first two is needed: `context_mixed_targets` violates the first, and for the second see
the hazard. `ContextInv` adds to `BuilderInv` that the stack is right (`StackRight`): an entry entered while nothing
was muted is the tree's child of the entry below along its edge, an entry below a recursion keeps its node and counts the
calls that muted; that `currentCtx` is the top entry's node and `disableCxtChange` its count; and that an exception is
never in a loop when it looks for its pad. The steps: since the ids fit, the constant of a hook is the distance from any
node to its child along that edge (`TableInv`), so a begin hook leads to the child and the end hook back; the least node with
the call's place decides whether hooks mute, and because sites are uniform this is right for every candidate; every edge has a
child because the tree is complete (`ChildrenFollow`). From it `ContextIsHere` follows as an invariant, and, step by step, that
the specification implements `ContextSpec` under the mapping in `ContextRuntime` (entering, leaving and catching are
`Enter` or `Leave` outside recursion, `GoDeeper` or `ComeBack` in it, everything else a stutter).
`ContextNamesCallPath` says the same with `PathFromRoot`, which recurses over the tree. That this function satisfies its
equation (`PathEquation`) is itself proved, by the least number of nodes for which no such function exists; so are the
inductions along the stack, by the first entry that is wrong. No entry before the first recursive call is muted, and every
one after it is, so the nodes on the way are the tree's path up to it and `currentCtx` stays there.
`IterStackCountsLoops`: the loops with a counter are the stack's loops outside recursion, and the slot of one is its
rank among them (`Rank`). Only the innermost one is ever entered, counted or left, which has the greatest rank and changes no
other (`RankOfLast`, `RankBelow`); beyond the last slot index and slots stay and the overflow count goes up and down. That
a loop's begin and end agree on whether it has a counter is `ContextInv` again: nothing is muted at the end that was not at the
beginning.

*Recursion analysis.* For every call graph. `AnalInv` says that the history is a chain of calls, that it leads to every
function it will list, that the callees already passed of every function on it are known (`CalleesKnown`), that the
functions listed as not recursive contain no cycle, and that what is marked reaches itself. When the analysis has ended
every function is in a list, so a cycle without a marked function would be one of functions listed as not recursive.
`RealCyclesAreCut` takes this from the call graph to the program: for every module (`ModulesAssumption`: its list has all its functions,
the calls of each are a sequence) a function that a call can enter is among the candidates found for it, unless a pointer is
followed to a function of another type (`TargetsFound`), and
the candidates of all calls of a function are its callees (`RealCallsAreEdges`). Both lists come from `FlattenSeq`, a
recursive function: that it exists and contains what it joins is proved by the least length for which it would not.

*Sampling.* For every set of loops and accesses, every number of counters, every threshold and period: what `campSampling`
records, `camp` records too (`SamplingOmits`). `DepInv` says that both runtimes have the same context, counters, last
stores and sizes (`SameState`), that the iteration stack and its overflow count fit the depth of the program
(`SlotsRight`), that every load in the sampled history of a byte is in the full one, and that where the counters of the two entries
differ the full one is marked as mixed, which stands for both relations (`Covers`). The load that comes again is what makes
it go round: its full entry has merged iterations that the sampled one has not, and every difference leaves a mark - at
the levels the load is in. Hence the condition `OneDepth`: no load has one context at two loop depths. Contexts are sums
of local ids modulo 2^16, and if two nests of different depth had one sum, a full entry could keep the counter of a loop that a
later, sampled load is not in. In the run each load is in one nest, so the condition holds there.

*Dependences.* For every program whose loops fit the counters (`FitsStack`), every number of bytes, objects and accesses, and
every threshold and period: `camp` misses no dependence and no relation (`NoDependenceMissed`), `campSampling` misses
none of first iterations (`FirstIterationsAreComplete`), and `camp` records nothing else (`RecordedIsReal`). The dependences are
defined from the log of accesses, so the invariant has to say what the log and the shadow elements have to do
with each other. An access is `Current` if its object is alive and no store has come to its byte since: these are the accesses
that can still become the source of a dependence. `LogInHistory`: each of them is in its byte's element, a store as the last
store with its counters, a load in an entry whose counters are its own or marked as mixed (`StandsFor`). `EarlyInHistory`: those
of first iterations are in the sampled history too, because a level samples only beyond the threshold. `HistoryInLog` is
the other direction: every entry is of a current access, and a mark of two in different iterations. Around
these, the counters are those of the program modulo `IterMod` (`LoopsRight`) and the malloc map has the sizes of the
objects there are, which do not overlap (`ObjectsRight`), so that a free forgets exactly the bytes of its object. An access
then depends on the current accesses of its byte and on no others (`DependsAfter`), and these are the sources the runtime
finds. TLC has checked the parts of the invariant on the configurations of both runs before.
Both conditions are needed; TLC finds a counterexample without either. `FitsStack`: iterations of a loop without a slot are counted
in the last one (the hazard at `campRuntime.cpp:113`), and then all three fail. `RecordedIsReal` also takes `OneNest`, that no instruction has
one context in two nests of loops: else one row of the table is for two instances of the instruction and the merged counters of
different loops are compared (for calls see the hazard at `CAMP.cpp:329`). In the runs every instruction is in one nest.

*Profilers.* For every tree whose parents come before their children and whose ids fit `CtxMod` (`TreesAssumption`; what the
builder makes is of this form), every number of slots, every clock, memory and choice of watched places. Allocations have
at least one byte (`SizesAssumption`; for 0 see the hazard at `ctxObjtraceRuntime.cpp:45`). `BaseInv` is what the four
runtimes share: an entry of the stack stands for a child of the entry below (`ByEdge`), for a loop of a function called back
with the id 0 (`ByCallback`), or was entered muted and has the node below; `currentCtx` is the top entry's node, the mute counter
the number of entries that mute, the slots those of the loops below the first of these. From it `ContextAndLoopsKept`.
`QueueInv` says the same of the guard and the last watched place. `TraceInv`: the time charged to a node with the segment that runs on is the
time spent there, and is at least that for calls, because only a begin hook of a call leaves the timer's start where it was.
`ExecInv`: a node has a start time iff it is on the path up from `currentCtx`, its charged and running time is the sum of the times spent
at the nodes inside it (`TimeRight`), and the same with `nestingDepth` and the loops on that path (`LoopsInv`). What a step
needs of such sums is that one more unit at a node adds one exactly if the node is in the set (`SumBumped`); the
paths upward are the least sets closed under parents, which is how the equation of `PathUp` is proved.
`DrawingsAreConnected` follows when nothing is open any more: the nodes inside a context are among those inside one above
it (`InsideNests`), so times only grow towards the root (`SumGrows`) and the edge's other end is worth drawing too; and
`getParentUCID` finds the last call on the path, whose recursion satisfies its equation as `PathUp` does. These four theorems
(`ExecTimesAreInclusive`, `TotalTimeIsInLoops`, `DrawingsAreConnected`, `ExecAssertionHolds`) require `"exec" \notin CallbackKinds`: a called-back loop opens
the context around it a second time, and the run `exec_callback_loop` shows what then happens; the assertion is proved on
exactly the condition the run violates. `ObjectsInv`: a word of a live tracked object has its id as tag
(`OwnersInv`), whatever was there before, hence each access is counted in the entry of its object and every
other count is of a stray (`TablesInv`). The rounding of sizes to words and of addresses to shadow elements is in the lemmas on quotients.

*Loop depth.* For every finished tree of every program, finite as programs are (`FunctionsAssumption`). `getLoopDepth` recurses
over regions, and it is proved that this ends: a region's tree is larger than those of the regions it leads into
(`SizeFacts`, from `Offset`), so a solution for smaller regions extends to the next size, and solutions agree. Then
the loops on the way to a node and the deepest nest below it (`Through`) are together no more at a child than at its parent
(`ThroughChild`), and the last node where they are as many as at the root has no nest below it (`OneAsDeep`).

*Copies.* For every program with at most `LocMod` contexts and no invokes (an invoke stops the pass), and every order of its blocks in
which each function's list has the calls of its regions, each once (`OrdersAssumption`). Between the tree and the functions there is
a correspondence: the regions of a context's function have one node each inside the context (`NodeOfRegion`,
`OneNodeForRegion`), so a context calls exactly one context at each direct call (`KidsAreSites`, a bijection). That is what makes the search succeed,
although it ignores which call it is for: `EnoughLeft` says that for every copy being made and every function, as many contexts are left as
calls not yet searched for. Around it, the frames are a chain of callers down from main, none of them done (`FramesRight`); a node that is done has its caller
done or on the stack, and if it was to be copied it has a copy and so has everything it calls (`DoneRight`), which is why the nodes of a fresh clone are
all still there; and each copy is called where no later one can be, since its call is not among those to come (`CopyRight`). At the end all nodes are passed,
hence done, hence copied. `getParentUCID` and `CopiedPath` recurse over the tree; that they satisfy their equations is proved
(`ParentRecursion`). That the copy is called at the context's own place is not true: see the finding.

*Compilation.* For every set of units with `UnitsAssumption`, any choice of tools for them, and any even `IdMod`. Each property has
its own inductive invariant.
`NamerInv`, for `InstructionIdsUnique`: the loads named so far are numbered by a bijection onto 1 .. `loadCount`, the stores
onto 1 .. `storeCount`, all instructions onto 1 .. `instructionCount`, and their ids are these numbers doubled, doubled plus
one, or as they are, modulo `IdMod` (`KindNumbered`, `AllNumbered`). One function adds the instructions of each kind in the order of
`Places`, and the k-th of them gets count + k (`NumberingExtends`). An even modulus keeps the parity, which tells loads
from stores however far the numbers wrap.
`LoopInv`, for `LoopsKeepTheirIds`: below 2^16 contexts nothing wraps, so each loop named has a context id and `loopTable` has its
header and its function there (`LoopsNumbered`); the file read back is that table, and as names are distinct the search by name
and function finds this entry again and no earlier one.
`FinderInv`, for `DependencesListed`, says in which stages the list is the search's; the work is in the search, a recursive
function on values, the set of values come through and their number. That such a function exists is proved by the union of
all sets of calls that may say yes (`SearchExists`, `ExceedsExists`), and of two solutions there is nothing to choose, since what follows is
proved of any. What the search says yes to is in a set of values that supports itself with the phis come through (`Sup`,
`YesIsRight`), and if no call within it is beyond the limit it says yes to every such value (`NoIsRight`): else there would be a wrong answer with
the most values come through, and the answers it was made from are right. No SSA form is needed: the limit alone ends the search.
`StartInv`, for `StartAndEndKept`: what was called and what the two lists still call are disjoint and together what is to be called
(`CalledOnce`); until Finalize has run, the record that calls it first has all destructors of low priority behind it
(`FinalizeFirst`); and no constructor that waits had to come before one that has run (`CtorsInTurn`). Behind the step of
the pass is `AppendFacts`: where each element of the new lists comes from, which is read off the lengths of the joined lists
(`FlattenPlaces`); behind those of the loader `WithoutFacts`, that the record taken goes and no other. Main runs only
when no constructor is left, hence after Initialize.

*Shadow memory.* For every page and element size with `NoCross` (stated in words of the handler: the element-sized range
at each first-touched word stays on its page). Inductive: types, and an unmapped page is all zero. A step of the
handler is then a stutter of `FlatMemory`, every other step one of its steps. Without `NoCross` it is false:
`campSampling` breaks it with an unsampled store to the last byte of 128 whose shadow page is not mapped while the next one
is (`campRuntime.cpp:240` touches word 1 of the element first).

Only model-checked: all liveness; `DevicesFollowUses`, whose
walks are folds over the instructions and the uses of each value; and `WellFormed`, `ContextsOpen` and `IterationsCounted` of
`HookPlacement`, about a function's blocks after any number of edits in any order, that is, induction over the edits and over
the instructions of a block. Assumed in theorems: only
the named `ASSUME`s, which TLC evaluates in the runs, and the stated conditions `WellHooked`, `OneDepth`,
`FitsStack`, `OneNest`, `OwnLoopIds`, and no called-back loops where execution times are meant.

## 6. Not modelled

- LLVM itself, text output, timers' hardware. What LLVM does for a pass (splitting an edge, LoopSimplify's form) is modelled
  where a pass relies on it and marked external.
- The `backup` directories below `lib` and `tools` hold some 5,300 lines of earlier versions of the same passes and
  runtimes, which nothing builds.
- Code that does not run: blocks of `CAMP.cpp` and of the runtimes that are commented out or `#ifdef`-ed out,
  `FindFunctionExitBB`, `EsperantoNamer`'s `remoteCallFunctionTable`, the table that the queue profiler's `in_read` fills, and the
  load, store and allocation functions of `objtraceruntime.cpp` (237-384), which no pass inserts.
- Printing: statistics, the dumps of trees and graphs for debugging, the text of result files. Of files that are read back
  the records are modelled; the readers' buffers are assumed large enough for a line.
- Characters: `EsperantoNamer` takes class names out of mangled names; the model has the name, its length as read, and how much of the function's name is left. Its
  `defaultPlatform` is never set and so arbitrary.
- Accesses that have no hook: library functions such as `memcpy`, and loads whose every use is a `getelementptr`
  (`isUseOfGetElementPtrInst`). Dependences are those between hooked accesses.
- In `DependenceProfiler`: memory that was not allocated by the hooked functions (its history is never cleared), allocation
  of size 0 and failing allocation, `realloc(NULL, n)`.
- `longjmp`, and functions of the program that run before `Initialize` or after `Finalize` (its own constructors and
  destructors): their hooks see a runtime that is not there yet, or no more.
- Builds without assertions behind a failing one, except in the two places where it is the limit or the bounds of a read that
  fails (`FindDependences`, `GiveDevices`): the tree builder stops where an assertion would.
- Threads: the runtimes' state is global and unprotected; a multithreaded program is outside what they support.
