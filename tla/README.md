# A TLA+ model of ghoti

ghoti is a compiler for a systems language, with a build driver, a formatter,
a REPL and a language server (`lib/driver`, `lib/compiler`, `lib/support`).
These modules model the parts of it in which order matters, check them with
TLC on small instances and prove the main results with TLAPS for every
instance.

## 1. Inventory

| Part | State it keeps | Operations | Talks to | What is hard about it |
|---|---|---|---|---|
| **LSP server loop** `cmd/lsp/server.cc` | parked queries, `analyzing_revision_`, debounce deadline, `shutdown_received_` | one handler per message, `note_edit`, `start_analysis`, `handle_finished_analysis` | reader thread, queue, worker, store, client | three threads; cancellation; debounce; late snapshots; teardown |
| **Analysis worker** `cmd/lsp/worker.cc` | `next_`, `cancel_`, its thread | `schedule`, `cancel`, `run`, destructor | server loop, snapshot builder | newest inputs only; flag cleared and set by two threads; stop |
| **Event queue** `cmd/lsp/event_queue.hh` | a deque, a mutex, a condition variable | `push`, `pop`, `pop_until`, `try_pop` | reader and worker push, main loop pops | lost wake-ups, the deadline racing a push |
| **Document store, snapshots** `document_store.cc`, `snapshot.cc`, `session.cc` | overlays, known roots, revision, newest snapshot, unpublished diagnostics | `edit`, `close`, `add_known_roots`, `install`, `take_pending_diagnostics` | server loop | revision against snapshot, diagnostics of modules no longer reached |
| **RPC framing, text edits, positions** `rpc.cc`, `text_edit.cc`, `position_index.cc` | negotiated encoding | frame reading, incremental edits, UTF-16 conversion | reader, document store | off-by-one at boundaries, broken frames |
| **Queries** `completion.cc`, `references.cc`, `diagnostics.cc`, `code_actions.cc`, `document_symbols.cc`, `formatting.cc` | none | functions of a snapshot | server loop | large case analyses, no state |
| **Module layer** `compiler/src/module` | loaded modules, parse cache, overlays | load, import, find, retain | analyzer, snapshots | import cycles, identity of paths, stale parses |
| **Syntax** `compiler/src/syntax` | token position, scopes of the parser | lex, parse, precedence climbing | module layer, formatter | error recovery |
| **Formatter** `ast/formatter.cc`, `syntax/doc.cc`, `syntax/layout_engine.cc`, `cmd/format` | the comments not yet handed out, the document, the engine's stack | build a document, print it, compare meaning, write or check | parser, file | comments are not in the tree; width and breaks depend on each other; regions kept as they are |
| **Semantic analysis** `compiler/src/sema`, with `sema/pattern.cc` | symbol tables, type pool, instantiation caches, module states | collect, resolve, check, control flow | module layer, GIR | recursion between modules and instantiations, memoised results, cancellation midway |
| **GIR, constant evaluation** `compiler/src/gir` | segments, scopes, loop contexts; the evaluator's frames and signal | emit, evaluate | analyzer, codegen | the same statements mean something twice, once emitted and once evaluated: jumps and deferred code, matches, width-exact arithmetic |
| **Code generation, linker** `compiler/src/codegen` | LLVM module, target families, temporary objects | lower, ABI classification, link | GIR, runtime library | ABI tables, exclusive resources |
| **compiler_rt** `compiler/src/runtime/compiler_rt.cc` | archive memo under a mutex | `get_archive` | linker | two threads building once, replayed errors |
| **Support** `lib/support` | none, or a child process | big integers, soft floats, subprocess, temporary files, diagnostics | everything | width and carry edges, waiting for and reaping a child |
| **Driver commands** `driver/src/cmd`, `driver/src/clap` | options | parse arguments, build, run, test, format | compiler | partial failures of a build |
| **Language libraries** `lib/std`, `lib/compiler_rt` | - | written in ghoti | - | a different language: not modelled |

### What makes each part correct

* The server: no edit is forgotten, every request gets exactly one reply, an
  answer covers the text it was asked about, the client's diagnostics are
  those of the newest finished analysis, an exit ends every thread.
* The worker: it never goes on with text the editor no longer has, never loses
  the newest inputs, delivers in order, stops when told.
* The queue: nothing is lost, duplicated or reordered, and no consumer sleeps
  while something is queued.
* The store: revision numbers name texts, so comparing numbers is enough.
* The analyzer: what is lowered has no error in any file it depends on; every
  failure is explained, once, in the module it is in; tests wait until nothing
  is half resolved; the recursion between modules ends; a cancellation leaves
  nothing half done.
* The module layer: a file is parsed once; a failed module stays failed.
* The formatter: what is written parses and says the same, has every comment and
  every kept region, and formatting it again changes nothing.
* Emitter and evaluator: whatever a body does at compile time it does when it is
  compiled and run, for every outcome of its conditions.
* Matches: the decision tree takes the arm that trying the patterns one by one
  takes, reads no part of a value that is not there, and says of a match that is
  not exhaustive, or of an arm that is never taken, only what is true.

## 2. Modules

| Module | Stands for | State | Actions |
|---|---|---|---|
| `Analysis` | `analysis_inputs`, `analysis_snapshot::build` as a function of its inputs | - | - |
| `DocumentStore` (EXTENDS `Analysis`) | `document_store` | `files`, `revision`, `snapshot`, `pendingDiagnostics` | `Change`, and what `install` and `take_pending_diagnostics` compute |
| `AnalysisWorker` (EXTENDS `Analysis`) | `analysis_worker` | `next`, `cancel`, `workerPc`, `building`, `checksLeft`, `stopRequested` | `HandOver` (schedule, cancel), `Take`, `Stop`, `Abandon`, `PassCheckpoint`, `Deliver`, the destructor's two statements |
| `LspServer` (EXTENDS both) | `lsp_server`: reader, main loop, teardown, and the client | the queue, the batch, the parked queries, the deadline, what the client sent and saw | one per handler and per teardown step |
| `EventQueue` | `event_queue<T>` at the level of its mutex and condition variable | `events`, `mutex`, where each producer and the consumer stand, the deadline | one per critical section, wait and notification |
| `FifoChannel` | what the queue promises: a channel whose operations are instantaneous | its content, the last answer | `Send`, `Receive`, `FindEmpty` |
| `QueryService` | what the client is promised, without threads | texts, requests, replies, the analysis published | `Edit`, `Ask`, `AskCancel`, `Serve` |
| `ModuleAnalysis` | `analyzer::analyze` and the passes under it, over a graph of modules | the call stack, module states, statuses of symbols, diagnostics, the queue of tests | collection, resolution, tests, one declaration, the verdict per root, cancellation by another thread |
| `ControlFlow` | the statements that move control, and what the resolver accepts of them | - | - |
| `Lowering` (EXTENDS `ControlFlow`) | the emitter for them: segments, scopes, loop contexts, deferred statements | - | - |
| `CompileTimeEval` (EXTENDS `ControlFlow`) | the compile-time evaluator for them | - | - |
| `LoweredProgram` (EXTENDS `Lowering`) | the emitted code, run | `at`, `pc`, `trace`, `choices` | one per instruction and outcome of a condition |
| `SourceText`, `Syntax` | files as lines of words; the parser, its rules and nodes | - | - |
| `Layout` | documents, and the engine that prints them | - | - |
| `Formatter` (EXTENDS `Syntax`, `Layout`) | the walk that makes a document of a tree and hands out the comments | - | - |
| `FormatCommand` (EXTENDS `Formatter`) | `ghoti format`, `--write` and `--check` | the file, the outcomes | `Write`, `Check` |
| `Patterns` | types, values, patterns, their elaboration against a type | - | - |
| `DecisionTree` (EXTENDS `Patterns`) | the compilation of rows to a tree, coverage and witnesses | - | - |
| `PatternEval` (EXTENDS `Patterns`) | the compile-time evaluator's own matcher | - | - |
| `MatchDispatch` (EXTENDS the two) | a match from its check to the arm it takes | the tree's rest, the value, what was tried and read | check, start, and one per kind of node |
| `MCLspServer`, `MCModuleAnalysis`, `MCEventQueue`, `MCLoweredProgram`, `MCFormatCommand`, `MCMatchDispatch` | instances for TLC | | |
| `LspServerProofs`, `LspServiceProofs` | theorems about `LspServer`: its bookkeeping; what it promises the client | | |
| `ModuleAnalysisProofs`, `AnalysisReportsProofs`, `AnalysisGraphProofs`, `AnalysisLoweringProofs` | theorems about `ModuleAnalysis`: types, order, failures and what is half done; where an error is reported; what its graphs say; what is lowered, and that there is ever less to do | | |
| `EventQueueProofs`, `QueueLemmas` | theorems about `EventQueue`; facts on sequences | | |

`LspServer` composes the store, the worker and the loop; it takes the queue as a
sequence, which `EventQueue` implements (`ImplementsChannel`). `LoweredProgram`,
`FormatCommand` and `MatchDispatch` each compose two independent readings of the
same input and hold them against each other.

How the model corresponds to the code:

* **Critical sections are steps.** The worker's mutex protects `next_` and
  `cancel_`; each section of `worker.cc` is one action. The destructor writes
  `cancel_` *without* the mutex, so it is a step of its own.
* **A build is its checkpoints.** `analysis_snapshot::build` and the analyzer
  read `cancel_` before each root, before each declaration and at the end.
  `checksLeft` counts those reads; after the last, the snapshot is delivered
  whatever happens to the flag.
* **A handler is a step.** While handling an event the main thread meets other
  threads only in `cancel()` and `schedule()`. A worker step between the two
  reads `cancel_` set and `next_` empty, which it could also do right after the
  second, so the pair is one step.
* **A batch is taken at once.** `pop` followed by `try_pop` until empty takes
  exactly what is queued at the moment the last `try_pop` fails.
* **Text is a revision.** A member of `Files` stands for overlays and known
  roots; `Reached` gives the modules an analysis of it reaches. The
  diagnostics of a module are named by the revision they come from.
* **The client** sends any message in any order within its bounds. A request
  is sent once per id, and may be cancelled once.
* Left out: the JSON, the bodies of replies, positions, the text of
  diagnostics. A handler that throws replies with an internal error instead of
  a result (`guarded`): either way it is one reply, which is what is counted.

The analyzer's modules correspond to its code like this:

* **The C++ call stack is `stack`.** A frame is a run of `collect_symbols`,
  `resolve_types`, `resolve_pending_tests` over one module, or of
  `visit(decl_stmt)` for one declaration. `at` says at which call it waits, and
  an action is what happens between two calls, so a cancellation can come
  between any two.
* **A context is its list.** `context`'s copy constructor gives each nested pass
  an empty list; the list is the frame's `diags`. The analyzer's own context
  outlives the passes: what stays in its list is `leftover`.
* **A program is its names.** A file is a sequence of imports and declarations,
  inside or outside a test block, and a declaration is what its initializer
  refers to: nothing, an undeclared name, or a declaration of its own or of an
  imported file. That is all the order of passes depends on.
* **Cancellation** is `cancelled`, set at any step, read where the code reads it:
  before a statement of a module or a test, after resolving a root, and between
  roots (`snapshot.cc`).
* Left out: types and expressions, so also the type checker, generic
  instantiations and errors of the emitter's own; names that clash or are
  private; pointers to a declaration that is being resolved; a failing `@cfg`
  pass; `std` resolved before a root it imports, and the start module; several
  statements in a test block.

The compiler's modules correspond to its code like this:

* **Emitter and evaluator share only the syntax.** `Lowering` follows
  `emitter.cc` with its flags and its scope stack, `CompileTimeEval` follows
  `const_eval.cc` with its signal and its frames; neither uses the other's
  operators. Values are abstract: an effect is a name, a condition is known
  (`if comptime`) or chosen when it is reached. The evaluator is then asked for
  the same choices.
* **A loop that is unrolled** is emitted `Passes` times, and evaluated as often.
  A run is cut at `MaxChoices` choices and `MaxTrace` effects; a cut run is
  compared as a prefix.
* **The parser is a table.** `Syntax` has a rule per construct, a list of pieces,
  and one reader of rules; `parser.cc` has a method per construct. A node keeps
  what the formatter reads: where it starts and ends, whether a comma stood
  before its closing delimiter, how many parentheses were around it.
* **The formatter is a list of parts per construct.** A part is a document, a
  node or a place where comments are fetched; the order of the parts is the order
  of the calls in `formatter.cc`, because it decides who gets a comment. Text is
  a sequence of words; every word has one column of width per character only
  where the engine measures it (`Layout`).
* **One command is one step**: it reads the file, formats, compares, and writes
  or reports; nothing else touches the file meanwhile.
* **The decision tree is a nested record**, `pattern.cc` keeps nodes in a vector
  and refers to them by index. An occurrence is the path of steps that leads to a
  part of the value. A witness of a report is a pattern, and is held against the
  values by `PatternEval`, which knows nothing of trees.
* **Guards and run-time patterns are choices**: a guard's outcome is chosen when
  it is reached, a pattern that is no constant is compared with `runtime`. `tried`
  records what a program can observe.

## 3. Runs

| Run | Asks | Bounds |
|---|---|---|
| `lsp_edits` | Is any edit, analysis or set of diagnostics ever lost or stale; does the server come to rest, with everything settled? | three edits, one rejected or empty message, one query, one checkpoint, two modules |
| `lsp_requests` | Does each request get one reply, of the right text, and is the promised service implemented? | two interchangeable queries (SYMMETRY: no definition tells ids apart, and the run has no liveness property), one other request, two cancellations, two edits, no debounce |
| `lsp_liveness` | Is everything asked answered, are edits published, does the server end? | one query, two edits, one rejected or empty message |
| `lsp_teardown` | (violation) does the destructor abandon the analysis underway? | one edit |
| `analysis_build` | Is each error reported once, each failure explained, do tests come last? | all 32,390 programs of two files, up to three and two statements, in a test build of one root; three files that import one other each |
| `analysis_editor` | Is a lowered program sound, is anything half done after a pass or a cancellation, any failure or report undone, does every step leave less to do, does the analysis end, is a reported cycle one? | two open files of up to two statements, with syntax errors, and three files that import each other before one declaration, of which the first imports something and the third, no root, has no tests; two roots, cancelled at any step |
| `analysis_two_roots` | (violation) does a module report only errors of its own, over two roots? | two programs |
| `event_queue` | Is a wake-up lost, an event lost or reordered; does a wait end; is it a FIFO channel? | two producers of two events, any of the three calls, spurious wake-ups at any time |
| `lowered_program` | Does the emitted code do what evaluating the body does; are scopes balanced; do paths end? | some two thousand bodies: two nested constructs with deferred effects around every kind of jump; five choices |
| `lowered_nested_errdefer` | (violation) the same, for an `errdefer` in a deferred block | one body |
| `format_command` | Is a file that is formatted the same program, with its comments and kept regions, and formatted? | sixteen programs; a comment, break or blank line at every place; markers around every run of items; lines of 24 columns; two commands |
| `match_dispatch` | Does the tree take the arm evaluation takes; is an accepted match complete; are reads of what is there; are reports true? | twelve types, up to four arms out of pools of patterns, integers from -3 to 3, slices up to length 3 |

Why these bounds are enough: a stale build needs two revisions, and a late
snapshot overtaken by a newer edit while a third is pending needs three. A
cancellation race needs one request and its cancellation, an order among
replies two queries; two cancellations can hit both queries, or a query and the
request that is answered at once. One checkpoint already separates a build that can be
abandoned from one that cannot; more repeat the same choice.

In the analyzer, two files give import cycles, references across them and tests
that import; three give a failure behind a cycle that the root does not import
itself. Three statements let an import stand before, between and after a
declaration and its use. Each run of the build has one root because `leftover`
can only reach a second one, which `analysis_editor` has.

A lost wake-up needs a producer that stores while the consumer decides to sleep,
and a second event, of the same producer or the other, that takes the
notification's place. A jump crosses at most the two constructs around it and
the function body; more nesting repeats the same scope rule. Five choices let
every loop run twice and end. Lines of 24 columns break some of every program's
lists and leave others flat; a second format shows whether the first is stable,
and a third would repeat the second. Two comments are what can change their
order, or fight for a place. Four arms let an arm in the middle be shadowed by
one before and split by one behind; the integers on both sides of every bound of
a pattern are in the samples, so a cut that is off by one changes an answer.

Deadlock checking is off because the client and the queue's producers may fall
silent for ever, and because the server, an analysis, a program, a match and the
last command come to an end; that they end only when they should is
`ServerEnds`, `RestIsSettled`, `Terminates`, `PathsEndAtTerminators` and
`AcceptedMatchesTake`.

**Fairness.** `FairSpec` has weak fairness for the main loop and for the
worker: both are threads the system schedules, neither waits for a particular
value, and a step of one never disables the other for good. The debounce
deadline passes because clocks advance. The client and the reader have no
fairness: nobody has to type. In the queue's run the threads are fair and the
deadline passes, and nobody has to push. The analyzer is one thread, so it has weak fairness
for all its steps together; the thread that cancels has none.

## 4. What is proved

`LspServerProofs` proves, for every number of requests, edits, modules and
checkpoints, from the named assumptions on the constants only:

* `TypeCorrect`: the type invariant, one lemma per action.
* `WorkInvariant`: the inductive invariant `WorkInv`, and from it
  `EditsAreNeverForgotten`, `ParkedQueriesAlwaysHurry`,
  `ObsoleteBuildsAreFlagged` and `RevisionsNameText`.
* `ClientAlwaysShowsInstalled`: what the client shows is what is installed.

Why an invariant stronger than the property: that no edit is forgotten is not
inductive. `start_analysis` does nothing when `analyzing_revision_` equals the
current revision, so it must be known that such an analysis really is on its
way (`AnalyzingMeansWork`); that survives `Take` only if what waits in `next_`
is what the main loop believes (`NextIsWanted`); a snapshot taken from the queue
replaces work on its way only if equal revisions mean equal text
(`RevisionNamesText`); and a rejected edit starts nothing when the store is
current, which is right for a parked query only because parked queries wait for
something newer than what is installed (`ParkedAreWaiting`).

The argument follows the data: lemmas say what each action does to the finished
analyses on their way (`FinishedRead`, ..., `FinishedDeliver`), `WorkSubmit` and
`WorkStart` what `start_analysis` re-establishes, and each action then needs a
short proof. `QueueLemmas` has the facts on sequences.

`LspServiceProofs` goes on to what the client sees:

* `ServiceInvariant`: the inductive invariant `ServiceInv`, and from it
  `RequestsAreInOnePlace` and `ReaderAlwaysStopsFirst` (the main loop gives up
  only when the reader has stopped by itself).
* `ServerImplementsService`: `Spec => ImplementsService`, the refinement of
  `QueryService`. A message the client sends is `Edit`, `Ask` or `AskCancel`; a
  handler that answers, cancels or installs a finished analysis is `Serve`; every
  other step changes nothing the client can see.

That a request is in one place is counted: events of a kind in the queue, in the
rest of the batch, among the parked queries and the replies add up to one
(`OnePlace`), for which `QueueLemmas` defines and proves how a count changes when
an event is pushed or taken. That an answer is about the text the query was asked
for needs two facts nobody stores: the store's revision is behind the client by
exactly the edits that are still queued (`TextCounted`), so a query was asked
about a text no newer than the store will have when it comes to the query
(`QueriesInTime`). `CancelsAsked` says that only requests the client gave up are
answered without an analysis, `ReaderIsDone` that the reader's last event is
queued only when it has stopped. The rest is `WorkInv`: an analysis with the
current revision is one of the current text.

The same module then says what becomes of a server that is left alone. That every
request is answered and every edit published is liveness, and out of the prover's
reach, but its two halves that are about steps and states are not:

* `ServerComesToRest`: `Spec => ComesToRest`. No step of the main loop or of the
  worker is for nothing: it lowers the pair of `AnalysesLeft` and `StepsLeft`, in
  that order. An edit that waits may start one analysis, and so may a store whose
  revision is not the one being analysed; a step that starts an analysis lowers the
  first number, every other step leaves it and lowers the second. What could break
  this is `start_analysis` itself: if it did not note what it starts, an analysis
  nobody waits for would be started for ever (the mutant `SubmitUnnoted`).
* `RestingServerIsSettled`: `Spec => []RestIsSettled`. When no thread can go on
  without the client, either the server has ended, or it still reads, every edit is
  in the store, the client shows the diagnostics of the text as it is, and every
  request has its reply. The argument runs through most of what was proved before:
  a store that is behind the text has edits queued (`TextCounted`), text without a
  current snapshot has work on its way (`EditNeverForgotten`), and a parked query
  waits for something newer than what is installed. Two invariants are new: `EndInv`
  ties the teardown to what the reader left behind and to the worker, so that a join
  is waited for by nobody for ever; `TextAnalysed` says that no analysis is ever made
  of revision 0, where there is nothing to do.

Together: with nothing more from the client, the server reaches after finitely many
steps a state in which everything asked is answered. That threads do take their
steps is the fairness which only the runs assume.

`ModuleAnalysisProofs` proves, for every set of files, every program that the
named assumptions allow, every list of roots, tested or not, tolerant or not:

* `AnalysisTypeCorrect`. `TypeInv` adds to the types that frames stand at
  statements their file has, and a frame for a declaration at a declaration:
  without that a name could be looked up where there is nothing.
* `TestsAlwaysComeLast`, from `StackShape`: the stack holds collections only, or
  resolutions above a root, and only the root's frame drains the queue. The
  counter `resolve_depth` is 1 only if that frame is alone
  (`OutermostIsAlone`).
* `FailuresAreExplained` and `NothingIsEverUndone`, from `CollectsOnce`: a
  collection overwrites state and list of its module (`error_out`), which is
  harmless only because no module is collected by two passes, and none that has
  been resolved.

Each step of the analyzer goes on in the frames it has or calls one more
(`CollectingForm`, `ResolvingForm`), so the invariants on the stack are
preserved by those two forms and not by thirty actions one by one.

The same module has `NothingIsLeftHalfDone`. `HalfDoneIsUnderWay` says of every
state what the property says of the empty stack: a module or symbol that is being
resolved has a frame, tests that wait are queued or their module's frame is still
to queue them, and a queue that is not empty has a frame that will drain it.

`AnalysisReportsProofs`: `ErrorsAreReportedOnce`, for one root. `ReportedOnce`
counts the modules whose list has the report and the passes that carry it: none
before the declaration was reached, one in all afterwards. A step leaves the count
alone or moves the report from the pass on top to its module (`Quiet`, `Moves`).
`WaitingOrder` says where frames may wait, which is needed to know that somebody
listens when the error is found: between the frame that drains the queue, which
hands its list to nobody, and the declaration there is always a pass over tests.
With two roots the theorem is false, and the model says why: the analyzer's own
list outlives the root (section 5).

`AnalysisGraphProofs`: `CyclesAreAlwaysReal`. A declaration on the stack waits, in
the graph `WaitsFor`, for every declaration above it, and for every declaration
that a resolution above it can come to (`CallChain`); a reference to a declaration
that is being resolved therefore closes a cycle. That a report of a cycle, once
made, is only moved about is `CyclesKnown`. Reachability is defined without
recursion, by the sets that no edge leaves (`Reaches`), and its three lemmas need
no induction.

`AnalysisLoweringProofs`: `LoweredRootsAreSound`, the property the analyzer is
there for. The decision looks at two things only, whether the root is poisoned and
whether the linked imports lead from it to a module that failed; that this is
enough rests on `Progress`:

* Nothing is left out (`Complete`, `ImportsLinked`, `RootBegun`): a statement of a
  module whose resolution began has been dealt with, or a pass or the list of
  tests still holds it; an import of a collected module is linked or poisoned.
* Nothing fails silently (`PoisonExplained`, `PassesLead`, `DeclaredAtHome`): from
  the module of a poisoned declaration, linked imports lead to a module that is
  poisoned or has a pass that carries a report. A declaration takes the poison of
  what it refers to without a report of its own, and what it does report goes to
  whoever had it resolved, so this needs that the passes on the stack lead to one
  another.

A cancelled analysis skips declarations and promises neither, so the invariant is
`cancelled \/ Progress`, and `Lower` reads the flag. The proof takes an action's
effect on the stack from one form (`Turns`: the pass on top is replaced or gone,
one may be called, those below keep their places), so most conjuncts are shown
once for all actions that turn the stack in the same way. At the end the modules
whose resolution began and that linked imports reach are closed under the imports
written in the files, hence contain the root's `Scope`. An editor tolerates an
import in a test of a file that does not parse (`IsTolerated`); the theorem says
that nothing else is tolerated.

The same module has `AnalysisUsesUpItsWork`: the passes call each other across
files in every order that imports and references allow, and a cancellation stops
some of them half way, yet nothing is done twice. `Work` is what is left, a set of
pairs of an owner (the analyzer itself, one of the three passes over a module, a
declaration) and a step of it; the theorem says that each step of the analyzer
leaves a proper subset. A step goes on with the pass on top or ends it, and may
begin another (`StepCounts`); only what nothing had begun may begin (`Begins`). That is the inductive invariant `LeftInv`: a declaration is entered once
because a statement calls it only when it is not under way and another declaration
only when it found it untouched (`EntersOnce`), which that one does once (`LooksOnce`); no two frames have one owner and none is still untouched
(`OwnersOnce`, `OwnersBegun`); a module's tests are queued once and are never more
than its statements (`QueuedOnce`, `TestsFit`). `WorkIsAlwaysFinite`: of finitely
many files there is finite work, so the analyzer takes finitely many steps. That it
takes them is fairness, and `Terminates` stays with TLC.

`EventQueueProofs` proves, for every set of producers and every number of events:

* `QueueTypeCorrect` and `WakeupsAreNeverLost`. The invariant adds who holds the
  mutex (`Holding`): between the test of the predicate and the sleep nobody can
  store, so a sleeper with something queued has a producer behind its critical
  section that has not notified yet.
* `QueueKeepsOrder`: what was sent is what was received, followed by what is
  queued.
* `QueueIsAChannel`: `Spec => ImplementsChannel`. Every step is one of
  `FifoChannel`'s or changes neither content nor answer; an empty answer is given
  in the critical section in which the queue was seen to be empty.

Only model-checked: everything about emitted code, formatting and
matches, whose definitions are recursive over syntax (induction over data and
RECURSIVE operators are out of the prover's reach); and every liveness property
(`RequestsAnswered`, `EditsSettle`, `ServerEnds`, `Terminates`, the queue's), for
liveness under fairness is too.

## 5. Where the code and its comments part

With a run:

* **Teardown may run a whole analysis** (`lsp_teardown`). The destructor sets
  `cancel_` without the mutex and requests a stop, but the worker's wait returns
  its predicate on a stop request, so inputs still in `next_` are taken and
  `cancel_` is cleared; the analysis then runs to its end, the queue receives
  its snapshot, and the join waits. The comment at `worker.cc:20` says "Stops
  the analysis underway at its next declaration instead of waiting for it to
  finish".
* **A root reports another root's errors** (`analysis_two_roots`). When a module
  has diagnostics of collection and then of resolution, `absorb_sema_diagnostics`
  copies the second list instead of taking it (`module.hh:225`). It is the list
  of the context all roots of an analyzer share, so the next root's collection
  finds it not empty and poisons that module (`symbol_collector.cc:107`). A
  language server with two files open shows errors of one at places in the other.
  A root that has been resolved already meets the same list in the emitter
  (`RejectEmitted`).
* **An `errdefer` in a deferred block** (`lowered_nested_errdefer`) runs on a
  failure when the body is evaluated (`const_eval.cc:6986` reads
  `current_error_val_`, which is still set) and not in the emitted code
  (`emitter.cc:2952` closes the deferred block as an ordinary one).
  `test_errdefer.cc:266` says "errdefer runs on a returned failure at compile
  time as at runtime".

Without a run of their own; the definition to put in a configuration is named:

* **A query before any edit is never answered** (`PROPERTY EveryRequestAnswered`
  in `LspLiveness.cfg`). With no snapshot the query is parked and
  `start_analysis` called, but at revision 0 `is_current` holds without a snapshot
  (`document_store.cc:86`), so nothing is scheduled (`server.cc:457`). A client
  without workspace folders that sends `workspace/symbol` first waits for good,
  or until its first edit. The comment at `server.cc:380` says "Answered against
  the analysis of the text as it is now, once there is one". The runs' properties
  are about queries sent once there is text.
* **A use before its import can be called a cycle.** `access.cc:522` says a module
  "may not have been resolved yet due to order independence" and resolves it then,
  while the declaration that uses it is being resolved. If the files import each
  other and a declaration of the other file uses this one, it is reported as a
  "Cross-module cyclic dependency", although the two declarations it connects form
  no cycle. With the import first the files are accepted, unless a third file is
  waited for in the same way. What such a declaration waits for is what its file's
  imports reach, and `CyclesAreReal` counts that as waiting (`WaitsForFile`).
* **An error is listed where its declaration was needed.** A declaration of another
  module is resolved with the context of the module that uses it
  (`access.cc:593`), so its errors are added there, with locations of the other
  file and without `origin`, which `diagnostic.hh:310` says is set then.
* **Jumps at compile time and in the emitted code** (`Programs <-
  LabelledBlockBodies`, `NoreturnDefer`, `FailingContinuation` or
  `FailingCondition` in `LoweredProgram.cfg`, property `AgreesWithEval`): an
  unlabelled jump inside a labelled block, a deferred call that does not return, a
  failure in a loop's continuation or condition.
* **Comments in unusual places** (`Sources <- MatchEnds`, `EmptyBlocks` or
  `MarkersInside` in `FormatCommand.cfg`): a comment above the closing brace of a
  `match`, or behind it on its line (`};  // c`), is printed as one more arm inside
  the braces, and each format puts a comma behind its text (`formatter.cc:1677`),
  so that `CommentsSurvive` and `FormattedIsStable` fail; a comment in an empty
  block swallows the brace (`formatter.cc:1983`), and the file is refused; a marker
  inside an item loses or repeats code, and the file is refused; a marker between a
  field and its comma drops the comma. Code is never lost:
  what is refused is not written. Two comments inside one statement may change their order, so
  `CommentsSurvive` compares bags.
* **Matches at compile time** (`Matches <- GuardedDiscard`, `IgnoredPointer` or
  `VoidCapture` in `MatchDispatch.cfg`): for `_ if g => |v|` on a union the evaluator binds the
  payload (`const_eval.cc:3331`), the tree the whole value, as `pattern.hh:98` and
  `test_match_catch_all_capture.cc:24` have it; a slice pattern that names `.ptr`
  never matches at compile time (`const_eval.cc:3647`); a capture of a
  variant without payload (`none => |v|`) is of type `void` and bound to nothing by
  the tree (`pattern.cc:1182`, `emitter.cc:8873`), but bound to the whole union by
  the evaluator (`const_eval.cc:3353`, and `emitter.cc:8551` for `match comptime`).

## 6. Not modelled

| Part | Why |
|---|---|
| RPC framing, text edits, positions | Sequential functions over bytes and code units without state between calls; what is hard in them is the arithmetic of one line, which a model would only restate. |
| Language server queries | Functions of one snapshot, large case analyses over syntax. Which snapshot they see is modelled. |
| Parse cache, overlays | Keyed by file state on disk; the server's use of them is a function of `Files` here. A file that changes on disk without an overlay is not seen until the next edit (hazard at `overlay_loader.cc:41`). |
| Lexer, and the parser's recovery | Character level; `Syntax` has the grammar of what the formatter is modelled for, and an error shows only as an error. |
| Types, generics, impls, `@cfg` | A case analysis over types with few states of its own; the instantiation caches are keyed by resolved types, which no module here has. |
| Rest of the emitter and the evaluator | Places, calls, aggregates, builtins, memory: data, not control. |
| Code generation, linker, compiler_rt | Tables and calls into LLVM; what goes wrong there is in the data of one instruction. |
| Support, argument parser, build commands | Libraries and sequential glue. |
| Libraries in ghoti, site, editors, tools | Another language, content, or tooling. |

Inside the modelled parts: of a match, the budget of decision nodes, the limit of
eight missing witnesses, captures of bit-packed fields, and that the evaluator
looks at a guard before it binds the arm's capture; of the formatter, the
constructs that `Syntax` has no rule for; of the emitter, operands and results; of
the document store, the synchronous helpers only tests use.

## 7. If the code changes

A change to the worker, the loop or the store is checked by `lsp_edits`,
`lsp_requests` and `lsp_liveness`, and its proofs show which assumption it leaves.
A new statement that moves control needs a node in `ControlFlow` and its two
readings; a new construct of the formatter a rule in `Syntax` and its parts in
`Formatter`; a new pattern its elaboration, its tests and its evaluation. Worth
doing next: calls between functions in `LoweredProgram`, the formatter's remaining
constructs.
