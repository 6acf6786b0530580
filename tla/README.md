# A formal model of testifylint

testifylint is a linter of Go tests that use `github.com/stretchr/testify`. This directory models
the program's own logic in TLA+: how a configuration becomes an ordered list of checkers, how the
driver runs them over packages, what each checker objects to and suggests, the chain of warnings
that fixes lead through, the two checkers that carry state over a walk of the source,
`go-require` and `require-error`, and the formatter with the fork of `go vet`'s printf check. TLC
checks the models on small instances; TLAPS proves the selection of checkers and the driver correct
for every registry, every configuration and any number of packages, both walks for packages of any size, and the
printf check for formats of any length.

## The system

| Part | Source | State | Operations | Model |
|---|---|---|---|---|
| checkers registry | `internal/checkers/checkers_registry.go` | a constant table in priority order | `All`, `EnabledByDefault`, `Get`, `IsKnown`, `SortByPriority` | `CheckersRegistry` |
| configuration | `internal/config/*.go` | one record | `NewDefault`, `Validate`, flag setters | `Config`, `CommandLine` |
| checkers factory | `analyzer/checkers_factory.go` | locals of `newCheckers`: a map, a slice of names, two slices of checkers | `newCheckers` | `CheckersFactory` (steps), `CheckerSelection` (promise) |
| analyzer | `analyzer/analyzer.go` | the captured configuration; per pass its checkers, the call it is at, `pass.Report` | `New`, `Run`, `run`, `regularCheck` | `Analyzer` (steps), `AbstractLinter` (promise) |
| go-require | `internal/checkers/go_require.go` | status stack, cache of verdicts, recursion | `Check`, `checkFunc`, `checkHTTPHandlers` | `GoRequire`, `GoRequireTree` |
| require-error | `internal/checkers/require_error.go` | calls by function and by block | `Check`, `markCallsInNoErrorSequence`, `needToSkipBasedOnContext` | `RequireError` |
| printf | `internal/checkers/printf` | position in the format, argument counters, the state of one directive | `CheckPrintf` | `Printf`, `FormatStrings` |
| formatter | `internal/checkers/formatter.go` | its three settings; `pass.Report` while printf runs | `Check` and the fixes it suggests | `Formatter`; the swap in `Analyzer` |
| 17 other regular checkers | `internal/checkers/*.go` | none; the source changes with each fix | `Check` and the fixes it suggests | `ValueCheckers`, `MeaningCheckers`; chains of fixes in `FixChain` |
| suite and import checkers | `internal/checkers/suite_*.go`, `blank_import.go` | none; the text of a method changes with each fix | `Check` | `SuiteFiles`, without `blank-import` |
| metadata, helpers | `internal/checkers/call_meta.go`, `helpers*.go`, `internal/analysisutil` | none | queries on types and syntax, text edits | `GoExprs`, `AssertionCalls`; inputs of the walks |
| test generator | `internal/testgen` | none | tables of assertions, `Expand`, templates | `TestTables`; not the templates of whole files |
| command | `main.go` | none | I/O | not modelled |

How they interact. `analyzer.New` makes one configuration, which the flags write before any pass
starts. go/analysis then runs the `Run` closure once per package, on goroutines of their own; each
call builds its own checkers with `newCheckers` from the shared configuration, hands every call
expression to the regular checkers until one answers, and then lets each advanced checker walk the
package. All of them report through `pass.Report`, a field of the pass that the formatter replaces
for the time of a printf check.

What is hard. Go leaves the order of a range over a map open, and three functions range over maps.
Several checkers object to the same assertion. A callback replaces the function all checkers report
through. Two walks keep a stack or lists in step with an inspector that prunes subtrees, one of them
with a recursion over a call graph and a cache. `PROJECT.json` lists these hazards with their lines.

## Modules

* `CheckersRegistry`, `Config`: the table (a constant, so that short tables can be checked and every
  table proved about; `TestifylintRegistry` is the program's) and the configuration record. A list of
  names is the set of its names, a checker's settings are one opaque option, `Nil` is a nil regexp.
* `SelectionRules`: which checkers a configuration asks for, without steps. `CheckerSelection` is the
  one-step specification of `newCheckers` over these rules.
* `CheckersFactory`: one call of `newCheckers`. The range over the map is one action per key
  (`Visit`), `Sort` is any permutation that `sort.Slice` may leave, the building loop is one action
  per name.
* `*_proofs`: the theorems about the module of that name and the lemmas they rest on.
  `SyntaxTree_proofs` and `FormatStrings_proofs` hold lemmas only: about trees in preorder, which the
  proofs of both walks use, and about formats: where their tokens are and what their directives read.
* `CommandLine`: `CheckersFactory` after the flags of a command line, set one after the other.
* `Analyzer`: the passes. A call expression is given by the checker instances that object to it; one
  iteration of the loop of `regularCheck` is an action, and the formatter's swap of `pass.Report` is
  four. `AbstractLinter` promises each package, in one step, the diagnostics it determines.
* `SyntaxTree`: trees in preorder, and the inspector's order of events. `GoRequireTree` adds the
  kinds of node `go-require` tells apart.
* `GoRequire`: one action per branch of the callback of the first walk, per branch of `checkFunc`'s
  `ast.Inspect` (its activations are a stack, `frames`), and the walk over HTTP handlers.
* `RequireError`: the collecting walk, then one action per key of each range over a map, and one per
  call of a function in the two loops over `callsByFunc`.
* `FormatStrings`: a format is a sequence of directives, each a record of its parts and written out as
  tokens (a text before it, `%`, a flag, an index, digits, `*`, a dot, a verb). `Directives` has one
  record for each text: a part found where the parser looks for another is that other. Any text may be
  a verb; those that the check has a rule of its own for are `SpecialVerbs`. What a directive reads
  is defined twice, once by the walk of `Printf` and once, without any scan, by `Items` and `Reads`.
* `Printf`: `CheckPrintf`, one action per call of a parser function, per outcome of `okPrintfArg` and
  for each way out. Of an argument only what the check asks about its type is kept. Runs of text are
  one token, an index too large for its bracket is `[3]` of fewer arguments.
* `Formatter`: one assertion, its diagnostic and its suggested fixes, which `ApplyFix` applies before
  the check starts again. A message is a text (a literal, another string, another value) and the calls of
  `Sprintf` around it, from the innermost on, and f-assertions take the steps of `Printf`. `Printed` is what testify does with
  the message (`assertions.go:304` of the vendored testify), the measure of what a fix keeps.
* `GoExprs`: Go expressions with their types, and the helpers that ask about them (`helpers_*.go`): a
  record of an operator, a name or a value, operands and a type. `AssertionCalls`: a call as
  `NewCallMeta` sees it, and the edits of `helpers_diagnostic.go`, with where each begins and ends.
* `ValueCheckers`, `MeaningCheckers`: each of the 17 regular checkers as an operator from a call to its
  answer: silence, a report with the calls its fixes lead to, or a panic. The first module has those
  that compare values (`float-compare` to `equal-values`), the second the rest.
* `TestifyVerdicts`: whether an assertion passes, given values of what it is made on, after the
  assertions of the vendored testify. It is the measure of what a fix keeps, not a model of the linter.
* `FixChain`: the chain of warnings of one call. `Lint(n)` is `regularCheck` under a configuration in
  which checker `n` is the first to object; every objecting checker is the first under some
  configuration, so each run of the linter may take any. `ApplyFix` is the user's.
* `SuiteFiles`: one method as lines of tokens. `suite-broken-parallel` removes, `suite-thelper` inserts
  at positions, so an edit does what it does to the text between two positions, other statements
  included; `suite-method-signature` and `suite-subtest-run` only report. A comment is one token, and
  blank lines are left out.
* `SampleExprs`, `TestTables`: the tables from which the tests of the regular checkers are generated, and
  the expander that makes calls of a row, as expectations: of a call, the call its golden file has, a
  warning without a fix, or nothing. They come from the source of the generator, the checkers from the
  source of the checkers, so that the two models check each other. Types that no checker tells apart are
  one type, texts and numbers those of `SampleExprs`.
* `MC*`: constants for TLC. The definitions marked `Fault` are mistakes of the kind a change of the
  code could make; each property is known to fail with one of them, named in `PROJECT.json`.

## What TLC checks

| Run | Shows | Bounds |
|---|---|---|
| `CheckersFactory` | lists, errors, patterns, refinement of `CheckerSelection` | every configuration over four rows (regular or advanced, default or not, with or without a section) and an unknown name; nothing in the code depends on more rows than two that compare |
| `CommandLine` | after flags only contradictions can fail | three rows, three flags: enough to set, contradict and repeat |
| `Analyzer` | one diagnostic per assertion, from the first objecting checker; `pass.Report` is given back; refinement of `AbstractLinter` | five checkers, four configurations; one package of up to two calls of every kind, and two interleaved passes over packages with fewer kinds of call |
| `GoRequire` | the stack mirrors the open nodes, verdicts (subtests included) and cache are exact for every call graph, both walks report exactly what they should, `checkFunc` comes back to a function it is busy with only under mutual recursion | all trees of five nodes and two declarations (a status, one inside it, a call); of six nodes and three test functions that call each other; of four nodes with handlers; four activations (`MaxDepth`), one more than three functions need without reentry |
| `RequireError` | the reports are the ones the tree alone determines, whatever order the maps are ranged over in; the rule for the last call | five families: all packages of six nodes with every kind of function, of four nodes with every kind of call, of seven nodes with blocks and sequences, of seven with returns and else branches, chains of else-if of nine nodes; with and without a pattern |
| `Printf` | one report at most; complaints are exactly those the directives give rise to; without indexes and `...` silence means one argument per `*` and verb; the check ends | every directive over all its parts with up to three arguments; with every flag that matters and every two kinds of argument, with and without `...`; two directives in a row. An index or `*` acts on the next item only, so two directives show what one leaves to the next |
| `FixChain` | whatever checkers are enabled from run to run, fixes compile, keep message, severity and verdict, the chain ends, and it ends where the table leads; each checker says of the calls of its generated tests what they expect | the 3558 calls of the generated tests; every function a checker knows, on every pair of operands of the kinds they tell apart (some 60 expressions), with and without message, on packages, objects and suites; three settings. Verdicts are compared on all values of 3 to 6 per type. `OneOutcome` follows the table for `MaxRounds` = 8 fixes; no chain takes more than four. About 16650 assertions, 217000 states |
| `SuiteFiles` | edits take nothing else away, compile, end, and commute; methods that testify would skip are reported | bodies of up to three statements (assertions, subtests, `Parallel` and `Helper` calls, comments) over lines or on one, every name the checkers know and one they do not, all signatures; two edits are enough to meet |
| `Formatter` | fixes keep the message, agree, and end; no diagnostic means the documented rules hold | assertions with a message and up to two more arguments, up to two nested `Sprintf` with an argument or a slice, all eight settings; the code looks one `Sprintf` deep, so two levels show a chain |

Deadlock is not checked: the runs end, and in `GoRequire` the bound `MaxDepth` on activations stops
a call graph that recurses without end (`ReentryIsMutual` says that this takes two functions that
reach each other). That `newCheckers`, a pass and a walk of `ast.Inspect` end is not stated: they range
over finite data with nothing to wait for, so it holds by the shape of their loops.

Three runs state what a comment or the documentation says and find the code to differ:

* `GoRequireReentry`: two test functions that call each other before either exits directly send
  `checkFunc` into endless recursion. The guard at `go_require.go:253` only knows direct recursion.
* `RequireErrorElse`: an assertion counts as the last call although calls of a nested block follow
  it, in an else branch (`require_error.go:34`). `LastIsLast` is the rule that does hold; it shows the
  same exception before a `return`.
* `FormatterSprintf`: the `Sprintf` removed as unnecessary spreads a slice, or formats a text with
  directives and no arguments, and the message changes (`README.md:615`). `FixesKeepTheMessage`
  excepts these two and holds.

Differences that came up without a run of their own; the first is left out of `LastIsLast`, the second is
part of what `VerdictsAreExact` states, the others are visible in the definitions:

* `if !assert.NoError(t, err)` is reported although "assertions in the `if` condition" are ignored
  (`require_error.go:31`, `README.md:981`), and any call in a condition silences the if-else chain,
  while the comment at `require_error.go:157` speaks of assertions.
* A helper whose only `require` is inside `t.Run` has the verdict of a helper that exits, since `checkFunc`
  keeps out of `go` statements only (`go_require.go:230`), while the comments at `go_require.go:53` and
  `:120`, and the walk, let a subtest change the goroutine. `VerdictsAreExact` and `WalkReportsExactly`
  therefore speak of functions that hold an exiting assertion, in a subtest or not (`HoldsExit`), and not of
  functions that end the goroutine of their caller.
* The branch of `checkFmtAssertion` marked "Unreachable" (`formatter.go:160`) is `UnknownFormat`: the
  message of an f-assertion need not be a literal, and the checker's own suggestion leads there.
* `trimTArg` (`call_meta.go:124`) trims an operand that implements `TestingT` although the call is of an
  object and has no `t`: then `s.Same(s.T(), t, "abc")` has its operand swapped with its message, and
  `s.IsType(s.T(), x)` runs into an index out of range, for want of parentheses at `error_is_as.go:58`.
* `Less(t, len(x), 0)` is useless by `useless_assert.go:57`, but `empty` comes first in the table and
  makes an `Empty` of it that nothing objects to.

### What the fixes do not keep

The properties of `FixChain` except what they do not hold for by name; a reader of the checkers should
know these exceptions.

* `FixesCompile` (`Misfits`): `JSONEq` and `YAMLEq` want strings, and are offered for a string type of the
  package and for `json.RawMessage(nil)`; `Len` wants an int, and is offered for another type; and a
  package that has a type named `bool` gets `True` of that type (`bool_compare.go:147`).
* `FixesKeepTheVerdict` (`OfOneType`, `Ordinary`, `ChecksSomethingElse`): a literal has the type of the
  other operand in a comparison and `int`, `float64` or `string` as an argument; a typed nil is `Nil` but
  not equal to `nil`; pointers and what they point at; `False(a > b)` on a NaN; functions, which
  testify refuses to compare; the elements of an array, which `Empty` looks at; documents that differ in
  layout; `InEpsilon`, which is relative to its first operand; and `Error(err, sentinel)`, whose fix means
  to check something else.
* `OneOutcome` (`IsAmbiguous`): `""` with a text that looks encoded, a length with a variable or another
  length, and a bool of a package come out differently under different sets of enabled checkers.
* `FixesCompile` of `SuiteFiles`: the removal of `t.Parallel()` takes the rest of its line and leaves the
  second line of a call that has one; a `t` only declared for it stays unused; a receiver named `_` is
  offered `_.T().Helper()`. `FixesEnd` excepts a call on the last line of its file, where the checker
  panics (`suite_broken_parallel.go:74`).

### Fairness

The printf check runs on one goroutine with nothing to wait for: weak fairness of `Next`. Its loop over
the format advances by what the parser took, so that it ends has to be shown.
`Formatter`, `FixChain` and `SuiteFiles` are fair too: that fixes are applied is the reader of the diagnostics' part, and
`FixesEnd` and `ChainsEnd` say that someone who goes on applying them stops. The other specifications assume no fairness.

## What TLAPS proves

The assumptions are those of the modules. `RegistryAssumption`: the table has one row per name and the
unknown name is not in it. `SectionsAssumption`: sections belong to registered checkers, and that of
`require-error`, whose default is nil, is one of those that hold a pattern. `PassesAssumption`:
configurations and packages have their types. `GoRequireAssumption` and `RequireErrorAssumption`: a file
is a tree in preorder that the grammar of Go allows. `PrintfAssumption`: a call has a sequence of directives and a
sequence of arguments. `FormatterAssumption`: an assertion is one that compiles, and a value may follow a message. Nothing bounds the size of a table, a tree, a format or a call.

`CheckersFactory_proofs` proves, for every registry, every set of sections and options, and every
configuration:

* `TypeCorrect`: `Spec => []TypeOK`;
* `ResultCorrect`: `Spec => []ResultListsWanted`;
* `ErrorsCorrect`: `Spec => []ErrorsAreJustified`;
* `PatternCorrect`: `Spec => []ExpectedActualHasPattern`;
* `FactoryImplementsSelection`: `Spec => ImplementsSelection`, the one-step selection.

The properties are not inductive: while the map is being ranged over nothing says where the names that
were visited went. `IInv` adds, for each location, what the loops have done so far: the visited names
are the set minus the unvisited keys, without repetition (`Ranging`); after the sort the slice is
ordered and has the wanted names, and the two result lists are listings of the regular and advanced
names among those already built (`Building`). A repeated name or a tie in the sort would break the
strict order of the result: a tie needs two names of equal priority, so one of them unknown, and an
unknown name ends the loop in an error before a list is returned.

The same module adds a command line of any length: `FlagsCorrect`, `CLSpec => []OnlyContradictionsFail`.
While flags are parsed newCheckers has not begun (`FlagsFirst`), so a flag only has to leave a
configuration of which `IInv` holds at first; that the lists name registered checkers only
(`NamesKnown`) excludes the errors for unknown names.

`Analyzer_proofs` proves, for any set of passes and any packages on top of that:

* `TypeCorrect`: `Spec => []TypeOK`;
* `ReportComesBack`: `Spec => []ReportIsLent`;
* `OneDiagnostic`: `Spec => []OneDiagnosticPerAssertion`;
* `FirstOfTheRegistry`: `Spec => []HighestPriorityWins`;
* `AnalyzerImplementsLinter`: `Spec => ImplementsLinter`; only `Finish` and `BuildFails` show in the
  abstract specification, every other step stutters.

Here too the properties say too little to be inductive. `IInv` is `TypeOK` and, for each pass,
`PassInv`: its lists are the listings of the selection rules (`Selected`), the counters are in range
(`Counters`), the formatter holds `pass.Report` exactly while printf runs (`Lent`) and its result says
whether it objects (`Captured`), the checkers before the current one do not object to the current call
(`Passed`), what reached the driver is exactly what is due for the calls and findings already behind
(`Complete`), and it is in order (`InOrder`). That a diagnostic is due at all rests on
`CurrentIsFirst`: when the checkers before it pass, the checker that objects is the first objector of
the table. A step touches one pass only (`OthersAreSame`), so each action is proved for its own pass
(`...Keeps`), and the four ways through the loop of `regularCheck` share three lemmas (`CallBehind`,
`CheckerBehind`, `FormatterStep`).

`Printf_proofs` proves, for any format, however long, and any arguments:

* `ReportsOnce`: `Spec => []OneReport`;
* `ComplaintsExact`: `Spec => []ComplaintsAreExact`: the walk over the tokens, with its pending index, its
  `*` and its counters, complains of a call exactly if its directives, read for themselves, have a fault;
* `AcceptedCounts`: a call without `...` that is accepted, and whose format has no index, has exactly one
  argument for each width, precision and value its directives read. No run checks this one by itself: it
  is what the formatter's `FormatFits` rests on;
* `ReadsAreInRange`: where `okPrintfArg` takes an argument of the call by its number, there is one. No run
  checks this one; it rests on `VerbNoted`, that the last number noted is that of the verb when the
  check of the argument is reached.

`ComplaintsAreExact` speaks of the end only. `WalkInv` says where the walk is: between two directives
(`Scanning`) or, within one, at a function of the parser (`InDirective`, with a predicate for each:
`InFlags`, `InIndex`, ... `InVerb`, `InCheck`). Of the directives behind it (`Passed`) it says that none has a fault, that `argNum`
follows the last argument they read and `maxArgNum` the highest, and that `anyIndex` is whether one has an
index; of the directive it is in, that the numbers noted are those that `Items` gives rise to as far as it
is read, and that the index pending is the one that the next item takes. `Places` says at which
token of the format each part of a directive is, `TokenClasses` what can be seen there, and each function of the parser moves from one part to the next
(`FlagsWalk`, `IndexWalk`, ... `CheckWalk`). What the operators of `FormatStrings` compute, `FlattenSeq` and
`Reads`, is unfolded from their definitions by choice: `FlatteningExists` and `CountExists` show, by
induction over a set of lengths without a least element (`Induction`), that there is a function to choose.
For `AcceptedCounts`, what directives without an index read is counted up by one (`ReadsInOrder`), so the highest
number is how many items there are (`FaultlessCounts`).

`GoRequire_proofs` proves every safety property of the checker, for packages of any size:

* `TypeCorrect`: `Spec => []TypeOK`, with `CallersInside`, that a step reads no node beyond the last;
* `StackCorrect`: `Spec => []StackMirrorsContext`;
* `VerdictsCorrect`: `Spec => []VerdictsAreExact`;
* `ReentryNeedsMutual`: `Spec => []ReentryIsMutual`;
* `WalkCorrect`: `Spec => []WalkReportsExactly`;
* `HandlersCorrect`: `Spec => []HandlersReportExactly`.

The invariant grows with the theorems. The stack mirrors the open nodes: they are those around the
current one (`OpenIsAround`), so entering, leaving and pruning move both by the same node, and the last
status decides whether a call is permitted (`PermittedIsInside`). A verdict is exact because an
activation has passed only nodes of the running part of its function that do not exit, nor call what
holds an exit (`FrameIsExact`), a cached verdict being one that was exact when it was stored
(`CacheIsSound`). When an activation ends without an exit, the functions it reaches are the least set
closed under calls, so none of them exits. The activations of the stack call each other
(`FramesLinked`): a second one for a function means that the function and the next one reach each other. The reports
are those due before the first node that is neither entered nor pruned (`NotSeen`), in order: to prune
a subtree must lose none that is due, which rests on what the two walks do not look into
(`WalkIsReached`, `HandlerReports`).

`RequireError_proofs` proves, for packages of any size:

* `ReportsCorrect`: `Spec => []ReportsDetermined`, whatever order the maps are ranged over in;
* `LastCorrect`: `Spec => []LastIsLast`.

`ReportsDetermined` speaks of the end only. `IInv` says what each stage has done: the lists of
`callsByFunc` hold, in source order, the calls before the node the walk is at (`Collecting`); those of
`callsByBlock` hold the calls that the range over `callsByFunc` has produced (`Seen`, `Grouping`); the
marks are those of the blocks already visited (`Marking`); and the reports are those due of the calls
already judged (`Judging`). That a block's list is in source order although functions come in any order
rests on `SameBlockSameFunc`: the calls of one block are calls of one function, whose list is in order.
In an ordered list (`IsList`) the next element is the next call of the tree (`ListNeighbours`) and the last
one is the greatest (`ListLast`), so the code's indexes say what the rules say of the tree
(`ContextIsExact`).

`Formatter_proofs` proves, for every assertion, however deep its `Sprintf` calls, and all settings:

* `FixesLeadToOne`: `Spec => []FixesAgree`;
* `FixesAreFaithful`: `Spec => FixesKeepTheMessage`;
* `CleanIsConventional`: `Spec => []CleanMeansConventional`;
* `FixesAreFewer`: `Spec => FixesShrink`: each fix lowers the natural number `Weight`. With weak fairness
  this is why `FixesEnd` holds; no run checks it by itself.

`IInv` says that the assertion has the normal form that the user's had, that each suggested fix is a good one
(`FixOf`: it compiles, has the same normal form, keeps the message and weighs less), and that an
assertion without suggestions is settled (`Settled`). Four lemmas, one per kind of fix (`UnwrapFixes`,
`RenameFixes`, `RemoveFixes`, `IntroduceFixes`), carry the proof. To unwrap one `Sprintf` leaves the normal form
because it leaves the outermost call that has arguments of its own (`StrippedOfUnwrapped`), and the message
because without arguments only a text without directives is formatted to itself (`TextOfUnwrapped`).

That the format of an assertion without a diagnostic fits (`FormatFits`) is a fact of the printf check, which
`Formatter` runs inside its own steps. `FitInv` says that while it runs it checks the assertion's own format
and arguments and is in a state of `Checking`, the invariant of `Printf_proofs`. The lemmas of that module come by
`PP == INSTANCE Printf_proofs WITH Calls <- {}`: they speak of any call the check is entered with
(`Entering`), not of those in `Calls`, and the steps are the same under both names (`SameNext`).
`CheckingTells` then says what an ending without a report means.

These invariants were checked by TLC on the instances of the runs before they were proved. For the proofs
a message of `Formatter` has its `Sprintf` calls in a sequence instead of nested expressions, the least set of functions that `checkFunc` can reach (`ReachableFrom`) is said without recursion, and the
loops of `RequireError` over the calls of a function take one step per call instead of one per function.

Only model-checked:

* that the printf check and the chains of fixes end: liveness under fairness;
* the regular checkers and the chains of fixes: expressions nest and edits repeat, so `GoExprs`,
  `AssertionCalls`, `TestifyVerdicts`, `MeaningCheckers` and `FixChain` have recursive operators, and
  `ValueCheckers`, `SampleExprs` and `TestTables` use them;
* the suite methods: their statements are the flattened text, again a recursion over data;
* the printed order of the table.

A recursive operator is what keeps these from being proved, not the induction: the proofs of the printf check
and of the formatter's fixes go by the length of a format and of a list of `Sprintf` calls.

## Not modelled, and what is left

* `blank-import` is one look-up per import declaration.
* Case and select clauses are left out of the trees of `RequireError`.
* Expressions have one of some thirty types; generics, dot imports and aliased packages are not among
  them. `testify` itself appears in `TestifyVerdicts` only as far as verdicts are compared.
* `main.go` and the writing of files in `internal/testgen` do input and output. Of the tables, those of
  `go-require`, `require-error`, the formatter, the suite methods and `blank-import` are left out: their tests
  are whole files, and the reports of those checkers have definitions of their own to agree with. Rows with
  channels, complex numbers and unsafe pointers are left out, and the two single modes of the expander, of
  which `float-compare` uses one for a row and the other for its copy, are the one of both.
