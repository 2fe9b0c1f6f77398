# Verification of gitea-auto-reviewer

TLA+ models of gitea-auto-reviewer, the runs of TLC that check them on small instances, and proofs of their main
properties for every instance. File names without a path are under `src/gitea_auto_reviewer/`; `README.md:n` is the
repository's README. `PROJECT.json` names the source lines of every definition and, for every property, a change of
the code that would break it.

    tlc -workers 2 -config comment.cfg MCBotComment     # check a run
    tlapm BotCommentProofs.tla                          # check the proofs of a module

## 1. The system

A Gitea workflow reviews a pull request in separate processes, each with its own credentials. The stages hand files
to each other, and every file names the head commit it was made for.

    metadata -> evidence (test-select, pytest shards, impact) -> Codex review -> reproduce-plan
             -> reproduce (runner processes on head and base) -> reproduction-verify -> finalize -> comment

A second workflow, on the base branch, records the test map that `test-select` reads.

| Component | State | Operations | Interacts through | Hard behaviour | What makes it correct |
|---|---|---|---|---|---|
| Publication: `comment` (`cli.py`, `gitea.py`, `review.py`) | the bot's comment with its hidden list of reproduced findings | look up, read, render, PATCH, POST | HTTP with Gitea; people and other runs write to the same thread | a push, merge, deletion or another run between any two requests; lost answers; cancelled runs | the comment shows only what runs of that commit reproduced; there is one; it is of the newest head; nothing reproduced vanishes silently |
| Comparator (`differential.py`) | none | `outcome_facts`, `compare_runs` | called after the fourth run | noise, keys that differ in every run, rows on one side only, unwritten tables, missing entry points | confirmed and refuted mean a difference the change causes, or none that every run shows |
| Differential execution (`reproduction.py`) | payloads of up to four runs, a worktree of base | run head twice, base twice, decide | runner processes, the shared test database | the database or the date moves between runs; a run dies | a verdict rests on four rolled-back captures |
| Rollback runner and recorder (`_RUNNER_SOURCE`, `_capture.py`) | an open transaction, copies of written tables | issue, copy, collect, roll back, check | the database; other sessions; threads of the code under test | commits of others, unrecognised SQL, tables too large to copy | reported changes are the scenario's; a verified rollback leaves nothing |
| Reproduction pipeline (`reproduction.py`, `cli.py`, `review.py`) | plan, evidence, decision, final review (files) | plan, execute, repair once, verify, finalize, load | Codex; the runner; files between commands | any answer of Codex, any result of a process, a stop at any point | each finding in the right section; verdicts stand; the job ends |
| Test map and selection (`_trace_plugin.py`, `selection.py`, `evidence.py`, `cli.py`) | coverage of each test, durations | record, merge, compare commits, choose, shard, combine, report | pytest hooks, `sys.setprofile`, files of several processes | order of tests, shared fixtures, threads, crashes, changes coverage cannot see | a test left out behaves as it did; no shard is lost in the counts |
| Evidence: Django check, migrations, merge of parts (`evidence.py`) | none | run commands, combine results | subprocesses | time limits | the combined status is the worst |
| Impact analysis (`impact.py`, `_django_extract.py`) | the list of paths and their marks | collect, merge, cut, compare, write | GitNexus, traces of the test shards | cut lists, a comparison that breaks off | what the tests showed is listed once; a mark is what GitNexus knows, and all are made or none |
| GitNexus client (`gitnexus.py`) | a child process and a JSON-RPC conversation | initialize, call, close | two pipes | a deadline per line, other messages between the answers, death at any moment | an answer belongs to its question; the child is ended |
| Codex driver (`codex.py`) | none | one process per prompt | subprocess | time limits | fails or answers |
| Metadata (`cli.py`, `gitea.py`) | none | read head and base, skip drafts | HTTP | merged pull requests have another head | the head of the whole run |
| Feedback (`cli.py`, `gitea.py`) | the list so far | list pull requests, look at each, read reactions, write totals | HTTP | the list moves between two pages | no recent pull request is skipped; repeats are bounded |
| Git context (`git_context.py`) | none | diff, changed lines, base revision | git | odd file names | lines are those of the diff |
| Configuration (`config.py`) | none | load one TOML file | file | | rejects what it does not know |
| Messages (`messages.py`) | none | texts in two languages | | | wording only |
| Workflows (`.gitea/workflows`, `examples/workflows`) | jobs, the concurrency group, caches | trigger, cancel, run the commands in order | all commands | overlapping runs when the group is not honoured | at most one active run for a pull request |

## 2. Modules

| Module | Models | Extends or instantiates |
|---|---|---|
| `BotComment` | `comment_command`, one action per HTTP request, several workflow runs, people, the thread | |
| `ReviewBoard` | abstract: one review replaced in one atomic step | |
| `BotCommentBoard` | the refinement mapping from `BotComment` to `ReviewBoard` | both |
| `OutcomeFacts` | `ChangeRecorder.collect` and `outcome_facts`: from copies of tables to facts, as operators | |
| `CompareRuns` | `compare_runs` on the facts of four runs, as operators | `OutcomeFacts` |
| `ScriptEffects` | what a script does, told without keys, and what the runner captures of it; the reference `ScriptFacts` | `OutcomeFacts` |
| `DifferentialRun` | the four runs of one case in a world that moves | the two above |
| `RollbackRunner` | one runner process with its recorder, and the other sessions of the database | |
| `Reproduction` | the pipeline from the plan to the review that `comment` loads | |
| `ChangeSelection` | comparison of commits and choice of tests, as operators, with the reference `Behaviour` | |
| `TestShards` | packing of tests into shards, as operators, with the reference `BestMakespan` | |
| `TestSelection` | recording, merging, selecting, running the shards, reporting | the two above |
| `ImpactPaths` | `build_paths`, the merge of the shards' traces and `mark_static_misses`, as operators | |
| `GitNexusClient` | the child process, its pipes and one request of the client | |
| `ImpactAnalysis` | the command `impact` with every question it asks | the two above; `StaticComparison` |
| `StaticComparison` | abstract: the comparison is made at once from what the graph holds, or not at all | |
| `Feedback` | the command `feedback` over a list that moves | |
| `MC*` | the constants of the runs | |
| `*Proofs` | theorems | |

How the pieces meet: `DifferentialRun` takes what a runner process returns as a choice (captured or not, rolled back
or not); `RollbackRunner` says what these words mean. `Reproduction` takes the result of a case as a choice over the
facts `DifferentialRun` decides (`judged`, `differs`, `restored`, `reached`). `BotComment` takes the reproduced
findings of a run as a choice; `Reproduction` says which findings may be among them. `Feedback` looks a comment up in
one step; `BotComment` models the pages of that lookup.

### BotComment

State: the pull request (`head`, `merged`), Gitea's comments (`thread`), and for each workflow run its place in
`comment_command` with the values it has read (`sha`, `author`, `previous`, `target`). Actions in the order of the
code: `Start` (metadata reads the head), `CheckHead` (cli.py:475), `WhoAmI`, the lookup, which is made twice and takes
one step for each page (`NextPage`, `ReadPrevious`, `FindComment`, `NotThere`), `PatchOwn`, `PatchForbidden` (403, then POST), `PatchMissing` (404,
exit 1), `Post`, `HeadUnknown`, `Fail`, `Cancel`. PATCH and POST may take effect although the run sees a failure.
People push, dispatch, merge, write (copies of the hidden marker too) and delete between any two steps. A comment's
body is the marker's SHA, the hidden list, and what a reader sees (`fresh` for `[new]`, `carried` for problems of the
previous commit). Encoding and wording are left out; that a SHA of another length than 40 is not decoded is kept
(`sha40`). `reproducedAt` and `era` are history.

A comment of an earlier version of the program, or a damaged one, has a state that does not decode (`legible`): its
findings are forgotten, as the code does; the properties of preservation leave out what such a comment held and hold
for every later one. `shifted` remembers that a comment was deleted while a lookup was past its first page: then the
pages move and the bot's comment may be missed.

### OutcomeFacts, ScriptEffects, CompareRuns

A copy of a table maps primary keys to rows, a key is a number in the order in which `_order` sorts keys, and a value
is what the comparison tells apart: a text, and the key it is or contains. `OutcomeFacts` computes the facts of a run
as the code does: created rows by their position, foreign keys to them as place holders, changed and deleted rows by
their key, `auto_now` fields and primary keys left out. `CompareRuns` takes these facts of two base and two head runs:
the noise of each side, rows on one side only, the count of a table one side did not write, the predictions.

`ScriptEffects` says what the facts should be. An effect is what a script does: exception, result, and for each table
the rows it creates in order, changes and deletes, where a value may refer to the nth row the script creates.
`Capture` is what the recorder sees of an effect once the database has handed out keys; `ScriptFacts` are its facts
without keys; `Shown` adds the one exception: a key that the script puts anywhere but into a foreign key (a result, a
reference number) stays visible.

### DifferentialRun

What a script does on a side is a function of the world (database, date), and `Move` changes the world between any two
runs. A `Supply` says how the database hands out keys: from a sequence that never gives a key twice, again after a
rollback (`reused`), or at random, in no order (tables outside `ordered`). Payload statuses and rollback results are
free choices. Exceptions are told apart by what their message says; a message that contains the key of a new row is
not modelled. That `json_value` tells two values apart is taken for granted.

### ImpactPaths, GitNexusClient, ImpactAnalysis

`ImpactPaths` is `build_paths` (Django signals, ORM fields, routes, runtime calls), the merge of the traces of several
shards, and `mark_static_misses`. Where the code cuts a list by the order of names, any choice of its rank is allowed.
`GitNexusClient` has one action for each thing the child may do (answer a question in any order, write other lines,
die) and the parts of `_request`. `ImpactAnalysis` is the command: `Launch`, `SendInitialize`, `Initialized` or
`NotInitialized`, `BuildList`, then `Ask` and `Learn` for each question, `Mark` or `Unavailable`, `Close`,
`WriteDocument`; `BreakOnLine` and `BreakOnAnswer` are the exceptions no handler expects, `Refuse` those of the checks
before, and `LaunchFails` a child that cannot be started for another reason than a missing program.
`StaticComparison` is the promise: one answer for each question, that of the graph or none, and a comparison
that is made as a whole or not at all; `Comparison` in `ImpactAnalysis` is the refinement mapping.
Assumptions: the child answers a request at most once, an answer bears the number of its question, and the lists of a
project, which are read from files, are finite.
The child of a constructor that raises is never ended: nobody owns it (`AdoptedChildEnds` is about the others). A child
may also be killed and not be gone within the ten seconds of `close` (`KillLate`): the command then fails without a
document, which is all that can be said of it.

### Feedback

`ListPage` reads one page of the list of pull requests; `Look` and `ReadReactions` take one from it; `Write` ends the
command. `Move` and `Publish` put a pull request in front of the list (`ToFront`) between any two requests, and people
react and delete. Reactions are read by the comment's number, so `lost` remembers that the comment found was deleted
in between: reading then fails, even if a new one was published. Assumptions: the list is ordered by the last update, and pull requests do not leave it.

### RollbackRunner

`own` is what the transaction has written, `committed` the database. `Issue` is `_wrap`: the copy (`TakeSnapshot`) is
made before the first recognised write, and other sessions may commit between it, `Execute` and the next statement.
`UndoBlock` is an `atomic` block of the code under test that raises, `CommitOwn` a commit of its threads, `CommitOther`
another session. No one joins those threads: a commit they make after the scenario has returned is, to the runner, one of
another session (`CommitOther`), and the two properties leave the tables it touches out.
Then `Return` or `Raise` (the savepoint is rolled back), `Collect` per table, `RollBack`, `CheckScript`
and `CheckTable` on a fresh connection, `WriteResult`. `Fail` is an exception outside the scenario, the time limit or the
death of the process. Assumptions: READ COMMITTED, and nobody writes a row an open transaction has written; the
queries of one copy see one state; keys are numbers; models have no rows that differ only in what `json_value` drops.

In an assert case there is no recorder, and only the script's own `cleanup_checks` are looked at (`checks`): what
README.md says of the rollback ("every written table is checked again on a fresh connection") holds of differential
cases only. The properties of this module are stated for those.

### Reproduction

`step` is the command that runs. `PlanReproductions`, `Execute` (one case, in any order), `Executed`, `NothingToRepair`,
`NotRepaired`, `Repair`, `Verify`, `FinalizeReview`, `LoadReview`, and `Stop` at any point. Codex may answer anything the
schemas allow. A process that fails may have written any payload before (`exited`).
Texts are kept by what the loaders tell apart: empty, blank, at most 500 characters, 501 to 1000.

### ChangeSelection, TestShards, TestSelection

A commit gives every node (file or definition) a content: its text, the nodes it uses, the signals it sends and is
connected to. `_shape` is `Dump` and `Skeleton`, `analyze_changes` is `AnalyzeChanges`, `select_tests` is `FullRunReasons` and `Affected`, the plugin's `keep` is `Keep`. `Behaviour` is the reference: the code a test
reaches with its contents. In `TestSelection` a recording process runs code in waves (`Profile`), with the pytest hooks
as actions around them; a module's body runs once per process, a shared fixture once per process. `SetUpFixture` runs
before the test for the fixtures of its closure, and during it for those it asks for with `getfixturevalue` (after the
calls of its body). A function in `Threads` runs in a thread: `ThreadCalls` and `ThreadCovers` are the halves of `cover`
there, and between them the main thread may do anything. The map carries a history field, `unseen`: threads that outlived
their test or the set-up of their fixture, and requested fixtures that another test had set up. Such code is on record for
other tests at best, so `MapCoversEveryTest` claims nothing of it; that everything else is covered, whatever the
threads do meanwhile, is what it says.
Recording processes share nothing, nor do the shards, so each group takes its steps one process after the other
(`InTurn`, `Runs`): their result does not depend on the interleaving. A recording process that dies (`Crash`) leaves the
others alone; `Merge` needs the records of all, and without one the recording fails (`RecordingFails`). The packing of the shards is a fold over the set
of units, which are numbers in the order of their names. Assumptions: the receivers of the base are defined in files that
pytest collects (`ReceiversAssumption`), so that they are connected before a test sends a signal; files declared to be documentation are read by no code; definitions are top-level
functions and methods. A symbol gets its number
(`symbol_index`) in one step, though two threads could give two symbols one number. Skipped tests, nested functions and
the validation of the JSON files are left out.
`Traceable` names the heads the comparison can bound for a test, and `LateCode` the code that a module imported inside
a function runs on import: `sys.setprofile` sees it during the first test only. Two of the findings below show that
these restrictions are needed.

## 3. Runs

| Run | Distinct states | What it asks and shows |
|---|---|---|
| `comment` | 867,831 | Publication with up to three runs. `PublishedIsReproduced`, `OneBotComment`, `HeadIsReviewed`, `SameShaKeeps`, `NothingVanishes` hold, every run ends (`EveryRunEnds`), and every step is a step of `ReviewBoard` (`ImplementsBoard`) |
| `differential` | 485,792 | `ConfirmedIsCausedByChange`, `PlainRegressionIsNotRefuted`: what the two verdicts mean; `KeysAreNoNoise`: what the facts hide of keys (all three for scripts with at most one new row in a table with random keys); `VerdictIsRolledBack`, and `CaseIsDecided` |
| `rollback` | 4,097,298 | `ChangesAreTheScenarios` and `LeftoversPrecedeSnapshot`: what a verified capture means |
| `reproduction` | 477,270 | `ReproducedWasShown`, `SectionsTellWhatHappened`, `VerdictsStand`, and `JobEnds` |
| `selection` | 339,206 | `MapCoversEveryTest`, `PassIsJustified`, `CountsAreComplete`, `ShardsAreBalanced`, and `ReviewGetsTests` |
| `impact` | 658,272 | `MarksTellTheGraph`, `ComparedAsAWhole`, `ObservedOnce`, `AdoptedChildEnds`, the refinement `ImplementsComparison`, and `AnalysisEnds` |
| `feedback` | 1,137,616 | `RecentIsListed`, `OneRepeatForAMove`, `EveryReviewCounts`, and `FeedbackEnds` |
| `comment_overlap`, `differential_random`, `reproduction_text`, `selection_twin`, `selection_hook` | | each shows one statement of the repository that the code does not keep, see below |

Bounds, and why they are enough:

- `comment`: three runs (one that publishes, one it overlaps, one after both), two commits (a forced push can return
  to the first), two pushes, two comments or deletions by people, a lookup of two pages with one comment each, so that a page is
  missed when comments shift and the limit is reached; the first comment may be one of an earlier version. Three findings: one, its rewording (the same problem to `_same_problem`), and one only a copied marker
  claims. Installations with and without the `read:user` scope; the group is honoured. `comment_overlap` drops the
  group and needs two runs.
- `differential`: three tables, of which one refers to the other two, has rows that were there, and one has an
  `auto_now` field; nineteen scripts that create, change and delete rows the same on both sides, differently, by day,
  on one side only, with a key in a text or in the result, and that end with an exception; four ways to hand out
  keys (two of them random); two sets of predictions; two worlds and two moves, so that the world can change and change back. Two new rows
  in a table are the least that can come in the wrong order.
- `rollback`: two statements and two commits on other connections (a write and its undoing, or two sessions), one
  table that is copied and one that is too large, two keys each, so that a row lies above the highest key.
- `reproduction`: two findings, so that one is repaired while the other has its verdict and the second review can
  accept one and reject one.
- `selection`: four tests in three modules, a shared fixture, one that a test asks for while it runs and another test
  has in its closure, a function that this fixture and a test start in a thread, a module imported in a function and one imported by
  another test module; every single edit, addition and removal that the comparison treats differently, together with
  a new test; one test that may fail while recorded; two processes and two shards.

- `impact`: six pull requests that between them have every kind of path, a path found twice, chains in two shards, more
  paths than fit and three changed functions of which two are asked about; three graphs; two unread lines, so that a
  late answer can precede a new one.
- `feedback`: four pull requests, three asked for, pages of two, two moves: a move may push one over the edge of a page
  already read, and there are lists shorter than a page.

The bounds on runs, pushes, comments, moves, statements and commits are constants of the modules and are named there.

Deadlock is not checked because all seven systems end: a pull request has no more runs, a case its verdict, a job or a
command its last step. That they end well is what the liveness properties say.

Fairness: `BotComment` assumes it of each run's `Progress`, not of people, failures or cancellation: the workflow
runner goes on with a job that can, and every request has a time limit. `DifferentialRun` and `Reproduction` assume it
of the next step of the job, because each process and each Codex call has a time limit; not of `Move` and `Stop`.
`TestSelection` assumes it of the next step: all commands have time limits. `ImpactAnalysis` assumes it of the command:
a wait for a line is a step that is enabled when a line is there or, by the deadline, when none is. It assumes nothing
of the child; since the deadline begins anew with every line, a child that writes for ever holds the command, and
`AnalysisEnds` says that this is the only way. `Feedback` assumes it of `Progress`, because every request has a time
limit. `RollbackRunner` states no liveness: its time limit is `Fail`.

### Disagreements

| Run | The repository says | The code does |
|---|---|---|
| `comment_overlap` | cli.py:477: a newer push's review is never overwritten by an older run | the head is compared once, several requests before the write; only the concurrency group prevents it |
| `differential_random` | README.md:143: identical changes are `refuted`; README.md:136: place holders in the order of creation | new rows are numbered in the order of their keys; with random keys two rows may be compared crosswise, and an unchanged script is confirmed when both runs of a side agree |
| `reproduction_text` | the schemas allow 1000 characters; findings are never dropped | `finalize` writes a review that `comment` refuses to load: nothing is published |
| `selection_twin` | README.md:205: tests that executed a changed function run | of two functions of one qualified name only the last is compared |
| `selection_hook` | selection.py:10: what coverage cannot bound runs the whole suite | a function connected by its decorator is an uncovered new symbol |

Met while modelling, without a run of their own:

- README.md:144: a difference where the finding predicted is `confirmed`. Random keys again: when two new rows come in
  the other order in the second run of one side, they exchange all their values, these values count as noise of both
  sides, and a regression that every run shows there is `refuted`. `PlainRegressionIsSeen` states that it is seen; TLC
  finds it violated when it takes the place of the invariant in `differential_random.cfg`.
- README.md:172: a rerun on the same SHA keeps what was reproduced earlier. Not in a repository with object names of 64
  digits, which `validate_sha` accepts: `MARKER_PATTERN` (review.py:538) knows 40, so that no state is ever read back.
- README.md:174: `[new]` marks problems reproduced for the first time. The code compares with the one comment it
  replaces (review.py:698): a problem that was away for one commit is new again.
- README.md:175: a finding that is gone is listed once more. Not if the comment was deleted or does not decode.
- README.md:146: an entry point missing on base is inconclusive. Only `ImportError` and `ModuleNotFoundError` are;
  a new method, or a function reached through its module, ends in an `AttributeError` that counts as base's behaviour.
- evidence.py:358: a run whose tests were all deselected is a pass. The report of the comment calls it an error
  (cli.py:457).
- README.md:109: GitNexus is asked about every changed function. It is asked about the first twenty.

The passing properties state what holds in spite of these: `HeadIsReviewed` needs the group, `PassIsJustified` is about
`Traceable` heads, `SameShaKeeps` and `NothingVanishes` about object names of 40 digits, and `ConfirmedIsCausedByChange`,
`PlainRegressionIsNotRefuted` and `KeysAreNoNoise` about scripts with at most one new row in a table with random keys
(`RowsAreInOrder`): with two, the comparison may confirm what is not there and refute what is.

## 4. Proofs

Checked by TLAPS for all values of the constants that satisfy the modules' named assumptions: any number of runs,
people, findings, schemas, scripts, worlds, moves, keys, pages, pull requests, projects, files, tests, fixtures,
threads, shards and commits. A theorem about a run's property names the definition the run checks.

| Theorem | Says |
|---|---|
| `BotCommentProofs!TypeCorrect`, `PublishedCorrect` | types; the bot's comments show only what was reproduced at the commit they name |
| `BotCommentProofs!OneBotCommentHolds`, `HeadIsReviewedHolds` | at most one comment of the bot, for any number of comments and pages; the newest head ends up reviewed |
| `BotCommentProofs!SameShaKeepsHolds`, `NothingVanishesHolds` | the two action properties about findings that an edit replaces |
| `BotCommentProofs!Refinement` | every step of a run, request by request among people and other runs, is a step of `ReviewBoard` or changes nothing there |
| `DifferentialRunProofs!FactsOfCapture` | the facts of a captured run are what the script has done, for any fresh keys handed out in order, but for keys the script itself shows |
| `DifferentialRunProofs!TypeCorrect`, `ConfirmedCorrect`, `NotRefutedCorrect`, `NoNoiseCorrect`, `RolledBackCorrect` | types and the four safety properties of a verdict and of the noise filter; `ConfirmedCorrect`, `NotRefutedCorrect` and `NoNoiseCorrect` for scripts with at most one new row in a table with random keys |
| `ImpactAnalysisProofs!TypeCorrect`, `ComparisonIsWhole`, `MarksAreRight`, `ChildIsEnded`, `Refines` | types, three safety properties, and that every step of the command is a step of `StaticComparison` or changes nothing there |
| `ImpactAnalysisProofs!ObservedOnceHolds` | a call that some shard traced is told once, as a path of its own or as the confirmation of one, unless a list is full; nothing else is called confirmed |
| `RollbackRunnerProofs!TypeCorrect`, `ReportedChanges`, `Leftovers` | types and both properties of a verified capture |
| `ReproductionProofs!TypeCorrect`, `ReproducedCorrect`, `SectionsCorrect`, `VerdictsCorrect` | types, both invariants of the final review, and the action property `VerdictsStand` |
| `TestSelectionProofs!SelectionIsSound` | a test that an impact selection leaves out behaves as it did, if the map covers it and the head is `Traceable` |
| `TestSelectionProofs!TypeCorrect`, `MapCoversEveryTestHolds` | types; the map has every function that a passed test would run alone, for any order of tests, failures, shared and requested fixtures and threads |
| `TestSelectionProofs!PassIsJustifiedHolds`, `CountsAreCompleteHolds` | when the comment says that the tests pass, each test ran or, if the comparison can bound its code (`Traceable`), would run what it passed with; its counts are those of all kept tests |
| `TestSelectionProofs!ShardsAreBalancedHolds` | Graham's bound: the longest shard is estimated at no more than 4/3 - 1/(3n) times the longest of the best packing on n shards |
| `FeedbackProofs!TypeCorrect`, `RecentIsListedHolds`, `OneRepeatForAMoveHolds` | types; a list that moves under the command loses none of the recent pull requests that stay, and repeats at most one for each move |
| `FeedbackProofs!EveryReviewCountsHolds` | each readable review of a listed pull request is in the report, no more often than it is listed |

The inductive invariants, and why they are needed:

- `BotComment`: that comments show reproduced problems is not inductive, since a run writes what it read
  earlier. `PreviousIsReproduced` adds that what a run holds of an earlier comment was reproduced at that comment's
  commit, which in turn needs that only a run that knows the bot's login reads one (`readUser`).
  `BoardInv` is the invariant of the other four properties and of the refinement: `ThreadInv` (comment identities are
  distinct and grow), `RunsInv`, `GroupInv` (under the group at most one run is between its check and its write),
  `ErasInv` (the era of a comment is that of a head some run read) and `LookupInv`. A run that posts has found no comment of the
  bot on any page. That this is right is a matter of counting: the comments before the bot's one fill whole pages
  (`RanksAreTaken`, with the cardinality theorems), so a lookup whose pages did not shift and that ends without it has
  passed the place where it would be (`NotThereIsRight`). `ShownReview` in `BotCommentBoard` maps the thread to the
  one review of `ReviewBoard`. Besides the assumptions of the module it needs that no comment from before the runs belongs to
  an era of its own (`OldBodiesAssumption`) and that `NoReview` is no review (`NoReviewAssumption`).
- `OutcomeFacts` has no steps. New keys grow in the order of creation and lie above all known ones, so a new row's
  position is its place in the script (`IncreasingIndex`, `CaptureOrder`), a foreign key to it becomes that place
  (`NormalisedIsShown`), and a changed field is seen changed whatever the key (`ChangeIsSeen`).
- `DifferentialRun`: `Honest` (a payload is what the script does in the world it ran in, with that run's keys),
  `SameWorldAcross` (unless the world moved in between, the first base run sees the world of the second head run) and
  `DecidedByComparison`. A confirmed place is equal within each pair, so the second head run stands for the first. If
  head and base did the same there, the two facts could differ only by a key that the script shows; but the two head
  runs agree on it, so the key would come again after a rollback, and base would show it too (`SameDoesSameShows`).
- `ImpactAnalysis`: `Stages` (which request is out, and what is open), `Answered` (the answers are those of the
  questions before it), `Truthful` (each is the graph's answer to its question, or empty) and `MarkedByAnswers`. A
  request of the server or a late answer has another number, so it is never taken for the answer that is awaited.
  `ObservedInv` says from the moment the list is built what `ObservedOnce` says of it. The path that is added first for two
  ends stays (`FirstAdderStays`), the merge takes each traced call once (`MergedOnce`), and a list is cut only when it is
  full. Marking changes a path and never two into one, so a full list stays full (`MarkedOnce`).
- `RollbackRunner`: `EarlyInv` (rows not written before the copy are, in the copy, as at the start), `SnapshotsInv` (a
  large table's highest key bounds its rows), `CollectedInv` (a report stays what the transaction did, also when `own`
  is gone and only the history `wrote` has it), `RestoredInv` (a table found restored stays so). If a table is restored,
  its copy is the database, and the difference to the copy is what the transaction did.
- `Reproduction`: `ResultsAgree` (a result is what the last execution shows), `Bookkeeping` (which cases may still run),
  `Decided` (the decision partitions the confirmed findings) and `Sectioned`.
- `ChangeSelection` has no steps. What the test reaches at both commits has one content at both, is closed under calls
  at both, and holds the roots; `Reach` is the least such set, so it is all the test reaches on either side.
- `TestSelection`: `RecorderInv` is about one recording process (`RecordingProofs`). A map covers a test if all the test
  would run is on record for it, and in the middle of a run nothing of the kind holds. What does is an account of a set
  of code that has run (`Accounted`): its functions are on record, and whatever it leads to is in the set, or pending in
  this wave, or left to a thread, or to a fixture or module which the test is not seen to run (`unseen`). One such set is kept
  for the time before the first test (`Fresh`, then `Done`), for each fixture that is ready (`SharedInv`), for the one that is being set up
  (`SettingUpInv`), for the test that runs (`RunningInv`) and for each that passed (`PassedInv`); every wave, every
  half of `cover` in a thread and every hook moves code between its parts. At the end nothing is pending, and as the reach
  of a test is the least closed set, it is on record or reached by what was not seen. `SelectionInv` adds the merged map
  (`MapInv`), the selection it allows (`SelectedInv`), that a shard which passed has run its part (`ShardsInv`), and what
  the evidence and the report sum up (`EvidenceInv`, `ReportInv`). The parts are disjoint and complete because every
  step of the packing adds one unit to one shard (`FoldInduction`, an induction over the finite set of units).
  `PassIsJustifiedHolds` then follows from `SelectionIsSound`, for a head and a test that are `Traceable`.
  `ShardsAreBalancedHolds` is about each stage of the packing (`PackingFolds`): the unit u that is put last weighs no more
  than any before. If it weighs at most a third of the best packing's longest shard, averages give the bound
  (`SizeByParts`). If it weighs more, it cannot make its shard longer than that (`NoBetterPacking`): else a unit alone in
  its shard would be alone in the best packing, too, the other shards hold two or more, and no shard of the best packing
  has room for three.
- `Feedback`: `ListInv` says that what was read are whole pages. `FoundInv`: a pull request that stayed is listed no
  later than its place in the list, which only grows, so the limit cannot cut it. `RepeatInv`: the repeats in the listing
  and those still ahead are no more than the moves; a page turns one of the second kind into the first, and a move
  brings at most one listed number behind the place that was read. `SeenInv`, `CountInv` and `PlaceInv` say the same of
  the reviews that were looked up so far.

Only model-checked: liveness, which TLAPS does not prove under fairness. Every safety property of the passing runs is
proved.

## 5. Not modelled

- The Codex driver, git context, configuration and messages keep no state; their results are inputs of the models.
- What the Django extractor and the AST search find (`_django_extract.py`, `orm_references`,
  `changed_functions`) is the input of `ImpactPaths`; indexing a repository and the configuration of the MCP server
  are calls of other programs.
- The hidden state's encoding and parsing, the merge of evidence parts, the Django and migration checks: pure
  functions, planned as operators with reference definitions. Wording, display notes and the limit on listed
  differences decide nothing.
- Hazards without a property, each in `PROJECT.json` with the reason: a missing entry point on base that is no
  `ImportError`; object names of 64 digits; and three kinds of code a map knows less
  of than a test runs: what a module imported by an earlier test runs on import (`LateCode`), what a fixture
  requested by name and set up by another test runs (`Unseen`), and helpers in another test's module (not `Traceable`).
  The properties of the map and the selection leave these three out. Those of preservation leave out a comment whose
  state does not decode; that it is found and replaced is part of `OneBotComment`.
- The names of code objects are taken to be those of `_shape`: before Python 3.11 methods are recorded under their bare names.

## 6. Plan

Modelled first: what is published (`BotComment`), what it rests on (`DifferentialRun`, `Reproduction`), and what decides
which tests run (`TestSelection`); then the runner below them (`RollbackRunner`), the comparator (`OutcomeFacts`,
`CompareRuns`), the impact analysis with its child process, and the feedback command. Next:

1. `EvidenceParts`: parts of one head from several jobs, merged in any order, with missing and repeated parts.
2. `HiddenState`: rendering and parsing of the marker as operators; parsing a rendered comment gives back its state.
3. `DifferentialRun` over `RollbackRunner`: its `RunnerPayload` as what a runner process can end with.
4. Symbol numbers in `TestSelection`: what a map is worth when two threads give one number twice.

Theorems next: the safety properties of these, as they are written.
