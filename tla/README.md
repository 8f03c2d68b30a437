# RepoRigor in TLA+

RepoRigor (`src/`, Rust) analyses source trees: complexity and coverage (CRAP),
duplication (DRY), quality rules, and mutation testing. The part that can do harm is
mutation testing: it replaces files of the user's project by mutants, runs the user's
tests on them, and has to put every file back, through crashes, signals, hanging
tests and several instances at once. The rest computes reports from files that others
write, and is wrong when it says something that is not so. These modules model both,
check them with TLC, and prove with TLAPS every safety property of the first that a run
checks, and eight of the second.

Contents: [1 inventory](#1-the-system) · [2 modules](#2-the-modules) ·
[3 runs, bounds, fairness](#3-what-the-runs-check) · [4 proofs](#4-what-is-proved) ·
[5 findings](#5-where-code-and-documentation-disagree) ·
[6 limits](#6-what-is-not-modelled) · [7 plan](#7-plan)

To repeat a run: `tlc -config MCRecovery.cfg MCMutationRecovery.tla`; to repeat a
proof: `tlapm RunLock_proofs.tla`. `PROJECT.json` lists runs, theorems, hazards, and
the source lines behind every definition.

## 1 The system

### Mutation testing (`crates/analysis-mutate`)

| Part | State | Operations | Correct when |
|---|---|---|---|
| Journalled mutation and recovery (`filesystem.rs`) | per root a state directory with a *journal* (the original bytes); one global *pointer* to the active mutation; the source file | check for a pending mutation, apply, restore, recover on start or on demand; each is a sequence of renames, unlinks and directory synchronizations | whatever a file holds can be undone, also after a power failure and after the checkout was moved; no analysis reads a mutant; the user's edits survive |
| Run lock (`filesystem.rs`, `locking`) | a lock file (`flock`), in each process a table of readers and writers | acquire shared (at once), acquire exclusive (retry for 3 s), release in two steps | an execution is alone; no place in the table leaks; attempts end |
| Executor (`executor.rs`) | options, baseline result, results so far, the candidate in its source | baseline, choose, apply, validate, test, classify, restore, record | a verdict belongs to the mutant that was in the file; nothing is left behind |
| Signals (`signals.rs`, `cancellation.rs`) | the flag of the cooperative scope, the process-wide token, the handler thread | signal, enter and leave a scope | the first signal cancels in an orderly way, the second exits |
| Command runner (`command.rs`) | a process tree, two reader threads with their captured output, timeout, token | poll, terminate, drain, give the outcome | it returns whatever the command does; incomplete output is marked |
| Selection (`selection.rs`) | none | filter by operator, order by seed | the same choice for the same mutants, in whatever order they were found |

### Process containment (`crates/process-tree`)

A `ProcessTree` is a child in a process group of its own. `poll_exit`,
`wait_bounded`, `terminate_bounded` and `drop` observe the leader without reaping it,
send SIGTERM and SIGKILL to the group, reap, and verify that the group is empty. Correct
when a status is exposed only after the whole tree is gone and no signal reaches
anybody else. On Windows the child is created suspended and put into a Job Object.
`bounded.rs` runs a tool to completion over it: two reader threads, a condition variable,
one drain deadline for both.

### Inputs and backends

| Part | State | Operations | Correct when |
|---|---|---|---|
| Discovery (`reporigor-core`: `discovery.rs`, `bounded_file.rs`, `source_budget.rs`) | directories still to visit, ignore rules, budget | walk, read ignore files, open and check again, charge | nothing outside of the root is read, limits refuse, rules of the nearer directory win |
| Identities (`reporigor-core`: `model.rs`) | fingerprints and their numbers | assign, merge | a mutation keeps its fingerprint, no two share one |
| `adapter-tree-sitter` | tree cursors, the open functions | read, refuse, walk, emit functions, tokens, mutations | every function is measured by its own code |
| `adapter-rust`: `scope.rs` | walks per target and configuration | metadata, modules, includes, merge | a file is analysed as what the targets compile it to |
| `adapter-rust`: the rest | visitors | measures, references, tests, tokens, mutations | production and test code are told apart the same way everywhere |
| `adapter-rust`: `cargo_proxy.rs` | a private directory | build, hold, remove with retries | whole while in use, gone afterwards |
| `adapter-clang` | a compilation database, one command per entry | preflight, dump, merge | a unit is refused or is what was compiled |
| Routing (`reporigor`: `analyze_project`) | sources, functions, notes | native analysis, fallbacks, generic analysis, merge | one backend speaks for a function |

### Analyses

| Part | State | Operations | Correct when |
|---|---|---|---|
| `analysis-crap` | budgets, records by file | find, recognize, parse, merge reports; join with functions | no function is scored by another's lines |
| `analysis-dry` | buckets, disjoint sets, diagonals | index, compare, join, extend, select | families are complete, equal regions are found |
| `analysis-quality` | none; the baseline is a file | rules, omissions, compare, gate; package cycles | what counts as resolved is gone, a passed gate holds the line |
| `provider-mutation` | files, mutants seen, index | read another tool's report entry by entry | what is imported is what the report says of this source |
| `reporting`, `adapter-project`, `corpus-harness`, scripts, workflows | none | rendering, one request and its answer, development tools | not modelled |

### How they interact

    reporigor (sessions, scopes, checks)
        |        \--- routing ---> adapters ---> functions, tokens, mutations
        |                             |              |
        |                             |              v
        |                             |     crap, dry, quality ---> report, baseline, gate
        |                             v
        |                         process-tree, bounded.rs (cargo, rustc, clang)
        v                                      signals.rs <- SIGINT, SIGTERM
    executor.rs --- session ---> run lock          | token
        |    \--- apply/restore/recover ---> journal, pointer, source files
        v
    command.rs (2 reader threads, timeout, token)
        v
    process-tree (process group of the test command)

Every analysis also begins a *read session*: the same lock, shared, and a refusal when
a mutation is pending.

### What is hard here

Crashes between any two file operations and power failures that lose an unsynchronized
directory entry; checkouts that are moved or copied in between; instances of the program
that act on nested roots; two locks taken one after the other; a signal handler in another
thread; processes that fork, linger, escape their group or cannot be killed, in a group
whose number the kernel may give away; pipes held open by strangers; timeouts,
cancellations and completions that race; cleanups that fail halfway and are repeated; files
that change between a check and a read; evidence that was there yesterday and is missing today;
orders of discovery that must not show in a report. `PROJECT.json` has the list, line by
line, with the properties that answer for each.

## 2 The modules

An arrow reads "is shown to implement" for `=>` and "is built on" for `->`.

    MutationRecovery => SourceCustody
    RunLock          => SharedExclusiveLock
    ProcessTree      => ContainedTree
    CommandRun       => BoundedCommand        CommandRun       -> ContainedTree, Pipes
    BoundedRun       => BoundedCommand        BoundedRun       -> ContainedTree, Pipes
    CargoProxy       => BoundedCommand        CargoProxy       -> BoundedCommand
    MutationExecutor => MutationJudging       MutationExecutor -> BoundedCommand, TerminationSignals
    OutputTail
    MCProcessTree    -> ProcessTree, JobTree
    MCCommandRun     -> CommandRun, BoundedRun, CargoProxy, OutputTail
    Analyses         -> MovedCheckout, BackendRouting, QualityRatchet, DependencyGraph, CloneGroups, ExactClones,
                        CoverageJoin, MutationIdentities
    MCAnalyses       -> Analyses, CoverageReports, ProviderImport, RustScope, RustStructure,
                        SourceDiscovery, SyntaxFunctions
    QualityRatchet   -> QualityRules          RustScope, RustStructure -> CfgAttributes

`CommandRun` takes the steps of the tree from `ContainedTree`, and `MutationExecutor` those
of a command from `BoundedCommand`; since `ProcessTree` and `CommandRun` implement
these, a property of the upper module rests on the lower one. `MutationRecovery` runs one
exclusive session at a time and readers beside each other, as `SharedExclusiveLock`
allows. `CargoProxy` and `BoundedRun` lean on `BoundedCommand` with a token that is never set.

**MutationRecovery** (`filesystem.rs`, sessions of `executor.rs`). Each action is one
file operation, or a read with the decision taken on it. `src`, `journal`, `pointer` are
what processes see, `srcDisk`, `journalDisk`, `pointerDisk` what a power failure
leaves; a `Sync...` action models `sync_parent`, `WriteBack...` the kernel. `step`, `ctx`,
`rec` are control and data of the session, whose order of operations is the code's:
journal, pointer, mutant on the way in; original, pointer, journal on the way out.
`Failed` is the error path: recovery after a failed replacement, a second `restore` by
the drop of the guard, otherwise the end of the session. Contents are model values, a
checksum is the content, a root is the set of files below it. `human` is a ghost: what
the user last saved.

**SourceCustody** says what a user is promised: one mutant at a time, of the content last
saved, never beside a reader, and only that content is put back.

**RunLock** (`filesystem.rs` 1039-1287). A thread first takes its place in the table of
its process, then the file lock; gives the place back on contention; retries until
`EXCLUSIVE_LOCK_WAIT` if it is an execution. Each is a step of its own. `Expire` is the
clock, `CrashProcess` the death of a process (the kernel drops its locks).
**SharedExclusiveLock** is one lock with the phases out, asking, blocked, in, leaving.

**ProcessTree** (`process-tree/src/lib.rs`, `unix.rs`). The caller's operations enter a
cleanup whose stages are the actions `SendGraceful` to `Finish`; `issues` collects the
failing ones as the code does. Leader and descendants run, fork and die between any two
steps. A descendant in `Privileged` cannot be signalled (EPERM). `Recycle` lets the
kernel give an empty group's number away; `hit` is a ghost that notes a signal to
strangers. **ContainedTree** is the promise: a status means nothing is left.

**CommandRun** (`command.rs`). `pc` follows `run_command_with_environment`: poll, wait a
slice, clean up, take both outputs, check the token, answer. Reader threads are the
actions `Read`, `EndOfFile`, `ReadFails`. A process that left the group (`escaped`) holds
the pipes as long as it likes. A pipe is a count of chunks. **BoundedCommand** is what the
executor relies on: no answer but `treeError` while something lives, no outcome for a
cancelled run.

**BoundedRun** (`bounded.rs`). `place` follows `run_bounded`: spawn, wait for the tree, then
for each reader in turn. A reader publishes its state under the mutex and wakes the waiter
(`Ends`, `Update`); the waiter looks, sleeps, is woken, spuriously or by the clock, and looks
again (`Check`, `Wake`). Bytes are numbered, so what a reader retains of a stream is an interval.
**Pipes** is what both runners know of a pipe.

**JobTree** (`windows.rs`): create the job, limit it, create the child suspended, assign, find
its thread, resume; each may fail, the failure path ends the child, and the program may die
anywhere, which closes its handles.

**CargoProxy** (`cargo_proxy.rs`): directory, source, rustc as a bounded command, the proxy in use, and
its removal in up to `CleanupAttempts` attempts.

**MovedCheckout** (`filesystem.rs` 2220-2316) abstracts the steps of `MutationRecovery` to whole
operations and adds what happens to paths: a checkout is renamed, copied, removed, replaced, or
reached through a link. Records name a path and, on Unix, the identity of its directory.

**OutputTail** (`CapturedOutput`, `tail_bytes`, `bounded_lossy`, and the same tail in
`bounded.rs`) is a pure algorithm, stated over sequences of bytes that are ASCII or
invalid, and compared with its definition: the longest end that fits.

**TerminationSignals** (`signals.rs`) splits the handler in the load of the flag and the
decision on it, because the main thread runs in between. **MutationExecutor**
(`executor.rs`, `execute_mutation_run`) has the scope, the baseline, the loop over the
candidates, the guard and its drop, and the last check of the token. The options are
chosen in the initial state. The file system is reduced to what it does to the one
source, failures included. **MutationJudging** is the promise to whoever reads the report:
in order, one verdict each, of the mutant that was in the file.

**QualityRules**, **QualityRatchet** (`rules.rs`, `baseline.rs`, `run_check`). Facts are of one family
at a time (functions, mutants, packages, inventories), with a field for what an adapter could
not establish; `Rows` and `Omitted` are what the rules make of them. A `Check` compares them with a
baseline and decides the gate; `Adopt` is a person who copies a report, and then everything changes.

**DependencyGraph** (`graph.rs`) runs Tarjan's algorithm with its recursion as a stack of frames, in
the code's order, and compares with mutual reachability. What a package leads to is stated as what lies in
every set that is closed under dependencies: that needs no paths, and so no induction in the proof.

**CloneGroups**, **ExactClones** (`analysis-dry`). The first indexes shingles, skips full buckets,
compares candidate pairs by a merge of their sorted shingles, which is given up as soon as the threshold is out of
reach, and joins them in a disjoint set whose roots are the lowest members; the second indexes windows of
tokens under a cap, extends a pair unless its diagonal was already covered, and selects. Both are
compared with the definition: connected families under the Dice coefficient of multisets, and equal stretches of at
least the minimum. A family, too, is stated as what lies in every set that is closed under similarity.

**CoverageReports**, **CoverageJoin** (`coverage.rs`, `lib.rs` of `analysis-crap`). One action is one
record, one tag, one file of a JSON report, or one check of a limit. A path is its root and its parts; where the
program glues texts (`{source}/{file}`), `Joined` says what the text is read as. The join is the sweep over lines
with its opening and closing sets, the ambiguities and the score.

**ProviderImport** (`import.rs`): the header, then one entry after the other through the index of
lines and its checkpoints. Characters are what coordinates tell apart: bytes, UTF-16 units, line ends.

**MutationIdentities** (`model.rs` 1433-1590, `selection.rs`): candidates are found in any order, named by
the Rust adapter, merged, named again, and selected. A stable sort puts each entry at its rank among the keys, the
places telling equal ones apart; a digest is the sequence of what it is the digest of, so that it is nobody else's.

**SourceDiscovery** (`discovery.rs`, `bounded_file.rs`, `source_budget.rs`): every system call is an
action, and between any two of them the disk may change. `Plain` follows directory entries, `Resolve` links as well.
What discovery is to find is stated apart from the walk (`FilesBelow`, `LeftOut`). **CfgAttributes**, **RustScope** (`scope.rs`):
the depth-first walk of every target under every configuration, and the merge. **RustStructure**
(`complexity.rs`, `syntax.rs`, `tokens.rs`, `mutations.rs`) and **SyntaxFunctions** (`adapter-tree-sitter`)
walk a syntax tree and compare what the visitors collect with what the tree says.
**BackendRouting** (`lib.rs` of `reporigor`, `backend.rs`): requests, databases, compilers that are missing,
units that fail, budgets, and the merge of two backends' functions.

The `MC...` modules hold the constants of the instances; the executor needs none and is checked as it is.
`Analyses` places the eight analyses that are proved about side by side, each with variables of its own, and
`MCAnalyses` adds the others, whose variables take the places `v1` to `v14`; `part` says which one a behaviour
is about, and what belongs to the others is `Absent`.
`MCCommandRun` and `MCProcessTree` do the same for the commands and the two kinds of tree, and the proofs about
those parts extend them, so that a theorem names the property that the run checks. Definitions
commented "Wrong:" are plausible mistakes in the definition after them; they are used nowhere, and
substituting one makes TLC find the property of `PROJECT.json`'s `mutants` violated.

## 3 What the runs check

| Run | Question | Instance |
|---|---|---|
| `recovery` | can every mutant be undone, do readers see only the user's files, is manual repair asked for only after an edit, is custody kept? | 2 processes, a workspace with a nested package, 2 files, 3 contents; 2 edits, 2 crashes, 1 I/O error, 1 power failure; 1.5 million states |
| `recovery_live` | does every source become the user's again, and does a session leave alone what belongs to an unrelated root? | 1 process, 3 roots, a crash, an edit and an I/O error |
| `torn_restore`, `lost_edit` | findings, section 5 | as `recovery` |
| `lock` | exclusion, exact tables, one shared-exclusive lock; does every attempt end? | 2 processes of 2 threads |
| `tree` | is a status the end of the tree, do signals stay home, does a repeated cleanup succeed and a drop kill (`TreeEnds`)? On Windows: does anything outlive the job? | leader, 2 descendants (one unkillable), 2 failing calls, recycled numbers; every failing call of the spawn; 23 530 states |
| `command` | is unmarked output whole, are streams judged rightly and tails marked ends, are the promises kept, do calls come back, is a cancellation heard, is the proxy whole or gone? | 2 chunks per pipe; 3 bytes per pipe under limits that sum to 2; 8 removals; tail limits 0 to 7, up to 4 bytes per stream in every division into chunks |
| `executor` | verdicts, baseline and selection (`OptionsHonoured`), one tree at a time, nothing left; does a run end, does a cancellation end it? | 2 candidates, all options, 2 signals; 200 000 states |
| `executor_first_signal` | finding | 1 candidate, 1 signal |
| `analyses` | the twelve questions below | 14 parts; 2.8 million states |
| `resolved_unseen`, `clone_lost` | findings | the parts `ratchet`, `families` |

What `analyses` asks, and of which inputs:

| Property | Part and inputs |
|---|---|
| `RatchetHolds`: what counts as resolved is gone, a passing gate holds the line | `ratchet`: 2 functions, 2 mutants, 3 packages or 2 items, any evidence lacking before and after one baseline |
| `CyclesAreMutualDependencies` | `cycles`: 3 packages, every graph of production records over them, with one more record of another kind or to the outside |
| `DuplicatesAreFound`: equal windows lie in a region that is kept or touched, and what is kept is equal | `clones`: files of 4 and 6 tokens, every choice, caps that bite or not |
| `GroupsAreFamilies`: groups are the families of similar functions | `families`: 4 functions of 4 shapes in 2 files |
| `CoverageIsOwn`: no function is scored by another's execution | `crap`: 2 functions anywhere or 3 of whole lines, nested or not, any lines or regions |
| `ImportIsFaithful`: what is imported is what a report says, of mutants and of lines | `imports`: texts of up to 4 characters of every width and line end, 2 entries, three formats; `reports`: 4 LCOV records, 3 Cobertura blocks (a source `/` among them), the JSON formats, 2 shards, directories, under limits that all bite |
| `IdentitiesAreStable` | `identities`: up to 4 of 10 candidates in any order, two of equal provided and generated names, one operator allowed or none |
| `WorkspaceIsRead`: scopes are uses, dependencies are named, production is told from tests | `scopes`: every two of 15 items in a root, shared files in every state, test targets, renamed packages; `structure`: two of 15 items, among them one with every construct, in one or two scopes |
| `DiscoveryIsContained` | `discovery`: a repository in a directory, ignore rules of three origins, one change of an entry or a size at any call |
| `CodeIsMeasuredOnce` | `syntax`: files of six languages with functions in functions |
| `MutatedCheckoutStaysKnown` | `checkouts`: 3 paths, 2 directories, 2 texts, a whole and a member root |
| `MeasuredByOneBackend` | `routing`: 5 files in three languages, every 2 of 8 commands, every state of the tools, 3 namesakes |

**Bounds.** `MaxEdits`, `MaxCrashes`, `MaxPowerLosses`, `MaxIoErrors`, `MaxFaults`,
`MaxSignals`, `MaxWritten`, `MaxRunWritten`, `MaxLimit`, `MaxTotal`, `MaxChanges`, `MaxJournals`, `MaxFound`
cap the environment, never the program. Two
crashes give a crash in the recovery from a crash; two roots that share a file are what
the global pointer is for, and a third is needed only to be unrelated; three contents
are an original, its mutant and something else. Four threads in two processes give every
conflict within and across processes. A leader with two descendants has one that
forks the other. Two failing calls let a cleanup and its repetition fail. Two chunks tell a
part from the whole; three bytes under limits of two are cut on one side or both.
`CleanupAttempts` is the code's own eight. Limit 7 with four bytes has invalid bytes (three bytes each when
rendered) on both sides of the cut. Two candidates make an executed one precede or follow an
excluded one, or one beyond the limit; the second signal is the one that exits.

In the analyses the bounds are on inputs. Three packages have a cycle within a graph that is not one;
four functions have a family joined by a pair that is not similar at its ends, and a second family;
three functions have one within one within one, and two beside each other. The program's limits are
small there (`MCReportLimits`, `MCWalkLimits`, `MaxEach`, `MaxRetained`, ...), so that each is met and just not
met. One baseline is adopted in a behaviour, since a comparison looks at one prior report only. One change
of the disk is enough to fall between any check and its use. Fingerprints of
windows are functions on small numbers; one provided fingerprint of a mutation is also the generated one of another, and
a seed is the fingerprints that it puts first. The proofs remove these bounds for
the safety properties of section 4.

**Assumed of the environment.** `EditsAvoidTool`: the user does not save the file that is being
replaced in the moment between the tool's read or comparison and its rename, nor save as original work
exactly the bytes of a recorded mutant. `RestoreIsDurable`: no death and no I/O error between
the rename that restores and the synchronization of its directory. Both are constants;
`lost_edit` (at the rename that restores) and `torn_restore` show what happens without them. Directory entries are
assumed durable only once synchronized or written back, in any order; a file's content is synchronized
before it is renamed, as the code does.

**Fairness.** *Recovery*: a session that has begun goes on (it waits for nothing but
bounded calls); every root's owner starts the program again, and is not turned away every time:
strong fairness of `BeginSession(.., "command")`. *Lock*: a thread that tries keeps
running, and time passes; nothing is assumed of those who hold the lock. *Process tree*: the
cleanup goes on since each wait is bounded by a deadline; a process that was sent SIGKILL dies;
an exited leader is seen if it is looked for again and again; a caller whose cleanup failed
calls again. *Command*: the call goes on and its deadline comes; nothing is assumed of the
processes, nor of the reader threads. *Bounded run*: the call goes on; that it does not sleep on after its readers
are complete needs neither the deadline nor a spurious wake, so a lost signal would show. *Executor*: main thread and
handler go on, and commands answer, which is what `CallsComeBack` shows. The analyses have safety properties only.

**Assumed of constants.** Numbers are natural, sets of threads and descendants finite; an attempt to remove the
proxy is made at least once (`PartsAssumption`). `CheckoutsAssumption` tells a path from a directory and both from
nothing. `RoutingAssumption` says which projects there are: files of a Cargo crate are Rust and no compile command
compiles one as C, a unit includes files of the project, a function ends after it begins, and a function with the
parameters that Clang spells for another of the same scope and name is that one or is spelled alike. The first of
these matters: nothing in the code refuses a compile command that reads `-x c main.rs`, and both native
backends would then measure one file. `FamiliesAssumption` says that shingles are numbers in
ascending order, and that the threshold is positive and at most the whole, as the configuration demands. `ClonesAssumption`
says that files are sequences of tokens, and that a window and
a line have some. `CrapAssumption` says what the adapters and the report formats give: functions that end after they
begin, nested in recorded ones, apart from their siblings, and regions with some code, counted from 1. `IdentitiesAssumption`
says only that names are ordered as numbers are, and that candidates and functions consist of names and numbers. TLC evaluates
all of them on the runs whose modules extend theirs.

`DiscoveryAssumption` says which file systems discovery meets (`WellFormed`): directories have finitely many entries,
nothing below the analyzed directory is foreign to it, links lead along names to nodes there are, no change makes it
otherwise, and the order of paths tells different ones apart. `MCAnalyses` extends `SourceDiscovery`, so TLC evaluates it
on the same runs.

**Deadlock** is checked for recovery, where a session can always begin. The other systems may stop: a dropped tree,
a finished call or run, full streams, a report that is done.

## 4 What is proved

For all values of the constants, that is for any number of files, roots, processes, threads,
descendants, faults, bytes, limits, attempts, candidates, signals, checkouts, projects, packages, tokens and functions:

| Module | Theorems |
|---|---|
| `MutationRecovery_proofs` | `TypeCorrect`, `Invariance`, `AlwaysRecoverable`, `ReadersAreSafe`, `KeepsCustody` (implements `SourceCustody`), `NeverLeavesItsTree`, `NeverRefusesUndisturbed` |
| `RunLock_proofs` | `LockInvariant`, `LockExcludes`, `TableIsExact`, `KeepsLockPromise` (implements `SharedExclusiveLock`) |
| `ProcessTree_proofs` | `TreeInvariant`, `StatusMeansGone`, `SignalsAreOurs`, `TreeKeepsPromise` (implements `ContainedTree`); `JobInvariant`, `JobIsTheEnd`; `BothContained` for the two side by side |
| `CommandRun_proofs` | `Invariance`, `WholeOutput`, `KeepsCommandPromise` (implements `BoundedCommand`); `ProxyInvariant`, `ProxyWholeOrGone`, `RunsRustcOnce` (implements `BoundedCommand`); `RunInvariant`, `RunJudgesRightly`, `RunKeepsPromise` (implements `BoundedCommand`); `OutcomeIsAnEnd`; `AllCommandsKeepTheirWord` for all of them side by side |
| `OutputTail_proofs` | `TailInvariant`, `TextIsAnEnd` |
| `MutationExecutor_proofs` | `Invariance`, `LeavesNothing`, `TreesNeverOverlap`, `KeepsJudging` (implements `MutationJudging`), `HonoursOptions` |
| `Analyses_proofs` | `CheckoutsStayKnown`, `OneBackendMeasures`, `RatchetAlwaysHolds`, `CyclesAreFound`, `GroupsStayFamilies`, `CoverageStaysOwn`, `EqualCodeIsFound`, `IdentitiesStayStable` |
| `SourceDiscovery_proofs` | `DiscoveryStaysContained` |

Each follows from an inductive invariant.

*Recovery* (`AlwaysRecoverable`, `ReadersAreSafe` and `KeepsCustody` under the two assumptions above).
`Recoverable` alone is not
inductive: that a mutant on disk is covered depends on the order in which records reached
the disk. `RecordsInStep` says which records exist at each step, and on disk from
which step; `OriginalsDurable` that a source which reads as the original is the original
on disk too, so its records may go; `RecordsSound` that no record passes the user's
content off as a mutant. The last is why recovery's reading of the source decides correctly.
The other two theorems need neither assumption. `NeverLeavesItsTree` follows from `Where`: at each step the pointer
or record in hand is about a file of the session's root. `NeverRefusesUndisturbed` follows from `Undisturbed`: as long
as no edit was made and no power failed, a file holds the original or the mutant of the records about it, so the comparison that asks for
manual repair cannot fail.

*Lock.* `TableMatchesGuards` states the counter of readers as the cardinality of the threads
that own a guard; every step adds or removes one thread of one such set, and the lemmas
about finite sets turn that into plus or minus one. Exclusion follows from the table within a process
and from the file lock between processes.

*Process tree.* A group number can be recycled only when leader and members are gone.
The leader is reaped only after the signals of its cleanup, so until a cleanup has failed
the number is ours at every signal; `CleanupInOrder` ties the stage to what is known.

*Command.* `CallInOrder` says in which places the tree is gone; `ReadersAgree` that a complete
reader has everything and that nobody can write any more, because an escape needs a
living tree; `OutputAgrees` that what was taken without a mark came from a complete reader.

*Bounded run.* `TailIsKept` fixes what a reader retains by what it has seen: the last `limit` bytes, marked when
there were more. A waiting call is never asleep beside a reader that is complete, because the
reader wakes it in the step that completes it; so a stream is called open only on a state that was
read at the deadline.

*Output.* The text fits and is an end of both streams together, marked unless it is all. An end of an end is an end, and
a longest fitting end exists because a nonempty set of numbers has a least one; the lengths of rendered bytes are a
fold, of which only the case of the empty text is evaluated. So no induction along a sequence is needed, neither for
the division of a stream into chunks nor for the two cuts.

*Cargo proxy.* `BuiltInOrder` says what exists at each place, `AttemptsCounted` that every attempt so far was refused.

*Job.* Processes run only once the spawn has ended in an owned tree, in a job that kills them when its handle closes
(`RunsInTheJob`, `CallsInOrder`); an abort that met no failing call has killed and reaped the child (`AbortWorks`).

*Executor.* `ControlAgrees` ties the scope, the command and the baseline to the place of the main
thread; `TreesAgree` that what is alive belongs to the command in progress or has made
`treeError` the verdict or the outcome, after which no command starts; `SourceAgrees` that a
mutant is the current candidate's and is in its source only between `Apply` and `Restore` or
after a failure; `VerdictAgrees` that a fatal verdict becomes the outcome and is never recorded. Each of the last three
needs the first: a signal may come at any step, and what it changes is only looked at in some places.
`HonoursOptions` counts: the number of verdicts other than `not run` is the cardinality of the available candidates
below the current one, which `SelectionAgrees` and `ExecutedWithinLimit` carry from candidate to candidate, and
`BaselineAgrees` says that a passing baseline stands before the first of them unless it was not asked for.

*Checkouts.* `OnePlace`: a directory is at one path. `MarkedIsPlaced`: one that holds a mutant is at some path. `Known`: its
mutant, identity and journal are those of the pointer, so that there is at most one such directory, and recovery from
wherever it is finds the original (`RestoredAtPlace`).

*Routing.* What each phase may still add is bounded by what the earlier ones left: `SourcesKnown`, `UnitsKnown`,
`RecordsKnown` and `FunctionsKnown` tie functions to sources and units, `LeftNoted` notes what a native backend leaves,
`SyntaxApart` keeps the syntax backend's functions off authoritative files, and `ClangApart` says whose facts a
function of Clang has. That no file is measured by Rust and Clang rests on `RoutingAssumption`.

*Ratchet.* `Reported`: the report is what the rules make of the facts as they are. `OfSelected`: rows of the baseline about
single functions were about functions that its scope selected. From these, a row that is gone from a report with the
same evidence is gone from the facts. No assumption on a constant is used.

*Cycles.* `GraphInv` is the argument for Tarjan's algorithm. `Ordered`: the stack holds the visited packages whose
component is open, in the order of their visits, and the calls are some of them. `CallsLead`: an open call leads to all
that was visited since, and everything on the stack leads back to an open call that is no younger. `LowlinkIsReached`
and `LowlinkIsLeast`: a lowlink is the index of something open that the package leads to, and no edge that was followed
from below a call leads under the call's lowlink. So when a call ends with its own index as lowlink, the top of the
stack leads only to itself and to complete packages (`FinishedClass`), and it is a class of `ClassesFound`.
`LowlinkIsLeast` speaks of the edges that a call has *followed*, and needs the edges still in the frame.

*Clone groups.* Shingles that two functions share are counted with repetition, so `Both` names each by its number: the
first, second, ... occurrence of a shingle in both. A round of the merge takes one off that set or leaves it alone
(`BothHave`, `OneHas`, from the order of the shingles), so what was counted and what is to come add up to what is shared, or
the threshold is out of reach for good (`Counts`, `RoundCounts`); thus what is accepted, and with which similarity, is what the
definition says (`SimilarityIsDice`), and it is the same both ways round. The roots lead downwards, hence end, and joining two of
them moves one class into the other (`UnionOf`). `FamiliesInv` then says what was accepted (`Accepts`), that accepted pairs are
in one class (`Joined`), and that a set which parts no accepted pair parts no class (`Apart`). The last keeps a class inside a
family whatever was missed in full buckets; the first two make them equal when no bucket is full (`NothingIsMissed`,
`ClassesAreFamilies`), where two similar functions meet since they have a shingle in common (`SimilarShare`).

*Coverage.* Functions are nested or apart (`Siblings`, `OneInTheOther`), so two that share a column have one in the other.
`Sweeping` says what the sets of the sweep are at the last line visited: the segments to start, the segments to end, the
functions at that line, and that whoever met another at a visited line is ambiguous, and nobody else. The line a
function is scored by lies in a segment of it, so any other function with code on that line either has a segment there too, and
the sweep has seen them meet, or it is nested and shares a boundary (`LineAlone`). For regions, `RegionAlone` does the same
by columns.

*Exact clones.* A pair whose diagonal was extended over it is skipped, so completeness rests on one fact: all pairs of one
diagonal in between have the same extension (`SameExtension`), as the stretch in which two files agree cannot end at two
places. `Found` follows the pairs from the buckets to `pairs` to `regions`, and has for every entry of `extended` a pair that
was extended over it. Regions are finite, so each lies in a candidate (`InACandidate`). `Considered` then says of each candidate
that its group waits or that lines of it are kept: a group that is dropped has a location of that candidate which is already
touched, since two locations that were both independent would have kept it. Nothing is assumed of the fingerprints, which
may collide, nor of the order of the buckets.

*Identities.* The keys are in a strict total order (`BeforeOrder`) and so are the entries of a sort, since places differ
(`SoonerOrder`). So ranks are a bijection onto the places of the result (`RanksAre`): a sort neither loses nor doubles a mutation
(`InOrderIs`), and two sets of entries that an order-preserving map takes into each other give the same sequence (`SameOrder`).
Exchanging neighbours is such a map unless their keys are equal, and two edits with equal locations are equal
(`LocationApart`), so the order of discovery cannot be told from the result (`SwapKeeps`, `AnalyzedAlike`; such
exchanges lead to every order). `NamedSoFar` is the invariant of
the naming: the names so far are apart and are those in use, a name that an adapter provided is only with a mutation it was
provided for, and each such name has been given to one. It is carried from one mutation to the next (`NextIsNamed`), the
search for a free name ending after as many attempts as names are taken (`FreeIsThere`: attempts differ, and taken ones are
finite). `AllAreNamed` follows for the whole sequence, from the least place at which it would fail. The function of a place that a
mutation gets is the least of finitely many (`LeastTriple`).

*Discovery.* `DiscoveryInv` has one part that holds whatever changes and one that holds if nothing does. The first: what is
open or was read lies below the root, since a component is opened without following a link and nothing there is foreign
(`Kept`); the budget is what the sources add up to; and the paths still to come, and those found, are apart (`Shaped`), so
that none is added twice. The second, `Settled`, says that a directory's rules are those of the files above it
(`Inherits`), or what they are after the files read so far (`Told`), and that each file to be found is a source, or lies
below a path still to come (`OnSources`). `LeftOutIs` ties the two accounts of an ignored path: the chain of matchers
that the walk carries down, and the rules of all directories above, looked at from the file. What the walk resolves is
where it is, because an entry that is no link resolves to itself in a directory that does (`DirResolves`). At the end nothing is
to come, and a sort by rank is a bijection (`SortedIs`), so the total stays. Recursion along a path or a sum is a recursive
function of its prefixes, and the least prefix where two of them differ replaces induction (`SameWalk`, `TotalMoved`).

**Only model-checked:** all liveness (`SourcesComeBack`, `AttemptsEnd`, `TreeEnds`, `CallsComeBack`,
`CancellationIsHeard`, `CancellationEndsRun`, `RunEnds`), since fairness and ENABLED are
beyond the prover; and `ImportIsFaithful`, `WorkspaceIsRead` and `CodeIsMeasuredOnce`, which compare an algorithm with
its definition over sequences and trees through folds and recursion, and would need induction over data.

## 5 Where code and documentation disagree

Each has a run in which TLC exhibits the behaviour; `PROJECT.json` quotes the lines.

1. `torn_restore`: records are cleared when a source *reads* as the original, although the
   rename that restored it may not be on disk. A death in between, a recovery, and a power failure leave a
   mutant without a record.
2. `lost_edit`: restoration and recovery refuse to overwrite a file that was changed independently, but compare
   its hash before they write and synchronize the replacement. An edit in between is overwritten, and no conflict is
   reported. The same window when a mutant is applied (`filesystem.rs:2782`) contradicts nothing: no check is promised there.
3. `executor_first_signal`: a first signal whose handler has read the flag of the scope just before the scope begins
   ends the program with a command running.
4. `resolved_unseen`: clones of functions that are no longer reliable count as resolved.
5. `clone_lost`: a family of short clones is dropped when the files of its members hold a longer family, since the
   locations of function groups count tokens from each function's start.

Met while modelling, without a run of their own:

- *Lock.* A waiting execution turns away a reader of its own process while only readers hold the lock.
- *Process tree.* After a cleanup that reaped the leader and failed to verify, the next one signals a group number
  that may belong to others; `SignalsStayHome` is stated up to a failed cleanup for that reason.
- *Moved checkouts.* A stale journal under the path of a replaced checkout makes a recovery there answer "refused" although
  the checkout that the pointer knows was restored, and blocks sessions there until it is removed by hand. Without a recorded
  identity, a copy with the same content can be recovered in place of the moved checkout.
- *Discovery.* A directory that is swapped for a link while it is walked makes one file observed twice, though
  `source_budget.rs:62` asks callers to deduplicate; hard links are charged twice; the prefix that is read for a
  shebang is read by path.
- *Coverage.* A source that no report names takes the records of the only report path with its base name, in whatever
  directory that is. With `<source>/</source>` the alias of `src/x.py` is the text `//src/x.py`, which is normalized again
  as a lower-case share (`coverage.rs:1218`), so nothing is stored under `/src/x.py`; `ImportIsFaithful` expects just that
  (`Within`). Where an adapter knows lines only, one region counts for every function on its lines. The merge of several
  reports is used by tests only.
- *Dependencies.* A package that is a dependency twice, renamed and not, gets the alias for both when that edge comes first
  (against `model.rs:505`).
- *Modules.* A `#[path]` that leads in a circle is followed into ever longer module paths; rustc refuses such a crate.
- *Rust.* A field of a struct literal that a `cfg` removes counts in measures and references, and not in tokens; methods
  of an `impl` inside a function are measured nowhere, their lines are not excluded from the outer function's coverage; two
  implementations of one local trait for one type with different arguments share a symbol; a qualified test attribute
  (`#[tokio::test]`) outside `cfg(test)` makes a function a test and its code production.
- *Syntax.* A method whose name begins with its owner's stays unqualified.
- *Routing.* In auto mode the syntax backend's functions of headers, and of an included C file that failed, stay beside
  Clang's, where `ARCHITECTURE.md` says they are removed; native mode drops headers from the sources and keeps their functions;
  a database that cannot be looked for ends an auto run where the document says it falls back, as does one file that is
  too large, where an exceeded total falls back; a source compiled as another language than its extension is listed
  twice, with its mutations; explicit specializations of one name and type share a symbol; overloads on one line may share facts
  when Clang's type is read for one of them only.

## 6 What is not modelled

- *Recovery*: the bytes of the records, permissions and path validation; list mode, which changes nothing.
- *Windows*: the polling of a job's process count in `terminate`; `ContainedTree` is its interface. The other
  models follow the Unix build.
- *Clang*: how a compile command is made safe, the database as text, the reading of functions from the AST.
- *Syntax*: the grammars and per-language tables (an instance has small ones), selectors of Objective-C, a
  multi-byte character cut in two by `OutputTail`.
- *Rust*: the spelling of types and signatures; one operator stands for each kind of mutation.
- *Configuration*: the file's format, defaults and globs; a pattern is a name here.
- *Quality*: how inventories of unused items and the relatedness of functions are derived, and rows that only inform.
- *Providers*: the commands of external mutation tools and of project providers (`adapter-project`): one request and one
  answer, validated field by field.
- *Reporting* is rendering; `corpus-harness`, scripts and workflows are development tools.

## 7 Plan

Modelled, in this order: recovery, lock, process tree, command, output, executor with its signals; then the
bounded run, the job, the proxy, moved checkouts, the analyses, the adapters and the routing between them.

What would come next:

1. Inventories of unused items in `analysis-quality`, as a module that feeds `QualityRules`.
2. Reading functions from Clang's AST, and the command sanitizer as a function on sequences of arguments.
3. The termination of a Job Object, to show that it implements `ContainedTree`.
4. Proofs: parts of the analyses that are not about recursive data, such as the limits of `ProviderImport` and
   `CoverageReports`.
