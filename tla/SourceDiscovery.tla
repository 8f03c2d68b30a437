-------------------------- MODULE SourceDiscovery --------------------------
(***************************************************************************)
(* Source discovery (reporigor-core, discovery.rs), with the bounded reads *)
(* of the ignore files (bounded_file.rs) and the aggregate source budget   *)
(* (source_budget.rs), on a file system that changes under it.  Every      *)
(* system call is a step, and between two of them an entry may come to     *)
(* name something else, or a file may grow.                                *)
(*                                                                         *)
(* Directories, files and links are numbered nodes; a directory's entries  *)
(* name nodes.  What a link points to is [base, path], from Base or        *)
(* elsewhere, and has no link on its way.                                  *)
(***************************************************************************)
EXTENDS Integers, Sequences, FiniteSets, SequencesExt, FiniteSetsExt

CONSTANTS
    Disks,             \* the file systems there may be: [nodes, entries, sizes]
    Base,              \* the directory to analyze
    Changes, Growths,  \* what may change: <<directory, name, node>>, and <<file, size>>
    MaxChanges,        \* how many of them happen in a behaviour
    Options,           \* the choices of DiscoveryOptions
    ExtensionOf(_),    \* the language of a name, "none", or "header"
    IsTest(_), IsGenerated(_),             \* of a name: the conventions
    Order(_),          \* the place of a relative path in their order
    Headers,           \* the languages that a header may be of
    Limits             \* the constants of the three files, by name

VARIABLES
    disk, changes, options,
    pending,           \* the DirectoryTasks, the next one last
    task,              \* the one in hand: [path, depth, matchers, step], or NoTask
    wanted,            \* the ignore files of it that are not yet read
    reading,           \* the bounded read in hand, or NoReading
    listing, found,    \* the entries still to process, and the directories among those that were
    entry,             \* the file that is being checked, the first of listing, or NoEntry
    located,           \* Vec<SourceFile>, in the order of discovery
    budget,            \* the counters of SourceBudget, IgnoreBudget and TraversalBudget
    state              \* "walk", "done" or "refused"

vars == <<disk, changes, options, pending, task, wanted, reading, listing, found, entry, located, budget, state>>
walk == <<pending, task, wanted, reading, listing, found, entry, located, budget, state>>

Excluded == {".git", ".hg", ".idea", "node_modules", "target", "vendor", "build", "dist"}    \* of EXCLUDED_DIRS
Reads(inodes) == \* the nodes whose contents are used, kept with the budget
    [budget EXCEPT !.read = @ \cup inodes]

----------------------------------------------------------------------------
(* The file system *)

\* Where a path leads: a node, and what is gone by then; 0 numbers no node.
From(base) == [inode |-> base, base |-> base, path |-> <<>>]
Nowhere == From(0)
Kind(inode) == disk.nodes[inode].kind
IsA(kind, at) == at # Nowhere /\ Kind(at.inode) = kind
Inside(at) == at.base = Base

Below(at, name) ==
    IF IsA("directory", at) /\ name \in DOMAIN disk.entries[at.inode]
        THEN [inode |-> disk.entries[at.inode][name], base |-> at.base, path |-> Append(at.path, name)] ELSE Nowhere

Plain(base, path) ==
    LET at[n \in 0..Len(path)] == IF n = 0 THEN From(base) ELSE Below(at[n - 1], path[n]) IN at[Len(path)]

\* A path with every link followed.
Followed(at, name) ==
    LET next == Below(at, name)
    IN  IF IsA("link", next) THEN Plain(disk.nodes[next.inode].to.base, disk.nodes[next.inode].to.path) ELSE next
Resolve(path) ==
    LET at[n \in 0..Len(path)] == IF n = 0 THEN From(Base) ELSE Followed(at[n - 1], path[n]) IN at[Len(path)]

\* The same, with the last component as it is.
Prefix(path, n) == SubSeq(path, 1, n)
Entry(path) == IF path = <<>> THEN Resolve(path) ELSE Below(Resolve(Front(path)), Last(path))

\* symlink_metadata fails (with another error than NotFound) below a file.
Blocked(path) == \E n \in 1..(Len(path) - 1) : IsA("file", Resolve(Prefix(path, n)))

\* Somebody else's work on the files.
Change ==
    /\ state = "walk" /\ changes < MaxChanges
    /\ changes' = changes + 1
    /\ \/ \E c \in Changes :
             /\ c[1] \in DOMAIN disk.entries
             /\ disk' = [disk EXCEPT !.entries[c[1]] = [n \in DOMAIN @ \cup {c[2]} |-> IF n = c[2] THEN c[3] ELSE @[n]]]
       \/ \E g \in Growths : disk' = [disk EXCEPT !.sizes[g[1]] = g[2]]
    /\ UNCHANGED <<options, walk>>

----------------------------------------------------------------------------
(* Bounded reads: read_optional_bounded_utf8_file_within *)

Refuse == state' = "refused" /\ UNCHANGED <<pending, task, wanted, reading, listing, found, entry, located, budget>>

NoReading == [path |-> <<>>, step |-> "none", canonical |-> <<>>, expected |-> 0, descriptor |-> Base, opened |-> 0]
Start(path) == [NoReading EXCEPT !.path = path, !.step = "exists"]

\* What the directory's matchers become, and which file is read next.
WithPatterns(matchers, name, patterns) ==
    IF name = "exclude" THEN [matchers EXCEPT !.exclude = IF patterns = <<>> THEN <<>> ELSE <<patterns>>]
    ELSE IF patterns = <<>> THEN matchers
    ELSE IF name = ".gitignore" THEN [matchers EXCEPT !.git = Append(@, patterns)]
    ELSE [matchers EXCEPT !.dot = Append(@, patterns)]

Finished(patterns, spent) ==
    /\ task' = [task EXCEPT !.matchers = WithPatterns(@, Last(reading.path), patterns)]
    /\ budget' = spent
    /\ wanted' = Tail(wanted)
    /\ reading' = NoReading
    /\ UNCHANGED <<pending, listing, found, entry, located, state>>

StartRead ==
    /\ task.step = "ignores" /\ reading = NoReading /\ wanted # <<>>
    /\ reading' = Start(task.path \o wanted[1])
    /\ UNCHANGED <<pending, task, wanted, listing, found, entry, located, budget, state>>

Reading(step) == reading.step = step
Advance(checked, next) ==
    IF checked THEN reading' = next /\ UNCHANGED <<pending, task, wanted, listing, found, entry, located, budget, state>>
    ELSE Refuse

\* path_exists; resolve_contained_path; validate_regular_path
Exists ==
    /\ Reading("exists")
    /\ IF Blocked(reading.path) THEN Refuse
       ELSE IF Entry(reading.path) = Nowhere THEN Finished(<<>>, budget)
       ELSE Advance(TRUE, [reading EXCEPT !.step = "resolve"])
Contained ==
    /\ Reading("resolve")
    /\ \E at \in {Resolve(reading.path)} :
           Advance(Inside(at), [reading EXCEPT !.step = "regular", !.canonical = at.path])
Regular ==
    /\ Reading("regular")
    /\ Advance(IsA("file", Resolve(reading.canonical)), [reading EXCEPT !.step = "inspect"])

\* is_ignore_pattern
Patterns(lines) == SelectSeq(lines, LAMBDA x : x.name # "")

Fits(inode) == disk.sizes[inode] <= Limits.ignoreBytes

\* inspect_file_identity, of the path
Inspect ==
    /\ Reading("inspect")
    /\ \E at \in {Resolve(reading.canonical)} :
           Advance(IsA("file", at) /\ Fits(at.inode),
                   [reading EXCEPT !.step = "open", !.expected = at.inode])

\* Wrong: a link is followed.
OpensFollowed(at, name) == Followed(at, name)

\* openat with O_NOFOLLOW
Opens(at, name) ==
    LET next == Below(at, name) IN IF IsA("link", next) THEN Nowhere ELSE next

\* open_component_chain, one component at a time
OpenComponent ==
    /\ Reading("open")
    /\ LET n == reading.opened + 1
           next == Opens(From(reading.descriptor), reading.canonical[n])
           last == n = Len(reading.canonical)
       IN  Advance(next # Nowhere /\ (last \/ IsA("directory", next)),
                   [reading EXCEPT !.opened = n, !.descriptor = next.inode, !.step = IF last THEN "opened" ELSE @])

\* inspect_file_identity of the open file, and ensure_unchanged_identity
Opened ==
    /\ Reading("opened")
    /\ LET i == reading.descriptor
       IN  Advance(Kind(i) = "file" /\ i = reading.expected /\ Fits(i), [reading EXCEPT !.step = "read"])

\* read_bounded_contents, then add_ignore_file
Contents ==
    /\ Reading("read")
    /\ LET i == reading.descriptor
           lines == disk.nodes[i].lines
           patterns == Patterns(lines)
           spent == [Reads({i}) EXCEPT !.ignoreFiles = @ + 1, !.ignoreBytes = @ + disk.sizes[i], !.patterns = @ + Len(patterns)]
       IN  IF /\ Fits(i) /\ Len(lines) <= Limits.ignoreLines /\ Len(patterns) <= Limits.filePatterns
              /\ spent.ignoreFiles <= Limits.ignoreFiles /\ spent.ignoreBytes <= Limits.allIgnoreBytes
              /\ spent.patterns <= Limits.patterns
               THEN Finished(patterns, spent) ELSE Refuse

BoundedRead == StartRead \/ Exists \/ Contained \/ Regular \/ Inspect \/ OpenComponent \/ Opened \/ Contents

----------------------------------------------------------------------------
(* Ignore rules *)

\* The last pattern of a file that matches decides (the ignore crate).
Decides(patterns, name) ==
    LET matching == {i \in DOMAIN patterns : patterns[i].name = name}
    IN  IF matching = {} THEN "no" ELSE IF patterns[Max(matching)].whitelist THEN "keep" ELSE "ignore"

\* match_ignore_chain: the innermost file that decides.
Chain(files, name) ==
    LET deciding == {i \in DOMAIN files : Decides(files[i], name) # "no"}
    IN  IF deciding = {} THEN "no" ELSE Decides(files[Max(deciding)], name)

\* is_ignored
Ignored(matchers, name) ==
    LET of(x) == Chain(matchers[x], name)
    IN  IF of("dot") # "no" THEN of("dot") = "ignore"
        ELSE IF of("git") # "no" THEN of("git") = "ignore"
        ELSE of("exclude") = "ignore"

Skipped(path, matchers) == Range(path) \cap Excluded # {} \/ Ignored(matchers, Last(path))

----------------------------------------------------------------------------
(* The walk *)

NoMatchers == [dot |-> <<>>, git |-> <<>>, exclude |-> <<>>]
Popped(path, depth, matchers) == [path |-> path, depth |-> depth, matchers |-> matchers, step |-> "popped"]
NoTask == [Popped(<<>>, 0, NoMatchers) EXCEPT !.step = "none"]
NoEntry == [path |-> <<>>, step |-> "none", canonical |-> <<>>, size |-> 0]

\* DiscoveryState::run pops a task; validate_directory_within looks at it...
Pop ==
    /\ task = NoTask /\ pending # <<>>
    /\ IF IsA("directory", Entry(Last(pending).path))
           THEN /\ task' = [Last(pending) EXCEPT !.step = "alias"]
                /\ pending' = Front(pending)
                /\ UNCHANGED <<wanted, reading, listing, found, entry, located, budget, state>>
           ELSE Refuse

At(step) == task.step = step

\* ... and resolves it, which must lead to where it is.
Alias ==
    /\ At("alias")
    /\ LET at == Resolve(task.path)
       IN  IF Inside(at) /\ at.path = task.path
               THEN task' = [task EXCEPT !.step = "boundary"] /\ UNCHANGED <<pending, wanted, reading, listing, found, entry, located, budget, state>>
               ELSE Refuse

exclude == <<".git", "info", "exclude">>
gitignore == <<".gitignore">>
ignore == <<".ignore">>

\* load_directory_ignores: a nested repository starts anew.
Boundary ==
    /\ At("boundary")
    /\ LET dotGit == Append(task.path, ".git")
           git == IsA("directory", Entry(dotGit))
       IN  IF Blocked(dotGit) THEN Refuse ELSE
           /\ task' = [task EXCEPT !.step = "ignores",
                                   !.matchers = IF git /\ task.path # <<>> THEN [@ EXCEPT !.git = <<>>, !.exclude = <<>>] ELSE @]
           /\ wanted' = IF git THEN <<exclude, gitignore, ignore>> ELSE <<gitignore, ignore>>
           /\ UNCHANGED <<pending, reading, listing, found, entry, located, budget, state>>

InOrder(paths) ==
    [n \in 1..Cardinality(paths) |-> CHOOSE p \in paths : Cardinality({q \in paths : Order(q) < Order(p)}) = n - 1]

\* read_directory: the entries with their types, in order; what is done to them
\* later does not show here.
ReadDirectory ==
    /\ At("ignores") /\ reading = NoReading /\ wanted = <<>>
    /\ LET at == Resolve(task.path)
           names == IF IsA("directory", at) THEN DOMAIN disk.entries[at.inode] ELSE {}
           inOrder == InOrder({Append(task.path, x) : x \in names})
       IN  IF /\ IsA("directory", at)
              /\ Cardinality(names) <= Limits.directoryEntries /\ budget.entries + Cardinality(names) <= Limits.entries
               THEN /\ listing' = [i \in DOMAIN inOrder |->
                           [path |-> inOrder[i], kind |-> Kind(disk.entries[at.inode][Last(inOrder[i])])]]
                    /\ budget' = [budget EXCEPT !.entries = @ + Cardinality(names)]
                    /\ task' = [task EXCEPT !.step = "entries"]
                    /\ UNCHANGED <<pending, wanted, reading, found, entry, located, state>>
               ELSE Refuse

\* process_entry: links and other kinds are passed over.
PassOver ==
    /\ At("entries") /\ entry = NoEntry /\ listing # <<>>
    /\ Skipped(listing[1].path, task.matchers) \/ listing[1].kind \notin {"directory", "file"}
    /\ listing' = Tail(listing)
    /\ UNCHANGED <<pending, task, wanted, reading, found, entry, located, budget, state>>

Register ==
    /\ At("entries") /\ entry = NoEntry /\ listing # <<>>
    /\ ~Skipped(listing[1].path, task.matchers) /\ listing[1].kind = "directory"
    /\ IF task.depth + 1 <= Limits.depth /\ budget.directories < Limits.directories
           THEN /\ found' = Append(found, [path |-> listing[1].path, depth |-> task.depth + 1])
                /\ budget' = [budget EXCEPT !.directories = @ + 1]
                /\ listing' = Tail(listing)
                /\ UNCHANGED <<pending, task, wanted, reading, entry, located, state>>
           ELSE Refuse

Check(next) == entry' = next /\ UNCHANGED <<pending, task, wanted, reading, listing, found, located, budget, state>>

\* process_source_file, validate_regular_file_within: three looks at the file.
LookAt ==
    /\ At("entries") /\ entry = NoEntry /\ listing # <<>>
    /\ ~Skipped(listing[1].path, task.matchers) /\ listing[1].kind = "file"
    /\ IF IsA("file", Entry(listing[1].path))
           THEN Check([NoEntry EXCEPT !.path = listing[1].path, !.step = "canonical"]) ELSE Refuse

CanonicalFile ==
    /\ entry.step = "canonical"
    /\ \E at \in {Resolve(entry.path)} :
           IF Inside(at) THEN Check([entry EXCEPT !.step = "opened", !.canonical = at.path]) ELSE Refuse

Measure ==
    /\ entry.step = "opened"
    /\ \E at \in {Resolve(entry.canonical)} :
           IF IsA("file", at) THEN Check([entry EXCEPT !.step = "select", !.size = disk.sizes[at.inode]]) ELSE Refuse

\* source_language: by extension, or by what the path leads to by now.
Language(path, at) ==
    LET requested == options.languages \cap Headers
        extension == ExtensionOf(Last(path))
    IN  IF extension = "header" THEN IF Cardinality(requested) = 1 THEN CHOOSE l \in requested : TRUE ELSE "c"
        ELSE IF extension # "none" THEN extension
        ELSE IF IsA("file", at) /\ disk.nodes[at.inode].shell THEN "bash" ELSE "none"

\* source_is_selected
Selects(language, path) ==
    /\ language # "none"
    /\ options.languages = {} \/ language \in options.languages
    /\ options.filters = {} \/ options.filters \cap Range(path) # {}
    /\ options.tests \/ ~\E i \in DOMAIN path : IsTest(path[i])

\* SourceBudget::observe
Observes(size) ==
    /\ size <= options.maxBytes
    /\ budget.files + 1 <= Limits.files /\ budget.bytes + size <= Limits.bytes

SourceOf(language) ==
    [path |-> entry.canonical, relative |-> entry.path, language |-> language, size |-> entry.size,
     generated |-> \E i \in DOMAIN entry.path : IsGenerated(entry.path[i]),
     test |-> \E i \in DOMAIN entry.path : IsTest(entry.path[i])]

Select ==
    /\ entry.step = "select"
    /\ \E language \in {Language(entry.canonical, Resolve(entry.canonical))} :
           IF Selects(language, entry.path) /\ ~Observes(entry.size) THEN Refuse ELSE
           /\ IF Selects(language, entry.path)
                  THEN /\ located' = Append(located, SourceOf(language))
                       /\ budget' = [budget EXCEPT !.files = @ + 1, !.bytes = @ + entry.size]
                  ELSE UNCHANGED <<located, budget>>
           /\ entry' = NoEntry
           /\ listing' = Tail(listing)
           /\ UNCHANGED <<pending, task, wanted, reading, found, state>>

\* enqueue_directories, in reverse, so that they are popped in order.
Leave ==
    /\ At("entries") /\ entry = NoEntry /\ listing = <<>>
    /\ pending' = pending \o [i \in DOMAIN found |->
           LET d == found[Len(found) + 1 - i] IN Popped(d.path, d.depth, task.matchers)]
    /\ found' = <<>>
    /\ task' = NoTask
    /\ UNCHANGED <<wanted, reading, listing, entry, located, budget, state>>

\* sort_by, which is stable.
Earlier(i, j) ==
    \/ Order(located[i].relative) < Order(located[j].relative)
    \/ located[i].relative = located[j].relative /\ i < j
Sorted ==
    [n \in DOMAIN located |->
        located[CHOOSE i \in DOMAIN located : Cardinality({j \in DOMAIN located : Earlier(j, i)}) = n - 1]]

Done ==
    /\ task = NoTask /\ pending = <<>>
    /\ state' = "done"
    /\ located' = Sorted
    /\ UNCHANGED <<pending, task, wanted, reading, listing, found, entry, budget>>

Init ==
    /\ disk \in Disks /\ changes = 0 /\ options \in Options
    /\ pending = <<Popped(<<>>, 0, NoMatchers)>>
    /\ task = NoTask /\ wanted = <<>> /\ reading = NoReading
    /\ listing = <<>> /\ found = <<>> /\ entry = NoEntry /\ located = <<>>
    /\ budget = [files |-> 0, bytes |-> 0, ignoreFiles |-> 0, ignoreBytes |-> 0, patterns |-> 0,
                 entries |-> 0, directories |-> 1, read |-> {}]
    /\ state = "walk"

Walk ==
    /\ state = "walk"
    /\ \/ Pop \/ Alias \/ Boundary \/ BoundedRead \/ ReadDirectory
       \/ PassOver \/ Register \/ LookAt \/ CanonicalFile \/ Measure \/ Select \/ Leave \/ Done
    /\ UNCHANGED <<disk, changes, options>>

Next == Walk \/ Change

Spec == Init /\ [][Next]_vars

----------------------------------------------------------------------------
(* What discovery finds *)

\* The rules of a file, or of what a link leads to.
PatternsAt(path) ==
    LET at == Resolve(path)
    IN  IF IsA("file", at) THEN Patterns(disk.nodes[at.inode].lines) ELSE <<>>

\* What a rule file of a directory above decides of a path, the nearest first.
Nearest(path, from, file) ==
    LET Says(n) == Decides(PatternsAt(Prefix(path, n) \o file), Last(path))
        deciding == {n \in from..(Len(path) - 1) : Says(n) # "no"}
    IN  IF deciding = {} THEN "no" ELSE Says(Max(deciding))

\* The repository that an entry is in, and what it excludes.
HasGit(path) == IsA("directory", Plain(Base, Append(path, ".git")))
Repository(path) == Max({0} \cup {n \in 0..(Len(path) - 1) : HasGit(Prefix(path, n))})
Excludes(home, name) == IF HasGit(home) THEN Decides(PatternsAt(home \o exclude), name) ELSE "no"

LeftOut(path) ==
    LET home == Repository(path)
        rules == <<Nearest(path, 0, ignore), Nearest(path, home, gitignore), Excludes(Prefix(path, home), Last(path))>>
        deciding == {i \in DOMAIN rules : rules[i] # "no"}
    IN  Last(path) \in Excluded \/ (deciding # {} /\ rules[Min(deciding)] = "ignore")

Names == UNION {DOMAIN disk.entries[i] : i \in DOMAIN disk.entries}
FilesBelow ==
    {p \in UNION {[1..n -> Names] : n \in 1..Limits.depth + 1} : IsA("file", Plain(Base, p)) /\ ~\E n \in 1..Len(p) : LeftOut(Prefix(p, n))}

\* The sizes of files, added up.
Total(files) == LET sum[n \in 0..Len(files)] == IF n = 0 THEN 0 ELSE sum[n - 1] + files[n].size IN sum[Len(files)]

\* What there is to discover: directories have entries, nothing below the
\* analyzed one is foreign, links lead along names, and no change makes it
\* otherwise; and paths are in some order, which is numbered.
AllNames == (UNION {UNION {DOMAIN d.entries[i] : i \in DOMAIN d.entries} : d \in Disks}) \cup {c[2] : c \in Changes}
Sound(d) ==
    /\ d = [nodes |-> d.nodes, entries |-> d.entries, sizes |-> d.sizes]
    /\ 0 \notin DOMAIN d.nodes /\ Base \in DOMAIN d.entries /\ ~d.nodes[Base].foreign
    /\ DOMAIN d.entries = {i \in DOMAIN d.nodes : d.nodes[i].kind = "directory"}
    /\ d.sizes \in [DOMAIN d.nodes -> Nat]
    /\ \A i \in DOMAIN d.nodes : d.nodes[i].kind = "link" =>
          d.nodes[i].to.base \in DOMAIN d.nodes /\ d.nodes[i].to.path \in Seq(STRING)
    /\ \A i \in DOMAIN d.entries : IsFiniteSet(DOMAIN d.entries[i]) /\ \A x \in DOMAIN d.entries[i] :
          x \in AllNames /\ d.entries[i][x] \in DOMAIN d.nodes /\ (d.nodes[d.entries[i][x]].foreign => d.nodes[i].foreign)
Allows(d) ==
    \A c \in Changes : c[1] \in DOMAIN d.entries =>
        c[3] \in DOMAIN d.nodes /\ (d.nodes[c[3]].foreign => d.nodes[c[1]].foreign)
Paths == UNION {[1..n -> AllNames] : n \in 1..Limits.depth + 1}
WellFormed ==
    /\ \A d \in Disks : Sound(d) /\ Allows(d)
    /\ \A g \in Growths : g[2] \in Nat
    /\ Limits.depth \in Nat /\ Limits.bytes \in Nat
    /\ \A p, q \in Paths : Order(p) \in Nat /\ (Order(p) = Order(q) => p = q)
ASSUME DiscoveryAssumption == WellFormed

\* Whatever changes meanwhile: rules are only taken from files that lie below
\* the root and are no larger than allowed, none of them from a file that was
\* swapped for the one that was checked; every source lies below the root; and
\* the budget is what the sources add up to.  If nothing changes, the sources
\* are the selected files that no rule leaves out, each once: .ignore before
\* .gitignore before the repository's excludes, nearer files before farther
\* ones, and a nested repository on its own.
DiscoveryIsContained ==
    /\ \A i \in budget.read : ~disk.nodes[i].foreign
    /\ reading.step = "read" => reading.descriptor = reading.expected
    /\ budget.files = Len(located)
    /\ budget.bytes = Total(located)
    /\ budget.bytes <= Limits.bytes /\ \A i \in DOMAIN located : located[i].size <= options.maxBytes
    /\ state = "done" /\ changes = 0 =>
           /\ {s.relative : s \in Range(located)} = {p \in FilesBelow : Selects(Language(p, Plain(Base, p)), p)}
           /\ \A i, j \in DOMAIN located : i < j => Order(located[i].relative) < Order(located[j].relative)
           /\ \A i \in DOMAIN located : located[i].path = located[i].relative
=============================================================================
