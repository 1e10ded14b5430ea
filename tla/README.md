# A TLA+ development for d2

d2 compiles a text description of a diagram into SVG, PNG, PDF, GIF and other
formats.  Most of the program is a pure pipeline (parse, compile, lay out,
render); around it and within it stand the parts whose correctness depends on
order, on concurrency or on failures half way: watch mode, the publication of a
multi-board output tree, the concurrent parts of TALA, the caches and pools of
an export, the imports between files, the nesting of layouts, the reuse of layouts between
boards, and the names the editor API gives to objects.  This directory models those parts.

Contents: [inventory](#inventory-of-the-system), [modules](#modules),
[correspondence with the code](#correspondence-with-the-code),
[runs](#runs), [fairness](#fairness), [findings](#findings),
[proofs](#proofs), [what is not modelled](#what-is-not-modelled),
[plan](#plan).

## Inventory of the system

| part | code | state it keeps | operations | hard because |
|---|---|---|---|---|
| watch mode, serving side | `d2cli/watch.go` | newest result, connected clients and their signal channels, wait group, closing flag | broadcast, handleWatch, writeLoop, close | lost wakeups, shutdown racing an upgrade |
| watch mode, file side | `d2cli/watch.go` | watch list, modification times, burst timer, compile token, board path | watchLoop, ensureAddWatch, replaceWatchList, compileLoop, handleRoot | lost or late events, files replaced while they are read |
| board output | `d2cli/board_output.go`, `board_output_publish.go` | staging tree, owned-output manifest, backups | plan, stage, publish, roll back | partial failure, crash, edits by the user in between |
| TALA seed search | `d2layouts/d2talalayout/layout.go` | best candidate so far, per-seed results | run seeds on a worker pool, select, refine | completion order must not change the picture |
| TALA layout budget | `d2layouts/d2talalayout/internal/limits` | work done, context polled so far | Step, Add | overflow, polling that is skipped |
| TALA trial moves | `d2talalayout/internal/layoutgraph` | rollback points of nested transactions | Commit, UpdateState, Rollback | a rollback point recycled too early |
| TALA route flavors | `d2talalayout/internal/routing` | one work counter for concurrent flavors | route, charge, select | result depending on the scheduler |
| image assets | `lib/imageasset` | single-flight table, reservations, LRU cache | Resolve, reserve, commit, Get, Put | shared leader fails, budget accounting |
| raster session | `d2renderers/d2raster/session.go` | memo of keys, cache of decoded images, flights, load slots | getOrLoad, insert, evict | slot accounting, eviction at the limit |
| image bundler | `lib/imgbundler` | worker pool, byte budget | bundle | first error cancels the rest |
| nested layout | `d2layouts/d2layouts.go` | graph cut into subgraphs | extract, lay out, inject | the one-pass extraction must equal the sequential one |
| compiler and IR | `d2parser`, `d2ir`, `d2compiler` | AST, IR maps, import stack, parsed files and templates, board overlays | parse, import, overlay, compile | a kept file used out of its context, import cycles, overlay order |
| board compilation | `d2lib` | layouts reused between boards | compileBoard | reuse of a stale layout |
| output paths | `d2cli/board_output.go` | claims on files and directories | plan, claim | names that meet only after escaping |
| editor operations | `d2oracle` | AST and graph | create, set, delete, move, rename | names made unique in two places that must agree |
| rendering | `d2renderers`, `d2exporter`, `d2target` | none between calls | render | pure |
| language server, JS and WASM API | `d2lsp`, `d2js` | none, or one request | completion, compile | pure |

How they interact.  The command line (`d2cli/main.go`) runs the pipeline once,
or hands it to a watcher.  The watcher's `run` starts three goroutines (the
watch loop, the compile loop, the HTTP server) that share a one-slot channel of
compile requests, the watch list of fsnotify and a context whose cancellation by
any of them stops the others; each browser adds a goroutine.  A compilation of a
diagram with several boards renders into a private staging directory, which the
publisher then merges into the output directory.  A layout by TALA is a call
that fans out to a pool of goroutines and joins them before it returns.  The
image resolver, the raster session and the bundler are pools and caches used by
the renderers during one compilation.

What makes each part correct:

| part | properties |
|---|---|
| watch mode, serving side | no tab keeps an outdated diagram; a tab never goes back to an older one; after `run` returns no handler and no write loop is left; shutdown ends |
| watch mode, file side | every change of a file the diagram is made of leads to a compilation of that change; a page for another board gets that board; a file that is missing for a while does not end the watching |
| board output | all or nothing towards the reader of the tree; only unchanged files d2 owns are removed; what d2 wrote stays known as d2's |
| TALA seed search | the choice depends on the scores alone; one failing attempt costs no other; no goroutine is left behind |
| image assets | one fetch per key whoever asks; a failed fetch gives its budget back and does not fail the others; the cache stays below its limit |
| TALA layout budget | work is counted exactly up to its limit; a large charge polls as many small ones would |
| TALA trial moves | a rejected move leaves no trace; an accepted one leaves no overlap it brought about |
| TALA route flavors | which routes are chosen does not depend on scheduling; the shared counter loses no charge and stays within its limit, and is exact unless the caller cancels |
| raster session | slots and bytes are returned on every path; a failed or cancelled load does not poison those who wait for it |
| image bundler | a failure ends all workers; the error reported is one that happened, not a cancellation it caused; what was resolved is kept |
| nested layout | every object and edge comes back exactly once and in order, also after a failure |
| compiler and IR | import cycles are reported; keeping what a file was compiled to changes no diagram; an overlay never changes the board it is based on |
| board compilation | a reused layout is the one a fresh computation would give; reuse hides no cancellation |
| output paths | two boards never share a path; names users would expect to work do |
| editor operations | siblings stay distinct; objects get the names the deltas foretold |

`PROJECT.json` lists the concrete hazards, each at its line.

## Modules

| module | models |
|---|---|
| `ResultFeed` | what a browser tab is promised: the abstract specification of watch mode's serving side |
| `WatchClients` | broadcast, websocket goroutines and shutdown of `watch.go`; implements `ResultFeed` |
| `Watch` | file events, polling, the burst timer, the compile loop, the watch list, page loads |
| `WatchMode` | `WatchClients` and `Watch` in one process; implements both |
| `WatchMode_proofs` | the theorems about the three, the refinements included |
| `BoardPublish` | the publication transaction and its rollback, the user and kills |
| `BoardPublish_proofs` | the theorems about it |
| `SeedCoordinator` | TALA's worker pool, selection, refinement and cancellation |
| `ImageResolver` | one resolver session: single flight, resolution slots, cumulative budgets |
| `ImageResolver_proofs` | the theorems about it |
| `BoundedLRU` | least-recently-used lists, as both caches keep them |
| `ImageCache` | `MemoryCache`, which the resolver sessions share |
| `RenderSession` | the raster session: memo, cache, flights and load slots |
| `BundlePool` | the bundler's producer, workers and collector |
| `RouteFlavors` | TALA's concurrent routing flavors over one stage budget |
| `WorkGuard` | the budget every algorithm of TALA charges |
| `LayoutTransaction` | trial moves, nested, with rollback points and their recycling |
| `NestedLayout` | extraction, layout and injection of nested diagrams |
| `NestedLayout_proofs` | its inductive invariant, for `Diagram_proofs` |
| `BoardCompile` | the compilation of all boards and the reuse of geometry |
| `ImportStack` | the imports of d2ir: stack, parsed files, templates |
| `BoardPaths` | the output path of every board, and the claims on them |
| `EditorKeys` | the names Delete and Rename give, and those foretold |
| `MCDiagram` | instance of the parts of compiling and laying out: `SeedCoordinator`, `ImportStack`, `NestedLayout`, `BoardCompile`, `WorkGuard`, `LayoutTransaction`, `BoardPaths`, `EditorKeys` |
| `MCPools` | instance of the parts of an export: `RenderSession`, `ImageCache`, `BundlePool`, `RouteFlavors` |
| `Texts_proofs` | proofs about `EditorKeys` and about an instance of `ImportStack`, with variables of its own |
| `Diagram_proofs` | the theorems about all parts of `MCDiagram`; those about edits and imports are taken from `Texts_proofs`, and those about nested diagrams from `NestedLayout_proofs`, whose steps and properties are shown to be those of the parts |
| `Pools_proofs` | the theorems about all parts of `MCPools` |
| `SumTheorems` | sums over finite sets, folds along sequences, and the induction over finite sets and naturals they need |
| other `MC...` | the instances the other runs check |

`Watch` and `WatchClients` meet at `broadcast`: it is one step of `Watch`
(`Broadcast`), and `WatchClients` takes it apart (`BroadcastStore`,
`BroadcastLock`, `BroadcastSignal`, `BroadcastUnlock`).  `WatchMode` puts them
together: a broadcast of the one is the first step of that of the other (`Publish`),
both are cancelled by the same context, and a loop that returns in the one is gone
from the wait group of the other.  Nothing else a browser's goroutine does changes
what the loops of `Watch` do, so that each side can be checked by itself: that
`WatchMode` implements both is a theorem.

The parts gathered in `MCDiagram` and in `MCPools` share no state in the code
either.  Their variable `part` says which one a behaviour works on; the others
stand in one of their initial states (`AtRest`), so that one run checks each part
in all its interleavings and none of the products between parts that have nothing
to do with each other.  What the runs fix is a constant (`Contents`, `Nodes`,
`Size` and so on), with named assumptions that say no more than the code
guarantees, so that theorems about these two modules hold for all instances.

In a module that is checked, an operator whose comment begins with "Mutant:" is
a plausible wrong version of the definition after it; no action uses it.  Each
shows that the property it is paired with in `PROJECT.json` depends on the code.

## Correspondence with the code

### WatchClients

Results are numbers, in the order `broadcast` stores them; `res` is `w.res`.
`conn[c]` is the program counter of one connection: the handler (`counted`
between `wsclientsWG.Add` and the end of `websocket.Accept`), then the goroutine
it starts (`accepted`, `getRes`, `write`, `select`, `deregister`, `release`).
`token[c]` is the capacity-1 channel `resultsCh`, `wg` the counter of
`wsclientsWG`, `bc` and `todo` the compile loop inside `broadcast`, which holds
`wsclientsMu` while it signals (`bc = "signal"`; `MuFree` is the guard of every
other section of that mutex).  `main` follows `run` through `w.wg.Wait` and
`close`.  A write may fail or a peer may leave at any point.  `refused` is the
answer of a handler that finds `closing` set.

### Watch

A file is its version, which is also its modification time; two edits within the
granularity of the clock are not modelled.  The content of the input names the
imports it uses (`uses`).  `live` are the paths whose present inode has a watch:
a file replaced by renaming leaves `live` and, once fsnotify has noticed,
`watchList`.  `events` holds undelivered events as a set: fsnotify merges
duplicates no further than that, and their order across files does not matter to
the loop.  `watchLoop` is `wlAt`, with `ensureAddWatch` cut into its two system
calls (`WatchAdd`, `WatchStatFail` and the `Stat` guard of whatever follows);
the 16 ms burst timer is `armed` and `tick`, the 10 s poll is always possible
in the select (`PollBegin`).  `compileLoop` reads the input, then each import
(`ReadInput`, `ReadImport`), so that users can edit between two reads; then
`replaceWatchList` removes and adds watches one at a time (`DropUnused`,
`AddVisit`, `AddImport`, `StatImport`).  A failed compilation also ends in a
broadcast, of its error, and is not told apart.  `handleRoot` sets `boardPath`
and then asks for a compilation: two steps.

Init is the state after `newWatcher`: all files exist with version 1, and
nothing is watched.

### WatchMode

The variables are those of both sides, with `cancelled` in common.  `Publish`,
`WatchLoopReturns` and `CompileLoopReturns` are steps of both; `FileStep` and
`ServeStep` are steps of one that leave the other's variables alone, and `Compiling`
waits while `compileLoop` is in a broadcast.  `Stop` is the user's interrupt or
a failure of the listener.

### BoardPublish

`content[p]` says whose bytes a path holds: absent, generated by run n, the
user's, or half a copy.  Each run's files differ from those of other runs; that
is the case in which it matters whether a file is the old or the new one.  The
manifest is a path like the others (`Manifest`), of content n when run n wrote
it, and lists the files of run n.  `ident[p]` stands for `os.SameFile`: whether
the file at a path is the one backed up, the one installed, or another.

One publication walks through the phases of `pc`: look for the output directory
(`first`, `rename`: a first publication renames the whole stage), `plan`
(decode the manifest, find the stale files), `backup` (Lstat, digest, copy),
`mkdirs`, `install`, `remove`, `rmdirs`, `manifest`, then `Done`.  `applyChange`
is two steps, `Verify` (skip and digest checks) and the change itself
(`Install`, `Remove`), because the user can act in between; an install without
hard links is an exclusive create followed by `CopyDone`.  `FailEarly`,
`FailApply`, `FailAfterInstall` and `FailReplace` are the error returns, by what
each leaves behind, and lead to the rollback phases `undoDirs`, `undoFiles`,
`undoMkdirs`, whose own steps may fail (`FailUndo`).  `Crash` is a kill at any
point.  `canLink` says whether the file system has hard links; it is chosen once.  Within a phase the files come in any order; the code sorts them, so the
model has more behaviours than the code and what holds of it holds of the code.

### SeedCoordinator

The order in which seeds are tried and the scores they get are chosen in Init,
arbitrarily.  Workers take indices from the closed `jobs` channel, the
unbuffered `results` channel is the rendezvous `Collect`.  `compare` and the
tie-break by higher index are `Better` and `SameScore`; scores are small
numbers, the largest of which stands for every number that is not finite, as
`compareFinite` treats those.  After the channel is closed come the compound
candidate (`Consider`), its refinement with preserved routes (`Refine`) and the
commit (`Apply`), each preceded by a check of the context.

### ImageResolver

`at[c]` follows a goroutine through `Resolve` and, when it leads, `resolveOne`:
`enter` (context and classification), `lookup` (one turn of the loop under
`r.mu`), `wait` (the select on `call.done` and `ctx.Done`), and the places of a
leader, `cache`, `slot`, `load`, `reserve`, `check` (the context once more, the
reservation being neither committed nor rolled back), `leave` (the deferred
release of the slot) and `publish` (the section that enters the result in the
memo, deletes the call and closes `done`).  A call is named by its leader;
`got[w]` is what a waiter will find in it, set when `done` is closed, so that a
waiter that is scheduled late still reads its own call and not a later one.

The context of a call can be done at any point, and the model looks at it where
the code does; `SlotCancelled` and `TakeSlot` may both be enabled, as the arms
of a select are.  A resource stands for the bytes loaded, with its two costs;
loading a source twice may give two resources.  `Commit` and `Rollback` are the
two ends of `svgResource`, of `rasterResource` and of the path of a cached
resource, which are alike.  The cache may miss, hold anything, or hold what the
limits of this session refuse: other sessions fill and empty it.

### ImageCache and BoundedLRU

`recent` is the list, most recently used first, which the map of the code
indexes; `held` is `c.bytes`, adjusted by what each operation takes away and puts
in, as the code adjusts it.  `Get` and `Put` hold the mutex throughout.  `newest`
is history: what was last put under a name.

### RenderSession

`at[r]` follows a goroutine through one asset: `memoizedCacheKeyWithDigest` for
the content key, then `getOrLoad` for the asset.  The two loops are alike, so
that `item[r]` tells them apart: an identity is looked up in the table `memo`, a
key in the table `asset`.  `look` is the first section under `s.mu`, `slot` the
select of `acquireLoad`, `again` the second look with the slot, `load` the digest
or decoder, `leave` and `yield` the release of the slot, `wait` the select of
`waitForAssetFlight`.  Where the code asks the context and where it does not is
kept: a cached asset is handed out to a render whose context is done, a cached
memo is not.  `told[r]` is what `close(flight.done)` lets `r` see.  `Load` is one
step, with the section that removes the flight and inserts the entry; before it
the flight exists, after it the waiters are told.  `InsertAsset` and `InsertMemo`
differ in what they evict, as in the code.

### BundlePool

The producer and a worker meet at the unbuffered `jobs` (`HandOver`); `results`
is a set because the channel has room for all of them.  A worker that fails sends
its result, then cancels (`Failing`): two steps.  `cause` is `context.Cause`,
which the first cancellation fixes.  `ParentDone` is the caller's context or the
five-minute timeout.  An error `echo` is that of a resolver cut short by the
cancellation of another.  `Output` is `applyReplacements`.

### RouteFlavors

A flavor's search is one step (its work is its own) followed by the charge to the
stage counter, a load and a compare-and-swap (`LoadStage`, `SwapStage`).  `plan`
fixes what each flavor would do if undisturbed: routes at a distance, an error or
a panic, after some work.  The collector receives in any order, cancels the
others on a panic, joins all, and only then selects (`Verdict`, `Best`);
then the routes of the best are finalized on what is left of its own budget: `Bind`
it to the caller's context, `Materialize` the points, charge them and `Commit`.  A
finalization that fails after `Bind` charges what it has spent in a deferred
`finish` (`Unwind`).  An addition that crosses a stride asks the context once its
units are on the stage counter; if that is done, the flavor does not note them as
charged (`Account`), and the deferred `finish` adds them again.

### WorkGuard

`Step` and `Add` return a result and leave a counter; both are operators of the
counter, so that `AddIsSteps` can say that one call of `Add` answers what as many
calls of `Step` would.  Integers wrap at `2 * (MaxWorkInt + 1)`, so that the sums
the code avoids would overflow in the model as they would in 64 bits.

### LayoutTransaction

`placed` are the nodes, in one dimension: a node takes `Width` from its place.
That keeps containment, closeness and overlap, which are what validation tells
apart; clearance is 1.  A rollback point is one of five `States`, enough for all
that can be referred to at a time; `prior`, `spare`, `shared` and `pinned` are
the fields of the transaction (`Outer`), of a clone made inside a trial
(`Inner`), and the stage's own pointer.  `Commit` runs operations (`Move`,
`Reorder`), which may commit moves in the clone, and ends in `Accept` or
`Reject`; `committing` is the stack of these calls.  `Unused` memory is filled
with `Partial` when a refresh fails half way.

### NestedLayout

A graph is its lists of objects and edges and the tree of children, with what has
been cut out in `sub`.  All edges there can be are in the graph at once, as what
happens to one depends on its own ends only.  `Begin` chooses between the one-pass
extraction (`ExtractAll`) and the one-by-one path (`Extract` in `LayoutOne`), as
the code does; `LayoutCell` is a container in a grid, laid out with itself and
then without; `Finish` puts back near constants, then the rest, then the edges,
and restores the order.  Each layout may fail or reorder what it was given.

### BoardCompile

Boards are numbered in the order in which they are compiled.  A content has a
field layout consumes (`input`), one it does not (`style`) and a flag for the
diagrams whose geometry is never kept; a signature stands for the hash.
`Offered` is the argument `compileBoard` gets (nothing for layers, the parent's
for scenarios and the first step, the previous step's for the others) and
`Replays` the decision to use it.  A layout with objects surfaces a cancelled
context; a replay checks it, and a board without objects does not.

### ImportStack

A file is the sequence of its imports and globs.  `how` says where an import
stands: at the top, below a map (`nested`, so that `mapRefContextStack` is not
empty), in a board, or at the top asking for a key that does not exist
(`absent`).  What a file is compiled to is a tree: the file, the context that its
meaning may depend on (whether globs apply to it, whether it is below a map) and
the trees of what it imports.  `stack` is `importStack` together with the local
variables of each `__import`: `Frame` is pushed by `Descend` and popped by
`Ascend`, which also enters the template.  `parsed` is `parsedImports`; the
parser is given the error list of the compiler and returns no file once there is
an error in it, so that after the first error only files parsed before are
compiled (`RejectLoad`, `Descend`).  A template is used without a look at the
depth of what it imports, and hides no cycle: a file with an error in it, a cycle
through the importing file included, is not kept.  `Stop` is any of the early
returns when `stopped`: the context ended or an expansion budget used up.

Files are taken by the clean path they are opened under; for a main file named by
a path that is not clean, as `./x.d2` is, the code finds a cycle through it one turn later.
The list of imports leaves out an immediate import that another one has imported
before, which `ListedOnce` says and the comment at `import.go:96` does not.

### BoardPaths

A path is the sequence of its components.  A component is a stem, the number of
extensions after it that equal the output's own, and whether its letters are
composed; that is what escaping, appending the extension and the collision key
(which normalizes) tell apart.  The digest in an escaped name is as good as the
name: `Escaped` puts the prefix in front of it, and `Prefixed` has the stems that
begin with the prefix.  `AddFile` is `addFile` of the claims, folded over the boards.

### EditorKeys

A name is a word and the numbers after it, as `generateUniqueKey` reads it.  A
diagram writes every object once, in the map of its container, so that edits of
the text are edits of the tree.  `Renamed` is `renameConflictsToParent`,
`MoveOrders` the order in which its renames are carried out (a map's, except that
those to a name in use come last), and `DeleteIDDeltas` what was foretold.

Two cases are outside what `AsPredicted` states, because prediction and edit
differ there.  `Rename` (`edit.go:1737`) makes the new name unique at the root
wherever the object is, and `move` once more among its siblings: renaming an
object `a.y` to `x` where `x` exists at the top gives `a.x 2`, while
`RenameIDDeltas` says `a.x`.  `MoveIDDeltas` (`edit.go:2831`) does not keep the
names of siblings still to be hoisted free, as the deltas of `Delete` do: for
`x; y: {x; x 2}` and `y` moved without its contents it foretells `x 2` and `x 2 2`, and
`Move` gives `x 3` and `x 2`.  Nothing in the repository promises these two, so
that they are noted here and not among the findings.

## Runs

| run | instance | shows |
|---|---|---|
| `watch_clients` | 2 connections, 2 results, a shutdown at any time | the safety properties of the serving side, that it implements `ResultFeed`, `ClientsCatchUp`, `ShutdownCompletes` |
| `watch` | `WatchMode` with a browser and two broadcasts; an input and an import, saved, replaced, touched, deleted and created; events get lost; an interrupt | `BurstHasChange`, `NoBlindSpot`, `ChangeNoticed`; `TabsShowDisk`: a browser that waits shows what is on disk unless something is on its way |
| `watch_live` | saves, replacements, lost events, two boards | `Converges`: the browsers end up with what is on disk for the board they asked for |
| `watch_stop` | saves, replacements, touches and deletions of watched files, creations, an interrupt at any time, also while files are missing | `LoopsStop`; `ConvergesWhenRecreated` |
| `watch_deleted` | saves and deletions of watched files, which may stay away | counterexample to `InputReloads` (a finding) |
| `watch_missing` | any file deleted, also one that is not watched | counterexample to `ImportsReload` (a finding) |
| `board_publish` | 2 runs over a file at the top and one in a directory, 2 user actions, 2 faults, 1 kill, with and without hard links | all properties of the publication, the user staying out of the window between the last check of a stale file and its removal |
| `board_publish_window` | 2 runs, 1 user action, no faults, the window open | counterexample to `UserFilesKept` (a finding) |
| `image_resolver` | 2 interchangeable callers, 4 calls, a file, a URL and an inline image, each small or large when loaded; 1 slot, 2 assets, room for one large | `BudgetExact`, `SameResource`, `FailureIsOwn`, `CallsReturn` |
| `diagram` | each part of `MCDiagram` in turn | the seed search chooses the best whatever the order of arrival and leaks nothing; nested diagrams are cut out as one by one and come back whole; imports are compiled as if each were compiled anew; boards show fresh geometry; the work guard counts and polls exactly; trial moves are undone or valid; output paths have one owner; edits name objects as foretold |
| `pools` | each part of `MCPools` in turn | the limits of the render session, the image cache, the bundler and the routing stage (`LimitsHold`); no stale image, no foreign failure, partial output, failures that happened, routes independent of scheduling; everything ends |
| `route_contract` | 2 flavors, of which one may fail by itself | counterexample to `WorkWithinContract` (a finding) |

Why the bounds suffice.  In `WatchClients` connections interact only through the
mutex and the counter: with two, one can be signalled before and the other after
a step of either; two results are an old and a newer one, and the safety
properties are proved for any number.  In `Watch` three versions (counting the
initial one) are enough for a file to change once before and once after a compilation reads it; a
second import adds only interleavings of `AddVisit`, and the theorems hold for
any number.  In `WatchMode` what one side does to the other is the same for each broadcast and each file, so that one edit, two
broadcasts and one connection show it; the bound `FewEdits` keeps the second edit to
runs in which no browser has come, and the interrupt to those without edits, which
leaves `watch_clients` and `watch_stop` to look at both more closely.  In `BoardPublish` a run has to publish, then another has to drop,
keep and add files relative to it, with a user action before and one within the
transaction; two faults are one that starts the rollback and one that meets it.
Three runs let a file be dropped and come back.  `SeedCoordinator` needs three
candidates for a comparison that is not transitive to show, and more seeds than
workers.  `ImageResolver` needs a leader and a waiter, and one call more than
callers each, so that a caller comes back to a source it has been refused; three
sources are one more than the asset budget allows, and of the byte budgets the
decoded one is exhausted before the asset budget when both resources are large.
A third caller adds waiters on the same call; the theorems hold for any number.

`diagram`: four objects in `NestedLayout` are a plain container with a nested
diagram in it, that diagram's content, and one beside them.  Three boards are a
chain of two reuses, or two siblings under a parent.  Four files of `ImportStack`
are a main one with two or three imports, two files that may import each other, one
of which the main file or itself as well, and a file below them; the second of the two may be missing, be no d2 or have a
mistake in it; a chain of three is the longest allowed.  Four boards of `BoardPaths`
are two directories with a file each; the names contain a reserved one, one
that reads as if escaped, one no file system takes, names with the extension and one in
other composed letters.  Four objects in `EditorKeys` are a container, two
siblings in it and one outside, over the names x, x 2, x 3 and y.  `WorkGuard` has limits below, on and above a
stride, and charges that reach the largest integer, so that sums wrap.
`LayoutTransaction` has a container with a node in it and one beside it on five
positions; two moves are one in the outer and one in the inner transaction, or
two whose effects add up.

`pools`: two renders, two identities with the same content and one with a bigger
one, room for two entries and four bytes, charges of 1, 2 and 3, so that a key evicts a memo, both
or nothing; one or two load slots; three calls.  Images of 1 to 4 bytes against a limit of 3
reach the image that is too large, the one that fills the cache and the eviction of one and of
two.  Three references on two workers leave one to be handed over after a
failure; budgets of 4 and 3 are exceeded by some choices of sizes and not by others.
Two flavors with up to two units each against a stage with three or four left exceed
it together, and never alone, or leave room for the finalization, cancelled ones that
charge twice included.

The bounds are constants: `MaxRes`, `MaxEdits`, `MaxRuns`, `MaxUser`,
`MaxFaults`, `MaxCrashes`, `MaxPenalty`, `MaxArea`, `MaxCalls`, `MaxMoves`,
`NObjects`, `NBoards`, `NHrefs`, `NFlavors`, `MaxImportDepth` (128 in the code), `Sources` and `Flaws`.  `MaxEdits`
bounds saves, replacements, touches and deletions; `Create` is not guarded by
it, as it can only follow a deletion.

`CHECK_DEADLOCK FALSE` is set for the runs of `Watch`, `WatchMode`, `BoardPublish`,
`ImageResolver`, `RouteFlavors`, `MCDiagram` and `MCPools`: a watcher whose user
has stopped editing (the bound) or that has been cancelled rests, a publisher
after its last run is idle, a resolver or a session rests after its last call,
and a layout, a bundling, a compilation or an edit returns.  `WatchClients` has
the step `Finished` for the one state in which it may rest, and is checked for
deadlock.  That nobody is left waiting in the others is what `CallsReturn`,
`PoolsEnd` and `NothingLeaks` say.

## Fairness

* `WatchClients!FairSpec`: each websocket goroutine, the compile loop and `run`
  are scheduled (weak fairness); the compile loop's `select` picks a ready arm
  at random, so `ctx.Done` is not passed over for ever (strong fairness).
  Nothing makes browsers connect or leave, an interrupt or a result happen.
* `Watch!FairSpec`: the loops are scheduled and timers expire (weak); the arms
  of `watchLoop`'s `select` are picked at random (strong for events, ticks and
  the poll).  `StoppingSpec` adds the same for `ctx.Done`.  Users owe nothing,
  except in `ConvergesWhenRecreated` and `RecreatingSpec`, where they bring back
  what they delete: that is the assumption under which `ensureAddWatch` waits.
* `MCDiagram!PartsSpec`: every attempt of the seed search ends, and its workers
  and coordinator are scheduled (weak, each).  A cancellation is not required.
  The other parts state no liveness.
* `MCPools!PartsSpec`: weak fairness of the steps of all goroutines together.
  Calls, references and flavors are bounded and no loop goes round without
  another goroutine having moved, so that there are finitely many steps, and
  it is enough that some goroutine that can go on does.  Loads, digests and
  searches are assumed to end; no context is required to.
* `ImageResolver!FairSpec`: goroutines are scheduled and loads end, because they
  read a local file or use a client with a timeout (weak); goroutines blocked
  in a send to the full `resolveSlots` are served in turn by the Go runtime
  (strong, for `TakeSlot`).  No context is required to end, and no cancelled
  one to be noticed.

## Findings

Four statements of the repository that the code does not keep; each is a run
whose counterexample shows the steps.

* `watch_deleted`: `ensureAddWatch` (`watch.go:350`) retries until the path
  exists, inside `watchLoop`.  After an import has been deleted no event of any
  other file is handled, so that the save with which the user removes the import
  from the input is not compiled.
* `watch_missing`: `trackedFS.Open` (`watch.go:748`) records a file only if it
  could be opened.  An import that is missing at the time of a compilation is on
  no watch list, and creating it changes nothing in the browsers.
* `board_publish_window`: `applyChange` (`board_output_publish.go:600`) computes
  the digest of a stale file and then removes the path.  What the user puts there
  in between is removed.  With the window closed (`WindowOpen = FALSE`)
  `UserFilesKept` holds in `board_publish`: no other interleaving of that
  instance loses a file of the user's.
* `route_contract`: the deferred `finish` of `generateRoutes`
  (`ovg_edge_router.go:360`) stores its error only where the flavor has none.  A
  flavor that fails by itself after it has exceeded what the stage may spend
  therefore does not report the limit, and the routes of another flavor are
  accepted, against the comment at `coordinator.go:173`.  `ScheduleIndependent`
  leaves flavors that fail by themselves out for this reason.

## Proofs

All theorems are proved for every value of the constants that satisfies the
named assumptions; there is nothing else they rest on.

`WatchMode_proofs`, of the serving side, from `ClientsAssumption` (finitely many
connections) and `MaxResAssumption`:

* `InvHolds`: `Inv` is inductive as it stands.  It ties the set `wsclients` to
  the program counters (`RegisteredInv`), `todo` to the mutex (`TodoInv`), what
  each writeLoop has read and sent to the newest result and the signals
  outstanding (`FreshInv`), the counter to the handlers it counts (`CountInv`,
  which needs facts about cardinalities), and shutdown to both (`CloseInv`).
  `NoLostWakeup` alone is not inductive: a client that is still writing an old
  result must have a signal pending before it falls asleep, which is the clause
  of `FreshInv` about `write`; and that a client registered during a broadcast
  misses nothing depends on it having read no result yet.
* `NoLostWakeupHolds`, `ClosedMeansDrainedHolds` and `ViewNeverGoesBackHolds`
  follow from `Inv`; the second one uses that a counter of zero means an empty
  set of handlers.
* `RefinesFeed`: initial states map to initial states, and every step maps to a
  step of `ResultFeed` or a stutter.

`WatchMode_proofs`, of the file side and of both, from `DiskAssumption` (the input is
no import, nothing is named as no file is, the first board is a board, the bound is a
natural number).  The invariants are proved of `Disk`, the instance of `Watch`, and hold
of `WatchMode` as it implements `Disk!Spec`:

* `BurstHasChangeHolds`: strengthened by the fact that a running timer and a
  tick exclude each other.
* `TypeCorrect`: versions stay below their bound.  A creation is not counted by
  `MaxEdits`, so that this is no matter of one step: `EditInv` says that edits
  and files missing together stay below it, each creation answering a deletion.
* `ChangeNoticedHolds`: that versions only grow, and that nothing is recorded as
  seen in a version it has not had, is what makes it inductive.  Then a change is
  either in `lastMod`, where the poll finds it, or the event, burst, retry
  or request that replaced that entry is still to lead to a compilation.
* `NoBlindSpotHolds`: while `replaceWatchList` is at work the files it has dealt
  with (`Settled`) must already be covered, and between the Add and the Stat of
  `ensureAddWatch` a path is covered by what fsnotify will say of it.  The proof
  shows that the watch list is safe although two goroutines change it without a
  lock of their own.
* `WholeImplementsSides`: every step of `WatchMode` is a step or a stutter of `Watch`,
  and of `WatchClients`.  It needs `Joined`, which says where both speak of the same
  goroutines: that `close` cancels a context which is done by then is what makes it
  no step of the file side.
* `TabsShowDiskHolds` puts the two sides together: `FreshInv` says what a sleeping
  client has been sent, `Joined` that this was compiled from what was last read, and
  `ChangeNoticed` that what was read is on disk or on its way.
* `LoopsEndBeforeCloseHolds`, from `Joined` and `CloseInv`.

`BoardPublish_proofs`, from `PathAssumption`, `BoundAssumption` and
`SwitchAssumption`.  The invariants build on each other, from what is true of
every step to what is true at the end:

* `TypeCorrect`: `cur` is a path of the phase, and everything about a transaction is
  empty outside one (`CurInv`, `EmptyInv`).
* `UserFilesKeptHolds`, under `WindowOpen = FALSE` (with the window open it is
  false, see the findings): `PhaseInv` says which paths a phase works on,
  `AppliedInv` that everything not in `applied` is what it was or what the
  user made of it, `WindowInv` that a stale file about to be removed is still the one
  that was checked.
* `RestoredOnFailureHolds`: a backup holds what the path held before the run
  or what the user made of it since (`SavedInv`); of the paths already
  visited by the rollback the tree says the same, unless a step of the rollback has
  failed (`RestoreInv`); `DirInv` gives the directories of every phase as a formula of
  those before the run, those made and those removed.  An end without `touched` then
  has restored all (`FailedInv`).
* `CompleteOnSuccessHolds`: `PlanInv` (what is stale), `WrittenInv` (what
  applied paths look like), `VisitInv` (what each phase has behind it), `MadeInv`
  and `GoneInv` (the same for directories) are the halves of what
  `SuccessInv` says when the last phase is over.
* `NoOrphansHolds` needs all of it: a run that ends is a success, which leaves what
  its manifest lists, a failure, which leaves what there was, or makes the tree
  `messy`; and what there was when it began was listed (`OwnedBefore`).  That a manifest
  is never of a later run than the newest (`OlderInv`) keeps the runs apart.

`ImageResolver_proofs`, from the five named assumptions (finitely many callers
and sources, costs and limits natural numbers, resources distinct from errors):

* `TypeOKHolds`: contains the limits of all three budgets.  The rollback must
  give back what was taken, for which `GotInv` ties the places `reserve` and
  `check` to a resource.
* `SameResourceHolds`: not inductive, as the answer of a waiter is fixed when its
  leader publishes and the entry of the memo before anyone returns it.
  `FlightInv` says that a source in flight has one leader and is not in the memo,
  `WaitInv` that a waiter not yet told waits for a live call for its own source.
* `FailureIsOwnHolds`, from the same invariant.
* `BudgetExactHolds`: the counter of assets equals the sources in the memo plus
  the reservations on their way there, by facts about cardinalities
  (`CountExactHolds`), and each counter of bytes the sum of what these cost
  (`BytesExact`), by facts about sums.

These proofs group the fourteen actions by what they do to the state the invariant
is about (`Kind`), and show once that every action is of a kind.

`Pools_proofs`, of the render session, from the three named assumptions of it:

* `LoadsAdmittedHolds`, `CountsBoundedHolds` and `OwnFailureHolds`, from one
  invariant.  It says which places of `at` hold a slot and which own a flight,
  that a flight is owned by the render that loads the item, and that the lists
  have no duplicates and stay within the number of entries.  The last needs that
  eviction yields a prefix and that a load never finds its item cached: nobody
  else can have inserted it while the flight was there.
* `BytesBoundedHolds`: the counters are what the entries of the lists are charged
  with.  A list without duplicates is charged what the set of its elements is, so
  that moving to the front changes nothing, and evicting down to a prefix takes away
  exactly what it no longer holds; `EvictUntil` leaves room for the
  entry that follows, for any charges.
* `TypeCorrect`: the memo and the assets are entries of different kinds (`Apart`).

`Pools_proofs`, of all parts of `MCPools`, from these and `CacheAssumption`,
`BundleAssumption` and `RouteAssumption`.  The invariant `PartsInv` has one part for each component; the
steps of one leave the variables of the others alone:

* `LimitsHoldAlways`: the session as above; `CacheInv` for the image cache, with
  the argument about lists again; `BundleBudget` for the bundler: what is reserved
  is paid for references that no worker resolves any more, and no two workers
  resolve the same one; `StagePaid` for the routing stage: a compare-and-swap
  that succeeds found the counter it had loaded, so that the sum it checked against
  the limit is the sum it stores; the sum of what the flavors note as charged is at
  most that, and equal to it until the caller cancels.  A routing that succeeds has
  paid for every flavor with routes, because only the selected one had anything
  left to pay (`Finalized`).
* `NoStaleImageHolds`: no name has two entries, which holds because `Put` removes
  the old one before it asks whether the new one fits.
* `FailureExplainedHolds`, `PartialOutputKeptHolds`: `InHand` and
  `NothingLost` say that every reference sent is with a worker, in the results or
  replaced, unless the worker context has ended; `BundleCauses` that an echo
  can only follow a cancellation, which has fixed the cause.  A reference whose
  resolution failed is never in the results or replaced again (`Lost`,
  `LossKnown`), so that an error of an image leaves one unreplaced.  Which of several
  failures is returned is left open, as it is in the code: a worker sends its result
  before it cancels, and another may fail and cancel in between.
* `ScheduleIndependentHolds`: each answer of a flavor is justified by what it
  would do alone, or by a cancellation somebody has caused (`Justified`,
  `StoppedFor`).  If the work of all exceeds the stage, then some charge
  was refused, whichever it was, because the charges accepted never exceed it.
  Once a choice is being finalized, all flavors are known to have routes unless the
  caller cancels or one fails by itself (`AllHaveRoutes`).
* `PartsTypeCorrect`.

`Diagram_proofs`, from the assumptions on seeds, workers and scores, and from
`BoardAssumption`, `GuardAssumption` (limits leave room for one more unit, strides
are positive), `TrialAssumption` (a finite graph on integer places),
`PathAssumption`, `KeyAssumption` and `ImportAssumption`.  `PathAssumption` says what strings and digests
are: different stems are escaped to different ones, none of which is a word d2 uses,
and a stem equal to an escaped one begins with the prefix.  `KeyAssumption` says what
names are: sequences that are not empty, and a name with a number is a name without
it.  `ImportAssumption` says what files are: finitely many sequences of statements,
with nothing wrong in the main one itself, which `Compile` is given parsed.
`NestedAssumption` says only that the number of objects is a natural number.
`PartsInv` has one part for each of the eight:

* `SelectionIsBestHolds`, `GivesUpOnlyWithoutLayoutHolds`: the invariant says
  that an index once taken is in the hands of a worker or received
  (`NothingLost`), that an attempt not disturbed by a cancellation succeeds when
  it can (`Undisturbed`), and that the choice so far beats all others received
  (`ChoiceSoFar`).  `Decide` then needs only that all workers have exited and
  the queue is empty.  That `Beats` is a total order on the seeds is what makes
  the choice independent of arrival.
* `ReuseIsHarmlessHolds`: what is captured of a board is what a layout of it
  computes, under the signature it has (`Kept`); so a replay, which asks for
  an equal signature, shows what a layout would.
* `ExtractionIsSequentialHolds` and `LayoutRestoresHolds`, from `NestedInv` of
  `NestedLayout_proofs`, for every tree of objects, any of which may be diagrams.
  One by one, the invariant is `Apart`: the objects of the graph and of all that has
  been cut out of it are those given, each once, so are the edges with those
  set aside, and the tree is the given one with the diagrams hanging from roots of
  their own.  A diagram is never found twice, because every object the search
  reaches lies below plain ones only (`Frontier`), which is also why the
  specifications of a batch are apart (`Chosen`).  For the batch, the
  state after the first `i` cuts has a closed form (`Stage`): an object is with the
  diagram it lies in, an edge that leaves diagrams with the first of them it
  touches.  Each cut takes one such state to the next, and the single pass
  computes the last of them directly; so the two are equal (`BatchIsOneByOne`),
  including their lists, since choosing from a list in two steps keeps its order.
  The rollback puts back the diagrams after the one that failed, one at a time
  (`Undone`), until the lists have what they have after the cuts up to that one
  alone; `RestoreOrder` makes equal what differs in order only, as nothing is in a
  list twice.  That is also the end of `LayoutRestores`: once all has been injected, the
  lists have the given elements, each once, and sorting gives the given lists.
* `ChargesExactHolds`: no intermediate sum that decides anything wraps.
* `PollingExactHolds`: `AddIsSteps` is proved by induction on the charge; the rest
  of it (no operation does a whole polling stride of work after its context has
  ended) rests on the invariant that what was accepted since then is at most the
  remainder of the counter by the stride.  The lemmas about `%` and `\div` show
  that a charge which crosses no boundary adds to it exactly what it adds to the
  remainder.
* `RollbackPointsKeptHolds` and `RejectionRestoresHolds`: `SparesFree` says that
  memory about to be recycled is no rollback point of anybody, `UnsharedAlone`
  that a rollback point which is not marked shared has one user.  The second is what
  lets `Refresh` turn the old rollback point into a spare.
* `AcceptedIsValidHolds`: only pairs that moved since the last rollback point are
  validated, so the invariant has to say that everything the stage can go back
  to is `Fine`, although what is placed while a commit runs need not be; a pair
  nobody looks at is then where a fine layout has it (`ValidIsFine`).
* `PathsClaimedHolds`: what the fold of the claims comes to (`ClaimedIs`) is
  that the files of all boards are apart, which is `AcceptedFit`.  That a tree with
  ordinary names is not refused takes an argument about the paths themselves: two
  boards with the same path have the same last component, so the same name, and
  parents in whose paths the same holds (`BasesDiffer`, by induction over
  the boards); a directory of a list is no board's path, because what a name
  is escaped to is never the name of a list (`NotAList`); and no file is
  a directory of another, because only its last component has the extension
  (`NamedApart`).
* `AsPredictedHolds`, from the theorems of `Texts_proofs` about an edit of any
  tree of objects.  `Rename` and the loops over the children are made of
  `generateUniqueKey`, so that the first thing to know is that its search ends:
  the names in its way are names objects have, or had before the edit, other
  than the one it names, which are fewer than the numbers it can try
  (`CrowdSmall`, `UniqueFits`).  The two loops over the children, that of
  `renameConflictsToParent` and that of `DeleteIDDeltas`, keep different records: one the
  names it has seen, the other none.  They stay in step (`Settled`): after the same
  children both have given the same names, and for the next child the names in its
  way are the same in both, although each puts them together differently
  (`SettledNames`).  What both compute is different for different children
  (`Hoists`).  Then the moves inside the container: those to a name in use come
  last, and when their turn comes whoever had the name has moved away, so every
  move finds its name free (`MovesRename`), in whatever order they come.
  `DeleteIDDeltas` never calls `move`, which is why this is not obvious.
* `CachingIsHarmlessHolds`, from `ImportInv` of `Texts_proofs`: for any files with any
  imports and globs, any depth limit and anything wrong in them.  As long as
  nothing was reported, four things are true (`Faithful`).  The files that are done
  are ranked: a file imports only files of lower rank, so none of them is on a cycle,
  and from its rank on the depth does not matter to what a file is compiled to
  (`Finished`, `Steady`).  What a frame of the stack has put together is what `Walk`
  gives for the statements it has passed, with every import compiled anew in
  the context where it stands (`FrameSound`).  A template is what its file is
  compiled to where no glob applies and no map is around it, which are the
  only places that use one (`Cacheable`).  And a file seen is listed or reached from
  one that is (`Covered`); the step that shows this for a second import of the same
  file is why `ListedOnce` says no more.  Once something was reported,
  the files are the reason (`Reason`): a file on the stack reaches those above it
  (`Upwards`), so that an import of one of them is a cycle, and a full stack
  is a chain of imports that is too long (`DepthIs`).  That a template may be used
  where compiling the file would have met the depth limit does not matter to either half.
* `TypesHold`: the types of all parts.

`SumTheorems` has what the other modules need about sums and folds.  A sum over a set is a
fold, defined by recursion; that it changes by the value of an element that is
added is proved from the existence of a minimal set without the property
(`MinimalSet`: inclusion of finite sets is well-founded), as the library's
induction principles take a predicate as their parameter, which the provers here
cannot be given.  A fold along a sequence is a chain of values (`FoldsExist`), of
which what every step keeps is true at the end (`FoldsStay`).

Only model-checked:

* liveness, which needs fairness: `ClientsCatchUp`, `ShutdownCompletes`,
  `Converges`, `ConvergesWhenRecreated`, `LoopsStop`, `CallsReturn`,
  `NothingLeaks`, `PoolsEnd`.

`ViewNeverGoesBack`, `GivesUpOnlyWithoutLayout`, `RollbackPointsKept`,
`LoopsEndBeforeClose`, `PartsTypeOK` of `MCPools` and the modules' own `TypeOK`s are
proved where listed above, and no run checks them by themselves.

## What is not modelled

* Of watch mode: the heartbeat of a connection (`wsHeartbeat`), a goroutine that ends
  with it and is not in the wait group: `close` does not wait for it, and that it may
  close the connection is `WriteFail` or `PeerGone`.  Opening the browser,
  authorization of requests, static assets, the text of error pages, names of
  editors' backup files.
* Of board publication: symbolic links and other file types, permissions, the
  temporary names inside the output tree, directories within directories, a
  manifest somebody forged, the removal of the staging directory.  A killed run
  may leave files the manifest does not list (`messy` exempts it from
  `NoOrphans`): nothing in the code promises otherwise.  The atomic write of a
  single output file and its fallback (`main.go:1131`) are left out.
* Of TALA: what an attempt computes, and the geometry of moves and routes.
* Of the image resolver: the classification of sources, network and file policy,
  decoding and validation of images, 64-bit overflow of the byte counters (the
  comparison in `reserve` subtracts, so it cannot occur).
* Of the raster session: its statistics, rasterisation itself.
* Of nested layouts: positions and sizes, the routing of edges between diagrams.
* Of board compilation: themes, fonts, measurement; of a layout's input, that the
  signature hashes every field a layout reads is taken from the code and not
  checked.
* Of the editor: `Create`, `Set`, the public `Move`, edges, boards, imports, and
  the edits of the text; diagrams that write an object twice.
* Of imports: triple globs, which reach from an imported file into the importing
  one, the copies charged to the expansion budgets (they can only end in `Stop`),
  and `peekImport`.  It compiles a file where a glob is evaluated, without pushing
  it on the stack: imports in that file are resolved relative to the directory of
  the importing file, and their errors are reported, although the comment in it
  says the main errors are not to be polluted.  That is a hazard no property covers.
* Parser, formatter, the rest of the IR and compiler: sequential, recursive
  translations of unbounded data, whose states are whole syntax trees.
* The layout engines' geometry (dagre, ELK, grid, sequence, TALA's placement),
  text measurement, rendering and export: sequential functions of their input, on
  floating-point data, tables of fonts and themes.  They are most of the
  repository's lines, which is why the modelled share of all lines stays
  small: there is no control in them that a model could keep while it abstracts
  the data.
* The JavaScript engine, fsnotify, the websocket library and the file system
  appear through what d2 does with them.

## Plan

Done: everything in the table of modules.

Next, in this order:

1. `peekImport` with globs, in `ImportStack`, and board overlays: an overlay never
   changes its base.
2. Two `ImageResolver` sessions over one `ImageCache`, composed.
3. The writes of a single output file with their fallback, and the staging
   directory, in front of `BoardPublish`, with `BoardPaths` as the source of the
   staged sets.
4. `Move` of the editor API and its deltas, `Create` and `Set` with paths.
5. TALA's stages around `LayoutTransaction`: which stage pins what.

Every invariant and action property the passing runs check is proved; a theorem
to add comes with each of these.
