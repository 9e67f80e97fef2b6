# JSON Compare in TLA+

Specifications of `json-compare`: a React single-page application that shows two
JSON documents side by side with their differences, and a Go service that
computes the diff, stores shares in Redis and limits the request rate. Every
module is translated from the source; `PROJECT.json` maps each definition to its
lines, lists the runs, the mutants every property is tried against, the findings,
the hazards and the theorems.

## 1. Inventory

| Part | State | Operations | Talks to |
| --- | --- | --- | --- |
| App (`App.tsx`) | the route | follow a link of the header, open a share | mounts one page at a time |
| Compare page (`pages/ComparePage.tsx`) | two texts, ignore list, shown answer, lines, changes, stripped keys, selection, error, share link, flags `loading`/`copying`/`sharing`, `diffSeq` | edit, format, ignore, compare, copy a change, share, load an example, open a file, select | diff and share API, file and import promises |
| Line diff (`lib/lineDiff.ts`) | none | rows of objects, arrays and nested containers from two documents and a delta | called with each answer |
| Copying (`lib/applyChange.ts`) | none | write one change onto one side | called by the page, result sent to the diff API |
| Folds and selection (`collapseUnchanged.ts`, `useUnchangedCollapse.ts`, `diffHunks.ts`) | expanded folds, whether folding is on, the selected change | fold, expand, next, previous; an effect forgets what was expanded | lines of the page |
| Editors (`JsonEditor.tsx`, `lineHighlightExtension.ts`, `collapseUnchangedExtension.ts`) | a document, extensions and decorations each, replaced by effects | highlight, mark, fold, arrows, type, click a marker | props of the page, CodeMirror |
| Synced scrolling (`useSyncedScroll.ts`) | driver, settle timer, listeners | attach, detach, handle a scroll | browser events, the two editors' views |
| Share page (`pages/SharePage.tsx`) | id, record, error, loading, selection, one cancelled flag per fetch | open, follow, leave, select | share API |
| Rate limiter (`middleware/ratelimit.go`) | mutex, visitor map, token buckets | handler, sweeper | every `/api/v1` request |
| Share store and handlers (`store/`, `share_handler.go`, `share_og.go`) | Redis keys with TTL | create, get, export, preview | Redis, which loses replies and retries |
| Server process (`main.go`) | starting, serving, draining | start, ping, signal, shutdown, exit | runs the handlers |
| Diff engine (`internal/diff`, gojsondiff) | none | delta and statistics of two objects | called by diff and share handlers |
| GUID page, copy button (`GuidPage.tsx`, `CopyButton.tsx`) | count, list, mark, timers | set the count, generate, copy | - |
| CORS, body limit, config, health | none, or fixed at start | one request each | - |
| Theme, badges, status dot | local | presentation | - |

What is hard: two compares, a copy, a share, a lazy import and a file read finish
in any order, over a page the user goes on editing, with handlers that captured an
earlier render; a diff is five pieces of state set and cleared by many handlers;
array deltas mix indices of three arrays; a limiter is used after its mutex is
released and beside a sweeper; a Redis reply is lost and its command repeated, and
the process may be gone before it comes; a scroll event does not say who scrolled;
an editor's document and its decorations are replaced one after the other, and the user
may type or click in between; a page is
left while its requests are under way.

What makes each part correct: the shown diff is whole, is about the texts in the
editors unless a late load displaced it, and only the last compare may change it;
buttons come back. Rows line up, are attributed to the right elements, agree with the
server's statistics, and copying a change resolves it. No change is folded away, each
has an arrow, no decoration lies outside its document, and none of one diff is drawn with
those of another. No pane drives for ever and
the other follows. A share page shows the share of its address. An address gets at most
its burst and refill whatever the sweeper does. A link handed out loads its documents
until it expires, and nothing stays for ever.

## 2. Plan

Done, most important first:

1. `CompareSession` - the page and its asynchronous work; `CompareSessionProofs`.
2. `TokenBucket` (abstract) and `RateLimiter` (implements it); `RateLimiterProofs`.
3. `ShareRegistry` (abstract), `ShareStore` (implements it) and `Server`, which runs
   the store in a process that starts, drains and dies; `ShareStoreProofs`.
4. `ObjectMerge`, `ArrayMerge` - what a compare shows and a copy does to one
   object and to one array, and what the server counts; `LineDiff` puts them together;
   `LineDiffProofs`.
5. `DiffRows` - lines, nesting, padding; `DiffView` - folds, selection; `EditorView` -
   the two editors that show them; `DiffViewProofs`.
6. `SyncedScroll`; `SyncedScrollProofs`.
7. `SharePage`, and `App`, which composes it with `CompareSession` and the GUID page;
   `AppProofs`.

What could follow: copying along a path into nested containers; a session that composes
`CompareSession` with the array rows of `ArrayMerge`, to follow repeated copies through
the server; an abstract "page that answers the last question" that `CompareSession`
implements up to its late loads; statistics of nested deltas; from `LineDiff` to the rows
`DiffRows` builds on, so that the kind of a row would be computed there as well.

## 3. Modules and the code

### CompareSession

One action per event handler or per continuation after an `await`, with the render
React runs for the state it sets. Documents are flat objects: functions from `Key`
to a value or `Absent`; `Broken` is a text that is no JSON. A text also has a shape:
as typed, or the padded text of a diff. `requests` holds the compares (`quiet` =
started by a copy) with the number `diffSeq` had; `files` the files being read, with
`sawDiff`, the one thing their captured handler remembers (whether a diff was shown
when they were dropped). `Outdated(q)` is the test `seq !== diffSeq.current`. The
server is external: it answers any compare with the true difference, or fails.

Left out: wording of errors, the TTL field (valid or not), the scroll position kept over
a copy, clipboard and export. A handler sees the state
of the latest render; the one captured closure the code keeps across an await, that
of a file read, is modelled.

`LateLoad` names the two continuations that write to a page that has moved on, the huge
example and a file dropped when no diff was shown; `OnlyLateLoadsDisplace` says that
nothing else parts the shown diff from the texts.

### App

`page` is the route. A page that is left is unmounted: `GoTo` and `OpenShare` set its
variables to what a new component starts with (`CompareAfresh`, `Leave`, `GuidAfresh`),
so answers and timers of the old one are lost; only the ignored keys and, as long as the
document is not loaded anew, the imported huge example stay. Every other step is a step
of the mounted page, and the other pages' variables do not move. `SharePage` is
extended and `CompareSession` instantiated, with the three names they share renamed.
`ClickCopyAll` and `MarkEnds` are the timers of a copy button: each click starts one,
none is stopped, and any of them takes the mark away.

### RateLimiter and TokenBucket

`Lookup` is the locked section (lines 43-51), `Allow` what follows the unlock, so
any sweep, lookup or tick may come in between. `Sweep` is one round of the
sweeper, which a ticker wakes. `rate.Limiter` is external and lazy: tokens and the
time of the last use. `MaxStall` bounds how long a handler may be descheduled
between its two steps. `since`/`admitted` are an observer that starts counting at
any time. `TokenBucket` has one bucket per address that nobody forgets; the
refinement mapping reads a full bucket where the map has no visitor.

### ShareStore, ShareRegistry and Server

`CreateShare` validates, chooses the TTL (`time.Duration` wraps at `Word`) and fixes
`expiresAt`; `PickId` is a round of the loop, `SetNX` a command that succeeds or
collides, `Lost` one whose request or reply is lost and that go-redis repeats,
`Abandoned` a caller that hangs up or a server that dies. Redis is external: a zero
TTL never expires, a negative one is an error. `ShareRegistry` promises that a
published share can be read until it expires; the mapping is `issued` and `loaded`.
`GetShare`, `ExportShare` and `ShareOG` read the store the same way and differ in what
they answer only.

`Server` extends the store by `phase`: handlers take steps in a process that serves or
drains (`Handling`); `Drained` is a shutdown that found nothing in flight, `Died` every
exit that drops what is in flight wherever it is. Redis outlives the process.

### ObjectMerge, ArrayMerge and LineDiff

The documents are picked in the initial states, the delta of two arrays with each
compare. `LineDiff` is the branch of `buildRows` and `writeSide` on the kind of a
container: it extends the one and instantiates the other. `Align` is `mergeKeyOrder`, `Rows` the rows of `buildRows` or
`buildArrayRows`, `Compare` and `Copy` one round trip: the delta of the server, the
texts the answer puts into both editors, the change written by `writeSide`.
gojsondiff is external, modelled by the deltas it can produce: a longest common
subsequence stays, equal leftovers move, pairs in a gap are modified.

What the code computes in loops is written as recursive functions in the order of the
loops: the table of `alignObjectKeys` from its last cell and the walk along it from its
first (`ObjectMerge`); for arrays the insertions into the list of left indices, one right
index after the other, and the walk over that list with the due removals (`Working`,
`RemovedDue`, `Turn`, `Walk` in `ArrayMerge`).

### DiffRows, DiffView and EditorView

`DiffRows` is `buildRows` on a list of rows, each with the number of lines it takes on
either side or, for a nested container, with the diff built of it: `Build` computes lines,
padding and the range of every change, row after row. `MCDiffView` builds the diffs of the
instance with it.

`DiffView` is about any set of diffs: `AllFolds`, `VisibleFolds` and `expanded` are the
folding; `Select`, `GoNext`, `GoPrev`, `Pick` and `Copy` move the selection. What was
expanded is not forgotten with the lines but by an effect of the render that shows them
(`useUnchangedCollapse.ts` 9-11): `fresh` says that the lines have changed, `RenderLines`
makes the folds of them - still without what was expanded before -, and `Forget` is the
effect. Until it runs, the markers on screen are those of earlier lines (`markers`; `coming`
are those that replace them), and `ExpandFold` may be a click on one of them. `opened`, the
folds opened since the lines changed, is a history variable.

`EditorView` extends it by the two editors. The page's state changes at once; a `Render`
fixes the props, and its effects then run in their order: for the left editor, then for
the right one, `Redraw` replaces the document if its text is new and `Reconfigure` the
extensions; `PageEffects` ends them. An editor has a document, the extensions in place
(`lines`, `hunk`, `folds`, `arrows`) and the decorations it keeps (`marked`, `current`,
`drawn`): CodeMirror asks for new ones when the document changes (`Edited`) or when the
extensions are replaced (`Reconfigured`), and at no other time, so that those of one diff
can be found on the document of another. `Type` and `ClickMarker` are the user, who may
come between a render and its effects: the editor changes first, and calls the `onChange`
of the last render whose effects have run, which clears the diff if that render had one
(`clears`). `Load` may leave the diff, as a late load does. The page's own steps, answers and
clicks outside the editors, may come before the effects of the last render have run but not
between them (`Committed`).

`CompareSession` takes a render and its effects together, as one step with the handler.

### SyncedScroll

`HandleScroll`/`IgnoreScroll` are the handler with and without its early return,
`Enable`/`Disable` the effect and its cleanup, `Settle` the timer. The browser is
external: moving a pane owes it one event, reported later (`pending`). So is
react-codemirror, which makes a view in a render after the one that mounts the
editor (`MakeViews`). `EditorsUpFront` chooses the page: the compare page mounts its
editors before any diff, the share page in the render that enables the hook.

### SharePage

`StartFetch` is the fetching effect after the cleanup of its last run; each fetch has
its own `cancelled`. `then`, `catch` and `finally` of an answer run in one turn of
the event loop and are one action. `SelectChange` stands for the list and for both
buttons. Leaving the page ends the component with its fetches.

## 4. Runs

All bounds are constants of the modules and are set in the `.cfg` files.

| Run | Shows | Bounds, and why they are enough |
| --- | --- | --- |
| `compare_session` | whole diff, only late loads displace it, copies resolve, silent stale answers | one key, two values, two examples (the huge one too), one file, three compares: a compare, a copy overtaking it and one after both, with a load or a file finishing anywhere |
| `app` | right share, right selection, every wait ends, no answer reaches a page that is gone | three shares (short, long, expired), three fetches and three compares on a page, the huge example, two overlapping timers; files are in `compare_session` |
| `rate_limiter` | budget, current limiter, sweeping invisible, entries go | one address (addresses share nothing but the map), two handlers, six ticks: an idle time, a sweep and a new burst |
| `server` | links load, nothing for ever, refinement, every save runs out, no save in a closed process | two handlers, two ids, two documents, two attempts, two sends: a collision, a retry and a retry that collides with itself; one tick, by which a share of the default TTL expires and a clamped one does not |
| `line_diff` | objects: rows in order, most pairs, arrows resolve, statistics agree; arrays: indices attributed rightly, compare keeps arrays, a sole change resolves | all objects of at most three of four keys, one of them inherited, and all arrays of at most three of three values with all their deltas: two crossing pairs, and a move across an addition and a removal |
| `diff_view` | sides line up, ranges, folds, nothing inherited between diffs; decorations agree at every moment, the whole diff and all arrows once the effects have run | two instances, told apart by `alone`. `DiffView` alone: 33 diffs of two rows, each a value or a container of two, with stretches above and below the fold length; many have folds at the same lines, so that one opened in a diff could be taken for one of the next. With the editors: four diffs, two that fold the same lines up to the last one and differ in what they highlight, one that folds from the first line on and highlights where the others fold, and a short one without folds; documents of one line and of twelve, shorter and longer than any diff, so that stale decorations would fall outside |
| `synced_scroll` | driver released, follower follows, listeners attached, panes rest | panes of four and three positions, six scrolls |

Symmetry is used where the members of a set are interchangeable and only safety is
checked. `CHECK_DEADLOCK FALSE` in `App.cfg` only: a session ends when the bounds on
compares, fetches and timers are used up. The type invariants of the rate limiter, the
store, the panes, the diff and the share page are proved and not checked again.

Runs that find a disagreement between the code and its documentation (the quoted
lines are in `PROJECT.json`):

| Run | What happens |
| --- | --- |
| `compare_comes_back` | a copy clicked while a compare is under way leaves the Compare button disabled |
| `ignored_keys` | an ignored key on one side only is listed as a change, below a banner that says there is none |
| `moved_elements` | copying a move loses or doubles an element of an array |
| `ttl_overflow` | a huge `ttl_hours` overflows before it is clamped |
| `shared_scroll` | the share page never attaches the scroll listeners |

Other disagreements met while modelling. The modules do what the code does here;
no run of its own shows them.

- The huge example, or a file that is read slowly, replaces a text after a compare
  was answered, without clearing the diff (`HugeLoaded`, `FileApplied`): the diff
  shown is no longer about the editors, and a copy then acts on other documents.
  `OnlyLateLoadsDisplace` says that these two are the only ways, and `CopyResolves` is
  about copies made while the editors hold what was compared.
- The answer to a compare puts the documents it started from back into the editors
  (`AnswerShown`): what was typed or loaded meanwhile is lost, ignored keys included
  ("Ignored keys stay in the editors", `README.md:30`).
- A key typed after a render that shows a diff and before its effects calls the `onChange`
  of the render before, which knows no diff and clears none: the diff stays beside the
  edited text (`Type` in `EditorView`).
- The mark of a copy button goes when the first of several timers fires, early for the
  later clicks (`MarkEnds` in `App`; `MarksGo` says that it goes).
- A share answered late puts its link beside another diff (`ShareAnswered`).
- Objects with the same keys in another order list crossing keys twice, and the arrows
  there do nothing (`ArrowsResolve` is about files whose common keys have one order). The
  server, which knows no order, reports no change: "No differences" is shown above the
  list. `StatsAgree` says by exactly how much the two differ.
- A key such as `constructor` is found in every delta, and its value is printed as an
  empty container (`Misread` in ObjectMerge).
- An element copied into an array is inserted at the index it has on its own side, not
  in the row it was shown in (`Splice` in ArrayMerge).
- Scrolling the other pane within 120 ms is taken for an echo and dropped, and the
  panes stay apart (`IgnoreScroll` in SyncedScroll with `Patient = FALSE`;
  `FollowerFollows` is checked for a patient reader).

## 5. Fairness

Users, readers and clocks owe nothing. `CompareSession` and `App`: fetches, imports, file
reads and timers settle (`WF` on each answer; a failure is an answer) as long as the page
that waits for them is mounted; nobody has to stay on a page, so the liveness properties
of `App` speak of a wait that ends or of a page that is left. `SharePage`: each request is
answered. `Server` needs none: `SavesRunOut` says that every step of a save brings it
closer to its end, which is why a handler that runs ends. `SyncedScroll`: timers fire and
events are dispatched; the number of scrolls is bounded, so that `PanesComeToRest` speaks
of a reader who stops. `EditorView` and the rate limiter have no liveness property; that
`EditorView` never deadlocks says that a page which waits for its effects always has one
left to run.

## 6. Proofs

All proofs are for every value of the constants under the named assumptions of each
module; none of them bounds anything the code leaves free except through the bounds
of the modules (`MaxSeq`, `MaxClock`, ...), which may be any number.

`CompareSessionProofs`. `TypeOK` is inductive. `RequestsTracked` alone is not
inductive in its flags: it needs that numbers of requests never exceed `seq`, which it
carries as a conjunct, and the types. `DiffIsWhole` follows from the types alone,
handler by handler. `StaleAnswersAreSilent` is an action property proved from
the guards of the answers. `OnlyLateLoadsDisplace` and `CopyResolves` are proved handler
by handler from the types and `DiffIsWhole`, with the slow loads present: `LateLoad` is the
one exception, and the copy's premise is that the editors hold what was compared.

`TokenBucket`, `RateLimiterProofs`. `BucketWithinBudget` uses the invariant that
what was admitted plus what is available is at most the burst plus the refill.
`MapIsSwept` ties `lastSeen` to the next wake-up of the sweeper. `HeldLimiterIsCurrent`
needs that a handler stalls no longer than the idle time. `SweepingIsInvisible`, the
refinement, needs `SweptWhenFull`: a bucket is full again before its address can be
forgotten. With the defaults (2 per second, burst 10, ten minutes) this holds by far;
with a burst above 600 times the rate it does not, and sweeping hands out tokens
early. `RateIsLimited` carries the budget over from `TokenBucket`.

`ShareStoreProofs`. The inductive invariant adds that every issued link has its
record and that the record's lifetime covers the link's; the refinement of
`ShareRegistry` follows step by step. It holds with the overflow as well: what was
promised is what was computed. `RetriesRunOut` needs only the types: the pair of
attempts and sends left decreases in every step of a handler that does not end it.

`ServerRunsStore` shows each step of `Server` to be a step of `ShareStore` or a stutter, so
that the promise of the registry holds over restarts (`ServerKeepsPromise`);
`ServerDrains` is inductive by itself once the steps of handlers are known to need a
process that serves or drains.

`RecordsAreForgotten` proves `NothingIsForever` under `OrdinaryTTLs`: the hours fit a
duration, and the default TTL is at most the maximum (the code does not clamp it).

`SyncedScrollProofs`. `DriverIsReleased` alone is not inductive: an effect that runs
again could find an old driver. With `Listening` - listeners only while enabled - there
is none to find. `PanesAreTied` needs editors that come before the diff
(`EditorsUpFront`), which `shared_scroll` shows necessary. `FollowerFollows`, for
patient readers, is carried by `FollowsDriver`: the panes agree as soon as the driver's
own event has been handled, whatever echoes are still to come.

`AppProofs`. All but one fetch are cancelled, and that one is for the address and
the page is loading (`LastFetchOnly`); so a late answer finds its flag set, and a page
that has stopped loading without an error holds the record of its address. Every step of
`App` is a step of `SharePage` or leaves its variables alone (`AppStepsAreShareSteps`), which
carries both invariants over to the app (`AppShowsItsShare`, `AppSelectsOfRecord`).
Of the compare page every step of `App` is a step, or puts a fresh page in its place
(`AppStepsOfCompare`), and a fresh page satisfies the invariants of `CompareSessionProofs`
with no request in flight; so types, tracked requests, the whole diff, displacement by late
loads only and resolved copies hold of a page that is left and mounted any number of times
(`AppTracksRequests` and the theorems beside it). `StaleAnswersAreSilent` is not among
them: leaving the page ends its requests and changes what is shown, by design.
`ComparePage` is the instance `Comparing` of `App` once more, with the theorems; the
lemmas `Same...` say that the two are the same formulas.

`LineDiffProofs`. What is computed is proved about for documents and arrays of any length
and for every delta the diff engine may return. The prover has no induction over data
that could be used (see below), so the induction is done by hand: `LeastNumber`, a set of
numbers has a least one, gives `UpTo`; `RecursionOnMeasure` shows that a function defined
from its own values at arguments of a smaller measure exists, `StepByStep` and `March`
that one defined along a loop does. Every recursive function of the two modules is first
shown to satisfy its definition, and then an invariant of its loop is carried along it.

- Objects. `ObjectsInv` says that no document holds a key twice and that what is listed
  is what a comparison of the two editors lists; it is inductive. The table is proved to
  hold the length of a longest common subsequence of the rests, the walk to reach a list
  of rows that has all keys of either side in order and as many pairs as the table
  promises. `PairsAreMostAlways` is the optimality of that list over every common
  subsequence; `ArrowsResolveAlways` and `StatsAgreeAlways` follow from which rows are
  listed as changes.
- Arrays. `ArraysInv` says that the listed changes come from a script (an edit the diff
  engine may return) that leads from an array to the right side, and that the left editor
  holds what was printed then; without it nothing could be said of an arrow. The list of
  left indices grows by one right index at a time: the invariant of `Working` says which
  slots are filled with which elements. The walk lays them out row by row (`Laid`), and
  at its end each column has the indices of its side in order (`LeftColumn`,
  `RightColumn`), which is `AlignmentIsTrueAlways` and, since an editor prints a column,
  `CompareLeavesArraysAlways`. `LastArrowSettlesAlways` needs which change is listed
  (`ColumnsSay`, `ChangesListed`) and what `writeSide` makes of the two arrays when it is the
  only one (`GapCopies`, `ElementCopied`). That a move copied loses an element
  (`moved_elements`) is no contradiction: `LastArrowSettles` excepts moves.

`DiffViewProofs`. `DiffView` and `EditorView` are proved about for every set of diffs that
`Build` of `DiffRows` builds, of any number of rows and nested to any depth. That is the
hypothesis `FromBuildRows`: every diff is in every set that is closed under building, from
values that print at least one line and from diffs in the set. `BuiltOfBuilt` says that
whatever is built of such diffs satisfies it, as those of the run do. `BuildIsSound` shows
the well-formed diffs closed: the invariant of the loop over the rows is that the sides
have the same length without two placeholders facing each other, and that the changes are
ranges of highlighted lines, in order, and leave no highlighted line out; putting the lines
of a row below such lines keeps it (`BelowIsSound`), and a value or a nested diff, its
shorter side padded, has it (`ValueIsSound`, `BuiltIsLevel`). `SidesAreLinedUp` and
`ChangesAreCovered` are this invariant for the diff on screen. `FoldsSpareChanges` follows
from a fold lying within a run of unchanged rows. `ExpandedBelong` needs that the markers
left once the effects have run are those of the lines rendered last (`ExpandedInv`).

`EditorInv` says what the effects have reached. An editor whose turn has passed has the
extensions of the last render (`PropsReach`); its document is the page's text, or that text
is newer than the render, or its effect is still to come (`TextsReach`); the decorations an
editor keeps are those its extensions asked for in its document (`UpToDate`); and a marker
it draws is one of `markers`, whatever was rendered since (`MarkersKnown`). The last part makes `EditorsFollowView` a refinement: a click on a
marker, however late, is a step of `DiffView`. `DecorationsAlwaysAgree` adds `Coherent`: the
folds of a render, and so those of an editor at any moment, spare what the same render
highlights and its current change, which holds of the props because folds keep apart from
changes (`FoldsKeepApart`); it is inductive since a document may be replaced alone, but
highlights and folds only together. `EditorsAreFaithful` and `ArrowsAreShown` read off
`EditorInv` what settled editors show; that a diff with changes has one selected needs that
a nearest change exists (`LeastNumber`).

Every safety property of the passing runs is stated by a theorem. Only model-checked: the
liveness properties `CompareSettles`, `CopyAndShareEnd`, `LoadingEnds`, `MarksGo` and
`PanesComeToRest`, since the prover has no fairness; and the five disagreements, which are
counterexamples. The library's induction theorems take an operator as a parameter, which
the provers at hand cannot instantiate; hence the induction by least elements. The run
`compare_session` has a single key, `line_diff` arrays of three elements, `diff_view`
containers of two rows and four diffs in the editors; the theorems are for any number of them.

## 7. Not modelled

- CORS, body limit and health: one request without state. The values of the
  configuration are constants; zero, negative or inconsistent ones, which the code does
  not refuse, are outside the assumptions.
- The page of a link preview, the ASCII export, the exported file and the clipboard:
  functions of what was read or shown.
- The theme, colours, glyphs, the API status dot, fullscreen, the filters of the list of
  changes, and the drag highlight with its depth counter: presentation that nothing else
  reads. `StatsBadges.tsx` is imported nowhere.
- Random bits and formats of ids and GUIDs.
- Copying along a path into nested containers, and statistics of nested deltas: the same
  steps at every level; one level is modelled.
- Keys that JavaScript treats apart: `__proto__`, which `insertObjectKey` cannot assign, and
  keys that look like numbers, which every object lists first. Of values under an inherited
  key, `null` (the comparison fails) and strings (printed as an object of their characters);
  those of `ObjectMerge` are numbers and booleans.
- Answers that depend on nothing stored: an id a preview is asked for that has not the form
  of one, an export in another format.
- The keyboard listener, which is replaced by an effect as `onChange` is, and the latch that
  makes react-codemirror put off a new text while the user is typing.
- The insides of gojsondiff, go-redis, `rate.Limiter`, React, CodeMirror and the browser
  are external; what the modules assume of them is said above and at each definition.
