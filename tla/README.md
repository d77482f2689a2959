# A verification project for logos-module-builder

logos-module-builder turns a module's sources and its `metadata.json` into the
artifacts a Logos core loads: Qt plugins, Bare libraries, mobile frameworks, and
the `web` variants that run as WebAssembly in a container's page.  Most of the
repository is build description (Nix, CMake, shell).  The part that runs after the
build, in the module's own process, is `src/wasm/`: the host program linked into
every web image, the page and Worker that carry it, the durable store, and the
host of a view's backend.  That part is concurrent, fails in several places and is
the hardest to test, so the project starts there.  Of the builder it models the two
decisions that many actors share: how one `metadata.json` is resolved for every
platform, and which modules a standalone app bundles out of a graph of flakes.

## 1. Inventory

| Component | Source | State it keeps | Operations | What makes it correct |
|---|---|---|---|---|
| Web-variant image | `wasm/logos_wasm_host.cpp` | granted tokens and the module each names, one event sink per name, the caller shown to the module, the outbound door | start-up, Call, Methods, Subscribe, Unsubscribe, Token, Result, an event, an outbound call | no call passes the door without a credential granted before it; the caller is attested and scoped to its call; one answer per request, in order; one copy of an event per peer; calls of the load hook go out |
| Page and Worker | `wasm/loader.html`, `wasm/logos-wasm-worker.js` | queue of early frames, `deliver`, `trapped`, `reported` | relay both ways, queue, drain, catch a trap, report a death | frames in order and none lost; answers precede the report of a trap; a death is reported once and always |
| Durable store | `wasm/logos_wasm_storage.js` | backend, run dependency, `logosStorageSyncError` | mount, populate, commit, write-back | main() sees what is durable; a failed write-back is reported late, never dropped; what was acknowledged survives a reload |
| View backend image | `wasm/logos_view_wasm_host.cpp`, `wasm/logos_web_module_call.h` | tokens per target, `m_admitted`, `m_introspected`, the channel's sink, the requests the router took | contract query, Token, outbound call, its callback, a view's request through the router | an admitted call is recognised; the latest credential is presented; a callback runs once, later, and always; a view's request gets its own answer |
| View page | `wasm/logos-view-loader.js`, `wasm/view-loader.html`, `wasm/host-loader.html` | which step of the load was reached | load scripts and images, bind the bridge, install the view | the bridge is bound before a view can call out |
| Platform overlays | `lib/resolvePlatforms.nix` | none (pure) | canonicalise a selector, match, merge, poison, sweep | every platform refuses the same documents; an unpoisoned field is platform-independent; overlays apply in order and none is dropped |
| Metadata parser | `lib/parseMetadata.nix` | none (pure) | defaults and validation | what is accepted has one reading |
| Dependency closure, contracts, standalone app | `lib/common.nix`, `lib/mkStandaloneApp.nix`, the app of `lib/mkLogosModule.nix` and `lib/mkLogosQmlModule.nix` | the recursion's stack and what it has folded | `collectAllModuleDeps`, `classifyConcreteDeps`, the installation of the collected modules | what is bundled is the closure for the target; a direct dependency keeps its pin; nothing required is missing at run time of a green build |
| Pre-configure pipeline | `lib/modulePreConfigure.nix` | none (pure) | `autoCodegen`, `compose` | a module that exposes an interface gets glue or an error |
| Module, variant and other builders | `lib/mk*.nix`, `lib/build*.nix` | derivations | which outputs exist for a target | a published variant is complete |
| Gates | `scripts/logos-bare-gate.sh`, `scripts/logos-view-gate.sh`, `lib/check-web-manifest.sh` | a failure count | clauses over an artifact | a forbidden artifact fails on every object format |
| CMake module | `cmake/LogosModule.cmake` | CMake variables | target declarations | - |

Interaction at run time:

    container --frames--> page --port--> Worker --queue--> image --calls--> module code
    container <--frames-- page <-------------port--------- image <-emit, invoke-'

The module's own code is called by the image (load hook, dispatch, reply
callback) or by the event loop (timers), and calls back into it (emit,
`lp_invoke_async`, commit).  A call into the module is therefore where other
things happen: events and outbound calls are posted before the answer, and a trap
unwinds whatever is on the stack.

Hard behaviour, each item a hazard in `PROJECT.json` with its line: the door that is open until the first grant; the
re-grant of a token; image-wide caller state; a load hook that runs inside
main(); frames that arrive before the image is up; a trap and its two report
routes; overlapping write-backs; a reload in the middle of one; a populate that
fails; admission racing the core's registration; a view racing the bridge; answers
that return in another order than the requests.  In the builder: one document read
by several platforms, lazily, whose answers must agree; a walk over pins that
diverge, built by flakes of several ages, each of which answers in its own way.

## 2. Modules

| Module | Models | Composed with |
|---|---|---|
| `WasmHost` | the image: one action per message handler, start-up, module code, a trap | |
| `WebVariant` | container, page, Worker and its queue, every way to die | EXTENDS `WasmHost`; every Worker action is an action of `WasmHost` in its context |
| `ServedModule` | the abstract promise of a web variant | implemented by `WebVariant` (`ImplementsServedModule`) |
| `Subsequences` | the positions of a sequence that pass a test, and the entries there | used by `WasmHost` to cut the streams |
| `WasmStorage` | preRun, populate, commit, write-backs, reloads | |
| `ViewHost` | the view backend image with its router, the page's loading order, the view's requests, the container and core | |
| `PlatformResolve` | one `metadata.json` parsed for every platform and for none, side by side | |
| `ModuleClosure` | the dependency walk of an app over a lock graph, the refusals, the installation | |
| `SubsequencesProofs` | induction over the naturals, and what `SelectAt` returns | the lemmas the other proofs cite |
| `WasmHostProofs`, `WebVariantProofs`, `WasmStorageProofs`, `ViewHostProofs`, `ModuleClosureProofs`, `PlatformResolveProofs`, `PlatformOrderProofs` | the theorems | EXTEND their component; `WebVariantProofs` also `WasmHostProofs`, `PlatformOrderProofs` also `PlatformResolveProofs` |
| `MC*` | constants for TLC | EXTEND their component |

Names follow the code: `m_tokens`, `m_tokenOwner`, `m_sinks`, `pending`,
`trapped`, `reported`, `hostAdmitted`.  Variables marked *history* record what
happened and influence no step.  Operators named `X_something`, marked *mutant*,
are wrong versions of `X` that a plausible edit of the code would give; nothing
uses them, and each is there because one property must fail when it replaces `X`.

**WasmHost.** `Main` is main() up to the second setter, which fires the load hook
of a generated core; `MainServes` is the rest.  The receiver, the door and the
emit callback are separate state, because their order is what the comments in
main() are about.  `RefuseCall` and `DispatchCall` are the two halves of onCall, `DispatchReturns`
its continuation: between them `running = "call"` and the module may `Emit`,
`Invoke` or `Trap`.  A frame is data from a finite set; method names and
arguments are left out because no decision depends on them.  The four shapes a
dispatch can return (NULL, text that is not JSON, an error object, a value) map
to the code of the answer.

**WebVariant.** `sent`, `toPage`, `port`, `pending` and `delivered` are the stages
of a frame on its way in; `posted`, an index into it and `received` the way out.
The drain of `pending` is one task of many steps, so nothing else of the Worker
interleaves with it, but the page does.  Deaths: the glue throws; the factory
rejects; a trap in main(), in a delivered frame or in a timer; the engine kills
the Worker.  What a trap in main() becomes is the toolchain's choice, so it is a
choice of the model: a rejected factory, an uncaught error (whether or not the promise
was already resolved), or nothing at all when it was; in the last case the next frame
finds it out.  Only `deliverGuarded` asks whether the image is dead, so a callback it
had scheduled still runs, and throws (`LateCallbackThrows`): its `error` event may
overtake answers posted before, and the notice of the trap itself.

**WasmStorage.** Files are items that are added.  `local` is the tree under the
mount, `durable` the medium.  A write-back records the tree and what it will
delete when it starts.  Two lives of a page are enough for "acknowledged in one,
read in the next"; three commits for two that overlap with a third reporting.

**ViewHost.** A call in flight has a status: to be failed by a timer, not sent,
waiting, done.  The container originates contract queries, grants and (refused)
calls, and registers the credential only when it has seen the contract.  A view's
call is a request (`ViewRequests`) that the runtime image remotes; the router takes
it in a later step (`dispatchModuleCall`), makes the call through the same door as
the backend's own, and completes the request by its id from the call's callback.
The container answers what arrived in any order.  `Headless` is the page without a
view (`host-loader.html`).

**PlatformResolve.** `raw` is the document as it is written, `at` the stage, `next`
the next overlay, and `answer` maps every parse, one per platform and the agnostic
one, to its tree so far or to its refusal; the parses advance side by side.  `Call` is
what is forced first (`ValidArgument`, and the sweep `Misplaced`), `Validate` the checks
of every overlay (`LevelRefused`, `OverlayRefused`) with the agnostic answer `poisoned`,
`MergeNix`, `CheckLibraries` and `MergeTop` the fold.  `matches` and `canon` translate
the selectors, `mergeNode` one overlay over a value (`MergedValue`, `MergeAttrs`).  A
document is a record of a few fields, one of each merge rule (replace, concatenate,
merge by key).  The sweep knows the root and the `nix` object by their path string
(`PlaceOf`); the path of a root key `""` is the root's, so a `platforms` below that key is
not misplaced, for the code as for the model.  What Nix evaluates lazily is evaluated when it is forced (`Forced`),
since the difference decides which targets see an error.

**ModuleClosure.** `lock` is the lock graph of the app's flake for the target `system`,
with a pin per name and flake.  The recursion of `collectAllModuleDeps` is a stack of frames.
`Fold` takes a dependency that reads no further, or throws; `Descend` is the recursive
call; `Return` is `transitive // direct`, folded into the caller.  `Evaluate` is what the
app forces (the throws of `direct`, those of `autoBundleLgx` among them, `NoBundler`, and of
`classifyConcreteDeps`), `Assemble` the modulesDir of mkStandaloneApp.  A flake was built by
this builder, by an older one without `configFor`, by a foreign one, or is a bare derivation,
and answers accordingly.  `Package` is what the derivation of an entry holds, and
`Installable` the three warnings with which an entry is skipped: no `.lgx` file, no variant
that the app builder looks for, no name.  A target need not have such a variant:
`x86_64-windows` is one of the systems and has none, and its apps leave every module out.

### External behaviour assumed

Channels and ports deliver in order; frames sent before the page binds its
receiver wait; an `error` event may overtake messages of the port; `terminate()`
discards messages not yet handled.  `WebRpcConnection` (logos-protocol) numbers
its requests, drops a reply nobody waits for, and fails a call whose frame could
not be sent.  An IDBFS write-back is one transaction listed when it starts, and
those on one store complete in the order they started.  Qt Remote Objects delivers a
view's request to the router once and in order, and the completion back to it.
nixpkgs' spellings of a platform (`parse.nix`, `system.nix`) are a constant table.  A
lock graph is acyclic as a graph of flakes, although names may repeat on a path.  A
bundled flake's plugin is built, and so its refusals are raised, when its outputs
are asked for.  nix-bundle-lgx names a bundle after the `metadata.json` in it and gives it
the variant of its target; the input of a module has the module's name.  The standalone
application itself exists for the target.  A callback of an image that trapped throws.

## 3. Runs

| Run | Question | Bounds | Why they suffice |
|---|---|---|---|
| `wasm_host` | is one image safe against any peer? | 3 frames of 14 shapes, 2 events, 1 outbound call | grant, re-grant, call is three; subscribe twice and unsubscribe is three with emissions between |
| `web_variant` | is the pipe safe, with early frames and deaths? | 3 frames, 1 event, 1 outbound call | one frame in the queue, one in the drain, one after it |
| `web_variant_live` | are deaths reported, is the promise kept? | 2 frames | an unanswered request and one behind it |
| `web_variant_trap_flag` | does `trapped` mean what its comment says? | 2 frames | |
| `wasm_storage` | is the store safe and does the module start? | 2 items, 3 commits, 2 lives | see above |
| `storage_commit_result` | does >0 name the previous write-back? | same | |
| `storage_failed_populate` | is a failed populate recoverable? | same | |
| `view_host` | admission, credentials, callbacks, requests and their answers | 2 calls or requests, 2 frames, 2 tokens, 2 targets | the credential, the query and a call between them; a grant and a re-grant; two requests answered in either order |
| `view_host_door` | what does `canCallModules` tell? | same | |
| `platform_resolve` | do the answers of the platforms agree where they must? | up to two overlays over several bases, every selector shape, overlay lists in the wrong places, one below an empty key | one overlay that matches and one that does not, in both orders; two that touch one field |
| `module_closure` | is the bundle the closure, and does the app have what it needs? | 6 flakes, diverging pins, names that recur on a path (a, b, a); a target with a variant and one without | a direct and a deeper pin of one name, an older or foreign builder between, a target not published, no bundler, no contract, a package that lacks each thing looked for; `MaxDepth` 6 is above the longest path, so it never cuts one off |
| `qml_app_metadata` | does a ui_qml app declare what it bundles? | same | |

Deadlock checking is off everywhere: a bounded history ends, a dead image stops,
a page may stay idle, and a parse or a walk that is over does nothing more.

**Fairness.** `WebVariant`: the page's tasks are weakly fair, the Worker's message tasks
strongly fair (an event loop does not starve messages for timers), and module
code that is on the stack returns or traps.  Nothing is assumed of the container
or of failures.  `WasmStorage`: the runtime's start-up steps and the browser's
answer to the populate.  `ViewHost`: the image's messages and timers, and a
container that answers the calls it received; nobody has to call.  `ModuleClosure`:
the evaluation goes on (`WF` of its next step).

**What a property does not say.**  `FailureNeverDropped` is about one life of the page: a
reload forgets an error no commit has reported yet.  `CallbackOnce` says that a callback runs at most
once and that somebody owns a call until then, not that it never runs inside the call that asked for it.
`BundleIsTheClosure` accepts any reachable pin of a name; which of several is bundled it does
not decide, except for a direct one (`DirectDependencyWins`).  `AnswersBeforeTrapArrive` promises
all the answers only of a trap in a frame that nothing failed after (see the proofs).

**What the runs show.** The passing ones hold as stated in the comment over each
property.  The five *violation* runs each check one sentence of the sources:

* `web_variant_trap_flag`: `trapped` is "set once, by a trap", but only a trap
  in a delivered frame sets it.  The property is about traps in a callback the image
  scheduled: the image serves, a timer traps, and before the page has handled the
  `error` event a frame is delivered to the dead image, whose throw is what sets the flag.
* `storage_commit_result`: a positive commit "means the previous write-back
  failed"; it also reports a failed populate, and a failure of an older write-back.
* `storage_failed_populate`: a failed populate is called recoverable, but the
  first commit after it writes the empty tree back over the durable one.  The
  properties `AckedSurvives` and `PopulatedBeforeMain` exclude that case by name.
* `view_host_door`: `canCallModules()` is documented as "the page has bound the
  bridge" and false during startup; it is true as soon as main() has made the
  connection.  The calls made then are failed, later and once (`CallsSettle`).
* `qml_app_metadata`: the app of a ui_qml module ships the source `metadata.json`
  (`mkLogosQmlModule.nix:500`, and 426 for `ui-dev`), not the resolved one, so with a
  platform-keyed `dependencies` it bundles the target's and declares the base ones.
  `mkLogosModule.nix:1691` passes `shippedMetadataFor` in the same place.

## 4. Proofs

For every value of the constants that satisfies the named assumptions
(`BoundsAssumption`, `NamesAssumption`, `FramesAssumption`, `StorageAssumption`,
`ViewAssumption`, `LocksAssumption`, `BuilderAssumption`, `RankAssumption`,
`DocumentsAssumption`).

`WasmHostProofs` proves `[]TypeOK`, `[]DoorHolds`, `[]CallerAttested`,
`[]CallerScoped`, `[]AnsweredInOrder`, `[]EventsOncePerSubscriber` and
`[]OutboundCallsReachWire`.  None is
inductive alone, because a handler decides from the provider's maps and the
properties speak of the frames.  The invariant `IInv` adds: `Door` (m_tokens is
what the stream granted), `Owners` (a token's owner is its latest grant's),
`Stages` (which module code runs in which phase, and that the door is open
whenever any does), `Numbered` and `Outbound` (ids are positions), `Unanswered`
(the call on the stack is the latest request and has no answer).  A step is
either a delivery, which appends one frame, or leaves stream and maps alone; the
lemmas `GrantsPrefix` and `GrantsNext` carry what was granted across an append.
A second invariant, `Streams`, rests on the first and speaks of whole streams:
`Sinks` (there is a sink for a name exactly when the frames delivered subscribe to it),
without which nothing says that an emission found the sinks its subscribers are owed,
and `Answering` (a frame being answered is the latest request).  `EventsOncePerSubscriber`
is its third conjunct: the events posted are the emissions somebody had subscribed to.

`SubsequencesProofs` is what those streams need.  `SelectAt(s, K)` keeps the
entries of `s` at the positions in `K`, by a recursive function on the length of the
prefix.  The induction theorems of the library take an operator, so `SetInduction`
states induction for a set of naturals and proves it from `WFMin`, which takes a
set; with it the recursive function has its defining equation (`FitsExists`, `FitsUnique`,
`TakenStep`), and `SelectAppend`, `SelectSame`, `SelectPrefix` and `SelectNext` say what an
append does to a selection.

`WebVariantProofs` proves `[]VariantTypeOK`, `[]FramesInOrder`,
`[]DoorHoldsEndToEnd`, `[]OneReportPerDeath` and `[]AnswersBeforeTrapArrive` of the
whole pipe, and that it implements `ServedModule`.  It rests on
`WasmHostProofs`: `ImageStep` shows that inside the Worker the image takes only steps
of `WasmHost`, on frames its peer could have sent, or has a control message of the
worker script put on its port, which its invariant survives (`ScriptPostKeeps`).  So
`IInv` holds in the pipe as well, and the rest of the invariant is about the pipe:
`Prefix` and `InPipe` (the frames handed over are the first ones sent; until something
dies, queue, port and channel hold the others, one after the other), `Queue` (once
drained, the queue stays empty, so that later frames cannot overtake), `Replies` (what
the container answers the image has posted, once) and `Deaths` (every sign of a death
has one behind it).  `DoorHoldsEndToEnd` is then `DoorHolds` read through `Prefix`.

Its second invariant, `VStreams`, is about the way out: `Arrivals` (what the container
received is a prefix of the transport frames the image posted, cut where the page reads
next; a trap inside a delivered frame leaves its notice behind all of them), `Framed`
(which deaths a closed channel can have: a frame's trap leads to one with
everything received as long as no later failure raises an `error` event) and `Unserved` (an image that never came up has
answered nothing).  `VariantIsServedModule` maps the pipe to `ServedModule`: a frame the
container sends is `Ask`, a page step that hands over a Result is `Answer` (the requests
answered are a prefix of those asked, by `AnsweredInOrder` cut through `Arrivals`),
closing the channel is `Die`, a factory that rejects (its load failed, or `main()` trapped) is
`FailToLoad`, and every other step, a stutter.

`WasmStorageProofs` proves `[]TypeOK`, `[]FailureNeverDropped`,
`[]QuietMeansDurable`, `[]PopulatedBeforeMain` and `[]AckedSurvives`.  Its
invariant adds what a write-back in flight stands for: while no error waits the
newest one carries everything committed (`Carried`, `Numbered`), and without a
failed populate the local tree covers the medium, so no write-back was started
with anything to delete (`Covered`).

`ViewHostProofs` proves every invariant of `ViewHost`: `[]TypeOK`,
`[]AdmittedCallsRecognised`, `[]CarriesLatestGrant`, `[]CallbackOnce`,
`[]ViewNeverRacesBridge` and `[]RequestGetsItsAnswer`.  The properties relate a call
to what was granted, answered or dispatched at other times, so the invariant
follows the call: `Contracted` (a call made as admitted has the answered contract
query before it on the channel, or the credential is registered), `Latest` (the
tokens held and carried are the latest of a prefix of the grants), `Loaded` (a page
with requests is installed and its sink is the container's), `Dispatched` (which
request a call is for), `Once` (a call is nowhere, on the channel, or at the container, in
one place, and a Result is an answer given) and `Outcome` (what a request was completed with is its
call's final answer; the property follows because arrivals are unique).  `StepCases`
reduces the actions to a dozen shapes with the facts each is used for.

`ModuleClosureProofs` proves `[]TypeOK`, `[]DirectDependencyWins`,
`[]NothingRequiredMissing`, `[]NeverSilentlyOmitted` and `[]BundleIsTheClosure` for every set of lock graphs,
cyclic ones included.  The walk forgets how it came to a name, so the invariant says
what a half-finished call owes: the outermost looks up the app's inputs (`BottomIsApp`),
an inner one those of the dependency its caller is folding (`FramesChained`), and what a
call has collected holds every name required below it and below the dependencies it has folded
(`FramesClosed`).  An overwritten pin keeps its name, so a merge cannot break that.  At the end it
gives `DirectCollected` and `ClosureClosed`; `NoneRefused` adds that nothing in the
closure threw, so every name required had an input.  `NeverSilentlyOmitted` is about targets that
have a variant: what nix-bundle-lgx packed for one holds all that the installation looks for, and
only a bare derivation or a package of a foreign flake's own making may not.

`BundleIsTheClosure` compares the walk with reachability through what the target
requires, and needs more of a half-finished call (`WInv`).  `AllCovered`: whatever is
reachable from a dependency it has folded, at any depth, is in what it has collected;
`Covered` says so without recursion, by a set of flakes that no pin leaves, so one level is all that
a returning call adds (`CoveredByPins`).  `NothingBeyond`: what a call looks up is within its own
depth below the app, and what it has collected is reachable; it is stated for every family of
levels that climbs from the app (`Climbs`), and the levels of `Reach` are one (`LevelsClimb`).
`CallersAnswered`: a call is under way only for a dependency whose answer did not throw,
and such an answer is the target's even from an older builder (`WalkedByPins`).  That last
step is where `BuilderAssumption` is needed: the app is built by this builder, and
dependencies that no overlay touches are the same on every platform, which
`AgnosticAnswersAgree` of `PlatformResolve` states of the resolver.

`PlatformResolveProofs` proves `[]NoHandmadePlatform`, `[]SelectorsRefusedEverywhere`,
`[]AgnosticAnswersAgree`, `[]TypeOK` and `[]NoOverlayDropped` for every document, every set of parses and every spelling
table; what is assumed of a document (`DocumentsAssumption`) is that it is an object, that
every value inside it is one JSON value whose arrays are sequences, and that none is nested
deeper than `Depth`.  Each property compares parses, or a parse with its arguments, at the end of
two folds, so the invariant says what the folds cannot take back: `Guarded` (an accepted
parse passed both guards of the call), `Selectors` (a parse is past validation without a
selector refusal only if no overlay has such a mistake, which `SelectorShared` shows to
be the same question for every platform) and `Trees` (a parse for a target is the base in
every field that no overlay of its level sets, and keeps its `nix` an object).  The
poisoned tree differs from the base in exactly those fields, and validation keeps
`nix` out of the top-level overlays, so the two trees agree wherever the poisoned
one answers (`PoisonAgrees`).

`TypeOK` and `NoOverlayDropped` speak of values inside values.  Their invariant, `Contents`,
says that an accepted tree has tidy fields: everything inside one, at any depth, is a JSON value
or poison and has none of the keys an overlay list, or a mistake for one, is under.  The
values at a depth (`Within`) and the nodes the sweep visits (`Nodes`) are recursive functions of
the depth, whose equations `SetInduction` gives (`WithinStep`, `NodesStep`); `SweptDocument` then says that
what the sweep passed is tidy below the two legal places, the empty root key apart (`TidyBut`), and `NodeTidy`, one lemma for each level of
the merge, that a merge of tidy objects is refused or tidy.  A merge more than three objects deep is refused by
the model, which is its bound and not the code's.

`PlatformOrderProofs` proves `[]OverlaysInDeclarationOrder` and `[]OverlayLibraryIsKept`, which
compare the end of both folds with what the document says.  The invariant, `Ordered`, says of
every moment what the properties say of the last one: a field, or a field of a field, is what the base and
the overlays merged so far said of it (`Folded`: the last one said, or all of them in
sequence where lists concatenate).  `NodeHeard` is one merge: it hears both depths, one
lemma for each level of `mergeNode`.  `MatchesApplies` is where the code's test of a selector,
after validation, is the test the documents describe.  The properties flatten the lists with
`FlattenSeq`, a recursive function; `FlattenValue` and `FlattenAppend` are its equations.  For the
libraries, `LibraryArrives` gets the library of an applying overlay to the end of its list
from `Ordered`; after the duplicate check the names in that list are distinct
(`Checked`), and no overlay of the top level touches `nix`, which `MergeTop` therefore keeps.

Every property a theorem states is checked by a run as well.

**Model-checked only:** the liveness properties, and of `ImplementsServedModule` the
fairness (`WF_vars(Settle)`; the safety part is proved).  Liveness under fairness is beyond the
provers used.  Every invariant that a passing run checks is proved.

## 5. Not modelled

* `onConnectionClosed`: an image never closes its own channel, and goes away
  with its Worker.  Connection ids: an image has one connection.
* The contract a Methods request returns, argument conversion, logging, the
  `ready` time in the hello.
* A trap inside the module's contract query.
* The Qt Remote Objects traffic between view and backend, beyond the router.
* The metadata parser: defaults and checks field by field, with no state and no
  field that meets another, except `dependencies`, whose lists `ModuleClosure` takes as given.
* The pre-configure pipeline: a choice of generator and a concatenation of shell
  text.  A model would restate its chain of conditions.
* The gates and the manifest check: scripts that match the output of `nm`,
  `otool` and `readelf`, or two JSON documents; what can go wrong is in the tools.
* The module, variant and other builders, the CMake module: the text of builds.  What a
  module publishes and how its app is put together is in `ModuleClosure`.
* The templates: example modules whose functions return constants.

Noted while reading, without a run:

* `bindContainerChannel` sets the receiver before the sink, which is safe only
  because frames come in later tasks.
* The payload a view receives does not tell a success with a key `error` from a failure.
* `docs/configuration.md` (796-798) calls a selector that could never fire an error;
  `canonWhen` validates each component and not their combination (darwin with gnu).
  Its table of values of `os` and `abi` leaves out ios and android.
* `docs/configuration.md` (817) makes null in an overlay an error; null nested in
  a wholly new subtree is accepted.  The merge rules are checked only on targets
  where the overlay matches, which `resolvePlatforms.nix` (701-705) denies.
* `common.nix` (83) says that the closest dependency wins; its fold guarantees that for direct
  ones, and a deeper pin folded later can replace a nearer one.
* A dependency with a `dependency_overrides` entry and no flake input is left out of
  the bundle; a QML-only module is never classified, so the inputs it lacks are dropped in silence.
* `mkStandaloneApp.nix` (97-104) looks for the variants of four systems, while
  `common.nix` (89) also makes apps for `x86_64-windows`: there every packed module is left out
  with a warning and a green build, which is why `NeverSilentlyOmitted` is about the other
  targets.  Of an LGX with several variants the first found is taken, not the host's.
  `configFor` answers for the common systems only.
* The comment at `resolvePlatforms.nix` (483-487) says that the sweep refuses every
  overlay list outside the two legal places; one below a root key `""` passes it and is
  ignored, since paths are compared as strings.  `NoOverlayDropped` excepts that key.

## 6. Plan

1. (done) `WasmHost`, `WebVariant` with `ServedModule`, `WasmStorage`, `ViewHost`,
   `PlatformResolve`, `ModuleClosure`; the proofs for all of them.
2. `mkStandaloneApp`'s choice among several variants of one LGX, with the host it runs on.
