# CAOS: models, checks and proofs

The repository holds two programs. **CAOS** is a credit-analysis workbench:
analysts ingest sources into a case, run a compiled methodology route over them
with a language-model provider, sign forecasts and reports on the accepted
result, in a browser against a server (`src/caos`). **impeccable** is the design
skill its agents work with (`src/.agents/skills/impeccable`): a *live mode* in
which a page, a helper process and an agent rewrite a source file together,
*hooks* around an agent's edits, and a *detector* of design flaws. This directory
holds TLA+ modules for the parts of both that are hard to test, the TLC
configurations that check them, and proofs checked by TLAPS.

```
tlc -workers 2 -config MCRunGated.cfg MCRunGated      # one run of TLC
tlapm RunExecutionProofs.tla                          # the proofs of one module
```

`PROJECT.json` says, for every definition, which lines of the source it
translates, and lists the runs, the mutants that show each property can fail,
the hazards and the theorems.

## 1. Inventory

Server paths are under `src/caos/server/caos`, client paths under
`src/caos/frontend/src`, skill paths under `src/.agents/skills/impeccable/scripts`.

| component | state it keeps | operations | what makes it correct | here |
|---|---|---|---|---|
| Run lifecycle (`engine/runtime.py`, `storage/runs.py`) | run row (status, error, plan), node rows, artifacts, events, resume tickets, research row; LangGraph checkpoints in a second database; thread and agent locks, continuations and timers in memory | start, gate, module, finalize, resume, propose/approve a plan, continue, retry, recover | one plan, pinned once; every module committed once; the end recorded once and final; human gates hold on every path; nobody stands `running` with no driver | `RunLifecycle`, `RunContract` |
| Provider loop and budget ledger (`engine/loop.py`, `engine/budget.py`) | `run_budgets` row: used, limits, in-flight digest, attempts; process-wide slots | count, reserve, create, retry, reconcile, tool call, repair, charge | no call without a persisted reservation; what was billed is what is recorded; slots are returned | `ProviderLedger`, `Metering` |
| Models (`models/service.py`, `storage/models.py`, `worker.py`) | builds, revisions, exports; two processes | accept, queue, claim, complete, re-point, sign off, export | one job per case; a result is published only for the identity it was computed for and on live sources; every job ends | `ModelJobs` |
| Workspace (`components/Workspace.tsx`, `lib/workspaceAuthority.ts`) | selected case and run, what is shown of them, requests in flight, the event stream, an unsaved draft | links, history, selection, refreshes, writes, evidence, accept | what is shown belongs to what is selected; the end of a run is shown; a draft is left only after the user was asked | `WorkspaceClient` |
| Model page (`components/model/*`) | the forecast draft, its preview and tornado, the sign-off; the worksheet's filters and folds | edit, preview, sign off, rebase, refresh; filter, fold, move | a shown or signed preview is of the draft on screen; nothing unsaved is lost; the inspected cell is on the sheet | `ForecastDraft`, `Worksheet` |
| Report studio (`components/report/*`) | draft, opinion, recovery copy, queue of saves | edit, autosave, sign, freeze, file, restore, adopt | what was typed is somewhere; no colleague's revision is overwritten unseen; what is frozen is what is on screen | `ReportDraft` |
| Live mode: page, helper, poller (`live-browser.js`, `live-server.mjs`, `live-poll.mjs`, `live/session-store.mjs`) | the bar and its saved copy, the helper's queue with leases, one journal per session | go, cycle, accept, discard, poll, reply, restart, reload | journal, queue and page agree; no bar waits for nothing; one decision per source | `LiveSession`, `LiveJournal` |
| Live mode: source rewriting (`live-wrap.mjs`, `live-insert.mjs`, `live-accept.mjs`, `live/svelte-component.mjs`) | a source file with preview blocks, staged edits, manifests | wrap, insert, accept, discard, carbonize | every element stands once; the variant goes where the element stood; nothing is left behind | `LiveSource` |
| Live mode: picker and steer chat (`live-browser.js`) | modes, selection, bar, notes, voice, inline editor | pick, insert, configure, edit, speak, steer, cancel | the page is left as it was found; a request is about its own element | `LivePicker` |
| Live mode: manual copy edits (`live/manual-apply.mjs`, `live/manual-edit-routes.mjs`, `live-commit-manual-edits.mjs`) | the buffer, a transaction file, a commit per page | stage, apply in chunks, verify, repair, roll back, discard | no edit is lost, no file left broken, what is unconfirmed can be undone | `ManualEdits` |
| Edit hooks (`hook.mjs`, `hook-lib.mjs`, `hook-before-edit.mjs`, `hook-admin.mjs`) | configuration files, one cache without a lock | scan after an edit, gate before it, ignore, switch, reset | what is remembered was told; the gate gives way exactly at its threshold; an ignore is narrow | `EditHook` |
| Detector: styles (`detector/engines/static-html/css-cascade.mjs`) | none | collect, order, inherit, resolve | the styles of a browser, but for the differences it names | `StyleCascade` |
| Detector: rules (`detector/rules/checks.mjs`, `detector/browser/injected/index.mjs`, `detector/engines/static-html/detect-html.mjs`) | none | one verdict per rule and element, in two engines | the engines agree, but where they are known to differ | `DetectorRules` |
| Sources, snapshots | source sets, snapshot rows, visible pointer | ingest, withdraw, accept, upgrade, switch | withdrawal is visible to every later check | as `RunLifecycle` and `ModelJobs` see them |
| Deliverables, audit chain, admission and process life, route compilation, provider adapters, HTTP API, intake, loan universe, calculation engine, renderers, charts, live-mode injection, context tools, deployment | | | | not modelled (section 8) |

How they interact. The API process calls the engine, which drives one LangGraph
thread per run; graph tasks call `RunStore` (one transaction each) and, through
the provider loop, the provider. A worker process shares the database and works
off model builds and exports. The browser talks to the API by requests whose
answers come in any order and by one event stream per run; the two editors
(forecast, report) live inside the workspace's tab and autosave with the version
they expect. In live mode the page posts events to the helper, which journals
and queues them; a poller leases them to the agent, which runs the wrap and
accept scripts on the source file; the dev server brings the file back to the
page. The hooks are processes of their own that share one cache file.

What is hard. Two databases that do not commit together, so that every graph
node may run twice. Callers that drive the same run at once. State read before
an `await` and used behind it, in the server and in the browser. A ledger whose
steps are separate transactions around a call that may time out, be billed and
be retried. Two processes without a common lock. Answers that overtake each
other on their way to a tab. A page, a helper and an agent that may each be
restarted alone. Files rewritten by line numbers found earlier. `PROJECT.json`
lists these hazards at the line where each bites, with the properties that would
catch it.

## 2. Modules

| part | specification | abstract specification | instances | proofs |
|---|---|---|---|---|
| one run, from `create_run` to its end | `RunLifecycle` | `RunContract`: what a run promises its readers | `MCRunFanOut`, `MCRunGated` | `RunLifecycleProofs`, `RunExecutionProofs` |
| provider calls, budget, slots | `ProviderLedger` | `Metering`: hold before spending, settle once | `MCProviderLedger` | `ProviderLedgerProofs` |
| acceptance, builds, revisions, exports | `ModelJobs` | | `MCModelJobs` | `ModelJobsProofs` |
| a tab of the workspace; the report editor in it | `WorkspaceClient`, `ReportDraft` | | `MCClient` | `ClientProofs`, `ReportDraftProofs` |
| the model page: forecast draft; worksheet | `ForecastDraft`, `Worksheet` | | `MCModelPage` | `ForecastDraftProofs` |
| a live session end to end, over its journal | `LiveSession` over `LiveJournal` | | `MCLiveSession` | `LiveSessionProofs` |
| the source file; the picker on the page | `LiveSource`, `LivePicker` | | `MCLiveEdits` | |
| staged copy edits | `ManualEdits` | | `MCManualEdits` | |
| the hooks | `EditHook` | | `MCEditHook` | |
| the detector: cascade; rules | `StyleCascade`, `DetectorRules` | CSS (`Browser`), the rules' own words | `MCDetector` | |

`MCClient`, `MCModelPage`, `MCLiveEdits` and `MCDetector` hold two parts each,
side by side: a variable `part` says which one a behaviour is about, the other's
variables rest, and each property names its part.

What the plan has left: `SourceAuthority` (source sets, snapshot upgrade and switch), `Deliverables`
(drafts, freeze jobs and filing on the server), `AuditChain`, `Admission` and the
stages of a compiled route are not written.

## 3. State and actions

In every module an action is one stretch of code that nothing interrupts: one
transaction, one handler between two awaits, one file written. Operators named
in a comment as mutants, or placed before the definition they vary, are plausible
wrong versions of it; no specification uses them.

### RunLifecycle

| variable | code |
|---|---|
| `status`, `error`, `plan`, `node`, `artifacts` | rows of `runs`, `run_nodes`, `run_artifacts`; a plan is the source set it pins, an artifact its number per module |
| `runLog`, `nodeLog` | how many of each event `run_events` holds |
| `tickets`, `research` | unconsumed `resume_tickets`; phase, proposed and approved hash of `run_research` |
| `inflight` | `run_budgets.inflight_request_digest` is set |
| `ck` | the thread's checkpoint: exists, applied nodes, writes and interrupts pending on the superstep, plan channel |
| `curSet`, `withdrawn`, `expired` | the case's current sources, withdrawn sources, `ProviderIdentity.ensure_current` fails |
| `driver` | every caller that drives: `Api` is the inline request, `Conts` the continuations; `kind` says what it was entered with, `attempt` counts retries |
| `holder`, `task`, `gateView`, `credit`, `agentLock`, `guard` | the thread lock; where each graph task stands; the gate's local source set; the resume value waiting for `interrupt()`; the per-run agent lock; the authority mutation lock |

- Store operations (`FinalizeFailure`, `Pause`, `Propose`, `Approved`,
  `PinPlan`, `NodeRunning`, `CompleteNode`, `FinalizeSuccess`, `ConsumeTicket`)
  are the transactions of `RunStore`, written once and used by the actions.
- Graph: `AcquireThread`, `PersistTask`, `AdvanceStep`, `ParkDrive` and
  `AbortDrive` are LangGraph's superstep loop under `_drive`: frontier from the
  applied nodes, writes of each task persisted as it returns, ALL-join barriers,
  `interrupt_after=["gate"]` for inline requests. The library is external: it is
  modelled from how `_graph` and `_drive` use it.
- Gate: `GateEnter`, `GatePause`, `GateReread`, `GateCheck`, `GatePin` cut
  `_gate_node` at its database reads and writes.
- Modules: `ModuleRefused` (`Refusal` lists the reasons), `ProposePlan`,
  `ReuseRefused`, `RelinkModule`, `StartModule`, `EnterAgent`,
  `EnterAgentRefused`, `AgentAnswers`, `AgentFails`, `FinishModule`,
  `ChargeCompletion` cut `_run_module` and `_execute_agent` at their awaits and
  commits.
- Finalize: `FinalizeVerify`, `FinalizeCommit`, `FinalizeRefuse` run under the
  authority lock.
- Drivers: `BeginDrive`, `DriveTerminal`, `ResumeWithoutThread`, `TimerFires`,
  and after an exception `AfterRaise` (retry with backoff, then fail closed).
- Clients: `ResumeExpired`, `Resume`, `Approve`, `Ingest`, `Withdraw`. Faults:
  `DriveFault`, `PreLockFault`, `TimerFault`, `Crash` and `Restart` (`recover`),
  `Expire`.

Abstracted: prompts, outputs and validation are a choice (an answer validates or
not); fingerprints and digests are identities; the final gate's many checks are
the ones the properties tell apart, any other may refuse; costs appear as the
choice that a charge exceeds its ceiling (the arithmetic is in `ProviderLedger`).

`RouteAssumption` says of a route what the catalogue and `methodology/bundle.py`
give it: finitely many modules, no cycles, at least one (the engine takes the
last of the compiled stages, `engine/runtime.py:733-747`, and every closed part
of a route has a first and a last module).

### ProviderLedger

| variable | code |
|---|---|
| `used`, `inflight` | the columns of a run's `run_budgets` row; whether `inflight_request_digest` is set (which digest does not matter: one loop runs at a time) |
| `left`, `failed` | modules without an artifact; the run is terminal |
| `loop` | where the module's coroutine stands (`at`), where a metered segment leads once its time is charged (`then`), and the locals `ask`, `bill`, `retried`, `repaired`, `tools`, `incomplete` |
| `free` | `ProviderSlots._free` |
| `calls`, `billed`, `settled` | history: create calls that went out, usage that came back, and the part of it the ledger was trued up with |

- Module: `StartModule`, `EnterAgent` (the guard on an unresolved request),
  `CompleteModule`, `FailRun`; `SegmentEnds` is the end of `timed()`, which
  charges active time and may refuse.
- Request: `Count` / `CountEnds` (count_tokens takes a slot too), `Reserve`,
  `Create`, then `CreateAnswers`, `CreateFails` or `CreateTimesOut` followed by
  `RetryOrRaise`; `Reconcile`.
- Answer: `AnswerRejected`, `ReadEvidence`, `Calculate`, `Recalculate`,
  `AnswerValid`, `Repair`.
- Around it: `EndedElsewhere` (another path finalizes the run), `Cancelled`,
  `Crash` (which forgets the loops and the slots and keeps the ledger).

Slots are released in a `finally`, so an action that leaves a call returns its
slot whatever it does next. `reserve_provider` commits before `create` looks at
slots and remaining time: a denied slot leaves an unsent request in flight, and
the run fails closed on it, as the code does. `Metering` sees of all this only
one open hold per run, its amount and what was settled. Left out: the cap on
recorded attempts and the evidence-byte meter, two more limits of the kind
`evidence_reads` is.

### ModelJobs

One case. An action is one transaction, or one read on which a later write
relies; the two processes interleave everywhere else.

| variable | code |
|---|---|
| `accepted`, `pins`, `withdrawn` | what `cases.accepted_snapshot_id` resolves to (numbered as the case comes to it: at an acceptance, and when an intake classifies its sources anew), the sources each one pins, the withdrawn sources |
| `builds` | `model_builds` in creation order: status, the snapshot it is for, the snapshot its payload was computed from, its export |
| `revisions` | `model_revisions` in revision order: build, the head its signer had seen, export; the head row is the last one |
| `op` | the call that holds the authority lock of the API process, and what it has read |
| `request` | an export request between its checks and its write (it takes no lock) |
| `draft` | what each analyst previewed: a build and the revision that was the head |
| `worker` | where the pass stands, the work it polled, the job, the identity `run_pending` read (`dispatched`) and the one `run_build` computes (`identity`) |

- API: `Accept` (publish the snapshot, then queue under the same lock),
  `Reclassify` (an intake that drops a pinned source again), `QueueRequest`, `QueueRead`, `Repoint`, `QueueInsert`, `QueueRefused`;
  `Preview`, `SignRequest`, `SignRecheck`, `SignAppend`, `SignRefused`;
  `Withdraw`; `ExportRequest`, `ExportQueued`; `ApiStops`.
- Worker: `WorkerStarts` (requeue, then poll), `Poll`, `Dispatch`, `Claim`,
  `Calculate` (ends in a result, a typed failure or an exception), `Complete`,
  `FailBuild`, `FailDispatched`; `ExportStarts`, `ExportPublishes`,
  `ExportRevoked`, `ExportBreaks`; `PassEnds`, `WorkerStops`.

An input fingerprint binds the snapshot, the lineage of its sources, the
methodology bundle and the runtime (`models/service.py:738-746`). The last two are
fixed while the processes run. The lineage is not: it takes the latest word of any
intake on a source (854-871), and an intake that drops a pinned source once more
has one. So a number stands for a fingerprint and not for a snapshot:
`Reclassify` gives the accepted one a new number with the same sources, and unlike
`Accept` it queues nothing.

### WorkspaceClient

`w` is the tab: the React state and refs of `Workspace.tsx` (`case`, `run`,
`reg` the case register, `shown` the run on screen, `view`, `drawer`, `dialog`,
`intake`, `ask` the open question about a draft, `dirty`), the address
(`loc` the location, `asked` what `useSearchParams` returned, `claimed` the
address the tab takes as its own, `timer` the zero timeout of the route effect),
what the effects last ran with (`ran`), the event stream and `net`, the requests
in flight. `head` and `done` are the server's; `wish` is the case the analyst
asked for last.

The code fences each answer by a generation and by counters. They are only ever
compared with their value when the request was sent, so a request carries the
answers instead: `fresh` (no generation since) and `last` (no later request of
its kind). `Effects` runs the passive effects in the order they are declared, at
any time before the next gesture; `RouteFires` and `SearchFollows` are the two
hand-overs between the address and the state; `Answer` dispatches what the
server returned, with the write's own follow-ups (`Resume`, `Release`); `Serve`
is the moment the server reads a run. Gestures: `Navigate`, `Back`, `PickCase`,
`AnswerDiscard`, `EditDraft`, `Post`, `OpenEvidence`, `OpenAccept`,
`ConfirmAccept`. Left out: wording, focus repair, layout, decoding.

### ForecastDraft and Worksheet

`ui` is the state of `ModelBuilder` (the view of the server, the key of the
authority it was loaded for, baseline and draft, preview, tornado, conflict,
rebase, the pending label, the debounce timer with its closure); `load` the
refresh in flight with how far it has read; `calcs` the queue of calculations;
`save` the sign-off; `srv` the server's build and revisions. Counters are
carried as verdicts here too: a calculation nobody waits for keeps its place in
the queue as `Late` until its turn is over. A sign-off that a later action
overtook (`Shelve`: an edit, a rebase, another sign-off, a new authority) moves to
`late`, the orders still on their way; the server may take such an order at any
time (`LateArrives`), the page hears nothing of it. The button rests only while it
reads "Saving", and a preview that was already queued may free it under a sign-off
that is out: a second one can then start. A rebase starts from the notice of a
conflict or from the list of versions (`Rebasable`). Actions: `Refresh`, `ReadBuild`,
`ReadRevisions`, `LoadLands`, `LoadFails`; `Edit`, `TimerFires`,
`PreviewPressed`, `TornadoAsked`, `CalcAnswered`; `SignOff`,
`SaveArrives`, `LateArrives`, `SaveAnswered`, `SaveLost`, `SaveOvertaken`; `RebaseAsked`,
`ApplyRebase`; and the server's `ColleagueSaves`, `NewBuild`.

`Worksheet` reads the structure of a tab (period families, header rows,
sections, row groups) off its cells, as `worksheet*` in `modelBuilderState.ts`
does, and moves the selection and the keyboard over it (`Select`, `SetFamily`,
`ToggleGroup`, `SelectTab`, `Arrow`).

### ReportDraft

`ed` is the editor (text, base version, unsaved, conflict, opinion form, the
offered copy), `timer` the autosave, `chain` the saves queued behind each other,
`old` those of an editor that was left, `op` the operation that locks the
editor, `left` the operations given up by leaving or by a reload that may still
reach the server, `copy` the recovery copy in the browser, `work` what the analyst typed
last; `srv` holds revisions, signature, freeze job and frozen outputs. Actions
follow the handlers: edits (`Edit`, `TypeOpinion`, `TimerFires`, `Retry`), the
chain (`ChainSends`, `ChainServed`, `ChainLands`, `OldGoesOn`), recovery
(`RetryOver`, `ApplyRecovery`, `DiscardRecovery`), operations (`SignOpinion`,
`Freeze`, `FileFrozen`, `RequestChanges`, `RestoreRevision`, `AcceptShared`,
`SelectFrozen`, `OpServed`, `OpLost`, `OpAnswered`, `Poll`, `LeftServed`),
colleagues, and `Leave`, `Return`, `Reload`. `OpLost` loses the request, or the
answer to one that was served: the page reads both as a failure, and the lock falls. Left out: scenario insertion, template upgrade,
model choice, browser storage that fails, the claim of a tab id.

### LiveJournal and LiveSession

`LiveJournal` is `session-store.mjs`: a snapshot is the fold of `ApplyEvent`
over the lines of a session's file; phase and the one pending event are kept.
`LiveSession` has the page (`tab`, `disk` for localStorage, `observing`,
`fetching`, `dom`), the wires (`net`, `answers`, `conn`, `sse`), the helper
(`up`, `fresh` for its token, `queue` with leases, `snap` the journals,
`exitDue`), the agent with its poller (`agent`) and the source (`src`, and
`landed`, the variant kept in it). Requests of the page travel on connections of
their own, in any order; the event stream is ordered and lost with its
connection. Page: `Go`, `HotUpdate`, `Cycle`, `Accept`, `Discard`, `Checkpoint`,
`Answered`, `Confirmed`, `Message`, `FetchStarts`, `FetchLands`. Helper:
`Receive`, `Unreachable`, `Connect`, `ExitTimer`, `Start`, `LeaseEnds`. Agent:
`Deliver`, `Generate`, `Apply`, `Reply`, `ReplyFails`, `LiveComplete`. Faults:
`Stop`, `Reload`, `Drop`, `Kill`. All variants of a session arrive in one write.
The message a connection starts with carries each journal's id and phase, and the
page takes up only those that are not at an end (`Restorable`, as
`isTerminalSessionSummary` has it). The agent is external: `Generate` assumes that
it wraps no source it finds decided when a lease of the same event runs out and it
is given the event once more.

### LiveSource and LivePicker

In `LiveSource` a file is a sequence of lines, of which only what the scripts
search for is kept: the kind, the session a marker or attribute names, the
variant, the element and its text. `Wrap`, `Insert`, `AcceptCli` and
`DiscardCli` are the scripts, with the search for the element, the marker block
and the range to replace as they compute them; `WrapByHand`, `Write`,
`Carbonize` and `UnwrapByHand` are the agent; `StageEdit` and `DropEdit` the
user's copy edits, which wrap reads and accept scrubs.

`LivePicker` keeps the page's variables in one record `p` (state, modes,
selection, bar, notes, rows being edited, scroll lock, observer, voice) and what
is under way beside it: screenshots, generate requests, stashes, discards, steer
posts. Each handler is an action; the helpers they share (`HideBar`,
`FinalizeInsert`, `StopVoice`, ...) keep their names.

### ManualEdits

A text leaf is a ref, a text the number of the save that wrote it. `buffer` is
the file of staged operations, `txn` the transaction file with the snapshot
taken at its start, `commits` the commit under way for a page (batch, chunks,
attempt, what was reported), `tombs` events given up, `ui` and `stored` what the
dock shows and keeps over a reload. `Stage`, `Reload`, `StateExpires`, `Commit`,
`KeepFixing`, `Rollback`, `Discard` are the routes; `AgentWrites`,
`AgentReplies`, `EventTimesOut`, `LateReply`, `AgentIsReplaced` the agent's side
(it may write, report and lie as it likes within its chunk), `Restart` a crash
of the helper and the recovery from the transaction file. Such a crash does not
stop the agent: the event it holds goes on as a tomb the new helper does not know
of, under which it may still write (in `Faults`, "late_writer") and whose reply is
ignored. `AgentFree` is an assumption on the agent, which works on one event at a
time. `Discard` is guarded by there being no commit of its page: with one tab a
page this excludes nothing, the dock being busy for as long as one runs, and
`cancelPendingEvents` finds no event to cancel.

### EditHook

`conf` are the two configuration files, `cache` the one cache file, `hook` the
processes in flight, each with the configuration and the cache it read at its
start; `told` and `denied` are history. `Edit` starts the hook after an edit and
`EndHook` is its scan, choice of words and write; `Propose` and `EndGate` are
the gate before a Cursor write; the admin commands are `IgnoreRule`,
`IgnoreFile`, `IgnoreValue`, `Switch`, `Reset`. `serial` says of a behaviour
that no two processes overlap: what holds only then says so.

### StyleCascade and DetectorRules

`StyleCascade` grows a page by one declaration at a time; `Computed` is the
static engine's own ordering, expansion, inheritance and resolution, `Browser`
what CSS prescribes. `Browser` is written from CSS and shares with the engine's
side only the tokens and the arithmetic of a length: it has its own expansion
(`Covers`, `Says`), weight of a selector, initial values and variables. Nine
differences are known. Eight of them are predicates that `PlainElement` excludes:

| predicate | the engine |
|---|---|
| `LateVariable` | resolves a custom property with those declared before it only |
| `DanglingVariable` | keeps a `var()` that stands for nothing as text |
| `LateFontSize` | takes a line height or spacing of the font size known so far |
| `InheritedRatio` | hands a line height without a unit down in pixels |
| `PartialShorthand` | leaves alone what a shorthand omits |
| `ColorBehindImage` | finds no background color behind an image |
| `OddName` | takes `ease-in-out` for a name, and no property that ends in "s" |
| `OddNot` | counts a `:not()` as a class whatever it holds |

The ninth is in the comparison: where nobody gives a border a color, CSS has
`currentcolor` and the engine black (`BlackBorder`). A `font` is compared where it
gives all five of its parts, as the pages' do. This is about the pages of the run, and the list is not claimed to
be complete: values are valid CSS, a border that is given a width is drawn, a
`var()` in a shorthand is a color, and weights and durations relative to others
(`bolder`, delays) are left out. `Word("none")` is the engine's notation for an
initial value, on both sides.

`DetectorRules` grows a document by one element at a time and gives each
element the verdict of each rule in both engines; `Differs` lists where the
adapters are known to drift apart.

## 4. What the runs check

| run | instance | properties | what it shows |
|---|---|---|---|
| `fan_out` | a root and two parallel modules; two faults at any site, one crash, one retry | `ModulesRunOnce`, `PlanAgreement`, `SuccessIsEarned`, `OnlyOpenCallLands` | a module commits once and one provider call is out at a time; the checkpoint's plan is the store's; success is recorded only for a complete run on live sources; behind a recorded end only the one open call lands |
| `plan_approval` | a chain that ends in a plan-approval module; one source, expiry, two faults of a drive, one crash; fairness | `RunRowsSound`, `ApprovalBindsExecution`, `SlotHasDriver`, `RunKeepsContract`, `RunSettles`, `EmptyGateClears` | a gated module executes only the approved plan; rows and log agree; an open run has a driver, comes to rest, and a gate parked for sources clears; the run implements `RunContract` |
| `ledger` | one run, two modules, two token dimensions, two crashes; fairness | `LedgerSound`, `NoRespend`, `LedgerMeters`, `ModulesEnd` | every call is booked before it goes out and gives its slot back; unknown spend is never spent again; the ledger implements `Metering`; every loop ends |
| `model_jobs` | two snapshots, or one classified anew, one source, two analysts, two revisions, one death of either process | `JobsSound`, `ReadyIsFinal`, `PublishedOnLiveEvidence`, `SignedOnAuthority` | one job per case, results under their own identity, rows in the order of acceptance, nothing published on withdrawn evidence, revisions extend each other on the model that stands |
| `model_progress` | the same with one analyst, no calculation that raises; fairness | `JobsSettle` | every queued build and export comes to an end |
| `live_session` | two sessions, two variants, two presses of accept or discard, one fault of any kind (a stop, a reload, a broken stream, an interruption, a discard that fails) | `SessionsAgree`, `NoBarWaitsForNothing`, `DecidedOnce` | journal, queue and page agree; without a fault no bar waits for nothing; a decided source is not decided again |
| `live_edits` | a file of two elements that share their classes in four formats, two sessions, one staged edit; a page, eight gestures | `FileIsSound`, `TheVariantIsPut`, `PageIsSafe`, `SteerEndsByItsOwn` | every element once, the variant where the element stood; the page is left as it was found; the steer chat ends by its own answer |
| `manual_edits` | two leaves in two files, chunks of one, one repair, two commits, one crash; fairness | `EditsAreSafe`, `ApplyEnds` | no edit lost, no file left broken, an unconfirmed apply can be undone, and every apply ends |
| `workspace` | two cases, six runs, two gestures of which one before an answer, one broken stream, one run that ends; a report with two edits, two clicks and two events | `TabStaysCoherent`, `TabDraftKept`, `ReportStaysSound`, `ReportStepsSound` | what is shown belongs to the selection; a draft is left only after a question; typed work is kept, and no colleague's revision is overwritten unseen |
| `model_page` | two slots, three values, one move of the server, two edits; two worksheets | `DraftIsSound`, `DraftsAreKept`, `SheetIsSound` | previews and sign-offs are of the draft on screen, drafts are kept, the inspected cell is on the sheet |
| `edit_hook` | two sessions, two processes, two files, two findings, three edits in a row or two in a race, one admin command | `RememberedWasTold`, `FindingsReachTheAgent`, `IgnoresAreNarrow` | what is held back was told, every open finding is raised, the gate gives way at its threshold, an ignore is narrow |
| `detector` | every style sheet of up to three declarations from six groups; documents of up to seven elements from six groups | `StylesAreTheBrowsers`, `EnginesAgreeSoundly` | on these the static engine computes a browser's styles and both engines give one verdict, outside the differences section 3 names |

## 5. Bounds, and why they are enough

- Routes: a root with two parallel children (siblings race, a barrier joins) and
  a chain that ends in a plan-approval module, the shapes of the two kinds of
  catalogue route. Longer routes repeat these joins; the proofs cover every route.
- Two continuations and one inline request: enough for a retry timer, an
  approval's continuation and a resume to compete. A request is only accepted
  while a continuation is free (`FreeConts`), which bounds the loop's tasks.
- `MaxRetries = 1`: one retry and one exhaustion. `FaultSites`: `fan_out` has
  faults at every site; `plan_approval` in drives only, because a fault of the
  inline start leaves a queued run without a continuation, which holds its slot
  until the next restart recovers it (section 9).
- Ledger: a request reserves 2 tokens and is billed 1 or 3, cheaper and dearer
  than reserved, under a limit of 5: two requests fit, and a true-up can cross
  the ceiling. Segments take 0, 1 or 2 units of a limit of 2: time runs out
  exactly, and a charge is refused. Two modules let the second meet what the
  first left; two crashes let a restart be interrupted.
- Model jobs: two fingerprints, the second by an acceptance or by an intake, so
  that a build is re-pointed, or left behind, and a newer row follows an older one; two revisions, so that one signer can be behind.
- Live session: two sessions, one left behind by the other; `N = 2` tells the
  first variant from the chosen one. `SlowFetch = FALSE`: a fetch of the source
  ends before the user's next press and before the scout turns the bar to another
  session; a slower one puts the variants of one session under the bar of another
  (section 9). `Results` leaves out "fallback", the accept of a block in a generated
  file: with it `SavingHasWork` fails after 15 states (section 9). One fault of any
  kind, at any point, where a discard that fails counts as one; the properties
  about waiting are about behaviours without one. `DecidedOnce` rests on the agent
  not wrapping a decided source again (section 3).
- Live source: `Overlap` names the formats in which two sessions may be open at
  once (in a Svelte file the manifest's lines of the second go stale), `Nested`
  is off (a session within the block of another). Live picker: `Slips = {}`
  keeps out the interleavings the code does not survive, one guard each
  (section 9); eight gestures reach every state and the way back.
- Manual edits: one page, `Faults = {}`: an agent that writes after its timeout
  or after the death of the helper that sent it, a late reply to a repair, an untidy repair and a decision left open past its
  keeping each break a property (section 9).
- Workspace: `RouteRaces = FALSE` (no answer lands while the tab is following a
  link), `AskRaces = FALSE` (nor, for an intake, while the question to leave a
  draft is open), `EarlyBack = FALSE` (Back is not pressed before the register
  loads): each of them breaks `TabIsCoherent` (section 9). One gesture may come
  while an answer is outstanding (`MaxRushes`). The links name a run that is not
  the case's own (`r4` with `c1`), but never of a case that other links name it
  with: the hypothesis `OneHome` of the proofs. Report: `Slips = {}` likewise; the
  slip "pending" is a restore, an adoption or a change request pressed while a
  save is queued.
- Model page: `Scopes` is one of two slots, and a colleague's forecast differs in
  both: a rebase meets a slot that only the colleague changed and one that both did.
  The broadcast of a value to a whole row is left to the proofs, which are for any
  scopes. `MaxMoves`, `MaxEdits` and `MaxCalcs` bound the server's changes, the
  analyst's and the queue.
- Hooks: `Threshold = 1` and `MaxSessions = 1` make both limits reachable;
  three edits in a row reach the gate's downgrade, two race.
- Detector: three declarations order any two against a third; the groups keep
  properties together that interact. Documents are drawn from groups of elements
  that matter to one family of rules.
- Symmetry is used where the constants are interchangeable (continuations,
  analysts, sessions, pages, processes) and the run checks no liveness.
- `CHECK_DEADLOCK FALSE` everywhere: a run that has ended, a helper that waits, a
  tab nobody touches and a document at its bound really do nothing more.

## 6. Fairness

`RunLifecycle!FairSpec` gives weak fairness to what the process owes: the gate's
and finalize's executor threads, each module's coroutine, checkpoint writes, each
driver's steps and timers, and the start of a stopped process (a supervisor
restarts it; `recover` runs at start). A provider call ends because
`asyncio.timeout` bounds it, which is why the module steps include its end.
Clients, faults, crashes, withdrawal and the clock owe nothing. `EmptyGateClears`
adds, as its own hypothesis, that somebody keeps resuming.

`ProviderLedger!FairSpec` is weak fairness of each run's `Step`: the coroutine
runs on, and a provider await is clamped to the remaining time. Starting a
module, ending the run elsewhere, cancellation and crashes owe nothing.

`ModelJobs!FairSpec` is weak fairness of the worker's next step: it polls for
ever, calculations are bounded by a deadline, and its supervisor starts it again.
`model_progress` has no calculation that raises: with one, a build can stay
`BUILDING` (section 9).

`ManualEdits!FairSpec` is weak fairness of `EventTimesOut` alone: the timer of an
apply event runs out whatever the agent does. The other modules state no
fairness and no liveness: what "ends" in them ends by a user's or an agent's act.

## 7. What is proved

Each proof module EXTENDS the specification it is about, so that a theorem is
about the very definitions the runs check, for every value of the constants that
the named assumptions allow. `tlapm` checks every obligation.

### RunLifecycleProofs

From `ModulesAssumption`, `DriversAssumption` and `BoundsAssumption`, for every
route, every set of sources and continuations, and every number of retries,
faults and crashes:

| theorem | statement | argument |
|---|---|---|
| `Typing` | `Spec => []TypeOK` | inductive by itself; one lemma per store operation, one per group of actions |
| `TerminalOnce` | `Spec => []OneTerminalEvent` | `RunSteps`, then a case per store operation |
| `TerminalStays` | `Spec => TerminalIsFinal` | `RunSteps` |
| `TicketsDoNotPile` | `Spec => []AtMostOneTicket` | `RunSteps` |
| `TerminalRunsAreQuiet` | `Spec => []NoLiveWorkOnTerminal` | needs the strengthening `VerifiedHolds` |
| `RunRowsStaySound` | `Spec => []RunRowsSound` | the four together |

`RunSteps` is the lemma the others rest on: every step of the system is one of
the store's operations under the guard its callers give it, or leaves the run
tables alone. It turns an argument over all actions into one over nine
operations. `NoLiveWorkOnTerminal` alone is not inductive: `FinalizeSuccess`
looks at the status only, so that a node running at that moment would stay
running. What excludes it is `VerifiedHolds`: from the verification of finalize
to its commit the plan stays pinned and every module stays succeeded.

### RunExecutionProofs

Adds `RouteAssumption`. The inductive invariant `Strong` has eight parts, each
needed by another or by a property:

| part | what it says |
|---|---|
| `Driven` | a driver that stands in a drive holds the thread, and only one does; tasks run only under it |
| `Supersteps` | the checkpoint's applied nodes are closed under the route's edges, and the tasks of a superstep are exactly its frontier |
| `Stations` | where a task stands fits what the store and the checkpoint hold of its module |
| `Delivery` | a module's row, its artifact and its events agree, and an applied node is succeeded |
| `Planned` | the plan channel, the gate's local view and the pinned plan are one plan, except behind a failure |
| `Parked` | an interrupt that is pending belongs to a parked run, with its ticket or its research row |
| `Bound` | what a gated module runs under is the approval of exactly what it executes |
| `Verified` | between finalize's verification and its commit nothing it verified has changed |

Lemmas on the route turn the superstep rules into facts about the frontier
(`Waiting`, `GateFirst`, `SinksLast`, `NothingLeft`, `GateAlone`, `GateBehind`,
`FinalizeAlone`); `Steps` sums the actions up as a launch, an advance, the end of
a drive or a step aside, and one lemma per part shows that it is kept.

| theorem | statement |
|---|---|
| `StrongHolds` | `Spec => []Strong` |
| `EveryModuleRunsOnce` | `Spec => []ModulesRunOnce` |
| `ThePlanAgrees` | `Spec => []PlanAgreement` |
| `ApprovalBinds` | `Spec => []ApprovalBindsExecution` |
| `SuccessEarned` | `Spec => SuccessIsEarned` |
| `OnlyOpenCallsLand` | `Spec => OnlyOpenCallLands` |

None of these is inductive. That a module commits once needs `Delivery` (the row
it would commit to is not succeeded) and that only needs `Stations` (a task past
its relink check has no artifact), which needs `Driven` (nobody else runs the
same task). The approval needs `Planned` and `Delivery`: the hash is of the
pinned plan and of artifacts that never change again.

On the same invariant rests what the run promises outside:

| theorem | statement | argument |
|---|---|---|
| `RunImplementsContract` | `Spec => RunKeepsContract` | `Strong`; every action is a step of `RunContract` or leaves its variables |
| `SlotsAreDriven` | `FaultSites \subseteq {"drive"}` gives `Spec => []SlotHasDriver` | `Attended`: a slot has a driver, a created run was started, and each waiting caller is followed by what it hands on to |

The hypothesis of `SlotsAreDriven` is not a convenience: with a fault of the
inline start or of the retry timer the statement is false, and the proof breaks
at exactly that step (section 9).

### ProviderLedgerProofs

From `RunsAssumption` (a process has finitely many runs), `LimitAssumption`,
`UsageAssumption` and `CountsAssumption`, for any number of runs, slots, modules
and crashes, any limits, reservations and usages:

| theorem | statement | argument |
|---|---|---|
| `Typing` | `Spec => []TypeOK` | from the invariant |
| `SlotBalance` | `Spec => []SlotsReturned` | each action moves one run in or out of the calls that are out (`SlotStepBalances`) |
| `Booking` | `Spec => []CallsAreBooked` | from `CallsCovered` |
| `LedgerStaysSound` | `Spec => []LedgerSound` | the three together |
| `UnknownSpendStays` | `Spec => NoRespend` | the loop of a run with an unresolved request stands where only an exit is left |
| `LedgerImplementsMetering` | `Spec => LedgerMeters` | each action is a `Hold`, a `Settle` or a stutter |

`TypeOK` is not inductive: that a true-up cannot push a meter below zero, that
no slot is returned twice and that `left` does not go below zero need three more
facts: `LedgerHolds` (while a loop works on a request, what is booked in a token
dimension is what was settled plus its reservation; never less than settled),
`CallsCovered` (turns and retries booked cover the calls that went out, with one
to spare where a call is about to be made) and `LeftToDo`.

### ModelJobsProofs

From `OutcomesAssumption` and `BoundsAssumption`, every safety property of
`ModelJobs` that the runs check, for any sources and analysts, any number of
snapshots, revisions and crashes of either process:

| theorem | statement | argument |
|---|---|---|
| `Typing`, `OneJob`, `Published`, `Order`, `NoLostUpdate`, `JobsStaySound` | `Spec => []JobsSound` and its parts | `Inv`, by `LastActive` and `QueueLocked` |
| `Final` | `Spec => ReadyIsFinal` | `JobSteps` |
| `LiveEvidence` | `Spec => PublishedOnLiveEvidence` | `JobSteps`, `OnlyPublished` |
| `Authority` | `Spec => SignedOnAuthority` | from `SignLocked` |

The lemma the others rest on is `JobSteps`: a step keeps every row, inserts one,
requeues or re-points one, or is the worker's on a row it owns. The invariant
adds what the queue call and the sign-off rely on between their transactions:
`LastActive` (only the last row can be active) makes a re-point harmless to the
order; `QueueLocked` (no job appears between the queue call's read and its
write, for the worker only takes jobs away) makes the insert safe; `SignLocked`
(the checked model stands until it is signed) holds because a model that speaks
for the case is the last row, and the lock keeps acceptance and withdrawal out;
`Polled` makes the worker's claims succeed. The last also says that, with one
worker, the branch of `Claim` for a row that is no longer queued is a defence
that no behaviour takes.

### ForecastDraftProofs

From `ForecastAssumption`, for any slots, values, moves of the server, edits and
length of the queue of calculations. The module extends `MCModelPage`, so that
the theorems are about the very properties the run checks, with `ForecastDraft`
as one of the two parts.

| theorem | statement | argument |
|---|---|---|
| `ForecastStrong` | `Spec => []Inductive`: `Strong`, and `late` holds orders | one lemma per action |
| `ForecastSound` | `Spec => []ForecastIsSound` | `Inductive` |
| `PageStrong` | `MCSpec => []MCStrong`: `Inductive` while the part is the forecast | the other part leaves its variables |
| `DraftSound` | `MCSpec => []DraftIsSound` | `PageStrong` |
| `ForecastKept`, `DraftsKept` | `Spec => NoForecastIsLost`, `MCSpec => DraftsAreKept` | `Strong`, then a case per action that replaces the draft |

`DraftIsSound` alone says nothing of what is on its way, and is not inductive.
`Strong` adds it:

| part | what it says |
|---|---|
| `ServerCounts`, `ViewIsRead` | what the page holds was once the server's: its revisions begin the server's |
| `LoadIsLater` | a refresh in flight holds nothing older than what is on screen |
| `AuthorityIsRead` | the draft's authority was one of the server's, and its parent is the revision active at its head |
| `ResultsAreOfTheDraft` | a preview of the present generation, and any tornado, was calculated from the draft |
| `CallsAreOfTheDraft` | so is every calculation that somebody still waits for |
| `TimerIsOfTheDraft` | the debounce is of the draft, or of an authority that was left for a later one |
| `SaveIsOfTheDraft` | a sign-off that still counts carries the draft |
| `BusyHasCause` | a pending label has the call it waits for |
| `DirtyIsMarked` | a draft that differs from its baseline is marked unsaved, or was saved |

The proof needs the order of two rounds of requests: a refresh reads builds and
then revisions, in two requests, and the draft it lands on may have been signed
in between. That it never takes the draft back to an older authority is
`LoadIsLater` with `ViewIsRead`.

### LiveSessionProofs

From `LiveAssumption`, for any number of sessions, variants, presses and faults:

| theorem | statement | argument |
|---|---|---|
| `LiveTypes` | `Spec => []TypeOK` | `Sound` |
| `PendingQueued` | `Spec => []JournalPendingIsQueued` | `Sound` |
| `DecisionsStand` | `Spec => DecidedOnce` | `Sound`: only `Apply` decides, and only what it finds in the file; what `Generate` assumes of the agent is in the model (section 3) |
| `SessionsAlwaysAgree` | `SlowFetch = FALSE` gives `Spec => []SessionsAgree` | `Sound /\ (NoFault => Quiet)` |
| `BarsDoNotWait` | `SlowFetch = FALSE` and `"fallback" \notin Results` give `Spec => []NoBarWaitsForNothing` | `Sound /\ (NoFault => Quiet)` and `NoFault => Served` |

`Sound` holds whatever goes wrong: the types (among them that the queue has one
entry of an id and type), that a working agent has an event in hand, that an
exit is queued only while no page is connected, that what is queued or announced
has a journal, that what a journal holds as pending is queued, and that a page
shows variants only of a source that had them. `Quiet` is eight statements about
a session in which nothing went wrong:

| part | what it says |
|---|---|
| `Connected`, `HeadIsWorkedOn` | the wires stand, and the agent works on the head of the queue, the one entry that is leased |
| `AnswerIsOfTheSource`, `NoticesAreOfTheSource` | what the agent answers, and what is on its way to the page, is what it did to the source |
| `OneAccept` | an undecided session has one accept under way at most, and none while its failure is on its way |
| `AcceptIsAwaited` | a bar that shows the session awaits that accept, for that variant |
| `KeptIsAwaited` | this stays so when the source is written, until the bar is told |
| `BarIsOfTheSource` | what a bar has confirmed is in the source, and what is being fetched is the bar's session |

That a confirmed bar names the variant in the source (`SessionsAgree`) needs all
eight: the bar is confirmed by an answer that carries an id and no variant, so
that everything rests on there being one accept of that id, from its press to
its answer, in the request, the queue, the agent's hand and the notice. The
hypothesis on `SlowFetch` is the one of section 5. Six lemmas carry the proof:
`PageMoves`, what a step may do to the bar, and `QueueMoves`, `StreamMoves`,
`JournalMoves`, `SourceMoves` and `ViewMoves`, the same for the rest; each part
is then shown from these without looking at the actions again.

The first attempt met a case that two presses cannot reach, and the model was
changed for it: a discard whose `live-accept` fails (section 9). It counts as a
fault now, so that `NoFault` says what the page relies on: nothing was stopped,
broken or interrupted, and every discard was carried out.

That no bar waits for nothing (`BarsDoNotWait`) is about what may still come, and
rests on ten more statements, `Served`:

| part | what it says |
|---|---|
| `SessionsAreKnown`, `BarIsWatched` | what the bar shows is in the journal or on its way there, and is the observer's |
| `OffersExist`, `EarlyOffers` | what a bar offers was in the source; before the scout has run, a bar with a choice has all variants |
| `DiscardsAreNotResumed`, `DiscardsAreAnswered` | a session about to be discarded is not taken up again, and a bar that still shows it is about to be told |
| `WrapIsWorkedOn`, `RepliesTell` | a half-wrapped source is in the agent's hand; a reply tells how the work ended |
| `GeneratingIsServed` | a bar without variants has its generate on the way or queued, or the variants in the source, or the news of a discard |
| `SavingIsServed` | a bar that saves has its accept on the way, queued or in the agent's hand, and, once the source is written, the reply, the cleanup or the message that ends it |

`BarShows` gives the ways a bar comes to wait; `VariantsKeepComing` and
`EndKeepsComing` follow one request through its places, of which every action
takes it from one to the next. `DiscardsAreAnswered` is needed since the bar
lets a discarded session go on the answer to its own POST, not on the stream.

This attempt met two more cases (section 9): a fetch that lands under the bar of
another session, which `SlowFetch` now keeps out whoever turns the bar, the user
or the scout; and the accept of a block in a generated file, for which the
statement is false: the hypothesis on `Results` leaves it out.

### ClientProofs

From `WorkspaceAssumption`, for any cases, runs and links and any number of
gestures, drops and ends. The module extends `MCClient`; the tab is one of its
two parts, and each theorem speaks of that part.

| theorem | hypotheses | statement |
|---|---|---|
| `WorkspaceTypes` | | the types of the tab |
| `ViewBelongs` | no `RouteRaces` | `ViewBelongsToSelection` |
| `TabDraftStays` | no `RouteRaces` | `MCSpec => TabDraftKept` |
| `SelectionStays` | and no `AskRaces`, no `EarlyBack` | `SelectionSticks` |
| `RunEndShown` | and `\E h : OneHome(h)` | `RunEndIsShown` |
| `TabCoherent` | the same | `MCSpec => []TabStaysCoherent`, the invariant of the run |

Each hypothesis but the last names an interleaving in which the statement is
false (section 9). `OneHome` says that no run is named with two cases by the
links, the server's cases and the intakes; without it a run selected for two
cases in turn is never read. It does not say that the run belongs to the case a
link names it with: a wrong link is allowed, and the run has one.

The statements are about a tab at rest and say nothing of what is on its way.
The invariant is built in three layers, each kept with the help of the one below:

| layer | parts | what it says |
|---|---|---|
| answers | `Sane`, `Fitting` | a request that no later one overtook is of the selected case and run, one of its kind; what is on show is of the selection; a timer was set under the present selection |
| selection | `Early`, `Aims`, `Rests`, `Trails`, `Parts` | who moves next between the address bar, the router, the claimed address and the state |
| | `Names`, `Strays`, `Unread`, `Asks`, `Wanted` | what the claimed address names, and where the case asked for last is: selected, or where the address bar leads |
| run | `Homed`, `RunRan`, `Begun` | which case a selected run is of; an effect of the run has run where that of the route has; a new run is started by one write |
| | `Loads`, `Hears`, `Ends`, `Streams` | the selected run is on show, being read or in error; an end the tab has not read yet has a stream or a read to report it |

Every handler of the tab is a composition of state changes, and so is the
proof: one lemma per helper of the code says which fields it may change
(`...Fields`), one per action and layer that it keeps it (`...Stays`,
`...Chosen`, `...Seen`).

The proof broke three times for a reason in the code: the question about a draft
that an intake overtakes (`AskRaces`), the run effect that does not depend on the
case (`OneHome`), and a model that ran effects later than React does, which
flushes those of a discrete event with it; the model was changed (`Flushed`).

### ReportDraftProofs

From `ReportAssumption` and `Slips = {}`, for any number of edits, opinions,
presses and events:

| theorem | statement | argument |
|---|---|---|
| `ReportTypes` | the types of the report editor | `RInv` |
| `ReportSound` | `MCSpec => []ReportStaysSound` | `RInv` |
| `ReportStepsKept` | `MCSpec => ReportStepsSound` | `RInv`, then a case per step of the server |

Beside `RInv` the invariant has `LInv`: an operation that was left is a well-formed
order, and leaving counts as an event. `RInv` has eleven parts:

| part | what it says |
|---|---|
| `ReportTypeOK`, `Bounded` | types; versions are of revisions there are |
| `Placed` | saves and operations belong to the visit, only the first save is under way |
| `Gens` | a save of the present generation carries the text on screen; generations ascend |
| `Answers` | a save expects no version beyond those shown, and what it is answered is its own revision |
| `Screen` | what is not marked unsaved is the saved revision |
| `Copied` | the recovery copy is of the screen, or on offer, or was given up |
| `Worked` | what was typed is in a revision or in the copy |
| `Operated` | an operation under way still finds what it began on |
| `Saving` | a label that says so has a save of the present generation to come |
| `Alone` | with nobody else about, the saves follow each other on the head |

`ReportStaysSound` is not inductive. That no typed text is lost rests on the copy
(`Worked` with `Copied`), which is dropped only by an answer to a save of the
present generation, which is of the text on screen (`Gens`), the more so as a
save in the chain takes its base from an answer and not from its queueing
(`Answers`). That an analyst alone meets no conflict needs the whole of `Alone`:
the chain has one writer, its head expects the server's head, and an answered
restore or change request counts as the head until it lands.

The attempt to show `Operated` met the restore of section 9, which needs more
steps than the run has; it is under the slip "pending" now, as adopting a shared
draft and requesting changes are.

### Only model-checked

- Liveness (`RunSettles`, `EmptyGateClears`, `ModulesEnd`, `JobsSettle`,
  `ApplyEnds`): needs fairness and ENABLED, which the prover does not reason
  about.
- `StylesAreTheBrowsers`, `EnginesAgreeSoundly`, `FileIsSound`,
  `TheVariantIsPut`: the cascade resolves variables and the scripts search lines
  by recursion; what a recursive definition computes for every input is
  induction over data.
- `RememberedWasTold`, `FindingsReachTheAgent`, `IgnoresAreNarrow`: the hook
  walks its targets with a fold, the same induction.
- `SheetIsSound` is about two given worksheets, a calculation.
- `EditsAreSafe`, `PageIsSafe`, `SteerEndsByItsOwn`: not proved.

## 8. Not modelled, and why

- LangGraph, the checkpointer, SQLAlchemy, React and the dev server: external.
  What the code relies on is stated as actions and marked external in
  `PROJECT.json`.
- Deliverables on the server, the audit chain, admission and `aclose`, snapshot
  upgrade and switch, the stages of a compiled route: planned, not written.
- The answers of the resume endpoint. DECISIONS 12.22 wants a resume without
  effect to be answered `RESUME_NOT_APPLIED`; `Engine.resume` does so only when
  the thread is held. The model has no reply, so no run shows it.
- Tickets of ended runs: `finalize_success` supersedes none, so that a crash
  between `pause_run` and the checkpointed interrupt may leave an unconsumed
  ticket on a succeeded run; `AtMostOneTicket` bounds them.
- A second concurrent inline request: `resume` looks at the lock and then
  awaits, so two requests can both pass; the thread lock still serialises them.
- Of model jobs: which refusal a queue call meets, overlay builds, rebase, an
  export refused for a changed runtime, freeze jobs.
- Provider adapters, HTTP handlers, intake, loan universe, renderers, files and
  configuration: encoding, validation and I/O with no protocol of their own.
  Model calculation and palette arithmetic: floating point. Charts: drawing.
- Of live mode: how the file of an element is searched, the parsing of
  attributes, the design panel, the injection of the script tag, prompts.
- Of the hooks: parsing of tool inputs, globs, manifests of harnesses. Of the
  detector: selectors other than by type and class, @-rules, the regex engine,
  overlays, the visual contrast scan, the design-system rules.
- Generated and test code: `detect-antipatterns-browser.js` is built from the
  detector's modules; smoke scripts drive the program and are not part of it.

## 9. What the modelling met

Behaviour of the code that a reader should know of. Where a property would not
hold because of it, the model keeps the behaviour in and the property says what
it excludes, or a named constant lets it happen and the runs leave it out.

Runs, ledger and models:

- `complete_node` does not read the run's status (`storage/runs.py:1144`): a
  module whose provider call was out when the run was finalized still commits
  behind the terminal event. `OnlyOpenCallLands` shows that this is all.
- The retry timer's own first store read is not handled
  (`engine/runtime.py:327`): a fault there drops the retry, and the run stays
  `running` until the process restarts. A fault in the inline drive of
  `start_run` leaves a `queued` run with no continuation.
- A create that succeeded, followed by an active-time charge that refuses, drops
  the answer before it is reconciled (`engine/loop.py:333`).
- `run_pending` reads the identity of a build before `run_build` claims the row
  (`worker.py:49-55`): a re-point in between and a calculation that raises leave
  the row `BUILDING` until the worker restarts.
- The re-point of the standing job is a compare-and-swap whose result is ignored
  (`models/service.py:1661`): the newer accepted snapshot can be left without a
  build.
- A case whose pinned source is dropped again in an intake may resolve to another
  lineage (`models/service.py:743`, 854-871). Its READY build then no longer speaks
  for it, and nobody queues another until an analyst does.
- `queue_export` returns early for an export that is READY, and otherwise writes
  QUEUED later without looking again (`models/service.py:2651-2666`): a worker
  that publishes in between has its READY export overwritten, and exports once more.

Workspace, model page, report studio:

- An answer that lands while a link is being followed, or Back before the
  register has loaded, can leave the tab on another case than the one asked for
  (`RouteRaces`, `EarlyBack`). An intake answered while the question about a
  draft is open may adopt the very case the question is to open; the answer to
  the question then selects that case once more, which clears what is shown and
  runs no effect that would load it (`AskRaces`, `Workspace.tsx:350-377`). The
  effect that loads a run depends on the run and on whether a case is authorized,
  not on which (`Workspace.tsx:769`): a run selected by a wrong link and then by
  its own case is not loaded for the second (`OneHome`). A failed case list keeps saying "loading"; the accept
  dialog outlives its run (`Workspace.tsx:985-1012`); two writes share one
  pending action.
- A tornado of the earlier build stays on screen when a dirty draft is
  preserved; a preview for a superseded authority overwrites the "Authority
  changed" message; "pending" stays after an edit during a save.
- Report: five interleavings can lose or overlay work (`Slips`: return before
  the old saves end, an operation beside a pending save, a change request under
  way, an ignored recovery, a stale base); a freeze queued before a reload is
  never followed up; an applied save whose answer is lost conflicts with itself. After
  a save that failed, Retry queues the present generation once more
  (`ReportStudio.tsx:407-411`), so that a slow save may be under way while the
  label says `SAVED` and a restore is allowed; answered after the restore
  (510-525), it puts text and version back to the older revision. The poll of a
  freeze in between would then publish what is no longer on screen (`Slips`,
  "pending").

Live mode:

- A press of Discard can be followed by one of Accept before it is answered. When
  the discard then fails, its `error` resets the bar whatever it shows
  (`live-browser.js:6228-6242`): a bar that awaits variant 1 offers to cycle
  again while that accept is still queued. The user accepts variant 2; the helper
  drops it as a duplicate of the id and type (`live-server.mjs:146`), the agent
  writes variant 1, and its answer, which names no variant, makes the bar confirm
  variant 2 (`live-browser.js:7569`). A confirmed bar goes back to cycling in the
  same way. The proof of `SessionsAlwaysAgree` broke at this step; it takes three
  presses, more than the run has.
- `injectVariantsFromSource` asks nothing again after its fetch (`SlowFetch`,
  `live-browser.js:5510`): when the user has started another session by then, or
  the scout has resumed one, the variants of the first come under the bar of the
  second. Two sessions reach it; the proof of `BarsDoNotWait` met the scout's
  case, where the bar's accept is for a session that was decided before and is
  answered `agent_done`, which the page ignores.
- That answer is also the one to an accept of a block in a generated file
  (`live-accept.mjs:136-144`, `live/completion.mjs:7`). `agent_done` is ignored
  because a carbonize cleanup is in flight and will end it
  (`live-browser.js:6217-6221`); here none is, and `live.md:468` lets the agent
  poll again at once: the bar stays `SAVING` until the page is reloaded
  (`"fallback"` in `Results`).
- On the wires: an `error` for any session resets the bar
  (`live-browser.js:6239`); a discard's answer marks whichever session is current
  (7737); a confirmed bar may not show the source after a fault; `SAVING` can stay
  after one (6218); a stop of the helper loses what was queued without an id; a
  late `done` acknowledges a queued accept; an exit races a reconnect.
- Source: a redelivered generate nests a second block of the same id; a staged
  edit on another element with the same text is baked into the wrong one; the
  Svelte manifest's lines go stale under a second session; shutdown removes the
  component directories of open sessions (`live-server.mjs:969-975`).
- Picker: nine interleavings named in `LivePicker` (`Slips`), among them a
  toggle while a bar is open (9914, 9942), an arrow key in insert mode (6643) or
  while listening (6645), a stash that is slow (3653), variants, errors or
  failures that come late, an exit while busy (9995).
- Manual edits: a discard from another tab during a commit is undone by its
  rollback; the Apply pill stays disabled after a rollback until a reload
  (`live-browser.js:4165-4168`); an agent may write after its timeout
  (`live-copy-edit-agent.mjs:49`); "Keep fixing" after the state expired, and a
  repair that uses another page's transaction.

Hooks and detector:

- Two hooks at one time overwrite each other's cache (`hook-lib.mjs:542-566`), a
  reset is undone by a hook in flight, a torn read is an empty cache; only the
  first pending file is reminded of, and from the remembered findings, fixed ones
  included (1395-1428); findings beyond the cap are remembered but not shown;
  the glob `**/x.tsx` matches `src/myx.tsx` (669-702); a malformed configuration
  is overwritten; `detector.extensions` is dropped by the admin commands.
- The cascade's nine differences (section 3; `css-cascade.mjs:239-242`, `442-451`,
  `494-495`, `528-545`, `648`, `950` among them) and the engines' drift
  (`Differs`): backgrounds between alpha 0.1 and 0.5, the average of a glow's
  gradient, `animate-bounce`, card surfaces by class, broken images.
