# A verification of PickMyFruit

PickMyFruit (`src/`) lets growers list surplus produce and gleaners contact
them. It is one Node process (SolidStart, SQLite through libSQL) with a durable
workflow runtime of its own, *kokoto* (`src/packages/kokoto`), under the parts
that mail people, and pages whose state is spread over handlers, effects,
timers and calls. This directory holds TLA+ models of the parts whose
correctness depends on interleavings, crashes, late answers and retries, the
TLC runs that check them on small instances, and TLAPS proofs for all
instances.

    tlc -config MCKokoto_safety.cfg MCKokoto.tla     # a run
    tlapm KokotoProofs.tla                            # the proofs

## 1. Inventory

Paths are below `src/packages/kokoto/src` (K) and `src/apps/www/src` (A).

| Component | State | Operations | What is hard | What makes it correct |
|---|---|---|---|---|
| Kokoto runtime (K `runtime`, `sql`, `worker`, `registry`, `schema`) | tables `_dc_workflow`, `_dc_step`, `_dc_executor`; per process `dispatcherActive`, `stopping`, `inFlight`, `perQueueInFlight`, the worker promises and each worker's step cache; timer, `wake` listener, `draining`, `drainRequested` | `start`, `stop`, `startWorkflow`, `cancel`, `drain`, `scheduleDispatchSoon`, dispatch tick, `claimPending`, `extendLeases`, `reclaimExpired`, `runWorkflow` with `step` and `txStep`, `finalizeWorkflow`, `requeueWorkflow` | several processes on one table (rolling deploy), leases, a crash between an effect and its log row, writes by id from a worker that lost its row, any await may throw, wake-ups lost in a tick | a logged step never runs again; a txStep commits once; order of steps; an ended row stays ended; caps; bounded attempts; rows settle; the loop stays alive |
| Workflow handle (K `runtime` `result`) | none (polls the row; `wake` shortens the poll) | `result`, `status`, `cancel`, `getHandle` | timeout against a late success, a wake before the listener | the answer is the row's outcome, or a timeout |
| Inquiry submission (A `api/inquiries.ts`, `workflows/submit-inquiry`) | `inquiries`, a workflow row per gleaner, listing and UTC day | the handler's checks, enqueue, wait; mail, then insert | checks read before awaits, double submits, midnight, timeout | one inquiry per day of submission; an answer tells the truth |
| Boot and shutdown (A `server-boot`, `lib/kokoto`, `lib/migrations`) | `startPromise`, signal handlers | migrate, `startRuntime`, `stopRuntime` and `exit` | a boot that fails half-way | no work is taken before the gate and after stop |
| Resend sync (A `workflows/sync-user-to-resend`, `lib/resend-contacts`, `lib/auth`), topic switch (A `routes/notifications`) | Resend's contact (external), a workflow row per user and revision; the switch's signals | auth hooks enqueue, upsert with retry; optimistic switch with roll-back | racing syncs, an opt-out in between, lost answers, pages left and read while a call is under way | opting out is final; a lone last edit shows; the switch tells the truth |
| Listing photos (A `lib/listing-photo-upload`, `lib/storage`, `api/listing-photos`) | `listing_photos` rows, raw and public objects, temp files, upload lock | upload, delete | a crash or a failing call between object and row, racing for the last place, full queue | no row without its objects; no silent orphan; the lock runs one at a time and never sticks |
| Listing edits (A `api/listings`, `routes/listings.$id`, one-click link) | `listings` row with `updated_at` in seconds; per control a display, a saved value and a timer | `updateListing` (If-Unmodified-Since), `markListingUnavailable` | lost updates, unversioned writer, lost and reordered answers | a page that was overtaken never writes; the display ends up as saved |
| Page of a listing (A `routes/listings.$id`, `AddressRevealSection`, `ListingPhotosSection`, `api/listings` `revealListingAddress`) | reveal state, countdown, busy flags; `address_reveals` | reveal; add, delete after a countdown, cancel | policy, session and photos change behind an open page | an address is released only while allowed, with its record; only the counted-down photo is deleted |
| Address autosuggest (A `components/AddressAutosuggest`) | debounce timer, abort controller, request number, list, the position's lookup | input, fetch, blur, keys, prepopulation, remount | late responses, a position that arrives while the user types | the list belongs to the text; the coordinates to the address shown |
| Listing form (A `components/ListingForm`, `routes/api/listings.ts`) | form state, `sessionStorage`, URL parameter | submit, geocode, sign-in round trip, auto-submit, POST | three ways to start the same submission, lost answers | one submission lists once; cancel withdraws |
| Inquiry form, magic link (A `components/InquiryForm`, `MagicLinkWaiting`) | form state, `sessionStorage`, URL parameter | submit, sign-in round trip, name step, auto-submit | an effect that may run twice, another listing's link | one link sends once; a note goes to its listing; cancel withdraws |
| Home page and its map (A `routes/index`, `ListingsMap`, `MapLibreGL`, `lib/stale-asset-recovery`) | signals, the map object and its layers, the area in the address bar, the reload marker | import, load, zoom, choose, show all, centre; reload once | library, layers, listings and navigations arrive in any order; a chunk that stays missing | the map shows what was asked for; no map outlives its component; no reload loop |
| Middleware, health check, telemetry, other pages, geodata, seeds | little or none | | | not modelled (stateless filters, rendering, configuration) |

The browser calls server functions; `submitInquiry` enqueues a workflow and
polls its row; the auth hooks enqueue a sync; processes of kokoto meet only in
the SQLite tables; the pages' handlers meet in their component's signals, in
`sessionStorage` and in the URL. The full list of hazards, each at its line, is
in `PROJECT.json`, with the properties that cover it.

`deleteListingById` has no caller in the application, so a listing is not
deleted in any model.

## 2. Plan

All of it is done; each step was modelled, checked and then, where listed in
section 5, proved.

1. `Kokoto`, its abstraction `DurableWorkflow`, the refinement, the inductive
   invariant, the proofs.
2. `InquirySubmission` on top of `DurableWorkflow`.
3. `DispatchLoop`: timer, wake and tick of `scheduleDispatchSoon`, the manual
   mode's `drain`, and the poll loop of `result()`.
4. The server's other writers: `ListingPhotos`, `ListingEdit`, `ResendSync`.
5. The tab: `AddressField`, `InquiryForm`, `ListingForm`, `ListingPage`,
   `HomeMap`.
6. Proofs of every safety property of 1 to 5: server first, then the tab.

What one would do next: a composition of `InquiryForm` with
`InquirySubmission` in place of the answers its theorems allow, and theorems
that carry a property of the one through to the other.

## 3. The modules

    DurableWorkflow <-- KokotoRefinement -- Kokoto        DispatchLoop
          ^                                 KokotoInv
          |
    InquirySubmission   InquiryForm   ListingForm   ListingPage   HomeMap
    ResendSync          ListingPhotos ListingEdit   AddressField

`MC<module>` holds the constants of a module's run, `<module>Proofs` its
proofs. Three pairs of modules are proved together, in one module that extends
both: `InquirySubmission` and `ResendSync`, the two workflows
(`InquirySubmissionProofs`); `ListingForm` and `AddressField`, the form and a
field of it (`ListingFormProofs`); `ListingPhotos` and `ListingEdit`, the
server's writers to a listing (`ListingProofs`). The second of each pair has
names of its own for what every specification has (`SyncInit`, `SyncNext`,
`SyncSpec`, `SyncTypeOK`, `syncVars`, and so on with `Address` and `Edit`). One
action is one operation, handler or step, from one await (timer, event,
navigation) to the next. Definitions marked *Faulty variant* are mistakes the
code could contain; no action uses them. Each stands in `PROJECT.json` under
`mutants`, with the property that notices it when it takes the place of the
definition after it.

### Kokoto: the runtime in auto dispatch mode

One atomic step is one SQL statement together with the JavaScript up to the
next await. Every await is a point where other processes, workers and clients
may step in, where the process may die (`Halt`) and where the call may throw
(`RefuseBoot`, `TickFails`, `BodyThrows`, `AbandonRow`).

| Model | Code |
|---|---|
| `status`, `owner`, `lease`, `due`, `attempts`, `cancelReq`, `startedAt` | columns of `_dc_workflow`; `lease` says only whether `claim_expires_at` is NULL, ahead or past, `due` whether `scheduled_for` is past, `startedAt` which claim's clock reading it is |
| `stepLog` | success rows of `_dc_step` (failures are not persisted) |
| `phase`, `lane`, `inFlight`, `used` | a process: progress of `start`/`stop`, where the dispatch tick is in its loop over queues, the `Set` and the `Map` it counts with |
| `workers` | the running `runWorkflow` calls, with what they captured: the attempt number and `started_at` of their claim, and the step cache |
| `effects`, `late` | history for the properties, read by no guard |
| `Register`, `RefuseBoot`, `Start`, `Stop`, `StopReturns`, `Halt` | `start()` before the gate, a failing gate or statement, the reclaim and the activation; `stop()` before and after its await; the process ends |
| `Enqueue`, `Cancel` | `startWorkflow`'s INSERT, `requestCancel` |
| `BeginTick`, `ClaimLane`, `TickFails` | `dispatchTick`: heartbeat, one claim for each queue and one for rows without a queue, a throw |
| `LoadSteps`, `ReplayStep`, `BeginStep`, `RunStep`, `RecordStep`, `CommitTxStep`, `BodyThrows`, `Succeed`, `FinishCancelled`, `Retry`, `FinishError`, `UnknownWorkflow`, `AbandonRow` | `runWorkflow` |
| `BackoffElapses`, `LeaseLapses` | the clock |

Abstractions: a workflow body is its sequence of `NSteps` steps and lets the
errors of a step through, as both bodies of the application do. `claimPending`
and the `launchWorker` calls after it are one step; a claim whose reply is lost
behaves as a claim followed by `AbandonRow`. Which ready rows a claim takes
(`ORDER BY`) is left open. Ids, payloads and their size check, `_dc_executor`,
legacy `error` step rows and telemetry are left out.

**Leases.** `LeaseLapses` carries the one timing assumption: a live executor
with a worker in flight renews its leases (every second, for thirty). With
`Wedge = TRUE` it is dropped: a dispatcher may be held up for longer than a
lease, and the guarantees below no longer hold.

### DurableWorkflow, KokotoRefinement

The promise of kokoto's README: rows are open or ended, steps are logged once
and in order, external effects happen at least once, a txStep's exactly once.
`KokotoRefinement` maps `pending` and `running` to `open` and hides executors,
claims, leases and attempts; `KeepsPromise` is the abstract specification.
`KokotoInv` is the inductive invariant.

### DispatchLoop: when the runtime looks for work

`Kokoto` lets a tick begin at any time; here it begins when the code begins it.
`timer` and `listening` are the two ends of `scheduleDispatchSoon`'s race
between poll timer and `wake`; a wake that comes while a tick is under way
finds no listener (`Kick`, `Cancel`, `WorkerEnds`). `Tick` visits one lane per
step and uses the clock reading it began with (`late`). `drain` and
`requested` are `draining` and `drainRequested` of manual mode, with
the microtask between the end of `runDrain` and the `finally` of `drain()` as a
state of its own (`"ending"`). `Ask`, `ReadRow`, `Sleep` and `PollFires` are
the loop of `result()`. `KickFails` is `startWorkflow` throwing after its INSERT
(the lookup by idempotency key throws, or the INSERT's answer is lost): the row
is there and nobody is woken. `excused` is history: rows a drain saw but could
not claim (full lane, tick that threw, backoff), or that no drain was asked for
because their `startWorkflow` threw.

### InquirySubmission

Requests (`pc`: how far the handler is or what it answered) against workflow
rows that behave as `DurableWorkflow` says, with the two steps of
`submitInquiryWorkflow` and the unique idempotency key. Time is counted in
fractions of a UTC day; `Tick` lets a request straddle one boundary only, which
stands for midnight, while a workflow may be delayed arbitrarily (it waits for
a boot if its process dies). A server death answers nobody (`lost`). One
listing; a request for a listing that does not exist ends at once and is left
out, and so is Resend's own deduplication by `Idempotency-Key` (external).

### ResendSync

One user. `SaveUser` is the auth hook after a user was created or renamed, `Enqueue`
its `startWorkflow` with the revision as idempotency key, `Claim`, `Get`,
`Post`, `Patch`, `PostConflicts`, `Answer`, `Finish` the upsert, one call to
Resend or one statement per step: a row whose step is logged (`logged`) does not
call Resend again. First and last name are kept apart, since `splitName` gives
a name of one word no last name, which `PATCH` then leaves as it was. `Refuse`
and `Unreachable` are the two kinds of failure (final, or retried within the
step and then by the row); `Abandon` is a load, requeue or finalize that throws,
after which the row stays `running` and its worker is gone. `Crash` ends the
process; the boot after it reclaims the rows whose lease has lapsed by then, any
subset of those running, and the rest wait for a later boot. The rows behave as
Kokoto's rows do; the `resend` queue runs `Concurrency` of them.

`LoadPage`, `Toggle`, `PatchTopic`, `TopicCallEnds`, `TopicCallFails` are the
notifications page in view. It may be left or loaded again while its call is
under way, which then goes on (`LeftBehind`), and other tabs call too: `others`
holds what such calls ask for (`OtherCall`, `OtherPatches`, `OtherEnds`).
A page that is returned to may first show the answer the router has kept.
`alone`, `troubled` and `quiet` are history.

### ListingPhotos

`pc` is how far an upload's handler is: ownership, staging the file, depth
check, the promise chain of `withUploadLock` (`after`, `queueTail`,
`queueDepth`), original, published copy, row, clean-ups, unlink. Every storage
or database call may throw, an upload that throws may have stored something.
`DeleteRow` and `RemoveStored` are deletion, row first. `Crash` keeps only
`rows`, `raw`, `pub` and `temp`. Decoding and formats are success or failure.

### ListingEdit

Per page and control: what it shows (`display`), what it believes saved
(`saved`), its pending timer, an error; per page `liveUpdatedAt`. Three kinds
of control: radio buttons, a checkbox that saves at once, texts that save after
a pause or on blur. `calls` are the requests and answers on the wire, in any
order, lost if never received. `Update` and `Conflict` are
`updateListingById`'s compare-and-set on the second, `ClickLink` the signed
link, which writes without one. `overtaken` and `hasty` are history.

### ListingPage

The two halves of the page that are not fields. A task is a call: `ReadSession`,
`ReadListing`, `ReadPhotos`, `Record` and `Revealed` are
`revealListingAddress` one database call at a time, `PhotoCallServed` to
`Refreshed` the photo calls and the reload after them. `Elsewhere` is everybody
else: owner withdraws the release, session ends, photos come and go.
`timeouts` holds every countdown that exists, `timeoutId` the one the code
could still stop.

### AddressField

`AddressAutosuggest` and what `ListingForm` keeps of it while manual entry or
the magic-link form unmount it. `requests` are on the wire until answered;
`newest` is the one whose number is `requestSeq`; a lookup of the position
passes through two waits (`lookup`). Texts and labels are members of small
sets; texts too short to search are one value `Empty`.

### InquiryForm and ListingForm

One tab each, with `sessionStorage`, the URL's parameter, the session the page
has seen, and the handlers under way as tasks that outlive their form but not
the document. Links may be opened in the tab, tokens typed, forms left and
returned to, pages reloaded. In `InquiryForm` the server answers as the
theorems about `InquirySubmission` allow. In `ListingForm` each mount is a form
of its own, and a POST may create a listing whose answer is lost.

### HomeMap

`Mount`s of the map with their imports (`Imported`, `ImportFails`), the map's
load or error, zooming with its two events, circles of a resolution, choosing
an area through a navigation that takes effect later (`Navigated`), navigations
of others that leave the page mounted (`FollowLogo`, the header's link or
signing out; `Traverse`, Back and Forward), the position asked for, listings that change (`Reloaded`), and the tab's reload
with its marker (`Reload`, `WindowLapses`). `zoomToH3Resolution` is computed,
with its clamping, as the code does.

## 4. The runs

| Run | Instance | Properties, and what they say | About |
|---|---|---|---|
| `kokoto_safety` | one row (a step, then a txStep), two boots, two attempts | `SingleWorker`, `TxExactlyOnce`, `CancelStopsSteps`, `AttemptsBounded`, `NoClaimAfterStop`, `KeepsPromise` (the refinement), `Settles` (with fairness every row ends or is left `running` without a worker) | 1 min |
| `kokoto_caps` | four rows without steps, two of them on a queue of one, global cap two, two attempts, one boot; rows of a kind are symmetric | `ConcurrencyCaps`, per queue and per executor | 2 min |
| `loop_safety` | two rows, one queue of one, a second lane; one `result()`; calls of `startWorkflow` and a tick that throw, a retry; both modes | `LoopInv` (never dead, never doubled; no drain request lost), `DrainLeavesNothingElse`, `ReadyRowsRun`, `ResultComesBack` | 30 s |
| `inquiry_safety` | two requests, two gleaners and the owner, two rows, two days of two units | `OkMeansDone`, `RefusedAfterContact`, `OneInquiryPerDay` | 1 min |
| `sync_safety` | two revisions that may sync at once, the second name of one word, two attempts of two tries, two crashes; the page of users whose syncs meet no trouble | `SyncInv` (`RaceNeverFatal`: a sync fails only if Resend refused or was not reached, the database failed or a process died; `SwitchTellsTruth`: a switch without an error is true, unless its page was read or used among calls of others), `LastEditShows`, `OptOutKept`, `SyncEnds` (a sync ends or is left `running` without a worker) | 30 s |
| `photos_safety` | three uploads, two listings, limit two, queue of two, one crash | `RowsHaveObjects`, `NoSilentOrphans`, `PlacesKept` (limit and distinct orders), `QueueInv` (exact depth, one at a time, never stuck) | 20 s |
| `edit_safety` | two pages, a control of each kind, two changes and two calls, two seconds | `PatientOwnerSeesSaved`, `OvertakenNeverWrites` | 35 s |
| `page_safety` | two photos, limit two, two calls at a time, any viewer | `PageInv` (`ReleasedWhileAllowed`, `RevealIsRecorded`, `OneChangeAtATime`), `OnlyCountedDownDeleted`, `NothingHangs` (`RevealEnds`, `ControlsComeBack`) | 30 s |
| `address_safety` | two places, two texts, three requests on the wire | `SelectionIsShown`, `SearchInv` (`ResultsAreCurrent`, `OpenWhileSearching`, `NoticeIsTrue`), `TheirsOnceTouched` | 1 s |
| `inquiryform_safety` | two listings, two handlers at a time, one opened link | `EndTellsTruth`, `CancelWithdraws`, `FormInv` (`NoteOnItsListing`, `AutoSubmitOncePerLink`, `SentIsNotStored`, `SendingIsUnderWay`) | 1.5 min |
| `listingform_safety` | three mounts, two submissions, three handlers, one link | `OnceEach`, `CancelWithdrawsListing`, `ListingFormInv` (`OneAtATime`, `SubmittingIsUnderWay`, `ListedIsNotPending`, `AutoSubmitOncePerLink`) | 15 s |
| `homemap_safety` | two listings in one coarse cell, zoom levels of two resolutions, two mounts | `MapInv` (`NoMapLeftBehind`, `GroupsFitZoom`, `SelectionIsOutlined`, `PickedAreaFitsCircles`, `CircleCountsItsCards`, `MapIsWhereAsked`), `SkeletonEnds`, `ReloadsStop` | 2 min |

The invariants that end in `Inv` are conjunctions of named parts, each stated
with its comment in the module, and include the module's `TypeOK`. Kokoto's,
InquirySubmission's and ListingEdit's type invariants are proved instead of
run, as are `StepOnce`, `TerminalStable` and `InOrder`.

**Bounds.** Kokoto: boots are a finite set and never come back, which bounds
crashes; `MaxAttempts` bounds attempts per boot. Two boots are enough for a
claim, a loss and a second claim by another or an overlapping executor; one row
is enough for the properties of a row, since rows meet only in the caps, for
which four rows exceed both caps. Two steps give an order and both kinds. Every
boot of these instances registers the workflow of every row, so the one action
no run takes is `UnknownWorkflow`; a third boot that does not is out of TLC's
reach together with `Settles`, and the proofs cover the action.
DispatchLoop: two rows fill a queue of one and leave one behind; `MaxFails`
and `MaxRetries` bound throws and backoffs.
InquirySubmission: two requests and two units per day give double submits,
midnight and the 24 hour window; `MaxClock` and `MaxSends` bound the clock and
repeated mails.
ResendSync: two revisions race; a third would repeat the race; two crashes let
a later boot reclaim what an earlier one left. The second name has one word
(`OneWord`) and follows one of two. With `Apart` the page is used only by users
whose syncs have met no failure and no crash, and failures come only where the
page is as it was first loaded: page and rows meet in nothing but whether there
is a contact and that its creation sets the topic to its default, which happens
without any failure too. The theorems hold for either value of `Apart`.
ListingPhotos: three uploads exceed the queue of two and the limit of two.
ListingEdit: two seconds tell "same second" from "later"; two calls can be
reordered and lost.
ListingPage, AddressField and the forms: as many calls at a time as can
overtake each other, and as many mounts or links as it takes to come back twice
(`MaxTasks`, `MaxRequests`, `MaxForms`, `MaxClicks`, `MaxSubmissions`).
HomeMap: the zoom levels stand on both sides of a change of resolution; two
mounts let a late library meet the next map. An entry of the history may be of
any area, so no bound on its length is needed.

The runs set CHECK_DEADLOCK FALSE because these systems may stop: all boots
gone, all requests answered, all bounded resources used.

**Fairness.** *Kokoto*: `scheduleDispatchSoon` schedules the next tick after
every tick, also after a throw (weak fairness of `BeginTick`); a statement of a
tick may throw, but not for ever (strong fairness of each queue's turn, since
`TickFails` disables it); awaited calls settle (weak fairness of each row's
worker); time passes (`BackoffElapses`, `LeaseLapses`). Nothing is assumed of
boots, crashes, exits or clients; `Settles` speaks of executors that stay up.
*DispatchLoop*: timers fire, statements and workers settle, time passes; here
nothing is assumed of ticks as such, which shows that the code's own timer
yields what Kokoto assumes of `BeginTick`, and of `startWorkflow` only that it
comes to its wake or throws. *ResendSync*: a ready row is claimed (Kokoto's
promise) and a call to Resend or a statement is answered or fails; nothing is
assumed of crashes or boots. *ListingPage*:
calls are answered or fail, timers fire. *HomeMap*: imports settle, a map that
was made loads or reports an error, a reload that was asked for happens. The
other modules state no liveness and no fairness: what they could promise
depends on the visitor.

## 5. The proofs

Each is for arbitrary values of the module's constants, from the assumption
named in the module (`ConstantsOK`, `InquiryConstants`, ...) alone; Kokoto's
below `TypeCorrect` also assume `~Wedge`.

| Module | Theorems |
|---|---|
| `KokotoProofs` | `TypeCorrect` (`[]TypeOK`, also when wedged), `OneWorkerPerRow`, `InductiveInvariant`, `TransactionsOnce`, `StepsInOrder`, `CancelIsPrompt`, `CapsHold`, `AttemptsAreBounded`, `StopIsFinal`, `LoggedStepsAreDone` (`StepOnce`), `FinishedForGood` (`TerminalStable`), `PromiseKept` (the refinement) |
| `DispatchLoopProofs` | `InductiveInvariant`, `LoopStaysAlive`, `DrainIsComplete` |
| `InquirySubmissionProofs` | `InductiveInvariant`, `TypeCorrect`, `ToldTheTruth`, `RefusedForAReason`, `AtMostOneADay`; of `ResendSync`: `SyncInductiveInvariant`, `SyncsAreTruthful`, `LastEditWins`, `OptOutStands` |
| `ListingProofs` | of `ListingPhotos`: `InductiveInvariant`, `NoBrokenPhotos`, `OrphansAreKnown`, `PlacesAreKept`, `LockWorks`; of `ListingEdit`: `EditInductiveInvariant`, `EditTypeCorrect`, `PatienceRewarded`, `NoLostWrite` |
| `ListingFormProofs` | `InductiveInvariant`, `ListedOnce`, `FormIsSound`, `CancelIsFinal`; of `AddressField`: `AddressInductiveInvariant`, `AddressTypeCorrect`, `SubmitsWhatIsShown`, `SearchIsSound`, `UserWins` |
| `InquiryFormProofs` | `InductiveInvariant`, `EndIsTrue`, `FormIsSound`, `CancelIsFinal` |
| `ListingPageProofs` | `InductiveInvariant`, `PageInvHolds`, `DeletesOnlyCountedDown` |
| `HomeMapProofs` | `InductiveInvariant`, `MapInvHolds` |

So every safety property that a run checks, invariant or action property, is
also proved.

**Kokoto.** `ClaimInv` says that a worker's row is `running`, owned by its
live process, under a valid lease and in that process's `inFlight`, and that no
other worker has it. It needs all these parts: `Start` reclaims only rows
without a valid lease, `LeaseLapses` spares the rows of busy live executors,
and a claim takes only `pending` rows. Given it, finalizing and requeueing by
id can only hit the worker's own row, and nobody else writes to the row's step
log, so (`StepInv`) a loaded cache *is* the log, the worker's position is where
the log ends, and a step that runs is not logged. `CancelInv` adds that a
worker past the check has seen no cancel request that a side effect followed.
The refinement and the action properties follow step by step: three actions
write the log, and every other changes the visible state of at most one row.
`CapInv` counts: `inFlight` stays under the global cap, `perQueueInFlight` is
at least the queue's rows in flight and at most its concurrency, and workers
map one to one into `inFlight`. `AttemptsInv`: a pending row has had one
attempt fewer than its bound, and each reclaim is paid for by a boot.

**DispatchLoop.** `LoopInv` is inductive with `ModeInv` (each mode leaves the
other's machinery alone). For a drain, `DrainInv` says of every ready row that
its `startWorkflow` has yet to ask or threw before it did, or it was left behind
and accounted for, or the tick under way has its lane still ahead.

**InquirySubmission.** `SubmissionInv` adds what the three statements rest on:
a row has its key from the time it is enqueued and shares it with no other
(`KeyInv`), a row that succeeded has a full log, and a log that holds a step
has its effect (`LogInv`); each inquiry was written by the one commit of its
row's txStep (`InquiryInv`); a handler waits for a row of its own gleaner
(`HandleInv`). Since mails, inquiries and keys are never taken back (`Kept`),
only the request that moves needs a case of its own.

**ResendSync.** A row without trouble of its own loses the race for the
creation at most once, since its second lookup finds the contact, and its worker
does not leave it (`RaceInv`). A sync that started alone has Resend to itself:
from the call that wrote the names on, and for as long as its step is logged,
the contact shows them, also when the row is claimed again (`AloneInv`).
Attempts stay within `MaxAttempts` and the crashes, and a row succeeds only with
its step logged (`AttemptInv`). For the switch, `quiet` excludes calls of
others, so a call of the page that is carried out leaves the topic as shown
until its answer comes (`SwitchInv`).

**ListingPhotos.** Three invariants that do not depend on each other: where the
objects of a photo are at each point of its handlers (`ObjectInv`), that the
rows are finite and their orders bounded, so that the next order is fresh
(`PlaceInv`), and that the unsettled promises form one chain, each after the
one before it (`ChainInv`, over the history variable `queue`).

**ListingEdit.** An overtaken page stays behind `updated_at` with all it holds,
calls on the wire included, because nothing but a successful call of its own
brings it a newer second (`OvertakenInv`). A patient control has one timer or
one call, and shows what that carries (`ControlInv`).

**AddressField.** The field is the user's from the first focus on (`Theirs`),
has nothing pending before (`Untouched`), waits only for a search of the
visible text (`Pending`), and ends it with a selection.

**ListingForm.** "One listing per submission" is about POSTs that nobody
abandoned, and what makes it inductive is where these can be (`Attended`): on
the open form, before the listing exists unless answered `ok`, and with the
pending listing cleared once that answer is processed. A second POST of the
same number would need a second handler, and there is none: on the open form
because it is busy (`OneAtATime`), with a number still to be given because
nothing carries it yet (`Fresh`), and while the address is being geocoded
because neither storage nor another handler has it (`GeoAlone`). The marks that
links leave in the URL pay for the submissions of the effect (`MarksAreClicks`),
and what is stored or geocoded was asked for and not withdrawn (`AskedFor`),
which is all `CancelWithdrawsListing` needs.

**InquiryForm.** Form, storage and every task carry an inquiry of their own.
`Sound` relates each task to what it may rest on, by where it is: on the page
open now, left behind but in the same document, or of a document that is gone,
of which only the call to the server can remain. `EndTellsTruth` follows since
an answer `ok` or `limited` is one about a listing whose owner was contacted,
and only a task of the page shows its answer there. `SentIsNotStored` needs
more than it says: a form that shows success has nothing stored at all
(`SuccessClears`).

**ListingPage.** Session, listing and policy may change between any two reads
of `revealListingAddress`. `Seen` says which of the facts that allow an answer
a handler has come across by each stage; it is kept because facts are only
added while the call runs and always include what holds now. The changes to the
photos exclude each other and the countdowns that exist are the one on the
screen (`Exclusive`), which is where the action property on deletions comes
from.

**HomeMap.** A circle counts the drawn listings of its cell whatever the page's
listings are by now (`CirclesHoldTheirs`, from the lemma `GroupsAreSound` about
`groupByH3`), circles are of the map's resolution (`OneResolution`), no import
is under way for a map that exists (`ImportedOnce`), and an area that was
chosen fits the circles also while its navigation is under way (`ChoiceFits`);
a link or history entry that is followed ends the claim, so `picked` is reset.
The assumption on the constants says that "no navigation" is not the name of a
cell, as a goal could otherwise not be told from none.

**Only model-checked.** Liveness under fairness is out of the prover's reach:
`Settles`, `ReadyRowsRun`, `ResultComesBack`, `SyncEnds`, `SkeletonEnds`,
`ReloadsStop`, `NothingHangs`.

## 6. Known divergences

Where the code does something other than a comment or document suggests, or
than one might hope, the models follow the code, and the properties are stated
for what holds. All were met while modelling; none has a run of its own.

*Runtime.*
- `packages/kokoto/src/types.ts:213` says that another executor reclaims the
  row of a dead one. Only `start()` reclaims: one that is up never does, so the
  row waits for a later boot. `Settles` excepts such rows.
- `stop()` (`runtime.server.ts:208`) says it waits for workers; in auto mode it
  awaits only the tick, and workers go on until the process exits.
- `ctx.now()` (README:78) changes after a retry or a reclaim, which set
  `started_at` anew.
- A reclaim hands a row out again beyond `max_attempts`; `AttemptsBounded` says
  by how much.
- With a dispatcher held up longer than a lease (`Wedge`), two workers may have
  one row, a txStep may commit twice (`INSERT OR IGNORE` lets the second pass),
  and the global cap may be exceeded, as `inFlight` is keyed by row.
- A row enqueued on a queue that no executor registered is never claimed.
- In manual mode a row left behind by a full lane, a throwing tick or a backoff
  waits for the next request for a drain; so does a row whose `startWorkflow`
  threw after its INSERT, although `runtime.server.ts:193` says that
  `startWorkflow` triggers it automatically.

*Inquiries and contacts.*
- Two inquiries within 24 hours are possible around midnight UTC
  (`api/inquiries.ts:49` speaks of 24 hours).
- "We couldn't send the notification email" (`api/inquiries.ts:106`) is also
  answered if the mail went out and the insert or the wait failed.
- A second submit joins the day's workflow also when that has failed, until
  midnight UTC (`submit-inquiry.workflow.server.ts:46` speaks of the in-flight
  one).
- The owner may make the listing unavailable while an inquiry is in flight;
  the mail still goes out.
- Of two racing syncs the older may write last.
- A name of one word leaves the last name of before at Resend, as `PATCH` omits
  the field: the remote state depends on what was there, where
  `resend-contacts.server.ts:109` and `sync-user-to-resend.workflow.server.ts:28`
  speak of the same remote state.
- A sync whose row a crash left within its lease, or whose last statement threw,
  stays `running` until a later boot; `SyncEnds` excepts such rows.
- The notifications page reads the topics as they are: loaded or returned to
  while a call of another page, or of the one just left, is under way, it may
  show the old value without an error until its own next call.

*Listings.*
- `updated_at` counts seconds: within one second an update may overwrite
  another. Two saves of one page before the first answer share their version,
  so the second may conflict with the page's own first.
- Choosing a status again while a save of another is under way may be skipped
  as "already saved"; hence *patient* owner.
- Staged temp files are not bounded by the queue's depth: a request stages its
  file before it is counted (the comment at `listing-photo-upload.server.ts:47`
  says that the cap keeps them out).
- The effect on the listings in `ListingsMap.tsx` returns, on its first run,
  before it reads a signal (`:384`), so it never runs again; the circles and
  markers are not kept up to date as the comment above it says.

- After a circle was chosen, the header's link, a zoom to another resolution and
  Back, the area in the address bar is of another resolution than the circles:
  the `zoomend` listener (`ListingsMap.tsx:196`) clears the area of the entry
  that is open, not of those in the history.

*Forms.*
- A lost answer to the POST and a second submission list the same produce
  twice; leaving during the POST and coming back to the parametered URL can,
  too. A late geocode overwrites a newer pending listing.
- The context's session is not refreshed after a sign-in by token; the success
  of a form that was left still navigates; a late answer to an earlier request
  for a link still switches the form.

## 7. Not modelled

- Middleware, health check, environment, logging, telemetry: stateless filters,
  configuration and observability.
- Migrations: they run before anything above is up.
- Image decoding, storage protocols, mail layout, field formats and their
  validation: abstracted to success or failure, or to membership in a set.
- better-auth, Resend, the geocoder, MapLibre and the object store are
  external and modelled from how the code uses them.
- Jumps in the browser's history from one listing's page straight to another's
  (those on the home page are in `HomeMap`).
- Changes of a topic at Resend's own preference page.
- Rendering, styles, geodata tables, seeds, the generated route tree.
