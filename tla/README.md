# m2v: a verification of credits, exports, alignment, the studios and the extension

m2v turns songs into lyric videos. A song is imported as a *task* and aligned by a
worker; finished alignments are exported as videos by render jobs, or by the Motion
studio, in the cloud or in the browser; all of it costs *credits*, which come from
payments. The songs are edited in two editors that a signed-in page embeds as frames,
and a Chrome extension orders videos and downloads them. The hard part of the program
is not any of these steps but that every one of them is retried, expired, cancelled,
delivered twice, answered late or killed half-way while money or somebody's unsaved
work is attached to it. That is what the modules in this directory model. All paths
below are in the repository; `src/` there is the Python package.

## 1. Inventory

| Component | State it keeps | Operations | Talks to |
|---|---|---|---|
| Credit ledger (`src/credits.py`, `src/credit_lots.py`) | `User.credits`, `CreditLot`, `CreditAllocation`, `CreditReservation`, `CreditEntry` | `lock_balance` (sweeps expired lots), `reserve`, `finish`, `grant`, `legacy_refund`, `add`, `allocate`, `release`, `revoke`, `cap_subscription` | called in the transaction of everything that costs credits |
| Billing adapters (`src/billing_service.py`, `src/paddle_*.py`, `src/stripe_*.py`) | checkouts, subscriptions, payments, event inbox | `sync_payment`, `sync_subscription`, `reverse`, inbox drain | the payment provider's webhooks; the ledger |
| Lyric export jobs (`src/export_jobs.py`) | `ExportJob` rows: status, run token, lease, attempt | `create`, `retry`, `dismiss`, `reconcile`, `run` (claim, heartbeat, `change`, upload, `publish`, failure, cleanup) | ledger, admission, export library, storage |
| Render admission (`src/queue_limiter.py`) | the admission mutex, Motion slots | `lock_admission`, `check_render_admission` | export jobs, Motion exports |
| Export library (`src/export_library.py`) | `VideoExport` rows | record, list, `delete_export` | storage |
| Version lifecycle (`src/version_lifecycle.py`, `src/song_library.py`) | `VersionTrash` rows | `trash_version`, `restore_version` | tasks, export jobs, ledger |
| Alignment execution (`src/alignment_execution.py`, `src/task_lifecycle.py`, `src/worker.py`) | `Task.status`, `AlignmentExecution` (phase, token, lease), the result file | claim, heartbeat, guarded updates, `fail_task_and_refund`, `reconcile` | Celery or a fallback thread; ledger; storage |
| Task routes (`src/api_server.py`, `src/editor_server.py`, `src/editor_operations.py`) | none of their own | import, retry, realign, delete, job status | all of the above |
| Motion exports (`src/motion_billing.py`, `src/motion_cloud.py`, `src/motion_browser_exports.py`) | `MotionExportRequest`, `MotionRenderLease`, in-process workspaces | `admit`, `heartbeat`, `publish`, `finish`, `reconcile`, archive, unlock | ledger, admission, library |
| Workspace page (`frontend/workspace.js`, `workspace-store.js`, `studio-adapters.js`) | the active song, the page, one adapter per editor | `navigate`, `activate`, `receive`, retry, timeout, sign-out | the frames, by URL and by messages |
| Media arbiter (`frontend/media-arbiter.js`) | `activeSource` | `requestPlay`, `pauseAll`, `_handleMessage` | the two players, by messages |
| Lyric editor (`frontend/local/common.js`, `cache.js`) | the open alignment, revisions, undo, a draft timer; IndexedDB | `loadSong`, `markDirty`, `saveAlignment`, undo, redo | the server; the page, through `studio-bridge.js` |
| Motion studio (`frontend/motion/src/studio.ts`) | design, identity, drafts in localStorage, audio, export queue | `load`, `updateSaveState`, `saveAll`, `exportVideo` | the server; the page |
| Chrome extension (`chrome_extension/background.js`, `cloud.js`) | `videoJobs`, `downloads` in `chrome.storage`; loops and orders in the worker's memory | `start`, `step`, `finish`, `download`, `trackDownload`, `updateDownload`, `reconcileJobs` | the server, Chrome's download manager |
| Dashboard (`frontend/dashboard.js`, `billing.js`) | lists of songs, jobs, exports, credits | load, poll, delete, checkout | the routes |
| Suno import (`src/suno_*.py`) | the unique import claim of a task | import, reuse of a winner | tasks |
| Publishing (`src/session_manager.py`, `src/syndication_manager.py`, uploaders) | in-process platform locks and sessions | acquire, release, janitor | external sites |
| Pipeline, compilers, directors, local server, editing operations, player | none shared | computation or drawing inside one process | |

How they interact: every request is one asynchronous handler with one database
session; workers are separate processes (Celery), threads (fallback) or background
tasks of the server, with sessions of their own. There is no scheduler: an expired
lease is noticed when its owner next asks for something (`reconcile`). Everything
that moves credits takes the account's row lock (`lock_balance`) and commits together
with the state change that justifies it. In the browser each document and the
extension's worker is one thread; what interleaves is everything between two `await`s,
and the page and its frames see each other only through messages.

What is hard, and what makes each part correct:

- **Ledger.** Lots expire at any moment; refunds arrive while their credits are held or
  spent; invoices arrive in any order; holds are released after the period that paid
  for them. Correct: every credit is accounted for, expired or refunded credits never
  become spendable, periods never overlap, nothing is drawn from an ended period.
- **Export jobs.** A worker may stall past its lease, be retried, and finish late; a commit
  may succeed and its acknowledgement be lost; files and rows are removed in several
  steps. Correct: credits are held exactly while a job is active, and charged exactly
  when a video is delivered; a run that lost its job never publishes; files in the
  library exist; the cap on concurrent renders holds; every hold ends.
- **Alignment.** The same, with Celery redelivery, a second kind of lease for the queue,
  requests that read a status and write it much later, and failure handlers that run
  more than once. Correct: the same, and one worker per attempt.
- **Motion exports.** The first video of a song pays for all; an admission reads what it
  costs before it holds the balance; two leases end at different moments. Correct: holds and charges
  follow renders and videos, the slots are bounded, what has ended stays ended, a song is
  bought once (which fails, finding 5).
- **Page and frames.** A replaced document still reports; the page's idea of a draft is late;
  two players announce themselves at once. Correct: a draft the page knows is never navigated
  away; an editor is ready only with its own document; two players are heard only while a
  message ends it.
- **Editors.** Loads, saves, timers and edits overlap, and the user chooses another song at any
  of their awaits. Correct: what is shown as saved is on the server, what is not is in a draft,
  and the last song chosen is the one that opens.
- **Extension.** Chrome stops the worker at any time, the same job is resumed by a click and by an
  alarm, and a download may end before it is recorded. Correct: records follow the downloads, and
  no video is made twice (which fails, finding 7).

## 2. Modules

| Module | What it is |
|---|---|
| `CreditLedger.tla` | the ledger of one account: balance, lots, reservations, and what the billing adapters do to them |
| `PaidDelivery.tla` | the abstract promise of a paid export: reserve, then deliver and charge in one step or return everything |
| `ExportJobs.tla` | export jobs with their workers, holds, library entries and files; implements `PaidDelivery` |
| `AlignmentTasks.tla` | alignment tasks with executions, imports, deliveries, workers and owner requests |
| `MotionExports.tla` | Motion renders, browser exports and purchases of songs |
| `Workspace.tla` | the page, its adapters and the documents in its frames |
| `MediaArbiter.tla` | who is heard |
| `LyricSession.tla`, `MotionSession.tla` | the documents of the two editors |
| `ExtensionJobs.tla` | the jobs and downloads of the Chrome extension |
| `CreditLedgerProofs.tla`, `ExportJobsProofs.tla`, `ExportJobsFileProofs.tla`, `AlignmentTasksProofs.tla`, `MotionExportsProofs.tla`, `MediaArbiterProofs.tla`, `BrowserProofs.tla`, `SiteProofs.tla` | theorems |
| `MCCreditLedger.tla`, `MCExportJobs.tla`, `MCAlignmentTasks.tla`, `MCMotionExports.tla`, `MCExtensionJobs.tla` | small instances for TLC |
| `MCBrowser.tla` | the browser side: `Workspace`, `MediaArbiter`, `LyricSession`, `MotionSession` and `ExtensionJobs`, checked in one run |

One step of a server model is one database transaction, or one change outside the database
(a file saved or deleted, a process killed). Where a handler reads in one transaction
and writes in a later one, or holds only some of the locks, it is split. One step of a
browser model is what runs between two awaits. A definition
whose comment starts with *Slip*, or that a mutant in `PROJECT.json` names, is not used by any specification: it is a plausible
mistake in the definition after it, and `PROJECT.json` says which property must notice it.

### CreditLedger

`lot` is the `CreditLot` table (remaining, expired, refunded, `expires_at`, `period_start`),
`alloc` the allocations of each reservation's current attempt, `balance` is
`User.credits`. `Locked`/`LockedBalance` are `lock_balance`: every action works on them,
as every function in the code begins with it. The order of `allocate` (soonest expiry
first, ties by a hash) is the set `Allocations`: within a tie any order. `Grant` is
`sync_payment` with `credits.grant` and `lots.add` (the earlier periods are cut, a late invoice is
cut, the second sweep takes what has just ended); `Reverse` is `reverse` and `revoke`;
`CapSubscription` and `GrantPermanent` are what their names say. `debited`, `spent`, `spentTotal` are history.

Abstractions: one reading of the clock per transaction; allocations of earlier attempts
are dropped, because `release` looks at the current attempt only; `payment.revoked` and
`lot.refunded` are one number, being assigned together; payments made before lots existed
are left out; the price reserved is above zero where the code returns early for a free
operation that has no reservation.

### ExportJobs

`job[j]` is the `ExportJob` row. `lease` is the time left of `lease_until`, kept relative so that
the clock need not be bounded: `-1` is past. The code uses `lease_until > now()` for owners and
`lease_until < now()` for `reconcile`; at equality (0) neither acts, as here. Run `r` of job `j` is one
call of `run(job_id)`: the one scheduled by attempt `r`. Its run token is the number `r`; the code
draws a fresh UUID. `hold` is the state of the job's `CreditReservation`; the amounts are the
ledger's business. `objects` are the files; each run has its own key. `lost` is history.

- Requests: `Reconcile`, `Create`, `Retry`, `Dismiss` (all reconcile first, as `owned` and `create`
  do), `Trash`, `Restore`, `EraseFile`/`MarkErased` (`delete_export` deletes the file, then commits).
- `delete_task` is one step when the version has jobs, because their rows stay locked; it is
  `DeleteTaskStart` and `DeleteTaskFinish` when it saw none, because then a `create` may commit in
  between. `DeleteTaskFails` is the same request stopped after some files are gone.
- Workers: `Claim`, then `Change` for each phase, `Save`, `Publish`; any of them may `Throw`, be
  refused, or `Crash`; `Publish` may lose its acknowledgement; `ReportFailure` and `CleanUp` are the
  handlers and the finally block, and both may fail. `Heartbeat` runs beside the body.

Abstractions: waiting for a render slot of the process (`asyncio.Semaphore`) is the time between
`Claim` and `StartLoading`; the price is above zero; progress, messages and options are left
out. `create` looks at the version before it waits for the admission lock, and `retry` looks for
it in Trash without locking it, so both may find it trashed when they commit.

### AlignmentTasks

`status`, `version`, `exec`, `hold` are rows; the token of an execution is the number of its attempt.
`importing` are import requests between `_reserve_import` and `_commit_and_dispatch`; `asked[t]`
are retry and realign requests that have read a status which permits them. It never shrinks: any
number of such requests may be under way, each as late as it likes. `sent` are the attempts handed to
Celery, which may deliver each of them any number of times or never. `reports` are failure reports about to be
made by requests. `file[t]` is whose alignment lies under the task's key; `result` and `lost` are history.

`Realign` overwrites the status unconditionally and reopens a settled reservation, as
`realign_lyrics` does; `Retry` asks for `failed` again when it commits. `Handoff`, `Dispatch`,
`PrepareFails` and `Report` are the import's path with its failures. `Claim` … `RecordAgain` are the worker's;
the failure handler runs in `process_song_task` and again in the fallback thread. `Crash` replaces
the worker. Tasks that predate leases (`guard` without a token) are left out.

### MotionExports

`state`, `cost`, `lease` are columns of `MotionExportRequest`, `slot` is the job's `MotionRenderLease`, `hold` its reservation,
`video` its `VideoExport`, `worker` the render thread. Costs are counted in purchases: 0 or 1.
Every transaction locks the balance first and is one step, except an admission. `admit` takes the admission mutex, recovers lost
renders, asks `is_song_unlocked`, counts the slots, and takes the balance only in `credits.reserve`; under READ COMMITTED other
transactions commit in between. So it is `AdmitReads` and `AdmitCommits` or `AdmitFails`; when it has a lost render to recover, `reconcile`
has locked the balance already and the others wait (`BalanceFree`). `persist` stores the file, renews the lease and calls `publish`: `Store`, `Publish`.
`WorkerEnds` is `on_render_finish`, whatever the render came to. `Crash` ends the thread without it.

Abstractions: a heartbeat that succeeds changes nothing; one that fails ends the worker. The in-process busy flag is the user's one render at a time
per process, and is left out: the slots are the bound that holds across processes. Slots of other users and of lyric exports, storage, the
quota and a repeated request id (which returns what there is) are left out; a lyric video of a song unlocks it too, which is the same `video`.

### Workspace

`active`, `page`, `hash`, `turned` (a `hashchange` due) are the page's; `adapter[s]` is the `StudioAdapter` with its request id, phase, draft flag, stale songs and timer;
`doc[s]` is the document in the frame, reduced to what it tells: its request, song, draft, save. `reports[s]` is the queue of `postMessage`s.
`Navigate`, `Open` and `Activate` are the functions of those names; the confirm dialogs are the choice in `Verdicts`. `Unload` includes a document that asks to stay.
The four pages without an editor are one. `Current` is the request check of `receive`, `Noted` its draft flag, `Invalidated` the stale Motion design after a lyric save.

Behaviours met here that no document promises away, and no property speaks of: the Motion studio can be opened on lyrics with a draft once
the user agrees; a Motion design of stale lyrics stays on screen until the song is opened again; the active song need not be the one on screen;
a Motion draft restored before the audio arrives is told only afterwards, so the page may not know it yet (the exceptions in `DraftsAreNotReplaced`).

### MediaArbiter

`playing` is each player, `announced` and `commands` are the messages, `holder` is `activeSource`. `Show` sends two commands to the editor it leaves (the adapter's and
`pauseAll`'s), one to the other. An editor obeys a command whenever it arrives, and announces a pause only if it was playing.

### LyricSession

One entry of `loads` per call of `loadSong`, with its stage: details, cache, fetch, answer, draft. `InTime` is `isCurrentLoad`. `timer` is the one draft timer, set for a song.
`saving` is `saveAlignment`; `newer` is its comparison of revisions. `server`, `held` and the two steps of a save are the server as the editor sees it: a save may be
refused or its answer lost before or after it was stored. `Close` is a reload or a crash; the drafts and the cache outlive it.
A text is the song it is of and the edit that made it. `TimerFires` waits for a draft being read: the timer's 1200 ms outlast a read of
IndexedDB. Colours, playback and the file list are left out, and so is the question before a dirty song is left: the user has agreed.

### MotionSession

`shown` and `changed` are the two parts of the document and their flags (`dirty`/`settingsDirty` and `identityDirty`), `sending` is `saveAll` with one request per changed part,
`opens` the calls of `load`, `due` the draft timer, `queues` the calls of `exportVideo`. `Unaltered` is the comparison in `saveAll` after each answer; `UpdateSaveState` is the function of that
name, in every step that calls it. The audio arrives after the design (`AudioArrives`), which is what finding 6 is about. Previews, cloud renders (`MotionExports`) and the director panel are left out.

A behaviour met here that no document promises away: `load` restores a draft only when its design is not the server's (`studio.ts:209`, `Restored`). An identity whose save failed while the design was saved is in the draft, is not restored
when the song is opened again, and the draft goes with the next `updateSaveState`. `UnsavedWorkIsInDraft` is about the song on the screen and says no more than its name.

### ExtensionJobs

`store` is `videoJobs`, `records` is `downloads`; both are changed through `storageQueue`, one change at a time. `items` and `news` are Chrome's downloads and its events.
`loop[i]` is the promise in `FoveaCloud.active`, with the copy of the job it works on; `orders` is `activeSubmissions`. `sweep[a]` is what the `a`-th call of `reconcileJobs` has read and not worked through, and `again[f]` the
`RETRY_DOWNLOAD` that started download `f`: nothing in the code keeps a second of either from starting while an earlier one waits.
Every await of `step` is a stage: aligning, encoding here or posting, rendering, fetching, tracking, searching, marking. `Die` ends the worker: memory is gone, storage stays,
and an event it was in the middle of may be half applied (`torn`). `Saved` drops the other record with the same task id, as `saveJob` does. Retry is `RETRY_DOWNLOAD` of a rendered video; an encoded one has no
path on the server, so its retry throws and changes nothing.

Abstractions: the account checks are `GiveUp`; progress, titles and the ages of records are left out. Not modelled: the path of local and custom servers, MP3 downloads, sign-in,
the popup's Clear history, a file the user deletes, and a worker that dies between a record and the server path written into it.

### PaidDelivery

Per job: `payment` idle, reserved, charged, returned; `video` absent, ready, gone. `ExportJobs` maps the
reservation's state to `payment` and the library entry to `video`; a deleted version's settled job counts as gone.

## 3. Runs

| Run | Instance | What it shows |
|---|---|---|
| `ledger` | two invoices of one subscription, two jobs with two attempts each, a grant, a refund that grows from 1 to 2, three clock values | types; periods never overlap; nothing is drawn from an ended period; conservation of credits; a refund is debited once, however it grew; what expired or was refunded never returns |
| `ledger_partial_refund` | one invoice of 4, two jobs | **violated**: finding 1 |
| `exports` | one version; two attempts of one job, or one each of two jobs and one slot; lease of one tick; fairness | all invariants of `ExportJobs`, the cap, `CompletedIsFinal`, the refinement of `PaidDelivery`, `EveryHoldEnds` |
| `exports_deletion` | one job, two attempts | **violated**: finding 2 |
| `alignment_retry` | one song, three attempts, two workers, queue lease of two ticks; fairness | all invariants of `AlignmentTasks`, `CompletedUntilRealigned`, `EveryHoldEnds` |
| `alignment_late_failure`, `alignment_late_upload` | one song, two attempts, two workers | **violated**: findings 3 and 4 |
| `motion_exports` | three exports or purchases, two songs, two slots | holds and charges, slots, `EndedStaysEnded` |
| `motion_buyout` | two exports of one song | **violated**: finding 5 |
| `browser` | two songs; see below | the properties of the page, the arbiter, the two documents and the extension's records |
| `motion_export_audio` | two songs, two loads, one queue | **violated**: finding 6 |
| `extension_twice` | two clips of a song, two orders, one alarm | **violated**: finding 7 |

Why these bounds are enough to be interesting. Two attempts are what it takes for a late run to meet its
successor; three let a realignment replace a retry. A lease of one tick can be live, at its boundary and past. Two
jobs compete for one slot with the same logic as three for two; in `exports` two attempts in all are either one job's or two jobs', and while there are two jobs
the version stays out of Trash (`InBounds`, which holds back only owner requests, none of them fair). Two lots are a pair of periods; clock values before, at and
after each end occur. Three Motion jobs are a paid export, a free one that relies on it, and a purchase that competes. In `browser`
there are two songs, two navigations of a frame, two reports under way, three gestures; three starts of a player and three messages each way; three loads of a lyric, one
edit with its undo and redo, one save; two loads and two edits of a Motion design, one export queue; one extension job with three downloads, two alarms and three disturbances in all
(clicks, alarms, an end of the worker), so that two alarms may be at work at once, and two retries of downloads. A stale answer needs one load that is overtaken, a stale receipt one save and one switch. Apart from these named bounds none is on the number of steps, and every run explores its
state space completely.

`MCBrowser` is one run of five modules that share no variable: the variable `concern` says which of them a behaviour follows, and the others rest. It is a sum, not a product; the parts meet in `Workspace`,
where the documents are reduced to what they tell the page. The two lyric and Motion properties of the same kind are checked as one conjunction (`SavedMeansStored`, `UnsavedWorkIsInDraft`). The export queue of the Motion studio is followed with a
single edit (`Editing`). The last of the three loads of a lyric is followed without Undo, Redo or a closed window (`Returning`), and the page is asked to navigate among the
first two of the three gestures (`Navigating`), so that the third, a retry, an edit, a pick or a sign-out, falls into what the navigations set going. The last of
the extension's three downloads is left to a second `RETRY_DOWNLOAD` (`Making`). Songs, jobs, clips and workers are interchangeable where a run declares them so: no initial state or action tells them apart.

Deadlock is not checked except in the ledger, where reading the balance is always possible: in the others, when every attempt and every bound is
used up and all workers are done, nothing is left to happen.

Fairness. `Tick`: time passes. `Reconcile`: the dashboard and the editor poll for as long as they are
open, and recovery is documented to wait for the owner's next request; the liveness properties say what
holds when the owner comes back. `WorkerStep`: an event loop or thread that is not killed goes on,
and `asyncio` or the storage client raises in the end; the model's worker may still crash or throw. `DeleteTaskFinish`
and `Handoff`: a request ends. A heartbeat that failed makes the run fail after its render
(`heartbeat_error`). Heartbeats and Celery deliveries are *not* fair: a silent worker and a lost delivery are exactly
what the leases are for. Retry, Trash and all the other owner requests are not fair either. The page, the editors, the Motion exports and
the extension are checked for safety only, without fairness: what they wait for is the user.

## 4. Findings

1. **A release can move permanent credits into an expiring lot** (`src/credit_lots.py:113`). The bound
   on what goes back to a lot ignores what other jobs have spent from it. An invoice of 4: one job spends
   2, another holds 2, a refund of 2 is taken from the permanent balance, the hold is released: the lot offers
   2 again although nothing of it is left, and the period's end will take them. The docs say that
   permanent packs are kept separate (`docs/LEMON_SQUEEZY_BILLING.md:38`). The balance itself stays right
   (`EveryCreditAccounted`).
2. **A render requested during deletion leaves its credits held** (`src/api_server.py:870` and `:908`).
   The deletion releases the jobs it saw at first, and deletes those that exist in the end. `docs/credits.md:33` says that
   deleting an unfinished project releases held credits.
3. **A late failure handler fails the attempt that replaced its own** (`src/task_lifecycle.py:19`).
   The statement asks for the status only. Import, Trash, restore, retry: the import or worker of the first attempt
   then records its failure against the second. The user loses no credits, but the paid work.
   `docs/SAAS_ACCESS_AND_TASKS.md:21` says that repeated failure callbacks do not refund again.
4. **A replaced worker overwrites the alignment that was charged** (`src/worker.py:295`). All attempts save to
   one key, before the guarded completion. `docs/credits.md:111` says that expired executions cannot publish
   results; export jobs avoid this with one key per run.
5. **A song can be bought twice, or not at all** (`src/motion_billing.py:17`). `is_song_unlocked` is asked before the balance is locked, and
   counts a paid export that is still under way. A browser export or a purchase that commits between the question and the reservation leaves two
   charges for one song. And an export admitted for nothing while a paid one was under way is delivered although the paid one then fails and its
   credits come back. `docs/BILLING_POLICY.md:28` says that the first export costs 10 credits and the later ones nothing, `:46` that a failure returns what was reserved. (Met beside it, without a run: a cloud
   render of an unlocked song is admitted at cost 0, while the policy prices cloud compute by its length.)
6. **A browser export can have the audio of the song before** (`frontend/motion/src/studio.ts:679`). A song is selected when its design has arrived, its
   audio replaces the other's later; an export started in between encodes one with the other. `docs/MOTION_DESIGN.md:55` says that exports use a snapshot.
7. **The extension makes and downloads a video again** (`chrome_extension/background.js:506`). The alarm reads all jobs once and hands each copy to
   `FoveaCloud.finish` after awaiting the ones before it, for minutes when it joins the loop of another job. A video that was finished meanwhile has no `downloadId` in
   the copy. The path of the other servers reads the job again first (`:524`). `chrome_extension/tests/job-recovery.test.cjs:45` says "simultaneous submissions and worker
   restart do not render or download twice", the comment at `background.js:496` that running jobs are not replayed. TLC's shortest trace has one job, whose loop ends while the alarm is between its read and its job;
   the wait on another job makes that window long.

## 5. Proofs

`ExportJobsProofs.tla` and `ExportJobsFileProofs.tla` prove every safety property of `ExportJobs` that its passing
runs check, for every set of jobs and versions, every cap, lease and number of attempts, from `ExportAssumption` alone.

*Types.* `TypeCorrect`: `Spec => []TypeOK`. `EndingTypes`, `DeletingTypes`, `RunTypes` and `JobTypes` say that the
changes the actions are made of keep rows rows.

*The eight things that happen to a job.* The invariants relate the row of one job to its hold, its library entry, its
runs and its history, while a step may touch several jobs (every request reconciles). So `JobSteps` first shows that every
step of the system is, for each job, one of: `Keeps`, `Claimed`, `Ends`, `Dismissed`, `Starts`, `Delivers`, `Erases`,
`Removes`. `RunSteps` is its half about the workers; `EndingStep` is what reconciliation does. The invariants then follow from
this list, each inductive given the ones before it:

- `HoldsFollowJobs` (`HeldWhileActive`): whatever starts a job holds its credits in the same step and whatever ends it
  releases or settles them; a deletion that began before the job was created is the exception the invariant names.
- `TokensAreFenced` (`Fencing`): attempts only grow and runs never return to their start, so the run that starts has
  never held the token, and the run that loses it never gets it again.
- `ChargesAreDeliveries` (`ChargedIffDelivered`) needs both: an active job has its credits held, so publishing settles them; and a
  completed job's version is not under deletion by a request that saw no job, so its row and entry go together.
- `LostRunsStayOut` (`LostRunsNeverPublish`): the run that publishes holds the token, and by `Fencing` the holder has not lost it.
- `CompletionIsFinal` (`CompletedIsFinal`) is read off the list.
- `ExportsDeliverAsPromised` (`DeliversAsPromised`): under these invariants each of the eight maps to a step of
  `PaidDelivery`: `Starts` to `Reserve` (or to nothing, for a retry of an expired job), `Ends` to `Return`, `Delivers` to `Deliver`, `Erases` and `Removes` to
  `Erase`, `Return` or nothing.
- `CapIsRespected` (`CapRespected`): only an admission adds a live job, and one at a time (`LiveSteps`); the invariant
  carries that the set of live jobs is finite, since the set of jobs need not be.

*Files.* `FileStep` is the same idea for the files of a job: a file goes only with the clean-up of an unlinked run or with
its entry, a run comes to publish with its file in place, runs that are over stay over, entries come from publishing
runs. `FileInv` is `Uploads`, `ReadyFilesExist` and `NoStrayLink` (a job outside the library links no file, without which a
deletion could take a file from under a publishing run); it is inductive given `ChargedIffDelivered`, because a job whose runs
are started again must not be in the library. `UploadsPrecedeEntries` and `LibraryFilesExist` follow.

`MotionExportsProofs.tla` proves every property of the `motion_exports` run, for every finite set of jobs, every set of songs and every cap, from
`JobsAssumption` alone. The inductive invariant is `TypeOK /\ HeldWhileActive /\ ChargedIffDelivered /\ OneAdmission /\ (\A j \in Jobs : AdmissionHolds(j) /\ Unasked(j)) /\ RendersBounded`.
What had to be added to the properties is what an admission may rely on when it commits although others committed after it read: at most one admission is under way (`OneAdmission`, the mutex);
the lost renders it is going to interrupt are still active, because it holds the balance then, its job is still unasked, and the slots it counted, without those of the lost renders, still leave room (`AdmissionHolds`); a job that was never asked for has no price, hold or video (`Unasked`). The slots
can only become fewer between the read and the commit, since taking one needs the mutex; this bounds them (`SlotsAreBounded`). `TypeCorrect`, `HoldsFollowRenders`, `ChargesFollowVideos` follow by
projection; `TheEndIsFinal` is the same invariant applied to one step.

`MediaArbiterProofs.tla` proves `HeardIsAlwaysKnown` and `OverlapsEnd` for any number of plays and messages under way, from no assumption. `HeardIsKnown` is not inductive: it says nothing while an announcement is under way. The invariant adds
`LastSaysPlay`: as long as a player sounds, its last announcement still under way, if any, is that it plays. Then the arbiter's idea
is right once the messages have arrived, and of two players that sound with nothing under way both would be the holder.

`AlignmentTasksProofs.tla` proves every safety property of the `alignment_retry` run, for every set of songs and of workers, every number of attempts and
every lease. The inductive invariant is `TypeOK /\ Rows /\ AtWork`. `Rows` is the three properties about money and attempts together with what a late writer may rely on:
a task that was never imported has no rows (`Untouched`), an active task has an attempt (`Attempted`), what was ended or charged is the last attempt or an earlier one and never that
of an active task (`Past`). `AtWork` is `OneWorkerPerAttempt` with what makes it inductive: a worker's attempt is the last of its task or an earlier one, and is not waiting to be
claimed (`Started`), so a second delivery finds nothing to claim. The steps fall into four kinds, each with its lemma: the rows of a task rest (`RowsRest`), somebody fails
it (`RowsFail`), somebody starts a new attempt (`RowsAnew`), the same attempt goes on (`SameToken`). `CompletionStays` is the invariant applied to one step.

`CreditLedgerProofs.tla` proves every property of the `ledger` run from `LedgerAssumption`: the sets of payments, operations and other credits are finite and the amounts are natural numbers.
*Sums.* The conservation law adds up a fold over a finite set. What a fold is follows from its definition by two inductions, over subsets and over numbers. The library states induction
with an operator parameter, which the provers cannot instantiate; here both are stated for a set instead of a predicate and proved by the least counterexample, from the well-founded orders
of `WellFoundedInduction` and `FiniteSetTheorems` (`SubsetInduction`, `NumberInduction`). From them: the fold exists and is unique (`SumExists`, `SumsAgree`, `SumRecursion`), is an integer (`SumInt`), does
not depend on the order (`SumWithout`), and changes as its terms do (`SumAdd`, `SumChange`, `SumMore`).
*The ledger.* The inductive invariant is `TypeOK /\ HistoryTypeOK /\ LotsOK(lot) /\ DrawnOnGranted /\ PeriodsNeverOverlap /\ EveryCreditAccounted`. `LotsOK` says that a lot offers at most what expiry
and refunds have left of its grant, and that a lot without a payment is empty; `DrawnOnGranted`, that nothing is drawn from a payment that has not come in, without
which an invoice could arrive on a lot that releases still return to. The same facts are stated of any rows (`Sound`), because every action works on the rows `lock_balance` leaves: `LockedSound` is that the sweep keeps
them, and each operator of the code has a lemma on what it keeps (`DrawKeeps`, `ReturnKeeps`, `RevokeKeeps`, `ShortenKeeps`, `GrantKeeps`) and one on what it does to the sums (`ExpireBooks`, `ReturnBooks`, `GrantBooks`, `DebitBooks`,
`HoldBooks`). `ExpiredStaysExpired` and `ExpiredIsNotSpent` are action properties from the same invariant: of a swept account an expired lot offers nothing, `release` returns to it nothing, and
periods are only ever cut.
*Refunds that grow.* `RefundsDebitedOnce` is inductive with what `IInv` says of the lots: a lot that has expired offers nothing more, so a sweep takes only what the refunds have left (`ExpiryOwesNothing`, `ExpireDebts`), and a release after the
period, which adds to what expired, adds no more than that (`ReleaseDebts`). Then the debit of a grown refund is the difference of two minima (`ReverseDebts`).

`BrowserProofs.tla` and `SiteProofs.tla` prove every property of the `browser` run of `BrowserSpec`, the specification that the run checks, for every set of songs and of clips, every song a clip may be of (the run has `OneSong`) and every
bound, from `BrowserAssumption`: the bounds are numbers, `NoSong` is no song and `NoClip` no clip. Each component has an inductive invariant of its own, and `BrowserSteps` and `SiteSteps` show that every step of the browser is a step of each
component or leaves it alone.

*The documents* (`LyricInv`, `MotionInv`). "Saved means stored" speaks of an open document and is broken by the load before it, so `LyricInv` follows the text to the screen: the server has held what it has, what the cache has and what is on its way (`Stored`);
until it ends the last load is about the current song, which is not open (`Entered`); a text that is clean once a load may show it has been held (`Clean`). A receipt cleans the document only if nothing newer was typed, and then the text on the screen is the
text sent or one that a load has brought since (`Sent`). What is typed before the draft is read has the timer running (`Timed`), without which the read could put an older draft over it. `Counted` bounds the versions by the saves. `MotionInv` is alike: what the server answers it has
had for that song (`Had`, `Sending`), and a changed design that is not due to be kept is in the draft (`DraftKept`). From them `SavedIsStored`, `UnsavedWorkIsKept` and, from the steps alone, `OnlyTheLastOpens`.

*The page* (`PageInv`). What the page knows of a draft lags behind the document, so `DraftsAreReported` is not inductive: a report that is overtaken by another, or is about a song that the adapter no longer has, could be the only one that says so. The invariant says what the page will know once the reports
on their way have arrived: the last one that carries the draft flag says what the document has told last, and its song is the one that the last LOADED says, or the adapter's if there is none (`DraftKnown`, `SongKnown`). This holds of a document that shows a song and has the adapter's request
(`KnownFrame`); of the others nothing needs to be known, because requests and reports are numbered (`Numbered`). `Staged` says what a document has come to at each stage, `Grounded` that what speaks of an open document comes from one, `HeldFrame` that the page holds an editor back only for a
draft it knows. For each frame every step is one of five (`FrameStep`): the page turns to it or away (`Notes`), loads a new document (`Renews`, only while it knows of no draft), signs out (`Clears`), the document works (`Works`), the page takes a report (`Delivers`). `DraftsAreAlwaysReported` and
`ReadyIsOpened` follow by projection; `DraftsStay` because only `Renews` replaces a document, and with no report on its way `DraftKnown` makes a draft that was told one the adapter knows.

*The extension* (`ExtensionInv`). `RecordsAreCorrected` is not inductive: it is silent about a download while anything at all is at work on it, also a step that has looked at it already and goes on. `Corrected` counts only those that are still to look (`Seeing`): the event that was not heard yet, and the step that
has not read the download's state. The rest is what a step that goes on may rely on when the worker resumes it: its job is of a clip and its download was started (`LoopsOK`, `AgainOK`, `OrdersOK`), the copies of the jobs that each sweep made too (`SweepOK`), and only a started download is recorded (`RecordsOK`).

`BrowserTyped` puts the types together. One thing the proof showed about the model: the cases of `Received` overlapped (a report of kind LOADED about another song fell under two), where TLA+ leaves the value open and TLC takes the first; they are disjoint now, in the order of `receive`.

Two states are modelled and set aside by the properties, because the code leaves them so and no document says otherwise: a video whose file is gone and whose entry is not (`erasing`, after a deletion that stopped half-way; a second request finishes it),
and a download that the extension's worker was stopped over (`orphans`; unless its record says that it is under way, nothing looks for it).

Only model-checked: liveness, which is out of the prover's reach, and the disagreements of section 4, which are counterexamples.

## 6. Plan

Done in this order: ledger, export jobs with the refinement, alignment, Motion exports, the browser side, the extension, the proofs. Left:

1. *`PaymentInbox`*: redelivered and reordered webhook events, drain and retries, refunds on order and invoice, composed with `CreditLedger`.
2. *`LockOrder`*: row locks held across statements, for the two deadlocks listed under hazards (`credits.py:268`, `api_server.py:815`), which one-step transactions cannot show.
3. *`ImportClaims`*: concurrent identical imports, the unique claim, reuse of audio. *`PublishLocks`*: platform locks, semaphore, janitor.
4. *Dashboard lists*: late answers of `loadTasks`, `loadExports` and `loadCredits` after another account or page was asked for.

Not modelled, and not planned: audio processing, subtitle compilers, directors and uploaders (pure computation or external sites); storage drivers and authentication
(no state of their own that the models do not have); the editing operations of the lyric and storyboard editors, which change one document on one
thread and are an edit here; the player and the extension's pages, whose clicks the models allow at any time. `frontend/local/motion/lab.js`, `render-entry.js` and
`rhythm-studio.js` are bundles compiled from `frontend/motion/src`, a third of the repository's script lines.
