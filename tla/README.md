# Budget planner: TLA+ models and proofs

This directory models the parts of the budget planner that are hard to test. In
the backend: background jobs that outlive their request, intake channels that
look before they store, photos that live outside the database, and a derived
figure kept in a table of its own. In the web client: stores that write down
every answer of the server whenever it comes, though the user has moved on. Each module is read from the source, TLC checks it
on small instances, and TLAPS proves every invariant a passing run checks (`NoTwins`
apart) for every value of the constants, under the hypotheses named below. `PROJECT.json` names the source lines of every definition.

## The system

The backend is one FastAPI service (`backend/app`) over PostgreSQL and object
storage, deployed on Cloud Run with 0 to 2 instances
(`infra/terraform/run.tf:78-81`). The client (`frontend/src`) is a React
application whose state is kept in MobX stores (`stores/`); the screens call
their methods, and each method is synchronous up to its first await, so that
two of them interleave exactly where a request is open. A request
is one asyncio task with one database session and one transaction
(`db/session.py`), isolation READ COMMITTED; nothing serialises the requests of one user. Requests interleave at awaits, on
one instance or on two. Some requests leave a background task behind; it runs in
the same process and dies with it.

| Component | State | Operations | What makes it right |
|---|---|---|---|
| Upload jobs (`services/receipt.py`, `job_recovery.py`) | `upload_jobs` rows; the task, its items, its semaphore, its timeout | accept, read items, count, publish, fail, start-up sweep, poll | a job ends once; a result is whole; the client is told, and what it was told stays true |
| Upload wizard (`api/routers/receipts.py`) | `upload_jobs.result_data` and `file_ids`, photos in storage | store photos while reading, answer a duplicate, settle a total or date, correct a line, commit | what was skipped is not stored; nothing is stored twice |
| Deletion (`services/receipt.py`, `repository/receipt.py`) | `receipts`, photos in storage | delete the row, discard payloads, erase photos, commit | photos and rows go together |
| Email intake (`services/email_receipt.py`, `adapters/email_ingestion.py`) | the background task of a delivery, `receipts`, `pending_incomes` | screen, check reference, read, look up, store | one message is one receipt; the day's limit; no attachment is left behind |
| Month snapshots (`services/budget.py`, `db/snapshot_invalidation.py`) | `monthly_snapshots` | look at a month, change a receipt, record and delete a trip | a snapshot is the figure of its month |
| AI credits (`services/quota.py`) | usage rows, plan | check, charge | the month is not overdrawn |
| Households (`services/household.py`) | members, roles, shared rows | join, leave, depart, remove | there is an owner while there are members |
| Exports (`services/export.py`) | `export_jobs`, a file | create, write, poll | an export ends |
| Assistant (`assistant/`, `stores/AssistantStore.ts`) | conversations, the queue of messages, proposed cards | write, open, start new, reply, save, dismiss | messages land once, together, in order; a card is carried out at most once |
| Income (`services/income.py`) | income, pending income | add, confirm, dismiss | a pending income becomes one entry |
| Sign-in (`services/auth.py`, `stores/AuthStore.ts`) | refresh tokens and their families; a token in each tab's memory, one in localStorage | sign in, also over a live session, refresh, rotate, detect reuse, sign out | one refresh serves a tab; who signed out stays out; a token used again ends its family |
| Upload screen (`stores/UploadStore.ts`, `features/upload`) | chosen and shared photos, the job, the readings shown, the selection, open requests | choose, share, upload, poll, answer, correct, commit, start over | the review is of its own job and current; one click stores once; no photo is forgotten |
| Trip choice (`UploadStore.ts`, `UploadPage.tsx`) | the page's trip, the answer for each receipt | open from a trip, answer, change a date, commit | a receipt is stored where the screen said |
| Receipt dialog and list (`stores/ReceiptStore.ts`, `features/receipts`) | the selected receipt, its detail, a draft, a deletion asked about; view and page | select, change, correct, delete, turn, filter | the dialog shows and changes its own receipt; no page is empty |
| Stores across accounts (`stores/RootStore.ts`) | what each store holds and has asked for | sign in and out, load, reset | an account sees its own data only |
| Goals, accounts, trips, statistics, categories | rows | one request each | arithmetic; SQL aggregates |
| Pure algorithms (`domain/`) | none | discounts, totals, position matching, periods, per diem | agree with their definitions |

How they interact: an upload's reading (`UploadJobs`) is, as far as photos and
readings go, the wizard's `StorePhoto`, `ReadJob`, `FailJob`, `LoseJob` and
`SweepJobs`; the wizard and the email channel write the same `receipts`
table and ask it the same question before they store; deletion reaches into the
job rows of the wizard and into storage; every flush of a receipt deletes the
snapshots of its months, which the next look takes again. On the client, the
upload screen polls the job, edits its readings through the wizard and commits
it with the trips chosen; the assistant and the photos other apps share come
into the same screen; signing in or out resets the stores of all screens.

What is hard: the order of two requests around an await; a background task lost
with its instance, or outlived by its own row; a message delivered twice; a
timeout beside a late answer; an answer that comes to a screen which shows
something else by now; two tabs with one session; erasing in storage inside a transaction that may
roll back; a bulk statement that passes an ORM hook. `PROJECT.json` lists every
such hazard at its line with the property that covers it, or why none does.

## Modules

| Module | Models |
|---|---|
| `UploadJobs` | the life of upload jobs on one or more instances |
| `JobPromise` | what a client is promised of a job: abstract specification |
| `MCUploadJobs` | symmetries for TLC |
| `UploadJobsProofs` | proofs about `UploadJobs` |
| `Receipts` | the table, the photos, the lookups both channels share |
| `Wizard` | what a reading stores, the wizard after it, and deletion |
| `EmailIntake` | forwarded messages |
| `Intake` | `Wizard` and `EmailIntake` over one table |
| `MCIntake` | what the sources show; symmetries |
| `IntakeProofs` | proofs about `Intake` |
| `MonthSnapshots` | looks, changes, trips and the flush hook |
| `MCMonthSnapshots` | symmetries |
| `MonthSnapshotsProofs` | proofs about `MonthSnapshots` |
| `UploadScreen` | the upload wizard in the browser, with as much of the server as answers it |
| `MCUploadScreen` | what the server reads; bounds; symmetries |
| `UploadScreenProofs` | proofs about `UploadScreen` |
| `TripChoice` | which trip a new receipt is stored in |
| `TripChoiceProofs` | proofs about `TripChoice` |
| `ReceiptScreen` | the dialog of one receipt |
| `ReceiptList` | the list of receipts and its pages |
| `Sessions` | refresh tokens: tabs, localStorage, the server |
| `AccountViews` | what stores hold when the account changes |
| `AccountViewsProofs` | proofs about `AccountViews` |
| `Conversation` | the queue of messages to the assistant |
| `MCClient` | the six client modules from `TripChoice` to `Conversation`, each in behaviours of its own: `TripChoice` and `AccountViews` extended, the others instantiated |
| `ReceiptStoreProofs` | proofs about the dialog and the list, within `MCClient` |
| `ClientProofs` | proofs about the session, the conversation and the client as a whole |

### UploadJobs

`status`, `processed` and `result` are the columns of `upload_jobs`; `owner`
and `phase` are the background task (which instance, how far); `item` is the
asyncio task of each receipt; `told` is the status `pollJobStatus` acted on.
Every await of `process_upload_job_task` ends an action: the first commit
(`StartTask`), a slot of the semaphore (`StartItem`), the end of a reading
(`EndItem`), the awaited item with its commit (`CountItem`), the last commit
(`Publish`), and on the failure path `TimeOut` or `AwaitRaised`, `StopItem` for
every cancelled task, and `RecordFailure` after `gather`. Either end commit may
itself raise out of the task (`LoseTask`). `Crash` takes an instance with its
tasks; `Start` is `lifespan`, whose sweep comes before the instance serves and
fails every unfinished row, whoever owns it. `overtaken` is history: the jobs a
sweep failed while their task lived on another instance.
What one reading does (upload, model, reconciliation) is one item that ends with
an extraction or raises. Progress is kept as a number and the result as the set
of receipts whose reading is in it.

### Receipts, Wizard, EmailIntake, Intake

A source is a receipt of an upload (`<<job, index>>`) or a message. `Identity`
is what is printed on it; a stored receipt keeps its source, its identity and
the photo it names. Two counters are not in the code: `commit` numbers the commit that
stored a receipt and `began` is how many there had been when its transaction
began. They let a property say *overlapped*. `refused`, `erased` and `strayed`
record what a user or the log was told.

A reading uploads a receipt's photos before the model sees them (`StorePhoto`,
`services/receipt.py:255`), one receipt at a time, while the row names none.
Only `ReadJob`, the last commit (303-308), sets `file_ids` (`named`) and
`result_data`, and it needs every photo to be there. A reading that raises or times out
(`FailJob`), whose process dies (`LoseJob`) or whose row a starting instance has
failed (`SweepJobs`) leaves the photos stored so far with no row that names them;
in the last case the task goes on, and may still complete the row. `running` is
the set of jobs whose task lives.

A wizard edit is two steps, since the handler awaits the row, changes its copy
and writes the whole column: `BeginEdit` and `FinishEdit`. What an edit does to
an extraction is `Answered`, `Settled` or `Rechecked`; the last is the round
trip through `ExtractedReceipt`, which drops the fields `_recheck` does not put
back. `BeginStore` passes the gates, each `LookUp` is one turn of the loop with
its query, `CommitStore` writes. Between two turns other requests commit.
A deletion is load, flush (with PostgreSQL's row locks: `Locked`, `LockedRow`),
erasure in storage, commit. Any request may end without writing (`Abort`); of a
deletion that has erased, the photos are gone all the same.

The requests of one user overlap as they like, and three history variables say
what came of it. A request is `stale` once another has written or discarded the
`result_data` it works on; a job is `overwritten` when a stale copy was written back
to it or stored from it; a photo is `unwound` when the deletion that erased it
was rolled back. `carried` has the photos a stored receipt has named.

The commit route does not look at the job's status, and neither does
`BeginStore`: a job may be committed again.

A delivery's task is `CheckReference`, the reading (`ReadReceipt` or
`ReadIncome`), `LookUpMail`, `StoreMail`. It may end with its process at any
point (`Lose`). One UTC day is modelled.

### MonthSnapshots

A receipt is its month, whether it is parsed, what its lines come to and whether
it was put in the trip by hand. A look at a finished month reads the four parts
of the figure in statements of their own (`ReadPart`) and inserts them (`Save`,
ON CONFLICT DO NOTHING). A change loads (`BeginChange`), runs the hook's DELETE
(`Drop`), the statement (`Write`), and commits. The DELETE waits for another of
the same row (`Held`); the statement waits for a row another change has written
(`Locked`); a statement writes only changed columns. `Figure` keeps sums as what
is summed, so that two wrongs cannot add up to a right one.

A trip is recorded, becomes one for business or for pleasure, and is deleted
(`SaveTrip`, `DeleteTrip`). None of that flushes a receipt, deletion included, whose
`release` is a bulk UPDATE: so no snapshot is dropped, though with a business trip
the figure of every month changes that has a receipt put in it by hand
(`Turned`). A receipt is put in a trip by `place_receipt`, which writes
nothing else (`OneEdit`), or as it is stored.

`met`, `chancy` and `passed` are history: looks that overlapped a change being flushed
or a trip that passed by, the months whose snapshot such a look saved, and the
months with a snapshot whose figure the trip has changed. A change that drops
the snapshot takes its month out of the last two.

### The client: open requests and marks

Every client module has the same shape. An open request is a record with what it
was sent with (and, once the server has served it, what its answer carries); the
step that sends it, the server's step and the step that writes the answer are
three actions, and anything the code lets the user do may come between. A
request may be refused, or served and its answer lost (`Failed`).

Most stores write an answer without asking what is on the screen by then. So the
strong statements hold of a user who waits, and fail for one who does not; what
the modules state lies between the two. A history variable, `crossed`, collects
*marks*: the things done too early, each named where it is set and each the
narrowest condition under which TLC finds the property violated. A property
names the marks it needs absent and holds whatever else has been crossed:

| Property | does not hold after |
|---|---|
| `ReviewsItsOwnJob` | an upload is begun, or the review left, while a request or a poller is at work |
| `ReviewIsCurrent` | that, or two requests open at once, or a lost answer to a stored edit |
| `SelectionIsStorable` | an upload begun early, two requests open at once, a lost answer |
| `StoredOnce` | a lost answer to a commit |
| `PhotosAreKept` | an upload begun early, two requests open at once, a photo chosen or shared while one is open, an upload of the assistant's over a form with photos |
| `ReadingIsFollowed` | nothing |
| `PlacedAsShown` | a date changed after the trip was answered; no trips at hand |
| `FromTripIsThePages` | a page left before its trips came |
| `BusinessOnlyWhenSaid` | nothing |
| `ShowsTheSelected`, `DeletesTheAsked` | another receipt selected while a detail or a correction is open, or over a question |
| `CorrectsWhatWasRead` | a draft begun while a change of the receipt is open, or a lost answer |
| `DraftsAreKept` | another receipt selected while a correction is open, a second correction opened before the first and its list were answered |
| `NoEmptyPage` | lists asked for together, a failed one, a correction that moves a receipt out of the view |
| `StaysSignedIn` | two tabs with one session, a lost answer, signing out during a refresh |
| `OutStaysOut` | signing out during a refresh, two tabs with one session |
| `NeverAnothersFigures` | a store without a counter was loading when the user changed (`late`) |
| `LandsTogether` | a change of conversation before all is answered, files attached, a lost answer |

A mark is an act whole classes of code paths share, never the violation itself:
every property can be broken by a bug that needs no mark, and its mutant is one.
But where a hazard of the client is that very act (a poller left over, an answer
that comes late), the property does not catch it. The code does not guard against it, TLC
reaches the bad state once the mark is no longer excepted, and the hazard's note
in `PROJECT.json` says so.

### UploadScreen

`currentStep`, `uploadState`, `jobId`, `isProcessing`, `extractedData`,
`selectedIndices`, `sharedWaiting` are the store's fields; `first` is `lines[0]`,
`further` the other lines together, which the code tells apart only when it
draws them. `polls` has the failures in a row of each `pollJobStatus` under way:
nothing in the code stops one, so several may run. `job`, `readings`, `version`
and `stores` are the server: the reading of an upload (`UploadJobs` in one
step), `result_data` with the number of its edits, the commits. A reading is
what it asks (`open`), whether it was skipped (`out`) and whether it failed or is
stored already (`barred`). `SubmitUpload`, `ReadFromChat`, `Accepted`,
`NotAccepted`, `PollCompleted`, `PollEnds`, `PollGoesOn` are `submitUpload` and
`pollJobStatus` cut at their awaits; `AnswerDuplicate`, `Settle`, `Correct` and
`Commit` send, `EditAnswered`, `SkipAnswered` and `CommitAnswered` write. The
gates of the screen (the button of the second step, `Conflicts`, `Filling`) are guards.

### TripChoice

Days are abstracted to the trip that covers them, of which there is at most one.
`tripFor`, `goesIntoTrip`, `unansweredTrips` are the store's functions, `Shown`
is what `TripQuestion` displays and `Placed` where the choices sent and the
server's own rule for receipts without one put the receipt. `loading` keeps the
loads of pages that may be closed by the time they are answered.

### ReceiptScreen, ReceiptList

`Show` is the one place where the dialog's draft follows the detail: it is filled
when it opens and again only for another receipt. `fetchReceiptDetail` and
`updateReceipt` write their answer whichever receipt is selected
(`DetailAnswered`, `EditAnswered`), the others look (`ChangeAnswered`); after a
correction the list is fetched and the dialog closed (`RefetchAnswered`).
`harmed` records what came of it. In `ReceiptList` a view is a choice of period,
order, filters and scope; the server knows how many receipts it holds. The last
answer wins, whatever was asked last; choosing a view sets the page to the first
at once, and turning to a page only asks for it.

### Sessions

`token` has every refresh token of every sign-in; a refresh is served in two
steps, since two requests may read the same row before either marks it. `Revoked`
is what the code means to do with a family whose token is presented again,
`RolledBack` what is left of it. The tabs share `storage` and read it only when
they open. A tab may sign in while it has a session and while a refresh of it is
open (`adoptSession`): the answer then replaces the session adopted.

### AccountViews, Conversation

Stores come in three kinds, by what they compare an answer with: a counter their
reset advances, a counter it does not, nothing. `user` and `account` differ only
when a profile's answer comes late, which is an account change of its own to the
stores. `Conversation` is `send` and `drain`: `written` remembers with each
message what the user was in when it was written. Any number of conversations
may be on their way to the screen (`opening`), and they come in any order.

## Runs

| Run | Instance | Shows |
|---|---|---|
| `jobs_many` | 2 instances, 1 crash, 2 jobs of 2 receipts, 1 call at once | `TypeOK`, `ResultIsWhole`, `NoSurvivors` hold whatever another instance sweeps; what a client was told stands, but for a failure announced of a task that lived on the other instance (`ToldIsTrue`) |
| `jobs_promise` | 1 instance, 2 crashes, 2 calls at once, fair | the tasks implement `JobPromise`; every upload is told an end |
| `jobs_two` (violation) | 2 instances, 1 job, no crash | the second instance fails a job the first is reading |
| `intake_sequential` | 1 request, 2 uploads of the same receipt, answers, settlements and line edits | `NoTwins` without overlap; `NoDeadImages`, `SkippedNeverStored` with line edits |
| `intake_two` | 2 requests, 2 uploads of the same receipt, answers and settlements | twins need overlap; erased photos are gone; only stale copies bring back what was skipped or discarded; a stored receipt keeps its photos but for a rollback |
| `intake_both` | 1 request, an upload of 2 receipts, 2 deliveries of a message | twins across channels, and a message's second receipt, need overlap; every photo left in storage is accounted for, those of failed, dead and swept uploads among them |
| `intake_line` (violation) | 1 request | a deleted receipt's photo stays, if one of its lines had been corrected |
| `snapshots_two` | 2 requests, 1 receipt, 2 months, personal and business trips | a snapshot is its month's figure, but where a look overlapped a change or the trip changed the month |
| `upload_screen` | 2 uploads, one of which may be the assistant's, 2 receipts each, 2 photos, 2 requests open | the properties of `UploadScreen` |
| `upload_shared` (violation) | 1 upload, 2 photos | a photo shared while the upload is sent is lost |
| `client` | 2 of each; 3 tokens, messages, receipts | the properties of the other client modules |
| `session_reuse` (violation) | 2 tabs, 1 session | a reused token ends nothing |

A violation run checks one statement of the repository's documents or comments
against what the code does; the finding in `PROJECT.json` quotes it and tells
the behaviour. None needs more than one user with a slow connection, but for
`jobs_two`, which needs the two instances of the deployment.

Where the documents say more than the code gives under concurrency or failure, the
property checked and proved is what it does give. The exceptions are states the
models reach: without any one of them TLC finds the property violated.

| Document (`docs/architecture/domain-model.md`) | Holds of the code |
|---|---|
| a fiscal identity is never stored again (218-221) | `TwinsOnlyFromOverlap`; `NoTwins` for one request at a time |
| the same Message-ID is one receipt (472-473) | `AgainOnlyFromOverlap` |
| a receipt skipped as a duplicate is not stored (227) | `SkippedNeverStored`: but where an edit that read the row before the skip wrote it back, or a commit that read it before stored it |
| any mutation of a receipt recalculates a finished month's snapshot (164-166) | `StaleOnlyByOverlap`: but where a look overlapped a change, or the trip changed the month (335-336 says so of a trip recorded later; deleting one, or changing its kind, is the same) |
| a deletion discards the payload, so no screen asks for a dead image (579-580) | `NoDeadImages`: but where an edit under way writes the payload back |
| photos are kept 90 days (510) | `ReceiptsKeepPhotos`: but where a deletion erased them and was rolled back |
| storage does not accumulate unreferenced objects (ADR-0007:46) | `StraysAreKnown`: but for a failed erasure, an upload that fails, times out, dies or is swept, a message's task that died, a dropped duplicate's attachments, the unstored siblings of a deleted receipt |
| a job is swept when "orphaned by a process restart" (`job_recovery.py:1`) | `ToldIsTrue`, for any number of instances: but for a failure announced of a living task |
| a new account "never sees the previous one's figures while its own load" (`RootStore.ts:122-123`) | `NeverAnothersFigures`: in the stores that count their reset; a late answer reaches the others |

The day's limit of emailed receipts (468-470) and "a letter delivered twice
waits once" (609-610) are likewise checks made before a reading and used after
it; the model reaches states beyond both, and no run claims either.

**Bounds.** Two of everything that can collide is enough: every property relates
two receipts, two requests or one look and one change, and every lock is between
two. `jobs_many` allows one call at once, so that a receipt waits for the
semaphore; `jobs_promise` two, so that one is read while another's end is
counted. `MaxCrashes` and `MaxCommits` bound counters; a
third commit or crash meets no state a second does not. `intake_sequential` has one
request because `NoTwins` is false of two, and because line edits, which it adds,
meet every kind of edit there; what two requests break is what the other two
runs state. One receipt is enough for `snapshots_two`: a month's figure is wrong by
a receipt, and the two requests are the look and the change, or two changes of one
row. The largest runs are `intake_two` (2.1 million states), `snapshots_two` (1.8
million) and `client` (0.7 million), each within two minutes.

`MCClient` puts six modules into one run. They share no variable in the code, so
their product would only multiply states: `focus` chooses one of them for a
whole behaviour. `AccountViews` and `Conversation` are small enough to run
free; of the others, and of `UploadScreen`, `Bounds` keeps the
behaviours with at most one kind of mark. That is where a property is worth
something: its exceptions are single marks, so a behaviour with two kinds adds
only states that more properties except; the theorems below hold without these bounds. `Bounds` of `MCUploadScreen` also
shares two edits and two commits among both uploads, so that one is edited twice
or both once. Two photos, two receipts and two requests are one of each kind
that can be mistaken for the other; three tokens are a reuse after a rotation;
three messages are one answered, one being sent and one waiting; three receipts
on pages of two are two pages. The second failed poll in a row ends a
poller, so that both outcomes of the comparison happen. Requests, tabs, receipts of the dialog and
uploads are symmetric.

`CHECK_DEADLOCK FALSE` is set where a bounded system comes to rest: every job
ended and told, every delivery over, every token used.

**Fairness** (`FairSpec`, only `jobs_promise`). Weak fairness of the steps the
event loop runs as soon as they can: the task's start, the timer of
`asyncio.timeout`, the end of a cancelled item, the last commit or its failure
(its rate lookups have HTTP timeouts), the failure's commit. The client polls
every two seconds, and a request starts an instance when there is none
(`Revive`). Its poller gives up after repeated failures
(`UploadStore.ts:413-431`), which the fairness of `Poll` leaves aside:
`ClientIsTold` is about a client whose requests get through; `UploadScreen` has the one that gives up. A model call need not answer: `EndItem` is not fair, the timeout is
what ends the job. `RefusesEnds = FALSE` there: if the database refuses the
failure's commit, the row waits for a restart nothing promises, so the client is
told nothing. `jobs_many` has it TRUE, so that a sweep
meets such rows, and the theorems hold for either value. One instance is not
fairness but the case `JobPromise` is true of: `jobs_two` shows the other.

No client run assumes fairness: a request may never be answered, and
`ReadingIsFollowed` says in place of liveness that the screen never waits with
nothing under way.

Every property of a passing run has a mutant: a bug of the kind one could write
at that line, kept beside the definition as `Mutated ...`, which TLC finds.

## Proofs

`UploadJobsProofs`, for any jobs, items (finite), instances and bounds:

- `TypeCorrect`, then the inductive invariant `Indexed`: `ResultIsWhole`,
  `NoSurvivors` and what relates `phase` to `item` and `processed` on the way.
  `ResultIsWhole` alone is not inductive: it needs that a task in `publishing`
  has counted every item, and that a row is COMPLETED only when its task is over.
  From it `WholeResults`, `NoReadingSurvives`.
- `ToldStands`, for any number of instances: a row that says an end while its task
  lives says FAILED, and a sweep has put it there, so that only what was told of
  such a job may change.
- With one instance (`Instances = {i}`): `ImplementsPromise`: the initial states map to `JobPromise`'s and every step to one of its steps or to
  none. It rests on that a living task's instance is up, so that none is alive when the
  instance starts. With two instances it is false: `jobs_two` is the counterexample.

`IntakeProofs`, for any uploads, receipts, messages, deliveries and requests:

- `TypeCorrect`, from `Typed`, which adds what a request holds at each stage.
- `TwinsNeedOverlap` and `AgainNeedsOverlap`, from `NoOlder`: whatever a lookup
  under way did not find was stored after the looker began. `RowsInv` orders
  the numbers of a row, `KeptInv` speaks of a commit loop, `LookedInv` of a
  mail task. The properties themselves say nothing of the time between lookup
  and commit, which is why they are not inductive. These two assume only that a
  message is not a receipt of an upload.
- `NoUnknownStrays`, from `PhotoInv`: of every photo in storage, who still names
  it (a receipt, a job's payload, a task that is reading) or which of the named
  ways it went astray, among them the uploads that failed or died before their row named it. Besides that it says that a photo comes into storage once,
  so that what a request erased is not there again when it commits.
- `DeletionsErase`, from `OwnInv` and `ErasedInv`: under `NoLineEdits` a stored receipt
  and the reading it came from name the photos of that reading, so the erasure
  reaches all of them. The hypothesis is the finding of `intake_line`: with a
  line edit the statement is false.
- `SkippedStaysOut`, `ImagesAreThere` and `PhotosAreHeld`, for any number of
  requests at once and edits of every kind. Unless a job was `overwritten`, its row
  and every copy of it that is not `stale` have the skips that were
  acknowledged (`SkipInv`); no such copy names a photo that the row does not, and the
  row names none of a receipt whose deletion was answered, or which was stored
  without photos (`DeadInv`). `HeldInv` is about storage: a photo that a row or a receipt has
  named is there, was erased by a deletion that was answered or rolled back, or
  is being erased.
- The proofs about photos assume that no photo is called as none is, and that a
  delivery is not a receipt of an upload (`PhotosAssumption`).

`MonthSnapshotsProofs`, for any receipts, months, trips and requests:

- `TypeCorrect`, from `IInv`: what a change holds at each stage, and the row locks:
  two statements whose locks exclude each other are never of one receipt
  (`Apart`), and a row is not deleted under a statement that writes it (`RowStays`). Without
  them a commit could write columns into a row that is gone, which is no value
  of the table at all.
- `StaleByOverlap`, of trips of either kind, from `SInv`: a look that has met no
  flush and no trip has read what it would read now (`Quiet`), and while a change is
  flushed, the snapshots of both months of its receipt are gone, still to be
  dropped by it, or saved by a look that met it (`Covered`). Of the trip two lemmas
  say that it changes the figures of `Turned` months only
  (`TurnedMonths`, `TurnedOnly`), and that those are passed or have no snapshot.

They assume that the values for a missing row are two, and neither is a row, and
that none is not called as a kind of trip is.

`AccountViewsProofs`, for any accounts, stores and requests:

- `TypeCorrect`, and `FiguresAreOwn` from `Strong`, which adds to the property
  what it says nothing about: whose the requests are that may still be written.
  A counting store's latest request is the present account's, and so is any
  request of a store that was not loading when the account changed. It assumes that
  no store is called as the profile is, and that the counting stores are not
  among the others.

`TripChoiceProofs`, for any trips and receipts:

- `TripTypeCorrect`, `StoredWhereShown`, `TripOfThePage`, `BusinessTripAsked`,
  from the inductive invariant `TripIInv`. `AnswersInv` says that an answer is
  about the trip of the receipt's day unless the date was changed, and that what
  was answered was said; `PageInv` that the loads under way are of the page that
  is open unless one was left. The lemma `ShownIsPlaced` is the heart of it:
  under them, with trips at hand and no business trip unanswered, the screen and the server
  agree. It assumes that personal trips are trips and that no trip has the name of a marker.

`UploadScreenProofs`, for any uploads, receipts, photos, requests open at once
and bounds on edits and commits, one invariant upon the other:

- `TypeCorrect`, from `Typed`, which adds that only a completed job has readings
  and stores. `AlwaysFollowed` needs no more: `ReadingIsFollowed` is inductive.
- `SingleUpload`: without the mark `begun`, at most one job is posted or followed,
  nothing is open meanwhile, and every open request is of the job on the screen
  unless the screen has started over. From it `AlwaysReviewsItsOwnJob`.
- `OneRequest`: without `together` either, the review a request was sent from is
  still there when its answer comes. `PhotosInv` then says that what is on the
  form under a review has been sent, so that starting over forgets nothing
  (`AlwaysPhotosAreKept`).
- `OneCommit`, which needs neither: a commit that has stored stays open until its
  answer takes the job off the screen, and the button is held meanwhile
  (`AlwaysStoredOnce`).
- `CurrentInv` and `StorableInv`: the answer under way carries what the server
  holds, and withdraws the skipped receipt only (`AlwaysReviewIsCurrent`,
  `AlwaysStorable`).

They assume that the questions and corrections are not named as the three other
requests are, that `None` is neither a request nor a count, and that the model
skips no receipt: only a user does (`resolve_duplicate`). The attempt to prove
`SelectionIsStorable` showed what two edits per job hide: after three, with two requests
open at once, an older answer offers a skipped receipt again and a later one takes
it back while it is selected. Hence its mark `together`.

`ReceiptStoreProofs` and `ClientProofs`, of `ClientSpec`, for any receipts, views,
page lengths, tabs, sign-ins, tokens, messages and requests open at once. Each
store is proved from what the client lets it do (`DialogMoves`, `ListMoves`,
`SessionMoves`, `ChatMoves`):

- The dialog, from `DialogIInv`. `LeftInv` relates what must name one receipt: the
  selection, the detail, the question and every open request that will write
  one of them, unless the receipt was left (`TheSelectedIsShown`,
  `TheAskedIsDeleted`). `EarlyInv` follows revisions instead: what the server
  holds, what the detail shows, what the draft was begun from, what an answer
  carries. With nothing crossed, one change of the receipt is open
  (`ChangeAlone`), and what is shown or drafted is older than the server's only
  while its answer is on its way (`NothingIsUndone`). `AgainInv` says of a correction on
  its way that the draft on the screen is the one it was made from (`NoDraftIsDropped`).
- The list, from `ListIInv`: for a user who waits, one thing is open, every page
  fetched or shown has rows or is the first (`Fits`), and the list counts as
  the server does, but for the row of a served deletion (`Gone`). The page
  fetched when a deletion is answered therefore fits again (`NoPageIsEmpty`).
- The session, from `SessionIInv`. `OneTabInv`: without a second tab or a late sign-out,
  one tab holds what is stored, has one refresh open, which sends what it holds or what
  an adopted session replaced, and nothing that was left is stored (`NobodyComesBack`). `LiveInv` rests on it: the
  token that is held, or sent, or carried by the open refresh's answer, is
  neither spent nor revoked (`NobodyIsSentAway`).
- The conversation, from `ChatIInv`: messages are numbered as written
  (`WrittenInv`); one waits once, and one that has landed waits only while its
  answer is on its way (`QueueInv`, `UnsentInv`); conversations are begun in
  order, each by a message, so that there is always room for one more
  (`BegunInv`); landed, waiting and attached messages follow one another
  (`OrderInv`), and those of the present thread land where the user is
  (`ThreadInv`). `MessagesLandTogether` adds what the invariant cannot carry, that
  an earlier thread's messages stay as they landed (`PastStays`).
- `ClientTypeCorrect` collects the types of all six.

They assume that `None` is none of the things it stands in for
(`NothingAssumption`), that pages have rows, and that there may be a token, a
message and a conversation (`SizeAssumption`). As with `SelectionIsStorable`, an
exception was found by proving. `DraftsAreKept` once named only a second correction (`again`). No state within `Bounds`
contradicts that, but one beyond them does: save a correction, select another
receipt, begin to correct it, and the first answer closes the second's draft.
So it now names leaving the receipt (`left`) as well.

Only model-checked: liveness (`ClientIsTold`, the fair half of `KeepsPromise`),
which the prover does not reach, and `NoTwins`, which is `TwinsNeedOverlap` where
nothing overlaps. What the runs add to the theorems is that the
hypotheses are met, that every action is taken, and that a bug of the kind a
mutant is would be seen.

## Not modelled

The vision model, exchange rates, mail and storage adapters are outcomes chosen
by the models that call them. Statistics, charts and products only read.
Category similarity and name corrections are about text. Account closure,
plans, contact and admin are one transaction each.

Most of the client's TypeScript has no definition here. `api/schema.ts`
(13,000 lines) is generated types. The pages and dialogs of `features/` are
markup over the stores: their state is a form's fields until one request is
sent, and what they decide (which button is there when) is in the guards of the
store's actions, mapped to the lines that decide it. The rules that make the
program right are mostly in the Python backend.

Of the stores that are modelled, these are left out: dictation
(`AssistantStore.ts:156`, two of which may be begun at once), the busy flag of
`setPrivacy` (`ReceiptStore.ts:261`), which stays up when the request itself
throws, and `StatisticsStore.loadReceipts` (`:203`), which its reset does not
overtake. `UploadStore` is not among the stores an account change resets.

## Plan

1. `CreditWallet`: quota check, readings in flight, charges, the daily ceiling.
2. `Household`: join, leave, depart, remove; ownership under concurrency.
3. `ExportJobs`: the export's task beside `UploadJobs`, without a sweep.
4. `ProposedCards` and pending income: saved, dismissed, confirmed once.
5. Pure operators: discounts, totals, position matching, periods.
   Wallet, household and cards are small; those about one table share an instance.
6. Theorems: the wallet's overdraft bound; a household's ownership; the lemmas of
   the pure operators.
