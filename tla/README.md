# UrbanMend: TLA+ models, model checks and proofs

UrbanMend takes reports of urban problems from citizens, classifies them with a
language model (or keywords when that is not available), groups reports of one
problem into an *Issue*, lets the authority work through the Issue's lifecycle,
and tells the reporters about every change. It is a Django application with
PostgreSQL/PostGIS, Redis (cache and broker) and Celery workers.

This directory models the parts of `src/urbenmend/` whose correctness depends on
the order in which several requests, tasks and failures happen, and the central
aggregate everything else writes to. Paths below are relative to
`src/urbenmend/`. `PROJECT.json` holds the exact correspondence (`map`: each
definition with the file and lines it translates), the runs, the hazards, the
theorems, and one mutation for every checked property.

## 1. Inventory

### How the components interact

    POST /media  -> upload_media --on_commit--> process_media (task)
    POST /reports -> reserve key -> judge the place by the city boundary
                     -> submit_report [create, attach photos]
                     --on_commit--> classify_report (task) ; complete key
    classify_report -> cache, circuit, counters, LLM or keywords (taxonomy)
                     -> locked write -> cluster_report
    cluster_report  -> joins or founds an Issue, recomputes its severity
    transition / merge / split / reopen / assign / confirm -> Issue rows, StatusEvents
    StatusEvent -> OutboxEvent (same transaction) -> relay_outbox (beat)
                -> consume_outbox_event (task) -> Notification rows -> email
    moderate -> Report, Issue or photo, at any moment
    auth/* -> codes, sessions, devices, reset tokens ; throttle buckets in front
    users by Admin -> status, scope, sessions of an account
    POST /exports -> Export row --on_commit--> generate_export (task)

Requests and tasks share nothing but the database, the Redis cache and the
broker. Every service is one transaction or a few; what is *not* covered by a row
lock (cell locks, an unlocked read, a call to the outside, an `on_commit`
callback, the gap between two transactions of one request) is where the hard
behaviour is.

### Components

| Component | State | Operations | Hard behaviour | Correct when |
|---|---|---|---|---|
| Issue aggregate (`issues/services.py`) | Issue status, severity, duplicate and reopen links, confirmations, StatusEvents; Report.issue, status | cluster, transition, mark duplicate, reopen, merge, split, confirm, withdraw, moderate (also assign, override severity) | any sequence of the operations | severity follows members, membership follows triage, links do not cycle, support is not lost, history explains status |
| Clustering under advisory locks (`issues/services.py`, `issues/selectors.py`) | open Issues, ClusteringRule, transaction locks | `cluster_report`, `update_clustering_rule` | concurrent workers, crash, closing, configuration change, a retired rule, lock order | one open Issue per problem and cell size; no deadlock; redelivery harmless |
| Outbox (`notifications/`) | OutboxEvent, Notification, broker messages | record, relay, consume, dispatch | overlapping relays, crash between any two calls, retries; merges, splits and changes of accounts meanwhile | every committed change reaches those who remain its reporters, surplus mail is explained |
| Submission (`reporting/services.py`, `api/idempotency.py`) | idempotency record, Report, Media.report | reserve, submit, complete, release | double taps, races on photos, crash and refusal between the commit and callbacks | one Report per action; replay names a Report that exists |
| Triage (`classification/tasks.py`, `classification/services.py`, `reporting/services.py`) | Report text, category, source, status | `classify_report`, `update_report`, `moderate` | a slow call without lock while others write; redelivery; loss | a human's category wins; triaged once; nobody waits for ever |
| Photos (`media/`) | Media state, report, stored object | upload, process, attach, remove, moderate | unlocked read and full-row save around image work | downscaled once; removed photos stay down; binding is kept |
| LLM controls (`classification/services.py`) | response cache, counters of user, platform and day, circuit | look up, check circuit, reserve, attempts, record success and failure | one cache command at a time from several workers, each may fail; late success | limits hold, an open circuit holds, everybody gets an answer |
| Taxonomy and fallback (`classification/reference_services.py`, `keywords.py`, `contracts.py`) | categories, severity keywords | create, retire, edit; rank, choose, coerce | edits while a classification waits | a Report lands in a category it was offered; the fallback is deterministic |
| Accounts and contact channels (`identity/services.py`) | users, verification codes | register, provision, send, verify, edit profile, delete | two transactions per answer; races on an address; deletion meanwhile | bounded guesses; verified means proven; deleted means gone |
| Sign-in (`identity/views.py`, `identity/services.py`) | sessions, devices, reset tokens | password, second factor, reset, suspension, deletion | a session is written after its check; a login over the session of another | demanded factor passed, no session survives a block, a token works once |
| Throttling (`api/throttling.py`) | buckets in the cache | read, judge, write back | overlapping requests lose each other's entries | the limit of the window, but for overlaps |
| Work queue (`api/pagination.py`, `issues/pagination.py`) | cursors | pages forwards and backwards in four orders | rows enter, leave and move between pages | what nobody touched is served once, in order |
| Row locks and authority (`issues/services.py`, `identity/services.py`) | row locks, roles, scopes, assignees | the requests of staff on Issues | joins that lock categories and authors; scope changes meanwhile | who can deadlock; assigned while qualified |
| City boundary (`geo/`) | outlines in force | replace, edit by hand, judge a place | a replacement waits for a row that another retires | one outline in force, named by the audit trail |
| Export (`export/`) | Export rows and files | create, generate, poll | duplicate delivery, dying worker | whoever polls is told the end |
| Inbox, comments, audit, reads, error envelopes, platform and settings | see `PROJECT.json` | single-row writes, queries, formatting | little or none | - |

The full list with the reason for everything left out is `components` in
`PROJECT.json`; every hazard we know of is in `hazards`, at the line where it
bites, with the properties that cover it.

## 2. Modules

| Module | Models | Granularity |
|---|---|---|
| `IssueLifecycle` | the Issue aggregate | one action per service: each takes its Issue rows `FOR UPDATE` before it looks |
| `IssueLifecycleProperties` | its promises | |
| `IssueLifecycleProofs` | theorems about it | |
| `FindOrCreate` | abstract promise of clustering: attach or found atomically | one step per Report |
| `ClusterLocks` | `cluster_report` in steps: row lock, rule read, cell locks in order, search, insert or attach, commit; crash, missing rule | one step per lock or statement |
| `NotificationOutbox` | outbox, relay, consumer, emails | one step per transaction and per outside call |
| `Submission` | idempotency record, submission transaction, callbacks | one step per cache command and per statement that reads or locks shared rows |
| `TriagePipeline` | classification task against edits and moderation | the unlocked read, the locked write, the check and the save of an edit |
| `MediaPipeline` | derivative task against submission, deletion, takedown | the unlocked read, the full-row save, the check and the save of a removal |
| `LlmControls` | the controls around the provider call | one step per cache command and per attempt |
| `Taxonomy` | categories, keywords, ranking, coercion, the store of an answer | one step per read and per write |
| `ContactVerification` | registration, codes, profile edits, deletion | one step per transaction |
| `SignIn` | passwords, second factors, sessions, reset tokens | one step per check and per write |
| `Throttle` | the buckets of the sign-in endpoint | one step per cache command |
| `StewardLocks` | row locks of twelve kinds of request, and the authority checked under them | one step per statement that locks |
| `Paging` | keyset pagination of the work queue | one step per page and per change of a row |
| `Boundaries` | `replace_city_boundary`, the Admin site, `is_within_city` | one step per statement |
| `Exports` | `create_export`, `generate_export` | one step per read and per write |
| `Intake` | composition: `Submission`, `Boundaries` | |
| `Tasks` | composition: `TriagePipeline`, `MediaPipeline`, `Exports` | |
| `Identity` | composition: `ContactVerification`, `SignIn`, `Throttle` | |
| `Staff` | composition: `StewardLocks`, `Paging`, `Taxonomy` | |
| `MC...` | constants of the instances that TLC checks | |
| `...Proofs` | theorems about a module, or about the parts of a composition | |

**`IssueLifecycle`.** `status`, `computed`, `dupOf`, `reopenedFrom` are the columns
of Issue (`absent` while there is no row), `confirmers` the Confirmation rows,
`events` the StatusEvents, and `issueOf`, `reportStatus`, `signal` the columns of
Report. `TransitionsFrom` is the graph of `issues/models.py`. `HighestSeverity`
is `_recompute_issue_severity`. Which Issue matches a Report is data here (any
open one, or none): the locks that make the choice sound are in `ClusterLocks`. A
reopening writes no column of the finished Issue; its StatusEvent goes to the
finished Issue and names the successor. Confirmations are sets, as the unique constraint on
`(issue, citizen)` makes them.

**`ClusterLocks`.** Geography is a line, since both axes behave alike. A lock key
has the cell *size* in it as the geohash has its length. A worker that finds its
Report's row locked waits, which is that no step is enabled for it. `RowLocked`
is the `FOR UPDATE` of the search. `setting` is the active rule of each category, or none: an Admin
changes its radius or its window, retires it, or creates one, at any moment (`AdjustRule`). A task that
finds no rule (`RuleMissing`) or whose worker dies (`Crash`) rolls back and spends its message:
`failed` counts those of each Report, `Deliveries` says how many it has. `grid` is history: the cell
size with which the founder of each Issue was locked. `FindOrCreate` is stated without a word
about locks, and `MCClusterLocks` instantiates it over the same committed rows;
all worker steps but the commit map to stuttering.

**`NotificationOutbox`.** `batch`/`handed` are rows a relay transaction has locked and
the messages it has already handed out, which no rollback takes back. `queue` is
a bag, because the broker promises no order and may hold equal messages. `standing` is what
`_generate_notifications` asks of an author when the event is consumed: an account that is
registered, verified or active, with in-app notifications on or muted. Reports are moved by merges,
splits and joins at any moment. `owed` is history: those who had reported the Issue when its
status changed and have been its notifiable reporters ever since. `task`,
`stage`, `todo`, `unsaved` are the local state of the consumer. `audience`,
`accepted`, `handoffs`, `undone`, `lostSaves`, `givenUp` are history variables:
they guard nothing, except that `MaxEvents` bounds the number of rows.

**`Submission`.** A request makes at most one Report, which has its name. The
fingerprint of a body is the body. `Release` deletes whatever record is there
and the `set` after a vanished record is unconditional, exactly as the Redis
commands are. Requests that die leave their record to expire; expiry is allowed
only when no request works under the key (the code's in-progress lifetime is
far above a request's), and a completed record does not expire, because BR-5
speaks of the retention window.

**`TriagePipeline`.** `queue` counts messages, acknowledged when taken. `CheckEdit`
and `SaveText`/`SaveCategory` are apart, because `update_report` checks the
instance it was given and saves it with no lock. `classified` is the text that a
stored classification came from.

**`MediaPipeline`.** `copy` is the row as the worker read it; `SaveReady` writes
every column of it, `SaveFailed` only the state, as their `save()` calls do.
`master` counts how often the image a row points to was downscaled (the new
object has a new key, so it is one more than that of the row read).

**`LlmControls`.** `at` is the command a call runs next. `stamps` and `passed`
are history: the window or day of each grant, and how often the circuit had
opened when the call was let through. A command that fails is the answer of a
refusal before the provider call and is swallowed after it, as the code has it.
A window and a day end at any moment, also between the counters of one call.

**`Taxonomy`.** Phrases are numbers in alphabetical order, their occurrence in a
text is a relation, and `RanksBefore` is the sort key of `_ranked`. `offered` is
the list of categories that a classification has read; `Usable` and `Coerced`
are what the code does to a name that is not in it. `Arrivals` is any order in which
the rules may come: `active_keyword_rules` sorts them by the collation of the
database, which says nothing of how equal phrases come, so the model lets
every order happen. `First` and `Chosen` pick over the set by `RanksBefore`.

**`ContactVerification`, `SignIn`.** A secret is right or wrong, whichever the
environment likes; time is left out, so that a code or token may lapse simply
by not being used again. `verifying`, `editing`, `signing` and `resetting` hold what a
request has read and not yet written. A session has two parts, as the
row has two sets of keys: `full`, the login that requests are authenticated by, and `partial`, a login that
waits for its second factor. `LoginView` runs without authentication and does not ask for an
empty session, so any browser may sign in over what it has: `LoggedIn` is Django's `login()` (another account, or an
older password, flushes the session; the same account keeps it), and `start_partial_session`
rotates the key and leaves the full part alone. A login loads and stores its browser's session in one step:
a revocation between the two statements is left out. `overtaken` (history) marks the writes
of requests that a later edit or deletion had overtaken; the properties say
exactly what survives them and section 6 lists what does not.

**`Throttle`.** A bucket is a set of entries, each with the request that made it and its
time. `base` is the list a request has read and found room in, `over` says that some
bucket refused it, and `overlaps` counts the writes over a list that had changed since it was read.

**`StewardLocks`.** A request is a plan: the rows in the order in which its
statements lock them, with the rows that `select_related` adds and the
`FOR KEY SHARE` locks that foreign keys take at the commit. `InCycle` is the wait-for
relation; an abort by the database ends a request. Only the assignee, roles and
scopes have values besides the locks. `Wide` names the requests that lock two Issues or the
authors of many Reports (duplicate, merge, split); all others are narrow, corrections of a
category included. `cluster_report` is two kinds, as it joins an Issue or opens one; its
advisory locks, which only such tasks take, are those of `ClusterLocks`. `update_report` logs and
writes no audit event, so that a correction names no actor.

**`Paging`.** A position is the tuple of the sort keys. `Behind` is the disjunction the code
builds from it to filter the slice, `Later` the order the database gives the rows of the slice, and
`Ordered` puts at each place the row that as many others precede. The page before is the same in
the inverted order.

**`Boundaries`.** `FOR UPDATE` is two steps: the rows the statement has seen, and the rows that
are still active when it gets their locks. `trail` are the audit events, and `InTurn(i)` is
the boundary that was in force after the `i`-th of them.

**`Exports`.** A worker holds what it read of the requester when it took the task.

**Several components in one run.** `Identity`, `Staff`, `Intake` and `Tasks` put modules side
by side that share no state their properties speak of. A variable `part` says
which of them a behaviour belongs to; the others stay in their initial states, of which
one is enough where a module has many. `Parts` of `Tasks` says which tasks a run is about. In
`Tasks` the variables of `MediaPipeline` and `Exports` have names of their own (`photo` for `state`,
`uploads` for `queue`, `shot` for `job`). A run of a composition asks the same as
one run per module, and gives one instance per group of users: the account, the staff, the
submission, the workers. That nothing is lost is proved: `PartsComposed`, `StaffComposed`,
`IntakeComposed` and `TasksComposed` say that a behaviour of a composition is a behaviour of
each of its modules, so that what is proved of a module holds in the run.

Left out everywhere: wording, audit rows (but those of the boundary),
serialisation, and what an LLM or an image library computes. These appear as
any result the code accepts. Permissions are left out where the request
cannot lose them on the way.

## 3. Runs

Each passing run fires every action of its module that its constants permit, and
every property of it is broken by a plausible mutation of the code (`mutants`).

| Run | Instance | States | What it shows |
|---|---|---|---|
| `issue_clusters` | 2 Issues, 3 Reports of 2 citizens (one filed two), ranks 1 and 3 | 177k | severity and support survive every sequence of clustering, merging, splitting, confirming, reopening |
| `issue_links` | 3 Issues, 2 Reports, hidden as verdict | 524k | membership, duplicate links, reopening chains and history in every order |
| `cluster_race` | 2 workers, 3 Reports in neighbouring cells, one delivered twice, two rules that differ in radius, window and cell size, or none, a crash, closing | 165k | one open Issue per problem and cell size, refinement of `FindOrCreate`, every Report clustered unless each of its messages was spent: sorted locks never deadlock |
| `cluster_latitude` | two neighbours on either side of a precision change | violation | see section 6 |
| `outbox_faults` | 2 relays, 2 consumers, 3 Reports of 2 citizens, 1 retry, and three of: 2 changes, 2 faults, a joining Report, a merge or split, an account muted or blocked | 245k | nothing is lost, no row is published twice, surplus mail has its cause, changes reach those they are owed to |
| `submit_mixed` | 4 requests: two taps, an edited body under the same key, a rival for the photo without a key; 2 faults of 3 kinds. Beside it 2 replacements of the boundary, 3 names | 192k | idempotency, replay, photos, triage of what exists; the boundary that judged is in the audit trail |
| `celery_tasks` | 1 Report delivered twice, 2 workers, 3 kinds of edits, moderation, 1 loss. Beside it 2 exports delivered twice, a suspension and a reinstatement, 1 loss | 28k | official category, single triage, progress of both tasks |
| `media_uploads` | 2 photos delivered twice, 2 workers, 2 rival submissions, removal and takedown, 1 loss | 251k | derivatives once, takedown kept, every photo settles |
| `media_detached` | one worker, no duplicate delivery | violation | see section 6 |
| `identity` | 2 accounts, 2 numbers, 2 answers and an edit in flight; an account with 2 browsers, 2 resets of 3 tries, 2 of tokens, blocks and logins over a session, and a visitor who signs in on them; 3 sign-ins through 2 buckets | 879k | bounded guesses, proven channels, deletion; factors, blocks, tokens; windows |
| `staff_console` | 3 requests of 12 kinds on 3 Issues of 2 categories, or 2 and an account change; 3 rows, 1 move, 4 pages; 2 categories, 3 keywords, 2 classifications, 2 edits | 804k | deadlocks and assignment; a scroll; the taxonomy |
| `llm_workers` | 3 calls, two of one citizen, two of one text, limits 1 and 2, budget of two calls, threshold 2, 1 new window, 1 exchange that raises | 449k | limits, circuit, an answer for everybody whose exchange does not raise |

**Why the bounds are enough.** Three Issues are the smallest number with a
chain of duplicates or of recurrences; two Reports per citizen make the
"filed only moved Reports" rule of `split_issue` matter. Three Reports in a row,
the middle one within reach of both others, are the smallest case in which two
workers share some cells but not all; two workers are the fewest that race, and
that no ring of more waits for itself is proved for any number (`NeverWaitInARing`). The rules have
cells of different sizes, so that two workers around an edit of the rule do not exclude
each other. The last Report is filed after the narrow window of the first has passed, so that a match
fails by time as well as by distance.
Two relays and two consumers overlap; two faults let a crash hit the recovery
from the first. Four requests are two taps that race, a third that sees what
they left, and a rival outside the key. Two deliveries and two workers let a
duplicate run beside the original; one loss is enough because the property says
nothing after one. Two accounts and two numbers are the smallest case of a number that
changes hands; two answers in flight the smallest in which one is overtaken.
Two browsers and two blocks let a sign-in begin before one block and end after
the other; a second account is what a login may find in a session besides its own. Three tries
per token leave two concurrent resets one attempt to spare, so that it is the consumed token and not the
attempts that stops the second. Three sign-ins fill the larger bucket while they overlap. Three
requests make cycles of three, on Issues of two categories of which two share one. A page of one row
with three rows makes every boundary between pages a place where a
row may move. Three calls exceed the limit of the platform by one, and two of
them that of their citizen. Two replacements make one wait for the other.
Four runs bound how many rare things come together, which a `BoundedSpec` of the MC module says by name.
`outbox_faults` has three of the status changes, faults, and `Rarities` (a join, a split, a change of
an account) at most, so that each pair of them meets a change. `identity` has two of the reset tokens, blocks, and sessions
that hold a login within another (`Rarities`), and the second account signs in while nobody resets
and nobody is blocked (`OneVisitor`). `staff_console` has a third request or an account change
(`ThirdOrChange`). `llm_workers` has one exchange that raises, before the window ends (`Bound`).
The theorems of section 4 have no such bound.
Model values are symmetric where a run has no liveness property, and no
symmetry is used where it has one.

**Bounds on counters.** `MaxTime` (the clock), `MaxCrashes`, `MaxEvents` (status changes),
`MaxFaults`, `MaxLosses`, `Deliveries` (duplicates the broker makes), `MaxWindows` (rate windows), `MaxCodes`,
`MaxTokens`, `MaxBlocks` (suspensions), `MaxStandings`, `MaxEdits`, `MaxMoves`, `MaxPages`, `MaxChanges` (account
changes), `MaxVerdicts`. `MaxRetries`, `BatchSize`, `MaxAttempts`, `MaxTries`, `Threshold` and the limits are settings of
the code with small values. The seconds of a lock timeout, of the LLM's timeout
and of a task's time limit are not modelled.

`CHECK_DEADLOCK FALSE` stands where the system may rightly stop: when all Reports, requests, edits or
events of a finite instance are dealt with. The two Issue runs check for
deadlock. That a lock cycle is no such stop is what `EveryReportClustered`,
`ChangesReachReporters`, `NoReportWaitsForEver`, `EveryExportEnds`, `EveryCallAnswered` and
`EveryPhotoSettles` are for.

**Fairness.** Weak fairness of each worker, relay and consumer as a whole:
Celery workers keep consuming, beat starts the relay again and again, LLM and
mail calls have timeouts and (for the LLM) a fallback, so a task that runs comes
on. A worker that waits for a row or a lock needs no more than weak fairness,
because PostgreSQL queues waiters and in the instances checked the wait ends for good when
the holder commits. Nothing is assumed of users, Admins, crashes or of who edits: an author may
keep editing, which is why `EveryReportTriaged` needs that the number of edits is
finite (each edit is sent once). `ClusterLocks` also assumes that the clock reaches
every submission. Weak fairness of a classification's steps in `LlmControls` and of a
worker's steps in `Exports` says the same of the process that runs them. Liveness
excepts what the code gives up: a Report each message of which was spent on a worker that died or on
a category without a rule (`failed` in `ClusterLocks`), a task that died with its worker (`lost` in `Exports`,
`losses > 0` in `TriagePipeline` and `MediaPipeline`), a call whose exchange raised what nobody
catches (`"raised"` in `LlmControls`), and an event whose retries ran out (`givenUp`). Beyond that the code makes no promise, and section 6
shows where the documents do.

## 4. Proofs

Every theorem below holds for any values of the constants that satisfy the named
assumptions of its module: any numbers of requests, workers, Issues, Reports and
messages, any limits. Each is `Spec => []Inv` for an invariant or `Spec => P` for an
action property or a refinement.

| Module | Theorems | Property | Assumes |
|---|---|---|---|
| `IssueLifecycleProofs` | `TypeCorrect`, `Invariance` | `TypeOK`, `IInv` | `LifecycleAssumption`: authors, ranks and verdicts have their types |
| | `SeverityCorrect` | `ComputedIsHighestMember` (BR-11) | |
| | `MembershipCorrect` | `TriagedIffMember` | |
| | `DuplicateLinksCorrect` | `DuplicateLinksEnd` (BR-17) | |
| | `ReopeningCorrect` | `ReopenedStaysFinished` (DM-Q8) | |
| | `HistoryCorrect` | `HistoryExplainsStatus` (BR-16, BR-28, BR-31) | |
| | `SupportCorrect` | `SupportMovesTogether` (DM-Q7, BR-22) | |
| | `ModerationCorrect` | `ModerationIsFinal` (BR-32), which no run lists | |
| `ClusterLocksProofs` | `LocksCorrect`, `TypesCorrect` | `IInv`, `TypeOK` | `ClusteringAssumption`, `CellAssumption` |
| | `AttachedOnceCorrect` | `AttachedOnce`, of the proof module | |
| | `NeverWaitInARing` | `NoWaitingRing`, of the proof module | |
| | `RefinementCorrect` | `ImplementsFindOrCreate` | |
| | `DuplicatesCorrect` | `OneIssuePerProblem` | |
| `IntakeProofs` | `ReplayCorrect` | `ReplayIsCommitted` | `SubmissionAssumption`, `NoneAssumption` |
| | `TriageCorrect` | `TriagedReportsExist` | |
| | `PhotosCorrect` | `NoPhotoTakenOver` | |
| | `OneReportCorrect` | `OneReportPerServedAction` (BR-5) | |
| | `VerdictsCorrect` | `EveryVerdictExplained` | `BoundaryAssumption` |
| | `IntakeComposed` | `Spec`, `CB!Spec` | |
| `TaskProofs` | `TypesCorrect` | `TypeOK` | `PipelineAssumption` |
| | `OfficialCategoryCorrect` | `OfficialCategoryIsKept` | |
| | `TriagedOnceCorrect` | `TriagedOnce` | |
| | `ReportsAccountedFor` | `NoReportForgotten`, of the proof module | |
| | `PhotosTyped`, `DownscaledCorrect` | `MP!TypeOK`, `DownscaledOnce` | `TasksAssumption` |
| | `StaysDownCorrect` | `TakenDownBeforeRunStaysDown` | |
| | `PhotosAccountedFor` | `NoPhotoForgotten`, of the proof module | |
| | `ExportsTyped`, `LinksCorrect` | `EX!TypeOK`, `LinksLead` | |
| | `ExportsAccountedFor` | `NoExportForgotten`, of the proof module | |
| | `TasksComposed` | `Spec`, `MP!Spec`, and the exports without their fairness | |
| `NotificationOutboxProofs` | `TypeCorrect` | `TypeOK` | `OutboxAssumption`, `NoneAssumption` |
| | `RelayCorrect` | `RowsPublishedOnce` | |
| | `SettledCorrect` | `SettledEventsNotified` | |
| | `MailsCorrect` | `SurplusMailsExplained` | |
| `LlmControlsProofs` | `TypesCorrect` | `TypeOK` | `LimitsAssumption` |
| | `CircuitCorrect` | `OpenCircuitHoldsNewCalls` | |
| | `LimitsCorrect` | `WithinLimits` | |
| `IdentityProofs` | `ContactsCorrect` | `IInv` | `BoundsAssumption`, `NoneAssumption` |
| | `AttemptsCorrect` | `AttemptsBounded` | |
| | `DeletionCorrect` | `DeletedHoldsNothing` | |
| | `VerificationCorrect` | `VerifiedWasProven` | |
| | `ResetsCorrect` | `TokenChangesPasswordOnce` | `IdentityAssumption` |
| | `FactorsCorrect` | `DemandedFactorPassed` | |
| | `BlocksCorrect` | `NoSessionFromBeforeABlock` | |
| | `WindowCorrect` | `WindowBounded` | |
| | `PartsComposed` | the three `Spec`s | |
| `StaffProofs` | `AssignmentsCorrect` | `AssignedWhileQualified` | `StaffAssumption` |
| | `DeadlocksCorrect` | `NarrowRequestsNeverDeadlock` | |
| | `OfferedCorrect` | `ClassifiedAsOffered` | |
| | `FallbackCorrect` | `FallbackIsDeterministic` | |
| | `PagesTyped`, `ScrollCorrect` | `PG!TypeOK`, `UntouchedServedOnce` | |
| | `PagesAdjacent` | `PagesAdjoin`, of the proof module | |
| | `StaffComposed` | the three `Spec`s | |

No assumption says more than what the code establishes. `CellAssumption` is what `_geohash_precision` computes:
a cell is at least as wide as the radius where the Report is. That two Reports, or two rules, have cells
of one width is not assumed: `FindOrCreate` and `OneIssuePerProblem` speak of the cell size.

### The arguments

**Issue aggregate.** `IInv` conjoins

* `TypeOK` and `TriagedIffMember`. The second is inductive given the first; it
  yields `AbsentHasNoMembers`, which every action that creates an Issue needs: a
  row that does not exist has no members to disturb its severity.
* `ComputedIsHighestMember`, inductive relative to those two. The lemma
  `HighestSeverityIsMaximum` shows that the `CHOOSE` in `HighestSeverity` picks a
  maximum; it rests on signals being one of at most five ranks, so that no
  induction over the set of members is needed. Merge and split recompute both sides, and
  classification cannot change a member's signal, since a member is no longer
  `Unclassified`.
* `LinkedAreRetired`: an Issue with a duplicate link is a duplicate (or was
  moderated since). `DuplicateLinksEnd` alone is not inductive: a link from `i` to
  `s` closes no cycle only because `s` itself has no link, and that is what the
  guard of `CanSurvive` (`s` is not a duplicate) or `IsOpen(s)` gives through this
  strengthening. `LinkToRootEnds` is the graph argument: adding a link to a node
  without a link keeps the well-foundedness of the links.
* `SuccessorsFinal`: the origin of a reopened Issue is resolved, closed or
  moderated, and has one successor. `ReopenedStaysFinished` (not open) is weaker than
  what is preserved: that no edge leads from these statuses back is `FinishedStaysFinished`.

`HistoryCorrect` has an invariant of its own, `HistoryInv`: rows that do not exist have no
events. An event is appended only where the history ends (`RecordedKept`), and a status is
written without one only for a new row or a verdict (`UnrecordedKept`). That a history has a
last change at all is shown with the well-foundedness of the naturals (`LastExists`).
`SupportCorrect` needs `IInv` and `AbsentUnconfirmed`: without it, the row a split
creates could bring confirmers of its own. It says of each step where those went who left an Issue
(`NobodyDropped`) and where those come from who are new to it (`NobodyInvented`). `ModerationCorrect` needs no
invariant beyond the guards.

**Clustering.** `SharedCell` is the geometric fact: two positions within the
rule's radius that reckon with cells of one width have a cell in common, however `div` cuts the
line. With it, two workers that both hold all their cells (`Exclusive`) and use one cell size cannot have
decided on neighbouring Reports (`OthersDoNotMatch`), so what a worker read under its locks is still
true, of the Issues founded with its cell size, when it commits (`Decided`, kept by `ClaimPreserved`,
`CommitPreserved` and their like). The refinement follows: a commit is one step of `FindOrCreate`,
everything before it a stutter. `FindOrCreate` lets a founder miss an Issue that was founded with another cell size, and
only such a one; `OneIssuePerProblem` says what is left of the promise, and section 6 what is not.

No ring of waiting workers: `_neighboring_geohashes` returns its cells sorted, so what a worker holds
is smaller than what it still needs (`Sorted`). In a finite group in which each waits for another, the worker that
waits for the greatest cell waits for one that holds this cell and waits for a greater one, or
for an Issue's row; and who holds a row has all its cells and ends. That the group has such a
worker (`Greatest`) follows from the well-foundedness of the naturals, without an induction of its own.

**Submission.** `IInv`: a request past its commit has its Report (`Committed`), and two requests
hold no photo row in common (`RowsLocked`); this gives the replay, the tasks
and the photos. At most one Report per served key needs `OInv` besides: a key has at most one owner
at a time (whoever works on it or was accepted), the record exists exactly while there is
one, and only the owner's Report exists.

**Triage.** A worker that calls the classifier has read a text (`IInv`); the two action properties then
follow from the conditional writes, step by step. `NoReportForgotten` needs to know that
what was clustered waits no more (`ClusteredIsTriaged`): a redelivered task that finds its Report
clustered ends without a word.

**Photos.** `DownscaledOnce` is not inductive: a late run may write its stale copy.
`NotYetDownscaled` says that whatever is still processing, and whatever a run holds, was
read before any downscaling. `NoPhotoForgotten` is inductive with the types: a run
ends only with a state written, or because the photo had left `processing` before.

**Exports.** `ExportInv`: a busy worker works on an export and has stored the file when it is about to write the
row (`RunsInOrder`). So whoever reads `ready` finds a file (`LinksLead`), whatever a
second run of the same export does, and an export that is still processing is in a message or in a worker's
hands (`NoExportForgotten`). With the fairness of the workers that is what
`EveryExportEnds` rests on; the same holds of `NoReportForgotten`, `NoPhotoForgotten` and
their liveness properties.

**Outbox.** `Accounted`: each hand-over of a row was undone by a rollback or is the one that
counts, by a published row or a run that has not ended. It is inductive because the batches
of running relays are disjoint (`RowsLocked`, from `FOR UPDATE SKIP LOCKED`).

`SettledEventsNotified` follows from `DInv`. `Delivered` is the chain of custody: an event that was
handed over is given up, in flight (a message in the queue or the task of a consumer), or those it is owed to
have their rows. `Informed` says that a consumer past `generated` has left these
rows, and `OwedStay` that whoever an event is owed to would be among its recipients now: they are determined
when the event is consumed, and each merge, split and change of an account releases those whom
it takes away from the Issue.

`SurplusMailsExplained` needs `MailsAccounted`. Each copy of a message in the broker (`Copies`),
and each consumer that holds one (`MaySend`), is a right to send one mail. Mails sent and rights that are
left are together at most the hand-overs and the lost saves of that event. A step creates or moves at most one right
(`Exchange`), so that no sum over the bag has to be taken apart.

**LLM controls.** The counters of the store are at least the number of calls stamped with the current
window or day (`GlobalInv`, `UserInv`, and the like for the budget), and each call compared
the counter with the limit after its own increment. Both are needed: the store may fail
and count a call that was never let through, so equality does not hold. `CInv` relates
the circuit to what each call saw of it.

**Contacts.** `Accounted`: the comparisons made with a code and the requests that have
claimed an attempt and not used it are together at most the attempts counted, which
`claim_verification_attempt` bounds. `NewestIsContact` (the newest code of a channel was sent to the
address the account has now) is what makes a right answer a proof of that address, and `FreeHoldNothing`
starts each account clean. What an overtaken request wrote after a deletion or an
edit is excepted by `DeletedHoldsNothing` and `VerifiedWasProven` themselves; section 6 describes it.

**Sign-in.** `SessionInv`. That a session has passed the demanded factor is not inductive by itself, because a
session is written from what a sign-in holds since its password was checked.
`SnapshotFactor` says of such a sign-in that the device which makes the code ask for the second factor is
still there, unless the account was deleted; `SessionFactor` then says of the sessions what the
property needs. Both speak of the full part of a session by itself: whatever a login does to
the other part, `LoggedIn` and `start_partial_session` write a full part only from a sign-in that is due one. `NoSessionFromBeforeABlock` is kept as it stands: every block revokes
all full sessions of its account, whatever the status was before.
`ResetInv`: a token that was used is consumed. Two requests may both have claimed it;
the second test under the lock is what stops the second.

**Buckets.** `BucketInv`. `overlaps` counts the stale writes, and since the last of them nothing
is lost: whatever was counted since then (`fresh`) is still in the list, or is too old to share a
window with something that is (`Listed`). So all of it that falls into one window was in the list
that the last request found room in (`Judged`), which bounds it by the limit. `Bounded` gives what was
counted before one limit for each stale write.

**Row locks.** `LockInv`: from the check of an assignment to its commit the request
holds the row of the assignee (`AssignmentHolds`), which `UpdateByAdmin` needs to change the account; so what was
checked (`Fit`) is still true at the commit, and no two requests assign to one account at a time. For deadlocks,
the plan of a narrow request climbs through the levels Report, Issue, category, person
(`NarrowPlansAscend`), so in a cycle each request would wait at a higher level than the one that
waits for it (`WaitsUpwards`), and there are four levels. One case is not settled by levels: an
assignment locks two persons, the assignee and, for the foreign key, the actor. It waits for the second only if
another assigns to that person, and an actor is an Admin, whom nothing is assigned to, or the assignee.

**Taxonomy.** `TaxonomyInv`: what a classification answers is in what it was offered
(`Offered`), and an answer of the keywords follows from the rules that were read, in some order of arrival
(`Derived`). `FirstLeads` shows that any finite set of rules that match has a first one, whatever the
order; `OneFirst` that with one rule per term it is the same one
for every order. So the uniqueness of the term in the database (`TermsUnique`), and not the order of the
query, makes the fallback deterministic.

**Pages.** The keys of each sort end in the primary key, so that their order is strict and total on the
rows (`LaterTransitive`, `LaterTotal`), reading backwards inverts it (`LaterInverted`), and the filter of the next page
is this order itself (`BehindIsLater`), although the code builds the one from the keys' comparisons and
leaves the other to the database. `Ranked` says that along such an order exactly one row of a finite set is preceded by
each number of others, which takes the place of an induction over the sort: a page is the
initial piece of its slice (`PageFetched`). `ScrollInv` then needs three parts. What was served
ascends (`Ascending`), which is why nothing comes twice before the end either; the cursor divides the untouched rows into those that were served and those
behind it (`Divides`), a fact that no change of another row disturbs, since the cursor holds values and not an offset;
and a scroll that is over has served all of them (`Exhausts`). `PagesAdjacent` says what one page promises without a
scroll: also after a change of the sort's rows it adjoins its cursor, on either side.

**City boundary.** `BoundaryInv`: while nobody used the Admin site, one outline is in force and it is
the last of the trail (`OneInForce`), at most one replacement holds its row (`OneReplaces`), each entry
of the trail retires what the one before it put in force (`Linked`), and each verdict is that of
the outline in turn after some entry (`Explained`). A replacement that had to wait finds no active row
and stops (section 6), which is why the trail does not branch.

**Compositions.** A step of one part leaves the variables of the others alone, so it is a step
or a stutter of each module. The theorems are about the safety parts (`Init /\ [][Next]_vars`); fairness
is left to the runs. That some part is idle in a behaviour takes nothing away: its behaviours are
those in which it is at work.

### What is only model-checked

Every safety property that a run checks is a theorem. Out of the prover's reach is liveness under fairness:
`EveryReportClustered`, `ChangesReachReporters`, `NoReportWaitsForEver`, `EveryExportEnds`, `EveryPhotoSettles`,
`EveryCallAnswered`. For most of them their safety half is proved: nothing that waits is in nobody's hands
(`NoReportForgotten`, `NoPhotoForgotten`, `NoExportForgotten`, `SettledEventsNotified`) and no ring of workers
waits for itself (`NoWaitingRing`). That whoever has something in hand comes to its end needs the fairness, and
is checked by TLC only.

## 5. Reading a counterexample back into the code

Every action has the name of its service or of the statement it stands for, and
`map` in `PROJECT.json` gives the lines. A definition preceded by the comment
"Mutation:" is a variant that no specification uses; it is substituted for the
definition it precedes to show that a property can fail.

## 6. Where code and documents disagree

Two runs show a disagreement as a counterexample:

* **`cluster_latitude`** - `issues/services.py:874` chooses the geohash precision
  from the latitude of the Report itself. Two Reports within the radius but on
  either side of the latitude at which the precision changes take lock keys of
  different lengths, do not exclude each other, and open two Issues.
  `docs/02-architecture.md:365` promises none. The run has one rule, so that nothing but the latitude makes
  the difference.
* **`media_detached`** - `media/tasks.py:111` writes back a row it read before the
  image work and undoes the binding that `submit_report` committed meanwhile, which
  the test at `media/tests/test_tasks.py:196` says cannot happen. The same write
  makes ready again a photo that was taken down during the work; the promise
  that holds, `TakenDownBeforeRunStaysDown`, is about takedowns before it.

Further disagreements, met while the modules were written. They are no runs of their own; the
models contain the behaviour, and the properties are stated so as to except it.

*Issues and notifications*

* BR-14 (`docs/03-data-model.md:400`): `reopen` creates an open Issue without any
  Report (`issues/services.py:673`).
* BR-16 (`docs/03-data-model.md:402`): a merge retires an Issue as duplicate from any
  open status; the graph has that edge from `triaged` only.
* FR-27 (`docs/01-prd.md:170`): recipients are determined when the event is consumed
  (`notifications/services.py:69`). Whose Report a merge or a split (`issues/services.py:569`) has moved by then is not
  told of the change; neither is whoever has been suspended or has deleted the account (`services.py:72`), or
  turned in-app notifications off. `SettledEventsNotified` and `ChangesReachReporters` speak of the others.
* `docs/02-architecture.md:354`: a crash between the mail server's answer
  and the save repeats an email (`notifications/tasks.py:51`).
* The clustering rule is read before the locks and without one (`issues/services.py:935`):
  two workers around a change of the radius that changes the cell size lock different keys, and may
  open two Issues for one problem against `docs/02-architecture.md:365`. `cluster_race` has two such rules; `OneIssuePerProblem`
  says that nothing else opens two.
* The comment at `classification/tasks.py:53` lets a clustering exception propagate because a retry of the task would
  take up this step again; nothing retries it. So a Report whose category has no active rule when its task runs
  (`ClusteringRuleUnavailable`, `issues/selectors.py:68`) stays unclustered, also when an Admin then creates
  a rule. `EveryReportClustered` excepts it.
* Two requests that mark two Issues as duplicates of each other, or merge
  Issues that share a category, lock rows in opposite orders; the database aborts one of them and
  nothing tries it again (`issues/services.py:628`). `NarrowRequestsNeverDeadlock` says which requests cannot.

*Submission, triage and photos*

* BR-5 (`docs/03-data-model.md:387`): when the broker refuses the
  classification after the commit, the record is never completed; once it
  expires, a retry files a second Report (`reporting/services.py:652`). The
  unconditional `set` after a vanished record
  (`api/idempotency.py:174`) can let two requests through as well, once one of
  those before them was turned down.
* BR-3 (`docs/03-data-model.md:385`): of two photo-only
  submissions of one photo both pass the check and one binds it; the count that
  `attach_media` returns is ignored (`reporting/services.py:641`), and the other
  Report has no content. An author who removes the only photo before triage leaves such a Report too.
* `docs/02-architecture.md:363`: `classify_report` does not set
  `acks_late`, so a crash in the middle of triage loses the task.
* `update_report` checks without a lock, and a Report that
  is classified and not yet clustered is editable, so the text of a triaged Report
  may differ from the text it was triaged by (`reporting/services.py:315`).

*Classification*

* NFR-4: when the category `other` is retired, every classification raises
  `RuntimeError` before it begins, and nothing tries it again (`SinkMissing`).
* `docs/03-data-model.md` section 5: a category retired while a classification waits for its answer
  still receives the Report.
* `classification/llm.py:123` and `classification/contracts.py:325` say that an adapter raises nothing but a
  `ClassificationError`. The adapter translates a list of exceptions (`llm.py:189`); what is not in it, or is raised
  outside that `try`, passes `classify_with_fallback` too, so that the Report gets no answer from the
  keywords either (`ExchangeRaises`). `EveryCallAnswered` excepts such a call.
* A call that began before the circuit opened closes it when it succeeds late. One
  reservation covers all attempts of a call, and a unit that a later counter refuses
  stays counted in the earlier ones (`classification/services.py:312`).

*Identity*

* Two right answers at one time both spend one single-use code (`identity/services.py:353`).
  An answer to an old code marks the channel verified although the number
  was changed, or the account deleted, after the attempt was counted.
* `update_profile` that was checked before a deletion writes a number into the
  anonymized row.
* Nothing sends a further code for an email address: a registration that dies before
  it has sent the code leaves an address that cannot be verified.
* The docstring of `start_partial_session` (`identity/services.py:1246`) says that the session behind a login that
  waits for its factor authenticates nothing. A login over a full session leaves that session at work: the key
  is rotated and the keys of the login before stay (`identity/services.py:1263`). `DemandedFactorPassed` is about the login
  that authenticates, whichever waits beside it.
* A partial session outlives a password reset and a suspension. A session that is
  written between two suspensions is revoked by the second only; after the first it is refused
  while the account is blocked and works again when the account comes back.
* An Admin can give a deleted account any status; a sign-in that was in
  flight over deletion and revival needs no second factor, as the device went with the deletion.
* Two reset requests at one time leave two live tokens. `reset_password`
  counts the attempt first and tests `is_usable` again afterwards, so that the last permitted attempt
  is refused with the right secret (`identity/services.py:117`).
* The throttle lets a window through its limit once more for every request that overlapped
  another's write (`api/throttling.py:161`).

*Export and boundary*

* A worker that dies leaves an export in `processing` for good. A duplicate delivery that fails
  late overwrites `ready` with `failed` (`export/tasks.py:24`). A requester suspended after the
  request gets the Issues that the public may see, and a failure for Reports.
* The second of two replacements of the boundary waits and gets `BOUNDARY_STATE_INVALID`; two
  with one name end in an `IntegrityError`. The Admin site can leave no boundary in
  force, or two (`geo/reference_services.py:55`).

## 7. Not modelled, and why

Inbox and preferences, comments, audit and the Admin's reads are single-row writes by one actor, or queries.
Serializers, error envelopes, health checks and settings keep no state.
Geohashes are a line with cells; whether a text contains a phrase, what an image library or a
provider answers, and the lifetimes of codes, tokens and sessions are choices of the
environment. Migrations and the frontend-facing schema have no behaviour. What
PostgreSQL, Redis, the broker, Django's `on_commit` and Celery do is modelled
from how the code uses them and marked external in the map. `set_category_scope`
(`identity/services.py:1066`) takes no lock on the account, but no view calls it; the Admin site writes scopes
without it as well. `AssignedWhileQualified` is about the requests of the API.

## 8. Plan

Done: every component that keeps state which more than one request, task or worker touches, the
compositions, and the proofs of section 4, which state all safety properties that the runs check.

Next, in this order:

1. A composition of `Submission`, `TriagePipeline` and `ClusterLocks` at the level of
   `FindOrCreate`: every accepted submission ends in one Issue or is taken down.
2. Splits and reopenings inside `ClusterLocks`: both create Issues without the clustering locks, so
   `OneIssuePerProblem` would have to say which duplicates they may leave.
