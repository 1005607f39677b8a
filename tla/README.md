# Verification of the Kinnijije backend

TLA+ models of the Kinnijije API server (`src/`), the TLC configurations that
check them on small instances, and theorems checked by TLAPS. Paths such as
`jobs.queue.ts:104` are relative to `src/src` of the repository.

The server is one Node process over one MongoDB database
(`docs/GOING-LIVE.md:121`, "Single instance for now"). There are no
transactions: every operation is a sequence of single-document reads and
writes, and every `await` between two of them is a point where another request,
tick, job or timer acts. That is what the models are about; each action is one
stretch of code between two such points.

## 1. Inventory

| Part | State | Operations | What is hard | What makes it correct |
|---|---|---|---|---|
| Job queue (`lib/jobs`, `features/jobs`, `features/admin/jobs`) | `jobs` documents, `running` set, poll timer | enqueue, tick (sweep, claim), run, setProgress, finish, fail, cancel, retry | overlapping ticks, crash and lease, cancel and retry racing the worker | abandoned work is found, held work is not taken, a cancel wins, everything ends |
| Job stream (`jobs.sse.ts`) | listener, heartbeat, timeout | open, event, close | the subscription follows the read | a client learns that its job ended |
| Rate limits (`lib/ratelimit`, `rate-limit.middleware.ts`) | buckets in memory | consume, reset, idle sweep | the sweep forgets buckets | never more than capacity in a window |
| E-mail (`lib/mail`) | `email_logs`, settings, the provider's one row and its memory | eligibility, record, dispatch, retry cap, choice of the provider | the log is asked before a delivery and told after it, crash between; a choice that some processes have not seen | caps and opt-outs hold, a choice is seen after one time to live |
| Sweeps (`notifications.jobs.ts`) | one queued job per sweep | run and re-queue, plant at boot | a throw or a boot between steps | one is always waiting, and they do not pile up |
| Campaigns (`admin/campaigns`) | batches and drafts | sweep, draft, edit, exclude, approve, discard, send | two staff members at once, a crash in a send | nobody gets a mail twice or after an exclusion |
| Sessions (`features/auth`) | users, sessions, action tokens | login, refresh, logout, reset, verify, change password | token rotation races, lock-out counters | a refresh token is good once, a reset ends old sessions |
| Staff (`admin/staff`, `admin/auth`) | staff users, invitations, staff sessions | bootstrap, invite, accept, revoke, permissions, sign in, refresh, sign out | two administrators deciding about one colleague, a refresh crossing a purge | what was last decided holds, one invitation is open, an ended session stays ended |
| Scripts (`admin/scripts`) | run documents, jobs | run, report | check-then-act on a running script | it is applied once, and nothing runs beside it |
| Recipe images (`admin/images`, `meals.jobs.ts`) | image documents, one primary | upload, confirm, publish, reject, set primary, remove, generate | read-modify-write of a list | at most one primary, and it is published |
| Kitchen (`features/stock`, `features/market`) | stock items, movements, market list | add, update, remove, consume, tick | lost updates, double moves | quantities agree with movements |
| Ask (`features/ask`) | sessions, turns, jobs | ask, settle, follow up, stream | a turn settling while another does, an attempt made again, reads of the stream answered late | no note is lost, an ended job leaves no recording unless it was given up, nobody waits on a settled turn |
| Decide (`features/decide`) | logs, history | match, rank, shortlist, frame | fallbacks of the filters, a reply racing the clock | filters hold in what is returned, by every fallback |
| Chat (`features/chat`) | thread, and through its tools the stock and the list | ask, run tools, reply, clear | a tool that stops half way, a model that fails after the tools ran | the receipts say what was done |
| Recipes (`admin/recipes`, `features/meals`, `lib/audit`) | recipes, audit log | create, import, edit, publish, delete, generate | edits and bulk changes of what was read, a trail nobody waits for | the trail accounts for the recipe |
| Chowdeck (`features/chowdeck`) | places, cached offers, call log, breaker and day count in memory | call, refresh, import, fetch ahead, rank offers | guards checked before a wait, one request shared by many, cache expiry | the cap and the breaker hold, no answer gets older, every cook is answered, the row is in order |
| Flags and ranking settings (`lib/flags`, `lib/ranking`) | cached documents | state, set, invalidate | a read in flight while a change is saved | a change is visible after one time to live |
| Files (`features/files`, `lib/storage`) | file documents | request upload, confirm, delete | confirm before the object is there | only confirmed files are used |
| AI (`lib/ai`) | a log row per call | call, transcribe, draw | a second try after a reply of the wrong shape | two tries at most, a failure is returned and never thrown |
| Insights (`features/insights`) | one reading per person | refuse, queue, read, save | the fingerprint is taken after the model answered, an older job saves last | whoever keeps asking gets the week as it is |
| Users, onboarding, extraction | documents per person | CRUD and jobs | last writer wins | |
| Dashboards, statistics, audit, analytics, templates, catalogue, HTTP plumbing | none of their own | read or format | | |

## 2. Plan

The most important behaviour first. Each module is written to be checked and
proved about: bounds and sets are CONSTANTS with named assumptions, there is one
action per step between two awaits, invariants are conjunctions of named parts,
and no module declares a RECURSIVE operator.

| Step | Modules | State |
|---|---|---|
| 1 | `JobLifecycle`, `JobQueue`, `JobQueueProofs`: everything asynchronous runs on the queue | done, proved |
| 2 | `RateLimit`, `RateLimitProofs`: the only shared guard in front of every route | done, proved |
| 3 | `Campaigns`, `CampaignsProofs`: what reaches people's inboxes | done, proved |
| 4 | `Sessions`, `SessionsProofs`: who is signed in | done, proved |
| 5 | `Kitchen`, `KitchenProofs`: counts, their history and the market list | done, proved |
| 6 | `ChowdeckGate`, `ChowdeckOffers`, `ChowdeckPlaces`, `OfferRanking`: the one paid dependency, its cache, and the row a cook is shown | done, proved but for who is answered |
| 7 | `Staff`, `StaffSessions`: who may use the console | done, proved |
| 8 | `RecipeImages`, `Recipes`: what staff do to recipes | done, proved |
| 9 | `Ask`, `Chat`: conversations, with what they do to the kitchen | done, proved |
| 10 | `Sweeps`, `Mail`, `Scripts`, `JobStream`: what lives on the queue | done, proved |
| 11 | `FlagsCache`, `TuningCache`, `ProviderCache`, `WeekReading`, `TurnStream`: caches in front of a document, and the stream that polls one | done, proved but for the reading |
| 12 | `Decide`: the filters, the ranking and the model's reply | done, proved |
| 13 | `Background`, `Caches`, `Exchanges`, `BackgroundProofs`, `CachesProofs`, `ExchangesProofs`: the parts of 6 to 12 side by side, and the theorems about them | done |
| 14 | `Files`, extraction and onboarding | later |

Abstract specifications: `JobLifecycle` is stated, implemented by the queue, and
used in its place by `Scripts`. Worth stating next: what `FlagsCache`,
`TuningCache` and `ProviderCache` all promise, a cache that may lag behind a
write by one time to live.

Runs: one for each module whose state space is large, and three more that each
look at several small parts in turn (section 3); one for each statement of the
repository whose violation is worth a trace. Bounds stay at two actors, two
documents and one fault wherever a state space of millions still takes about a
minute.

Theorems: every safety invariant a run checks; the type invariants they rest
on; `EndsOnce`-like action properties; that the shared specifications imply
those of their parts; refinements last.

## 3. How the models read the code

An action is the stretch of code between two awaits: what a call has read is a
field of its record (`seen`, `listing`, `wasQueued`, ...), and the write that
follows uses it whatever the document has become. Where the code writes with a
condition (`findOneAndUpdate`, `revokedAt: null`, a unique index), the condition
is evaluated in the same action. A document's `save()` writes the paths that
were changed since it was read, so `Campaigns` does not write a status equal to
the one that was read.

A call that is refused without writing is not a step. A call that dies (the
database throws, or the process stops) is a step, and leaves the documents as
they are. Names of statuses, reasons and steps are the source's.

Mongoose decides what a `save()` does to the rest of a document, and it is not
under `src/`. It is taken to write each changed path with `$set`, an element of
an array at the position it was read at, to push what was pushed, and to send
the whole array after a filter; no schema turns on optimistic concurrency, so a
save is not refused for what others saved meanwhile. `RecipeImages`, `Ask` and
`Campaigns` rest on that.

In the caches of flags and tuning, and under a turn's stream, the database
answers a read within `MaxRead`, a bound the code does not enforce and no
statement about staleness can do without.

Variables whose comment says "history" are not in the code. They record what
happened, for the properties, and no guard reads them.

The parts that share nothing but the process are put together in `Background`,
`Caches` and `Exchanges`. Each holds the variables of several parts, every part
an INSTANCE (one is extended), and `looking` says which part a behaviour moves
while the others rest in a first state. The state space is the sum of the
parts', not their product, and every property is that of its module.
`MCBackground`, `MCCaches` and `MCRequests` give their constants values. The
proofs are about the same modules: each part's theorem is of that part's
specification, and `WholeIsItsParts` proves that the shared specification
implies it.

## 4. Modules, runs and proofs

### Job queue: JobLifecycle, JobQueue, JobQueueProofs, MCJobQueue

`JobQueue` models one process polling the `jobs` collection. `jobs` are the
documents, `running` the in-memory set, `ticks` and `runs` the calls of `tick`
and `run` that are open, `requests` the cancels and retries (a person's or an
operator's) that have read the document and not yet written it. The actions
follow the awaits: `TickStarts`, `ReclaimStalled`, `Claim`, `StartRun`; then
`HandlerReturns` or `HandlerThrows`, `CheckCancelled`, `Finish` or `Fail`,
`EndRun`. `Restart` loses everything but the documents. `BecomesDue` and
`LeaseExpires` are the clock.

`JobLifecycle` is what the queue promises about work nobody touches and nothing
retries (scripts, sweeps, imports): one holder at a time, only the holder
finishes it, a finished job never moves again, only work whose holder died goes
back.

Abstractions: a database call that throws has not been applied; a claim is
answered within the five minutes of its lease; the branch for an unknown job
type is unreachable, because `claimNext` filters on the registered types; jobs
are numbered by `createdAt`.

| Run | Shows |
|---|---|
| `queue` | Two overlapping ticks over a person's job and a system job, one restart, one error, one intervention: `OneStartPerProcess`, `Recoverable`, `CancelWins`, and that `JobLifecycle` is implemented |
| `queue_settles` | Every queued or running job ends, in spite of a restart, an error and two interventions |
| `queue_double` | A cancel and a retry around a claim put two handlers on one job |

Bounds: two jobs are the fewest for which one can be claimed while the other is
swept, two ticks and a concurrency of one make ticks overlap over one slot,
two run slots let an old run outlive its job's second claim.
`queue_settles` has one tick and two interventions, so that a cancel and a retry
of it both happen on the way to the end; `queue_double` has one job and a
concurrency of two. Fairness
(`queue_settles` only): the interval keeps firing, the database answers,
handlers settle (each provider call has a time-out), due times and leases pass.
Nobody owes a cancel, a retry or a progress report. Deadlock is checked.

Proved, for every number of jobs, ticks, slots, requests, restarts and errors
and any concurrency: `TypeOK`, `CancelWins`, `Recoverable`,
`OneStartPerProcess` and the refinement of `JobLifecycle`. The inductive
invariant has a part for each: `Located` (a tick, a run and a request name a job
exactly while they are about one, and requests name only jobs that may be
touched), `Asked` (a run that was asked to stop has its job's cancel flag up and
has not decided to succeed) and `Alone`, for work nobody touches: `Guarded`
(whoever holds it shields it, by its place in `running` or by a lease that has
not run out), `OneHolder` (no one else holds it at the same time) and `Frugal`
(each start was paid for by a restart). `Recoverable` is inductive beside
`TypeOK` and `Located` as it stands.
Overlapping ticks make `OneHolder` depend on `Guarded`, and so they are proved
together.

### Rate limits: RateLimit, RateLimitProofs, MCRateLimit

One policy: `buckets` are the token buckets, `refusals` the middleware's count,
`now` the clock in seconds. A request is one action (`Allow` or `Refuse`), as
`consume` has no await inside and JavaScript does not interleave it; `Sweep` is
the timer. Tokens are counted in parts of one `Window`-th, so that the floating
point of `refillPerSec` is exact here.

| Run | Shows |
|---|---|
| `rates` | Two keys, a window no longer than the sweep's idle time: no key gets more than burst plus earnings from any moment on (`WithinRate`), and both headers keep their word (`HeadersHonest`) |

Bounds: a capacity of two, a window of three seconds and a clock of six let a
bucket empty, refill in part and be swept; the map of refusals holds one of the
two keys, so that it is emptied in use. `watch` is an observer that may start at any
moment, which makes `WithinRate` a statement about every interval.

Proved for every policy, key set and clock: `TypeOK`; `HeadersHonest`; and
`WithinRate` under `Window <= Idle`, the assumption ten of the code's policies
break. The invariant `Ledger` bounds what was granted plus what the watched
bucket could still grant; a sweep keeps it because a bucket idle for a whole
window is full (`Covered`).

### Reviewed e-mail: Campaigns, CampaignsProofs, MCCampaigns

`batches` and `drafts` are the statuses of the documents, `calls` the requests
and the sweep in flight, `audience` who may be drafted for, `recent` the people
a frequency cap holds back. Drafting (`BeginDrafting`, `DraftOne`,
`FinishDrafting`) serves the sweep and the composer; review is `EditDraft`,
`ExcludeDraft`, `Approve`, `Discard`; sending follows `send` from `SendReads`
over the list it takes once (`SendSnapshots`) to one mail at a time and
`FinishSend`. `MailThrows`, `SaveThrows` and `Crash` are the faults: the first
two take the `catch` of the loop where the code has one.

| Run | Shows |
|---|---|
| `campaigns` | One batch, two people, four calls of which two at once, one fault: nothing leaves unapproved or while drafting goes on, one approval mails a person once at most, a draft marked sent has left, and without a fault an approved batch ends sent or discarded |

Batches share nothing but `recent`, so one is enough; two people make the loop
come back; of four calls one drafts, one approves, and two interfere. The
liveness property is conditional on no fault, since nothing in the code resumes
a send; fairness is that an answered promise is continued, and nobody owes an
approval. Deadlock is not checked: the calls run out.

Proved for any people, batches, calls and faults: `TypeOK`, `OncePerApproval`,
`OnlyApprovalSends`, `SentWasDelivered`. `OncePerApproval` is a count: `Ledger`
says that what was delivered to a person plus the calls that still may mail
that person (`Owing`) do not exceed the approvals. A call enters `Owing` with
its approval and leaves it with its mail. The other parts: `Shaped` (a call
knows its batch and person), `Unborn` (nothing knows a batch before it is
drafted), `DraftingAlone` (nobody approves or sends while it is drafted) and
`Honest` (a draft that is saved, or about to be saved, as sent has left).

### Sessions: Sessions, SessionsProofs, MCSessions

One account: `user`, its `sessions`, its reset `links`, and the calls on them:
registering, signing in, refreshing (`BeginRefresh`, `RefreshReadsUser`, `Mint`,
`Rotate`), signing out, changing and resetting the password, an operator's
change of status, deleting the account. `Purge` is `revokeAllSessionsForUser`.
Statuses that may hold a session are one value; what a password is stays out,
and whether a guess matches is a choice. `purges` and the fields `parent`,
`began`, `born` and `shown` are history.

| Run | Shows |
|---|---|
| `sessions` | Two calls at once, five in all, three sessions, one link, one call dying at any step: every property below |
| `sessions_once` | Two refreshes that read the session before either retires it both mint |

Three sessions are a session, its replacement and a replay's; two failures lock;
five calls are a registration, two that interfere and two that look at what they
left. `NoLineOutlives` and `BarredStaysOut` speak of calls that began after the
revocation: a call already under way does carry its line past it, because
revoking is an update of the rows that exist.

Proved for any number of sessions, links and calls: the type, all six
properties, and `EndsOnce`, that an ended session is never live again and its
reason never rewritten, which is not run. A
call acts on what it once read, so the argument is that documents only grow
(`Grows`: a session never unhappens, keeps its parent and birth, a used link
stays used), that what a call learnt therefore still holds when it writes
(`Sound`), and that its writes keep every session's record true (`Kept`).
`Earned` counts wrong passwords against the lock, `Guarded` says which calls may
still leave a barred account a session.

### Stock and market list: Kitchen, KitchenProofs, MCKitchen

One ingredient of one person: its stock `row`, the sum of its history (`book`),
its `item` on the market list, and the calls on them. Adding (`Find`, then
`Create` or `Merge`, then `Record`) serves batches, onboarding's seeds and a
tick's move into stock; `Take`, `Correct` and `Delete` write what the count that
was read comes to. `Stamp` precedes the move, as in `setBought`. `Goes` is a
batch or a meal that names the ingredient again. Units are a choice: what an
amount comes to in the row's unit, and whether it is known at all.

| Run | Shows |
|---|---|
| `kitchen` | Two calls at once, six in all, one fault: the history adds up to the count (`NothingUnexplained`) unless a count that had been read was overwritten or a history row failed, and a listing is moved into stock once (`MovedOnce`) unless two ticks overlap or it is listed again |
| `kitchen_twice` | One caller alone: bought, ticked, listed again with more, and ticked: what was moved before is moved again |

The exceptions are recorded where they happen (`fair`, `clean`, `lost`), each
at one step, so the properties say that there are no others. Two rows and two
listings let one be removed and made again while a call still holds the old
one's id; six calls are an addition, a tick, an interruption of each and two
more.

Proved for any number of rows, listings, calls and faults: `TypeOK` (no count
is negative) and `MovedOnce`. The invariant `Carried` follows the listing: not
stamped, it is not in the stock and no call carries it (`Unmoved`); stamped, one
call carries all of it, or it has arrived, or it was lost (`Moved`).

`NothingUnexplained` is proved too. It is inductive beside the type: each action
changes the count, the history and what one call owes the history (`Owes`) by
amounts that cancel. What the model writes as a sum over the set of calls picks
them in an order nobody knows, so the lemmas first show that any two ways of
summing agree (`TotalsAgree`, by the smallest set on which they would not) and
that such a sum follows a change of one call (`TotalLess`, `OwedStep`).

### Chowdeck: ChowdeckGate, ChowdeckOffers, ChowdeckPlaces, OfferRanking

`ChowdeckGate` is the way out (`chowdeck.client.ts`): the switch, the breaker,
the count of the day and the bucket of the minute, each asked in a step of its
own, then the sleep and the request. `counts` are the counts in memory by the
Lagos day they belong to, since a call may still hold yesterday's; `logged` and
`unlogged` are the rows of the call log that are there and on their way, from
which a restarted process seeds its count. `DailyCap` says by how much the cap
can be passed, and by what; `BreakerHolds` says how many calls leave while the
breaker is open. Both are bounds the code keeps without stating them: the cap is
compared before a wait of up to two minutes and counted after it.

`ChowdeckOffers` is the cache behind it. A `flight` is a search that
`singleFlight` shares; cooks, refreshes behind an answered cook, the console and
the fetch-ahead job all begin or join one. `NeverOlder` is an action property of
the rows, `CooksAnswered` the liveness of everybody who waits. Fairness: the
database answers, a sleeper is woken, a request is answered or timed out after
ten seconds (`AbortSignal.timeout`). Nobody owes a question.

`ChowdeckPlaces` is the table of places with the import that the first search of
an empty table queues by itself. `OfferRanking` is `chowdeck.offers.ts` as
operators over a cached answer and a minute of the week: hours, branches, the
comparison and the cap of the row. `RowIsRight` compares the row with its
definition by quantifiers: whoever is open by the week's hours is ahead of
whoever opens later, nobody is behind a worse one, a brand is there once, by its
best branch. A row is told from the offers by rank: each stands behind as many
as compare puts ahead of it.

Abstractions: the answer of a search is a number that grows; a key is a place
and a meal; stars are tenths, distances and fees whole numbers; a text that is
no time of day is a kind of hours.

Proved about the gate for any number of calls, days, restarts and lost rows, any
cap and threshold: the type, `DailyCap` and `BreakerHolds`. The invariant's parts: `Calendar` (no call, count or row is
of a day to come), `Shown` (every sent call is in a count, a log row, a row on
its way, or excused), `Recorded` and `Reckoned` (the same seen from the counts
and from the log), `NoneToSpare` (how many leave through an open breaker, by those still past it). Sums
over calls are cardinalities of sets of calls, so no induction is needed.

Proved about the offers for any searches, cooks, flights, jobs and faults:
`NeverOlder`. A search is shared by its key until it is stored
(`FlightsShared`), so what it was answered with is no older than the row it will
replace (`AnswersGrow`). About the places: `OneAutoImport`; alone past the flag,
a search that is about to queue an import has seen that none is recent
(`PlacesIInv`). About the row, for any restaurants, hours, day and minute:
`RowIsRight` (`RowIsInOrder`). That compare is a strict order of different
restaurants is the main lemma (`CompareOrders`; ratings are compared crosswise,
`CrosswiseTransitive`); then ranks are distinct and leave no gap
(`RanksAreFilled`), and among the branches of a brand there is a first
(`BestIsKept`). The comment of the ranking adds that "a refresh does not
reshuffle the row": an answer with the same restaurants in another order is the
same row (`NotReshuffled`, theorem `RefreshKeepsTheRow`). The row is determined
by the set of restaurants (`RowOf`), because two rows that differ would each
have the better restaurant first where they part (`RowsAgree`). This property
ranges over pairs of answers and is only proved, not run.

### Staff console: Staff, StaffSessions

`Staff` has the first account (`bootstrap`), invitations, acceptance, removal
and permissions, each a chain of the reads and writes the service makes. What is
granted is a number that grows with each decision, so `LastDecisionStands`
compares what a colleague may do with what was last decided, and asks that no
second invitation is open. It excuses (`excused`) people about whom two calls
overlapped or one died, which is where the code does let it go wrong.
`StaffSessions` has the console sessions of one colleague beside the same
decisions; `ShutStaysShut` is that a refresh which read a session before it was
ended does not bring it back, also when the colleague is invited again: the save
writes the token's hash and not the revocation.

Both are proved for any number of colleagues, invitations, sessions, tokens and
calls. `ShutStaysShut` needs only that what was shut is revoked (`SignInIInv`).
`LastDecisionStands` needs, of a person whose calls have not crossed, that what
is offered and granted is what was decided (`Granted`), that one invitation at
most is open, and which call will close it (`OneWayIn`); and of a person nobody
has invited that no call can touch them (`Unmet`).

### Recipes: Recipes, RecipeImages

`Recipes` has every change staff make to a recipe, alone and in bulk, the audit
entry behind each, and a recipe a model writes on request. `trail` counts
entries; `TrailAccounts` is that from the status a recipe was made with, its
entries add up to the status it has. `RecipeImages` has the images of one recipe:
`images` is the list in its order, because a save writes a status at the place
the image had when it was read. `PrimaryStands` is the invariant
`meals.model.ts` names, with the two exceptions under which the code breaks it
(`crossed`).

`TrailAccounts` is proved for any number of recipes, calls and faults: what a
call has changed and not yet recorded raises or lowers what the trail is short
of (`Pending`, the calls that raise less those that lower), so the account holds
at every step and not only once the calls are over (`AddsUp`), and a removal is
recorded or about to be (`RemovalSaid`). `PrimaryStands` is proved for any number
of images and calls: as long as nothing crossed, the list names each image once
(`Proper`), the pointer stands right in it (`Valid`), what each call has read is
such a list (`Reads`), and an id given out for an image to come is in no list
and in nobody else's hands (`Tidy`).

### Conversations: Ask, Chat

`Ask` has one session: turns, their jobs with attempts as `JobQueue` makes them,
recordings in the bucket, and follow-ups. The attempt transcribes, parses,
settles, deletes the recording, in the order of `ask.jobs.ts`, and may be made
again after any of these. `Finish` is the queue's record of an attempt that
returned, as a success or, where an operator asked the job to stop, as
cancelled; the flag stops nothing before that, not even a job that waits, and
nobody else can cancel the job, whose owner is the session. `Throws` fails a job
whose attempts are used up, and `Retry` is the operator's, with `force` for one
that succeeded. `NotesCarried` is about the merge of notes,
`EndedJobsLeaveNothing` about what an ended job leaves, however it ended: a
settled turn and no recording, with two exceptions that it names. The bucket may
refuse; and a job that failed may leave a pending turn and the recording, but
only after every one of its attempts was broken off (`broken`, history), which
section 6 holds against the comment in the code. `Chat` has a question
with both calls of the model, the batch of tools run one name at a time, and the
other devices that change the lists meanwhile. `ReceiptsHonest` relates every
receipt to what happened to the rows (`changed`, `lost` are history).

Proved for any number of turns, attempts, follow-ups and questions, any names
and tools: all three. For `Ask`, what an attempt has read and what a turn says
was carried (`Kept`), and past the point where the recording is deleted it is
gone, unless the bucket refused (`Gone`); and of the attempts made since a job
was last queued, all but the one under way were broken off (`SpentInv`), so that
a job fails only when `MaxAttempts` of them were, whatever restarts and retries
came between. For `Chat`, each receipt tells the
truth when it is written (`Says`), and the tool under way accounts for every
name it has passed (`Covers`).

### The stream of a turn: TurnStream

`TurnStream` is one connection of `ask.sse.ts` and the turn it follows. Time is
counted in beats of its interval; `polls` are the reads under way, since a beat
sends the next whether or not the last was answered, and `pushed` is what the
client has been told. The turn is settled from outside, as often as its job is
made again. `NobodyWaitsInVain` is a deadline: a stream is not open on a settled
turn for longer than the beat to its next read and that read, whatever earlier
reads say when they arrive. The end itself is less orderly (section 6): of a
turn that is settled when the stream opens, the first push calls `finish` before
`poll` and `beat` exist, which throws.

The deadline is proved for any number of reads, beats and settlements: every
read is answered in time, so that one of the places for reads is free at each
beat (`AlwaysFree`, by counting), and from the beat after the turn is settled
there is a read that has found it so or will (`WillTell`).

### On the queue: Sweeps, Mail, Scripts, JobStream

`Sweeps` is the chain of a daily or weekly sweep: `ChainAlive`. `Mail` is one
kind of nudge to one person up to its log row. Any number of its jobs may be
under way at once: ticks that overlap claim past `CONCURRENCY`
(`jobs.queue.ts:104-115`), so neither `Mail` nor `Sweeps` has a limit. `CapHolds`
bounds the nudges of any window by the most jobs that ever were under way at
once (`crowd`, history), and as many again for each fault: jobs that follow one
another cannot both nudge, jobs that run together can, where
`notifications.jobs.ts` speaks of one (section 6). A nudge that an operator has
retried reads everything anew, as one more job does. `Scripts` is the script that
is to be applied once, over jobs that are an INSTANCE of `JobLifecycle`:
`AppliedOnce`. `JobStream` is the server-sent events of one job:
`NobodyWaitsInVain` names the two ways a client is left to wait and says there
is no third.

Proved about the chain for any number of sweeps, of them at once, crashes and throws: the
type, `ChainAlive` and `NoPileUp` (at most one sweep alive for each crash and
throw and one more; not run). The induction counts who has found none waiting
and not yet planted.

Proved about the others. `CapHolds`, for any number of jobs, of them at once,
days and faults (`CapIInv`): as long as the log shows no nudge of the window,
the nudges there were are those of jobs that are still under way, or were lost
with a fault; once it shows one, nobody passes the cap, and those who had passed
it were under way together with those who had nudged. `AppliedOnce`, unless requests overlapped
(`ScriptIInv`): what a request has seen has ended and stays so, and a run that
waits or is under way is alone. `NobodyWaitsInVain` of `JobStream`
(`StreamIInv`): a stream that listens, or will because it read a job under way,
sits on an ended job only while its end is still to be announced, or in the two
ways.

### Caches: FlagsCache, TuningCache, ProviderCache, WeekReading

Flags and tuning are a document, what is in memory with its time to live, the reads under
way, and a switch or save that writes the document and empties the memory in the
next step. A flag is read by each request for itself, the tuning by one load
that all share and whose failure renews the old value. `FlagsCatchUp` and
`TuningCatchesUp` say that whatever crosses whatever, memory and document agree
one time to live and one read after the write. Time is ticks.

`ProviderCache` is the choice of the mail provider and what each process
remembers of it. Its time to live runs from the question and not from the
answer, so `ChoiceCatchesUp` needs no bound on how long a read takes. The three
are checked as one property, `CachesCatchUp`.

It is proved for any number of readers, processes, switches, saves and choices
and any times: what is in memory, or on its way there, is what the document
says, or was asked for before the document was written, and runs out in time
(`FlagsIInv`, `TuningIInv`, `ProviderIInv`).

`WeekReading` is a cache in front of a model call. A week is a version that
grows; the row holds the version its reading was made from (`of`) and the one
its fingerprint was taken of (`print`), which differ when something is cooked
while the model answers. `ReadingCatchesUp`: if somebody keeps opening the week,
the reading is in the end, and stays, that of the week as it is. It rests on the
refresh after an hour, and not on the fingerprint. Fairness: the hour passes,
requests are answered, the queue runs some job of those there; the model's
refusals and deaths are bounded, and that somebody asks is the premise.

### Decide

One decision: the matcher (`meals.matcher.ts`), the pool and its fallbacks, the
score, the shortlist (`decide.ranker.ts`), then the model's reply, its retry
and the nine seconds (`decide.service.ts`, `lib/ai`). An ingredient is one
thing; what a meal's words admit it to is its set of weights; weather and hour
are a factor per meal that is chosen when the meals are ranked. Factors are
twentieths, scores are integers with `Parts` as one, so comparisons are exact;
the tuning of the run is the defaults of `ranking.config.ts` rounded.

`UsesWhatTheyHave` and `OverrunsAlone` are about the fallbacks: each filter
widens when nothing is left, and the widened pool is what the property is about.
Proved for any catalogue, kitchen, request and tuning: the type
(`DecisionTyped`), both properties (`NothingForNothing`, `ClockIsTheObstacle`),
`ReadyStays` (with a leader that needs nothing, so does the meal served;
`DinnerStays`) and `SentenceFits` (the model's sentence is under its own pick;
`SentenceAlwaysFits`); the last two properties are not run. The invariant `Course` says what the shortlist is at each
phase.

### The three shared runs

| Run | Parts and bounds | Shows |
|---|---|---|
| `background` | gate: two calls, four in all, cap 2, two days, one fault. Places: two places of one name, two seeds, two imports, one edit, one fault. Stream of a job: two streams, two workers, three claims, two interventions, one fault. Stream of a turn: reads of up to two beats, a lifetime of five, a clock of six, two settlements. Scripts: three runs, two requests, one retry, one crash. Images: three images, room for two, six calls, two at once | `DailyCap`, `BreakerHolds`, `OneAutoImport`, `NobodyWaitsInVain`, `AppliedOnce`, `PrimaryStands` |
| `caches` | offers: one search, two cooks, two flights, three questions, one job, two answers, one fault. Flag: time to live 3, reads up to 2, clock 8, two switches. Tuning: the same, clock 9, two saves. Row: eight restaurants, up to three at once in any order, a week of two days of eight units. Recipes: two names, two recipes, two calls, four in all, one fault. Sweeps: five jobs, two crashes, one throw. Provider: two processes, two reads, time to live 1, clock 2, one choice. Week: two jobs, two changes, one fault | `NeverOlder`, `CooksAnswered`, `ReadingCatchesUp`, `CachesCatchUp`, `RowIsRight`, `TrailAccounts`, `ChainAlive` |
| `requests` | decide: every catalogue of three meals out of five recipes, 76 requests. Staff: one colleague beside the owner, three invitations, two calls, seven in all, one fault. Staff sessions: two sessions, four tokens, four decisions. Ask: one spoken and one typed turn, two attempts, two follow-ups at once with a limit of one, two faults, any number of an operator's retries. Chat: two names, one question, two tools, one change from elsewhere, one fault. Mail: three nudges and a resend, all at once or not, one fault, a window of two days in three | `UsesWhatTheyHave`, `OverrunsAlone`, `LastDecisionStands`, `ShutStaysShut`, `NotesCarried`, `EndedJobsLeaveNothing`, `ReceiptsHonest`, `CapHolds` |

Why these are enough: two of whatever interleaves, and one more of what must
have happened before. A cap of two is reached by the calls of one day while two
more check it, and one midnight lets a call be counted on the other side of it.
Three claims let a job be retried while a stream of its first attempt is open.
Three images and room for two make a removal move the place of an image that a
call has read, and the list refuse one. A clock of eight outlasts two switches,
two reads that each began before them, and a time to live after the second. A
clock of two outlasts a choice and the time to live of what was asked before it.
Two jobs save in either order over a week that changes before and after each
read. A lifetime of five beats is one more than the first deadline of a settled turn,
so that a stream can miss it, and holds overlapping reads of two beats that are
answered in either order around two settlements. The
restaurants differ in exactly one thing each (a midnight, an unreadable hour, a
tie, a branch). Three invitations are the one accepted, the one that replaced it
and the one after a removal. Three nudges are two that run together
and one that follows them. Two attempts and two faults let a job fail for good,
and let a restart or a thrown attempt come before one that ends well; both turns
parse, and one that is a follow-up goes on as one that could not be parsed.
Deadlock is not checked: calls, questions and the clock run out.

## 5. What is proved, and what is not

Every safety invariant and action property the passing runs check is a theorem,
for every value of the constants. The proofs are in `JobQueueProofs`,
`RateLimitProofs`, `CampaignsProofs`, `SessionsProofs`, `KitchenProofs`, and, of
the parts that are put together, `BackgroundProofs`, `CachesProofs` and
`ExchangesProofs`.

Assumptions are the named ASSUMEs of each module: bounds are natural numbers,
capacities and thresholds are positive, sets of calls, jobs and readers are
finite where they are counted or summed over (`Campaigns`, `ChowdeckGate`,
`Kitchen`, `Recipes`, `Sweeps`, `Mail`, `Scripts` and others), and there is a
dish (`Recipes`) and a process (`ProviderCache`). TLC evaluates them in every
run; a module that is an INSTANCE has its assumption as an operator there, which
the module that puts the parts together assumes of its values.

Type invariants are proved and not run; the runs check what a type does not say.
An inductive invariant is named `...IInv` where it is more than a type, and its
parts are explained where section 4 comes to them. The excuses in a property
(`crossed`, `excused`, `raced`, `overlooked`, `stale`, `unsaid`, `failed`) are
set at the steps where the code lets it go wrong, and the theorem says that
there are no others.

Only model-checked:

- liveness (`EventuallySettled`, `ApprovedIsSettled`, `CooksAnswered`,
  `ReadingCatchesUp`): it rests on fairness, whose ENABLED the prover does not
  expand. `WeekReading` has no other property and therefore no theorem of its
  own but for `WholeIsItsParts`;
- the three runs that find a violation, and the definitions of section 6.

## 6. Statements the code does not keep

Three runs are expected to find a violation, and PROJECT.json quotes the line
each contradicts: `queue_double`, `sessions_once`, `kitchen_twice`.

These are stated as definitions next to the code they are about, and TLC finds
each violated when it is added to a run of its module; no run is kept for them.

| Definition | Says |
|---|---|
| `JobQueue.WithinAttempts` | a job starts no more often than `maxAttempts`; a reclaimed one does |
| `RateLimit.SweptWereFull` | the sweep drops only full buckets (`memory-store.ts:65`); with a window longer than fifteen minutes it drops drained ones |
| `Campaigns.SentNotMailedAgain` | what was sent is not mailed again; two approvals that pass the check together do |
| `Chat.FailedDidNotHappen` | a failed tool changed nothing (`chat.service.ts:141`); one that meets an unknown unit has added what stands before it, and a unit the model invents is passed on although `chat.tools.ts:83` says it is replaced |
| `ChowdeckPlaces.ImportedOnce` | the default list is imported once (`chowdeck.jobs.ts:223`); two searches that wait for the flag together import it twice |
| `OfferRanking.OpenByHours` | open is worked out from the weekly hours (`chowdeck.offers.ts:197`); hours past midnight are read by the new day's line |
| `Staff.RevokedStaysOut` | whoever is removed is out until invited again (`staff.service.ts:380`); an invitation that was open still works |
| `StaffSessions.UsedOnce` | a refresh token is single-use (`staff-auth.service.ts:201`); two refreshes that read it together both rotate it |
| `Recipes.AskedTwiceWrittenOnce` | a dish that has a recipe is not written again (`meals.service.ts:133`); one published while the model writes is |
| `Recipes.EditsKeepStatus` | an edit without a status leaves it; one that read the recipe before it was published takes that back |
| `RecipeImages.PrimaryAlwaysStands` | the primary image is published (`meals.model.ts:123`); saves that cross, and a second confirmation, break it |
| `Ask.HeardNotLost` | a turn that was heard does not fail without its text (`ask.model.ts:47`); an attempt made again after the recording is gone does |
| `Ask.RecordingGoes` | the recording goes whether or not the read succeeded (`ask.jobs.ts:56`); when all attempts of the job are broken off it stays, and the turn stays pending |
| `Sweeps.NeverStops` | a sweep always waits; one that throws leaves none until the next boot |
| `Mail.OneNudge` | one nudge in the window; jobs that run at once all find none in the log |
| `Scripts.AlwaysAppliedOnce` | the script is applied once; requests that overlap apply it twice |
| `JobStream.EndIsHeard` | every end reaches every client; one between the read and the subscription, and a cancel in the queue, do not |
| `TuningCache.SeenAtOnce` | a saved tuning is visible on the next request (`admin.controller.ts:423`); a load under way brings the old one back |
| `ProviderCache.SwitchIsImmediate` | clearing the memory makes a switch take effect at once (`admin-emails.service.ts:347`); other processes, and a read under way, keep or bring back the old provider |
| `WeekReading.PrintIsOfTheReading` | while the fingerprint is the same the answer is (`insights.service.ts:109`); what is cooked while the model answers is in the one and not in the other |
| `WeekReading.PaysOnce` | opening the screen twice does not pay twice (`insights.controller.ts:28`); no row is there until the first job ends, and nothing asks for a job |
| `TurnStream.EndsInOrder` | the first push may end the stream (`ask.sse.ts:101`); it throws, as the timers it clears are declared below it |
| `TurnStream.EndIsTheLastWord` | nothing is written after the end; a read sent before and answered after it is pushed |
| `Decide.ProvenanceTrue` | `ai_framed` means that a model wrote the sentence; when its pick is refused the label stays |
| `Decide.EmptyIsGenuine` | an empty answer means that nothing uses what they have; other filters can empty it |

Noticed while reading, and in the models only as behaviour: a failed attempt of
a cancelled job is queued again; a person excluded while a batch is sent is
mailed; a batch discarded after approval is sent; somebody suspended after
drafting is mailed; two calls that hold one reset link both set a password; two
ticks at once move a listing twice; overlapping ticks run more handlers than
`CONCURRENCY`; a script run that dies is put back although its `maxAttempts` is
one; a staff sign-in that crosses a removal leaves a session that lives again
once the colleague is invited again; the cap on follow-ups is read before the
model is called and counted after it; a generated recipe whose slug a draft
holds has been paid for when its insert throws; the trail of a bulk change may
claim one that another call made.

Noticed and not modelled: one-off scripts without a preview skip the check
whether they were applied; the transcript is told apart from the parsed turn
(`ask.sse.ts:38`) because it is there earlier, but both are saved at once; a
brand whose name has no letter from a to z or digit has an empty key, so that such restaurants fold into one.

## 7. Not modelled

Out of the models for good: dashboards, statistics, audit views and analytics,
which read or append rows nothing reads back; HTTP plumbing, configuration and
formatting; mail templates and prompts, which are text; the catalogue and the
seeds, which are data. The last two are more than seven thousand of the
implementation's lines (`catalogue.data.ts`, `meals.seed.ts`, `prompts.ts`,
`templates.ts`), and routes, controllers, schemas and document models most of
the rest, so the share of lines the models stand for stays well below what the
share of the behaviour is.

Not yet: files (one row moved by its owner's own calls; the object store is
external), onboarding and the kitchen profile (one document per person and one
conditional write), extraction (jobs that read and answer, whose life is
the queue's).

Within the modelled parts: the counters the console shows of a batch,
`updateSettings` and the eligibility rules other than the frequency cap
(`Campaigns`); the lifetime of an access token, which is checked by its claims
alone, profile and settings, and `updateRole`, which no route mounts
(`Sessions`); units, storage places, dates and the other ingredients of a batch
(`Kitchen`); the key a request resolves to (`RateLimit`); redirects and clicks
(`ChowdeckOffers`); which permissions an administrator may grant and what each
opens (`Staff`); ingredients, steps and variants (`Recipes`); the checks of the
picture's bytes (`RecipeImages`); turns answered with a tap, a session's
expiry, the tickets of a stream (`Ask`); an operator's forcing of a job that
runs (`Ask` and `Mail`, for which `JobQueue` has it); the summary's sums (`WeekReading`); the words and the weather
(`Chat`, `Decide`); providers and transcription (`lib/ai`); cancelling and
forcing a script's job (`Scripts`, for which `JobQueue` has them).
