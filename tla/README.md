# Models of the ShieldSync labs platform

TLA+ specifications of the programs in this repository that have state worth
arguing about, TLC instances that check them, and TLAPS proofs of what matters
most. Section 1 is the inventory of the system, 2 the grain of the models, 3 the
plan, 4 the modules, 5 the runs, 6 the proofs, 7 what the models leave out, 8
what they showed about the code.

    tlc -config Records.cfg MCRecords     # any row of section 5
    tlapm RecordsProofs.tla               # any module of section 6

## 1. The system

The platform rents sandbox cloud accounts to learners (B2C) and to candidates of
assessments (enterprise), and has a back office (HR). There is no long running
server: every operation is a short invocation of a Lambda function
(`engine/handler.mjs`, `ent-handler.mjs`, `hr-handler.mjs`) or of a web app's
route, and all state is in DynamoDB rows. Invocations overlap freely. A step is
what lies between two awaits; what keeps the rows consistent is the conditions
of single updates, and a few transactions. One part has state in a browser: the
recorder of a candidate's session.

| Component | State | Operations | Talks to | Module |
|---|---|---|---|---|
| Session engine (`engine/handler.mjs`, `labinfra.mjs`) | tables Accounts, Sessions, UserLocks; the sandbox accounts | `POST /launch`, `POST /teardown`; the scheduled reap with `healPool()`; workers deploy, teardown, warm | invokes its own workers by asynchronous events; CloudFormation, aws-nuke | `LabPool`, `AccountPool` |
| Caps on free labs | counts over Sessions and Accounts | the caps of `POST /launch` | gate between the lock and the lease | `FreeLabs` |
| Wait room | table Queue | join, poll | shows a place, leases nothing | – |
| Pay-per-lab (`labinfra.mjs`, `app/app/api/launch`, `app/app/api/payments`) | tables Orders, Entitlements | checkout, confirm, callback, grant, reserve, rollback | the payment provider; the launch route brokers reserve, `/launch` and rollback | `PayPerLab` |
| Enterprise invites (`ent-handler.mjs`, `entinfra.mjs`) | tables Invites, Results, Sessions, reserved accounts | invite, consent, code, book, start, submit, refund, revoke | leases reserved accounts through `labinfra.mjs` | `EntInvite` |
| Slots | table Slots, fields of the invite | book, rebook | invites | `EntSlots` |
| Credits of an employer | tables Orgs, Orders, Invites | order paid, adjust, charge, refund, low-credit mail | invites | `OrgLedger` |
| One time codes, documents | fields of Invites, table Docs | send, verify, sign, revoke | mails | `OneTimeCode` |
| Agreements | table Agreements, the org row | draft, edit, issue, accept, supersede, void | the portal | `Agreements` |
| Azure seats (`ent-handler.mjs`, `azure-infra.mjs`) | table AzureSpPool; resource groups; fields of the invite | claim, evict, rotate, grant, deploy, delete, release, reset | start and submit of invites | `AzureSeats` |
| Recordings (`enterprise/lib/recorder.ts`, `candidate-flow.tsx`, `recinfra.mjs`) | a recorder and a page in the browser; epoch of the invite; objects in S3 | start, stop, retry, lost camera; allocate epoch, upload | the submit of the page | `Recorder` |
| HR candidates (`hr-handler.mjs`, `hr/`) | table Candidates, open pages | create, save, schedule, cancel, link, view, answer, erase | calendar, mails | `HrCandidate` |
| HR employees, letters, payroll, invoices, bank | tables of the same handler | create, edit, PIN login, letters, documents | billing | – |
| Completions, credentials, ratings, users; members, leads, audit log, assessments, report links | one table each | idempotent writes of one row | the apps | – |
| Authentication, signed engine tokens; local development servers | none of their own | stateless checks; the same handlers in one process | every route | – |
| Graders, timeline, taxonomy | none | pure functions of what the cloud APIs answer | submit routes | – |
| Web apps, labs, infra, scripts | browser state; none | pages; templates, operator scripts | the engines | – |

### What makes each hard, and what makes it correct

*Session engine.* A launch scans the pool, claims an account, writes a session
row and sends an event, in that order, and can die in between. A learner, the
reaper and the healer may each ask for a teardown of the same session; a
teardown works for minutes, throws, is delivered twice, or is presumed dead
while it is not; a deploy may finish or fail after the lab was ended. Correct
is: one tenant per account; nobody inherits anything; aws-nuke never runs in
somebody else's account; one live session per user; and, whatever dies, the
account comes back and the user may launch again.

*Free labs.* The runs are counted before the run that is the next one exists;
only the user's lock separates the count from the write. Correct is: no user
has more runs than allowed, whatever dies, fails late or overlaps.

*Pay-per-lab.* Two tabs, a confirm that is loaded again, a purchase while a
launch is under way, a rollback that is late or lost. Correct is: no more runs
than were paid for, and no charge without a run.

*Enterprise invites.* Most status writes have no condition and follow a check of
a row that was read earlier; a start leases an account before any row says so; a
grade must be taken before the account is wiped. Correct is: consent before
anything else, one attempt and one lease per invite, dead invites stay dead, a
grade stays, a submitted invite has a result, and accounts come back.

*Slots, credits, codes, agreements.* Counters and status machines moved by
single conditional updates, with requests that die between two of them. Correct
is: no slot is oversold; credits agree with orders and invites; guesses at a code
are bounded and what was signed stays signed; what was accepted is what was
issued.

*Azure seats.* A few service principals serve many candidates. A seat that was
assigned for longer than a session is taken over while its former candidate's
group, secret and teardown are still about. Correct is: no former candidate can
enter a room, no seat opens a group of somebody else, no group is left behind that
nothing will delete, nobody loses a seat in use, and no late cleanup reopens a
submitted invite.

*Recordings.* Every await of the recorder may be answered after a stop, a lost
camera, a click or a submit. Correct is: capture that is over stays over, there
is one capture loop, and no upload replaces evidence.

*HR candidates.* Forms put back whole rows. Correct is: what the candidate
answered and what colleagues scheduled survives them.

`PROJECT.json` lists the individual hazards with the lines where they bite.

## 2. Where the state lives, and the grain of the models

One action is one await that reads or writes a table (or several that the code
does without one in between). A condition of an update is the guard of the
branch that writes; a failed condition is the other branch, since the code does
something different then. An invocation that dies between two awaits simply
stops: each has a `...Dies` action. A read or write that *throws* (DynamoDB
unavailable) is the same as a death, unless the code catches it and goes on;
where it does, the catch branch is modelled (`LeaseThrows`, `Wipe`, `DeployFails`,
`Provision`), and so is a failure that a `.catch(() => {})` swallows
(`DeployReleases`, `StartUnclaims`, `GivesBack`, the faults of kind *Failures* in
4.1). A call to a table either takes effect and answers, or fails and changes
nothing; that it takes effect and fails all the same is modelled where the code
undoes what it takes for undone: a launch that is given back (`Provision`), an
Azure call (`LeaseFails`, `RotateFails`, `GrantFails`). Single writes whose failure
is swallowed and that only duplicate what the next step does are left out.

Clocks are abstracted to the comparison the code makes: "expired", "the claim is
older than 12 minutes", "the lock's ttl has passed", "the window is over". Each
is an action that may happen any time the code does not forbid it; where real
time makes an order practically certain, the guard says so and a *fault* lifts
it (section 4.1).

## 3. Plan

| # | Module | About | Status |
|---|---|---|---|
| 1 | `LabPool` | session engine: launch, lease, deploy, teardown, reap, heal, warm, locks | checked |
| 2 | `LabPoolProofs`, `LabPoolIsolation` | types, no resurrection; which races each safety property tolerates, with the inductive invariants | proved |
| 3 | `PayPerLab`, `PayPerLabProofs` | orders, entitlements, launch budget | checked, proved |
| 4 | `AccountPool`, `LabPoolRefinement` | the abstract promise of the pool, and that `LabPool` keeps it | checked, proved |
| 5 | `EntInvite`, `EntInviteProofs` | an invite from creation to a stored result | checked, safety proved |
| 6 | `AzureSeats`, `AzureSeatsProofs` | service principals, groups, takeover | checked, proved |
| 7 | `EntSlots`, `OrgLedger`, `OneTimeCode`, `Agreements`, `HrCandidate`, `FreeLabs`, `RecordsProofs` | the smaller parts with rows of their own | checked, proved |
| 8 | `Recorder`, `RecorderProofs` | the browser's recorder, its page, epochs and uploads | checked, proved |
| 9 | – | HR employees (PIN counters, letters), invoices, wait room | read, not modelled (sections 7 and 8) |

`EntInvite` and `PayPerLab` use the pool as one step or one bit; `LabPool` is the
detailed account of that step, and `AccountPool` its promise. `Records` puts the
parts of 7 and 8 side by side. What is left to prove is in section 6.

## 4. The modules

### 4.1 The session engine: `LabPool`, `AccountPool`

| In the model | In the code |
|---|---|
| `pc[s]`, `cand[s]`, `hot[s]` | a `POST /launch` invocation and the locals of `lease()`; request and minted session id are one |
| `status`, `account`, `expired`, `claim` | Sessions: `status`, `accountId`, `expiresAt` passed, `teardownAt` absent / recent / older than `STALE_TEARDOWN_MS` |
| `pool`, `holder`, `warm` | Accounts: `status`, `currentSessionId`, `warmReady` for `PRIMARY_LAB` |
| `lock`, `noTtl` | UserLocks: the row (by the launch that wrote it), and whether it has a `ttl` |
| `deploy[s]`, `tdQueue`, `td[w]`, `warming`, `snap` | invocations of the deploy, teardown and warm workers, events under way, what `healPool()` has scanned |
| `env[a]`, `prebuilt` | what really exists in the sandbox account: stacks and resources by session, stacks of the warmer |

The actions follow the order of the awaits: `Launch` (findActiveSession) →
`AcquireLock` → `RejectLaunch` | `ScanPool` → `ClaimAccount`* | `NoCapacity` →
`RecordSession` → `BindAndDispatch`; the deploy worker `DeployStarts` →
`DeploySucceeds` | `DeployFails` → `DeployReleases` → `DeployUnlocks`; a teardown
is asked for by `EndLab`, `ReapDispatch` or `HealTearsDown`, claimed by
`ClaimTeardown`, and runs `Wipe` → `ReturnAccount` → `Settle` → `Unlock`.
`HealScan` reads the accounts, `HealReleases` and `HealTearsDown` act on that
reading. `WarmClaims`, `WarmEnds` are `warmAccount()`.

**Faults.** The environment's worst behaviour is a constant. *Losses*
(`end_lost`, `lease_crash`, `warm_crash`) are deaths nothing retries from.
*Failures* are those the deploy worker's catch block does not notice
(`handler.mjs:194-202`): the session cannot be marked and its row goes on saying
"leasing" (`mark_lost`), the account cannot be released (`release_lost`), or
`deployLab()` throws when its stack is complete, in the calls after the waiter
(`late_throw`); the worker then releases the account and the lock as if nothing had
been built.
*Races* are overlaps against which the code has no guard and which need an
unlucky clock or an impatient user: a late `POST /teardown` (`late_end`), an end
during the build (`end_mid_build`), a teardown that outlives its claim
(`slow_wipe`), a lock that outlives its ttl (`lock_timeout`), a healer acting on
an outdated scan (`stale_heal`), a launch doing so (`stale_scan`), an event
delivered again after a death (`redelivery`), a stack that completes after the
waiter gave up (`slow_build`). Deaths of launch, deploy and teardown executions
are always possible. The isolation properties are each broken by some of the races
and failures and hold in the presence of the others; section 6 says which. They are
not exotic. `healPool()`, for instance, awaits whole teardowns (minutes each) between
its scan and its last release.

### 4.2 Payments and budgets: `PayPerLab`

One row of Entitlements (`orderId`, `launchCount`, `version`, `window`, `access`),
the orders of that customer and lab, executions of the payment routes (`conf`)
and of the launch route (`pc`, `seen`). `Checkout`, `Charge`, `Purge` are the life
of an order. A route that found its payment (`Confirm`) calls `POST /orders/paid`,
which grants (`Grant`) and then records (`MarkPaid`). The launch route reads the
row (`ReadEntitlement`), reserves by compare-and-swap (`Reserve`), asks the engine
(`Provision`, `Refuse`) and rolls back (`Rollback`, then `Unstamp`: two updates).
Every call may be lost (`ConfirmDies`, `LaunchDies`, the `"lost"` branch of
`Reserve`, the `"rollback"` branch of `Provision`).

History variables name the refills, for each launch the refill it was reserved
from, the launches for which the engine started a session (`served`) and those of
them whose reservation was given back all the same (`forgiven`): the route repays
every launch whose answer it did not get (`launch/route.ts:120-125`), also one that
took place. They occur in no guard.

The row is created by the first grant: rows without `launchCount`, monthly passes
and the subscription of all labs take other branches and are not modelled.

### 4.3 Enterprise invites: `EntInvite`

| In the model | In the code |
|---|---|
| `status`, `consented`, `refunded`, `claim`, `session` | Invites: `status`, `consentAt`, `refunded`, `leaseClaimAt` absent / recent / older than 2 minutes, `sessionId` |
| `result[i]` | Results: of which environment the stored grade was taken (the candidate's own, or an account that was wiped or passed on) |
| `sess`, `whose`, `place`, `tenant` | Sessions: `status`, `userId`, `accountId`; Accounts: the lease |
| `deploy`, `teardown` | events of the two workers |
| `job[r]` | a request under way: what it does next, and what it has read |

The conditional updates are one action each (`Consent`, `Verify`, `Refund`,
`StartClaims`); `Revoke` and the last steps of book, start and submit write with
`SetStatus` whatever the status has become. `BookReads` → `BookRecords`;
`StartReads` → `StartClaims` → `StartTakes` → `StartRecords` (the two writes of
`leaseEnt()`: account, then session row) → `StartBinds` → `StartDispatches`, or
`StartFindsNone` → `StartUnclaims`; `SubmitReads` → `SubmitGrades` →
`SubmitStores` → `SubmitMarks` → `SubmitFinishes`, with `SubmitThrows` for the
writes whose failure is caught. `RequestDies` ends any request anywhere.
`Reap`, `HealReleases`, `TearsDown` and the deploy worker are the engine's. After a
failed deploy the worker marks the session and releases the account (`DeployFails` →
`DeployReleases`), and either of the two may fail unnoticed or not be reached; the
reaper or the healer then does the rest. `Rowless(a)` is the one account they do
not find: leased by a start that died before it wrote the session (section 8).

### 4.4 Azure seats: `AzureSeats`

| In the model | In the code |
|---|---|
| `phase`, `group`, `seat`, `locked` | Invites: `status` (submitted, revoked, refunded are "closed"), `azResourceGroup`, `azSpId`, `leaseClaimAt` |
| `holder`, `aged` | AzureSpPool: `assignedInvite`, `assignedAt` older than 90 minutes |
| `knows[s]` | who was handed the secret that works now; a rotation leaves the new holder alone |
| `owner`, `granted`, `gone` | resource groups: created for whom, role assignment, deleted |
| `deploys`, `tears`, `req` | events and how far each teardown has come; requests |

A start goes `AzStarts` → `AzClaims` → `TakesFree` | `TakesOver` | `FindsNoSeat`;
after a takeover `Evicts` (teardown of the former group) → `ResetsEvicted`; then
`Rotates` → `LeasesGroup` → `Grants` → `Persists` → `AzDispatches`. The failure of
each call is an action with the clean-up the catch block does (`RotateFails`,
`LeaseFails`, `GrantFails` → `DropsGroup` → `AzUnclaims`, `PersistFails`); the call may
have taken effect before it failed, and the release of the seat in that clean-up
(`GivesBack`) or of the claim (`Unlock`) may fail too, which is swallowed. A teardown
is `Deletes` → `Releases` → `Resets`, three awaits with conditions of their own.

A seat ages (`SeatAges`) only when no request or worker is at it any more: its 90
minutes exceed every invocation.

`faults` is the list of what has gone wrong, by kind: a call that throws, an
invocation that dies, or a reset that comes while a request still works on the
invite (`"overtaken"`: the engine has no lock against it). Each property names the
kinds it does not bear, and holds through any number of the others:

| | excluded kinds | so it holds although |
|---|---|---|
| `AzTypeOK`, `ClosedStays` | none | anything fails |
| `RoomIsPrivate`, `SeatStays` | `Derailing`: a result not stored, a reset under a request | starts fail or die anywhere, events are lost, groups cannot be deleted |
| `NoGroupForgotten` | `Stranding`: also an invite not written, a death, a bare group whose teardown fails, a group that exists although its creation failed, a seat whose release fails | rotations, leases, grants, deploys, evictions and the teardown of a session fail |
| `AccessEnds` | `Exposing`: also an eviction broken off | the same, without evictions |

That the teardown of a *session* may be given up is what the code claims of its
"90-min self-heal reaper": seat and invite stay as they are, and the takeover of the
seat finds the group through the invite. The exclusions are needed: with the one
fault of the run allowed to be of a single kind and the condition dropped, TLC breaks
`RoomIsPrivate` by `"mark"`, `SeatStays` by `"mark"` or `"overtaken"`, `NoGroupForgotten`
by `"persist"`, `"died"`, `"mark"`, `"overtaken"`, `"orphan"` or `"halfleased"`, `AccessEnds`
by `"evict"` and most of these (section 8 tells how). `"overtaken"` breaks
`RoomIsPrivate` with three invites. `"release"` is excluded because an invite can then
hold two seats and be evicted for the one while it works with the other, which the
proof rules out.

### 4.5 The smaller parts: `Records`

`Records` EXTENDS seven modules and a behaviour of it is one of a single part,
chosen at the start. They share no item of a table, so a step of one neither
enables nor undoes a step of another: interleaving them would multiply states
and show nothing new.

*`EntSlots`.* `booked[k]` is the counter of a slot, `named[i]` the slot on the
invite. A booking is `ReadsInvite` → `ReleasesOld` (if it moves) → `TakesSeat` →
`RecordsSlot`, and dies anywhere. `moved` remembers who changed to another slot.

*`OrgLedger`.* `creditsTotal`, `creditsUsed` and the stamp `notified` of one org;
`Charges`, `Refunds`, `PaysOrder` are transactions of two rows. Staff add credits or
take them back (`AdjustsCredits`; `added` and `taken` count them). After a charge
that crosses 80 percent: `ChecksCredits` → `StampsAlert` → `SendsMail`.

*`OneTimeCode`.* One row of either kind, an invite to be verified or a document to
be signed. `AsksForCode` → `SendsCode`; `ReadsRow` → `ClaimsTry` → `Moves` | `Misses`
(→ `Bars`). A request compares with the code of its reading (`saw`).

*`Agreements`.* `Drafts`, `Edits`, `ReadsDraft` → `Issues` → `Supersedes`, `Accepts` →
`Mirrors`, `Voids`. The hash of a text is the text; `agreed` keeps what was accepted.

*`Recorder`.* `rec[x]` is a `SessionRecorder`: its flags, the generation counter
that invalidates answers, the capture loop, the camera, and `awaits`, the
continuations of `start()` and `handleTrackLost()` with the generation each began
in. The page has `screen`, `ref`, the effect that makes a recorder, clicks on the
banner, the progress of `handleSubmit()`, and `beaconed`: once the grace time is
over and the page is hidden or left it submits by beacon (`BeaconSubmits`), which
does not stop the recorder. The engine has `recEpoch` and the
objects under (epoch, seq). Each piece of code up to its next await is an action.

*`HrCandidate`.* `row`, one `page` that has loaded it, and requests with what they
read. `Writes` is the one write of each route: it puts back the fields the code
puts back. `clash` notes that a request put back a row somebody else had changed.

*`FreeLabs`.* A launch is `Launches` → `ClaimsLock` → `CountsRuns` → `CountsShare` →
`MakesSession`; deploys break, sessions are ended by hand or by the reaper
(`EndsSession`, whatever their status), teardowns finish, locks expire. `strayed`
notes that a release hit the lock of a later launch, `revived` the failed sessions
that an end or a teardown set to "ending" or "done".

History variables (`claims`, `agreed`, `told`, `clash`, `strayed`, `stray`, `moved`, …)
occur in no guard.

## 5. What is checked

| Run | Instance | Shows |
|---|---|---|
| `pool_isolation` | 3 launches of 2 users, 1 account, 2 teardown workers; losses but no races | `AccountExclusive`, `TenantIsolation`, `WipesOwnAccount`; `PoolContract`: the engine implements `AccountPool` |
| `pool_one_live` | 3 launches of 1 user, one for another lab, 2 accounts, 1 worker; `end_lost`, `lease_crash`, `late_throw` | `OneLiveSession` |
| `pool_any_race` | 1 launch, 1 account, 2 workers, every race and failure, no loss | `NoZombie`: even then a session that left "leasing" never becomes active again; `NobodyForgotten`: no account drops off every list |
| `pool_liveness` | 2 launches, 1 account, 1 worker, fairness, `late_throw` | `AccountReturns`, `LockClears` |
| `late_end` | 2 launches of 2 users, 1 account, 2 workers, with `late_end` | `WipesOwnAccount` fails |
| `pay_budget` | 2 orders, 2 confirms, 3 launches, a budget of 2 | `BudgetRefilled`, `NeverOvercharged`, `ClockNeedsLaunch`, `PaidIsGranted`, `OneReservePerReading` |
| `pay_replay` | 2 orders, 3 confirms, 1 launch | `RefillOncePerOrder` fails |
| `ent_invite` | 1 invite, 2 requests at a time, 2 sessions, 1 account, fairness | `ConsentFirst`, `OneLease`, `OneAttempt`, `DeadStaysDead`, `SubmittedHasResult`, `GradeSettles`, `AccountsComeBack` |
| `double_submit` | the same | `GradeKept` fails |
| `azure_seats` | 2 invites, 1 seat, 3 groups, 2 requests at a time, 1 fault | `RoomIsPrivate`, `NoGroupForgotten`, `AccessEnds`, `CleanupsSpare` |
| `records` | seven parts, bounds below | `FirstBookingsFit`, `CreditsBalance`, `OneWinner`, `GuessesBounded`, `SignedForGood`, `AcceptedForGood`, `EvidenceKept`, `NoZombieCapture`, `AnswersStay`, `FreeRunsCapped` |
| `stale_form` | 4 requests at one candidate | `MeetingsKept` fails |

The runs that expect a violation each check one statement of a comment; section 8
has the behaviours. Deadlock is not checked: a state in which every request is
over and every account is back is where these systems stop.

**Bounds.** *Pool.* One account is where isolation is hard, because every launch
contends for it and it is reused at once. Three launches give a present tenant,
an earlier one whose worker or event is still about, and one that waits. Two
teardown workers are two executions for the same session. With every race at once
(`pool_any_race`) there is room for one session, whose own executions overlap; the
theorems behind that run are about any number. Two accounts matter
only for one user holding two, which is `pool_one_live`; there the third launch is
the one that profits if the second one's lock is lost to a late release for the
first, and a second worker adds no state, since one user's sessions follow each
other. The same instance as `pool_isolation` with the failure `release_lost` on top has
6.6 million states and passes as well, but takes several minutes; the theorems of
section 6 bear that failure.
*Payments.* Two orders give an earlier and a later purchase, and three launches
exceed a budget of two within one refill, and let a late rollback of the first
meet a launch of the second; `pay_replay` needs a confirm more than orders.
*Invites.* Invites share nothing but accounts, which only `tenant` records; one
invite with two requests at a time has every overlap of two, and a member of
`Requests` stands for any number of requests one after the other. Two sessions
let a second lease happen if it could.
*Azure.* Two invites and one seat force a takeover at every second start. Three
groups are the present room, the former one that is being deleted, and the one
of a chain in which the evicted candidate evicts in turn. One fault is enough
for every catch block; `MaxFaults` bounds how many meet.
*Records.* Two invites and two requests everywhere, two slots of `Capacity` 1
(the last seat), two orders of `OrderCredits` 1 with `MaxAdjust` 2 credits given or
taken by hand, one row with `MaxTries` 2 and `MaxCodes` 2 (a resend and the last guess), two papers
and two texts (a replacement and an edit), two recorders (a reload or a retry),
`MaxEpochs` 2, `MaxGen` 1 (a camera lost once), `MaxShots` 1, `MaxClicks` 1; three HR
requests; three launches of one user with `MaxLaunches` 2 and `FreeShare` 1, so that a
failed run can be ended while the two allowed ones are used up (users share nothing
but the free share, which another launch of the same user fills as well). The counters are bounded in the guards of the
actions that move them; there is no state constraint.
*Symmetry* is used among sets the specifications do not tell apart: accounts and
workers of `LabPool`, orders, confirms and launches of `PayPerLab`, invites, groups
and requests of `AzureSeats`, recorders, HR requests; and in no run with a
liveness property.

**Fairness.** `LabPool!FairSpec`: weak fairness of every worker and of an accepted
launch (a Lambda execution ends, with its work or by its timeout), of the reap
and of the heal scan (cron rules); strong fairness of the steps that others
disable again and again (a teardown finding a free execution, the healer finding
its account unchanged, a claim growing stale), and of a successful wipe and of
returning the account: aws-nuke does not fail for ever, and executions do not
always die at the same point. `EntInvite!FairSpec`: weak fairness of a request
that has begun (it goes on, answers or dies), of the deploy worker (it succeeds,
fails or dies), of the reaper and of the healer; strong fairness of a teardown, whose
event the reaper sends again each time it is lost. Nothing is assumed of people: no
launch, start, submit or end has to happen. `AccountsComeBack` in particular holds
when a start dies before the invite names its session, and when a failed deploy
neither marks its session nor releases its account; it excepts the account whose
start died before the session row was written. `AccountReturns` also holds with
`mark_lost` or `release_lost`, `LockClears` with neither of them (section 8).

**Mutants.** Next to an action stand its mutants: the same action with a plausible
mistake (a dropped condition, a swallowed error, a missing reset). Each
property is violated when one of them replaces the original.

## 6. What is proved

All theorems hold for any sets of sessions, users, accounts, workers, invites,
requests, orders, seats, groups, … (finite where a theorem counts) and any values
of the numeric constants; the assumptions are the `ASSUME`s of the modules, which
TLC evaluates in the runs.

*`LabPoolProofs`* assumes nothing about faults. `TypeCorrect`: rows, workers and
queues keep their shape. `NeverResurrected`: `NoZombie`; from the fact that only
`DeploySucceeds` and `RecordSession` write "active", the one conditional on
"leasing", the other on a row that did not exist.

*`LabPoolIsolation`* says, for each safety property of the engine, without which faults
it holds; deaths and all the other faults may happen. Five races
let two executions work for one session, or for one that has given its account
back: `Overlaps` is `late_end`, `end_mid_build`, `slow_wipe`, `stale_heal` and
`redelivery`. `mark_lost` has the same effect without a second execution: the row of
the session still claims the account that its worker released.

| Theorem | Property | Tolerates | Must not happen |
|---|---|---|---|
| `HoldersNamed` | a leased account and its session name each other | every race, loss and failure | – |
| `NobodyIsForgotten` | `NobodyForgotten` | every race and failure | a loss |
| `AccountsExclusive`, `WipesOwn` | `AccountExclusive`, `WipesOwnAccount` | losses, `slow_build`, `late_throw`, `stale_scan`, `lock_timeout`, `release_lost` | an overlap, `mark_lost` |
| `TenantsIsolated` | `TenantIsolation` | losses, `lock_timeout`, `release_lost` | an overlap, `mark_lost`, `slow_build`, `late_throw`, `stale_scan` |
| `OneLive` | `OneLiveSession` | losses, `slow_build`, `late_throw`, `stale_scan` | an overlap, `mark_lost`, `lock_timeout`, `release_lost` |
| `EngineIsPool` | `PoolContract` | losses, `stale_scan`, `lock_timeout`, `release_lost` | an overlap, `mark_lost`, `slow_build`, `late_throw` |

The hypotheses are not idle: with a single race or failure added to `Faults` in the
instances of section 5, TLC finds each of the overlaps violate `AccountExclusive`,
`WipesOwnAccount`, `TenantIsolation` and `PoolContract`, and all of them but `redelivery`
also `OneLiveSession`; `mark_lost` violates all five; `slow_build` and `late_throw`
violate `TenantIsolation` and `PoolContract`, `stale_scan` `TenantIsolation`,
`lock_timeout` and `release_lost` `OneLiveSession`, and each of the three losses
`NobodyForgotten`.

None of these properties is inductive: whether two sessions share an account
depends on which workers still hold a reference to it. The invariants are layers
(module `LabPool`, last section):

- `NameInv` holds with every race: the claim of `lease()` is the only step that makes a session a holder, it does so once, and writes `account[s]` with it.
- `WatchInv` bears every failure, needs no loss to happen, and with it `NobodyForgotten` follows from `NameInv`: a session that was given an account is watched for ever. It is in the hands of `lease()`; or "leasing" or "active", where the reaper and the healer look for it; or "ending" with an event that can still be claimed or a stamped `teardownAt`; or settled, where the healer takes what is left. This is the safety half of `AccountReturns`.
- `LeaseInv` (`LeasesHold`) is inductive by itself. `PoolInv`, `UseInv`: a leased account names its session and a session in use holds its account, so two in use would both be the holder. `BuildInv`, `TeardownInv`, `AloneInv`, `QueueInv`: a deploy worker works only for a session nobody tears down, a teardown only for a session that still holds its account, at most one per session, and an event that can still be claimed finds the account leased to its session. `WipedInv`: between wipe and return the account is empty.
- `CleanInv` (`AccountsClean`), on top of `LeaseInv`: what is in an account belongs to its holder, and there is nothing in it before its deploy and after a deploy that failed. A stack that stays after the worker has given it up (`slow_build`, `late_throw`) breaks the latter.
- `WarmInv` (`EnvironmentsStay`), on top of `LeaseInv`: a warm marker stands for a warm stack, until the hand-over is recorded, and an active session has its environment. A stale scan breaks it. `TenantIsolation` is `CleanInv` and `WarmInv` together.
- `LockInv` (`LockOutlives`), on top of `LeaseInv`: the lock of a user belongs to a session from its launch until its account is back and the release that goes with it is made; hence `OneLiveSession`, and `LocksExpire`: `bindLockSession()` always finds the row and never makes one without a ttl, the safety half of `LockClears`. What is inside the accounts plays no part in it.

There is one lemma per action, or per process, and layer.

*`LabPoolRefinement`*: `EngineIsPool`. The mapping takes `tenant[a]` from the holder of
a leased account, `inside` from `env` and `served` from the sessions with an
`accountId`. Every action is a `Lease`, `Build`, `Clear` or `Return` of one account or
changes none of these; `LeaseInv` and `CleanInv` supply what the guards of the code
do not say: that the account claimed is empty, and that whoever releases it has
emptied it.

*`PayPerLabProofs`* counts. `BudgetInv` says that the launches that hold a
reservation (those under way and those the engine started a session for, but for
the ones given back), plus one full budget, are at most the budgets of all refills
plus the present counter; a refill adds a budget and takes at most one, a
reservation adds one to both sides, and a late rollback takes one from each,
whichever purchase it belonged to. That is why `BudgetHolds` is true although a
rollback may hit the wrong purchase. A launch that took place and lost its answer is
given back: it is `forgiven`, and the budget does not bound those (`ForgivenInv`: each
of them once, by a rollback that was made). `ChargesHold` compares the counter with the set of launches
charged to the last refill in the same way; `ReservationsExclude` follows from
versions that only grow. `ClockHolds`, `GrantPrecedesPaid` and `TypeCorrect`
complete the invariant `PInv`.

*`EntInviteProofs`*: the six safety properties of `ent_invite` and the types, with
deaths, lost events and any number of requests. `IInv` adds to them `JobInv` (what
a request has in hand at each step), `ConsentInv` (a request under way is for an
invite with a consent), `ClaimInv` (a start between claim and bind is alone, its
claim fresh, its invite without session) and `LeaseInv` (a session in hand or on
an invite is of that invite). `OneLease` rests on `ClaimInv`, `OneAttempt` on the fact
that a bind finds no session. `LeasesAreFound` is the safety half of
`AccountsComeBack`: only `leaseEnt()` makes a tenant, of a new session; so a leased
account always names a session that names the account, and this is live, where the
reaper finds it, or failed or over, where the healer does, even if no invite names
it and whatever the failed deploy left undone; or it has no row yet.

*`AzureSeatsProofs`*: `SeatsTyped` with any faults, and `RoomsArePrivate`,
`GroupsAreRemembered`, `AccessIsEnded` and `LateCleanupsSpare` with any number of
faults of the kinds each bears (4.4). `AzInv` has four layers, and each may use those
above it, since the kinds it excludes contain theirs:

- `AzShape`, always: what a request, deploy or teardown works on is there.
- `TenancyInv`, without `Derailing`: claims of an invite exclude each other
  (`ClaimsExclude`); whoever has written or read a room finds it in the invite
  (`SessionsStand`); a seat that an invite works with is in one hand, from the start
  over the deploy to the teardown, and is not taken over meanwhile, or the invite is
  closed for good (`StartsHold`, `DeploysHold`, `TearsHold`); its secret is known to
  its tenant alone (`SecretsHeld`).
- `PointersInv`, without `Stranding`: deploys and teardowns work on what their invite
  points to (`WorkPointed`); an invite holds no seat but the one it starts with or
  points to (`SeatsAccounted`); an invite is evicted by one start, and its group is on
  its way out before it forgets it (`EvictedOnce`); and every group has somebody
  (`GroupsPointed`). An eviction takes the group from the invite, not from the seat:
  this layer is why that is the right group.
- `AccessInv`, without `Exposing`: a seat with a role on a group is still with the
  invite of that group (`HeldBack`), or the group is on its way out (`AccessHeld`).

A lemma per layer and action shows that it is kept, one step per conjunct.

*`RecordsProofs`*: one invariant per part. `AcceptedStays` needs that an issue's
condition on the text it read holds at its write; `GuessesAreBounded` that a claim
is counted in the row before it is made, and that only a new code resets the
count; `SignaturesStay` is an action property from `MayMove`; `CreditsAlwaysBalance`
and `OneMailPerCrossing` count with the cardinality lemmas of the library;
`AnswersAreKept` looks at each write: a request that puts back a row other than the
present one sets `clash`, and the others touch fields of their own; `SlotsAreNotOversold` counts seats that are
booked or in a request's hand; `FreeRunsAreCapped` needs that the launches between
count and session of one user are the one that holds the lock, and that a failed run
counts again only as one of `revived`. The parts have no
variable in common, so a behaviour of `Records` is one of each part (`PartsAreKept`);
`RecordsTyped` and `RecordsKeepPromises` carry every theorem about a part over to the
composition that `records` runs.

*`RecorderProofs`*: `EvidenceIsKept`, because every recorder has an epoch of its own
before it takes a shot, and no two the same; `CaptureIsOver`, by `Sound`: of the
continuations that wait, at most one is of the present generation, it is the only
one that may act, none is when a loop runs, and it waits for the media exactly
when the camera is closed; and by what the page knows: every recorder but the
one in `ref` is idle, and that one too when the page is done, unless it submitted by
beacon. `RecorderTyped` adds the bounds: a generation per loss, a number
per shot, an epoch the engine gave.

Every invariant and action property of the passing runs is stated by a theorem.
Only model-checked are the liveness properties `AccountReturns`, `LockClears` and
`AccountsComeBack` (the prover does not handle fairness and ENABLED); of each of them
the safety half is proved (`NobodyIsForgotten`, `LocksExpire`, `LeasesAreFound`): in no
reachable state is there an account or a lock that nothing would come back to. The
runs that end in a violation are behaviours, not theorems.

## 7. What the models leave out

- The caps of `POST /launch` are one nondeterministic refusal in `LabPool` (`RejectLaunch`), `FreeLabs` has the ones per user and per share; the caps by network and over all labs are counts of the same kind. `entReserved` and Bedrock eligibility only select which accounts are in `Accounts`; the reaper's limit of teardowns per run only delays.
- The wait room (`labinfra.mjs:791-850`): places are shown, nothing is leased by them, and nobody is refused by them.
- `markSessionProgress()`, console URLs, ratings, completions and certificates change nothing the properties look at.
- Authentication: a request is made by the user it names.
- One customer and one lab in `PayPerLab`; sessions of the engine are one bit there (`live`), refined by `LabPool`. Rows without `launchCount`, monthly passes and `deleteEntitlement()` take other branches.
- `EntInvite`: expired links only refuse; erasure, report links and problem reports write fields the properties do not look at; bookings are in `EntSlots`, credits in `OrgLedger`, codes in `OneTimeCode`. The Azure track is `AzureSeats`.
- `AzureSeats`: what is deployed within a group, and the B2C Azure scripts.
- `OneTimeCode`: the ten minutes and the daily caps, which only refuse. `Agreements`: one employer and one kind of document.
- `Recorder`: the slower cadence after failed uploads, the trail of events, listing and deleting recordings.
- `HrCandidate`: the salary proof, the sent stamp, hiring; a form's fields nobody else writes.
- HR employees, letters, vault, payroll, invoices, bank: read-modify-write of single rows, mostly by one person. Section 8 has the races seen while reading.
- Graders, timeline and taxonomy are pure functions over what cloud APIs answer; the web apps but for the routes and the page named above are user interface; templates and scripts have no state.

## 8. What the models showed

Found by a run (the counterexample is the run's trace):

1. *A late end wipes the next tenant* (`late_end`). `POST /teardown` writes "ending" over any status. A session that was settled becomes claimable again when its `teardownAt` is 12 minutes old, or was never set because its deploy failed, and its teardown wipes the account by then leased to somebody else.
2. *An order can refill twice* (`pay_replay`). The grant compares with the last order only; confirm and callback ask the provider, not the order's status, so loading an old return page after a second purchase resets the counter and the window.
3. *A second submit replaces the grade* (`double_submit`). Timer and click both find no result; the first grades, stores and sends the teardown, the second grades the account after the wipe and stores the zero.
4. *A page that was open drops an interview* (`stale_form`). The form posts the whole candidate it was loaded with; the route restores token, answers and views from the row, but not the interviews.

Reachable in the models or seen while reading, without a run of their own:

*Session engine*

- Ending a lab that is being built frees its account twice (fault `end_mid_build`): teardown returns the account, then the deploy worker fails, overwrites the settled status and releases the account under the next lease (`handler.mjs:201`).
- A cold deploy that fails on an account pre-warmed for another lab returns it with the warm stack in it (`handler.mjs:198-201`). So does one that throws when its stack is complete (`late_throw`: `DescribeStacks`, or the flip of the session, `labinfra.mjs:1156`, `1177`), though the comments say "deploy failed before anything was provisioned, so there is nothing to nuke" (`handler.mjs:198-199`, `ent-handler.mjs:633`).
- If the failed deploy's session cannot be marked (`mark_lost`, `handler.mjs:197`), the worker releases account and lock all the same: the account is leased to a second session in use, the user may launch a second live session, and the teardown of the first wipes the account under its next tenant. A release of the account that fails (`release_lost`) frees the lock before the account is back, too. In both cases the teardown that comes later deletes the lock row of the user's next launch, whose bind recreates it without a ttl: `LockClears` fails.
- After `POST /teardown` marked the session and its event failed (fault `end_lost`), neither reaper nor healer looks at the session again: no `teardownAt`, and neither active nor leasing (`handler.mjs:569`).
- `healPool()` releases an account that was leased again after its scan (`stale_heal`); the comment says it never touches accounts in use.
- `releaseUserLock()` deletes whoever's row: after `lock_timeout` a late teardown frees the lock of the user's next launch, and a third launch gets a second live session.
- `bindLockSession()` is an upsert: if the row is gone it creates one without ttl, and only a later release clears it.
- A claim goes stale after 12 minutes while the worker may run for 15: two aws-nuke runs in one account (`slow_wipe`).
- `lease()` decides "warm" from its scan and claims on "available" only (`stale_scan`): an active session without a lab.
- `lease()` dies between claim and session row (`lease_crash`): the account stays leased, and the PoolStuck gauge, which looks for a missing `currentSessionId`, does not count it.
- A warmer that dies leaves its account "warming", which nothing repairs (`warm_crash`).

*Free labs and wait room*

- Launches of two users both pass `freeCapacity()` and exceed the share; no lock covers two users.
- A deploy that fails late releases the user's lock unconditionally, also when a later launch holds it (`strayed`). `POST /teardown` over a failed session writes "ending", and a teardown "done", so that a run that had failed counts after all, on top of the cap (`revived`; `launchCount()` says "Excludes failed launches").
- Wait room: `enqueueWaiter()` does not filter expired rows and so keeps an old place; a waiter that was taken off the queue may lose its place.

*Payments*

- A rollback after a new purchase gives its launch back to that purchase, and may clear its running window; the budget over both holds all the same (`BudgetHolds`).
- A launch that took place but whose answer was lost is given back (`launch/route.ts:120-125`): the learner has the session and may launch once more, so that a budget pays for a session more with each lost answer (`forgiven`).
- If the grant throws, the customer is charged and has no access until a payment route is called again; the callback answers with a redirect, so the provider has no reason to repeat it.

*Invites*

- A cold deploy that fails leaves the invite "started" with a dead session: `runDeployEnt()`'s comment (`ent-handler.mjs:634`) expects a new start, but `claimStartLease()` finds the session and every start answers "retry".
- Book, start and submit write the status without a condition: a request that read the invite before a revoke or refund revives it.
- A submit that grades after a reap or a failed deploy may grade an account that is somebody else's by then; `runDeployEnt()` releases the account without asking whose it is.
- A start that dies within `leaseEnt()`, between the claim of the account (`labinfra.mjs:439`) and the session row (466), leaves an account leased to a session that does not exist: the reaper scans sessions, `healPool()` skips an account whose session it does not find, and the gauge counts accounts without `currentSessionId` only (`Rowless`). A failed deploy whose mark or release fails is found by the reaper or by `healPool()`, which looks at reserved accounts too.
- The portal mints a fresh id for every request, so a double click creates two invites, where its comment expects the same one (`enterprise/app/api/portal/invites/route.ts:82`).

*Slots, credits, codes, agreements*

- A rebooking to a full slot gives the old seat up and keeps its name on the invite; a second rebooking then frees somebody else's seat. Seats of revoked or started invites are never given back.
- Staff may post a negative number of credits (`admin/orgs/credits/route.ts:11`), though `addCredits()` says "positive integer" and that it "can never make the ledger inconsistent" (`entinfra.mjs:200-202`): an employer may have used more than it has, by as much as was taken back. The update is an upsert and recreates the row of a deleted org. A low-credit stamp by a request that read before a top-up eats the mail of the next crossing.
- Two correct codes at once may leave a verified invite locked. A request compares with the hash it read, so a code that a resend replaced is still accepted, and guesses at it are not counted against the new one. Two sends at once both pass the daily cap.
- Two accepts may be mirrored on the org in the wrong order; issuing a replacement supersedes an accepted agreement before the new one is accepted.

*Azure seats* (each needs a failing call, a death, or a submit overtaken by an eviction)

- A takeover resets the former invite at once, where a comment of the same function says not to (`ent-handler.mjs:948-953`), and if the delete then fails nothing points to the group.
- A lease that throws after `createOrUpdate()` made the group (`azure-infra.mjs:124`) leaves a group that nothing names; the comment says "Nothing provisioned" (`ent-handler.mjs:893`). A seat that a failed start could not release goes on naming its invite, which starts again with another seat; a takeover of the first then evicts the room of the second.
- A submit under way while its invite is evicted and started again sends a teardown that takes the new room's seat; so does a duplicate teardown after a restart of the same invite.
- A teardown of an older attempt resets an invite that is on a newer group; a takeover may delete a newer group after a start that died.
- A seat that was released may still have a role (`entinfra.mjs:40-46` says it has none). A start that read a submitted invite before writes "started" over it (`Persists`).

*Recorder*

- The submit by beacon sets the page to done and notes the end of the recording in the trail, but does not stop the recorder (`candidate-flow.tsx:780-806`): on a page that stays open the camera stays on, and capture goes on until the engine refuses the uploads.
- `retry()` after a failed epoch allocation reports the old epoch as success and shows "recording" while capture is paused.
- A click on the banner that is answered after the page left the room, or a double click, makes a second recorder nobody can stop (`stray`). A camera lost between the await of `start()` and its handlers is not noticed.
- "Back to the task" while a submit flushes leaves the room without a recorder if the submit fails. Upload URLs minted before an erasure stay valid for ten minutes.

*HR*

- A form request that read before a submit, view or revoke puts the old fields back: answers are erased, opened links look unopened, a revoked link works again (`clash`). Two interviews scheduled at once: one is lost.
- Uploads racing an erasure leave a row or bytes behind; a death between purge and put leaves a named proof without bytes; a stale form restores a purged one.
- `PUT` of an employee writes back the PIN counters it read (`hr-handler.mjs:508`), and parallel logins exceed the five guesses; a double click on hire creates two employees; access lists are read and written back without a condition.
- Invoice numbers are a count plus one, so that after a delete a new invoice takes the number of an existing one.
