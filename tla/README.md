# Freelancer Marketplace API: models and proofs

TLA+ models of the FastAPI backend in `src/app`, model-checked with TLC and, for
its core, proved with TLAPS. Paths below are relative to `src/app`.

## 1. The system

Clients post jobs, freelancers send proposals, a client accepts one, which makes
a contract; the contract's milestones are delivered, approved and paid, and both
sides review each other. Notifications go through an outbox.

One uvicorn process serves the API. A `def` endpoint runs in a thread of a pool,
an `async def` one on the event loop. Each request has one SQLAlchemy session
(`db/database.py`, `get_db`) on PostgreSQL at READ COMMITTED. No service takes a
row lock: a handler SELECTs, checks, and later commits what it decided; an
UPDATE or DELETE is by primary key and carries no condition on the status. So
what the checks established may be stale at the commit, and only the keys of the
schema are certain to hold. Most of the hazards here come from that gap.

| Component | State | Operations | Interacts with | What makes it correct |
|---|---|---|---|---|
| Jobs (`job_service`) | `jobs.status` | create, edit, publish, close, delete | closed by accept; emit | transitions only forward; a job with a contract stays closed |
| Proposals (`proposal_service`) | `proposals.status` | submit, reject, withdraw, delete, accept | one transaction over jobs, proposals, contracts; emit | one per freelancer and job; a decision is final; accept is all or nothing |
| Contracts (`contract_service`) | `contracts.status` | complete, cancel, delete | reads milestones; cascades to milestones, reviews, payments | one per job; completed only when all is approved; deleted only when cancelled |
| Milestones (`milestone_service`) | `milestones.status`, terms, deliverable | create, edit, delete, submit, approve, reject, upload | storage, emit | an approval is final; terms are frozen once work is submitted |
| Reviews (`review_service`) | `reviews` | create, edit, delete | contracts, emit | one per participant, of completed contracts |
| Outbox (`notification_service`) | events, deliveries, preferences | emit, preferences | called after the commit by every service | recorded once; mandatory categories always sent |
| Dispatcher (`notification_dispatcher`) | deliveries, row locks | worker loop, test request | e-mail provider | bounded attempts, no second delivery, everything settled |
| Payments (`payment_service`) | `payments` | checkout, webhook | Stripe; cascaded away with the milestone | charged once, PAID exactly when Stripe has the money |
| Files (`file_attachment_service`) | `file_attachments`, bucket | upload, delete, list, download | Supabase Storage | a confirmed row has its object and no object lacks a row |
| Accounts (`auth_service`, `routers/users.py`) | `users`, auth provider | register, login, logout, delete | Supabase Auth, emit; jobs and proposals | one user for an email, no work lost by a deletion |
| Profiles, skills (`profile_service`, `skill_service`) | profiles, skills, the two link tables | create, update, delete, replace skills | jobs list skills too | links only to what exists; a skill's name is unique |
| Analytics (`analytics_service`) | none | dashboards, reports, trends | reads jobs, proposals, contracts | every row counted once, in the right period |
| Lists, searches, avatar | none; one column | SELECTs; one UPDATE | - | filters |

What is hard: handlers that overlap between check and commit; ORM deletes that
load dependents before they delete; crashes between a commit and the emit that
follows, between the steps of an upload, and between a provider's answer and the
commit that records it; webhooks that are repeated and reordered; calls that
raise after they were done; joins and calendars in reports. `PROJECT.json` lists these hazards by line.

## 2. Modules

| Module | What it is |
|---|---|
| `HiringTables` | jobs, proposals and contracts, and the transactions committed on them: what the schema guarantees when any of them may commit at any time |
| `Hiring` | the handlers of jobs, proposals and contracts: check, load, commit, emit, crash. Implements `HiringTables!TablesSpec` |
| `ContractWork` | milestones, the end of a contract, reviews |
| `Ledger` | what the outbox promises of one notification |
| `Outbox` | emit, preferences and dispatchers. Implements `Ledger` |
| `Payments` | checkout, Stripe, webhook |
| `Files` | uploads and deletions over the database and the bucket |
| `Listings` | job edits and budgets, profiles, skills and the links to them |
| `Accounts` | registration over the provider and the database, login, deletion |
| `Analytics` | `HiringTables` with `created_at`, and the reports as operators on it |
| `...Proofs` | theorems about each of these; those about `Analytics` are in `HiringTablesProofs`, and `OutboxProofs` shows `Ledger` implemented |
| `MC...` | constants for TLC |

**Requests.** In `Hiring`, `ContractWork`, `Listings` and `Accounts` a handler is a record in `reqs`: `idle`,
`checked` (SELECTs and checks done; one step, as the check of all tables at one
moment), `loaded` (the ORM has looked for dependents of what it will delete),
`saved` (between the two commits of `submit_deliverable`), `notify` (committed,
emit still to be called). A commit takes effect as one step; unique and foreign
keys, `ON DELETE CASCADE` and the `StaleDataError` of an UPDATE that matches no
row are part of it. The SELECTs of one check are one step, which is a
simplification: a commit that falls between two of them is not explored. What is
proved does not depend on it, since `TablesSpec` lets every transaction commit
whatever a check saw.

**Hiring.** `AcceptCheck`/`AcceptCommit`/`AcceptFails` are `accept_proposal`
before and after line 174; `Award` is its transaction. `ChangeStatus...` is
`change_status`, `Submit...`, `Reject...`, `Withdraw...`, `DeleteProposal...`
and `DeleteJob...` are named after theirs. In this module complete and cancel
ask nothing of milestones (the answer may be either); `ContractWork` does.
`events` is the set of idempotency keys recorded. A row that is gone stays in the
model as `DELETED`, so that properties can speak of it; ids are UUIDs and never
used twice.

**ContractWork.** A request acts as the contract's CLIENT or FREELANCER, everyone
else is refused. `MilestoneStatusCheck` does not look at the contract's status,
as `_get_contract_and_check_active` does not. `DeliverSave`/`DeliverSubmit` are
the two commits after the awaited upload; the second one writes the status only
if it differs from what the refresh between them read, as the ORM does.

**Outbox.** A dispatcher's batch is its session: rows as it sees them, keys still
to try, time since it read the clock. `Due` leaves out locked rows (SKIP LOCKED),
`Attempt` is `_attempt`, `Commit`/`Abort` end `session_scope`. Time is relative:
`wait` of a row counts down in `Tick`. Each event type of the catalogue has the
one channel EMAIL, so an event and its delivery are one row. `Worker` names the
dispatchers that are the loop of `main.py`; the others are requests of the test
endpoint, which claims whatever is due, whoever asked. A call may time out after
the provider has taken the message (`timeouts`); a batch may die with all that it
has not committed (`aborts`).

**Payments.** `CallStripe(r, made, raised)` lets the call raise although the
session was made. Stripe's side (sessions, events) is external, modelled from
what the code uses: at least once, any order, again unless answered with 200.
The webhook handler awaits nothing between its lookup and its commit and there
is one process, so a webhook is one step. The handlers of `payment_intent.*`
look the payment up with a function that the repository does not have (it is
nested in `delete`); `RefuseIntent` is the error that results.

**Files.** An upload commits a PENDING row, stores the object, confirms the row;
a deletion removes the object, then the row. `broken` marks the files whose
handler died half-way or was told that a call failed which was done.

**Listings.** A request keeps what it read (`range`, `names`) and writes only the
columns that differ from it, as the ORM does. `ClearLinks` is the DELETE of a
replacement of skills and remembers the rows that it saw; the INSERTs and the
commit are the next step, with the unique and foreign keys as `CanLink`. A job's
columns and links are one transaction; a profile commits its fields first
(`InsertProfile`, `EditProfileSave`), then its skills. Skill names are compared
by the check as patterns, without case (`NamedLike`), and with case by the key
(`NameSkill`). `get_by_name` gives the name to ILIKE without escaping it:
`Likes[n]` are the names that `n` matches, an external table that is any function of
names for the proofs and computed from spellings with `_` and `\` in `MCListings`. Its
`first()` has no order, so a rename passes whenever the renamed skill is among those
found. A name that ends in a single `\` is an error of PostgreSQL's and is left out.

**Accounts.** The provider's accounts are external. We assume that it refuses an
email that it has (Supabase can also be set to answer such a call with a made-up
account, which is not modelled), and that a call may raise after it was done. `SignUp`, `InsertUser` and
`RespondRegistered` are the steps of `register` with an await or a commit between
them. `abandoned` (history) holds the accounts whose registration failed after
`SignUp`. Posts stand for jobs and proposals alike, since `DELETE /users/me` treats
them alike: `LoadPosts` is the ORM looking for them, `DeleteUser` the DELETE with
its cascade.

**Analytics.** The transactions are those of `HiringTables`, each row stamped at its
INSERT, and the clock moves between them. A report is an operator with the name of
its endpoint. Time is counted in half days so that a session one step east of UTC
moves a row to the next day. Sessions west of UTC, which would move it to the day
before, are not covered: `shift` is a natural number. Days are numbers; `MonthStarts` and `YearStarts` are
the calendar. `WeekName` is `strftime("%Y-W%W")`; `Truncated` and `KeyOf` are the two
dialects' ways to it; `Counted` is the loop that assigns a group's count to the
entry of its key, and drops it when there is none. The names `ReportsInit`,
`ReportsNext` and `ReportsSpec` let one proof module speak of the tables, of the
reports and of the handlers of `Hiring`.

## 3. What TLC checks

| Run | Shows |
|---|---|
| `hiring` | 2 overlapping handlers, 1 job, 2 proposals, 2 contract ids, 1 loss after a commit: the tables stay consistent, `TablesSpec` is implemented, notices are true |
| `hiring_sequential` | 1 handler at a time, 3 proposals (2 of one freelancer): the checks are right; a job with a contract is closed, and a closed job stays closed |
| `contract_work` | 2 overlapping handlers, 1 milestone, 2 reviews by one reviewer: nothing outlives its contract, one review each, submitted work is never unsubmitted |
| `contract_work_sequential` | 1 handler at a time, 2 milestones, 3 reviews: completed means approved, terms are frozen, nothing approved is cancelled, only the completed is reviewed |
| `outbox` | 2 emitters, a worker and a test request, 2 attempts, 1 batch that dies or answer that is lost: calls are counted, sent once but for those faults, settled in the end, and `Ledger` is implemented |
| `payments` | 2 checkouts, 3 payments for 1 milestone, 1 failing webhook: charged once, PAID is true, final and recorded in the end |
| `files` | 3 handlers, 2 files, 2 owners: where a row and its object may part, and that they part nowhere else |
| `listings` | 2 overlapping handlers, a job, a profile, 2 skills, 5 names: 2 pairs that differ in case, one with a `_` and one with a `\`. Links refer to what exists; a crossed budget comes from a stale check only, a name given twice from a stale check or a name that ILIKE misreads |
| `accounts` | 3 overlapping handlers, 3 accounts with 2 emails, 2 posts: an email has one user; every email that is lost was lost by a known failure; a deletion takes no post that was there when it was asked for |
| `analytics` | 1 job, 2 proposals, 1 contract around a new year, 3 sessions: the trends count each row once in its period, and say which rows they cannot tell of; the reports agree with one another |

Two runs show a disagreement between the code and what it says of itself, each
by a shortest counterexample:

| Run | Counterexample |
|---|---|
| `decision_overwritten` | withdraw checks PENDING; accept commits; withdraw commits WITHDRAWN. "Only a pending proposal can be withdrawn." (`proposal_service.py:124`) |
| `creation_not_notified` | accept commits, the process dies before emit. "transactional outbox" (`README.md:9` of the repository) |

`hiring_sequential` and `contract_work_sequential` check with one request at a
time what overlapping requests break. They separate the checks, which are right,
from the missing locks, which are the cause of the races. `ContractClosesJob`,
`ClosedIsFinal`, `CompletedIsDone`, `TermsAreFrozen` and `EndIsEarned` all fail with
two requests, for that reason; section 4 has them as theorems for any number of
requests that do not meet on one job or contract. `listings` says the same of its checks in one
property that two requests keep: `OnlyStaleOrMisreadChecksLetThrough`.

Other disagreements, seen while modelling, have no run of their own:

* A running contract is deleted when `delete_proposal` checks and loads, an
  acceptance commits, and the DELETE cascades to the new contract, against "Delete
  a contract, only while it is CANCELLED" (`routers/contracts.py:55`).
* A contract is cancelled after an approval that falls between the check and the
  commit, against "blocked once any milestone is APPROVED"
  (`routers/contracts.py:40`): `EndIsEarned` with two requests.
* The test endpoint claims any user's due deliveries, against "Sends to the caller
  only." (`README.md:23` of the repository).
* An account with any job or proposal cannot be deleted: the ORM nulls a NOT NULL
  column first. A deleted account stays at the provider, and its email is lost:
  the two cases in `LostEmailsAreExplained`.
* `logout` adds the token to a set that nothing reads.
* A profile update whose skills are refused keeps its fields.
* "This skill already exists." (`skill_service.py:16`) is not said of every skill that
  does: beside `a\b`, `A\b` can be created, for the pattern `A\b` matches only `Ab`; and
  `nodexjs` can be renamed to `node_js` beside `Node_js`, for the pattern matches both
  and the one found may be `nodexjs` itself. Neither needs a second request.
  `Misread` are these two cases, and `OnlyStaleOrMisreadChecksLetThrough` fails
  in the run when either of them is left out of it.
* The intent handlers of the webhook raise, since their lookup is nested in
  another method.
* Weekly trends on SQLite lose the days before a year's first Monday, and a
  session that is not in UTC moves or loses rows at the edges of a range:
  `TrendsAddUp` says exactly which (`Told`).
* A client's average rating is over all reviews of their contracts, their own
  included; a freelancer's is over the reviews of them.

**Bounds.** Every race of this code is between two handlers (one check, one
commit of another between it and its commit), so two requests are enough; a
second proposal is there to be turned down, a third to be a duplicate. Two
contract ids allow a second contract for one job, if the keys did. Two attempts
make one retry and one exhaustion, and `BatchSize` 2 with two keys makes batches
that overlap. In `Payments` a third id allows a checkout after a failed one, next
to a running one. `Files` has three handlers: two deletions of one file and
an upload of the other can overlap. `Accounts` has three: two registrations of
one email and a deletion, or a deletion between a post and a removal. In
`Listings` a request asks for one skill (`Wanted`), so that two replacements
collide or mix; two amounts are enough to cross a budget. Its five names meet
only while there is no listing and no request for one (`NamesApart`, a CONSTRAINT
of the run); with listings all skills have one name, since no action on a listing
looks at names. `Analytics` has three
instants (`Moment`): the evening before a new year, the morning after, and the
first Monday of that year, with ranges (`Asked`) that begin or end at each, one
open to the left, one in the wrong order. Other named bounds: `MaxLost`
(handlers that fail after a commit), `MaxFaults` (batches that die and answers
that are lost), `MaxFailures` (webhooks whose transaction fails). Deadlock is not
checked: ids are finite, so each model runs out of work; the code never waits
for another handler except at row locks, which are part of a commit here, or of
the guards of the deletions in `Listings` (`Locked`).

**Fairness.** Only where something has to happen. `Outbox`: time passes; a
batch that is under way ends, since provider calls time out; the worker loop claims,
since it polls for ever and swallows every exception. The test request, emitters and
users are not fair. `Payments`: a checkout event that Stripe keeps delivering
is handled in the end; that is Stripe's retry, and the bound on failing
webhooks stands for a database that is not down for ever. No fairness is
assumed of checkouts: a process that dies in the middle stays dead.

## 4. What is proved

For every value of the constants: any number of jobs, proposals, contracts,
users, files, payments, skills, accounts, requests, emitters and dispatchers. The assumptions are the named ones of
the modules: ids are apart, foreign keys name rows, bounds are numbers.

* `HiringTables`: the inductive invariant is `TablesInv`. Its conjuncts need
  each other: `OneContractPerJob` needs that a new contract's id was unused,
  that is `ContractRowsOK` (a contract row without a proposal is one that never
  existed); `AcceptedHasContract` needs that contract rows keep their proposal
  when they are removed; and that contracts refer to decided proposals
  (`ContractIsGrounded`) needs the cascade and that no transaction writes PENDING
  over a decision. `TablesConsistent` is `TablesSpec => []TablesInv`, with a step
  for each transaction and below it one for each conjunct it disturbs;
  `TablesMoveOn` proves `NothingIsUndone` from it.
* `Hiring`: `TypeCorrect`; `HandlersImplementTables`, each step of a handler is a
  transaction or a stutter of the tables; from these `NoSecondContract`,
  `NoSecondProposal`, `AcceptanceIsAtomic`, `ContractsAreGrounded` and
  `HandlersMoveOn` follow for the handlers; and `NoticesAreTrue`, whose
  invariant is `NoPhantomNotice` itself next to `TablesInv` and types: it speaks of
  the notices still to be emitted too, and `NothingIsUndone` keeps each true.
* `Payments` (`PaymentsInv`): a payment claims its milestone while its row exists,
  a checkout has it in hand, or its link was sent. `OneClaim` is the unique key
  extended from rows to claims; it is inductive because `PaymentOK` says that
  what claims an existing milestone is a row, and `CheckoutOK` that a checkout
  past its INSERT holds a payment of its own.
  `EventsTrue` (an event that says paid is of a paid session) gives `PaidIsTrue`.
  `MoneyStaysAnnounced` goes the other way: while a paid session is not recorded,
  Stripe has an event to deliver that records it. It holds because a webhook is
  answered only when its transaction has committed or it is of no interest,
  and because what is recorded as paid stays so (`Recorded`).
* `Files` (`FilesInv`): `Whole` is `AtRestIsWhole` with two more cases, a PENDING
  row under an upload and a CONFIRMED one whose object a deletion has just removed;
  `Relies` says which rows and objects each stage of a handler can count on, and
  `FreshIsEmpty` that an id without a row has no object.
* `Listings` (`ListingsInv`): `CheckedRow` keeps what a check established of the
  values it read: a range in order when any end of it is to be written, a
  name that as a pattern found no skill or, in a rename, that skill itself. A commit
  that lets something wrong through must then have found
  other values than these, or the pattern misses what has its name or finds a skill
  of another name (`Misread`), which is `OnlyStaleOrMisreadChecksLetThrough`. It is
  proved for any relation `Likes`: of ILIKE itself nothing is assumed.
* `Accounts` (`AccountsInv`): `Relies` says that a registration past `SignUp` has
  its account at the provider, which makes `LostEmailsAreExplained` inductive; that
  a post about to be committed is new and has one request; and that at `loaded`
  every post known to the deletion is gone. What is gone does not come back, so
  what the ORM did not find stays away.
* `ContractWork` (`WorkInv`): `Relies` says that a contract that a review was
  checked for has still ended, that a status the refresh of `submit_deliverable`
  read as SUBMITTED is still that of submitted work, and that what is about to be
  told is true. Each survives the commits of others because the tables only
  move onward (`Onward`), which is proved of the five ways in which a commit can
  move them (`TablesMove`) before any handler is looked at.

* `Outbox` (`IInv`): a row is in at most one batch (`LocksApart`, which is what
  SKIP LOCKED buys); while it is, the row stays PENDING and the copy in the batch is
  either equal to it or one attempt ahead (`BatchesFollow`); so what a commit writes
  over the row is the row's own next attempt, and `Counts` can compare calls
  and deliveries with the copy where there is one and with the row where there is
  none. None of the three is inductive without the others: two overlapping
  batches would both count from one row. `CallsCounted` and `TakenOnce` follow,
  and `ImplementsLedger`: each step is a step of `Ledger` or a stutter, a commit of
  a batch being one for all of its rows at once. `TypeCorrect` needs that a backoff is at most
  `LongestWait`: `Doubled` grows, by induction on the attempts.
  `OptOutIsKept` says that a notification that was skipped is never sent and that a
  mandatory one is never skipped; it needs `EmitsHold`, the same of the rows that
  an emit() has resolved and not yet inserted.

* `Analytics` (in `HiringTablesProofs`): the reports read what transactions
  commit (the lemma `ReportsReadTables`, which holds by the shape of `Transaction` and
  `Tick`), so `TablesInv` holds of what they read; the rest
  follows from it and from the types in each state, with no invariant of its own.
  `TrendsAreRight` needs that a set of days has a latest one not after a day
  (`LatestDay`, by the well-foundedness of `<` on the distances), that a period begins on
  one day whichever of its days is asked (`PeriodFacts`), and that two periods of
  one kind never share a name (`NamesDiffer`; for weeks, since the year and the count
  of Mondays tell the Monday). So a key has one group (`OneGroupPerKey`, nothing is
  written over), the groups' sizes are the entries (`CountedRows`), and the
  first day of a range and the period starts after it name every period of it
  (`EveryPeriodIsThere`). SQLite's weeks before the first Monday of a year have names
  that no Monday has: these rows are excluded by `Nameless`, as in the run.
  `ReportsDoAgree` finds the sets of ids behind the columns of the joins
  (`ClientSkillRows`, `FreelancerSkillRows`: every outer join has a row, NULL is no
  id, and a proposal that exists has a job that exists, from `ContractIsGrounded`),
  and compares them by inclusion, by the three statuses of a contract, and by the
  injection of contracts into jobs that `OneContractPerJob` gives. The assumptions
  are that ids are finitely many and apart from NULL, that the first day begins a month
  and a year, and that a year begins with a month.

**What a row lock would give.** `ContractClosesJob`, `ClosedIsFinal` and
`DecisionIsFinal` are proved under `[]JobsLocked`, `CompletedIsDone`,
`TermsAreFrozen` and `EndIsEarned` under `[]ContractsLocked`: between check and
commit no two handlers hold one job (or its proposals), or one contract (with its
milestones and reviews). The code does not ensure this, as `decision_overwritten`
shows; the theorems say that this is all it lacks. Handlers of different jobs or
contracts may overlap in any way, a handler that has committed may still
have its notices to emit, and the handlers of a contract's end
need no lock on the job. A SELECT ... FOR UPDATE of the job or of the contract, held from
check to commit (for `submit_deliverable`: to the second commit), would thus be enough.
A behaviour of one request at a time satisfies the hypothesis, which is
what the two `sequential` runs check. The invariants are
`Stands` and `Found`: what the check of a handler established is still so. A step
of another handler keeps it because a commit leaves alone what is not held
(`CommitLocal`), and its own step either ends it or reads it again; a commit that
finds it so can do only what `MovesLocked` (`ContractWork`) lists.

Only model-checked:

* `EventuallySettled` and `PaidIsRecorded` are liveness under fairness, which this
  prover does not do, nor ENABLED.
  Of `PaidIsRecorded` the half that is safety is proved: `MoneyStaysAnnounced` leaves to
  fairness only that Stripe delivers what it has announced until it is answered.
  Of `EventuallySettled` it is the bound on attempts, in `ImplementsLedger`: a row can
  be left PENDING by fewer than MaxAttempts commits.

The library's induction theorems take an operator as a parameter, which no
installed prover can instantiate. Where induction on numbers is needed it is stated for
a set (`Induction` in `OutboxProofs`, `LatestDay` in `HiringTablesProofs`, from the well-foundedness of `<`): the set of
numbers with the property has 0 and is closed under successor. No module
here needs a RECURSIVE operator.

## 5. Not modelled

* `update_review` and the fields of a profile: no life cycle depends on them.
* Of accounts: refreshing a token, logout, `update_me`, the avatar, and how a
  token is verified. A token stays good as long as its user exists.
* Of analytics: performance (average hours), the milestone numbers, ratings and
  amounts. A report's queries are taken to see one state; in the code each is a
  statement of its own, and a commit between two of them can make a report
  disagree with itself for that moment.
* Amounts, texts, templates, validation of fields, wording of errors, lists and
  searches: data or reads without an effect on what is modelled.
* The commit order inside one PostgreSQL transaction and its locks: a
  transaction is one step, but for the two halves of a replacement of skills.
  SQLite, used by the tests, has no SKIP LOCKED and is not what the outbox is
  modelled on.

## 6. Plan

1. Model: a composition of `ContractWork` and `Payments` with amounts, to state
   what a payment is worth after its milestone was edited, deleted or completed;
   a composition of `Hiring` and `Outbox` through emit.
2. Prove: for such compositions, that the notices of `Hiring` are the insertions
   of `Outbox`. Of what is stated now, all that can be proved here is.
