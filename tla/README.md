# The order service of pandoc-web-compiler in TLA+

The repository is a web service that compiles documents for money: a user
uploads a directory with a Makefile, the server runs `make` in it, samples what
the run costs, kills it when the user asks or the balance is used up, charges
the account, and serves the output.  This directory holds specifications of it,
written from the source under `src/`, the TLC configurations that check them on
small instances, and theorems about them that TLAPS proves for every instance.

`PROJECT.json` lists components, runs, findings, hazards and theorems, and maps
every definition that models code to the lines it stands for.

## 1. Inventory

| component | code | state it keeps | operations | interacts by |
|---|---|---|---|---|
| Manager task | `src/src/manager.rs` | `running_handles`, `join_handles` | six messages, one at a time; ticker | bounded `mpsc` channel (100), oneshot replies, spawns workers, awaits join handles |
| Worker task | `src/src/worker.rs:47-148` | locals of `run_order_work`, `_term_send` | announce, look up, execute, record and charge, announce the end | sends to the manager, one transaction, drops the broadcast channel when it ends |
| Job execution | `src/src/worker.rs:150-300` | cost, overdraft start, cause, child | fork, sample every 50 ms, kill, waitid | process group of `make`, cancellation token, watch channel |
| Upload handler | `src/src/upload.rs:20-100` | one request | allocate, write files, submit | two manager messages |
| Order status handler | `src/src/upload.rs:102-133` | one request | read the row, then ask the manager | `QueryLiveStatus` |
| Live status socket | `src/src/upload.rs:135-225`, `src/frontend/src/order.rs:352-419` | throttle, `did_open`, `last_data` | forward, hear a stop, close; reload | watch and broadcast channel, web socket |
| Live output stream | `src/src/upload.rs:362-458`, `src/frontend/src/order.rs:441-560` | file offset, chunk id; `last_data_id`, text | read, send, notice the end, mark the end; render | file, broadcast channel, web socket |
| Orders and accounts tables | `src/migrations/`, statements everywhere | rows | see the handlers | sqlite, one statement or transaction at a time |
| Start and shutdown | `src/src/main.rs` | none | sweep at start, ctrl-c | database, manager |
| Accounts and tokens | `src/src/profile.rs:34-127`, `src/src/admin.rs:1-120` | `accounts`, `logins` | login, change password, make user, reset password | several statements per request, no transaction |
| Promocodes | `src/src/profile.rs:129-190`, `src/src/admin.rs:147-187` | `promocodes` | make, redeem | check, then a transaction |
| Proof of work | `src/src/verification/`, `src/api/src/verification.rs`, `src/frontend/src/proof_of_work_agent.rs` | `is_verified`; the agent's postfix, counters and command scope | challenge, search, stop, verify | signed challenge, messages between page and web worker |
| CPU accounting | `src/src/worker.rs:225-233, 300-354` | `cpu_times` by pid | walk `/proc`, read clocks | the process tree, which changes meanwhile |
| Upload page | `src/frontend/src/upload.rs` | list of dropped files, state of the upload task | drop, rename, delete, order | one request per upload; the navigator |
| Pricing | `src/src/pricing.rs`, `src/api/src/lib.rs` | constants | sum of costs | called by the loop |
| Order files, pages, routing, deployment, error responses | the rest | none of their own | read, display, install | |

The behaviours that are hard, and why:

* **Concurrency.**  Handlers, workers, manager, ticker and spawned tasks are
  tokio tasks which interleave at every `await`.  Two pairs wait on each other:
  the manager awaits a worker's join handle, and workers await room in the
  manager's channel.
* **Two sources of truth.**  Whether an order runs is stated by the row
  (`is_running`), by the manager's maps and by the worker's broadcast channel;
  they change at different times and readers combine them.
* **Failure.**  A statement, a directory operation or a fork fails; a task
  panics; a client goes away and its handler's future is dropped at an `await`;
  the process ends anywhere and the next start sweeps what was running.
* **Processes.**  `make` may not have its process group yet when it is killed,
  ends between two samples, or dies of a signal that `waitid` reports in a form
  the loop ignores; the clock may be set back.
  The tree below `make` is walked with a system call per file while it forks,
  exits and is adopted, and pids are given to other processes.
* **Sockets.**  `select!` takes any ready branch: an end of file, the end of
  the job, a stop request and a status can come in any order, updates are
  throttled, and the page renders the same last message many times.
* **Pages.**  The upload task reads one file per `await` from a list that the
  user may edit; the proof-of-work agent hears commands only between batches.

What makes each component correct is stated by the properties of section 4; the
`hazards` of `PROJECT.json` list where it could go wrong, line by line.

## 2. Modules

```
 OrderLedger            what the database promises of orders      (abstract)
   ^ implemented by
 OrderLifecycle         manager, channel, workers, handlers, tables, restart
   |  Execute is one step there, and
 JobExecution           fork_and_make: the child and the sampling loop
 Accounts               tokens, passwords, promocodes, verification
 LiveStream             one output stream, from the file to the page's text
 LiveStatus             one status socket, from the job to the page
 CpuAccounting          the sampler of cpu time and the processes it samples
 UploadNames            names of dropped files and their places on the disk
   ^ used by
 UploadPage             the list, the quote and the upload task of the page
   ^ extended by
 UploadFiles            the page with the handler that copies the files, and the disk
 ProofOfWork            the challenge, the page's agent, and the server's check
```

Each that TLC runs has an `MC...` module with its instance (UploadPage and
UploadNames run inside UploadFiles), and OrderLifecycle, Accounts, LiveStream,
LiveStatus, UploadFiles and ProofOfWork have a `...Proofs` module.  JobExecution
and CpuAccounting, the loop of one job and the sampler it calls, share
WorkerProofs; so the actions of the one are `JobInit`, `ForkChild`, `JobNext`
where the other has `Init`, `Fork`, `Next`.  SumLemmas holds what five of these
need to know of sums and maxima over finite sets.  An operator
under a comment "Mutant of X" is a wrong variant of the operator X that follows;
no action uses it, and it shows that some property would notice the bug.

**OrderLifecycle** (`manager.rs`, `worker.rs`, `upload.rs`, `main.rs`).
Variables are the tables and directories, which survive the process, and the
process: channel, manager's maps, where each handler and worker is.  A worker's
`pc` names the `await` it is suspended at.  The prune's loop over finished jobs
is one id per step, because it awaits a statement for each, and holds the
manager meanwhile (`to_take`); the ids are picked in any order, since a
`HashMap` iterates in any order.  `leaving` and `ended` separate the drop of the
worker's locals (which closes the broadcast channel) from the moment its join
handle is finished.  `Exit` ends the process wherever everybody is; `Boot` is
the sweep and the fresh start.  A `Fault` is a failing statement, directory
operation or fork; each place where one is handled has its own action
(`FailAllocateOrder`, `FailDeallocate`, `FailUploadFiles`, `FailReapDead`,
`FailWorker`).

**OrderLedger** is the promise: a row appears as running, is settled at most
once, and when its record states a cost the owner has paid it in that very step.
`ImplementsLedger` is the refinement, with the phase of an order read off its
row and the price off its record.

**JobExecution** (`fork_and_make`).  The child is `starting` until its `setsid`,
then `running`, `zombie`, `reaped`.  A round of the loop is `Sample` (cost,
overdraft, stop request, kill) and `WaitChild` (the non-blocking `waitid`).  Time is
a counter; rounds may be up to `MaxLag` apart.  Cost is wall time at a rate plus
a number that only grows, which stands for cpu time and process counts.

**Accounts** (`profile.rs`, `admin.rs`, `proof_of_work.rs`).  A session is one
request, suspended at each of its statements, and may be abandoned at any of
them.  Tokens are numbered as they are drawn, so that "newer" can be said.

**LiveStream** (`handle_live_order_stream`, `OrderStreamLogs`).  The content of
the file is abstracted to positions, a chunk to the interval it carries.  The
`pending` read of the blocking thread is a step of its own, so an end of file
can be older than the termination that is noticed before it.

**LiveStatus** (`handle_live_order_status`, `close_immediately`, `OrderInner`,
`OrderInnerLive`).  A status is the version of the watch channel.  A job's end
is visible through three channels: the dropped broadcast sender, `FinishWork`
and the prune; the page that was closed asks again and meets any of them.

**CpuAccounting** (`collect_cpu_time` and the loop around it).  A step of the
sampler is one system call: `OpenTasks` is `read_dir`, `ListTasks` the
`next_entry` after it, `OpenChildren` and `ReadChildren` the two halves of
`read_to_string` of `children`, `VisitChild` the recursive call, `LeaveProcess`
the last `next_entry`, `ReadClock` the two calls for one pid.  Either
`next_entry` may find the process gone, which ends the round (`FailRound`).  The
kernel walks the children one by one while the file is read, and proc(5)
promises the list only if none of them exits meanwhile: after such an exit
`ReadChildren` lists any of those that were there or came.  The recursion is the
variable `stack`.  Between any two of them processes fork, run, exit, are
adopted by init and are reaped.  Each process has a number (`born`) besides its
pid, so that the model can tell a reused pid from the one that was sampled; the
code cannot.  `steady` is a history variable: the processes that have been
reachable from make, over living parents and lists of children that were read in
peace, ever since the round began, with the time each had used then.  The set is defined as the smallest closed one, which
lets the proof use it without recursion.

**UploadNames** holds the pure part of an upload: the common prefix, compared by
bytes and cut at characters, with its reference definition
(`LongestSharedText`), and what `scoped_join` makes of a name (`Place`).
**UploadPage** is the page: edits of the list, the conditions of the order
button, and the task that reads the files one `await` at a time, posts them and
hears the answer, or not.  An edit while the files are read panics in the list's
`RefCell` and changes nothing.  **UploadFiles** adds the handler that copies the
parts of each request and the disk: `write_all` on a tokio file returns when the
data is with the blocking pool, so a write is a step of its own, applied at any
later time.  Contents are sequences of the file each unit comes from, which
shows a short file written over a longer one.

**ProofOfWork** has the agent's three places (idle, between two batches, in a
batch), the scope its commands wait in, `increment_byte_slice` and
`check_hash_difficulty` with byte width and lengths as constants, and the server
with its two salts.  The hash is a constant function.

## 3. Runs and bounds

| run | instance | states | shows |
|---|---|---|---|
| Lifecycle | 2 orders of one user, cost 2, channel of 2, status requests for one order, 2 faults, 1 restart | 96 914 | safety of the whole service, the refinement, and that nobody waits for ever |
| Job | balance 2, rate 1, allowance 3, lag up to 2, clock may step back | 15 490 | record, charge, kill and termination of one job |
| Accounts | 3 requests of any kind, 2 accounts, 2 handles, 2 passwords, 1 code | 181 923 | money, logins and tokens |
| Stream | buffer 2, window 2, up to 4 positions | 28 777 | the output arrives whole, once, in order, and ends |
| Status | window 2, up to 3 samples | 15 190 | stop requests arrive, results are seen, reloads find records |
| Upload | 3 edits, 2 requests, 3 files (one of two units), 3 folders, 2 typed names | 228 401 | an order has the files, and costs the quote, that its user saw |
| Pow | bytes of 2 bits, postfixes and hashes of 2 bytes, batches of 3, 3 commands, 3 challenges | 10 345 | what the agent reports is true, and searches end |
| Cpu | 3 pids, 4 forks, 1 unit of cpu time, strangers that have used 2 | 522 850 | no process is charged twice or lost while the tree changes |
| AccountsRedeemTwice, StreamOpenFails, JobKillCause, PowNeverVerifies | those of Accounts (2 requests), Stream, Job and Pow | | the findings of section 7 |

Why the bounds are enough for the cases of interest:

* Two orders of one user are what it takes for two workers to compete for one
  balance, two ids to be in one prune, and the channel to be filled by another
  order's message.  The channel of two is full whenever both workers, a handler
  and a prune have something to send, and lets messages of one order overtake
  the prune.  One cost above the balance is enough to make it negative; a charge
  that is left out, doubled or that of a failure (none) differs from it.
* Two faults allow a failure and the failure of its compensation; one restart
  meets every combination of manager, worker and handler states.
* Queued and spawned prunes are bounded by one each.  A further prune in the
  channel finds nothing that the first one leaves unless something happens
  between them, and then the first has left the channel.
* Overdraft and expiry happen at 3 and 7 seconds at the earliest, and `MaxTime`
  is 12, beyond the last second at which a lagging loop kills and reaps.
* Three requests cover the pairs that race (two redemptions, a reset and a
  login, two rotations) with a third between them.
* A window of two makes sends wait; four positions at a buffer of two give full
  chunks, a partial one and an empty read; three samples give the throttle a
  status to drop, and another after it.
* Three edits fill a list with a folder, change it while the first request is
  on its way and again before the second; the three folders have a Makefile,
  names that differ inside a character, and names whose rests denote one place.
  The file of two units, written before or after one of one unit in the same
  place, is the case a missing truncation shows in.
* Sixteen postfixes of two bytes carry, wrap around, and are not a multiple of
  the batch of three, so batches begin everywhere.  One challenge is solved by
  the last postfix only and one by none.  Three commands are a search, another
  challenge that is swallowed, and a stop.
* Four forks over the two pids below make give a chain, a fan, an orphan, a list
  of children that one of them leaves while it is read, and pids that are used
  twice in one job, by the job or by a stranger.  One unit of cpu time is the
  difference between a time that was counted and one that was not.

`CHECK_DEADLOCK FALSE` is set where the system may really stop: a job that
has returned, requests that are all answered, a socket that is closed.
The lifecycle run checks for deadlock.

## 4. What is checked

Orders (Lifecycle): a row has a record exactly when it is not
running (`StatusNullIffRunning`); balances and records always add up
(`LedgerBalanced`); against a single fault, an order in work is always one that
some prune will see (`EveryJobSupervised`); compensation never takes the row or
the directory of an order in use (`WorkerHasRow`, `RowHasDirectory`); what
a status request makes of the row it read and of the manager's later answer is
true when the manager answers, and fails only if the worker was not announced,
has failed, or recorded after the row was read (`AnswerIsTrue`); no prune,
late commit or sweep changes a record (`RecordIsFinal`); the service implements
OrderLedger (`ImplementsLedger`); every order whose id a client was given is
settled (`AnsweredOrderSettles`), unless the failure of its UPDATE left it
without a worker, or a second fault lost it: those two stay in state running
until the next start, which nothing in the repository excludes.

One job (Job): when the call returns, the child is reaped, the code is make's own
exactly when make exited, a kill is never reported as a natural end, and a kill
is reported only if the user had asked or the allowance was over
(`RecordIsTrue`).  That the kill is also what ended the child is false: see
`UserKillKilled` in section 7.  A kill for money comes only after the whole allowance
(`GraceIsGranted`); every call returns (`AlwaysReturns`), which is the fairness
OrderLifecycle assumes of `Execute` (a panic of the loop is a return there, the
failure of a worker), and needs that a kill which came before the
process group existed is repeated.

Accounts: `BalanceIsRedemptions`, `ClaimsAreCredited`,
`UsableUnlessMakerFailed`, `NewestTokenIsValid`, `ChangedTokenIsDead`.

Stream: `DoneShowsAll`, `OutputInOrder`, `StreamEnds`.

Status: `ReloadFindsRecord`, `StopIsHeard`, `EndIsSeen`.

CPU time (Cpu): an order is never charged more than its processes have used,
whoever gets their pids (`NeverOvercharged`); what was counted of a process stays
counted when it dies (`CountedStaysCounted`); a round that meets no error counts
every process that was reachable throughout (`RoundFindsTheSteady`), excepted
those below a process one of whose children exited while its list was read.

Uploads (Upload): the files on the disk are those the user saw when pressing the
button, for every order of edits, retries and late writes (`FilesAreTheParts`);
the price is the one that was shown (`QuoteIsCharged`); a dropped folder's names
are its paths without the longest text they share, and no character is cut
(`DropKeepsCharacters`).

Proof of work (Pow): solutions and progress are true of the challenge, read as
numbers (`ReportsAreTrue`); a search for a solvable challenge ends, which needs
that the increments come by every postfix (`SearchEnds`); a stop ends a search
also from behind other commands (`StopEnds`).

Each module has one type invariant, `TypeOK` (`JobTypeOK` in JobExecution), which
the proofs need.  Every
property has a mutant in `PROJECT.json` that violates it.

## 5. Fairness

* *Manager, workers, handlers* (weak fairness of their steps): tokio polls every
  task that was woken, and the futures here do not block a thread for good.
* *Sends on the manager's channel* (strong): `mpsc` hands out permits in FIFO
  order, so a sender that finds the channel full again and again is still served.
* *Branches of `select!`*: the macro polls its branches in random order, so one
  that stays ready is taken (weak); `CloseSocket` is strong since the window to
  the page may be full of statuses in between.  `status.changed()` of a dropped
  channel is ready at once and for ever, which is the competition `EndIsSeen`
  has to survive.
* *Restart*: the Deployment of `deploy.yaml` starts the process again whenever it
  ended.  (The systemd unit of `ansible/` has no `Restart=`: there an order that
  was running stays so until somebody starts the service.)  After ctrl-c the
  process does exit, at the latest by the kill that follows the grace period.
* *Job*: the kernel runs the child to its `setsid`, time passes, the loop's task
  is polled.  Nothing obliges make to exit: `AlwaysReturns` follows from running
  out of money.
* *The proof-of-work agent*: its steps are weakly fair, since the worker's event
  loop runs what is ready; `HearCommand` is strongly fair, because `select!`
  polls the scope before the sleep in about half of the rounds, and the branch
  is disabled during each batch.
* CpuAccounting and UploadFiles state no fairness: their properties are safety.
* *The ticker* (strong fairness of `PruneTick`): the task sleeps, waits for its
  permit like any sender, and sleeps again, as long as the manager lives.
* Nothing is assumed of clients, faults, crashes or signals.

## 6. What is proved

All proofs are by an inductive invariant, mostly called `IndInv`, a conjunction
of `TypeOK` and the named parts that the properties need; a lemma per part shows
that each action keeps it.  They assume only the `ASSUME`s at the head of each module, so
they hold for any number of orders, requests, samples, files, and for any bounds:

* sizes are positive, names are distinct;
* `Orders`, `Sessions` and `Pids` are finite: a database, the requests of a
  server's life and a kernel's pid space are, and a sum needs it;
* the paths of a folder are texts in a prefix code (`PathsAssumption` of
  UploadPage): two strings that began with the same bytes are both at the end of
  a character or both within one.  UTF-8 has this by its design, and Rust's
  `String` is UTF-8 by its type;
* no challenge is one of the values `None` and `Stop` of ProofOfWork, which in
  the code are other variants of an enum (`ChallengesAssumption`).

* **OrderLifecycleProofs**: `TypeCorrect`, `StatusMatchesRunning`,
  `WorkerRowExists`, `DirectoryExists`, `RecordsAreFinal`,
  `LifecycleImplementsLedger`, `RepliesAreTrue`, `JobsAreSupervised`,
  `LedgerAlwaysBalanced`.  The invariant adds that each order has at most
  one `AllocateOrder` and one `UploadFiles` in the channel, which phase of the
  upload each belongs to, and that the order of a failed worker the manager can
  still reap counts as running.  That last part is why no prune overwrites a
  record; without it `ReapDead` is not known to meet a running row.  The
  refinement maps each step to `Open`, `Settle`, `WriteOff` or a stutter.
  `RepliesAreTrue` and `JobsAreSupervised` have an invariant of their own,
  `ServiceInv`: a worker that is past its announcement and not over has its
  handle with the manager, or the message that brings it in the channel
  (`AnnouncedInv`); a request that has read a record does not overtake the
  announcement of that job in the channel (`AskedInv`); and what must have
  failed for a running order to lack a join handle.  Only the manager's step answers a waiting request
  (`OnlyManagerTells`), so that the theorem is about that one action.
  `LedgerAlwaysBalanced` is inductive together with `IndInv`: a settlement changes
  one charge, from nothing, and one balance by as much; every other step leaves
  both alone, because a record has no cost before it and none is changed after.
* **AccountsProofs**: `TypeCorrect`, `ClaimsCredited`, `AnsweredUsersUsable`,
  `NewestTokenValid`, `ChangedTokensDead`, `BalancesAreRedemptions`.  The invariant says that tokens of
  rows are distinct and not newer than the last one drawn, and what a handler at
  each statement knows about its account.
* **LiveStreamProofs**: `TypeCorrect`, `StreamIsComplete`, `DoneShowsEverything`,
  `OutputStaysInOrder`.  The invariant says that the chunks on the wire join
  gaplessly, from the page's text to the handler's offset, with their ids in
  order.
* **LiveStatusProofs**: `TypeCorrect`, `ReloadsFindRecords`.  The invariant says
  that whatever can close a page's socket implies that the manager will never
  again report the job as running, and that then the record is committed or the
  worker failed.
* **WorkerProofs**, of JobExecution: `JobTypeCorrect`, `RecordsAreTrue`,
  `GraceAlwaysGranted`, `ChargeAlwaysCovered`.  `LoopInv` ties the child's state
  to how it died and to what the loop decided.
* **WorkerProofs**, of CpuAccounting: `TypeCorrect`, `CountedStays`,
  `SteadyAreFound`, `NeverOverchargedEver`.  `CountedInv` says, for each pid, that its sample is of the process that has the
  pid now, or of an earlier one.  `RoundInv` is the argument of a graph search on
  a graph that changes: whatever set holds make and the steady children of its
  members holds all steady processes, and a steady child of a process that was
  found is found or still ahead of the walk; when the walk ends, the set of found
  pids is such a set.  A list that was read while a child exited cuts its process
  off: no child of it is steady from then on, and the smaller set is again one
  with these two properties (`SteadyShrinks`, `RoundListed`).  `NeverOvercharged` is not inductive: a process that is
  sampled late must not have been paid for already under its pid's former owner.
  `ChargeInv` adds to each pid's sample what its living process has used since
  (`Owed`), and says that this larger sum is at most `used`; and that the walk
  holds no living process of anybody else (`JobInv`), since a pid that is taken
  by a stranger in the middle of a walk would be charged to the order.
* **UploadFilesProofs**: `UploadTypes`, `QuoteIsAlwaysCharged`,
  `FilesAreAlwaysTheParts`, `NamesKeepCharacters`.  `UploadInv` says that while
  the files are read the list is that of the press and the form a beginning of
  it, and that a handler's size is the sum of the parts it has copied.  `DiskInv`
  says that the places on the disk are those of the copied parts, that whatever
  is written or pending there is of a part with that place, and that where these
  are one file it is written whole or still pending; so late writes in any order
  end in the same files.  The last theorem rests on `PrefixIsShared`: cutting
  path after path at a character gives the longest text they all share.
* **ProofOfWorkProofs**: `DifficultyCountsZeroBits`, `IncrementAddsOne`,
  `PostfixesAreNumbers`, `PowTypes`, `ReportsAreAlwaysTrue`.  The first three are
  about the pure functions, for bytes of any width and slices of any length:
  counting zeros byte by byte up to the first byte that has a one is to count the
  leading zero bits of the whole number; the increment with its carry adds one to
  that number, modulo the number of postfixes; and each postfix has a number of
  its own.  `PowInv` then says that during a search the counter of attempts is the
  number of the postfix last tried (both wrap at the same time), so that the
  attempts it counts are those of the postfixes with the numbers up to it; that
  these all failed the challenge of this search; and that the best difficulty was
  reached by a postfix and is exceeded by none of them.  The same holds of the
  message that was sent last, whatever the agent does meanwhile.

Sums and folds are the library's, defined by recursive functions, and so are
the powers of two and the number of a slice in ProofOfWork.  Their equations are
proved in SumLemmas and at the heads of UploadFilesProofs and ProofOfWorkProofs:
a function that satisfies them exists (`PartialUnfolds`, `FoldExists`,
`PowerToIs`), so the one the definition chooses does.  The inductions name a set
of numbers and its least missing element (`InductionOnSets`), since the library's
induction theorems take an operator, which the provers cannot instantiate.

Five theorems have no property of a run: the three about the functions of
ProofOfWork, and `ChargeAlwaysCovered` and `StreamIsComplete` (a stream is closed
only after all output was sent), which follow from invariants of others.

Only model-checked is liveness (`AnsweredOrderSettles`, `AlwaysReturns`,
`StreamEnds`, `StopIsHeard`, `EndIsSeen`, `SearchEnds`, `StopEnds`), because
liveness under fairness needs `ENABLED`, which this prover does not reason
about.  Every invariant and every action property that a passing run checks is
the subject of a theorem.  The four properties of section 7 are false of the
code, and there is nothing of them to prove.

## 7. Findings

Runs expected to be violated, each with the line it contradicts in
`PROJECT.json`:

* `AccountsRedeemTwice`: two redemptions of one promocode pass the check before
  either commits, and both are credited (`profile.rs:152`).
* `StreamOpenFails`: a stream opened between `BeginWork` and the child's creation
  of its file panics its handler (`upload.rs:405`).
* `JobKillCause`: a stop that is noticed after make exited by itself is recorded
  as `UserKill`, "Killed because of user request" (`worker.rs:257`,
  `api/src/lib.rs:143`).
* `PowNeverVerifies`: a challenge is signed with a salt and unsigned without it,
  so that every solution is refused (`proof_of_work.rs:49`).

Observed while modelling, without a run:

* `QueryLiveStatus` answers `None`, "not running anymore" (`manager.rs:40`), also
  for an order whose worker has not announced itself yet.
* A row read before the worker's commit, and a manager asked after it, yield an
  error for an order that is complete (`upload.rs:125`).
* A login between the SELECT of `reset_password`, which reads the token, and that
  of `change_password`, which looks for it, leads the former into
  `unreachable!()` (`admin.rs:117`).
* The prefix of a dropped folder is cut at a character and not at a slash:
  when all paths share the first letters of "Makefile", it is listed without
  them, and the order button stays disabled (`frontend/upload.rs:168`).
* A rename does not look for the new name in the list, so two files can have
  one name although a drop keeps names different (`frontend/upload.rs:169`).
  Both are sent and paid for, and the disk has parts of both.
* "Files copied to work directory!" (`upload.rs:86`) is logged, and the worker
  started, while writes may still be on their way, and their errors are lost.
* An answer that arrives when the list may not be ordered takes the page to the
  order only once a later list may be.
* An error of `next_entry` (`worker.rs:315`) ends the whole round, where the
  comment of `:313` ignores a process that died; the samples of that round are
  taken by the next one, if the processes still live.
* A round misses living processes when a child of their parent exits while the
  parent's `children` is read (`worker.rs:317`; proc(5) says so of that file).
  Their time is counted by a later round, if they still live.
* Processes that live between two rounds, and orphans, whose parent is init, are
  not charged.
* A challenge that reaches the agent during a search is swallowed without an
  answer.
* A `BeginWork` handled after the prune that reaped its failed worker leaves a
  handle that nothing removes.  It is never reported as live.
* `Running.balance_at_start` (`src/api/src/lib.rs:59`) is the balance now, not at
  the start of the order.
* The branch of `run_order_work` that charges `error_order_cost` is not reached:
  `fork_and_make` returns `ProcessExit` or an error.
* The overdraft is judged against the balance at the start, so orders that run
  at the same time may each spend it.
* `verify_challenge` would answer success also when its UPDATE meets no row,
  because the token was rotated (`proof_of_work.rs:98`).  The statement is not
  reached as long as every challenge is refused before (`PowNeverVerifies`);
  Accounts has it for the day it is.
* An order whose UPDATE in `UploadFiles` failed has no worker (`manager.rs:145`),
  and one whose upload was abandoned after the allocation has no client
  (`upload.rs:57`): both stay in state running until the next start.
* A loop whose clock was set back panics (`worker.rs:236`) and leaves its child
  to itself, running and uncharged.
* A job's failure and the failure to record it leave the order running in the
  table until the next start; this is why `EveryJobSupervised` counts faults.

## 8. Not modelled

* Contents of files and messages, formatting, layout, routing, error responses,
  build and installation: no state that a property here depends on.
* `get_order_file_list`, `fetch_file`, `get_user`, `fetch_promocodes`: reads.
* Floating point: money is counted in whole units.
* Collisions of random ids and tokens, and failures of `expect` in the forked
  child other than the missing directory.
* Reopened sockets: the page's hook reconnects by itself; the pages here stay on
  one socket.  A read error of a stream's file is left out as well.
* How the kernel finds the children it lists: after an exit during the read the
  list is taken to be any, also where the kernel would still have it complete,
  as when the child that exited was the last one listed.
* Failing writes of uploaded files, and a make that starts before they are
  applied.
* Processes of several threads, and a pid that is given away while the sampler
  holds it: the kernel hands out pids in turn.
* Files over 2 MB, which tokio writes in several pieces, and the loading of
  prices and balance on the upload page, which are constants here.
* The forms of the profile and promocode pages: one request each, no state
  beyond it.
* sha256 and the signature scheme: constants of ProofOfWork.

## 9. Plan

Done, in this order: OrderLedger and OrderLifecycle (the core), JobExecution,
Accounts, LiveStream, LiveStatus, and their proofs; then UploadNames, UploadPage
and UploadFiles, ProofOfWork, CpuAccounting and its proofs; then SumLemmas, the
ledger's, the balances' and the charge's sums, the proofs of UploadFiles, and
those of ProofOfWork, for which its powers of two became a recursive function.

Left, the most important first:

1. *Composition of several executions with one balance*: JobExecution per order
   under one account, with the real decrement, to state what an overdraft can
   cost at most.
2. *Reconnecting sockets*: chunk ids that start again, a status page that sees
   the same job twice.
