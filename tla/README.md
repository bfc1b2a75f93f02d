# A verification project for ArchiveBot

ArchiveBot crawls websites on request from IRC. This directory holds TLA+
models of its parts, TLC configurations that check them on small instances, and
theorems about them that TLAPS proves for all values of the constants.
`PROJECT.json` lists the components, the runs, the mutants that show each
property can fail, the map from definitions to source lines, the findings, the
hazards and the theorems.

## 1. The system

All parts talk through one Redis server (and two CouchDB databases); nothing
calls another part directly. Redis runs one command, MULTI block or Lua script
at a time, so these are the atomic steps of every model.

| part | source | state | operations |
|---|---|---|---|
| bot | `bot/brain.rb`, `lib/job.rb` | none between messages; one thread per IRC message | `!archive`, `!archiveonly`, `!abort`, `!expire`, `!delay`, `!concurrency`, `!ignore`, ... |
| Redis records | `lib/job.rb`, `doc/redis.rst` | hash IDENT, sorted set IDENT_log, set IDENT_ignores, lists `pending*`, `working`, `finish_notifications`, counters | |
| pipeline process | `pipeline/pipeline.py`, `pipeline/archivebot/seesaw/`, `control.py` | item slots, each running the task chain; heartbeat callbacks | reserve, heartbeat, relabel, move files, mark done |
| wpull process | `pipeline/archive_bot_plugin.py`, `pipeline/archivebot/wpull/`, `control.py` | `Settings` (cached job parameters), listener thread, log shipping thread and its queue, outstanding counters | fetch URLs, ignore URLs, log, abort |
| plumbing | `plumbing/` | per process: the jobs it saw; `last_analyzed_entry`, `last_trimmed_entry` in Redis | firehose, analyzer, trimmer, recorder |
| dashboard | `dashboard/`, `bot/summary.rb` | one bounded queue per websocket | amplify log messages |
| cogs and notifiers | `cogs/`, `bot/finish_notifier.rb`, `bot/pipeline_notifier.rb` | reaper's death timers, tweet queue | warn about dead jobs, tweet, tell requesters, copy finished jobs to CouchDB |
| uploader | `uploader/uploader.py` | a directory of finished files | rename to `_uploading`, send, delete or rename back |
| viewers | `viewer2/src/`, before it `viewer/archivebotviewer/` | SQLite database, last update time | take over items, files, jobs and URLs from the Internet Archive |

What is hard here: handlers, pipelines, operator and timers interleave between
Redis commands (check then act on the job's key; several commands per
operation); pipelines crash and tasks fail half-way; replies get lost and
commands are retried; logs, settings and tweets pass through polling loops that
keep cursors and cached values; queues are bounded and drop their oldest
entries; some writers recreate keys that were deleted. `PROJECT.json`
"hazards" lists these at their lines, with the properties that cover them.

### What makes each part correct

- *Jobs.* An ident is in one queue or once in `working`; one pipeline crawls it;
  its record stays while it is active; each registration ends once; a served
  queue is emptied; an ended URL becomes free.
- *Log plumbing.* No entry leaves Redis before both readers had it, or
  unprinted; nobody counts or sends twice without a restart; a tool that waits
  has missed nothing.
- *Settings.* A copy of age *n* has all that was changed before age *n*; the
  copy never goes back; changes and aborts arrive although messages get lost.
- *Viewer.* Counters, search index and tables agree with the files whenever a
  round is cut off; no item is skipped; each round ends and each URL arrives.
- *Log shipping.* Counts are neither lost nor doubled until a batch fails; the
  log stays in order; overflow costs the oldest entries; a queue does not stand.
- *URL ignoring.* The verdict on a URL is that of one list which was in force
  during the call, whatever the listener installs meanwhile.
- *Finished files.* No output is deleted before it was moved and none leaves the
  disk unsent; no two uploaders send one file; each file is sent in the end.
- *Old viewer.* A web request that ends the shared transaction takes nothing from
  the population round; counters and sums agree with the files.
- *Dashboard feed.* A client's stream is in order and reaches the newest line;
  a slow client costs the others nothing.
- *Tweeter.* A message is tweeted once, whatever comes in while the loop sleeps.
- *Reaper.* A warning means so many silent checks in a row; the reaper brings no
  deleted key back.
- *Notifiers* (not modelled): each end is told once, each pipeline's coming and
  going in turn.
- *reverse-pending.* A job that moves while the queue is turned is in it once.

## 2. Modules

| module | models | extends / instances |
|---|---|---|
| `JobLifecycle` | handlers, queues, pipelines, operator, timers of all jobs | instances `JobBoard` |
| `JobBoard` | the promise: unknown, accepted, waiting, taken, ended | |
| `JobLifecycleProofs` | types and ticket invariant under every fault; the inductive invariant of a careful system, what follows, the refinement, the accounts | `JobLifecycle` |
| `LogPlumbing`, `LogPlumbingProofs` | the log of one job and the four tools | |
| `SettingsFeed`, `SettingsFeedProofs` | one job's settings from bot to crawl | |
| `ViewerCatalog`, `ViewerCatalogProofs` | the rounds of viewer2's population | |
| `LogShipping`, `LogShippingProofs` | queue, counters and log thread of a wpull process, and its one connection | |
| `CrawlRules` | ignore patterns and delays, between listener and main thread | |
| `FinishedFiles`, `FinishedFilesProofs` | a job's files from the task chain to the upload target | |
| `OldViewer`, `OldViewerProofs` | the rounds of the first viewer and the web requests between | |
| `DashboardFeed` | the loop of websocket.py, its clients and their queues | |
| `Tweets`, `HeartbeatWatch` | the two cogs that keep state: tweeter, reaper | |
| `PendingReversal` | plumbing/reverse-pending beside those who use the queue | |
| `Parts`, `PartsProofs` | the last five side by side: they share no state | `CrawlRules`, instances the four above |
| `MC*` | instances for TLC | the module they are named after |

A step is what no other process can interleave with: one Redis command, one
MULTI block or Lua script, one SQLite transaction, one use of an object under
its lock.

### JobLifecycle

`hash[i]` is the set of fields of key IDENT that decide anything, `ttl[i]` its
timer, `pending` all pending lists (an entry's ticket is its age), `working`
how often the list has an ident, `tally` and `notified` the counters and
notifications of MARK_DONE and Job#fail. `handler[h]` is an IRC handler between
two Redis commands, `worker[w]` one item slot in the task chain of `pipeline.py`,
`beat[w]` the heartbeat callbacks, `reaper` the operator's console. Actions are
named for the code; the map gives the lines. Choices made:

- Job#register's commands are pipelined and are one step (Register); HMSET and
  HGETALL of a reservation are one step (CompleteReservation); of Job#fail,
  HSET with INCR and the three EXPIREs are one step each, the LREMs their own.
- MarkAborted reads the hash; SettingsFeed shows how the crawl comes to know.
- A pipeline's named queues are those whose suffix occurs in its nick, from a
  scan of `pending:*`; the order of the others is `candidate_queues`.
- `Faults` names what may go wrong. "overlap" lets two handlers work on one
  ident; without it a handler begins only when no other one holds the ident.
  "reap_any" lets the operator reap a job that is not dead; no run uses it, the
  theorems of `JobLifecycleProofs` include it. By mistake reaped jobs that wait
  on `pending-ao`, `pending-large` or `pending:NICK` stay there.
- A Worker that crashed is "idle" again: the restarted pipeline knows nothing of
  its former items.

`BoardSpec` maps a job's place to a `JobBoard` status: without a URL "unknown",
with an outcome "ended", in `working` "taken", on a queue "waiting", else
"accepted".

### LogPlumbing

One job, whose log entries are named by their scores. `lines[t]` are idents
that tool *t*'s updates-listener printed and *t* has not read. Ship is
LOGGER_SCRIPT, MarkDone is MARK_DONE_SCRIPT, JobExpires and LogExpires the two
timers. Each tool's local state keeps the marks it read. Broadcasting is one
step per entry, the HINCRBYs of the analyzer one step (they are pipelined).
trim-logs writes the mark "+inf" and reads it back with `to_f`, which gives 0.0,
and is modelled so. Entries that do not parse, set-watermarks, and two identical messages in
one sorted set are left out. Logging after MARK_DONE, and into a key that has
gone, is included. `doc/redis.rst:112` gives the order analyzed <= broadcasted <= trimmed; trim-logs
trims up to the lesser of the two cursors, so trimmed is the least of the three
(MarksOrdered), and nothing orders the other two.

### SettingsFeed

A setting is the number of its writes, which is all the properties tell apart.
Handlers run the commands of Job#set_*, #toggle_ignores, #abort, #yahoo one
Redis command at a time; the announcement carries the age the handler got. The
listener reads the hash (ReadHash), then the ignore patterns and installs the
copy under the lock (Install). Checks of `running` are folded into the read of
a message, 5 s sleeps and reconnects into the step that follows. ListenerDies is
the AttributeError of `conn` when another thread sets the shared `redis` to
None. `except ConnectionError` in the plugin names Python's builtin class, so a
Redis error passes it and ends the process (MarkAbortFails). Ignored results
change nothing and stutter. The job's record is present; CrawlIsCurrent of
JobLifecycle is the reason.

### ViewerCatalog

`added` and `there` are the Internet Archive, `known`, `files`, `job`, `count`,
`url`, `searched`, `index`, `stats` the tables, `pc`, `todo`, `after`,
`processed` the loop. A step is a transaction and the request before it. Ids
are numbers because the cursors compare them. Dates are days; a file counts as
one byte; abort and size counters move as the kinds do. The full-text index
keeps no content of its own, so it is the set of texts inserted under an id:
to delete the wrong text leaves a wrong entry. The check for 4 hours since the
last update only delays a round and stutters. SumDays takes the whole table in
one step: it recomputes every date and reads only what this process writes.

### LogShipping

Entries are numbered as they are logged; the three counters fare alike and are
one. `ship` is the thread of `ship_logs`, with the program counter at the places
where it touches what the threads share, and the stack of its Redis pipeline. A
`with conn` is a check of `redis` and, if it is None, an assignment and then
register_scripts, which finds None again when another thread disconnected in
between; that AttributeError is caught nowhere and ends the thread ("dead").
Logging and counting in the main thread are LogShipping's inputs; the listener's
use of the connection is get_settings, here only a call that may fail. What
redis-py 2.10 does (pinned in `pipeline/requirements.txt`) is external: a new
Script loads itself at its first use in a pipeline, `execute` sends the batch
once more after a connection error and empties the pipeline whatever happens.
Without a transaction Redis may have done any first part of a batch. `Scored`
is LOGGER_SCRIPT: HINCRBY of log_score, and ZADD, which moves an entry that is
there to its new score; an entry with score 0 is not there. Exit is the end of the process,
which does not wait for the thread; `ending` is never set in it.

### CrawlRules

One step is one access to what listener and main thread share: the dict of
settings (its two delays here), `patterns`, `_primary`, `_compiled` and the two
locks; the rounds of the loop that compiles are steps. A regular expression is
the pattern that it came from and the primary URL put in, and `Matching` says
what it matches. An invalid pattern gets the expression of the one before it, or
raises when there is none; a hook that raised leaves `_compiled` cut short.
`during` remembers the lists that were in force while the present call ran.

### FinishedFiles

A file is its job, run, kind and label; `says` is the `aborted` in a JSON file.
`scratch` is the item's directory, `data` the data directory, `finished` and
`uploading` FINISHED_WARCS_DIR and its `_uploading`, `stored` the target. The
WARCs of a run that are written last are one file; "early" is one that wpull
handed over during the crawl. Names contain the time at which the run was
prepared, so runs do not share names; data directory and FINISHED_WARCS_DIR are
taken to be on one file system, where a move is one rename. A failing task or a
crash ends the chain where it is. `env` are the variables an uploader is started
with; the checks of `Params` are in Mode and Starts.

### OldViewer

`disk` is the database as committed, `view` as the one connection of the thread
sees it; a session's commit copies `view` to `disk`, a rollback copies it back.
The coroutine gives up the thread only at its `yield`s (Yielding), and there a
web request may commit or roll back. A query's rows are fetched when it is made
(`todo`). File sizes are one byte. `.fetch` is recent or old, which is all that
`populate` asks; `_population_in_progress` is set and reset by the code. The
archive's search gives the items that were there when the first page was asked
for, and perhaps later ones.

### DashboardFeed

Tasks of an asyncio loop give way only where they wait: `running` is the task
that has not, `woken` are clients whose queue got its first message. readline()
waits only when its buffer holds no whole line; then those that were woken run
before the next bytes of stdin do. `net` is a transport that is open, full (the
protocol waits in `drain`) or closed. `first`, `behind` and the lines written are
history: a client is behind when its transport was ever full or a burst was
longer than the queue.

### Tweets

A task of the actor runs up to its next `sleep` or to the call that Twitter
answers; there the timer, the mailbox and the removal of old messages get in.
An error that hides an accepted tweet, and a crash between the tweet and
`tweets:done`, mark the job in `spoilt`; `removed` counts those that got too old.

### HeartbeatWatch

`key` is what of the record matters here; a key that the reaper writes after it
was deleted is a stub without a timer. `calm` counts checks in a row without
news, `recreated` are keys that went between the reaper's read and its write.
Heartbeats and the end of jobs are inputs, modelled in JobLifecycle.

### PendingReversal

A tool's `dirty` is what Redis keeps for WATCH. `moved` is history: jobs
that were pushed, taken or removed between LRANGE and WATCH; `slipped` are the
jobs of a MULTI that went through all the same. Another run's MULTI in between
moves no job that has not slipped, and what was read still has them all.

## 3. Runs

| run | instance | shows |
|---|---|---|
| `lifecycle_careful` | 2 URLs, 2 handlers, 2 pipelines (one AO_ONLY, one large with a named queue), 2 requests, 1 fault, 1 command, 1 reaping; symmetric in the URLs | mutual exclusion, accounting, no early deletion; the invariant of the proofs; refinement of `JobBoard` |
| `lifecycle_live` | 2 URLs, fair, 1 lost reply of MARK_DONE | queued jobs end, ended records go |
| `overlap_expires_active` | two handlers on one ident | finding: `!expire` deletes an active job |
| `plumbing` | 2 entries, threshold 1, firehose, analyzer, trimmer, 1 restart | nothing removed unseen or unprinted, no entry missed |
| `plumbing_live` | firehose and recorder, fair | entries arrive; recorded jobs have a document |
| `settings` | 2 handlers, 2 commands of 4 kinds, 1 fault | ages cover changes; no way back |
| `settings_live` | 1 handler, fair, 1 fault | changes and aborts arrive |
| `catalog` | 2 items, 4 files, 2 jobs, batches of 2, 1 JSON file a round, 3 days, 1 fault, fair | all of section 1 for the viewer |
| `shipping` | 3 entries, queue of 2, batches of 2, 1 count, 2 faults, fair | counts, order, overflow, no entry stands |
| `files` | 1 job with a URL list, 2 uploaders, 1 failure or stop, two environments, fair | no file deleted early, sent twice at once, or left |
| `oldviewer` | 2 items, 4 files, 1 round that breaks off | nothing pending at a request; pages agree |
| `parts` | `CrawlRules` with 3 URLs, 5 lists of 3 patterns, 3 updates; `DashboardFeed` with 2 clients, queues of 2, 4 lines in bursts of up to 3, 2 visits; `Tweets` with 2 jobs, 2 tries, 1 fault, 1 removal; `HeartbeatWatch` with 2 jobs, 2 registrations, threshold 2, 1 restart; `PendingReversal` with 3 jobs, 2 runs | verdicts and delays are whole; streams in order and up to the newest; tweeted once; true warnings, no stubs; only what moves before WATCH is lost or doubled |

**Bounds.** Two idents are needed for queues with more than one entry and for a
handler that meets another's job; two requests for one ident reach stale
heartbeats, timers and idents in `working` of an earlier life. PendingLimit 1
makes both outcomes of the admission check happen. Two log entries and
threshold 1 let the trimmer run between them, before and after each reader; one
restart repeats a batch. Two commands from two handlers give ages announced in
the wrong order and a `#yahoo` that raises the age three times. In the catalogue
a batch of 2 of 4 files is cut off in the middle, a quota of 1 needs two rounds,
and LookBack 1 of 3 days lets lists be too far apart (`late`). In `shipping`
three entries overflow a queue of two, a batch is cut at two, and two faults let
the retry fail too or spoil two batches. In `CrawlRules` the third update meets a
call that saw the first; the lists have an invalid pattern first, in the middle
and not at all. In `files` one job gives up to five files, whose listing two
uploaders read at once. In `oldviewer` a file is a copy of another item's, two
items share a day, and a round may break off between any two commits. In `DashboardFeed` a burst
of three overflows a queue of two, and a second visit meets the queue of the
first. In `Tweets` both tasks, both tries and a job that comes back meet; in
`HeartbeatWatch` a second registration meets a check of the first. In
`PendingReversal` a run may lie between LRANGE and WATCH of another. A bound on faults
is per behaviour; actions without a bound (rounds, heartbeats, rechecks) recur.

**Deadlock** is not checked where MaxRequests, MaxEntries or MaxCommands use up
all work, or the process ends (`shipping`) or all files are sent (`files`). The
loops of `catalog` and `oldviewer` never stop, and there it is checked; so it is
for the locks of CrawlRules in `parts`, whose other instances may rest.

**Fairness.** Weak fairness of each handler, pipeline and tool: they are threads
or processes of their own that wait for nothing but Redis. Weak fairness of each
timer: Redis deletes what has expired. In SettingsFeed, strong fairness of
Recheck: the 30 s pass between two rounds again and again, whatever messages
arrive in between; and of the end of a stopped crawl. In ViewerCatalog, weak
fairness of the population task, whatever its next step is (SkipJson too): it is
one loop. In LogShipping, weak fairness of the log thread: a call of it that waits for Redis
returns or raises. In FinishedFiles, weak
fairness of each uploader's loop, and strong fairness of Sent: a file that is
tried again and again is accepted once, since `uploader.py:248` counts on it.
OldViewer and the five
modules of `parts` are checked for safety only. Faults, users, the archive and time are not fair.

## 4. Proofs

All theorems are about `Spec`, for every value of the constants that satisfies
the named assumptions or hypotheses; the bounds are constants too, so no theorem
depends on their size.

- `JobLifecycleProofs`: TypeOK and NoDoubleDelivery, under every fault. The
  latter needs TicketInv: tickets in queues and hands are distinct and not above
  the number of pushes. Then, under `Careful`, i.e. no "overlap", "lost_done" or
  "reap_any", CarefulInv. It says where an ident can be for each state of its
  record: what a handler found out stays true until it acts (HandlerInv: nobody
  else touches an ident in limbo), a queued ident is active, not in `working`,
  and queued once (QueueInv), an ident in `working` has a live record without a
  timer (WorkingInv), a worker's ident is once in `working` with the registration
  it reserved (WorkerInv), the operator's ident is nobody else's (ReaperInv), a
  timer runs on ended records only (RecordInv). OneCopy, MutualExclusion,
  CrawlIsCurrent and LabelsMatchCounters follow; so do the action properties and
  `Refinement`: BoardStep shows that each action is one move on the board or a
  stutter. EveryJobAccounted, which counts over all idents, follows from the same
  moves: a registration makes one more ident active (OnlyRegister), End makes one
  fewer and raises one counter, the other moves keep both. What section 5 says of
  jobs shows why `Careful` is needed.
- `LogPlumbingProofs`: PlumbingInv says what each tool's copy of a mark means
  after log and marks moved on: a reader's start is the cursor while the job has
  its log (one process writes it), all up to a cursor was seen, the trimmer's
  mark is not above the cursors, and a reader behind the log has a message.
- `SettingsFeedProofs`: FeedInv says that what the listener has read lies between
  the copy and the record (CopyInv), and that an age it was told is in the copy,
  being read, or in a message (TellInv).
- `ViewerCatalogProofs`: CatalogInv says what the cursor of each step has behind
  it: items up to it have a refresh date and a file (RefreshInv, hence
  SumsAreNumbers), jobs up to it are indexed (SearchInv, hence IndexedBeforeUrl),
  a file has a job only if it is in the table (JobInv, hence the counters add up
  by disjoint unions). NoItemSkipped is inductive with ArchiveInv. The one fact
  about SQL they need is FirstDown: LIMIT takes an initial segment.
  CopyAssumption (two JSON files of one job have the same content) keeps
  `add_job_url_errored` from a job that has its URL.
- `LogShippingProofs`: ShippingInv has what both threads hold, that counts are
  in the batch only until execute ends (CountsInBatch; TakeCounts would lose them
  otherwise), and where dropped entries, the queue and the entry about to be put
  stand to each other (Overflow). CountsKept and OverflowDropsOldest follow.
  LogKept needs OrderInv besides: an entry is in the log, the batch, the hand or
  the queue, and what is further on was logged earlier (InTurn). A batch that
  breaks off gives scores to some of its entries, and these are the only ones
  whose scores may be wrong, until the batch is sent again and gives all of its
  entries new ones; no score is above the job's counter (Bounded).
- `FinishedFilesProofs`: FilesInv says that the three directories have no file in
  common (Apart), that the file an uploader sends is in the uploading directory
  and the one it removes is stored (HasFile), that no file on disk is of a run yet
  to come or of a kind the run has not moved yet (Fresh), and which files the
  steps of the task chain have written and renamed (Written, Renamed). OneSender
  rests on HasFile and Apart: a listing may be old, but a claim is a rename, which
  finds the file or not. OutputsKept is Renamed at the end of the chain.
- `OldViewerProofs`: OldInv says which rows a step of the round still has before
  it (Rows; those of populate_jobs are files without a job, so a file counts
  once), that counters and files agree also in what the connection sees, since any
  commit may make that the database (Counted), and that sums agree with the files
  where no step sums, and while one does with the items it has passed (Shown,
  Summing, Sums). Its lemmas add one row at a time to a count, for which the files
  must be finitely many, as OldViewerAssumption says.
- `PartsProofs`: one section for each part of `parts`, and one invariant each.
  Verdicts: _compiled is of the installed list whenever it has a key, of one in
  force during the call while it is searched, and a beginning of it under the lock
  (Kept, Searched, HalfCompiled). Feed: what is written and what waits is one rising
  stream up to the newest line (ClientInv), whether or not a put dropped the
  oldest. Tweets: one task is in the loop, and the message it is about to tweet is
  not in tweets:done (LoopInv); one that is not there was tweeted only as often as
  faults and removals account for (Accounted). Reaper: a timer counts checks since
  the last heartbeat, and the record being compared is the one that was read,
  apart from newer heartbeats, unless it was deleted (WatchInv). Reversal: a run
  that saw no change since WATCH holds what pending holds, apart from what moved
  before (JobInv, for each job). PartsKeepTheirPromises puts them together: a step
  of all parts is a step of one and a stutter of the others.

Types are proved for every component, as a theorem or as a part of its
invariant; no run repeats them.

Every invariant and action property that a passing run checks is stated by a
theorem. Only model-checked are the liveness properties (QueuedJobEnds,
EndedJobVanishes, EntriesReachReaders, ChangesArrive, AbortEndsCrawl, UrlsArrive,
FilesGetStored, EntriesShip): they need ENABLED, which these provers do not
expand. The finding of `overlap_expires_active` is a trace of TLC.

## 5. Findings

`PROJECT.json` "findings" has the one that a run keeps: `!expire` may delete an
active job (`bot/brain.rb:277`). The models showed more disagreements
between the code and its documents, and weak places; they are kept in words:

- A heartbeat that nobody stops after a failed task writes to a record that was
  reaped and deleted (`control.py:146`): the key returns without a timer, and the
  URL stays "already exists", although `doc/admin.rst:115` says of `j.fail` "This
  deletes the job state from Redis".
- After MARK_DONE, trim-logs removes the log up to +inf without a look at the two
  cursors (`trim-logs:49`), also entries that the readers have not seen;
  `doc/admin.rst:80` says it removes "ones that have been processed by the
  firehose sender and the analyzer". NothingUnprinted still holds, TrimmedWasSeen
  holds while the job runs.
- A JSON file that answers 404 is skipped without moving the cursor
  (`backend.rs:270`), and the round asks for it for ever; UrlsArrive is checked
  for archives that keep their files.
- MARK_DONE after a lost reply counts a job twice; Job#fail leaves a job on the
  queues it does not look at.
- The log thread ends with an AttributeError when another thread sets the shared
  connection to None (`control.py:97`, `:222`), while `control.py:49-51` names
  ConnectionError as what is raised. Nothing starts it again.
- Counts of a batch that fails are lost, and those of one that redis-py sends
  twice are added twice; a refused command drops the batch (`control.py:252-276`).
- The first pattern of a list, if invalid, raises UnboundLocalError in the hook
  (`ignoracle.py:110`); `ignoracle_test.py:24-27`, which is skipped, expects that
  it is ignored. A later one gets the regular expression of the one before it.
- `uploader.py:78` checks IA_AUTH where IA_ITEM_PREFIX is meant, so a start
  without the prefix succeeds and the first file raises TypeError, which leaves
  it in `_uploading`. So does ctrl-c, which `INSTALL.pipeline:146` calls the way
  to stop gracefully; no uploader looks for files there again.
- At the end of stdin `websocket.py:32` reads empty lines without a wait, so the
  loop never serves a client again. A burst of more lines than a queue holds
  costs even a fast client lines, since readline() does not wait between them.
- A record that is deleted between the reaper's HMGET and its write comes back as
  a stub without a timer (`reaper.rb:69`, `:78`).
- The reaper counts and prints, but reaps nothing (`reaper.rb:73`, a TODO), while
  its class comment says "the job is reaped" (`reaper.rb:28`).
- reverse-pending reads the queue before it watches it (`reverse-pending:9`): a
  job queued in between is lost, one taken in between is crawled twice.
- A run that fails between MoveFiles' renames and its moves leaves files in the
  data directory, and nobody takes them from there.

## 6. Not modelled

`PROJECT.json` "components" lists every part with its reason. In short: pages and
scripts that only read, parsing and wording, checks at startup, data files. The
CouchDB updaters write one document per changed file and leave conflicts to
CouchDB. The notifiers of the bot are left for later. Duplicate page detection is a function of one page's text.

## 7. Plan

In this order, the most important behaviour first; all but item 8 are done.

1. `JobLifecycle`, `JobBoard`, their runs, types, CarefulInv, refinement.
2. `LogPlumbing` with PlumbingInv.
3. `SettingsFeed` with FeedInv.
4. `ViewerCatalog` with its runs, `ViewerCatalogProofs`.
5. `LogShipping`, `CrawlRules`, `FinishedFiles`, `OldViewer` with their runs.
6. `DashboardFeed`, `Tweets`, `HeartbeatWatch`, `PendingReversal`, in one run
   with `CrawlRules`.
7. Proofs of every safety and action property, as in section 4.
8. `BotTimers`: the finish and pipeline notifiers; liveness of the modules in
   `parts`.
