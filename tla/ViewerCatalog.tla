---------------------------- MODULE ViewerCatalog ----------------------------
(***************************************************************************)
(* How the viewer (viewer2) catalogues the Internet Archive's items: every *)
(* six hours a round of six steps finds new items, their files, the jobs   *)
(* the files belong to, sizes per day, search rows, and the URLs in the    *)
(* jobs' JSON files.  A round may fail or be killed between any two        *)
(* transactions; the steps resume from what the database holds.            *)
(*                                                                         *)
(* A step is one transaction with the request before it.  Identifiers are  *)
(* numbers, for their order is that of the cursors.                        *)
(***************************************************************************)
EXTENDS Naturals, FiniteSets

CONSTANTS
  Item, File, Job,   \* identifiers; a file's stands for (ia_item_id, filename)
  ItemOf,            \* ItemOf[f]: the item that holds f
  JobOf,             \* JobOf[f]: what parse_filename makes of f's name, or None
  KindOf,            \* KindOf[f]: "warc", "json" or "other"
  Json,              \* Json[f]: what the archive gives for f: "ok", "bad", "gone"
  BatchSize, Quota,  \* LIMIT of the queries, JSON files in a round
  LookBack,          \* how far populate_ia_items looks back: 7 days
  RefreshWindow,     \* how long an item is read again: 3 days
  MaxTime, MaxFaults,  \* bounds
  None

ASSUME OrderAssumption ==
  /\ IsFiniteSet(Item) /\ Item \subseteq Nat \ {0}
  /\ IsFiniteSet(File) /\ File \subseteq Nat \ {0}
  /\ IsFiniteSet(Job) /\ Job \subseteq Nat \ {0}
ASSUME FileAssumption ==
  /\ ItemOf \in [File -> Item] /\ JobOf \in [File -> Job \cup {None}]
  /\ KindOf \in [File -> {"warc", "json", "other"}]
  /\ Json \in [File -> {"ok", "bad", "gone"}]
ASSUME NoneAssumption == None \notin Nat \cup {"empty", "url"}
ASSUME BoundAssumption ==
  /\ BatchSize \in Nat \ {0} /\ Quota \in Nat \ {0}
  /\ LookBack \in Nat /\ RefreshWindow \in Nat
  /\ MaxTime \in Nat /\ MaxFaults \in Nat
\* A job's JSON files are copies of one: an upload is checked by its MD5.
ASSUME CopyAssumption ==
  \A f, g \in File : JobOf[f] = JobOf[g] /\ KindOf[f] = "json" /\ KindOf[g] = "json"
                       => Json[f] = Json[g]

VARIABLES
  added,       \* the archive: the date an item was added and published
  there,       \* the archive: its files
  now,
  known,       \* table ia_items
  refreshed,   \* the items with a refresh_date
  files,       \* table files
  job,         \* and its column job_id
  count,       \* table jobs: its counters
  url,         \* and its column url
  searched,    \* the jobs with a search_id
  index,       \* table jobs_search_index: the texts under a job's search_id
  stats,       \* table daily_stats
  lastUpdate,
  pc, todo, after, processed,   \* the round: its step, batch, cursor and count
  fetched,     \* history: the time of the last complete list of items
  late,        \* history: whether more than LookBack lay between lists
  faults

archive  == <<added, there>>
jobs     == <<job, count, url, searched, index>>
database == <<known, refreshed, files, jobs, stats, lastUpdate>>
loop     == <<todo, after, processed>>
vars == <<archive, now, database, pc, loop, fetched, late, faults>>

Kind == {"warc", "json", "other"}
Text == {"empty", "url"}        \* what of a url column the index holds
TextOf(u) == IF u = "url" THEN "url" ELSE "empty"

First(n, S) == {x \in S : Cardinality({y \in S : y < x}) < n}
Least(x, S)    == x \in S /\ \A y \in S : x <= y
Greatest(x, S) == x \in S /\ \A y \in S : y <= x

Init ==
  /\ added = [i \in Item |-> None] /\ there = {} /\ now = 0
  /\ known = {} /\ refreshed = {} /\ files = {}
  /\ job = [f \in File |-> None]
  /\ count = [j \in Job |-> [k \in Kind |-> 0]]
  /\ url = [j \in Job |-> None] /\ searched = {} /\ index = [j \in Job |-> {}]
  /\ stats = [d \in 0..MaxTime |-> 0] /\ lastUpdate = 0
  /\ pc = "idle" /\ todo = {} /\ after = 0 /\ processed = 0
  /\ fetched = 0 /\ late = FALSE /\ faults = 0

-----------------------------------------------------------------------------
(* The archive, and time *)

Publish(i) ==
  /\ added[i] = None /\ added' = [added EXCEPT ![i] = now]
  /\ \E f \in File : ItemOf[f] = i /\ there' = there \cup {f}
  /\ UNCHANGED <<now, database, pc, loop, fetched, late, faults>>

Upload(f) ==
  /\ f \notin there /\ added[ItemOf[f]] # None
  /\ there' = there \cup {f}
  /\ UNCHANGED <<added, now, database, pc, loop, fetched, late, faults>>

Tick ==
  /\ now < MaxTime /\ now' = now + 1
  /\ UNCHANGED <<archive, database, pc, loop, fetched, late, faults>>

-----------------------------------------------------------------------------
(* A round: Backend::populate and populate_steps *)

\* The next step begins with a new cursor.
Enter(step) == pc' = step /\ todo' = {} /\ after' = 0 /\ processed' = 0

StartRound ==
  /\ pc = "idle" /\ Enter("items")
  /\ UNCHANGED <<archive, now, database, fetched, late, faults>>

NotBefore(i, date) == added[i] # None /\ added[i] >= date
SinceUpdate == lastUpdate   \* mutant of Since
Since == IF lastUpdate < LookBack THEN 0 ELSE lastUpdate - LookBack

\* populate_ia_items: a page of the list, oldest items first
FetchPage ==
  /\ pc = "items"
  /\ \E date \in Since..now :
       known' = known \cup {i \in Item : NotBefore(i, Since) /\ added[i] <= date}
  /\ UNCHANGED <<archive, now, refreshed, files, jobs, stats, lastUpdate, pc, loop,
                 fetched, late, faults>>

\* and its last page
FetchLastPage ==
  /\ pc = "items" /\ Enter("files")
  /\ known' = known \cup {i \in Item : NotBefore(i, Since)}
  /\ late' = (late \/ lastUpdate > fetched + LookBack)
  /\ fetched' = now
  /\ UNCHANGED <<archive, now, refreshed, files, jobs, stats, lastUpdate, faults>>

\* populate_files: get_ia_items_needing_refresh
NeedsRefreshSoon(i) == added[i] + RefreshWindow > now   \* mutant of NeedsRefresh
NeedsRefresh(i) == i \notin refreshed \/ added[i] + RefreshWindow > now
ItemsAfter == {i \in known : NeedsRefresh(i) /\ i > after}

QueryItems ==
  /\ pc = "files" /\ todo = {}
  /\ IF ItemsAfter = {}
     THEN Enter("jobs")
     ELSE todo' = First(BatchSize, ItemsAfter) /\ UNCHANGED <<pc, after, processed>>
  /\ UNCHANGED <<archive, now, database, fetched, late, faults>>

AddFiles ==
  /\ pc = "files" /\ pc' = "refresh"
  /\ \E i \in todo : Least(i, todo) /\ files' = files \cup {f \in there : ItemOf[f] = i}
  /\ UNCHANGED <<archive, now, known, refreshed, jobs, stats, lastUpdate, loop,
                 fetched, late, faults>>

SetRefreshDate ==
  /\ pc = "refresh" /\ pc' = "files"
  /\ \E i \in todo : /\ Least(i, todo)
                     /\ refreshed' = refreshed \cup {i}
                     /\ after' = i /\ todo' = todo \ {i}
  /\ UNCHANGED <<archive, now, known, files, jobs, stats, lastUpdate, processed,
                 fetched, late, faults>>

\* populate_jobs: a batch of files without a job, and their jobs' counters
FilesSeen == {f \in files : f > after}   \* mutant of FilesAfter
FilesAfter == {f \in files : job[f] = None /\ f > after}

AssignJobs ==
  /\ pc = "jobs" /\ FilesAfter # {}
  /\ LET batch == First(BatchSize, FilesAfter)
     IN  /\ job' = [f \in File |-> IF f \in batch THEN JobOf[f] ELSE job[f]]
         /\ count' = [j \in Job |-> [k \in Kind |-> count[j][k]
                        + Cardinality({f \in batch : JobOf[f] = j /\ KindOf[f] = k})]]
         /\ \E f \in batch : Greatest(f, batch) /\ after' = f
  /\ UNCHANGED <<archive, now, known, refreshed, files, url, searched, index, stats,
                 lastUpdate, pc, todo, processed, fetched, late, faults>>

AllAssigned ==
  /\ pc = "jobs" /\ FilesAfter = {} /\ Enter("stats")
  /\ UNCHANGED <<archive, now, database, fetched, late, faults>>

\* populate_daily_stats: a file counts as one
FilesOn(date) == {f \in files : added[ItemOf[f]] = date}

SumDays ==
  /\ pc = "stats" /\ Enter("search")
  /\ stats' = [d \in 0..MaxTime |->
                 IF \E i \in known : added[i] = d THEN Cardinality(FilesOn(d)) ELSE stats[d]]
  /\ UNCHANGED <<archive, now, known, refreshed, files, jobs, lastUpdate, fetched, late, faults>>

\* populate_search: jobs are the rows that update_jobs inserted
JobRows == {j \in Job : \E f \in files : job[f] = j}
JobsAfter == {j \in JobRows \ searched : j > after}

AddSearchRows ==
  /\ pc = "search" /\ JobsAfter # {}
  /\ LET batch == First(BatchSize, JobsAfter)
     IN  /\ searched' = searched \cup batch
         /\ index' = [j \in Job |-> IF j \in batch THEN index[j] \cup {TextOf(url[j])}
                                    ELSE index[j]]
         /\ \E j \in batch : Greatest(j, batch) /\ after' = j
  /\ UNCHANGED <<archive, now, known, refreshed, files, job, count, url, stats, lastUpdate,
                 pc, todo, processed, fetched, late, faults>>

AllIndexed ==
  /\ pc = "search" /\ JobsAfter = {} /\ Enter("json")
  /\ UNCHANGED <<archive, now, database, fetched, late, faults>>

\* populate_json_urls: get_jobs_without_url
JsonAfter == {f \in files : /\ KindOf[f] = "json" /\ job[f] # None
                            /\ url[job[f]] = None /\ f > after}

QueryJson ==
  /\ pc = "json" /\ todo = {}
  /\ IF JsonAfter = {} \/ processed >= Quota
     THEN Enter("end")
     ELSE todo' = First(BatchSize, JsonAfter) /\ UNCHANGED <<pc, after, processed>>
  /\ UNCHANGED <<archive, now, database, fetched, late, faults>>

SkipForGood ==   \* mutant of SkipJson: the job is marked as without a URL
  /\ pc = "json" /\ faults < MaxFaults /\ faults' = faults + 1
  /\ \E f \in todo : /\ Least(f, todo) /\ todo' = todo \ {f} /\ after' = f
                     /\ url' = [url EXCEPT ![job[f]] = "empty"]
  /\ UNCHANGED <<archive, now, known, refreshed, files, job, count, searched, index, stats,
                 lastUpdate, pc, processed, fetched, late>>

\* NOT_FOUND, for good or for a moment: `continue' leaves the cursor and the
\* count where they are.
SkipJson ==
  /\ pc = "json"
  /\ \E f \in todo : /\ Least(f, todo) /\ todo' = todo \ {f}
                     /\ IF Json[f] = "gone"
                        THEN UNCHANGED faults
                        ELSE faults < MaxFaults /\ faults' = faults + 1
  /\ UNCHANGED <<archive, now, database, pc, after, processed, fetched, late>>

\* A JSON file that was downloaded
Read(f, json) == pc = "json" /\ Least(f, todo) /\ Json[f] = json
Done(f) == todo' = todo \ {f} /\ after' = f /\ processed' = processed + 1

AddUrlOnly ==   \* mutant of AddUrl: the old text stays
  /\ \E f \in todo : /\ Read(f, "ok") /\ Done(f)
                     /\ url' = [url EXCEPT ![job[f]] = "url"]
                     /\ index' = [index EXCEPT ![job[f]] = @ \cup {"url"}]
  /\ UNCHANGED <<archive, now, known, refreshed, files, job, count, searched, stats,
                 lastUpdate, pc, fetched, late, faults>>

\* add_job_url: the index loses the old text and gets the new one.  A search_id
\* of NULL does not decode, which ends the round.
AddUrl ==
  /\ \E f \in todo :
       /\ Read(f, "ok")
       /\ IF job[f] \in searched
          THEN /\ url' = [url EXCEPT ![job[f]] = "url"]
               /\ index' = [index EXCEPT ![job[f]] = (@ \ {TextOf(url[job[f]])}) \cup {"url"}]
               /\ Done(f) /\ UNCHANGED pc
          ELSE Enter("end") /\ UNCHANGED <<url, index>>
  /\ UNCHANGED <<archive, now, known, refreshed, files, job, count, searched, stats,
                 lastUpdate, fetched, late, faults>>

\* add_job_url_errored
AddUrlErrored ==
  /\ \E f \in todo : /\ Read(f, "bad") /\ Done(f)
                     /\ url' = [url EXCEPT ![job[f]] = "empty"]
  /\ UNCHANGED <<archive, now, known, refreshed, files, job, count, searched, index, stats,
                 lastUpdate, pc, fetched, late, faults>>

\* populate: also after an error
SetLastUpdate ==
  /\ pc = "end" /\ Enter("idle")
  /\ lastUpdate' = now
  /\ UNCHANGED <<archive, now, known, refreshed, files, jobs, stats, fetched, late, faults>>

\* A request or a query fails; the transaction is rolled back.
StepFails ==
  /\ faults < MaxFaults /\ faults' = faults + 1
  /\ pc \notin {"idle", "end"} /\ Enter("end")
  /\ UNCHANGED <<archive, now, database, fetched, late>>

\* The process is stopped, and started again.
Restart ==
  /\ faults < MaxFaults /\ faults' = faults + 1
  /\ pc # "idle" /\ Enter("idle")
  /\ UNCHANGED <<archive, now, database, fetched, late>>

-----------------------------------------------------------------------------
Populate ==
  \/ StartRound \/ FetchLastPage \/ QueryItems \/ AddFiles \/ SetRefreshDate
  \/ AssignJobs \/ AllAssigned \/ SumDays \/ AddSearchRows \/ AllIndexed
  \/ QueryJson \/ AddUrl \/ AddUrlErrored \/ SetLastUpdate

Next ==
  \/ \E i \in Item : Publish(i)
  \/ \E f \in File : Upload(f)
  \/ Tick \/ Populate \/ FetchPage \/ SkipJson \/ StepFails \/ Restart

Spec == Init /\ [][Next]_vars

\* run: a round follows a round, and each goes on.
FairSpec == Spec /\ WF_vars(Populate \/ SkipJson)

-----------------------------------------------------------------------------
Steps == {"idle", "items", "files", "refresh", "jobs", "stats", "search", "json", "end"}

TypeOK ==
  /\ added \in [Item -> 0..MaxTime \cup {None}] /\ there \subseteq File
  /\ now \in 0..MaxTime /\ lastUpdate \in 0..MaxTime /\ fetched \in 0..MaxTime
  /\ known \subseteq Item /\ refreshed \subseteq known /\ files \subseteq there
  /\ job \in [File -> Job \cup {None}] /\ count \in [Job -> [Kind -> Nat]]
  /\ url \in [Job -> Text \cup {None}] /\ searched \subseteq Job
  /\ index \in [Job -> SUBSET Text] /\ stats \in [0..MaxTime -> Nat]
  /\ pc \in Steps /\ after \in Nat /\ processed \in Nat
  /\ late \in BOOLEAN /\ faults \in 0..MaxFaults
  /\ todo \subseteq CASE pc \in {"files", "refresh"} -> known
                     [] pc = "json" -> files
                     [] OTHER -> {}

\* A job's counters are the numbers of its files, however rounds end between
\* batches (update_jobs).
CountsMatchFiles ==
  \A j \in Job, k \in Kind :
    count[j][k] = Cardinality({f \in files : job[f] = j /\ KindOf[f] = k})

\* The index holds, for each job with a search_id, the text of its url, and
\* nothing else (the external content of jobs_search_index).
IndexMatchesJobs ==
  \A j \in Job : index[j] = IF j \in searched THEN {TextOf(url[j])} ELSE {}

\* A JSON file is only read for a job that add_job_url finds in the index.
IndexedBeforeUrl ==
  pc = "json" => \A f \in todo : job[f] \in searched

\* Each item whose day is summed has a file: a sum over none is NULL, which
\* populate_daily_stats cannot decode.
SumsAreNumbers ==
  pc = "stats" => \A i \in known : \E f \in files : ItemOf[f] = i

\* Every item added before the last complete list is known, although last_update
\* is written after failed rounds too, unless lists were more than LookBack
\* apart (populate_ia_items).
NoItemSkipped ==
  ~late => \A i \in Item : NotBefore(i, 0) /\ added[i] < fetched => i \in known

-----------------------------------------------------------------------------
(* The inductive invariant: what is already done when a round is at its     *)
(* cursor, and what stays of it when the round is cut off.                  *)

ArchiveInv ==
  /\ fetched <= now
  /\ \A i \in Item : added[i] # None => \E f \in there : ItemOf[f] = i
  /\ \A i \in known : added[i] # None

\* populate_files has seen to the items up to its cursor.
RefreshInv ==
  /\ \A i \in refreshed : \E f \in files : ItemOf[f] = i
  /\ pc \in {"files", "refresh"} =>
       \A i \in known \ refreshed :
         i > after /\ \A t \in todo : i <= t => i \in todo
  /\ pc = "refresh" => \A i \in todo : Least(i, todo) => \E f \in files : ItemOf[f] = i
  /\ pc \in {"jobs", "stats"} => known \subseteq refreshed

JobInv ==
  /\ \A f \in File : job[f] # None => job[f] = JobOf[f] /\ f \in files
  /\ \A j \in Job : url[j] = "url" =>
       \E f \in File : JobOf[f] = j /\ KindOf[f] = "json" /\ Json[f] = "ok"

\* populate_search has seen to the jobs up to its cursor; then come the URLs.
SearchInv ==
  /\ pc = "search" => \A j \in JobRows : j <= after => j \in searched
  /\ pc = "json" => /\ JobRows \subseteq searched
                    /\ \A f \in todo : KindOf[f] = "json" /\ job[f] # None

CatalogInv ==
  /\ ArchiveInv /\ RefreshInv /\ JobInv /\ SearchInv
  /\ CountsMatchFiles /\ IndexMatchesJobs /\ NoItemSkipped

-----------------------------------------------------------------------------
\* A JSON file that can be read gives its job its URL, round after round, within
\* the quota.
UrlsArrive ==
  \A f \in {g \in File : JobOf[g] # None /\ KindOf[g] = "json" /\ Json[g] = "ok"} :
    f \in files ~> url[JobOf[f]] = "url"

=============================================================================
