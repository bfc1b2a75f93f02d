----------------------------- MODULE OldViewer -----------------------------
(***************************************************************************)
(* The first viewer (viewer/archivebotviewer): a web server of one thread,  *)
(* in whose event loop a coroutine fills the SQLite database every few      *)
(* hours.  SingletonThreadPool gives the thread one connection: the         *)
(* transaction of the coroutine, which waits for the archive in the middle  *)
(* of its session, is also that of every web request served meanwhile.      *)
(*                                                                         *)
(* A step is one loop pass or one commit; requests come between steps only  *)
(* where the coroutine yields.                                              *)
(***************************************************************************)
EXTENDS Naturals, FiniteSets

CONSTANTS
  Item,       \* identifiers of the collection's items
  Day,        \* Day[i]: the date at which item i is public
  File,       \* files that may come to be in items: records, see FileAssumption
  MaxFaults,  \* bound: rounds that fail or are killed
  None

JobId == Nat

ASSUME FileAssumption ==
  File \subseteq [item : Item, ident : JobId \cup {None}, time : JobId, aborted : BOOLEAN,
                  extension : {"warc.gz", "json", "other"}, parses : BOOLEAN]
ASSUME OldViewerAssumption ==
  /\ IsFiniteSet(File) /\ IsFiniteSet(Item) /\ Day \in [Item -> Nat]
  /\ None \notin Nat /\ None \notin Item /\ MaxFaults \in Nat

VARIABLES
  public,      \* the archive: items of the collection
  young,       \* the archive: those not yet public for three days
  there,       \* the archive: files
  disk,        \* the database as committed
  view,        \* the database as the connection sees it
  pc, todo,    \* the coroutine: where it is, and rows of its query to come
  at,          \* the item whose files are being added
  inProgress,  \* _population_in_progress
  sentinel,    \* age of the file .fetch: less than four hours, or more
  unsummed,    \* history: no round got from the jobs to the sums since one broke off there
  faults

archive == <<public, young, there>>
round == <<pc, todo, at, inProgress, sentinel>>
vars == <<archive, disk, view, round, unsummed, faults>>

-----------------------------------------------------------------------------
(* parse_filename *)

Matches(f) == f.extension \in {"warc.gz", "json"}
JobOf(f) == IF f.ident # None THEN f.ident ELSE f.time
JsonId(f) == [f EXCEPT !.item = None]

\* The columns of the job that a file raises.
Column == {"aborts", "warcs", "jsons"}
Columns(f) == (IF f.aborted THEN {"aborts"} ELSE {})
              \cup (IF f.extension = "warc.gz" THEN {"warcs"} ELSE {"jsons"})

Jobs == {JobOf(f) : f \in File}
Days == {Day[i] : i \in Item}

\* filed: the files with a job_id; urls: the jobs with a url; stats: files on a day
Database ==
  [items : SUBSET Item, refreshed : SUBSET Item, files : SUBSET File, filed : SUBSET File,
   counts : [Jobs -> [Column -> Nat]], stats : [Days -> Nat],
   jsons : SUBSET {JsonId(f) : f \in File}, urls : SUBSET Jobs]

NoStats == [d \in Days |-> 0]

Empty == [items |-> {}, refreshed |-> {}, files |-> {}, filed |-> {},
          counts |-> [j \in Jobs |-> [c \in Column |-> 0]], stats |-> NoStats,
          jsons |-> {}, urls |-> {}]

Init ==
  /\ public = {} /\ young = {} /\ there = {}
  /\ disk = Empty /\ view = Empty
  /\ pc = "rest" /\ todo = {} /\ at = None /\ inProgress = FALSE /\ sentinel = "old"
  /\ unsummed = FALSE /\ faults = 0

-----------------------------------------------------------------------------
(* The archive, and time *)

Publish(f) ==
  /\ f \notin there /\ there' = there \cup {f}
  /\ public' = public \cup {f.item}
  /\ young' = IF f.item \in public THEN young ELSE young \cup {f.item}
  /\ UNCHANGED <<disk, view, round, unsummed, faults>>

DaysPass(i) ==
  /\ i \in young /\ young' = young \ {i}
  /\ UNCHANGED <<public, there, disk, view, round, unsummed, faults>>

HoursPass ==
  /\ sentinel = "recent" /\ sentinel' = "old"
  /\ UNCHANGED <<archive, disk, view, pc, todo, at, inProgress, unsummed, faults>>

-----------------------------------------------------------------------------
(* populate *)

Goes(to, rows) == pc' = to /\ todo' = rows
Step(from, to, rows) == pc = from /\ Goes(to, rows)
Commit == disk' = view
roundOnly == <<archive, inProgress, sentinel, unsummed, faults>>

\* At the start of the process, and by the timer every six hours.
Begin ==
  /\ sentinel = "old" /\ ~inProgress
  /\ Step("rest", "list", public)
  /\ inProgress' = TRUE /\ sentinel' = "recent"
  /\ UNCHANGED <<archive, disk, view, at, unsummed, faults>>

\* get_item_list asks for page after page, oldest first: items that are added
\* meanwhile may be on it or not.
MergeItems ==
  /\ pc = "list" /\ Goes("commit items", {})
  /\ \E listed \in SUBSET public :
       todo \subseteq listed /\ view' = [view EXCEPT !.items = @ \cup listed]
  /\ UNCHANGED <<disk, at, roundOnly>>

NeedsRefresh(i) == i \notin view.refreshed \/ i \in young

CommitItems ==
  /\ Step("commit items", "fetch", {i \in view.items : NeedsRefresh(i)})
  /\ Commit
  /\ UNCHANGED <<view, at, roundOnly>>

\* populate_files: get_item_files, and INSERT OR IGNORE
InsertFiles ==
  /\ pc = "fetch" /\ Goes("refresh", todo)
  /\ \E i \in todo :
       /\ view' = [view EXCEPT !.files = @ \cup {f \in there : f.item = i}]
       /\ at' = i
  /\ UNCHANGED <<disk, roundOnly>>

SetRefreshDate ==
  /\ Step("refresh", "commit files", todo)
  /\ view' = [view EXCEPT !.refreshed = @ \cup {at}]
  /\ UNCHANGED <<disk, at, roundOnly>>

NotYetCommitted ==   \* mutant of CommitFiles: the session's end commits
  /\ Step("commit files", "fetch", todo \ {at})
  /\ at' = None
  /\ UNCHANGED <<disk, view, roundOnly>>

CommitFiles ==
  /\ Step("commit files", "fetch", todo \ {at})
  /\ at' = None
  /\ Commit
  /\ UNCHANGED <<view, roundOnly>>

\* The session of populate_files ends, and populate_jobs asks for its rows.
QueryFiles ==
  /\ todo = {}
  /\ Step("fetch", "jobs", {f \in view.files \ view.filed : Matches(f)})
  /\ Commit
  /\ UNCHANGED <<view, at, roundOnly>>

\* populate_jobs: INSERT OR IGNORE, counters, job_id
AssignJob ==
  /\ pc = "jobs"
  /\ \E f \in todo :
       /\ view' = [view EXCEPT !.filed = @ \cup {f},
                               !.counts[JobOf(f)] =
                                 [c \in Column |-> IF c \in Columns(f) THEN @[c] + 1 ELSE @[c]]]
       /\ Goes("jobs", todo \ {f})
  /\ UNCHANGED <<disk, at, roundOnly>>

CommitJobs ==
  /\ todo = {}
  /\ Step("jobs", "stats", {})
  /\ Commit
  /\ UNCHANGED <<view, at, roundOnly>>

KeepStats ==   \* mutant of DeleteStats: the sums are added to the last round's
  /\ Step("stats", "sum", view.items)
  /\ UNCHANGED <<disk, view, at, roundOnly>>

\* populate_daily_stats
DeleteStats ==
  /\ Step("stats", "sum", view.items)
  /\ view' = [view EXCEPT !.stats = NoStats]
  /\ UNCHANGED <<disk, at, roundOnly>>

FiledOf(db, i) == {f \in db.filed : f.item = i}

SumItem ==
  /\ pc = "sum"
  /\ \E i \in todo :
       /\ view' = [view EXCEPT !.stats[Day[i]] = @ + Cardinality(FiledOf(view, i))]
       /\ Goes("sum", todo \ {i})
  /\ UNCHANGED <<disk, at, roundOnly>>

CommitStats ==
  /\ todo = {}
  /\ Step("sum", "json", {f \in view.filed : f.extension = "json"})
  /\ Commit
  /\ unsummed' = FALSE
  /\ UNCHANGED <<archive, view, at, inProgress, sentinel, faults>>

\* populate_json_files: a row with its id is there, or the text does not parse
SkipJson ==
  /\ pc = "json"
  /\ \E f \in todo : /\ JsonId(f) \in view.jsons \/ ~f.parses
                     /\ Goes("json", todo \ {f})
  /\ UNCHANGED <<disk, view, at, roundOnly>>

InsertJson ==
  /\ pc = "json"
  /\ \E f \in todo :
       /\ JsonId(f) \notin view.jsons /\ f.parses
       /\ view' = [view EXCEPT !.jsons = @ \cup {JsonId(f)}, !.urls = @ \cup {JobOf(f)}]
       /\ Goes("commit json", todo \ {f})
  /\ UNCHANGED <<disk, at, roundOnly>>

CommitJson ==
  /\ Step("commit json", "json", todo)
  /\ Commit
  /\ UNCHANGED <<view, at, roundOnly>>

\* populate's finally
Finally ==
  /\ pc' = "rest" /\ todo' = {} /\ at' = None
  /\ sentinel' = "recent" /\ inProgress' = FALSE

End ==
  /\ pc = "json" /\ todo = {}
  /\ Finally
  /\ Commit
  /\ UNCHANGED <<archive, view, unsummed, faults>>

\* What a round that breaks off leaves: _session rolls back.
BreaksOff ==
  /\ pc # "rest" /\ faults < MaxFaults /\ faults' = faults + 1
  /\ view' = disk
  /\ unsummed' = (unsummed \/ pc \in {"stats", "sum"})
  /\ UNCHANGED <<archive, disk>>

\* The archive does not answer, or the database raises.
Fail == BreaksOff /\ Finally

\* The process is killed and started again; the flag was only in its memory.
Restart ==
  /\ BreaksOff
  /\ pc' = "rest" /\ todo' = {} /\ at' = None
  /\ inProgress' = FALSE /\ UNCHANGED sentinel

-----------------------------------------------------------------------------
(* A web request, with a session of its own and the connection of all; only *)
(* while the coroutine waits for an answer.                                 *)

Yielding == pc \in {"rest", "list", "fetch", "json"}

Request ==
  /\ Yielding
  /\ Commit
  /\ UNCHANGED <<archive, view, round, unsummed, faults>>

\* The handler raises; and the pool resets the connection of a closed session.
RequestRollsBack ==
  /\ Yielding
  /\ view' = disk
  /\ UNCHANGED <<archive, disk, round, unsummed, faults>>

-----------------------------------------------------------------------------
Populate ==
  \/ Begin \/ MergeItems \/ CommitItems \/ InsertFiles \/ SetRefreshDate \/ CommitFiles
  \/ QueryFiles \/ AssignJob \/ CommitJobs \/ DeleteStats \/ SumItem \/ CommitStats
  \/ SkipJson \/ InsertJson \/ CommitJson \/ End

Next ==
  \/ \E f \in File : Publish(f)
  \/ \E i \in Item : DaysPass(i)
  \/ HoursPass \/ Populate \/ Fail \/ Restart \/ Request \/ RequestRollsBack

Spec == Init /\ [][Next]_vars

-----------------------------------------------------------------------------
TypeOK ==
  /\ public \subseteq Item /\ young \subseteq public /\ there \subseteq File
  /\ disk \in Database /\ view \in Database
  /\ at \in Item \cup {None} /\ todo \subseteq Item \cup File
  /\ inProgress \in BOOLEAN /\ sentinel \in {"recent", "old"}
  /\ unsummed \in BOOLEAN /\ faults \in 0..MaxFaults

\* A request finds no uncommitted row of the coroutine: its own commit or
\* rollback on the shared connection, in the middle of a round, saves or loses
\* nothing (database.py:96-106, 162-196, 271-308).
NothingPending == Yielding => view = disk

\* What the pages show agrees: a job's counters are the numbers of its files,
\* and a day's sum is that of the files of its items, whatever new files the
\* round has found so far, and wherever the last one broke off - except in the
\* step that sums (database.py:198-269).
PagesAgree ==
  Yielding =>
    /\ \A j \in Jobs, c \in Column :
         disk.counts[j][c] =
           Cardinality({f \in disk.filed : JobOf(f) = j /\ c \in Columns(f)})
    /\ ~unsummed => \A d \in Days :
         disk.stats[d] = Cardinality({f \in disk.filed : Day[f.item] = d})

=============================================================================
