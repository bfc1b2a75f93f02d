--------------------------- MODULE FinishedFiles ---------------------------
(***************************************************************************)
(* The files of a job on a pipeline's disk: the task chain writes them into *)
(* the item's directory, renames them into the data directory and hands     *)
(* them over to FINISHED_WARCS_DIR, where uploaders take them through       *)
(* `_uploading` to the store (pipeline/archivebot/seesaw/tasks.py,          *)
(* uploader/uploader.py).  A step is one change of a directory, one         *)
(* transfer, or one task without such a change.  Names carry the time at    *)
(* which the run was prepared, so no name is given twice.                   *)
(***************************************************************************)
EXTENDS Naturals, FiniteSets

CONSTANTS
  Job,           \* jobs this pipeline crawls, numbers in the order of slugs
  UrlJob,        \* those with a list of URLs (!ao < FILE)
  Uploader,      \* uploader processes on the one directory
  Environments,  \* sets of environment variables an uploader may be given
  MaxRuns,       \* bound: times a job is crawled
  MaxFaults,     \* bound: tasks that raise, pipelines and uploaders that stop
  None           \* no file

ASSUME JobAssumption ==
  /\ Job \subseteq Nat
  /\ UrlJob \subseteq Job
  /\ MaxRuns \in Nat /\ MaxFaults \in Nat

VARIABLES
  chain,      \* the item of each job in the chain of tasks
  scratch,    \* kinds of file in the item's directory
  data,       \* files in the data directory, under their target names
  finished,   \* files in FINISHED_WARCS_DIR
  uploading,  \* files in its directory _uploading
  stored,     \* files at the upload target
  up,         \* the uploaders
  env,        \* environment variables of the uploaders
  faults

pipelineVars == <<chain, scratch, data>>
uploaderVars == <<uploading, stored, up>>
vars == <<chain, scratch, data, finished, uploading, stored, up, env, faults>>

Kind == {"early", "warc", "urls", "log", "json"}
Stage == {"idle", "info", "urls", "crawl", "relabel", "compress", "info again",
          "rename", "hand over", "done"}

\* A name: job, start of the run, suffix, and whether it has the "-aborted"
\* label; `says` is the "aborted" that a JSON file has inside.
File == [job : Job, run : 1..MaxRuns, kind : Kind, aborted : BOOLEAN, says : BOOLEAN]

ChainState == [pc : Stage, run : 0..MaxRuns, aborted : BOOLEAN, failed : BOOLEAN,
               rolled : BOOLEAN, info : BOOLEAN]

UploaderState == [pc : {"list", "check", "take", "send", "remove", "back", "stopped"},
                  name : File \cup {None}]

-----------------------------------------------------------------------------
ASSUME NoneAssumption == None \notin File

-----------------------------------------------------------------------------
(* What the uploader is started with.                                      *)

IaOptions == {"IA_COLLECTION", "IA_ITEM_TITLE", "IA_AUTH", "IA_ACCESS"}

\* IA_ITEM_PREFIX is not among them: its check looks at IA_AUTH again.
Mode ==
  IF "RSYNC_URL" \in env THEN "rsync"
  ELSE IF "S3_URL" \in env /\ IaOptions \subseteq env THEN "s3" ELSE "refused"

\* WAIT is a string and time.sleep wants a number.
Starts == Mode # "refused" /\ "WAIT" \notin env

PrefixMissing == Mode = "s3" /\ "IA_ITEM_PREFIX" \notin env

-----------------------------------------------------------------------------
Init ==
  /\ chain = [j \in Job |-> [pc |-> "idle", run |-> 0, aborted |-> FALSE,
                             failed |-> FALSE, rolled |-> FALSE, info |-> FALSE]]
  /\ scratch = [j \in Job |-> {}]
  /\ data = {} /\ finished = {} /\ uploading = {} /\ stored = {}
  /\ env \in Environments
  /\ up = [u \in Uploader |->
             [pc |-> IF Starts THEN "list" ELSE "stopped", name |-> None]]
  /\ faults = 0

Name(j, k, label) ==
  [job |-> j, run |-> chain[j].run, kind |-> k, aborted |-> label,
   says |-> IF k = "json" THEN chain[j].info ELSE label]

\* set_target_paths renames WARCs and JSON; the target of the URL file was
\* computed before the label was known.
TargetName(j, k) == Name(j, k, k # "urls" /\ chain[j].aborted)

\* The files MoveFiles knows of, from the keys of the item.
Outputs(j) ==
  {"warc", "json"} \cup (IF j \in UrlJob THEN {"urls"} ELSE {})
                   \cup (IF chain[j].failed THEN {"log"} ELSE {})

\* The orders in which MoveFiles renames files and then hands them over.
RenameRank   == [early |-> 0, warc |-> 1, urls |-> 2, log |-> 3, json |-> 4]
HandOverRank == [early |-> 0, warc |-> 1, json |-> 2, urls |-> 3, log |-> 4]

\* PreparePaths deletes what an earlier run of the job left in its directory.
PreparePaths(j) ==
  /\ chain[j].pc \in {"idle", "done"} /\ chain[j].run < MaxRuns
  /\ chain' = [chain EXCEPT ![j] = [pc |-> "info", run |-> @.run + 1, aborted |-> FALSE,
                                    failed |-> FALSE, rolled |-> FALSE, info |-> FALSE]]
  /\ scratch' = [scratch EXCEPT ![j] = {}]
  /\ UNCHANGED <<data, faults, finished, env, uploaderVars>>

\* WriteInfo stands in the chain twice.
WriteInfo(j) ==
  /\ chain[j].pc \in {"info", "info again"}
  /\ chain' = [chain EXCEPT ![j].info = chain[j].aborted,
                            ![j].pc = IF @ = "info" THEN "urls" ELSE "rename"]
  /\ scratch' = [scratch EXCEPT ![j] = @ \cup {"json"}]
  /\ UNCHANGED <<data, faults, finished, env, uploaderVars>>

\* The task retries until it has the file; a failed try changes nothing here.
DownloadUrlFile(j) ==
  /\ chain[j].pc = "urls"
  /\ chain' = [chain EXCEPT ![j].pc = "crawl"]
  /\ scratch' = [scratch EXCEPT ![j] = @ \cup (IF j \in UrlJob THEN {"urls"} ELSE {})]
  /\ UNCHANGED <<data, faults, finished, env, uploaderVars>>

\* wpull (--warc-move) hands over a WARC that reached its size by itself.
WarcRollsOver(j) ==
  /\ chain[j].pc = "crawl" /\ ~chain[j].rolled
  /\ chain' = [chain EXCEPT ![j].rolled = TRUE]
  /\ finished' = finished \cup {Name(j, "early", FALSE)}
  /\ UNCHANGED <<scratch, data, faults, env, uploaderVars>>

WpullExits(j) ==
  /\ chain[j].pc = "crawl"
  /\ \E failed \in BOOLEAN :
       chain' = [chain EXCEPT ![j].pc = "relabel", ![j].failed = failed]
  /\ scratch' = [scratch EXCEPT ![j] = @ \cup {"warc"}]
  /\ UNCHANGED <<data, faults, finished, env, uploaderVars>>

RelabelIfAborted(j) ==
  /\ chain[j].pc = "relabel"
  /\ \E aborted \in BOOLEAN :
       chain' = [chain EXCEPT ![j].pc = "compress", ![j].aborted = aborted]
  /\ UNCHANGED <<scratch, data, faults, finished, env, uploaderVars>>

InfoForgotten(j) ==   \* mutant of CompressLogIfFailed
  /\ chain[j].pc = "compress"
  /\ chain' = [chain EXCEPT ![j].pc = "rename"]
  /\ scratch' = [scratch EXCEPT ![j] = @ \cup (IF chain[j].failed THEN {"log"} ELSE {})]
  /\ UNCHANGED <<data, faults, finished, env, uploaderVars>>

CompressLogIfFailed(j) ==
  /\ chain[j].pc = "compress"
  /\ chain' = [chain EXCEPT ![j].pc = "info again"]
  /\ scratch' = [scratch EXCEPT ![j] = @ \cup (IF chain[j].failed THEN {"log"} ELSE {})]
  /\ UNCHANGED <<data, faults, finished, env, uploaderVars>>

\* MoveFiles, first half: one os.rename into the data directory.
RenameOutput(j) ==
  /\ chain[j].pc = "rename"
  /\ \E k \in Outputs(j) \cap scratch[j] :
       /\ \A other \in Outputs(j) \cap scratch[j] : RenameRank[k] <= RenameRank[other]
       /\ scratch' = [scratch EXCEPT ![j] = @ \ {k}]
       /\ data' = data \cup {TargetName(j, k)}
  /\ UNCHANGED <<chain, faults, finished, env, uploaderVars>>

RemoveAtOnce(j) ==   \* mutant of RemoveScratch
  /\ chain[j].pc = "rename"
  /\ chain' = [chain EXCEPT ![j].pc = "hand over"]
  /\ scratch' = [scratch EXCEPT ![j] = {}]
  /\ UNCHANGED <<data, faults, finished, env, uploaderVars>>

\* shutil.rmtree of the item's directory, with all that is still in it.
RemoveScratch(j) ==
  /\ chain[j].pc = "rename" /\ Outputs(j) \cap scratch[j] = {}
  /\ chain' = [chain EXCEPT ![j].pc = "hand over"]
  /\ scratch' = [scratch EXCEPT ![j] = {}]
  /\ UNCHANGED <<data, faults, finished, env, uploaderVars>>

Targets(j) == {TargetName(j, k) : k \in Outputs(j)}

\* MoveFiles, second half: one shutil.move on the same file system.
HandOver(j) ==
  /\ chain[j].pc = "hand over"
  /\ \E f \in data \cap Targets(j) :
       /\ \A other \in data \cap Targets(j) :
            HandOverRank[f.kind] <= HandOverRank[other.kind]
       /\ data' = data \ {f}
       /\ finished' = finished \cup {f}
  /\ UNCHANGED <<chain, scratch, faults, env, uploaderVars>>

\* StopHeartbeat and MarkItemAsDone touch no file.
ChainEnds(j) ==
  /\ chain[j].pc = "hand over" /\ data \cap Targets(j) = {}
  /\ chain' = [chain EXCEPT ![j].pc = "done"]
  /\ UNCHANGED <<scratch, data, faults, finished, env, uploaderVars>>

\* A task raises or the pipeline crashes; the files stay where they are.
ChainFails(j) ==
  /\ chain[j].pc \notin {"idle", "done"} /\ faults < MaxFaults
  /\ chain' = [chain EXCEPT ![j].pc = "idle"]
  /\ faults' = faults + 1
  /\ UNCHANGED <<scratch, data, finished, env, uploaderVars>>

-----------------------------------------------------------------------------
Suffix == [early |-> ".warc.gz", warc |-> ".warc.gz", urls |-> ".txt",
           log |-> ".log.gz", json |-> ".json"]

SuffixForgotten(f) ==   \* mutant of ShouldUpload
  Suffix[f.kind] \in {".warc.gz", ".json", ".txt"}

ShouldUpload(f) == Suffix[f.kind] \in {".warc.gz", ".json", ".txt", ".log.gz"}

\* Position in the sorted listing, by slug and time; how "-aborted" sorts among
\* the files of one run is left out.
NameRank(f) == 100 * f.job + 10 * f.run + RenameRank[f.kind]

Moves(u, from, to) == up[u].pc = from /\ up' = [up EXCEPT ![u].pc = to]
Forgets(u, from, to) ==
  up[u].pc = from /\ up' = [up EXCEPT ![u] = [pc |-> to, name |-> None]]

\* os.listdir and sorted; an empty listing only waits.
List(u) ==
  /\ up[u].pc = "list"
  /\ \E f \in finished :
       /\ ShouldUpload(f)
       /\ \A g \in finished : ShouldUpload(g) => NameRank(f) <= NameRank(g)
       /\ up' = [up EXCEPT ![u] = [pc |-> "check", name |-> f]]
  /\ UNCHANGED <<pipelineVars, finished, uploading, stored, env, faults>>

\* os.path.exists in _uploading.
Check(u) ==
  /\ \/ Forgets(u, "check", "list") /\ up[u].name \in uploading
     \/ Moves(u, "check", "take") /\ up[u].name \notin uploading
  /\ UNCHANGED <<pipelineVars, finished, uploading, stored, env, faults>>

TakeAnyway(u) ==   \* mutant of Take
  /\ Moves(u, "take", "send")
  /\ finished' = finished \ {up[u].name}
  /\ uploading' = uploading \cup {up[u].name}
  /\ UNCHANGED <<pipelineVars, stored, env, faults>>

\* os.rename into _uploading, or OSError because another one was faster.
Take(u) ==
  /\ \/ /\ Moves(u, "take", "send") /\ up[u].name \in finished
        /\ finished' = finished \ {up[u].name}
        /\ uploading' = uploading \cup {up[u].name}
     \/ /\ Forgets(u, "take", "list") /\ up[u].name \notin finished
        /\ UNCHANGED <<finished, uploading>>
  /\ UNCHANGED <<pipelineVars, stored, env, faults>>

\* rsync or curl ended with exit code 0.
Sent(u) ==
  /\ ~PrefixMissing
  /\ Moves(u, "send", "remove")
  /\ stored' = stored \cup {up[u].name}
  /\ UNCHANGED <<pipelineVars, finished, uploading, env, faults>>

\* Another exit code; what the target may have got does not count.
NotSent(u) ==
  /\ ~PrefixMissing
  /\ Moves(u, "send", "back")
  /\ UNCHANGED <<pipelineVars, finished, uploading, stored, env, faults>>

\* ia_upload_allowed says no: throttled, rationed or not to be reached.
Throttled(u) ==
  /\ Mode = "s3" /\ ~PrefixMissing
  /\ Moves(u, "send", "back")
  /\ UNCHANGED <<pipelineVars, finished, uploading, stored, env, faults>>

\* ia_s3_ship adds '_' to the prefix, which is None: a TypeError.
PrefixFails(u) ==
  /\ PrefixMissing
  /\ Forgets(u, "send", "stopped")
  /\ UNCHANGED <<pipelineVars, finished, uploading, stored, env, faults>>

Remove(u) ==
  /\ Forgets(u, "remove", "list")
  /\ uploading' = uploading \ {up[u].name}
  /\ UNCHANGED <<pipelineVars, finished, stored, env, faults>>

RenameBack(u) ==
  /\ Forgets(u, "back", "list")
  /\ uploading' = uploading \ {up[u].name}
  /\ finished' = finished \cup {up[u].name}
  /\ UNCHANGED <<pipelineVars, stored, env, faults>>

\* ctrl-c (KeyboardInterrupt passes through main), a crash, and a restart.
Stop(u) ==
  /\ up[u].pc # "stopped" /\ faults < MaxFaults
  /\ up' = [up EXCEPT ![u] = [pc |-> "stopped", name |-> None]]
  /\ faults' = faults + 1
  /\ UNCHANGED <<pipelineVars, finished, uploading, stored, env>>

Restart(u) ==
  /\ Starts
  /\ Forgets(u, "stopped", "list")
  /\ UNCHANGED <<pipelineVars, finished, uploading, stored, env, faults>>

-----------------------------------------------------------------------------
ChainStep(j) ==
  \/ PreparePaths(j) \/ WriteInfo(j) \/ DownloadUrlFile(j) \/ WarcRollsOver(j)
  \/ WpullExits(j) \/ RelabelIfAborted(j) \/ CompressLogIfFailed(j) \/ RenameOutput(j)
  \/ RemoveScratch(j) \/ HandOver(j) \/ ChainEnds(j)

UploadStep(u) ==
  \/ List(u) \/ Check(u) \/ Take(u) \/ Sent(u) \/ NotSent(u) \/ Throttled(u)
  \/ PrefixFails(u) \/ Remove(u) \/ RenameBack(u)

Next ==
  \/ \E j \in Job : ChainStep(j) \/ ChainFails(j)
  \/ \E u \in Uploader : UploadStep(u) \/ Stop(u) \/ Restart(u)

Spec == Init /\ [][Next]_vars

\* A running uploader goes on with its loop, and transfers do not fail for ever.
FairSpec ==
  /\ Spec
  /\ \A u \in Uploader : WF_vars(UploadStep(u)) /\ SF_vars(Sent(u))

-----------------------------------------------------------------------------
Holds(u) == up[u].pc \in {"send", "remove", "back"}

TypeOK ==
  /\ chain \in [Job -> ChainState]
  /\ scratch \in [Job -> SUBSET Kind]
  /\ data \in SUBSET File /\ finished \in SUBSET File
  /\ uploading \in SUBSET File /\ stored \in SUBSET File
  /\ up \in [Uploader -> UploaderState]
  /\ \A u \in Uploader : up[u].name = None <=> up[u].pc \in {"list", "stopped"}
  /\ faults \in 0..MaxFaults

\* No two uploaders work on one file, although both may have listed it and
\* found it absent from _uploading (uploader.py:218-231): of two that rename it
\* one fails, and a file that came back is taken by one again.
OneSender ==
  \A u, v \in Uploader :
    u # v /\ Holds(u) /\ Holds(v) => up[u].name # up[v].name

\* Of a run that ended, every file the crawl wrote is in the finished
\* directory, with an uploader, or stored: nothing is deleted before it was
\* renamed (tasks.py:274-290), and nothing leaves the disk unstored
\* (uploader.py:244-251), whatever uploaders are stopped.
OutputsKept ==
  \A j \in Job :
    chain[j].pc = "done" =>
      \A k \in {"warc", "json"} \cup (IF j \in UrlJob THEN {"urls"} ELSE {})
               \cup (IF chain[j].failed THEN {"log"} ELSE {})
               \cup (IF chain[j].rolled THEN {"early"} ELSE {}) :
        \E f \in finished \cup uploading \cup stored :
          f.job = j /\ f.run = chain[j].run /\ f.kind = k

\* A JSON file that left the item's directory says "aborted" exactly when its
\* name does: the label is chosen after the file was first written, and the
\* second WriteInfo (pipeline.py:171) brings the text up to date.
InfoMatchesLabel ==
  \A f \in data \cup finished \cup uploading \cup stored :
    f.kind = "json" => f.says = f.aborted

\* Files in _uploading that no uploader works on.
Stranded == {f \in uploading : \A u \in Uploader : ~(Holds(u) /\ up[u].name = f)}

\* When a run has ended, all its files get stored, behind whatever sorts before
\* them and however often a transfer fails; only a file whose uploader was
\* stopped may be left behind (uploader.py:211-251).
FilesGetStored ==
  \A j \in Job, r \in 1..MaxRuns :
    (chain[j].pc = "done" /\ chain[j].run = r /\ Starts /\ ~PrefixMissing) ~>
      (\A f \in finished \cup uploading :
         f.job = j /\ f.run = r => f \in stored \cup Stranded)

=============================================================================
