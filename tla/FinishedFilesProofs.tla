------------------------- MODULE FinishedFilesProofs -------------------------
(* Theorems about FinishedFiles, for all values of its constants. *)
EXTENDS FinishedFiles, TLAPS

(***************************************************************************)
(* OneSender needs that a file is in one directory (Apart): else the rename *)
(* of one uploader could find the file that another one has.  Apart needs   *)
(* that a name is given once (Fresh), and InfoMatchesLabel and OutputsKept  *)
(* what each stage of the chain has written and renamed (JobInv).           *)
(***************************************************************************)
OnDisk == data \cup finished \cup uploading
Gone == finished \cup uploading \cup stored

Apart == data \cap finished = {} /\ data \cap uploading = {} /\ finished \cap uploading = {}

HasFile ==
  \A u \in Uploader : /\ Holds(u) => up[u].name \in uploading
                      /\ up[u].pc = "remove" => up[u].name \in stored

BeforeRename == {"info", "urls", "crawl", "relabel", "compress", "info again"}

\* The kinds of which the present run has put no file outside the item's directory.
NotYet(j) ==
  {k \in Kind : IF k = "early" THEN ~chain[j].rolled
                ELSE chain[j].pc \in BeforeRename \/ (chain[j].pc = "rename" /\ k \in scratch[j])}

Fresh(j) ==
  \A f \in OnDisk :
    f.job = j => f.run <= chain[j].run /\ (f.run = chain[j].run => f.kind \notin NotYet(j))

\* What is in the item's directory before the first rename.
Written(j) ==
  /\ chain[j].pc \in BeforeRename \ {"info"} => "json" \in scratch[j]
  /\ chain[j].pc \in BeforeRename \ {"info", "urls"} /\ j \in UrlJob => "urls" \in scratch[j]
  /\ chain[j].pc \in {"relabel", "compress", "info again"} => "warc" \in scratch[j]
  /\ chain[j].pc = "info again" /\ chain[j].failed => "log" \in scratch[j]

Renamed(j) ==
  \A k \in Outputs(j) :
    /\ chain[j].pc = "rename" => k \in scratch[j] \/ TargetName(j, k) \in data \cup Gone
    /\ chain[j].pc = "hand over" => TargetName(j, k) \in data \cup Gone
    /\ chain[j].pc = "done" => TargetName(j, k) \in Gone

JobInv(j) ==
  /\ chain[j].pc # "idle" => chain[j].run >= 1
  /\ chain[j].pc = "rename" => chain[j].info = chain[j].aborted
  /\ chain[j].rolled => Name(j, "early", FALSE) \in Gone
  /\ Fresh(j) /\ Written(j) /\ Renamed(j)

FilesInv ==
  TypeOK /\ Apart /\ HasFile /\ OneSender /\ InfoMatchesLabel /\ \A j \in Job : JobInv(j)

-----------------------------------------------------------------------------
LEMMA NamesAreFiles ==
  ASSUME TypeOK, NEW j \in Job, chain[j].run >= 1, NEW k \in Kind, NEW label \in BOOLEAN
  PROVE  /\ Name(j, k, label) \in File /\ TargetName(j, k) \in File
         /\ TargetName(j, k).job = j /\ TargetName(j, k).kind = k
         /\ TargetName(j, k).run = chain[j].run
<1>1. /\ chain[j].run \in 1..MaxRuns /\ chain[j].info \in BOOLEAN /\ chain[j].aborted \in BOOLEAN
  BY JobAssumption DEF TypeOK, ChainState
<1>2. (k # "urls" /\ chain[j].aborted) \in BOOLEAN
  OBVIOUS
<1> QED BY <1>1, <1>2 DEF Name, TargetName, File

LEMMA OutputKinds == \A j : Outputs(j) \subseteq Kind
  BY DEF Outputs, Kind

LEMMA FileTypes == FilesInv /\ [Next]_vars => TypeOK'
<1> SUFFICES ASSUME FilesInv, [Next]_vars PROVE TypeOK'
  OBVIOUS
<1>1. TypeOK /\ HasFile /\ \A j \in Job : JobInv(j)
  BY DEF FilesInv
<1> USE JobAssumption, NoneAssumption DEF TypeOK
<1>0. /\ "idle" \in Stage /\ "info" \in Stage /\ "urls" \in Stage /\ "crawl" \in Stage
      /\ "relabel" \in Stage /\ "compress" \in Stage /\ "info again" \in Stage
      /\ "rename" \in Stage /\ "hand over" \in Stage /\ "done" \in Stage
  BY DEF Stage
<1>2. ASSUME NEW j \in Job, ChainStep(j) PROVE TypeOK'
  <2>1. CASE PreparePaths(j)
    <3>1. chain' \in [Job -> ChainState]
      <4>1. /\ chain' = [chain EXCEPT ![j] = [pc |-> "info", run |-> @.run + 1, aborted |-> FALSE,
                                              failed |-> FALSE, rolled |-> FALSE, info |-> FALSE]]
            /\ chain[j].run < MaxRuns
        BY <2>1 DEF PreparePaths
      <4>2. chain[j].run + 1 \in 0..MaxRuns
        BY <1>1, <4>1 DEF ChainState
      <4> QED BY <1>0, <1>1, <4>1, <4>2 DEF ChainState
    <3>2. scratch' \in [Job -> SUBSET Kind]
      BY <1>1, <2>1 DEF PreparePaths
    <3> QED BY <1>1, <2>1, <3>1, <3>2 DEF PreparePaths, uploaderVars
  <2>2. CASE WriteInfo(j)
    <3>1. chain' \in [Job -> ChainState]
      <4>1. chain' = [chain EXCEPT ![j].info = chain[j].aborted,
                                    ![j].pc = IF @ = "info" THEN "urls" ELSE "rename"]
        BY <2>2 DEF WriteInfo
      <4>2. PICK p \in Stage : p = IF chain[j].pc = "info" THEN "urls" ELSE "rename"
        BY <1>0
      <4>3. PICK c : c = [chain[j] EXCEPT !.info = chain[j].aborted, !.pc = p]
        OBVIOUS
      <4>4. chain' = [chain EXCEPT ![j] = c]
        BY <1>1, <4>1, <4>2, <4>3 DEF ChainState
      <4>5. c \in ChainState
        BY <1>1, <4>3 DEF ChainState
      <4> QED BY <1>1, <4>4, <4>5
    <3>2. scratch' \in [Job -> SUBSET Kind]
      BY <1>1, <2>2 DEF WriteInfo, Kind
    <3> QED BY <1>1, <2>2, <3>1, <3>2 DEF WriteInfo, uploaderVars
  <2>3. CASE DownloadUrlFile(j)
    <3>1. chain' \in [Job -> ChainState]
      BY <1>1, <1>0, <2>3 DEF DownloadUrlFile, ChainState
    <3>2. scratch' \in [Job -> SUBSET Kind]
      BY <1>1, <2>3 DEF DownloadUrlFile, Kind
    <3> QED BY <1>1, <2>3, <3>1, <3>2 DEF DownloadUrlFile, uploaderVars
  <2>4. CASE WarcRollsOver(j)
    <3>1. chain' \in [Job -> ChainState]
      BY <1>1, <1>0, <2>4 DEF WarcRollsOver, ChainState
    <3>2. Name(j, "early", FALSE) \in File
      BY <1>1, <2>4, NamesAreFiles DEF WarcRollsOver, JobInv, Kind
    <3> QED BY <1>1, <2>4, <3>1, <3>2 DEF WarcRollsOver, uploaderVars
  <2>5. CASE WpullExits(j)
    <3>1. chain' \in [Job -> ChainState]
      <4>1. PICK failed \in BOOLEAN :
              chain' = [chain EXCEPT ![j].pc = "relabel", ![j].failed = failed]
        BY <2>5 DEF WpullExits
      <4>2. PICK c : c = [chain[j] EXCEPT !.pc = "relabel", !.failed = failed]
        OBVIOUS
      <4>3. chain' = [chain EXCEPT ![j] = c]
        BY <1>1, <4>1, <4>2 DEF ChainState
      <4>4. c \in ChainState
        BY <1>0, <1>1, <4>2 DEF ChainState
      <4> QED BY <1>1, <4>3, <4>4
    <3>2. scratch' \in [Job -> SUBSET Kind]
      BY <1>1, <2>5 DEF WpullExits, Kind
    <3> QED BY <1>1, <2>5, <3>1, <3>2 DEF WpullExits, uploaderVars
  <2>6. CASE RelabelIfAborted(j)
    <3>1. chain' \in [Job -> ChainState]
      <4>1. PICK aborted \in BOOLEAN :
              chain' = [chain EXCEPT ![j].pc = "compress", ![j].aborted = aborted]
        BY <2>6 DEF RelabelIfAborted
      <4>2. PICK c : c = [chain[j] EXCEPT !.pc = "compress", !.aborted = aborted]
        OBVIOUS
      <4>3. chain' = [chain EXCEPT ![j] = c]
        BY <1>1, <4>1, <4>2 DEF ChainState
      <4>4. c \in ChainState
        BY <1>0, <1>1, <4>2 DEF ChainState
      <4> QED BY <1>1, <4>3, <4>4
    <3> QED BY <1>1, <2>6, <3>1 DEF RelabelIfAborted, uploaderVars
  <2>7. CASE CompressLogIfFailed(j)
    <3>1. chain' \in [Job -> ChainState]
      BY <1>1, <1>0, <2>7 DEF CompressLogIfFailed, ChainState
    <3>2. scratch' \in [Job -> SUBSET Kind]
      BY <1>1, <2>7 DEF CompressLogIfFailed, Kind
    <3> QED BY <1>1, <2>7, <3>1, <3>2 DEF CompressLogIfFailed, uploaderVars
  <2>8. CASE RenameOutput(j)
    <3>1. PICK k \in Outputs(j) \cap scratch[j] :
            scratch' = [scratch EXCEPT ![j] = @ \ {k}] /\ data' = data \cup {TargetName(j, k)}
      BY <2>8 DEF RenameOutput
    <3>2. TargetName(j, k) \in File
      BY <1>1, <2>8, OutputKinds, NamesAreFiles DEF RenameOutput, JobInv
    <3>3. scratch' \in [Job -> SUBSET Kind]
      BY <1>1, <3>1
    <3> QED BY <1>1, <2>8, <3>1, <3>2, <3>3 DEF RenameOutput, uploaderVars
  <2>9. CASE RemoveScratch(j)
    <3>1. chain' \in [Job -> ChainState]
      <4>1. chain' = [chain EXCEPT ![j].pc = "hand over"]
        BY <2>9 DEF RemoveScratch
      <4> QED BY <1>0, <1>1, <4>1 DEF ChainState
    <3>2. scratch' \in [Job -> SUBSET Kind]
      BY <1>1, <2>9 DEF RemoveScratch
    <3> QED BY <1>1, <2>9, <3>1, <3>2 DEF RemoveScratch, uploaderVars
  <2>10. CASE HandOver(j)
    BY <1>1, <2>10 DEF HandOver, uploaderVars
  <2>11. CASE ChainEnds(j)
    <3>1. chain' \in [Job -> ChainState]
      <4>1. chain' = [chain EXCEPT ![j].pc = "done"]
        BY <2>11 DEF ChainEnds
      <4> QED BY <1>0, <1>1, <4>1 DEF ChainState
    <3> QED BY <1>1, <2>11, <3>1 DEF ChainEnds, uploaderVars
  <2> QED BY <1>2, <2>1, <2>2, <2>3, <2>4, <2>5, <2>6, <2>7, <2>8, <2>9, <2>10,
             <2>11 DEF ChainStep
<1>3. ASSUME NEW j \in Job, ChainFails(j) PROVE TypeOK'
  <2>1. chain' \in [Job -> ChainState]
    BY <1>1, <1>0, <1>3 DEF ChainFails, ChainState
  <2> QED BY <1>1, <1>3, <2>1 DEF ChainFails, uploaderVars
<1>4. ASSUME NEW u \in Uploader, UploadStep(u) PROVE TypeOK'
  <2>1. CASE List(u)
    <3>1. PICK f \in finished : up' = [up EXCEPT ![u] = [pc |-> "check", name |-> f]]
      BY <2>1 DEF List
    <3>2. up' \in [Uploader -> UploaderState]
      BY <1>1, <3>1 DEF UploaderState
    <3>3. \A v \in Uploader : up'[v].name = None <=> up'[v].pc \in {"list", "stopped"}
      BY <1>1, <3>1
    <3> QED BY <1>1, <2>1, <3>2, <3>3 DEF List, pipelineVars
  <2>2. ASSUME NEW from, NEW to \in {"list", "stopped"}, Forgets(u, from, to)
        PROVE  /\ up' \in [Uploader -> UploaderState]
               /\ \A v \in Uploader : up'[v].name = None <=> up'[v].pc \in {"list", "stopped"}
    <3>1. up' \in [Uploader -> UploaderState]
      BY <1>1, <2>2 DEF Forgets, UploaderState
    <3>2. \A v \in Uploader : up'[v].name = None <=> up'[v].pc \in {"list", "stopped"}
      BY <1>1, <2>2 DEF Forgets
    <3> QED BY <3>1, <3>2
  <2>3. ASSUME NEW from \in {"check", "take", "send"}, NEW to \in {"take", "send", "remove", "back"},
               Moves(u, from, to)
        PROVE  /\ up' \in [Uploader -> UploaderState]
               /\ \A v \in Uploader : up'[v].name = None <=> up'[v].pc \in {"list", "stopped"}
    <3>1. up' \in [Uploader -> UploaderState]
      BY <1>1, <2>3 DEF Moves, UploaderState
    <3>2. \A v \in Uploader : up'[v].name = None <=> up'[v].pc \in {"list", "stopped"}
      BY <1>1, <2>3 DEF Moves, UploaderState
    <3> QED BY <3>1, <3>2
  <2>4. up[u].pc \notin {"list", "stopped"} => up[u].name \in File
    BY <1>1 DEF UploaderState
  <2>5. CASE Check(u)
    BY <1>1, <2>2, <2>3, <2>5 DEF Check, pipelineVars
  <2>6. CASE Take(u)
    <3>1. CASE Moves(u, "take", "send")
      BY <1>1, <2>3, <2>4, <2>6, <3>1 DEF Take, pipelineVars, Moves
    <3>2. CASE Forgets(u, "take", "list") /\ UNCHANGED <<finished, uploading>>
      BY <1>1, <2>2, <2>6, <3>2 DEF Take, pipelineVars
    <3> QED BY <2>6, <3>1, <3>2 DEF Take
  <2>7. CASE Sent(u)
    BY <1>1, <2>3, <2>4, <2>7 DEF Sent, pipelineVars, Moves
  <2>8. CASE NotSent(u) \/ Throttled(u)
    BY <1>1, <2>3, <2>8 DEF NotSent, Throttled, pipelineVars
  <2>9. CASE PrefixFails(u)
    BY <1>1, <2>2, <2>9 DEF PrefixFails, pipelineVars
  <2>10. CASE Remove(u)
    BY <1>1, <2>2, <2>10 DEF Remove, pipelineVars
  <2>11. CASE RenameBack(u)
    BY <1>1, <2>2, <2>4, <2>11 DEF RenameBack, pipelineVars, Forgets
  <2> QED BY <1>4, <2>1, <2>5, <2>6, <2>7, <2>8, <2>9, <2>10, <2>11 DEF UploadStep
<1>5. ASSUME NEW u \in Uploader, Stop(u) \/ Restart(u) PROVE TypeOK'
  <2>1. PICK to \in {"list", "stopped"} : up' = [up EXCEPT ![u] = [pc |-> to, name |-> None]]
    BY <1>5 DEF Stop, Restart, Forgets
  <2>2. up' \in [Uploader -> UploaderState]
    BY <1>1, <2>1 DEF UploaderState
  <2>3. \A v \in Uploader : up'[v].name = None <=> up'[v].pc \in {"list", "stopped"}
    BY <1>1, <2>1
  <2> QED BY <1>1, <1>5, <2>2, <2>3 DEF Stop, Restart, pipelineVars
<1>6. CASE UNCHANGED vars
  BY <1>1, <1>6 DEF vars
<1> QED BY <1>2, <1>3, <1>4, <1>5, <1>6 DEF Next

-----------------------------------------------------------------------------
(* The chain of a job, as far as the invariant looks at it. *)

\* Of a job whose chain does not move: its files do not get lost, and no other
\* file of the run appears.
LEMMA OthersKeep ==
  ASSUME NEW j \in Job, JobInv(j), chain'[j] = chain[j], scratch'[j] = scratch[j],
         data \cup Gone \subseteq data' \cup Gone', Gone \subseteq Gone',
         \A f \in OnDisk' : f \in OnDisk \/ f.job # j
  PROVE  JobInv(j)'
<1>1. Fresh(j)'
  BY DEF JobInv, Fresh, NotYet
<1>2. Written(j)'
  BY DEF JobInv, Written
<1>3. Renamed(j)'
  <2>1. Outputs(j)' = Outputs(j) /\ \A k : TargetName(j, k)' = TargetName(j, k)
    BY DEF Outputs, TargetName, Name
  <2> QED BY <2>1 DEF JobInv, Renamed
<1>4. chain'[j].rolled => Name(j, "early", FALSE)' \in Gone'
  BY DEF JobInv, Name
<1> QED BY <1>1, <1>2, <1>3, <1>4 DEF JobInv

\* Steps of the chain that touch no file outside the item's directory.
LEMMA InsideStep ==
  ASSUME FilesInv, NEW j \in Job,
         \/ PreparePaths(j) \/ WriteInfo(j) \/ DownloadUrlFile(j) \/ WpullExits(j)
         \/ RelabelIfAborted(j) \/ CompressLogIfFailed(j) \/ RemoveScratch(j)
         \/ ChainEnds(j) \/ ChainFails(j)
  PROVE  JobInv(j)'
<1>1. TypeOK /\ JobInv(j) /\ chain[j] \in ChainState
  BY DEF FilesInv, TypeOK
<1>2. UNCHANGED <<data, finished, uploading, stored>>
  BY DEF PreparePaths, WriteInfo, DownloadUrlFile, WpullExits, RelabelIfAborted,
         CompressLogIfFailed, RemoveScratch, ChainEnds, ChainFails, uploaderVars
<1>3. OnDisk' = OnDisk /\ Gone' = Gone
  BY <1>2 DEF OnDisk, Gone
<1>4. CASE PreparePaths(j)
  <2>1. /\ chain'[j].pc = "info" /\ chain'[j].run = chain[j].run + 1 /\ ~chain'[j].rolled
        /\ chain[j].run \in Nat
    BY <1>1, <1>4, JobAssumption DEF PreparePaths, TypeOK, ChainState
  <2>2. Fresh(j)'
    <3>1. ASSUME NEW f \in OnDisk, f.job = j PROVE f.run <= chain[j].run /\ f.run \in Nat
      BY <1>1, <3>1, JobAssumption DEF JobInv, Fresh, OnDisk, TypeOK, File
    <3> QED BY <1>3, <2>1, <3>1 DEF Fresh
  <2>3. Written(j)' /\ Renamed(j)'
    BY <2>1 DEF Written, Renamed
  <2>4. chain'[j].run >= 1
    BY <2>1
  <2> QED BY <2>1, <2>2, <2>3, <2>4 DEF JobInv
<1> DEFINE same == /\ chain'[j].run = chain[j].run /\ chain'[j].rolled = chain[j].rolled
<1>5. ASSUME same, Written(j)', Renamed(j)',
             NotYet(j)' \subseteq NotYet(j), chain'[j].pc # "idle" => chain[j].pc # "idle",
             chain'[j].pc = "rename" => chain'[j].info = chain'[j].aborted
      PROVE  JobInv(j)'
  <2>1. Fresh(j)'
    BY <1>1, <1>3, <1>5 DEF JobInv, Fresh
  <2>2. Name(j, "early", FALSE)' = Name(j, "early", FALSE)
    BY <1>5 DEF Name
  <2> QED BY <1>1, <1>3, <1>5, <2>1, <2>2 DEF JobInv
<1>6. CASE WriteInfo(j)
  <2>1. /\ same /\ chain'[j].failed = chain[j].failed /\ chain'[j].info = chain'[j].aborted
        /\ chain[j].pc \in {"info", "info again"}
        /\ chain'[j].pc = IF chain[j].pc = "info" THEN "urls" ELSE "rename"
        /\ scratch'[j] = scratch[j] \cup {"json"}
    BY <1>1, <1>6 DEF WriteInfo, TypeOK, ChainState
  <2>2. NotYet(j)' \subseteq NotYet(j)
    BY <2>1 DEF NotYet, BeforeRename
  <2>3. Written(j)'
    BY <2>1 DEF Written, BeforeRename
  <2>4. Renamed(j)'
    <3>1. ASSUME chain[j].pc = "info again", NEW k \in Outputs(j)' PROVE k \in scratch'[j]
      BY <1>1, <2>1, <3>1 DEF JobInv, Written, BeforeRename, Outputs
    <3> QED BY <2>1, <3>1 DEF Renamed
  <2> QED BY <1>5, <2>1, <2>2, <2>3, <2>4
<1>7. CASE DownloadUrlFile(j)
  <2>1. /\ same /\ chain[j].pc = "urls" /\ chain'[j].pc = "crawl"
        /\ scratch'[j] = scratch[j] \cup (IF j \in UrlJob THEN {"urls"} ELSE {})
    BY <1>1, <1>7 DEF DownloadUrlFile, TypeOK, ChainState
  <2>2. NotYet(j)' \subseteq NotYet(j)
    BY <2>1 DEF NotYet, BeforeRename
  <2>3. Written(j)' /\ Renamed(j)'
    BY <1>1, <2>1 DEF JobInv, Written, Renamed, BeforeRename
  <2> QED BY <1>5, <2>1, <2>2, <2>3
<1>8. CASE WpullExits(j)
  <2>1. /\ same /\ chain[j].pc = "crawl" /\ chain'[j].pc = "relabel"
        /\ scratch'[j] = scratch[j] \cup {"warc"}
    <3>1. PICK failed \in BOOLEAN :
            chain' = [chain EXCEPT ![j].pc = "relabel", ![j].failed = failed]
      BY <1>8 DEF WpullExits
    <3>2. chain'[j] = [chain[j] EXCEPT !.pc = "relabel", !.failed = failed]
      BY <1>1, <3>1 DEF TypeOK
    <3> QED BY <1>1, <1>8, <3>2 DEF WpullExits, TypeOK, ChainState
  <2>2. NotYet(j)' \subseteq NotYet(j)
    BY <2>1 DEF NotYet, BeforeRename
  <2>3. Written(j)' /\ Renamed(j)'
    BY <1>1, <2>1 DEF JobInv, Written, Renamed, BeforeRename
  <2> QED BY <1>5, <2>1, <2>2, <2>3
<1>9. CASE RelabelIfAborted(j)
  <2>1. /\ same /\ chain[j].pc = "relabel" /\ chain'[j].pc = "compress" /\ scratch'[j] = scratch[j]
    <3>1. PICK aborted \in BOOLEAN :
            chain' = [chain EXCEPT ![j].pc = "compress", ![j].aborted = aborted]
      BY <1>9 DEF RelabelIfAborted
    <3>2. chain'[j] = [chain[j] EXCEPT !.pc = "compress", !.aborted = aborted]
      BY <1>1, <3>1 DEF TypeOK
    <3> QED BY <1>1, <1>9, <3>2 DEF RelabelIfAborted, ChainState
  <2>2. NotYet(j)' \subseteq NotYet(j)
    BY <2>1 DEF NotYet, BeforeRename
  <2>3. Written(j)' /\ Renamed(j)'
    BY <1>1, <2>1 DEF JobInv, Written, Renamed, BeforeRename
  <2> QED BY <1>5, <2>1, <2>2, <2>3
<1>10. CASE CompressLogIfFailed(j)
  <2>1. /\ same /\ chain[j].pc = "compress" /\ chain'[j].pc = "info again"
        /\ chain'[j].failed = chain[j].failed
        /\ scratch'[j] = scratch[j] \cup (IF chain[j].failed THEN {"log"} ELSE {})
    BY <1>1, <1>10 DEF CompressLogIfFailed, TypeOK, ChainState
  <2>2. NotYet(j)' \subseteq NotYet(j)
    BY <2>1 DEF NotYet, BeforeRename
  <2>3. Written(j)' /\ Renamed(j)'
    BY <1>1, <2>1 DEF JobInv, Written, Renamed, BeforeRename
  <2> QED BY <1>5, <2>1, <2>2, <2>3
<1>11. CASE RemoveScratch(j)
  <2>1. /\ chain' = [chain EXCEPT ![j].pc = "hand over"] /\ chain[j].pc = "rename"
        /\ Outputs(j) \cap scratch[j] = {}
    BY <1>11 DEF RemoveScratch
  <2>2. chain'[j] = [chain[j] EXCEPT !.pc = "hand over"]
    BY <1>1, <2>1 DEF TypeOK
  <2>3. same /\ chain'[j].pc = "hand over"
    BY <1>1, <2>2 DEF ChainState
  <2>4. NotYet(j)' \subseteq NotYet(j)
    BY <2>3 DEF NotYet, BeforeRename
  <2>5. Outputs(j)' = Outputs(j) /\ \A k : TargetName(j, k)' = TargetName(j, k)
    BY <1>1, <2>2 DEF Outputs, TargetName, Name, ChainState
  <2>6. \A k \in Outputs(j) : TargetName(j, k) \in data \cup Gone
    BY <1>1, <2>1 DEF JobInv, Renamed
  <2>7. Written(j)' /\ Renamed(j)'
    BY <1>2, <1>3, <2>3, <2>5, <2>6 DEF Written, Renamed, BeforeRename
  <2> QED BY <1>5, <2>3, <2>4, <2>7, <2>1
<1>12. CASE ChainEnds(j)
  <2>1. /\ chain' = [chain EXCEPT ![j].pc = "done"] /\ chain[j].pc = "hand over"
        /\ data \cap Targets(j) = {}
    BY <1>12 DEF ChainEnds
  <2>2. chain'[j] = [chain[j] EXCEPT !.pc = "done"]
    BY <1>1, <2>1 DEF TypeOK
  <2>3. same /\ chain'[j].pc = "done"
    BY <1>1, <2>2 DEF ChainState
  <2>4. NotYet(j)' \subseteq NotYet(j)
    BY <2>3 DEF NotYet, BeforeRename
  <2>5. Outputs(j)' = Outputs(j) /\ \A k : TargetName(j, k)' = TargetName(j, k)
    BY <1>1, <2>2 DEF Outputs, TargetName, Name, ChainState
  <2>6. \A k \in Outputs(j) : TargetName(j, k) \in Gone
    BY <1>1, <2>1 DEF JobInv, Renamed, Targets
  <2>7. Written(j)' /\ Renamed(j)'
    BY <1>3, <2>3, <2>5, <2>6 DEF Written, Renamed, BeforeRename
  <2> QED BY <1>5, <2>1, <2>3, <2>4, <2>7
<1>13. CASE ChainFails(j)
  <2>1. same /\ chain'[j].pc = "idle"
    BY <1>1, <1>13 DEF ChainFails, TypeOK, ChainState
  <2>2. NotYet(j)' \subseteq NotYet(j)
    BY <2>1 DEF NotYet, BeforeRename
  <2>3. Written(j)' /\ Renamed(j)'
    BY <2>1 DEF Written, Renamed, BeforeRename
  <2> QED BY <1>5, <2>1, <2>2, <2>3
<1> QED BY <1>4, <1>6, <1>7, <1>8, <1>9, <1>10, <1>11, <1>12, <1>13

\* Steps of the chain that put a file somewhere.
LEMMA OutsideStep ==
  ASSUME FilesInv, NEW j \in Job, WarcRollsOver(j) \/ RenameOutput(j) \/ HandOver(j)
  PROVE  /\ JobInv(j)' /\ Apart' /\ InfoMatchesLabel'
         /\ uploading' = uploading /\ stored' = stored /\ finished \subseteq finished'
         /\ data \cup Gone \subseteq data' \cup Gone'
         /\ \A f \in OnDisk' : f \in OnDisk \/ f.job = j
<1>1. /\ TypeOK /\ Apart /\ InfoMatchesLabel /\ JobInv(j) /\ chain[j] \in ChainState
      /\ scratch[j] \subseteq Kind
  BY DEF FilesInv, TypeOK
<1>2. CASE WarcRollsOver(j)
  <2>1. PICK n : n = Name(j, "early", FALSE)
    OBVIOUS
  <2>2. /\ chain' = [chain EXCEPT ![j].rolled = TRUE] /\ chain[j].pc = "crawl"
        /\ ~chain[j].rolled /\ scratch' = scratch
        /\ data' = data /\ uploading' = uploading /\ stored' = stored /\ finished' = finished \cup {n}
    BY <1>2, <2>1 DEF WarcRollsOver, uploaderVars
  <2>3. /\ chain'[j].pc = "crawl" /\ chain'[j].rolled /\ chain'[j].run = chain[j].run
        /\ chain'[j].failed = chain[j].failed
    BY <1>1, <2>2 DEF TypeOK, ChainState
  <2>4. n.job = j /\ n.run = chain[j].run /\ n.kind = "early"
    BY <2>1 DEF Name
  <2>5. n \notin OnDisk
    BY <1>1, <2>2, <2>4 DEF JobInv, Fresh, NotYet, Kind
  <2>6. OnDisk' = OnDisk \cup {n} /\ Gone' = Gone \cup {n}
    BY <2>2 DEF OnDisk, Gone
  <2>7. Fresh(j)'
    <3>1. chain[j].run \in Nat
      BY <1>1, JobAssumption DEF ChainState
    <3>2. "early" \notin NotYet(j)' /\ NotYet(j)' \subseteq NotYet(j)
      BY <2>2, <2>3 DEF NotYet, BeforeRename
    <3> QED BY <1>1, <2>3, <2>4, <2>6, <3>1, <3>2 DEF JobInv, Fresh
  <2>8. Written(j)' /\ Renamed(j)'
    BY <1>1, <2>2, <2>3 DEF JobInv, Written, Renamed, BeforeRename
  <2>9. Name(j, "early", FALSE)' \in Gone'
    BY <2>1, <2>3, <2>6 DEF Name
  <2>10. JobInv(j)'
    BY <1>1, <2>2, <2>3, <2>7, <2>8, <2>9 DEF JobInv
  <2>11. Apart'
    BY <1>1, <2>2, <2>5 DEF Apart, OnDisk
  <2>12. InfoMatchesLabel'
    BY <1>1, <2>2, <2>4 DEF InfoMatchesLabel
  <2> QED BY <2>2, <2>4, <2>6, <2>10, <2>11, <2>12
<1>3. CASE RenameOutput(j)
  <2>1. PICK k \in Outputs(j) \cap scratch[j] :
          scratch' = [scratch EXCEPT ![j] = @ \ {k}] /\ data' = data \cup {TargetName(j, k)}
    BY <1>3 DEF RenameOutput
  <2>2. PICK n : n = TargetName(j, k)
    OBVIOUS
  <2>3. /\ chain[j].pc = "rename" /\ chain' = chain /\ scratch'[j] = scratch[j] \ {k}
        /\ data' = data \cup {n} /\ uploading' = uploading /\ stored' = stored
        /\ finished' = finished
    BY <1>1, <1>3, <2>1, <2>2 DEF RenameOutput, uploaderVars, TypeOK
  <2>4. /\ n.job = j /\ n.run = chain[j].run /\ n.kind = k /\ k # "early" /\ k \in Kind
        /\ n.kind = "json" => n.says = n.aborted
    <3>1. k # "early" /\ k \in Kind
      BY <1>1, <2>1 DEF Outputs
    <3>2. n.job = j /\ n.run = chain[j].run /\ n.kind = k
      BY <2>2 DEF TargetName, Name
    <3>3. ASSUME k = "json" PROVE n.says = n.aborted
      <4>1. chain[j].info = chain[j].aborted /\ chain[j].aborted \in BOOLEAN
        BY <1>1, <2>3 DEF JobInv, ChainState
      <4>2. (k # "urls" /\ chain[j].aborted) = chain[j].aborted
        BY <3>3, <4>1
      <4>3. n.says = chain[j].info /\ n.aborted = (k # "urls" /\ chain[j].aborted)
        BY <2>2, <3>3 DEF TargetName, Name
      <4> QED BY <4>1, <4>2, <4>3
    <3> QED BY <3>1, <3>2, <3>3
  <2>5. n \notin OnDisk
    BY <1>1, <2>1, <2>3, <2>4 DEF JobInv, Fresh, NotYet
  <2>6. OnDisk' = OnDisk \cup {n} /\ Gone' = Gone
    BY <2>3 DEF OnDisk, Gone
  <2>7. Fresh(j)'
    <3>1. chain[j].run \in Nat
      BY <1>1, JobAssumption DEF ChainState
    <3>2. k \notin NotYet(j)' /\ NotYet(j)' \subseteq NotYet(j)
      BY <2>3, <2>4 DEF NotYet, BeforeRename
    <3> QED BY <1>1, <2>3, <2>4, <2>6, <3>1, <3>2 DEF JobInv, Fresh
  <2>8. Written(j)'
    BY <2>3 DEF Written, BeforeRename
  <2>9. Renamed(j)'
    <3>1. Outputs(j)' = Outputs(j) /\ \A l : TargetName(j, l)' = TargetName(j, l)
      BY <2>3 DEF Outputs, TargetName, Name
    <3>2. \A l \in Outputs(j) : l \in scratch'[j] \/ TargetName(j, l) \in data' \cup Gone'
      BY <1>1, <2>2, <2>3, <2>6 DEF JobInv, Renamed
    <3> QED BY <2>3, <3>1, <3>2 DEF Renamed
  <2>10. Name(j, "early", FALSE)' = Name(j, "early", FALSE)
    BY <2>3 DEF Name
  <2>11. JobInv(j)'
    BY <1>1, <2>3, <2>6, <2>7, <2>8, <2>9, <2>10 DEF JobInv
  <2>12. Apart'
    BY <1>1, <2>3, <2>5 DEF Apart, OnDisk
  <2>13. InfoMatchesLabel'
    BY <1>1, <2>3, <2>4 DEF InfoMatchesLabel
  <2> QED BY <2>3, <2>4, <2>6, <2>11, <2>12, <2>13
<1>4. CASE HandOver(j)
  <2>1. PICK f \in data \cap Targets(j) : data' = data \ {f} /\ finished' = finished \cup {f}
    BY <1>4 DEF HandOver
  <2>2. /\ chain' = chain /\ scratch' = scratch /\ uploading' = uploading /\ stored' = stored
        /\ chain[j].pc = "hand over"
    BY <1>4 DEF HandOver, uploaderVars
  <2>3. OnDisk' = OnDisk /\ data' \cup Gone' = data \cup Gone /\ Gone \subseteq Gone'
    BY <2>1, <2>2 DEF OnDisk, Gone
  <2>4. JobInv(j)'
    <3>1. Fresh(j)' /\ Written(j)'
      BY <1>1, <2>2, <2>3 DEF JobInv, Fresh, NotYet, Written
    <3>2. Outputs(j)' = Outputs(j) /\ \A l : TargetName(j, l)' = TargetName(j, l)
      BY <2>2 DEF Outputs, TargetName, Name
    <3>3. Renamed(j)'
      BY <1>1, <2>2, <2>3, <3>2 DEF JobInv, Renamed
    <3>4. Name(j, "early", FALSE)' = Name(j, "early", FALSE)
      BY <2>2 DEF Name
    <3> QED BY <1>1, <2>2, <2>3, <3>1, <3>3, <3>4 DEF JobInv
  <2>5. Apart'
    BY <1>1, <2>1, <2>2 DEF Apart
  <2>6. InfoMatchesLabel'
    BY <1>1, <2>1, <2>2 DEF InfoMatchesLabel
  <2> QED BY <2>1, <2>2, <2>3, <2>4, <2>5, <2>6
<1> QED BY <1>2, <1>3, <1>4

LEMMA ChainKeeps ==
  ASSUME FilesInv, NEW j \in Job, ChainStep(j) \/ ChainFails(j)
  PROVE  Apart' /\ HasFile' /\ OneSender' /\ InfoMatchesLabel' /\ \A i \in Job : JobInv(i)'
<1>1. TypeOK /\ Apart /\ HasFile /\ OneSender /\ InfoMatchesLabel /\ \A i \in Job : JobInv(i)
  BY DEF FilesInv
<1>2. UNCHANGED uploaderVars
  BY DEF ChainStep, ChainFails, PreparePaths, WriteInfo, DownloadUrlFile, WarcRollsOver,
         WpullExits, RelabelIfAborted, CompressLogIfFailed, RenameOutput, RemoveScratch,
         HandOver, ChainEnds
<1>3. HasFile' /\ OneSender'
  BY <1>1, <1>2 DEF HasFile, OneSender, Holds, uploaderVars
<1>4. /\ JobInv(j)' /\ Apart' /\ InfoMatchesLabel'
      /\ data \cup Gone \subseteq data' \cup Gone' /\ Gone \subseteq Gone'
      /\ \A f \in OnDisk' : f \in OnDisk \/ f.job = j
  <2>1. CASE WarcRollsOver(j) \/ RenameOutput(j) \/ HandOver(j)
    BY <2>1, OutsideStep DEF Gone
  <2>2. CASE ~(WarcRollsOver(j) \/ RenameOutput(j) \/ HandOver(j))
    <3>1. JobInv(j)'
      BY <2>2, InsideStep DEF ChainStep
    <3>2. UNCHANGED <<data, finished, uploading, stored>>
      BY <2>2 DEF ChainStep, ChainFails, PreparePaths, WriteInfo, DownloadUrlFile,
         WpullExits,
                  RelabelIfAborted, CompressLogIfFailed, RemoveScratch, ChainEnds, uploaderVars
    <3> QED BY <1>1, <3>1, <3>2 DEF Apart, InfoMatchesLabel, Gone, OnDisk
  <2> QED BY <2>1, <2>2
<1>5. ASSUME NEW i \in Job, i # j PROVE JobInv(i)'
  <2>1. chain'[i] = chain[i] /\ scratch'[i] = scratch[i]
    BY <1>1, <1>5 DEF ChainStep, ChainFails, PreparePaths, WriteInfo, DownloadUrlFile,
         WarcRollsOver, WpullExits, RelabelIfAborted, CompressLogIfFailed, RenameOutput,
         RemoveScratch, HandOver, ChainEnds, TypeOK
  <2>2. \A f \in OnDisk' : f \in OnDisk \/ f.job # i
    BY <1>4, <1>5
  <2> QED BY <1>1, <1>4, <2>1, <2>2, OthersKeep
<1> QED BY <1>3, <1>4, <1>5

-----------------------------------------------------------------------------
(* The uploaders *)

\* Whatever an uploader does, no file appears or gets lost.
LEMMA UploaderMovesFiles ==
  ASSUME FilesInv, NEW u \in Uploader, UploadStep(u) \/ Stop(u) \/ Restart(u)
  PROVE  /\ chain' = chain /\ scratch' = scratch /\ data' = data
         /\ Gone' = Gone /\ finished' \cup uploading' \subseteq finished \cup uploading
         /\ Apart'
<1>1. TypeOK /\ Apart /\ HasFile
  BY DEF FilesInv
<1>2. CASE List(u) \/ Check(u) \/ NotSent(u) \/ Throttled(u) \/ PrefixFails(u) \/ Stop(u) \/ Restart(u)
  BY <1>1, <1>2 DEF List, Check, NotSent, Throttled, PrefixFails, Stop, Restart,
     pipelineVars,
                    Gone, Apart
<1>3. CASE Take(u)
  BY <1>1, <1>3 DEF Take, pipelineVars, Gone, Apart
<1>4. CASE Sent(u)
  BY <1>1, <1>4 DEF Sent, Moves, HasFile, Holds, pipelineVars, Gone, Apart
<1>5. CASE Remove(u)
  BY <1>1, <1>5 DEF Remove, Forgets, HasFile, pipelineVars, Gone, Apart
<1>6. CASE RenameBack(u)
  BY <1>1, <1>6 DEF RenameBack, Forgets, HasFile, Holds, pipelineVars, Gone, Apart
<1> QED BY <1>2, <1>3, <1>4, <1>5, <1>6 DEF UploadStep

LEMMA UploaderKeepsFiles ==
  ASSUME FilesInv, NEW u \in Uploader, UploadStep(u) \/ Stop(u) \/ Restart(u)
  PROVE  HasFile' /\ OneSender'
<1>1. TypeOK /\ Apart /\ HasFile /\ OneSender
  BY DEF FilesInv
<1>2. \A v \in Uploader : v # u => up'[v] = up[v]
  BY <1>1 DEF UploadStep, List, Check, Take, Sent, NotSent, Throttled, PrefixFails, Remove,
              RenameBack, Stop, Restart, Moves, Forgets, TypeOK
\* Where u comes to hold a file, it is one that was in the finished directory.
<1>3. /\ Holds(u)' => /\ up'[u].name = up[u].name /\ up'[u].name \in uploading'
                      /\ Holds(u) \/ up'[u].name \in finished
      /\ up'[u].pc = "remove" => up'[u].name \in stored'
  <2>1. CASE List(u)
    <3>1. up'[u].pc = "check"
      BY <1>1, <2>1 DEF List, TypeOK
    <3> QED BY <3>1 DEF Holds
  <2>2. ASSUME NEW from, NEW to \in {"list", "stopped"}, Forgets(u, from, to)
        PROVE  ~Holds(u)' /\ up'[u].pc # "remove"
    BY <1>1, <2>2 DEF Forgets, TypeOK, Holds
  <2>3. ASSUME NEW from, NEW to, Moves(u, from, to)
        PROVE  up'[u].pc = to /\ up'[u].name = up[u].name /\ up[u].pc = from
    BY <1>1, <2>3 DEF Moves, TypeOK, UploaderState
  <2>4. CASE Check(u)
    BY <2>2, <2>3, <2>4 DEF Check, Holds
  <2>5. CASE Take(u)
    BY <2>2, <2>3, <2>5 DEF Take, Holds
  <2>6. CASE Sent(u)
    BY <1>1, <2>3, <2>6 DEF Sent, Holds, HasFile
  <2>7. CASE NotSent(u) \/ Throttled(u)
    BY <1>1, <2>3, <2>7 DEF NotSent, Throttled, Holds, HasFile
  <2>8. CASE PrefixFails(u) \/ Remove(u) \/ RenameBack(u) \/ Restart(u)
    BY <2>2, <2>8 DEF PrefixFails, Remove, RenameBack, Restart
  <2>9. CASE Stop(u)
    BY <1>1, <2>9 DEF Stop, Holds, TypeOK
  <2> QED BY <2>1, <2>4, <2>5, <2>6, <2>7, <2>8, <2>9 DEF UploadStep
\* No file that another uploader holds leaves _uploading or the store.
<1>4. ASSUME NEW v \in Uploader, v # u, Holds(v)
      PROVE  up[v].name \in uploading' /\ (up[v].pc = "remove" => up[v].name \in stored')
  <2>1. up[v].name \in uploading /\ (up[v].pc = "remove" => up[v].name \in stored)
    BY <1>1, <1>4 DEF HasFile
  <2>2. Holds(u) => up[v].name # up[u].name
    BY <1>1, <1>4 DEF OneSender
  <2>3. stored \subseteq stored' /\ (uploading \subseteq uploading' \/ (Holds(u) /\ uploading' = uploading \ {up[u].name}))
    BY DEF UploadStep, List, Check, Take, Sent, NotSent, Throttled, PrefixFails, Remove,
           RenameBack, Stop, Restart, Forgets, Holds
  <2> QED BY <2>1, <2>2, <2>3
<1>5. HasFile'
  <2>1. ASSUME NEW v \in Uploader, v # u
        PROVE  /\ Holds(v)' => up'[v].name \in uploading'
               /\ up'[v].pc = "remove" => up'[v].name \in stored'
    BY <1>2, <1>4, <2>1 DEF Holds
  <2> QED BY <1>3, <2>1 DEF HasFile
<1>6. ASSUME NEW v \in Uploader, v # u, Holds(v)', Holds(u)' PROVE up'[v].name # up'[u].name
  <2>1. Holds(v) /\ up'[v] = up[v] /\ up[v].name \in uploading
    BY <1>1, <1>2, <1>6 DEF Holds, HasFile
  <2>2. CASE Holds(u)
    BY <1>1, <1>3, <1>6, <2>1, <2>2 DEF OneSender
  <2>3. CASE ~Holds(u)
    BY <1>1, <1>3, <1>6, <2>1, <2>3 DEF Apart
  <2> QED BY <2>2, <2>3
<1>7. OneSender'
  <2>1. ASSUME NEW v \in Uploader, NEW w \in Uploader, v # w, Holds(v)', Holds(w)'
        PROVE  up'[v].name # up'[w].name
    <3>1. CASE v = u \/ w = u
      BY <1>6, <2>1, <3>1
    <3>2. CASE v # u /\ w # u
      BY <1>1, <1>2, <2>1, <3>2 DEF OneSender, Holds
    <3> QED BY <3>1, <3>2
  <2> QED BY <2>1 DEF OneSender, Holds
<1> QED BY <1>5, <1>7

LEMMA FilesStep == FilesInv /\ [Next]_vars => FilesInv'
<1> SUFFICES ASSUME FilesInv, [Next]_vars PROVE FilesInv'
  OBVIOUS
<1>1. TypeOK'
  BY FileTypes
<1>2. ASSUME NEW j \in Job, ChainStep(j) \/ ChainFails(j) PROVE FilesInv'
  BY <1>1, <1>2, ChainKeeps DEF FilesInv
<1>3. ASSUME NEW u \in Uploader, UploadStep(u) \/ Stop(u) \/ Restart(u) PROVE FilesInv'
  <2>1. /\ chain' = chain /\ scratch' = scratch /\ data' = data
        /\ Gone' = Gone /\ finished' \cup uploading' \subseteq finished \cup uploading /\ Apart'
    BY <1>3, UploaderMovesFiles
  <2>2. HasFile' /\ OneSender'
    BY <1>3, UploaderKeepsFiles
  <2>3. InfoMatchesLabel'
    BY <2>1 DEF FilesInv, InfoMatchesLabel, Gone
  <2>4. ASSUME NEW j \in Job PROVE JobInv(j)'
    BY <2>1, OthersKeep DEF FilesInv, OnDisk
  <2> QED BY <1>1, <2>1, <2>2, <2>3, <2>4 DEF FilesInv
<1>4. CASE UNCHANGED vars
  <2>1. Gone' = Gone /\ OnDisk' = OnDisk /\ data' = data /\ chain' = chain /\ scratch' = scratch
    BY <1>4 DEF vars, Gone, OnDisk
  <2>2. \A j \in Job : JobInv(j)'
    BY <2>1, OthersKeep DEF FilesInv
  <2> QED BY <1>1, <1>4, <2>2 DEF vars, FilesInv, Apart, HasFile, Holds, OneSender,
             InfoMatchesLabel
<1> QED BY <1>2, <1>3, <1>4 DEF Next

LEMMA FilesInitially == Init => FilesInv
<1> SUFFICES ASSUME Init PROVE FilesInv
  OBVIOUS
<1>1. TypeOK
  <2>1. chain \in [Job -> ChainState]
    BY JobAssumption DEF Init, ChainState, Stage
  <2>2. up \in [Uploader -> UploaderState]
    BY DEF Init, UploaderState
  <2>3. \A u \in Uploader : up[u].name = None <=> up[u].pc \in {"list", "stopped"}
    BY DEF Init
  <2>4. scratch \in [Job -> SUBSET Kind] /\ faults \in 0..MaxFaults
    BY JobAssumption DEF Init
  <2> QED BY <2>1, <2>2, <2>3, <2>4 DEF Init, TypeOK
<1>2. Apart /\ InfoMatchesLabel
  BY DEF Init, Apart, InfoMatchesLabel
<1>3. HasFile /\ OneSender
  BY DEF Init, HasFile, OneSender, Holds
<1>4. ASSUME NEW j \in Job PROVE JobInv(j)
  BY DEF Init, JobInv, Fresh, OnDisk, Written, Renamed, BeforeRename
<1> QED BY <1>1, <1>2, <1>3, <1>4 DEF FilesInv

LEMMA FilesInvKept == FilesInv => OutputsKept
<1> SUFFICES ASSUME FilesInv, NEW j \in Job, chain[j].pc = "done",
                    NEW k \in Outputs(j) \cup (IF chain[j].rolled THEN {"early"} ELSE {})
             PROVE  \E f \in finished \cup uploading \cup stored :
                      f.job = j /\ f.run = chain[j].run /\ f.kind = k
  BY DEF OutputsKept, Outputs
<1>1. JobInv(j)
  BY DEF FilesInv
<1>2. CASE k \in Outputs(j)
  <2>1. TargetName(j, k) \in Gone
    BY <1>1, <1>2 DEF JobInv, Renamed
  <2> QED BY <2>1 DEF Gone, TargetName, Name
<1>3. CASE chain[j].rolled /\ k = "early"
  <2>1. Name(j, "early", FALSE) \in Gone
    BY <1>1, <1>3 DEF JobInv
  <2> QED BY <1>3, <2>1 DEF Gone, Name
<1> QED BY <1>2, <1>3

-----------------------------------------------------------------------------
LEMMA FilesInvariant == Spec => []FilesInv
<1>1. FilesInv /\ [Next]_vars => FilesInv'
  BY FilesStep
<1> QED BY <1>1, FilesInitially, PTL DEF Spec

\* Types, whatever number of jobs, runs, uploaders and faults.
THEOREM FilesAreTyped == Spec => []TypeOK
<1>1. FilesInv => TypeOK
  BY DEF FilesInv
<1> QED BY <1>1, FilesInvariant, PTL

\* No two uploaders work on one file (uploader.py:218-231).
THEOREM FilesHaveOneSender == Spec => []OneSender
<1>1. FilesInv => OneSender
  BY DEF FilesInv
<1> QED BY <1>1, FilesInvariant, PTL

\* What a run that ended has written is handed over, uploaded or stored
\* (tasks.py:274-290, uploader.py:244-251).
THEOREM FilesAreKept == Spec => []OutputsKept
  BY FilesInvariant, FilesInvKept, PTL

\* A JSON file says "aborted" exactly when its name does (pipeline.py:171).
THEOREM FilesTellTheLabel == Spec => []InfoMatchesLabel
<1>1. FilesInv => InfoMatchesLabel
  BY DEF FilesInv
<1> QED BY <1>1, FilesInvariant, PTL
==============================================================================
