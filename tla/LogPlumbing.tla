----------------------------- MODULE LogPlumbing -----------------------------
(***************************************************************************)
(* The log of one job on the control node.  The pipeline's LOGGER_SCRIPT   *)
(* adds entries to the sorted set IDENT_log and publishes the ident; each  *)
(* tool of plumbing/ reads the idents from its own updates-listener and    *)
(* does its work with several Redis commands: log-firehose broadcasts new  *)
(* entries, analyze-logs counts them, trim-logs prints and removes the ones*)
(* both are done with, record-jobs stores ended jobs in CouchDB.  The tools*)
(* know each other only through cursors in the job's hash.                 *)
(*                                                                         *)
(* A step is one Redis command, script or pipeline of HINCRBYs, one entry  *)
(* broadcast, or one HTTP request.  Entries are named by their scores.     *)
(***************************************************************************)
EXTENDS Naturals

CONSTANTS
  Threshold,    \* trim_threshold of trim-logs, 500
  MaxEntries,   \* bound: entries logged
  MaxRestarts,  \* bound: restarts of tools, all together
  Running,      \* the tools that are started
  Restarting,   \* those of them that are restarted
  Inf,          \* the "+inf" of the sorted set commands
  None

ASSUME ThresholdAssumption == Threshold \in Nat \ {0}
ASSUME BoundsAssumption == MaxEntries \in Nat /\ MaxRestarts \in Nat
ASSUME RunningAssumption ==
  Restarting \subseteq Running /\ Running \subseteq {"firehose", "analyzer", "trimmer", "recorder"}
ASSUME InfAssumption == Inf \notin Nat
ASSUME NoneAssumption == None \notin Nat

Reader == {"firehose", "analyzer"}            \* the tools with a read cursor
Tool   == Reader \cup {"trimmer", "recorder"}
Entry  == Nat \ {0}

VARIABLES
  job,        \* the fields of the job's hash the tools use
  log,        \* IDENT_log: the scores it holds
  logTimer,   \* whether IDENT_log has an expiry timer
  lines,      \* lines[t]: idents published that tool t has not read
  reader,     \* the local state of log-firehose and analyze-logs
  trimmer, recorder,
  document,   \* the job's document in CouchDB
  seen,       \* history: seen[r][e]: how often e was broadcast or counted
  printed,    \* history: entries trim-logs has printed
  early,      \* history: entries removed for being processed
  expired,    \* history: entries the log's timer deleted
  shipped,    \* history: entries logged
  atFinish,   \* history: entries logged when the job finished, or None
  restarts    \* restarts[t]

toolVars == <<lines, reader, trimmer, recorder, restarts>>
history  == <<seen, printed, early, expired, shipped, atFinish>>
vars == <<job, log, logTimer, document, toolVars, history>>

\* keyed: the `log_key' field; a hash that a late write creates has none.
Job == [present : BOOLEAN, keyed : BOOLEAN, finished : BOOLEAN, timer : BOOLEAN,
        recorded : BOOLEAN, score : Nat, cursor : [Reader -> Nat],
        trimmed : Nat \cup {Inf}]
NoJob == [present |-> FALSE, keyed |-> FALSE, finished |-> FALSE, timer |-> FALSE,
          recorded |-> FALSE, score |-> 0, cursor |-> [r \in Reader |-> 0],
          trimmed |-> 0]

ReaderState ==
  [pc : {"idle", "fetch", "output", "mark"}, start : Nat, batch : SUBSET Entry,
   last : Nat]
TrimmerState ==
  [pc : {"idle", "print", "remove", "mark"}, keyed : BOOLEAN, from : Nat,
   to : Nat \cup {Inf}]
RecorderState == [pc : {"idle", "read", "put", "mark"}, full : BOOLEAN]

IdleReader   == [pc |-> "idle", start |-> 0, batch |-> {}, last |-> 0]
IdleTrimmer  == [pc |-> "idle", keyed |-> FALSE, from |-> 0, to |-> 0]
IdleRecorder == [pc |-> "idle", full |-> FALSE]

Init ==
  /\ job = [NoJob EXCEPT !.present = TRUE, !.keyed = TRUE]
  /\ log = {} /\ logTimer = FALSE
  /\ lines = [t \in Tool |-> 0]
  /\ reader = [r \in Reader |-> IdleReader]
  /\ trimmer = IdleTrimmer /\ recorder = IdleRecorder
  /\ document = "none"
  /\ seen = [r \in Reader |-> [e \in 1..MaxEntries |-> 0]]
  /\ printed = {} /\ early = {} /\ expired = {}
  /\ shipped = 0 /\ atFinish = None
  /\ restarts = [t \in Tool |-> 0]

-----------------------------------------------------------------------------
(* Redis *)

\* HSET on the job's key: creates the key if it is missing.
Touched == [job EXCEPT !.present = TRUE]

PublishIfQuiet ==   \* mutant of Publish
  lines' = [t \in Tool |-> IF t \in Running /\ log = {} THEN lines[t] + 1 ELSE lines[t]]

\* PUBLISH on the updates channel: every updates-listener prints the ident.
Publish == lines' = [t \in Tool |-> IF t \in Running THEN lines[t] + 1 ELSE 0]

TakeLine(t) == lines[t] > 0 /\ lines' = [lines EXCEPT ![t] = @ - 1]

\* The scores ZRANGEBYSCORE and ZREMRANGEBYSCORE select, both ends included.
Between(from, to) == {e \in log : e >= from /\ (to # Inf => e <= to)}

\* Redis drops the key of an emptied sorted set, with its timer.
SetLog(entries) ==
  /\ log' = entries
  /\ logTimer' = (logTimer /\ entries # {})

-----------------------------------------------------------------------------
(* The pipeline *)

\* LOGGER_SCRIPT.  Seesaw still logs a task's end after MARK_DONE; these late
\* entries arrive long before the expiry timer MARK_DONE set runs out.
Ship ==
  /\ shipped < MaxEntries
  /\ job.keyed
  /\ job' = [job EXCEPT !.score = @ + 1]
  /\ log' = log \cup {job'.score}
  /\ shipped' = shipped + 1
  /\ Publish
  /\ UNCHANGED <<logTimer, document, reader, trimmer, recorder, restarts,
                 seen, printed, early, expired, atFinish>>

\* MARK_DONE_SCRIPT; EXPIRE does nothing to a log that is not there.
MarkDone ==
  /\ ~job.finished /\ atFinish = None
  /\ job' = [job EXCEPT !.finished = TRUE, !.timer = TRUE]
  /\ logTimer' = (log # {})
  /\ atFinish' = shipped
  /\ Publish
  /\ UNCHANGED <<log, document, reader, trimmer, recorder, restarts, seen,
                 printed, early, expired, shipped>>

JobExpires ==
  /\ job.timer
  /\ job' = NoJob
  /\ UNCHANGED <<log, logTimer, document, toolVars, history>>

LogExpires ==
  /\ logTimer
  /\ SetLog({})
  /\ expired' = expired \cup log
  /\ UNCHANGED <<job, document, toolVars, seen, printed, early, shipped, atFinish>>

-----------------------------------------------------------------------------
(* log-firehose and analyze-logs *)

\* HGETALL or HMGET.  Without a `log_key' there are no entries to ask for.
ReadCursor(r) ==
  /\ reader[r].pc = "idle"
  /\ TakeLine(r)
  /\ reader' = [reader EXCEPT ![r] =
                  IF job.keyed THEN [@ EXCEPT !.pc = "fetch", !.start = job.cursor[r]]
                  ELSE @]
  /\ UNCHANGED <<job, log, logTimer, document, trimmer, recorder, restarts, history>>

FetchedAgain(start) == Between(start, Inf)   \* mutant of FetchedFrom
FetchedFrom(start) == Between(start, Inf) \ {start}

\* ZRANGEBYSCORE (start +inf, and `next' when nothing came back.
FetchLog(r) ==
  /\ reader[r].pc = "fetch"
  /\ LET batch == FetchedFrom(reader[r].start)
     IN \/ /\ batch = {}
           /\ reader' = [reader EXCEPT ![r] = IdleReader]
        \/ \E last \in batch :
             /\ \A e \in batch : e <= last
             /\ reader' = [reader EXCEPT ![r].pc = "output", ![r].batch = batch,
                                         ![r].last = last]
  /\ UNCHANGED <<job, log, logTimer, document, lines, trimmer, recorder, restarts,
                 history>>

SendEntry(e) ==
  /\ seen' = [seen EXCEPT !["firehose"][e] = @ + 1]
  /\ LET rest == reader["firehose"].batch \ {e}
     IN reader' = [reader EXCEPT !["firehose"].batch = rest,
                                 !["firehose"].pc = IF rest = {} THEN "mark" ELSE @]
  /\ UNCHANGED <<job, log, logTimer, document, lines, trimmer, recorder, restarts,
                 printed, early, expired, shipped, atFinish>>

\* log-firehose sends the entries of a batch one by one.
Broadcast ==
  /\ reader["firehose"].pc = "output"
  /\ \E e \in reader["firehose"].batch :
       /\ \A f \in reader["firehose"].batch : e <= f
       /\ SendEntry(e)

\* analyze-logs adds a batch to the job's counters in one Redis pipeline.
Count ==
  /\ reader["analyzer"].pc = "output"
  /\ seen' = [seen EXCEPT !["analyzer"] =
                [e \in DOMAIN @ |-> IF e \in reader["analyzer"].batch THEN @[e] + 1
                                   ELSE @[e]]]
  /\ job' = Touched
  /\ reader' = [reader EXCEPT !["analyzer"].batch = {}, !["analyzer"].pc = "mark"]
  /\ UNCHANGED <<log, logTimer, document, lines, trimmer, recorder, restarts,
                 printed, early, expired, shipped, atFinish>>

MarkCursorAtScore(r) ==   \* mutant of MarkCursor
  /\ reader[r].pc = "mark"
  /\ job' = [Touched EXCEPT !.cursor[r] = job.score]
  /\ reader' = [reader EXCEPT ![r] = IdleReader]
  /\ UNCHANGED <<log, logTimer, document, lines, trimmer, recorder, restarts, history>>

\* HMSET last_broadcasted_log_entry, HSET last_analyzed_log_entry.
MarkCursor(r) ==
  /\ reader[r].pc = "mark"
  /\ job' = [Touched EXCEPT !.cursor[r] = reader[r].last]
  /\ reader' = [reader EXCEPT ![r] = IdleReader]
  /\ UNCHANGED <<log, logTimer, document, lines, trimmer, recorder, restarts, history>>

-----------------------------------------------------------------------------
(* trim-logs *)

MaxLast ==   \* mutant of MinLast
  IF job.cursor["firehose"] >= job.cursor["analyzer"]
  THEN job.cursor["firehose"] ELSE job.cursor["analyzer"]

\* The longest run of entries that both readers are done with.
MinLast ==
  IF job.cursor["firehose"] <= job.cursor["analyzer"]
  THEN job.cursor["firehose"] ELSE job.cursor["analyzer"]

\* `+inf'.to_f is 0.0.
LastTrimmed == IF job.trimmed = Inf THEN 0 ELSE job.trimmed

\* HMGET, then the whole log of a finished job, else what exceeds the threshold.
ReadMarks ==
  /\ trimmer.pc = "idle"
  /\ TakeLine("trimmer")
  /\ trimmer' =
       IF job.finished \/ MinLast >= LastTrimmed + Threshold
       THEN [pc |-> "print", keyed |-> job.keyed, from |-> LastTrimmed,
             to |-> IF job.finished THEN Inf ELSE MinLast]
       ELSE trimmer
  /\ UNCHANGED <<job, log, logTimer, document, reader, recorder, restarts, history>>

Selected == IF trimmer.keyed THEN Between(trimmer.from, trimmer.to) ELSE {}

PrintLog ==
  /\ trimmer.pc = "print"
  /\ printed' = printed \cup Selected
  /\ trimmer' = [trimmer EXCEPT !.pc = "remove"]
  /\ UNCHANGED <<job, log, logTimer, document, lines, reader, recorder, restarts,
                 seen, early, expired, shipped, atFinish>>

RemoveRead ==   \* mutant of RemoveLog: the bound is read again
  /\ trimmer.pc = "remove"
  /\ SetLog(log \ Between(trimmer.from, IF job.finished THEN Inf ELSE MinLast))
  /\ early' = IF job.finished THEN early
              ELSE early \cup Between(trimmer.from, MinLast)
  /\ trimmer' = [trimmer EXCEPT !.pc = "mark"]
  /\ UNCHANGED <<job, document, lines, reader, recorder, restarts, seen, printed,
                 expired, shipped, atFinish>>

RemoveLog ==
  /\ trimmer.pc = "remove"
  /\ SetLog(log \ Selected)
  /\ early' = IF trimmer.to = Inf THEN early ELSE early \cup Selected
  /\ trimmer' = [trimmer EXCEPT !.pc = "mark"]
  /\ UNCHANGED <<job, document, lines, reader, recorder, restarts, seen, printed,
                 expired, shipped, atFinish>>

MarkTrimmed ==
  /\ trimmer.pc = "mark"
  /\ job' = [Touched EXCEPT !.trimmed = trimmer.to]
  /\ trimmer' = IdleTrimmer
  /\ UNCHANGED <<log, logTimer, document, lines, reader, recorder, restarts, history>>

-----------------------------------------------------------------------------
(* record-jobs *)

ReadFinished ==
  /\ recorder.pc = "idle"
  /\ TakeLine("recorder")
  /\ recorder' = IF job.finished /\ ~job.recorded THEN [recorder EXCEPT !.pc = "read"]
                 ELSE recorder
  /\ UNCHANGED <<job, log, logTimer, document, reader, trimmer, restarts, history>>

\* HGETALL; the timer may have deleted the hash since ReadFinished.
ReadJob ==
  /\ recorder.pc = "read"
  /\ recorder' = [pc |-> "put", full |-> job.keyed]
  /\ UNCHANGED <<job, log, logTimer, document, lines, reader, trimmer, restarts, history>>

PutUnchecked ==   \* mutant of PutDocument
  /\ recorder.pc = "put"
  /\ document' \in {document, IF recorder.full THEN "job" ELSE document}
  /\ recorder' = [recorder EXCEPT !.pc = "mark"]
  /\ UNCHANGED <<job, log, logTimer, lines, reader, trimmer, restarts, history>>

\* CouchDB refuses a second document of the same id.  A PUT may also fail.
PutDocument ==
  /\ recorder.pc = "put"
  /\ \/ /\ recorder.full => document = "none"
        /\ document' = IF recorder.full THEN "job" ELSE document
        /\ recorder' = [recorder EXCEPT !.pc = "mark"]
     \/ /\ recorder' = IdleRecorder
        /\ UNCHANGED document
  /\ UNCHANGED <<job, log, logTimer, lines, reader, trimmer, restarts, history>>

MarkRecorded ==
  /\ recorder.pc = "mark"
  /\ job' = [Touched EXCEPT !.recorded = TRUE]
  /\ recorder' = IdleRecorder
  /\ UNCHANGED <<log, logTimer, document, lines, reader, trimmer, restarts, history>>

-----------------------------------------------------------------------------
\* A tool and its updates-listener stop and start again: the messages of the
\* meantime are lost, Redis does not keep them.
Restart(t) ==
  /\ restarts["firehose"] + restarts["analyzer"] + restarts["trimmer"]
       + restarts["recorder"] < MaxRestarts
  /\ restarts' = [restarts EXCEPT ![t] = @ + 1]
  /\ lines' = [lines EXCEPT ![t] = 0]
  /\ reader' = IF t \in Reader THEN [reader EXCEPT ![t] = IdleReader] ELSE reader
  /\ trimmer' = IF t = "trimmer" THEN IdleTrimmer ELSE trimmer
  /\ recorder' = IF t = "recorder" THEN IdleRecorder ELSE recorder
  /\ UNCHANGED <<job, log, logTimer, document, history>>

FirehoseStep == ReadCursor("firehose") \/ FetchLog("firehose") \/ Broadcast
                  \/ MarkCursor("firehose")
AnalyzerStep == ReadCursor("analyzer") \/ FetchLog("analyzer") \/ Count
                  \/ MarkCursor("analyzer")
TrimmerStep  == ReadMarks \/ PrintLog \/ RemoveLog \/ MarkTrimmed
RecorderStep == ReadFinished \/ ReadJob \/ PutDocument \/ MarkRecorded

Next ==
  \/ Ship \/ MarkDone \/ JobExpires \/ LogExpires
  \/ FirehoseStep \/ AnalyzerStep \/ TrimmerStep \/ RecorderStep
  \/ \E t \in Restarting : Restart(t)

Spec == Init /\ [][Next]_vars

\* Every tool is a loop in a process of its own.
FairSpec ==
  /\ Spec
  /\ WF_vars(FirehoseStep) /\ WF_vars(AnalyzerStep)
  /\ WF_vars(TrimmerStep) /\ WF_vars(RecorderStep)

-----------------------------------------------------------------------------
TypeOK ==
  /\ job \in Job
  /\ log \subseteq Entry /\ logTimer \in BOOLEAN
  /\ lines \in [Tool -> Nat]
  /\ reader \in [Reader -> ReaderState]
  /\ trimmer \in TrimmerState /\ recorder \in RecorderState
  /\ document \in {"none", "job"}
  /\ seen \in [Reader -> [1..MaxEntries -> Nat]]
  /\ printed \subseteq Entry /\ early \subseteq Entry /\ expired \subseteq Entry
  /\ shipped \in Nat /\ atFinish \in Nat \cup {None}
  /\ restarts \in [Tool -> Nat]

\* An entry removed while the job runs was broadcast and counted before
\* (trim-logs: `the longest run of messages outstanding').
TrimmedWasSeen == \A e \in early : \A r \in Reader : seen[r][e] > 0

\* No entry leaves Redis unprinted before its timer deletes it, except those
\* logged after MARK_DONE (trim-logs prints, then removes the same range).
NothingUnprinted ==
  \A e \in 1..shipped :
    \/ e \in log \cup printed \cup expired
    \/ atFinish # None /\ e > atFinish

\* A reader takes an entry twice only when it was restarted between its work
\* and the write of its cursor.
SeenOnce ==
  \A r \in Reader : \A e \in 1..MaxEntries : seen[r][e] <= 1 + restarts[r]

\* A reader that was never restarted and waits for messages has seen every entry
\* that is left: the publish after each ZADD cannot be missed.
NoMissedEntry ==
  \A r \in Reader \cap Running :
    restarts[r] = 0 /\ lines[r] = 0 /\ reader[r].pc = "idle" /\ job.keyed
      => \A e \in log : seen[r][e] > 0

\* While the job runs its marks are in the order the trimmer relies on.
MarksOrdered ==
  job.keyed /\ ~job.finished =>
    /\ job.trimmed # Inf
    /\ \A r \in Reader : job.trimmed <= job.cursor[r] /\ job.cursor[r] <= job.score

\* `recorded_at' is set only for a job that has a document (record-jobs).
RecordedHasDocument == job.recorded /\ job.keyed => document = "job"

-----------------------------------------------------------------------------
(* The inductive invariant: what each tool's copy of a mark still says about *)
(* the log, after the log and the marks have moved on.                       *)

Once(r, e) == seen[r][e] <= restarts[r]

JobInv ==
  /\ shipped <= MaxEntries
  /\ log \subseteq 1..shipped
  /\ atFinish # None => atFinish <= shipped
  /\ job.timer \/ logTimer \/ ~job.keyed => atFinish # None
  /\ job.keyed =>
       /\ job.score = shipped
       /\ job.finished <=> atFinish # None
       /\ job.trimmed = Inf => job.finished
       /\ \A r \in Reader :
            /\ job.cursor[r] <= shipped
            /\ job.trimmed # Inf => job.trimmed <= job.cursor[r]

\* What reader r will do again, or not at all.
ReaderInv(r) ==
  LET s == reader[r]
      c == job.cursor[r]
  IN /\ s.batch \subseteq {e \in 1..MaxEntries : s.start < e /\ e <= s.last}
     /\ s.last <= shipped
     /\ s.pc = "output" <=> s.batch # {}
     /\ s.pc \in {"output", "mark"} => s.start < s.last
     /\ s.pc # "idle" /\ job.keyed => s.start = c
     /\ s.pc = "idle" /\ job.keyed => \A e \in 1..MaxEntries : e > c => Once(r, e)
     /\ s.pc = "fetch" => \A e \in 1..MaxEntries : e > s.start => Once(r, e)
     /\ s.pc = "output" => \A e \in 1..MaxEntries :
                            (\E f \in s.batch : f <= e) \/ e > s.last => Once(r, e)
     /\ s.pc = "mark" => \A e \in 1..MaxEntries : e > s.last => Once(r, e)

\* Everything up to the cursor, and to where reader r has got, was seen.
CoverInv(r) ==
  job.keyed =>
    /\ \A e \in log : e <= job.cursor[r] => seen[r][e] > 0
    /\ reader[r].pc \in {"output", "mark"} =>
         \A e \in log : e <= reader[r].last => e \in reader[r].batch \/ seen[r][e] > 0

\* A reader that is behind the log has a message or its read to come.
WakeInv(r) ==
  r \in Running /\ job.keyed /\ restarts[r] = 0 /\ lines[r] = 0 =>
    \A e \in log :
      \/ e <= job.cursor[r]
      \/ reader[r].pc = "fetch"
      \/ reader[r].pc \in {"output", "mark"} /\ e <= reader[r].last

TrimmerInv ==
  /\ trimmer.pc # "idle" /\ trimmer.to = Inf => atFinish # None
  /\ trimmer.pc # "idle" /\ trimmer.to # Inf =>
       /\ job.keyed => \A r \in Reader : trimmer.to <= job.cursor[r]
       /\ trimmer.keyed =>
            /\ trimmer.to <= shipped
            /\ \A e \in log : e <= trimmer.to => \A r \in Reader : seen[r][e] > 0
  /\ trimmer.pc = "remove" =>
       \A e \in Selected : e \in printed \/ (atFinish # None /\ e > atFinish)

RecorderInv ==
  /\ recorder.pc \in {"put", "mark"} /\ job.keyed => recorder.full
  /\ recorder.pc = "mark" /\ recorder.full => document = "job"

PlumbingInv ==
  /\ JobInv /\ TrimmerInv /\ RecorderInv
  /\ \A r \in Reader : ReaderInv(r) /\ CoverInv(r) /\ WakeInv(r)
  /\ TrimmedWasSeen /\ early \subseteq 1..MaxEntries
  /\ NothingUnprinted /\ SeenOnce /\ RecordedHasDocument

-----------------------------------------------------------------------------
\* Entries are broadcast in the order of the log; a restart repeats some.
BroadcastInOrder ==
  [][\A e \in 1..MaxEntries :
       seen'["firehose"][e] > seen["firehose"][e] =>
         \A d \in (e + 1)..MaxEntries :
           seen["firehose"][d] <= restarts["firehose"]]_vars

\* Every entry of a running job reaches both readers.
EntriesReachReaders ==
  \A r \in Reader \cap Running : \A e \in 1..MaxEntries :
    shipped >= e ~> \/ seen[r][e] > 0
                   \/ job.finished \/ ~job.keyed \/ restarts[r] > 0

=============================================================================
