-------------------------- MODULE LogPlumbingProofs --------------------------
(* Theorems about LogPlumbing, for all values of its constants. *)
EXTENDS LogPlumbing, TLAPS

(***************************************************************************)
(* Type correctness.                                                       *)
(***************************************************************************)
LEMMA ReaderUpdate ==
  ASSUME NEW f \in [Reader -> ReaderState], NEW r \in Reader
  PROVE  /\ \A p \in {"idle", "fetch", "output", "mark"} :
              [f EXCEPT ![r].pc = p] \in [Reader -> ReaderState]
         /\ \A n \in Nat : [f EXCEPT ![r].start = n] \in [Reader -> ReaderState]
         /\ \A S \in SUBSET Entry : [f EXCEPT ![r].batch = S] \in [Reader -> ReaderState]
         /\ \A n \in Nat : [f EXCEPT ![r].last = n] \in [Reader -> ReaderState]
         /\ [f EXCEPT ![r] = IdleReader] \in [Reader -> ReaderState]
  BY DEF ReaderState, IdleReader

LEMMA Incremented ==
  ASSUME NEW S, NEW f \in [S -> Nat], NEW e
  PROVE  [f EXCEPT ![e] = @ + 1] \in [S -> Nat]
<1>1. CASE e \in S
  <2>1. f[e] + 1 \in Nat
    BY <1>1
  <2> QED BY <2>1
<1>2. CASE e \notin S
  BY <1>2
<1> QED BY <1>1, <1>2

LEMMA IncrementedAt ==
  ASSUME NEW S, NEW f \in [S -> Nat], NEW e
  PROVE  \A d \in S : [f EXCEPT ![e] = @ + 1][d] = f[d] + IF d = e THEN 1 ELSE 0
<1> SUFFICES ASSUME NEW d \in S
             PROVE  [f EXCEPT ![e] = @ + 1][d] = f[d] + IF d = e THEN 1 ELSE 0
  OBVIOUS
<1>1. f[d] \in Nat
  OBVIOUS
<1> QED BY <1>1

\* The variables keep the types the code gives them.
THEOREM PlumbingTypes == Spec => []TypeOK
<1>1. Init => TypeOK
  <2> SUFFICES ASSUME Init PROVE TypeOK
    OBVIOUS
  <2> USE DEF Init
  <2>1. job \in Job
    BY DEF Job, NoJob
  <2>2. reader \in [Reader -> ReaderState]
    BY DEF IdleReader, ReaderState
  <2>3. trimmer \in TrimmerState /\ recorder \in RecorderState
    BY DEF IdleTrimmer, IdleRecorder, TrimmerState, RecorderState
  <2> QED BY <2>1, <2>2, <2>3 DEF TypeOK
<1>2. TypeOK /\ [Next]_vars => TypeOK'
  <2> SUFFICES ASSUME TypeOK, [Next]_vars PROVE TypeOK'
    OBVIOUS
  <2> USE DEF TypeOK, toolVars, history
  <2>1. CASE Ship
    <3>1. job' \in Job
      <4>1. job.score + 1 \in Nat
        BY DEF Job
      <4>2. job' = [job EXCEPT !.score = job.score + 1]
        BY <2>1 DEF Ship
      <4> QED BY <4>1, <4>2 DEF Job
    <3>2. log' \subseteq Entry
      BY <2>1 DEF Ship, Job, Entry
    <3>3. lines' \in [Tool -> Nat]
      BY <2>1 DEF Ship, Publish
    <3> QED BY <2>1, <3>1, <3>2, <3>3 DEF Ship
  <2>2. CASE MarkDone
    <3>1. job' \in Job
      BY <2>2 DEF MarkDone, Job
    <3>2. lines' \in [Tool -> Nat]
      BY <2>2 DEF MarkDone, Publish
    <3> QED BY <2>2, <3>1, <3>2 DEF MarkDone
  <2>3. CASE JobExpires
    BY <2>3 DEF JobExpires, Job, NoJob
  <2>4. CASE LogExpires
    BY <2>4 DEF LogExpires, SetLog
  <2>5. ASSUME NEW r \in Reader, ReadCursor(r) PROVE TypeOK'
    <3>1. lines' \in [Tool -> Nat]
      BY <2>5 DEF ReadCursor, TakeLine, Tool
    <3>2. reader' \in [Reader -> ReaderState]
      <4>1. CASE job.keyed
        <5> DEFINE f == [reader EXCEPT ![r].pc = "fetch"]
        <5>1. f \in [Reader -> ReaderState]
          BY ReaderUpdate
        <5>2. reader' = [f EXCEPT ![r].start = job.cursor[r]]
          BY <2>5, <4>1 DEF ReadCursor
        <5>3. job.cursor[r] \in Nat
          BY DEF Job
        <5> QED BY <5>1, <5>2, <5>3, ReaderUpdate
      <4>2. CASE ~job.keyed
        BY <2>5, <4>2 DEF ReadCursor
      <4> QED BY <4>1, <4>2
    <3> QED BY <2>5, <3>1, <3>2 DEF ReadCursor
  <2>6. ASSUME NEW r \in Reader, FetchLog(r) PROVE TypeOK'
    <3> DEFINE batch == FetchedFrom(reader[r].start)
    <3>1. batch \subseteq Entry
      BY DEF FetchedFrom, Between
    <3>2. reader' \in [Reader -> ReaderState]
      <4>1. CASE reader' = [reader EXCEPT ![r] = IdleReader]
        BY <4>1, ReaderUpdate
      <4>2. ASSUME NEW last \in batch,
                   reader' = [reader EXCEPT ![r].pc = "output", ![r].batch = batch,
                                            ![r].last = last]
            PROVE  reader' \in [Reader -> ReaderState]
        <5> DEFINE f == [reader EXCEPT ![r].pc = "output"]
                   g == [f EXCEPT ![r].batch = batch]
        <5>1. f \in [Reader -> ReaderState]
          BY ReaderUpdate
        <5>2. g \in [Reader -> ReaderState]
          BY <3>1, <5>1, ReaderUpdate
        <5>3. reader' = [g EXCEPT ![r].last = last]
          BY <4>2
        <5>4. last \in Nat
          BY <3>1 DEF Entry
        <5> QED BY <5>2, <5>3, <5>4, ReaderUpdate
      <4> QED BY <2>6, <4>1, <4>2 DEF FetchLog
    <3> QED BY <2>6, <3>2 DEF FetchLog
  <2>7. CASE Broadcast
    <3> PICK e \in reader["firehose"].batch : SendEntry(e)
      BY <2>7 DEF Broadcast
    <3> DEFINE rest == reader["firehose"].batch \ {e}
    <3>1. rest \subseteq Entry
      BY DEF ReaderState, Reader
    <3>2. reader' \in [Reader -> ReaderState]
      <4> DEFINE f == [reader EXCEPT !["firehose"].batch = rest]
                 p == IF rest = {} THEN "mark" ELSE reader["firehose"].pc
      <4>1. f \in [Reader -> ReaderState]
        BY <3>1, ReaderUpdate DEF Reader
      <4>2. p \in {"idle", "fetch", "output", "mark"}
        BY DEF ReaderState, Reader
      <4>3. reader' = [f EXCEPT !["firehose"].pc = p]
        BY DEF SendEntry
      <4> QED BY <4>1, <4>2, <4>3, ReaderUpdate DEF Reader
    <3>3. seen' \in [Reader -> [1..MaxEntries -> Nat]]
      <4> DEFINE row == seen["firehose"]
      <4>1. row \in [1..MaxEntries -> Nat]
        BY DEF Reader
      <4>2. [row EXCEPT ![e] = @ + 1] \in [1..MaxEntries -> Nat]
        BY <4>1, Incremented
      <4>3. seen' = [seen EXCEPT !["firehose"] = [row EXCEPT ![e] = @ + 1]]
        BY DEF SendEntry
      <4> QED BY <4>2, <4>3
    <3> QED BY <3>2, <3>3 DEF SendEntry
  <2>8. CASE Count
    BY <2>8 DEF Count, ReaderState, Reader, Touched, Job
  <2>9. ASSUME NEW r \in Reader, MarkCursor(r) PROVE TypeOK'
    BY <2>9, ReaderUpdate DEF MarkCursor, ReaderState, Touched, Job
  <2>10. CASE TrimmerStep
    <3> USE DEF TrimmerState, IdleTrimmer
    <3>1. CASE ReadMarks
      <4>1. lines' \in [Tool -> Nat]
        BY <3>1 DEF ReadMarks, TakeLine, Tool
      <4>2. LastTrimmed \in Nat /\ MinLast \in Nat
        BY DEF LastTrimmed, MinLast, Job, Reader
      <4>3. trimmer' \in TrimmerState
        BY <3>1, <4>2 DEF ReadMarks, Job
      <4> QED BY <3>1, <4>1, <4>3 DEF ReadMarks
    <3>2. CASE PrintLog
      BY <3>2 DEF PrintLog, Selected, Between
    <3>3. CASE RemoveLog
      BY <3>3 DEF RemoveLog, SetLog, Selected, Between
    <3>4. CASE MarkTrimmed
      BY <3>4 DEF MarkTrimmed, Touched, Job
    <3> QED BY <2>10, <3>1, <3>2, <3>3, <3>4 DEF TrimmerStep
  <2>11. CASE RecorderStep
    <3> USE DEF RecorderState, IdleRecorder
    <3>1. CASE ReadFinished
      <4>1. lines' \in [Tool -> Nat]
        BY <3>1 DEF ReadFinished, TakeLine, Tool
      <4> QED BY <3>1, <4>1 DEF ReadFinished
    <3>2. CASE ReadJob
      BY <3>2 DEF ReadJob, Job
    <3>3. CASE PutDocument
      <4>1. [recorder EXCEPT !.pc = "mark"] \in RecorderState
        OBVIOUS
      <4>2. document' \in {"none", "job"} /\ recorder' \in RecorderState
        <5>1. CASE recorder' = [recorder EXCEPT !.pc = "mark"]
          <6>1. document' \in {"none", "job"}
            BY <3>3 DEF PutDocument
          <6> QED BY <4>1, <5>1, <6>1
        <5>2. CASE recorder' = IdleRecorder /\ UNCHANGED document
          BY <5>2
        <5> QED BY <3>3, <5>1, <5>2 DEF PutDocument
      <4> QED BY <3>3, <4>2 DEF PutDocument
    <3>4. CASE MarkRecorded
      BY <3>4 DEF MarkRecorded, Touched, Job
    <3> QED BY <2>11, <3>1, <3>2, <3>3, <3>4 DEF RecorderStep
  <2>12. ASSUME NEW t \in Restarting, Restart(t) PROVE TypeOK'
    <3>1. t \in Tool
      BY RunningAssumption DEF Tool, Reader
    <3>2. lines' \in [Tool -> Nat] /\ restarts' \in [Tool -> Nat]
      BY <2>12, <3>1 DEF Restart
    <3>3. reader' \in [Reader -> ReaderState]
      BY <2>12, ReaderUpdate DEF Restart
    <3>4. trimmer' \in TrimmerState /\ recorder' \in RecorderState
      BY <2>12 DEF Restart, IdleTrimmer, IdleRecorder, TrimmerState, RecorderState
    <3> QED BY <2>12, <3>2, <3>3, <3>4 DEF Restart
  <2>13. CASE UNCHANGED vars
    BY <2>13 DEF vars
  <2> QED
    BY <2>1, <2>2, <2>3, <2>4, <2>5, <2>6, <2>7, <2>8, <2>9, <2>10, <2>11, <2>12, <2>13
    DEF Next, FirehoseStep, AnalyzerStep, Reader
<1> QED
  BY <1>1, <1>2, PTL DEF Spec

(***************************************************************************)
(* What a step does to the parts a reader depends on.                      *)
(***************************************************************************)

\* A step that is none of reader r's own.
Untouched(r) ==
  /\ reader'[r] = reader[r] /\ seen'[r] = seen[r] /\ restarts'[r] = restarts[r]
  /\ job'.keyed => job.keyed /\ job'.cursor[r] = job.cursor[r]
  /\ \/ /\ shipped' = shipped /\ log' \subseteq log
        /\ r \in Running => lines'[r] >= lines[r]
     \/ /\ shipped < MaxEntries /\ shipped' = shipped + 1
        /\ log' = log \cup {shipped'}
        /\ r \in Running => lines'[r] > 0

Own(r) ==
  \/ ReadCursor(r) \/ FetchLog(r) \/ MarkCursor(r)
  \/ r = "firehose" /\ Broadcast
  \/ r = "analyzer" /\ Count
  \/ r \in Running /\ Restart(r)

LEMMA Foreign ==
  ASSUME TypeOK, JobInv, Next, NEW r \in Reader
  PROVE  Own(r) \/ Untouched(r)
<1> USE DEF TypeOK, Untouched, toolVars, history
<1>0. r \in Tool /\ lines[r] \in Nat
  BY DEF Tool
<1>1. CASE Ship
  <2>1. job'.score = job.score + 1 /\ job.score = shipped
    BY <1>1 DEF Ship, Job, JobInv
  <2>2. lines'[r] = IF r \in Running THEN lines[r] + 1 ELSE 0
    BY <1>0, <1>1 DEF Ship, Publish
  <2>3. job'.keyed = job.keyed /\ job'.cursor = job.cursor
    BY <1>1 DEF Ship, Job
  <2> QED BY <1>0, <1>1, <2>1, <2>2, <2>3 DEF Ship
<1>2. CASE MarkDone
  <2>1. lines'[r] = IF r \in Running THEN lines[r] + 1 ELSE 0
    BY <1>0, <1>2 DEF MarkDone, Publish
  <2>2. job'.keyed = job.keyed /\ job'.cursor = job.cursor
    BY <1>2 DEF MarkDone, Job
  <2> QED BY <1>0, <1>2, <2>1, <2>2 DEF MarkDone
<1>3. CASE JobExpires
  BY <1>0, <1>3 DEF JobExpires, NoJob
<1>4. CASE LogExpires
  BY <1>0, <1>4 DEF LogExpires, SetLog
<1>5. ASSUME NEW q \in Reader, ReadCursor(q) PROVE Own(r) \/ Untouched(r)
  <2>1. CASE q = r
    BY <1>5, <2>1 DEF Own
  <2>2. CASE q # r
    <3>1. reader'[r] = reader[r] /\ lines'[r] = lines[r]
      BY <1>0, <1>5, <2>2 DEF ReadCursor, TakeLine
    <3> QED BY <1>0, <1>5, <3>1 DEF ReadCursor
  <2> QED BY <2>1, <2>2
<1>6. ASSUME NEW q \in Reader, FetchLog(q) PROVE Own(r) \/ Untouched(r)
  <2>1. CASE q = r
    BY <1>6, <2>1 DEF Own
  <2>2. CASE q # r
    <3>1. reader'[r] = reader[r]
      BY <1>6, <2>2 DEF FetchLog
    <3> QED BY <1>0, <1>6, <3>1 DEF FetchLog
  <2> QED BY <2>1, <2>2
<1>7. CASE Broadcast
  <2>1. CASE r = "firehose"
    BY <1>7, <2>1 DEF Own
  <2>2. CASE r # "firehose"
    <3> PICK e \in reader["firehose"].batch : SendEntry(e)
      BY <1>7 DEF Broadcast
    <3>1. reader'[r] = reader[r] /\ seen'[r] = seen[r]
      BY <2>2 DEF SendEntry
    <3> QED BY <1>0, <3>1 DEF SendEntry
  <2> QED BY <2>1, <2>2
<1>8. CASE Count
  <2>1. CASE r = "analyzer"
    BY <1>8, <2>1 DEF Own
  <2>2. CASE r # "analyzer"
    <3>1. reader'[r] = reader[r] /\ seen'[r] = seen[r]
      BY <1>8, <2>2 DEF Count
    <3>2. job'.keyed = job.keyed /\ job'.cursor = job.cursor
      BY <1>8 DEF Count, Touched, Job
    <3>3. UNCHANGED <<restarts, shipped, log, lines>>
      BY <1>8 DEF Count
    <3> QED BY <1>0, <3>1, <3>2, <3>3
  <2> QED BY <2>1, <2>2
<1>9. ASSUME NEW q \in Reader, MarkCursor(q) PROVE Own(r) \/ Untouched(r)
  <2>1. CASE q = r
    BY <1>9, <2>1 DEF Own
  <2>2. CASE q # r
    <3>1. reader'[r] = reader[r]
      BY <1>9, <2>2 DEF MarkCursor
    <3>2. job'.keyed = job.keyed /\ job'.cursor[r] = job.cursor[r]
      BY <1>9, <2>2 DEF MarkCursor, Touched, Job
    <3> QED BY <1>0, <1>9, <3>1, <3>2 DEF MarkCursor
  <2> QED BY <2>1, <2>2
<1>10. CASE TrimmerStep
  <2>1. CASE ReadMarks
    BY <1>0, <2>1 DEF ReadMarks, TakeLine, Reader
  <2>2. CASE PrintLog
    BY <1>0, <2>2 DEF PrintLog
  <2>3. CASE RemoveLog
    BY <1>0, <2>3 DEF RemoveLog, SetLog
  <2>4. CASE MarkTrimmed
    <3>1. job'.keyed = job.keyed /\ job'.cursor = job.cursor
      BY <2>4 DEF MarkTrimmed, Touched, Job
    <3> QED BY <1>0, <2>4, <3>1 DEF MarkTrimmed
  <2> QED BY <1>10, <2>1, <2>2, <2>3, <2>4 DEF TrimmerStep
<1>11. CASE RecorderStep
  <2>1. CASE ReadFinished
    BY <1>0, <2>1 DEF ReadFinished, TakeLine, Reader
  <2>2. CASE ReadJob
    BY <1>0, <2>2 DEF ReadJob
  <2>3. CASE PutDocument
    BY <1>0, <2>3 DEF PutDocument
  <2>4. CASE MarkRecorded
    <3>1. job'.keyed = job.keyed /\ job'.cursor = job.cursor
      BY <2>4 DEF MarkRecorded, Touched, Job
    <3> QED BY <1>0, <2>4, <3>1 DEF MarkRecorded
  <2> QED BY <1>11, <2>1, <2>2, <2>3, <2>4 DEF RecorderStep
<1>12. ASSUME NEW t \in Restarting, Restart(t) PROVE Own(r) \/ Untouched(r)
  <2>1. CASE t = r
    BY <1>12, <2>1, RunningAssumption DEF Own
  <2>2. CASE t # r
    <3>1. reader'[r] = reader[r] /\ lines'[r] = lines[r] /\ restarts'[r] = restarts[r]
      BY <1>0, <1>12, <2>2 DEF Restart
    <3> QED BY <1>0, <1>12, <3>1 DEF Restart
  <2> QED BY <2>1, <2>2
<1> QED
  BY <1>1, <1>2, <1>3, <1>4, <1>5, <1>6, <1>7, <1>8, <1>9, <1>10, <1>11, <1>12
  DEF Next, FirehoseStep, AnalyzerStep, Reader

(***************************************************************************)
(* A reader's own steps, field by field.                                   *)
(***************************************************************************)
LEMMA ReadEffect ==
  ASSUME TypeOK, NEW r \in Reader, ReadCursor(r)
  PROVE  /\ reader[r].pc = "idle"
         /\ job.keyed => /\ reader'[r].pc = "fetch" /\ reader'[r].start = job.cursor[r]
                         /\ reader'[r].batch = reader[r].batch
                         /\ reader'[r].last = reader[r].last
         /\ ~job.keyed => reader'[r] = reader[r]
         /\ UNCHANGED <<job, log, seen, restarts, shipped>>
  BY DEF TypeOK, ReadCursor, ReaderState, history

LEMMA AfterStart ==
  ASSUME NEW n \in Nat, NEW L \in SUBSET Nat
  PROVE  {e \in L : e >= n} \ {n} = {e \in L : e > n}
<1> SUFFICES ASSUME NEW e \in L PROVE e >= n /\ e # n <=> e > n
  OBVIOUS
<1>1. e \in Nat
  OBVIOUS
<1> QED BY <1>1

LEMMA LastOfAll ==
  ASSUME NEW n \in Nat, NEW L \in SUBSET Nat, NEW last \in L, last > n,
         \A e \in {f \in L : f > n} : e <= last
  PROVE  \A e \in L : e <= last
<1> SUFFICES ASSUME NEW e \in L PROVE e <= last
  OBVIOUS
<1>1. e \in Nat /\ last \in Nat
  OBVIOUS
<1> QED BY <1>1

LEMMA FetchEffect ==
  ASSUME TypeOK, NEW r \in Reader, FetchLog(r)
  PROVE  /\ reader[r].pc = "fetch"
         /\ \/ /\ reader'[r] = IdleReader
               /\ \A e \in log : e <= reader[r].start
            \/ /\ reader'[r].pc = "output"
               /\ reader'[r].start = reader[r].start
               /\ reader'[r].batch = {e \in log : e > reader[r].start}
               /\ reader'[r].last \in reader'[r].batch
               /\ \A e \in log : e <= reader'[r].last
         /\ UNCHANGED <<job, log, lines, seen, restarts, shipped>>
<1> USE DEF TypeOK
<1> DEFINE batch == FetchedFrom(reader[r].start)
<1>1. reader[r].start \in Nat /\ log \subseteq Nat
  BY DEF ReaderState, Entry
<1>2. batch = {e \in log : e > reader[r].start}
  BY <1>1, AfterStart DEF FetchedFrom, Between
<1>3. CASE batch = {}
  <2>1. reader' = [reader EXCEPT ![r] = IdleReader]
    BY <1>3 DEF FetchLog
  <2>2. \A e \in log : e <= reader[r].start
    BY <1>1, <1>2, <1>3
  <2> QED BY <2>1, <2>2 DEF FetchLog, history
<1>4. CASE batch # {}
  <2> PICK last \in batch :
        /\ \A e \in batch : e <= last
        /\ reader' = [reader EXCEPT ![r].pc = "output", ![r].batch = batch,
                                    ![r].last = last]
    BY <1>4 DEF FetchLog
  <2>1. /\ reader'[r].pc = "output" /\ reader'[r].start = reader[r].start
        /\ reader'[r].batch = batch /\ reader'[r].last = last
    BY DEF ReaderState
  <2>2. last \in log /\ last > reader[r].start
    BY <1>2
  <2>3. \A e \in log : e <= last
    BY <1>1, <1>2, <2>2, LastOfAll
  <2>4. UNCHANGED <<job, log, lines, seen, restarts, shipped>>
    BY DEF FetchLog, history
  <2>5. last \in batch
    OBVIOUS
  <2> HIDE DEF batch
  <2>6. reader[r].pc = "fetch"
    BY DEF FetchLog
  <2> QED BY <1>2, <2>1, <2>3, <2>4, <2>5, <2>6
<1> QED BY <1>3, <1>4

LEMMA BroadcastEffect ==
  ASSUME TypeOK, ReaderInv("firehose"), Broadcast
  PROVE  \E e \in reader["firehose"].batch :
           /\ reader["firehose"].pc = "output"
           /\ \A f \in reader["firehose"].batch : e <= f
           /\ reader'["firehose"].batch = reader["firehose"].batch \ {e}
           /\ reader'["firehose"].start = reader["firehose"].start
           /\ reader'["firehose"].last = reader["firehose"].last
           /\ reader'["firehose"].pc =
                IF reader["firehose"].batch = {e} THEN "mark" ELSE "output"
           /\ \A d \in 1..MaxEntries :
                seen'["firehose"][d] = seen["firehose"][d] + IF d = e THEN 1 ELSE 0
           /\ seen' = [seen EXCEPT !["firehose"] = seen'["firehose"]]
           /\ UNCHANGED <<job, log, lines, restarts, shipped>>
<1> PICK e \in reader["firehose"].batch :
      (\A f \in reader["firehose"].batch : e <= f) /\ SendEntry(e)
  BY DEF Broadcast
<1>1. reader["firehose"].pc = "output"
  BY DEF Broadcast
<1>2. /\ reader'["firehose"].batch = reader["firehose"].batch \ {e}
      /\ reader'["firehose"].start = reader["firehose"].start
      /\ reader'["firehose"].last = reader["firehose"].last
      /\ reader'["firehose"].pc =
           IF reader["firehose"].batch = {e} THEN "mark" ELSE "output"
  BY <1>1 DEF SendEntry, TypeOK, ReaderState, Reader
<1>3. /\ \A d \in 1..MaxEntries :
           seen'["firehose"][d] = seen["firehose"][d] + IF d = e THEN 1 ELSE 0
      /\ seen' = [seen EXCEPT !["firehose"] = seen'["firehose"]]
  <2> DEFINE row == seen["firehose"]
  <2>1. row \in [1..MaxEntries -> Nat] /\ seen \in [Reader -> [1..MaxEntries -> Nat]]
    BY DEF TypeOK, Reader
  <2>2. seen' = [seen EXCEPT !["firehose"] = [row EXCEPT ![e] = @ + 1]]
    BY DEF SendEntry
  <2>3. seen'["firehose"] = [row EXCEPT ![e] = @ + 1]
    BY <2>1, <2>2 DEF Reader
  <2>4. \A d \in 1..MaxEntries :
          [row EXCEPT ![e] = @ + 1][d] = row[d] + IF d = e THEN 1 ELSE 0
    BY <2>1, IncrementedAt
  <2> HIDE DEF row
  <2>5. row = seen["firehose"]
    BY DEF row
  <2> QED BY <2>2, <2>3, <2>4, <2>5
<1> QED BY <1>1, <1>2, <1>3 DEF SendEntry

LEMMA CountEffect ==
  ASSUME TypeOK, Count
  PROVE  /\ reader["analyzer"].pc = "output"
         /\ reader'["analyzer"].batch = {} /\ reader'["analyzer"].pc = "mark"
         /\ reader'["analyzer"].start = reader["analyzer"].start
         /\ reader'["analyzer"].last = reader["analyzer"].last
         /\ \A d \in 1..MaxEntries :
              seen'["analyzer"][d] =
                seen["analyzer"][d] + IF d \in reader["analyzer"].batch THEN 1 ELSE 0
         /\ seen' = [seen EXCEPT !["analyzer"] = seen'["analyzer"]]
         /\ job'.keyed = job.keyed /\ job'.cursor = job.cursor
         /\ UNCHANGED <<log, lines, restarts, shipped>>
<1> USE DEF TypeOK, Count
<1>1. /\ reader["analyzer"].pc = "output"
      /\ reader'["analyzer"].batch = {} /\ reader'["analyzer"].pc = "mark"
      /\ reader'["analyzer"].start = reader["analyzer"].start
      /\ reader'["analyzer"].last = reader["analyzer"].last
  BY DEF ReaderState, Reader
<1>2. /\ \A d \in 1..MaxEntries :
           seen'["analyzer"][d] =
             seen["analyzer"][d] + IF d \in reader["analyzer"].batch THEN 1 ELSE 0
      /\ seen' = [seen EXCEPT !["analyzer"] = seen'["analyzer"]]
  <2> DEFINE row == seen["analyzer"]
             batch == reader["analyzer"].batch
             new == [e \in DOMAIN row |-> IF e \in batch THEN row[e] + 1 ELSE row[e]]
  <2>1. row \in [1..MaxEntries -> Nat]
    BY DEF Reader
  <2>2. seen' = [seen EXCEPT !["analyzer"] = new]
    OBVIOUS
  <2>3. seen'["analyzer"] = new
    BY <2>2 DEF Reader
  <2>4. \A d \in 1..MaxEntries : new[d] = row[d] + IF d \in batch THEN 1 ELSE 0
    <3> SUFFICES ASSUME NEW d \in 1..MaxEntries
                 PROVE  new[d] = row[d] + IF d \in batch THEN 1 ELSE 0
      OBVIOUS
    <3> HIDE DEF row, batch
    <3>1. d \in DOMAIN row /\ row[d] \in Nat
      BY <2>1
    <3> QED BY <3>1
  <2> HIDE DEF new
  <2> QED BY <2>2, <2>3, <2>4
<1>3. job'.keyed = job.keyed /\ job'.cursor = job.cursor
  BY DEF Touched, Job
<1> QED BY <1>1, <1>2, <1>3

LEMMA MarkEffect ==
  ASSUME TypeOK, NEW r \in Reader, MarkCursor(r)
  PROVE  /\ reader[r].pc = "mark" /\ reader'[r] = IdleReader
         /\ job'.keyed = job.keyed /\ job'.cursor[r] = reader[r].last
         /\ UNCHANGED <<log, lines, seen, restarts, shipped>>
  BY DEF TypeOK, MarkCursor, Touched, Job, history

LEMMA RestartEffect ==
  ASSUME TypeOK, NEW r \in Reader \cap Running, Restart(r)
  PROVE  /\ reader'[r] = IdleReader /\ restarts'[r] = restarts[r] + 1
         /\ UNCHANGED <<job, log, seen, shipped>>
  BY DEF TypeOK, Restart, Tool, history

(***************************************************************************)
(* The invariant of the readers.                                           *)
(***************************************************************************)
LEMMA ReaderFacts ==
  ASSUME TypeOK, NEW r \in Reader
  PROVE  /\ reader[r].pc \in {"idle", "fetch", "output", "mark"}
         /\ reader[r].start \in Nat /\ reader[r].last \in Nat
         /\ restarts[r] \in Nat /\ job.cursor[r] \in Nat /\ job.keyed \in BOOLEAN
         /\ \A e \in 1..MaxEntries : e \in Nat /\ seen[r][e] \in Nat
         /\ shipped \in Nat /\ MaxEntries \in Nat
  BY BoundsAssumption DEF TypeOK, ReaderState, Job, Tool

LEMMA ReaderStep ==
  ASSUME TypeOK, TypeOK', PlumbingInv, Next, NEW r \in Reader
  PROVE  ReaderInv(r)'
<1>0. ReaderInv(r) /\ JobInv /\ SeenOnce
  BY DEF PlumbingInv
<1>a. /\ reader[r].start \in Nat /\ reader[r].last \in Nat
      /\ restarts[r] \in Nat /\ job.cursor[r] \in Nat
      /\ \A e \in 1..MaxEntries : e \in Nat /\ seen[r][e] \in Nat
      /\ shipped \in Nat /\ MaxEntries \in Nat
  BY ReaderFacts
<1>1. CASE Untouched(r)
  BY <1>0, <1>a, <1>1 DEF ReaderInv, Untouched, Once
<1>2. CASE ReadCursor(r)
  BY <1>0, <1>a, <1>2, ReadEffect DEF ReaderInv, Once
<1>3. CASE FetchLog(r)
  <2>1. log \subseteq 1..MaxEntries /\ log \subseteq 1..shipped
    BY <1>0, <1>a DEF JobInv
  <2>2. CASE reader'[r] = IdleReader
    BY <1>0, <1>a, <1>3, <2>2, FetchEffect DEF ReaderInv, Once, IdleReader
  <2>3. CASE reader'[r].pc = "output"
    BY <1>0, <1>a, <1>3, <2>1, <2>3, FetchEffect DEF ReaderInv, Once, IdleReader
  <2> QED BY <1>3, <2>2, <2>3, FetchEffect
<1>4. CASE r = "firehose" /\ Broadcast
  BY <1>0, <1>a, <1>4, BroadcastEffect DEF ReaderInv, Once
<1>5. CASE r = "analyzer" /\ Count
  BY <1>0, <1>a, <1>5, CountEffect DEF ReaderInv, Once
<1>6. CASE MarkCursor(r)
  BY <1>0, <1>a, <1>6, MarkEffect DEF ReaderInv, Once, IdleReader
<1>7. CASE r \in Running /\ Restart(r)
  BY <1>0, <1>a, <1>7, RestartEffect DEF ReaderInv, Once, IdleReader, SeenOnce
<1> QED BY <1>0, <1>1, <1>2, <1>3, <1>4, <1>5, <1>6, <1>7, Foreign DEF Own

LEMMA CoverStep ==
  ASSUME TypeOK, TypeOK', PlumbingInv, Next, NEW r \in Reader
  PROVE  CoverInv(r)'
<1> SUFFICES ASSUME job'.keyed, NEW e \in log'
             PROVE  /\ e <= job'.cursor[r] => seen'[r][e] > 0
                    /\ reader'[r].pc \in {"output", "mark"} /\ e <= reader'[r].last
                         => e \in reader'[r].batch \/ seen'[r][e] > 0
  BY DEF CoverInv
<1>0. ReaderInv(r) /\ CoverInv(r) /\ JobInv
  BY DEF PlumbingInv
<1>a. /\ reader[r].start \in Nat /\ reader[r].last \in Nat /\ reader[r].last <= shipped
      /\ job.cursor[r] \in Nat /\ shipped \in Nat
      /\ job.keyed => job.cursor[r] <= shipped
  BY <1>0, ReaderFacts DEF JobInv, ReaderInv
<1>b. e \in log => e \in 1..MaxEntries /\ e \in Nat /\ seen[r][e] \in Nat
  <2>1. log \subseteq 1..MaxEntries
    BY <1>0, ReaderFacts DEF JobInv
  <2> QED BY <2>1, ReaderFacts
<1>c. job.keyed /\ e \in log =>
        /\ e <= job.cursor[r] => seen[r][e] > 0
        /\ reader[r].pc \in {"output", "mark"} /\ e <= reader[r].last
             => e \in reader[r].batch \/ seen[r][e] > 0
  BY <1>0 DEF CoverInv
<1>1. CASE Untouched(r)
  <2>1. CASE e \in log
    BY <1>c, <1>1, <2>1 DEF Untouched
  <2>2. CASE e \notin log
    <3>1. e = shipped + 1
      BY <1>1, <2>2 DEF Untouched
    <3> QED BY <1>a, <1>1, <3>1 DEF Untouched
  <2> QED BY <2>1, <2>2
<1>2. CASE ReadCursor(r)
  BY <1>c, <1>2, ReadEffect
<1>3. CASE FetchLog(r)
  <2>1. job.keyed => reader[r].start = job.cursor[r]
    BY <1>0, <1>3, FetchEffect DEF ReaderInv
  <2>2. CASE reader'[r] = IdleReader
    BY <1>c, <1>3, <2>2, FetchEffect DEF IdleReader
  <2>3. CASE reader'[r].pc = "output"
    BY <1>a, <1>b, <1>c, <1>3, <2>1, <2>3, FetchEffect DEF IdleReader
  <2> QED BY <1>3, <2>2, <2>3, FetchEffect
<1>4. CASE r = "firehose" /\ Broadcast
  <2> PICK d \in reader["firehose"].batch :
           /\ reader["firehose"].pc = "output"
           /\ reader'["firehose"].batch = reader["firehose"].batch \ {d}
           /\ reader'["firehose"].last = reader["firehose"].last
           /\ e \in 1..MaxEntries =>
                seen'["firehose"][e] = seen["firehose"][e] + IF e = d THEN 1 ELSE 0
           /\ UNCHANGED <<job, log>>
    BY <1>0, <1>4, BroadcastEffect
  <2> QED BY <1>4, <1>b, <1>c
<1>5. CASE r = "analyzer" /\ Count
  <2>1. e \in log /\ seen'[r][e] = seen[r][e] + IF e \in reader[r].batch THEN 1 ELSE 0
    BY <1>b, <1>5, CountEffect
  <2>2. /\ job.keyed /\ job'.cursor = job.cursor /\ reader'[r].last = reader[r].last
        /\ reader[r].pc = "output"
    BY <1>5, CountEffect
  <2> QED BY <1>b, <1>c, <2>1, <2>2
<1>6. CASE MarkCursor(r)
  <2>1. reader[r].batch = {}
    BY <1>0, <1>6, MarkEffect DEF ReaderInv
  <2>2. /\ job.keyed /\ job'.cursor[r] = reader[r].last /\ reader[r].pc = "mark"
        /\ e \in log /\ seen' = seen /\ reader'[r] = IdleReader
    BY <1>6, MarkEffect
  <2> QED BY <1>c, <2>1, <2>2 DEF IdleReader
<1>7. CASE r \in Running /\ Restart(r)
  BY <1>c, <1>7, RestartEffect DEF IdleReader
<1> QED BY <1>0, <1>1, <1>2, <1>3, <1>4, <1>5, <1>6, <1>7, Foreign DEF Own

LEMMA WakeStep ==
  ASSUME TypeOK, TypeOK', PlumbingInv, Next, NEW r \in Reader
  PROVE  WakeInv(r)'
<1>0. ReaderInv(r) /\ WakeInv(r) /\ JobInv
  BY DEF PlumbingInv
<1>a. /\ reader[r].start \in Nat /\ reader[r].last \in Nat
      /\ restarts[r] \in Nat /\ job.cursor[r] \in Nat
      /\ lines[r] \in Nat /\ lines'[r] \in Nat
  BY ReaderFacts DEF TypeOK, Tool
<1>1. CASE Untouched(r)
  BY <1>0, <1>a, <1>1 DEF WakeInv, Untouched
<1>2. CASE ReadCursor(r)
  BY <1>0, <1>2, ReadEffect DEF WakeInv
<1>3. CASE FetchLog(r)
  <2>1. job.keyed => reader[r].start = job.cursor[r]
    BY <1>0, <1>3, FetchEffect DEF ReaderInv
  <2> QED BY <1>0, <1>3, <2>1, FetchEffect DEF WakeInv
<1>4. CASE r = "firehose" /\ Broadcast
  BY <1>0, <1>4, BroadcastEffect DEF WakeInv
<1>5. CASE r = "analyzer" /\ Count
  BY <1>0, <1>5, CountEffect DEF WakeInv
<1>6. CASE MarkCursor(r)
  <2>1. job.keyed => job.cursor[r] < reader[r].last
    BY <1>0, <1>6, MarkEffect DEF ReaderInv
  <2>2. \A e \in log : e \in Nat
    BY DEF TypeOK, Entry
  <2>3. log' = log /\ lines' = lines /\ restarts' = restarts
    BY <1>6, MarkEffect
  <2> SUFFICES ASSUME r \in Running, job'.keyed, restarts'[r] = 0, lines'[r] = 0,
                      NEW e \in log
               PROVE  e <= job'.cursor[r]
    BY <2>3 DEF WakeInv
  <2>4. job.keyed /\ job'.cursor[r] = reader[r].last /\ reader[r].pc = "mark"
    BY <1>6, MarkEffect
  <2>5. e <= job.cursor[r] \/ e <= reader[r].last
    BY <1>0, <2>3, <2>4 DEF WakeInv
  <2> QED BY <1>a, <2>1, <2>2, <2>4, <2>5
<1>7. CASE r \in Running /\ Restart(r)
  BY <1>0, <1>a, <1>7, RestartEffect DEF WakeInv
<1> QED BY <1>0, <1>1, <1>2, <1>3, <1>4, <1>5, <1>6, <1>7, Foreign DEF Own

LEMMA OnceStep ==
  ASSUME TypeOK, TypeOK', PlumbingInv, Next
  PROVE  SeenOnce'
<1> SUFFICES ASSUME NEW r \in Reader, NEW e \in 1..MaxEntries
             PROVE  seen'[r][e] <= 1 + restarts'[r]
  BY DEF SeenOnce
<1>0. ReaderInv(r) /\ SeenOnce /\ JobInv
  BY DEF PlumbingInv
<1>a. restarts[r] \in Nat /\ e \in Nat /\ seen[r][e] \in Nat
  BY ReaderFacts
<1>b. seen[r][e] <= 1 + restarts[r]
  BY <1>0 DEF SeenOnce
<1>1. CASE Untouched(r)
  BY <1>b, <1>1 DEF Untouched
<1>2. CASE ReadCursor(r) \/ FetchLog(r) \/ MarkCursor(r)
  BY <1>b, <1>2, ReadEffect, FetchEffect, MarkEffect
<1>4. CASE r = "firehose" /\ Broadcast
  BY <1>0, <1>a, <1>b, <1>4, BroadcastEffect DEF ReaderInv, Once
<1>5. CASE r = "analyzer" /\ Count
  BY <1>0, <1>a, <1>b, <1>5, CountEffect DEF ReaderInv, Once
<1>7. CASE r \in Running /\ Restart(r)
  BY <1>a, <1>b, <1>7, RestartEffect
<1> QED BY <1>0, <1>1, <1>2, <1>4, <1>5, <1>7, Foreign DEF Own

(***************************************************************************)
(* The invariants of the job, the trimmer and the recorder.                *)
(***************************************************************************)
LEMMA JobFacts ==
  ASSUME TypeOK, NEW r \in Reader
  PROVE  /\ job \in Job /\ job.score \in Nat /\ job.cursor[r] \in Nat
         /\ job.trimmed \in Nat \cup {Inf} /\ shipped \in Nat /\ MaxEntries \in Nat
         /\ atFinish \in Nat \cup {None}
  BY BoundsAssumption DEF TypeOK, Job

\* Log entries never appear without LOGGER_SCRIPT, marks only grow.
LEMMA JobStep ==
  ASSUME TypeOK, TypeOK', PlumbingInv, Next
  PROVE  JobInv'
<1>0. JobInv /\ TrimmerInv /\ \A r \in Reader : ReaderInv(r)
  BY DEF PlumbingInv
<1>a. /\ job.score \in Nat /\ shipped \in Nat /\ MaxEntries \in Nat
      /\ job.trimmed \in Nat \cup {Inf} /\ atFinish \in Nat \cup {None}
      /\ \A r \in Reader : job.cursor[r] \in Nat
  BY JobFacts DEF Reader
<1> USE DEF JobInv
<1>1. CASE Ship
  <2>1. /\ job'.score = shipped + 1 /\ job'.keyed /\ job.keyed
        /\ job'.finished = job.finished /\ job'.timer = job.timer
        /\ job'.trimmed = job.trimmed /\ job'.cursor = job.cursor
    BY <1>0, <1>1 DEF Ship, TypeOK, Job
  <2> QED BY <1>0, <1>a, <1>1, <2>1 DEF Ship
<1>2. CASE MarkDone
  <2>1. /\ job'.score = job.score /\ job'.keyed = job.keyed /\ job'.finished
        /\ job'.trimmed = job.trimmed /\ job'.cursor = job.cursor
    BY <1>2 DEF MarkDone, TypeOK, Job
  <2> QED BY <1>0, <1>a, <1>2, <2>1, NoneAssumption DEF MarkDone
<1>3. CASE JobExpires
  BY <1>0, <1>3 DEF JobExpires, NoJob, history
<1>4. CASE LogExpires
  BY <1>0, <1>4 DEF LogExpires, SetLog
<1>5. CASE UNCHANGED <<job, log, logTimer, shipped, atFinish>>
  BY <1>0, <1>5
<1>6. CASE Count \/ MarkRecorded
  <2>1. /\ job'.score = job.score /\ job'.keyed = job.keyed /\ job'.finished = job.finished
        /\ job'.timer = job.timer /\ job'.trimmed = job.trimmed
        /\ job'.cursor = job.cursor /\ UNCHANGED <<log, logTimer, shipped, atFinish>>
    BY <1>6 DEF Count, MarkRecorded, Touched, TypeOK, Job, history
  <2> QED BY <1>0, <2>1
<1>7. ASSUME NEW r \in Reader, MarkCursor(r) PROVE JobInv'
  <2>1. /\ job'.score = job.score /\ job'.keyed = job.keyed /\ job'.finished = job.finished
        /\ job'.timer = job.timer /\ job'.trimmed = job.trimmed
        /\ job'.cursor = [job.cursor EXCEPT ![r] = reader[r].last]
        /\ UNCHANGED <<log, logTimer, shipped, atFinish>>
    BY <1>7 DEF MarkCursor, Touched, TypeOK, Job, history
  <2>2. /\ reader[r].last \in Nat /\ reader[r].last <= shipped
        /\ job.keyed => job.cursor[r] < reader[r].last
    BY <1>0, <1>7, MarkEffect, ReaderFacts DEF ReaderInv
  <2>3. \A q \in Reader : job'.cursor[q] = IF q = r THEN reader[r].last ELSE job.cursor[q]
    BY <2>1 DEF TypeOK, Job
  <2> QED BY <1>0, <1>a, <2>1, <2>2, <2>3
<1>8. CASE RemoveLog
  BY <1>0, <1>8 DEF RemoveLog, SetLog
<1>9. CASE MarkTrimmed
  <2>1. /\ job'.score = job.score /\ job'.keyed = job.keyed /\ job'.finished = job.finished
        /\ job'.timer = job.timer /\ job'.trimmed = trimmer.to
        /\ job'.cursor = job.cursor /\ UNCHANGED <<log, logTimer, shipped, atFinish>>
    BY <1>9 DEF MarkTrimmed, Touched, TypeOK, Job, history
  <2>2. trimmer.pc # "idle"
    BY <1>9 DEF MarkTrimmed
  <2> QED BY <1>0, <1>a, <2>1, <2>2 DEF TrimmerInv
<1>10. ASSUME NEW r \in Reader, ReadCursor(r) \/ FetchLog(r) PROVE JobInv'
  BY <1>5, <1>10 DEF ReadCursor, FetchLog, history
<1>11. CASE Broadcast
  BY <1>5, <1>11 DEF Broadcast, SendEntry
<1>12. CASE ReadMarks \/ PrintLog
  BY <1>5, <1>12 DEF ReadMarks, PrintLog, history
<1>13. CASE ReadFinished \/ ReadJob \/ PutDocument
  BY <1>5, <1>13 DEF ReadFinished, ReadJob, PutDocument, history
<1>14. ASSUME NEW t \in Restarting, Restart(t) PROVE JobInv'
  BY <1>5, <1>14 DEF Restart, history
<1> QED
  BY <1>1, <1>2, <1>3, <1>4, <1>6, <1>7, <1>8, <1>9, <1>10, <1>11, <1>12, <1>13, <1>14
  DEF Next, FirehoseStep, AnalyzerStep, TrimmerStep, RecorderStep, Reader

\* What the rest of the proof needs to know of every step.
LEMMA Effects ==
  ASSUME TypeOK, TypeOK', PlumbingInv, Next
  PROVE  /\ job'.keyed => job.keyed
         /\ printed \subseteq printed'
         /\ atFinish # None => atFinish' = atFinish
         /\ \/ shipped' = shipped /\ log' \subseteq log
            \/ shipped' = shipped + 1 /\ log' = log \cup {shipped'}
         /\ \A r \in Reader :
              /\ job'.keyed => job'.cursor[r] >= job.cursor[r]
              /\ \A e \in 1..MaxEntries : seen'[r][e] >= seen[r][e]
<1>0. JobInv /\ \A r \in Reader : ReaderInv(r)
  BY DEF PlumbingInv
<1>1. ASSUME NEW r \in Reader
      PROVE  /\ job'.keyed => job.keyed /\ job'.cursor[r] >= job.cursor[r]
             /\ \A e \in 1..MaxEntries : seen'[r][e] >= seen[r][e]
             /\ \/ shipped' = shipped /\ log' \subseteq log
                \/ shipped' = shipped + 1 /\ log' = log \cup {shipped'}
  <2>a. job.cursor[r] \in Nat /\ \A e \in 1..MaxEntries : seen[r][e] \in Nat
    BY ReaderFacts
  <2>1. CASE Untouched(r)
    BY <2>a, <2>1 DEF Untouched
  <2>2. CASE ReadCursor(r) \/ FetchLog(r) \/ (r \in Running /\ Restart(r))
    BY <2>a, <2>2, ReadEffect, FetchEffect, RestartEffect
  <2>3. CASE r = "firehose" /\ Broadcast
    BY <1>0, <2>a, <2>3, BroadcastEffect
  <2>4. CASE r = "analyzer" /\ Count
    BY <2>a, <2>4, CountEffect
  <2>5. CASE MarkCursor(r)
    <3>1. job.keyed => job.cursor[r] < reader[r].last /\ reader[r].last \in Nat
      BY <1>0, <2>5, MarkEffect, ReaderFacts DEF ReaderInv
    <3> QED BY <2>a, <2>5, <3>1, MarkEffect
  <2> QED BY <1>0, <2>1, <2>2, <2>3, <2>4, <2>5, Foreign DEF Own
<1>2. printed \subseteq printed' /\ (atFinish # None => atFinish' = atFinish)
  BY DEF Next, Ship, MarkDone, JobExpires, LogExpires, FirehoseStep, AnalyzerStep,
     TrimmerStep, RecorderStep, ReadCursor, FetchLog, Broadcast, SendEntry, Count, MarkCursor,
     ReadMarks, PrintLog, RemoveLog, MarkTrimmed, ReadFinished, ReadJob, PutDocument,
     MarkRecorded, Restart, history
<1> QED BY <1>1, <1>2 DEF Reader

\* The bound the trimmer took stays below what both readers have processed.
LEMMA TrimmerInvStep ==
  ASSUME TypeOK, TypeOK', PlumbingInv, Next
  PROVE  TrimmerInv'
<1>0. JobInv /\ TrimmerInv /\ \A r \in Reader : CoverInv(r)
  BY DEF PlumbingInv
<1>a. /\ shipped \in Nat /\ atFinish \in Nat \cup {None} /\ MaxEntries \in Nat
      /\ trimmer.to \in Nat \cup {Inf} /\ log \subseteq 1..MaxEntries /\ log \subseteq 1..shipped
  <2>1. trimmer.to \in Nat \cup {Inf}
    BY DEF TypeOK, TrimmerState
  <2>2. shipped \in Nat /\ atFinish \in Nat \cup {None} /\ MaxEntries \in Nat
    BY JobFacts DEF Reader
  <2>3. log \subseteq 1..shipped /\ shipped <= MaxEntries
    BY <1>0 DEF JobInv
  <2> QED BY <2>1, <2>2, <2>3
<1>b. \A r \in Reader : job.cursor[r] \in Nat /\ \A e \in 1..MaxEntries : seen[r][e] \in Nat
  BY ReaderFacts
<1>1. CASE trimmer' = IdleTrimmer
  BY <1>1 DEF TrimmerInv, IdleTrimmer
<1>2. CASE ReadMarks
  <2>1. job' = job /\ log' = log /\ seen' = seen /\ shipped' = shipped /\ atFinish' = atFinish
    BY <1>2 DEF ReadMarks, history
  <2>2. CASE trimmer' = trimmer
    BY <1>2, <2>2 DEF ReadMarks, TrimmerInv
  <2>3. CASE trimmer' = [pc |-> "print", keyed |-> job.keyed, from |-> LastTrimmed,
                         to |-> IF job.finished THEN Inf ELSE MinLast]
    <3>1. MinLast \in Nat /\ \A r \in Reader : MinLast <= job.cursor[r]
      BY <1>b DEF MinLast, Reader
    <3>2. job.finished => atFinish # None
      BY <1>0 DEF JobInv
    <3>3. job.keyed => MinLast <= shipped
      BY <1>0, <1>a, <1>b, <3>1 DEF JobInv, Reader
    <3>4. job.keyed => \A e \in log : e <= MinLast => \A r \in Reader : seen[r][e] > 0
      BY <1>0, <1>a, <1>b, <3>1 DEF CoverInv
    <3> QED BY <2>1, <2>3, <3>1, <3>2, <3>3, <3>4, InfAssumption DEF TrimmerInv
  <2> QED BY <1>2, <2>2, <2>3 DEF ReadMarks
<1>3. CASE PrintLog
  BY <1>0, <1>3 DEF PrintLog, TrimmerInv, Selected, Between
<1>4. CASE RemoveLog
  BY <1>0, <1>4 DEF RemoveLog, TrimmerInv, Selected, Between, SetLog
<1>5. CASE trimmer' = trimmer
  <2>1. /\ job'.keyed => job.keyed
        /\ printed \subseteq printed'
        /\ atFinish # None => atFinish' = atFinish
        /\ \/ shipped' = shipped /\ log' \subseteq log
           \/ shipped' = shipped + 1 /\ log' = log \cup {shipped'}
        /\ \A r \in Reader :
             /\ job'.keyed => job'.cursor[r] >= job.cursor[r] /\ job'.cursor[r] \in Nat
             /\ \A e \in 1..MaxEntries : seen'[r][e] >= seen[r][e] /\ seen'[r][e] \in Nat
    BY Effects DEF TypeOK, Job
  <2>2. trimmer.pc # "idle" /\ trimmer.to = Inf => atFinish' # None
    BY <1>0, <2>1 DEF TrimmerInv
  <2>3. ASSUME trimmer.pc # "idle", trimmer.to # Inf
        PROVE  /\ job'.keyed => \A r \in Reader : trimmer.to <= job'.cursor[r]
               /\ trimmer.keyed => trimmer.to <= shipped'
    BY <1>0, <1>a, <1>b, <2>1, <2>3 DEF TrimmerInv
  <2>4. ASSUME trimmer.pc # "idle", trimmer.to # Inf, trimmer.keyed,
               NEW e \in log', e <= trimmer.to, NEW r \in Reader
        PROVE  seen'[r][e] > 0
    <3>1. trimmer.to <= shipped
      BY <1>0, <2>4 DEF TrimmerInv
    <3>2. e \in log
      BY <1>a, <2>1, <2>4, <3>1
    <3>3. seen[r][e] > 0
      BY <1>0, <2>4, <3>2 DEF TrimmerInv
    <3> QED BY <1>a, <1>b, <2>1, <3>2, <3>3
  <2>5. ASSUME trimmer.pc = "remove", NEW e \in log', trimmer.keyed, e >= trimmer.from,
               trimmer.to # Inf => e <= trimmer.to
        PROVE  e \in printed' \/ (atFinish' # None /\ e > atFinish')
    <3>1. CASE e \in log
      <4>1. e \in Selected
        BY <2>5, <3>1 DEF Selected, Between
      <4> QED BY <1>0, <2>1, <2>5, <4>1 DEF TrimmerInv
    <3>2. CASE e \notin log
      <4>1. e = shipped + 1
        BY <2>1, <3>2
      <4>2. trimmer.to = Inf
        BY <1>0, <1>a, <2>5, <4>1 DEF TrimmerInv
      <4>3. atFinish # None /\ atFinish <= shipped
        BY <1>0, <2>5, <4>2 DEF TrimmerInv, JobInv
      <4> QED BY <1>a, <2>1, <4>1, <4>3
    <3> QED BY <3>1, <3>2
  <2> QED BY <1>5, <2>2, <2>3, <2>4, <2>5 DEF TrimmerInv, Selected, Between
<1>6. trimmer' = trimmer \/ trimmer' = IdleTrimmer \/ ReadMarks \/ PrintLog \/ RemoveLog
  BY DEF Next, Ship, MarkDone, JobExpires, LogExpires, FirehoseStep, AnalyzerStep,
     TrimmerStep, RecorderStep, ReadCursor, FetchLog, Broadcast, SendEntry, Count, MarkCursor,
     MarkTrimmed, ReadFinished, ReadJob, PutDocument, MarkRecorded, Restart, toolVars
<1> QED BY <1>1, <1>2, <1>3, <1>4, <1>5, <1>6

\* The trimmer removes what was processed, and prints what it removes.
LEMMA TrimStep ==
  ASSUME TypeOK, TypeOK', PlumbingInv, Next
  PROVE  TrimmedWasSeen' /\ early' \subseteq 1..MaxEntries /\ NothingUnprinted'
<1>0. /\ JobInv /\ TrimmerInv /\ TrimmedWasSeen /\ NothingUnprinted
      /\ early \subseteq 1..MaxEntries
  BY DEF PlumbingInv
<1>a. /\ shipped \in Nat /\ MaxEntries \in Nat
      /\ log \subseteq 1..MaxEntries /\ log \subseteq 1..shipped
  BY <1>0, JobFacts DEF JobInv, Reader
<1>b. /\ printed \subseteq printed'
      /\ atFinish # None => atFinish' = atFinish
      /\ \A r \in Reader : \A e \in 1..MaxEntries :
           seen'[r][e] >= seen[r][e] /\ seen'[r][e] \in Nat /\ seen[r][e] \in Nat
  BY Effects, ReaderFacts DEF TypeOK
<1>1. CASE RemoveLog
  <2>1. /\ log' = log \ Selected /\ seen' = seen /\ printed' = printed /\ shipped' = shipped
        /\ expired' = expired /\ atFinish' = atFinish
        /\ early' = IF trimmer.to = Inf THEN early ELSE early \cup Selected
    BY <1>1 DEF RemoveLog, SetLog
  <2>2. \A e \in Selected : /\ e \in log /\ trimmer.keyed
                            /\ trimmer.to # Inf => e <= trimmer.to
    BY DEF Selected, Between
  <2>3. trimmer.pc = "remove"
    BY <1>1 DEF RemoveLog
  <2>4. TrimmedWasSeen'
    BY <1>0, <2>1, <2>2, <2>3 DEF TrimmedWasSeen, TrimmerInv
  <2>5. early' \subseteq 1..MaxEntries
    BY <1>0, <1>a, <2>1, <2>2
  <2>6. NothingUnprinted'
    BY <1>0, <2>1, <2>3 DEF NothingUnprinted, TrimmerInv
  <2> QED BY <2>4, <2>5, <2>6
<1>2. ASSUME early' = early, expired \subseteq expired',
             \A e \in 1..shipped' :
               e \in log' \cup expired' \/ (e \in 1..shipped /\ e \notin log)
      PROVE  TrimmedWasSeen' /\ early' \subseteq 1..MaxEntries /\ NothingUnprinted'
  <2>1. TrimmedWasSeen'
    BY <1>0, <1>b, <1>2 DEF TrimmedWasSeen
  <2>2. ASSUME NEW e \in 1..shipped'
        PROVE  e \in log' \cup printed' \cup expired' \/ (atFinish' # None /\ e > atFinish')
    <3>1. CASE e \in 1..shipped /\ e \notin log
      <4>1. e \in printed \cup expired \/ (atFinish # None /\ e > atFinish)
        BY <1>0, <3>1 DEF NothingUnprinted
      <4> QED BY <4>1, <1>b, <1>2
    <3> QED BY <3>1, <1>2
  <2>3. NothingUnprinted'
    BY <2>2 DEF NothingUnprinted
  <2> QED BY <1>0, <1>2, <2>1, <2>3
<1>3. CASE Ship
  BY <1>a, <1>2, <1>3, JobFacts DEF Ship, JobInv, PlumbingInv, TypeOK, Job
<1>4. CASE LogExpires
  BY <1>a, <1>2, <1>4 DEF LogExpires, SetLog
<1>5. CASE UNCHANGED <<log, early, expired, shipped>>
  BY <1>a, <1>2, <1>5
<1>6. Ship \/ LogExpires \/ RemoveLog \/ UNCHANGED <<log, early, expired, shipped>>
  BY DEF Next, MarkDone, JobExpires, FirehoseStep, AnalyzerStep,
     TrimmerStep, RecorderStep, ReadCursor, FetchLog, Broadcast, SendEntry, Count, MarkCursor,
     ReadMarks, PrintLog, MarkTrimmed, ReadFinished, ReadJob, PutDocument, MarkRecorded,
     Restart, history
<1> QED BY <1>1, <1>3, <1>4, <1>5, <1>6

LEMMA RecorderInvStep ==
  ASSUME TypeOK, TypeOK', PlumbingInv, Next
  PROVE  RecorderInv' /\ RecordedHasDocument'
<1>0. RecorderInv /\ RecordedHasDocument
  BY DEF PlumbingInv
<1> USE DEF RecorderInv, RecordedHasDocument
<1>1. CASE ReadFinished
  BY <1>0, <1>1 DEF ReadFinished, history, TypeOK, RecorderState
<1>2. CASE ReadJob
  BY <1>0, <1>2 DEF ReadJob, history
<1>3. CASE PutDocument
  BY <1>0, <1>3 DEF PutDocument, history, IdleRecorder, TypeOK, RecorderState
<1>4. CASE MarkRecorded
  BY <1>0, <1>4 DEF MarkRecorded, history, IdleRecorder, Touched, TypeOK, Job
<1>5. ASSUME job'.keyed => job.keyed /\ job'.recorded = job.recorded,
             recorder' = recorder \/ recorder' = IdleRecorder, document' = document
      PROVE  RecorderInv' /\ RecordedHasDocument'
  BY <1>0, <1>5 DEF IdleRecorder
<1>6. /\ \/ ReadFinished \/ ReadJob \/ PutDocument \/ MarkRecorded
         \/ (recorder' = recorder \/ recorder' = IdleRecorder) /\ document' = document
  BY DEF Next, Ship, MarkDone, JobExpires, LogExpires, FirehoseStep, AnalyzerStep,
     TrimmerStep, RecorderStep, ReadCursor, FetchLog, Broadcast, SendEntry, Count, MarkCursor,
     ReadMarks, PrintLog, RemoveLog, MarkTrimmed, Restart, toolVars
<1>7. MarkRecorded \/ (job'.keyed => job.keyed /\ job'.recorded = job.recorded)
  <2> USE DEF TypeOK, Job, Touched
  <2>1. CASE Ship \/ MarkDone
    BY <2>1 DEF Ship, MarkDone
  <2>2. CASE JobExpires
    BY <2>2 DEF JobExpires, NoJob
  <2>3. CASE Count
    BY <2>3 DEF Count
  <2>4. CASE \E r \in Reader : MarkCursor(r)
    BY <2>4 DEF MarkCursor
  <2>5. CASE MarkTrimmed
    BY <2>5 DEF MarkTrimmed
  <2>6. CASE UNCHANGED job
    BY <2>6
  <2>7. \/ Ship \/ MarkDone \/ JobExpires \/ Count \/ (\E r \in Reader : MarkCursor(r))
        \/ MarkTrimmed \/ MarkRecorded \/ UNCHANGED job
    BY DEF Next, LogExpires, FirehoseStep, AnalyzerStep, TrimmerStep, RecorderStep,
       ReadCursor, FetchLog, Broadcast, SendEntry, ReadMarks, PrintLog, RemoveLog,
       ReadFinished, ReadJob, PutDocument, Restart, Reader
  <2> QED BY <2>1, <2>2, <2>3, <2>4, <2>5, <2>6, <2>7
<1> QED BY <1>1, <1>2, <1>3, <1>4, <1>5, <1>6, <1>7

-----------------------------------------------------------------------------
\* The invariant that ties every tool's local copies to the log holds.
THEOREM PlumbingInvariant == Spec => []PlumbingInv
<1>1. Init => PlumbingInv
  <2> SUFFICES ASSUME Init PROVE PlumbingInv
    OBVIOUS
  <2> USE BoundsAssumption DEF Init, NoJob, IdleReader, IdleTrimmer, IdleRecorder
  <2>1. JobInv /\ TrimmerInv /\ RecorderInv
    BY InfAssumption DEF JobInv, TrimmerInv, RecorderInv
  <2>2. \A r \in Reader : ReaderInv(r) /\ CoverInv(r) /\ WakeInv(r)
    BY DEF ReaderInv, CoverInv, WakeInv, Once, Tool
  <2>3. SeenOnce
    BY DEF SeenOnce, Tool
  <2>4. TrimmedWasSeen /\ NothingUnprinted /\ RecordedHasDocument
    BY DEF TrimmedWasSeen, NothingUnprinted, RecordedHasDocument
  <2> QED BY <2>1, <2>2, <2>3, <2>4 DEF PlumbingInv
<1>2. TypeOK /\ TypeOK' /\ PlumbingInv /\ [Next]_vars => PlumbingInv'
  <2> SUFFICES ASSUME TypeOK, TypeOK', PlumbingInv, [Next]_vars PROVE PlumbingInv'
    OBVIOUS
  <2>1. CASE Next
    BY <2>1, JobStep, TrimmerInvStep, RecorderInvStep, ReaderStep, CoverStep, WakeStep,
       TrimStep, OnceStep DEF PlumbingInv
  <2>2. CASE UNCHANGED vars
    BY <2>2 DEF vars, toolVars, history, PlumbingInv, JobInv, TrimmerInv, RecorderInv,
       ReaderInv, CoverInv, WakeInv, Once, TrimmedWasSeen, NothingUnprinted, SeenOnce,
       RecordedHasDocument, Selected, Between
  <2> QED BY <2>1, <2>2
<1> QED BY <1>1, <1>2, PlumbingTypes, PTL DEF Spec

\* Nothing is trimmed from the log of a running job before both readers took it.
THEOREM TrimmerWaits == Spec => []TrimmedWasSeen
<1>1. PlumbingInv => TrimmedWasSeen
  BY DEF PlumbingInv
<1> QED BY <1>1, PlumbingInvariant, PTL

\* What leaves the log was printed, unless it came after the job's end.
THEOREM TrimmerPrints == Spec => []NothingUnprinted
<1>1. PlumbingInv => NothingUnprinted
  BY DEF PlumbingInv
<1> QED BY <1>1, PlumbingInvariant, PTL

\* A reader repeats an entry only as often as it was restarted.
THEOREM ReadersCountOnce == Spec => []SeenOnce
<1>1. PlumbingInv => SeenOnce
  BY DEF PlumbingInv
<1> QED BY <1>1, PlumbingInvariant, PTL

\* A reader at rest has seen the whole log.
THEOREM ReadersMissNothing == Spec => []NoMissedEntry
<1>1. TypeOK /\ PlumbingInv => NoMissedEntry
  <2> SUFFICES ASSUME TypeOK, PlumbingInv, NEW r \in Reader \cap Running,
                      restarts[r] = 0, lines[r] = 0, reader[r].pc = "idle", job.keyed,
                      NEW e \in log
               PROVE  seen[r][e] > 0
    BY DEF NoMissedEntry
  <2> QED BY DEF PlumbingInv, WakeInv, CoverInv
<1> QED BY <1>1, PlumbingTypes, PlumbingInvariant, PTL

\* The marks of a running job stay in order.
THEOREM MarksInOrder == Spec => []MarksOrdered
<1>1. PlumbingInv => MarksOrdered
  BY DEF PlumbingInv, JobInv, MarksOrdered
<1> QED BY <1>1, PlumbingInvariant, PTL

\* `recorded_at' implies a document.
THEOREM RecorderIsRight == Spec => []RecordedHasDocument
<1>1. PlumbingInv => RecordedHasDocument
  BY DEF PlumbingInv
<1> QED BY <1>1, PlumbingInvariant, PTL

\* Entries are broadcast in the order of the log, whatever else happens.
THEOREM FirehoseKeepsOrder == Spec => BroadcastInOrder
<1> DEFINE Ordered ==
      \A e \in 1..MaxEntries :
        seen'["firehose"][e] > seen["firehose"][e] =>
          \A d \in (e + 1)..MaxEntries : seen["firehose"][d] <= restarts["firehose"]
<1>1. TypeOK /\ PlumbingInv /\ [Next]_vars => [Ordered]_vars
  <2> SUFFICES ASSUME TypeOK, PlumbingInv, Next,
                      NEW e \in 1..MaxEntries, seen'["firehose"][e] > seen["firehose"][e],
                      NEW d \in (e + 1)..MaxEntries
               PROVE  seen["firehose"][d] <= restarts["firehose"]
    OBVIOUS
  <2>1. "firehose" \in Reader /\ JobInv /\ ReaderInv("firehose")
    BY DEF PlumbingInv, Reader
  <2>2. seen["firehose"][e] \in Nat /\ MaxEntries \in Nat
    BY <2>1, ReaderFacts
  <2>3. CASE Broadcast
    <3>1. e \in reader["firehose"].batch /\ reader["firehose"].pc = "output"
      BY <2>1, <2>2, <2>3, BroadcastEffect
    <3> QED BY <2>1, <2>2, <3>1 DEF ReaderInv, Once
  <2>4. CASE Untouched("firehose")
    BY <2>2, <2>4 DEF Untouched
  <2>5. CASE ReadCursor("firehose") \/ FetchLog("firehose") \/ MarkCursor("firehose")
               \/ ("firehose" \in Running /\ Restart("firehose"))
    BY <2>1, <2>2, <2>5, ReadEffect, FetchEffect, MarkEffect, RestartEffect
  <2> QED BY <2>1, <2>3, <2>4, <2>5, Foreign DEF Own
<1> QED BY <1>1, PlumbingTypes, PlumbingInvariant, PTL DEF Spec, BroadcastInOrder

=============================================================================
