-------------------------- MODULE OldViewerProofs --------------------------
(* Theorems about OldViewer, for all values of its constants. *)
EXTENDS OldViewer, FiniteSetTheorems, TLAPS

(***************************************************************************)
(* NothingPending is inductive.  For PagesAgree, the counters must agree    *)
(* with the files in what the connection sees, too, because any commit may  *)
(* make that the database; and a file gets its job once, because the rows   *)
(* of populate_jobs are files without one (Rows).  The sums agree where the *)
(* round does not sum; while it does, they are those of the items that it   *)
(* has passed (Summing).                                                    *)
(***************************************************************************)
Counted(db) ==
  \A j \in Jobs, c \in Column :
    db.counts[j][c] = Cardinality({f \in db.filed : JobOf(f) = j /\ c \in Columns(f)})

Summed(db) == \A d \in Days : db.stats[d] = Cardinality({f \in db.filed : Day[f.item] = d})

Known(db) == \A f \in db.files \cup db.filed : f.item \in db.items

Rows ==
  /\ pc \in {"fetch", "refresh", "commit files"} => todo \subseteq view.items
  /\ pc \in {"refresh", "commit files"} => at \in view.items
  /\ pc = "jobs" => todo \subseteq view.files \ view.filed
  /\ pc = "sum" => todo \subseteq view.items
  /\ pc \in {"json", "commit json"} => todo \subseteq File

\* Where no step files or sums, the connection sees the files and sums of the disk.
Shown ==
  pc \notin {"jobs", "stats", "sum"} => view.filed = disk.filed /\ view.stats = disk.stats

Summing ==
  pc = "sum" =>
    \A d \in Days :
      view.stats[d] =
        Cardinality({f \in view.filed : f.item \in view.items \ todo /\ Day[f.item] = d})

Sums == pc \notin {"stats", "sum"} /\ ~unsummed => Summed(disk)

OldInv ==
  /\ TypeOK /\ NothingPending /\ Rows
  /\ Counted(view) /\ Counted(disk) /\ Known(view) /\ Known(disk)
  /\ Shown /\ Summing /\ Sums

-----------------------------------------------------------------------------
LEMMA FilesFinite == \A S : S \subseteq File => IsFiniteSet(S) /\ Cardinality(S) \in Nat
  BY OldViewerAssumption, FS_Subset, FS_CardinalityType

LEMMA FileFields ==
  ASSUME NEW f \in File
  PROVE  /\ f.item \in Item /\ JobOf(f) \in Jobs /\ Day[f.item] \in Days
         /\ JsonId(f) \in {JsonId(g) : g \in File}
  BY FileAssumption, OldViewerAssumption DEF Jobs, Days

\* Of what a step does with the connection's rows.
Refills ==
  \/ /\ pc = "list" /\ pc' = "commit items"
     /\ \E listed \in SUBSET public : view' = [view EXCEPT !.items = @ \cup listed]
  \/ /\ pc = "fetch" /\ pc' = "refresh"
     /\ \E i \in todo : view' = [view EXCEPT !.files = @ \cup {f \in there : f.item = i}]
  \/ /\ pc = "refresh" /\ pc' = "commit files" /\ view' = [view EXCEPT !.refreshed = @ \cup {at}]
  \/ /\ pc = "json" /\ pc' = "commit json"
     /\ \E f \in todo : view' = [view EXCEPT !.jsons = @ \cup {JsonId(f)}, !.urls = @ \cup {JobOf(f)}]

\* These change neither the files that have a job, nor what is counted.
LEMMA Refilled ==
  ASSUME TypeOK, Rows, Known(view), Refills
  PROVE  /\ view' \in Database /\ Known(view')
         /\ view'.filed = view.filed /\ view'.counts = view.counts /\ view'.stats = view.stats
         /\ view.items \subseteq view'.items
<1> USE DEF TypeOK
<1>1. ASSUME NEW listed \in SUBSET public, view' = [view EXCEPT !.items = @ \cup listed]
      PROVE  /\ view' \in Database /\ Known(view')
             /\ view'.filed = view.filed /\ view'.counts = view.counts /\ view'.stats = view.stats
             /\ view.items \subseteq view'.items
  BY <1>1 DEF Database, Known
<1>2. ASSUME pc = "fetch", NEW i \in todo,
             view' = [view EXCEPT !.files = @ \cup {f \in there : f.item = i}]
      PROVE  /\ view' \in Database /\ Known(view')
             /\ view'.filed = view.filed /\ view'.counts = view.counts /\ view'.stats = view.stats
             /\ view.items \subseteq view'.items
  BY <1>2 DEF Database, Known, Rows
<1>3. ASSUME pc = "refresh", view' = [view EXCEPT !.refreshed = @ \cup {at}]
      PROVE  /\ view' \in Database /\ Known(view')
             /\ view'.filed = view.filed /\ view'.counts = view.counts /\ view'.stats = view.stats
             /\ view.items \subseteq view'.items
  BY <1>3 DEF Database, Known, Rows
<1>4. ASSUME pc = "json", NEW f \in todo,
             view' = [view EXCEPT !.jsons = @ \cup {JsonId(f)}, !.urls = @ \cup {JobOf(f)}]
      PROVE  /\ view' \in Database /\ Known(view')
             /\ view'.filed = view.filed /\ view'.counts = view.counts /\ view'.stats = view.stats
             /\ view.items \subseteq view'.items
  <2>1. f \in File
    BY <1>4 DEF Rows
  <2>2. JobOf(f) \in Jobs /\ JsonId(f) \in {JsonId(g) : g \in File}
    BY <2>1, FileFields
  <2> QED BY <1>4, <2>2 DEF Database, Known
<1> QED BY <1>1, <1>2, <1>3, <1>4 DEF Refills

\* A file that has no job is counted for the one it gets.
LEMMA Filed ==
  ASSUME TypeOK, Rows, Known(view), Counted(view), NEW f \in todo, pc = "jobs",
         view' = [view EXCEPT !.filed = @ \cup {f},
                              !.counts[JobOf(f)] =
                                [c \in Column |-> IF c \in Columns(f) THEN @[c] + 1 ELSE @[c]]]
  PROVE  /\ view' \in Database /\ Known(view') /\ Counted(view')
         /\ view'.filed = view.filed \cup {f} /\ view'.files = view.files
<1>1. f \in File /\ f \in view.files /\ f \notin view.filed /\ JobOf(f) \in Jobs
  BY FileFields DEF Rows, TypeOK, Database
<1>2. PICK k \in Jobs : k = JobOf(f)
  BY <1>1
<1>3. PICK new : new = [c \in Column |-> IF c \in Columns(f) THEN view.counts[k][c] + 1
                                        ELSE view.counts[k][c]]
  OBVIOUS
<1>4. PICK counts : counts = [view.counts EXCEPT ![k] = new]
  OBVIOUS
<1>5. view' = [view EXCEPT !.filed = @ \cup {f}, !.counts = counts]
  BY <1>2, <1>3, <1>4 DEF TypeOK, Database
<1>6. new \in [Column -> Nat] /\ counts \in [Jobs -> [Column -> Nat]]
  <2>1. view.counts[k] \in [Column -> Nat]
    BY <1>2 DEF TypeOK, Database
  <2>2. new \in [Column -> Nat]
    BY <1>3, <2>1
  <2> QED BY <1>4, <2>2 DEF TypeOK, Database
<1>7. /\ view'.filed = view.filed \cup {f} /\ view'.counts = counts /\ view'.files = view.files
      /\ view'.items = view.items
  BY <1>5 DEF TypeOK, Database
<1>8. view' \in Database
  <2>1. PICK filed : filed = view.filed \cup {f}
    OBVIOUS
  <2>2. filed \subseteq File
    BY <1>1, <2>1 DEF TypeOK, Database
  <2>3. view' = [view EXCEPT !.filed = filed, !.counts = counts]
    BY <1>5, <2>1 DEF TypeOK, Database
  <2> QED BY <1>6, <2>2, <2>3 DEF TypeOK, Database
<1>9. Known(view')
  BY <1>1, <1>7 DEF Known
<1>10. ASSUME NEW j \in Jobs, NEW c \in Column
       PROVE  counts[j][c] = Cardinality({g \in view'.filed : JobOf(g) = j /\ c \in Columns(g)})
  <2>1. PICK S : S = {g \in view.filed : JobOf(g) = j /\ c \in Columns(g)}
    OBVIOUS
  <2>2. view.counts[j][c] = Cardinality(S)
    BY <2>1 DEF Counted
  <2>3. IsFiniteSet(S)
    BY <2>1, FilesFinite DEF TypeOK, Database
  <2>4. CASE j = k /\ c \in Columns(f)
    <3>1. {g \in view'.filed : JobOf(g) = j /\ c \in Columns(g)} = S \cup {f}
      BY <1>2, <1>7, <2>1, <2>4
    <3>2. f \notin S
      BY <1>1, <2>1
    <3>3. Cardinality(S \cup {f}) = Cardinality(S) + 1
      BY <2>3, <3>2, FS_AddElement
    <3>4. counts[j][c] = view.counts[j][c] + 1
      BY <1>3, <1>4, <2>4 DEF TypeOK, Database
    <3> QED BY <2>2, <3>1, <3>3, <3>4
  <2>5. CASE ~(j = k /\ c \in Columns(f))
    <3>1. {g \in view'.filed : JobOf(g) = j /\ c \in Columns(g)} = S
      BY <1>2, <1>7, <2>1, <2>5
    <3>2. counts[j][c] = view.counts[j][c]
      BY <1>3, <1>4, <2>5 DEF TypeOK, Database
    <3> QED BY <2>2, <3>1, <3>2
  <2> QED BY <2>4, <2>5
<1>11. Counted(view')
  BY <1>7, <1>10 DEF Counted
<1> QED BY <1>7, <1>8, <1>9, <1>11

\* A day's sum grows by the files of an item.
LEMMA ItemSummed ==
  ASSUME TypeOK, Rows, Summing, pc = "sum", NEW i \in todo,
         view' = [view EXCEPT !.stats[Day[i]] = @ + Cardinality(FiledOf(view, i))]
  PROVE  /\ view' \in Database /\ view'.filed = view.filed /\ view'.counts = view.counts
         /\ view'.files = view.files /\ view'.items = view.items
         /\ \A d \in Days :
              view'.stats[d] = Cardinality({f \in view.filed : /\ f.item \in view.items \ (todo \ {i})
                                                               /\ Day[f.item] = d})
<1>1. i \in Item /\ i \in view.items /\ Day[i] \in Days
  BY OldViewerAssumption DEF Rows, TypeOK, Database, Days
<1>2. PICK new : new = FiledOf(view, i)
  OBVIOUS
<1>3. IsFiniteSet(new) /\ Cardinality(new) \in Nat
  BY <1>2, FilesFinite DEF FiledOf, TypeOK, Database
<1>4. PICK stats : stats = [view.stats EXCEPT ![Day[i]] = @ + Cardinality(new)]
  OBVIOUS
<1>5. stats \in [Days -> Nat]
  BY <1>1, <1>3, <1>4 DEF TypeOK, Database
<1>6. view' = [view EXCEPT !.stats = stats]
  BY <1>2, <1>4 DEF TypeOK, Database
<1>7. /\ view' \in Database /\ view'.filed = view.filed /\ view'.counts = view.counts
      /\ view'.files = view.files /\ view'.items = view.items /\ view'.stats = stats
  BY <1>5, <1>6 DEF TypeOK, Database
<1>8. ASSUME NEW d \in Days
      PROVE  stats[d] = Cardinality({f \in view.filed : /\ f.item \in view.items \ (todo \ {i})
                                                        /\ Day[f.item] = d})
  <2>1. PICK S : S = {f \in view.filed : f.item \in view.items \ todo /\ Day[f.item] = d}
    OBVIOUS
  <2>2. view.stats[d] = Cardinality(S)
    BY <2>1 DEF Summing
  <2>3. IsFiniteSet(S) /\ Cardinality(S) \in Nat
    BY <2>1, FilesFinite DEF TypeOK, Database
  <2>4. CASE d = Day[i]
    <3>1. {f \in view.filed : f.item \in view.items \ (todo \ {i}) /\ Day[f.item] = d} = S \cup new
      BY <1>1, <1>2, <2>1, <2>4 DEF FiledOf
    <3>2. S \cap new = {}
      BY <1>2, <2>1 DEF FiledOf
    <3>3. Cardinality(S \cup new) = Cardinality(S) + Cardinality(new)
      <4>1. Cardinality(S \cap new) = 0
        BY <3>2, FS_EmptySet
      <4>2. Cardinality(S \cup new) = Cardinality(S) + Cardinality(new) - Cardinality(S \cap new)
        BY <1>3, <2>3, FS_Union
      <4> QED BY <1>3, <2>3, <4>1, <4>2
    <3>4. stats[d] = view.stats[d] + Cardinality(new)
      BY <1>4, <2>4 DEF TypeOK, Database
    <3> QED BY <2>2, <3>1, <3>3, <3>4
  <2>5. CASE d # Day[i]
    <3>1. {f \in view.filed : f.item \in view.items \ (todo \ {i}) /\ Day[f.item] = d} = S
      BY <2>1, <2>5
    <3>2. stats[d] = view.stats[d]
      BY <1>4, <2>5 DEF TypeOK, Database
    <3> QED BY <2>2, <3>1, <3>2
  <2> QED BY <2>4, <2>5
<1> QED BY <1>7, <1>8

-----------------------------------------------------------------------------
(* One step *)

Sound(db) == db \in Database /\ Known(db) /\ Counted(db)

\* The ways in which a step leaves the database, and what the connection sees of it.
LEMMA DatabaseMoves ==
  ASSUME [Next]_vars
  PROVE  /\ disk' = disk \/ disk' = view
         /\ \/ view' = view \/ view' = disk
            \/ Refills \/ AssignJob \/ DeleteStats \/ SumItem
<1> USE DEF Step, Goes, Commit, roundOnly, vars
<1>1. CASE UNCHANGED vars
  BY <1>1
<1>2. CASE \E f \in File : Publish(f)
  BY <1>2 DEF Publish
<1>3. CASE HoursPass \/ \E i \in Item : DaysPass(i)
  BY <1>3 DEF HoursPass, DaysPass
<1>4. CASE MergeItems
  <2>1. PICK listed \in SUBSET public : view' = [view EXCEPT !.items = @ \cup listed]
    BY <1>4 DEF MergeItems
  <2> QED BY <1>4, <2>1 DEF MergeItems, Refills
<1>5. CASE InsertFiles
  <2>1. PICK i \in todo : view' = [view EXCEPT !.files = @ \cup {f \in there : f.item = i}]
    BY <1>5 DEF InsertFiles
  <2> QED BY <1>5, <2>1 DEF InsertFiles, Refills
<1>6. CASE SetRefreshDate
  BY <1>6 DEF SetRefreshDate, Refills
<1>7. CASE InsertJson
  <2>1. PICK f \in todo :
          view' = [view EXCEPT !.jsons = @ \cup {JsonId(f)}, !.urls = @ \cup {JobOf(f)}]
    BY <1>7 DEF InsertJson
  <2> QED BY <1>7, <2>1 DEF InsertJson, Refills
<1>8. CASE AssignJob \/ DeleteStats \/ SumItem
  BY <1>8 DEF AssignJob, DeleteStats, SumItem
<1>9. CASE \/ Begin \/ CommitItems \/ CommitFiles \/ QueryFiles \/ CommitJobs \/ CommitStats
           \/ SkipJson \/ CommitJson \/ End
  BY <1>9 DEF Begin, CommitItems, CommitFiles, QueryFiles, CommitJobs, CommitStats,
     SkipJson,
              CommitJson, End
<1>10. CASE Fail \/ Restart \/ Request \/ RequestRollsBack
  BY <1>10 DEF Fail, Restart, BreaksOff, Request, RequestRollsBack
<1> QED BY <1>1, <1>2, <1>3, <1>4, <1>5, <1>6, <1>7, <1>8, <1>9, <1>10 DEF Next, Populate

\* The deletion of the sums.
LEMMA Deleted ==
  ASSUME view \in Database, view' = [view EXCEPT !.stats = NoStats]
  PROVE  /\ view' \in Database /\ view'.items = view.items /\ view'.files = view.files
         /\ view'.filed = view.filed /\ view'.counts = view.counts /\ view'.stats = NoStats
  BY DEF Database, NoStats

LEMMA DatabaseStep ==
  ASSUME OldInv, [Next]_vars
  PROVE  Sound(view') /\ Sound(disk')
<1>1. Sound(view) /\ Sound(disk)
  BY DEF OldInv, TypeOK, Sound
<1>2. ASSUME Refills
      PROVE  Sound(view')
  <2>1. /\ view' \in Database /\ Known(view') /\ view'.filed = view.filed
        /\ view'.counts = view.counts
    BY <1>2, Refilled DEF OldInv
  <2> QED BY <1>1, <2>1 DEF Sound, Counted
<1>3. ASSUME AssignJob
      PROVE  Sound(view')
  <2>1. PICK f \in todo :
          view' = [view EXCEPT !.filed = @ \cup {f},
                               !.counts[JobOf(f)] =
                                 [c \in Column |-> IF c \in Columns(f) THEN @[c] + 1 ELSE @[c]]]
    BY <1>3 DEF AssignJob
  <2>2. pc = "jobs"
    BY <1>3 DEF AssignJob
  <2> QED BY <2>1, <2>2, Filed DEF OldInv, Sound
<1>4. ASSUME DeleteStats
      PROVE  Sound(view')
  BY <1>1, <1>4, Deleted DEF DeleteStats, Sound, Known, Counted
<1>5. ASSUME SumItem
      PROVE  Sound(view')
  <2>1. PICK i \in todo :
          view' = [view EXCEPT !.stats[Day[i]] = @ + Cardinality(FiledOf(view, i))]
    BY <1>5 DEF SumItem
  <2>2. /\ view' \in Database /\ view'.filed = view.filed /\ view'.counts = view.counts
        /\ view'.files = view.files /\ view'.items = view.items
    BY <1>5, <2>1, ItemSummed DEF OldInv, SumItem
  <2> QED BY <1>1, <2>2 DEF Sound, Known, Counted
<1>6. Sound(view')
  BY <1>1, <1>2, <1>3, <1>4, <1>5, DatabaseMoves
<1>7. Sound(disk')
  BY <1>1, DatabaseMoves
<1> QED BY <1>6, <1>7

\* The rest of the state has its type.
LEMMA RoundTyped ==
  ASSUME OldInv, [Next]_vars
  PROVE  TypeOK'
<1> DEFINE Rest == /\ public' \subseteq Item /\ young' \subseteq public' /\ there' \subseteq File
                   /\ at' \in Item \cup {None} /\ todo' \subseteq Item \cup File
                   /\ inProgress' \in BOOLEAN /\ sentinel' \in {"recent", "old"}
                   /\ unsummed' \in BOOLEAN /\ faults' \in 0..MaxFaults
<1>1. Sound(view') /\ Sound(disk')
  BY DatabaseStep
<1>2. /\ public \subseteq Item /\ young \subseteq public /\ there \subseteq File
      /\ view.items \subseteq Item /\ view.files \subseteq File /\ view.filed \subseteq File
      /\ at \in Item \cup {None} /\ todo \subseteq Item \cup File
      /\ inProgress \in BOOLEAN /\ sentinel \in {"recent", "old"}
      /\ unsummed \in BOOLEAN /\ faults \in 0..MaxFaults
      /\ pc = "fetch" => todo \subseteq Item
  BY DEF OldInv, TypeOK, Database, Rows
<1> USE DEF Step, Goes, roundOnly, archive, round
<1>3. Rest
  <2>1. CASE UNCHANGED vars
    BY <1>2, <2>1 DEF vars
  <2>2. CASE \E f \in File : Publish(f)
    <3>1. PICK f \in File : Publish(f)
      BY <2>2
    <3> QED BY <1>2, <3>1, FileFields DEF Publish
  <2>3. CASE HoursPass \/ \E i \in Item : DaysPass(i)
    BY <1>2, <2>3 DEF HoursPass, DaysPass
  <2>4. CASE Begin \/ MergeItems \/ CommitItems
    BY <1>2, <2>4 DEF Begin, MergeItems, CommitItems
  <2>5. CASE InsertFiles \/ SetRefreshDate \/ CommitFiles
    BY <1>2, <2>5 DEF InsertFiles, SetRefreshDate, CommitFiles
  <2>6. CASE QueryFiles \/ AssignJob \/ CommitJobs \/ DeleteStats \/ SumItem \/ CommitStats
    BY <1>2, <2>6 DEF QueryFiles, AssignJob, CommitJobs, DeleteStats, SumItem, CommitStats
  <2>7. CASE SkipJson \/ InsertJson \/ CommitJson \/ End
    BY <1>2, <2>7 DEF SkipJson, InsertJson, CommitJson, End, Finally
  <2>8. CASE Fail \/ Restart
    <3>1. faults' \in 0..MaxFaults
      BY <1>2, <2>8, OldViewerAssumption DEF Fail, Restart, BreaksOff
    <3>2. unsummed' \in BOOLEAN
      BY <2>8 DEF Fail, Restart, BreaksOff
    <3> QED BY <1>2, <2>8, <3>1, <3>2 DEF Fail, Restart, BreaksOff, Finally
  <2>9. CASE Request \/ RequestRollsBack
    BY <1>2, <2>9 DEF Request, RequestRollsBack
  <2> QED BY <2>1, <2>2, <2>3, <2>4, <2>5, <2>6, <2>7, <2>8, <2>9 DEF Next, Populate
<1> QED BY <1>1, <1>3 DEF TypeOK, Sound

LEMMA PendingStep ==
  ASSUME NothingPending, [Next]_vars
  PROVE  NothingPending'
<1> USE DEF NothingPending, Yielding, Step, Goes, Commit, roundOnly, archive, round
<1>1. CASE UNCHANGED vars
  BY <1>1 DEF vars
<1>2. CASE HoursPass \/ (\E i \in Item : DaysPass(i)) \/ \E f \in File : Publish(f)
  BY <1>2 DEF HoursPass, DaysPass, Publish
<1>3. CASE Begin \/ MergeItems \/ CommitItems \/ InsertFiles \/ SetRefreshDate \/ CommitFiles
  <2>1. CASE Begin \/ CommitItems
    <3>1. CASE Begin
      BY <3>1 DEF Begin
    <3>2. CASE CommitItems
      BY <3>2 DEF CommitItems
    <3> QED BY <2>1, <3>1, <3>2
  <2>2. CASE MergeItems \/ InsertFiles
    <3>1. pc' \in {"commit items", "refresh"}
      BY <2>2 DEF MergeItems, InsertFiles
    <3> QED BY <3>1
  <2>3. CASE SetRefreshDate \/ CommitFiles
    BY <2>3 DEF SetRefreshDate, CommitFiles
  <2> QED BY <1>3, <2>1, <2>2, <2>3
<1>4. CASE QueryFiles \/ AssignJob \/ CommitJobs \/ DeleteStats \/ SumItem \/ CommitStats
  BY <1>4 DEF QueryFiles, AssignJob, CommitJobs, DeleteStats, SumItem, CommitStats
<1>5. CASE SkipJson \/ InsertJson \/ CommitJson \/ End
  BY <1>5 DEF SkipJson, InsertJson, CommitJson, End, Finally
<1>6. CASE Fail \/ Restart \/ Request \/ RequestRollsBack
  BY <1>6 DEF Fail, Restart, BreaksOff, Finally, Request, RequestRollsBack
<1> QED BY <1>1, <1>2, <1>3, <1>4, <1>5, <1>6 DEF Next, Populate

\* The rows of a query stay those of the tables.
LEMMA RowsStep ==
  ASSUME OldInv, [Next]_vars
  PROVE  Rows'
<1> USE DEF Step, Goes, Commit, roundOnly, archive, round
<1>1. Rows /\ view.files \subseteq File /\ view.filed \subseteq File /\ NothingPending
  BY DEF OldInv, TypeOK, Database
<1>2. CASE UNCHANGED vars
  BY <1>1, <1>2 DEF vars, Rows
<1>3. CASE HoursPass \/ (\E i \in Item : DaysPass(i)) \/ \E f \in File : Publish(f)
  BY <1>1, <1>3 DEF HoursPass, DaysPass, Publish, Rows
<1>4. CASE Begin \/ MergeItems \/ CommitItems \/ CommitFiles \/ QueryFiles \/ CommitJobs
  BY <1>1, <1>4 DEF Begin, MergeItems, CommitItems, CommitFiles, QueryFiles, CommitJobs,
     Rows
<1>5. CASE InsertFiles \/ SetRefreshDate \/ InsertJson
  <2>1. Refills
    BY <1>5, DatabaseMoves DEF InsertFiles, SetRefreshDate, InsertJson, Refills
  <2>2. view.items \subseteq view'.items
    BY <2>1, Refilled DEF OldInv
  <2> QED BY <1>1, <1>5, <2>2 DEF InsertFiles, SetRefreshDate, InsertJson, Rows
<1>6. CASE AssignJob
  <2>1. PICK f \in todo :
          /\ view' = [view EXCEPT !.filed = @ \cup {f},
                                  !.counts[JobOf(f)] =
                                    [c \in Column |-> IF c \in Columns(f) THEN @[c] + 1 ELSE @[c]]]
          /\ pc = "jobs" /\ pc' = "jobs" /\ todo' = todo \ {f}
    BY <1>6 DEF AssignJob
  <2>2. view'.filed = view.filed \cup {f} /\ view'.files = view.files
    BY <2>1, Filed DEF OldInv
  <2> QED BY <1>1, <2>1, <2>2 DEF Rows
<1>7. CASE DeleteStats
  <2>1. view'.items = view.items
    BY <1>7, Deleted DEF DeleteStats, OldInv, TypeOK
  <2> QED BY <1>7, <2>1 DEF DeleteStats, Rows
<1>8. CASE SumItem
  <2>1. PICK i \in todo :
          /\ view' = [view EXCEPT !.stats[Day[i]] = @ + Cardinality(FiledOf(view, i))]
          /\ pc = "sum" /\ pc' = "sum" /\ todo' = todo \ {i}
    BY <1>8 DEF SumItem
  <2>2. view'.items = view.items
    BY <2>1, ItemSummed DEF OldInv
  <2> QED BY <1>1, <2>1, <2>2 DEF Rows
<1>9. CASE CommitStats \/ SkipJson \/ CommitJson \/ End
  BY <1>1, <1>9 DEF CommitStats, SkipJson, CommitJson, End, Finally, Rows
<1>10. CASE Fail \/ Restart
  BY <1>10 DEF Fail, Restart, Finally, Rows
<1>11. CASE Request \/ RequestRollsBack
  BY <1>1, <1>11 DEF Request, RequestRollsBack, NothingPending, Rows
<1> QED BY <1>2, <1>3, <1>4, <1>5, <1>6, <1>7, <1>8, <1>9, <1>10, <1>11 DEF Next, Populate

\* Outside of the step that sums, the sums are kept with the files, in both.
LEMMA SumsStep ==
  ASSUME OldInv, [Next]_vars
  PROVE  Shown' /\ Summing' /\ Sums'
<1> USE DEF Step, Goes, Commit, roundOnly, archive, round
<1>1. Shown /\ Sums /\ NothingPending /\ view \in Database
  BY DEF OldInv, TypeOK
<1>2. CASE Refills /\ UNCHANGED <<disk, unsummed>>
  <2>1. view'.filed = view.filed /\ view'.stats = view.stats
    BY <1>2, Refilled DEF OldInv
  <2>2. /\ pc \notin {"jobs", "stats", "sum"} /\ pc' \notin {"jobs", "stats", "sum"}
    BY <1>2 DEF Refills
  <2> QED BY <1>1, <1>2, <2>1, <2>2 DEF Shown, Summing, Sums
<1>3. CASE UNCHANGED <<disk, view, pc, unsummed>> /\ pc # "sum"
  BY <1>1, <1>3 DEF Shown, Summing, Sums
<1>4. CASE UNCHANGED <<disk, view, pc, todo, unsummed>>
  BY <1>1, <1>4 DEF OldInv, Shown, Summing, Sums
<1>5. CASE /\ disk' = view /\ view' = view /\ unsummed' = unsummed
           /\ {pc, pc'} \cap {"jobs", "stats", "sum"} = {}
  BY <1>1, <1>5 DEF Shown, Summing, Sums, Summed
<1>6. CASE QueryFiles
  BY <1>1, <1>6 DEF QueryFiles, Shown, Summing, Sums, Summed
<1>7. CASE AssignJob
  BY <1>1, <1>7 DEF AssignJob, Shown, Summing, Sums
<1>8. CASE CommitJobs
  BY <1>8 DEF CommitJobs, Shown, Summing, Sums
<1>9. CASE DeleteStats
  <2>1. view'.items = view.items /\ view'.filed = view.filed /\ view'.stats = NoStats
    BY <1>1, <1>9, Deleted DEF DeleteStats
  <2>2. ASSUME NEW d \in Days
        PROVE  view'.stats[d] =
                 Cardinality({f \in view'.filed : f.item \in view'.items \ todo' /\ Day[f.item] = d})
    <3>1. {f \in view'.filed : f.item \in view'.items \ todo' /\ Day[f.item] = d} = {}
      BY <1>9, <2>1 DEF DeleteStats
    <3>2. view'.stats[d] = 0
      BY <2>1 DEF NoStats
    <3> QED BY <3>1, <3>2, FS_EmptySet
  <2> QED BY <1>9, <2>2 DEF DeleteStats, Shown, Summing, Sums
<1>10. CASE SumItem
  <2>1. PICK i \in todo :
          /\ view' = [view EXCEPT !.stats[Day[i]] = @ + Cardinality(FiledOf(view, i))]
          /\ pc = "sum" /\ pc' = "sum" /\ todo' = todo \ {i}
    BY <1>10 DEF SumItem
  <2>2. /\ view'.filed = view.filed /\ view'.items = view.items
        /\ \A d \in Days :
             view'.stats[d] = Cardinality({f \in view.filed : /\ f.item \in view.items \ (todo \ {i})
                                                              /\ Day[f.item] = d})
    BY <2>1, ItemSummed DEF OldInv
  <2> QED BY <2>1, <2>2 DEF Shown, Summing, Sums
<1>11. CASE CommitStats
  <2>1. pc = "sum" /\ todo = {} /\ pc' = "json" /\ disk' = view /\ view' = view
    BY <1>11 DEF CommitStats
  <2>2. ASSUME NEW d \in Days
        PROVE  view.stats[d] = Cardinality({f \in view.filed : Day[f.item] = d})
    <3>1. view.stats[d] =
            Cardinality({f \in view.filed : f.item \in view.items \ todo /\ Day[f.item] = d})
      BY <2>1 DEF OldInv, Summing
    <3>2. {f \in view.filed : f.item \in view.items \ todo /\ Day[f.item] = d} =
            {f \in view.filed : Day[f.item] = d}
      BY <2>1 DEF OldInv, Known
    <3> QED BY <3>1, <3>2
  <2> QED BY <2>1, <2>2 DEF Shown, Summing, Sums, Summed
<1>12. CASE BreaksOff /\ pc' = "rest"
  BY <1>1, <1>12 DEF BreaksOff, Shown, Summing, Sums
<1>13. CASE Request \/ RequestRollsBack
  <2>1. UNCHANGED <<disk, view, pc, todo, unsummed>>
    BY <1>1, <1>13 DEF Request, RequestRollsBack, NothingPending
  <2> QED BY <1>4, <2>1
<1>14. CASE UNCHANGED vars
  BY <1>4, <1>14 DEF vars
<1>15. CASE HoursPass \/ (\E i \in Item : DaysPass(i)) \/ \E f \in File : Publish(f)
  BY <1>4, <1>15 DEF HoursPass, DaysPass, Publish
<1>16. CASE Begin
  BY <1>1, <1>16 DEF Begin, Shown, Summing, Sums
<1>17. CASE MergeItems \/ InsertFiles \/ SetRefreshDate \/ InsertJson
  <2>1. Refills
    BY <1>17, DatabaseMoves DEF MergeItems, InsertFiles, SetRefreshDate, InsertJson, Refills
  <2>2. UNCHANGED <<disk, unsummed>>
    BY <1>17 DEF MergeItems, InsertFiles, SetRefreshDate, InsertJson
  <2> QED BY <1>2, <2>1, <2>2
<1>18. CASE CommitItems \/ CommitFiles \/ CommitJson \/ End
  BY <1>5, <1>18 DEF CommitItems, CommitFiles, CommitJson, End, Finally
<1>19. CASE SkipJson
  BY <1>3, <1>19 DEF SkipJson
<1>20. CASE Fail \/ Restart
  BY <1>12, <1>20 DEF Fail, Restart, Finally
<1> QED BY <1>6, <1>7, <1>8, <1>9, <1>10, <1>11, <1>13, <1>14, <1>15, <1>16, <1>17, <1>18,
           <1>19, <1>20 DEF Next, Populate

-----------------------------------------------------------------------------
(* The theorems *)

LEMMA OldInvHolds == Spec => []OldInv
<1>1. Init => OldInv
  <2> SUFFICES ASSUME Init
               PROVE  OldInv
    OBVIOUS
  <2>1. Empty \in Database /\ Known(Empty)
    BY DEF Empty, Database, NoStats, Known
  <2>2. Empty.filed = {} /\ Empty.stats = NoStats /\ Empty.counts = [j \in Jobs |-> [c \in Column |-> 0]]
    BY DEF Empty
  <2>3. Counted(Empty)
    <3> SUFFICES ASSUME NEW j \in Jobs, NEW c \in Column
                 PROVE  Empty.counts[j][c] =
                          Cardinality({f \in Empty.filed : JobOf(f) = j /\ c \in Columns(f)})
      BY DEF Counted
    <3>1. {f \in Empty.filed : JobOf(f) = j /\ c \in Columns(f)} = {}
      BY <2>2
    <3> QED BY <2>2, <3>1, FS_EmptySet
  <2>4. Summed(Empty)
    <3> SUFFICES ASSUME NEW d \in Days
                 PROVE  Empty.stats[d] = Cardinality({f \in Empty.filed : Day[f.item] = d})
      BY DEF Summed
    <3>1. {f \in Empty.filed : Day[f.item] = d} = {}
      BY <2>2
    <3> QED BY <2>2, <3>1, FS_EmptySet DEF NoStats
  <2>5. TypeOK
    <3>1. faults \in 0..MaxFaults
      BY OldViewerAssumption DEF Init
    <3>2. inProgress \in BOOLEAN /\ unsummed \in BOOLEAN
      BY DEF Init
    <3> QED BY <2>1, <3>1, <3>2 DEF Init, TypeOK
  <2>6. NothingPending /\ Rows /\ Shown /\ Summing
    BY DEF Init, NothingPending, Rows, Shown, Summing
  <2>7. Sums /\ Counted(view) /\ Counted(disk) /\ Known(view) /\ Known(disk)
    BY <2>1, <2>3, <2>4 DEF Init, Sums
  <2> QED BY <2>5, <2>6, <2>7 DEF OldInv
<1>2. OldInv /\ [Next]_vars => OldInv'
  <2> SUFFICES ASSUME OldInv, [Next]_vars
               PROVE  OldInv'
    OBVIOUS
  <2>1. Sound(view') /\ Sound(disk')
    BY DatabaseStep
  <2>2. TypeOK' /\ Rows' /\ Shown' /\ Summing' /\ Sums'
    BY RoundTyped, RowsStep, SumsStep
  <2>3. NothingPending'
    BY PendingStep DEF OldInv
  <2>4. Counted(view)' /\ Counted(disk)' /\ Known(view)' /\ Known(disk)'
    BY <2>1 DEF Sound, Counted, Known
  <2> QED BY <2>2, <2>3, <2>4 DEF OldInv
<1> QED BY <1>1, <1>2, PTL DEF Spec

\* Every variable keeps its type: above all, no counter is negative or missing,
\* and the rows of the query that a round works through are of the tables.
THEOREM OldViewerIsTyped == Spec => []TypeOK
<1>1. OldInv => TypeOK
  BY DEF OldInv
<1> QED BY <1>1, OldInvHolds, PTL

\* Where the coroutine waits for an answer, the connection that it shares with
\* the requests has no row that is not committed.
THEOREM RequestsFindNothingPending == Spec => []NothingPending
<1>1. OldInv => NothingPending
  BY DEF OldInv
<1> QED BY <1>1, OldInvHolds, PTL

\* What a page shows while the coroutine waits agrees: counters with files,
\* and sums with items, however many rounds broke off.
THEOREM PagesAlwaysAgree == Spec => []PagesAgree
<1>1. OldInv => PagesAgree
  BY DEF OldInv, PagesAgree, Yielding, Sums, Summed, Counted
<1> QED BY <1>1, OldInvHolds, PTL

=============================================================================
