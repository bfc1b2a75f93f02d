------------------------ MODULE ViewerCatalogProofs ------------------------
(* What TLAPS proves of ViewerCatalog: for any items, files and jobs, and any *)
(* number of rounds, failures and restarts, the tables agree with each other. *)
EXTENDS ViewerCatalog, FiniteSetTheorems, TLAPS

\* LIMIT takes an initial segment of a table.
LEMMA FirstDown ==
  ASSUME NEW S \in SUBSET Nat, IsFiniteSet(S), NEW n \in Nat,
         NEW y \in First(n, S), NEW x \in S, x <= y
  PROVE  x \in First(n, S)
<1>1. {z \in S : z < x} \in SUBSET {z \in S : z < y}
  <2>1. y \in S
    BY DEF First
  <2>2. x \in Nat /\ y \in Nat /\ \A z \in S : z \in Nat
    BY <2>1
  <2>3. \A z \in S : z < x => z < y
    BY <2>2
  <2> QED BY <2>3
<1>2. IsFiniteSet({z \in S : z < y})
  BY FS_Subset
<1>3. Cardinality({z \in S : z < x}) <= Cardinality({z \in S : z < y})
  BY <1>1, <1>2, FS_Subset
<1>4. Cardinality({z \in S : z < y}) < n
  BY DEF First
<1>5. Cardinality({z \in S : z < x}) \in Nat /\ Cardinality({z \in S : z < y}) \in Nat
  BY <1>1, <1>2, FS_Subset, FS_CardinalityType
<1> QED BY <1>3, <1>4, <1>5 DEF First

LEMMA FirstSubset == \A n, S : First(n, S) \subseteq S
BY DEF First

LEMMA FilesFinite ==
  ASSUME NEW S \in SUBSET File
  PROVE  IsFiniteSet(S) /\ Cardinality(S) \in Nat
BY OrderAssumption, FS_Subset, FS_CardinalityType

\* The variables keep their types (every transaction of a round).
LEMMA TypeNext == TypeOK /\ [Next]_vars => TypeOK'
<1> SUFFICES ASSUME TypeOK, [Next]_vars PROVE TypeOK'
  OBVIOUS
<1> USE OrderAssumption, BoundAssumption
<1> USE DEF TypeOK, archive, jobs, database, loop, Steps
<1>1. ASSUME NEW i \in Item, Publish(i) PROVE TypeOK'
  BY <1>1 DEF Publish
<1>2. ASSUME NEW f \in File, Upload(f) PROVE TypeOK'
  BY <1>2 DEF Upload
<1>3. CASE Tick
  <2>1. now' \in 0..MaxTime
    BY <1>3 DEF Tick
  <2>2. UNCHANGED <<archive, database, pc, loop, fetched, late, faults>>
    BY <1>3 DEF Tick
  <2> QED BY <2>1, <2>2
<1>4. CASE StartRound
  BY <1>4 DEF StartRound, Enter
<1>5. CASE FetchPage
  BY <1>5 DEF FetchPage
<1>6. CASE FetchLastPage
  BY <1>6 DEF FetchLastPage, Enter
<1>7. CASE QueryItems
  <2>1. First(BatchSize, ItemsAfter) \subseteq known
    BY FirstSubset DEF ItemsAfter
  <2>2. CASE ItemsAfter = {}
    BY <1>7, <2>2 DEF QueryItems, Enter
  <2>3. CASE ItemsAfter # {}
    <3>1. /\ pc = "files" /\ pc' = "files" /\ todo' \subseteq known
          /\ UNCHANGED <<archive, now, database, fetched, late, faults, after, processed>>
      BY <1>7, <2>1, <2>3 DEF QueryItems
    <3> QED BY <3>1
  <2> QED BY <2>2, <2>3
<1>8. CASE AddFiles
  BY <1>8 DEF AddFiles
<1>9. CASE SetRefreshDate
  BY <1>9 DEF SetRefreshDate
<1>10. CASE AssignJobs
  <2>1. PICK batch : /\ batch = First(BatchSize, FilesAfter)
                     /\ job' = [f \in File |-> IF f \in batch THEN JobOf[f] ELSE job[f]]
                     /\ count' = [j \in Job |-> [k \in Kind |-> count[j][k]
                          + Cardinality({f \in batch : JobOf[f] = j /\ KindOf[f] = k})]]
                     /\ \E f \in batch : Greatest(f, batch) /\ after' = f
    BY <1>10 DEF AssignJobs
  <2>2. batch \subseteq File /\ batch \subseteq Nat
    BY <2>1, FirstSubset DEF FilesAfter
  <2>3. count' \in [Job -> [Kind -> Nat]]
    <3>1. \A j \in Job, k \in Kind : count[j][k]
            + Cardinality({f \in batch : JobOf[f] = j /\ KindOf[f] = k}) \in Nat
      <4>1. count \in [Job -> [Kind -> Nat]]
        OBVIOUS
      <4> HIDE DEF TypeOK
      <4>2. \A j \in Job, k \in Kind : count[j][k] \in Nat
        BY <4>1
      <4> TAKE j \in Job, k \in Kind
      <4> DEFINE B == {f \in batch : JobOf[f] = j /\ KindOf[f] = k}
      <4>4. B \in SUBSET File
        BY <2>2
      <4> HIDE DEF B
      <4>3. Cardinality(B) \in Nat
        BY <4>4, FilesFinite
      <4> QED BY <4>2, <4>3 DEF B
    <3> QED BY <2>1, <3>1
  <2>4. job' \in [File -> Job \cup {None}]
    BY <2>1, FileAssumption
  <2>5. after' \in Nat
    BY <2>1, <2>2
  <2> QED BY <1>10, <2>3, <2>4, <2>5 DEF AssignJobs
<1>11. CASE AllAssigned
  BY <1>11 DEF AllAssigned, Enter
<1>12. CASE SumDays
  <2>1. \A d : Cardinality(FilesOn(d)) \in Nat
    BY FilesFinite DEF FilesOn
  <2>2. stats' \in [0..MaxTime -> Nat]
    BY <1>12, <2>1 DEF SumDays
  <2> QED BY <1>12, <2>2 DEF SumDays, Enter
<1>13. CASE AddSearchRows
  <2>1. PICK batch : /\ batch = First(BatchSize, JobsAfter)
                     /\ searched' = searched \cup batch
                     /\ index' = [j \in Job |-> IF j \in batch
                                    THEN index[j] \cup {TextOf(url[j])} ELSE index[j]]
                     /\ \E j \in batch : Greatest(j, batch) /\ after' = j
    BY <1>13 DEF AddSearchRows
  <2>2. batch \subseteq Job /\ batch \subseteq Nat
    BY <2>1, FirstSubset DEF JobsAfter, JobRows
  <2>3. index' \in [Job -> SUBSET Text]
    BY <2>1 DEF Text, TextOf
  <2>4. searched' \subseteq Job /\ after' \in Nat
    BY <2>1, <2>2
  <2>5. UNCHANGED <<archive, now, known, refreshed, files, job, count, url, stats, lastUpdate,
                    pc, todo, processed, fetched, late, faults>>
    BY <1>13 DEF AddSearchRows
  <2> QED BY <2>3, <2>4, <2>5
<1>14. CASE AllIndexed
  BY <1>14 DEF AllIndexed, Enter
<1>15. CASE QueryJson
  <2>1. First(BatchSize, JsonAfter) \subseteq files
    BY FirstSubset DEF JsonAfter
  <2>2. CASE JsonAfter = {} \/ processed >= Quota
    BY <1>15, <2>2 DEF QueryJson, Enter
  <2>3. CASE ~(JsonAfter = {} \/ processed >= Quota)
    <3>1. /\ pc = "json" /\ pc' = "json" /\ todo' \subseteq files
          /\ UNCHANGED <<archive, now, database, fetched, late, faults, after, processed>>
      BY <1>15, <2>1, <2>3 DEF QueryJson
    <3> QED BY <3>1
  <2> QED BY <2>2, <2>3
<1>16. CASE SkipJson
  <2>1. /\ pc = "json" /\ pc' = "json" /\ todo \subseteq files /\ todo' \subseteq todo
        /\ faults' \in 0..MaxFaults
        /\ UNCHANGED <<archive, now, database, after, processed, fetched, late>>
    <3>1. pc = "json" /\ pc' = "json"
          /\ UNCHANGED <<archive, now, database, after, processed, fetched, late>>
      BY <1>16 DEF SkipJson
    <3>2. todo' \subseteq todo
      BY <1>16 DEF SkipJson
    <3>3. faults' = faults \/ (faults < MaxFaults /\ faults' = faults + 1)
      BY <1>16 DEF SkipJson
    <3>4. faults' \in 0..MaxFaults
      BY <3>3
    <3>5. todo \subseteq files
      BY <3>1
    <3> QED BY <3>1, <3>2, <3>4, <3>5
  <2> QED BY <2>1
<1>17. CASE AddUrl
  <2>1. PICK f \in todo :
          /\ Read(f, "ok")
          /\ IF job[f] \in searched
             THEN /\ url' = [url EXCEPT ![job[f]] = "url"]
                  /\ index' = [index EXCEPT ![job[f]] = (@ \ {TextOf(url[job[f]])}) \cup {"url"}]
                  /\ Done(f) /\ UNCHANGED pc
             ELSE Enter("end") /\ UNCHANGED <<url, index>>
    BY <1>17 DEF AddUrl
  <2>2. pc = "json" /\ todo \subseteq files /\ f \in Nat
    BY <2>1 DEF Read
  <2>3. CASE job[f] \in searched
    <3>1. url' \in [Job -> Text \cup {None}]
      BY <2>1, <2>3 DEF Text
    <3>2. index' \in [Job -> SUBSET Text]
      <4>1. index \in [Job -> SUBSET Text] /\ "url" \in Text
        BY DEF Text
      <4>2. index' = [index EXCEPT ![job[f]] = (@ \ {TextOf(url[job[f]])}) \cup {"url"}]
        BY <2>1, <2>3
      <4> HIDE DEF TypeOK
      <4> QED BY <4>1, <4>2
    <3>3. pc' = "json" /\ todo' \subseteq files /\ after' \in Nat /\ processed' \in Nat
      <4>1. processed \in Nat
        OBVIOUS
      <4> HIDE DEF TypeOK
      <4>2. Done(f) /\ pc' = pc
        BY <2>1, <2>3
      <4> QED BY <2>2, <4>1, <4>2 DEF Done
    <3> QED BY <1>17, <3>1, <3>2, <3>3 DEF AddUrl
  <2>4. CASE job[f] \notin searched
    <3>1. pc' = "end" /\ todo' = {} /\ after' = 0 /\ processed' = 0
          /\ UNCHANGED <<url, index>>
      BY <2>1, <2>4 DEF Enter
    <3> QED BY <1>17, <3>1 DEF AddUrl
  <2> QED BY <2>3, <2>4
<1>18. CASE AddUrlErrored
  <2>1. PICK f \in todo : /\ Read(f, "bad") /\ Done(f)
                          /\ url' = [url EXCEPT ![job[f]] = "empty"]
    BY <1>18 DEF AddUrlErrored
  <2>2. pc = "json" /\ pc' = "json" /\ todo \subseteq files /\ f \in Nat
    BY <1>18, <2>1 DEF AddUrlErrored, Read
  <2>3. todo' \subseteq files /\ after' \in Nat /\ processed' \in Nat
    <3>1. processed \in Nat
      OBVIOUS
    <3> HIDE DEF TypeOK
    <3> QED BY <2>1, <2>2, <3>1 DEF Done
  <2>4. url' \in [Job -> Text \cup {None}]
    BY <2>1 DEF Text
  <2> QED BY <1>18, <2>2, <2>3, <2>4 DEF AddUrlErrored
<1>19. CASE SetLastUpdate
  BY <1>19 DEF SetLastUpdate, Enter
<1>20. CASE StepFails
  <2>1. faults' \in 0..MaxFaults
    BY <1>20 DEF StepFails
  <2>2. /\ pc' = "end" /\ todo' = {} /\ after' = 0 /\ processed' = 0
        /\ UNCHANGED <<archive, now, database, fetched, late>>
    BY <1>20 DEF StepFails, Enter
  <2> QED BY <2>1, <2>2
<1>21. CASE Restart
  <2>1. faults' \in 0..MaxFaults
    BY <1>21 DEF Restart
  <2>2. /\ pc' = "idle" /\ todo' = {} /\ after' = 0 /\ processed' = 0
        /\ UNCHANGED <<archive, now, database, fetched, late>>
    BY <1>21 DEF Restart, Enter
  <2> QED BY <2>1, <2>2
<1>22. CASE UNCHANGED vars
  BY <1>22 DEF vars
<1> QED
  BY <1>1, <1>2, <1>3, <1>4, <1>5, <1>6, <1>7, <1>8, <1>9, <1>10, <1>11, <1>12, <1>13,
     <1>14, <1>15, <1>16, <1>17, <1>18, <1>19, <1>20, <1>21, <1>22 DEF Next, Populate

-----------------------------------------------------------------------------
(* The parts of the invariant, each with the actions that can disturb it *)

LEMMA ArchiveNext == TypeOK /\ ArchiveInv /\ [Next]_vars => ArchiveInv'
<1> SUFFICES ASSUME TypeOK, ArchiveInv, [Next]_vars PROVE ArchiveInv'
  OBVIOUS
<1> USE DEF ArchiveInv
<1>1. ASSUME NEW i \in Item, Publish(i) PROVE ArchiveInv'
  <2>1. /\ added' = [added EXCEPT ![i] = now] /\ now' = now /\ fetched' = fetched
        /\ known' = known /\ added \in [Item -> 0..MaxTime \cup {None}]
    BY <1>1 DEF Publish, TypeOK, database
  <2>2. now # None
    BY NoneAssumption, BoundAssumption DEF TypeOK
  <2>3. PICK f \in File : ItemOf[f] = i /\ there' = there \cup {f}
    BY <1>1 DEF Publish
  <2>4. \A k \in known : k \in Item
    BY DEF TypeOK
  <2> QED BY <2>1, <2>2, <2>3, <2>4
<1>2. ASSUME NEW f \in File, Upload(f) PROVE ArchiveInv'
  BY <1>2 DEF Upload, database
<1>3. CASE Tick
  BY <1>3 DEF Tick, archive, database, TypeOK
<1>4. CASE FetchPage \/ FetchLastPage
  <2>1. /\ UNCHANGED <<added, there, now>> /\ fetched' \in {fetched, now}
        /\ \A i \in known' : i \in known \/ added[i] # None
    BY <1>4 DEF FetchPage, FetchLastPage, archive, NotBefore
  <2>2. fetched' <= now'
    BY <2>1 DEF TypeOK
  <2> QED BY <2>1, <2>2
<1>5. CASE StartRound \/ QueryItems \/ AddFiles \/ SetRefreshDate \/ AssignJobs \/ AllAssigned
             \/ SumDays \/ AddSearchRows \/ AllIndexed \/ QueryJson \/ SkipJson \/ AddUrl
             \/ AddUrlErrored \/ SetLastUpdate \/ StepFails \/ Restart \/ UNCHANGED vars
  <2>1. UNCHANGED <<added, there, now, fetched, known>>
    BY <1>5 DEF StartRound, QueryItems, AddFiles, SetRefreshDate, AssignJobs, AllAssigned,
      SumDays, AddSearchRows, AllIndexed, QueryJson, SkipJson, AddUrl, AddUrlErrored,
      SetLastUpdate, StepFails, Restart, vars, archive, database
  <2> QED BY <2>1
<1> QED BY <1>1, <1>2, <1>3, <1>4, <1>5 DEF Next, Populate

LEMMA JobNext == TypeOK /\ JobInv /\ SearchInv /\ [Next]_vars => JobInv'
<1> SUFFICES ASSUME TypeOK, JobInv, SearchInv, [Next]_vars PROVE JobInv'
  OBVIOUS
<1> USE DEF JobInv
<1>1. CASE AddFiles
  <2>1. files \subseteq files' /\ UNCHANGED <<job, url>>
    BY <1>1 DEF AddFiles, jobs
  <2> QED BY <2>1
<1>2. CASE AssignJobs
  <2>1. /\ job' = [f \in File |-> IF f \in First(BatchSize, FilesAfter) THEN JobOf[f] ELSE job[f]]
        /\ UNCHANGED <<files, url>>
    BY <1>2 DEF AssignJobs
  <2>2. First(BatchSize, FilesAfter) \subseteq files
    BY FirstSubset DEF FilesAfter
  <2> QED BY <2>1, <2>2
<1>3. CASE AddUrl
  <2>1. PICK f \in todo :
          /\ Read(f, "ok")
          /\ url' = [url EXCEPT ![job[f]] = "url"] \/ UNCHANGED url
    BY <1>3 DEF AddUrl
  <2>2. UNCHANGED <<job, files>>
    BY <1>3 DEF AddUrl
  <2>3. f \in File /\ Json[f] = "ok" /\ url \in [Job -> Text \cup {None}]
    BY <2>1 DEF Read, TypeOK
  <2>4. KindOf[f] = "json" /\ JobOf[f] = job[f]
    BY <2>1, <2>3 DEF Read, SearchInv
  <2> QED BY <2>1, <2>2, <2>3, <2>4
<1>4. CASE AddUrlErrored
  <2>1. /\ \E f \in todo : url' = [url EXCEPT ![job[f]] = "empty"]
        /\ UNCHANGED <<job, files>> /\ url \in [Job -> Text \cup {None}]
    BY <1>4 DEF AddUrlErrored, TypeOK
  <2> QED BY <2>1
<1>5. CASE Tick \/ StartRound \/ FetchPage \/ FetchLastPage \/ QueryItems \/ SetRefreshDate
             \/ AllAssigned \/ SumDays \/ AddSearchRows \/ AllIndexed \/ QueryJson \/ SkipJson
             \/ SetLastUpdate \/ StepFails \/ Restart \/ UNCHANGED vars
             \/ (\E i \in Item : Publish(i)) \/ (\E f \in File : Upload(f))
  <2>1. UNCHANGED <<job, files, url>>
    BY <1>5 DEF Tick, StartRound, FetchPage, FetchLastPage, QueryItems, SetRefreshDate,
      AllAssigned, SumDays, AddSearchRows, AllIndexed, QueryJson, SkipJson, SetLastUpdate,
      StepFails, Restart, vars, Publish, Upload, jobs, database
  <2> QED BY <2>1
<1> QED BY <1>1, <1>2, <1>3, <1>4, <1>5 DEF Next, Populate

LEMMA SearchNext == TypeOK /\ SearchInv /\ [Next]_vars => SearchInv'
<1> SUFFICES ASSUME TypeOK, SearchInv, [Next]_vars PROVE SearchInv'
  OBVIOUS
<1> USE DEF SearchInv
<1>1. CASE SumDays
  <2>1. pc' = "search" /\ after' = 0
    BY <1>1 DEF SumDays, Enter
  <2>2. \A j \in Job : ~(j <= 0)
    BY OrderAssumption
  <2>3. \A j \in JobRows' : j \in Job
    BY DEF JobRows
  <2> QED BY <2>1, <2>2, <2>3
<1>2. CASE AddSearchRows
  <2> DEFINE batch == First(BatchSize, JobsAfter)
  <2>1. /\ pc = "search" /\ pc' = "search" /\ searched' = searched \cup batch
        /\ UNCHANGED <<job, files>>
    BY <1>2 DEF AddSearchRows
  <2>2. PICK last \in batch : Greatest(last, batch) /\ after' = last
    BY <1>2 DEF AddSearchRows
  <2>3. JobsAfter \in SUBSET Job /\ JobsAfter \in SUBSET Nat /\ IsFiniteSet(JobsAfter)
    BY OrderAssumption, FS_Subset DEF JobsAfter, JobRows
  <2>4. batch \subseteq JobsAfter
    BY FirstSubset
  <2> HIDE DEF batch
  <2>5. ASSUME NEW j \in JobRows, j <= last PROVE j \in searched'
    <3>1. j \in Nat /\ last \in Nat /\ after \in Nat
      BY <2>2, <2>3, <2>4, OrderAssumption DEF JobRows, TypeOK
    <3>2. CASE j <= after \/ j \in searched
      BY <2>1, <3>2
    <3>3. CASE ~(j <= after) /\ j \notin searched
      <4>1. j \in JobsAfter
        BY <3>1, <3>3 DEF JobsAfter
      <4>2. j \in batch
        BY <2>2, <2>3, <2>5, <4>1, FirstDown, BoundAssumption DEF batch
      <4> QED BY <2>1, <4>2
    <3> QED BY <3>2, <3>3
  <2>6. JobRows' = JobRows
    BY <2>1 DEF JobRows
  <2> QED BY <2>1, <2>2, <2>5, <2>6
<1>3. CASE AllIndexed
  <2>1. /\ pc = "search" /\ JobsAfter = {} /\ pc' = "json" /\ todo' = {}
        /\ UNCHANGED <<job, files, searched>>
    BY <1>3 DEF AllIndexed, Enter, database, jobs
  <2>2. ASSUME NEW j \in JobRows PROVE j \in searched
    <3>1. j \in Nat /\ after \in Nat
      BY OrderAssumption DEF JobRows, TypeOK
    <3>2. ~(j > after) \/ j \in searched
      BY <2>1 DEF JobsAfter
    <3> QED BY <2>1, <3>1, <3>2
  <2>3. JobRows' = JobRows
    BY <2>1 DEF JobRows
  <2> QED BY <2>1, <2>2, <2>3
<1>4. CASE QueryJson
  <2>1. /\ pc = "json" /\ UNCHANGED <<job, files, searched>>
        /\ pc' = "end" \/ (pc' = "json" /\ todo' = First(BatchSize, JsonAfter))
    BY <1>4 DEF QueryJson, Enter, database, jobs
  <2>2. \A f \in First(BatchSize, JsonAfter) : KindOf[f] = "json" /\ job[f] # None
    BY FirstSubset DEF JsonAfter
  <2>3. JobRows' = JobRows
    BY <2>1 DEF JobRows
  <2> QED BY <2>1, <2>2, <2>3
<1>5. CASE SkipJson \/ AddUrl \/ AddUrlErrored
  <2>1. /\ pc = "json" /\ pc' \in {"json", "end"} /\ todo' \subseteq todo
        /\ UNCHANGED <<job, files, searched>>
    BY <1>5 DEF SkipJson, AddUrl, AddUrlErrored, Read, Done, Enter, database, jobs
  <2>2. JobRows' = JobRows
    BY <2>1 DEF JobRows
  <2> QED BY <2>1, <2>2
<1>6. CASE Tick \/ UNCHANGED vars \/ (\E i \in Item : Publish(i)) \/ (\E f \in File : Upload(f))
  <2>1. UNCHANGED <<pc, after, todo, job, files, searched>>
    BY <1>6 DEF Tick, Publish, Upload, vars, database, jobs, loop
  <2>2. JobRows' = JobRows
    BY <2>1 DEF JobRows
  <2> QED BY <2>1, <2>2
<1>7. CASE StartRound \/ FetchPage \/ FetchLastPage \/ QueryItems \/ AddFiles \/ SetRefreshDate
             \/ AssignJobs \/ AllAssigned \/ SetLastUpdate \/ StepFails \/ Restart
  <2>1. pc' \notin {"search", "json"}
    BY <1>7 DEF StartRound, FetchPage, FetchLastPage, QueryItems, AddFiles, SetRefreshDate,
      AssignJobs, AllAssigned, SetLastUpdate, StepFails, Restart, Enter, loop
  <2> QED BY <2>1
<1> QED BY <1>1, <1>2, <1>3, <1>4, <1>5, <1>6, <1>7 DEF Next, Populate

LEMMA RefreshNext == TypeOK /\ ArchiveInv /\ RefreshInv /\ [Next]_vars => RefreshInv'
<1> SUFFICES ASSUME TypeOK, ArchiveInv, RefreshInv, [Next]_vars PROVE RefreshInv'
  OBVIOUS
<1> USE DEF RefreshInv
<1>1. CASE FetchLastPage
  <2>1. pc' = "files" /\ after' = 0 /\ todo' = {} /\ UNCHANGED <<refreshed, files>>
    BY <1>1 DEF FetchLastPage, Enter
  <2>2. known' \subseteq Item /\ \A i \in Item : i > 0
    BY <1>1, OrderAssumption DEF FetchLastPage, TypeOK
  <2> QED BY <2>1, <2>2
<1>2. CASE QueryItems
  <2>1. pc = "files" /\ UNCHANGED <<known, refreshed, files>>
    BY <1>2 DEF QueryItems, database
  <2>2. \A i \in known \ refreshed : i > after /\ i \in ItemsAfter
    BY <2>1 DEF ItemsAfter, NeedsRefresh
  <2>3. CASE ItemsAfter = {}
    <3>1. pc' = "jobs"
      BY <1>2, <2>3 DEF QueryItems, Enter
    <3> QED BY <2>1, <2>2, <2>3, <3>1
  <2>4. CASE ItemsAfter # {}
    <3>1. pc' = "files" /\ after' = after /\ todo' = First(BatchSize, ItemsAfter)
      BY <1>2, <2>4 DEF QueryItems
    <3>2. ItemsAfter \in SUBSET Nat /\ IsFiniteSet(ItemsAfter)
      BY OrderAssumption, FS_Subset DEF ItemsAfter, TypeOK
    <3>3. ASSUME NEW i \in known \ refreshed, NEW t \in First(BatchSize, ItemsAfter), i <= t
          PROVE  i \in First(BatchSize, ItemsAfter)
      BY <2>2, <3>2, <3>3, FirstDown, BoundAssumption
    <3> QED BY <2>1, <2>2, <3>1, <3>3
  <2> QED BY <2>3, <2>4
<1>3. CASE AddFiles
  <2>1. PICK i \in todo : Least(i, todo) /\ files' = files \cup {f \in there : ItemOf[f] = i}
    BY <1>3 DEF AddFiles
  <2>2. /\ pc = "files" /\ pc' = "refresh"
        /\ UNCHANGED <<known, refreshed, after, todo>>
    BY <1>3 DEF AddFiles, loop
  <2>3. i \in known /\ i \in Item
    BY <2>2 DEF TypeOK
  <2>4. \E f \in files' : ItemOf[f] = i
    BY <2>1, <2>3 DEF ArchiveInv
  <2>5. \A t \in todo : Least(t, todo) => t = i
    BY <2>1, <2>2, OrderAssumption DEF Least, TypeOK
  <2> QED BY <2>1, <2>2, <2>4, <2>5 DEF Least
<1>4. CASE SetRefreshDate
  <2>1. PICK i \in todo : Least(i, todo) /\ refreshed' = refreshed \cup {i}
                          /\ after' = i /\ todo' = todo \ {i}
    BY <1>4 DEF SetRefreshDate
  <2>2. pc = "refresh" /\ pc' = "files" /\ UNCHANGED <<known, files>>
    BY <1>4 DEF SetRefreshDate
  <2>3. \E f \in files : ItemOf[f] = i
    BY <2>1, <2>2
  <2>4. known \subseteq Nat /\ todo \subseteq known
    BY <2>2, OrderAssumption DEF TypeOK
  <2>5. ASSUME NEW k \in known \ refreshed' PROVE k > i
    <3>1. k \in known \ refreshed /\ k # i
      BY <2>1
    <3>2. CASE k <= i
      <4>1. k \in todo
        BY <2>1, <2>2, <3>1, <3>2
      <4> QED BY <2>1, <2>4, <3>1, <3>2, <4>1 DEF Least
    <3> QED BY <2>1, <2>4, <3>1, <3>2
  <2>6. ASSUME NEW k \in known \ refreshed', NEW t \in todo', k <= t PROVE k \in todo'
    BY <2>1, <2>2, <2>6
  <2> QED BY <2>1, <2>2, <2>3, <2>5, <2>6
<1>5. CASE AllAssigned
  <2>1. pc = "jobs" /\ pc' = "stats" /\ UNCHANGED <<known, refreshed, files>>
    BY <1>5 DEF AllAssigned, Enter, database
  <2> QED BY <2>1
<1>6. CASE AssignJobs
  <2>1. pc = "jobs" /\ pc' = "jobs" /\ UNCHANGED <<known, refreshed, files>>
    BY <1>6 DEF AssignJobs
  <2> QED BY <2>1
<1>7. CASE Tick \/ UNCHANGED vars \/ (\E i \in Item : Publish(i)) \/ (\E f \in File : Upload(f))
  <2>1. UNCHANGED <<pc, after, todo, known, refreshed, files>>
    BY <1>7 DEF Tick, Publish, Upload, vars, database, loop
  <2> QED BY <2>1 DEF Least
<1>8. CASE StartRound \/ FetchPage \/ SumDays \/ AddSearchRows \/ AllIndexed \/ QueryJson
             \/ SkipJson \/ AddUrl \/ AddUrlErrored \/ SetLastUpdate \/ StepFails \/ Restart
  <2>1. /\ pc' \notin {"files", "refresh", "jobs", "stats"}
        /\ UNCHANGED <<refreshed, files>>
    BY <1>8 DEF StartRound, FetchPage, SumDays, AddSearchRows, AllIndexed, QueryJson, SkipJson,
      AddUrl, AddUrlErrored, SetLastUpdate, StepFails, Restart, Enter, Read, Done, loop, database
  <2> QED BY <2>1
<1> QED BY <1>1, <1>2, <1>3, <1>4, <1>5, <1>6, <1>7, <1>8 DEF Next, Populate

LEMMA CountsNext ==
  TypeOK /\ JobInv /\ CountsMatchFiles /\ [Next]_vars => CountsMatchFiles'
<1> SUFFICES ASSUME TypeOK, JobInv, CountsMatchFiles, [Next]_vars PROVE CountsMatchFiles'
  OBVIOUS
<1>1. CASE AddFiles
  <2>1. /\ UNCHANGED <<job, count>>
        /\ files \subseteq files' /\ files \subseteq File /\ files' \subseteq File
    BY <1>1 DEF AddFiles, TypeOK, jobs
  <2>2. ASSUME NEW j \in Job, NEW k \in Kind
        PROVE  {f \in files' : job[f] = j /\ KindOf[f] = k}
                 = {f \in files : job[f] = j /\ KindOf[f] = k}
    <3>1. j # None
      BY OrderAssumption, NoneAssumption
    <3> QED BY <2>1, <3>1 DEF JobInv
  <2> QED BY <2>1, <2>2 DEF CountsMatchFiles
<1>2. CASE AssignJobs
  <2> DEFINE batch == First(BatchSize, FilesAfter)
             New(j, k) == {f \in batch : JobOf[f] = j /\ KindOf[f] = k}
             Old(j, k) == {f \in files : job[f] = j /\ KindOf[f] = k}
  <2>1. /\ job' = [f \in File |-> IF f \in batch THEN JobOf[f] ELSE job[f]]
        /\ count' = [j \in Job |-> [k \in Kind |-> count[j][k] + Cardinality(New(j, k))]]
        /\ UNCHANGED files
    BY <1>2 DEF AssignJobs
  <2>2. batch \subseteq FilesAfter
    BY FirstSubset
  <2>3. /\ FilesAfter \subseteq files /\ files \subseteq File
        /\ \A f \in FilesAfter : job[f] = None
    BY DEF FilesAfter, TypeOK
  <2> HIDE DEF batch
  <2>4. ASSUME NEW j \in Job, NEW k \in Kind
        PROVE  count'[j][k] = Cardinality({f \in files' : job'[f] = j /\ KindOf[f] = k})
    <3>1. j # None
      BY OrderAssumption, NoneAssumption
    <3>2. {f \in files' : job'[f] = j /\ KindOf[f] = k} = Old(j, k) \cup New(j, k)
      BY <2>1, <2>2, <2>3, <3>1
    <3>3. Old(j, k) \cap New(j, k) = {}
      BY <2>2, <2>3, <3>1
    <3>4. /\ IsFiniteSet(Old(j, k)) /\ Cardinality(Old(j, k)) \in Nat
          /\ IsFiniteSet(New(j, k)) /\ Cardinality(New(j, k)) \in Nat
      <4>1. Old(j, k) \in SUBSET File /\ New(j, k) \in SUBSET File
        BY <2>2, <2>3
      <4> HIDE DEF Old, New
      <4> QED BY <4>1, FilesFinite
    <3>5. count[j][k] = Cardinality(Old(j, k))
      BY DEF CountsMatchFiles
    <3>6. count'[j][k] = count[j][k] + Cardinality(New(j, k))
      BY <2>1
    <3> HIDE DEF Old, New
    <3>7. Cardinality(Old(j, k) \cup New(j, k))
            = Cardinality(Old(j, k)) + Cardinality(New(j, k)) - Cardinality(Old(j, k) \cap New(j, k))
      BY <3>4, FS_Union
    <3>8. Cardinality(Old(j, k) \cap New(j, k)) = 0
      BY <3>3, FS_EmptySet
    <3>9. count'[j][k] = Cardinality(Old(j, k) \cup New(j, k))
      BY <3>4, <3>5, <3>6, <3>7, <3>8
    <3> QED BY <3>2, <3>9, Zenon
  <2> QED BY <2>4 DEF CountsMatchFiles
<1>3. CASE Tick \/ StartRound \/ FetchPage \/ FetchLastPage \/ QueryItems \/ SetRefreshDate
             \/ AllAssigned \/ SumDays \/ AddSearchRows \/ AllIndexed \/ QueryJson \/ SkipJson
             \/ AddUrl \/ AddUrlErrored \/ SetLastUpdate \/ StepFails \/ Restart
             \/ UNCHANGED vars \/ (\E i \in Item : Publish(i)) \/ (\E f \in File : Upload(f))
  <2>1. UNCHANGED <<job, files, count>>
    BY <1>3 DEF Tick, StartRound, FetchPage, FetchLastPage, QueryItems, SetRefreshDate,
      AllAssigned, SumDays, AddSearchRows, AllIndexed, QueryJson, SkipJson, AddUrl,
      AddUrlErrored, SetLastUpdate, StepFails, Restart, vars, Publish, Upload, jobs, database
  <2> QED BY <2>1 DEF CountsMatchFiles
<1> QED BY <1>1, <1>2, <1>3 DEF Next, Populate

LEMMA IndexNext ==
  TypeOK /\ JobInv /\ SearchInv /\ IndexMatchesJobs /\ [Next]_vars => IndexMatchesJobs'
<1> SUFFICES ASSUME TypeOK, JobInv, SearchInv, IndexMatchesJobs, [Next]_vars
             PROVE  IndexMatchesJobs'
  OBVIOUS
<1> USE DEF IndexMatchesJobs
<1>1. CASE AddSearchRows
  <2>1. /\ searched' = searched \cup First(BatchSize, JobsAfter)
        /\ index' = [j \in Job |-> IF j \in First(BatchSize, JobsAfter)
                                   THEN index[j] \cup {TextOf(url[j])} ELSE index[j]]
        /\ UNCHANGED url
    BY <1>1 DEF AddSearchRows
  <2>2. \A j \in First(BatchSize, JobsAfter) : j \notin searched
    BY FirstSubset DEF JobsAfter
  <2>3. \A j \in Job : TextOf(url'[j]) = TextOf(url[j])
    BY <2>1
  <2> QED BY <2>1, <2>2, <2>3
<1>2. CASE AddUrl
  <2>1. PICK f \in todo :
          \/ /\ url' = [url EXCEPT ![job[f]] = "url"] /\ job[f] \in searched
             /\ index' = [index EXCEPT ![job[f]] = (@ \ {TextOf(url[job[f]])}) \cup {"url"}]
          \/ UNCHANGED <<url, index>>
    BY <1>2 DEF AddUrl
  <2>2. UNCHANGED searched /\ url \in [Job -> Text \cup {None}] /\ index \in [Job -> SUBSET Text]
    BY <1>2 DEF AddUrl, TypeOK
  <2>3. TextOf("url") = "url"
    BY DEF TextOf
  <2>4. ASSUME NEW j \in Job PROVE index'[j] = IF j \in searched' THEN {TextOf(url'[j])} ELSE {}
    <3>1. index[j] = IF j \in searched THEN {TextOf(url[j])} ELSE {}
      OBVIOUS
    <3>2. CASE UNCHANGED <<url, index>>
      BY <2>2, <3>1, <3>2
    <3>3. CASE ~UNCHANGED <<url, index>> /\ j # job[f]
      <4>1. url'[j] = url[j] /\ index'[j] = index[j]
        BY <2>1, <2>2, <3>3
      <4> QED BY <2>2, <3>1, <4>1
    <3>4. CASE ~UNCHANGED <<url, index>> /\ j = job[f]
      <4>1. /\ url'[j] = "url" /\ j \in searched
            /\ index'[j] = (index[j] \ {TextOf(url[j])}) \cup {"url"}
        BY <2>1, <2>2, <3>4
      <4> QED BY <2>2, <2>3, <3>1, <4>1
    <3> QED BY <3>2, <3>3, <3>4
  <2> QED BY <2>4
<1>3. CASE AddUrlErrored
  <2>1. PICK f \in todo : Read(f, "bad") /\ url' = [url EXCEPT ![job[f]] = "empty"]
    BY <1>3 DEF AddUrlErrored
  <2>2. UNCHANGED <<searched, index>> /\ url \in [Job -> Text \cup {None}]
    BY <1>3 DEF AddUrlErrored, TypeOK
  <2>3. pc = "json" /\ f \in File /\ Json[f] = "bad"
    BY <2>1 DEF Read, TypeOK
  <2>4. KindOf[f] = "json" /\ JobOf[f] = job[f] /\ job[f] \in Job
    BY <2>1, <2>3 DEF SearchInv, JobInv, TypeOK
  <2>5. url[job[f]] # "url"
    BY <2>3, <2>4, CopyAssumption DEF JobInv
  <2>6. \A j \in Job : TextOf(url'[j]) = TextOf(url[j])
    BY <2>1, <2>2, <2>5 DEF TextOf
  <2> QED BY <2>2, <2>6
<1>4. CASE Tick \/ StartRound \/ FetchPage \/ FetchLastPage \/ QueryItems \/ AddFiles
             \/ SetRefreshDate \/ AssignJobs \/ AllAssigned \/ SumDays \/ AllIndexed
             \/ QueryJson \/ SkipJson \/ SetLastUpdate \/ StepFails \/ Restart
             \/ UNCHANGED vars \/ (\E i \in Item : Publish(i)) \/ (\E f \in File : Upload(f))
  <2>1. UNCHANGED <<index, url, searched>>
    BY <1>4 DEF Tick, StartRound, FetchPage, FetchLastPage, QueryItems, AddFiles, SetRefreshDate,
      AssignJobs, AllAssigned, SumDays, AllIndexed, QueryJson, SkipJson, SetLastUpdate,
      StepFails, Restart, vars, Publish, Upload, jobs, database
  <2> QED BY <2>1
<1> QED BY <1>1, <1>2, <1>3, <1>4 DEF Next, Populate

LEMMA SkipNext ==
  TypeOK /\ ArchiveInv /\ NoItemSkipped /\ [Next]_vars => NoItemSkipped'
<1> SUFFICES ASSUME TypeOK, ArchiveInv, NoItemSkipped, [Next]_vars PROVE NoItemSkipped'
  OBVIOUS
<1> USE DEF NoItemSkipped, NotBefore
<1>1. ASSUME NEW i \in Item, Publish(i) PROVE NoItemSkipped'
  <2>1. /\ added' = [added EXCEPT ![i] = now] /\ fetched <= now
        /\ UNCHANGED <<late, known, fetched>> /\ added \in [Item -> 0..MaxTime \cup {None}]
    BY <1>1 DEF Publish, ArchiveInv, TypeOK, database
  <2>2. ~(now < fetched)
    BY <2>1 DEF TypeOK
  <2> QED BY <2>1, <2>2
<1>2. CASE FetchLastPage
  <2>1. /\ known' = known \cup {i \in Item : NotBefore(i, Since)}
        /\ late' = (late \/ lastUpdate > fetched + LookBack)
        /\ fetched' = now /\ added' = added
    BY <1>2 DEF FetchLastPage, archive
  <2>2. /\ lastUpdate \in Nat /\ fetched \in Nat /\ now \in Nat /\ LookBack \in Nat
        /\ \A i \in Item : added[i] \in Nat \/ added[i] = None
    BY BoundAssumption DEF TypeOK
  <2>3. ASSUME ~late', NEW i \in Item, NotBefore(i, 0) PROVE i \in known'
    <3>1. added[i] \in Nat /\ added[i] # None
      BY <2>2, <2>3
    <3>2. CASE added[i] >= Since
      BY <2>1, <3>1, <3>2
    <3>3. CASE ~(added[i] >= Since)
      <4>1. added[i] < fetched
        <5>1. ~(lastUpdate > fetched + LookBack)
          BY <2>1, <2>3, Zenon
        <5>2. Since = IF lastUpdate < LookBack THEN 0 ELSE lastUpdate - LookBack
          BY DEF Since
        <5> QED BY <2>2, <3>1, <3>3, <5>1, <5>2
      <4>2. ~late
        BY <2>1, <2>3, Zenon
      <4> QED BY <2>1, <2>3, <4>1, <4>2
    <3> QED BY <3>2, <3>3
  <2> QED BY <2>1, <2>3
<1>3. CASE FetchPage
  <2>1. known \subseteq known' /\ UNCHANGED <<added, late, fetched>>
    BY <1>3 DEF FetchPage, archive
  <2> QED BY <2>1
<1>4. CASE Tick \/ StartRound \/ QueryItems \/ AddFiles \/ SetRefreshDate \/ AssignJobs
             \/ AllAssigned \/ SumDays \/ AddSearchRows \/ AllIndexed \/ QueryJson \/ SkipJson
             \/ AddUrl \/ AddUrlErrored \/ SetLastUpdate \/ StepFails \/ Restart
             \/ UNCHANGED vars \/ (\E f \in File : Upload(f))
  <2>1. UNCHANGED <<added, known, late, fetched>>
    BY <1>4 DEF Tick, StartRound, QueryItems, AddFiles, SetRefreshDate, AssignJobs, AllAssigned,
      SumDays, AddSearchRows, AllIndexed, QueryJson, SkipJson, AddUrl, AddUrlErrored,
      SetLastUpdate, StepFails, Restart, vars, Upload, archive, database
  <2> QED BY <2>1
<1> QED BY <1>1, <1>2, <1>3, <1>4 DEF Next, Populate

-----------------------------------------------------------------------------
(* The theorems *)

LEMMA CatalogInit == Init => TypeOK /\ CatalogInv
<1> SUFFICES ASSUME Init PROVE TypeOK /\ CatalogInv
  OBVIOUS
<1>1. TypeOK
  <2>1. count \in [Job -> [Kind -> Nat]] /\ stats \in [0..MaxTime -> Nat]
    BY DEF Init
  <2>2. /\ 0 \in 0..MaxTime /\ 0 \in 0..MaxFaults
    BY BoundAssumption
  <2> QED BY <2>1, <2>2 DEF Init, TypeOK, Steps
<1>2. ArchiveInv /\ RefreshInv /\ JobInv /\ SearchInv /\ NoItemSkipped
  <2>1. ArchiveInv /\ JobInv
    BY NoneAssumption DEF Init, ArchiveInv, JobInv
  <2>2. RefreshInv /\ SearchInv
    BY DEF Init, RefreshInv, SearchInv
  <2>3. NoItemSkipped
    BY DEF Init, NoItemSkipped, NotBefore
  <2> QED BY <2>1, <2>2, <2>3
<1>3. IndexMatchesJobs
  BY DEF Init, IndexMatchesJobs
<1>4. CountsMatchFiles
  <2> SUFFICES ASSUME NEW j \in Job, NEW k \in Kind
               PROVE  count[j][k] = Cardinality({f \in files : job[f] = j /\ KindOf[f] = k})
    BY DEF CountsMatchFiles
  <2>1. count[j][k] = 0 /\ {f \in files : job[f] = j /\ KindOf[f] = k} = {}
    BY DEF Init
  <2> QED BY <2>1, FS_EmptySet
<1> QED BY <1>1, <1>2, <1>3, <1>4 DEF CatalogInv

\* The variables keep their types (every transaction of populate_steps).
THEOREM CatalogTypes == Spec => []TypeOK
<1>1. Init => TypeOK
  BY CatalogInit
<1> QED BY <1>1, TypeNext, PTL DEF Spec

\* Whatever is cut off, what the cursors say was done is done (Backend, all of
\* its steps).
THEOREM CatalogInvariant == Spec => []CatalogInv
<1>1. TypeOK /\ CatalogInv /\ [Next]_vars => CatalogInv'
  BY ArchiveNext, RefreshNext, JobNext, SearchNext, CountsNext, IndexNext, SkipNext
     DEF CatalogInv
<1> QED BY <1>1, CatalogInit, CatalogTypes, PTL DEF Spec

\* The counters of a job are those of its files (update_jobs).
THEOREM CountsHold == Spec => []CountsMatchFiles
<1>1. CatalogInv => CountsMatchFiles
  BY DEF CatalogInv
<1> QED BY <1>1, CatalogInvariant, PTL

\* The full-text index follows the jobs' URLs (add_job_search_rows, add_job_url).
THEOREM IndexHolds == Spec => []IndexMatchesJobs
<1>1. CatalogInv => IndexMatchesJobs
  BY DEF CatalogInv
<1> QED BY <1>1, CatalogInvariant, PTL

\* add_job_url finds a search_id whenever it is called.
THEOREM SearchIdsHold == Spec => []IndexedBeforeUrl
<1>1. TypeOK /\ CatalogInv => IndexedBeforeUrl
  <2> SUFFICES ASSUME TypeOK, CatalogInv, pc = "json", NEW f \in todo
               PROVE  job[f] \in searched
    BY DEF IndexedBeforeUrl
  <2>1. f \in files /\ f \in File /\ job[f] # None /\ JobRows \subseteq searched
    BY DEF CatalogInv, SearchInv, TypeOK
  <2>2. job[f] \in JobRows
    BY <2>1 DEF JobRows, TypeOK
  <2> QED BY <2>1, <2>2
<1> QED BY <1>1, CatalogTypes, CatalogInvariant, PTL

\* No sum of populate_daily_stats is over no files.
THEOREM SumsHold == Spec => []SumsAreNumbers
<1>1. CatalogInv => SumsAreNumbers
  BY DEF CatalogInv, RefreshInv, SumsAreNumbers
<1> QED BY <1>1, CatalogInvariant, PTL

\* Failed rounds make populate_ia_items skip nothing.
THEOREM NothingSkipped == Spec => []NoItemSkipped
<1>1. CatalogInv => NoItemSkipped
  BY DEF CatalogInv
<1> QED BY <1>1, CatalogInvariant, PTL

=============================================================================
