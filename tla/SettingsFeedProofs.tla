------------------------- MODULE SettingsFeedProofs -------------------------
(* What TLAPS proves of SettingsFeed: for every number of handlers, commands *)
(* and faults, the copy in the wpull process covers the changes its age      *)
(* stands for.                                                               *)
EXTENDS SettingsFeed, SequenceTheorems, TLAPS

LEMMA StepsType ==
  ASSUME NEW command \in Setting \cup {"yahoo"}
  PROVE  /\ Steps(command) \in Seq(Step) /\ Steps(command) # <<>>
         /\ Head(Steps(command)) \in Setting /\ Tail(Steps(command)) \in Seq(Step)
<1>1. CASE command = "yahoo"
  <2>1. Steps(command) = <<"delay", "age", "concurrency", "age", "age", "publish">>
    BY <1>1 DEF Steps
  <2>2. Steps(command) \in Seq(Step)
    BY <2>1 DEF Step, Setting, Hashed
  <2>3. Steps(command) # <<>> /\ Head(Steps(command)) = "delay"
    BY <2>1
  <2> QED BY <2>2, <2>3, HeadTailProperties DEF Setting, Hashed
<1>2. CASE command # "yahoo"
  <2>1. Steps(command) = <<command, "age", "publish">>
    BY <1>2 DEF Steps
  <2>2. Steps(command) \in Seq(Step)
    BY <1>2, <2>1 DEF Step
  <2>3. Steps(command) # <<>> /\ Head(Steps(command)) = command
    BY <2>1
  <2> QED BY <1>2, <2>2, <2>3, HeadTailProperties
<1> QED BY <1>1, <1>2

LEMMA StartTypes ==
  /\ NoCopy \in Copy /\ IdleHandler \in [todo : Seq(Step), age : Nat]
  /\ NewListener \in ListenerState
BY DEF NoCopy, Copy, Versions, IdleHandler, NewListener, ListenerState

LEMMA AdvancedType ==
  ASSUME TypeOK, NEW h \in Handler, NEW step, HandlerAt(h, step)
  PROVE  Advanced(h) \in [Handler -> [todo : Seq(Step), age : Nat]]
<1>1. handler[h].todo \in Seq(Step) /\ handler[h].todo # <<>>
  BY DEF TypeOK, HandlerAt
<1>2. Tail(handler[h].todo) \in Seq(Step)
  BY <1>1, HeadTailProperties
<1> QED BY <1>2 DEF TypeOK, Advanced

LEMMA WriteType ==
  ASSUME TypeOK, NEW k \in Setting, Write(k)
  PROVE  server' \in Copy
<1>1. server.version \in [Setting -> Nat] /\ server.age \in Nat
      /\ server = [version |-> server.version, age |-> server.age]
  BY DEF TypeOK, Copy, Versions
<1>2. [server.version EXCEPT ![k] = @ + 1] \in [Setting -> Nat]
  BY <1>1
<1>3. server' = [version |-> [server.version EXCEPT ![k] = @ + 1], age |-> server.age]
  BY <1>1 DEF Write
<1> QED BY <1>1, <1>2, <1>3 DEF Copy, Versions

LEMMA AtType ==
  ASSUME TypeOK, NEW pc \in {"start", "subscribe", "loop", "check", "hash", "ignores",
                             "dead", "off"}
  PROVE  At(pc) \in ListenerState
BY StartTypes DEF TypeOK, At, ListenerState

\* The variables keep their types (Job, ListenerWorkerThread, Settings and
\* ArchiveBotPlugin, every action of them).
THEOREM FeedTypes == Spec => []TypeOK
<1>1. Init => TypeOK
  <2>1. <<>> \in Seq(Nat) /\ <<>> \in Seq(Versions)
    BY EmptySeq
  <2>2. [pc |-> "idle", lastAge |-> 0, concurrency |-> 0, stop |-> FALSE] \in PluginState
    BY DEF PluginState
  <2> SUFFICES ASSUME Init PROVE TypeOK
    OBVIOUS
  <2>3. messages \in Seq(Nat) /\ covered \in Seq(Versions)
    BY <2>1 DEF Init
  <2>4. plugin \in PluginState
    BY <2>2 DEF Init
  <2>5. /\ server \in Copy /\ local \in Copy /\ listener \in ListenerState
        /\ handler \in [Handler -> [todo : Seq(Step), age : Nat]]
    BY StartTypes DEF Init
  <2>6. aborted \in BOOLEAN /\ told \in Nat /\ commands \in Nat /\ faults \in Nat
    BY DEF Init
  <2> QED BY <2>3, <2>4, <2>5, <2>6 DEF TypeOK
<1>2. TypeOK /\ [Next]_vars => TypeOK'
  <2> SUFFICES ASSUME TypeOK, [Next]_vars PROVE TypeOK'
    OBVIOUS
  <2> USE DEF TypeOK, history, counts
  <2>1. ASSUME NEW h \in Handler, GiveCommand(h) PROVE TypeOK'
    <3>1. PICK command \in Command[h] :
            /\ Write(Head(Steps(command)))
            /\ handler' = [handler EXCEPT ![h].todo = Tail(Steps(command))]
      BY <2>1 DEF GiveCommand
    <3>2. command \in Setting \cup {"yahoo"}
      BY <3>1, CommandAssumption
    <3>3. Tail(Steps(command)) \in Seq(Step) /\ Head(Steps(command)) \in Setting
      BY <3>2, StepsType
    <3>4. server' \in Copy
      BY <3>1, <3>3, WriteType
    <3>5. handler' \in [Handler -> [todo : Seq(Step), age : Nat]]
      BY <3>1, <3>3
    <3> QED BY <2>1, <3>4, <3>5 DEF GiveCommand
  <2>2. ASSUME NEW h \in Handler, WriteMore(h) PROVE TypeOK'
    <3>1. PICK k \in Setting : HandlerAt(h, k) /\ Write(k)
      BY <2>2 DEF WriteMore
    <3>2. handler' \in [Handler -> [todo : Seq(Step), age : Nat]]
      BY <2>2, <3>1, AdvancedType DEF WriteMore
    <3> QED BY <2>2, <3>1, <3>2, WriteType DEF WriteMore
  <2>3. ASSUME NEW h \in Handler, RaiseAge(h) PROVE TypeOK'
    <3>1. server' \in Copy /\ server'.age \in Nat /\ server.version \in Versions
      <4>1. server' = [server EXCEPT !.age = @ + 1]
        BY <2>3 DEF RaiseAge
      <4>2. server.age \in Nat /\ server.version \in Versions
        BY DEF Copy
      <4>3. server' = [version |-> server.version, age |-> server.age + 1]
        BY <4>1 DEF Copy
      <4> QED BY <4>2, <4>3 DEF Copy
    <3>2. handler' \in [Handler -> [todo : Seq(Step), age : Nat]]
      <4>1. Advanced(h) \in [Handler -> [todo : Seq(Step), age : Nat]]
        BY <2>3, AdvancedType DEF RaiseAge
      <4>2. handler' = [Advanced(h) EXCEPT ![h].age = server'.age]
        BY <2>3 DEF RaiseAge
      <4> HIDE DEF TypeOK
      <4> QED BY <3>1, <4>1, <4>2
    <3>3. covered' \in Seq(Versions)
      BY <2>3, <3>1, AppendProperties DEF RaiseAge
    <3> QED BY <2>3, <3>1, <3>2, <3>3 DEF RaiseAge
  <2>4. ASSUME NEW h \in Handler, PublishAge(h) PROVE TypeOK'
    <3>1. handler[h].age \in Nat /\ handler' \in [Handler -> [todo : Seq(Step), age : Nat]]
      BY <2>4, StartTypes DEF PublishAge
    <3>2. Later(told, handler[h].age) \in Nat
      BY <3>1 DEF Later
    <3>3. messages' \in Seq(Nat)
      <4>1. Append(messages, handler[h].age) \in Seq(Nat)
        BY <3>1, AppendProperties
      <4> QED BY <2>4, <4>1 DEF PublishAge
    <3> QED BY <2>4, <3>1, <3>2, <3>3 DEF PublishAge
  <2>5. ASSUME NEW h \in Handler, HandlerFails(h) PROVE TypeOK'
    BY <2>5, StartTypes DEF HandlerFails
  <2>6. CASE BeginRun \/ NoMessage \/ TooEarly \/ Recheck
    <3>1. listener' \in ListenerState
      BY <2>6 DEF BeginRun, NoMessage, TooEarly, Recheck, ListenerState
    <3> QED BY <2>6, <3>1 DEF BeginRun, NoMessage, TooEarly, Recheck
  <2>15. CASE Subscribe \/ LeaveLoop
    <3>1. listener' \in ListenerState
      BY <2>15 DEF Subscribe, LeaveLoop, ListenerState
    <3>2. messages' \in Seq(Nat)
      BY <2>15, EmptySeq DEF Subscribe, LeaveLoop
    <3> QED BY <2>15, <3>1, <3>2 DEF Subscribe, LeaveLoop
  <2>7. CASE ReceiveMessage
    <3>1. messages' \in Seq(Nat)
      BY <2>7, HeadTailProperties DEF ReceiveMessage
    <3> QED BY <2>7, <3>1 DEF ReceiveMessage, ListenerState
  <2>8. CASE ReadHash
    BY <2>8 DEF ReadHash, ListenerState
  <2>9. CASE Install
    <3>1. listener.copy \in Copy /\ server.version["ignores"] \in Nat
      BY DEF ListenerState, Copy, Versions, Setting
    <3>2. local' \in Copy
      BY <2>9, <3>1 DEF Install, WithIgnores, Copy, Versions
    <3>3. listener' \in ListenerState
      BY <2>9, AtType DEF Install, ListenerState
    <3> QED BY <2>9, <3>2, <3>3 DEF Install
  <2>10. CASE ConnectionFails \/ SeeBreak \/ ListenerDies
    <3>1. At("start") \in ListenerState /\ At("dead") \in ListenerState
      BY AtType
    <3>2. listener' \in ListenerState
      BY <2>10, <3>1 DEF ConnectionFails, SeeBreak, ListenerDies, GiveUp, ListenerState
    <3>3. messages' \in Seq(Nat)
      <4>1. messages' = <<>>
        BY <2>10 DEF ConnectionFails, SeeBreak, ListenerDies, GiveUp
      <4> QED BY <4>1, EmptySeq
    <3> QED BY <2>10, <3>2, <3>3 DEF ConnectionFails, SeeBreak, ListenerDies, GiveUp
  <2>11. CASE SubscriptionBreaks
    <3>1. listener' \in ListenerState
      BY <2>11 DEF SubscriptionBreaks, ListenerState
    <3> QED BY <2>11, <3>1 DEF SubscriptionBreaks
  <2>12. CASE TakeResult \/ ApplyConcurrency \/ ReadAbort \/ ReturnStop \/ Exit
                \/ MarkAbortFails
    <3>1. local.age \in Nat /\ local.version["concurrency"] \in Nat
      BY DEF Copy, Versions, Setting, Hashed
    <3>2. plugin' \in PluginState
      BY <2>12, <3>1 DEF TakeResult, ApplyConcurrency, ReadAbort, ReturnStop, Exit,
         MarkAbortFails, PluginState
    <3> QED BY <2>12, <3>2 DEF TakeResult, ApplyConcurrency, ReadAbort, ReturnStop, Exit,
                 MarkAbortFails
  <2>13. CASE CheckListener \/ MarkAborted \/ CrawlEnds
    <3>1. plugin' \in PluginState
      BY <2>13 DEF CheckListener, MarkAborted, CrawlEnds, PluginState
    <3>2. listener' \in ListenerState
      <4>1. CASE CheckListener
        BY <4>1, StartTypes DEF CheckListener
      <4>2. CASE MarkAborted \/ CrawlEnds
        BY <4>2 DEF MarkAborted, CrawlEnds, ListenerState
      <4> QED BY <2>13, <4>1, <4>2
    <3> QED BY <2>13, <3>1, <3>2 DEF CheckListener, MarkAborted, CrawlEnds
  <2>14. CASE UNCHANGED vars
    BY <2>14 DEF vars
  <2> QED
    BY <2>1, <2>2, <2>3, <2>4, <2>5, <2>6, <2>7, <2>8, <2>9, <2>10, <2>11, <2>12, <2>13,
       <2>14, <2>15 DEF Next, HandlerStep, ListenerStep, ListenerFault, PluginStep
<1> QED BY <1>1, <1>2, PTL DEF Spec

-----------------------------------------------------------------------------
LEMMA Numbers ==
  ASSUME TypeOK
  PROVE  /\ server.age \in Nat /\ local.age \in Nat /\ listener.copy.age \in Nat
         /\ plugin.lastAge \in Nat /\ plugin.concurrency \in Nat /\ told \in Nat
         /\ \A k \in Setting : /\ server.version[k] \in Nat /\ local.version[k] \in Nat
                               /\ listener.copy.version[k] \in Nat
         /\ Len(covered) \in Nat
         /\ \A n \in 1..Len(covered) : \A k \in Setting : covered[n][k] \in Nat
         /\ \A h \in Handler : handler[h].age \in Nat
<1>1. \A n \in 1..Len(covered) : covered[n] \in Versions
  BY ElementOfSeq DEF TypeOK
<1>2. Len(covered) \in Nat
  BY LenProperties DEF TypeOK
<1> QED BY <1>1, <1>2 DEF TypeOK, Copy, Versions, ListenerState, PluginState

LEMMA NumbersNext ==
  ASSUME TypeOK'
  PROVE  /\ server'.age \in Nat /\ local'.age \in Nat /\ listener'.copy.age \in Nat
         /\ plugin'.lastAge \in Nat /\ told' \in Nat
         /\ \A k \in Setting : /\ server'.version[k] \in Nat /\ local'.version[k] \in Nat
                               /\ listener'.copy.version[k] \in Nat
         /\ Len(covered') \in Nat
         /\ \A n \in 1..Len(covered') : \A k \in Setting : covered'[n][k] \in Nat
         /\ \A h \in Handler : handler'[h].age \in Nat
<1>1. \A n \in 1..Len(covered') : covered'[n] \in Versions
  BY ElementOfSeq DEF TypeOK
<1>2. Len(covered') \in Nat
  BY LenProperties DEF TypeOK
<1> QED BY <1>1, <1>2 DEF TypeOK, Copy, Versions, ListenerState, PluginState

\* What a step does to the record, and to the history of its ages.
RecordGrows ==
  /\ server.age <= server'.age
  /\ \A k \in Setting : server.version[k] <= server'.version[k]
  /\ \/ covered' = covered /\ server'.age = server.age
     \/ /\ covered' = Append(covered, server.version)
        /\ server'.age = server.age + 1 /\ server'.version = server.version

LEMMA RecordStep ==
  ASSUME TypeOK, [Next]_vars
  PROVE  RecordGrows
<1> USE Numbers DEF RecordGrows
<1>1. ASSUME NEW k \in Setting, Write(k), covered' = covered PROVE RecordGrows
  <2>1. server' = [server EXCEPT !.version[k] = @ + 1]
    BY <1>1 DEF Write
  <2>2. server'.age = server.age
        /\ server'.version = [server.version EXCEPT ![k] = @ + 1]
    BY <2>1 DEF TypeOK, Copy
  <2>3. \A j \in Setting : server.version[j] <= server'.version[j]
    BY <2>2 DEF TypeOK, Copy, Versions
  <2> QED BY <1>1, <2>2, <2>3
<1>2. ASSUME NEW h \in Handler, GiveCommand(h) PROVE RecordGrows
  <2>1. PICK command \in Command[h] : Write(Head(Steps(command)))
    BY <1>2 DEF GiveCommand
  <2>2. Head(Steps(command)) \in Setting
    BY <2>1, CommandAssumption, StepsType
  <2> QED BY <1>1, <1>2, <2>1, <2>2 DEF GiveCommand, history
<1>3. ASSUME NEW h \in Handler, WriteMore(h) PROVE RecordGrows
  BY <1>1, <1>3 DEF WriteMore, history
<1>4. ASSUME NEW h \in Handler, RaiseAge(h) PROVE RecordGrows
  <2>1. server' = [server EXCEPT !.age = @ + 1] /\ covered' = Append(covered, server.version)
    BY <1>4 DEF RaiseAge
  <2> QED BY <2>1 DEF TypeOK, Copy
<1>5. CASE UNCHANGED <<server, covered>>
  BY <1>5
<1>6. \/ \E h \in Handler : GiveCommand(h) \/ WriteMore(h) \/ RaiseAge(h)
      \/ UNCHANGED <<server, covered>>
  BY DEF Next, vars, history, HandlerStep, PublishAge, HandlerFails, ListenerStep, BeginRun,
     Subscribe, ReceiveMessage, NoMessage, LeaveLoop, TooEarly, Recheck, ReadHash, Install,
     SeeBreak, ListenerFault, ConnectionFails, SubscriptionBreaks, ListenerDies, PluginStep,
     TakeResult, ApplyConcurrency, CheckListener, ReadAbort, MarkAborted, ReturnStop, Exit,
     MarkAbortFails, CrawlEnds
<1> QED BY <1>2, <1>3, <1>4, <1>5, <1>6

\* An entry of the history stays what it was.
LEMMA HistoryKept ==
  ASSUME TypeOK, RecordGrows
  PROVE  \A n \in 1..Len(covered) : covered'[n] = covered[n]
<1>1. CASE covered' = covered
  BY <1>1
<1>2. CASE covered' = Append(covered, server.version)
  <2>1. server.version \in Versions /\ covered \in Seq(Versions)
    BY DEF TypeOK, Copy
  <2> QED BY <1>2, <2>1, AppendProperties
<1> QED BY <1>1, <1>2 DEF RecordGrows

\* The copy changes only by Install, and what was read only by ReadHash.
LEMMA CopyMoves ==
  ASSUME TypeOK, [Next]_vars
  PROVE  /\ local' = local \/ Install
         /\ listener'.pc = "ignores" =>
              \/ ReadHash
              \/ listener.pc = "ignores" /\ listener'.copy = listener.copy /\ local' = local
         /\ plugin'.lastAge = plugin.lastAge \/ TakeResult
<1> USE DEF TypeOK, ListenerState, PluginState
<1>1. ASSUME NEW h \in Handler, HandlerStep(h)
      PROVE  UNCHANGED <<local, listener, plugin>>
  BY <1>1 DEF HandlerStep, GiveCommand, WriteMore, RaiseAge, PublishAge, HandlerFails
<1>2. ASSUME ListenerStep
      PROVE  /\ local' = local \/ Install
             /\ listener'.pc = "ignores" => ReadHash
             /\ plugin' = plugin
  BY <1>2 DEF ListenerStep, BeginRun, Subscribe, ReceiveMessage, NoMessage, LeaveLoop,
     TooEarly, Recheck, ReadHash, Install, SeeBreak, GiveUp, At
<1>3. ASSUME ListenerFault
      PROVE  /\ local' = local /\ plugin' = plugin
             /\ listener'.pc = "ignores" =>
                  listener.pc = "ignores" /\ listener'.copy = listener.copy
  BY <1>3 DEF ListenerFault, ConnectionFails, SubscriptionBreaks, ListenerDies, GiveUp, At
<1>4. ASSUME PluginStep \/ MarkAbortFails \/ CrawlEnds
      PROVE  /\ local' = local
             /\ listener'.pc = "ignores" =>
                  listener.pc = "ignores" /\ listener'.copy = listener.copy
             /\ plugin'.lastAge = plugin.lastAge \/ TakeResult
  <2>1. CASE CheckListener
    BY <2>1 DEF CheckListener, NewListener
  <2>2. CASE MarkAborted \/ CrawlEnds
    BY <2>2 DEF MarkAborted, CrawlEnds
  <2>3. CASE TakeResult \/ ApplyConcurrency \/ ReadAbort \/ ReturnStop \/ Exit \/ MarkAbortFails
    BY <2>3 DEF TakeResult, ApplyConcurrency, ReadAbort, ReturnStop, Exit, MarkAbortFails
  <2> QED BY <1>4, <2>1, <2>2, <2>3 DEF PluginStep
<1>5. CASE UNCHANGED vars
  BY <1>5 DEF vars
<1> QED BY <1>1, <1>2, <1>3, <1>4, <1>5 DEF Next

-----------------------------------------------------------------------------
\* A copy that covered its age still does, and what it lacks is in the record.
LEMMA CoversKept ==
  ASSUME TypeOK, TypeOK', RecordGrows, NEW copy, copy.age \in Nat, copy.age <= Len(covered),
         NEW settings \in SUBSET Setting, Covers(copy, settings)
  PROVE  Covers(copy, settings)'
<1>1. \A n \in 1..Len(covered) : covered'[n] = covered[n]
  BY HistoryKept
<1>2. \A n \in 1..copy.age : n \in 1..Len(covered)
  BY Numbers
<1> QED BY <1>1, <1>2 DEF Covers

LEMMA RecordCovers ==
  ASSUME TypeOK, AgeInv
  PROVE  Covers(server, Setting)
BY Numbers DEF AgeInv, Covers

\* Install puts a newer copy in place of the old one.
LEMMA InstallNewer ==
  ASSUME TypeOK, AgeInv, CopyInv, Install
  PROVE  /\ local'.age = listener.copy.age
         /\ \A k \in Hashed : local'.version[k] = listener.copy.version[k]
         /\ local'.version["ignores"] = server.version["ignores"]
         /\ local.age <= local'.age /\ local'.age <= server.age
         /\ \A k \in Setting : /\ local.version[k] <= local'.version[k]
                               /\ local'.version[k] <= server.version[k]
         /\ Covers(local', Setting)
<1>1. local' = [listener.copy EXCEPT !.version["ignores"] = server.version["ignores"]]
      /\ listener.pc = "ignores"
  BY DEF Install, WithIgnores
<1>2. listener.copy \in Copy
  BY DEF TypeOK, ListenerState
<1>3. /\ local'.age = listener.copy.age
      /\ \A k \in Hashed : local'.version[k] = listener.copy.version[k]
      /\ local'.version["ignores"] = server.version["ignores"]
  BY <1>1, <1>2 DEF Copy, Versions, Setting, Hashed
<1>4. /\ local.age <= local'.age /\ local'.age <= server.age
      /\ \A k \in Setting : /\ local.version[k] <= local'.version[k]
                            /\ local'.version[k] <= server.version[k]
  BY <1>1, <1>3, Numbers DEF CopyInv, AgeInv, Setting
<1>5. Covers(local', Setting)
  <2> SUFFICES ASSUME NEW n \in 1..local'.age, NEW k \in Setting
               PROVE  local'.version[k] >= covered[n][k]
    BY DEF Covers
  <2>1. CASE k \in Hashed
    BY <1>1, <1>3, <2>1 DEF CopyInv, Covers
  <2>2. CASE k = "ignores"
    <3>1. n \in 1..Len(covered)
      BY <1>3, <1>4, Numbers DEF AgeInv
    <3> QED BY <1>3, <2>2, <3>1, Numbers DEF AgeInv
  <2> QED BY <2>1, <2>2 DEF Setting
<1> QED BY <1>3, <1>4, <1>5

\* A step never takes the copy back.
LEMMA CopyForward ==
  ASSUME TypeOK, AgeInv, CopyInv, [Next]_vars
  PROVE  /\ local.age <= local'.age
         /\ \A k \in Setting : local.version[k] <= local'.version[k]
         /\ local' # local => Install
BY CopyMoves, InstallNewer, Numbers

LEMMA AgeStep ==
  ASSUME TypeOK, TypeOK', FeedInv, [Next]_vars
  PROVE  AgeInv' /\ AgeCoversChanges'
<1>0. AgeInv /\ CopyInv /\ AgeCoversChanges
  BY DEF FeedInv
<1>1. RecordGrows
  BY RecordStep
<1>2. server'.age = Len(covered')
      /\ \A n \in 1..Len(covered') : \A k \in Setting : covered'[n][k] <= server'.version[k]
  <2>1. CASE covered' = covered /\ server'.age = server.age
    <3>1. \A n \in 1..Len(covered) : \A k \in Setting : covered[n][k] <= server.version[k]
      BY <1>0 DEF AgeInv
    <3>2. server'.age = Len(covered')
      BY <1>0, <2>1 DEF AgeInv
    <3>3. ASSUME NEW n \in 1..Len(covered'), NEW k \in Setting
          PROVE  covered'[n][k] <= server'.version[k]
      <4>1. covered'[n][k] <= server.version[k] /\ server.version[k] <= server'.version[k]
        BY <1>1, <2>1, <3>1 DEF RecordGrows
      <4>2. covered'[n][k] \in Nat /\ server.version[k] \in Nat /\ server'.version[k] \in Nat
        BY Numbers, NumbersNext
      <4> QED BY <4>1, <4>2
    <3> QED BY <3>2, <3>3
  <2>2. CASE covered' = Append(covered, server.version) /\ server'.age = server.age + 1
             /\ server'.version = server.version
    <3>1. /\ Len(covered') = Len(covered) + 1
          /\ \A n \in 1..Len(covered) : covered'[n] = covered[n]
          /\ covered'[Len(covered) + 1] = server.version
      BY <2>2, AppendProperties DEF TypeOK, Copy
    <3> QED BY <1>0, <2>2, <3>1, Numbers DEF AgeInv
  <2> QED BY <1>1, <2>1, <2>2 DEF RecordGrows
<1>3. /\ local'.age <= server'.age
      /\ \A k \in Setting : local'.version[k] <= server'.version[k]
  <2>1. CASE local' = local
    <3>1. local.age <= server.age /\ server.age <= server'.age
      BY <1>0, <1>1 DEF AgeInv, RecordGrows
    <3>2. ASSUME NEW k \in Setting PROVE local'.version[k] <= server'.version[k]
      <4>1. /\ local.version[k] <= server.version[k] /\ server.version[k] <= server'.version[k]
        BY <1>0, <1>1 DEF AgeInv, RecordGrows
      <4>2. /\ local.version[k] \in Nat /\ server.version[k] \in Nat
            /\ server'.version[k] \in Nat
        BY Numbers, NumbersNext
      <4> QED BY <2>1, <4>1, <4>2
    <3>3. local.age \in Nat /\ server.age \in Nat /\ server'.age \in Nat
      BY Numbers, NumbersNext
    <3> QED BY <2>1, <3>1, <3>2, <3>3
  <2>2. CASE Install
    <3>1. server' = server
      BY <2>2 DEF Install
    <3> QED BY <1>0, <2>2, <3>1, InstallNewer
  <2> QED BY <2>1, <2>2, CopyMoves
<1>4. plugin'.lastAge <= local'.age
  <2>1. CASE plugin'.lastAge = plugin.lastAge
    <3>1. plugin.lastAge <= local.age /\ local.age <= local'.age
      BY <1>0, CopyForward DEF AgeInv
    <3>2. plugin.lastAge \in Nat /\ local.age \in Nat /\ local'.age \in Nat
      BY Numbers, NumbersNext
    <3> QED BY <2>1, <3>1, <3>2
  <2>2. CASE TakeResult
    <3>1. plugin'.lastAge \in {plugin.lastAge, local.age} /\ local' = local
      BY <2>2 DEF TakeResult, TypeOK, PluginState
    <3>2. plugin.lastAge <= local.age
      BY <1>0 DEF AgeInv
    <3> QED BY <3>1, <3>2, Numbers
  <2> QED BY <2>1, <2>2, CopyMoves
<1>5. AgeCoversChanges'
  <2>1. CASE local' = local
    <3>1. local.age \in Nat /\ local.age <= Len(covered)
      BY <1>0, Numbers DEF AgeInv
    <3>2. Covers(local, Setting)'
      BY <1>0, <1>1, <2>1, <3>1, CoversKept DEF AgeCoversChanges, Covers
    <3> QED BY <3>2 DEF AgeCoversChanges
  <2>2. CASE Install
    <3>1. covered' = covered
      BY <2>2 DEF Install, history
    <3> QED BY <1>0, <2>2, <3>1, InstallNewer DEF AgeCoversChanges, Covers
  <2> QED BY <2>1, <2>2, CopyMoves
<1> QED BY <1>2, <1>3, <1>4, <1>5 DEF AgeInv

LEMMA CopyStep ==
  ASSUME TypeOK, TypeOK', FeedInv, [Next]_vars
  PROVE  CopyInv'
<1> SUFFICES ASSUME listener'.pc = "ignores"
             PROVE  /\ local'.age <= listener'.copy.age /\ listener'.copy.age <= server'.age
                    /\ \A k \in Hashed : /\ local'.version[k] <= listener'.copy.version[k]
                                         /\ listener'.copy.version[k] <= server'.version[k]
                    /\ Covers(listener.copy, Hashed)'
  BY DEF CopyInv
<1>0. AgeInv /\ CopyInv /\ Hashed \subseteq Setting
  BY DEF FeedInv, Setting
<1>1. CASE ReadHash
  <2>1. listener'.copy = server /\ UNCHANGED <<server, local, covered>>
    BY <1>1 DEF ReadHash, history, TypeOK, ListenerState
  <2>2. Covers(listener.copy, Hashed)'
    BY <1>0, <2>1, RecordCovers DEF Covers
  <2> QED BY <1>0, <2>1, <2>2, Numbers DEF AgeInv
<1>2. CASE listener.pc = "ignores" /\ listener'.copy = listener.copy /\ local' = local
  <2>1. RecordGrows
    BY RecordStep
  <2>2. listener.copy.age \in Nat /\ listener.copy.age <= Len(covered)
    BY <1>0, <1>2, Numbers DEF AgeInv, CopyInv
  <2>3. \A n \in 1..Len(covered) : covered'[n] = covered[n]
    BY <2>1, HistoryKept
  <2>4. Covers(listener.copy, Hashed)'
    BY <1>0, <1>2, <2>2, <2>3, Numbers DEF Covers, CopyInv
  <2>5. local'.age <= listener'.copy.age /\ listener'.copy.age <= server'.age
    <3>1. local.age <= listener.copy.age /\ listener.copy.age <= server.age
          /\ server.age <= server'.age
      BY <1>0, <1>2, <2>1 DEF CopyInv, RecordGrows
    <3>2. listener.copy.age \in Nat /\ server.age \in Nat /\ server'.age \in Nat
      BY Numbers, NumbersNext
    <3> QED BY <1>2, <3>1, <3>2
  <2>6. ASSUME NEW k \in Hashed
        PROVE  /\ local'.version[k] <= listener'.copy.version[k]
               /\ listener'.copy.version[k] <= server'.version[k]
    <3>1. /\ local.version[k] <= listener.copy.version[k]
          /\ listener.copy.version[k] <= server.version[k]
          /\ server.version[k] <= server'.version[k]
      BY <1>0, <1>2, <2>1 DEF CopyInv, RecordGrows
    <3>2. /\ listener.copy.version[k] \in Nat /\ server.version[k] \in Nat
          /\ server'.version[k] \in Nat
      BY <1>0, Numbers, NumbersNext
    <3> QED BY <1>2, <3>1, <3>2
  <2> QED BY <2>4, <2>5, <2>6
<1> QED BY <1>1, <1>2, CopyMoves

\* wpull's concurrency is applied from a copy that covers the age it remembers.
LEMMA ConcurrencyStep ==
  ASSUME TypeOK, TypeOK', FeedInv, [Next]_vars
  PROVE  ConcurrencyCoversAge'
<1>0. AgeInv /\ AgeCoversChanges /\ ConcurrencyCoversAge /\ "concurrency" \in Setting
  BY DEF FeedInv, Setting, Hashed
<1>1. \A n \in 1..Len(covered) : covered'[n] = covered[n]
  BY RecordStep, HistoryKept
<1>2. plugin.lastAge <= Len(covered)
  BY <1>0, Numbers DEF AgeInv
<1>3. CASE plugin'.pc # "apply" /\ plugin.pc # "apply" /\ plugin'.lastAge = plugin.lastAge
           /\ plugin'.concurrency = plugin.concurrency
  <2>1. \A n \in 1..plugin.lastAge : n \in 1..Len(covered)
    BY <1>2, Numbers
  <2> QED BY <1>0, <1>1, <1>3, <2>1 DEF ConcurrencyCoversAge
<1>4. CASE ApplyConcurrency
  <2>1. /\ plugin'.concurrency = local.version["concurrency"]
        /\ plugin'.lastAge = plugin.lastAge
    BY <1>4 DEF ApplyConcurrency, TypeOK, PluginState
  <2>2. \A n \in 1..plugin.lastAge : local.version["concurrency"] >= covered[n]["concurrency"]
    <3>1. \A n \in 1..plugin.lastAge : n \in 1..local.age
      BY <1>0, Numbers DEF AgeInv
    <3> QED BY <1>0, <3>1 DEF AgeCoversChanges, Covers
  <2> QED BY <1>1, <1>2, <2>1, <2>2, Numbers DEF ConcurrencyCoversAge
<1>5. CASE plugin'.pc = "apply"
  BY <1>5 DEF ConcurrencyCoversAge
<1>6. \/ plugin'.pc = "apply" \/ ApplyConcurrency
      \/ /\ plugin'.pc # "apply" /\ plugin.pc # "apply" /\ plugin'.lastAge = plugin.lastAge
         /\ plugin'.concurrency = plugin.concurrency
  <2> USE DEF TypeOK, PluginState
  <2>1. CASE PluginStep \/ MarkAbortFails \/ CrawlEnds
    BY <2>1 DEF PluginStep, TakeResult, CheckListener, ReadAbort, MarkAborted, ReturnStop,
       Exit, MarkAbortFails, CrawlEnds
  <2>2. CASE UNCHANGED plugin
    BY <2>2
  <2>3. PluginStep \/ MarkAbortFails \/ CrawlEnds \/ UNCHANGED plugin
    BY DEF Next, vars, HandlerStep, GiveCommand, WriteMore, RaiseAge, PublishAge,
       HandlerFails, ListenerStep, BeginRun, Subscribe, ReceiveMessage, NoMessage, LeaveLoop,
       TooEarly, Recheck, ReadHash, Install, SeeBreak, ListenerFault, ConnectionFails,
       SubscriptionBreaks, ListenerDies
  <2> QED BY <2>1, <2>2, <2>3
<1> QED BY <1>3, <1>4, <1>5, <1>6

\* No step takes back an abort request or its mark.
LEMMA StopStep ==
  ASSUME TypeOK, TypeOK', FeedInv, [Next]_vars
  PROVE  StopInv'
<1>0. StopInv /\ AgeInv /\ "abort" \in Setting
  BY DEF FeedInv, Setting, Hashed
<1>1. server.version["abort"] > 0 => server'.version["abort"] > 0
  <2>1. server.version["abort"] <= server'.version["abort"]
    BY <1>0, RecordStep DEF RecordGrows
  <2>2. server.version["abort"] \in Nat /\ server'.version["abort"] \in Nat
    BY <1>0, Numbers, NumbersNext
  <2> QED BY <2>1, <2>2
<1> USE DEF StopInv, StopsOnRequest, TypeOK, PluginState
<1>2. CASE UNCHANGED <<plugin, aborted>>
  BY <1>0, <1>1, <1>2
<1>3. CASE ReadAbort
  <2>1. local.version["abort"] > 0 => server.version["abort"] > 0
    <3>1. local.version["abort"] <= server.version["abort"]
      BY <1>0 DEF AgeInv
    <3>2. local.version["abort"] \in Nat /\ server.version["abort"] \in Nat
      BY <1>0, Numbers
    <3> QED BY <3>1, <3>2
  <2> QED BY <1>0, <1>1, <1>3, <2>1 DEF ReadAbort
<1>4. CASE MarkAborted
  BY <1>0, <1>1, <1>4 DEF MarkAborted
<1>5. CASE TakeResult \/ ApplyConcurrency \/ CheckListener \/ ReturnStop \/ Exit
             \/ MarkAbortFails \/ CrawlEnds
  BY <1>0, <1>1, <1>5 DEF TakeResult, ApplyConcurrency, CheckListener, ReturnStop, Exit,
     MarkAbortFails, CrawlEnds
<1>6. \/ PluginStep \/ MarkAbortFails \/ CrawlEnds \/ UNCHANGED <<plugin, aborted>>
  BY DEF Next, vars, HandlerStep, GiveCommand, WriteMore, RaiseAge, PublishAge,
     HandlerFails, ListenerStep, BeginRun, Subscribe, ReceiveMessage, NoMessage, LeaveLoop,
     TooEarly, Recheck, ReadHash, Install, SeeBreak, ListenerFault, ConnectionFails,
     SubscriptionBreaks, ListenerDies
<1> QED BY <1>2, <1>3, <1>4, <1>5, <1>6 DEF PluginStep

\* What the subscription was told stays on its way to the copy.
Underway ==
  \/ told <= local.age
  \/ \E i \in 1..Len(messages) : messages[i] = told
  \/ listener.pc = "hash" /\ listener.after = "check"
  \/ listener.pc = "ignores" /\ told <= listener.copy.age

LEMMA AgesGivenOut ==
  ASSUME TypeOK, TypeOK', FeedInv, [Next]_vars
  PROVE  told' <= server'.age /\ \A h \in Handler : handler'[h].age <= server'.age
<1>0. TellInv
  BY DEF FeedInv
<1>1. RecordGrows /\ 0 <= server.age /\ 0 <= server'.age
  BY RecordStep, Numbers, NumbersNext
<1>2. told' <= server'.age
  <2>1. told' = told \/ told' = 0 \/ \E h \in Handler : told' = handler[h].age
    BY DEF Next, vars, history, HandlerStep, GiveCommand, WriteMore, RaiseAge, PublishAge,
       Later, HandlerFails, ListenerStep, BeginRun, Subscribe, ReceiveMessage, NoMessage,
       LeaveLoop, TooEarly, Recheck, ReadHash, Install, SeeBreak, ListenerFault,
       ConnectionFails, SubscriptionBreaks, ListenerDies, PluginStep, TakeResult,
       ApplyConcurrency, CheckListener, ReadAbort, MarkAborted, ReturnStop, Exit,
       MarkAbortFails, CrawlEnds
  <2>2. told' <= server.age
    BY <1>0, <1>1, <2>1 DEF TellInv
  <2>3. server.age <= server'.age
    BY <1>1 DEF RecordGrows
  <2>4. told' \in Nat /\ server.age \in Nat /\ server'.age \in Nat
    BY Numbers, NumbersNext
  <2> QED BY <2>2, <2>3, <2>4
<1>3. ASSUME NEW g \in Handler PROVE handler'[g].age <= server'.age
  <2>1. ASSUME NEW h \in Handler, HandlerStep(h)
        PROVE  handler'[g].age \in {handler[g].age, 0, server'.age}
    <3> USE DEF TypeOK
    <3>1. CASE GiveCommand(h) \/ WriteMore(h)
      <4>1. \E todo : handler' = [handler EXCEPT ![h].todo = todo]
        BY <3>1 DEF GiveCommand, WriteMore, Advanced
      <4>2. ASSUME NEW todo, handler' = [handler EXCEPT ![h].todo = todo]
            PROVE  handler'[g].age = handler[g].age
        BY <4>2
      <4> QED BY <4>1, <4>2
    <3>2. CASE RaiseAge(h)
      <4>1. handler' = [Advanced(h) EXCEPT ![h].age = server'.age]
        BY <3>2 DEF RaiseAge
      <4>2. Advanced(h)[g].age = handler[g].age
        BY DEF Advanced
      <4>3. DOMAIN Advanced(h) = Handler /\ DOMAIN Advanced(h)[g] = {"todo", "age"}
        BY DEF Advanced
      <4> QED BY <4>1, <4>2, <4>3
    <3>3. CASE PublishAge(h) \/ HandlerFails(h)
      <4>1. handler' = [handler EXCEPT ![h] = IdleHandler]
        BY <3>3 DEF PublishAge, HandlerFails
      <4>2. IdleHandler.age = 0
        BY DEF IdleHandler
      <4> QED BY <4>1, <4>2
    <3> QED BY <2>1, <3>1, <3>2, <3>3 DEF HandlerStep
  <2>2. handler'[g].age \in {handler[g].age, 0, server'.age}
    BY <2>1 DEF Next, vars, ListenerStep, BeginRun, Subscribe, ReceiveMessage, NoMessage,
       LeaveLoop, TooEarly, Recheck, ReadHash, Install, SeeBreak, ListenerFault,
       ConnectionFails, SubscriptionBreaks, ListenerDies, PluginStep, TakeResult,
       ApplyConcurrency, CheckListener, ReadAbort, MarkAborted, ReturnStop, Exit,
       MarkAbortFails, CrawlEnds
  <2>3. handler[g].age <= server.age /\ server.age <= server'.age
    BY <1>0, <1>1 DEF TellInv, RecordGrows
  <2>4. handler[g].age \in Nat /\ server.age \in Nat /\ server'.age \in Nat
    BY Numbers, NumbersNext
  <2> QED BY <1>1, <2>2, <2>3, <2>4
<1> QED BY <1>2, <1>3

\* Where a subscribed listener can be.
Placed ==
  \/ listener.pc \in {"loop", "check"}
  \/ listener.pc \in {"hash", "ignores"} /\ listener.after # "subscribe"

LEMMA ReceiveStep ==
  ASSUME TypeOK, listener.subscribed, Underway, ReceiveMessage
  PROVE  Underway'
<1>1. /\ messages' = Tail(messages) /\ messages # <<>>
      /\ UNCHANGED <<local, told>> /\ listener.pc = "loop"
  BY DEF ReceiveMessage, history
<1>2. CASE Outdated(Head(messages))
  BY <1>2 DEF ReceiveMessage, Underway, TypeOK, ListenerState
<1>3. CASE ~Outdated(Head(messages))
  <2>1. ~(local.age < messages[1])
    BY <1>1, <1>3, HeadTailProperties DEF Outdated, TypeOK
  <2>2. told <= local.age \/ \E i \in 1..Len(messages) : messages[i] = told
    BY <1>1 DEF Underway
  <2>3. ASSUME NEW i \in 1..Len(messages), messages[i] = told
        PROVE  told <= local.age \/ \E j \in 1..Len(messages') : messages'[j] = told
    <3>1. CASE i = 1
      <4>1. told \in Nat /\ local.age \in Nat
        BY Numbers
      <4>2. ~(local.age < told)
        BY <2>1, <2>3, <3>1
      <4> QED BY <4>1, <4>2
    <3>2. CASE i # 1
      <4>1. /\ Len(messages') = Len(messages) - 1
            /\ \A j \in 1..Len(Tail(messages)) : Tail(messages)[j] = messages[j + 1]
        BY <1>1, HeadTailProperties DEF TypeOK
      <4>2. i - 1 \in 1..Len(messages') /\ (i - 1) + 1 = i
        BY <3>2, <4>1, LenProperties DEF TypeOK
      <4>3. messages'[i - 1] = told
        BY <1>1, <2>3, <4>1, <4>2
      <4> QED BY <4>2, <4>3
    <3> QED BY <3>1, <3>2
  <2> QED BY <1>1, <2>2, <2>3 DEF Underway
<1> QED BY <1>2, <1>3

LEMMA PublishStep ==
  ASSUME TypeOK, listener.subscribed, Underway, NEW h \in Handler, PublishAge(h)
  PROVE  Underway'
<1>1. /\ messages' = Append(messages, handler[h].age)
      /\ told' = Later(told, handler[h].age) /\ UNCHANGED <<local, listener>>
  BY DEF PublishAge
<1>2. /\ Len(messages') = Len(messages) + 1 /\ Len(messages) \in Nat
      /\ \A i \in 1..Len(messages) : messages'[i] = messages[i]
      /\ messages'[Len(messages) + 1] = handler[h].age
  BY <1>1, Numbers, AppendProperties, LenProperties DEF TypeOK
<1>3. CASE told' = handler[h].age
  BY <1>2, <1>3 DEF Underway
<1>4. CASE told' = told
  <2>1. (\E i \in 1..Len(messages) : messages[i] = told)
          => \E i \in 1..Len(messages') : messages'[i] = told
    BY <1>2
  <2> QED BY <1>1, <1>4, <2>1 DEF Underway
<1> QED BY <1>1, <1>3, <1>4 DEF Later

LEMMA UnderwayStep ==
  ASSUME TypeOK, TypeOK', FeedInv, [Next]_vars, listener'.subscribed
  PROVE  Placed' /\ Underway'
<1>0. /\ AgeInv /\ CopyInv /\ told <= server.age
      /\ listener.subscribed => Placed /\ Underway
  BY DEF FeedInv, TellInv, Placed, Underway
<1> USE DEF TypeOK, ListenerState
<1>1. CASE Subscribe
  BY <1>1, NumbersNext DEF Subscribe, Placed, Underway
<1>2. CASE ReceiveMessage
  <2>1. listener.subscribed /\ Placed'
    BY <1>2 DEF ReceiveMessage, Placed
  <2> QED BY <1>0, <1>2, <2>1, ReceiveStep
<1>3. CASE ReadHash
  <2>1. /\ listener.subscribed /\ Placed' /\ told' = told /\ listener'.pc = "ignores"
        /\ listener'.copy = server
    BY <1>0, <1>3 DEF ReadHash, Placed, history
  <2> QED BY <1>0, <2>1 DEF Underway
<1>4. CASE Install
  <2>1. /\ listener.subscribed /\ listener.pc = "ignores"
        /\ UNCHANGED <<messages, told>> /\ listener'.pc = listener.after
    BY <1>4 DEF Install, At, history
  <2>2. local'.age = listener.copy.age /\ local.age <= local'.age
    BY <1>0, <1>4, InstallNewer
  <2>3. Underway /\ Placed
    BY <1>0, <2>1
  <2>4. Placed'
    BY <2>1, <2>3 DEF Placed
  <2>5. \/ told <= local'.age \/ \E i \in 1..Len(messages) : messages[i] = told
    <3>1. /\ told \in Nat /\ local.age \in Nat /\ listener.copy.age \in Nat
          /\ local'.age \in Nat
      BY Numbers, NumbersNext
    <3> QED BY <2>1, <2>2, <2>3, <3>1 DEF Underway
  <2> QED BY <2>1, <2>4, <2>5 DEF Underway
<1>5. ASSUME NEW h \in Handler, PublishAge(h) PROVE Placed' /\ Underway'
  <2>1. listener.subscribed /\ listener' = listener
    BY <1>5 DEF PublishAge
  <2> QED BY <1>0, <1>5, <2>1, PublishStep DEF Placed
<1>6. CASE NoMessage \/ TooEarly \/ Recheck
  <2>1. listener.subscribed /\ UNCHANGED <<local, told, messages>> /\ Placed'
        /\ listener.pc \in {"loop", "check"}
    BY <1>6 DEF NoMessage, TooEarly, Recheck, Placed, history
  <2> QED BY <1>0, <2>1 DEF Underway
<1>7. CASE BeginRun
  <2>1. listener.subscribed /\ listener.pc = "start"
    BY <1>7 DEF BeginRun
  <2> QED BY <1>0, <2>1 DEF Placed
<1>8. CASE LeaveLoop \/ SeeBreak \/ ListenerFault
  BY <1>8 DEF LeaveLoop, SeeBreak, GiveUp, ListenerFault, ConnectionFails, SubscriptionBreaks,
     ListenerDies, At
<1>9. CASE CheckListener
  BY <1>0, <1>9 DEF CheckListener, Placed, Underway, NewListener, history
<1>10. CASE MarkAborted \/ CrawlEnds
  BY <1>0, <1>10 DEF MarkAborted, CrawlEnds, Placed, Underway, history
<1>11. CASE UNCHANGED <<local, listener, messages, told>>
  BY <1>0, <1>11 DEF Placed, Underway
<1>12. \/ ListenerStep \/ ListenerFault \/ CheckListener \/ MarkAborted \/ CrawlEnds
       \/ \E h \in Handler : PublishAge(h)
       \/ UNCHANGED <<local, listener, messages, told>>
  BY DEF Next, vars, history, HandlerStep, GiveCommand, WriteMore, RaiseAge, HandlerFails,
     PluginStep, TakeResult, ApplyConcurrency, ReadAbort, ReturnStop, Exit, MarkAbortFails
<1> QED
  BY <1>1, <1>2, <1>3, <1>4, <1>5, <1>6, <1>7, <1>8, <1>9, <1>10, <1>11, <1>12 DEF ListenerStep

\* What the listener reads lies between the copy and the record, and an age it
\* was told stays on its way to the copy: the invariant of get_settings,
\* process_messages and update_settings together.
THEOREM FeedInvariant == Spec => []FeedInv
<1>1. Init => FeedInv
  <2> SUFFICES ASSUME Init PROVE FeedInv
    OBVIOUS
  <2>1. /\ server.age = 0 /\ local.age = 0 /\ plugin.lastAge = 0 /\ told = 0
        /\ Len(covered) = 0 /\ plugin.pc = "idle" /\ ~plugin.stop /\ ~aborted
        /\ listener.pc = "start" /\ ~listener.subscribed
        /\ \A k \in Setting : server.version[k] = 0 /\ local.version[k] = 0
        /\ \A h \in Handler : handler[h].age = 0
    BY DEF Init, NoCopy, IdleHandler, NewListener
  <2>2. AgeInv /\ CopyInv /\ TellInv
    BY <2>1 DEF AgeInv, CopyInv, TellInv
  <2>3. StopInv
    BY <2>1 DEF StopInv, StopsOnRequest
  <2>4. AgeCoversChanges /\ ConcurrencyCoversAge
    BY <2>1 DEF AgeCoversChanges, Covers, ConcurrencyCoversAge
  <2> QED BY <2>2, <2>3, <2>4 DEF FeedInv
<1>2. TypeOK /\ TypeOK' /\ FeedInv /\ [Next]_vars => FeedInv'
  <2> SUFFICES ASSUME TypeOK, TypeOK', FeedInv, [Next]_vars PROVE FeedInv'
    OBVIOUS
  <2>1. TellInv'
    BY AgesGivenOut, UnderwayStep DEF TellInv, Placed, Underway
  <2> QED BY <2>1, AgeStep, CopyStep, ConcurrencyStep, StopStep DEF FeedInv
<1> QED BY <1>1, <1>2, FeedTypes, PTL DEF Spec

\* The Settings object has every change made before its age was given out,
\* although get_settings reads the record in two commands.
THEOREM AgeCovers == Spec => []AgeCoversChanges
<1>1. FeedInv => AgeCoversChanges
  BY DEF FeedInv
<1> QED BY <1>1, FeedInvariant, PTL

\* The concurrency that handle_result applied is that of the age it remembers,
\* or newer.
THEOREM ConcurrencyCovers == Spec => []ConcurrencyCoversAge
<1>1. FeedInv => ConcurrencyCoversAge
  BY DEF FeedInv
<1> QED BY <1>1, FeedInvariant, PTL

\* process_messages loses no announcement, in whatever order they come.
THEOREM LoopCurrent == Spec => []LoopIsCurrent
<1>1. TypeOK /\ FeedInv => LoopIsCurrent
  <2> SUFFICES ASSUME TypeOK, FeedInv, listener.subscribed, messages = <<>>,
                      listener.pc \in {"loop", "check"}
               PROVE  local.age >= told
    BY DEF LoopIsCurrent
  <2>1. told <= local.age \/ \E i \in 1..Len(messages) : messages[i] = told
    BY DEF FeedInv, TellInv
  <2>2. Len(messages) = 0
    OBVIOUS
  <2> QED BY <2>1, <2>2, Numbers
<1> QED BY <1>1, FeedTypes, FeedInvariant, PTL

\* handle_result stops wpull only for a request, and once it is marked.
THEOREM StopsRight == Spec => []StopsOnRequest
<1>1. FeedInv => StopsOnRequest
  BY DEF FeedInv, StopInv
<1> QED BY <1>1, FeedInvariant, PTL

\* update_settings never goes back to older settings, whichever run of the
\* listener read them.
THEOREM CopyNeverGoesBack == Spec => NeverGoesBack
<1>1. TypeOK /\ FeedInv /\ [Next]_vars
        => [local'.age >= local.age
            /\ \A k \in Setting : local'.version[k] >= local.version[k]]_vars
  BY CopyForward DEF FeedInv
<1> QED BY <1>1, FeedTypes, FeedInvariant, PTL DEF Spec, NeverGoesBack

=============================================================================
