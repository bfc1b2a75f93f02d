---------------------------- MODULE PartsProofs ----------------------------
(* Theorems about the five parts of Parts, for all values of their constants. *)
EXTENDS Parts, FiniteSetTheorems, TLAPS

-----------------------------------------------------------------------------
(* CrawlRules *)

(***************************************************************************)
(* VerdictIsCurrent needs to know which list of patterns _compiled is of:   *)
(* the installed one whenever _primary is set (Kept), one that was in force *)
(* during the call while it is searched (Searched), and a beginning of it   *)
(* under the lock (Compiling).  An entry of an invalid pattern has the      *)
(* expression of a valid one before it, so it never is the first to match.  *)
(***************************************************************************)
Entry(c, list, k, n) ==
  /\ c[n].pattern = list[n] /\ c[n].primary = k
  /\ list[n] \in Valid => c[n].regex = list[n]
  /\ \E m \in 1..n : list[m] \in Valid /\ c[n].regex = list[m]

Begins(c, list, k) == Len(c) <= Len(list) /\ \A n \in 1..Len(c) : Entry(c, list, k, n)

Compiles(c, list, k) == Begins(c, list, k) /\ Len(c) = Len(list)

Sound(list) == list # <<>> => list[1] \in Valid

Locks ==
  /\ settingsLock = "listener" <=> listener.pc # "wait"
  /\ ignoreLock = "listener" <=> listener.pc = "primary"
  /\ ignoreLock = "main" <=> main.pc = "compile"

Whole ==
  /\ listener.pc = "max" => settings.min = listener.updates
  /\ listener.pc # "max" => settings.min = settings.max
  /\ DelayIsWhole

InForce ==
  /\ patterns = IF listener.pc = "primary" THEN listener.got ELSE installed
  /\ main.pc # "idle" => installed \in during

Kept ==
  primary # None =>
    IF main.pc = "compile" THEN Sound(installed) ELSE Compiles(compiled, installed, primary)

HalfCompiled ==
  main.pc = "compile" =>
    /\ Begins(compiled, patterns, Key)
    /\ Len(main.rest) = Len(patterns) - Len(compiled)
    /\ \A n \in 1..Len(main.rest) : main.rest[n] = patterns[Len(compiled) + n]
    /\ IF main.regex = None THEN compiled = <<>>
       ELSE compiled # <<>> /\ main.regex = compiled[Len(compiled)].regex

Searched == main.pc = "search" => \E list \in during : Compiles(compiled, list, Key)

RulesInv ==
  TypeOK /\ Locks /\ Whole /\ InForce /\ Kept /\ HalfCompiled /\ Searched /\ VerdictIsCurrent

-----------------------------------------------------------------------------
LEMMA RulesTypes == TypeOK /\ [Next]_vars => TypeOK'
<1> SUFFICES ASSUME TypeOK, [Next]_vars PROVE TypeOK'
  OBVIOUS
<1> USE RulesAssumption DEF TypeOK
<1>1. CASE ListenerStep
  <2>1. CASE EnterUpdate
    BY <2>1 DEF EnterUpdate, listenerOnly, history, ListenerState, Thread
  <2>2. CASE UpdateMin \/ UpdateMax
    <3>1. settings' \in Pair
      BY <2>2 DEF UpdateMin, UpdateMax, Pair, ListenerState
    <3>2. listener' \in ListenerState
      BY <2>2 DEF UpdateMin, UpdateMax, ListenerState
    <3> QED BY <2>2, <3>1, <3>2 DEF UpdateMin, UpdateMax, listenerOnly, history
  <2>3. CASE SetPatterns \/ ClearPrimary
    <3>1. listener' \in ListenerState
      BY <2>3 DEF SetPatterns, ClearPrimary, ListenerState
    <3>2. listener.got \in Seq(Pattern)
      <4>1. listener.got \in Lists \/ listener.got = <<>>
        BY DEF ListenerState
      <4>2. <<>> \in Seq(Pattern)
        OBVIOUS
      <4> QED BY <4>1, <4>2
    <3> QED BY <2>3, <3>1, <3>2 DEF SetPatterns, ClearPrimary, listenerOnly, history, Thread
  <2> QED BY <1>1, <2>1, <2>2, <2>3 DEF ListenerStep
<1>2. ASSUME NEW u \in Url, AcceptUrl(u) \/ HandleResult(u) PROVE TypeOK'
  <2>1. main' \in MainState
    BY <1>2 DEF AcceptUrl, HandleResult, Asks, MainState
  <2> QED BY <1>2, <2>1 DEF AcceptUrl, HandleResult, Asks, mainOnly
<1>3. CASE CheckPrimary
  BY <1>3 DEF CheckPrimary, MainState, mainOnly
<1>7. CASE BeginCompiling
  <2>1. main' \in MainState
    BY <1>7 DEF BeginCompiling, MainState
  <2>2. <<>> \in Seq(Compiled)
    OBVIOUS
  <2> QED BY <1>7, <2>1, <2>2 DEF BeginCompiling, mainOnly, Thread
<1>8. CASE EndCompiling
  <2>1. main' \in MainState
    BY <1>8 DEF EndCompiling, MainState
  <2>2. Key \in Primary
    BY DEF Key, Primary, MainState
  <2> QED BY <1>8, <2>1, <2>2 DEF EndCompiling, mainOnly
<1>9. CASE CompileRaises
  <2>1. main' \in MainState
    <3>1. main' = [main EXCEPT !.pc = "return", !.rest = <<>>, !.verdict = "raised"]
      BY <1>9 DEF CompileRaises
    <3>2. \A q \in Seq(Pattern) :
            [main EXCEPT !.pc = "return", !.rest = q, !.verdict = "raised"] \in MainState
      BY DEF MainState
    <3>3. <<>> \in Seq(Pattern)
      OBVIOUS
    <3> QED BY <3>1, <3>2, <3>3
  <2> QED BY <1>9, <2>1 DEF CompileRaises, mainOnly
<1>10. CASE Search
  BY <1>10 DEF Search, MainState, mainOnly
<1>4. CASE CompileValid \/ CompileInvalid
  <2>1. PICK p, r : Compiling /\ Add(p, r) /\ p = Head(main.rest) /\ r \in Pattern
    BY <1>4 DEF CompileValid, CompileInvalid, MainState
  <2>2. p \in Pattern /\ Tail(main.rest) \in Seq(Pattern) /\ main.url \in Url
    BY <2>1 DEF Compiling, MainState
  <2>3. main' \in MainState
    BY <2>1, <2>2 DEF Add, MainState
  <2>4. [pattern |-> p, regex |-> r, primary |-> Key] \in Compiled
    BY <2>1, <2>2 DEF Compiled, Key, Primary
  <2> QED BY <2>1, <2>3, <2>4 DEF Add, mainOnly
<1>5. CASE Return \/ WaitTime
  <2>1. main' \in MainState
    BY <1>5 DEF Return, WaitTime, MainState
  <2>2. main.url \in Url
    BY DEF MainState
  <2> QED BY <1>5, <2>1, <2>2 DEF Return, WaitTime, mainOnly
<1>6. CASE UNCHANGED vars
  BY <1>6 DEF vars, ignoracle, history
<1> QED 
  BY <1>1, <1>2, <1>3, <1>4, <1>5, <1>6, <1>7, <1>8, <1>9, <1>10 DEF Next, Ignores

-----------------------------------------------------------------------------
\* Who has the lock keeps the other one out.
LEMMA LocksStep == TypeOK /\ Locks /\ [Next]_vars => Locks'
<1> SUFFICES ASSUME TypeOK, Locks, [Next]_vars PROVE Locks'
  OBVIOUS
<1> USE RulesAssumption DEF TypeOK, Locks
<1>1. CASE ListenerStep
  BY <1>1 DEF ListenerStep, EnterUpdate, UpdateMin, UpdateMax, SetPatterns, ClearPrimary,
              ListenerState, listenerOnly, history
<1>2. ASSUME NEW u \in Url, AcceptUrl(u) \/ HandleResult(u) PROVE Locks'
  <2>1. main.pc = "idle" /\ main'.pc = "check"
    BY <1>2 DEF AcceptUrl, HandleResult, Asks, MainState
  <2> QED BY <1>2, <2>1 DEF AcceptUrl, HandleResult, Asks, mainOnly
<1>3. CASE CheckPrimary \/ BeginCompiling \/ EndCompiling \/ CompileRaises \/ Search
  BY <1>3 DEF CheckPrimary, BeginCompiling, EndCompiling, CompileRaises, Compiling, Search,
              MainState, mainOnly
<1>4. CASE CompileValid \/ CompileInvalid \/ Return \/ WaitTime
  BY <1>4 DEF CompileValid, CompileInvalid, Compiling, Add, Return, WaitTime, MainState,
     mainOnly
<1>5. CASE UNCHANGED vars
  BY <1>5 DEF vars, ignoracle, history
<1> QED BY <1>1, <1>2, <1>3, <1>4, <1>5 DEF Next, Ignores

LEMMA WholeStep == TypeOK /\ Locks /\ Whole /\ [Next]_vars => Whole'
<1> SUFFICES ASSUME TypeOK, Locks, Whole, [Next]_vars PROVE Whole'
  OBVIOUS
<1> USE RulesAssumption DEF TypeOK, Locks, Whole, DelayIsWhole
<1>1. CASE ListenerStep
  BY <1>1 DEF ListenerStep, EnterUpdate, UpdateMin, UpdateMax, SetPatterns, ClearPrimary,
              ListenerState, Pair, listenerOnly, history
<1>2. ASSUME NEW u \in Url, AcceptUrl(u) \/ HandleResult(u) PROVE Whole'
  <2>1. main'.delay = main.delay
    BY <1>2 DEF AcceptUrl, HandleResult, Asks, MainState
  <2> QED BY <1>2, <2>1 DEF AcceptUrl, HandleResult, Asks, mainOnly
<1>3. CASE Ignores
  BY <1>3 DEF Ignores, CheckPrimary, BeginCompiling, EndCompiling, CompileRaises,
     CompileValid,
              CompileInvalid, Add, Search, Return, MainState, mainOnly
<1>4. CASE WaitTime
  BY <1>4 DEF WaitTime, MainState, ListenerState, mainOnly
<1>5. CASE UNCHANGED vars
  BY <1>5 DEF vars, ignoracle, history
<1> QED BY <1>1, <1>2, <1>3, <1>4, <1>5 DEF Next

-----------------------------------------------------------------------------
\* An entry is added to what was compiled: it keeps the entries it had.
LEMMA EntryAdded ==
  ASSUME NEW c \in Seq(Compiled), NEW list \in Seq(Pattern), NEW k, NEW e \in Compiled,
         Begins(c, list, k), Len(c) < Len(list),
         e.pattern = list[Len(c) + 1], e.primary = k,
         list[Len(c) + 1] \in Valid => e.regex = list[Len(c) + 1],
         list[Len(c) + 1] \notin Valid => c # <<>> /\ e.regex = c[Len(c)].regex
  PROVE  Begins(Append(c, e), list, k)
<1> DEFINE d == Append(c, e)
<1>1. /\ Len(d) = Len(c) + 1 /\ d[Len(c) + 1] = e
      /\ \A n \in 1..Len(c) : d[n] = c[n]
  OBVIOUS
<1> HIDE DEF d
<1>2. \A n \in 1..Len(c) : Entry(d, list, k, n)
  BY <1>1 DEF Begins, Entry
<1>3. \E m \in 1..(Len(c) + 1) : list[m] \in Valid /\ e.regex = list[m]
  <2>1. CASE list[Len(c) + 1] \in Valid
    BY <2>1
  <2>2. CASE list[Len(c) + 1] \notin Valid
    <3>1. Len(c) \in 1..Len(c)
      BY <2>2
    <3>2. PICK m \in 1..Len(c) : list[m] \in Valid /\ c[Len(c)].regex = list[m]
      BY <3>1 DEF Begins, Entry
    <3> QED BY <2>2, <3>1, <3>2
  <2> QED BY <2>1, <2>2
<1>4. Entry(d, list, k, Len(c) + 1)
  BY <1>1, <1>3 DEF Entry
<1>5. Begins(d, list, k)
  BY <1>1, <1>2, <1>4 DEF Begins
<1> QED BY <1>5 DEF d

\* What was compiled of a list gives the list's verdict.
LEMMA CompiledAnswers ==
  ASSUME NEW list \in Seq(Pattern), compiled \in Seq(Compiled), NEW p,
         Compiles(compiled, list, Key), FirstMatch(p)
  PROVE  First(p, list, {n \in DOMAIN list : list[n] \in Valid /\ <<list[n], Key, main.url>> \in Matching})
<1> DEFINE hits == {n \in DOMAIN compiled : Matches(compiled[n])}
           found == {n \in DOMAIN list : list[n] \in Valid /\ <<list[n], Key, main.url>> \in Matching}
           names == [n \in DOMAIN compiled |-> compiled[n].pattern]
<1>1. DOMAIN compiled = 1..Len(compiled) /\ DOMAIN list = 1..Len(compiled)
  BY DEF Compiles
<1>2. \A n \in 1..Len(compiled) : Entry(compiled, list, Key, n)
  BY DEF Compiles, Begins
<1>3. found \subseteq hits
  BY <1>1, <1>2 DEF Entry, Matches
<1>4. ASSUME NEW n \in hits PROVE \E m \in found : m <= n
  <2>1. n \in 1..Len(compiled) /\ Matches(compiled[n]) /\ Entry(compiled, list, Key, n)
    BY <1>1, <1>2
  <2>2. PICK m \in 1..n : list[m] \in Valid /\ compiled[n].regex = list[m]
    BY <2>1 DEF Entry
  <2>3. m \in found
    BY <1>1, <2>1, <2>2 DEF Entry, Matches
  <2>4. m <= n
    BY <2>1, <2>2
  <2> HIDE DEF found
  <2> QED BY <2>3, <2>4
<1>5. \A n \in hits : names[n] = list[n]
  BY <1>1, <1>2 DEF Entry
<1>6. First(p, names, hits)
  BY DEF FirstMatch
<1>7. hits \subseteq Nat
  BY <1>1
<1> HIDE DEF hits, found, names
<1>8. First(p, list, found)
  <2>1. CASE hits = {} /\ p = "none"
    BY <1>3, <2>1 DEF First
  <2>2. ASSUME NEW n \in hits, p = names[n], \A k \in hits : n <= k PROVE First(p, list, found)
    <3>1. PICK m \in found : m <= n
      BY <1>4
    <3>2. m = n
      BY <1>3, <1>7, <2>2, <3>1
    <3> QED BY <1>3, <1>5, <2>2, <3>2 DEF First
  <2> QED BY <1>6, <2>1, <2>2 DEF First
<1> QED BY <1>8 DEF found

-----------------------------------------------------------------------------
\* The listener changes no list that is in use, and forgets none.
LEMMA ListenerKeeps ==
  ASSUME RulesInv, TypeOK', ListenerStep
  PROVE  InForce' /\ Kept' /\ HalfCompiled' /\ Searched' /\ VerdictIsCurrent'
<1> USE RulesAssumption DEF RulesInv
<1>1. /\ UNCHANGED <<compiled, main>> /\ during \subseteq during'
      /\ (Key = Key)' /\ \A list : Answers(list) => Answers(list)'
  BY DEF ListenerStep, EnterUpdate, UpdateMin, UpdateMax, SetPatterns, ClearPrimary,
     listenerOnly,
         history, Answers, Key
<1>2. Key' = Key
  BY <1>1 DEF Key
<1>3. Searched' /\ VerdictIsCurrent'
  BY <1>1, <1>2 DEF Searched, VerdictIsCurrent
<1>4. CASE EnterUpdate \/ UpdateMin \/ UpdateMax
  <2>1. /\ UNCHANGED <<patterns, primary, installed, during>>
        /\ listener.pc # "primary" /\ listener'.pc # "primary"
    BY <1>4 DEF EnterUpdate, UpdateMin, UpdateMax, TypeOK, ListenerState, history
  <2> QED BY <1>1, <1>2, <1>3, <2>1 DEF InForce, Kept, HalfCompiled
<1>5. CASE SetPatterns
  <2>1. /\ UNCHANGED <<primary, installed, during>> /\ main.pc # "compile"
        /\ patterns' = listener'.got /\ listener'.pc = "primary"
    BY <1>5 DEF SetPatterns, TypeOK, ListenerState, history, Locks
  <2> QED BY <1>1, <1>2, <1>3, <2>1 DEF InForce, Kept, HalfCompiled
<1>6. CASE ClearPrimary
  <2>1. /\ UNCHANGED patterns /\ primary' = None /\ installed' = patterns
        /\ main.pc # "compile" /\ listener'.pc = "wait"
        /\ main.pc # "idle" => installed' \in during'
    BY <1>6 DEF ClearPrimary, TypeOK, ListenerState, Locks, InForce
  <2> QED BY <1>1, <1>3, <2>1 DEF InForce, Kept, HalfCompiled
<1> QED BY <1>3, <1>4, <1>5, <1>6 DEF ListenerStep

\* Before the lock is taken, and after the call.
LEMMA CallKeeps ==
  ASSUME RulesInv, TypeOK',
         \/ \E u \in Url : AcceptUrl(u) \/ HandleResult(u)
         \/ CheckPrimary \/ Return \/ WaitTime
  PROVE  InForce' /\ Kept' /\ HalfCompiled' /\ Searched' /\ VerdictIsCurrent'
<1> USE RulesAssumption DEF RulesInv
<1>1. UNCHANGED <<primary, compiled, patterns, listener, installed>>
  BY DEF AcceptUrl, HandleResult, Asks, CheckPrimary, Return, WaitTime, mainOnly
<1>2. main.pc # "compile" /\ main'.pc \notin {"compile", "return"}
  BY DEF AcceptUrl, HandleResult, Asks, CheckPrimary, Return, WaitTime, TypeOK, MainState
<1>3. main'.pc # "idle" => installed \in during'
  BY DEF AcceptUrl, HandleResult, Asks, CheckPrimary, Return, WaitTime, TypeOK, MainState,
     InForce
<1>4. InForce' /\ Kept' /\ HalfCompiled' /\ VerdictIsCurrent'
  BY <1>1, <1>2, <1>3 DEF InForce, Kept, HalfCompiled, VerdictIsCurrent
<1>5. Searched'
  <2> SUFFICES ASSUME main'.pc = "search" PROVE Searched'
    BY DEF Searched
  <2>1. CheckPrimary /\ primary = Key /\ main'.url = main.url
    BY DEF AcceptUrl, HandleResult, Asks, CheckPrimary, Return, WaitTime, TypeOK, MainState
  <2>2. Key # None
    BY DEF TypeOK, MainState, Key
  <2>3. Compiles(compiled, installed, Key)
    BY <1>2, <2>1, <2>2 DEF Kept
  <2>4. Key' = Key
    BY <2>1 DEF Key
  <2>5. installed \in during'
    BY <1>3
  <2> QED BY <1>1, <2>3, <2>4, <2>5 DEF Searched
<1> QED BY <1>4, <1>5

\* Under the lock, and with what was compiled there.
LEMMA CompilingKeeps ==
  ASSUME RulesInv, TypeOK', BeginCompiling \/ CompileValid \/ CompileInvalid
  PROVE  InForce' /\ Kept' /\ HalfCompiled' /\ Searched' /\ VerdictIsCurrent'
<1> USE RulesAssumption DEF RulesInv
<1>1. /\ UNCHANGED <<primary, patterns, listener, installed, during>> /\ main'.url = main.url
      /\ main.pc # "idle" /\ main'.pc = "compile"
  BY DEF BeginCompiling, CompileValid, CompileInvalid, Compiling, Add, mainOnly, TypeOK,
     MainState
<1>2. InForce' /\ Searched' /\ VerdictIsCurrent'
  BY <1>1 DEF InForce, Searched, VerdictIsCurrent
<1>3. Key' = Key
  BY <1>1 DEF Key
<1>4. CASE BeginCompiling
  <2>1. main.pc = "lock" /\ compiled' = <<>> /\ main'.rest = patterns /\ main'.regex = None
    BY <1>4 DEF BeginCompiling, TypeOK, MainState
  <2>2. ASSUME primary # None PROVE Sound(installed)
    <3>1. Compiles(compiled, installed, primary)
      BY <2>1, <2>2 DEF Kept
    <3>2. ASSUME installed # <<>> PROVE installed[1] \in Valid
      <4>1. 1 \in 1..Len(compiled)
        BY <3>1, <3>2 DEF Compiles, TypeOK
      <4>2. PICK m \in 1..1 : installed[m] \in Valid
        BY <3>1, <4>1 DEF Compiles, Begins, Entry
      <4> QED BY <4>2
    <3> QED BY <3>2 DEF Sound
  <2>3. Kept'
    BY <1>1, <2>2 DEF Kept
  <2>4. HalfCompiled'
    BY <1>1, <2>1 DEF HalfCompiled, Begins, TypeOK
  <2> QED BY <1>2, <2>3, <2>4
<1>5. CASE CompileValid \/ CompileInvalid
  <2>1. PICK p, r : /\ Compiling /\ Add(p, r) /\ p = Head(main.rest) /\ r \in Pattern
                    /\ p \in Valid => r = p
                    /\ p \notin Valid => main.regex # None /\ r = main.regex
    BY <1>5 DEF CompileValid, CompileInvalid, TypeOK, MainState
  <2> DEFINE e == [pattern |-> p, regex |-> r, primary |-> Key]
             n == Len(compiled) + 1
  <2>2. /\ compiled' = Append(compiled, e) /\ main'.rest = Tail(main.rest) /\ main'.regex = r
        /\ main.pc = "compile" /\ main.rest # <<>>
    BY <2>1 DEF Add, Compiling, TypeOK, MainState
  <2>3. p \in Pattern /\ main.rest \in Seq(Pattern) /\ main.url \in Url
    BY <2>1, <2>2 DEF TypeOK, MainState
  <2>4. e \in Compiled
    BY <2>1, <2>3 DEF Compiled, Key, Primary
  <2>5. p = patterns[n] /\ Len(compiled) < Len(patterns)
    BY <2>1, <2>2, <2>3 DEF HalfCompiled, TypeOK
  <2>6. p \notin Valid => compiled # <<>> /\ r = compiled[Len(compiled)].regex
    BY <2>1, <2>2 DEF HalfCompiled
  <2>7. Begins(compiled', patterns, Key)
    BY <2>1, <2>2, <2>4, <2>5, <2>6, EntryAdded DEF HalfCompiled, TypeOK
  <2>8. e.regex = r
    OBVIOUS
  <2> HIDE DEF e
  <2>9. /\ Len(main'.rest) = Len(main.rest) - 1
        /\ \A k \in 1..Len(main'.rest) : main'.rest[k] = main.rest[k + 1]
    BY <2>2, <2>3
  <2>10. compiled \in Seq(Compiled)
    BY DEF TypeOK
  <2>11. /\ Len(compiled') = Len(compiled) + 1
         /\ compiled' # <<>> /\ compiled'[Len(compiled')] = e
    BY <2>2, <2>4, <2>10
  <2>12. /\ Len(main.rest) = Len(patterns) - Len(compiled)
         /\ \A k \in 1..Len(main.rest) : main.rest[k] = patterns[Len(compiled) + k]
    BY <2>2 DEF HalfCompiled
  <2>13. Len(main'.rest) = Len(patterns) - Len(compiled')
    BY <2>3, <2>9, <2>10, <2>11, <2>12 DEF TypeOK
  <2>14. ASSUME NEW k \in 1..Len(main'.rest) PROVE main'.rest[k] = patterns[Len(compiled') + k]
    <3>1. k + 1 \in 1..Len(main.rest)
      BY <2>3, <2>9
    <3>2. Len(compiled) + (k + 1) = Len(compiled') + k
      BY <2>10, <2>11
    <3> QED BY <2>9, <2>12, <3>1, <3>2
  <2>15. r # None
    BY <2>1
  <2>16. HalfCompiled'
    BY <1>1, <1>3, <2>2, <2>7, <2>8, <2>11, <2>13, <2>14, <2>15 DEF HalfCompiled
  <2>17. Kept'
    BY <1>1, <2>2 DEF Kept
  <2> QED BY <1>2, <2>16, <2>17
<1> QED BY <1>4, <1>5

LEMMA AnswerKeeps ==
  ASSUME RulesInv, TypeOK', EndCompiling \/ CompileRaises \/ Search
  PROVE  InForce' /\ Kept' /\ HalfCompiled' /\ Searched' /\ VerdictIsCurrent'
<1> USE RulesAssumption DEF RulesInv
<1>1. /\ UNCHANGED <<compiled, patterns, listener, installed, during>> /\ main'.url = main.url
      /\ main.pc # "idle" /\ main'.pc # "compile"
  BY DEF EndCompiling, CompileRaises, Compiling, Search, mainOnly, TypeOK, MainState
<1>2. InForce' /\ HalfCompiled'
  BY <1>1 DEF InForce, HalfCompiled
<1>3. Key' = Key
  BY <1>1 DEF Key
<1>4. CASE EndCompiling
  <2>1. /\ main.pc = "compile" /\ main.rest = <<>> /\ primary' = Key /\ main'.pc = "search"
        /\ patterns = installed
    BY <1>4 DEF EndCompiling, TypeOK, MainState, Locks, InForce
  <2>2. Compiles(compiled, installed, Key)
    BY <2>1 DEF HalfCompiled, Compiles, TypeOK
  <2> QED BY <1>1, <1>2, <1>3, <2>1, <2>2 DEF Kept, Searched, VerdictIsCurrent, InForce
<1>5. CASE CompileRaises
  <2>1. /\ main.pc = "compile" /\ main.rest # <<>> /\ main.regex = None
        /\ Head(main.rest) \notin Valid /\ patterns = installed
        /\ primary' = primary /\ main'.pc = "return" /\ main'.verdict = "raised"
    BY <1>5 DEF CompileRaises, Compiling, TypeOK, MainState, Locks, InForce
  <2>2. installed # <<>> /\ installed[1] \notin Valid
    BY <2>1 DEF HalfCompiled, TypeOK, MainState
  <2>3. primary = None
    BY <2>1, <2>2 DEF Kept, Sound
  <2> QED BY <1>2, <2>1, <2>3 DEF Kept, Searched, VerdictIsCurrent
<1>6. CASE Search
  <2>1. PICK p : /\ FirstMatch(p) /\ main'.verdict = p
                 /\ main.pc = "search" /\ main'.pc = "return" /\ primary' = primary
    BY <1>6 DEF Search, TypeOK, MainState
  <2>2. PICK list \in during : Compiles(compiled, list, Key)
    BY <2>1 DEF Searched
  <2>3. Answers(list)'
    BY <1>1, <1>3, <2>1, <2>2, CompiledAnswers DEF Answers, TypeOK
  <2> QED BY <1>1, <1>2, <2>1, <2>2, <2>3 DEF Kept, Searched, VerdictIsCurrent
<1> QED BY <1>4, <1>5, <1>6

LEMMA RulesStep == RulesInv /\ [Next]_vars => RulesInv'
<1> SUFFICES ASSUME RulesInv, [Next]_vars PROVE RulesInv'
  OBVIOUS
<1>1. TypeOK' /\ Locks' /\ Whole'
  BY RulesTypes, LocksStep, WholeStep DEF RulesInv
<1>2. CASE UNCHANGED vars
  BY <1>2 DEF vars, ignoracle, history, RulesInv, TypeOK, Locks, Whole, DelayIsWhole, InForce,
     Kept,
              HalfCompiled, Searched, VerdictIsCurrent, Answers, Key
<1> QED
  BY <1>1, <1>2, ListenerKeeps, CallKeeps, CompilingKeeps, AnswerKeeps
  DEF RulesInv, Next, Ignores

LEMMA RulesInitially == Init => RulesInv
<1> SUFFICES ASSUME Init PROVE RulesInv
  OBVIOUS
<1> USE RulesAssumption DEF Init
<1>1. <<>> \in Seq(Pattern) /\ <<>> \in Seq(Compiled)
  OBVIOUS
<1>2. TypeOK
  <2>1. main \in MainState
    BY <1>1 DEF MainState, Pair
  <2> QED BY <1>1, <2>1 DEF TypeOK, Pair, ListenerState
<1> QED
  BY <1>2 DEF RulesInv, Locks, Whole, DelayIsWhole, InForce, Kept, HalfCompiled, Searched,
              VerdictIsCurrent

LEMMA RulesCorrect == Spec => []RulesInv
  BY RulesInitially, RulesStep, PTL DEF Spec

\* A verdict is that of patterns in force during the call, for the URL's own
\* primary URL: for any URLs, patterns and lists, and any number of updates.
THEOREM VerdictsAreCurrent == Spec => []VerdictIsCurrent
<1>1. RulesInv => VerdictIsCurrent
  BY DEF RulesInv
<1> QED BY <1>1, RulesCorrect, PTL

\* The two ends of a delay are of one update, for any number of updates.
THEOREM DelaysAreWhole == Spec => []DelayIsWhole
<1>1. RulesInv => DelayIsWhole
  BY DEF RulesInv, Whole
<1> QED BY <1>1, RulesCorrect, PTL

-----------------------------------------------------------------------------
(* DashboardFeed *)

(***************************************************************************)
(* A stream ends in the newest line because lines are put in the order they *)
(* are read, and blanks only after the last of them (InOrder).  That nothing *)
(* is missing needs the loop: the reader waits only when no client is left   *)
(* that has lines to write (Served), so the queue of a client whose          *)
(* transport takes everything is no longer than the burst, and never full.   *)
(***************************************************************************)
FeedTypes ==
  /\ came \in Nat /\ read \in Nat /\ read <= came /\ burst \in Nat /\ eof \in BOOLEAN
  /\ woken \subseteq registered /\ registered \subseteq Client /\ behind \subseteq Client
  /\ running \in Client \cup {Reader, Nobody}
  /\ queue \in [Client -> Seq(Nat)] /\ written \in [Client -> Seq(Nat)]
  /\ first \in [Client -> Nat]
  /\ at \in [Client -> {"away", "get", "drain", "closing"}]
  /\ net \in [Client -> {"open", "full", "closed"}]

\* Where a client's task is, and the connection it is for.
Connected(c) ==
  /\ c \in registered <=> at[c] # "away"
  /\ at[c] = "closing" => net[c] = "closed"
  /\ at[c] = "drain" \/ net[c] = "full" => c \in behind

Upto(s, n) == \A m \in 1..Len(s) : s[m] <= n
NoBlank(s) == \A m \in 1..Len(s) : s[m] # Feed!Blank

\* Lines are in order and none is from the future; blanks come after the last.
InOrder(s) == Feed!Rising(s) /\ Upto(s, read) /\ (~NoBlank(s) => eof /\ read = came)

Newest(c, s) == ~eof /\ first[c] <= read => s # <<>> /\ s[Len(s)] = read

\* Every line since the first, and who has some to write will run.
Each(c, s) ==
  /\ first[c] <= read + 1 /\ Len(s) = read + 1 - first[c]
  /\ \A j \in 1..Len(s) : s[j] = first[c] + j - 1

Served(c) ==
  /\ queue[c] # <<>> => c \in woken \/ running = c
  /\ running = Reader => Len(queue[c]) <= burst

ClientInv(c) ==
  /\ Connected(c)
  /\ at[c] \in {"get", "drain"} => InOrder(Feed!Stream(c)) /\ Newest(c, Feed!Stream(c))
  /\ c \in registered \ behind /\ net[c] = "open" => Each(c, Feed!Stream(c)) /\ Served(c)

FeedInv == FeedTypes /\ \A c \in Client : ClientInv(c)

-----------------------------------------------------------------------------
LEMMA Joined ==
  ASSUME NEW w \in Seq(Nat), NEW q \in Seq(Nat)
  PROVE  /\ w \o q \in Seq(Nat) /\ Len(w \o q) = Len(w) + Len(q)
         /\ \A m \in 1..(Len(w) + Len(q)) : (w \o q)[m] = IF m <= Len(w) THEN w[m] ELSE q[m - Len(w)]
  OBVIOUS

\* The queue after put_nowait: all but at most the oldest message, and the new one.
LEMMA PutOnQueue ==
  ASSUME NEW q \in Seq(Nat), NEW line \in Nat, NEW d \in {0, 1}, Len(q) < MaxQueue <=> d = 0
  PROVE  /\ Feed!Put(q, line) \in Seq(Nat) /\ Len(Feed!Put(q, line)) = Len(q) + 1 - d /\ d <= Len(q)
         /\ Feed!Put(q, line)[Len(q) + 1 - d] = line
         /\ \A m \in 1..(Len(q) - d) : Feed!Put(q, line)[m] = q[m + d]
<1> USE FeedAssumption
<1>1. CASE Len(q) < MaxQueue
  <2>1. Feed!Put(q, line) = Append(q, line)
    BY <1>1 DEF Feed!Put
  <2> QED BY <1>1, <2>1
<1>2. CASE ~(Len(q) < MaxQueue)
  <2>1. PICK r : r = Tail(q)
    OBVIOUS
  <2>2. /\ r \in Seq(Nat) /\ Len(r) = Len(q) - 1 /\ Len(q) >= 1
        /\ \A m \in 1..(Len(q) - 1) : r[m] = q[m + 1]
    BY <1>2, <2>1
  <2>3. Feed!Put(q, line) = Append(r, line)
    BY <1>2, <2>1 DEF Feed!Put
  <2>4. /\ Append(r, line) \in Seq(Nat) /\ Len(Append(r, line)) = Len(q)
        /\ Append(r, line)[Len(q)] = line
        /\ \A m \in 1..(Len(q) - 1) : Append(r, line)[m] = r[m]
    BY <2>2
  <2> QED BY <1>2, <2>2, <2>3, <2>4
<1> QED BY <1>1, <1>2

\* s is w, of length a, and then q, of length b.
Joint(s, w, q, a, b) == \A m \in 1..(a + b) : s[m] = IF m <= a THEN w[m] ELSE q[m - a]

\* t is s with a line put behind it and, if d is 1, the one after place k dropped.
Extends(t, s, k, d, line) ==
  /\ s \in Seq(Nat) /\ t \in Seq(Nat) /\ k \in Nat
  /\ Len(t) = Len(s) + 1 - d /\ Len(t) >= 1 /\ t[Len(t)] = line
  /\ \A m \in 1..(Len(t) - 1) : t[m] = IF m <= k THEN s[m] ELSE s[m + d]

\* The same of a stream: one line at most is dropped, after what was written.
LEMMA PutOnStream ==
  ASSUME NEW w \in Seq(Nat), NEW q \in Seq(Nat), NEW line \in Nat,
         NEW d \in {0, 1}, Len(q) < MaxQueue <=> d = 0
  PROVE  Extends(w \o Feed!Put(q, line), w \o q, Len(w), d, line)
<1>1. PICK p : p = Feed!Put(q, line)
  OBVIOUS
<1>2. /\ p \in Seq(Nat) /\ Len(p) = Len(q) + 1 - d /\ d <= Len(q) /\ p[Len(q) + 1 - d] = line
      /\ \A m \in 1..(Len(q) - d) : p[m] = q[m + d]
  <2>1. /\ Feed!Put(q, line) \in Seq(Nat) /\ Len(Feed!Put(q, line)) = Len(q) + 1 - d /\ d <= Len(q)
        /\ Feed!Put(q, line)[Len(q) + 1 - d] = line
        /\ \A m \in 1..(Len(q) - d) : Feed!Put(q, line)[m] = q[m + d]
    BY PutOnQueue
  <2> QED BY <1>1, <2>1
<1>3. PICK t : t = w \o p
  OBVIOUS
<1>4. PICK s : s = w \o q
  OBVIOUS
<1>5. /\ t \in Seq(Nat) /\ Len(t) = Len(w) + Len(p)
      /\ \A m \in 1..(Len(w) + Len(p)) : t[m] = IF m <= Len(w) THEN w[m] ELSE p[m - Len(w)]
  BY <1>2, <1>3, Joined
<1>6. /\ s \in Seq(Nat) /\ Len(s) = Len(w) + Len(q)
      /\ \A m \in 1..(Len(w) + Len(q)) : s[m] = IF m <= Len(w) THEN w[m] ELSE q[m - Len(w)]
  BY <1>4, Joined
<1>7. PICK a \in Nat, b \in Nat : a = Len(w) /\ b = Len(q)
  OBVIOUS
<1>8. Len(t) = a + b + 1 - d /\ Len(t) = Len(s) + 1 - d /\ Len(t) - 1 = a + b - d
  BY <1>2, <1>5, <1>6, <1>7
<1>9. PICK c \in Nat : c = Len(p) /\ c = b + 1 - d
  <2>1. Len(p) \in Nat /\ Len(p) = b + 1 - d
    BY <1>2, <1>7
  <2> QED BY <2>1
<1>10. Joint(t, w, p, a, c) /\ Joint(s, w, q, a, b)
  BY <1>5, <1>6, <1>7, <1>9 DEF Joint
<1>11. /\ t[a + c] = line
       /\ \A m \in 1..(a + b - d) : t[m] = IF m <= a THEN s[m] ELSE s[m + d]
  <2>1. d <= b /\ p[c] = line /\ \A m \in 1..(b - d) : p[m] = q[m + d]
    BY <1>2, <1>7, <1>9
  <2>2. a \in Nat /\ b \in Nat /\ c \in Nat /\ c = b + 1 - d
    BY <1>7, <1>9
  <2>3. t[a + c] = line
    <3>1. (a + c) - a = c /\ a + c \in 1..(a + c) /\ ~(a + c <= a)
      BY <2>1, <2>2
    <3> QED BY <1>10, <2>1, <3>1 DEF Joint
  <2>4. ASSUME NEW m \in 1..(a + b - d), ~(m <= a) PROVE t[m] = s[m + d]
    <3>1. /\ m \in 1..(a + c) /\ m - a \in 1..(b - d)
          /\ m + d \in 1..(a + b) /\ ~(m + d <= a) /\ (m + d) - a = (m - a) + d
      BY <2>1, <2>2, <2>4
    <3>2. t[m] = p[m - a] /\ s[m + d] = q[(m - a) + d]
      BY <1>10, <2>4, <3>1 DEF Joint
    <3> QED BY <2>1, <3>1, <3>2
  <2>5. ASSUME NEW m \in 1..(a + b - d), m <= a PROVE t[m] = s[m]
    <3>1. m \in 1..(a + c) /\ m \in 1..(a + b)
      BY <2>1, <2>2, <2>5
    <3> QED BY <1>10, <2>5, <3>1 DEF Joint
  <2> QED BY <2>3, <2>4, <2>5
<1>12. t[Len(t)] = line /\ \A m \in 1..(Len(t) - 1) : t[m] = IF m <= Len(w) THEN s[m] ELSE s[m + d]
  BY <1>7, <1>8, <1>9, <1>11
<1>13. Len(t) >= 1 /\ Len(w) \in Nat
  BY <1>2, <1>7, <1>8
<1>14. Extends(t, s, Len(w), d, line)
  BY <1>5, <1>6, <1>8, <1>12, <1>13 DEF Extends
<1> QED BY <1>1, <1>3, <1>4, <1>14

\* A write takes the head of the queue to the end of what was written.
LEMMA WriteKeepsStream ==
  ASSUME NEW w \in Seq(Nat), NEW q \in Seq(Nat), q # <<>>
  PROVE  /\ Append(w, Head(q)) \in Seq(Nat) /\ Tail(q) \in Seq(Nat)
         /\ Append(w, Head(q)) \o Tail(q) = w \o q
  OBVIOUS

\* A new line, or a blank, goes on in order.
LEMMA GoesOn ==
  ASSUME NEW n, NEW top, NEW s, NEW t, NEW k, NEW d, NEW line,
         n \in Nat, top \in Nat, d \in {0, 1}, line \in Nat,
         Extends(t, s, k, d, line), Feed!Rising(s), Upto(s, n),
         line = Feed!Blank \/ (line = n + 1 /\ NoBlank(s)), n <= top, line <= top
  PROVE  Feed!Rising(t) /\ Upto(t, top) /\ (line # Feed!Blank => NoBlank(t))
<1>1. PICK a \in Nat, b \in Nat : a = Len(s) /\ b = Len(t)
  <2>1. s \in Seq(Nat) /\ t \in Seq(Nat)
    BY DEF Extends
  <2> QED BY <2>1
<1>2. /\ b = a + 1 - d /\ t[b] = line /\ k \in Nat
      /\ \A m \in 1..(b - 1) : t[m] = IF m <= k THEN s[m] ELSE s[m + d]
  BY <1>1 DEF Extends
<1>3. DOMAIN s = 1..a /\ DOMAIN t = 1..b /\ \A m \in 1..a : s[m] \in Nat
  <2>1. s \in Seq(Nat) /\ t \in Seq(Nat)
    BY DEF Extends
  <2> QED BY <1>1, <2>1
<1>4. \A i, j \in 1..a : i < j /\ s[j] # 0 => 0 < s[i] /\ s[i] < s[j]
  BY <1>3 DEF Feed!Rising, Feed!Blank
<1>5. \A m \in 1..a : s[m] <= n
  BY <1>1 DEF Upto
<1>6. line = 0 \/ (line = n + 1 /\ \A m \in 1..a : s[m] # 0)
  BY <1>1 DEF NoBlank, Feed!Blank
<1>7. ASSUME NEW m \in 1..b, m # b
      PROVE  \E x \in 1..a : t[m] = s[x] /\ x = IF m <= k THEN m ELSE m + d
  <2>1. m \in 1..(b - 1) /\ m \in 1..a /\ m + d \in 1..a
    BY <1>2, <1>7
  <2> QED BY <1>2, <2>1
<1>8. Upto(t, top)
  <2>1. ASSUME NEW m \in 1..b PROVE t[m] <= top
    <3>1. CASE m = b
      BY <1>2, <3>1
    <3>2. CASE m # b
      <4>1. PICK x \in 1..a : t[m] = s[x]
        BY <1>7, <3>2
      <4>2. s[x] \in Nat /\ s[x] <= n
        BY <1>3, <1>5
      <4> QED BY <4>1, <4>2
    <3> QED BY <3>1, <3>2
  <2> QED BY <1>1, <2>1 DEF Upto
<1>9. line # Feed!Blank => NoBlank(t)
  <2>1. line # 0 => \A m \in 1..b : t[m] # 0
    BY <1>2, <1>6, <1>7
  <2> QED BY <1>1, <2>1 DEF NoBlank, Feed!Blank
<1>10. ASSUME NEW i \in 1..b, NEW j \in 1..b, i < j, t[j] # 0
      PROVE  0 < t[i] /\ t[i] < t[j]
  <2>1. PICK x \in 1..a : t[i] = s[x] /\ x = IF i <= k THEN i ELSE i + d
    BY <1>7, <1>10
  <2>2. CASE j = b
    <3>1. t[j] = line /\ line = n + 1 /\ s[x] # 0
      BY <1>2, <1>6, <1>10, <2>2
    <3>2. s[x] \in Nat /\ s[x] <= n
      BY <1>3, <1>5
    <3> QED BY <2>1, <3>1, <3>2
  <2>3. CASE j # b
    <3>1. PICK y \in 1..a : t[j] = s[y] /\ y = IF j <= k THEN j ELSE j + d
      BY <1>7, <2>3
    <3>2. x < y
      BY <1>2, <1>10, <2>1, <3>1
    <3> QED BY <1>4, <1>10, <2>1, <3>1, <3>2
  <2> QED BY <2>2, <2>3
<1>11. Feed!Rising(t)
  BY <1>3, <1>10 DEF Feed!Rising, Feed!Blank
<1> QED BY <1>8, <1>9, <1>11

\* What a message that is put on a client's queue does to its stream.
LEMMA SentOn ==
  ASSUME FeedTypes, NEW c \in Client, UNCHANGED written, NEW line \in Nat, NEW top \in Nat,
         queue'[c] = Feed!Put(queue[c], line), Feed!Rising(Feed!Stream(c)), Upto(Feed!Stream(c), read),
         line = Feed!Blank \/ (line = read + 1 /\ NoBlank(Feed!Stream(c))), read <= top, line <= top
  PROVE  /\ Feed!Rising(Feed!Stream(c)') /\ Upto(Feed!Stream(c)', top) /\ (line # Feed!Blank => NoBlank(Feed!Stream(c)'))
         /\ \E d \in {0, 1} : /\ Len(queue[c]) < MaxQueue <=> d = 0
                             /\ Extends(Feed!Stream(c)', Feed!Stream(c), Len(written[c]), d, line)
<1>1. PICK w \in Seq(Nat), q \in Seq(Nat) : w = written[c] /\ q = queue[c]
  BY DEF FeedTypes
<1>2. PICK d \in {0, 1} : Len(q) < MaxQueue <=> d = 0
  <2>1. CASE Len(q) < MaxQueue
    BY <2>1
  <2>2. CASE ~(Len(q) < MaxQueue)
    BY <2>2
  <2> QED BY <2>1, <2>2
<1>3. PICK s, t : s = w \o q /\ t = w \o Feed!Put(q, line)
  OBVIOUS
<1>4. Feed!Stream(c) = s /\ Feed!Stream(c)' = t
  BY <1>1, <1>3 DEF Feed!Stream
<1>5. Extends(t, s, Len(w), d, line)
  BY <1>2, <1>3, PutOnStream
<1>6. read \in Nat
  BY DEF FeedTypes
<1>7. Feed!Rising(t) /\ Upto(t, top) /\ (line # Feed!Blank => NoBlank(t))
  <2>1. PICK n \in Nat : n = read
    BY <1>6
  <2>2. Feed!Rising(s) /\ Upto(s, n) /\ (line = Feed!Blank \/ (line = n + 1 /\ NoBlank(s))) /\ n <= top
    BY <1>4, <2>1
  <2> QED BY <1>5, <2>2, GoesOn
<1> QED BY <1>1, <1>2, <1>4, <1>5, <1>7

-----------------------------------------------------------------------------
(* The steps, one client at a time. *)

LEMMA FeedTypesStep == FeedTypes /\ (\A c \in Client : Connected(c)) /\ [Feed!Next]_(Feed!vars) => FeedTypes'
<1> SUFFICES ASSUME FeedTypes, \A c \in Client : Connected(c), [Feed!Next]_(Feed!vars) PROVE FeedTypes'
  OBVIOUS
<1> USE DEF FeedTypes
<1>1. CASE Feed!Come \/ Feed!Eof \/ Feed!ReadTooLong
  <2>1. CASE Feed!Come
    BY <2>1 DEF Feed!Come, Feed!loop, Feed!clients, Feed!history
  <2>2. CASE Feed!Eof
    BY <2>2 DEF Feed!Eof, Feed!loop, Feed!clients, Feed!history
  <2>3. CASE Feed!ReadTooLong
    BY <2>3 DEF Feed!ReadTooLong, Feed!clients, Feed!history
  <2> QED BY <1>1, <2>1, <2>2, <2>3
<1>2. ASSUME NEW line \in Nat, Feed!Send(line) PROVE queue' \in [Client -> Seq(Nat)] /\ woken' \subseteq registered
  <2>1. \A c \in Client : Feed!Put(queue[c], line) \in Seq(Nat)
    <3> SUFFICES ASSUME NEW c \in Client PROVE Feed!Put(queue[c], line) \in Seq(Nat)
      OBVIOUS
    <3>1. queue[c] \in Seq(Nat)
      OBVIOUS
    <3>2. PICK d \in {0, 1} : Len(queue[c]) < MaxQueue <=> d = 0
      <4>1. CASE Len(queue[c]) < MaxQueue
        BY <4>1
      <4>2. CASE ~(Len(queue[c]) < MaxQueue)
        BY <4>2
      <4> QED BY <4>1, <4>2
    <3> QED BY <3>1, <3>2, PutOnQueue
  <2> QED BY <1>2, <2>1 DEF Feed!Send
<1>3. CASE Feed!ReadLine
  <2>1. Feed!Send(read + 1) /\ read' = read + 1
    BY <1>3 DEF Feed!ReadLine
  <2> QED BY <1>2, <1>3, <2>1 DEF Feed!ReadLine
<1>4. CASE Feed!ReadNothing
  <2>1. Feed!Send(0)
    BY <1>4 DEF Feed!ReadNothing, Feed!Blank
  <2> QED BY <1>2, <1>4, <2>1 DEF Feed!ReadNothing, Feed!stdin
<1>5. ASSUME NEW c \in Client, Feed!Connect(c) PROVE FeedTypes'
  BY <1>5 DEF Feed!Connect, Feed!stdin, Feed!loop
<1>6. ASSUME NEW c \in Client, NEW full \in BOOLEAN, Feed!Write(c, full) PROVE FeedTypes'
  <2>1. Append(written[c], Head(queue[c])) \in Seq(Nat) /\ Tail(queue[c]) \in Seq(Nat)
    BY <1>6, WriteKeepsStream DEF Feed!Write
  <2>2. queue' \in [Client -> Seq(Nat)] /\ written' \in [Client -> Seq(Nat)]
    BY <1>6, <2>1 DEF Feed!Write
  <2>3. at' \in [Client -> {"away", "get", "drain", "closing"}]
    BY <1>6 DEF Feed!Write
  <2>4. net' \in [Client -> {"open", "full", "closed"}]
    BY <1>6 DEF Feed!Write
  <2>5. behind' \subseteq Client /\ woken' \subseteq registered /\ running' \in Client \cup {Reader, Nobody}
    BY <1>6 DEF Feed!Write
  <2> QED BY <1>6, <2>2, <2>3, <2>4, <2>5 DEF Feed!Write, Feed!stdin
<1>7. ASSUME NEW c \in Client, Feed!WriteFails(c) PROVE FeedTypes'
  <2>1. Tail(queue[c]) \in Seq(Nat)
    BY <1>7, WriteKeepsStream DEF Feed!WriteFails
  <2> QED BY <1>7, <2>1 DEF Feed!WriteFails, Feed!stdin, Feed!history
<1>8. ASSUME NEW c \in Client, Feed!Drained(c) \/ Feed!Unregister(c) \/ Feed!Resume(c) \/ Feed!Close(c) PROVE FeedTypes'
  <2>1. CASE Feed!Drained(c)
    BY <2>1 DEF Feed!Drained, Feed!stdin, Feed!loop, Feed!history
  <2>2. CASE Feed!Unregister(c)
    BY <2>2 DEF Feed!Unregister, Feed!stdin, Feed!history
  <2>3. CASE Feed!Resume(c) \/ Feed!Close(c)
    BY <2>3 DEF Feed!Resume, Feed!Close, Feed!stdin, Feed!loop, Feed!history
  <2> QED BY <1>8, <2>1, <2>2, <2>3
<1>9. CASE UNCHANGED Feed!vars
  BY <1>9 DEF Feed!vars, Feed!stdin, Feed!loop, Feed!clients, Feed!history
<1> QED
  BY <1>1, <1>3, <1>4, <1>5, <1>6, <1>7, <1>8, <1>9 DEF Feed!Next, Feed!ReaderTask,
     Feed!ClientTask, Feed!Peer

LEMMA StreamTypes ==
  ASSUME FeedTypes, NEW c \in Client
  PROVE  Feed!Stream(c) \in Seq(Nat) /\ Len(Feed!Stream(c)) = Len(written[c]) + Len(queue[c])
<1>1. PICK w \in Seq(Nat), q \in Seq(Nat) : w = written[c] /\ q = queue[c]
  BY DEF FeedTypes
<1> QED BY <1>1, Joined DEF Feed!Stream

\* A client of whom a step changes nothing.
LEMMA Untouched ==
  ASSUME NEW c \in Client, ClientInv(c), Served(c) => Served(c)',
         at'[c] = at[c], net'[c] = net[c], Feed!Stream(c)' = Feed!Stream(c), first'[c] = first[c],
         read' = read, eof => eof' /\ came' = came,
         c \in registered' <=> c \in registered, c \in behind' <=> c \in behind
  PROVE  ClientInv(c)'
<1>1. Connected(c)'
  BY DEF ClientInv, Connected
<1>2. at'[c] \in {"get", "drain"} => InOrder(Feed!Stream(c))' /\ Newest(c, Feed!Stream(c))'
  BY DEF ClientInv, InOrder, Newest, Feed!Rising, Upto, NoBlank
<1>3. c \in registered' \ behind' /\ net'[c] = "open" => Each(c, Feed!Stream(c))' /\ Served(c)'
  BY DEF ClientInv, Each
<1> QED BY <1>1, <1>2, <1>3 DEF ClientInv

LEMMA ReaderKeeps ==
  ASSUME FeedInv, Feed!ReadLine \/ Feed!ReadNothing, NEW c \in Client
  PROVE  ClientInv(c)'
<1> USE FeedAssumption
<1>1. FeedTypes /\ ClientInv(c)
  BY DEF FeedInv
<1>2. PICK line \in Nat : /\ Feed!Send(line)
                          /\ \/ line = Feed!Blank /\ eof /\ read = came /\ read' = read
                             \/ line = read + 1 /\ read < came /\ read' = read + 1
  <2>1. CASE Feed!ReadLine
    BY <1>1, <2>1 DEF Feed!ReadLine, FeedTypes
  <2>2. CASE Feed!ReadNothing
    BY <1>1, <2>2 DEF Feed!ReadNothing, FeedTypes, Feed!Blank, Feed!stdin
  <2> QED BY <2>1, <2>2
<1>3. /\ at' = at /\ net' = net /\ first' = first /\ written' = written
      /\ registered' = registered /\ eof' = eof /\ came' = came
      /\ running = Reader \/ (running = Nobody /\ woken = {})
  BY DEF Feed!ReadLine, Feed!ReadNothing, Feed!stdin, Feed!Reads, Feed!Idle
<1>4. behind \subseteq behind' /\ (c \in behind' => c \in behind \/ c \in registered)
  BY DEF Feed!ReadLine, Feed!ReadNothing
<1>5. Connected(c)'
  <2>1. Connected(c)
    BY <1>1 DEF ClientInv
  <2> QED BY <1>3, <1>4, <2>1 DEF Connected
<1>6. CASE c \notin registered
  BY <1>1, <1>3, <1>5, <1>6 DEF ClientInv, Connected
<1>7. CASE at[c] = "closing"
  <2>1. net[c] = "closed"
    BY <1>1, <1>7 DEF ClientInv, Connected
  <2> QED BY <1>3, <1>5, <1>7, <2>1 DEF ClientInv
<1>8. CASE c \in registered /\ at[c] # "closing"
  <2>1. at[c] \in {"get", "drain"} /\ InOrder(Feed!Stream(c)) /\ queue'[c] = Feed!Put(queue[c], line)
    BY <1>1, <1>2, <1>8 DEF ClientInv, Connected, FeedTypes, Feed!Send
  <2>2. PICK top \in Nat : top = read'
    BY <1>1, <1>2 DEF FeedTypes
  <2>3. /\ Feed!Rising(Feed!Stream(c)) /\ Upto(Feed!Stream(c), read) /\ read <= top /\ line <= top
        /\ line = Feed!Blank \/ (line = read + 1 /\ NoBlank(Feed!Stream(c)))
    BY <1>1, <1>2, <2>1, <2>2 DEF InOrder, Feed!Blank, FeedTypes
  <2>4. /\ Feed!Rising(Feed!Stream(c)') /\ Upto(Feed!Stream(c)', top) /\ (line # Feed!Blank => NoBlank(Feed!Stream(c)'))
        /\ \E d \in {0, 1} : /\ Len(queue[c]) < MaxQueue <=> d = 0
                             /\ Extends(Feed!Stream(c)', Feed!Stream(c), Len(written[c]), d, line)
    BY <1>1, <1>3, <2>1, <2>3, SentOn
  <2>5. PICK d \in {0, 1} : /\ Len(queue[c]) < MaxQueue <=> d = 0
                            /\ Extends(Feed!Stream(c)', Feed!Stream(c), Len(written[c]), d, line)
    BY <2>4
  <2>6. InOrder(Feed!Stream(c))'
    <3>1. Feed!Rising(Feed!Stream(c))' /\ Upto(Feed!Stream(c), read)'
      BY <2>2, <2>4 DEF Feed!Rising, Upto
    <3>2. ~NoBlank(Feed!Stream(c))' => eof' /\ read' = came'
      <4>1. NoBlank(Feed!Stream(c)') \/ (eof /\ read = came /\ read' = read)
        BY <1>1, <1>2, <2>4 DEF Feed!Blank, FeedTypes
      <4> QED BY <1>3, <4>1 DEF NoBlank
    <3> QED BY <3>1, <3>2 DEF InOrder
  <2>7. Newest(c, Feed!Stream(c))'
    <3>1. ASSUME ~eof PROVE Feed!Stream(c)' # <<>> /\ Feed!Stream(c)'[Len(Feed!Stream(c)')] = read'
      BY <1>2, <2>5, <3>1 DEF Extends
    <3> QED BY <1>3, <3>1 DEF Newest
  <2>8. ASSUME c \notin behind', net[c] = "open"
        PROVE  Each(c, Feed!Stream(c))' /\ Served(c)'
    <3>1. c \in registered \ behind /\ at[c] = "get"
      BY <1>1, <1>4, <1>8, <2>1, <2>8 DEF ClientInv, Connected
    <3>2. Each(c, Feed!Stream(c)) /\ Served(c)
      BY <1>1, <2>8, <3>1 DEF ClientInv
    <3>3. /\ Feed!ReadLine /\ burst' \in Nat /\ burst' <= MaxQueue
          /\ burst' = IF running = Reader THEN burst + 1 ELSE 1
      BY <1>1, <1>8, <2>8 DEF Feed!ReadLine, Feed!ReadNothing, FeedTypes
    <3>4. line = read + 1 /\ read' = read + 1
      BY <1>1, <1>2, <3>3 DEF Feed!ReadLine, FeedTypes
    <3>5. PICK q \in Seq(Nat) : q = queue[c]
      BY <1>1 DEF FeedTypes
    <3>6. Len(q) < MaxQueue /\ Len(q) + 1 <= burst' /\ (q # <<>> => c \in woken)
      <4>1. CASE running = Reader
        BY <1>1, <3>2, <3>3, <3>5, <4>1 DEF Served, FeedTypes
      <4>2. CASE running = Nobody /\ woken = {}
        <5>1. q = <<>>
          BY <3>2, <3>5, <4>2 DEF Served
        <5> QED BY <3>3, <4>2, <5>1
      <4> QED BY <1>3, <4>1, <4>2
    <3>7. Served(c)'
      <4>1. queue'[c] = Append(q, line)
        BY <2>1, <3>5, <3>6 DEF Feed!Put
      <4>2. Len(queue'[c]) <= burst'
        BY <3>6, <4>1
      <4>3. c \in woken'
        BY <1>2, <1>8, <3>1, <3>5, <3>6 DEF Feed!Send
      <4> QED BY <4>2, <4>3 DEF Served
    <3>8. Each(c, Feed!Stream(c))'
      <4>1. Extends(Feed!Stream(c)', Feed!Stream(c), Len(written[c]), 0, line)
        BY <2>5, <3>5, <3>6
      <4>2. PICK s, t, k : s = Feed!Stream(c) /\ t = Feed!Stream(c)' /\ k = Len(written[c])
        OBVIOUS
      <4>3. PICK f \in Nat, n \in Nat : f = first[c] /\ n = read
        BY <1>1 DEF FeedTypes
      <4>4. f <= n + 1 /\ Len(s) = n + 1 - f /\ \A j \in 1..Len(s) : s[j] = f + j - 1
        BY <3>2, <4>2, <4>3 DEF Each
      <4>5. PICK a \in Nat : a = Len(s)
        BY <4>4
      <4>6. /\ Len(t) = a + 1 /\ t[a + 1] = n + 1
            /\ \A m \in 1..a : t[m] = IF m <= k THEN s[m] ELSE s[m + 0]
        BY <3>4, <4>1, <4>2, <4>3, <4>5 DEF Extends
      <4>7. \A m \in 1..a : t[m] = f + m - 1
        BY <4>4, <4>5, <4>6
      <4>8. \A j \in 1..(a + 1) : t[j] = f + j - 1
        BY <4>4, <4>5, <4>6, <4>7
      <4>9. f <= n + 2 /\ Len(t) = n + 2 - f
        BY <4>4, <4>5, <4>6
      <4> QED BY <1>3, <3>4, <4>2, <4>3, <4>6, <4>8, <4>9 DEF Each
    <3> QED BY <3>7, <3>8
  <2> QED BY <1>3, <1>5, <2>6, <2>7, <2>8 DEF ClientInv
<1> QED BY <1>6, <1>7, <1>8

LEMMA WriteKeeps ==
  ASSUME FeedInv, NEW d \in Client, NEW full \in BOOLEAN, Feed!Write(d, full), NEW c \in Client
  PROVE  ClientInv(c)'
<1> USE FeedAssumption
<1>1. FeedTypes /\ ClientInv(c)
  BY DEF FeedInv
<1>2. CASE c # d
  <2>1. Feed!Stream(c)' = Feed!Stream(c) /\ queue'[c] = queue[c]
    BY <1>1, <1>2 DEF Feed!Write, Feed!Stream, FeedTypes
  <2>2. Served(c) => Served(c)'
    BY <1>1, <1>2, <2>1 DEF Served, Feed!Write, Feed!Runs
  <2> QED BY <1>1, <1>2, <2>1, <2>2, Untouched DEF Feed!Write, FeedTypes, Feed!stdin
<1>3. CASE c = d
  <2>1. Feed!Stream(c)' = Feed!Stream(c)
    <3>1. /\ written'[c] = Append(written[c], Head(queue[c])) /\ queue'[c] = Tail(queue[c])
          /\ queue[c] # <<>> /\ queue[c] \in Seq(Nat) /\ written[c] \in Seq(Nat)
      BY <1>1, <1>3 DEF Feed!Write, FeedTypes
    <3> QED BY <3>1, WriteKeepsStream DEF Feed!Stream
  <2>2. /\ at[c] = "get" /\ c \in registered /\ registered' = registered /\ read' = read
        /\ eof' = eof /\ came' = came /\ first' = first
        /\ InOrder(Feed!Stream(c)) /\ Newest(c, Feed!Stream(c))
    BY <1>1, <1>3 DEF Feed!Write, ClientInv, Connected, Feed!stdin
  <2>3. InOrder(Feed!Stream(c))' /\ Newest(c, Feed!Stream(c))'
    BY <2>1, <2>2 DEF InOrder, Newest, Feed!Rising, Upto, NoBlank
  <2>4. CASE full
    BY <1>1, <1>3, <2>2, <2>3, <2>4 DEF ClientInv, Connected, Feed!Write, FeedTypes
  <2>5. CASE ~full
    <3>1. /\ net[c] = "open" /\ net'[c] = "open" /\ at'[c] = "get" /\ behind' = behind
          /\ running' = IF queue'[c] = <<>> THEN Nobody ELSE c
      BY <1>1, <1>3, <2>5 DEF Feed!Write, FeedTypes
    <3>2. Connected(c)'
      BY <2>2, <3>1 DEF Connected
    <3>3. Served(c)'
      BY <3>1 DEF Served
    <3>4. c \notin behind => Each(c, Feed!Stream(c))'
      BY <1>1, <2>1, <2>2, <3>1 DEF ClientInv, Each
    <3> QED BY <2>3, <3>1, <3>2, <3>3, <3>4 DEF ClientInv
  <2> QED BY <2>4, <2>5
<1> QED BY <1>2, <1>3

LEMMA ClientKeeps ==
  ASSUME FeedInv, NEW d \in Client,
         Feed!WriteFails(d) \/ Feed!Drained(d) \/ Feed!Unregister(d) \/ Feed!Connect(d) \/ Feed!Resume(d) \/ Feed!Close(d),
         NEW c \in Client
  PROVE  ClientInv(c)'
<1> USE FeedAssumption
<1>1. FeedTypes /\ ClientInv(c)
  BY DEF FeedInv
<1>2. CASE c # d
  <2>1. Feed!Stream(c)' = Feed!Stream(c) /\ queue'[c] = queue[c] /\ first'[c] = first[c] /\ read' = read
    BY <1>1, <1>2 DEF Feed!WriteFails, Feed!Drained, Feed!Unregister, Feed!Connect,
       Feed!Resume, Feed!Close, Feed!Stream, FeedTypes, Feed!stdin
  <2>2. at'[c] = at[c] /\ net'[c] = net[c] /\ eof' = eof /\ came' = came
    BY <1>1, <1>2 DEF Feed!WriteFails, Feed!Drained, Feed!Unregister, Feed!Connect,
       Feed!Resume, Feed!Close, FeedTypes, Feed!stdin
  <2>3. (c \in registered' <=> c \in registered) /\ (c \in behind' <=> c \in behind)
    BY <1>2 DEF Feed!WriteFails, Feed!Drained, Feed!Unregister, Feed!Connect, Feed!Resume,
       Feed!Close, Feed!history
  <2>4. Served(c) => Served(c)'
    BY <1>1, <1>2, <2>1 DEF Served, Feed!WriteFails, Feed!Drained, Feed!Unregister,
       Feed!Connect, Feed!Resume, Feed!Close,
                           Feed!Runs, Feed!Idle, Feed!loop, Feed!history
  <2> QED BY <1>1, <2>1, <2>2, <2>3, <2>4, Untouched
<1>3. CASE c = d /\ (Feed!WriteFails(d) \/ Feed!Unregister(d))
  BY <1>1, <1>3 DEF Feed!WriteFails, Feed!Unregister, ClientInv, Connected, FeedTypes
<1>4. CASE c = d /\ (Feed!Drained(d) \/ Feed!Resume(d) \/ Feed!Close(d))
  <2>1. Feed!Stream(c)' = Feed!Stream(c) /\ first' = first /\ read' = read /\ eof' = eof /\ came' = came
    BY <1>4 DEF Feed!Drained, Feed!Resume, Feed!Close, Feed!Stream, Feed!stdin
  <2>2. registered' = registered /\ behind' = behind
    BY <1>4 DEF Feed!Drained, Feed!Resume, Feed!Close, Feed!history
  <2>3. Connected(c)' /\ (c \in registered' \ behind' => net'[c] # "open")
    BY <1>1, <1>4, <2>2 DEF Feed!Drained, Feed!Resume, Feed!Close, ClientInv, Connected,
       FeedTypes
  <2>4. at'[c] \in {"get", "drain"} => InOrder(Feed!Stream(c)) /\ Newest(c, Feed!Stream(c))
    BY <1>1, <1>4 DEF Feed!Drained, Feed!Resume, Feed!Close, ClientInv, FeedTypes
  <2>5. at'[c] \in {"get", "drain"} => InOrder(Feed!Stream(c))' /\ Newest(c, Feed!Stream(c))'
    BY <2>1, <2>4 DEF InOrder, Newest, Feed!Rising, Upto, NoBlank
  <2> QED BY <2>3, <2>5 DEF ClientInv
<1>5. CASE c = d /\ Feed!Connect(d)
  <2>1. /\ queue'[c] = <<>> /\ written'[c] = <<>> /\ first'[c] = read + 1 /\ read' = read
        /\ at'[c] = "get" /\ net'[c] = "open" /\ c \in registered' /\ c \notin behind'
        /\ read \in Nat /\ burst' \in Nat
    BY <1>1, <1>5 DEF Feed!Connect, FeedTypes, Feed!stdin
  <2>2. Feed!Stream(c)' = <<>> /\ Len(Feed!Stream(c)') = 0
    BY <2>1 DEF Feed!Stream
  <2>3. Connected(c)' /\ Served(c)'
    BY <2>1 DEF Connected, Served
  <2>4. InOrder(Feed!Stream(c))' /\ Newest(c, Feed!Stream(c))' /\ Each(c, Feed!Stream(c))'
    BY <2>1, <2>2 DEF InOrder, Newest, Feed!Rising, Upto, NoBlank, Each
  <2> QED BY <2>1, <2>3, <2>4 DEF ClientInv
<1> QED BY <1>2, <1>3, <1>4, <1>5

LEMMA FeedStep == FeedInv /\ [Feed!Next]_(Feed!vars) => FeedInv'
<1> SUFFICES ASSUME FeedInv, [Feed!Next]_(Feed!vars) PROVE FeedInv'
  OBVIOUS
<1>1. FeedTypes'
  BY FeedTypesStep DEF FeedInv, ClientInv
<1>2. ASSUME NEW c \in Client PROVE ClientInv(c)'
  <2>1. CASE Feed!Come \/ Feed!Eof \/ Feed!ReadTooLong \/ UNCHANGED Feed!vars
    <3>1. /\ at' = at /\ net' = net /\ queue' = queue /\ written' = written /\ first' = first
          /\ read' = read /\ registered' = registered /\ behind' = behind /\ woken' = woken
          /\ burst' = burst /\ (eof => eof' /\ came' = came)
      BY <2>1 DEF Feed!Come, Feed!Eof, Feed!ReadTooLong, Feed!vars, Feed!stdin, Feed!loop,
         Feed!clients, Feed!history
    <3>2. running' = running \/ (running # c /\ running' = Nobody)
      BY <2>1, FeedAssumption
         DEF Feed!Come, Feed!Eof, Feed!ReadTooLong, Feed!Reads, Feed!Idle, Feed!vars, Feed!loop
    <3>3. Served(c) => Served(c)'
      BY <3>1, <3>2, FeedAssumption DEF Served
    <3>4. Feed!Stream(c)' = Feed!Stream(c) /\ ClientInv(c)
      BY <3>1 DEF Feed!Stream, FeedInv
    <3> QED BY <3>1, <3>3, <3>4, Untouched
  <2>2. CASE Feed!ReaderTask
    BY <2>2, ReaderKeeps DEF Feed!ReaderTask
  <2>3. ASSUME NEW d \in Client, Feed!ClientTask(d) \/ Feed!Peer(d) PROVE ClientInv(c)'
    BY <2>3, WriteKeeps, ClientKeeps DEF Feed!ClientTask, Feed!Peer
  <2> QED BY <2>1, <2>2, <2>3 DEF Feed!Next
<1> QED BY <1>1, <1>2 DEF FeedInv

LEMMA FeedInitially == Feed!Init => FeedInv
<1> SUFFICES ASSUME Feed!Init PROVE FeedInv
  OBVIOUS
<1>1. FeedTypes
  <2>1. <<>> \in Seq(Nat)
    OBVIOUS
  <2>2. queue \in [Client -> Seq(Nat)] /\ written \in [Client -> Seq(Nat)] /\ first \in [Client -> Nat]
    BY <2>1 DEF Feed!Init
  <2>3. /\ at \in [Client -> {"away", "get", "drain", "closing"}]
        /\ net \in [Client -> {"open", "full", "closed"}]
    BY DEF Feed!Init
  <2>4. /\ came \in Nat /\ read \in Nat /\ read <= came /\ burst \in Nat
        /\ running \in Client \cup {Reader, Nobody}
    BY DEF Feed!Init
  <2>6. eof \in BOOLEAN
    BY DEF Feed!Init
  <2>5. woken \subseteq registered /\ registered \subseteq Client /\ behind \subseteq Client
    <3>1. woken = {} /\ registered = {} /\ behind = {}
      BY DEF Feed!Init
    <3> QED BY <3>1
  <2> QED BY <2>2, <2>3, <2>4, <2>5, <2>6 DEF FeedTypes
<1>2. ASSUME NEW c \in Client PROVE ClientInv(c)
  BY DEF Feed!Init, ClientInv, Connected
<1> QED BY <1>1, <1>2 DEF FeedInv

LEMMA FeedCorrect == FeedInv => StreamsKept
<1> SUFFICES ASSUME FeedInv, NEW c \in Client
             PROVE  /\ at[c] \in {"get", "drain"} => Feed!ToNewest(c)
                    /\ c \in registered \ behind /\ net[c] = "open" =>
                         Feed!Stream(c) = [j \in 1..(read + 1 - first[c]) |-> first[c] + j - 1]
  BY DEF StreamsKept, Feed!StreamsKept
<1>1. FeedTypes /\ ClientInv(c)
  BY DEF FeedInv
<1>2. at[c] \in {"get", "drain"} => Feed!ToNewest(c)
  BY <1>1 DEF ClientInv, InOrder, Newest, Feed!ToNewest
<1>3. ASSUME Each(c, Feed!Stream(c))
      PROVE  Feed!Stream(c) = [j \in 1..(read + 1 - first[c]) |-> first[c] + j - 1]
  <2>1. PICK s \in Seq(Nat), n \in Nat, f \in Nat : s = Feed!Stream(c) /\ n = read + 1 - first[c] /\ f = first[c]
    BY <1>1, <1>3, StreamTypes DEF Each, FeedTypes
  <2>2. Len(s) = n /\ \A j \in 1..n : s[j] = f + j - 1
    BY <1>3, <2>1 DEF Each
  <2>3. s = [j \in 1..n |-> s[j]]
    BY <2>2
  <2> QED BY <2>1, <2>2, <2>3
<1> QED BY <1>1, <1>2, <1>3 DEF ClientInv

\* A client that is connected has the lines of the feed in order up to the newest,
\* and one that was never behind has each since it came (websocket.py:58-77).
THEOREM FeedIsKept == Feed!Spec => []StreamsKept
<1>1. FeedInv /\ [Feed!Next]_(Feed!vars) => FeedInv'
  BY FeedStep
<1> QED BY <1>1, FeedInitially, FeedCorrect, PTL DEF Feed!Spec

-----------------------------------------------------------------------------
(* Tweets *)

(***************************************************************************)
(* TweetedOnce is not inductive: the step that tweets must know that the    *)
(* message was not tweeted before.  That is so because a message which a    *)
(* task is about to tweet is not in tweets:done (NotDone), which holds        *)
(* because no other task could have put it there since the check (OneLoop), *)
(* and because every took tweet of a message that is not there is one   *)
(* that a fault or a removal accounts for (Accounted).                      *)
(***************************************************************************)
Counted ==
  /\ timeline \in [TweetJob -> Nat] /\ spoilt \in [TweetJob -> Nat] /\ removed \in [TweetJob -> Nat]

Tasks ==
  /\ DOMAIN message = Tweeter!Task
  /\ at_sleep \in [Tweeter!Task -> {"none", "top", "post", "retry", "delay"}]
  /\ processing \in BOOLEAN

OneLoop ==
  /\ \A t \in Tweeter!Task : at_sleep[t] # "none" => processing
  /\ \A t, u \in Tweeter!Task : at_sleep[t] # "none" /\ at_sleep[u] # "none" => t = u

NotDone == \A t \in Tweeter!Task : at_sleep[t] \in {"post", "retry"} => message[t] \notin done

Accounted == \A j \in TweetJob : j \notin done => timeline[j] <= spoilt[j] + removed[j]

LoopInv == Tasks /\ OneLoop /\ NotDone
CountInv == Counted /\ Accounted /\ TweetedOnce

-----------------------------------------------------------------------------
LEMMA Incremented ==
  ASSUME NEW S, NEW f \in [S -> Nat], NEW j
  PROVE  /\ [f EXCEPT ![j] = @ + 1] \in [S -> Nat]
         /\ \A i \in S : [f EXCEPT ![j] = @ + 1][i] = f[i] + (IF i = j THEN 1 ELSE 0)
<1>1. CASE j \in S
  <2>1. f[j] + 1 \in Nat
    BY <1>1
  <2> QED BY <1>1, <2>1
<1>2. CASE j \notin S
  <2>1. [f EXCEPT ![j] = @ + 1] = f
    BY <1>2
  <2>2. \A i \in S : f[i] = f[i] + (IF i = j THEN 1 ELSE 0)
    BY <1>2
  <2> QED BY <2>1, <2>2
<1> QED BY <1>1, <1>2

\* An attempt that Twitter accepts although it answers with an error is one
\* more tweet, and one more fault of that message; any other error is neither.
LEMMA FaultAccounts ==
  ASSUME Counted, NEW t \in Tweeter!Task, NEW took, Tweeter!Fault(t, took), UNCHANGED removed
  PROVE  /\ Counted'
         /\ \A j \in TweetJob : timeline'[j] + spoilt[j] = timeline[j] + spoilt'[j]
<1>1. CASE took
  <2>1. /\ timeline' = [timeline EXCEPT ![message[t]] = @ + 1]
        /\ spoilt' = [spoilt EXCEPT ![message[t]] = @ + 1]
    BY <1>1 DEF Tweeter!Fault, Tweeter!Accept
  <2>2. /\ timeline' \in [TweetJob -> Nat] /\ spoilt' \in [TweetJob -> Nat]
        /\ \A j \in TweetJob : /\ timeline'[j] = timeline[j] + (IF j = message[t] THEN 1 ELSE 0)
                          /\ spoilt'[j] = spoilt[j] + (IF j = message[t] THEN 1 ELSE 0)
    BY <2>1, Incremented DEF Counted
  <2> QED BY <2>2 DEF Counted
<1>2. CASE ~took
  <2>1. UNCHANGED <<timeline, spoilt>>
    BY <1>2 DEF Tweeter!Fault
  <2> QED BY <2>1 DEF Counted
<1> QED BY <1>1, <1>2

-----------------------------------------------------------------------------
(* The loop: one task at a time, and what it is about to tweet is not done. *)

LEMMA LoopStep == LoopInv /\ [Tweeter!Next]_Tweeter!vars => LoopInv'
<1> SUFFICES ASSUME LoopInv, [Tweeter!Next]_Tweeter!vars PROVE LoopInv'
  OBVIOUS
<1> USE DEF LoopInv
<1>1. ASSUME NEW j \in TweetJob, Tweeter!JobMoves(j) \/ Tweeter!OnReceive(j) PROVE LoopInv'
  BY <1>1 DEF Tweeter!JobMoves, Tweeter!OnReceive, Tweeter!redis, Tweeter!tasks,
     Tweeter!history, Tasks, OneLoop, NotDone
<1>2. ASSUME NEW j \in TweetJob, Tweeter!RemoveOld(j) PROVE LoopInv'
  BY <1>2 DEF Tweeter!RemoveOld, Tweeter!tasks, Tasks, OneLoop, NotDone
<1>3. CASE Tweeter!Process
  BY <1>3 DEF Tweeter!Process, Tweeter!tasks, Tweeter!history, Tasks, OneLoop, NotDone
<1>4. ASSUME NEW t \in Tweeter!Task, Tweeter!Begin(t) PROVE LoopInv'
  BY <1>4 DEF Tweeter!Begin, Tweeter!redis, Tweeter!history, Tasks, OneLoop, NotDone
<1>5. ASSUME NEW t \in Tweeter!Task, Tweeter!End(t) PROVE LoopInv'
  BY <1>5 DEF Tweeter!End, Tweeter!redis, Tweeter!history, Tasks, OneLoop, NotDone
<1>6. ASSUME NEW t \in Tweeter!Task, Tweeter!Pick(t) PROVE LoopInv'
  BY <1>6 DEF Tweeter!Pick, Tweeter!history, Tasks, OneLoop, NotDone
<1>7. ASSUME NEW t \in Tweeter!Task, at_sleep[t] = "post", Tweeter!ToDone(t) PROVE LoopInv'
  BY <1>7 DEF Tweeter!ToDone, Tasks, OneLoop, NotDone
<1>8. ASSUME NEW t \in Tweeter!Task, Tweeter!Attempt(t) PROVE LoopInv'
  <2>1. ASSUME NEW took, Tweeter!TweetFails(t, took) PROVE LoopInv'
    BY <1>8, <2>1 DEF Tweeter!TweetFails, Tweeter!redis, Tasks, OneLoop, NotDone
  <2> QED BY <1>7, <1>8, <2>1 DEF Tweeter!Attempt, Tweeter!TweetOk, Tweeter!GiveUp
<1>9. ASSUME NEW t \in Tweeter!Task, Tweeter!Retry(t) PROVE LoopInv'
  BY <1>9 DEF Tweeter!Retry, Tweeter!redis, Tweeter!history, Tasks, OneLoop, NotDone
<1>10. ASSUME NEW t \in Tweeter!Task, Tweeter!Dequeue(t) PROVE LoopInv'
  BY <1>10 DEF Tweeter!Dequeue, Tweeter!history, Tasks, OneLoop, NotDone
<1>11. ASSUME NEW took, Tweeter!Crash(took) PROVE LoopInv'
  BY <1>11 DEF Tweeter!Crash, Tweeter!redis, Tasks, OneLoop, NotDone
<1>12. CASE UNCHANGED Tweeter!vars
  BY <1>12 DEF Tweeter!vars, Tweeter!redis, Tweeter!tasks, Tasks, OneLoop, NotDone
<1> QED
  BY <1>1, <1>2, <1>3, <1>4, <1>5, <1>6, <1>8, <1>9, <1>10, <1>11, <1>12 DEF Tweeter!Next,
     Tweeter!Loop

-----------------------------------------------------------------------------
(* The count of tweets. *)

LEMMA CountsUnchanged ==
  ASSUME CountInv, done \subseteq done', UNCHANGED <<timeline, spoilt, removed>>
  PROVE  CountInv'
  BY DEF CountInv, Counted, Accounted, TweetedOnce, Tweeter!TweetedOnce

LEMMA CountStep == LoopInv /\ CountInv /\ [Tweeter!Next]_Tweeter!vars => CountInv'
<1> SUFFICES ASSUME LoopInv, CountInv, [Tweeter!Next]_Tweeter!vars PROVE CountInv'
  OBVIOUS
<1>1. ASSUME NEW j \in TweetJob, Tweeter!RemoveOld(j) PROVE CountInv'
  <2>1. /\ done' = done \ {j} /\ removed' = [removed EXCEPT ![j] = @ + 1]
        /\ UNCHANGED <<timeline, spoilt>>
    BY <1>1 DEF Tweeter!RemoveOld
  <2>2. /\ removed' \in [TweetJob -> Nat]
        /\ \A i \in TweetJob : removed'[i] = removed[i] + (IF i = j THEN 1 ELSE 0)
    BY <2>1, Incremented DEF CountInv, Counted
  <2>3. TweetedOnce'
    BY <2>1, <2>2 DEF CountInv, Counted, TweetedOnce, Tweeter!TweetedOnce
  <2>4. Accounted'
    BY <2>1, <2>2 DEF CountInv, Counted, Accounted, TweetedOnce, Tweeter!TweetedOnce
  <2> QED BY <2>1, <2>2, <2>3, <2>4 DEF CountInv, Counted
<1>2. ASSUME NEW t \in Tweeter!Task, Tweeter!TweetOk(t) PROVE CountInv'
  <2>1. /\ timeline' = [timeline EXCEPT ![message[t]] = @ + 1]
        /\ done' = done \cup {message[t]} /\ UNCHANGED <<spoilt, removed>>
    BY <1>2 DEF Tweeter!TweetOk, Tweeter!Accept, Tweeter!ToDone
  <2>2. message[t] \notin done
    BY <1>2 DEF Tweeter!TweetOk, LoopInv, NotDone
  <2>3. /\ timeline' \in [TweetJob -> Nat]
        /\ \A i \in TweetJob : timeline'[i] = timeline[i] + (IF i = message[t] THEN 1 ELSE 0)
    BY <2>1, Incremented DEF CountInv, Counted
  <2>4. TweetedOnce'
    BY <2>1, <2>2, <2>3 DEF CountInv, Counted, Accounted, TweetedOnce, Tweeter!TweetedOnce
  <2>5. Accounted'
    BY <2>1, <2>3 DEF CountInv, Counted, Accounted
  <2> QED BY <2>1, <2>3, <2>4, <2>5 DEF CountInv, Counted
<1>3. ASSUME NEW t \in Tweeter!Task, NEW took, Tweeter!TweetFails(t, took) \/ Tweeter!GiveUp(t, took)
      PROVE CountInv'
  <2>1. Tweeter!Fault(t, took) /\ done \subseteq done' /\ UNCHANGED removed
    BY <1>3 DEF Tweeter!TweetFails, Tweeter!GiveUp, Tweeter!ToDone, Tweeter!redis
  <2>2. /\ Counted'
        /\ \A j \in TweetJob : timeline'[j] + spoilt[j] = timeline[j] + spoilt'[j]
    BY <2>1, FaultAccounts DEF CountInv
  <2> QED BY <2>1, <2>2 DEF CountInv, Counted, Accounted, TweetedOnce, Tweeter!TweetedOnce
<1>4. ASSUME NEW took, Tweeter!Crash(took) PROVE CountInv'
  <2> DEFINE lost == {message[t] : t \in Tweeter!Awake \cap {u \in Tweeter!Task : at_sleep[u] = "post"}}
             more(j) == IF took /\ j \in lost THEN 1 ELSE 0
  <2>1. /\ timeline' = [j \in TweetJob |-> timeline[j] + more(j)]
        /\ spoilt' = [j \in TweetJob |-> spoilt[j] + more(j)]
        /\ UNCHANGED <<done, removed>>
    BY <1>4 DEF Tweeter!Crash, Tweeter!redis
  <2>2. \A j \in TweetJob : more(j) \in Nat
    OBVIOUS
  <2> HIDE DEF more
  <2> QED BY <2>1, <2>2 DEF CountInv, Counted, Accounted, TweetedOnce, Tweeter!TweetedOnce
<1>5. CASE UNCHANGED Tweeter!vars
  BY <1>5, CountsUnchanged DEF Tweeter!vars, Tweeter!redis, Tweeter!history
<1>6. ASSUME NEW j \in TweetJob, Tweeter!JobMoves(j) \/ Tweeter!OnReceive(j) PROVE CountInv'
  BY <1>6, CountsUnchanged DEF Tweeter!JobMoves, Tweeter!OnReceive, Tweeter!redis,
     Tweeter!history
<1>7. CASE Tweeter!Process
  BY <1>7, CountsUnchanged DEF Tweeter!Process, Tweeter!history
<1>8. ASSUME NEW t \in Tweeter!Task, Tweeter!Begin(t) \/ Tweeter!End(t) \/ Tweeter!Pick(t) \/ Tweeter!Retry(t) \/ Tweeter!Dequeue(t)
      PROVE CountInv'
  BY <1>8, CountsUnchanged DEF Tweeter!Begin, Tweeter!End, Tweeter!Pick, Tweeter!Retry,
     Tweeter!Dequeue, Tweeter!redis, Tweeter!history
<1> QED
  BY <1>1, <1>2, <1>3, <1>4, <1>5, <1>6, <1>7, <1>8 DEF Tweeter!Next, Tweeter!Loop,
     Tweeter!Attempt

\* A message is tweeted once, and again only after a lost answer or when it
\* has left tweets:done: for any jobs, tries, faults and removals.
THEOREM TweetsAreTweetedOnce == Tweeter!Spec => []TweetedOnce
<1>1. Tweeter!Init => LoopInv /\ CountInv
  <2> SUFFICES ASSUME Tweeter!Init PROVE LoopInv /\ CountInv
    OBVIOUS
  <2> USE DEF Tweeter!Init
  <2>1. LoopInv
    BY DEF LoopInv, Tasks, OneLoop, NotDone
  <2>2. Counted
    BY DEF Counted
  <2>3. \A j \in TweetJob : timeline[j] = 0 /\ spoilt[j] = 0 /\ removed[j] = 0
    OBVIOUS
  <2>4. Accounted /\ TweetedOnce
    BY <2>3 DEF Accounted, TweetedOnce, Tweeter!TweetedOnce
  <2> QED BY <2>1, <2>2, <2>4 DEF CountInv
<1>2. (LoopInv /\ CountInv) /\ [Tweeter!Next]_Tweeter!vars => (LoopInv /\ CountInv)'
  BY LoopStep, CountStep
<1>3. LoopInv /\ CountInv => TweetedOnce
  BY DEF CountInv
<1> QED BY <1>1, <1>2, <1>3, PTL DEF Tweeter!Spec
-----------------------------------------------------------------------------
(* HeartbeatWatch *)

(***************************************************************************)
(* ReaperIsSound speaks of what was warned of and of which records there    *)
(* are.  Its first part needs that a job's timer counts checks since the    *)
(* last heartbeat (Silent), the second that the record the reaper is about  *)
(* to write is the one it read (Fresh), unless it went in between.          *)
(***************************************************************************)
Record == [there : BOOLEAN, heartbeat : Reaper!Value, lah : Reaper!Value, timer : Nat]

WatchTypes ==
  /\ key \in [Ident -> Record] /\ quiet \in [Ident -> Nat]
  /\ working \subseteq Ident /\ beats \subseteq working
  /\ pc \in {"rest", "read", "compare"} /\ todo \in Seq(Ident)
  /\ pc # "rest" => todo # <<>>

Enough(n, q) == q >= n \/ q >= MaxTimer

\* A deleted record has no heartbeat.  The last acknowledged heartbeat is no newer than the last one; where they are
\* the same, each unit of the timer is a check since then, and so is the
\* acknowledgement itself.
Silent(i) ==
  /\ key[i].heartbeat # None => key[i].there
  /\ key[i].lah = None => key[i].timer = 0
  /\ key[i].lah # None =>
       /\ key[i].heartbeat # None /\ key[i].lah <= key[i].heartbeat
       /\ key[i].heartbeat = key[i].lah => Enough(key[i].timer + 1, quiet[i])

Listed(i) == key[i].there => i \in working \cup ttl \cup recreated

\* The record of which `old' and `new' were read, while it is compared.
Fresh(i) ==
  /\ key[i].there /\ key[i].heartbeat # None
  /\ old = key[i].lah /\ new <= key[i].heartbeat /\ (old # None => old <= new)
  /\ calm >= 1
  /\ quiet[i] = calm \/ new < key[i].heartbeat
  /\ old = new => Enough(key[i].timer + 2, calm)

Comparing ==
  pc = "compare" =>
    /\ new \in Nat /\ old \in Reaper!Value /\ calm \in Nat
    /\ Head(todo) \notin recreated => Fresh(Head(todo))

Warned == \A w \in warned : w.sure => w.calm > Threshold

WatchInv ==
  /\ WatchTypes /\ Comparing /\ Warned
  /\ \A i \in Ident : Listed(i) /\ (i \notin recreated => Silent(i))

-----------------------------------------------------------------------------
LEMMA Ends ==
  ASSUME NEW q \in Seq(Ident), q # <<>>
  PROVE  Head(q) \in Ident /\ Tail(q) \in Seq(Ident)
  OBVIOUS

\* The order in which Redis gives `working' is some sequence of it.
LEMMA Orders ==
  ASSUME NEW W \in SUBSET Ident, W # {}, NEW s \in Reaper!SetToSeqs(W)
  PROVE  s \in Seq(Ident) /\ s # <<>>
<1>1. IsFiniteSet(W)
  BY FS_Subset, WatchAssumption
<1>2. Cardinality(W) \in Nat /\ Cardinality(W) # 0
  BY <1>1, FS_CardinalityType, FS_EmptySet
<1>3. s \in [1..Cardinality(W) -> W]
  BY DEF Reaper!SetToSeqs, Reaper!Cardinality, Cardinality
<1>4. s \in Seq(Ident) /\ Len(s) = Cardinality(W)
  BY <1>2, <1>3
<1> QED BY <1>2, <1>4

LEMMA Fields ==
  ASSUME WatchTypes, NEW i \in Ident
  PROVE  /\ key[i] \in Record /\ key[i].timer \in Nat /\ quiet[i] \in Nat
         /\ key[i].heartbeat \in Nat \cup {None} /\ key[i].lah \in Nat \cup {None}
         /\ key[i].there \in BOOLEAN
  BY DEF WatchTypes, Record, Reaper!Value

-----------------------------------------------------------------------------
(* Jobs *)

LEMMA JobStep ==
  ASSUME WatchInv, NEW i \in Ident,
         Reaper!Start(i) \/ Reaper!Beat(i) \/ Reaper!Silence(i) \/ Reaper!Finish(i) \/ Reaper!Expire(i)
  PROVE  WatchInv'
<1> USE DEF WatchInv
<1>1. CASE Reaper!Start(i)
  <2>1. /\ key' = [key EXCEPT ![i].there = TRUE] /\ ~key[i].there
        /\ working' = working \cup {i} /\ beats' = beats \cup {i}
        /\ UNCHANGED <<ttl, pc, todo, old, new, calm, warned, quiet, recreated>>
    BY <1>1 DEF Reaper!Start, Reaper!check
  <2>2. WatchTypes'
    BY <2>1 DEF WatchTypes, Record
  <2>3. \A j \in Ident : /\ key'[j].heartbeat = key[j].heartbeat /\ key'[j].lah = key[j].lah
                         /\ key'[j].timer = key[j].timer
                         /\ key'[j].there = (key[j].there \/ j = i)
    BY <2>1 DEF WatchTypes, Record
  <2>4. \A j \in Ident : Listed(j)' /\ (j \notin recreated' => Silent(j)')
    BY <2>1, <2>3 DEF Listed, Silent
  <2>5. Comparing'
    <3> SUFFICES ASSUME pc = "compare" PROVE Comparing'
      BY <2>1 DEF Comparing
    <3>1. Head(todo) \in Ident
      BY Ends DEF WatchTypes
    <3> QED BY <2>1, <2>3, <3>1 DEF Comparing, Fresh
  <2> QED BY <2>1, <2>2, <2>4, <2>5 DEF Warned
<1>2. CASE Reaper!Beat(i)
  <2> DEFINE last == IF key[i].heartbeat = None THEN 0 ELSE key[i].heartbeat
  <2>1. /\ key' = [key EXCEPT ![i].heartbeat = last + 1, ![i].there = TRUE]
        /\ quiet' = [quiet EXCEPT ![i] = 0] /\ i \in beats
        /\ UNCHANGED <<working, beats, ttl, pc, todo, old, new, calm, warned, recreated>>
    BY <1>2 DEF Reaper!Beat, Reaper!jobs, Reaper!check
  <2>2. last \in Nat /\ (key[i].heartbeat # None => last = key[i].heartbeat)
    BY Fields
  <2> HIDE DEF last
  <2>3. WatchTypes'
    <3>1. [key[i] EXCEPT !.heartbeat = last + 1, !.there = TRUE] \in Record
      <4>1. last + 1 \in Nat /\ key[i] \in Record
        BY <2>2, Fields
      <4>2. \A r \in Record, n \in Nat : [r EXCEPT !.heartbeat = n, !.there = TRUE] \in Record
        BY DEF Record, Reaper!Value
      <4> QED BY <4>1, <4>2
    <3>2. key' = [key EXCEPT ![i] = [key[i] EXCEPT !.heartbeat = last + 1, !.there = TRUE]]
      BY <2>1 DEF WatchTypes
    <3> QED BY <2>1, <3>1, <3>2 DEF WatchTypes
  <2>4. /\ key'[i].heartbeat = last + 1 /\ key'[i].lah = key[i].lah
        /\ key'[i].timer = key[i].timer /\ key'[i].there
        /\ \A j \in Ident \ {i} : key'[j] = key[j] /\ quiet'[j] = quiet[j]
    BY <2>1 DEF WatchTypes, Record
  <2>5. last + 1 # None
    BY <2>2, WatchAssumption
  <2>6. \A j \in Ident : Listed(j)'
    BY <2>1, <2>4 DEF Listed, WatchTypes
  <2>7. \A j \in Ident \ {i} : j \notin recreated' => Silent(j)'
    BY <2>1, <2>4 DEF Silent
  <2>8. i \notin recreated' => Silent(i)'
    BY <2>1, <2>2, <2>4, <2>5, Fields DEF Silent
  <2>9. Comparing'
    <3> SUFFICES ASSUME pc = "compare" PROVE Comparing'
      BY <2>1 DEF Comparing
    <3>1. Head(todo) \in Ident
      BY Ends DEF WatchTypes
    <3>2. /\ new \in Nat /\ old \in Reaper!Value /\ calm \in Nat
          /\ Head(todo) \notin recreated => Fresh(Head(todo))
      BY DEF Comparing
    <3>3. ASSUME Head(todo) \notin recreated, Head(todo) # i
          PROVE  Fresh(Head(todo))'
      <4>1. key'[Head(todo)] = key[Head(todo)] /\ quiet'[Head(todo)] = quiet[Head(todo)]
        BY <2>4, <3>1, <3>3
      <4> QED BY <2>1, <3>2, <3>3, <4>1 DEF Fresh
    <3>4. ASSUME Head(todo) \notin recreated, Head(todo) = i
          PROVE  Fresh(Head(todo))'
      <4>1. Fresh(i)
        BY <3>2, <3>4
      <4>2. new <= last
        BY <2>2, <4>1 DEF Fresh
      <4>3. new < last + 1 /\ new <= last + 1
        BY <2>2, <3>2, <4>2
      <4>4. Fresh(i)'
        BY <2>1, <2>4, <2>5, <4>1, <4>3 DEF Fresh
      <4> QED BY <2>1, <3>4, <4>4
    <3> QED BY <2>1, <3>2, <3>3, <3>4 DEF Comparing
  <2> QED BY <2>1, <2>3, <2>6, <2>7, <2>8, <2>9 DEF Warned
<1>3. CASE Reaper!Silence(i)
  BY <1>3 DEF Reaper!Silence, Reaper!check, WatchTypes, Comparing, Fresh, Warned, Listed,
     Silent
<1>4. CASE Reaper!Finish(i)
  BY <1>4 DEF Reaper!Finish, Reaper!check, WatchTypes, Comparing, Fresh, Warned, Listed,
     Silent
<1>5. CASE Reaper!Expire(i)
  <2>1. /\ key' = [key EXCEPT ![i] = Reaper!Gone] /\ quiet' = [quiet EXCEPT ![i] = 0]
        /\ ttl' = ttl \ {i}
        /\ recreated' = IF pc = "compare" /\ Head(todo) = i THEN recreated \cup {i}
                        ELSE recreated \ {i}
        /\ UNCHANGED <<working, beats, pc, todo, old, new, calm, warned>>
    BY <1>5 DEF Reaper!Expire, Reaper!check
  <2>2. Reaper!Gone \in Record
    BY DEF Reaper!Gone, Record, Reaper!Value
  <2>3. WatchTypes'
    BY <2>1, <2>2 DEF WatchTypes
  <2>4. /\ key'[i] = Reaper!Gone
        /\ \A j \in Ident \ {i} : key'[j] = key[j] /\ quiet'[j] = quiet[j]
    BY <2>1 DEF WatchTypes
  <2>5. \A j \in Ident : Listed(j)' /\ (j \notin recreated' => Silent(j)')
    BY <2>1, <2>4 DEF Listed, Silent, Reaper!Gone
  <2>6. Comparing'
    <3> SUFFICES ASSUME pc = "compare" PROVE Comparing'
      BY <2>1 DEF Comparing
    <3>1. Head(todo) \in Ident
      BY Ends DEF WatchTypes
    <3> QED BY <2>1, <2>4, <3>1 DEF Comparing, Fresh
  <2> QED BY <2>1, <2>3, <2>5, <2>6 DEF Warned
<1> QED BY <1>1, <1>2, <1>3, <1>4, <1>5

-----------------------------------------------------------------------------
(* Reaper *)

\* What a step leaves when check_one is done with a job.
LEMMA NextIdent ==
  ASSUME WatchTypes, pc # "rest", Reaper!Rest(Tail(todo))
  PROVE  /\ todo' \in Seq(Ident) /\ pc' \in {"rest", "read"}
         /\ pc' # "rest" => todo' # <<>>
  BY Ends DEF WatchTypes, Reaper!Rest

LEMMA ReadStep ==
  ASSUME WatchInv, Reaper!Read
  PROVE  WatchInv'
<1> USE DEF WatchInv
<1>1. Head(todo) \in Ident /\ pc = "read"
  BY Ends DEF WatchTypes, Reaper!Read
<1>0. PICK i \in Ident : i = Head(todo)
  BY <1>1
<1>2. UNCHANGED <<key, working, beats, ttl, warned, recreated>>
  BY DEF Reaper!Read, Reaper!jobs
<1>3. CASE key[i].heartbeat = None
  <2>1. Reaper!Rest(Tail(todo)) /\ UNCHANGED <<old, new, quiet, calm>>
    BY <1>0, <1>3 DEF Reaper!Read
  <2>2. /\ todo' \in Seq(Ident) /\ pc' \in {"rest", "read"}
        /\ pc' # "rest" => todo' # <<>>
    BY <1>1, <2>1, NextIdent
  <2> QED BY <1>2, <2>1, <2>2 DEF WatchTypes, Comparing, Warned, Listed, Silent
<1>4. CASE key[i].heartbeat # None
  <2> DEFINE q == IF quiet[i] < MaxTimer THEN quiet[i] + 1 ELSE quiet[i]
  <2>1. /\ old' = key[i].lah /\ new' = key[i].heartbeat
        /\ quiet' = [quiet EXCEPT ![i] = q] /\ calm' = quiet'[i]
        /\ pc' = "compare" /\ todo' = todo
    BY <1>0, <1>4 DEF Reaper!Read
  <2>2. q \in Nat /\ q >= 1 /\ q >= quiet[i] /\ (q >= quiet[i] + 1 \/ q >= MaxTimer)
    BY <1>1, Fields, WatchAssumption
  <2> HIDE DEF q
  <2>3. quiet' \in [Ident -> Nat] /\ quiet'[i] = q /\ \A j \in Ident \ {i} : quiet'[j] = quiet[j]
    BY <1>1, <2>1, <2>2 DEF WatchTypes
  <2>4. WatchTypes'
    BY <1>1, <1>2, <2>1, <2>3 DEF WatchTypes
  <2>5. \A j \in Ident \ {i} : Listed(j)' /\ (j \notin recreated' => Silent(j)')
    BY <1>2, <2>3 DEF Listed, Silent
  <2>6. Listed(i)'
    BY <1>1, <1>2 DEF Listed
  <2>7. i \notin recreated => Silent(i)'
    <3> SUFFICES ASSUME i \notin recreated PROVE Silent(i)'
      OBVIOUS
    <3>1. Silent(i)
      BY <1>1
    <3>2. Enough(key[i].timer + 1, quiet[i]) => Enough(key[i].timer + 1, q)
      BY <1>1, <2>2, Fields, WatchAssumption DEF Enough
    <3> QED BY <1>2, <2>3, <3>1, <3>2 DEF Silent
  <2>8. i \notin recreated => Fresh(i)'
    <3> SUFFICES ASSUME i \notin recreated PROVE Fresh(i)'
      OBVIOUS
    <3>1. Silent(i) /\ calm' = q
      BY <1>1, <2>1, <2>3
    <3>2. key[i].heartbeat \in Nat
      BY <1>1, <1>4, Fields
    <3>3. Enough(key[i].timer + 1, quiet[i]) => Enough(key[i].timer + 2, q)
      BY <1>1, <2>2, Fields, WatchAssumption DEF Enough
    <3>4. old' = new' => Enough(key[i].timer + 2, calm')
      BY <1>4, <2>1, <3>1, <3>3 DEF Silent
    <3>5. old' # None => old' <= new'
      BY <2>1, <3>1 DEF Silent
    <3> QED BY <1>2, <1>4, <2>1, <2>2, <2>3, <3>1, <3>2, <3>4, <3>5 DEF Fresh, Silent
  <2>9. Comparing'
    <3>1. Head(todo') = i
      BY <1>0, <2>1
    <3>2. new' \in Nat /\ old' \in Reaper!Value /\ calm' \in Nat
      BY <1>1, <1>4, <2>1, <2>2, <2>3, Fields DEF Reaper!Value
    <3> QED BY <1>2, <2>8, <3>1, <3>2 DEF Comparing
  <2>10. \A j \in Ident : Listed(j)' /\ (j \notin recreated' => Silent(j)')
    BY <1>2, <2>5, <2>6, <2>7
  <2>11. Warned'
    BY <1>2 DEF Warned
  <2> QED BY <2>4, <2>9, <2>10, <2>11
<1> QED BY <1>3, <1>4

\* The record after a write of the reaper: whose it is, that it is there, and
\* what is left of the job that was compared.
LEMMA WriteStep ==
  ASSUME WatchInv, pc = "compare", Reaper!Done, NEW r \in Record,
         key' = [key EXCEPT ![Head(todo)] = r], r.there = TRUE,
         r.heartbeat = key[Head(todo)].heartbeat,
         UNCHANGED <<Reaper!jobs, quiet, recreated>>, Warned',
         \A i \in Ident : i = Head(todo) /\ i \notin recreated => Silent(i)'
  PROVE  WatchInv'
<1> USE DEF WatchInv
<1>1. Head(todo) \in Ident /\ UNCHANGED <<working, beats, ttl>>
  BY Ends DEF WatchTypes, Reaper!jobs
<1>0. PICK i \in Ident : i = Head(todo)
  BY <1>1
<1>2. /\ todo' \in Seq(Ident) /\ pc' \in {"rest", "read"}
      /\ pc' # "rest" => todo' # <<>>
  BY NextIdent DEF Reaper!Done
<1>3. i \notin recreated => key[i].there
  BY <1>0 DEF Comparing, Fresh
<1>4. key'[i] = r /\ \A j \in Ident \ {i} : key'[j] = key[j]
  BY <1>0 DEF WatchTypes
<1>5. WatchTypes'
  BY <1>1, <1>2 DEF WatchTypes
<1>6. \A j \in Ident : Listed(j)'
  BY <1>1, <1>3, <1>4 DEF Listed
<1>7. \A j \in Ident : j \notin recreated' => Silent(j)'
  <2>1. i \notin recreated => Silent(i)'
    BY <1>0
  <2>2. \A j \in Ident \ {i} : j \notin recreated => Silent(j)'
    BY <1>4 DEF Silent
  <2> QED BY <2>1, <2>2
<1>8. Comparing'
  BY <1>2 DEF Comparing
<1> QED BY <1>5, <1>6, <1>7, <1>8

\* What the reaper knows when it writes.
LEMMA Known ==
  ASSUME WatchInv, pc = "compare", NEW i \in Ident, i = Head(todo)
  PROVE  /\ new \in Nat /\ old \in Nat \cup {None} /\ calm \in Nat
         /\ i \notin recreated => Fresh(i) /\ Silent(i)
  BY DEF WatchInv, Comparing, Reaper!Value

\* With a newer acknowledgement and the timer at zero a job is silent at most
\* since the check that read the heartbeat.
LEMMA AcknowledgeStep ==
  ASSUME WatchInv, Reaper!AcknowledgeFirst \/ Reaper!Acknowledge
  PROVE  WatchInv'
<1>1. pc = "compare" /\ Reaper!Done /\ UNCHANGED <<Reaper!jobs, warned, quiet, recreated>>
  BY DEF Reaper!AcknowledgeFirst, Reaper!Acknowledge
<1>2. Head(todo) \in Ident
  BY <1>1, Ends DEF WatchInv, WatchTypes
<1>3. PICK i \in Ident : i = Head(todo)
  BY <1>2
<1>4. /\ new \in Nat /\ old \in Nat \cup {None} /\ calm \in Nat
      /\ i \notin recreated => Fresh(i) /\ Silent(i)
  BY <1>1, <1>3, Known
<1>5. \E n \in Nat :
        /\ key' = [key EXCEPT ![i] = [key[i] EXCEPT !.lah = new, !.timer = n, !.there = TRUE]]
        /\ i \notin recreated => n = 0
  <2>0. key \in [Ident -> Record] /\ key[i] \in Record /\ key[i].timer \in Nat
    BY Fields DEF WatchInv, WatchTypes
  <2>1. CASE Reaper!Acknowledge
    BY <1>3, <2>0, <2>1 DEF Reaper!Acknowledge
  <2>2. CASE Reaper!AcknowledgeFirst
    <3>1. key' = [key EXCEPT ![i] = [key[i] EXCEPT !.lah = new, !.timer = key[i].timer,
                                                   !.there = TRUE]]
      BY <1>3, <2>0, <2>2 DEF Reaper!AcknowledgeFirst, Record
    <3>2. i \notin recreated => key[i].timer = 0
      BY <1>4, <2>2 DEF Reaper!AcknowledgeFirst, Fresh, Silent
    <3> QED BY <2>0, <3>1, <3>2
  <2> QED BY <2>1, <2>2
<1>6. PICK n \in Nat :
        /\ key' = [key EXCEPT ![i] = [key[i] EXCEPT !.lah = new, !.timer = n, !.there = TRUE]]
        /\ i \notin recreated => n = 0
  BY <1>5
<1>7. PICK r \in Record : r = [key[i] EXCEPT !.lah = new, !.timer = n, !.there = TRUE]
  <2>1. key[i] \in Record
    BY Fields DEF WatchInv
  <2>2. [key[i] EXCEPT !.lah = new, !.timer = n, !.there = TRUE] \in Record
    BY <1>4, <2>1 DEF Record, Reaper!Value
  <2> QED BY <2>2
<1>8. /\ r.there = TRUE /\ r.heartbeat = key[i].heartbeat /\ r.lah = new /\ r.timer = n
  <2>1. key[i] \in Record
    BY Fields DEF WatchInv
  <2> QED BY <1>7, <2>1 DEF Record
<1>9. key' = [key EXCEPT ![i] = r] /\ key'[i] = r
  BY <1>6, <1>7 DEF WatchInv, WatchTypes
<1>10. i \notin recreated => Silent(i)'
  <2> SUFFICES ASSUME i \notin recreated PROVE Silent(i)'
    OBVIOUS
  <2>1. Fresh(i) /\ n = 0
    BY <1>4, <1>6
  <2>2. quiet[i] \in Nat /\ (quiet[i] >= 1 \/ new < r.heartbeat)
    BY <1>4, <1>8, <2>1, Fields DEF Fresh, WatchInv
  <2>3. r.heartbeat = new => Enough(n + 1, quiet[i])
    BY <1>4, <2>1, <2>2 DEF Enough
  <2>4. r.heartbeat # None /\ new <= r.heartbeat /\ new # None
    BY <1>4, <1>8, <2>1, WatchAssumption DEF Fresh
  <2> QED BY <1>1, <1>8, <1>9, <2>3, <2>4 DEF Silent
<1> QED
  BY <1>1, <1>3, <1>8, <1>9, <1>10, WriteStep DEF WatchInv, Warned

\* A silent check raises the timer, and warns after more checks than that.
LEMMA CountDownStep ==
  ASSUME WatchInv, Reaper!CountDown
  PROVE  WatchInv'
<1>1. /\ pc = "compare" /\ Reaper!Done /\ UNCHANGED <<Reaper!jobs, quiet, recreated>>
      /\ old # None /\ new <= old
  BY DEF Reaper!CountDown, Reaper!Limbo
<1>2. Head(todo) \in Ident
  BY <1>1, Ends DEF WatchInv, WatchTypes
<1>3. PICK i \in Ident : i = Head(todo)
  BY <1>2
<1>4. /\ new \in Nat /\ old \in Nat /\ calm \in Nat
      /\ i \notin recreated => Fresh(i) /\ Silent(i)
  BY <1>1, <1>3, Known
<1>5. key[i] \in Record /\ key[i].timer \in Nat /\ quiet[i] \in Nat
  BY Fields DEF WatchInv
<1>6. i \notin recreated => new = old /\ Enough(key[i].timer + 2, calm)
  BY <1>1, <1>4 DEF Fresh
<1> DEFINE count == key[i].timer + 1
           n == IF count > MaxTimer THEN key[i].timer ELSE count
<1>7. count \in Nat /\ n \in Nat /\ n <= count
  BY <1>5
<1>8. /\ key' = [key EXCEPT ![i] = [key[i] EXCEPT !.timer = n, !.there = TRUE]]
      /\ warned' = IF count >= Threshold
                   THEN warned \cup {[calm |-> calm, sure |-> i \notin recreated]} ELSE warned
  BY <1>3, <1>5 DEF Reaper!CountDown, WatchInv, WatchTypes
<1>9. Warned'
  <2>1. i \notin recreated /\ count >= Threshold => calm > Threshold
    BY <1>4, <1>5, <1>6, WatchAssumption DEF Enough
  <2> SUFFICES ASSUME NEW w \in warned', w.sure PROVE w.calm > Threshold
    BY DEF Warned
  <2>2. CASE w \in warned
    BY <2>2 DEF WatchInv, Warned
  <2>3. CASE w \notin warned
    <3>1. w = [calm |-> calm, sure |-> i \notin recreated] /\ count >= Threshold
      BY <1>8, <2>3
    <3>2. w.calm = calm /\ (w.sure => i \notin recreated)
      BY <3>1, Zenon
    <3> QED BY <2>1, <3>1, <3>2
  <2> QED BY <2>2, <2>3
<1> HIDE DEF n
<1>10. PICK r \in Record : r = [key[i] EXCEPT !.timer = n, !.there = TRUE]
  <2>1. [key[i] EXCEPT !.timer = n, !.there = TRUE] \in Record
    BY <1>5, <1>7 DEF Record
  <2> QED BY <2>1
<1>11. /\ r.there = TRUE /\ r.heartbeat = key[i].heartbeat /\ r.lah = key[i].lah /\ r.timer = n
  BY <1>5, <1>10 DEF Record
<1>12. key' = [key EXCEPT ![i] = r] /\ key'[i] = r
  BY <1>8, <1>10 DEF WatchInv, WatchTypes
<1>13. i \notin recreated => Silent(i)'
  <2> SUFFICES ASSUME i \notin recreated PROVE Silent(i)'
    OBVIOUS
  <2>1. Fresh(i) /\ Silent(i) /\ old = key[i].lah /\ new = old
    BY <1>4, <1>6 DEF Fresh
  <2>2. key[i].heartbeat = key[i].lah => quiet[i] = calm
    BY <1>4, <2>1 DEF Fresh
  <2>3. key[i].heartbeat = key[i].lah => Enough(n + 1, quiet[i])
    BY <1>4, <1>5, <1>6, <1>7, <2>2, WatchAssumption DEF Enough
  <2> QED BY <1>1, <1>11, <1>12, <2>1, <2>3 DEF Silent
<1> QED BY <1>1, <1>3, <1>9, <1>11, <1>12, <1>13, WriteStep

-----------------------------------------------------------------------------
LEMMA WatchStep == WatchInv /\ [Reaper!Next]_Reaper!vars => WatchInv'
<1> SUFFICES ASSUME WatchInv, [Reaper!Next]_Reaper!vars PROVE WatchInv'
  OBVIOUS
<1>1. CASE Reaper!List
  <2>1. /\ todo' \in Reaper!SetToSeqs(working) /\ working # {} /\ pc' = "read"
        /\ UNCHANGED <<key, working, beats, ttl, old, new, calm, warned, quiet, recreated>>
    BY <1>1 DEF Reaper!List, Reaper!jobs
  <2>2. todo' \in Seq(Ident) /\ todo' # <<>>
    BY <2>1, Orders DEF WatchInv, WatchTypes
  <2> QED BY <2>1, <2>2 DEF WatchInv, WatchTypes, Comparing, Warned, Listed, Silent
<1>2. CASE Reaper!Restart
  BY <1>2 DEF Reaper!Restart, Reaper!jobs, WatchInv, WatchTypes, Comparing, Warned, Listed,
     Silent
<1>3. CASE UNCHANGED Reaper!vars
  BY <1>3 DEF Reaper!vars, Reaper!jobs, Reaper!check, WatchInv, WatchTypes, Comparing,
     Fresh, Warned, Listed, Silent
<1> QED
  BY <1>1, <1>2, <1>3, JobStep, ReadStep, AcknowledgeStep, CountDownStep DEF Reaper!Next,
     Reaper!Reaper

\* The reaper warns only of jobs that were silent for more checks in a row than
\* the threshold, and leaves no key that is neither of a job at work nor about
\* to expire, except those deleted between its read and its write: for any
\* jobs, threshold and number of restarts.
THEOREM ReaperIsAlwaysSound ==
  Reaper!Spec => []ReaperIsSound
<1>1. Reaper!Init => WatchInv
  <2> SUFFICES ASSUME Reaper!Init PROVE WatchInv
    OBVIOUS
  <2>1. Reaper!Gone \in Record
    BY DEF Reaper!Gone, Record, Reaper!Value
  <2>2. WatchTypes
    BY <2>1 DEF Reaper!Init, WatchTypes
  <2>3. \A i \in Ident : key[i] = Reaper!Gone
    BY DEF Reaper!Init
  <2>4. \A i \in Ident : Listed(i) /\ Silent(i)
    BY <2>3 DEF Reaper!Gone, Listed, Silent
  <2> QED BY <2>2, <2>4 DEF Reaper!Init, WatchInv, Comparing, Warned
<1>2. WatchInv /\ [Reaper!Next]_Reaper!vars => WatchInv'
  BY WatchStep
<1>3. WatchInv => ReaperIsSound
  BY DEF WatchInv, Warned, Listed, ReaperIsSound, Reaper!ReaperIsSound
<1> QED BY <1>1, <1>2, <1>3, PTL DEF Reaper!Spec

-----------------------------------------------------------------------------
(* PendingReversal *)

(***************************************************************************)
(* For EachOnce one has to know what a tool is about to write: of a job that *)
(* did not move since its LRANGE, what the tool read holds as many as        *)
(* `pending' does (SameAs), because a write to `pending' after WATCH makes    *)
(* its MULTI fail.  A job that was not queued yet is nowhere (Unknown).      *)
(***************************************************************************)
Absent(s, j) == \A m \in 1..Len(s) : s[m] # j
Once(s, j) == \E n \in 1..Len(s) : s[n] = j /\ \A m \in 1..Len(s) : s[m] = j => m = n

TurnTypes ==
  /\ pending \in Seq(PendingJob) /\ worked \subseteq PendingJob /\ over \subseteq PendingJob /\ queued \subseteq PendingJob
  /\ all \in [Tool -> Seq(PendingJob)] /\ tool \in [Tool -> {"off", "watch", "multi"}]

Unknown(j) ==
  /\ Absent(pending, j) /\ j \notin worked \cup over \cup slipped
  /\ \A t \in Tool : Absent(all[t], j) /\ j \notin moved[t]

InOnePlace(j) ==
  \/ Once(pending, j) /\ j \notin worked /\ j \notin over
  \/ Absent(pending, j) /\ j \in worked /\ j \notin over
  \/ Absent(pending, j) /\ j \notin worked /\ j \in over

SameAs(r, s, j) == (Absent(r, j) /\ Absent(s, j)) \/ (Once(r, j) /\ Once(s, j))

WillHold(t, j) ==
  tool[t] = "watch" \/ (tool[t] = "multi" /\ ~dirty[t]) =>
    j \in moved[t] \cup slipped \/ SameAs(all[t], pending, j)

JobInv(j) ==
  /\ j \notin queued => Unknown(j)
  /\ j \in queued => j \in slipped \/ InOnePlace(j)
  /\ \A t \in Tool : WillHold(t, j)

TurnInv == TurnTypes /\ \A j \in PendingJob : JobInv(j)

-----------------------------------------------------------------------------
LEMMA AddedFirst ==
  ASSUME NEW s \in Seq(PendingJob), NEW k \in PendingJob
  PROVE  /\ <<k>> \o s \in Seq(PendingJob)
         /\ Absent(s, k) => Once(<<k>> \o s, k)
         /\ \A j : j # k /\ Absent(s, j) => Absent(<<k>> \o s, j)
         /\ \A j : j # k /\ Once(s, j) => Once(<<k>> \o s, j)
<1>1. PICK r : r = <<k>> \o s
  OBVIOUS
<1>2. PICK n \in Nat : n = Len(s)
  OBVIOUS
<1>3. r \in Seq(PendingJob) /\ Len(r) = n + 1 /\ r[1] = k /\ \A m \in 1..n : r[m + 1] = s[m]
  BY <1>1, <1>2
<1>4. \A m \in 1..(n + 1) : m # 1 => m - 1 \in 1..n /\ r[m] = s[m - 1]
  <2>1. ASSUME NEW m \in 1..(n + 1), m # 1 PROVE m - 1 \in 1..n /\ (m - 1) + 1 = m
    BY <2>1
  <2> QED BY <1>3, <2>1
<1>5. ASSUME Absent(s, k) PROVE Once(r, k)
  <2>1. \A m \in 1..(n + 1) : r[m] = k => m = 1
    BY <1>2, <1>4, <1>5 DEF Absent
  <2> QED BY <1>3, <2>1 DEF Once
<1>6. ASSUME NEW j, j # k, Absent(s, j) PROVE Absent(r, j)
  BY <1>2, <1>3, <1>4, <1>6 DEF Absent
<1>7. ASSUME NEW j, j # k, Once(s, j) PROVE Once(r, j)
  <2>1. PICK x \in 1..n : s[x] = j /\ \A m \in 1..n : s[m] = j => m = x
    BY <1>2, <1>7 DEF Once
  <2>2. r[x + 1] = j /\ x + 1 \in 1..(n + 1)
    BY <1>3, <2>1
  <2>3. \A m \in 1..(n + 1) : r[m] = j => m = x + 1
    <3>1. ASSUME NEW m \in 1..(n + 1), r[m] = j PROVE m = x + 1
      <4>1. m # 1
        BY <1>3, <1>7, <3>1
      <4>2. m - 1 \in 1..n /\ s[m - 1] = j
        BY <1>4, <3>1, <4>1
      <4>3. m - 1 = x
        BY <2>1, <4>2
      <4> QED BY <4>3
    <3> QED BY <3>1
  <2> QED BY <1>3, <2>2, <2>3 DEF Once
<1> QED BY <1>1, <1>3, <1>5, <1>6, <1>7

LEMMA LastTaken ==
  ASSUME NEW s \in Seq(PendingJob), s # <<>>
  PROVE  /\ Turning!Front(s) \in Seq(PendingJob) /\ Turning!Last(s) \in PendingJob /\ ~Absent(s, Turning!Last(s))
         /\ Once(s, Turning!Last(s)) => Absent(Turning!Front(s), Turning!Last(s))
         /\ \A j : Absent(s, j) => Absent(Turning!Front(s), j)
         /\ \A j : j # Turning!Last(s) /\ Once(s, j) => Once(Turning!Front(s), j)
<1>1. PICK n \in Nat : n + 1 = Len(s)
  <2>1. Len(s) \in Nat /\ Len(s) # 0
    OBVIOUS
  <2> QED BY <2>1
<1>2. PICK r : r = Turning!Front(s)
  OBVIOUS
<1>3. PICK l : l = Turning!Last(s)
  OBVIOUS
<1>4. r \in Seq(PendingJob) /\ Len(r) = n /\ \A m \in 1..n : r[m] = s[m]
  BY <1>1, <1>2 DEF Turning!Front
<1>5. l \in PendingJob /\ s[n + 1] = l /\ n + 1 \in 1..(n + 1)
  BY <1>1, <1>3 DEF Turning!Last
<1>6. ~Absent(s, l)
  BY <1>1, <1>5 DEF Absent
<1>7. ASSUME Once(s, l) PROVE Absent(r, l)
  <2>1. \A m \in 1..(n + 1) : s[m] = l => m = n + 1
    BY <1>1, <1>5, <1>7 DEF Once
  <2> QED BY <1>4, <2>1 DEF Absent
<1>8. ASSUME NEW j, Absent(s, j) PROVE Absent(r, j)
  BY <1>1, <1>4, <1>8 DEF Absent
<1>9. ASSUME NEW j, j # l, Once(s, j) PROVE Once(r, j)
  <2>1. PICK x \in 1..(n + 1) : s[x] = j /\ \A m \in 1..(n + 1) : s[m] = j => m = x
    BY <1>1, <1>9 DEF Once
  <2>2. x \in 1..n
    BY <1>5, <1>9, <2>1
  <2>3. r[x] = j /\ \A m \in 1..n : r[m] = j => m = x
    BY <1>4, <2>1, <2>2
  <2> QED BY <1>4, <2>2, <2>3 DEF Once
<1> QED BY <1>2, <1>3, <1>4, <1>5, <1>6, <1>7, <1>8, <1>9

LEMMA TurnedRound ==
  ASSUME NEW s \in Seq(PendingJob)
  PROVE  /\ Turning!Reverse(s) \in Seq(PendingJob)
         /\ \A j : Absent(s, j) => Absent(Turning!Reverse(s), j)
         /\ \A j : Once(s, j) => Once(Turning!Reverse(s), j)
<1>1. PICK n \in Nat : n = Len(s)
  OBVIOUS
<1>2. PICK r : r = Turning!Reverse(s)
  OBVIOUS
<1>3. r \in Seq(PendingJob) /\ Len(r) = n /\ \A m \in 1..n : r[m] = s[(n - m) + 1]
  BY <1>1, <1>2 DEF Turning!Reverse
<1>4. \A m \in 1..n : (n - m) + 1 \in 1..n /\ (n - ((n - m) + 1)) + 1 = m
  OBVIOUS
<1>5. ASSUME NEW j, Absent(s, j) PROVE Absent(r, j)
  BY <1>1, <1>3, <1>4, <1>5 DEF Absent
<1>6. ASSUME NEW j, Once(s, j) PROVE Once(r, j)
  <2>1. PICK x \in 1..n : s[x] = j /\ \A m \in 1..n : s[m] = j => m = x
    BY <1>1, <1>6 DEF Once
  <2>2. PICK y \in 1..n : y = (n - x) + 1 /\ x = (n - y) + 1
    BY <1>4
  <2>3. r[y] = j
    BY <1>3, <2>1, <2>2
  <2>4. ASSUME NEW m \in 1..n, r[m] = j PROVE m = y
    <3>1. (n - m) + 1 = x
      BY <1>3, <1>4, <2>1, <2>4
    <3> QED BY <2>2, <3>1
  <2> QED BY <1>3, <2>3, <2>4 DEF Once
<1> QED BY <1>2, <1>3, <1>5, <1>6

LEMMA TakenOut ==
  ASSUME pending \in Seq(PendingJob), NEW k, NEW r \in Turning!Without(k)
  PROVE  /\ r \in Seq(PendingJob) /\ Absent(r, k)
         /\ \A j : Absent(pending, j) => Absent(r, j)
         /\ \A j : j # k /\ Once(pending, j) => Once(r, j)
<1>1. PICK n \in Nat : n = Len(pending) /\ DOMAIN pending = 1..n
  OBVIOUS
<1>2. PICK kept : kept = {m \in DOMAIN pending : pending[m] # k}
  OBVIOUS
<1>3. Cardinality(kept) \in Nat
  <2>1. IsFiniteSet(1..n)
    BY FS_Interval
  <2>2. kept \subseteq 1..n
    BY <1>1, <1>2
  <2>3. IsFiniteSet(kept)
    BY <2>1, <2>2, FS_Subset
  <2> QED BY <2>3, FS_CardinalityType
<1>4. PICK size, f : /\ size \in Nat /\ f \in Turning!Bijection(1..size, kept)
                     /\ r = [m \in 1..size |-> pending[f[m]]]
  <2>1. PICK size : size = Turning!Cardinality(kept) /\ size = Cardinality(kept)
    BY DEF Turning!Cardinality, Cardinality
  <2>2. \E f \in {g \in Turning!Bijection(1..size, kept) : \A x, y \in 1..size : x < y => g[x] < g[y]} :
          r = [m \in 1..size |-> pending[f[m]]]
    BY <1>2, <2>1 DEF Turning!Without
  <2> QED BY <1>3, <2>1, <2>2
<1>5. /\ \A m \in 1..size : f[m] \in kept
      /\ \A x, y \in 1..size : f[x] = f[y] => x = y
      /\ \A x \in kept : \E m \in 1..size : f[m] = x
  <2>1. f \in Turning!Injection(1..size, kept) /\ f \in Turning!Surjection(1..size, kept)
    BY <1>4 DEF Turning!Bijection
  <2>2. f \in [1..size -> kept] /\ \A x, y \in 1..size : f[x] = f[y] => x = y
    BY <2>1 DEF Turning!Injection, Turning!IsInjective
  <2>3. \A x \in kept : \E m \in 1..size : f[m] = x
    BY <2>1 DEF Turning!Surjection
  <2> QED BY <2>2, <2>3
<1>6. /\ Len(r) = size /\ r \in Seq(PendingJob)
      /\ \A m \in 1..size : f[m] \in 1..n /\ r[m] = pending[f[m]] /\ r[m] # k
  <2>1. \A m \in 1..size : f[m] \in 1..n /\ pending[f[m]] # k /\ pending[f[m]] \in PendingJob
    BY <1>1, <1>2, <1>5
  <2>2. r \in [1..size -> PendingJob]
    BY <1>4, <2>1
  <2> QED BY <1>4, <2>1, <2>2
<1>7. Absent(r, k)
  BY <1>6 DEF Absent
<1>8. ASSUME NEW j, Absent(pending, j) PROVE Absent(r, j)
  BY <1>1, <1>6, <1>8 DEF Absent
<1>9. ASSUME NEW j, j # k, Once(pending, j) PROVE Once(r, j)
  <2>1. PICK x \in 1..n : pending[x] = j /\ \A m \in 1..n : pending[m] = j => m = x
    BY <1>1, <1>9 DEF Once
  <2>2. PICK y \in 1..size : f[y] = x
    BY <1>1, <1>2, <1>5, <1>9, <2>1
  <2>3. r[y] = j /\ \A m \in 1..size : r[m] = j => m = y
    <3>1. r[y] = j
      BY <1>6, <2>1, <2>2
    <3>2. ASSUME NEW m \in 1..size, r[m] = j PROVE m = y
      <4>1. f[m] \in 1..n /\ pending[f[m]] = j
        BY <1>6, <3>2
      <4>2. f[m] = f[y]
        BY <2>1, <2>2, <4>1
      <4> QED BY <1>5, <4>2
    <3> QED BY <3>1, <3>2
  <2> QED BY <1>6, <2>3 DEF Once
<1> QED BY <1>6, <1>7, <1>8, <1>9

\* Nothing is both.
LEMMA NotBoth == ASSUME NEW s, NEW j, Absent(s, j), Once(s, j) PROVE FALSE
  BY DEF Absent, Once

LEMMA InPending ==
  ASSUME pending \in Seq(PendingJob), NEW j
  PROVE  j \in Turning!ToSet(pending) <=> ~Absent(pending, j)
  BY DEF Turning!ToSet, Absent

-----------------------------------------------------------------------------
\* `pending' is written with job k: the others are where they were.
LEMMA WrittenKeeps ==
  ASSUME TurnInv, NEW k \in PendingJob, Turning!Written({k}),
         \A j \in PendingJob \ {k} : /\ Absent(pending, j) => Absent(pending, j)'
                                     /\ Once(pending, j) => Once(pending, j)'
                                     /\ j \in queued' <=> j \in queued
                                     /\ j \in worked' <=> j \in worked
                                     /\ j \in over' <=> j \in over,
         k \in queued', k \in slipped \/ InOnePlace(k)'
  PROVE  \A j \in PendingJob : JobInv(j)'
<1>1. /\ tool' = tool /\ all' = all /\ slipped' = slipped
      /\ \A t \in Tool : /\ dirty'[t] <=> dirty[t] \/ tool[t] = "multi"
                         /\ moved'[t] = IF tool[t] = "watch" THEN moved[t] \cup {k} ELSE moved[t]
  BY DEF Turning!Written
<1>2. JobInv(k)'
  <2>1. \A t \in Tool : WillHold(t, k)'
    BY <1>1 DEF WillHold, TurnInv, TurnTypes
  <2> QED BY <1>1, <2>1 DEF JobInv
<1>3. ASSUME NEW j \in PendingJob, j # k PROVE JobInv(j)'
  <2>1. JobInv(j)
    BY DEF TurnInv
  <2>2. j \notin queued' => Unknown(j)'
    BY <1>1, <1>3, <2>1 DEF JobInv, Unknown, Absent
  <2>3. j \in queued' => j \in slipped' \/ InOnePlace(j)'
    BY <1>1, <1>3, <2>1 DEF JobInv, InOnePlace
  <2>4. ASSUME NEW t \in Tool PROVE WillHold(t, j)'
    <3>1. WillHold(t, j)
      BY <2>1 DEF JobInv
    <3>2. SameAs(all[t], pending, j) => SameAs(all[t], pending, j)'
      BY <1>1, <1>3 DEF SameAs, Absent, Once
    <3> QED BY <1>1, <3>1, <3>2 DEF WillHold
  <2> QED BY <2>2, <2>3, <2>4 DEF JobInv
<1> QED BY <1>2, <1>3

LEMMA QueueKeeps ==
  ASSUME TurnInv, NEW k \in PendingJob, Turning!Queue(k)
  PROVE  TurnInv'
<1>1. TurnTypes /\ JobInv(k) /\ k \notin queued
  BY DEF TurnInv, Turning!Queue
<1>2. PICK s \in Seq(PendingJob) : s = pending /\ pending' = <<k>> \o s
  BY <1>1 DEF TurnTypes, Turning!Queue
<1>3. /\ <<k>> \o s \in Seq(PendingJob)
      /\ Absent(s, k) => Once(<<k>> \o s, k)
      /\ \A j : j # k /\ Absent(s, j) => Absent(<<k>> \o s, j)
      /\ \A j : j # k /\ Once(s, j) => Once(<<k>> \o s, j)
  BY AddedFirst
<1>4. /\ Absent(s, k) /\ k \notin worked \cup over
      /\ Turning!Written({k}) /\ queued' = queued \cup {k} /\ worked' = worked /\ over' = over
  BY <1>1, <1>2 DEF JobInv, Unknown, Turning!Queue
<1>5. TurnTypes'
  BY <1>1, <1>2, <1>3, <1>4 DEF TurnTypes, Turning!Written
<1>6. InOnePlace(k)'
  BY <1>2, <1>3, <1>4 DEF InOnePlace
<1>7. \A j \in PendingJob \ {k} : (Absent(pending, j) => Absent(pending, j)') /\ (Once(pending, j) => Once(pending, j)')
  BY <1>2, <1>3
<1>8. \A j \in PendingJob : JobInv(j)'
  BY <1>4, <1>6, <1>7, WrittenKeeps
<1> QED BY <1>5, <1>8 DEF TurnInv

LEMMA DequeueKeeps ==
  ASSUME TurnInv, Turning!Dequeue
  PROVE  TurnInv'
<1>1. TurnTypes
  BY DEF TurnInv
<1>2. PICK s \in Seq(PendingJob) : s = pending /\ s # <<>> /\ pending' = Turning!Front(s)
  BY <1>1 DEF TurnTypes, Turning!Dequeue
<1>3. PICK k : k = Turning!Last(s)
  OBVIOUS
<1>4. /\ Turning!Front(s) \in Seq(PendingJob) /\ k \in PendingJob /\ ~Absent(s, k)
      /\ Once(s, k) => Absent(Turning!Front(s), k)
      /\ \A j : Absent(s, j) => Absent(Turning!Front(s), j)
      /\ \A j : j # k /\ Once(s, j) => Once(Turning!Front(s), j)
  BY <1>2, <1>3, LastTaken
<1>5. JobInv(k) /\ k \in queued
  BY <1>2, <1>4 DEF TurnInv, JobInv, Unknown
<1>6. Turning!Written({k}) /\ worked' = worked \cup {k} /\ queued' = queued /\ over' = over
  BY <1>2, <1>3 DEF Turning!Dequeue
<1>7. TurnTypes'
  BY <1>1, <1>2, <1>4, <1>6 DEF TurnTypes, Turning!Written
<1>8. k \in slipped \/ InOnePlace(k)'
  <2>1. ASSUME k \notin slipped PROVE Once(s, k) /\ k \notin over
    BY <1>2, <1>4, <1>5, <2>1 DEF JobInv, InOnePlace
  <2> QED BY <1>2, <1>4, <1>6, <2>1 DEF InOnePlace
<1>9. \A j \in PendingJob \ {k} : (Absent(pending, j) => Absent(pending, j)') /\ (Once(pending, j) => Once(pending, j)')
  BY <1>2, <1>4
<1>10. \A j \in PendingJob : JobInv(j)'
  BY <1>4, <1>5, <1>6, <1>8, <1>9, WrittenKeeps
<1> QED BY <1>7, <1>10 DEF TurnInv

\* A job leaves the lists for good.
LEMMA EndKeeps ==
  ASSUME TurnInv, NEW k \in PendingJob, Turning!Fail(k) \/ Turning!MarkDone(k)
  PROVE  TurnInv'
<1>1. TurnTypes /\ JobInv(k)
  BY DEF TurnInv
<1>2. k \in queued /\ queued' = queued /\ worked' = worked \ {k} /\ over' = over \cup {k}
  <2>1. ~Absent(pending, k) \/ k \in worked
    BY <1>1, InPending DEF Turning!Fail, Turning!MarkDone, TurnTypes
  <2> QED BY <1>1, <2>1 DEF JobInv, Unknown, Turning!Fail, Turning!MarkDone
<1>3. /\ pending' \in Seq(PendingJob) /\ (k \in slipped \/ Absent(pending, k)')
      /\ Absent(pending, k) => Absent(pending, k)'
      /\ \A j \in PendingJob \ {k} : /\ Absent(pending, j) => Absent(pending, j)'
                                     /\ Once(pending, j) => Once(pending, j)'
  <2>1. CASE Turning!Fail(k)
    <3>1. pending' \in Turning!Without(k) /\ pending \in Seq(PendingJob)
      BY <1>1, <2>1 DEF Turning!Fail, TurnTypes
    <3> QED BY <3>1, TakenOut
  <2>2. CASE Turning!MarkDone(k)
    <3>1. pending' = pending /\ k \in worked /\ pending \in Seq(PendingJob)
      BY <1>1, <2>2 DEF Turning!MarkDone, TurnTypes
    <3>2. k \in slipped \/ Absent(pending, k)
      BY <1>1, <1>2, <3>1 DEF JobInv, InOnePlace
    <3> QED BY <3>1, <3>2 DEF Absent, Once
  <2> QED BY <2>1, <2>2
<1>4. k \in slipped \/ InOnePlace(k)'
  BY <1>2, <1>3 DEF InOnePlace
<1>5. Turning!Written({k}) \/ (UNCHANGED <<Turning!tools, slipped>> /\ Absent(pending, k))
     \/ (UNCHANGED <<Turning!tools, slipped>> /\ pending' = pending)
  BY <1>1, InPending DEF Turning!Fail, Turning!MarkDone, TurnTypes
<1>6. TurnTypes'
  BY <1>1, <1>2, <1>3, <1>5 DEF TurnTypes, Turning!Written, Turning!tools
<1>7. CASE Turning!Written({k})
  <2>1. \A j \in PendingJob : JobInv(j)'
    BY <1>2, <1>3, <1>4, <1>7, WrittenKeeps
  <2> QED BY <1>6, <2>1 DEF TurnInv
<1>8. CASE /\ UNCHANGED <<Turning!tools, slipped>>
           /\ Absent(pending, k) \/ pending' = pending
  <2>1. ASSUME NEW j \in PendingJob PROVE JobInv(j)'
    <3>1. JobInv(j)
      BY DEF TurnInv
    <3>2. j \notin queued' => Unknown(j)'
      BY <1>2, <1>3, <1>8, <3>1 DEF JobInv, Unknown, Absent, Turning!tools
    <3>3. j \in queued' => j \in slipped' \/ InOnePlace(j)'
      <4>1. CASE j = k
        BY <1>4, <1>8, <4>1
      <4>2. CASE j # k
        BY <1>2, <1>3, <1>8, <3>1, <4>2 DEF JobInv, InOnePlace
      <4> QED BY <4>1, <4>2
    <3>4. ASSUME NEW t \in Tool PROVE WillHold(t, j)'
      <4>1. WillHold(t, j)
        BY <3>1 DEF JobInv
      <4>2. SameAs(all[t], pending, j) => SameAs(all[t], pending, j)'
        <5>1. Absent(pending, j) => Absent(pending, j)'
          BY <1>3
        <5>2. Once(pending, j) => Once(pending, j)'
          <6>1. CASE pending' = pending
            BY <6>1 DEF Once
          <6>2. CASE Absent(pending, k)
            BY <1>3, <6>2, NotBoth
          <6> QED BY <1>8, <6>1, <6>2
        <5> QED BY <1>8, <5>1, <5>2 DEF SameAs, Absent, Once, Turning!tools
      <4> QED BY <1>8, <4>1, <4>2 DEF WillHold, Turning!tools
    <3> QED BY <3>2, <3>3, <3>4 DEF JobInv
  <2> QED BY <1>6, <2>1 DEF TurnInv
<1> QED BY <1>5, <1>7, <1>8

LEMMA LrangeKeeps ==
  ASSUME TurnInv, NEW t \in Tool, Turning!Lrange(t)
  PROVE  TurnInv'
<1>1. TurnTypes
  BY DEF TurnInv
<1>2. /\ UNCHANGED <<Turning!queues, dirty, moved, slipped>>
      /\ tool' = [tool EXCEPT ![t] = "watch"] /\ all' = [all EXCEPT ![t] = pending]
  BY DEF Turning!Lrange
<1>3. TurnTypes'
  BY <1>1, <1>2 DEF TurnTypes, Turning!queues
<1>4. ASSUME NEW j \in PendingJob PROVE JobInv(j)'
  <2>1. JobInv(j)
    BY DEF TurnInv
  <2>2. j \notin queued' => Unknown(j)'
    BY <1>1, <1>2, <2>1 DEF JobInv, Unknown, Absent, Turning!queues, TurnTypes
  <2>3. j \in queued' => j \in slipped' \/ InOnePlace(j)'
    BY <1>2, <2>1 DEF JobInv, InOnePlace, Absent, Once, Turning!queues
  <2>4. ASSUME NEW u \in Tool PROVE WillHold(u, j)'
    <3>1. CASE u # t
      <4>1. WillHold(u, j)
        BY <2>1 DEF JobInv
      <4> QED BY <1>1, <1>2, <3>1, <4>1 DEF WillHold, SameAs, Absent, Once, Turning!queues,
                 TurnTypes
    <3>2. CASE u = t
      <4>1. j \in slipped \/ Absent(pending, j) \/ Once(pending, j)
        BY <2>1 DEF JobInv, Unknown, InOnePlace
      <4>2. all'[u] = pending /\ pending' = pending /\ slipped' = slipped
        BY <1>1, <1>2, <3>2 DEF TurnTypes, Turning!queues
      <4> QED BY <4>1, <4>2 DEF WillHold, SameAs, Absent, Once
    <3> QED BY <3>1, <3>2
  <2> QED BY <2>2, <2>3, <2>4 DEF JobInv
<1> QED BY <1>3, <1>4 DEF TurnInv

LEMMA WatchKeeps ==
  ASSUME TurnInv, NEW t \in Tool, Turning!Watch(t)
  PROVE  TurnInv'
<1>1. TurnTypes
  BY DEF TurnInv
<1>2. /\ UNCHANGED <<Turning!queues, all, dirty, moved, slipped>>
      /\ tool[t] = "watch" /\ tool' = [tool EXCEPT ![t] = "multi"]
  BY DEF Turning!Watch
<1>3. TurnTypes'
  BY <1>1, <1>2 DEF TurnTypes, Turning!queues
<1>4. ASSUME NEW j \in PendingJob PROVE JobInv(j)'
  <2>1. JobInv(j)
    BY DEF TurnInv
  <2>2. \A u \in Tool : WillHold(u, j)'
    BY <1>1, <1>2, <2>1 DEF JobInv, WillHold, SameAs, Absent, Once, Turning!queues,
       TurnTypes
  <2> QED BY <1>2, <2>1, <2>2 DEF JobInv, Unknown, InOnePlace, Absent, Once, Turning!queues
<1> QED BY <1>3, <1>4 DEF TurnInv

\* The end of a tool, whether its EXEC was done or not.
LEMMA ExitKeeps ==
  ASSUME TurnInv, NEW t \in Tool, NEW wrote \in BOOLEAN, Turning!Exit(t, wrote), pending' \in Seq(PendingJob),
         worked' = worked, over' = over, queued' = queued, slipped' = slipped \cup moved[t] \/ slipped' = slipped,
         \A j \in PendingJob \ slipped' : /\ Absent(pending, j) => Absent(pending, j)'
                                          /\ Once(pending, j) => Once(pending, j)'
  PROVE  TurnInv'
<1>1. TurnTypes
  BY DEF TurnInv
<1>2. /\ tool' = [tool EXCEPT ![t] = "off"] /\ all' = [all EXCEPT ![t] = <<>>]
      /\ moved' = [moved EXCEPT ![t] = {}]
      /\ \A u \in Tool : u # t /\ ~dirty'[u] => ~dirty[u]
  BY DEF Turning!Exit
<1>3. TurnTypes'
  <2>1. <<>> \in Seq(PendingJob)
    OBVIOUS
  <2> QED BY <1>1, <1>2, <2>1 DEF TurnTypes
<1>4. ASSUME NEW j \in PendingJob PROVE JobInv(j)'
  <2>1. JobInv(j)
    BY DEF TurnInv
  <2>2. ASSUME j \notin queued' PROVE Unknown(j)'
    <3>1. Unknown(j) /\ j \notin slipped'
      BY <2>1, <2>2 DEF JobInv, Unknown
    <3>2. Absent(pending, j)' /\ j \notin (worked \cup over \cup slipped)'
      BY <3>1 DEF Unknown
    <3>3. ASSUME NEW u \in Tool PROVE Absent(all[u], j)' /\ j \notin moved'[u]
      <4>1. all'[u] = all[u] \/ all'[u] = <<>>
        BY <1>1, <1>2 DEF TurnTypes
      <4>2. j \notin moved[u] /\ Absent(all[u], j)
        BY <3>1 DEF Unknown
      <4>3. j \notin moved'[u]
        BY <1>2, <4>2
      <4> QED BY <4>1, <4>2, <4>3 DEF Absent
    <3> QED BY <3>2, <3>3 DEF Unknown
  <2>3. j \in queued' => j \in slipped' \/ InOnePlace(j)'
    BY <2>1 DEF JobInv, InOnePlace
  <2>4. ASSUME NEW u \in Tool PROVE WillHold(u, j)'
    <3>1. CASE u = t
      BY <1>1, <1>2, <3>1 DEF WillHold, TurnTypes
    <3>2. CASE u # t
      <4>1. WillHold(u, j)
        BY <2>1 DEF JobInv
      <4>2. tool'[u] = tool[u] /\ all'[u] = all[u] /\ (~dirty'[u] => ~dirty[u]) /\ (j \in moved[u] => j \in moved'[u])
        BY <1>1, <1>2, <3>2 DEF TurnTypes
      <4>3. j \notin slipped' /\ SameAs(all[u], pending, j) => SameAs(all[u], pending, j)'
        BY <4>2 DEF SameAs, Absent, Once
      <4> QED BY <4>1, <4>2, <4>3 DEF WillHold
    <3> QED BY <3>1, <3>2
  <2> QED BY <2>2, <2>3, <2>4 DEF JobInv
<1> QED BY <1>3, <1>4 DEF TurnInv

LEMMA MultiKeeps ==
  ASSUME TurnInv, NEW t \in Tool, Turning!Multi(t)
  PROVE  TurnInv'
<1>1. TurnTypes /\ tool[t] = "multi" /\ ~dirty[t]
  BY DEF TurnInv, Turning!Multi, Turning!Commit
<1>2. PICK s \in Seq(PendingJob) : s = all[t] /\ pending' = Turning!Reverse(s)
  BY <1>1 DEF TurnTypes, Turning!Multi, Turning!Commit
<1>3. /\ Turning!Reverse(s) \in Seq(PendingJob)
      /\ \A j : Absent(s, j) => Absent(Turning!Reverse(s), j)
      /\ \A j : Once(s, j) => Once(Turning!Reverse(s), j)
  BY TurnedRound
<1>4. PICK wrote \in BOOLEAN : Turning!Exit(t, wrote)
  BY DEF Turning!Multi, Turning!Commit
<1>5. worked' = worked /\ over' = over /\ queued' = queued /\ slipped' = slipped \cup moved[t]
  BY DEF Turning!Multi, Turning!Commit
<1>6. ASSUME NEW j \in PendingJob, j \notin slipped'
      PROVE  (Absent(pending, j) => Absent(pending, j)') /\ (Once(pending, j) => Once(pending, j)')
  <2>1. SameAs(s, pending, j)
    BY <1>1, <1>2, <1>5, <1>6 DEF TurnInv, JobInv, WillHold
  <2>2. (Absent(pending, j) => Absent(s, j)) /\ (Once(pending, j) => Once(s, j))
    BY <2>1, NotBoth DEF SameAs
  <2> QED BY <1>2, <1>3, <2>2
<1> QED BY <1>2, <1>3, <1>4, <1>5, <1>6, ExitKeeps

LEMMA AbortKeeps ==
  ASSUME TurnInv, NEW t \in Tool, Turning!Abort(t)
  PROVE  TurnInv'
<1>1. Turning!Exit(t, FALSE) /\ UNCHANGED <<Turning!queues, slipped>>
  BY DEF Turning!Abort
<1>2. pending' = pending /\ pending' \in Seq(PendingJob)
  BY <1>1 DEF TurnInv, TurnTypes, Turning!queues
<1>3. \A j \in PendingJob \ slipped' : (Absent(pending, j) => Absent(pending, j)') /\ (Once(pending, j) => Once(pending, j)')
  BY <1>2 DEF Absent, Once
<1> QED BY <1>1, <1>2, <1>3, ExitKeeps DEF Turning!queues

LEMMA TurnStep == TurnInv /\ [Turning!Next]_(Turning!vars) => TurnInv'
<1> SUFFICES ASSUME TurnInv, [Turning!Next]_(Turning!vars) PROVE TurnInv'
  OBVIOUS
<1>1. CASE Turning!Next
  BY <1>1, QueueKeeps, DequeueKeeps, EndKeeps, LrangeKeeps, WatchKeeps, MultiKeeps,
     AbortKeeps DEF Turning!Next
<1>2. CASE UNCHANGED Turning!vars
  <2>1. /\ UNCHANGED <<pending, worked, over, queued, slipped, all, tool, moved, dirty>>
    BY <1>2 DEF Turning!vars, Turning!queues, Turning!tools
  <2>2. TurnTypes'
    BY <2>1 DEF TurnInv, TurnTypes
  <2>3. ASSUME NEW j \in PendingJob PROVE JobInv(j)'
    <3>1. JobInv(j)
      BY DEF TurnInv
    <3>2. \A t \in Tool : WillHold(t, j)'
      BY <2>1, <3>1 DEF JobInv, WillHold, SameAs, Absent, Once
    <3> QED BY <2>1, <3>1, <3>2 DEF JobInv, Unknown, InOnePlace, Absent, Once
  <2> QED BY <2>2, <2>3 DEF TurnInv
<1> QED BY <1>1, <1>2

LEMMA TurnInitially == Turning!Init => TurnInv
<1> SUFFICES ASSUME Turning!Init PROVE TurnInv
  OBVIOUS
<1>1. <<>> \in Seq(PendingJob)
  OBVIOUS
<1>2. TurnTypes
  BY <1>1 DEF Turning!Init, TurnTypes
<1>3. ASSUME NEW j \in PendingJob PROVE JobInv(j)
  BY DEF Turning!Init, JobInv, Unknown, WillHold, Absent
<1> QED BY <1>2, <1>3 DEF TurnInv

LEMMA TurnCorrect == TurnInv => EachOnce
<1> SUFFICES ASSUME TurnInv, NEW j \in queued \ slipped PROVE \E x \in Turning!Places(j) : Turning!Places(j) = {x}
  BY DEF EachOnce, Turning!EachOnce
<1>1. InOnePlace(j) /\ pending \in Seq(PendingJob)
  BY DEF TurnInv, TurnTypes, JobInv
<1>2. CASE Once(pending, j) /\ j \notin worked /\ j \notin over
  <2>1. PICK n \in 1..Len(pending) : pending[n] = j /\ \A m \in 1..Len(pending) : pending[m] = j => m = n
    BY <1>2 DEF Once
  <2>2. {m \in 1..Len(pending) : pending[m] = j} = {n}
    BY <2>1
  <2>3. Turning!Places(j) = {<<"pending", n>>}
    BY <1>2, <2>2 DEF Turning!Places
  <2> QED BY <2>3
<1>3. CASE Absent(pending, j) /\ j \in worked /\ j \notin over
  <2>1. {m \in 1..Len(pending) : pending[m] = j} = {}
    BY <1>3 DEF Absent
  <2>2. Turning!Places(j) = {<<"working", 0>>}
    BY <1>3, <2>1 DEF Turning!Places
  <2> QED BY <2>2
<1>4. CASE Absent(pending, j) /\ j \notin worked /\ j \in over
  <2>1. {m \in 1..Len(pending) : pending[m] = j} = {}
    BY <1>4 DEF Absent
  <2>2. Turning!Places(j) = {<<"over", 0>>}
    BY <1>4, <2>1 DEF Turning!Places
  <2> QED BY <2>2
<1> QED BY <1>1, <1>2, <1>3, <1>4 DEF InOnePlace

\* However often the queue is turned round, a job that did not move between the
\* LRANGE and the WATCH of a tool is in one place (reverse-pending).
THEOREM QueuedOnce == Turning!Spec => []EachOnce
<1>1. TurnInv /\ [Turning!Next]_(Turning!vars) => TurnInv'
  BY TurnStep
<1> QED BY <1>1, TurnInitially, TurnCorrect, PTL DEF Turning!Spec

-----------------------------------------------------------------------------
(* The five side by side *)

LEMMA PartsInitially == PartsInit => Init /\ Feed!Init /\ Tweeter!Init /\ Reaper!Init /\ Turning!Init
  BY DEF PartsInit

\* Each step of a behaviour is a step of one part and leaves the others alone.
LEMMA PartsStep ==
  ASSUME [PartsNext]_partsVars
  PROVE  /\ [Next]_vars /\ [Feed!Next]_(Feed!vars) /\ [Tweeter!Next]_(Tweeter!vars)
         /\ [Reaper!Next]_(Reaper!vars) /\ [Turning!Next]_(Turning!vars)
<1>1. UNCHANGED feedVars => UNCHANGED Feed!vars
  BY DEF feedVars, Feed!vars, Feed!stdin, Feed!loop, Feed!clients, Feed!history
<1>2. UNCHANGED tweetVars => UNCHANGED Tweeter!vars
  BY DEF tweetVars, Tweeter!vars, Tweeter!redis, Tweeter!tasks, Tweeter!history
<1>3. UNCHANGED reaperVars => UNCHANGED Reaper!vars
  BY DEF reaperVars, Reaper!vars, Reaper!jobs, Reaper!check
<1>4. UNCHANGED turningVars => UNCHANGED Turning!vars
  BY DEF turningVars, Turning!vars, Turning!queues, Turning!tools
<1> QED BY <1>1, <1>2, <1>3, <1>4 DEF PartsNext, partsVars

\* What is promised of each part holds of all behaviours of the five.
THEOREM PartsKeepTheirPromises ==
  PartsSpec => /\ []VerdictIsCurrent /\ []DelayIsWhole /\ []StreamsKept
               /\ []TweetedOnce /\ []ReaperIsSound /\ []EachOnce
<1>1. PartsSpec => Spec /\ Feed!Spec /\ Tweeter!Spec /\ Reaper!Spec /\ Turning!Spec
  BY PartsInitially, PartsStep, PTL
     DEF PartsSpec, Spec, Feed!Spec, Tweeter!Spec, Reaper!Spec, Turning!Spec
<1> QED
  BY <1>1, VerdictsAreCurrent, DelaysAreWhole, FeedIsKept, TweetsAreTweetedOnce,
     ReaperIsAlwaysSound, QueuedOnce, PTL
=============================================================================
