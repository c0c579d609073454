--------------------------- MODULE WifiScanProofs ---------------------------
(***************************************************************************)
(* What holds of WifiScan for any number of scans: its types, the owner of *)
(* a running scan, the news in a result, and the exclusion of scans and    *)
(* attempts until two requests overlap.                                    *)
(***************************************************************************)
EXTENDS WifiScan, TLAPS

LEMMA GotoTyped ==
  ASSUME TypeOK, NEW t \in Starters, NEW pc \in ScanPc, Goto(t, pc)
  PROVE  task' \in [Starters -> Task]
  BY MaxScanAssumption DEF TypeOK, Goto, Task

(* What keeps a scan record in its type: an end without or with a list. *)
LEMMA ScanEndTyped ==
  ASSUME TypeOK, NEW state \in {"DONE", "ERROR"}, NEW records \in 0..MaxScan,
         state # "DONE" => records = 0,
         scan' = [scan EXCEPT !.state = state, !.records = records]
  PROVE  scan' \in Scan
<1>1. scan \in [seq : 0..MaxScan, state : {"IDLE", "RUNNING", "DONE", "ERROR"},
                records : 0..MaxScan]
  BY DEF TypeOK, Scan
<1>2. /\ scan' \in [seq : 0..MaxScan, state : {"IDLE", "RUNNING", "DONE", "ERROR"},
                     records : 0..MaxScan]
      /\ scan'.records = records /\ scan'.state = state
  BY <1>1
<1> QED BY <1>2 DEF Scan

LEMMA ShowErrorTyped == TypeOK /\ ShowError => scan' \in Scan
<1> SUFFICES ASSUME TypeOK, ShowError PROVE scan' \in Scan
  OBVIOUS
<1>1. scan' = [scan EXCEPT !.state = "ERROR", !.records = 0]
  BY DEF ShowError, Write
<1>2. 0 \in 0..MaxScan
  BY MaxScanAssumption
<1> QED BY <1>1, <1>2, ScanEndTyped

LEMMA EndsShown ==
  ShowError => news' = Starters
  BY DEF ShowError, Write

LEMMA ScanStepTyped ==
  ASSUME TypeOK, NEW t \in Starters, Call(t) \/ ScanStep(t)
  PROVE  TypeOK'
<1> USE DEF driver, history, Locked, NoNews
<1>1. CASE Call(t)
  BY <1>1, GotoTyped DEF Call, Enters, ScanPc, TypeOK
<1>2. CASE CheckAttempt(t)
  <2>1. task' \in [Starters -> Task]
    BY <1>2, GotoTyped DEF CheckAttempt, ScanPc
  <2> QED BY <1>2, <2>1 DEF CheckAttempt, TypeOK
<1>3. CASE Refuse(t) \/ EnsureFailed(t)
  <2>1. task' \in [Starters -> Task]
    BY <1>3, GotoTyped DEF Refuse, EnsureFailed, ScanPc
  <2>2. scan' \in Scan
    BY <1>3, ShowErrorTyped DEF Refuse, ShowRefusal, EnsureFailed, TypeOK
  <2>3. news' \subseteq Starters
    BY <1>3, EndsShown DEF Refuse, ShowRefusal, EnsureFailed, TypeOK
  <2> QED BY <1>3, <2>1, <2>2, <2>3 DEF Refuse, EnsureFailed, TypeOK
<1>4. CASE Ensure(t)
  <2>1. task' \in [Starters -> Task]
    BY <1>4, GotoTyped DEF Ensure, ScanPc
  <2> QED BY <1>4, <2>1 DEF Ensure, TypeOK
<1>5. CASE Begin(t)
  <2>1. scan' \in Scan /\ task' \in [Starters -> Task]
    BY <1>5, MaxScanAssumption DEF Begin, Write, TypeOK, Scan, Task, ScanPc
  <2> QED BY <1>5, <2>1 DEF Begin, Write, TypeOK
<1>6. CASE DoNotBegin(t) \/ Look(t)
  <2>1. task' \in [Starters -> Task]
    BY <1>6, GotoTyped DEF DoNotBegin, Look, ScanPc
  <2> QED BY <1>6, <2>1 DEF DoNotBegin, Look, TypeOK
<1>7. CASE StartRadio(t)
  <2>1. task' \in [Starters -> Task]
    BY <1>7, GotoTyped DEF StartRadio, ScanPc
  <2>2. radio' \in 0..MaxScan /\ results' \in 0..MaxScan
    BY <1>7, MaxScanAssumption DEF StartRadio, TypeOK, Task
  <2> QED BY <1>7, <2>1, <2>2 DEF StartRadio, TypeOK
<1>8. CASE RadioFailed(t)
  <2>1. task' \in [Starters -> Task]
    BY <1>8, GotoTyped DEF RadioFailed, ScanPc
  <2>2. scan' \in Scan
    BY <1>8, ShowErrorTyped DEF RadioFailed, AfterRadioError, TypeOK
  <2>3. news' \subseteq Starters
    BY <1>8, EndsShown DEF RadioFailed, AfterRadioError, TypeOK
  <2> QED BY <1>8, <2>1, <2>2, <2>3 DEF RadioFailed, TypeOK
<1> QED BY <1>1, <1>2, <1>3, <1>4, <1>5, <1>6, <1>7, <1>8 DEF ScanStep

LEMMA TypedStep == TypeOK /\ [Next]_vars => TypeOK'
<1> SUFFICES ASSUME TypeOK, [Next]_vars PROVE TypeOK'
  OBVIOUS
<1>1. CASE UNCHANGED vars
  BY <1>1 DEF vars, driver, history, TypeOK
<1>2. ASSUME NEW t \in Starters, Call(t) \/ ScanStep(t) PROVE TypeOK'
  BY <1>2, ScanStepTyped
<1>3. CASE GiveUp \/ RequestAttempt \/ AttemptStep
  <2>1. task' \in [Starters -> Task]
    BY <1>3, GotoTyped
       DEF GiveUp, RequestAttempt, AttemptStep, CheckScan, StartAttempt, ScanPc, Locked, Starters
  <2> QED BY <1>3, <2>1 DEF GiveUp, RequestAttempt, Enters, AttemptStep, CheckScan, StartAttempt,
                            Locked, NoNews, driver, history, TypeOK
<1>4. CASE AttemptEnds
  BY <1>4 DEF AttemptEnds, driver, history, TypeOK
<1>5. CASE RadioDone
  BY <1>5, MaxScanAssumption DEF RadioDone, history, TypeOK
<1>6. CASE ScanDone
  <2>1. scan' \in Scan /\ news' \subseteq Starters
    <3>1. CASE Write([scan EXCEPT !.state = "DONE", !.records = results])
      BY <3>1, ScanEndTyped DEF Write, TypeOK
    <3>2. CASE ShowError
      BY <3>2, ShowErrorTyped, EndsShown
    <3>3. CASE NoNews
      BY <3>3 DEF NoNews, TypeOK
    <3> QED BY <1>6, <3>1, <3>2, <3>3 DEF ScanDone, Locked
  <2>2. results' \in 0..MaxScan /\ missed' \in BOOLEAN /\ overlapped' \in BOOLEAN
    <3>1. 0 \in 0..MaxScan
      BY MaxScanAssumption
    <3>2. /\ results' = 0 \/ results' = results
          /\ missed' = missed \/ missed' = TRUE
          /\ overlapped' = overlapped
      BY <1>6 DEF ScanDone, Locked
    <3> QED BY <3>1, <3>2 DEF TypeOK
  <2>3. done' \in Nat
    BY <1>6 DEF ScanDone, TypeOK
  <2> QED BY <1>6, <2>1, <2>2, <2>3 DEF ScanDone, TypeOK
<1> QED BY <1>1, <1>2, <1>3, <1>4, <1>5, <1>6 DEF Next

LEMMA TypedInit == Init => TypeOK
<1> SUFFICES ASSUME Init PROVE TypeOK
  OBVIOUS
<1>1. scan \in Scan
  BY MaxScanAssumption DEF Init, Scan
<1>2. Idle \in Task
  BY MaxScanAssumption DEF Idle, Task, ScanPc
<1>3. task \in [Starters -> Task]
  BY <1>2 DEF Init
<1>4. 0 \in 0..MaxScan /\ 0 \in Nat
  BY MaxScanAssumption
<1> QED BY <1>1, <1>3, <1>4 DEF Init, TypeOK

(* Every variable keeps its type; in particular only a finished scan shows *)
(* a list.                                                                 *)
THEOREM TypeCorrect == Spec => []TypeOK
  BY TypedInit, TypedStep, PTL DEF Spec

----------------------------------------------------------------------------
(* A task that is about to start the radio has a scan number. *)
Numbered == \A t \in Starters : task[t].pc = "radio" => task[t].id # 0

LEMMA NumberedStep == TypeOK /\ Numbered /\ [Next]_vars => Numbered'
<1> SUFFICES ASSUME TypeOK, Numbered, [Next]_vars PROVE Numbered'
  OBVIOUS
<1>1. CASE UNCHANGED task
  BY <1>1 DEF Numbered
<1>2. ASSUME NEW t \in Starters, NEW pc, pc # "radio", Goto(t, pc) PROVE Numbered'
  BY <1>2 DEF Numbered, Goto, TypeOK, Task
<1>3. ASSUME NEW t \in Starters, Begin(t) PROVE Numbered'
  BY <1>3, MaxScanAssumption DEF Numbered, Begin, TypeOK, Task, Scan
<1>4. ASSUME NEW t \in Starters, Call(t) \/ ScanStep(t), ~Begin(t) PROVE Numbered'
  BY <1>2, <1>4 DEF Call, ScanStep, CheckAttempt, Refuse, Ensure, EnsureFailed, DoNotBegin,
                    StartRadio, RadioFailed, Look
<1>5. CASE GiveUp \/ RequestAttempt \/ AttemptStep
  BY <1>2, <1>5 DEF GiveUp, RequestAttempt, AttemptStep, CheckScan, StartAttempt, Starters
<1>6. CASE AttemptEnds \/ RadioDone \/ ScanDone \/ UNCHANGED vars
  BY <1>1, <1>6 DEF AttemptEnds, RadioDone, ScanDone, vars
<1> QED BY <1>3, <1>4, <1>5, <1>6 DEF Next

LEMMA MissedStays == TypeOK /\ [Next]_vars /\ ~missed' => ~missed
  BY DEF Next, Call, Enters, ScanStep, CheckAttempt, Refuse, Ensure, EnsureFailed, Begin,
         DoNotBegin, StartRadio, RadioFailed, Look, GiveUp, RequestAttempt, AttemptStep,
         CheckScan, StartAttempt, AttemptEnds, RadioDone, ScanDone, Locked, vars, history, TypeOK

(* Who may own a running scan. *)
Owner(t) == task[t].pc \in {"radio", "radioFailed"}

LEMMA OwnerStep ==
  TypeOK /\ Numbered /\ RunningScanHasOwner /\ [Next]_vars => RunningScanHasOwner'
<1> SUFFICES ASSUME TypeOK, Numbered, RunningScanHasOwner, [Next]_vars,
                    scan'.state = "RUNNING", ~missed'
             PROVE  (\E t \in Starters : Owner(t)') \/ radio' # 0 \/ done' > 0
  BY DEF RunningScanHasOwner, Owner
<1> USE DEF driver, history, NoNews
(* A step that neither begins a scan nor moves an owner keeps the owner. *)
<1>1. ASSUME UNCHANGED << scan, driver >>, missed = FALSE,
             \A t \in Starters : Owner(t) => Owner(t)'
      PROVE  (\E t \in Starters : Owner(t)') \/ radio' # 0 \/ done' > 0
  BY <1>1 DEF RunningScanHasOwner, Owner
<1>2. ASSUME NEW t \in Starters, NEW pc, Goto(t, pc), ~Owner(t)
      PROVE  \A s \in Starters : Owner(s) => Owner(s)'
  BY <1>2 DEF Goto, Owner, TypeOK
<1>3. missed = FALSE
  BY MissedStays DEF TypeOK
<1>4. ASSUME NEW t \in Starters, Call(t) \/ ScanStep(t)
      PROVE  (\E s \in Starters : Owner(s)') \/ radio' # 0 \/ done' > 0
  <2>1. CASE Call(t) \/ CheckAttempt(t) \/ Ensure(t) \/ DoNotBegin(t) \/ Look(t)
    BY <1>1, <1>2, <1>3, <2>1 DEF Call, CheckAttempt, Ensure, DoNotBegin, Look, At, Owner
  <2>2. CASE Refuse(t) \/ EnsureFailed(t) \/ RadioFailed(t)
    BY <2>2, <1>3 DEF Refuse, ShowRefusal, EnsureFailed, RadioFailed, AfterRadioError, ShowError,
                      Write, Locked, TypeOK, Scan
  <2>3. CASE Begin(t)
    BY <2>3 DEF Begin, Owner, TypeOK
  <2>4. CASE StartRadio(t)
    BY <2>4 DEF StartRadio, Goto, Owner, At, Numbered, TypeOK
  <2> QED BY <1>4, <2>1, <2>2, <2>3, <2>4 DEF ScanStep
<1>5. CASE GiveUp \/ RequestAttempt \/ AttemptStep
  BY <1>1, <1>2, <1>3, <1>5
     DEF GiveUp, RequestAttempt, AttemptStep, CheckScan, StartAttempt, At, Owner, Starters
<1>6. CASE AttemptEnds \/ UNCHANGED vars
  BY <1>1, <1>3, <1>6 DEF AttemptEnds, vars, Owner
<1>7. CASE RadioDone
  BY <1>7 DEF RadioDone, TypeOK
<1>8. CASE ScanDone
  BY <1>8, <1>3 DEF ScanDone, Locked, ShowError, Write, TypeOK, Scan
<1> QED BY <1>4, <1>5, <1>6, <1>7, <1>8 DEF Next

(* A scan that is shown as running always has somebody who will end it, as *)
(* long as no task misses a mutex: for any number of scans.                *)
THEOREM ScanOwned == Spec => []RunningScanHasOwner
<1>1. Init => TypeOK /\ Numbered /\ RunningScanHasOwner
  BY TypedInit DEF Init, Numbered, RunningScanHasOwner, Idle
<1> QED BY <1>1, TypedStep, NumberedStep, OwnerStep, PTL DEF Spec

----------------------------------------------------------------------------
(* A task that has come to its look was written a result since its         *)
(* request, unless a scan still runs.                                      *)
Told ==
  ~missed => \A t \in Starters :
               /\ task[t].pc = "radio" => t \in news
               /\ task[t].pc = "look" => t \in news \/ scan.state = "RUNNING"

LEMMA ToldStep == TypeOK /\ Told /\ [Next]_vars => Told'
<1> SUFFICES ASSUME TypeOK, Told, [Next]_vars, ~missed' PROVE Told'
  BY DEF Told
<1> USE DEF driver, history, NoNews, At, Goto
<1>1. missed = FALSE
  BY MissedStays DEF TypeOK
<1>2. CASE news' = Starters
  BY <1>2, TypedStep DEF Told
<1>3. CASE UNCHANGED << scan, task, news >>
  BY <1>1, <1>3 DEF Told
(* A step of one task that writes no scan. *)
<1>4. ASSUME NEW t \in Starters, NEW pc, task' = [task EXCEPT ![t] = [pc |-> pc, id |-> 0]],
             news' \in {news, news \ {t}}, UNCHANGED scan,
             pc # "radio", pc = "look" => t \in news' \/ scan.state = "RUNNING"
      PROVE  Told'
  BY <1>1, <1>4 DEF Told, TypeOK
<1>5. ASSUME NEW t \in Starters, Call(t) \/ ScanStep(t) PROVE Told'
  <2>1. CASE Call(t)
    BY <2>1, <1>4 DEF Call, Enters
  <2>2. CASE CheckAttempt(t) \/ Ensure(t) \/ Look(t)
    BY <2>2, <1>4 DEF CheckAttempt, Ensure, Look, Locked
  <2>3. CASE Refuse(t) \/ EnsureFailed(t) \/ RadioFailed(t) \/ Begin(t)
    BY <2>3, <1>1, <1>2 DEF Refuse, ShowRefusal, EnsureFailed, RadioFailed, AfterRadioError,
                            Begin, ShowError, Write, Locked
  <2>4. CASE DoNotBegin(t)
    BY <2>4, <1>1, <1>4 DEF DoNotBegin, MayBegin, Locked
  <2>5. CASE StartRadio(t)
    BY <2>5, <1>1, <1>4 DEF StartRadio, Told
  <2> QED BY <1>5, <2>1, <2>2, <2>3, <2>4, <2>5 DEF ScanStep
<1>6. CASE GiveUp
  BY <1>6, <1>4 DEF GiveUp, Starters
<1>7. CASE RequestAttempt \/ AttemptStep
  BY <1>7, <1>4 DEF RequestAttempt, Enters, AttemptStep, CheckScan, StartAttempt, Locked, Starters
<1>8. CASE AttemptEnds \/ RadioDone \/ UNCHANGED vars
  BY <1>8, <1>3 DEF AttemptEnds, RadioDone, vars
<1>9. CASE ScanDone
  BY <1>9, <1>1, <1>2 DEF ScanDone, Locked, ShowError, Write
<1> QED BY <1>5, <1>6, <1>7, <1>8, <1>9 DEF Next

(* Nobody who asks for a scan is shown a result from before the request,   *)
(* for any number of scans.                                                *)
THEOREM ResultsAreNew == Spec => ResultIsNew
<1>1. Init => TypeOK /\ Told
  BY TypedInit DEF Init, Told, Idle
<1>2. ASSUME TypeOK, Told, NEW t \in Starters, At(t, "look"), scan.state # "RUNNING", ~missed
      PROVE  t \in news
  BY <1>2 DEF At, Told
<1>3. TypeOK /\ Told /\ [Next]_vars =>
        [\A t \in Starters :
           At(t, "look") /\ task'[t].pc = "idle" /\ scan.state # "RUNNING" /\ ~missed'
             => t \in news]_vars
  BY <1>2, MissedStays
<1> QED BY <1>1, <1>3, TypedStep, ToldStep, PTL DEF Spec, ResultIsNew

----------------------------------------------------------------------------
(* Until two requests overlap, what a task has found out stays true while  *)
(* it acts on it.                                                          *)
Alone ==
  Orderly =>
    /\ \A s, t \in Starters : Busy(s) /\ Busy(t) => s = t
    /\ \A t \in Starters :
         /\ task[t].pc \in {"ensure", "ensureFailed", "begin", "radio", "radioFailed"} => ~attempt
         /\ task[t].pc \in {"refuse", "ensureFailed", "connect"} => ~InProgress
         /\ task[t].pc \in {"radio", "radioFailed"} =>
              scan.state = "RUNNING" /\ radio = 0 /\ done = 0
         /\ ~wifiStarted => task[t].pc \notin {"begin", "radio", "radioFailed"}
    /\ ~wifiStarted \/ attempt => ~InProgress
    /\ radio # 0 \/ done > 0 => scan.state = "RUNNING"
    /\ radio # 0 => done = 0
    /\ done \in {0, 1}

(* The scan that the driver performs, or whose results it holds, is the    *)
(* one with the current number.                                            *)
Current ==
  Orderly =>
    /\ \A t \in Starters : task[t].pc = "radio" => task[t].id = scan.seq
    /\ radio # 0 => radio = scan.seq
    /\ done > 0 => results = scan.seq
    /\ scan.state = "DONE" => scan.records = scan.seq

LEMMA ShownError ==
  TypeOK /\ ShowError => scan'.state = "ERROR" /\ scan'.records = 0 /\ scan'.seq = scan.seq
  BY DEF TypeOK, ShowError, Write, Scan

LEMMA ShownList ==
  ASSUME TypeOK, Write([scan EXCEPT !.state = "DONE", !.records = results])
  PROVE  scan'.state = "DONE" /\ scan'.records = results /\ scan'.seq = scan.seq
  BY DEF TypeOK, Write, Scan

(* What was orderly after a step was so before it. *)
LEMMA OrderlyBefore == TypeOK /\ [Next]_vars /\ Orderly' => Orderly
  BY DEF Next, Call, Enters, ScanStep, CheckAttempt, Refuse, Ensure, EnsureFailed, Begin,
         DoNotBegin, StartRadio, RadioFailed, Look, GiveUp, RequestAttempt, AttemptStep,
         CheckScan, StartAttempt, AttemptEnds, RadioDone, ScanDone, Locked, vars, history,
         Orderly, TypeOK

LEMMA AloneScanStep ==
  ASSUME TypeOK, Alone, Orderly, Orderly', NEW t \in Starters, Call(t) \/ ScanStep(t)
  PROVE  Alone'
<1> USE DEF driver, history, Orderly, Locked, InProgress, At, Goto, Busy, NoNews
<1>1. CASE Call(t)
  BY <1>1 DEF Call, Enters, Alone, TypeOK
<1>2. CASE CheckAttempt(t)
  BY <1>2 DEF CheckAttempt, AttemptSeen, Alone, TypeOK
<1>3. CASE Refuse(t) \/ EnsureFailed(t)
  BY <1>3, ShownError DEF Refuse, ShowRefusal, EnsureFailed, Alone, TypeOK
<1>4. CASE Ensure(t)
  BY <1>4 DEF Ensure, Alone, TypeOK
<1>5. CASE Begin(t)
  BY <1>5 DEF Begin, Write, MayBegin, Alone, TypeOK, Scan
<1>6. CASE DoNotBegin(t) \/ Look(t)
  BY <1>6 DEF DoNotBegin, Look, Alone, TypeOK
<1>7. CASE StartRadio(t)
  BY <1>7 DEF StartRadio, Alone, TypeOK
<1>8. CASE RadioFailed(t)
  BY <1>8, ShownError DEF RadioFailed, AfterRadioError, Alone, TypeOK
<1> QED BY <1>1, <1>2, <1>3, <1>4, <1>5, <1>6, <1>7, <1>8 DEF ScanStep

LEMMA AloneStep == TypeOK /\ Alone /\ [Next]_vars => Alone'
<1> SUFFICES ASSUME TypeOK, Alone, [Next]_vars, Orderly, Orderly' PROVE Alone'
  BY OrderlyBefore DEF Alone
<1> USE DEF driver, history, Orderly, Locked, InProgress, At, Goto, Busy, NoNews
<1>1. CASE UNCHANGED vars
  BY <1>1 DEF vars, Alone
<1>2. CASE \E t \in Starters : Call(t) \/ ScanStep(t)
  BY <1>2, AloneScanStep
<1>3. CASE GiveUp
  BY <1>3 DEF GiveUp, Alone, TypeOK, Starters
<1>4. CASE RequestAttempt
  BY <1>4 DEF RequestAttempt, Enters, Alone, TypeOK, Starters
<1>5. CASE CheckScan
  BY <1>5 DEF CheckScan, ScanSeen, Alone, TypeOK, Starters
<1>6. CASE StartAttempt
  BY <1>6 DEF StartAttempt, Alone, TypeOK, Starters
<1>7. CASE AttemptEnds \/ RadioDone
  BY <1>7 DEF AttemptEnds, RadioDone, Alone
<1>8. CASE ScanDone
  BY <1>8, ShownError, ShownList DEF ScanDone, Alone, TypeOK
<1> QED BY <1>1, <1>2, <1>3, <1>4, <1>5, <1>6, <1>7, <1>8 DEF Next, AttemptStep

LEMMA CurrentStep == TypeOK /\ Alone /\ Current /\ [Next]_vars => Current'
<1> SUFFICES ASSUME TypeOK, Alone, Current, [Next]_vars, Orderly, Orderly' PROVE Current'
  BY OrderlyBefore DEF Current
<1> USE DEF driver, history, Orderly, Locked, InProgress, At, Goto, Busy, NoNews
<1>1. CASE UNCHANGED vars
  BY <1>1 DEF vars, Current
<1>2. ASSUME NEW t \in Starters, Call(t) \/ ScanStep(t) PROVE Current'
  <2>1. CASE Call(t) \/ CheckAttempt(t) \/ Ensure(t) \/ DoNotBegin(t) \/ Look(t)
    BY <2>1 DEF Call, CheckAttempt, Ensure, DoNotBegin, Look, Current, TypeOK
  <2>2. CASE Refuse(t) \/ EnsureFailed(t) \/ RadioFailed(t)
    BY <2>2, ShownError DEF Refuse, ShowRefusal, EnsureFailed, RadioFailed, AfterRadioError,
                            Alone, Current, TypeOK
  <2>3. CASE Begin(t)
    BY <2>3 DEF Begin, Write, MayBegin, Alone, Current, TypeOK, Scan
  <2>4. CASE StartRadio(t)
    BY <2>4 DEF StartRadio, Alone, Current, TypeOK
  <2> QED BY <1>2, <2>1, <2>2, <2>3, <2>4 DEF ScanStep
<1>3. CASE GiveUp \/ RequestAttempt \/ CheckScan \/ StartAttempt \/ AttemptEnds
  BY <1>3 DEF GiveUp, RequestAttempt, CheckScan, StartAttempt, AttemptEnds, Current, TypeOK, Starters
<1>4. CASE RadioDone
  BY <1>4 DEF RadioDone, Alone, Current
<1>5. CASE ScanDone
  BY <1>5, ShownError, ShownList DEF ScanDone, Alone, Current, TypeOK
<1> QED BY <1>1, <1>2, <1>3, <1>4, <1>5 DEF Next, AttemptStep

LEMMA AloneInit == Init => Alone /\ Current
  BY DEF Init, Alone, Current, InProgress, Busy, Idle

(* Until two requests overlap or a mutex is missed, no scan is under way   *)
(* during an attempt, for any number of scans.                             *)
THEOREM Exclusion == Spec => []ScanAndAttemptExclude
<1>1. Init => TypeOK /\ Alone
  BY TypedInit, AloneInit
<1>2. Alone => ScanAndAttemptExclude
  BY DEF Alone, ScanAndAttemptExclude
<1> QED BY <1>1, <1>2, TypedStep, AloneStep, PTL DEF Spec

(* And the list that is published is that of the scan it is numbered       *)
(* after.                                                                  *)
THEOREM OwnRecords == Spec => []DoneHasOwnRecords
<1>1. Init => TypeOK /\ Alone /\ Current
  BY TypedInit, AloneInit
<1>2. Current => DoneHasOwnRecords
  BY DEF Current, DoneHasOwnRecords
<1> QED BY <1>1, <1>2, TypedStep, AloneStep, CurrentStep, PTL DEF Spec

=============================================================================
