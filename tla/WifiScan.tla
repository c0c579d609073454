------------------------------ MODULE WifiScan ------------------------------
(***************************************************************************)
(* The asynchronous Wi-Fi scan of manual_config.c and its exclusion of     *)
(* connection attempts.  The HTTP server task starts scans and attempts,   *)
(* the debug console starts scans (run_scan), the driver scans on its own  *)
(* and the default event loop collects the results.  The published scan    *)
(* state is guarded by s_scan_mutex; the question whether an attempt or a  *)
(* scan is running is asked under one mutex and acted upon later, so one   *)
(* action is one section under a mutex or one driver call.  What becomes   *)
(* of an attempt is in WifiConnect: here it runs and ends.                 *)
(***************************************************************************)
EXTENDS Naturals, Sequences

CONSTANTS
  MaxScan        \* bound: scans of one session

ASSUME MaxScanAssumption == MaxScan \in Nat

(* The tasks that start scans. *)
Starters == {"httpd", "console"}

VARIABLES
  scan,         \* s_scan_seq, s_scan_state, and whose records are published
  task,         \* task[t]: where t is in its handler, and its scan_id
  attempt,      \* s_connect_status.state is RUNNING
  wifiStarted,  \* s_wifi_started
  radio,        \* the scan that the driver performs, 0 for none
  results,      \* the scan whose results the driver holds, 0 for none
  done,         \* the number of SCAN_DONE events that wait for their handler
  missed,       \* history: a task's timed wait for a mutex ended without it
  overlapped,   \* history: two requests were under way at once
  news          \* history: the tasks since whose request scan was written

driver == << radio, results, done >>
history == << missed, overlapped, news >>
vars == << scan, task, attempt, wifiStarted, driver, history >>

(* records is the driver scan they were read from, 0 while none are shown; *)
(* only a finished scan shows any.                                         *)
Scan == {s \in [seq : 0..MaxScan, state : {"IDLE", "RUNNING", "DONE", "ERROR"},
                records : 0..MaxScan] : s.records # 0 => s.state = "DONE"}

ScanPc == {"idle", "checkAttempt", "refuse", "ensure", "ensureFailed", "begin",
           "radio", "radioFailed", "look", "checkScan", "connect"}

Task == [pc : ScanPc, id : 0..MaxScan]

Idle == [pc |-> "idle", id |-> 0]

Init ==
  /\ scan = [seq |-> 0, state |-> "IDLE", records |-> 0]
  /\ task = [t \in Starters |-> Idle]
  /\ attempt = FALSE
  /\ wifiStarted = FALSE
  /\ radio = 0
  /\ results = 0
  /\ done = 0
  /\ missed = FALSE
  /\ overlapped = FALSE
  /\ news = {}

----------------------------------------------------------------------------
At(t, pc) == task[t].pc = pc

Goto(t, pc) == task' = [task EXCEPT ![t] = [pc |-> pc, id |-> 0]]

(* Inside provisioning_scan_start or start_wifi_connection_attempt. *)
Busy(t) == task[t].pc \notin {"idle", "look"}

(* A request begins. *)
Enters(t) == /\ overlapped' = (overlapped \/ \E s \in Starters : Busy(s))
             /\ news' = news \ {t}
             /\ UNCHANGED missed

(* A section under a mutex: it runs, or the timed wait for it ends first. *)
Locked(section, timeout) == /\ \/ section /\ UNCHANGED missed
                               \/ timeout /\ missed' = TRUE
                            /\ UNCHANGED overlapped

NoNews == UNCHANGED << scan, news >>

Write(new) == scan' = new /\ news' = Starters

(* Mutated: the list of the scan before stays. *)
ShowError_KeepsList == Write([scan EXCEPT !.state = "ERROR"])

ShowError == Write([scan EXCEPT !.state = "ERROR", !.records = 0])

----------------------------------------------------------------------------
(* provisioning_scan_start, called by task t. *)

Call(t) ==
  /\ At(t, "idle") /\ scan.seq + 1 < MaxScan
  /\ Goto(t, "checkAttempt")
  /\ Enters(t)
  /\ UNCHANGED << scan, attempt, wifiStarted, driver >>

AttemptSeen == attempt

(* connect_validation_is_running, where a missed mutex means "no". *)
CheckAttempt(t) ==
  /\ At(t, "checkAttempt")
  /\ \/ AttemptSeen /\ Goto(t, "refuse") /\ UNCHANGED << missed, overlapped >>
     \/ Locked(~AttemptSeen, TRUE) /\ Goto(t, "ensure")
  /\ NoNews /\ UNCHANGED << attempt, wifiStarted, driver >>

(* Mutated: the request is refused and the list of before left as it is. *)
ShowRefusal_Not == NoNews

(* "Wi-Fi validation is running", whatever was shown before. *)
ShowRefusal == ShowError

Refuse(t) ==
  /\ At(t, "refuse")
  /\ Locked(ShowRefusal, NoNews)
  /\ Goto(t, "look")
  /\ UNCHANGED << attempt, wifiStarted, driver >>

(* ensure_wifi_started.  Once Wi-Fi runs in station mode only             *)
(* esp_wifi_set_mode is left of it, with the mode that is already set.     *)
Ensure(t) ==
  /\ At(t, "ensure")
  /\ \/ wifiStarted' = TRUE /\ Goto(t, "begin")
     \/ ~wifiStarted /\ Goto(t, "ensureFailed") /\ UNCHANGED wifiStarted
  /\ UNCHANGED << scan, attempt, driver, history >>

EnsureFailed(t) ==
  /\ At(t, "ensureFailed")
  /\ Locked(ShowError, NoNews)
  /\ Goto(t, "look")
  /\ UNCHANGED << attempt, wifiStarted, driver >>

(* Mutated: a scan that runs is restarted. *)
MayBegin_Always == TRUE

MayBegin == scan.state # "RUNNING"

(* The scan gets its number and runs, before the driver knows of it. *)
Begin(t) ==
  /\ At(t, "begin")
  /\ MayBegin /\ scan.seq < MaxScan
  /\ Write([seq |-> scan.seq + 1, state |-> "RUNNING", records |-> 0])
  /\ task' = [task EXCEPT ![t] = [pc |-> "radio", id |-> scan.seq + 1]]
  /\ UNCHANGED << attempt, wifiStarted, driver, missed, overlapped >>

(* One is running; or the mutex is missed. *)
DoNotBegin(t) ==
  /\ At(t, "begin")
  /\ Locked(~MayBegin, TRUE)
  /\ Goto(t, "look")
  /\ NoNews /\ UNCHANGED << attempt, wifiStarted, driver >>

(* esp_wifi_scan_start does not block; it fails while the driver is busy,  *)
(* and drops the results of the scan before.                               *)
StartRadio(t) ==
  /\ At(t, "radio")
  /\ \/ /\ radio = 0
        /\ radio' = task[t].id
        /\ results' = 0
        /\ Goto(t, "look")
     \/ UNCHANGED << radio, results >> /\ Goto(t, "radioFailed")
  /\ UNCHANGED << scan, attempt, wifiStarted, done, history >>

(* Mutated: the error is returned and not shown. *)
AfterRadioError_Kept == NoNews

AfterRadioError == ShowError

RadioFailed(t) ==
  /\ At(t, "radioFailed")
  /\ Locked(AfterRadioError, NoNews)
  /\ Goto(t, "look")
  /\ UNCHANGED << attempt, wifiStarted, driver >>

(* After the start both callers read what is published: the HTTP server    *)
(* task answers with it, run_scan looks again every 250 ms while the scan  *)
(* runs.  A missed mutex is reported as an error.                          *)
Answers(t) == t = "httpd" \/ scan.state # "RUNNING"

Look(t) ==
  /\ At(t, "look")
  /\ Locked(Answers(t), TRUE)
  /\ Goto(t, "idle")
  /\ NoNews /\ UNCHANGED << attempt, wifiStarted, driver >>

(* The 80th look of run_scan found the scan running. *)
GiveUp ==
  /\ At("console", "look") /\ scan.state = "RUNNING"
  /\ Goto("console", "idle")
  /\ UNCHANGED << scan, attempt, wifiStarted, driver, history >>

ScanStep(t) ==
  \/ CheckAttempt(t) \/ Refuse(t) \/ Ensure(t) \/ EnsureFailed(t)
  \/ Begin(t) \/ DoNotBegin(t) \/ StartRadio(t) \/ RadioFailed(t) \/ Look(t)

----------------------------------------------------------------------------
(* start_wifi_connection_attempt, by the HTTP server task. *)

RequestAttempt ==
  /\ At("httpd", "idle")
  /\ Goto("httpd", "checkScan")
  /\ Enters("httpd")
  /\ UNCHANGED << scan, attempt, wifiStarted, driver >>

(* Mutated: nobody asks whether a scan runs. *)
ScanSeen_Never == FALSE

ScanSeen == scan.state = "RUNNING"

(* scan_is_running, where a missed mutex means "no"; a request that finds  *)
(* a scan is rejected, which replaces the status of the last attempt.      *)
CheckScan ==
  /\ At("httpd", "checkScan")
  /\ \/ ScanSeen /\ Goto("httpd", "idle") /\ attempt' = FALSE /\ UNCHANGED << missed, overlapped >>
     \/ Locked(~ScanSeen, TRUE) /\ Goto("httpd", "connect") /\ UNCHANGED attempt
  /\ NoNews /\ UNCHANGED << wifiStarted, driver >>

(* ensure_wifi_started and the attempt, which may fail to start. *)
StartAttempt ==
  /\ At("httpd", "connect")
  /\ Goto("httpd", "idle")
  /\ \/ wifiStarted' = TRUE /\ attempt' = TRUE
     \/ UNCHANGED << wifiStarted, attempt >>
  /\ UNCHANGED << scan, driver, history >>

AttemptEnds ==
  /\ attempt
  /\ attempt' = FALSE
  /\ UNCHANGED << scan, task, wifiStarted, driver, history >>

AttemptStep == CheckScan \/ StartAttempt

----------------------------------------------------------------------------
(* The driver reports the end of a scan, complete or given up for a        *)
(* connection, and holds its results until they are read.                  *)
RadioDone ==
  /\ radio # 0
  /\ radio' = 0
  /\ results' = radio
  /\ done' = done + 1
  /\ UNCHANGED << scan, task, attempt, wifiStarted, history >>

(* scan_done_handler: what the driver holds now is published under the     *)
(* number of the last scan that began, or the read fails.                  *)
ScanDone ==
  /\ done > 0
  /\ done' = done - 1
  /\ Locked(/\ \/ Write([scan EXCEPT !.state = "DONE", !.records = results])
               \/ ShowError
            /\ results' = 0,
            NoNews /\ UNCHANGED results)
  /\ UNCHANGED << task, attempt, wifiStarted, radio >>

Next ==
  \/ \E t \in Starters : Call(t) \/ ScanStep(t)
  \/ GiveUp \/ RequestAttempt \/ AttemptStep \/ AttemptEnds \/ RadioDone \/ ScanDone

Spec == Init /\ [][Next]_vars

(* Tasks that can run do (that the console gives up is not relied on), and *)
(* the driver ends every scan with an event.                               *)
FairSpec ==
  /\ Spec
  /\ \A t \in Starters : WF_vars(ScanStep(t))
  /\ WF_vars(AttemptStep) /\ WF_vars(RadioDone) /\ WF_vars(ScanDone)

----------------------------------------------------------------------------
TypeOK ==
  /\ scan \in Scan
  /\ task \in [Starters -> Task]
  /\ attempt \in BOOLEAN
  /\ wifiStarted \in BOOLEAN
  /\ radio \in 0..MaxScan
  /\ results \in 0..MaxScan
  /\ done \in Nat
  /\ missed \in BOOLEAN
  /\ overlapped \in BOOLEAN
  /\ news \subseteq Starters

(* The timed waits are for sections of a few milliseconds, so a      *)
(* mutex that is missed after 100 ms is rare; but what it breaks stays     *)
(* broken, which is why each property says what holds until then.          *)

(* A scan that is shown as running has a task that still has to start or   *)
(* to fail it, a driver that performs it, or an event on its way: it never *)
(* blocks connection attempts for ever.                                    *)
RunningScanHasOwner ==
  scan.state = "RUNNING" /\ ~missed =>
    \/ \E t \in Starters : task[t].pc \in {"radio", "radioFailed"}
    \/ radio # 0
    \/ done > 0

InProgress == scan.state = "RUNNING" \/ radio # 0 \/ done > 0

(* Asking first and acting later is enough until two requests, one of the  *)
(* page and one of the console, are under way at once.                     *)
Orderly == ~missed /\ ~overlapped

(* The radio never scans, and no scan is pending, while an attempt runs.   *)
ScanAndAttemptExclude == Orderly => ~(attempt /\ InProgress)

(* The list that is published as scan N is what the driver found in scan   *)
(* N, not the late results of an earlier scan.                             *)
DoneHasOwnRecords ==
  scan.state = "DONE" /\ Orderly => scan.records = scan.seq

(* Whoever asked for a scan and is shown a result is never shown that of   *)
(* before the request: a scan that is refused or fails replaces the last   *)
(* list by an error.                                                       *)
ResultIsNew ==
  [][\A t \in Starters :
       At(t, "look") /\ task'[t].pc = "idle" /\ scan.state # "RUNNING" /\ ~missed'
         => t \in news]_vars

(* Every scan comes to a result, so the page's and the console's polling   *)
(* loops end and connection requests are accepted again.                   *)
EveryScanEnds == scan.state = "RUNNING" ~> (scan.state # "RUNNING" \/ missed)

=============================================================================
