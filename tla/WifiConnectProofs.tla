-------------------------- MODULE WifiConnectProofs ---------------------------
(***************************************************************************)
(* Proofs about WifiConnect, for any credentials, any mix of requests, any *)
(* number of attempts and any queue of driver events.                      *)
(***************************************************************************)
EXTENDS WifiConnect, TLAPS

(***************************************************************************)
(* The inductive invariant.  What the runs check says little about where   *)
(* the tasks are; each part below ties a task's program counter to the     *)
(* status it will write, which is what the next step needs.                *)
(***************************************************************************)

(* A request that is served carries credentials. *)
RequestHasCred == httpd.pc # "idle" => httpd.cred \in Creds

(* There is still a number for the attempt that is being prepared. *)
NumberIsLeft ==
  httpd.pc \in {"reject", "storage", "config", "disconnect", "begin"} =>
    status.seq < MaxSeq

(* Between Begin and Spawn the server speaks of the attempt it began: only *)
(* the server task numbers attempts.                                       *)
ServerKnowsAttempt == OwnedByServer => httpd.seq = status.seq /\ httpd.seq \in Attempts

(* Validation tasks exist for past attempts, and for the current one once  *)
(* the server has spawned its task.                                        *)
ValidatorsAreSpawned ==
  \A q \in Attempts :
    validator[q].pc # "none" => q <= status.seq /\ (OwnedByServer => q < status.seq)

(* The current attempt is one whose status was filled in by Begin. *)
RunningIsNumbered ==
  status.state = "RUNNING" => status.seq \in Attempts /\ status.cred \in Creds

AddressIsSeen == status.gotIp => status.seq \in ipSeen

HasSnapshot(q) ==
  validator[q].pc \in {"storage", "config", "profile", "saveFailed", "finish", "signal"}

(* What a validation task does with its snapshot is still about the        *)
(* attempt whose address it saw.                                           *)
SnapshotIsOwn ==
  \A q \in Attempts : HasSnapshot(q) =>
    /\ validator[q].cred \in Creds
    /\ q \in ipSeen
    /\ q = status.seq => validator[q].action = status.action
    /\ IsActive(q) => status.gotIp

(* A reconnect's verdict comes after everything was written. *)
VerdictIsPersisted ==
  \A q \in Attempts :
    /\ validator[q].pc = "finish" /\ validator[q].action = "RECONNECT" => q \in persisted
    /\ validator[q].pc = "signal" => q \in persisted

(* The restart that PROV_SUCCESS_BIT asks for was earned by some attempt.  *)
BitIsEarned == provSuccess => persisted \cap ipSeen # {}

(* What the LED shows, or will show again when the button is let go.       *)
Tells(state) == state = "CONNECTING" <=> status.state = "RUNNING"

LedIsKept ==
  ~ledLost /\ ~reconfigure /\ ~HttpdAt("led") =>
    /\ button.pc \in {"up", "pressed"} => Tells(led)
    /\ button.pc = "held" => Tells(IF led = "BUTTON_HELD" THEN button.saved ELSE led)

IInv ==
  /\ TypeOK
  /\ RequestHasCred
  /\ NumberIsLeft
  /\ ServerKnowsAttempt
  /\ ValidatorsAreSpawned
  /\ RunningIsNumbered
  /\ RunningHasOwner
  /\ AddressIsSeen
  /\ SnapshotIsOwn
  /\ VerdictIsPersisted
  /\ SuccessHasAddress
  /\ PendingIsPersisted
  /\ BitIsEarned
  /\ LedIsKept

----------------------------------------------------------------------------
(* The records that the actions build have their types.                    *)

(* A failure keeps the status well-formed, whatever its reason: what       *)
(* mark_connect_failed leaves is a status the poller can be sent.          *)
LEMMA FailedType ==
  ASSUME status \in Status,
         NEW reason \in {"connect", "spawn", "timeout", "save", "link"}
  PROVE  Failed(reason) \in Status
BY DEF Status, Failed

(* So do a new attempt and a rejected one, while a number is left. *)
LEMMA NewStatusType ==
  ASSUME status \in Status, status.seq < MaxSeq,
         NEW state \in {"RUNNING", "FAILED"}, NEW cred \in Creds \cup {NoCred},
         NEW action \in {"TEST", "RECONNECT"}, NEW reason \in {"none", "scan"}
  PROVE  /\ NewStatus(state, cred, action, reason) \in Status
         /\ status.seq + 1 \in Attempts
         /\ status.seq + 1 \in 0..MaxSeq
BY BoundsAssumption DEF Status, Attempts, NewStatus

(* A request that enters a handler is well-formed, and so is an idle server. *)
LEMMA RequestType ==
  ASSUME NEW cred \in Creds \cup {NoCred}, NEW pc \in HttpdPc,
         NEW action \in {"TEST", "RECONNECT"}
  PROVE  HttpdIdle \in Httpd /\ Serve(pc, cred, action) \in Httpd
BY BoundsAssumption DEF HttpdIdle, Serve, Httpd, HttpdPc

----------------------------------------------------------------------------
(* Every step of the system keeps every variable in its type. *)
LEMMA TypeStep == IInv /\ [Next]_vars => TypeOK'
<1> SUFFICES ASSUME IInv, [Next]_vars PROVE TypeOK'
  OBVIOUS
<1> USE BoundsAssumption DEF TypeOK, shown, lamp, tasks, radio, rest, given, others, boot,
    ShowLed
<1>a. TypeOK /\ RequestHasCred /\ NumberIsLeft /\ ServerKnowsAttempt /\ SnapshotIsOwn
  BY DEF IInv
<1>b. /\ HttpdIdle \in Httpd
      /\ {"idle", "storage", "reject", "saveStorage", "import"} \subseteq HttpdPc
      /\ {"CONNECTING", "CONNECTED", "DISCONNECTED"} \subseteq Leds
  BY DEF HttpdIdle, Serve, Httpd, HttpdPc, Leds
<1>1. ASSUME NEW cred \in Creds, NEW action \in {"TEST", "RECONNECT"},
             StartAttempt(cred, action)
      PROVE  TypeOK'
  <2>1. httpd' \in Httpd
    BY <1>1, <1>b, RequestType DEF StartAttempt
  <2> QED BY <1>1, <1>a, <2>1 DEF StartAttempt
<1>2. CASE HttpdRequest
  <2>1. CASE RequestTest
    BY <2>1, <1>1 DEF RequestTest
  <2>2. CASE RequestReconnect
    BY <2>2, <1>1 DEF RequestReconnect
  <2>3. CASE RequestProfile
    BY <2>3, <1>1, <1>a DEF RequestProfile
  <2>4. CASE RequestSave
    <3>1. httpd' \in Httpd
      BY <2>4, <1>b, RequestType DEF RequestSave
    <3> QED BY <2>4, <1>a, <3>1 DEF RequestSave
  <2>5. CASE RequestList
    <3>1. httpd' \in Httpd
      BY <2>5, <1>a, <1>b, RequestType DEF RequestList
    <3> QED BY <2>5, <1>a, <3>1 DEF RequestList, Importable
  <2>6. CASE RequestDelete
    BY <2>6, <1>a DEF RequestDelete
  <2> QED BY <1>2, <2>1, <2>2, <2>3, <2>4, <2>5, <2>6 DEF HttpdRequest
<1>3. CASE HttpdStep
  <2> USE DEF HttpdAt, HttpdGoto, HttpdDone
  <2>1. CASE Reject
    <3>1. status.seq < MaxSeq
      BY <2>1, <1>a DEF Reject, NumberIsLeft
    <3>2. status' \in Status
      BY <2>1, <1>a, <3>1, NewStatusType DEF Reject
    <3> QED BY <2>1, <1>a, <1>b, <3>2 DEF Reject
  <2>2. CASE ApplySetStorage
    BY <2>2, <1>a DEF ApplySetStorage, SetStorage, AttemptStorage, Httpd, HttpdPc
  <2>3. CASE ApplySetConfig
    BY <2>3, <1>a DEF ApplySetConfig, SetConfig, Httpd, HttpdPc
  <2>4. CASE ApplyFails
    BY <2>4, <1>a, <1>b DEF ApplyFails
  <2>5. CASE HangUpBefore
    BY <2>5, <1>a DEF HangUpBefore, Disconnect, LinkDown, Link, Event, Httpd, HttpdPc
  <2>6. CASE Begin
    <3>1. status.seq < MaxSeq /\ httpd.cred \in Creds /\ httpd.action \in {"TEST", "RECONNECT"}
      BY <2>6, <1>a DEF Begin, RequestHasCred, NumberIsLeft, Httpd
    <3>2. status' \in Status /\ status.seq + 1 \in 0..MaxSeq
      BY <2>6, <1>a, <3>1, NewStatusType DEF Begin
    <3>3. httpd' \in Httpd
      BY <2>6, <1>a, <3>2 DEF Begin, Httpd, HttpdPc
    <3> QED BY <2>6, <1>a, <3>2, <3>3 DEF Begin
  <2>7. CASE ShowConnecting
    BY <2>7, <1>a, <1>b DEF ShowConnecting, Httpd, HttpdPc
  <2>8. CASE RequestLink
    BY <2>8, <1>a DEF RequestLink, Connect, Link, Httpd, HttpdPc
  <2>9. CASE Spawn
    <3>1. httpd' \in Httpd
      BY <2>9, <1>a, <1>b DEF Spawn, Httpd, HttpdPc
    <3>2. validator' \in [Attempts -> Validator]
      BY <2>9, <1>a DEF Spawn, Validator, ValidatorPc
    <3> QED BY <2>9, <1>a, <3>1, <3>2 DEF Spawn
  <2>10. CASE AttemptNotStarted
    BY <2>10, <1>a, <1>b, FailedType DEF AttemptNotStarted, MarkFailed
  <2>11. CASE SaveSetStorage
    BY <2>11, <1>a DEF SaveSetStorage, SetStorage, SaveStorage, Httpd, HttpdPc
  <2>12. CASE SaveSetConfig
    BY <2>12, <1>a DEF SaveSetConfig, SetConfig, Httpd, HttpdPc
  <2>13. CASE HttpdSaveProfile
    BY <2>13, <1>a, <1>b DEF HttpdSaveProfile, RequestHasCred
  <2> QED BY <1>3, <2>1, <2>2, <2>3, <2>4, <2>5, <2>6, <2>7, <2>8, <2>9, <2>10,
             <2>11, <2>12, <2>13 DEF HttpdStep
<1>4. ASSUME NEW q \in Attempts, ValidatorStep(q) PROVE TypeOK'
  <2> USE DEF ValidatorAt, ValidatorGoto
  <2>a. ASSUME NEW pc \in ValidatorPc
        PROVE  [validator EXCEPT ![q].pc = pc] \in [Attempts -> Validator]
    BY <1>a DEF Validator
  <2>b. ValidatorPc = {"none", "poll", "hangUp", "storage", "config", "profile",
                       "saveFailed", "finish", "signal", "gone"}
    BY DEF ValidatorPc
  <2>1. CASE Poll(q)
    <3>1. CASE ValidatorGoto(q, "gone")
      BY <2>1, <3>1, <1>a, <2>a, <2>b DEF Poll
    <3>2. CASE ~ValidatorGoto(q, "gone")
      <4> DEFINE snapshot == [pc   |-> IF status.action = "RECONNECT"
                                       THEN "storage" ELSE "finish",
                              cred |-> status.cred, action |-> status.action]
      <4>1. snapshot \in Validator
        BY <1>a, <2>b DEF Validator, Status
      <4>2. validator' = [validator EXCEPT ![q] = snapshot]
        BY <2>1, <3>2 DEF Poll
      <4> HIDE DEF snapshot
      <4>3. validator' \in [Attempts -> Validator]
        BY <1>a, <4>1, <4>2
      <4> QED BY <2>1, <1>a, <4>3 DEF Poll
    <3> QED BY <3>1, <3>2
  <2>2. CASE TimeOut(q)
    BY <2>2, <1>a, <1>b, <2>a, <2>b, FailedType DEF TimeOut, MarkFailed
  <2>3. CASE HangUpAfter(q)
    BY <2>3, <1>a, <2>a, <2>b DEF HangUpAfter, Disconnect, LinkDown, Link, Event
  <2>4. CASE PersistSetStorage(q)
    BY <2>4, <1>a, <2>a, <2>b DEF PersistSetStorage, SetStorage, SaveStorage
  <2>5. CASE PersistSetConfig(q)
    BY <2>5, <1>a, <2>a, <2>b DEF PersistSetConfig, SetConfig, Validator
  <2>6. CASE PersistSaveProfile(q)
    BY <2>6, <1>a, <2>a, <2>b DEF PersistSaveProfile, SnapshotIsOwn, HasSnapshot
  <2>7. CASE PersistFails(q)
    BY <2>7, <1>a, <2>a, <2>b
    DEF PersistFails, AfterPersistError, SnapshotIsOwn, HasSnapshot
  <2>8. CASE ReportSaveFailed(q)
    BY <2>8, <1>a, <1>b, <2>a, <2>b, FailedType DEF ReportSaveFailed, MarkFailed
  <2>9. CASE Finish(q)
    <3>1. status' \in Status
      BY <2>9, <1>a DEF Finish, Verdict, Succeeded, Status
    <3> QED BY <2>9, <1>a, <1>b, <2>a, <2>b, <3>1 DEF Finish, Verdict, AfterVerdict
  <2>10. CASE Signal(q)
    BY <2>10, <1>a, <2>a, <2>b DEF Signal
  <2> QED BY <1>4, <2>1, <2>2, <2>3, <2>4, <2>5, <2>6, <2>7, <2>8, <2>9, <2>10
          DEF ValidatorStep
<1>5. ASSUME NEW q \in Attempts, DeadlineExpires(q) PROVE TypeOK'
  BY <1>5, <1>a DEF DeadlineExpires
<1>6. CASE SecondPasses
  BY <1>6, <1>a DEF SecondPasses
<1>7. CASE EventLoop
  <2>1. CASE HandleGotIp
    <3>1. status' \in Status /\ ipSeen' \subseteq Attempts
      BY <2>1, <1>a DEF HandleGotIp, Listening, Status, IInv, RunningIsNumbered
    <3> QED BY <2>1, <1>a, <3>1 DEF HandleGotIp, TakeEvent, Event
  <2>2. ASSUME NEW event \in Event, HandleDisconnected(event) PROVE TypeOK'
    <3>1. status' \in Status /\ led' \in Leds /\ ledLost' \in BOOLEAN
      BY <2>2, <1>a, <1>b, FailedType DEF HandleDisconnected, MarkFailed
    <3>2. events' \in Seq(Event)
      BY <2>2, <1>a DEF HandleDisconnected, TakeEvent
    <3> QED BY <2>2, <1>a, <3>1, <3>2 DEF HandleDisconnected, TakeEvent
  <2> QED BY <1>7, <2>1, <2>2 DEF EventLoop, Event
<1>8. CASE Environment
  <2>1. CASE GetAddress
    <3>1. link' \in Link /\ events' \in Seq(Event) /\ link.cred \in Creds \cup {NoCred}
      BY <2>1, <1>a DEF GetAddress, Link, Event
    <3> QED BY <2>1, <1>a, <3>1 DEF GetAddress
  <2>2. CASE LoseLink
    BY <2>2, <1>a DEF LoseLink, LinkDown, Link, Event
  <2>3. CASE ScanStarts \/ ScanEnds
    BY <2>3, <1>a DEF ScanStarts, ScanEnds
  <2>4. CASE ConsoleHangsUp
    BY <2>4, <1>a DEF ConsoleHangsUp, Disconnect, LinkDown, Link, Event
  <2>5. CASE ConsoleConnects
    BY <2>5, <1>a DEF ConsoleConnects, Connect, Link
  <2> QED BY <1>8, <2>1, <2>2, <2>3, <2>4, <2>5 DEF Environment
<1>9. CASE ButtonTask
  <2>1. /\ led \in Leds /\ button \in Button /\ ButtonUp \in Button
        /\ [ButtonUp EXCEPT !.pc = "armed"] \in Button
        /\ {"BUTTON_HELD", "RECONFIG_REQUESTED"} \subseteq Leds
    BY <1>a DEF Button, ButtonUp, Leds
  <2>2. led' \in Leds /\ ledLost' \in BOOLEAN
    BY <1>9, <1>a, <2>1
    DEF ButtonTask, ButtonPressed, ButtonShown, ButtonArmed, ButtonReleased, ArmedReleased,
        Restored, Button
  <2>3. button' \in Button /\ reconfigure' \in BOOLEAN
    <3>1. CASE ButtonPressed
      BY <3>1, <1>a, <2>1 DEF ButtonPressed, Button
    <3>2. CASE ButtonShown
      BY <3>2, <1>a, <2>1 DEF ButtonShown, Button
    <3>3. CASE ButtonArmed \/ ButtonReleased \/ ArmedReleased
      BY <3>3, <1>a, <2>1 DEF ButtonArmed, ButtonReleased, ArmedReleased
    <3> QED BY <1>9, <3>1, <3>2, <3>3 DEF ButtonTask
  <2> QED BY <1>9, <1>a, <2>2, <2>3 DEF ButtonTask
<1>10. CASE UNCHANGED vars
  BY <1>10, <1>a DEF vars
<1> QED BY <1>2, <1>3, <1>4, <1>5, <1>6, <1>7, <1>8, <1>9, <1>10 DEF Next

----------------------------------------------------------------------------
(* The parts of IInv that relate the tasks to the status. *)
Relations ==
  /\ RequestHasCred
  /\ NumberIsLeft
  /\ ServerKnowsAttempt
  /\ ValidatorsAreSpawned
  /\ RunningIsNumbered
  /\ RunningHasOwner
  /\ AddressIsSeen
  /\ SnapshotIsOwn
  /\ VerdictIsPersisted
  /\ SuccessHasAddress
  /\ PendingIsPersisted
  /\ BitIsEarned

tied == << status, validator, persisted, ipSeen, provSuccess >>

(* A step that leaves tied alone and keeps the server on the same side of  *)
(* Begin and Spawn preserves Relations.                                    *)
LEMMA ServerMoves ==
  ASSUME IInv, UNCHANGED tied, RequestHasCred', NumberIsLeft',
         OwnedByServer' = OwnedByServer, OwnedByServer => httpd'.seq = httpd.seq
  PROVE  Relations'
BY DEF IInv, Relations, tied, RequestHasCred, NumberIsLeft, ServerKnowsAttempt,
       ValidatorsAreSpawned, RunningIsNumbered, RunningHasOwner, DecidedBy,
       AddressIsSeen, SnapshotIsOwn, HasSnapshot, IsActive, VerdictIsPersisted,
       SuccessHasAddress, PendingIsPersisted, BitIsEarned

(* mark_connect_failed, and the end of whatever the caller was doing,      *)
(* preserves them: a failed attempt needs no owner.                        *)
LEMMA FailureKeeps ==
  ASSUME IInv, TypeOK', NEW q \in 0..MaxSeq, NEW reason, MarkFailed(q, reason),
         UNCHANGED << persisted, ipSeen, provSuccess >>
  PROVE  /\ RunningIsNumbered' /\ AddressIsSeen' /\ SuccessHasAddress'
         /\ PendingIsPersisted' /\ BitIsEarned'
         /\ status'.seq = status.seq /\ status'.action = status.action
         /\ status'.state = "RUNNING" => status' = status /\ status.seq # q
         /\ status.gotIp /\ status'.state = "RUNNING" => status'.gotIp
BY DEF IInv, TypeOK, Status, MarkFailed, Failed, IsActive, RunningIsNumbered,
       AddressIsSeen, SuccessHasAddress, PendingIsPersisted, BitIsEarned

(* Every step preserves them. *)
LEMMA RelationsStep == IInv /\ TypeOK' /\ [Next]_vars => Relations'
<1> SUFFICES ASSUME IInv, TypeOK', [Next]_vars PROVE Relations'
  OBVIOUS
<1> USE DEF shown, lamp, tasks, radio, rest, given, others, boot, ShowLed
<1>a. TypeOK
  BY DEF IInv
<1>b. ASSUME UNCHANGED << status, httpd, validator, persisted, ipSeen, provSuccess >>
      PROVE  Relations'
  BY <1>b, ServerMoves DEF IInv, RequestHasCred, NumberIsLeft, OwnedByServer, tied
<1>1. ASSUME NEW cred \in Creds, NEW action \in {"TEST", "RECONNECT"},
             StartAttempt(cred, action)
      PROVE  Relations'
  BY <1>1, ServerMoves
  DEF StartAttempt, HttpdAt, Serve, RequestHasCred, NumberIsLeft, OwnedByServer, tied
<1>2. CASE HttpdRequest
  <2> USE DEF HttpdAt, Serve, RequestHasCred, NumberIsLeft, OwnedByServer, tied
  <2>1. CASE RequestTest
    BY <2>1, <1>1 DEF RequestTest
  <2>2. CASE RequestReconnect
    BY <2>2, <1>1 DEF RequestReconnect
  <2>3. CASE RequestProfile
    BY <2>3, <1>1, <1>a DEF RequestProfile, TypeOK
  <2>4. CASE RequestSave
    BY <2>4, ServerMoves DEF RequestSave
  <2>5. CASE RequestList
    BY <2>5, <1>a, ServerMoves DEF RequestList, Importable, TypeOK
  <2>6. CASE RequestDelete
    BY <2>6, <1>b DEF RequestDelete
  <2> QED BY <1>2, <2>1, <2>2, <2>3, <2>4, <2>5, <2>6 DEF HttpdRequest
<1>3. CASE HttpdStep
  <2> USE <1>a DEF HttpdAt, HttpdGoto, HttpdDone, HttpdIdle, Serve
  <2>1. CASE Reject
    BY <2>1
    DEF Reject, NewStatus, TypeOK, Status, Attempts, IInv, Relations, RequestHasCred,
        NumberIsLeft, ServerKnowsAttempt, OwnedByServer, ValidatorsAreSpawned,
        RunningIsNumbered, RunningHasOwner, AddressIsSeen, SnapshotIsOwn, HasSnapshot,
        IsActive, VerdictIsPersisted, SuccessHasAddress, PendingIsPersisted, BitIsEarned
  <2>2. CASE \/ ApplySetStorage \/ ApplySetConfig \/ HangUpBefore \/ ShowConnecting
             \/ RequestLink \/ SaveSetStorage \/ SaveSetConfig
    <3> USE DEF IInv, TypeOK, Httpd, HttpdPc, tied, RequestHasCred, NumberIsLeft, OwnedByServer
    <3>1. CASE ApplySetStorage
      BY <3>1, ServerMoves DEF ApplySetStorage
    <3>2. CASE ApplySetConfig
      BY <3>2, ServerMoves DEF ApplySetConfig
    <3>3. CASE HangUpBefore
      BY <3>3, ServerMoves DEF HangUpBefore
    <3>4. CASE ShowConnecting
      BY <3>4, ServerMoves DEF ShowConnecting
    <3>5. CASE RequestLink
      BY <3>5, ServerMoves DEF RequestLink
    <3>6. CASE SaveSetStorage
      BY <3>6, ServerMoves DEF SaveSetStorage
    <3>7. CASE SaveSetConfig
      BY <3>7, ServerMoves DEF SaveSetConfig
    <3> QED BY <2>2, <3>1, <3>2, <3>3, <3>4, <3>5, <3>6, <3>7
  <2>3. CASE ApplyFails
    BY <2>3, ServerMoves DEF ApplyFails, tied, RequestHasCred, NumberIsLeft, OwnedByServer
  <2>4. CASE Begin
    BY <2>4, BoundsAssumption
    DEF Begin, NewStatus, TypeOK, Status, Httpd, Attempts, IInv, Relations, RequestHasCred,
        NumberIsLeft, ServerKnowsAttempt, OwnedByServer, ValidatorsAreSpawned,
        RunningIsNumbered, RunningHasOwner, DecidedBy, AddressIsSeen, SnapshotIsOwn,
        HasSnapshot, IsActive, VerdictIsPersisted, SuccessHasAddress, PendingIsPersisted,
        BitIsEarned
  <2>5. CASE Spawn
    <3>1. CASE UNCHANGED validator /\ HttpdGoto("spawnFailed")
      BY <2>5, <3>1, ServerMoves
      DEF Spawn, IInv, TypeOK, Httpd, HttpdPc, tied, RequestHasCred, NumberIsLeft, OwnedByServer
    <3>2. CASE httpd' = HttpdIdle /\ validator' = [validator EXCEPT ![httpd.seq].pc = "poll"]
      <4>1. httpd.seq = status.seq /\ status.seq \in Attempts
        BY <2>5 DEF Spawn, IInv, ServerKnowsAttempt, OwnedByServer
      <4>2. /\ validator'[status.seq].pc = "poll"
            /\ \A q \in Attempts : q # status.seq => validator'[q] = validator[q]
        BY <3>2, <4>1 DEF TypeOK, Validator
      <4> QED
        BY <2>5, <3>2, <4>1, <4>2
        DEF Spawn, TypeOK, Status, Attempts, IInv, Relations, RequestHasCred, NumberIsLeft,
            ServerKnowsAttempt, OwnedByServer, ValidatorsAreSpawned, RunningIsNumbered,
            RunningHasOwner, DecidedBy, AddressIsSeen, SnapshotIsOwn, HasSnapshot,
            IsActive, VerdictIsPersisted, SuccessHasAddress, PendingIsPersisted,
            BitIsEarned
    <3> QED BY <2>5, <3>1, <3>2 DEF Spawn
  <2>6. CASE AttemptNotStarted
    <3>1. PICK reason \in {"connect", "spawn"} : MarkFailed(httpd.seq, reason)
      BY <2>6 DEF AttemptNotStarted
    <3>2. OwnedByServer /\ httpd.seq = status.seq /\ httpd.seq \in 0..MaxSeq
      BY <2>6 DEF AttemptNotStarted, IInv, ServerKnowsAttempt, OwnedByServer, TypeOK, Httpd
    <3>3. /\ RunningIsNumbered' /\ AddressIsSeen' /\ SuccessHasAddress'
          /\ PendingIsPersisted' /\ BitIsEarned'
          /\ status'.seq = status.seq /\ status'.action = status.action
          /\ status'.state # "RUNNING"
      BY <2>6, <3>1, <3>2, FailureKeeps DEF AttemptNotStarted
    <3> QED
      BY <2>6, <3>2, <3>3
      DEF AttemptNotStarted, IInv, Relations, RequestHasCred, NumberIsLeft,
          ServerKnowsAttempt, OwnedByServer, ValidatorsAreSpawned, RunningHasOwner,
          SnapshotIsOwn, HasSnapshot, IsActive, VerdictIsPersisted
  <2>7. CASE HttpdSaveProfile
    BY <2>7, ServerMoves DEF HttpdSaveProfile, tied, RequestHasCred, NumberIsLeft, OwnedByServer
  <2> QED BY <1>3, <2>1, <2>2, <2>3, <2>4, <2>5, <2>6, <2>7 DEF HttpdStep
<1>4. ASSUME NEW q \in Attempts, ValidatorStep(q) PROVE Relations'
  <2> USE DEF ValidatorAt, ValidatorGoto
  <2>a. httpd' = httpd
    BY <1>4 DEF ValidatorStep, Poll, TimeOut, HangUpAfter, PersistSetStorage,
                PersistSetConfig, PersistSaveProfile, PersistFails, ReportSaveFailed,
                Finish, Signal
  <2>b. /\ q \in 0..MaxSeq
        /\ validator[q].pc # "none" => q <= status.seq /\ (OwnedByServer => q < status.seq)
    BY BoundsAssumption DEF Attempts, IInv, ValidatorsAreSpawned
  <2>c. ASSUME NEW pc, ValidatorGoto(q, pc)
        PROVE  /\ validator'[q].pc = pc
               /\ UNCHANGED << validator[q].cred, validator[q].action >>
               /\ \A r \in Attempts : r # q => validator'[r] = validator[r]
    BY <2>c, <1>a DEF TypeOK, Validator
  <2>1. CASE Poll(q)
    <3>1. CASE ~IsActive(q) /\ ValidatorGoto(q, "gone")
      BY <2>1, <3>1, <2>a, <2>b, <2>c
      DEF Poll, IInv, Relations, RequestHasCred, NumberIsLeft, ServerKnowsAttempt,
          OwnedByServer, ValidatorsAreSpawned, RunningIsNumbered, RunningHasOwner,
          DecidedBy, AddressIsSeen, SnapshotIsOwn, HasSnapshot, IsActive,
          VerdictIsPersisted, SuccessHasAddress, PendingIsPersisted, BitIsEarned
    <3>2. CASE /\ IsActive(q) /\ HasAddress
               /\ validator' = [validator EXCEPT ![q] =
                    [pc   |-> IF status.action = "RECONNECT" THEN "storage" ELSE "finish",
                     cred |-> status.cred, action |-> status.action]]
      <4>1. /\ validator'[q].pc \in {"storage", "finish"}
            /\ validator'[q].pc = "finish" => status.action # "RECONNECT"
            /\ validator'[q].cred = status.cred /\ validator'[q].action = status.action
            /\ \A r \in Attempts : r # q => validator'[r] = validator[r]
        BY <3>2, <1>a DEF TypeOK
      <4> QED
        BY <2>1, <3>2, <4>1, <2>a, <2>b
        DEF Poll, HasAddress, IInv, Relations, RequestHasCred, NumberIsLeft,
            ServerKnowsAttempt, OwnedByServer, ValidatorsAreSpawned, RunningIsNumbered,
            RunningHasOwner, DecidedBy, AddressIsSeen, SnapshotIsOwn, HasSnapshot, IsActive,
            VerdictIsPersisted, SuccessHasAddress, PendingIsPersisted, BitIsEarned
    <3> QED BY <2>1, <3>1, <3>2 DEF Poll
  <2>2. CASE TimeOut(q) \/ ReportSaveFailed(q)
    <3>1. PICK reason \in {"timeout", "save"} : MarkFailed(q, reason)
      BY <2>2 DEF TimeOut, ReportSaveFailed
    <3>2. PICK pc \in {"hangUp", "gone"} : ValidatorGoto(q, pc)
      BY <2>2 DEF TimeOut, ReportSaveFailed
    <3>3. validator[q].pc # "none" /\ UNCHANGED << persisted, ipSeen, provSuccess >>
      BY <2>2 DEF TimeOut, ReportSaveFailed
    <3>4. /\ RunningIsNumbered' /\ AddressIsSeen' /\ SuccessHasAddress'
          /\ PendingIsPersisted' /\ BitIsEarned'
          /\ status'.seq = status.seq /\ status'.action = status.action
          /\ status'.state = "RUNNING" => status' = status /\ status.seq # q
      BY <3>1, <3>3, <2>b, FailureKeeps
    <3> QED
      BY <3>2, <3>3, <3>4, <2>a, <2>b, <2>c
      DEF IInv, Relations, RequestHasCred, NumberIsLeft, ServerKnowsAttempt,
          OwnedByServer, ValidatorsAreSpawned, RunningIsNumbered, RunningHasOwner, DecidedBy,
          SnapshotIsOwn, HasSnapshot, IsActive, VerdictIsPersisted
  <2>3. CASE HangUpAfter(q)
    BY <2>3, <2>a, <2>b, <2>c
    DEF HangUpAfter, IInv, Relations, RequestHasCred, NumberIsLeft, ServerKnowsAttempt,
        OwnedByServer, ValidatorsAreSpawned, RunningIsNumbered, RunningHasOwner, DecidedBy,
        AddressIsSeen, SnapshotIsOwn, HasSnapshot, IsActive, VerdictIsPersisted,
        SuccessHasAddress, PendingIsPersisted, BitIsEarned
  <2>4. CASE PersistSetStorage(q)
    BY <2>4, <2>a, <2>b, <2>c
    DEF PersistSetStorage, IInv, Relations, RequestHasCred, NumberIsLeft,
        ServerKnowsAttempt, OwnedByServer, ValidatorsAreSpawned, RunningIsNumbered,
        RunningHasOwner, DecidedBy, AddressIsSeen, SnapshotIsOwn, HasSnapshot, IsActive,
        VerdictIsPersisted, SuccessHasAddress, PendingIsPersisted, BitIsEarned
  <2>5. CASE PersistSetConfig(q)
    BY <2>5, <2>a, <2>b, <2>c
    DEF PersistSetConfig, IInv, Relations, RequestHasCred, NumberIsLeft, ServerKnowsAttempt,
        OwnedByServer, ValidatorsAreSpawned, RunningIsNumbered, RunningHasOwner, DecidedBy,
        AddressIsSeen, SnapshotIsOwn, HasSnapshot, IsActive, VerdictIsPersisted,
        SuccessHasAddress, PendingIsPersisted, BitIsEarned
  <2>6. CASE PersistSaveProfile(q)
    BY <2>6, <2>a, <2>b, <2>c
    DEF PersistSaveProfile, IInv, Relations, RequestHasCred, NumberIsLeft,
        ServerKnowsAttempt, OwnedByServer, ValidatorsAreSpawned, RunningIsNumbered,
        RunningHasOwner, DecidedBy, AddressIsSeen, SnapshotIsOwn, HasSnapshot, IsActive,
        VerdictIsPersisted, SuccessHasAddress, PendingIsPersisted, BitIsEarned
  <2>7. CASE PersistFails(q)
    BY <2>7, <2>a, <2>b, <2>c
    DEF PersistFails, AfterPersistError, IInv, Relations, RequestHasCred, NumberIsLeft,
        ServerKnowsAttempt, OwnedByServer, ValidatorsAreSpawned, RunningIsNumbered,
        RunningHasOwner, DecidedBy, AddressIsSeen, SnapshotIsOwn, HasSnapshot, IsActive,
        VerdictIsPersisted, SuccessHasAddress, PendingIsPersisted, BitIsEarned
  <2>8. CASE Signal(q)
    BY <2>8, <2>a, <2>b, <2>c
    DEF Signal, IInv, Relations, RequestHasCred, NumberIsLeft, ServerKnowsAttempt,
        OwnedByServer, ValidatorsAreSpawned, RunningIsNumbered, RunningHasOwner, DecidedBy,
        AddressIsSeen, SnapshotIsOwn, HasSnapshot, IsActive, VerdictIsPersisted,
        SuccessHasAddress, PendingIsPersisted, BitIsEarned
  <2>9. CASE Finish(q)
    <3>1. ValidatorGoto(q, AfterVerdict(q)) /\ validator[q].pc = "finish"
      BY <2>9 DEF Finish
    <3>2. AfterVerdict(q) \in {"signal", "gone"} /\
          (AfterVerdict(q) = "signal" => validator[q].action = "RECONNECT")
      BY DEF AfterVerdict
    <3>3. CASE UNCHANGED status /\ ~IsActive(q)
      BY <2>9, <3>1, <3>2, <3>3, <2>a, <2>b, <2>c
      DEF Finish, IInv, Relations, RequestHasCred, NumberIsLeft, ServerKnowsAttempt,
          OwnedByServer, ValidatorsAreSpawned, RunningIsNumbered, RunningHasOwner,
          DecidedBy, AddressIsSeen, SnapshotIsOwn, HasSnapshot, IsActive,
          VerdictIsPersisted, SuccessHasAddress, PendingIsPersisted, BitIsEarned
    <3>4. CASE IsActive(q) /\ status' = Succeeded(q)
      <4>1. /\ status'.seq = status.seq /\ status'.state = "SUCCEEDED"
            /\ status'.action = status.action /\ status'.gotIp = status.gotIp
            /\ status'.bridgePending <=> validator[q].action = "RECONNECT"
        BY <3>4, <1>a DEF Succeeded, TypeOK, Status
      <4> QED
        BY <2>9, <3>1, <3>2, <3>4, <4>1, <2>a, <2>b, <2>c
        DEF Finish, IInv, Relations, RequestHasCred, NumberIsLeft, ServerKnowsAttempt,
            OwnedByServer, ValidatorsAreSpawned, RunningIsNumbered, RunningHasOwner,
            DecidedBy, AddressIsSeen, SnapshotIsOwn, HasSnapshot, IsActive,
            VerdictIsPersisted, SuccessHasAddress, PendingIsPersisted, BitIsEarned
    <3> QED BY <2>9, <3>3, <3>4 DEF Finish, Verdict
  <2> QED BY <1>4, <2>1, <2>2, <2>3, <2>4, <2>5, <2>6, <2>7, <2>8, <2>9 DEF ValidatorStep
<1>5. ASSUME NEW q \in Attempts, DeadlineExpires(q) PROVE Relations'
  BY <1>5, <1>b DEF DeadlineExpires
<1>6. CASE SecondPasses
  BY <1>6, <1>b DEF SecondPasses
<1>7. CASE EventLoop
  <2>1. CASE HandleGotIp
    <3>1. CASE ~Listening
      BY <2>1, <3>1, <1>b DEF HandleGotIp, TakeEvent
    <3>2. CASE Listening
      <4>1. /\ status' = [status EXCEPT !.gotIp = TRUE]
            /\ ipSeen' = ipSeen \cup {status.seq}
            /\ UNCHANGED << httpd, validator, persisted, provSuccess >>
            /\ status.state = "RUNNING"
        BY <2>1, <3>2 DEF HandleGotIp, TakeEvent, Listening
      <4>2. /\ status'.seq = status.seq /\ status'.state = status.state
            /\ status'.action = status.action /\ status'.cred = status.cred
            /\ status'.bridgePending = status.bridgePending /\ status'.gotIp
        BY <4>1, <1>a DEF TypeOK, Status
      <4> QED
        BY <4>1, <4>2
        DEF IInv, Relations, RequestHasCred, NumberIsLeft,
            ServerKnowsAttempt, OwnedByServer, ValidatorsAreSpawned, RunningIsNumbered,
            RunningHasOwner, DecidedBy, AddressIsSeen, SnapshotIsOwn, HasSnapshot,
            IsActive, VerdictIsPersisted, SuccessHasAddress, PendingIsPersisted,
            BitIsEarned
    <3> QED BY <3>1, <3>2
  <2>2. ASSUME NEW event \in Event, HandleDisconnected(event) PROVE Relations'
    <3>1. UNCHANGED << httpd, validator, persisted, ipSeen, provSuccess >>
      BY <2>2 DEF HandleDisconnected, TakeEvent
    <3>2. CASE UNCHANGED status
      BY <3>1, <3>2, <1>b
    <3>3. CASE MarkFailed(status.seq, "link") /\ Listening
      <4>1. /\ RunningIsNumbered' /\ AddressIsSeen' /\ SuccessHasAddress'
            /\ PendingIsPersisted' /\ BitIsEarned'
            /\ status'.seq = status.seq /\ status'.action = status.action
            /\ status'.state # "RUNNING"
        BY <3>1, <3>3, <1>a, FailureKeeps DEF TypeOK, Status
      <4> QED
        BY <3>1, <4>1
        DEF IInv, Relations, RequestHasCred, NumberIsLeft,
            ServerKnowsAttempt, OwnedByServer, ValidatorsAreSpawned, RunningHasOwner,
            SnapshotIsOwn, HasSnapshot, IsActive, VerdictIsPersisted
    <3> QED BY <2>2, <3>2, <3>3 DEF HandleDisconnected
  <2> QED BY <1>7, <2>1, <2>2 DEF EventLoop, Event
<1>8. CASE Environment
  BY <1>8, <1>b DEF Environment, GetAddress, LoseLink, ScanStarts, ScanEnds,
                    ConsoleHangsUp, ConsoleConnects
<1>9. CASE ButtonTask \/ UNCHANGED vars
  BY <1>9, <1>b DEF ButtonTask, vars
<1> QED BY <1>2, <1>3, <1>4, <1>5, <1>6, <1>7, <1>8, <1>9 DEF Next

----------------------------------------------------------------------------
(* Whoever changes the status tells the LED, or records that it did not.   *)
LEMMA LedStep == IInv /\ TypeOK' /\ [Next]_vars => LedIsKept'
<1> SUFFICES ASSUME IInv, TypeOK', [Next]_vars PROVE LedIsKept'
  OBVIOUS
<1> USE DEF shown, lamp, tasks, radio, rest, given, others, boot, HttpdAt
<1>a. status \in Status /\ httpd \in Httpd /\ LedIsKept
  BY DEF IInv, TypeOK
<1>b. ASSUME UNCHANGED << status.state, lamp, button, reconfigure >>,
             httpd'.pc # "led" => httpd.pc # "led"
      PROVE  LedIsKept'
  BY <1>b, <1>a DEF LedIsKept, Tells
<1>c. ASSUME NEW q, NEW reason, MarkFailed(q, reason), UNCHANGED boot,
             httpd'.pc # "led" => httpd.pc # "led"
      PROVE  LedIsKept'
  <2>1. CASE IsActive(q)
    BY <1>c, <2>1, <1>a DEF MarkFailed, Failed, ShowLed, Status, LedIsKept, Tells
  <2>2. CASE ~IsActive(q)
    BY <1>c, <2>2, <1>b DEF MarkFailed
  <2> QED BY <2>1, <2>2
<1>1. CASE HttpdRequest
  BY <1>1, <1>b
  DEF HttpdRequest, RequestTest, RequestReconnect, RequestProfile, StartAttempt,
      RequestSave, RequestList, RequestDelete
<1>2. CASE HttpdStep
  <2> USE DEF HttpdGoto, HttpdDone, HttpdIdle, Serve
  <2>1. CASE Reject
    BY <2>1, <1>a DEF Reject, NewStatus, LedIsKept, Tells
  <2>2. CASE Begin
    BY <2>2, <1>a DEF Begin, LedIsKept, Httpd
  <2>3. CASE ShowConnecting
    BY <2>3, <1>a DEF ShowConnecting, IsActive, LedIsKept, Tells
  <2>4. CASE AttemptNotStarted
    BY <2>4, <1>c DEF AttemptNotStarted
  <2> QED
    BY <1>2, <2>1, <2>2, <2>3, <2>4, <1>b
    DEF HttpdStep, ApplySetStorage, ApplySetConfig, ApplyFails, HangUpBefore, RequestLink,
        Spawn, SaveSetStorage, SaveSetConfig, HttpdSaveProfile
<1>3. ASSUME NEW q \in Attempts, ValidatorStep(q) PROVE LedIsKept'
  <2>1. CASE TimeOut(q) \/ ReportSaveFailed(q)
    BY <2>1, <1>c DEF TimeOut, ReportSaveFailed
  <2>2. CASE Finish(q)
    <3>1. CASE IsActive(q)
      BY <2>2, <3>1, <1>a DEF Finish, Verdict, Succeeded, ShowLed, Status, LedIsKept, Tells
    <3>2. CASE ~IsActive(q)
      BY <2>2, <3>2, <1>b DEF Finish, Verdict
    <3> QED BY <3>1, <3>2
  <2> QED
    BY <1>3, <2>1, <2>2, <1>b
    DEF ValidatorStep, Poll, HangUpAfter, PersistSetStorage, PersistSetConfig,
        PersistSaveProfile, PersistFails, Signal
<1>4. CASE EventLoop
  <2>1. CASE HandleGotIp
    BY <2>1, <1>a, <1>b DEF HandleGotIp, TakeEvent, Status
  <2>2. ASSUME NEW event, HandleDisconnected(event) PROVE LedIsKept'
    BY <2>2, <1>b, <1>c DEF HandleDisconnected, TakeEvent
  <2> QED BY <1>4, <2>1, <2>2 DEF EventLoop
<1>5. CASE ButtonTask
  <2>1. UNCHANGED << status, httpd >>
    BY <1>5 DEF ButtonTask
  <2>2. CASE ButtonPressed
    BY <2>1, <2>2, <1>a DEF ButtonPressed, LedIsKept, Tells
  <2>3. CASE ButtonShown
    BY <2>1, <2>3, <1>a DEF ButtonShown, LedIsKept, Tells, IInv, TypeOK, Button
  <2>4. CASE ButtonArmed
    BY <2>1, <2>4, <1>a DEF ButtonArmed, ButtonUp, LedIsKept
  <2>5. CASE ButtonReleased
    BY <2>1, <2>5, <1>a DEF ButtonReleased, Restored, ButtonUp, LedIsKept, Tells
  <2>6. CASE ArmedReleased
    BY <2>6 DEF ArmedReleased, LedIsKept
  <2> QED BY <1>5, <2>2, <2>3, <2>4, <2>5, <2>6 DEF ButtonTask
<1>6. CASE \/ \E q \in Attempts : DeadlineExpires(q)
           \/ SecondPasses \/ Environment \/ UNCHANGED vars
  BY <1>6, <1>b
  DEF DeadlineExpires, SecondPasses, Environment, GetAddress, LoseLink, ScanStarts,
      ScanEnds, ConsoleHangsUp, ConsoleConnects, vars
<1> QED BY <1>1, <1>2, <1>3, <1>4, <1>5, <1>6 DEF Next

----------------------------------------------------------------------------
(* The theorems. *)

(* IInv is an inductive invariant of the specification. *)
THEOREM Inductive == Spec => []IInv
<1>1. Init => IInv
  <2> SUFFICES ASSUME Init PROVE IInv
    OBVIOUS
  <2>1. TypeOK
    <3>1. HttpdIdle \in Httpd /\ NoStatus \in Status /\ LinkDown \in Link
      BY BoundsAssumption
      DEF HttpdIdle, Serve, Httpd, HttpdPc, NoStatus, Status, LinkDown, Link
    <3>2. [q \in Attempts |-> NoValidator] \in [Attempts -> Validator]
      BY DEF NoValidator, Validator, ValidatorPc
    <3>3. << >> \in Seq(Event)
      OBVIOUS
    <3>4. ButtonUp \in Button
      BY DEF ButtonUp, Button, Leds
    <3> QED BY <3>1, <3>2, <3>3, <3>4 DEF Init, TypeOK, Leds
  <2> QED
    BY <2>1
    DEF Init, NoStatus, HttpdIdle, Serve, NoValidator, IInv, RequestHasCred, NumberIsLeft,
        ServerKnowsAttempt, OwnedByServer, ValidatorsAreSpawned, RunningIsNumbered,
        RunningHasOwner, AddressIsSeen, SnapshotIsOwn, HasSnapshot, IsActive,
        VerdictIsPersisted, SuccessHasAddress, PendingIsPersisted, BitIsEarned,
        LedIsKept, Tells, ButtonUp
<1>2. IInv /\ [Next]_vars => IInv'
  BY TypeStep, RelationsStep, LedStep DEF IInv, Relations
<1> QED BY <1>1, <1>2, PTL DEF Spec

(* Type correctness: every value the tasks exchange stays in its domain.   *)
THEOREM TypeCorrect == Spec => []TypeOK
<1>1. IInv => TypeOK
  BY DEF IInv
<1> QED BY <1>1, Inductive, PTL

(* An attempt reported as running always has the server task or its own    *)
(* validation task to decide it, under every interleaving of               *)
(* start_wifi_connection_attempt, wifi_connect_validation_task and the     *)
(* event handler.                                                          *)
THEOREM RunningOwned == Spec => []RunningHasOwner
<1>1. IInv => RunningHasOwner
  BY DEF IInv
<1> QED BY <1>1, Inductive, PTL

(* Success is never reported without an address of the same attempt. *)
THEOREM SuccessEarned == Spec => []SuccessHasAddress
<1>1. IInv => SuccessHasAddress
  BY DEF IInv
<1> QED BY <1>1, Inductive, PTL

(* A restart is never announced before persist_wifi_credentials got        *)
(* through, nor for a test.                                                *)
THEOREM PendingEarned == Spec => []PendingIsPersisted
<1>1. IInv => PendingIsPersisted
  BY DEF IInv
<1> QED BY <1>1, Inductive, PTL

(* PROV_SUCCESS_BIT, which restarts the board, is never set before an      *)
(* attempt had an address and persisted its credentials.                   *)
THEOREM SuccessBitEarned == Spec => []SuccessBitIsEarned
<1>1. IInv => SuccessBitIsEarned
  BY DEF IInv, SuccessBitIsEarned, BitIsEarned, ValidatorAt, VerdictIsPersisted,
         SnapshotIsOwn, HasSnapshot
<1> QED BY <1>1, Inductive, PTL

(* The LED and the status part only through button_task, an attempt that   *)
(* failed before start_wifi_connection_attempt set the LED, and            *)
(* mark_connect_rejected: everyone else who decides an attempt shows it.   *)
THEOREM LedTruthful == Spec => []LedShowsAttempt
<1>1. IInv => LedShowsAttempt
  BY DEF IInv, LedIsKept, Tells, LedShowsAttempt
<1> QED BY <1>1, Inductive, PTL

(* A validation task that was replaced changes neither status nor LED. *)
THEOREM SupersededSilent == Spec => SupersededIsSilent
<1> DEFINE A == \A q \in Attempts :
                  validator'[q] # validator[q] /\ q # status.seq =>
                    UNCHANGED << status, led >>
<1>1. IInv /\ [Next]_vars => A \/ UNCHANGED vars
  <2> SUFFICES ASSUME IInv, [Next]_vars, NEW q \in Attempts,
                      validator'[q] # validator[q], q # status.seq
               PROVE  UNCHANGED << status, led >>
    OBVIOUS
  <2> USE DEF shown, lamp, tasks, radio, rest, given, others, boot, ShowLed
  <2>1. CASE HttpdRequest
    BY <2>1 DEF HttpdRequest, RequestTest, RequestReconnect, RequestProfile, StartAttempt,
                RequestSave, RequestList, RequestDelete
  <2>2. CASE HttpdStep
    BY <2>2
    DEF HttpdStep, Reject, ApplySetStorage, ApplySetConfig, ApplyFails, HangUpBefore,
        Begin, ShowConnecting, RequestLink, Spawn, AttemptNotStarted, SaveSetStorage,
        SaveSetConfig, HttpdSaveProfile
  <2>3. ASSUME NEW r \in Attempts, ValidatorStep(r) PROVE UNCHANGED << status, led >>
    <3>1. r = q
      BY <2>3
      DEF ValidatorStep, Poll, TimeOut, HangUpAfter, PersistSetStorage, PersistSetConfig,
          PersistSaveProfile, PersistFails, ReportSaveFailed, Finish, Signal,
          ValidatorGoto, IInv, TypeOK
    <3> QED
      BY <2>3, <3>1
      DEF ValidatorStep, Poll, TimeOut, HangUpAfter, PersistSetStorage, PersistSetConfig,
          PersistSaveProfile, PersistFails, ReportSaveFailed, Finish, Signal,
          MarkFailed, Verdict, IsActive
  <2>4. CASE \/ \E r \in Attempts : DeadlineExpires(r)
             \/ SecondPasses \/ EventLoop \/ ButtonTask \/ Environment
             \/ UNCHANGED vars
    BY <2>4 DEF ButtonTask, ButtonPressed, ButtonShown, ButtonArmed, ButtonReleased,
                ArmedReleased, DeadlineExpires, SecondPasses, EventLoop, HandleGotIp,
                HandleDisconnected, TakeEvent, Environment, GetAddress, LoseLink,
                ScanStarts, ScanEnds, ConsoleHangsUp, ConsoleConnects, vars
  <2> QED BY <2>1, <2>2, <2>3, <2>4 DEF Next
<1>2. IInv /\ [Next]_vars => [A]_vars
  BY <1>1
<1> QED BY <1>2, Inductive, PTL DEF Spec, SupersededIsSilent

(* What the poller of GET /api/wifi/connection sees is the abstract        *)
(* attempt: every step of a task is one of its steps or invisible to it.   *)
THEOREM Refinement == Spec => ImplementsConnectAttempt
<1>1. Init => Attempt!Init
  BY DEF Init, Attempt!Init, NoStatus
<1>2. IInv /\ [Next]_vars => [Attempt!Next]_(Attempt!attemptVars)
  <2> SUFFICES ASSUME IInv, [Next]_vars
               PROVE  Attempt!Next \/ UNCHANGED Attempt!attemptVars
    OBVIOUS
  <2> USE DEF shown, lamp, tasks, radio, rest, given, others, boot, ShowLed, Attempt!Next,
              Attempt!attemptVars
  <2>a. status \in Status
    BY DEF IInv, TypeOK
  <2>b. ASSUME UNCHANGED status PROVE UNCHANGED Attempt!attemptVars
    BY <2>b
  <2>c. ASSUME NEW q, NEW reason, MarkFailed(q, reason)
        PROVE  Attempt!Next \/ UNCHANGED Attempt!attemptVars
    BY <2>c, <2>a DEF MarkFailed, Failed, IsActive, Status, Attempt!Fail
  <2>1. CASE HttpdRequest
    BY <2>1, <2>b
    DEF HttpdRequest, RequestTest, RequestReconnect, RequestProfile, StartAttempt,
        RequestSave, RequestList, RequestDelete
  <2>2. CASE HttpdStep
    <3>1. CASE Reject \/ Begin
      BY <3>1 DEF Reject, Begin, NewStatus, Attempt!New
    <3>2. CASE AttemptNotStarted
      BY <3>2, <2>c DEF AttemptNotStarted
    <3> QED
      BY <2>2, <3>1, <3>2, <2>b
      DEF HttpdStep, ApplySetStorage, ApplySetConfig, ApplyFails, HangUpBefore,
          ShowConnecting, RequestLink, Spawn, SaveSetStorage, SaveSetConfig,
          HttpdSaveProfile
  <2>3. ASSUME NEW q \in Attempts, ValidatorStep(q)
        PROVE  Attempt!Next \/ UNCHANGED Attempt!attemptVars
    <3>1. CASE TimeOut(q) \/ ReportSaveFailed(q)
      BY <3>1, <2>c DEF TimeOut, ReportSaveFailed
    <3>2. CASE Finish(q) /\ IsActive(q)
      <4>1. status.gotIp /\ status.state = "RUNNING" /\ status' = Succeeded(q)
        BY <3>2 DEF Finish, ValidatorAt, Verdict, IsActive, IInv, SnapshotIsOwn, HasSnapshot
      <4> QED BY <4>1, <2>a DEF Succeeded, Status, Attempt!Succeed
    <3>3. CASE Finish(q) /\ ~IsActive(q)
      BY <3>3, <2>b DEF Finish, Verdict
    <3> QED
      BY <2>3, <3>1, <3>2, <3>3, <2>b
      DEF ValidatorStep, Poll, HangUpAfter, PersistSetStorage, PersistSetConfig,
          PersistSaveProfile, PersistFails, Signal
  <2>4. CASE EventLoop
    <3>1. CASE HandleGotIp
      BY <3>1, <2>a, <2>b DEF HandleGotIp, Listening, Status, Attempt!Address
    <3>2. ASSUME NEW event, HandleDisconnected(event)
          PROVE  Attempt!Next \/ UNCHANGED Attempt!attemptVars
      BY <3>2, <2>b, <2>c DEF HandleDisconnected
    <3> QED BY <2>4, <3>1, <3>2 DEF EventLoop
  <2>5. CASE \/ \E q \in Attempts : DeadlineExpires(q)
             \/ SecondPasses \/ ButtonTask \/ Environment \/ UNCHANGED vars
    BY <2>5, <2>b DEF ButtonTask, DeadlineExpires, SecondPasses, Environment, GetAddress,
        LoseLink, ScanStarts, ScanEnds, ConsoleHangsUp, ConsoleConnects, vars
  <2> QED BY <2>1, <2>2, <2>3, <2>4, <2>5 DEF Next
<1> QED BY <1>1, <1>2, Inductive, PTL DEF Spec, ImplementsConnectAttempt, Attempt!Spec


=============================================================================
