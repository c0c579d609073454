------------------------ MODULE WifiConnectWaitsProofs ------------------------
(***************************************************************************)
(* Proofs about WifiConnect for clients that wait for a result before they *)
(* start another attempt, and a settle time that drains the events of the  *)
(* previous link.  Then each attempt has the driver, the address and the   *)
(* flash to itself.                                                        *)
(***************************************************************************)
EXTENDS WifiConnectProofs

(* Clients wait for the result of an attempt before they start another     *)
(* one, and nobody uses the console's disconnect and reconnect commands    *)
(* meanwhile.  Saves, listings, deletions and the button come at any time. *)
Waiting == ClientWaits /\ EventsDrain /\ "console" \notin Requests

----------------------------------------------------------------------------
(* The inductive invariant, in addition to IInv. *)

Saving == httpd.pc \in {"saveStorage", "saveConfig", "saveProfile"}

(* What the server stores without a validation, it was told to.            *)
RequestIsKnown ==
  /\ console = "idle"
  /\ Saving => httpd.cred \in saveAsked
  /\ HttpdAt("import") => httpd.cred \in imported

Preparing == httpd.pc \in {"reject", "storage", "config", "disconnect", "begin"}

Starting == httpd.pc \in {"led", "connect"}

(* One attempt at a time: none runs while the next one is prepared. *)
NoneRunsBefore == Preparing => status.state # "RUNNING"

(* The server's calls into the driver take effect undisturbed. *)
ServerOwnsDriver ==
  /\ HttpdAt("config") => storage = "RAM"
  /\ HttpdAt("disconnect") \/ HttpdAt("begin") \/ Starting => ramCfg = httpd.cred
  /\ HttpdAt("begin") \/ Starting => link = LinkDown
  /\ Starting => /\ events = << >>
                 /\ status.state = "RUNNING"
                 /\ status.cred = httpd.cred

AddressIsNews == \E i \in 1..Len(events) : events[i] = "gotIp"

(* While an attempt runs, the link and its events are its own. *)
LinkIsOwn ==
  status.state = "RUNNING" =>
    /\ link.state # "down" => link.cred = status.cred
    /\ AddressIsNews => status.cred \in validated

Persisting(q) == validator[q].pc \in {"storage", "config", "profile", "saveFailed", "finish"}

(* Nobody ends an attempt with an address but its own validation task. *)
SnapshotIsCurrent ==
  \A q \in Attempts : Persisting(q) =>
    /\ IsActive(q) /\ status.gotIp
    /\ validator[q].cred = status.cred
    /\ validator[q].action = status.action

Configured(q) ==
  \/ validator[q].pc = "profile"
  \/ validator[q].pc = "finish" /\ validator[q].action = "RECONNECT"

(* The writes of persist_wifi_credentials reach the flash, and only a save *)
(* comes after them.                                                       *)
SnapshotIsWritten ==
  \A q \in Attempts :
    /\ validator[q].pc = "config" => storage = "FLASH"
    /\ Configured(q) => flashCfg \in {validator[q].cred} \cup saveAsked

WInv ==
  /\ RequestIsKnown
  /\ NoneRunsBefore
  /\ ServerOwnsDriver
  /\ LinkIsOwn
  /\ SnapshotIsCurrent
  /\ SnapshotIsWritten
  /\ OnlyValidatedInFlash
  /\ SavedForAReason
  /\ AddressIsOwn
  /\ PendingIsInFlash

----------------------------------------------------------------------------
(* An event that is added, or taken off the queue, makes no other one an   *)
(* address.                                                                *)
LEMMA EventAdded ==
  ASSUME events \in Seq(Event), NEW event, events' = Append(events, event),
         AddressIsNews'
  PROVE  AddressIsNews \/ event = "gotIp"
BY DEF AddressIsNews

LEMMA EventTaken ==
  ASSUME events \in Seq(Event), events # << >>, events' = Tail(events)
  PROVE  /\ AddressIsNews' => AddressIsNews
         /\ Head(events) = "gotIp" => AddressIsNews
BY DEF AddressIsNews

(* A step that leaves the status, the tasks, the driver, the flash and the *)
(* profiles alone, and does not move the server into a state it has not    *)
(* earned, preserves WInv.                                                 *)
seen == << status, validator, storage, ramCfg, flashCfg, profiles, link, events, validated,
           console >>

LEMMA ServerWaits ==
  ASSUME WInv, UNCHANGED seen, RequestIsKnown', NoneRunsBefore', ServerOwnsDriver',
         saveAsked \subseteq saveAsked', imported \subseteq imported'
  PROVE  WInv'
BY DEF WInv, seen, LinkIsOwn, AddressIsNews, SnapshotIsCurrent, Persisting, IsActive,
       SnapshotIsWritten, Configured, OnlyValidatedInFlash, SavedForAReason, AddressIsOwn,
       PendingIsInFlash, HttpdAt

(* While the server owns the running attempt no validation task has one,   *)
(* and while it prepares the next none runs.                               *)
LEMMA ServerExcludes ==
  ASSUME IInv, WInv, NEW q \in Attempts, Persisting(q)
  PROVE  ~Preparing /\ ~OwnedByServer
BY DEF IInv, WInv, NoneRunsBefore, SnapshotIsCurrent, IsActive, ValidatorsAreSpawned,
       RunningHasOwner, Persisting, OwnedByServer, Preparing, TypeOK, Status, Attempts

(* Two validation tasks never persist at once. *)
LEMMA OnePersists ==
  ASSUME WInv, NEW q \in Attempts, NEW r \in Attempts, Persisting(q), IsActive(r)
  PROVE  q = r
BY DEF WInv, SnapshotIsCurrent, IsActive

(* The server task's steps preserve WInv. *)
LEMMA ServerStep ==
  ASSUME Waiting, IInv, WInv, TypeOK', HttpdRequest \/ HttpdStep
  PROVE  WInv'
<1> USE DEF Waiting, shown, lamp, tasks, radio, rest, given, others, boot, HttpdAt,
            HttpdGoto, HttpdDone, HttpdIdle, Serve, Saving
<1>a. /\ TypeOK /\ httpd \in Httpd /\ status \in Status
      /\ RequestIsKnown /\ NoneRunsBefore /\ ServerOwnsDriver
  BY DEF IInv, TypeOK, WInv
<1>1. ASSUME NEW cred, NEW action, StartAttempt(cred, action) PROVE WInv'
  BY <1>1, <1>a, ServerWaits
  DEF StartAttempt, seen, RequestIsKnown, Saving, NoneRunsBefore, Preparing,
      ServerOwnsDriver, Starting
<1>2. CASE HttpdRequest
  <2>1. CASE RequestTest \/ RequestReconnect \/ RequestProfile
    BY <2>1, <1>1 DEF RequestTest, RequestReconnect, RequestProfile
  <2>2. CASE RequestDelete
    BY <2>2
    DEF RequestDelete, WInv, RequestIsKnown, Saving, NoneRunsBefore, Preparing,
        ServerOwnsDriver, Starting, LinkIsOwn, AddressIsNews, SnapshotIsCurrent, Persisting,
        IsActive, SnapshotIsWritten, Configured, OnlyValidatedInFlash, SavedForAReason,
        AddressIsOwn, PendingIsInFlash
  <2>3. CASE RequestSave
    BY <2>3, <1>a, ServerWaits
    DEF RequestSave, seen, RequestIsKnown, NoneRunsBefore, Preparing, ServerOwnsDriver, Starting
  <2>4. CASE RequestList
    BY <2>4, <1>a, ServerWaits
    DEF RequestList, seen, RequestIsKnown, NoneRunsBefore, Preparing, ServerOwnsDriver, Starting
  <2> QED BY <1>2, <2>1, <2>2, <2>3, <2>4 DEF HttpdRequest
<1>3. CASE HttpdStep
  <2>a. CASE Preparing
    <3>1. \A q \in Attempts : ~Persisting(q)
      BY <2>a, ServerExcludes
    <3>2. status.state # "RUNNING"
      BY <2>a, <1>a DEF NoneRunsBefore
    <3>3. CASE Reject
      BY <3>1, <3>2, <3>3, <1>a
      DEF Reject, NewStatus, WInv, RequestIsKnown, Saving, NoneRunsBefore, Preparing,
          ServerOwnsDriver, Starting, LinkIsOwn, SnapshotIsCurrent, Persisting,
          SnapshotIsWritten, Configured, OnlyValidatedInFlash, SavedForAReason,
          AddressIsOwn, PendingIsInFlash
    <3>4. CASE ApplySetStorage
      BY <3>1, <3>2, <3>4, <1>a
      DEF ApplySetStorage, AttemptStorage, SetStorage, Httpd, WInv, RequestIsKnown, Saving,
          NoneRunsBefore, Preparing, ServerOwnsDriver, Starting, LinkIsOwn,
          SnapshotIsCurrent, Persisting, SnapshotIsWritten, Configured, OnlyValidatedInFlash,
          SavedForAReason, AddressIsOwn, PendingIsInFlash
    <3>5. CASE ApplySetConfig
      <4>1. flashCfg' = flashCfg
        BY <3>5, <1>a DEF ApplySetConfig, SetConfig, ServerOwnsDriver
      <4> QED
        BY <3>1, <3>2, <3>5, <4>1, <1>a
        DEF ApplySetConfig, SetConfig, Httpd, WInv, RequestIsKnown, Saving,
            NoneRunsBefore, Preparing, ServerOwnsDriver, Starting, LinkIsOwn,
            SnapshotIsCurrent, Persisting, SnapshotIsWritten, Configured,
            OnlyValidatedInFlash, SavedForAReason, AddressIsOwn, PendingIsInFlash
    <3>6. CASE ApplyFails
      BY <3>6, <1>a, ServerWaits
      DEF ApplyFails, seen, RequestIsKnown, Saving, NoneRunsBefore, Preparing,
          ServerOwnsDriver, Starting
    <3>7. CASE HangUpBefore
      BY <3>1, <3>2, <3>7, <1>a
      DEF HangUpBefore, Disconnect, Httpd, WInv, RequestIsKnown, Saving,
          NoneRunsBefore, Preparing, ServerOwnsDriver, Starting, LinkIsOwn,
          SnapshotIsCurrent, Persisting, SnapshotIsWritten, Configured, OnlyValidatedInFlash,
          SavedForAReason, AddressIsOwn, PendingIsInFlash
    <3>8. CASE Begin
      <4>1. ~AddressIsNews' /\ events' = << >> /\ link' = LinkDown
        BY <3>8, <1>a DEF Begin, AddressIsNews, ServerOwnsDriver
      <4>2. /\ status'.state = "RUNNING" /\ status'.cred = httpd'.cred /\ ~status'.gotIp
            /\ ~status'.bridgePending /\ httpd'.pc = "led" /\ httpd'.cred = httpd.cred
        BY <3>8, <1>a DEF Begin, NewStatus, Httpd
      <4> QED
        BY <3>1, <3>2, <3>8, <4>1, <4>2, <1>a
        DEF Begin, LinkDown, WInv, RequestIsKnown, Saving, NoneRunsBefore, Preparing,
            ServerOwnsDriver, Starting, LinkIsOwn, SnapshotIsCurrent, Persisting,
            SnapshotIsWritten, Configured, OnlyValidatedInFlash, SavedForAReason,
            AddressIsOwn, PendingIsInFlash
    <3> QED
      BY <1>3, <2>a, <3>3, <3>4, <3>5, <3>6, <3>7, <3>8
      DEF Preparing, HttpdStep, ShowConnecting, RequestLink, Spawn, AttemptNotStarted,
          SaveSetStorage, SaveSetConfig, HttpdSaveProfile
  <2>b. CASE OwnedByServer
    <3>1. \A q \in Attempts : ~Persisting(q)
      BY <2>b, ServerExcludes
    <3>2. CASE ShowConnecting
      BY <3>1, <3>2, <1>a
      DEF ShowConnecting, Httpd, WInv, RequestIsKnown, Saving, NoneRunsBefore, Preparing,
          ServerOwnsDriver, Starting, LinkIsOwn, AddressIsNews, SnapshotIsCurrent,
          Persisting, SnapshotIsWritten, Configured, OnlyValidatedInFlash,
          SavedForAReason, AddressIsOwn, PendingIsInFlash
    <3>3. CASE RequestLink
      <4>1. httpd'.pc \in {"spawn", "connectFailed"}
        BY <3>3, <1>a DEF RequestLink, Httpd
      <4>2. link'.state # "down" => link'.cred = status.cred
        BY <3>3, <1>a DEF RequestLink, Connect, ServerOwnsDriver, Starting, LinkDown
      <4> QED
        BY <3>1, <3>3, <4>1, <4>2, <1>a
        DEF RequestLink, Connect, WInv, RequestIsKnown, Saving, NoneRunsBefore, Preparing,
            ServerOwnsDriver, Starting, LinkIsOwn, AddressIsNews, SnapshotIsCurrent,
            Persisting, SnapshotIsWritten, Configured, OnlyValidatedInFlash,
            SavedForAReason, AddressIsOwn, PendingIsInFlash
    <3>4. CASE Spawn
      <4>1. httpd'.pc \in {"idle", "spawnFailed"}
        BY <3>4, <1>a DEF Spawn, Httpd
      <4>2. \A q \in Attempts : ~Persisting(q)'
        BY <3>1, <3>4, <1>a DEF Spawn, Persisting, TypeOK, Validator
      <4> QED
        BY <3>4, <4>1, <4>2, <1>a
        DEF Spawn, WInv, RequestIsKnown, Saving, NoneRunsBefore, Preparing,
            ServerOwnsDriver, Starting, LinkIsOwn, AddressIsNews, SnapshotIsCurrent,
            Persisting, SnapshotIsWritten, Configured, OnlyValidatedInFlash,
            SavedForAReason, AddressIsOwn, PendingIsInFlash
    <3>5. CASE AttemptNotStarted
      BY <3>1, <3>5, <1>a
      DEF AttemptNotStarted, MarkFailed, Failed, IsActive, Status, WInv, RequestIsKnown, Saving,
          NoneRunsBefore, Preparing, ServerOwnsDriver, Starting, LinkIsOwn, AddressIsNews,
          SnapshotIsCurrent, Persisting, SnapshotIsWritten, Configured,
          OnlyValidatedInFlash, SavedForAReason, AddressIsOwn, PendingIsInFlash
    <3> QED
      BY <1>3, <2>b, <3>2, <3>3, <3>4, <3>5
      DEF OwnedByServer, HttpdStep, Reject, ApplySetStorage, ApplySetConfig, ApplyFails,
          HangUpBefore, Begin, SaveSetStorage, SaveSetConfig, HttpdSaveProfile
  <2>c. CASE Saving \/ HttpdAt("import")
    <3>1. CASE ApplyFails
      BY <3>1, <1>a, ServerWaits
      DEF ApplyFails, seen, RequestIsKnown, NoneRunsBefore, Preparing, ServerOwnsDriver,
          Starting
    <3>2. CASE SaveSetStorage
      BY <3>2, <1>a
      DEF SaveSetStorage, SetStorage, SaveStorage, Httpd, WInv, RequestIsKnown,
          NoneRunsBefore, Preparing, ServerOwnsDriver, Starting, LinkIsOwn, AddressIsNews,
          SnapshotIsCurrent, Persisting, IsActive, SnapshotIsWritten, Configured,
          OnlyValidatedInFlash, SavedForAReason, AddressIsOwn, PendingIsInFlash
    <3>3. CASE SaveSetConfig
      <4>1. /\ httpd.cred \in saveAsked /\ httpd'.pc = "saveProfile" /\ httpd'.cred = httpd.cred
            /\ flashCfg' \in {flashCfg, httpd.cred}
        BY <3>3, <1>a DEF SaveSetConfig, SetConfig, RequestIsKnown, Httpd
      <4> QED
        BY <3>3, <4>1, <1>a
        DEF SaveSetConfig, SetConfig, WInv, RequestIsKnown,
            NoneRunsBefore, Preparing, ServerOwnsDriver, Starting, LinkIsOwn, AddressIsNews,
            SnapshotIsCurrent, Persisting, IsActive, SnapshotIsWritten, Configured,
            OnlyValidatedInFlash, SavedForAReason, AddressIsOwn, PendingIsInFlash
    <3>4. CASE HttpdSaveProfile
      <4>1. profiles' \subseteq profiles \cup saveAsked \cup imported
        BY <3>4, <1>a DEF HttpdSaveProfile, RequestIsKnown
      <4> QED
        BY <3>4, <4>1, <1>a
        DEF HttpdSaveProfile, WInv, RequestIsKnown,
            NoneRunsBefore, Preparing, ServerOwnsDriver, Starting, LinkIsOwn, AddressIsNews,
            SnapshotIsCurrent, Persisting, IsActive, SnapshotIsWritten, Configured,
            OnlyValidatedInFlash, SavedForAReason, AddressIsOwn, PendingIsInFlash
    <3> QED
      BY <1>3, <2>c, <3>1, <3>2, <3>3, <3>4
      DEF HttpdStep, Reject, ApplySetStorage, ApplySetConfig, HangUpBefore, Begin,
          ShowConnecting, RequestLink, Spawn, AttemptNotStarted
  <2> QED
    BY <1>3, <2>a, <2>b, <2>c
    DEF Preparing, OwnedByServer, HttpdStep, Reject, ApplySetStorage,
        ApplySetConfig, ApplyFails, HangUpBefore, Begin, ShowConnecting, RequestLink, Spawn,
        AttemptNotStarted, SaveSetStorage, SaveSetConfig, HttpdSaveProfile
<1> QED BY <1>2, <1>3

(* The validation tasks' steps preserve WInv. *)
LEMMA ValidatorKeeps ==
  ASSUME IInv, IInv', WInv, NEW q \in Attempts, ValidatorStep(q)
  PROVE  WInv'
<1> USE DEF shown, lamp, tasks, radio, rest, given, others, boot, HttpdAt, ValidatorAt,
            ValidatorGoto
<1>a. /\ TypeOK /\ status \in Status /\ events \in Seq(Event) /\ link \in Link
      /\ validator \in [Attempts -> Validator] /\ WInv
  BY DEF IInv, TypeOK
<1>b. /\ httpd' = httpd
      /\ validator[q].pc # "none"
      /\ \A r \in Attempts : r # q => validator'[r] = validator[r]
  BY <1>a
  DEF ValidatorStep, Poll, TimeOut, HangUpAfter, PersistSetStorage, PersistSetConfig,
      PersistSaveProfile, PersistFails, ReportSaveFailed, Finish, Signal
<1>c. ASSUME NEW pc, ValidatorGoto(q, pc)
      PROVE  /\ validator'[q].pc = pc
             /\ UNCHANGED << validator[q].cred, validator[q].action >>
  BY <1>c, <1>a DEF Validator
<1>d. Persisting(q) => /\ ~Preparing /\ ~OwnedByServer
                       /\ IsActive(q) /\ status.gotIp
                       /\ validator[q].cred = status.cred
                       /\ validator[q].action = status.action
                       /\ status.cred \in validated
                       /\ ~status.bridgePending
  BY <1>a, ServerExcludes
  DEF WInv, SnapshotIsCurrent, AddressIsOwn, IInv, PendingIsPersisted, IsActive
<1>e. Persisting(q) => \A r \in Attempts : r # q => ~Persisting(r)
  BY <1>a, <1>d, OnePersists
<1>f. IsActive(q) => ~OwnedByServer
  BY <1>b DEF IInv, ValidatorsAreSpawned, IsActive, TypeOK, Status, Attempts
<1>1. CASE Poll(q)
  <2>1. CASE ValidatorGoto(q, "gone")
    BY <2>1, <1>1, <1>a, <1>b, <1>c
    DEF Poll, WInv, RequestIsKnown, Saving, NoneRunsBefore, Preparing, ServerOwnsDriver,
        Starting, LinkIsOwn, AddressIsNews, SnapshotIsCurrent, Persisting, IsActive,
        SnapshotIsWritten, Configured, OnlyValidatedInFlash, SavedForAReason, AddressIsOwn,
        PendingIsInFlash
  <2>2. CASE ~ValidatorGoto(q, "gone")
    <3>1. /\ IsActive(q) /\ HasAddress
          /\ validator'[q].pc \in {"storage", "finish"}
          /\ validator'[q].pc = "finish" => status.action # "RECONNECT"
          /\ validator'[q].cred = status.cred /\ validator'[q].action = status.action
      BY <2>2, <1>1, <1>a DEF Poll
    <3> QED
      BY <3>1, <1>1, <1>a, <1>b
      DEF Poll, HasAddress, WInv, RequestIsKnown, Saving, NoneRunsBefore, Preparing,
          ServerOwnsDriver, Starting, LinkIsOwn, AddressIsNews, SnapshotIsCurrent,
          Persisting, IsActive, SnapshotIsWritten, Configured, OnlyValidatedInFlash,
          SavedForAReason, AddressIsOwn, PendingIsInFlash
  <2> QED BY <2>1, <2>2
<1>2. CASE TimeOut(q) \/ ReportSaveFailed(q)
  <2>1. PICK reason \in {"timeout", "save"} : MarkFailed(q, reason)
    BY <1>2 DEF TimeOut, ReportSaveFailed
  <2>2. validator'[q].pc \in {"hangUp", "gone"}
    BY <1>2, <1>c DEF TimeOut, ReportSaveFailed
  <2>3. UNCHANGED << storage, ramCfg, flashCfg, link, events, validated, profiles, console,
                    given >>
    BY <1>2 DEF TimeOut, ReportSaveFailed
  <2>4. CASE IsActive(q)
    <3>1. /\ status'.seq = status.seq /\ status'.state = "FAILED" /\ ~status'.gotIp
          /\ ~status'.bridgePending
      BY <2>1, <2>4, <1>a DEF MarkFailed, Failed, Status
    <3>2. \A r \in Attempts : r # q => ~Persisting(r)
      BY <2>4, <1>a, OnePersists
    <3> QED
      BY <2>2, <2>3, <2>4, <3>1, <3>2, <1>a, <1>b, <1>f
      DEF WInv, RequestIsKnown, Saving, NoneRunsBefore, Preparing, ServerOwnsDriver,
          OwnedByServer, Starting, LinkIsOwn, SnapshotIsCurrent, Persisting,
          SnapshotIsWritten, Configured, OnlyValidatedInFlash, SavedForAReason,
          AddressIsOwn, PendingIsInFlash
  <2>5. CASE ~IsActive(q)
    BY <2>1, <2>2, <2>3, <2>5, <1>a, <1>b
    DEF MarkFailed, WInv, RequestIsKnown, Saving, NoneRunsBefore, Preparing, ServerOwnsDriver,
        Starting, LinkIsOwn, AddressIsNews, SnapshotIsCurrent, Persisting, IsActive,
        SnapshotIsWritten, Configured, OnlyValidatedInFlash, SavedForAReason,
        AddressIsOwn, PendingIsInFlash
  <2> QED BY <2>4, <2>5
<1>3. CASE HangUpAfter(q)
  <2>1. AddressIsNews' => AddressIsNews
    BY <1>3, <1>a, EventAdded DEF HangUpAfter, Disconnect, AddressIsNews
  <2>2. validator'[q].pc = "gone"
    BY <1>3, <1>c DEF HangUpAfter
  <2> QED
    BY <1>3, <2>1, <2>2, <1>a, <1>b
    DEF HangUpAfter, Disconnect, LinkDown, WInv, RequestIsKnown, Saving, NoneRunsBefore,
        Preparing, ServerOwnsDriver, Starting, LinkIsOwn, SnapshotIsCurrent, Persisting,
        IsActive, SnapshotIsWritten, Configured, OnlyValidatedInFlash, SavedForAReason,
        AddressIsOwn, PendingIsInFlash
<1>4. CASE PersistSetStorage(q)
  <2>1. Persisting(q) /\ validator'[q].pc = "config"
    BY <1>4, <1>c DEF PersistSetStorage, Persisting
  <2> QED
    BY <1>4, <2>1, <1>a, <1>b, <1>c, <1>d, <1>e
    DEF PersistSetStorage, SetStorage, SaveStorage, WInv, RequestIsKnown, Saving,
        NoneRunsBefore, Preparing, ServerOwnsDriver, Starting, LinkIsOwn, AddressIsNews,
        SnapshotIsCurrent, Persisting, IsActive, SnapshotIsWritten, Configured,
        OnlyValidatedInFlash, SavedForAReason, AddressIsOwn, PendingIsInFlash
<1>5. CASE PersistSetConfig(q)
  <2>1. Persisting(q) /\ validator'[q].pc = "profile" /\ flashCfg' = status.cred
    BY <1>5, <1>a, <1>c, <1>d
    DEF PersistSetConfig, SetConfig, Persisting, WInv, SnapshotIsWritten
  <2> QED
    BY <1>5, <2>1, <1>a, <1>b, <1>c, <1>d, <1>e
    DEF PersistSetConfig, SetConfig, WInv, RequestIsKnown, Saving, NoneRunsBefore,
        OwnedByServer, Preparing, ServerOwnsDriver, Starting, LinkIsOwn, AddressIsNews,
        SnapshotIsCurrent, Persisting, IsActive, SnapshotIsWritten, Configured,
        OnlyValidatedInFlash, SavedForAReason, AddressIsOwn, PendingIsInFlash
<1>6. CASE PersistSaveProfile(q) \/ PersistFails(q)
  <2>1. Persisting(q) /\ profiles' \subseteq profiles \cup {status.cred}
    BY <1>6, <1>d DEF PersistSaveProfile, PersistFails, Persisting
  <2>2. /\ validator'[q].pc \in {"finish", "saveFailed"}
        /\ validator'[q].pc = "finish" => validator[q].pc = "profile"
        /\ UNCHANGED << validator[q].cred, validator[q].action >>
    BY <1>6, <1>c DEF PersistSaveProfile, PersistFails, AfterPersistError
  <2>3. UNCHANGED << status, storage, ramCfg, flashCfg, link, events, validated, console, given >>
    BY <1>6 DEF PersistSaveProfile, PersistFails
  <2> QED
    BY <2>1, <2>2, <2>3, <1>a, <1>b, <1>d, <1>e
    DEF WInv, RequestIsKnown, Saving, NoneRunsBefore, Preparing, ServerOwnsDriver, Starting,
        LinkIsOwn, AddressIsNews, SnapshotIsCurrent, Persisting, IsActive,
        SnapshotIsWritten, Configured, OnlyValidatedInFlash, SavedForAReason, AddressIsOwn,
        PendingIsInFlash
<1>7. CASE Finish(q)
  <2>1. /\ Persisting(q) /\ status' = Succeeded(q)
        /\ validator'[q].pc \in {"signal", "gone"}
    BY <1>7, <1>c, <1>d DEF Finish, Verdict, AfterVerdict, Persisting
  <2>2. /\ status'.seq = status.seq /\ status'.state = "SUCCEEDED"
        /\ status'.cred = status.cred /\ status'.gotIp = status.gotIp
        /\ status'.bridgePending => flashCfg \in {status.cred} \cup saveAsked
    BY <1>7, <2>1, <1>a, <1>d
    DEF Finish, Succeeded, Status, WInv, SnapshotIsWritten, Configured
  <2> QED
    BY <1>7, <2>1, <2>2, <1>a, <1>b, <1>d, <1>e
    DEF Finish, WInv, RequestIsKnown, Saving, NoneRunsBefore, Preparing, OwnedByServer,
        ServerOwnsDriver, Starting, LinkIsOwn, SnapshotIsCurrent, Persisting,
        SnapshotIsWritten, Configured, OnlyValidatedInFlash, SavedForAReason,
        AddressIsOwn, PendingIsInFlash
<1>8. CASE Signal(q)
  BY <1>8, <1>a, <1>b, <1>c
  DEF Signal, WInv, RequestIsKnown, Saving, NoneRunsBefore, Preparing, ServerOwnsDriver,
      Starting, LinkIsOwn, AddressIsNews, SnapshotIsCurrent, Persisting, IsActive,
      SnapshotIsWritten, Configured, OnlyValidatedInFlash, SavedForAReason, AddressIsOwn,
      PendingIsInFlash
<1> QED BY <1>1, <1>2, <1>3, <1>4, <1>5, <1>6, <1>7, <1>8 DEF ValidatorStep

(* So do the event loop, the driver, DHCP, the scan and time. *)
LEMMA OthersKeep ==
  ASSUME Waiting, IInv, WInv,
         \/ \E q \in Attempts : DeadlineExpires(q)
         \/ SecondPasses \/ EventLoop \/ ButtonTask \/ Environment \/ UNCHANGED vars
  PROVE  WInv'
<1> USE DEF shown, lamp, tasks, radio, rest, given, others, boot, HttpdAt
<1>a. TypeOK /\ status \in Status /\ events \in Seq(Event) /\ link \in Link /\ WInv
  BY DEF IInv, TypeOK
<1>b. ASSUME UNCHANGED << status, httpd, validator, storage, ramCfg, flashCfg,
                          profiles, link, events, validated, console, given >>
      PROVE  WInv'
  BY <1>b, <1>a
  DEF WInv, RequestIsKnown, Saving, NoneRunsBefore, Preparing, ServerOwnsDriver, Starting,
      LinkIsOwn, AddressIsNews, SnapshotIsCurrent, Persisting, IsActive, SnapshotIsWritten,
      Configured, OnlyValidatedInFlash, SavedForAReason, AddressIsOwn, PendingIsInFlash
<1>1. CASE \/ \E q \in Attempts : DeadlineExpires(q)
           \/ SecondPasses \/ ButtonTask \/ ScanStarts \/ ScanEnds \/ UNCHANGED vars
  BY <1>1, <1>b DEF DeadlineExpires, SecondPasses, ButtonTask, ScanStarts, ScanEnds, vars
<1>2. CASE HandleGotIp
  <2>1. /\ AddressIsNews /\ (AddressIsNews' => AddressIsNews)
        /\ ~Starting /\ UNCHANGED << httpd, validator, storage, ramCfg, flashCfg,
                                     profiles, link, validated, console, given >>
    BY <1>2, <1>a, EventTaken DEF HandleGotIp, TakeEvent, WInv, ServerOwnsDriver
  <2>2. CASE Listening
    <3>1. /\ status' = [status EXCEPT !.gotIp = TRUE] /\ status.cred \in validated
          /\ status.state = "RUNNING"
      BY <1>2, <2>1, <2>2, <1>a DEF HandleGotIp, Listening, WInv, LinkIsOwn
    <3>2. /\ status'.seq = status.seq /\ status'.state = status.state
          /\ status'.action = status.action /\ status'.cred = status.cred
          /\ status'.bridgePending = status.bridgePending /\ status'.gotIp
      BY <3>1, <1>a DEF Status
    <3> QED
      BY <2>1, <3>1, <3>2, <1>a
      DEF WInv, RequestIsKnown, Saving, NoneRunsBefore, Preparing, ServerOwnsDriver, Starting,
          LinkIsOwn, SnapshotIsCurrent, Persisting, IsActive, SnapshotIsWritten, Configured,
          OnlyValidatedInFlash, SavedForAReason, AddressIsOwn, PendingIsInFlash
  <2>3. CASE ~Listening
    BY <1>2, <2>1, <2>3, <1>a
    DEF HandleGotIp, WInv, RequestIsKnown, Saving, NoneRunsBefore, Preparing, ServerOwnsDriver,
        Starting, LinkIsOwn, SnapshotIsCurrent, Persisting, IsActive, SnapshotIsWritten,
        Configured, OnlyValidatedInFlash, SavedForAReason, AddressIsOwn,
        PendingIsInFlash
  <2> QED BY <2>2, <2>3
<1>3. ASSUME NEW event, HandleDisconnected(event) PROVE WInv'
  <2>1. /\ AddressIsNews' => AddressIsNews
        /\ ~Starting /\ UNCHANGED << httpd, validator, storage, ramCfg, flashCfg,
                                     profiles, link, validated, console, given >>
    BY <1>3, <1>a, EventTaken DEF HandleDisconnected, TakeEvent, WInv, ServerOwnsDriver
  <2>2. CASE UNCHANGED status
    BY <2>1, <2>2, <1>a
    DEF WInv, RequestIsKnown, Saving, NoneRunsBefore, Preparing, ServerOwnsDriver, Starting,
        LinkIsOwn, SnapshotIsCurrent, Persisting, IsActive, SnapshotIsWritten, Configured,
        OnlyValidatedInFlash, SavedForAReason, AddressIsOwn, PendingIsInFlash
  <2>3. CASE MarkFailed(status.seq, "link") /\ ~status.gotIp /\ status.state = "RUNNING"
    <3>1. /\ status'.seq = status.seq /\ status'.state = "FAILED" /\ ~status'.gotIp
          /\ ~status'.bridgePending
      BY <2>3, <1>a DEF MarkFailed, IsActive, Failed, Status
    <3>2. \A q \in Attempts : ~Persisting(q)
      BY <2>3, <1>a DEF WInv, SnapshotIsCurrent
    <3> QED
      BY <2>1, <3>1, <3>2, <1>a
      DEF WInv, RequestIsKnown, Saving, NoneRunsBefore, Preparing, ServerOwnsDriver, Starting,
          LinkIsOwn, SnapshotIsCurrent, Persisting, SnapshotIsWritten, Configured,
          OnlyValidatedInFlash, SavedForAReason, AddressIsOwn, PendingIsInFlash
  <2> QED BY <1>3, <2>2, <2>3 DEF HandleDisconnected, Listening
<1>4. CASE GetAddress
  <2>1. ~Starting /\ ~HttpdAt("begin") /\ (status.state = "RUNNING" => link.cred = status.cred)
    BY <1>4, <1>a DEF GetAddress, WInv, ServerOwnsDriver, LinkIsOwn, LinkDown
  <2>2. link'.cred = link.cred /\ link.cred \in validated' /\ validated \subseteq validated'
    BY <1>4, <1>a DEF GetAddress, Link
  <2>3. UNCHANGED << status, httpd, validator, storage, ramCfg, flashCfg, profiles,
                     console, given >>
    BY <1>4 DEF GetAddress
  <2> QED
    BY <2>1, <2>2, <2>3, <1>a
    DEF WInv, RequestIsKnown, Saving, NoneRunsBefore, Preparing, ServerOwnsDriver, Starting,
        LinkIsOwn, SnapshotIsCurrent, Persisting, IsActive, SnapshotIsWritten, Configured,
        OnlyValidatedInFlash, SavedForAReason, AddressIsOwn, PendingIsInFlash
<1>5. CASE LoseLink
  <2>1. ~Starting /\ ~HttpdAt("begin") /\ link' = LinkDown
        /\ UNCHANGED << status, httpd, validator, storage, ramCfg, flashCfg, profiles,
                        validated, console, given >>
    BY <1>5, <1>a DEF LoseLink, WInv, ServerOwnsDriver, LinkDown
  <2>2. AddressIsNews' => AddressIsNews
    BY <1>5, <1>a, EventAdded DEF LoseLink
  <2> QED
    BY <2>1, <2>2, <1>a
    DEF LinkDown, WInv, RequestIsKnown, Saving, NoneRunsBefore, Preparing, ServerOwnsDriver,
        Starting, LinkIsOwn, SnapshotIsCurrent, Persisting, IsActive, SnapshotIsWritten,
        Configured, OnlyValidatedInFlash, SavedForAReason, AddressIsOwn, PendingIsInFlash
<1>6. ~ConsoleHangsUp /\ ~ConsoleConnects
  BY <1>a DEF Waiting, ConsoleHangsUp, ConsoleConnects, WInv, RequestIsKnown
<1> QED
  BY <1>1, <1>2, <1>3, <1>4, <1>5, <1>6 DEF EventLoop, Environment

----------------------------------------------------------------------------
(* The theorems. *)

(* WInv is invariant while clients wait: with IInv it is inductive. *)
THEOREM WaitingInductive == ASSUME Waiting PROVE Spec => []WInv
<1>1. Init => WInv
  BY DEF Init, NoStatus, HttpdIdle, Serve, NoValidator, LinkDown, HttpdAt, WInv,
         RequestIsKnown, Saving, NoneRunsBefore, Preparing, ServerOwnsDriver, Starting,
         LinkIsOwn, SnapshotIsCurrent, Persisting, SnapshotIsWritten, Configured,
         OnlyValidatedInFlash, SavedForAReason, AddressIsOwn, PendingIsInFlash
<1>2. IInv /\ IInv' /\ WInv /\ [Next]_vars => WInv'
  <2> SUFFICES ASSUME IInv, IInv', WInv, [Next]_vars PROVE WInv'
    OBVIOUS
  <2>1. TypeOK'
    BY DEF IInv
  <2> QED BY <2>1, ServerStep, ValidatorKeeps, OthersKeep DEF Next
<1> QED BY <1>1, <1>2, Inductive, PTL DEF Spec

(* The flash, which app_main boots from, only ever holds credentials that  *)
(* obtained an address or that a client asked to save untested:            *)
(* wifi_connect_validation_task writes nothing else.                       *)
THEOREM ProvenInFlash == ASSUME Waiting PROVE Spec => []OnlyValidatedInFlash
<1>1. WInv => OnlyValidatedInFlash
  BY DEF WInv
<1> QED BY <1>1, WaitingInductive, PTL

(* All three writers of the profiles together: the validation task adds    *)
(* what it validated, save_wifi_handler what it was asked to save, and     *)
(* profiles_handler what it found in RAM; nothing else becomes a profile.  *)
THEOREM ProvenSaved == ASSUME Waiting PROVE Spec => []SavedForAReason
<1>1. WInv => SavedForAReason
  BY DEF WInv
<1> QED BY <1>1, WaitingInductive, PTL

(* The address that the status reports was obtained with the credentials   *)
(* it names, not through the link of the attempt before.                   *)
THEOREM OwnAddress == ASSUME Waiting PROVE Spec => []AddressIsOwn
<1>1. WInv => AddressIsOwn
  BY DEF WInv
<1> QED BY <1>1, WaitingInductive, PTL

(* The restart that is announced boots the configuration that was just     *)
(* validated, or one that a client asked to save since.                    *)
THEOREM PendingInFlash == ASSUME Waiting PROVE Spec => []PendingIsInFlash
<1>1. WInv => PendingIsInFlash
  BY DEF WInv
<1> QED BY <1>1, WaitingInductive, PTL

===============================================================================
