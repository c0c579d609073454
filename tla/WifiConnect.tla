----------------------------- MODULE WifiConnect -----------------------------
(***************************************************************************)
(* The connection attempts of manual_config.c in configuration mode.       *)
(*                                                                         *)
(* The HTTP server task starts attempts (test, reconnect, saved profile),  *)
(* and also saves credentials, imports the current configuration and       *)
(* deletes profiles.  Each attempt gets a validation task of its own.  The *)
(* default event loop delivers what the Wi-Fi driver reports, the debug    *)
(* console can hang up and reconnect, and the BOOT button's task borrows   *)
(* the LED.  They share s_connect_status under s_connect_mutex, and, under *)
(* no lock that spans two calls, the driver (its configuration and its     *)
(* storage mode), the LED state and the profile store.  One action is what *)
(* a task does between two points at which another task can run: a section *)
(* under the mutex, or one call into the driver or into NVS.               *)
(***************************************************************************)
EXTENDS Naturals, Sequences

CONSTANTS
  Creds,        \* (ssid, password) pairs a client may submit, one per ssid
  NoCred,       \* the empty SSID
  MaxSeq,       \* bound: attempts of one session in configuration mode
  MaxEvents,    \* bound: driver events queued when the driver adds another
  Requests,     \* the kinds of request that clients send
  ClientWaits,  \* TRUE: no attempt is requested while one is running
  EventsDrain   \* TRUE: the 100 ms settle time empties the event queue

ASSUME NoCredAssumption == NoCred \notin Creds
ASSUME BoundsAssumption == MaxSeq \in Nat \ {0} /\ MaxEvents \in Nat \ {0}
ASSUME RequestsAssumption ==
  Requests \subseteq {"test", "reconnect", "profile", "save", "list", "delete",
               "console", "button"}
ASSUME SwitchesAssumption == ClientWaits \in BOOLEAN /\ EventsDrain \in BOOLEAN

Attempts == 1..MaxSeq

VARIABLES
  status,       \* s_connect_status
  fresh,        \* less than 1 s has passed since status.started_us
  led,          \* the state status_led_set_state was last given
  ledLost,      \* history: the LED state is not that of the last decision
                \* (see ShowConnecting, Reject and button_task)
  httpd,        \* the HTTP server task: where it is in its handler
  validator,    \* validator[q]: wifi_connect_validation_task of attempt q
  late,         \* the attempts whose 15 s deadline has passed
  storage,      \* what esp_wifi_set_storage was last given
  ramCfg,       \* the driver's STA configuration in RAM
  flashCfg,     \* the driver's STA configuration in NVS
  profiles,     \* the saved profiles (their order is in WifiProfiles)
  link,         \* the station's link, and the credentials it uses
  events,       \* driver events that the event loop has not handled yet
  scanRunning,  \* s_scan_state is RUNNING
  console,      \* the debug console: idle, or in the pause of its reconnect
  provSuccess,  \* PROV_SUCCESS_BIT of the event group
  button,       \* button_task: where it is, and the LED state that it saved
  reconfigure,  \* RECONFIGURE_BIT of the event group
  validated,    \* history: credentials that obtained an IP address, and
                \* those that the board booted with
  saveAsked,    \* history: credentials that a client had saved untested
  imported,     \* history: configurations that a listing took from RAM
  persisted,    \* history: attempts whose credentials were written and saved
  ipSeen        \* history: attempts for which GOT_IP was handled

lamp == << led, ledLost >>
shown == << status, fresh, lamp >>
tasks == << validator, late >>
radio == << storage, ramCfg, flashCfg, link, events, validated >>
boot == << button, reconfigure >>
given == << saveAsked, imported >>
others == << scanRunning, console, provSuccess, boot, persisted, ipSeen >>
rest == << profiles, given, others >>
vars == << shown, httpd, tasks, radio, rest >>

----------------------------------------------------------------------------
(* wifi_connect_status_t, without what is only shown to the user. *)
Status == [seq           : 0..MaxSeq,
           state         : {"IDLE", "RUNNING", "SUCCEEDED", "FAILED"},
           action        : {"TEST", "RECONNECT"},
           gotIp         : BOOLEAN,
           bridgePending : BOOLEAN,
           cred          : Creds \cup {NoCred},
           reason        : {"none", "scan", "connect", "spawn", "timeout",
                            "save", "link"}]

NoStatus == [seq |-> 0, state |-> "IDLE", action |-> "TEST", gotIp |-> FALSE,
             bridgePending |-> FALSE, cred |-> NoCred, reason |-> "none"]

(* Where the server task is, and the request it serves. *)
HttpdPc == {"idle", "reject", "storage", "config", "disconnect", "begin", "led",
            "connect", "connectFailed", "spawn", "spawnFailed",
            "saveStorage", "saveConfig", "saveProfile", "import"}

Httpd == [pc : HttpdPc, cred : Creds \cup {NoCred},
          action : {"TEST", "RECONNECT"}, seq : 0..MaxSeq]

Serve(pc, cred, action) == [pc |-> pc, cred |-> cred, action |-> action, seq |-> 0]

HttpdIdle == Serve("idle", NoCred, "TEST")

(* Where a validation task is, and the part of its snapshot it still uses. *)
ValidatorPc == {"none", "poll", "hangUp", "storage", "config", "profile",
                "saveFailed", "finish", "signal", "gone"}

Validator == [pc : ValidatorPc, cred : Creds \cup {NoCred},
              action : {"TEST", "RECONNECT"}]

NoValidator == [pc |-> "none", cred |-> NoCred, action |-> "TEST"]

Link == [state : {"down", "connecting", "up"}, cred : Creds \cup {NoCred}]

LinkDown == [state |-> "down", cred |-> NoCred]

Leds == {"BOOT", "CONFIG", "CONNECTING", "CONNECTED", "DISCONNECTED", "BUTTON_HELD",
         "RECONFIG_REQUESTED"}

(* The button is up; or button_task has seen it pressed and read the LED   *)
(* state, has shown that it is held, or has seen it held for 2 s.          *)
Button == [pc : {"up", "pressed", "held", "armed"}, saved : Leds]

ButtonUp == [pc |-> "up", saved |-> "BOOT"]

(* GOT_IP, or STA_DISCONNECTED with the reason ASSOC_LEAVE or another one. *)
Event == {"gotIp", "left", "lost"}

Init ==
  /\ status = NoStatus
  /\ fresh = FALSE
  /\ led = "CONFIG" /\ ledLost = FALSE
  /\ httpd = HttpdIdle
  /\ validator = [q \in Attempts |-> NoValidator]
  /\ late = {}
  /\ storage = "FLASH"
  /\ flashCfg \in Creds \cup {NoCred}
  /\ ramCfg = flashCfg
  /\ profiles = {flashCfg} \ {NoCred}
  /\ link = LinkDown
  /\ events = << >>
  /\ scanRunning = FALSE
  /\ console = "idle"
  /\ provSuccess = FALSE
  /\ button = ButtonUp /\ reconfigure = FALSE
  /\ validated = {flashCfg} \ {NoCred}
  /\ saveAsked = {} /\ imported = {}
  /\ persisted = {}
  /\ ipSeen = {}

----------------------------------------------------------------------------
(* Calls into the driver, by whichever task makes them. *)

SetStorage(mode) ==
  /\ storage' = mode
  /\ UNCHANGED << ramCfg, flashCfg, link, events, validated >>

(* esp_wifi_set_config: the configuration goes to NVS too if the storage   *)
(* mode of this moment says so.                                            *)
SetConfig(cred) ==
  /\ ramCfg' = cred
  /\ flashCfg' = IF storage = "FLASH" THEN cred ELSE flashCfg
  /\ UNCHANGED << storage, link, events, validated >>

(* esp_wifi_disconnect: the driver reports ASSOC_LEAVE if there was a link. *)
Disconnect ==
  /\ link' = LinkDown
  /\ events' = IF link.state = "down" THEN events ELSE Append(events, "left")
  /\ UNCHANGED << storage, ramCfg, flashCfg, validated >>

(* esp_wifi_connect uses the configuration that RAM holds now. *)
Connect ==
  /\ link' = [state |-> "connecting", cred |-> ramCfg]
  /\ UNCHANGED << storage, ramCfg, flashCfg, events, validated >>

----------------------------------------------------------------------------
(* Sections under s_connect_mutex. *)

(* status_led_set_state, with the decision that it shows. *)
ShowLed(state) == led' = state /\ ledLost' = FALSE

IsActive(q) == status.seq = q /\ status.state = "RUNNING"

Failed(reason) == [status EXCEPT !.state = "FAILED", !.gotIp = FALSE,
                                 !.bridgePending = FALSE, !.reason = reason]

(* Mutated: the failure is logged and not reported. *)
MarkFailed_LogsOnly(q, reason) == UNCHANGED << status, lamp >>

(* Mutated: the number that the caller speaks of is not compared. *)
MarkFailed_AnyAttempt(q, reason) ==
  IF status.state = "RUNNING"
  THEN status' = Failed(reason) /\ ShowLed("DISCONNECTED")
  ELSE UNCHANGED << status, lamp >>

(* Mutated: the LED is not told. *)
MarkFailed_KeepsLed(q, reason) ==
  /\ status' = IF IsActive(q) THEN Failed(reason) ELSE status
  /\ UNCHANGED lamp

(* mark_connect_failed *)
MarkFailed(q, reason) ==
  IF IsActive(q)
  THEN status' = Failed(reason) /\ ShowLed("DISCONNECTED")
  ELSE UNCHANGED << status, lamp >>

(* Mutated: got_ip is not reset. *)
NewStatus_KeepsIp(state, cred, action, reason) ==
  [seq |-> status.seq + 1, state |-> state, action |-> action, gotIp |-> status.gotIp,
   bridgePending |-> FALSE, cred |-> cred, reason |-> reason]

(* The next number, and everything else anew. *)
NewStatus(state, cred, action, reason) ==
  [seq |-> status.seq + 1, state |-> state, action |-> action, gotIp |-> FALSE,
   bridgePending |-> FALSE, cred |-> cred, reason |-> reason]

----------------------------------------------------------------------------
(* The HTTP server task: one request at a time. *)

HttpdAt(pc) == httpd.pc = pc

HttpdGoto(pc) == httpd' = [httpd EXCEPT !.pc = pc]

HttpdDone == httpd' = HttpdIdle

(* start_wifi_connection_attempt looks at the scan first. *)
StartAttempt(cred, action) ==
  /\ HttpdAt("idle")
  /\ status.seq < MaxSeq
  /\ ClientWaits => status.state # "RUNNING"
  /\ httpd' = Serve(IF scanRunning THEN "reject" ELSE "storage", cred, action)
  /\ UNCHANGED << shown, tasks, radio, rest >>

RequestTest == /\ "test" \in Requests
               /\ \E cred \in Creds : StartAttempt(cred, "TEST")

RequestReconnect == /\ "reconnect" \in Requests
                    /\ \E cred \in Creds : StartAttempt(cred, "RECONNECT")

(* profile_connect_handler, for an index that wifi_profiles_get finds. *)
RequestProfile == /\ "profile" \in Requests
                  /\ \E cred \in profiles : StartAttempt(cred, "RECONNECT")

(* mark_connect_rejected leaves the LED alone: an attempt that still runs  *)
(* loses its status and goes on blinking.                                  *)
Reject ==
  /\ HttpdAt("reject")
  /\ status' = NewStatus("FAILED", NoCred, "TEST", "scan")
  /\ fresh' = TRUE
  /\ ledLost' = (ledLost \/ status.state = "RUNNING")
  /\ HttpdDone
  /\ UNCHANGED << led, tasks, radio, rest >>

(* Mutated: an attempt is tried with the storage mode of a save. *)
AttemptStorage_Flash == "FLASH"

AttemptStorage == "RAM"

ApplySetStorage ==
  /\ HttpdAt("storage")
  /\ SetStorage(AttemptStorage)
  /\ HttpdGoto("config")
  /\ UNCHANGED << shown, tasks, rest >>

ApplySetConfig ==
  /\ HttpdAt("config")
  /\ SetConfig(httpd.cred)
  /\ HttpdGoto("disconnect")
  /\ UNCHANGED << shown, tasks, rest >>

(* A driver call of apply_wifi_credentials failed: the handler gives up    *)
(* before there is an attempt, or the save reports that it failed.         *)
ApplyFails ==
  /\ httpd.pc \in {"storage", "config", "saveStorage", "saveConfig"}
  /\ HttpdDone
  /\ UNCHANGED << shown, tasks, radio, rest >>

HangUpBefore ==
  /\ HttpdAt("disconnect")
  /\ Disconnect
  /\ HttpdGoto("begin")
  /\ UNCHANGED << shown, tasks, rest >>

(* After 100 ms the attempt gets its number and runs. *)
Begin ==
  /\ HttpdAt("begin")
  /\ EventsDrain => events = << >>
  /\ status' = NewStatus("RUNNING", httpd.cred, httpd.action, "none")
  /\ fresh' = TRUE
  /\ httpd' = [httpd EXCEPT !.pc = "led", !.seq = status.seq + 1]
  /\ UNCHANGED << lamp, tasks, radio, rest >>

(* status_led_set_state(CONNECTING), after the mutex is given back: the    *)
(* attempt may have failed meanwhile.                                      *)
ShowConnecting ==
  /\ HttpdAt("led")
  /\ led' = "CONNECTING"
  /\ ledLost' = ~IsActive(httpd.seq)
  /\ HttpdGoto("connect")
  /\ UNCHANGED << status, fresh, tasks, radio, rest >>

RequestLink ==
  /\ HttpdAt("connect")
  /\ \/ Connect /\ HttpdGoto("spawn")
     \/ UNCHANGED radio /\ HttpdGoto("connectFailed")
  /\ UNCHANGED << shown, tasks, rest >>

(* xTaskCreate: the deadline counts from the start of the new task. *)
Spawn ==
  /\ HttpdAt("spawn")
  /\ \/ validator' = [validator EXCEPT ![httpd.seq].pc = "poll"] /\ HttpdDone
     \/ UNCHANGED validator /\ HttpdGoto("spawnFailed")
  /\ UNCHANGED << shown, late, radio, rest >>

AttemptNotStarted ==
  /\ httpd.pc \in {"connectFailed", "spawnFailed"}
  /\ MarkFailed(httpd.seq, IF HttpdAt("spawnFailed") THEN "spawn" ELSE "connect")
  /\ HttpdDone
  /\ UNCHANGED << fresh, tasks, radio, rest >>

(* save_wifi_handler: persist_wifi_credentials without any attempt. *)
RequestSave ==
  /\ HttpdAt("idle")
  /\ "save" \in Requests
  /\ \E cred \in Creds : /\ httpd' = Serve("saveStorage", cred, "TEST")
                         /\ saveAsked' = saveAsked \cup {cred}
  /\ UNCHANGED << shown, tasks, radio, profiles, imported, others >>

(* Mutated: a save keeps the storage mode of an attempt. *)
SaveStorage_Ram == "RAM"

SaveStorage == "FLASH"

SaveSetStorage ==
  /\ HttpdAt("saveStorage")
  /\ SetStorage(SaveStorage)
  /\ HttpdGoto("saveConfig")
  /\ UNCHANGED << shown, tasks, rest >>

SaveSetConfig ==
  /\ HttpdAt("saveConfig")
  /\ SetConfig(httpd.cred)
  /\ HttpdGoto("saveProfile")
  /\ UNCHANGED << shown, tasks, rest >>

(* Mutated: an empty SSID is imported too. *)
Importable_EmptyToo(cred) == cred \notin profiles

Importable(cred) == cred # NoCred /\ cred \notin profiles

(* profiles_handler: the configuration in RAM becomes a profile if its     *)
(* network has none.                                                       *)
RequestList ==
  /\ HttpdAt("idle")
  /\ "list" \in Requests
  /\ Importable(ramCfg)
  /\ httpd' = Serve("import", ramCfg, "TEST")
  /\ imported' = imported \cup {ramCfg}
  /\ UNCHANGED << shown, tasks, radio, profiles, saveAsked, others >>

(* wifi_profiles_save, which an error may leave without effect. *)
HttpdSaveProfile ==
  /\ httpd.pc \in {"saveProfile", "import"}
  /\ profiles' \in {profiles, profiles \cup {httpd.cred}}
  /\ HttpdDone
  /\ UNCHANGED << shown, tasks, radio, given, others >>

(* profile_delete_handler, for an index that wifi_profiles_delete finds. *)
RequestDelete ==
  /\ HttpdAt("idle")
  /\ "delete" \in Requests
  /\ \E cred \in profiles : profiles' = profiles \ {cred}
  /\ UNCHANGED << shown, httpd, tasks, radio, given, others >>

HttpdRequest == RequestTest \/ RequestReconnect \/ RequestProfile \/ RequestSave
                \/ RequestList \/ RequestDelete

HttpdStep ==
  \/ Reject \/ ApplySetStorage \/ ApplySetConfig \/ ApplyFails \/ HangUpBefore
  \/ Begin \/ ShowConnecting \/ RequestLink \/ Spawn \/ AttemptNotStarted
  \/ SaveSetStorage \/ SaveSetConfig \/ HttpdSaveProfile

----------------------------------------------------------------------------
(* The validation task of attempt q. *)

ValidatorAt(q, pc) == validator[q].pc = pc

ValidatorGoto(q, pc) == validator' = [validator EXCEPT ![q].pc = pc]

(* Mutated: an attempt counts as connected from the start. *)
HasAddress_Always == TRUE

HasAddress == status.gotIp

(* One turn of the polling loop that ends it: the attempt is over, or it   *)
(* has an address and its snapshot is kept.  Other turns change nothing.   *)
Poll(q) ==
  /\ ValidatorAt(q, "poll")
  /\ q \notin late
  /\ \/ ~IsActive(q) /\ ValidatorGoto(q, "gone")
     \/ /\ IsActive(q) /\ HasAddress
        /\ validator' = [validator EXCEPT ![q] =
             [pc   |-> IF status.action = "RECONNECT" THEN "storage" ELSE "finish",
              cred |-> status.cred, action |-> status.action]]
  /\ UNCHANGED << shown, httpd, late, radio, rest >>

(* The loop ended on its deadline: the last snapshot had no address. *)
TimeOut(q) ==
  /\ ValidatorAt(q, "poll")
  /\ q \in late
  /\ MarkFailed(q, "timeout")
  /\ ValidatorGoto(q, "hangUp")
  /\ UNCHANGED << fresh, httpd, late, radio, rest >>

HangUpAfter(q) ==
  /\ ValidatorAt(q, "hangUp")
  /\ Disconnect
  /\ ValidatorGoto(q, "gone")
  /\ UNCHANGED << shown, httpd, late, rest >>

PersistSetStorage(q) ==
  /\ ValidatorAt(q, "storage")
  /\ SetStorage(SaveStorage)
  /\ ValidatorGoto(q, "config")
  /\ UNCHANGED << shown, httpd, late, rest >>

PersistSetConfig(q) ==
  /\ ValidatorAt(q, "config")
  /\ SetConfig(validator[q].cred)
  /\ ValidatorGoto(q, "profile")
  /\ UNCHANGED << shown, httpd, late, rest >>

PersistSaveProfile(q) ==
  /\ ValidatorAt(q, "profile")
  /\ profiles' = profiles \cup {validator[q].cred}
  /\ persisted' = persisted \cup {q}
  /\ ValidatorGoto(q, "finish")
  /\ UNCHANGED << shown, httpd, late, radio, given, scanRunning, console, provSuccess, boot,
                  ipSeen >>

(* Mutated: the result of persist_wifi_credentials is ignored. *)
AfterPersistError_GoesOn == "finish"

AfterPersistError == "saveFailed"

(* Any step of persist_wifi_credentials may report an error; what the      *)
(* steps before it wrote stays written, and so may the profile be when     *)
(* only nvs_commit fails.                                                  *)
PersistFails(q) ==
  /\ validator[q].pc \in {"storage", "config", "profile"}
  /\ \/ UNCHANGED profiles
     \/ ValidatorAt(q, "profile") /\ profiles' = profiles \cup {validator[q].cred}
  /\ ValidatorGoto(q, AfterPersistError)
  /\ UNCHANGED << shown, httpd, late, radio, given, others >>

ReportSaveFailed(q) ==
  /\ ValidatorAt(q, "saveFailed")
  /\ MarkFailed(q, "save")
  /\ ValidatorGoto(q, "gone")
  /\ UNCHANGED << fresh, httpd, late, radio, rest >>

Succeeded(q) == [status EXCEPT !.state = "SUCCEEDED",
                               !.bridgePending = validator[q].action = "RECONNECT"]

(* Mutated: the verdict is stored without looking whose attempt it is. *)
Verdict_AnyAttempt(q) == status' = Succeeded(q) /\ ShowLed("CONNECTED")

(* The verdict, unless the attempt was decided or replaced meanwhile. *)
Verdict(q) ==
  IF IsActive(q)
  THEN status' = Succeeded(q) /\ ShowLed("CONNECTED")
  ELSE UNCHANGED << status, lamp >>

(* Mutated: a passed test sets the bit, or no attempt does. *)
AfterVerdict_Always(q) == "signal"
AfterVerdict_Never(q) == "gone"

AfterVerdict(q) == IF validator[q].action = "RECONNECT" THEN "signal" ELSE "gone"

(* The task goes on to the event group whether or not its verdict counted. *)
Finish(q) ==
  /\ ValidatorAt(q, "finish")
  /\ Verdict(q)
  /\ ValidatorGoto(q, AfterVerdict(q))
  /\ UNCHANGED << fresh, httpd, late, radio, rest >>

Signal(q) ==
  /\ ValidatorAt(q, "signal")
  /\ provSuccess' = TRUE
  /\ ValidatorGoto(q, "gone")
  /\ UNCHANGED << shown, httpd, late, radio, profiles, given, scanRunning, console, boot,
                  persisted, ipSeen >>

ValidatorStep(q) ==
  \/ Poll(q) \/ TimeOut(q) \/ HangUpAfter(q)
  \/ PersistSetStorage(q) \/ PersistSetConfig(q) \/ PersistSaveProfile(q)
  \/ PersistFails(q) \/ ReportSaveFailed(q) \/ Finish(q) \/ Signal(q)

----------------------------------------------------------------------------
(* Time. *)

SecondPasses ==
  /\ fresh
  /\ fresh' = FALSE
  /\ UNCHANGED << status, lamp, httpd, tasks, radio, rest >>

(* 15 s after the validation task started, and so later than that second. *)
DeadlineExpires(q) ==
  /\ ValidatorAt(q, "poll")
  /\ q \notin late
  /\ status.seq = q => ~fresh
  /\ late' = late \cup {q}
  /\ UNCHANGED << shown, httpd, validator, radio, rest >>

----------------------------------------------------------------------------
(* The Wi-Fi driver and DHCP. *)

GetAddress ==
  /\ link.state = "connecting"
  /\ Len(events) < MaxEvents
  /\ link' = [link EXCEPT !.state = "up"]
  /\ events' = Append(events, "gotIp")
  /\ validated' = validated \cup {link.cred}
  /\ UNCHANGED << shown, httpd, tasks, storage, ramCfg, flashCfg, rest >>

(* A wrong password, an absent access point, or a link that breaks. *)
LoseLink ==
  /\ link.state # "down"
  /\ Len(events) < MaxEvents
  /\ link' = LinkDown
  /\ events' = Append(events, "lost")
  /\ UNCHANGED << shown, httpd, tasks, storage, ramCfg, flashCfg, validated, rest >>

(* Scans are the business of another module: here one starts when no       *)
(* attempt is running, from the console or a request, and ends.            *)
ScanStarts ==
  /\ ~scanRunning
  /\ status.state # "RUNNING"
  /\ scanRunning' = TRUE
  /\ UNCHANGED << shown, httpd, tasks, radio, profiles, given, console, provSuccess, boot,
                  persisted, ipSeen >>

ScanEnds ==
  /\ scanRunning
  /\ scanRunning' = FALSE
  /\ UNCHANGED << shown, httpd, tasks, radio, profiles, given, console, provSuccess, boot,
                  persisted, ipSeen >>

----------------------------------------------------------------------------
(* The debug console's disconnect and reconnect commands, on the same      *)
(* driver: a reconnect hangs up, pauses for 200 ms and connects.           *)

ConsoleHangsUp ==
  /\ "console" \in Requests
  /\ console = "idle"
  /\ Len(events) < MaxEvents
  /\ Disconnect
  /\ console' \in {"idle", "reconnect"}
  /\ UNCHANGED << shown, httpd, tasks, profiles, given, scanRunning, provSuccess, boot,
                  persisted, ipSeen >>

ConsoleConnects ==
  /\ console = "reconnect"
  /\ Connect \/ UNCHANGED radio
  /\ console' = "idle"
  /\ UNCHANGED << shown, httpd, tasks, profiles, given, scanRunning, provSuccess, boot,
                  persisted, ipSeen >>

----------------------------------------------------------------------------
(* button_task, which app_main starts in both modes.  Reading the LED      *)
(* state and showing that the button is held are two calls; the state that *)
(* was read is shown again when the button is let go within 2 s.           *)

ButtonPressed ==
  /\ "button" \in Requests
  /\ button.pc = "up" /\ ~reconfigure
  /\ button' = [pc |-> "pressed", saved |-> led]
  /\ UNCHANGED << lamp, reconfigure >>

ButtonShown ==
  /\ button.pc = "pressed"
  /\ button' = [button EXCEPT !.pc = "held"]
  /\ led' = "BUTTON_HELD"
  /\ ledLost' = (ledLost \/ led # button.saved)
  /\ UNCHANGED reconfigure

ButtonArmed ==
  /\ button.pc = "held"
  /\ button' = [ButtonUp EXCEPT !.pc = "armed"]
  /\ led' = "RECONFIG_REQUESTED"
  /\ UNCHANGED << ledLost, reconfigure >>

Restored == button.saved

ButtonReleased ==
  /\ button.pc = "held"
  /\ button' = ButtonUp
  /\ led' = Restored
  /\ ledLost' = (ledLost \/ led # "BUTTON_HELD")
  /\ UNCHANGED reconfigure

ArmedReleased ==
  /\ button.pc = "armed"
  /\ button' = ButtonUp
  /\ reconfigure' = TRUE
  /\ UNCHANGED lamp

ButtonTask ==
  /\ ButtonPressed \/ ButtonShown \/ ButtonArmed \/ ButtonReleased \/ ArmedReleased
  /\ UNCHANGED << status, fresh, httpd, tasks, radio, profiles, given, scanRunning, console,
                  provSuccess, persisted, ipSeen >>

----------------------------------------------------------------------------
(* wifi_connect_event_handler, in the default event loop's task. *)

TakeEvent(event) ==
  /\ events # << >>
  /\ Head(events) = event
  /\ events' = Tail(events)
  /\ UNCHANGED << fresh, httpd, tasks, storage, ramCfg, flashCfg, link, validated,
                  profiles, given, scanRunning, console, provSuccess, boot, persisted >>

(* Mutated: an address that comes late is noted on a decided attempt. *)
Listening_Always == TRUE

Listening == status.state = "RUNNING"

HandleGotIp ==
  /\ TakeEvent("gotIp")
  /\ IF Listening
     THEN status' = [status EXCEPT !.gotIp = TRUE] /\ ipSeen' = ipSeen \cup {status.seq}
     ELSE UNCHANGED << status, ipSeen >>
  /\ UNCHANGED lamp

(* The handler fails the running attempt unless it has its address, or the *)
(* event is the echo of the disconnect that preceded it.                   *)
HandleDisconnected(event) ==
  /\ TakeEvent(event)
  /\ IF Listening /\ ~status.gotIp /\ ~(event = "left" /\ fresh)
     THEN MarkFailed(status.seq, "link")
     ELSE UNCHANGED << status, lamp >>
  /\ UNCHANGED ipSeen

EventLoop == HandleGotIp \/ HandleDisconnected("left") \/ HandleDisconnected("lost")

----------------------------------------------------------------------------
Environment == GetAddress \/ LoseLink \/ ScanStarts \/ ScanEnds
               \/ ConsoleHangsUp \/ ConsoleConnects

Next ==
  \/ HttpdRequest \/ HttpdStep
  \/ \E q \in Attempts : ValidatorStep(q) \/ DeadlineExpires(q)
  \/ SecondPasses \/ EventLoop \/ ButtonTask \/ Environment

Spec == Init /\ [][Next]_vars

(* The scheduler runs every task that can run, and time passes.  Nothing   *)
(* is assumed of clients, of access points or of the radio.                *)
Fairness ==
  /\ WF_vars(HttpdStep)
  /\ WF_vars(EventLoop)
  /\ WF_vars(SecondPasses)
  /\ \A q \in Attempts : WF_vars(ValidatorStep(q)) /\ WF_vars(DeadlineExpires(q))

FairSpec == Spec /\ Fairness

----------------------------------------------------------------------------
TypeOK ==
  /\ status \in Status
  /\ fresh \in BOOLEAN
  /\ led \in Leds /\ ledLost \in BOOLEAN
  /\ httpd \in Httpd
  /\ validator \in [Attempts -> Validator]
  /\ late \subseteq Attempts
  /\ storage \in {"RAM", "FLASH"}
  /\ ramCfg \in Creds \cup {NoCred}
  /\ flashCfg \in Creds \cup {NoCred}
  /\ profiles \subseteq Creds
  /\ link \in Link
  /\ events \in Seq(Event)
  /\ scanRunning \in BOOLEAN
  /\ console \in {"idle", "reconnect"}
  /\ provSuccess \in BOOLEAN
  /\ button \in Button /\ reconfigure \in BOOLEAN
  /\ validated \subseteq Creds \cup {NoCred}
  /\ saveAsked \subseteq Creds /\ imported \subseteq Creds
  /\ persisted \subseteq Attempts
  /\ ipSeen \subseteq Attempts

----------------------------------------------------------------------------
(* The properties that hold of every interleaving, whatever clients do.    *)

OwnedByServer == httpd.pc \in {"led", "connect", "connectFailed", "spawn", "spawnFailed"}

DecidedBy(q) == validator[q].pc \in {"poll", "storage", "config", "profile",
                                     "saveFailed", "finish"}

(* An attempt that is reported as running has exactly the server task or   *)
(* its own live validation task to decide it: "running" never hangs        *)
(* because its owner exited, gave up on another attempt, or was never made. *)
RunningHasOwner ==
  status.state = "RUNNING" =>
    \/ OwnedByServer /\ httpd.seq = status.seq /\ validator[status.seq].pc = "none"
    \/ ~OwnedByServer /\ DecidedBy(status.seq)

(* A success was reported only for an attempt whose own GOT_IP handler ran; *)
(* the address flag of an earlier attempt, or one cleared by a failure     *)
(* between the validator's last look and its verdict, does not count.      *)
SuccessHasAddress ==
  status.state = "SUCCEEDED" => status.gotIp /\ status.seq \in ipSeen

(* "Credentials saved. Restarting into bridge mode." is only announced by  *)
(* a successful reconnect whose validator got through all of               *)
(* persist_wifi_credentials, never by a test or after a write error.       *)
PendingIsPersisted ==
  status.bridgePending => /\ status.state = "SUCCEEDED"
                          /\ status.action = "RECONNECT"
                          /\ status.seq \in persisted

(* PROV_SUCCESS_BIT restarts the board: no test, no failed attempt and no  *)
(* attempt without an address ever sets it.  The task that is about to set *)
(* it is that of an attempt which had its address and wrote everything.    *)
SuccessBitIsEarned ==
  /\ \A q \in Attempts : ValidatorAt(q, "signal") => q \in persisted \cap ipSeen
  /\ provSuccess => persisted \cap ipSeen # {}

(* A validation task that outlived its attempt changes nothing that users  *)
(* see of the next one: neither its status nor the LED.                    *)
SupersededIsSilent ==
  [][\A q \in Attempts :
       validator'[q] # validator[q] /\ q # status.seq =>
         UNCHANGED << status, led >>]_vars

(* The LED blinks "connecting" exactly while an attempt runs, whatever     *)
(* clients and the network do, with four exceptions: the moment between    *)
(* the start of an attempt and its LED; a press of the BOOT button, once   *)
(* it has asked for a restart, or one that was too short and wrote an      *)
(* older state over the one that an attempt had set meanwhile; an attempt  *)
(* that failed before its LED was set; and a refused request that replaced *)
(* a running attempt.  The next state that an attempt shows ends the last  *)
(* three.                                                                  *)
LedShowsAttempt ==
  button.pc = "up" /\ ~reconfigure /\ ~ledLost /\ ~HttpdAt("led") =>
    (led = "CONNECTING" <=> status.state = "RUNNING")

(* What the poller of GET /api/wifi/connection sees. *)
Attempt == INSTANCE ConnectAttempt
             WITH seq <- status.seq, state <- status.state,
                  gotIp <- status.gotIp, bridgePending <- status.bridgePending

(* The status moves only as one decided-once attempt after the other.      *)
ImplementsConnectAttempt == Attempt!Spec

----------------------------------------------------------------------------
(* What holds when clients wait for a result before they start another     *)
(* attempt and the settle time drains the events of the previous link.     *)

(* Flash, which the board boots from, only ever holds credentials that     *)
(* obtained an address, or that a client asked to save untested: a boot    *)
(* into bridge mode uses a proven network, or what the user insisted on.   *)
OnlyValidatedInFlash == flashCfg \in validated \cup saveAsked \cup {NoCred}

(* A network becomes a saved profile in three ways only: an attempt with   *)
(* it obtained an address, a client asked to save it untested, or a        *)
(* listing found it as the configuration in RAM.  The validation task      *)
(* never stores what it has not validated, and the listing is the one way  *)
(* around what docs/debugging.md:100 says of profiles.                     *)
SavedForAReason == profiles \subseteq validated \cup saveAsked \cup imported

(* The address an attempt reports was obtained with its own credentials,   *)
(* not through the link of an earlier attempt.                             *)
AddressIsOwn == status.gotIp => status.cred \in validated

(* What the message of a pending restart says: the configuration that the  *)
(* board boots with is the one that was just validated, unless a client    *)
(* has asked to save another one.                                          *)
PendingIsInFlash ==
  status.bridgePending => flashCfg \in {status.cred} \cup saveAsked

----------------------------------------------------------------------------
(* Every attempt comes to a result or is replaced, with access points that *)
(* never answer and events that never come: its deadline sees to it.       *)
EveryAttemptEnds == \A q \in Attempts : IsActive(q) ~> ~IsActive(q)

(* An announced restart happens: app_main is told. *)
PendingIsSignalled == status.bridgePending ~> provSuccess

=============================================================================
