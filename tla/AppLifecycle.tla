---------------------------- MODULE AppLifecycle ----------------------------
(***************************************************************************)
(* From reset to restart: app_main chooses configuration or bridge mode,   *)
(* waits on an event group and restarts the board; in bridge mode the      *)
(* event handler and the retry task keep the station connected; the BOOT   *)
(* button and the debug console ask for configuration.  A word of RAM that *)
(* no reset clears carries the request over the restart.  The LED state is *)
(* a variable that all of them write.  What a provisioning session does is *)
(* in WifiConnect: here it may store credentials, succeed, and set the LED. *)
(***************************************************************************)
EXTENDS Naturals, Sequences

CONSTANTS
  MaxEvents,     \* bound: driver events that wait for the event loop
  Resets         \* who resets the board besides app_main

ASSUME MaxEventsAssumption == MaxEvents \in Nat
ASSUME ResetsAssumption == Resets \subseteq {"power", "console", "panic"}

VARIABLES
  mode,         \* "reset", "boot", "config" or "bridge"
  resetBy,      \* who reset the board; esp_reset_reason is SW for two of them
  noinit,       \* s_reconfigure_requested
  provisioned,  \* the driver's flash configuration has an SSID
  app,          \* where app_main is
  bits,         \* s_event_flags
  link,         \* the station link of the driver
  events,       \* driver events that wait for their handler, oldest first
  handler,      \* event_handler: "idle", or past its connect request
  gate,         \* s_wifi_is_connected: packets from USB go to the driver
  retry,        \* where wifi_retry_task is
  usb,          \* wired_bridge_init has run
  led,          \* s_state of status_led.c
  button,       \* button_task: released, down or armed, and previous_state
  console,      \* the reconnect command between its two driver calls
  requested     \* history: configuration was asked for since the last reset

wifi == << link, events, handler, gate >>
ui   == << led, button >>
vars == << mode, resetBy, noinit, provisioned, app, bits, wifi, retry, usb, ui,
           console, requested >>

Flags == {"CONNECTED", "RECONFIGURE", "PROV_SUCCESS"}

Leds == {"boot", "config", "connecting", "connected", "disconnected",
         "buttonHeld", "reconfigRequested"}

(* Where app_main can be in each mode. *)
AppPc == [reset  |-> {"off"},
          boot   |-> {"choose", "chooseConfig"},
          config |-> {"toWaitEnd", "waitEnd", "endRequest", "endSuccess", "restart"},
          bridge |-> {"startWifi", "connect", "spawn", "toWaitLink", "waitLink", "usb",
                      "toWaitEnd", "waitEnd", "endRequest", "endSuccess", "restart"}]

RetryPc == {"none", "look", "wait", "request", "connect", "delay", "deleted"}

Button == {[pc |-> "released"]} \cup [pc : {"down", "armed"}, previous : Leds]

Released == [pc |-> "released"]

(* The first power-on: the noinit word is whatever the RAM holds. *)
Init == /\ mode = "reset" /\ app = "off"
        /\ bits = {}
        /\ link = "down" /\ events = << >> /\ handler = "idle" /\ gate = FALSE
        /\ retry = "none" /\ usb = FALSE
        /\ led = "boot" /\ button = Released
        /\ console = "idle"
        /\ resetBy = "power"
        /\ noinit \in {"zero", "request", "other"}
        /\ provisioned \in BOOLEAN
        /\ requested = FALSE

----------------------------------------------------------------------------
(* The FreeRTOS event group.  A task that waits is released by the bits of *)
(* the moment they are set, and the wait at the end of app_main takes its  *)
(* two bits away with it.                                                  *)

LinkBits == {"CONNECTED", "RECONFIGURE"}
EndBits  == {"RECONFIGURE", "PROV_SUCCESS"}

AfterLinkWait(now) == IF "RECONFIGURE" \in now THEN "toWaitEnd" ELSE "usb"

AfterEndWait(now) == IF "RECONFIGURE" \in now THEN "endRequest" ELSE "endSuccess"

AfterRetryWait(now) == IF "RECONFIGURE" \in now THEN "deleted" ELSE "delay"

SetBit(bit) ==
  LET now == bits \cup {bit}
  IN  /\ app' = IF app = "waitLink" /\ now \cap LinkBits # {} THEN AfterLinkWait(now)
                ELSE IF app = "waitEnd" /\ now \cap EndBits # {} THEN AfterEndWait(now)
                ELSE app
      /\ bits' = IF app = "waitEnd" /\ now \cap EndBits # {} THEN now \ EndBits ELSE now
      /\ retry' = IF retry = "wait" /\ now \cap LinkBits # {} THEN AfterRetryWait(now)
                  ELSE retry

(* Mutated: the LED keeps its state. *)
ShowConnecting_Never == UNCHANGED led

(* The first line of request_wifi_connect. *)
ShowConnecting == led' = "connecting"

(* The rest of request_wifi_connect: the driver starts to connect, or is   *)
(* past that already, or refuses.                                          *)
ConnectAccepted == link' = IF link = "down" THEN "connecting" ELSE link

ConnectRefused == led' = "disconnected" /\ UNCHANGED link

----------------------------------------------------------------------------
(* app_main *)

(* Mutated: the reset reason is not looked at. *)
DoProvision_AnyReset == noinit = "request"

DoProvision == resetBy \in {"app_main", "console"} /\ noinit = "request"

(* Up to gpio_init.  nvs_flash_init may have to erase the flash. *)
Boot ==
  /\ mode = "reset"
  /\ mode' = "boot"
  /\ app' = IF DoProvision THEN "chooseConfig" ELSE "choose"
  /\ noinit' = "zero"
  /\ provisioned' \in {provisioned, FALSE}
  /\ requested' = FALSE
  /\ UNCHANGED << resetBy, bits, wifi, retry, usb, ui, console >>

(* Mutated: configuration is shown before the mode is known. *)
BridgeLed_Config == "config"

BridgeLed == "connecting"

ChooseConfig ==
  /\ app = "chooseConfig" \/ (app = "choose" /\ ~provisioned)
  /\ mode' = "config"
  /\ led' = "config"
  /\ app' = "toWaitEnd"
  /\ UNCHANGED << resetBy, noinit, provisioned, bits, wifi, retry, usb, button, console, requested >>

ChooseBridge ==
  /\ app = "choose" /\ provisioned
  /\ mode' = "bridge"
  /\ led' = BridgeLed
  /\ app' = "startWifi"
  /\ UNCHANGED << resetBy, noinit, provisioned, bits, wifi, retry, usb, button, console, requested >>

(* start_bridge_wifi failed: app_main asks for configuration itself. *)
StartFailed ==
  /\ led' = "disconnected"
  /\ bits' = bits \cup {"RECONFIGURE"}
  /\ requested' = TRUE
  /\ app' = "toWaitEnd"

StartWifi ==
  /\ app = "startWifi"
  /\ \/ ShowConnecting /\ app' = "connect" /\ UNCHANGED << bits, requested >>
     \/ StartFailed
  /\ UNCHANGED << mode, resetBy, noinit, provisioned, wifi, retry, usb, button, console >>

(* request_wifi_connect shows "connecting" once more, over whatever the    *)
(* button has shown since.                                                 *)
InitialConnect ==
  /\ app = "connect"
  /\ (ConnectAccepted /\ ShowConnecting) \/ ConnectRefused
  /\ app' = "spawn"
  /\ UNCHANGED << mode, resetBy, noinit, provisioned, bits, events, handler, gate, retry, usb,
                  button, console, requested >>

SpawnRetry ==
  /\ app = "spawn"
  /\ \/ retry' = "look" /\ app' = "toWaitLink" /\ UNCHANGED << led, bits, requested >>
     \/ StartFailed /\ UNCHANGED retry
  /\ UNCHANGED << mode, resetBy, noinit, provisioned, wifi, usb, button, console >>

WaitLink ==
  /\ app = "toWaitLink"
  /\ app' = IF bits \cap LinkBits = {} THEN "waitLink" ELSE AfterLinkWait(bits)
  /\ UNCHANGED << mode, resetBy, noinit, provisioned, bits, wifi, retry, usb, ui, console, requested >>

(* wired_bridge_init: the host sees the USB network from here on. *)
StartUsb ==
  /\ app = "usb"
  /\ usb' = TRUE
  /\ app' = "toWaitEnd"
  /\ UNCHANGED << mode, resetBy, noinit, provisioned, bits, wifi, retry, ui, console, requested >>

WaitEnd ==
  /\ app = "toWaitEnd"
  /\ IF bits \cap EndBits = {}
     THEN app' = "waitEnd" /\ UNCHANGED bits
     ELSE app' = AfterEndWait(bits) /\ bits' = bits \ EndBits
  /\ UNCHANGED << mode, resetBy, noinit, provisioned, wifi, retry, usb, ui, console, requested >>

(* Mutated: the word is not set. *)
RequestWord_Zero == "zero"

RequestWord == "request"

End ==
  /\ app \in {"endRequest", "endSuccess"}
  /\ noinit' = IF app = "endRequest" THEN RequestWord ELSE "zero"
  /\ app' = "restart"
  /\ UNCHANGED << mode, resetBy, provisioned, bits, wifi, retry, usb, ui, console, requested >>

(* Whoever resets the board, everything in RAM but the word starts anew. *)
Reset(by) ==
  /\ mode' = "reset" /\ app' = "off"
  /\ bits' = {}
  /\ link' = "down" /\ events' = << >> /\ handler' = "idle" /\ gate' = FALSE
  /\ retry' = "none" /\ usb' = FALSE
  /\ led' = "boot" /\ button' = Released
  /\ console' = "idle"
  /\ resetBy' = by
  /\ UNCHANGED << provisioned, requested >>

(* esp_restart, a second after the word was written. *)
Restart == app = "restart" /\ Reset("app_main") /\ UNCHANGED noinit

AppMain == \/ Boot \/ ChooseConfig \/ ChooseBridge \/ StartWifi \/ InitialConnect
           \/ SpawnRetry \/ WaitLink \/ StartUsb \/ WaitEnd \/ End \/ Restart

----------------------------------------------------------------------------
(* event_handler, registered by start_bridge_wifi.  The event loop runs it *)
(* above every other task, but its connect request lets them run.          *)

TakeEvent(name) == /\ handler = "idle" /\ events # << >> /\ Head(events) = name
                   /\ events' = Tail(events)

(* Mutated: the gate stays open. *)
GateAfterLoss_Open == gate

GateAfterLoss == FALSE

HandleDisconnected ==
  /\ TakeEvent("disconnected")
  /\ gate' = GateAfterLoss
  /\ (ConnectAccepted /\ ShowConnecting) \/ ConnectRefused
  /\ handler' = "clearBits"
  /\ UNCHANGED << mode, resetBy, noinit, provisioned, app, bits, retry, usb, button, console, requested >>

ClearConnected ==
  /\ handler = "clearBits"
  /\ handler' = "idle"
  /\ bits' = bits \ {"CONNECTED"}
  /\ UNCHANGED << mode, resetBy, noinit, provisioned, app, link, events, gate, retry, usb, ui,
                  console, requested >>

HandleConnected ==
  /\ TakeEvent("connected")
  /\ gate' = TRUE
  /\ led' = "connected"
  /\ SetBit("CONNECTED")
  /\ UNCHANGED << mode, resetBy, noinit, provisioned, link, handler, usb, button, console, requested >>

EventLoop == HandleDisconnected \/ ClearConnected \/ HandleConnected

----------------------------------------------------------------------------
(* wifi_retry_task: a wait for five seconds, a pause while connected. *)

RetryOnly == UNCHANGED << mode, resetBy, noinit, provisioned, app, bits, events, handler, gate,
                          usb, button, console, requested >>

(* Mutated: the task ends at the first connection. *)
WhenBitsAreSet_Ends(now) == "deleted"

WhenBitsAreSet(now) == AfterRetryWait(now)

RetryLook ==
  /\ retry = "look"
  /\ retry' = IF bits \cap LinkBits = {} THEN "wait" ELSE WhenBitsAreSet(bits)
  /\ RetryOnly /\ UNCHANGED << link, led >>

RetryTimeout ==
  /\ retry = "wait"
  /\ retry' = "request"
  /\ RetryOnly /\ UNCHANGED << link, led >>

RetryRequest ==
  /\ retry = "request"
  /\ ShowConnecting
  /\ retry' = "connect"
  /\ RetryOnly /\ UNCHANGED link

RetryConnects == /\ retry = "connect"
                 /\ ConnectAccepted /\ UNCHANGED led
                 /\ retry' = "look" /\ RetryOnly

RetryRefused == retry = "connect" /\ ConnectRefused /\ retry' = "look" /\ RetryOnly

RetryPause ==
  /\ retry = "delay"
  /\ retry' = "look"
  /\ RetryOnly /\ UNCHANGED << link, led >>

RetryTask == \/ RetryLook \/ RetryTimeout \/ RetryRequest
             \/ RetryConnects \/ RetryRefused \/ RetryPause

----------------------------------------------------------------------------
(* button_task.  The press and the next look of the task are one step. *)

ButtonOnly == UNCHANGED << mode, resetBy, noinit, provisioned, wifi, usb, console >>

Running == mode \in {"boot", "config", "bridge"}

Press ==
  /\ Running /\ button.pc = "released"
  /\ button' = [pc |-> "down", previous |-> led]
  /\ led' = "buttonHeld"
  /\ ButtonOnly /\ UNCHANGED << app, bits, retry, requested >>

(* After two seconds. *)
Arm ==
  /\ button.pc = "down"
  /\ button' = [button EXCEPT !.pc = "armed"]
  /\ led' = "reconfigRequested"
  /\ ButtonOnly /\ UNCHANGED << app, bits, retry, requested >>

ReleaseShort ==
  /\ button.pc = "down"
  /\ button' = Released
  /\ led' = button.previous
  /\ ButtonOnly /\ UNCHANGED << app, bits, retry, requested >>

ReleaseLong ==
  /\ button.pc = "armed"
  /\ button' = Released
  /\ SetBit("RECONFIGURE")
  /\ requested' = TRUE
  /\ ButtonOnly /\ UNCHANGED led

ButtonTask == Press \/ Arm \/ ReleaseShort \/ ReleaseLong

----------------------------------------------------------------------------
(* debug_console.c *)

Reprovision ==
  /\ Running
  /\ SetBit("RECONFIGURE")
  /\ requested' = TRUE
  /\ UNCHANGED << mode, resetBy, noinit, provisioned, wifi, usb, ui, console >>

Reboot == "console" \in Resets /\ Running /\ Reset("console") /\ UNCHANGED noinit

(* disconnect, and the first half of reconnect. *)
HangUp ==
  /\ mode = "bridge" /\ console = "idle" /\ Len(events) < MaxEvents
  /\ console' \in {"idle", "reconnect"}
  /\ link' = "down"
  /\ events' = IF link = "down" THEN events ELSE Append(events, "disconnected")
  /\ UNCHANGED << mode, resetBy, noinit, provisioned, app, bits, handler, gate, retry, usb, ui, requested >>

Reconnect ==
  /\ console = "reconnect"
  /\ console' = "idle"
  /\ ConnectAccepted \/ UNCHANGED link
  /\ UNCHANGED << mode, resetBy, noinit, provisioned, app, bits, events, handler, gate, retry, usb,
                  ui, requested >>

Console == Reprovision \/ Reboot \/ HangUp \/ Reconnect

----------------------------------------------------------------------------
(* What is outside: the provisioning session, the driver, and accidents. *)

(* A session stores credentials and shows its attempts on the LED. *)
SessionStores ==
  /\ mode = "config"
  /\ provisioned' = TRUE
  /\ UNCHANGED << mode, resetBy, noinit, app, bits, wifi, retry, usb, ui, console, requested >>

SessionShows ==
  /\ mode = "config"
  /\ led' \in {"connecting", "connected", "disconnected"}
  /\ UNCHANGED << mode, resetBy, noinit, provisioned, app, bits, wifi, retry, usb, button, console, requested >>

(* wifi_connect_validation_task sets the success bit. *)
SessionSucceeds ==
  /\ mode = "config" /\ provisioned
  /\ SetBit("PROV_SUCCESS")
  /\ UNCHANGED << mode, resetBy, noinit, provisioned, wifi, usb, ui, console, requested >>

Session == SessionStores \/ SessionShows \/ SessionSucceeds

DriverOnly == UNCHANGED << mode, resetBy, noinit, provisioned, app, bits, handler, gate, retry,
                           usb, ui, console, requested >>

Associate ==
  /\ link = "connecting" /\ Len(events) < MaxEvents
  /\ link' = "up"
  /\ events' = Append(events, "connected")
  /\ DriverOnly

LoseLink ==
  /\ link # "down" /\ Len(events) < MaxEvents
  /\ link' = "down"
  /\ events' = Append(events, "disconnected")
  /\ DriverOnly

(* Power loss scrambles the word that no reset clears; a panic keeps it. *)
PowerCycle ==
  /\ "power" \in Resets /\ mode # "reset"
  /\ Reset("power")
  /\ noinit' \in {"zero", "request", "other"}

Panic == "panic" \in Resets /\ Running /\ Reset("panic") /\ UNCHANGED noinit

Outside == Session \/ Associate \/ LoseLink \/ PowerCycle \/ Panic

Next == AppMain \/ EventLoop \/ RetryTask \/ ButtonTask \/ Console \/ Outside

Spec == Init /\ [][Next]_vars

(* Tasks run and time passes; nothing is assumed of the button, the        *)
(* console, the access point or the session, and of the driver only that   *)
(* it does not refuse every request of the retry task.                     *)
FairSpec ==
  /\ Spec
  /\ WF_vars(AppMain) /\ WF_vars(EventLoop) /\ WF_vars(RetryTask)
  /\ SF_vars(RetryConnects)

----------------------------------------------------------------------------
(* Every variable has its type; each mode has its own part of app_main,    *)
(* and the configuration pattern is never shown by a bridge.               *)
TypeOK ==
  /\ mode \in DOMAIN AppPc
  /\ app \in AppPc[mode]
  /\ resetBy \in {"power", "app_main", "console", "panic"}
  /\ noinit \in {"zero", "request", "other"}
  /\ provisioned \in BOOLEAN
  /\ bits \subseteq Flags
  /\ link \in {"down", "connecting", "up"}
  /\ events \in Seq({"connected", "disconnected"}) /\ Len(events) <= MaxEvents
  /\ handler \in {"idle", "clearBits"}
  /\ gate \in BOOLEAN
  /\ retry \in RetryPc
  /\ usb \in BOOLEAN
  /\ led \in Leds /\ button \in Button
  /\ mode = "bridge" => led # "config"
  /\ console \in {"idle", "reconnect"}
  /\ requested \in BOOLEAN

(* A provisioned board goes to configuration only if it was asked to in    *)
(* the session before: not after power loss, whatever the noinit word then *)
(* holds, not after a panic, and not because of a request that an earlier  *)
(* session already served.                                                 *)
ConfigOnlyOnRequest ==
  [][mode = "reset" /\ app' = "chooseConfig" => requested]_vars

(* Once the handler has seen every event of the driver, the packet gate    *)
(* and the CONNECTED bit say what the link is.                             *)
GateFollowsLink ==
  mode = "bridge" /\ events = << >> /\ handler = "idle" =>
    /\ gate <=> link = "up"
    /\ gate <=> "CONNECTED" \in bits

(* A bridge without a link goes on trying, whatever it had when the link   *)
(* was lost and whoever hung up.                                           *)
KeepsTrying ==
  mode = "bridge" /\ link = "down" ~> mode # "bridge" \/ link # "down"

(* A request for configuration is served by the next boot, unless somebody *)
(* else resets the board or app_main has already chosen to restart as a    *)
(* bridge: a long press in that last second is lost.                       *)
RequestServed ==
  \/ "RECONFIGURE" \in bits /\ app \notin {"endSuccess", "restart"}
  \/ app = "endRequest"
  ~> \/ app = "chooseConfig"
     \/ mode = "reset" /\ resetBy # "app_main"

(* The LED does not go on claiming a connection that is gone, even while   *)
(* an access point that never answers keeps the next one from coming up.   *)
LedAdmitsLoss ==
  mode = "bridge" /\ link # "up" /\ led = "connected"
    ~> mode # "bridge" \/ link = "up" \/ led # "connected"

(* While nobody holds the button or has asked for a restart, and every     *)
(* event has been handled, the LED of a bridge with a link says so.        *)
LedShowsLink ==
  mode = "bridge" /\ link = "up" /\ events = << >> /\ handler = "idle"
    /\ button = Released /\ ~requested /\ retry \in {"look", "wait", "delay"}
    => led = "connected"

=============================================================================
