------------------------- MODULE AppLifecycleProofs -------------------------
(***************************************************************************)
(* What holds of AppLifecycle for any length of the event queue and any    *)
(* resets: its types, that only a request leads a provisioned board into   *)
(* configuration, and that the packet gate follows the link.               *)
(***************************************************************************)
EXTENDS AppLifecycle, TLAPS

(* Types, and where the configuration pattern can come from: outside a     *)
(* configuration session neither the LED nor the state that the button     *)
(* will restore is that pattern.                                           *)
Typed ==
  /\ TypeOK
  /\ mode # "config" =>
       /\ led # "config"
       /\ button # Released => button.previous # "config"

(* Where app_main is right after a reset, and before and after its choice. *)
LEMMA Places ==
  /\ DOMAIN AppPc = {"reset", "boot", "config", "bridge"}
  /\ AppPc["reset"] = {"off"}
  /\ AppPc["boot"] = {"choose", "chooseConfig"}
  /\ "toWaitEnd" \in AppPc["config"]
  /\ "startWifi" \in AppPc["bridge"]
  BY DEF AppPc

LEMMA EmptyQueue == << >> \in Seq({"connected", "disconnected"}) /\ Len(<< >>) = 0
  OBVIOUS

(* SetBit moves app_main and the retry task to places of the mode they are *)
(* in, and stays within the three flags.                                   *)
LEMMA SetBitTyped ==
  ASSUME Typed, NEW bit \in Flags, SetBit(bit), UNCHANGED mode
  PROVE  app' \in AppPc[mode]' /\ bits' \subseteq Flags /\ retry' \in RetryPc
  BY SMT DEF Typed, TypeOK, SetBit, AppPc, Flags, RetryPc, AfterLinkWait, AfterEndWait,
             AfterRetryWait, LinkBits, EndBits

LEMMA ResetTyped ==
  ASSUME Typed, NEW by \in {"power", "app_main", "console", "panic"}, Reset(by),
         noinit' \in {"zero", "request", "other"}
  PROVE  Typed'
<1>1. mode' \in DOMAIN AppPc /\ app' \in AppPc[mode]'
  BY Places DEF Reset
<1>2. events' \in Seq({"connected", "disconnected"}) /\ Len(events') <= MaxEvents
  BY EmptyQueue, MaxEventsAssumption DEF Reset
<1>3. led' \in Leds /\ led' # "config" /\ button' \in Button /\ button' = Released
  BY DEF Reset, Leds, Button, Released
<1> QED BY <1>1, <1>2, <1>3 DEF Typed, TypeOK, Reset, RetryPc, Flags

LEMMA MainTyped == Typed /\ AppMain => Typed'
<1> SUFFICES ASSUME Typed, AppMain PROVE Typed'
  OBVIOUS
<1>1. CASE Boot
  <2>1. mode' \in DOMAIN AppPc /\ app' \in AppPc[mode]'
    BY <1>1, Places DEF Boot
  <2> QED BY <1>1, <2>1 DEF Boot, Typed, TypeOK, wifi, ui
<1>2. CASE ChooseConfig
  BY <1>2 DEF ChooseConfig, Leds, Typed, TypeOK, AppPc, wifi, ui
<1>3. CASE ChooseBridge
  <2>1. mode' \in DOMAIN AppPc /\ app' \in AppPc[mode]'
    BY <1>3, Places DEF ChooseBridge
  <2>2. mode # "config"
    BY <1>3 DEF ChooseBridge, Typed, TypeOK, AppPc
  <2>3. led' \in Leds /\ led' # "config"
    BY <1>3 DEF ChooseBridge, BridgeLed, Leds
  <2> QED BY <1>3, <2>1, <2>2, <2>3 DEF ChooseBridge, Typed, TypeOK, wifi
<1>4. CASE StartWifi
  <2>1. mode = "bridge" /\ mode' = mode /\ app' \in AppPc[mode]'
    BY <1>4 DEF StartWifi, StartFailed, Typed, TypeOK, AppPc
  <2>2. led' \in Leds /\ led' # "config" /\ bits' \subseteq Flags /\ requested' \in BOOLEAN
    BY <1>4 DEF StartWifi, StartFailed, ShowConnecting, Leds, Flags, Typed, TypeOK
  <2> QED BY <1>4, <2>1, <2>2 DEF StartWifi, Typed, TypeOK, wifi
<1>5. CASE InitialConnect
  <2>1. mode = "bridge" /\ mode' = mode /\ app' \in AppPc[mode]'
    BY <1>5 DEF InitialConnect, Typed, TypeOK, AppPc
  <2>2. led' \in Leds /\ led' # "config"
    BY <1>5 DEF InitialConnect, ShowConnecting, ConnectRefused, Leds
  <2>3. link' \in {"down", "connecting", "up"}
    BY <1>5 DEF InitialConnect, ConnectAccepted, ConnectRefused, Typed, TypeOK
  <2> QED BY <1>5, <2>1, <2>2, <2>3 DEF InitialConnect, Typed, TypeOK
<1>6. CASE SpawnRetry
  <2>1. mode = "bridge" /\ mode' = mode /\ app' \in AppPc[mode]'
    BY <1>6 DEF SpawnRetry, StartFailed, Typed, TypeOK, AppPc
  <2>2. led' \in Leds /\ led' # "config" /\ bits' \subseteq Flags /\ requested' \in BOOLEAN
    BY <1>6, <2>1 DEF SpawnRetry, StartFailed, Leds, Flags, Typed, TypeOK
  <2>3. retry' \in RetryPc
    BY <1>6 DEF SpawnRetry, RetryPc, Typed, TypeOK
  <2> QED BY <1>6, <2>1, <2>2, <2>3 DEF SpawnRetry, Typed, TypeOK, wifi
<1>7. CASE WaitLink
  BY <1>7 DEF WaitLink, AfterLinkWait, Typed, TypeOK, AppPc, wifi, ui
<1>8. CASE StartUsb
  BY <1>8 DEF StartUsb, Typed, TypeOK, AppPc, wifi, ui
<1>9. CASE WaitEnd
  BY <1>9 DEF WaitEnd, AfterEndWait, Typed, TypeOK, AppPc, wifi, ui
<1>10. CASE End
  BY <1>10 DEF End, RequestWord, Typed, TypeOK, AppPc, wifi, ui
<1>11. CASE Restart
  BY <1>11, ResetTyped DEF Restart, Typed, TypeOK
<1> QED BY <1>1, <1>2, <1>3, <1>4, <1>5, <1>6, <1>7, <1>8, <1>9, <1>10, <1>11 DEF AppMain

LEMMA EventsTyped == Typed /\ EventLoop => Typed'
<1> SUFFICES ASSUME Typed, EventLoop PROVE Typed'
  OBVIOUS
<1>1. ASSUME NEW name, TakeEvent(name)
      PROVE  events' \in Seq({"connected", "disconnected"}) /\ Len(events') <= MaxEvents
  BY <1>1, MaxEventsAssumption DEF Typed, TypeOK, TakeEvent
<1>2. CASE HandleDisconnected
  <2>1. events' \in Seq({"connected", "disconnected"}) /\ Len(events') <= MaxEvents
    BY <1>1, <1>2 DEF HandleDisconnected
  <2>2. led' \in Leds /\ led' # "config"
    BY <1>2 DEF HandleDisconnected, ConnectRefused, ShowConnecting, Leds
  <2>3. link' \in {"down", "connecting", "up"} /\ gate' = FALSE
    BY <1>2 DEF HandleDisconnected, ConnectAccepted, ConnectRefused, GateAfterLoss, Typed, TypeOK
  <2>4. app' \in AppPc[mode]' /\ mode' \in DOMAIN AppPc
    BY <1>2 DEF HandleDisconnected, Typed, TypeOK
  <2> QED BY <1>2, <2>1, <2>2, <2>3, <2>4 DEF HandleDisconnected, Typed, TypeOK
<1>3. CASE ClearConnected
  BY <1>3 DEF ClearConnected, ui, Typed, TypeOK, AppPc
<1>4. CASE HandleConnected
  <2>1. events' \in Seq({"connected", "disconnected"}) /\ Len(events') <= MaxEvents
    BY <1>1, <1>4 DEF HandleConnected
  <2>2. app' \in AppPc[mode]' /\ bits' \subseteq Flags /\ retry' \in RetryPc
    BY <1>4, SetBitTyped DEF HandleConnected, Flags
  <2> QED BY <1>4, <2>1, <2>2 DEF HandleConnected, Leds, Typed, TypeOK
<1> QED BY <1>2, <1>3, <1>4 DEF EventLoop

LEMMA RetryTyped == Typed /\ RetryTask => Typed'
<1> SUFFICES ASSUME Typed, RetryTask PROVE Typed'
  OBVIOUS
<1> USE DEF Typed, TypeOK, AppPc, RetryOnly, RetryPc
<1>1. CASE RetryLook
  BY <1>1 DEF RetryLook, WhenBitsAreSet, AfterRetryWait
<1>2. CASE RetryTimeout \/ RetryPause
  BY <1>2 DEF RetryTimeout, RetryPause
<1>3. CASE RetryRequest
  BY <1>3 DEF RetryRequest, ShowConnecting, Leds
<1>4. CASE RetryConnects
  BY <1>4 DEF RetryConnects, ConnectAccepted
<1>5. CASE RetryRefused
  BY <1>5 DEF RetryRefused, ConnectRefused, Leds
<1> QED BY <1>1, <1>2, <1>3, <1>4, <1>5 DEF RetryTask

LEMMA ButtonTyped == Typed /\ ButtonTask => Typed'
<1> SUFFICES ASSUME Typed, ButtonTask PROVE Typed'
  OBVIOUS
<1> USE DEF Typed, ButtonOnly, wifi
<1>1. CASE Press
  BY <1>1 DEF Press, TypeOK, AppPc, Button, Released, Leds
<1>2. CASE Arm
  <2>1. button' \in Button /\ button'.previous = button.previous /\ button # Released
    BY <1>2 DEF Arm, TypeOK, Button, Released
  <2> QED BY <1>2, <2>1 DEF Arm, TypeOK, AppPc, Leds
<1>3. CASE ReleaseShort
  BY <1>3 DEF ReleaseShort, TypeOK, AppPc, Button, Released, Leds
<1>4. CASE ReleaseLong
  <2>1. app' \in AppPc[mode]' /\ bits' \subseteq Flags /\ retry' \in RetryPc
    BY <1>4, SetBitTyped DEF ReleaseLong, Flags
  <2> QED BY <1>4, <2>1 DEF ReleaseLong, TypeOK, Button, Released
<1> QED BY <1>1, <1>2, <1>3, <1>4 DEF ButtonTask

LEMMA ConsoleTyped == Typed /\ Console => Typed'
<1> SUFFICES ASSUME Typed, Console PROVE Typed'
  OBVIOUS
<1>1. CASE Reprovision
  <2>1. app' \in AppPc[mode]' /\ bits' \subseteq Flags /\ retry' \in RetryPc
    BY <1>1, SetBitTyped DEF Reprovision, Flags
  <2> QED BY <1>1, <2>1 DEF Reprovision, Typed, TypeOK, wifi, ui
<1>2. CASE Reboot
  BY <1>2, ResetTyped DEF Reboot, Typed, TypeOK
<1>3. CASE HangUp
  BY <1>3, MaxEventsAssumption DEF HangUp, Typed, TypeOK, AppPc, ui
<1>4. CASE Reconnect
  BY <1>4 DEF Reconnect, ConnectAccepted, Typed, TypeOK, AppPc, ui
<1> QED BY <1>1, <1>2, <1>3, <1>4 DEF Console

LEMMA OutsideTyped == Typed /\ Outside => Typed'
<1> SUFFICES ASSUME Typed, Outside PROVE Typed'
  OBVIOUS
<1>1. CASE SessionStores
  BY <1>1 DEF SessionStores, Typed, TypeOK, AppPc, wifi, ui
<1>2. CASE SessionShows
  BY <1>2 DEF SessionShows, Typed, TypeOK, AppPc, wifi, Leds
<1>3. CASE SessionSucceeds
  <2>1. app' \in AppPc[mode]' /\ bits' \subseteq Flags /\ retry' \in RetryPc
    BY <1>3, SetBitTyped DEF SessionSucceeds, Flags
  <2> QED BY <1>3, <2>1 DEF SessionSucceeds, Typed, TypeOK, wifi, ui
<1>4. CASE Associate \/ LoseLink
  BY <1>4, MaxEventsAssumption DEF Associate, LoseLink, DriverOnly, Typed, TypeOK, AppPc, ui
<1>5. CASE PowerCycle \/ Panic
  BY <1>5, ResetTyped DEF PowerCycle, Panic, Typed, TypeOK
<1> QED BY <1>1, <1>2, <1>3, <1>4, <1>5 DEF Outside, Session

LEMMA TypedInit == Init => Typed
<1> SUFFICES ASSUME Init PROVE Typed
  OBVIOUS
<1>1. mode \in DOMAIN AppPc /\ app \in AppPc[mode]
  BY Places DEF Init
<1>2. events \in Seq({"connected", "disconnected"}) /\ Len(events) <= MaxEvents
  BY EmptyQueue, MaxEventsAssumption DEF Init
<1>3. led \in Leds /\ led # "config" /\ button \in Button /\ button = Released
  BY DEF Init, Leds, Button, Released
<1> QED BY <1>1, <1>2, <1>3 DEF Typed, TypeOK, Init, RetryPc, Flags

LEMMA TypedStep == Typed /\ [Next]_vars => Typed'
<1> SUFFICES ASSUME Typed, [Next]_vars PROVE Typed'
  OBVIOUS
<1>1. CASE UNCHANGED vars
  BY <1>1 DEF vars, wifi, ui, Typed, TypeOK, AppPc
<1> QED BY <1>1, MainTyped, EventsTyped, RetryTyped, ButtonTyped, ConsoleTyped, OutsideTyped DEF Next

(* Every variable keeps its type, and a bridge never shows the pattern of  *)
(* the configuration mode.                                                 *)
THEOREM TypeCorrect == Spec => []TypeOK
<1>1. Typed => TypeOK
  BY DEF Typed
<1> QED BY <1>1, TypedInit, TypedStep, PTL DEF Spec

----------------------------------------------------------------------------
(* While the board is in reset, everything that could act is at rest. *)
AtRest ==
  mode = "reset" =>
    /\ app = "off" /\ bits = {}
    /\ link = "down" /\ events = << >> /\ handler = "idle"
    /\ retry = "none" /\ button = Released /\ console = "idle"

LEMMA OnlyBoot == AtRest /\ mode = "reset" /\ Next => Boot
<1> SUFFICES ASSUME AtRest, mode = "reset", Next PROVE Boot
  OBVIOUS
<1>1. ~(Session \/ Associate \/ LoseLink \/ PowerCycle \/ Panic)
  BY DEF AtRest, Session, SessionStores, SessionShows, SessionSucceeds, Associate, LoseLink,
         PowerCycle, Panic, Running
<1>2. ~Console
  BY DEF AtRest, Console, Reprovision, Reboot, HangUp, Reconnect, Running
<1>3. ~ButtonTask
  BY DEF AtRest, ButtonTask, Press, Arm, ReleaseShort, ReleaseLong, Running, Released
<1>4. ~RetryTask
  BY DEF AtRest, RetryTask, RetryLook, RetryTimeout, RetryRequest, RetryConnects, RetryRefused,
         RetryPause
<1>5. ~EventLoop
  BY DEF AtRest, EventLoop, HandleDisconnected, ClearConnected, HandleConnected, TakeEvent
<1>6. AppMain => Boot
  BY DEF AtRest, AppMain, ChooseConfig, ChooseBridge, StartWifi, InitialConnect, SpawnRetry,
         WaitLink, StartUsb, WaitEnd, End, Restart
<1> QED BY <1>1, <1>2, <1>3, <1>4, <1>5, <1>6 DEF Next, Outside

(* A step that is not a reset keeps a running board running. *)
ResetStep == \E by \in {"app_main", "console", "power", "panic"} : Reset(by)

LEMMA StaysOn == mode # "reset" /\ [Next]_vars => ResetStep \/ mode' # "reset"
<1> SUFFICES ASSUME mode # "reset", Next PROVE ResetStep \/ mode' # "reset"
  BY DEF vars
<1>1. CASE AppMain
  BY <1>1 DEF AppMain, Boot, ChooseConfig, ChooseBridge, StartWifi, InitialConnect, SpawnRetry,
              WaitLink, StartUsb, WaitEnd, End, Restart, ResetStep
<1>2. CASE EventLoop \/ RetryTask
  BY <1>2 DEF EventLoop, HandleDisconnected, ClearConnected, HandleConnected, RetryTask, RetryLook,
              RetryTimeout, RetryRequest, RetryConnects, RetryRefused, RetryPause, RetryOnly
<1>3. CASE ButtonTask
  BY <1>3 DEF ButtonTask, Press, Arm, ReleaseShort, ReleaseLong, ButtonOnly
<1>4. CASE Console
  BY <1>4 DEF Console, Reprovision, Reboot, HangUp, Reconnect, ResetStep
<1>5. CASE Outside
  BY <1>5 DEF Outside, Session, SessionStores, SessionShows, SessionSucceeds, Associate, LoseLink,
              DriverOnly, PowerCycle, Panic, ResetStep
<1> QED BY <1>1, <1>2, <1>3, <1>4, <1>5 DEF Next

LEMMA RestStep == AtRest /\ [Next]_vars => AtRest'
<1> SUFFICES ASSUME AtRest, [Next]_vars PROVE AtRest'
  OBVIOUS
<1>1. CASE UNCHANGED vars
  BY <1>1 DEF vars, wifi, ui, AtRest
<1>2. CASE mode = "reset" /\ Next
  BY <1>2, OnlyBoot DEF Boot, AtRest
<1>3. CASE mode # "reset" /\ Next
  BY <1>3, StaysOn DEF ResetStep, Reset, AtRest
<1> QED BY <1>1, <1>2, <1>3

----------------------------------------------------------------------------
(* Whatever may still lead to configuration stands for a request that was  *)
(* made since the last boot: the event bit, the choice of app_main, and    *)
(* the word in RAM, unless power loss has just scrambled it.               *)
Requests ==
  /\ "RECONFIGURE" \in bits => requested
  /\ app = "endRequest" => requested
  /\ noinit = "request" /\ (mode # "reset" \/ resetBy # "power") => requested

LEMMA SetBitRequests ==
  ASSUME Requests, NEW bit, SetBit(bit), bit # "RECONFIGURE" \/ requested',
         requested => requested', UNCHANGED << mode, resetBy, noinit >>
  PROVE  Requests'
<1>1. "RECONFIGURE" \in bits \cup {bit} => requested'
  BY DEF Requests
<1>2. bits' \subseteq bits \cup {bit}
  BY DEF SetBit
<1>3. app' = "endRequest" => app = "endRequest" \/ "RECONFIGURE" \in bits \cup {bit}
  BY DEF SetBit, AfterEndWait, AfterLinkWait
<1> QED BY <1>1, <1>2, <1>3 DEF Requests

LEMMA MainRequests == AtRest /\ Requests /\ AppMain => Requests'
<1> SUFFICES ASSUME AtRest, Requests, AppMain PROVE Requests'
  OBVIOUS
<1>1. CASE Boot
  BY <1>1 DEF Boot, AtRest, Requests
<1>2. CASE ChooseConfig \/ ChooseBridge
  BY <1>2 DEF ChooseConfig, ChooseBridge, AtRest, Requests
<1>3. CASE InitialConnect \/ StartUsb
  BY <1>3 DEF InitialConnect, StartUsb, Requests
<1>4. CASE StartWifi \/ SpawnRetry
  BY <1>4 DEF StartWifi, SpawnRetry, StartFailed, Requests
<1>5. CASE WaitLink
  BY <1>5 DEF WaitLink, AfterLinkWait, Requests
<1>6. CASE WaitEnd
  BY <1>6 DEF WaitEnd, AfterEndWait, Requests
<1>7. CASE End
  BY <1>7, RequestWord # "zero" DEF End, AtRest, Requests, RequestWord
<1>8. CASE Restart
  BY <1>8 DEF Restart, Reset, AtRest, Requests
<1> QED BY <1>1, <1>2, <1>3, <1>4, <1>5, <1>6, <1>7, <1>8 DEF AppMain

LEMMA RequestsStep == AtRest /\ Requests /\ [Next]_vars => Requests'
<1> SUFFICES ASSUME AtRest, Requests, [Next]_vars PROVE Requests'
  OBVIOUS
<1>1. CASE UNCHANGED vars
  BY <1>1 DEF vars, Requests
<1>2. CASE EventLoop
  <2>1. CASE HandleDisconnected \/ ClearConnected
    BY <2>1 DEF HandleDisconnected, ClearConnected, Requests
  <2>2. CASE HandleConnected
    BY <2>2, SetBitRequests DEF HandleConnected
  <2> QED BY <1>2, <2>1, <2>2 DEF EventLoop
<1>3. CASE RetryTask
  BY <1>3 DEF RetryTask, RetryLook, RetryTimeout, RetryRequest, RetryConnects, RetryRefused,
              RetryPause, RetryOnly, Requests
<1>4. CASE ButtonTask
  <2>1. CASE Press \/ Arm \/ ReleaseShort
    BY <2>1 DEF Press, Arm, ReleaseShort, ButtonOnly, Requests
  <2>2. CASE ReleaseLong
    BY <2>2, SetBitRequests DEF ReleaseLong, ButtonOnly
  <2> QED BY <1>4, <2>1, <2>2 DEF ButtonTask
<1>5. CASE Console
  <2>1. CASE HangUp \/ Reconnect
    BY <2>1 DEF HangUp, Reconnect, Requests
  <2>2. CASE Reprovision
    BY <2>2, SetBitRequests DEF Reprovision
  <2>3. CASE Reboot
    BY <2>3 DEF Reboot, Running, Reset, Requests
  <2> QED BY <1>5, <2>1, <2>2, <2>3 DEF Console
<1>6. CASE Outside
  <2>1. CASE SessionStores \/ SessionShows
    BY <2>1 DEF SessionStores, SessionShows, Requests
  <2>2. CASE SessionSucceeds
    BY <2>2, SetBitRequests DEF SessionSucceeds
  <2>3. CASE Associate \/ LoseLink
    BY <2>3 DEF Associate, LoseLink, DriverOnly, Requests
  <2>4. CASE Panic
    BY <2>4 DEF Panic, Running, Reset, Requests
  <2>5. CASE PowerCycle
    BY <2>5 DEF PowerCycle, Reset, Requests
  <2> QED BY <1>6, <2>1, <2>2, <2>3, <2>4, <2>5 DEF Outside, Session
<1> QED BY <1>1, <1>2, <1>3, <1>4, <1>5, <1>6, MainRequests DEF Next

(* A provisioned board starts in configuration mode only after a request   *)
(* in the session before, for every sequence of restarts, power losses and *)
(* panics.                                                                 *)
THEOREM OnlyOnRequest == Spec => ConfigOnlyOnRequest
<1> DEFINE Inv == AtRest /\ Requests
           Asked == mode = "reset" /\ app' = "chooseConfig" => requested
<1>1. Init => Inv
  BY DEF Init, AtRest, Requests
<1>2. Inv /\ [Next]_vars => Inv'
  BY RestStep, RequestsStep
<1>3. Inv /\ [Next]_vars => [Asked]_vars
  <2> SUFFICES ASSUME Inv, Next, mode = "reset", app' = "chooseConfig" PROVE requested
    BY DEF vars
  <2>1. Boot
    BY OnlyBoot
  <2> QED BY <2>1 DEF Boot, DoProvision, Requests
<1> QED BY <1>1, <1>2, <1>3, PTL DEF Spec, ConfigOnlyOnRequest

----------------------------------------------------------------------------
(* The newest event that waits says what the link is; with none waiting    *)
(* the gate does, and between two events the gate agrees with the bit.     *)
Gates ==
  /\ IF events = << >> THEN gate <=> link = "up"
     ELSE events[Len(events)] = "connected" <=> link = "up"
  /\ handler = "idle" => (gate <=> "CONNECTED" \in bits)
  /\ handler = "clearBits" => ~gate

LEMMA SetBitKeepsConnected ==
  ASSUME NEW bit, SetBit(bit)
  PROVE  ("CONNECTED" \in bits') <=> ("CONNECTED" \in bits \cup {bit})
  BY DEF SetBit, EndBits

LEMMA Connects == ConnectAccepted \/ UNCHANGED link => (link' = "up" <=> link = "up")
  BY DEF ConnectAccepted

(* Taking an event leaves the newest one, unless it was that. *)
LEMMA Taken ==
  ASSUME Typed, NEW name, TakeEvent(name)
  PROVE  IF events' = << >> THEN events[Len(events)] = name
         ELSE events'[Len(events')] = events[Len(events)]
<1>1. events \in Seq({"connected", "disconnected"}) /\ events # << >>
  BY DEF Typed, TypeOK, TakeEvent
<1>2. /\ events' = Tail(events) /\ events[1] = name
      /\ Len(events) \in Nat \ {0} /\ Len(events') = Len(events) - 1
  BY <1>1 DEF TakeEvent
<1>3. CASE Len(events) = 1
  BY <1>1, <1>2, <1>3
<1>4. CASE Len(events) > 1
  <2>1. events'[Len(events')] = events[Len(events') + 1]
    BY <1>1, <1>2, <1>4
  <2>2. Len(events') + 1 = Len(events) /\ Len(events') # 0
    BY <1>2, <1>4
  <2>3. events' # << >>
    BY <2>2
  <2> QED BY <2>1, <2>2, <2>3
<1> QED BY <1>2, <1>3, <1>4

LEMMA GatesStep == Typed /\ Gates /\ [Next]_vars => Gates'
<1> SUFFICES ASSUME Typed, Gates, [Next]_vars PROVE Gates'
  OBVIOUS
<1>1. CASE UNCHANGED vars
  BY <1>1 DEF vars, wifi, Gates
<1>2. CASE AppMain
  <2>1. CASE Restart
    BY <2>1 DEF Restart, Reset, Gates
  <2>2. CASE InitialConnect
    BY <2>2, Connects DEF InitialConnect, ConnectRefused, Gates
  <2>3. CASE AppMain /\ ~Restart /\ ~InitialConnect
    <3>1. UNCHANGED wifi /\ ("CONNECTED" \in bits' <=> "CONNECTED" \in bits)
      BY <2>3 DEF AppMain, Boot, ChooseConfig, ChooseBridge, StartWifi, SpawnRetry, StartFailed,
                  WaitLink, StartUsb, WaitEnd, End, EndBits
    <3>2. UNCHANGED << link, events, handler, gate >>
      BY <3>1 DEF wifi
    <3> QED BY <3>1, <3>2 DEF Gates
  <2> QED BY <1>2, <2>1, <2>2, <2>3
<1>3. CASE HandleDisconnected
  <2>1. (link' = "up" <=> link = "up")
    BY <1>3, Connects DEF HandleDisconnected, ConnectRefused
  <2>2. TakeEvent("disconnected") /\ ~gate' /\ handler' = "clearBits"
    BY <1>3 DEF HandleDisconnected, GateAfterLoss
  <2> QED BY <2>1, <2>2, Taken DEF Gates, TakeEvent
<1>4. CASE ClearConnected
  BY <1>4 DEF ClearConnected, Gates
<1>5. CASE HandleConnected
  <2>1. "CONNECTED" \in bits'
    BY <1>5, SetBitKeepsConnected DEF HandleConnected
  <2>2. TakeEvent("connected") /\ gate' = TRUE /\ UNCHANGED << link, handler >>
    BY <1>5 DEF HandleConnected
  <2> QED BY <2>1, <2>2, Taken DEF Gates, TakeEvent
<1>6. CASE RetryTask
  <2>1. (link' = "up" <=> link = "up") /\ UNCHANGED << bits, events, handler, gate >>
    BY <1>6, Connects DEF RetryTask, RetryLook, RetryTimeout, RetryRequest, RetryConnects,
                          RetryRefused, RetryPause, RetryOnly, ConnectRefused
  <2> QED BY <2>1 DEF Gates
<1>7. CASE ButtonTask \/ Reprovision \/ Session
  <2>1. UNCHANGED wifi
    BY <1>7 DEF ButtonTask, Press, Arm, ReleaseShort, ReleaseLong, ButtonOnly, Reprovision, Session,
                SessionStores, SessionShows, SessionSucceeds
  <2>2. ("CONNECTED" \in bits') <=> ("CONNECTED" \in bits)
    BY <1>7, SetBitKeepsConnected
       DEF ButtonTask, Press, Arm, ReleaseShort, ReleaseLong, Reprovision, Session, SessionStores,
           SessionShows, SessionSucceeds
  <2> QED BY <2>1, <2>2 DEF wifi, Gates
<1>8. CASE Reboot \/ PowerCycle \/ Panic
  BY <1>8 DEF Reboot, PowerCycle, Panic, Reset, Gates
<1>9. CASE HangUp \/ Associate \/ LoseLink
  <2>1. UNCHANGED << bits, handler, gate >>
    BY <1>9 DEF HangUp, Associate, LoseLink, DriverOnly
  <2>2. \/ events' = events /\ link = "down" /\ link' = "down"
        \/ events' = Append(events, "disconnected") /\ link' = "down"
        \/ events' = Append(events, "connected") /\ link' = "up"
    BY <1>9 DEF HangUp, Associate, LoseLink
  <2>3. \A e \in {"connected", "disconnected"} :
          /\ Append(events, e) # << >>
          /\ Append(events, e)[Len(Append(events, e))] = e
    BY DEF Typed, TypeOK
  <2> QED BY <2>1, <2>2, <2>3 DEF Gates
<1>10. CASE Reconnect
  BY <1>10, Connects DEF Reconnect, ui, Gates
<1> QED BY <1>1, <1>2, <1>3, <1>4, <1>5, <1>6, <1>7, <1>8, <1>9, <1>10
        DEF Next, EventLoop, Console, ButtonTask, Outside

(* The packet gate and the CONNECTED bit follow the link once the handler  *)
(* has seen every event, for a queue of any length.                        *)
THEOREM GateFollows == Spec => []GateFollowsLink
<1>1. Init => Typed /\ Gates
  BY TypedInit DEF Init, Gates
<1>2. Typed /\ Gates /\ [Next]_vars => (Typed /\ Gates)'
  BY TypedStep, GatesStep
<1>3. Gates => GateFollowsLink
  BY DEF Gates, GateFollowsLink
<1> QED BY <1>1, <1>2, <1>3, PTL DEF Spec

=============================================================================
