------------------------------ MODULE Settings ------------------------------
(***************************************************************************)
(* The two settings that the board keeps beside its credentials: the       *)
(* access mode of configuration mode (config_access.c: a key, and a marker *)
(* that says the key was written since captive stopped being the default)  *)
(* and the mode of the LED (status_led.c: a key and a copy in RAM).        *)
(* app_main, the HTTP server and the debug console read and set them with  *)
(* no lock, one NVS call at a time; every NVS call may fail and power may  *)
(* go after any of them.  NVS applies writes in their order, at the latest *)
(* when they are committed.                                                *)
(***************************************************************************)

Tasks == {"app", "httpd", "console"}

Modes == {"local", "captive"}

(* "on" is not told from "off": both are kept and saved alike. *)
LedModes == {"off", "status", "identify"}

VARIABLES
  nvs,         \* what nvs_get_u8 answers, for each of the two namespaces
  trail,       \* what a loss of power may leave in each
  ledMode,     \* s_mode of status_led.c
  up,          \* app_main has loaded the LED mode and started the console
  task,        \* task[t]: the call t is in, or what its last one answered
  asked,       \* history: captive was asked for at some time
  chosen,      \* history: the last mode whose saving was confirmed, if it
               \*   is clear which one that is, for each namespace
  misread,     \* history: a read has failed since then, and took the
               \*   default for what was chosen, for each namespace
  overlapped   \* history: a save began while another one was under way

store == << nvs, trail >>
history == << asked, chosen, misread, overlapped >>
vars == << store, ledMode, up, task, history >>

Keys == {"access", "led"}

(* The marker is "safe_v1"; "bad" is a byte of no mode that is known. *)
AccessStore == {s \in [mode : Modes \cup {"none", "bad"}, marker : BOOLEAN] :
                  s.marker => s.mode # "none"}

LedStore == LedModes \cup {"none"}

Pc == {"idle", "open", "marker", "mode", "write", "mark", "commit"}

Task == [pc : Pc, key : Keys, op : {"none", "get", "set"},
         value : Modes \cup LedModes]

Call(pc, key, op, value) == [pc |-> pc, key |-> key, op |-> op, value |-> value]

Idle == Call("idle", "access", "none", "local")

(* Any contents, those of the older firmware without the marker among them. *)
Init ==
  /\ \E a \in AccessStore, l \in LedStore :
       /\ nvs = [access |-> a, led |-> l]
       /\ trail = [access |-> {a}, led |-> {l}]
       /\ asked = (a.marker /\ a.mode = "captive")
  /\ ledMode = "status"
  /\ up = FALSE
  /\ task = [t \in Tasks |-> Idle]
  /\ chosen = [k \in Keys |-> "unclear"]
  /\ misread = [k \in Keys |-> FALSE]
  /\ overlapped = [k \in Keys |-> FALSE]

----------------------------------------------------------------------------
At(t, pc) == task[t].pc = pc

Goto(t, pc) == task' = [task EXCEPT ![t].pc = pc]

Opening == Call("open", "access", "get", "local")

Answer(t, value) == task' = [task EXCEPT ![t] = Call("idle", "access", "get", value)]

(* A set ends; the console goes on to read back an access mode it set. *)
Reply(t) ==
  task' = [task EXCEPT ![t] =
             IF t = "console" /\ task[t].key = "access" THEN Opening ELSE Idle]

Saving(k) == {t \in Tasks : /\ task[t].key = k
                            /\ task[t].pc \in {"write", "mark", "commit"}}

(* A save begins, alone or beside another one. *)
Begins(k) == overlapped' = [overlapped EXCEPT ![k] = Saving(k) # {}]

(* What was chosen is now this, and nobody has misread it yet. *)
Choose(k, value) == /\ chosen' = [chosen EXCEPT ![k] = value]
                    /\ misread' = [misread EXCEPT ![k] = FALSE]

Misread(k) == misread' = [misread EXCEPT ![k] = chosen[k] # "unclear"]

(* nvs_set_u8: visible at once. *)
Put(k, contents) == /\ nvs' = [nvs EXCEPT ![k] = contents]
                    /\ trail' = [trail EXCEPT ![k] = @ \cup {contents}]

(* Mutated: the range check is gone. *)
IsValid_Always(mode) == TRUE

(* config_access_mode_is_valid *)
IsValid(mode) == mode \in Modes

----------------------------------------------------------------------------
(* load_saved_mode: what cannot be read, and identify, become status. *)
Load(l) == IF l \in LedModes \ {"identify"} THEN l ELSE "status"

(* The start of app_main: status_led_init, debug_console_start, and in     *)
(* configuration mode config_access_get_mode.                              *)
Boot ==
  /\ ~up
  /\ up' = TRUE
  /\ \/ ledMode' = Load(nvs.led) /\ UNCHANGED misread
     \/ ledMode' = "status" /\ Misread("led")            \* NVS error
  /\ \/ task' = [task EXCEPT !["app"] = Opening]
     \/ UNCHANGED task                                   \* bridge mode
  /\ UNCHANGED << store, asked, chosen, overlapped >>

(* The console runs from then on, the server once app_main has its answer. *)
Runs(t) == /\ At(t, "idle") /\ up
           /\ \/ t = "console"
              \/ t = "httpd" /\ At("app", "idle") /\ task["app"].op = "get"

(* The status page, and the console's "status" and "config". *)
CallGet(t) ==
  /\ Runs(t)
  /\ task' = [task EXCEPT ![t] = Opening]
  /\ UNCHANGED << store, ledMode, up, history >>

Open(t) ==
  /\ At(t, "open")
  /\ Goto(t, "marker") \/ Answer(t, "local")
  /\ UNCHANGED << store, ledMode, up, history >>

(* The marker is there, or else local is written: it is missing, or it     *)
(* cannot be read.                                                         *)
ReadMarker(t) ==
  /\ At(t, "marker")
  /\ \/ nvs.access.marker /\ Goto(t, "mode") /\ UNCHANGED history
     \/ /\ Goto(t, "write") /\ Begins("access")
        /\ Misread("access")
        /\ UNCHANGED << asked, chosen >>
  /\ UNCHANGED << store, ledMode, up >>

(* The mode is valid and the answer, or local replaces it. *)
ReadMode(t) ==
  /\ At(t, "mode")
  /\ \/ /\ nvs.access.mode # "none" /\ IsValid(nvs.access.mode)
        /\ Answer(t, nvs.access.mode) /\ UNCHANGED history
     \/ /\ Goto(t, "write") /\ Begins("access")
        /\ Misread("access")
        /\ UNCHANGED << asked, chosen >>
  /\ UNCHANGED << store, ledMode, up >>

----------------------------------------------------------------------------
(* config_access_set_mode_from_name, by config_handler or set_config_access, *)
(* with a name that is known; when nvs_open fails nothing happens.         *)
SetAccess(t, mode) ==
  /\ Runs(t)
  /\ task' = [task EXCEPT ![t] = Call("write", "access", "set", mode)]
  /\ asked' = (asked \/ mode = "captive")
  /\ Begins("access") /\ Choose("access", "unclear")
  /\ UNCHANGED << store, ledMode, up >>

(* Mutated: identify is saved as well. *)
IsSaved_Always(mode) == TRUE

(* status_led_set_mode_from_name: "identify" is not to be saved. *)
IsSaved(mode) == mode # "identify"

(* status_led_set_mode, by led_handler or the console: RAM first. *)
SetLed(t, mode) ==
  /\ Runs(t)
  /\ ledMode' = mode
  /\ IF IsSaved(mode)
     THEN /\ Choose("led", "unclear") /\ Begins("led")
          /\ \/ task' = [task EXCEPT ![t] = Call("write", "led", "set", mode)]
             \/ UNCHANGED task                           \* nvs_open failed
     ELSE UNCHANGED << task, chosen, misread, overlapped >>
  /\ UNCHANGED << store, up, asked >>

----------------------------------------------------------------------------
(* A call of get answers local whatever becomes of its save. *)
SaveFails(t) ==
  /\ task[t].pc \in {"write", "mark", "commit"}
  /\ IF task[t].op = "get" THEN Answer(t, "local")
     ELSE task' = [task EXCEPT ![t] = Idle]
  /\ UNCHANGED << store, ledMode, up, history >>

(* Mutated: the marker goes first. *)
Saved_Swapped(contents, mode, n) ==
  IF n = 2 THEN [contents EXCEPT !.mode = mode] ELSE [contents EXCEPT !.marker = TRUE]

(* What the n-th write of save_mode changes. *)
Saved(contents, mode, n) ==
  IF n = 1 THEN [contents EXCEPT !.mode = mode] ELSE [contents EXCEPT !.marker = TRUE]

Write(t) ==
  /\ At(t, "write")
  /\ IF task[t].key = "led"
     THEN Put("led", task[t].value) /\ Goto(t, "commit")
     ELSE Put("access", Saved(nvs.access, task[t].value, 1)) /\ Goto(t, "mark")
  /\ UNCHANGED << ledMode, up, history >>

Mark(t) ==
  /\ At(t, "mark")
  /\ Put("access", Saved(nvs.access, task[t].value, 2))
  /\ Goto(t, "commit")
  /\ UNCHANGED << ledMode, up, history >>

(* Mutated: nothing is committed. *)
Committed_Not(k) == trail[k]

Committed(k) == {nvs[k]}

(* nvs_commit, and a set is confirmed. *)
Commit(t) ==
  LET k == task[t].key IN
  /\ At(t, "commit")
  /\ trail' = [trail EXCEPT ![k] = Committed(k)]
  /\ IF task[t].op = "get" THEN Answer(t, "local") /\ UNCHANGED << chosen, misread >>
     ELSE Reply(t) /\ Choose(k, IF overlapped[k] THEN "unclear" ELSE task[t].value)
  /\ UNCHANGED << nvs, ledMode, up, asked, overlapped >>

(* A restart, by software or because power goes. *)
Restart ==
  /\ \E a \in trail.access, l \in trail.led :
       /\ nvs' = [access |-> a, led |-> l]
       /\ trail' = [access |-> {a}, led |-> {l}]
  /\ ledMode' = "status"
  /\ up' = FALSE
  /\ task' = [t \in Tasks |-> Idle]
  /\ overlapped' = [k \in Keys |-> FALSE]
  /\ misread' = [misread EXCEPT !["led"] = FALSE]
  /\ UNCHANGED << asked, chosen >>

Next ==
  \/ Boot \/ Restart
  \/ \E t \in Tasks :
       \/ CallGet(t) \/ Open(t) \/ ReadMarker(t) \/ ReadMode(t)
       \/ \E mode \in Modes : SetAccess(t, mode)
       \/ \E mode \in LedModes : SetLed(t, mode)
       \/ Write(t) \/ Mark(t) \/ Commit(t) \/ SaveFails(t)

Spec == Init /\ [][Next]_vars

----------------------------------------------------------------------------
TypeOK ==
  /\ nvs \in [access : AccessStore, led : LedStore]
  /\ trail \in [access : SUBSET AccessStore, led : SUBSET LedStore]
  /\ ledMode \in LedModes
  /\ up \in BOOLEAN
  /\ task \in [Tasks -> Task]
  /\ asked \in BOOLEAN
  /\ chosen \in [Keys -> Modes \cup LedModes \cup {"unclear"}]
  /\ misread \in [Keys -> BOOLEAN]
  /\ overlapped \in [Keys -> BOOLEAN]

(* A board is captive only if that was asked for: the captive of an older  *)
(* firmware is never taken for a choice, wherever power goes while the     *)
(* safe default replaces it.                                               *)
CaptiveIsChosen ==
  \A t \in Tasks : At(t, "idle") /\ task[t].value = "captive" => asked

Reads(k, contents) == IF k = "led" THEN Load(contents) ELSE contents.mode

(* A mode whose saving was confirmed is the one of the next start whenever *)
(* power goes, with two exceptions.  If two tasks saved at once nothing is *)
(* said.  And one nvs_get_u8 that fails, in a mere poll of the status, is  *)
(* enough for config_access_get_mode to save local over a confirmed        *)
(* captive; it never puts captive in the place of local, and never takes   *)
(* the marker away.  The LED mode in flash is safe from failing reads.     *)
ChoiceSurvives ==
  \A k \in Keys : chosen[k] # "unclear" =>
    \A c \in trail[k] :
      /\ \/ Reads(k, c) = chosen[k]
         \/ k = "access" /\ misread[k] /\ c.mode = "local"
      /\ k = "access" => c.marker

(* A step that ends a read of the access mode. *)
Answered(t) == /\ task[t].op = "get" /\ task[t].pc # "idle"
               /\ task'[t].op = "get" /\ task'[t].pc = "idle"

(* The confirmed mode is also what a reader of the access mode is told,    *)
(* unless its nvs_open fails or a read has failed since the mode was       *)
(* confirmed: then it may be told local, and never captive in its place.   *)
(* The LED does what was confirmed, but for identify, and for status if    *)
(* the saved mode could not be read at this start.                         *)
ChoiceShown ==
  [][/\ \A t \in Tasks : Answered(t) =>
          \/ chosen'.access \in {"unclear", task'[t].value}
          \/ (At(t, "open") \/ misread'.access) /\ task'[t].value = "local"
     /\ up' => \/ chosen'.led = "unclear"
               \/ ledMode' \in {chosen'.led, "identify"}
               \/ misread'.led /\ ledMode' = "status"]_vars

=============================================================================
