--------------------------- MODULE SettingsProofs ---------------------------
(***************************************************************************)
(* Proofs about the access mode and the LED mode in NVS: why captive is    *)
(* always somebody's choice, and why a confirmed choice is what a restart  *)
(* finds and a reader is told, or the safe default once it was misread.    *)
(***************************************************************************)
EXTENDS Settings, TLAPS

(* What the tasks have seen and hold.  A mark goes onto the mode that is   *)
(* there: it was written since the board started, by one who was asked.    *)
Places ==
  /\ \A t \in Tasks : /\ task[t].op = "get" => task[t].key = "access"
                      /\ task[t].op = "get" /\ ~At(t, "idle") => task[t].value = "local"
                      /\ task[t].pc \in {"marker", "mode", "open"} => task[t].op = "get"
                      /\ task[t].pc \in {"write", "mark", "commit"} => task[t].op # "none"
                      /\ At(t, "mark") => task[t].key = "access" /\ nvs.access.mode \in Modes
                      /\ At(t, "mode") => nvs.access.marker
  /\ \A t \in Saving("led") : task[t].value \in LedModes \ {"identify"}
  /\ \A t \in Saving("access") : task[t].value \in Modes
  /\ ~up => \A t \in Tasks : At(t, "idle")

(* Wherever captive may count, it was asked for.                           *)
Asked ==
  /\ \A c \in trail.access : c.marker /\ c.mode = "captive" => asked
  /\ \A t \in Saving("access") : task[t].value = "captive" => asked
  /\ \A t \in Tasks : At(t, "mark") /\ nvs.access.mode = "captive" => asked

(* While it is clear which mode was chosen last, nobody saves but a reader *)
(* of the access mode that has misread it.                                 *)
Settled ==
  \A k \in Keys : chosen[k] # "unclear" =>
    \A t \in Saving(k) : k = "access" /\ misread["access"] /\ task[t].op = "get"

(* One who saves alone finds what it wrote.                                *)
Alone ==
  /\ \A k \in Keys : ~overlapped[k] => \A t, u \in Saving(k) : t = u
  /\ \A t \in Saving("access") : ~overlapped["access"] =>
       /\ task[t].pc \in {"mark", "commit"} => nvs.access.mode = task[t].value
       /\ At(t, "commit") => nvs.access.marker
  /\ \A t \in Saving("led") : ~overlapped["led"] =>
       /\ At(t, "commit") => nvs.led = task[t].value
       /\ ledMode \in {task[t].value, "identify"}

(* Power may leave what is there now.                                      *)
NewestKept == nvs.access \in trail.access /\ nvs.led \in trail.led

LedShown ==
  up /\ chosen["led"] # "unclear" =>
    \/ ledMode \in {chosen["led"], "identify"}
    \/ misread["led"] /\ ledMode = "status"

(* A mode that was chosen is one of its setting.                           *)
OwnModes ==
  /\ chosen["access"] \in Modes \cup {"unclear"}
  /\ chosen["led"] \in LedModes \cup {"unclear"}

IInv ==
  /\ TypeOK /\ OwnModes /\ Places /\ Asked /\ Settled /\ Alone /\ NewestKept
  /\ LedShown /\ CaptiveIsChosen /\ ChoiceSurvives

----------------------------------------------------------------------------
LEMMA CallIsTask ==
  /\ \A pc \in Pc, key \in Keys, op \in {"none", "get", "set"}, value \in Modes \cup LedModes :
       Call(pc, key, op, value) \in Task
  /\ Idle \in Task /\ Opening \in Task
BY DEF Call, Task, Idle, Opening, Pc, Keys, Modes

LEMMA GotoType ==
  ASSUME task \in [Tasks -> Task], NEW t \in Tasks, NEW pc \in Pc, Goto(t, pc)
  PROVE  task' \in [Tasks -> Task]
BY DEF Goto, Task

(* A save that begins is known to be alone, or not.                        *)
LEMMA BeginsWell ==
  ASSUME overlapped \in [Keys -> BOOLEAN], NEW k \in Keys, Begins(k)
  PROVE  /\ overlapped' \in [Keys -> BOOLEAN]
         /\ ~overlapped'[k] => Saving(k) = {}
         /\ \A j \in Keys \ {k} : overlapped'[j] = overlapped[j]
<1>1. (Saving(k) # {}) \in BOOLEAN
  OBVIOUS
<1> HIDE DEF Saving
<1> QED BY <1>1, Zenon DEF Begins

(* app_main starts: it loads the LED mode that was chosen last.            *)
LEMMA BootInv ==
  ASSUME IInv, Boot
  PROVE  IInv'
<1>1. TypeOK'
  <2>1. task' \in [Tasks -> Task]
    BY CallIsTask DEF IInv, TypeOK, Boot, Tasks
  <2>2. misread' \in [Keys -> BOOLEAN]
    BY DEF IInv, TypeOK, Boot, Misread
  <2>3. ledMode' \in LedModes /\ up' \in BOOLEAN
    BY DEF Boot, Load, LedModes
  <2> QED BY <2>1, <2>2, <2>3 DEF IInv, TypeOK, Boot, store
<1>2. OwnModes'
  BY DEF IInv, TypeOK, OwnModes, Places, Saving, Keys, Boot, Opening, Choose, Misread
<1>3. Places' /\ Asked'
  BY DEF IInv, TypeOK, Places, At, Saving, Task, Call, Asked, NewestKept, Boot,
     Opening, Tasks, store, Choose, Misread, Modes
<1>4. Settled'
  BY DEF IInv, TypeOK, Settled, Alone, ChoiceSurvives, NewestKept, Saving, Task, Call,
     Keys, Boot, Opening, Choose, Misread
<1>5. Alone'
  BY DEF IInv, TypeOK, Alone, Places, Saving, At, Task, Call, Keys, Boot, Opening,
     Tasks, store, Idle
<1>6. NewestKept'
  BY DEF IInv, TypeOK, NewestKept, Boot, Opening, store
<1>7. LedShown'
  <2>1. CASE ledMode' = Load(nvs.led) /\ UNCHANGED misread
    <3>1. chosen["led"] # "unclear" => Load(nvs.led) = chosen["led"]
      BY DEF IInv, ChoiceSurvives, NewestKept, Reads, Keys
    <3>2. UNCHANGED chosen
      BY DEF Boot
    <3>3. chosen'["led"] # "unclear" => ledMode' \in {chosen'["led"], "identify"}
      BY <2>1, <3>1, <3>2
    <3> QED BY <3>3, Zenon DEF LedShown
  <2>2. CASE ledMode' = "status" /\ Misread("led")
    <3>1. misread'["led"] = (chosen["led"] # "unclear")
      BY <2>2 DEF IInv, TypeOK, Misread, Keys
    <3> QED BY <2>2, <3>1 DEF LedShown, Boot
  <2> QED BY <2>1, <2>2 DEF Boot
<1>8. CaptiveIsChosen'
  BY DEF IInv, CaptiveIsChosen, TypeOK, Asked, Places, NewestKept, At, Call, Task,
     Boot, Opening, Tasks
<1>9. ChoiceSurvives'
  BY DEF IInv, TypeOK, ChoiceSurvives, Settled, Places, Alone, NewestKept, Reads,
     Saving, At, Keys, Boot, Opening, Choose, Misread, store
<1> QED BY <1>1, <1>2, <1>3, <1>4, <1>5, <1>6, <1>7, <1>8, <1>9 DEF IInv

(* A restart keeps one contents of each trail, and no call.                *)
LEMMA RestartInv ==
  ASSUME IInv, Restart
  PROVE  IInv'
<1>1. TypeOK'
  <2>1. PICK a \in trail.access, l \in trail.led :
          /\ nvs' = [access |-> a, led |-> l]
          /\ trail' = [access |-> {a}, led |-> {l}]
    BY DEF Restart
  <2>2. a \in AccessStore /\ l \in LedStore
    BY <2>1 DEF IInv, TypeOK
  <2>3. /\ nvs' \in [access : AccessStore, led : LedStore]
        /\ trail' \in [access : SUBSET AccessStore, led : SUBSET LedStore]
    BY <2>1, <2>2
  <2>4. task' \in [Tasks -> Task] /\ overlapped' \in [Keys -> BOOLEAN]
    BY CallIsTask DEF Restart
  <2> QED BY <2>3, <2>4 DEF Restart, IInv, TypeOK, LedModes
<1>2. OwnModes'
  BY DEF IInv, TypeOK, OwnModes, Places, Saving, Keys, Restart, Idle
<1>3. Places' /\ Asked'
  BY DEF IInv, TypeOK, Places, At, Saving, Task, Call, Asked, NewestKept, Restart,
     Idle, Tasks
<1>4. Settled'
  BY DEF IInv, TypeOK, Settled, Alone, ChoiceSurvives, NewestKept, Saving, Task, Call,
     Keys, Restart, Idle
<1>5. Alone'
  BY DEF IInv, TypeOK, Alone, Places, Saving, At, Task, Call, Keys, Restart, Idle
<1>6. NewestKept'
  BY DEF IInv, TypeOK, NewestKept, Restart, Idle
<1>7. LedShown'
  BY DEF IInv, TypeOK, LedShown, Places, Alone, Settled, ChoiceSurvives, NewestKept,
     Saving, Keys, Restart, Idle
<1>8. CaptiveIsChosen'
  BY DEF IInv, CaptiveIsChosen, TypeOK, Asked, Places, NewestKept, At, Call, Task,
     Restart, Idle
<1>9. ChoiceSurvives'
  BY DEF IInv, TypeOK, ChoiceSurvives, Settled, Places, Alone, NewestKept, Reads,
     Saving, At, Keys, Restart, Idle
<1> QED BY <1>1, <1>2, <1>3, <1>4, <1>5, <1>6, <1>7, <1>8, <1>9 DEF IInv

(* A call begins, asks for the marker, or gives up: nothing else changes.  *)
LEMMA MovesInv ==
  ASSUME IInv, NEW t \in Tasks, CallGet(t) \/ Open(t) \/ SaveFails(t)
  PROVE  IInv'
<1>1. TypeOK'
  <2>1. task' \in [Tasks -> Task]
    BY GotoType, CallIsTask DEF IInv, TypeOK, CallGet, Open, SaveFails, Answer, Pc,
       Keys, Modes
  <2> QED BY <2>1 DEF IInv, TypeOK, CallGet, Open, SaveFails, store, history
<1>2. OwnModes' /\ NewestKept' /\ LedShown' /\ ChoiceSurvives'
  BY DEF IInv, TypeOK, OwnModes, Places, Saving, Keys, NewestKept, LedShown, Alone,
     Settled, ChoiceSurvives, Reads, At, CallGet, Open, SaveFails, Goto, Answer, Idle,
     Opening, store, history
<1>3. Places'
  <2>1. /\ UNCHANGED << nvs, up >>
        /\ task \in [Tasks -> Task]
        /\ up
    BY DEF IInv, Places, TypeOK, CallGet, Open, SaveFails, store, Runs, At
  <2>2. CASE CallGet(t)
    BY <2>1, <2>2 DEF IInv, Places, At, Saving, Task, Call, CallGet, Opening, Runs
  <2>3. CASE Open(t)
    BY <2>1, <2>3 DEF IInv, Places, At, Saving, Task, Call, Open, Goto, Answer
  <2>4. CASE SaveFails(t)
    BY <2>1, <2>4 DEF IInv, Places, At, Saving, Task, Call, SaveFails, Answer, Idle
  <2> QED BY <2>2, <2>3, <2>4
<1>4. Asked'
  BY DEF IInv, TypeOK, Asked, Places, NewestKept, At, Saving, Task, Call, CallGet,
     Open, SaveFails, Goto, Answer, Idle, Opening, store, history, Modes
<1>5. Settled'
  BY DEF IInv, TypeOK, Settled, Alone, ChoiceSurvives, NewestKept, Saving, Task, Call,
     Keys, CallGet, Open, SaveFails, Goto, Answer, Idle, Opening, store, history
<1>6. Alone'
  BY DEF IInv, TypeOK, Alone, Places, Saving, At, Task, Call, Keys, CallGet, Open,
     SaveFails, Goto, Answer, Idle, Opening, store, history
<1>7. CaptiveIsChosen'
  BY DEF IInv, CaptiveIsChosen, TypeOK, Asked, Places, NewestKept, At, Call, Task,
     CallGet, Open, SaveFails, Goto, Answer, Idle, Opening, store, history
<1> QED BY <1>1, <1>2, <1>3, <1>4, <1>5, <1>6, <1>7 DEF IInv

(* A read answers what is there, or begins to replace it.                  *)
LEMMA ReadInv ==
  ASSUME IInv, NEW t \in Tasks, ReadMarker(t) \/ ReadMode(t)
  PROVE  IInv'
<1>1. TypeOK'
  <2>1. overlapped' \in [Keys -> BOOLEAN]
    BY BeginsWell DEF IInv, TypeOK, ReadMarker, ReadMode, Keys, history
  <2>2. task' \in [Tasks -> Task]
    BY GotoType, CallIsTask DEF IInv, TypeOK, ReadMarker, ReadMode, Answer, IsValid,
       Pc, Keys
  <2>3. misread' \in [Keys -> BOOLEAN]
    BY DEF IInv, TypeOK, ReadMarker, ReadMode, Misread, history
  <2> QED BY <2>1, <2>2, <2>3 DEF IInv, TypeOK, ReadMarker, ReadMode, store, history
<1>2. OwnModes'
  BY DEF IInv, TypeOK, OwnModes, Places, Saving, Keys, ReadMarker, ReadMode, Goto,
     Answer, Choose, Misread, IsValid, store, history
<1>3. Places'
  BY DEF IInv, TypeOK, Places, At, Saving, Task, Call, ReadMarker, ReadMode, Goto,
     Answer, Choose, Misread, IsValid, store, history, Begins, Modes
<1>4. Asked'
  BY DEF IInv, TypeOK, Asked, Places, NewestKept, At, Saving, Task, Call, ReadMarker,
     ReadMode, Goto, Answer, Choose, Misread, IsValid, store, history, Modes
<1>5. Settled'
  <2>1. UNCHANGED chosen
    BY DEF ReadMarker, ReadMode, history
  <2>2. CASE Goto(t, "write") /\ Misread("access")
    <3>1. /\ misread'["access"] = (chosen["access"] # "unclear")
          /\ task[t].op = "get" /\ task[t].key = "access"
      BY <2>2 DEF IInv, TypeOK, Misread, Keys, Places, At, ReadMarker, ReadMode
    <3>2. Saving("access")' \subseteq Saving("access") \cup {t} /\ Saving("led")' = Saving("led")
      BY <2>2, <3>1 DEF IInv, TypeOK, Goto, Saving, Task
    <3>3. \A u \in Tasks : task'[u].op = task[u].op
      BY <2>2 DEF IInv, TypeOK, Goto, Task
    <3>4. \A k \in Keys : Saving(k)' \subseteq Tasks
      BY DEF Saving
    <3>5. ASSUME NEW k \in Keys, chosen[k] # "unclear", NEW u \in Saving(k)'
          PROVE  k = "access" /\ task'[u].op = "get"
      BY <3>1, <3>2, <3>3, <3>4, <3>5, Zenon DEF IInv, Settled, Keys
    <3>6. ASSUME NEW k \in Keys, chosen[k] # "unclear", NEW u \in Saving(k)'
          PROVE  misread'["access"]
      BY <3>1, <3>5, <3>6
    <3> QED BY <2>1, <3>5, <3>6, Zenon DEF Settled
  <2>3. CASE UNCHANGED misread /\ (Goto(t, "mode") \/ Answer(t, nvs.access.mode))
    <3>1. \A k \in Keys : Saving(k)' \subseteq Saving(k)
      BY <2>3 DEF IInv, TypeOK, Goto, Answer, Call, Saving, Task
    <3>2. \A k \in Keys : \A u \in Saving(k)' : task'[u] = task[u]
      BY <2>3 DEF IInv, TypeOK, Goto, Answer, Call, Saving, Task
    <3> QED BY <2>1, <2>3, <3>1, <3>2 DEF IInv, Settled
  <2> QED BY <2>2, <2>3 DEF ReadMarker, ReadMode, history
<1>6. Alone'
  <2>1. CASE UNCHANGED overlapped /\ (Goto(t, "mode") \/ Answer(t, nvs.access.mode))
    BY <2>1 DEF IInv, TypeOK, Alone, ReadMarker, ReadMode, Goto, Answer, Saving, At,
       Keys, Task, Call, store
  <2>2. CASE Begins("access") /\ Goto(t, "write")
    <3>1. ~overlapped'["access"] => Saving("access") = {}
      BY <2>2, BeginsWell DEF IInv, TypeOK, Keys
    <3>2. overlapped'["led"] = overlapped["led"]
      BY <2>2, BeginsWell DEF IInv, TypeOK, Keys
    <3> QED BY <2>2, <3>1, <3>2 DEF IInv, TypeOK, Alone, Places, ReadMarker, ReadMode,
       Goto, Saving, At, Keys, Task, store
  <2> QED BY <2>1, <2>2 DEF ReadMarker, ReadMode, history
<1>7. NewestKept' /\ LedShown'
  BY DEF IInv, TypeOK, NewestKept, LedShown, Places, Alone, Settled, ChoiceSurvives,
     Saving, Keys, ReadMarker, ReadMode, Goto, Answer, Choose, Misread, IsValid, store, history
<1>8. CaptiveIsChosen'
  BY DEF IInv, CaptiveIsChosen, TypeOK, Asked, Places, NewestKept, At, Call, Task,
     ReadMarker, ReadMode, Goto, Answer, Choose, Misread, IsValid, store, history, Modes
<1>9. ChoiceSurvives'
  BY DEF IInv, TypeOK, ChoiceSurvives, Settled, Places, Alone, NewestKept, Reads,
     Saving, At, Keys, ReadMarker, ReadMode, Goto, Answer, Choose, Misread, IsValid, store,
     history, Modes
<1> QED BY <1>1, <1>2, <1>3, <1>4, <1>5, <1>6, <1>7, <1>8, <1>9 DEF IInv

(* config_access_set_mode_from_name begins to save.                        *)
LEMMA SetAccessInv ==
  ASSUME IInv, NEW t \in Tasks, NEW mode \in Modes, SetAccess(t, mode)
  PROVE  IInv'
<1>1. TypeOK'
  <2>1. overlapped' \in [Keys -> BOOLEAN]
    BY BeginsWell DEF IInv, TypeOK, SetAccess, Keys
  <2>2. task' \in [Tasks -> Task]
    BY CallIsTask DEF IInv, TypeOK, SetAccess, Pc, Keys
  <2> QED BY <2>1, <2>2 DEF IInv, TypeOK, SetAccess, Choose, Misread, store
<1>2. OwnModes' /\ NewestKept' /\ LedShown'
  BY DEF IInv, TypeOK, OwnModes, Places, Saving, Keys, NewestKept, LedShown, Alone,
     Settled, ChoiceSurvives, SetAccess, Runs, Choose, Misread, store
<1>3. Places'
  BY DEF IInv, TypeOK, Places, At, Saving, Task, Call, SetAccess, Runs, Choose, Misread, store
<1>4. Asked'
  BY DEF IInv, TypeOK, Asked, Places, NewestKept, At, Saving, Task, Call, SetAccess,
     Runs, Choose, Misread, store
<1>5. Settled'
  BY DEF IInv, TypeOK, Settled, Alone, ChoiceSurvives, NewestKept, Saving, Task, Call,
     Keys, SetAccess, Runs, Choose, Misread, store
<1>6. Alone'
  <2>1. ~overlapped'["access"] => Saving("access") = {}
    BY BeginsWell DEF IInv, TypeOK, SetAccess, Keys
  <2>2. overlapped'["led"] = overlapped["led"]
    BY BeginsWell DEF IInv, TypeOK, SetAccess, Keys
  <2> QED BY <2>1, <2>2 DEF IInv, TypeOK, Alone, SetAccess, Runs, Saving, At, Keys,
     Task, Call, store
<1>7. CaptiveIsChosen'
  BY DEF IInv, CaptiveIsChosen, TypeOK, Asked, Places, NewestKept, At, Call, Task,
     SetAccess, Runs, Choose, Misread, store
<1>8. ChoiceSurvives'
  BY DEF IInv, TypeOK, ChoiceSurvives, Settled, Places, Alone, NewestKept, Reads,
     Saving, At, Keys, SetAccess, Runs, Choose, Misread, store
<1> QED BY <1>1, <1>2, <1>3, <1>4, <1>5, <1>6, <1>7, <1>8 DEF IInv

(* status_led_set_mode: the mode is changed at once, and saved unless it is identify.*)
LEMMA SetLedInv ==
  ASSUME IInv, NEW t \in Tasks, NEW mode \in LedModes, SetLed(t, mode)
  PROVE  IInv'
<1>1. TypeOK'
  <2>1. overlapped' \in [Keys -> BOOLEAN]
    BY BeginsWell DEF IInv, TypeOK, SetLed, Keys
  <2>2. task' \in [Tasks -> Task]
    BY CallIsTask DEF IInv, TypeOK, SetLed, Pc, Keys
  <2> QED BY <2>1, <2>2 DEF IInv, TypeOK, SetLed, Choose, Misread, store
<1>2. OwnModes' /\ NewestKept'
  BY DEF IInv, TypeOK, OwnModes, Places, Saving, Keys, NewestKept, SetLed, Runs,
     Choose, Misread, IsSaved, store
<1>3. Places'
  BY DEF IInv, TypeOK, Places, At, Saving, Task, Call, SetLed, Runs, Choose, Misread, IsSaved,
     store
<1>4. Asked'
  BY DEF IInv, TypeOK, Asked, Places, NewestKept, At, Saving, Task, Call, SetLed,
     Runs, Choose, Misread, IsSaved, store
<1>5. Settled'
  BY DEF IInv, TypeOK, Settled, Alone, ChoiceSurvives, NewestKept, Saving, Task, Call,
     Keys, SetLed, Runs, Choose, Misread, IsSaved, store
<1>6. Alone'
  <2>1. CASE UNCHANGED << task, overlapped >> /\ mode = "identify"
    BY <2>1 DEF IInv, TypeOK, Alone, SetLed, Saving, At, Keys, store
  <2>2. CASE Begins("led")
    <3>1. ~overlapped'["led"] => Saving("led") = {}
      BY <2>2, BeginsWell DEF IInv, TypeOK, Keys
    <3>2. overlapped'["access"] = overlapped["access"]
      BY <2>2, BeginsWell DEF IInv, TypeOK, Keys
    <3>3. /\ Saving("access")' = Saving("access")
          /\ Saving("led")' \subseteq Saving("led") \cup {t}
      BY DEF IInv, TypeOK, SetLed, Runs, Saving, At, Task, Call
    <3>4. UNCHANGED nvs /\ ledMode' = mode
      BY DEF SetLed, store
    <3>5. \A u \in Tasks : u # t \/ task' = task => task'[u] = task[u]
      BY DEF IInv, TypeOK, SetLed
    <3>6. t \in Saving("led")' => task'[t].pc = "write" /\ task'[t].value = mode
      BY <2>2 DEF IInv, TypeOK, SetLed, Runs, Saving, At, Task, Call
    <3>7. \A u \in Saving("access")' : u \in Saving("access") /\ task'[u] = task[u]
      BY <3>3, <3>5, <3>6 DEF IInv, TypeOK, SetLed, Saving, Task, Call
    <3>8. \A k \in Keys : ~overlapped'[k] => \A u, v \in Saving(k)' : u = v
      BY <3>1, <3>2, <3>3 DEF IInv, Alone, Keys
    <3>9. \A u \in Saving("led")' : ~overlapped'["led"] => u = t
      BY <3>1, <3>3
    <3> QED BY <3>2, <3>4, <3>6, <3>7, <3>8, <3>9 DEF IInv, Alone, At
  <2> QED BY <2>1, <2>2 DEF SetLed, IsSaved
<1>7. LedShown'
  <2>1. CASE mode = "identify"
    <3>1. ledMode' = "identify"
      BY <2>1 DEF SetLed
    <3>2. ledMode' \in {chosen'["led"], "identify"}
      BY <3>1
    <3> QED BY <3>2, Zenon DEF LedShown
  <2>2. CASE Choose("led", "unclear")
    BY <2>2 DEF IInv, TypeOK, LedShown, Choose, Keys
  <2> QED BY <2>1, <2>2 DEF SetLed, IsSaved
<1>8. CaptiveIsChosen'
  BY DEF IInv, CaptiveIsChosen, TypeOK, Asked, Places, NewestKept, At, Call, Task,
     SetLed, Runs, Choose, Misread, IsSaved, store
<1>9. ChoiceSurvives'
  BY DEF IInv, TypeOK, ChoiceSurvives, Settled, Places, Alone, NewestKept, Reads,
     Saving, At, Keys, SetLed, Runs, Choose, Misread, IsSaved, store
<1> QED BY <1>1, <1>2, <1>3, <1>4, <1>5, <1>6, <1>7, <1>8, <1>9 DEF IInv

(* nvs_set_u8 by one who saves: it is unclear meanwhile what was chosen.   *)
LEMMA WriteInv ==
  ASSUME IInv, NEW t \in Tasks, Write(t)
  PROVE  IInv'
<1>1. TypeOK'
  <2>1. task' \in [Tasks -> Task]
    BY GotoType DEF IInv, TypeOK, Write, Pc
  <2>2. nvs' \in [access : AccessStore, led : LedStore]
    BY DEF IInv, TypeOK, Places, Saving, Write, Put, Saved, At, AccessStore, LedStore,
       Task, Keys, Modes, LedModes
  <2>3. trail' \in [access : SUBSET AccessStore, led : SUBSET LedStore]
    BY <2>2 DEF IInv, TypeOK, Write, Put, Keys, Task
  <2> QED BY <2>1, <2>2, <2>3 DEF IInv, TypeOK, Write, history
<1>2. OwnModes' /\ LedShown'
  BY DEF IInv, TypeOK, OwnModes, Places, Saving, Keys, LedShown, Alone, Settled,
     ChoiceSurvives, NewestKept, Write, Put, Goto, Saved, history
<1>3. Places'
  BY DEF IInv, TypeOK, Places, At, Saving, Task, Call, Write, Put, Goto, Saved,
     history, Modes, AccessStore, Keys, LedModes
<1>4. Asked'
  BY DEF IInv, TypeOK, Asked, Places, NewestKept, At, Saving, Task, Call, Write, Put,
     Goto, Saved, history, Modes, AccessStore, Keys
<1>5. Settled'
  BY DEF IInv, TypeOK, Settled, Alone, ChoiceSurvives, NewestKept, Saving, Task, Call,
     Keys, Write, Put, Goto, Saved, history, At
<1>6. Alone'
  BY DEF IInv, TypeOK, Alone, Places, Saving, At, Task, Call, Keys, Write, Put, Goto,
     Saved, history, AccessStore
<1>7. NewestKept'
  BY DEF IInv, TypeOK, NewestKept, Write, Put, Goto, Saved, history, Keys, Task
<1>8. CaptiveIsChosen'
  BY DEF IInv, CaptiveIsChosen, TypeOK, Asked, Places, NewestKept, At, Call, Task,
     Write, Put, Goto, Saved, history
<1>9. ChoiceSurvives'
  <2>1. t \in Saving(task[t].key) /\ task[t].key \in Keys /\ UNCHANGED << chosen, misread >>
    BY DEF IInv, TypeOK, Write, At, Saving, Task, history
  <2>2. CASE chosen[task[t].key] = "unclear"
    BY <2>1, <2>2 DEF IInv, TypeOK, ChoiceSurvives, Write, Put, Keys, Reads
  <2>3. CASE chosen[task[t].key] # "unclear"
    <3>1. task[t].key = "access" /\ misread["access"] /\ task[t].value = "local"
      BY <2>1, <2>3 DEF IInv, Settled, Places, Write, At
    <3>2. nvs.access.marker
      BY <2>1, <2>3, <3>1 DEF IInv, ChoiceSurvives, NewestKept
    <3>3. /\ trail'.access = trail.access \cup {[nvs.access EXCEPT !.mode = "local"]}
          /\ trail'.led = trail.led
      BY <3>1 DEF IInv, TypeOK, Write, Put, Saved
    <3>4. /\ [nvs.access EXCEPT !.mode = "local"].mode = "local"
          /\ [nvs.access EXCEPT !.mode = "local"].marker
      BY <3>2 DEF IInv, TypeOK, AccessStore
    <3> QED BY <2>1, <3>1, <3>3, <3>4 DEF IInv, ChoiceSurvives, Keys, Reads
  <2> QED BY <2>2, <2>3
<1> QED BY <1>1, <1>2, <1>3, <1>4, <1>5, <1>6, <1>7, <1>8, <1>9 DEF IInv

(* The marker follows the mode, whoever wrote that.                        *)
LEMMA MarkInv ==
  ASSUME IInv, NEW t \in Tasks, Mark(t)
  PROVE  IInv'
<1>1. TypeOK'
  <2>1. task' \in [Tasks -> Task]
    BY GotoType DEF IInv, TypeOK, Mark, Pc
  <2>2. nvs' \in [access : AccessStore, led : LedStore]
    BY DEF IInv, TypeOK, Places, Saving, Mark, Put, Saved, At, AccessStore, LedStore,
       Task, Keys, Modes, LedModes
  <2>3. trail' \in [access : SUBSET AccessStore, led : SUBSET LedStore]
    BY <2>2 DEF IInv, TypeOK, Mark, Put, Keys, Task
  <2> QED BY <2>1, <2>2, <2>3 DEF IInv, TypeOK, Mark, history
<1>2. OwnModes' /\ LedShown'
  BY DEF IInv, TypeOK, OwnModes, Places, Saving, Keys, LedShown, Alone, Settled,
     ChoiceSurvives, NewestKept, Mark, Put, Goto, Saved, history
<1>3. Places'
  BY DEF IInv, TypeOK, Places, At, Saving, Task, Call, Mark, Put, Goto, Saved,
     history, Modes, AccessStore, Keys, LedModes
<1>4. Asked'
  BY DEF IInv, TypeOK, Asked, Places, NewestKept, At, Saving, Task, Call, Mark, Put,
     Goto, Saved, history, Modes, AccessStore, Keys
<1>5. Settled'
  BY DEF IInv, TypeOK, Settled, Alone, ChoiceSurvives, NewestKept, Saving, Task, Call,
     Keys, Mark, Put, Goto, Saved, history, At
<1>6. Alone'
  BY DEF IInv, TypeOK, Alone, Places, Saving, At, Task, Call, Keys, Mark, Put, Goto,
     Saved, history, AccessStore
<1>7. NewestKept'
  BY DEF IInv, TypeOK, NewestKept, Mark, Put, Goto, Saved, history, Keys, Task
<1>8. CaptiveIsChosen'
  BY DEF IInv, CaptiveIsChosen, TypeOK, Asked, Places, NewestKept, At, Call, Task,
     Mark, Put, Goto, Saved, history
<1>9. ChoiceSurvives'
  <2>1. /\ t \in Saving("access") /\ UNCHANGED << chosen, misread >>
        /\ trail'.access = trail.access \cup {Saved(nvs.access, task[t].value, 2)}
        /\ trail'.led = trail.led
    BY DEF IInv, TypeOK, Places, Mark, Put, At, Saving, history
  <2>2. CASE chosen["access"] = "unclear"
    BY <2>1, <2>2 DEF IInv, ChoiceSurvives, Keys, Reads
  <2>3. CASE chosen["access"] # "unclear"
    <3>1. nvs.access.marker /\ nvs.access \in trail.access
      BY <2>3 DEF IInv, ChoiceSurvives, NewestKept, Keys
    <3>2. Saved(nvs.access, task[t].value, 2) = nvs.access
      BY <3>1 DEF IInv, TypeOK, AccessStore, Saved
    <3> QED BY <2>1, <3>1, <3>2 DEF IInv, ChoiceSurvives, Keys, Reads
  <2> QED BY <2>2, <2>3
<1> QED BY <1>1, <1>2, <1>3, <1>4, <1>5, <1>6, <1>7, <1>8, <1>9 DEF IInv

(* nvs_commit: what is there is all that power may leave.                  *)
LEMMA CommitInv ==
  ASSUME IInv, NEW t \in Tasks, Commit(t)
  PROVE  IInv'
<1>1. TypeOK'
  <2>1. task' \in [Tasks -> Task]
    BY CallIsTask DEF IInv, TypeOK, Commit, Answer, Reply, Pc, Keys, Modes
  <2>2. trail' \in [access : SUBSET AccessStore, led : SUBSET LedStore]
    BY DEF IInv, TypeOK, Commit, Committed, Task, Keys
  <2> QED BY <2>1, <2>2 DEF IInv, TypeOK, Commit, Choose, Misread, Task
<1>2. OwnModes'
  <2>1. CASE task[t].key = "access"
    BY <2>1 DEF IInv, TypeOK, OwnModes, Places, Saving, Commit, Choose, Misread, At, Keys
  <2>2. CASE task[t].key = "led"
    BY <2>2 DEF IInv, TypeOK, OwnModes, Places, Saving, Commit, Choose, Misread, At, Keys
  <2> QED BY <2>1, <2>2 DEF IInv, TypeOK, Task, Keys
<1>3. Places'
  BY DEF IInv, TypeOK, Places, At, Saving, Task, Call, Commit, Committed, Answer,
     Reply, Idle, Opening, Choose, Misread
<1>4. Asked'
  BY DEF IInv, TypeOK, Asked, Places, NewestKept, At, Saving, Task, Call, Commit,
     Committed, Answer, Reply, Idle, Opening, Choose, Misread
<1>5. Settled'
  BY DEF IInv, TypeOK, Settled, Alone, ChoiceSurvives, NewestKept, Saving, Task, Call,
     Keys, Commit, Committed, Answer, Reply, Idle, Opening, Choose, Misread, At
<1>6. Alone'
  BY DEF IInv, TypeOK, Alone, Places, Saving, At, Task, Call, Keys, Commit, Committed,
     Answer, Reply, Idle, Opening, Choose, Misread
<1>7. NewestKept'
  BY DEF IInv, TypeOK, NewestKept, Commit, Committed, Answer, Reply, Idle, Opening,
     Choose, Misread
<1>8. LedShown'
  <2>1. CASE UNCHANGED << chosen["led"], misread["led"] >>
    BY <2>1 DEF IInv, LedShown, Commit
  <2>2. CASE task[t].key = "led" /\ Choose("led", IF overlapped["led"] THEN "unclear" ELSE task[t].value)
    <3>1. t \in Saving("led")
      BY <2>2 DEF Commit, At, Saving
    <3>2. chosen'["led"] = IF overlapped["led"] THEN "unclear" ELSE task[t].value
      BY <2>2 DEF IInv, TypeOK, Choose, Keys
    <3>3. UNCHANGED ledMode /\ (~overlapped["led"] => ledMode \in {task[t].value, "identify"})
      BY <3>1 DEF IInv, Alone, Commit
    <3>4. chosen'["led"] # "unclear" => ledMode' \in {chosen'["led"], "identify"}
      BY <3>2, <3>3
    <3> QED BY <3>4, Zenon DEF LedShown
  <2> QED BY <2>1, <2>2 DEF IInv, TypeOK, Commit, Choose, Task, Keys
<1>9. CaptiveIsChosen'
  BY DEF IInv, CaptiveIsChosen, TypeOK, Asked, Places, NewestKept, At, Call, Task,
     Commit, Committed, Answer, Reply, Idle, Opening, Choose, Misread
<1>10. ChoiceSurvives'
  BY DEF IInv, TypeOK, ChoiceSurvives, Settled, Places, Alone, NewestKept, Reads,
     Saving, At, Keys, Commit, Committed, Answer, Reply, Idle, Opening, Choose, Misread, Load
<1> QED BY <1>1, <1>2, <1>3, <1>4, <1>5, <1>6, <1>7, <1>8, <1>9, <1>10 DEF IInv

LEMMA InitInv == Init => IInv
<1> SUFFICES ASSUME Init PROVE IInv
  OBVIOUS
<1>1. PICK a \in AccessStore, l \in LedStore :
        /\ nvs = [access |-> a, led |-> l]
        /\ trail = [access |-> {a}, led |-> {l}]
        /\ asked = (a.marker /\ a.mode = "captive")
  BY DEF Init
<1>2. TypeOK
  <2>1. asked \in BOOLEAN /\ up \in BOOLEAN /\ ledMode \in LedModes
    BY <1>1 DEF Init, LedModes
  <2>2. task \in [Tasks -> Task] /\ overlapped \in [Keys -> BOOLEAN]
    BY CallIsTask DEF Init
  <2>3. /\ chosen \in [Keys -> Modes \cup LedModes \cup {"unclear"}]
        /\ misread \in [Keys -> BOOLEAN]
    BY DEF Init
  <2> QED BY <1>1, <2>1, <2>2, <2>3 DEF TypeOK
<1>3. \A t \in Tasks : At(t, "idle") /\ task[t].op = "none" /\ task[t].value = "local"
  BY DEF Init, Idle, Call, At
<1>4. Saving("access") = {} /\ Saving("led") = {}
  BY <1>3 DEF Saving, At
<1>5. Places /\ Settled /\ Alone
  BY <1>3, <1>4 DEF Places, Settled, Alone, At, Keys
<1>6. Asked /\ NewestKept /\ CaptiveIsChosen
  BY <1>1, <1>3, <1>4 DEF Asked, NewestKept, CaptiveIsChosen, At
<1>7. OwnModes /\ LedShown /\ ChoiceSurvives
  BY DEF Init, OwnModes, LedShown, ChoiceSurvives, Keys
<1> QED BY <1>2, <1>5, <1>6, <1>7 DEF IInv

LEMMA Inductive == Spec => []IInv
<1>1. IInv /\ UNCHANGED vars => IInv'
  BY DEF vars, store, history, IInv, TypeOK, OwnModes, Places, Asked, Settled, Alone,
     NewestKept,
         LedShown, CaptiveIsChosen, ChoiceSurvives, At, Saving
<1>2. IInv /\ [Next]_vars => IInv'
  BY <1>1, BootInv, RestartInv, MovesInv, ReadInv, SetAccessInv, SetLedInv, WriteInv,
     MarkInv,
     CommitInv DEF Next
<1> QED BY <1>2, InitInv, PTL DEF Spec

----------------------------------------------------------------------------
(* Every variable keeps its type, with any contents of the flash at first: *)
(* no NVS error makes the board write a byte of no mode, and a marker is   *)
(* never set on a mode that is not there.                                  *)
THEOREM TypeCorrect == Spec => []TypeOK
BY Inductive, PTL DEF IInv

(* The board is in captive mode only if somebody asked for it.             *)
THEOREM CaptiveChosen == Spec => []CaptiveIsChosen
BY Inductive, PTL DEF IInv

(* A mode whose saving was confirmed to one that saved alone is what every *)
(* restart finds, unless a read of the access mode has failed since: that  *)
(* may have put the safe default in its place, with the marker, and never  *)
(* captive.                                                                *)
THEOREM SurvivesRestart == Spec => []ChoiceSurvives
BY Inductive, PTL DEF IInv

(* A confirmed access mode is what each later reader is told, or local     *)
(* once a read has failed since; and a confirmed LED mode is what the LED  *)
(* does, or status in a start that could not read it.                      *)
THEOREM ShownToReaders == Spec => ChoiceShown
<1> DEFINE Told == \A t \in Tasks : Answered(t) =>
                     \/ chosen'.access \in {"unclear", task'[t].value}
                     \/ (At(t, "open") \/ misread'.access) /\ task'[t].value = "local"
           Shown == up' => \/ chosen'.led = "unclear"
                           \/ ledMode' \in {chosen'.led, "identify"}
                           \/ misread'.led /\ ledMode' = "status"
<1>1. IInv' => Shown
  BY DEF IInv, LedShown
<1>2. ASSUME IInv, Next, NEW t \in Tasks, Answered(t)
      PROVE  \/ chosen'["access"] \in {"unclear", task'[t].value}
             \/ (At(t, "open") \/ misread'["access"]) /\ task'[t].value = "local"
  <2> USE <1>2 DEF Answered, At
  <2>1. /\ task \in [Tasks -> Task]
        /\ task[t].op = "get" /\ task[t].key = "access" /\ task[t].pc # "idle"
        /\ task[t].value = "local"
        /\ task'[t].op = "get" /\ task'[t].pc = "idle"
    BY DEF IInv, TypeOK, Places
  <2>2. task[t].pc \in {"write", "mark", "commit"} =>
          chosen["access"] = "unclear" \/ misread["access"]
    BY <2>1 DEF IInv, Settled, Saving, Keys
  <2>3. \/ chosen["access"] \in {"unclear", nvs.access.mode}
        \/ misread["access"] /\ nvs.access.mode = "local"
    BY DEF IInv, ChoiceSurvives, NewestKept, Reads, Keys
  <2>4. ~Restart /\ ~Boot
    BY <2>1 DEF Restart, Boot, Idle, Call, IInv, Places
  <2>5. PICK u \in Tasks :
          \/ ReadMode(u) \/ Commit(u) \/ SaveFails(u)
          \/ Open(u)
          \/ CallGet(u) \/ ReadMarker(u) \/ Write(u) \/ Mark(u)
          \/ \E mode \in Modes : SetAccess(u, mode)
          \/ \E mode \in LedModes : SetLed(u, mode)
    BY <2>4 DEF Next
  <2>6. CASE ReadMode(u)
    BY <2>1, <2>3, <2>6 DEF ReadMode, Answer, Goto, Call, Task, history
  <2>7. CASE Commit(u)
    BY <2>1, <2>2, <2>7 DEF Commit, Answer, Reply, Call, Idle, Opening, Task
  <2>8. CASE SaveFails(u)
    BY <2>1, <2>2, <2>8 DEF SaveFails, Answer, Call, Idle, Task, history
  <2>9. CASE Open(u)
    BY <2>1, <2>9 DEF Open, Goto, Answer, Call, Task
  <2>10. CASE CallGet(u) \/ ReadMarker(u) \/ Write(u) \/ Mark(u)
    BY <2>1, <2>10 DEF CallGet, ReadMarker, Write, Mark, Goto, Answer, Opening,
       Call, Task, Runs
  <2>11. CASE \/ \E mode \in Modes : SetAccess(u, mode)
              \/ \E mode \in LedModes : SetLed(u, mode)
    BY <2>1, <2>11 DEF SetAccess, SetLed, Call, Task, Runs
  <2> QED BY <2>5, <2>6, <2>7, <2>8, <2>9, <2>10, <2>11
<1>3. IInv /\ IInv' /\ [Next]_vars => [Told /\ Shown]_vars
  BY <1>1, <1>2
<1> QED BY <1>3, Inductive, PTL DEF Spec, ChoiceShown

=============================================================================
