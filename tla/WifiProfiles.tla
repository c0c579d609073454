---------------------------- MODULE WifiProfiles ----------------------------
(***************************************************************************)
(* The profile store of wifi_profiles.c in flash, and the tasks that       *)
(* rewrite it: the HTTP server task (save, delete, import of the current   *)
(* Wi-Fi configuration) and the validation task (save).  Every rewrite     *)
(* reads the whole blob, changes its own copy and writes it back; nothing  *)
(* locks the store between the read and the write.                         *)
(***************************************************************************)
EXTENDS ProfileStore

CONSTANT Tasks      \* the tasks that call into wifi_profiles.c

VARIABLES
  blob,     \* what the "profiles" key holds, as read_store would answer it
  task      \* task[t]: the call task t is in, and what it holds on its stack

vars == << blob, task >>

Idle == [pc |-> "idle"]

(* A task between two accesses to flash.  "write" holds the store it is    *)
(* about to write, the name it saves or deletes, and which of the two.     *)
TaskState ==
       {Idle}
  \cup [pc : {"import", "save"}, profile : Profile]
  \cup [pc : {"delete"}, index : 1..ProfileMax]
  \cup [pc : {"write"}, op : {"save", "delete"}, ssid : Ssids, store : Store]

Init == /\ blob = EmptyStore
        /\ task = [t \in Tasks |-> Idle]

----------------------------------------------------------------------------
Goto(t, state) == task' = [task EXCEPT ![t] = state]

(* persist_wifi_credentials, from save_wifi_handler or the validator. *)
CallSave(t, profile) ==
  /\ task[t] = Idle
  /\ Goto(t, [pc |-> "save", profile |-> profile])
  /\ UNCHANGED blob

(* profiles_handler: import_current_wifi_config_as_profile, with whatever  *)
(* configuration esp_wifi_get_config returns.                              *)
CallImport(t, profile) ==
  /\ task[t] = Idle
  /\ Goto(t, [pc |-> "import", profile |-> profile])
  /\ UNCHANGED blob

(* profile_delete_handler: an index the form parser accepted, the position *)
(* the client saw in its last copy of the list.                            *)
CallDelete(t, index) ==
  /\ task[t] = Idle
  /\ Goto(t, [pc |-> "delete", index |-> index])
  /\ UNCHANGED blob

(* The import's own look at the list: a known name ends it, another goes   *)
(* through wifi_profiles_save, which reads the store again.                *)
ImportLoad(t) ==
  /\ task[t].pc = "import"
  /\ Goto(t, IF HasSsid(blob, task[t].profile.ssid)
             THEN Idle
             ELSE [pc |-> "save", profile |-> task[t].profile])
  /\ UNCHANGED blob

(* read_store in wifi_profiles_save, and the new order of the copy. *)
SaveRead(t) ==
  /\ task[t].pc = "save"
  /\ Goto(t, [pc    |-> "write", op |-> "save",
              ssid  |-> task[t].profile.ssid,
              store |-> SaveProfile(blob, task[t].profile)])
  /\ UNCHANGED blob

(* read_store in wifi_profiles_delete: ESP_ERR_NOT_FOUND beyond the end. *)
DeleteRead(t) ==
  /\ task[t].pc = "delete"
  /\ Goto(t, IF task[t].index > Len(blob)
             THEN Idle
             ELSE [pc    |-> "write", op |-> "delete",
                   ssid  |-> blob[task[t].index].ssid,
                   store |-> DeleteProfile(blob, task[t].index)])
  /\ UNCHANGED blob

(* read_store failed: the call returns its error. *)
ReadFails(t) ==
  /\ task[t].pc \in {"import", "save", "delete"}
  /\ Goto(t, Idle)
  /\ UNCHANGED blob

(* write_store: nvs_set_blob replaces the blob as a whole. *)
Write(t) ==
  /\ task[t].pc = "write"
  /\ blob' = task[t].store
  /\ Goto(t, Idle)

(* write_store failed before the blob changed. *)
WriteFails(t) ==
  /\ task[t].pc = "write"
  /\ Goto(t, Idle)
  /\ UNCHANGED blob

(* A reset, by esp_restart or power loss: only flash survives. *)
Restart ==
  /\ task' = [t \in Tasks |-> Idle]
  /\ UNCHANGED blob

Next ==
  \/ \E t \in Tasks :
       \/ \E p \in Profile : CallSave(t, p) \/ CallImport(t, p)
       \/ \E i \in 1..ProfileMax : CallDelete(t, i)
       \/ ImportLoad(t) \/ SaveRead(t) \/ DeleteRead(t) \/ ReadFails(t)
       \/ Write(t) \/ WriteFails(t)
  \/ Restart

Spec == Init /\ [][Next]_vars

----------------------------------------------------------------------------
(* The blob is always one that store_is_valid accepts, and every task's    *)
(* copy of it is.                                                          *)
TypeOK == /\ blob \in Store
          /\ task \in [Tasks -> TaskState]

(* A network has at most one saved profile, so connecting "to the profile  *)
(* of X" and deleting it are unambiguous: in flash, and in every copy that *)
(* a task still has to write back, however stale.                          *)
OneProfilePerNetwork ==
  /\ UniqueSsids(blob)
  /\ \A t \in Tasks : task[t].pc = "write" => UniqueSsids(task[t].store)

LostNames(before, after) ==
  {s \in Ssids : HasSsid(before, s) /\ ~HasSsid(after, s)}

(* A write takes away only what it was asked to: a deletion the one network *)
(* it found at its index, a save nothing but the oldest profile of a full  *)
(* store.  It holds while one task at a time is inside wifi_profiles.c and *)
(* not when the validation task saves while the server task saves or       *)
(* deletes: whoever writes last undoes what the other one wrote.           *)
OnlyTheRequestedGoes ==
  [][\A t \in Tasks :
       task[t].pc = "write" /\ blob' # blob =>
         \A s \in LostNames(blob, blob') :
           IF task[t].op = "delete"
           THEN s = task[t].ssid
           ELSE Len(blob) = ProfileMax /\ s = blob[ProfileMax].ssid]_vars

(* The store is the atomic list of ProfileList. *)
List == INSTANCE ProfileList WITH list <- blob, Profiles <- Profile,
                                  ListMax <- ProfileMax

(* Every change of the blob, crashes and write errors included, is one     *)
(* whole save or deletion of the list in flash at that moment.             *)
ImplementsProfileList == List!Spec

=============================================================================
