---------------------------- MODULE ProfileStore ----------------------------
(***************************************************************************)
(* The saved Wi-Fi profiles of wifi_profiles.c as a value: a bounded list, *)
(* most recently saved first, and what wifi_profiles_save and              *)
(* wifi_profiles_delete make of the copy they read.  The flash blob, the   *)
(* tasks that rewrite it and their interleavings are in WifiProfiles.      *)
(***************************************************************************)
EXTENDS Naturals, Sequences

CONSTANTS
  Ssids,        \* network names; the empty name is rejected before the store
  Passwords,    \* passphrases, the empty one of an open network among them
  ProfileMax    \* WIFI_PROFILE_MAX

ASSUME ProfileMaxAssumption == ProfileMax \in Nat \ {0}

(* wifi_profile_t *)
Profile == [ssid : Ssids, password : Passwords]

(* wifi_profile_store_t: `profiles' cut to its first `count' entries. *)
Store == {store \in Seq(Profile) : Len(store) <= ProfileMax}

(* What init_store leaves, and what read_store answers for a missing or an *)
(* invalid blob.                                                           *)
EmptyStore == << >>

HasSsid(store, ssid) == \E i \in 1..Len(store) : store[i].ssid = ssid

UniqueSsids(store) ==
  \A i, j \in 1..Len(store) : store[i].ssid = store[j].ssid => i = j

(* The first index whose profile has this name: the strcmp loop. *)
IndexOf(store, ssid) ==
  CHOOSE i \in 1..Len(store) : /\ store[i].ssid = ssid
                               /\ \A j \in 1..(i - 1) : store[j].ssid # ssid

(* Mutated: a known name is treated as a new one. *)
FreedSlot_IgnoresMatch(store, ssid) ==
  IF Len(store) < ProfileMax THEN Len(store) + 1 ELSE ProfileMax

(* The slot that the new head pushes out: the profile's own old slot, or   *)
(* the first free one, or the last one when the store is full.             *)
FreedSlot(store, ssid) ==
  IF HasSsid(store, ssid) THEN IndexOf(store, ssid)
  ELSE IF Len(store) < ProfileMax THEN Len(store) + 1
  ELSE ProfileMax

(* How many profiles are left. *)
SavedLen(store, ssid) ==
  IF HasSsid(store, ssid) \/ Len(store) = ProfileMax THEN Len(store) ELSE Len(store) + 1

(* Mutated: a full store is not cut. *)
SaveProfile_Unbounded(store, profile) ==
  << profile >> \o SelectSeq(store, LAMBDA q : q.ssid # profile.ssid)

(* Mutated: a known profile is updated where it is. *)
SaveProfile_InPlace(store, profile) ==
  IF HasSsid(store, profile.ssid)
  THEN [store EXCEPT ![IndexOf(store, profile.ssid)] = profile]
  ELSE [i \in 1..SavedLen(store, profile.ssid) |->
          IF i = 1 THEN profile ELSE store[i - 1]]

(* wifi_profiles_save: everything before the freed slot moves down by one, *)
(* the profile becomes the head, the rest stays.                           *)
SaveProfile(store, profile) ==
  [i \in 1..SavedLen(store, profile.ssid) |->
     IF i = 1 THEN profile
     ELSE IF i <= FreedSlot(store, profile.ssid) THEN store[i - 1]
     ELSE store[i]]

(* Mutated: the shift starts one slot late. *)
DeleteProfile_OffByOne(store, index) ==
  [i \in 1..(Len(store) - 1) |-> IF i <= index THEN store[i] ELSE store[i + 1]]

(* wifi_profiles_delete, for an index below count (numbered from 1 here). *)
DeleteProfile(store, index) ==
  [i \in 1..(Len(store) - 1) |-> IF i < index THEN store[i] ELSE store[i + 1]]

=============================================================================
