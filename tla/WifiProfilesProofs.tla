------------------------- MODULE WifiProfilesProofs --------------------------
(***************************************************************************)
(* Proofs about the profile store, for any number of networks, passwords,  *)
(* slots and tasks: what a save and a deletion make of a list, and that    *)
(* the flash blob stays well-formed whatever the tasks interleave.         *)
(***************************************************************************)
EXTENDS WifiProfiles, TLAPS

(* The strcmp loop finds the name where it is. *)
LEMMA IndexOfFound ==
  ASSUME NEW store \in Store, UniqueSsids(store), NEW ssid, HasSsid(store, ssid)
  PROVE  IndexOf(store, ssid) \in 1..Len(store) /\ store[IndexOf(store, ssid)].ssid = ssid
<1>1. PICK i \in 1..Len(store) : store[i].ssid = ssid
  BY DEF HasSsid
<1>2. \A j \in 1..(i - 1) : store[j].ssid # ssid
  BY <1>1 DEF UniqueSsids, Store
<1> QED BY <1>1, <1>2 DEF IndexOf

(* The freed slot is one of the new list, and nothing but the profile's    *)
(* own name is pushed out of a list that has it.                           *)
LEMMA FreedSlotBounds ==
  ASSUME NEW store \in Store, UniqueSsids(store), NEW ssid
  PROVE  /\ Len(store) \in Nat
         /\ SavedLen(store, ssid) \in 1..ProfileMax
         /\ FreedSlot(store, ssid) \in 1..SavedLen(store, ssid)
         /\ SavedLen(store, ssid) \in {Len(store), Len(store) + 1}
         /\ SavedLen(store, ssid) = Len(store) + 1 => FreedSlot(store, ssid) = Len(store) + 1
         /\ HasSsid(store, ssid) => store[FreedSlot(store, ssid)].ssid = ssid
         /\ ~HasSsid(store, ssid) => FreedSlot(store, ssid) = SavedLen(store, ssid)
<1>1. Len(store) \in Nat /\ Len(store) <= ProfileMax
  BY DEF Store
<1>2. CASE HasSsid(store, ssid)
  <2>1. IndexOf(store, ssid) \in 1..Len(store) /\ store[IndexOf(store, ssid)].ssid = ssid
    BY <1>2, IndexOfFound
  <2> QED BY <1>1, <1>2, <2>1, ProfileMaxAssumption DEF FreedSlot, SavedLen
<1>3. CASE ~HasSsid(store, ssid)
  BY <1>1, <1>3, ProfileMaxAssumption DEF FreedSlot, SavedLen
<1> QED BY <1>2, <1>3

(* wifi_profiles_save keeps the list within WIFI_PROFILE_MAX entries, each *)
(* network on it once, and puts the saved profile first.                   *)
LEMMA SaveProfileCorrect ==
  ASSUME NEW store \in Store, UniqueSsids(store), NEW profile \in Profile
  PROVE  /\ SaveProfile(store, profile) \in Store
         /\ UniqueSsids(SaveProfile(store, profile))
         /\ SaveProfile(store, profile)[1] = profile
<1> DEFINE n == SavedLen(store, profile.ssid)
           k == FreedSlot(store, profile.ssid)
           new == SaveProfile(store, profile)
<1>1. /\ Len(store) \in Nat /\ n \in 1..ProfileMax /\ k \in 1..n
      /\ n \in {Len(store), Len(store) + 1}
      /\ n = Len(store) + 1 => k = n
      /\ HasSsid(store, profile.ssid) => store[k].ssid = profile.ssid
      /\ ~HasSsid(store, profile.ssid) => k = n
  BY FreedSlotBounds
<1>2. \A i \in 1..Len(store) : store[i] \in Profile
  BY DEF Store
<1>3. new = [i \in 1..n |-> IF i = 1 THEN profile
                            ELSE IF i <= k THEN store[i - 1] ELSE store[i]]
  BY DEF SaveProfile
<1> HIDE DEF n, k, new
<1> DEFINE from(i) == IF i <= k THEN i - 1 ELSE i
<1>4. /\ new[1] = profile
      /\ \A i \in 2..n : from(i) \in 1..Len(store) /\ from(i) # k /\ new[i] = store[from(i)]
      /\ \A i, j \in 2..n : from(i) = from(j) => i = j
  BY <1>1, <1>3, ProfileMaxAssumption
<1> HIDE DEF from
<1>5. new \in Store
  <2>1. \A i \in 1..n : new[i] \in Profile
    BY <1>1, <1>2, <1>4, ProfileMaxAssumption
  <2>2. n \in Nat /\ new = [i \in 1..n |-> new[i]]
    BY <1>1, <1>3, ProfileMaxAssumption
  <2>3. new \in Seq(Profile) /\ Len(new) = n
    BY <2>1, <2>2
  <2> QED BY <1>1, <2>3, ProfileMaxAssumption DEF Store
<1>6. UniqueSsids(new)
  <2>1. Len(new) = n
    BY <1>1, <1>3, ProfileMaxAssumption
  <2>2. \A i \in 2..n : new[i].ssid # profile.ssid
    <3>1. CASE HasSsid(store, profile.ssid)
      <4>1. k \in 1..Len(store) /\ store[k].ssid = profile.ssid
        BY <3>1, <1>1, ProfileMaxAssumption DEF SavedLen, n
      <4> QED BY <4>1, <1>4 DEF UniqueSsids
    <3>2. CASE ~HasSsid(store, profile.ssid)
      BY <3>2, <1>1, <1>4, ProfileMaxAssumption DEF HasSsid
    <3> QED BY <3>1, <3>2
  <2>3. \A i, j \in 2..n : new[i].ssid = new[j].ssid => i = j
    BY <1>1, <1>4, ProfileMaxAssumption DEF UniqueSsids
  <2>4. 1..n = {1} \cup (2..n)
    BY <1>1
  <2>5. \A i, j \in 1..n : new[i].ssid = new[j].ssid => i = j
    BY <1>4, <2>2, <2>3, <2>4
  <2> QED BY <2>1, <2>5 DEF UniqueSsids
<1> QED BY <1>4, <1>5, <1>6 DEF new

(* wifi_profiles_delete removes exactly the profile at the index: the list *)
(* stays well-formed and the name is gone.                                 *)
LEMMA DeleteProfileCorrect ==
  ASSUME NEW store \in Store, UniqueSsids(store), NEW index \in 1..Len(store)
  PROVE  /\ DeleteProfile(store, index) \in Store
         /\ UniqueSsids(DeleteProfile(store, index))
         /\ ~HasSsid(DeleteProfile(store, index), store[index].ssid)
<1> DEFINE n == Len(store) - 1
           new == DeleteProfile(store, index)
<1>1. n \in Nat /\ Len(store) \in Nat /\ n < ProfileMax
  BY ProfileMaxAssumption DEF Store
<1>2. \A i \in 1..Len(store) : store[i] \in Profile
  BY DEF Store
<1>3. new = [i \in 1..n |-> IF i < index THEN store[i] ELSE store[i + 1]]
  BY DEF DeleteProfile
<1>4. Len(store) = n + 1
  BY <1>1
<1> HIDE DEF n, new
<1>5. \A i \in 1..n : new[i] = IF i < index THEN store[i] ELSE store[i + 1]
  BY <1>3
<1>6. new \in Seq(Profile) /\ Len(new) = n
  <2>1. \A i \in 1..n : new[i] \in Profile
    BY <1>1, <1>2, <1>4, <1>5
  <2>2. new = [i \in 1..n |-> new[i]]
    BY <1>3
  <2> QED BY <1>1, <2>1, <2>2
<1>7. new \in Store
  BY <1>1, <1>6, ProfileMaxAssumption DEF Store
<1>8. UniqueSsids(new)
  BY <1>1, <1>4, <1>5, <1>6 DEF UniqueSsids
<1>9. ~HasSsid(new, store[index].ssid)
  BY <1>1, <1>4, <1>5, <1>6 DEF UniqueSsids, HasSsid
<1> QED BY <1>7, <1>8, <1>9 DEF new

----------------------------------------------------------------------------
IInv == TypeOK /\ OneProfilePerNetwork

(* The blob in flash and every copy that a task still has to write are     *)
(* well-formed lists with one profile per network, for any number of tasks *)
(* that read, change and write them without a lock, across write errors    *)
(* and restarts.                                                           *)
THEOREM StoreIntact == Spec => [](TypeOK /\ OneProfilePerNetwork)
<1>1. Init => IInv
  <2>1. EmptyStore \in Store /\ UniqueSsids(EmptyStore)
    BY ProfileMaxAssumption DEF EmptyStore, Store, UniqueSsids
  <2> QED BY <2>1 DEF Init, IInv, TypeOK, OneProfilePerNetwork, Idle, TaskState
<1>2. IInv /\ [Next]_vars => IInv'
  <2> SUFFICES ASSUME IInv, [Next]_vars PROVE IInv'
    OBVIOUS
  <2>a. /\ blob \in Store /\ UniqueSsids(blob)
        /\ task \in [Tasks -> TaskState]
        /\ \A t \in Tasks : task[t].pc = "write" => UniqueSsids(task[t].store)
    BY DEF IInv, TypeOK, OneProfilePerNetwork
  <2>b. ASSUME NEW t \in Tasks, NEW state \in TaskState, Goto(t, state), UNCHANGED blob,
               state.pc = "write" => UniqueSsids(state.store)
        PROVE  IInv'
    BY <2>a, <2>b DEF Goto, IInv, TypeOK, OneProfilePerNetwork
  <2>c. Idle \in TaskState /\ Idle.pc = "idle"
    BY DEF Idle, TaskState
  <2>1. ASSUME NEW t \in Tasks, NEW p \in Profile, CallSave(t, p) \/ CallImport(t, p)
        PROVE  IInv'
    <3>1. PICK pc \in {"save", "import"} : Goto(t, [pc |-> pc, profile |-> p])
      BY <2>1 DEF CallSave, CallImport
    <3> QED BY <2>1, <2>b, <3>1 DEF CallSave, CallImport, TaskState
  <2>2. ASSUME NEW t \in Tasks, NEW i \in 1..ProfileMax, CallDelete(t, i) PROVE IInv'
    BY <2>2, <2>b DEF CallDelete, TaskState
  <2>3. ASSUME NEW t \in Tasks, ImportLoad(t) PROVE IInv'
    <3>1. task[t].profile \in Profile
      BY <2>3, <2>a DEF ImportLoad, TaskState, Idle
    <3> QED BY <2>3, <2>b, <2>c, <3>1 DEF ImportLoad, TaskState
  <2>4. ASSUME NEW t \in Tasks, SaveRead(t) PROVE IInv'
    <3>1. task[t].profile \in Profile
      BY <2>4, <2>a DEF SaveRead, TaskState, Idle
    <3>2. /\ SaveProfile(blob, task[t].profile) \in Store
          /\ UniqueSsids(SaveProfile(blob, task[t].profile))
      BY <2>a, <3>1, SaveProfileCorrect
    <3>3. task[t].profile.ssid \in Ssids
      BY <3>1 DEF Profile
    <3> QED BY <2>4, <2>b, <3>2, <3>3 DEF SaveRead, TaskState
  <2>5. ASSUME NEW t \in Tasks, DeleteRead(t) PROVE IInv'
    <3>1. task[t].index \in 1..ProfileMax
      BY <2>5, <2>a DEF DeleteRead, TaskState, Idle
    <3>2. CASE task[t].index > Len(blob)
      BY <2>5, <2>b, <2>c, <3>2 DEF DeleteRead
    <3>3. CASE ~(task[t].index > Len(blob))
      <4>1. task[t].index \in 1..Len(blob) /\ blob[task[t].index].ssid \in Ssids
        <5>1. blob \in Seq(Profile) /\ Len(blob) \in Nat
          BY <2>a DEF Store
        <5>2. task[t].index \in 1..Len(blob)
          BY <3>1, <3>3, <5>1, ProfileMaxAssumption
        <5>3. \A i \in 1..Len(blob) : blob[i] \in Profile
          BY <5>1
        <5>4. blob[task[t].index] \in Profile
          BY <5>2, <5>3
        <5> QED BY <5>2, <5>4 DEF Profile
      <4>2. /\ DeleteProfile(blob, task[t].index) \in Store
            /\ UniqueSsids(DeleteProfile(blob, task[t].index))
        BY <2>a, <4>1, DeleteProfileCorrect
      <4> QED BY <2>5, <2>b, <3>3, <4>1, <4>2 DEF DeleteRead, TaskState
    <3> QED BY <3>2, <3>3
  <2>6. ASSUME NEW t \in Tasks, ReadFails(t) \/ WriteFails(t) PROVE IInv'
    BY <2>6, <2>b, <2>c DEF ReadFails, WriteFails
  <2>7. ASSUME NEW t \in Tasks, Write(t) PROVE IInv'
    <3>1. task[t].store \in Store /\ UniqueSsids(task[t].store)
      BY <2>7, <2>a DEF Write, TaskState, Idle
    <3> QED BY <2>7, <2>a, <2>c, <3>1 DEF Write, Goto, IInv, TypeOK, OneProfilePerNetwork
  <2>8. CASE Restart \/ UNCHANGED vars
    BY <2>8, <2>a, <2>c DEF Restart, vars, IInv, TypeOK, OneProfilePerNetwork
  <2> QED BY <2>1, <2>2, <2>3, <2>4, <2>5, <2>6, <2>7, <2>8 DEF Next
<1> QED BY <1>1, <1>2, PTL DEF Spec, IInv

(* Type correctness: the blob stays within PROFILE_MAX entries of known     *)
(* networks, and so does every list that a task is about to write.         *)
THEOREM TypeCorrect == Spec => []TypeOK
<1>1. TypeOK /\ OneProfilePerNetwork => TypeOK
  OBVIOUS
<1> QED BY <1>1, StoreIntact, PTL

----------------------------------------------------------------------------
(* One task at a time: what a task is about to write is what the list in   *)
(* flash becomes by one whole save or deletion.                            *)
OneCaller == \A t, u \in Tasks : t = u

SaveIsFresh(t) ==
  task[t].op = "save" =>
    \E p \in Profile : p.ssid = task[t].ssid /\ task[t].store = SaveProfile(blob, p)

DeleteIsFresh(t) ==
  task[t].op = "delete" =>
    \E i \in 1..Len(blob) : /\ blob[i].ssid = task[t].ssid
                            /\ task[t].store = DeleteProfile(blob, i)

CopyIsFresh == \A t \in Tasks : task[t].pc = "write" => SaveIsFresh(t) /\ DeleteIsFresh(t)

(* The list before and after a save, position by position.                 *)
LEMMA SaveByPosition ==
  ASSUME NEW store \in Store, UniqueSsids(store), NEW p \in Profile
  PROVE  LET n == SavedLen(store, p.ssid)
             k == FreedSlot(store, p.ssid)
             new == SaveProfile(store, p)
         IN  /\ n \in Nat \ {0} /\ Len(store) \in {n - 1, n} /\ k \in 1..n
             /\ Len(store) = n - 1 => k = n
             /\ new \in Seq(Profile) /\ Len(new) = n /\ new[1] = p
             /\ \A i \in 2..n : new[i] = IF i <= k THEN store[i - 1] ELSE store[i]
             /\ \A i \in 1..Len(store) : store[i].ssid = p.ssid => i = k
             /\ HasSsid(store, p.ssid) => k <= Len(store) /\ store[k].ssid = p.ssid
             /\ ~HasSsid(store, p.ssid) /\ Len(store) = n => k = n /\ n = ProfileMax
             /\ ~HasSsid(store, p.ssid) /\ Len(store) = n - 1 => k = n /\ n <= ProfileMax
<1> DEFINE n == SavedLen(store, p.ssid)
           k == FreedSlot(store, p.ssid)
           new == SaveProfile(store, p)
<1>1. /\ Len(store) \in Nat /\ n \in 1..ProfileMax /\ k \in 1..n
      /\ n \in {Len(store), Len(store) + 1}
      /\ n = Len(store) + 1 => k = Len(store) + 1
      /\ HasSsid(store, p.ssid) => store[k].ssid = p.ssid
      /\ ~HasSsid(store, p.ssid) => k = n
  BY FreedSlotBounds
<1>2. new = [i \in 1..n |-> IF i = 1 THEN p ELSE IF i <= k THEN store[i - 1] ELSE store[i]]
  BY DEF SaveProfile
<1>3. new \in Seq(Profile) /\ new[1] = p
  BY SaveProfileCorrect DEF Store
<1>4. HasSsid(store, p.ssid) => n = Len(store)
  BY DEF SavedLen
<1>5. ~HasSsid(store, p.ssid) /\ Len(store) = n => n = ProfileMax
  BY <1>1, ProfileMaxAssumption DEF SavedLen
<1>6. \A i \in 1..Len(store) : store[i].ssid = p.ssid => HasSsid(store, p.ssid)
  BY DEF HasSsid
<1>7. \A i, j \in 1..Len(store) : store[i].ssid = store[j].ssid => i = j
  BY DEF UniqueSsids
<1> HIDE DEF n, k, new
<1>8. Len(new) = n
  BY <1>1, <1>2, ProfileMaxAssumption
<1>9. \A i \in 2..n : new[i] = IF i <= k THEN store[i - 1] ELSE store[i]
  BY <1>1, <1>2, ProfileMaxAssumption
<1>10. HasSsid(store, p.ssid) => k \in 1..Len(store)
  BY <1>1, <1>4, ProfileMaxAssumption
<1>11. \A i \in 1..Len(store) : store[i].ssid = p.ssid => i = k
  BY <1>1, <1>6, <1>7, <1>10
<1> QED BY <1>1, <1>3, <1>4, <1>5, <1>8, <1>9, <1>10, <1>11, ProfileMaxAssumption DEF n, k, new

(* A deletion loses the name at its index, and a save no name but that of  *)
(* the oldest profile of a full list.                                      *)
LEMMA SaveLoses ==
  ASSUME NEW store \in Store, UniqueSsids(store), NEW p \in Profile,
         NEW s \in LostNames(store, SaveProfile(store, p))
  PROVE  Len(store) = ProfileMax /\ s = store[ProfileMax].ssid
<1> DEFINE n == SavedLen(store, p.ssid)
           k == FreedSlot(store, p.ssid)
           new == SaveProfile(store, p)
<1>1. /\ n \in Nat \ {0} /\ Len(store) \in {n - 1, n} /\ k \in 1..n
      /\ Len(store) = n - 1 => k = n
      /\ Len(new) = n /\ new[1] = p
      /\ \A i \in 2..n : new[i] = IF i <= k THEN store[i - 1] ELSE store[i]
      /\ HasSsid(store, p.ssid) => k <= Len(store) /\ store[k].ssid = p.ssid
      /\ ~HasSsid(store, p.ssid) /\ Len(store) = n => k = n /\ n = ProfileMax
      /\ ~HasSsid(store, p.ssid) /\ Len(store) = n - 1 => k = n
  BY SaveByPosition
<1>2. PICK i \in 1..Len(store) : store[i].ssid = s
  BY DEF LostNames, HasSsid
<1>3. \A j \in 1..Len(new) : new[j].ssid # s
  BY DEF LostNames, HasSsid
<1> HIDE DEF n, k, new
<1>4. i = k
  <2>1. i < k => i + 1 \in 2..n /\ new[i + 1] = store[i]
    BY <1>1
  <2>2. i > k => i \in 2..n /\ new[i] = store[i]
    BY <1>1
  <2> QED BY <1>1, <1>2, <1>3, <2>1, <2>2
<1>5. ~HasSsid(store, p.ssid)
  BY <1>1, <1>2, <1>3, <1>4
<1> QED BY <1>1, <1>2, <1>4, <1>5

LEMMA DeleteLoses ==
  ASSUME NEW store \in Store, NEW index \in 1..Len(store),
         NEW s \in LostNames(store, DeleteProfile(store, index))
  PROVE  s = store[index].ssid
<1> DEFINE new == DeleteProfile(store, index)
<1>1. Len(store) \in Nat
  BY DEF Store
<1>2. /\ new = [i \in 1..(Len(store) - 1) |-> IF i < index THEN store[i] ELSE store[i + 1]]
      /\ Len(new) = Len(store) - 1
  BY <1>1 DEF DeleteProfile
<1>3. PICK i \in 1..Len(store) : store[i].ssid = s
  BY DEF LostNames, HasSsid
<1>4. \A j \in 1..Len(new) : new[j].ssid # s
  BY DEF LostNames, HasSsid
<1> HIDE DEF new
<1>5. i < index => i \in 1..Len(new) /\ new[i] = store[i]
  BY <1>1, <1>2
<1>6. i > index => i - 1 \in 1..Len(new) /\ new[i - 1] = store[i]
  BY <1>1, <1>2
<1> QED BY <1>3, <1>4, <1>5, <1>6, <1>1

(* A save is one that ProfileList allows, and so is a deletion.            *)
LEMMA SaveIsRemember ==
  ASSUME blob \in Store, UniqueSsids(blob), NEW p \in Profile, blob' = SaveProfile(blob, p)
  PROVE  List!Remember(p)
<1> DEFINE n == SavedLen(blob, p.ssid)
           k == FreedSlot(blob, p.ssid)
           new == SaveProfile(blob, p)
<1>1. /\ n \in Nat \ {0} /\ Len(blob) \in {n - 1, n} /\ k \in 1..n
      /\ Len(blob) = n - 1 => k = n
      /\ new \in Seq(Profile) /\ Len(new) = n /\ new[1] = p
      /\ \A i \in 2..n : new[i] = IF i <= k THEN blob[i - 1] ELSE blob[i]
      /\ \A i \in 1..Len(blob) : blob[i].ssid = p.ssid => i = k
      /\ HasSsid(blob, p.ssid) => k <= Len(blob) /\ blob[k].ssid = p.ssid
      /\ ~HasSsid(blob, p.ssid) /\ Len(blob) = n => k = n /\ n = ProfileMax
      /\ ~HasSsid(blob, p.ssid) /\ Len(blob) = n - 1 => k = n /\ n <= ProfileMax
  BY SaveByPosition
<1>2. HasSsid(blob, p.ssid) <=> \E j \in 1..Len(blob) : blob[j].ssid = p.ssid
  BY DEF HasSsid
<1> HIDE DEF n, k, new
<1>3. new = blob' /\ new # << >> /\ Head(new) = p
  BY <1>1 DEF new
<1>4. /\ Tail(new) \in Seq(Profile) /\ Len(Tail(new)) = n - 1
      /\ \A i \in 1..(n - 1) : Tail(new)[i] = new[i + 1]
  BY <1>1, <1>3
<1>5. List!Others(p) = (1..Len(blob)) \ {k}
  <2>1. ASSUME NEW i \in 1..Len(blob), i # k, ~HasSsid(blob, p.ssid) PROVE i < ProfileMax
    BY <1>1, <2>1, ProfileMaxAssumption
  <2>2. ASSUME NEW i \in 1..Len(blob), i \in List!Others(p) PROVE i # k
    BY <1>1, <1>2, <2>2 DEF List!Others
  <2> QED BY <1>1, <1>2, <2>1, <2>2 DEF List!Others
<1> DEFINE from == [i \in 1..(n - 1) |-> IF i < k THEN i ELSE i + 1]
<1>6. from \in [1..(n - 1) -> (1..Len(blob)) \ {k}]
  BY <1>1
<1>7. \A i, j \in 1..(n - 1) : i < j => from[i] < from[j]
  BY <1>1
<1>8. \A l \in (1..Len(blob)) \ {k} : \E i \in 1..(n - 1) : from[i] = l
  <2> SUFFICES ASSUME NEW l \in (1..Len(blob)) \ {k} PROVE \E i \in 1..(n - 1) : from[i] = l
    OBVIOUS
  <2>1. CASE l < k
    BY <1>1, <2>1
  <2>2. CASE l > k
    <3>1. l - 1 \in 1..(n - 1) /\ from[l - 1] = l
      BY <1>1, <2>2
    <3> QED BY <3>1
  <2> QED BY <1>1, <2>1, <2>2
<1>9. \A i \in 1..(n - 1) : Tail(new)[i] = blob[from[i]]
  BY <1>1, <1>4
<1> HIDE DEF from
<1>10. List!Picks(Tail(new), blob, List!Others(p))
  <2> DEFINE kept == (1..Len(blob)) \ {k}
             m == Len(Tail(new))
  <2>1. /\ from \in [1..m -> kept]
        /\ \A i, j \in 1..m : i < j => from[i] < from[j]
        /\ \A l \in kept : \E i \in 1..m : from[i] = l
        /\ \A i \in 1..m : Tail(new)[i] = blob[from[i]]
    BY <1>4, <1>6, <1>7, <1>8, <1>9
  <2> HIDE DEF kept
  <2>2. List!Picks(Tail(new), blob, kept)
    BY <2>1 DEF List!Picks
  <2> QED BY <1>5, <2>2 DEF kept
<1> QED BY <1>1, <1>3, <1>10 DEF List!Remember

LEMMA DeleteIsForget ==
  ASSUME blob \in Store, UniqueSsids(blob), NEW index \in 1..Len(blob),
         blob' = DeleteProfile(blob, index)
  PROVE  List!Forget(blob[index])
<1> DEFINE n == Len(blob) - 1
<1>1. Len(blob) \in Nat /\ n \in Nat
  BY DEF Store
<1>2. /\ blob' \in Seq(Profile)
      /\ blob' = [i \in 1..n |-> IF i < index THEN blob[i] ELSE blob[i + 1]]
  BY DeleteProfileCorrect DEF Store, DeleteProfile
<1>3. Len(blob') = n
  BY <1>1, <1>2
<1>4. {i \in 1..Len(blob) : blob[i] # blob[index]} = (1..Len(blob)) \ {index}
  BY DEF UniqueSsids
<1> DEFINE from == [i \in 1..n |-> IF i < index THEN i ELSE i + 1]
<1>5. from \in [1..n -> (1..Len(blob)) \ {index}]
  BY <1>1
<1>6. \A i, j \in 1..n : i < j => from[i] < from[j]
  BY <1>1
<1>7. \A l \in (1..Len(blob)) \ {index} : \E i \in 1..n : from[i] = l
  <2> SUFFICES ASSUME NEW l \in (1..Len(blob)) \ {index} PROVE \E i \in 1..n : from[i] = l
    OBVIOUS
  <2>1. CASE l < index
    <3>1. l \in 1..n /\ from[l] = l
      BY <1>1, <2>1
    <3> QED BY <3>1
  <2>2. CASE l > index
    <3>1. l - 1 \in 1..n /\ from[l - 1] = l
      BY <1>1, <2>2
    <3> QED BY <3>1
  <2> QED BY <1>1, <2>1, <2>2
<1>8. \A i \in 1..n : blob'[i] = blob[from[i]]
  BY <1>1, <1>2
<1> HIDE DEF from
<1>9. List!Picks(blob', blob, (1..Len(blob)) \ {index})
  <2> DEFINE kept == (1..Len(blob)) \ {index}
             m == Len(blob')
  <2>1. /\ from \in [1..m -> kept]
        /\ \A i, j \in 1..m : i < j => from[i] < from[j]
        /\ \A l \in kept : \E i \in 1..m : from[i] = l
        /\ \A i \in 1..m : blob'[i] = blob[from[i]]
    BY <1>3, <1>5, <1>6, <1>7, <1>8
  <2> HIDE DEF kept
  <2>2. List!Picks(blob', blob, kept)
    BY <2>1 DEF List!Picks
  <2> QED BY <2>2 DEF kept
<1> QED BY <1>2, <1>4, <1>9 DEF List!Forget

(* With one caller nothing comes between its read and its write.           *)
LEMMA StaysFresh ==
  ASSUME OneCaller, IInv, CopyIsFresh, [Next]_vars
  PROVE  CopyIsFresh'
<1> USE DEF CopyIsFresh
<1>1. task \in [Tasks -> TaskState] /\ blob \in Store
  BY DEF IInv, TypeOK
<1>2. ASSUME NEW t \in Tasks, NEW state, Goto(t, state), state.pc # "write"
      PROVE  CopyIsFresh'
  BY <1>1, <1>2 DEF OneCaller, Goto
<1>3. ASSUME NEW t \in Tasks, SaveRead(t) PROVE CopyIsFresh'
  <2>1. task[t].profile \in Profile
    BY <1>1, <1>3 DEF SaveRead, TaskState, Idle
  <2>2. /\ task'[t].op = "save" /\ task'[t].ssid = task[t].profile.ssid
        /\ task'[t].store = SaveProfile(blob', task[t].profile)
    BY <1>1, <1>3 DEF SaveRead, Goto
  <2> QED BY <2>1, <2>2 DEF OneCaller, SaveIsFresh, DeleteIsFresh
<1>4. ASSUME NEW t \in Tasks, DeleteRead(t), ~(task[t].index > Len(blob)) PROVE CopyIsFresh'
  <2>1. task[t].index \in 1..Len(blob)
    BY <1>1, <1>4, ProfileMaxAssumption DEF DeleteRead, TaskState, Idle, Store
  <2>2. /\ task'[t].op = "delete" /\ task'[t].ssid = blob'[task[t].index].ssid
        /\ task'[t].store = DeleteProfile(blob', task[t].index) /\ blob' = blob
    BY <1>1, <1>4 DEF DeleteRead, Goto
  <2> QED BY <2>1, <2>2 DEF OneCaller, SaveIsFresh, DeleteIsFresh
<1>5. ASSUME NEW t \in Tasks,
             \/ ReadFails(t) \/ Write(t) \/ WriteFails(t)
             \/ DeleteRead(t) /\ task[t].index > Len(blob)
      PROVE  CopyIsFresh'
  BY <1>2, <1>5 DEF ReadFails, Write, WriteFails, DeleteRead, Idle
<1>6. ASSUME NEW t \in Tasks, NEW p \in Profile, CallSave(t, p) \/ CallImport(t, p)
      PROVE  CopyIsFresh'
  BY <1>2, <1>6 DEF CallSave, CallImport
<1>7. ASSUME NEW t \in Tasks, NEW i \in 1..ProfileMax, CallDelete(t, i) PROVE CopyIsFresh'
  BY <1>2, <1>7 DEF CallDelete
<1>8. ASSUME NEW t \in Tasks, ImportLoad(t) PROVE CopyIsFresh'
  BY <1>2, <1>8 DEF ImportLoad, Idle
<1>9. CASE Restart
  BY <1>9 DEF Restart, Idle
<1>10. CASE UNCHANGED vars
  BY <1>10 DEF vars, SaveIsFresh, DeleteIsFresh
<1> QED BY <1>3, <1>4, <1>5, <1>6, <1>7, <1>8, <1>9, <1>10 DEF Next

LEMMA AlwaysFresh ==
  ASSUME OneCaller
  PROVE  Spec => [](IInv /\ CopyIsFresh)
<1>1. Init => CopyIsFresh
  BY DEF Init, CopyIsFresh, Idle
<1>2. CopyIsFresh /\ IInv /\ [Next]_vars => CopyIsFresh'
  BY StaysFresh
<1> QED BY <1>1, <1>2, StoreIntact, PTL DEF Spec, IInv

(* Only Write changes the blob.                                            *)
LEMMA OnlyWriteChanges ==
  ASSUME [Next]_vars, blob' # blob
  PROVE  \E t \in Tasks : Write(t)
BY DEF Next, vars, CallSave, CallImport, CallDelete, ImportLoad, SaveRead, DeleteRead, ReadFails,
       WriteFails, Restart

(* As long as one task at a time is inside wifi_profiles.c, a write takes  *)
(* nothing but what it was asked to, for any number of networks and slots. *)
THEOREM OnlyTheRequested ==
  ASSUME OneCaller
  PROVE  Spec => OnlyTheRequestedGoes
<1> DEFINE Requested ==
      \A t \in Tasks :
        task[t].pc = "write" /\ blob' # blob =>
          \A s \in LostNames(blob, blob') :
            IF task[t].op = "delete"
            THEN s = task[t].ssid
            ELSE Len(blob) = ProfileMax /\ s = blob[ProfileMax].ssid
<1>1. ASSUME IInv, CopyIsFresh, [Next]_vars PROVE [Requested]_vars
  <2> SUFFICES ASSUME NEW t \in Tasks, task[t].pc = "write", blob' # blob,
                      NEW s \in LostNames(blob, blob')
               PROVE  IF task[t].op = "delete"
                      THEN s = task[t].ssid
                      ELSE Len(blob) = ProfileMax /\ s = blob[ProfileMax].ssid
    OBVIOUS
  <2>1. blob' = task[t].store
    BY <1>1, OnlyWriteChanges DEF OneCaller, Write
  <2>2. blob \in Store /\ UniqueSsids(blob) /\ task[t].op \in {"save", "delete"}
    BY <1>1 DEF IInv, TypeOK, OneProfilePerNetwork, TaskState, Idle
  <2>3. CASE task[t].op = "delete"
    BY <1>1, <2>1, <2>2, <2>3, DeleteLoses DEF CopyIsFresh, DeleteIsFresh
  <2>4. CASE task[t].op = "save"
    BY <1>1, <2>1, <2>2, <2>4, SaveLoses DEF CopyIsFresh, SaveIsFresh
  <2> QED BY <2>2, <2>3, <2>4
<1> QED BY <1>1, AlwaysFresh, PTL DEF Spec, OnlyTheRequestedGoes

(* The blob is the atomic list of ProfileList: each step of the store is   *)
(* one whole save or deletion of it, or leaves it as it was.               *)
THEOREM Refinement ==
  ASSUME OneCaller
  PROVE  Spec => ImplementsProfileList
<1>1. Init => List!Init
  BY DEF Init, List!Init, EmptyStore
<1>2. ASSUME IInv, CopyIsFresh, [Next]_vars PROVE [List!Next]_blob
  <2> SUFFICES ASSUME blob' # blob PROVE List!Next
    OBVIOUS
  <2>1. PICK t \in Tasks : Write(t)
    BY <1>2, OnlyWriteChanges
  <2>2. task[t].pc = "write" /\ blob' = task[t].store
    BY <2>1 DEF Write
  <2>3. blob \in Store /\ UniqueSsids(blob) /\ task[t].op \in {"save", "delete"}
    BY <1>2, <2>2 DEF IInv, TypeOK, OneProfilePerNetwork, TaskState, Idle
  <2>4. CASE task[t].op = "save"
    <3>1. PICK p \in Profile : task[t].store = SaveProfile(blob, p)
      BY <1>2, <2>2, <2>4 DEF CopyIsFresh, SaveIsFresh
    <3>2. List!Remember(p)
      BY <2>2, <2>3, <3>1, SaveIsRemember
    <3> QED BY <3>2 DEF List!Next
  <2>5. CASE task[t].op = "delete"
    <3>1. PICK i \in 1..Len(blob) : task[t].store = DeleteProfile(blob, i)
      BY <1>2, <2>2, <2>5 DEF CopyIsFresh, DeleteIsFresh
    <3>2. List!Forget(blob[i])
      BY <2>2, <2>3, <3>1, DeleteIsForget
    <3> QED BY <3>2 DEF List!Next
  <2> QED BY <2>3, <2>4, <2>5
<1> QED BY <1>1, <1>2, AlwaysFresh, PTL DEF Spec, ImplementsProfileList, List!Spec

=============================================================================
