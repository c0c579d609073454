---------------------------- MODULE ProfileList -----------------------------
(***************************************************************************)
(* What the saved profiles promise their user: one list without            *)
(* duplicates, most recent first, that whole saves and deletions change    *)
(* one at a time, whatever power loss or write error comes between.        *)
(* WifiProfiles implements it as long as one task at a time rewrites the   *)
(* store.                                                                  *)
(***************************************************************************)
EXTENDS Naturals, Sequences

CONSTANTS Profiles, ListMax

VARIABLE list

(* after is what stands at the kept positions of before, in their order.  *)
Picks(after, before, kept) ==
  \E from \in [1..Len(after) -> kept] :
    /\ \A i, j \in 1..Len(after) : i < j => from[i] < from[j]
    /\ \A k \in kept : \E i \in 1..Len(after) : from[i] = k
    /\ \A i \in 1..Len(after) : after[i] = before[from[i]]

(* The other networks stay when p is the most recent one, but a new        *)
(* network pushes the oldest one off a full list.                          *)
Others(p) ==
  {i \in 1..Len(list) :
     /\ list[i].ssid # p.ssid
     /\ i < ListMax \/ \E j \in 1..Len(list) : list[j].ssid = p.ssid}

Init == list = << >>

Remember(p) ==
  /\ list' \in Seq(Profiles) \ {<< >>}
  /\ Head(list') = p
  /\ Picks(Tail(list'), list, Others(p))

Forget(q) ==
  /\ list' \in Seq(Profiles)
  /\ Picks(list', list, {i \in 1..Len(list) : list[i] # q})

Next == \/ \E p \in Profiles : Remember(p)
        \/ \E i \in 1..Len(list) : Forget(list[i])

Spec == Init /\ [][Next]_list

=============================================================================
