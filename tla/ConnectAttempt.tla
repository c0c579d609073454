--------------------------- MODULE ConnectAttempt ----------------------------
(***************************************************************************)
(* What GET /api/wifi/connection promises its poller: attempts are         *)
(* numbered, a new one replaces the last, one that runs may get an address *)
(* and is decided once.  Only an attempt that has an address succeeds, and *)
(* only one that succeeded announces the restart into bridge mode.         *)
(* WifiConnect implements it, whatever its tasks do.                       *)
(***************************************************************************)
EXTENDS Naturals

VARIABLES seq, state, gotIp, bridgePending

attemptVars == << seq, state, gotIp, bridgePending >>

Init == seq = 0 /\ state = "IDLE" /\ gotIp = FALSE /\ bridgePending = FALSE

(* A new attempt runs, or is turned down at once. *)
New == /\ seq' = seq + 1
       /\ state' \in {"RUNNING", "FAILED"}
       /\ gotIp' = FALSE
       /\ bridgePending' = FALSE

Address == /\ state = "RUNNING"
           /\ gotIp' = TRUE
           /\ UNCHANGED << seq, state, bridgePending >>

Succeed == /\ state = "RUNNING"
           /\ gotIp
           /\ state' = "SUCCEEDED"
           /\ bridgePending' \in BOOLEAN
           /\ UNCHANGED << seq, gotIp >>

Fail == /\ state = "RUNNING"
        /\ state' = "FAILED"
        /\ gotIp' = FALSE
        /\ bridgePending' = FALSE
        /\ UNCHANGED seq

Next == New \/ Address \/ Succeed \/ Fail

Spec == Init /\ [][Next]_attemptVars

=============================================================================
