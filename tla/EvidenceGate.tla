----------------------------- MODULE EvidenceGate -----------------------------
(***************************************************************************)
(* What a caller may rely on of a node: whether it serves, and the digest  *)
(* of the evidence it was last told with, if any.  A node begins or ceases *)
(* to serve only on evidence, except that it may be shut, and shut is for  *)
(* good.                                                                   *)
(***************************************************************************)
CONSTANTS Digests, NoDigest

VARIABLES gate, told

Init == gate = "closed" /\ told = NoDigest

\* An event that changes nothing a caller relies on.
Hear == told' \in Digests \cup {NoDigest} /\ UNCHANGED gate

Open == gate = "closed" /\ gate' = "open" /\ told' \in Digests

Close == gate = "open" /\ gate' = "closed" /\ told' \in Digests

Shut == gate # "shut" /\ gate' = "shut" /\ told' \in Digests \cup {NoDigest}

Spec == Init /\ [][Hear \/ Open \/ Close \/ Shut]_<<gate, told>>

=============================================================================
