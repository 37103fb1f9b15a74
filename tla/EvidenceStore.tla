----------------------------- MODULE EvidenceStore ----------------------------
(***************************************************************************)
(* What the Genesis commands promise of the evidence while runs do not     *)
(* overlap: a store that holds what one finished run published, or         *)
(* nothing.  A run publishes once and as a whole; what has been withdrawn  *)
(* does not come back; a verification accepts at most what the store held  *)
(* when it began.                                                          *)
(***************************************************************************)
CONSTANTS Runs, NoRun

VARIABLES
    published,  \* the run whose evidence is in the store
    finished,   \* the runs that have published
    verdict,    \* of the verification
    candidate,  \* what the store held when the verification began
    accepted    \* the run whose evidence the verification accepted

storeVars == <<published, finished, verdict, candidate, accepted>>

Init ==
    /\ published = NoRun /\ finished = {}
    /\ verdict = "none" /\ candidate = NoRun /\ accepted = NoRun

Publish(r) ==
    /\ published = NoRun /\ r \notin finished
    /\ published' = r /\ finished' = finished \cup {r}
    /\ UNCHANGED <<verdict, candidate, accepted>>

Withdraw ==
    /\ published # NoRun /\ published' = NoRun
    /\ UNCHANGED <<finished, verdict, candidate, accepted>>

\* There may be nothing to begin with.
Begin ==
    /\ verdict = "none" /\ verdict' \in {"checking", "fail"}
    /\ candidate' = published
    /\ UNCHANGED <<published, finished, accepted>>

Accept ==
    /\ verdict = "checking" /\ candidate # NoRun
    /\ verdict' = "pass" /\ accepted' = candidate
    /\ UNCHANGED <<published, finished, candidate>>

Refuse ==
    /\ verdict = "checking" /\ verdict' = "fail"
    /\ UNCHANGED <<published, finished, candidate, accepted>>

Next == (\E r \in Runs : Publish(r)) \/ Withdraw \/ Begin \/ Accept \/ Refuse

Spec == Init /\ [][Next]_storeVars

=============================================================================
