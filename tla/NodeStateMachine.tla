---------------------------- MODULE NodeStateMachine --------------------------
(***************************************************************************)
(* mesh/state_machine.cpp: the local state reducer of a node.  apply takes *)
(* an event, with or without the digest of the evidence for it, and        *)
(* returns the transition it made or refused to make.                      *)
(***************************************************************************)
EXTENDS Integers

CONSTANTS
    Digests,   \* SHA-256 values an event may carry
    NoDigest,  \* the empty optional
    MaxEvents  \* bound on the events applied, for TLC

ASSUME EventAssumption ==
    /\ NoDigest \notin Digests
    /\ MaxEvents \in Nat

NodeState == {"created", "syncing", "ready", "validating", "quarantined", "stopped"}

EventType == {"start_sync", "sync_completed", "begin_validation", "validation_accepted",
              "validation_rejected", "fault_observed", "reset", "shutdown"}

Event == [type : EventType, evidence : Digests \cup {NoDigest}]

Transition ==
    [sequence : Nat, event : EventType, evidence : Digests \cup {NoDigest},
     from : NodeState, to : NodeState, accepted : BOOLEAN]

\* Fault: a sync may be completed on no evidence.
RequiresEvidenceLater(type) ==
    type \in {"validation_accepted", "validation_rejected", "fault_observed"}

RequiresEvidence(type) ==
    type \in {"sync_completed", "validation_accepted", "validation_rejected",
              "fault_observed"}

\* Fault: a reset takes a quarantined node straight back to serving.
MovesToReady ==
    { <<"created", "start_sync", "syncing">>,
      <<"syncing", "sync_completed", "ready">>,
      <<"ready", "begin_validation", "validating">>,
      <<"validating", "validation_accepted", "ready">>,
      <<"validating", "validation_rejected", "quarantined">>,
      <<"quarantined", "reset", "ready">> }

\* The switch over the states that are not stopped: <<state, event, next state>>.
Moves ==
    { <<"created", "start_sync", "syncing">>,
      <<"syncing", "sync_completed", "ready">>,
      <<"ready", "begin_validation", "validating">>,
      <<"validating", "validation_accepted", "ready">>,
      <<"validating", "validation_rejected", "quarantined">>,
      <<"quarantined", "reset", "syncing">> }

\* The states an event takes a node to; none if it is rejected.
Targets(s, event) ==
    IF \/ RequiresEvidence(event.type) /\ event.evidence = NoDigest
       \/ s = "stopped"
    THEN {}
    ELSE CASE event.type = "shutdown" -> {"stopped"}
           [] event.type = "fault_observed" -> {"quarantined"}
           [] OTHER -> {to \in NodeState : <<s, event.type, to>> \in Moves}

VARIABLES
    state,
    processed_events,
    returned  \* the transition the last apply returned

vars == <<state, processed_events, returned>>

NoTransition ==
    [sequence |-> 0, event |-> "shutdown", evidence |-> NoDigest,
     from |-> "created", to |-> "created", accepted |-> FALSE]

\* The state, the counter and the transition are of the types of the header.
TypeOK ==
    /\ state \in NodeState
    /\ processed_events \in Nat
    /\ returned \in Transition

Init == state = "created" /\ processed_events = 0 /\ returned = NoTransition

\* Fault: the transition is described after the state has changed.
ReturnedLate(event, to, accepted) ==
    [sequence |-> processed_events', event |-> event.type, evidence |-> event.evidence,
     from |-> state', to |-> to, accepted |-> accepted]

Returned(event, to, accepted) ==
    [sequence |-> processed_events', event |-> event.type, evidence |-> event.evidence,
     from |-> state, to |-> to, accepted |-> accepted]

Accept(event) ==
    \E to \in Targets(state, event) :
        /\ state' = to
        /\ processed_events' = processed_events + 1
        /\ returned' = Returned(event, to, TRUE)

\* Fault: only accepted events are counted.
RejectUncounted(event) ==
    /\ Targets(state, event) = {}
    /\ UNCHANGED <<state, processed_events>>
    /\ returned' = Returned(event, state, FALSE)

\* Without its evidence, on a stopped node, or in a state that has no use for it.
Reject(event) ==
    /\ Targets(state, event) = {}
    /\ processed_events' = processed_events + 1
    /\ returned' = Returned(event, state, FALSE)
    /\ UNCHANGED state

Apply(event) ==
    /\ processed_events < MaxEvents
    /\ Accept(event) \/ Reject(event)

Next == \E event \in Event : Apply(event)

Spec == Init /\ [][Next]_vars

-----------------------------------------------------------------------------

\* What a caller sees of the state: whether the node serves, or never will again.
Serving == {"ready", "validating"}

Service ==
    IF state \in Serving THEN "open" ELSE IF state = "stopped" THEN "shut" ELSE "closed"

Gate == INSTANCE EvidenceGate WITH gate <- Service, told <- returned.evidence

\* A node serves, or decides, only between a sync completed with evidence and
\* the next fault, rejected validation or shutdown: what a caller may rely on
\* who sees only whether the node serves and the evidence it was told with.
ImplementsGate == Gate!Spec

=============================================================================
