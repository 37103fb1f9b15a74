---------------------------- MODULE NodeAudit_proofs ---------------------------
(***************************************************************************)
(* Proofs about NodeAudit and NodeStateMachine, for any digests, any       *)
(* number of events and an auditor any way behind.                         *)
(***************************************************************************)
EXTENDS NodeAudit, TLAPS

-----------------------------------------------------------------------------
(* The reducer. *)

\* An event is accepted only into a state, and into service only on a
\* completed sync that carries its evidence.
LEMMA TargetsType ==
    ASSUME NEW s \in NodeState, NEW event \in Event, NEW to \in Targets(s, event)
    PROVE  /\ to \in NodeState
           /\ s # "stopped"
           /\ s \notin Serving /\ to \in Serving =>
                s = "syncing" /\ event.evidence \in Digests
           /\ s \in Serving /\ to \notin Serving /\ to # "stopped" =>
                event.evidence \in Digests
<1>1. event.type \in EventType /\ event.evidence \in Digests \cup {NoDigest}
  BY DEF Event
<1>2. s # "stopped" /\ (RequiresEvidence(event.type) => event.evidence \in Digests)
  BY <1>1 DEF Targets
<1>3. CASE event.type = "shutdown"
  <2>1. to = "stopped"
    BY <1>2, <1>3 DEF Targets
  <2> QED BY <1>2, <2>1 DEF NodeState, Serving
<1>4. CASE event.type = "fault_observed"
  <2>1. to = "quarantined"
    BY <1>2, <1>4 DEF Targets
  <2>2. event.evidence \in Digests
    BY <1>2, <1>4 DEF RequiresEvidence
  <2> QED BY <1>2, <2>1, <2>2 DEF NodeState, Serving
<1>5. CASE event.type \notin {"shutdown", "fault_observed"}
  <2>1. to \in NodeState /\ <<s, event.type, to>> \in Moves
    BY <1>2, <1>5 DEF Targets
  <2> QED BY <1>2, <2>1 DEF Moves, RequiresEvidence, Serving
<1> QED BY <1>3, <1>4, <1>5

\* What apply does, accepted or not.
LEMMA ApplyType ==
    ASSUME TypeOK, NEW event \in Event, Apply(event)
    PROVE  /\ TypeOK'
           /\ processed_events' = processed_events + 1
           /\ returned'.from = state /\ returned'.to = state'
           /\ returned'.sequence = processed_events'
           /\ returned'.evidence = event.evidence
           /\ state' # state => state' \in Targets(state, event)
           /\ state \notin Serving /\ state' \in Serving =>
                state = "syncing" /\ event.evidence \in Digests
<1>1. event.type \in EventType /\ event.evidence \in Digests \cup {NoDigest}
  BY DEF Event
<1>2. CASE Accept(event)
  <2>1. PICK to \in Targets(state, event) :
            /\ state' = to
            /\ processed_events' = processed_events + 1
            /\ returned' = Returned(event, to, TRUE)
    BY <1>2 DEF Accept
  <2>2. /\ to \in NodeState
        /\ state \notin Serving /\ to \in Serving =>
             state = "syncing" /\ event.evidence \in Digests
    BY TargetsType DEF TypeOK
  <2>3. processed_events + 1 \in Nat
    BY DEF TypeOK
  <2> QED BY <1>1, <2>1, <2>2, <2>3 DEF TypeOK, Returned, Transition
<1>3. CASE Reject(event)
  <2>1. processed_events + 1 \in Nat
    BY DEF TypeOK
  <2> QED BY <1>1, <1>3, <2>1 DEF Reject, TypeOK, Returned, Transition
<1> QED BY <1>2, <1>3 DEF Apply

\* A step of the reducer is a step of the gate: with no evidence it is at most
\* shut.
LEMMA ApplyIsGateStep ==
    ASSUME TypeOK, NEW event \in Event, Apply(event)
    PROVE  [Gate!Hear \/ Gate!Open \/ Gate!Close \/ Gate!Shut]_<<Service, returned.evidence>>
<1>1. /\ returned'.evidence = event.evidence
      /\ event.evidence \in Digests \cup {NoDigest}
      /\ state \in NodeState /\ state' \in NodeState
  BY ApplyType DEF TypeOK, Event
<1>2. CASE Accept(event)
  <2>1. state' \in Targets(state, event)
    BY <1>2 DEF Accept
  <2>2. /\ state # "stopped"
        /\ state \notin Serving /\ state' \in Serving => event.evidence \in Digests
        /\ state \in Serving /\ state' \notin Serving /\ state' # "stopped" =>
             event.evidence \in Digests
    BY <2>1, TargetsType DEF TypeOK
  <2>3. CASE Service' = Service
    BY <1>1, <2>3 DEF Gate!Hear
  <2>4. CASE Service' = "shut" /\ Service # "shut"
    BY <1>1, <2>4 DEF Gate!Shut
  <2>5. CASE Service = "closed" /\ Service' = "open"
    <3>1. state \notin Serving /\ state' \in Serving
      BY <2>5 DEF Service
    <3> QED BY <1>1, <2>2, <2>5, <3>1 DEF Gate!Open
  <2>6. CASE Service = "open" /\ Service' = "closed"
    <3>1. state \in Serving /\ state' \notin Serving /\ state' # "stopped"
      BY <2>6 DEF Service
    <3> QED BY <1>1, <2>2, <2>6, <3>1 DEF Gate!Close
  <2>7. Service # "shut" /\ Service \in {"open", "closed", "shut"}
        /\ Service' \in {"open", "closed", "shut"}
    BY <2>2 DEF Service, Serving
  <2> QED BY <2>3, <2>4, <2>5, <2>6, <2>7
<1>3. CASE Reject(event)
  <2>1. Service' = Service
    BY <1>3 DEF Reject, Service
  <2> QED BY <1>1, <2>1 DEF Gate!Hear
<1> QED BY <1>2, <1>3 DEF Apply

\* The reducer implements the evidence gate.
THEOREM NodeImplementsGate == Spec => ImplementsGate
<1>1. Init => TypeOK /\ Gate!Init
  <2> SUFFICES ASSUME Init PROVE TypeOK /\ Gate!Init
    OBVIOUS
  <2>1. TypeOK
    BY DEF Init, TypeOK, NoTransition, NodeState, Transition, EventType
  <2>2. Service = "closed" /\ returned.evidence = NoDigest
    BY DEF Init, NoTransition, Service, Serving
  <2> QED BY <2>1, <2>2 DEF Gate!Init
<1>2. TypeOK /\ [Next]_vars =>
        /\ TypeOK'
        /\ [Gate!Hear \/ Gate!Open \/ Gate!Close \/ Gate!Shut]_<<Service, returned.evidence>>
  <2> SUFFICES ASSUME TypeOK, [Next]_vars
               PROVE  /\ TypeOK'
                      /\ [Gate!Hear \/ Gate!Open \/ Gate!Close \/ Gate!Shut]_<<Service, returned.evidence>>
    OBVIOUS
  <2>1. ASSUME NEW event \in Event, Apply(event)
        PROVE  /\ TypeOK'
               /\ [Gate!Hear \/ Gate!Open \/ Gate!Close \/ Gate!Shut]_<<Service, returned.evidence>>
    BY <2>1, ApplyType, ApplyIsGateStep
  <2>2. CASE UNCHANGED vars
    <3>1. UNCHANGED <<state, processed_events, returned>>
      BY <2>2 DEF vars
    <3>2. TypeOK'
      BY <3>1 DEF TypeOK
    <3>3. UNCHANGED <<Service, returned.evidence>>
      BY <3>1 DEF Service
    <3> QED BY <3>2, <3>3
  <2> QED BY <2>1, <2>2 DEF Next
<1> QED BY <1>1, <1>2, PTL DEF Spec, ImplementsGate, Gate!Spec

-----------------------------------------------------------------------------
(* The stream. *)

\* No event has been applied.
LEMMA AuditInitInv == AuditInit => AuditInv
<1> SUFFICES ASSUME AuditInit PROVE AuditInv
  OBVIOUS
<1>1. AuditTypeOK
  BY DEF AuditInit, Init, AuditTypeOK, TypeOK, NoTransition, NodeState, Transition, EventType
<1> QED BY <1>1 DEF AuditInit, Init, AuditInv, StreamIsContinuous, StreamIsGrounded,
                    ServesOnAuditedEvidence, Before, Serving

\* The transition persisted goes on from where the stream has come to.
LEMMA PersistInv ==
    ASSUME AuditInv, NEW event \in Event, Persist(event)
    PROVE  AuditInv'
<1>1. /\ TypeOK /\ stream \in Seq(Transition) /\ replica \in NodeState
      /\ audited \in Nat /\ grounds \in Digests \cup {NoDigest}
  BY DEF AuditInv, AuditTypeOK
<1>2. Apply(event) /\ stream' = Append(stream, returned')
      /\ UNCHANGED <<replica, audited, grounds>>
  BY DEF Persist
<1>3. /\ TypeOK'
      /\ processed_events' = processed_events + 1
      /\ returned'.from = state /\ returned'.to = state'
      /\ returned'.sequence = processed_events'
      /\ returned'.evidence = event.evidence
      /\ state \notin Serving /\ state' \in Serving =>
           state = "syncing" /\ event.evidence \in Digests
  BY <1>1, <1>2, ApplyType
<1>4. returned' \in Transition
  BY <1>3 DEF TypeOK
<1>5. /\ Len(stream') = Len(stream) + 1 /\ Len(stream) \in Nat
      /\ stream'[Len(stream) + 1] = returned'
      /\ \A k \in 1..Len(stream) : stream'[k] = stream[k]
      /\ stream' \in Seq(Transition)
  BY <1>1, <1>2, <1>4
<1>6. AuditTypeOK'
  BY <1>1, <1>2, <1>3, <1>5 DEF AuditTypeOK
<1>7. \A k \in 1..(Len(stream) + 1) : Before(k)' = Before(k)
  BY <1>2, <1>5 DEF Before
<1>8. \A k \in Nat : k = Len(stream) + 2 =>
        Before(k)' = [to |-> state', sequence |-> processed_events']
  BY <1>3, <1>5 DEF Before
<1>9. StreamIsContinuous'
  <2>1. ASSUME NEW k \in 1..Len(stream')
        PROVE  stream'[k].from = Before(k)'.to /\ stream'[k].sequence = Before(k)'.sequence + 1
    <3>1. CASE k \in 1..Len(stream)
      BY <1>5, <1>7, <3>1 DEF AuditInv, StreamIsContinuous
    <3>2. CASE k = Len(stream) + 1
      <4>1. Before(k)' = Before(k)
        BY <1>5, <1>7, <3>2
      <4> QED BY <1>3, <1>5, <3>2, <4>1 DEF AuditInv, StreamIsContinuous
    <3> QED BY <1>5, <3>1, <3>2
  <2>2. state' = Before(Len(stream) + 1)'.to
        /\ processed_events' = Before(Len(stream) + 1)'.sequence
    <3>1. Len(stream') + 1 \in Nat /\ Len(stream') + 1 = Len(stream) + 2
      BY <1>5
    <3> QED BY <1>8, <3>1
  <2> QED BY <2>1, <2>2 DEF StreamIsContinuous
<1>10. StreamIsGrounded'
  BY <1>3, <1>5 DEF AuditInv, StreamIsGrounded
<1>11. ServesOnAuditedEvidence'
  BY <1>2 DEF AuditInv, ServesOnAuditedEvidence
<1> QED BY <1>6, <1>9, <1>10, <1>11 DEF AuditInv

\* The auditor comes to where the first transition of the stream leads.
LEMMA ReadInv ==
    ASSUME AuditInv, Read
    PROVE  AuditInv'
<1> DEFINE t == Head(stream)
<1>1. /\ TypeOK /\ stream \in Seq(Transition) /\ stream # <<>> /\ replica \in NodeState
      /\ audited \in Nat /\ grounds \in Digests \cup {NoDigest}
  BY DEF AuditInv, AuditTypeOK, Read
<1>2. /\ t \in Transition /\ t = stream[1] /\ 1 \in 1..Len(stream)
      /\ Tail(stream) \in Seq(Transition)
      /\ Len(Tail(stream)) = Len(stream) - 1 /\ Len(stream) \in Nat
      /\ \A k \in 1..(Len(stream) - 1) : Tail(stream)[k] = stream[k + 1]
  BY <1>1
<1>3. /\ replica' = t.to /\ audited' = t.sequence /\ stream' = Tail(stream)
      /\ grounds' = Grounds(t)
      /\ UNCHANGED <<state, processed_events, returned>>
  BY DEF Read, vars
<1> HIDE DEF t
<1>4. /\ t.from = replica
      /\ t.from \notin Serving /\ t.to \in Serving =>
           t.from = "syncing" /\ t.evidence \in Digests
  BY <1>2 DEF AuditInv, StreamIsContinuous, StreamIsGrounded, Before
<1>5. /\ grounds' \in Digests \cup {NoDigest}
      /\ t.to \in Serving => grounds' \in Digests
  <2>1. t.evidence \in Digests \cup {NoDigest}
    BY <1>2 DEF Transition
  <2>2. CASE t.to \notin Serving
    BY <1>3, <2>2 DEF Grounds
  <2>3. CASE t.to \in Serving /\ t.from = "syncing"
    BY <1>3, <1>4, <2>3 DEF Grounds, Serving
  <2>4. CASE t.to \in Serving /\ t.from # "syncing"
    <3>1. grounds' = grounds
      BY <1>3, <2>4 DEF Grounds
    <3> QED BY <1>1, <1>4, <2>4, <3>1 DEF AuditInv, ServesOnAuditedEvidence
  <2> QED BY <2>2, <2>3, <2>4
<1>6. AuditTypeOK'
  BY <1>1, <1>2, <1>3, <1>5 DEF AuditTypeOK, TypeOK, Transition
<1>7. \A k \in 1..Len(stream) : Before(k)' = Before(k + 1)
  BY <1>2, <1>3 DEF Before
<1>8. StreamIsContinuous'
  <2>1. ASSUME NEW k \in 1..Len(stream')
        PROVE  stream'[k].from = Before(k)'.to /\ stream'[k].sequence = Before(k)'.sequence + 1
    <3>1. k + 1 \in 1..Len(stream) /\ k \in 1..Len(stream) /\ stream'[k] = stream[k + 1]
      BY <1>2, <1>3
    <3> QED BY <1>7, <3>1 DEF AuditInv, StreamIsContinuous
  <2>2. state' = Before(Len(stream) + 1)'.to
        /\ processed_events' = Before(Len(stream) + 1)'.sequence
    <3>1. Len(stream') + 1 = Len(stream) /\ Len(stream) \in 1..Len(stream)
      BY <1>2, <1>3
    <3>2. \A k \in 1..Len(stream) : k = Len(stream') + 1 => Before(k)' = Before(Len(stream) + 1)
      BY <1>7, <3>1
    <3> QED BY <1>3, <3>1, <3>2 DEF AuditInv, StreamIsContinuous
  <2> QED BY <2>1, <2>2 DEF StreamIsContinuous
<1>9. StreamIsGrounded'
  BY <1>2, <1>3 DEF AuditInv, StreamIsGrounded
<1>10. ServesOnAuditedEvidence'
  BY <1>3, <1>5 DEF ServesOnAuditedEvidence
<1> QED BY <1>6, <1>8, <1>9, <1>10 DEF AuditInv

\* The invariant holds in every state the node and its auditor reach.
THEOREM AuditInvariant == AuditSpec => []AuditInv
<1>1. AuditInv /\ [AuditNext]_<<vars, auditVars>> => AuditInv'
  <2> SUFFICES ASSUME AuditInv, [AuditNext]_<<vars, auditVars>> PROVE AuditInv'
    OBVIOUS
  <2>1. CASE UNCHANGED <<vars, auditVars>>
    BY <2>1 DEF vars, auditVars, AuditInv, AuditTypeOK, TypeOK, StreamIsContinuous,
                StreamIsGrounded, ServesOnAuditedEvidence, Before
  <2> QED BY <2>1, PersistInv, ReadInv DEF AuditNext
<1> QED BY <1>1, AuditInitInv, PTL DEF AuditSpec

\* The persisted stream can be audited without ambiguous numbering.
THEOREM StreamContinues == AuditSpec => []StreamIsContinuous
<1>1. AuditInv => StreamIsContinuous
  BY DEF AuditInv
<1> QED BY <1>1, AuditInvariant, PTL

\* The auditor never sees the node serve without having read the evidence.
THEOREM EvidenceIsAudited == AuditSpec => []ServesOnAuditedEvidence
<1>1. AuditInv => ServesOnAuditedEvidence
  BY DEF AuditInv
<1> QED BY <1>1, AuditInvariant, PTL

=============================================================================
