------------------------------ MODULE NodeAudit -------------------------------
(***************************************************************************)
(* The use include/fenrua/mesh/state_machine.hpp:46-59 describes: a caller *)
(* persists every transition apply returns, and an auditor later follows   *)
(* the node from the persisted stream alone.  Both are outside the         *)
(* repository.                                                             *)
(***************************************************************************)
EXTENDS NodeStateMachine, Sequences

CONSTANT MaxBehind  \* bound on how far the auditor falls behind, for TLC

ASSUME BehindAssumption == MaxBehind \in Nat

VARIABLES
    stream,   \* persisted transitions the auditor has not read
    replica,  \* the state the auditor believes the node was in
    audited,  \* the sequence number of the last transition it read
    grounds   \* evidence on which the auditor believes the node serves

auditVars == <<stream, replica, audited, grounds>>

AuditTypeOK ==
    /\ TypeOK
    /\ stream \in Seq(Transition)
    /\ replica \in NodeState
    /\ audited \in Nat
    /\ grounds \in Digests \cup {NoDigest}

AuditInit ==
    /\ Init
    /\ stream = <<>> /\ replica = "created" /\ audited = 0 /\ grounds = NoDigest

\* The caller applies an event and persists what is returned.
Persist(event) ==
    /\ Len(stream) < MaxBehind
    /\ Apply(event)
    /\ stream' = Append(stream, returned')
    /\ UNCHANGED <<replica, audited, grounds>>

\* The evidence a transition leaves the node serving on.
Grounds(t) ==
    IF t.to \notin Serving THEN NoDigest
    ELSE IF t.from = "syncing" THEN t.evidence
    ELSE grounds

\* The auditor goes by the "to" of each transition, accepted or not.
Read ==
    /\ stream # <<>>
    /\ LET t == Head(stream)
       IN  /\ replica' = t.to
           /\ audited' = t.sequence
           /\ grounds' = Grounds(t)
    /\ stream' = Tail(stream)
    /\ UNCHANGED vars

AuditNext == (\E event \in Event : Persist(event)) \/ Read

AuditSpec == AuditInit /\ [][AuditNext]_<<vars, auditVars>>

-----------------------------------------------------------------------------

\* Where the auditor will be when it comes to the k-th transition of the stream.
Before(k) ==
    IF k = 1 THEN [to |-> replica, sequence |-> audited]
             ELSE [to |-> stream[k - 1].to, sequence |-> stream[k - 1].sequence]

\* The stream can be audited without ambiguous numbering: each transition is
\* numbered one after the last and leaves from the state the last arrived at,
\* and what the auditor will have read when it has caught up is where the node
\* is.
StreamIsContinuous ==
    /\ \A k \in 1..Len(stream) :
          /\ stream[k].from = Before(k).to
          /\ stream[k].sequence = Before(k).sequence + 1
    /\ state = Before(Len(stream) + 1).to
    /\ processed_events = Before(Len(stream) + 1).sequence

\* The record cannot lose its causal evidence: whenever the auditor sees the
\* node serve, it has read the evidence on which it does.
ServesOnAuditedEvidence == replica \in Serving => grounds \in Digests

\* Why: a transition into service that is still to be read brings its evidence.
StreamIsGrounded ==
    \A k \in 1..Len(stream) :
        stream[k].from \notin Serving /\ stream[k].to \in Serving =>
            stream[k].from = "syncing" /\ stream[k].evidence \in Digests

\* The inductive invariant: the stream leads without a gap from where the auditor
\* is to where the node is, and brings the evidence for every entry into service.
AuditInv ==
    /\ AuditTypeOK
    /\ StreamIsContinuous
    /\ StreamIsGrounded
    /\ ServesOnAuditedEvidence

=============================================================================
