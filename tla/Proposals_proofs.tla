----------------------------- MODULE Proposals_proofs -----------------------------
(***************************************************************************)
(* Proofs about Proposals: approvals are quorate and in time, denials are  *)
(* final, and what an update replaced stays closed.                        *)
(*                                                                         *)
(* Every step either leaves the registry alone, or adds one request, or    *)
(* changes one or several that exist; RegistryStep says how, and the       *)
(* properties of requests follow from it.  Underway carries what a handler *)
(* found out in an earlier operation.                                      *)
(***************************************************************************)
EXTENDS Proposals, FiniteSetTheorems, TLAPS

IInv == TypeOK /\ Underway /\ VersionsKnown

-------------------------------------------------------------------------------
(* Signing *)

\* ApprovalRequest::approve counts an approver once: the number of granted approvals
\* stays the number of approvers, and no signature is lost.
LEMMA SignedCounts ==
    ASSUME NEW k \in Request, k.granted = Cardinality(k.approvers), NEW a \in Approvers
    PROVE  /\ Signed(k, a) \in Request
           /\ Signed(k, a).granted = Cardinality(Signed(k, a).approvers)
           /\ Signed(k, a).status = k.status
           /\ Signed(k, a).required = k.required
           /\ Cardinality(k.approvers) <= Cardinality(Signed(k, a).approvers)
<1> DEFINE s == Signed(k, a)
<1>1. /\ s = [k EXCEPT !.approvers = k.approvers \cup {a}, !.granted = Granted(k, a)]
      /\ k.approvers \subseteq Approvers /\ k.granted \in Nat
  BY DEF Signed, Request
<1>2. IsFiniteSet(k.approvers)
  BY <1>1, ApproversAssumption, FS_Subset
<1>3. Cardinality(k.approvers \cup {a}) =
        IF a \in k.approvers THEN Cardinality(k.approvers) ELSE Cardinality(k.approvers) + 1
  BY <1>2, FS_AddElement
<1>4. Granted(k, a) = Cardinality(k.approvers \cup {a}) /\ Granted(k, a) \in Nat
  BY <1>1, <1>3 DEF Granted
<1>5. Cardinality(k.approvers) <= Cardinality(k.approvers \cup {a})
  BY <1>1, <1>3
<1> QED
  BY <1>1, <1>4, <1>5 DEF Request

-------------------------------------------------------------------------------
(* How a step changes the registry *)

\* What may become of a request in one step: it keeps its demands and its signatures, a
\* closed one stays closed, and only a pending one that is in time and has enough
\* signatures becomes approved.
Succeeds(k, n, isLate) ==
    /\ n \in Request
    /\ n.granted = Cardinality(n.approvers)
    /\ n.required = k.required
    /\ Cardinality(k.approvers) <= Cardinality(n.approvers)
    /\ k.status \in Closed => n.status \in Closed
    /\ n.status = "approved" /\ k.status # "approved" =>
          ~isLate /\ Cardinality(n.approvers) >= n.required

RegistryStep ==
    /\ DOMAIN requests \subseteq DOMAIN requests'
    /\ DOMAIN requests' \subseteq Ids
    /\ requests' \in [DOMAIN requests' -> Request]
    /\ \A t \in DOMAIN requests : Succeeds(requests[t], requests'[t], t \in late)
    /\ \A t \in DOMAIN requests' \ DOMAIN requests :
          requests'[t].status = "pending" /\ requests'[t].granted = Cardinality(requests'[t].approvers)

\* A request that a step does not touch succeeds itself.
LEMMA SameSucceeds ==
    ASSUME TypeOK, NEW t \in DOMAIN requests, NEW l
    PROVE  Succeeds(requests[t], requests[t], l)
<1>1. /\ requests[t] \in Request
      /\ requests[t].granted = Cardinality(requests[t].approvers)
      /\ requests[t].granted \in Nat
  BY DEF TypeOK, Request
<1> QED
  BY <1>1 DEF Succeeds

LEMMA UntouchedStep ==
    ASSUME TypeOK, UNCHANGED requests
    PROVE  RegistryStep
BY SameSucceeds DEF TypeOK, RegistryStep

\* A step that replaces one request by a successor of it.
LEMMA ReplacedStep ==
    ASSUME TypeOK, NEW t \in DOMAIN requests, NEW n,
           requests' = [requests EXCEPT ![t] = n],
           Succeeds(requests[t], n, t \in late)
    PROVE  RegistryStep
<1>1. /\ DOMAIN requests' = DOMAIN requests
      /\ requests'[t] = n /\ n \in Request
      /\ \A u \in DOMAIN requests : u # t => requests'[u] = requests[u]
  BY DEF TypeOK, Succeeds
<1>2. requests' \in [DOMAIN requests' -> Request]
  BY <1>1 DEF TypeOK
<1>3. \A u \in DOMAIN requests : Succeeds(requests[u], requests'[u], u \in late)
  BY <1>1, SameSucceeds
<1> QED
  BY <1>1, <1>2, <1>3 DEF RegistryStep, TypeOK

\* A request that is closed succeeds the one it was.
LEMMA ClosedStep ==
    ASSUME TypeOK, NEW t \in DOMAIN requests, NEW s \in Closed, SetStatus(t, s)
    PROVE  RegistryStep
<1> DEFINE n == [requests[t] EXCEPT !.status = s]
<1>1. /\ requests[t] \in Request /\ requests[t].granted \in Nat
      /\ requests[t].granted = Cardinality(requests[t].approvers)
  BY DEF TypeOK, Request
<1>2. /\ n \in Request /\ n.status = s /\ n.required = requests[t].required
      /\ n.granted = requests[t].granted /\ n.approvers = requests[t].approvers
  BY <1>1 DEF Request, Statuses
<1>3. Succeeds(requests[t], n, t \in late)
  BY <1>1, <1>2 DEF Succeeds, Closed
<1>4. requests' = [requests EXCEPT ![t] = n]
  BY DEF SetStatus
<1> QED
  BY <1>3, <1>4, ReplacedStep

LEMMA NextRegistry ==
    ASSUME IInv, [Next]_vars
    PROVE  RegistryStep
<1> USE DEF IInv
<1>1. ASSUME NEW c \in Calls, Arrivals(c) PROVE RegistryStep
  BY <1>1, UntouchedStep
     DEF Arrivals, CreateProposal, UpdateProposal, DeleteProposal, Vote, Arrive
<1>2. ASSUME NEW c \in Calls, Read(c) \/ Answer(c) \/ Disconnect(c) PROVE RegistryStep
  BY <1>2, UntouchedStep DEF Read, Answer, Disconnect
<1>3. ASSUME NEW c \in Calls, Reject(c) PROVE RegistryStep
  <2>1. target[c] \in DOMAIN requests /\ SetStatus(target[c], "rejected")
    BY <1>3 DEF Reject, Underway, Knows
  <2> QED
    BY <2>1, ClosedStep DEF Closed
<1>4. ASSUME NEW c \in Calls, Approve(c) PROVE RegistryStep
  <2> DEFINE t == target[c]
             k == requests[t]
             s == Signed(k, voter[c])
             a == [s EXCEPT !.status = "approved"]
  <2>1. t \in DOMAIN requests /\ voter[c] \in Approvers
    BY <1>4 DEF Approve, Underway, Knows
  <2>2. k \in Request /\ k.granted = Cardinality(k.approvers)
    BY <2>1 DEF TypeOK
  <2>3. /\ s \in Request /\ s.granted = Cardinality(s.approvers)
        /\ s.status = k.status /\ s.required = k.required
        /\ Cardinality(k.approvers) <= Cardinality(s.approvers)
    BY <2>1, <2>2, SignedCounts
  <2>4. CASE Expired(t) /\ SetStatus(t, "expired")
    BY <2>1, <2>4, ClosedStep DEF Closed
  <2>5. CASE UNCHANGED requests
    BY <2>5, UntouchedStep
  <2>6. CASE ~Expired(t) /\ Open(k) /\ Enough(s) /\ requests' = [requests EXCEPT ![t] = a]
    <3>1. /\ a \in Request /\ a.status = "approved" /\ a.required = k.required
          /\ a.granted = s.granted /\ a.approvers = s.approvers
      BY <2>3 DEF Request, Statuses
    <3>2. Succeeds(k, a, t \in late)
      BY <2>3, <2>6, <3>1 DEF Succeeds, Closed, Expired, Open, Enough
    <3> QED
      BY <2>1, <2>6, <3>2, ReplacedStep
  <2>7. CASE Open(k) /\ requests' = [requests EXCEPT ![t] = s]
    <3>1. Succeeds(k, s, t \in late)
      BY <2>3, <2>7 DEF Succeeds, Closed, Open
    <3> QED
      BY <2>1, <2>7, <3>1, ReplacedStep
  <2> QED
    BY <1>4, <2>4, <2>5, <2>6, <2>7 DEF Approve
<1>5. ASSUME NEW c \in Calls, NEW t \in Ids, RequestApproval(c, t) PROVE RegistryStep
  <2>1. /\ t \notin DOMAIN requests
        /\ requests' = [u \in DOMAIN requests \cup {t} |->
                          IF u = t THEN Fresh(wanted[c]) ELSE requests[u]]
    BY <1>5 DEF RequestApproval
  <2>2. /\ Fresh(wanted[c]) \in Request
        /\ Fresh(wanted[c]).status = "pending"
        /\ Fresh(wanted[c]).granted = Cardinality(Fresh(wanted[c]).approvers)
    <3>1. wanted[c] \in Nat
      BY RequiredAssumption DEF TypeOK
    <3>2. Cardinality({}) = 0
      BY FS_EmptySet
    <3> QED
      BY <3>1, <3>2 DEF Fresh, Request, Statuses
  <2>3. /\ DOMAIN requests' = DOMAIN requests \cup {t}
        /\ requests'[t] = Fresh(wanted[c])
        /\ \A u \in DOMAIN requests : requests'[u] = requests[u]
    BY <2>1
  <2>4. requests' \in [DOMAIN requests' -> Request]
    BY <2>1, <2>2, <2>3 DEF TypeOK
  <2>5. \A u \in DOMAIN requests : Succeeds(requests[u], requests'[u], u \in late)
    BY <2>3, SameSucceeds
  <2> QED
    BY <2>2, <2>3, <2>4, <2>5 DEF RegistryStep, TypeOK
<1>6. ASSUME NEW t \in Ids, Elapse(t) PROVE RegistryStep
  BY <1>6, UntouchedStep DEF Elapse
<1>7. ASSUME ExpireStale PROVE RegistryStep
  <2>1. PICK ts \in SUBSET DOMAIN requests :
           requests' = [t \in DOMAIN requests |->
               IF t \in ts THEN [requests[t] EXCEPT !.status = "expired"] ELSE requests[t]]
    BY <1>7 DEF ExpireStale
  <2>2. ASSUME NEW t \in DOMAIN requests
        PROVE  requests'[t] \in Request /\ Succeeds(requests[t], requests'[t], t \in late)
    <3>1. /\ requests[t] \in Request /\ requests[t].granted \in Nat
          /\ requests[t].granted = Cardinality(requests[t].approvers)
      BY DEF TypeOK, Request
    <3>2. CASE t \in ts
      <4>1. requests'[t] = [requests[t] EXCEPT !.status = "expired"]
        BY <2>1, <3>2
      <4> QED
        BY <3>1, <4>1 DEF Succeeds, Closed, Request, Statuses
    <3>3. CASE t \notin ts
      BY <2>1, <3>1, <3>3, SameSucceeds
    <3> QED
      BY <3>2, <3>3
  <2>3. DOMAIN requests' = DOMAIN requests
    BY <2>1
  <2>4. requests' \in [DOMAIN requests' -> Request]
    BY <2>1, <2>2, <2>3
  <2> QED
    BY <2>2, <2>3, <2>4 DEF RegistryStep, TypeOK
<1>8. CASE UNCHANGED vars
  BY <1>8, UntouchedStep DEF vars
<1> QED
  BY <1>1, <1>2, <1>3, <1>4, <1>5, <1>6, <1>7, <1>8 DEF Next

-------------------------------------------------------------------------------
(* The invariants *)

LEMMA InitIInv == Init => IInv
<1> SUFFICES ASSUME Init PROVE IInv
  OBVIOUS
<1>1. DOMAIN requests = {}
  BY DEF Init
<1>2. TypeOK
  BY <1>1 DEF Init, TypeOK, Steps, Jobs
<1> QED
  BY <1>1, <1>2 DEF Init, IInv, Underway, Knows, VersionsKnown

LEMMA NextTypeOK ==
    ASSUME IInv, [Next]_vars
    PROVE  TypeOK'
<1> USE DEF IInv
<1>1. /\ DOMAIN requests \subseteq DOMAIN requests'
      /\ DOMAIN requests' \subseteq Ids
      /\ requests' \in [DOMAIN requests' -> Request]
      /\ \A t \in DOMAIN requests' : requests'[t].granted = Cardinality(requests'[t].approvers)
  BY NextRegistry DEF RegistryStep, Succeeds
<1> DEFINE Rest ==
      /\ late \subseteq DOMAIN requests
      /\ versions \subseteq Ids \X Ids
      /\ pc \in [Calls -> Steps]
      /\ job \in [Calls -> Jobs]
      /\ target \in [Calls -> DOMAIN requests \cup {NoId}]
      /\ wanted \in [Calls -> Required \cup {0}]
      /\ voter \in [Calls -> Approvers \cup {NoId}]
      /\ answer \in [Calls -> Statuses \cup {"none"}]
<1>2. Rest'
  <2> USE <1>1 DEF TypeOK, Goto, Steps, Settled, args
  <2>1. ASSUME NEW c \in Calls, Arrivals(c) PROVE Rest'
    <3>1. CASE \E n \in Required : CreateProposal(c, n)
      BY <3>1 DEF CreateProposal, Arrive, Jobs
    <3>2. CASE \E t \in DOMAIN requests, n \in Required : UpdateProposal(c, t, n)
      BY <3>2 DEF UpdateProposal, Arrive, Jobs
    <3>3. CASE \E t \in DOMAIN requests : DeleteProposal(c, t)
      BY <3>3 DEF DeleteProposal, Arrive, Jobs
    <3>4. CASE \E t \in DOMAIN requests, a \in Approvers : Vote(c, t, a)
      BY <3>4 DEF Vote, Arrive, Jobs
    <3> QED
      BY <2>1, <3>1, <3>2, <3>3, <3>4 DEF Arrivals
  <2>2. ASSUME NEW c \in Calls, Read(c) \/ Disconnect(c) PROVE Rest'
    BY <2>2 DEF Read, Disconnect, AfterRead
  <2>3. ASSUME NEW c \in Calls, Answer(c) PROVE Rest'
    <3>1. target[c] \in DOMAIN requests
      BY <2>3 DEF Answer, Underway, Knows
    <3>2. Status(target[c]) \in Statuses
      BY <3>1 DEF Status, Request
    <3> QED
      BY <2>3, <3>2 DEF Answer
  <2>4. ASSUME NEW c \in Calls, Approve(c) \/ Reject(c) PROVE Rest'
    BY <2>4 DEF Approve, Reject
  <2>5. ASSUME NEW c \in Calls, NEW t \in Ids, RequestApproval(c, t)
        PROVE Rest'
    <3>1. t \in DOMAIN requests'
      BY <2>5 DEF RequestApproval
    <3>2. pc[c] = "request" /\ job[c] = "update" => target[c] \in Ids
      BY DEF Underway, Knows
    <3>3. versions' \subseteq Ids \X Ids
      BY <2>5, <3>2 DEF RequestApproval
    <3> QED
      BY <2>5, <3>1, <3>3 DEF RequestApproval
  <2>6. CASE (\E t \in Ids : Elapse(t)) \/ ExpireStale \/ UNCHANGED vars
    BY <2>6 DEF Elapse, ExpireStale, vars
  <2> QED
    BY <2>1, <2>2, <2>3, <2>4, <2>5, <2>6 DEF Next
<1> QED
  BY <1>1, <1>2 DEF TypeOK

\* Requests stay where they are and closed ones stay closed.
LEMMA NextKeeps ==
    ASSUME IInv, [Next]_vars
    PROVE  /\ DOMAIN requests \subseteq DOMAIN requests'
           /\ \A t \in DOMAIN requests : Status(t) \in Closed => Status(t)' \in Closed
BY NextRegistry DEF RegistryStep, Succeeds, Status

LEMMA NextUnderway ==
    ASSUME IInv, [Next]_vars
    PROVE  Underway'
<1> SUFFICES ASSUME NEW d \in Calls PROVE Knows(d)'
  BY DEF Underway
<1>1. Knows(d)
  BY DEF IInv, Underway
<1>2. /\ DOMAIN requests \subseteq DOMAIN requests'
      /\ \A t \in DOMAIN requests : Status(t) \in Closed => Status(t)' \in Closed
  BY NextKeeps
<1>3. CASE UNCHANGED <<pc[d], job[d], target[d], voter[d], answer[d]>>
  BY <1>1, <1>2, <1>3 DEF Knows
<1> USE DEF IInv, TypeOK, Goto, args
<1>4. ASSUME NEW c \in Calls, Arrivals(c) PROVE Knows(d)'
  <2>1. CASE d # c
    BY <1>3, <1>4, <2>1
       DEF Arrivals, CreateProposal, UpdateProposal, DeleteProposal, Vote, Arrive
  <2>2. CASE d = c
    <3>1. answer'[d] = answer[d] /\ answer[d] = "none"
      BY <1>1, <1>4, <2>2
         DEF Arrivals, CreateProposal, UpdateProposal, DeleteProposal, Vote, Arrive, Knows
    <3>2. CASE \E n \in Required : CreateProposal(c, n)
      BY <3>1, <3>2, <2>2 DEF CreateProposal, Arrive, Knows
    <3>3. CASE \E t \in DOMAIN requests, n \in Required : UpdateProposal(c, t, n)
      BY <1>2, <3>1, <3>3, <2>2 DEF UpdateProposal, Arrive, Knows
    <3>4. CASE \E t \in DOMAIN requests : DeleteProposal(c, t)
      BY <1>2, <3>1, <3>4, <2>2 DEF DeleteProposal, Arrive, Knows
    <3>5. CASE \E t \in DOMAIN requests, a \in Approvers : Vote(c, t, a)
      BY <1>2, <3>1, <3>5, <2>2 DEF Vote, Arrive, Knows
    <3> QED
      BY <1>4, <3>2, <3>3, <3>4, <3>5 DEF Arrivals
  <2> QED
    BY <2>1, <2>2
<1>5. ASSUME NEW c \in Calls, Read(c) PROVE Knows(d)'
  <2>1. CASE d # c
    BY <1>3, <1>5, <2>1 DEF Read
  <2>2. CASE d = c
    BY <1>1, <1>2, <1>5, <2>2 DEF Read, AfterRead, Knows
  <2> QED
    BY <2>1, <2>2
<1>6. ASSUME NEW c \in Calls, Approve(c) PROVE Knows(d)'
  <2>1. CASE d # c
    BY <1>3, <1>6, <2>1 DEF Approve
  <2>2. CASE d = c
    <3>1. target'[d] = target[d] /\ answer'[d] = answer[d] /\ pc[d] = "approve"
          /\ pc'[d] \in {"refused", "answer", "done"}
      BY <1>6, <2>2 DEF Approve
    <3> QED
      BY <1>1, <1>2, <3>1 DEF Knows
  <2> QED
    BY <2>1, <2>2
<1>7. ASSUME NEW c \in Calls, Reject(c) PROVE Knows(d)'
  <2>1. CASE d # c
    BY <1>3, <1>7, <2>1 DEF Reject
  <2>2. CASE d = c
    <3>1. target'[d] = target[d] /\ answer'[d] = answer[d] /\ pc[d] = "reject"
          /\ pc'[d] \in {"request", "answer", "done"}
      BY <1>7, <2>2 DEF Reject
    <3>2. target[d] \in DOMAIN requests
      BY <1>1, <3>1 DEF Knows
    <3>3. Status(target[d])' = "rejected"
      BY <1>7, <2>2, <3>1, <3>2 DEF Reject, SetStatus, Status, Request
    <3> QED
      BY <1>1, <1>2, <3>1, <3>2, <3>3 DEF Knows, Closed
  <2> QED
    BY <2>1, <2>2
<1>8. ASSUME NEW c \in Calls, Answer(c) PROVE Knows(d)'
  <2>1. CASE d # c
    BY <1>3, <1>8, <2>1 DEF Answer
  <2>2. CASE d = c
    BY <1>1, <1>2, <1>8, <2>2 DEF Answer, Knows
  <2> QED
    BY <2>1, <2>2
<1>9. ASSUME NEW c \in Calls, Disconnect(c) PROVE Knows(d)'
  <2>1. CASE d # c
    BY <1>3, <1>9, <2>1 DEF Disconnect
  <2>2. CASE d = c
    BY <1>1, <1>2, <1>9, <2>2 DEF Disconnect, Settled, Knows
  <2> QED
    BY <2>1, <2>2
<1>10. ASSUME NEW c \in Calls, NEW t \in Ids, RequestApproval(c, t) PROVE Knows(d)'
  <2>1. CASE d # c
    BY <1>3, <1>10, <2>1 DEF RequestApproval
  <2>2. CASE d = c
    <3>1. t \in DOMAIN requests' /\ target'[d] = t /\ pc'[d] \in {"done", "answer"}
          /\ answer'[d] = answer[d]
      BY <1>10, <2>2 DEF RequestApproval
    <3>2. answer[d] = "none"
      BY <1>1, <1>10, <2>2 DEF RequestApproval, Knows
    <3> QED
      BY <3>1, <3>2 DEF Knows
  <2> QED
    BY <2>1, <2>2
<1>11. CASE (\E t \in Ids : Elapse(t)) \/ ExpireStale \/ UNCHANGED vars
  BY <1>3, <1>11 DEF Elapse, ExpireStale, vars
<1> QED
  BY <1>4, <1>5, <1>6, <1>7, <1>8, <1>9, <1>10, <1>11 DEF Next

\* A step relates the versions it finds, or those and the ones a replacement makes.
LEMMA VersionsStep ==
    ASSUME IInv, [Next]_vars, NEW v \in versions'
    PROVE  \/ v \in versions
           \/ v[1] \in DOMAIN requests /\ Status(v[1]) \in Closed
<1>1. CASE versions' = versions
  BY <1>1
<1>2. ASSUME NEW c \in Calls, NEW t \in Ids, RequestApproval(c, t), v \notin versions
      PROVE  v[1] \in DOMAIN requests /\ Status(v[1]) \in Closed
  <2>1. pc[c] = "request" /\ job[c] = "update" /\ v = <<target[c], t>>
    BY <1>2 DEF RequestApproval
  <2> QED
    BY <2>1 DEF IInv, Underway, Knows
<1> QED
  BY <1>1, <1>2
     DEF Next, Arrivals, CreateProposal, UpdateProposal, DeleteProposal, Vote, Arrive, Read,
         Approve, Reject, Answer, Disconnect, Elapse, ExpireStale, vars

LEMMA NextIInv ==
    ASSUME IInv, [Next]_vars
    PROVE  IInv'
<1>1. VersionsKnown'
  BY VersionsStep, NextKeeps DEF VersionsKnown, IInv
<1> QED
  BY <1>1, NextTypeOK, NextUnderway DEF IInv

THEOREM SpecIInv == Spec => []IInv
<1> QED
  BY InitIInv, NextIInv, PTL DEF Spec

\* TypeOK is an invariant: whatever calls interleave, granted_approvals counts the
\* distinct approvers of a request (types/governance.rs approve).
THEOREM SpecTypeOK == Spec => []TypeOK
<1>1. IInv => TypeOK
  BY DEF IInv
<1> QED
  BY <1>1, SpecIInv, PTL

-------------------------------------------------------------------------------
(* The properties of requests *)

\* DenialsStand: no interleaving of votes, updates and deletions reopens or approves a
\* request that was rejected or expired (approval.rs).
THEOREM SpecDenialsStand == Spec => DenialsStand
<1>1. IInv /\ [Next]_vars =>
        [\A t \in DOMAIN requests : Status(t) \in Closed => Status(t)' \in Closed]_vars
  BY NextKeeps
<1> QED
  BY <1>1, SpecIInv, PTL DEF Spec, DenialsStand

\* ApprovedInTime: no request becomes approved once its deadline has passed, not even by
\* a vote that arrived before it (approval.rs approve).
THEOREM SpecApprovedInTime == Spec => ApprovedInTime
<1>1. ASSUME IInv, [Next]_vars, NEW t \in late, Status(t) # "approved"
      PROVE  Status(t)' # "approved"
  <2>1. t \in DOMAIN requests
    BY <1>1 DEF IInv, TypeOK
  <2> QED
    BY <1>1, <2>1, NextRegistry DEF RegistryStep, Succeeds, Status
<1>2. IInv /\ [Next]_vars =>
        [\A t \in late : Status(t) # "approved" => Status(t)' # "approved"]_vars
  BY <1>1
<1> QED
  BY <1>2, SpecIInv, PTL DEF Spec, ApprovedInTime

\* ReplacedIsClosed: once an update has opened the replacement of a request, the old one
\* is rejected or expired for good (routes/governance.rs update_proposal).
THEOREM SpecReplacedIsClosed == Spec => []ReplacedIsClosed
<1>1. Init => ReplacedIsClosed
  BY DEF Init, ReplacedIsClosed
<1>2. IInv /\ ReplacedIsClosed /\ [Next]_vars => ReplacedIsClosed'
  <2> SUFFICES ASSUME IInv, ReplacedIsClosed, [Next]_vars, NEW v \in versions'
               PROVE  Status(v[1])' \in Closed
    BY DEF ReplacedIsClosed
  <2>1. v[1] \in DOMAIN requests /\ Status(v[1]) \in Closed
    BY VersionsStep DEF ReplacedIsClosed, IInv, VersionsKnown
  <2> QED
    BY <2>1, NextKeeps
<1> QED
  BY <1>1, <1>2, SpecIInv, PTL DEF Spec

\* A quorum once reached is never lost.
LEMMA QuorumLasts ==
    ASSUME IInv, [Next]_vars, NEW t \in DOMAIN requests, Quorate(t)
    PROVE  Quorate(t)'
<1>1. /\ Succeeds(requests[t], requests'[t], t \in late)
      /\ requests[t] \in Request /\ requests[t].granted = Cardinality(requests[t].approvers)
  BY NextRegistry DEF RegistryStep, IInv, TypeOK
<1>2. /\ requests'[t].granted \in Nat /\ requests[t].granted \in Nat
      /\ requests[t].required \in Nat
  BY <1>1 DEF Succeeds, Request
<1> QED
  BY <1>1, <1>2 DEF Succeeds, Quorate

\* ApprovedByQuorum: a request is approved, and a call says so, only with the signatures
\* of as many different approvers as it requires (types/governance.rs approve).
THEOREM SpecApprovedByQuorum == Spec => []ApprovedByQuorum
<1>1. Init => ApprovedByQuorum
  BY DEF Init, ApprovedByQuorum
<1>2. IInv /\ ApprovedByQuorum /\ [Next]_vars => ApprovedByQuorum'
  <2> SUFFICES ASSUME IInv, ApprovedByQuorum, [Next]_vars PROVE ApprovedByQuorum'
    OBVIOUS
  <2>1. ASSUME NEW t \in DOMAIN requests', Status(t)' = "approved" PROVE Quorate(t)'
    <3>1. CASE t \notin DOMAIN requests
      BY <2>1, <3>1, NextRegistry DEF RegistryStep, Status
    <3>2. CASE t \in DOMAIN requests /\ Status(t) = "approved"
      BY <3>2, QuorumLasts DEF ApprovedByQuorum
    <3>3. CASE t \in DOMAIN requests /\ Status(t) # "approved"
      BY <2>1, <3>3, NextRegistry DEF RegistryStep, Succeeds, Status, Quorate
    <3> QED
      BY <3>1, <3>2, <3>3
  <2>2. ASSUME NEW c \in Calls, answer'[c] = "approved" PROVE Quorate(target[c])'
               /\ target'[c] = target[c]
    <3>1. CASE answer[c] = "approved"
      <4>1. Quorate(target[c]) /\ target[c] \in DOMAIN requests /\ pc[c] = "done"
        BY <3>1 DEF ApprovedByQuorum, IInv, Underway, Knows
      <4>2. target'[c] = target[c]
        BY <4>1
           DEF IInv, TypeOK, Next, Arrivals, CreateProposal, UpdateProposal, DeleteProposal, Vote,
               Arrive, Read, RequestApproval, Approve, Reject, Answer, Disconnect, Elapse,
               ExpireStale, vars
      <4> QED
        BY <4>1, <4>2, QuorumLasts
    <3>2. CASE answer[c] # "approved"
      <4>1. /\ Answer(c)
            /\ Status(target[c]) = "approved"
        BY <2>2, <3>2
           DEF IInv, TypeOK, Next, Arrivals, CreateProposal, UpdateProposal, DeleteProposal, Vote,
               Arrive, Read, RequestApproval, Approve, Reject, Answer, Disconnect, Elapse,
               ExpireStale, vars
      <4>2. target[c] \in DOMAIN requests /\ target' = target
        BY <4>1 DEF Answer, IInv, Underway, Knows
      <4> QED
        BY <4>1, <4>2, QuorumLasts DEF ApprovedByQuorum
    <3> QED
      BY <3>1, <3>2
  <2> QED
    BY <2>1, <2>2 DEF ApprovedByQuorum, Quorate
<1> QED
  BY <1>1, <1>2, SpecIInv, PTL DEF Spec

===============================================================================
