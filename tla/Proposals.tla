-------------------------------- MODULE Proposals --------------------------------
(***************************************************************************)
(* Approval requests and the handlers that create, update, delete and vote *)
(* on them.                                                                *)
(*                                                                         *)
(* Gateway, worker and MCP server share one ApprovalWorkflow.  Each of its *)
(* operations holds the lock of the registry from beginning to end; a      *)
(* handler calls several of them and other calls interleave in between,    *)
(* so a call's pc is the operation it makes next.  A call that names an    *)
(* unknown request is answered with an error, changes nothing and is left  *)
(* out, like the contexts and reasons that calls carry.                    *)
(***************************************************************************)
EXTENDS Integers, FiniteSets

CONSTANTS
    Ids,            \* the ids of approval requests
    Calls,          \* the calls that may arrive
    Approvers,      \* the approver ids that voters give
    Required        \* the values of required_approvals

NoId == "none"

ASSUME IdsAssumption == NoId \notin Ids
ASSUME ApproversAssumption == IsFiniteSet(Approvers)
ASSUME RequiredAssumption == Required \subseteq Nat

VARIABLES
    requests,       \* ApprovalWorkflow.requests
    late,           \* the requests whose expires_at has passed
    versions,       \* <<old, new>>: an update replaced old by new
    pc,
    job,            \* the handler
    target,         \* the request it works on
    wanted,         \* the required_approvals it asks for
    voter,          \* the approver it names
    answer          \* the status it answered with and announced

vars == <<requests, late, versions, pc, job, target, wanted, voter, answer>>
args == <<job, wanted, voter>>

Closed == {"rejected", "expired"}
Statuses == {"pending", "approved"} \cup Closed
Jobs == {"none", "create", "update", "delete", "vote", "mcp", "engine"}
Settled == {"done", "refused", "gone"}
Steps == {"idle", "read", "request", "approve", "reject", "answer"} \cup Settled
Request == [status: Statuses, required: Nat, approvers: SUBSET Approvers, granted: Nat]

Fresh(n) == [status |-> "pending", required |-> n, approvers |-> {}, granted |-> 0]
Status(t) == requests[t].status
Goto(c, step) == pc' = [pc EXCEPT ![c] = step]
SetStatus(t, s) == requests' = [requests EXCEPT ![t].status = s]

-------------------------------------------------------------------------------
(* Arrival of a call *)

Arrive(c, j, t, step) ==
    /\ pc[c] = "idle"
    /\ Goto(c, step)
    /\ job' = [job EXCEPT ![c] = j]
    /\ target' = [target EXCEPT ![c] = t]
    /\ UNCHANGED <<requests, late, versions, answer>>

\* create_proposal, and the worker that asks for an approval itself.
CreateProposal(c, n) ==
    /\ \E j \in {"create", "engine"} : Arrive(c, j, NoId, "request")
    /\ wanted' = [wanted EXCEPT ![c] = n]
    /\ UNCHANGED voter

\* update_proposal, which keeps required_approvals or gets a new one.
UpdateProposal(c, t, n) ==
    /\ Arrive(c, "update", t, "read")
    /\ wanted' = [wanted EXCEPT ![c] = n]
    /\ UNCHANGED voter

DeleteProposal(c, t) ==
    /\ Arrive(c, "delete", t, "reject")
    /\ UNCHANGED <<wanted, voter>>

\* vote_proposal, and approve_action of the MCP server.
Vote(c, t, a) ==
    /\ \E j \in {"vote", "mcp"}, step \in {"approve", "reject"} : Arrive(c, j, t, step)
    /\ voter' = [voter EXCEPT ![c] = a]
    /\ UNCHANGED wanted

-------------------------------------------------------------------------------
(* The operations of ApprovalWorkflow, each under the registry's lock *)

\* Mutant: an update opens the new request without rejecting the old one.
AfterReadKept == "request"

\* What an update does once it has seen a pending request.
AfterRead == "reject"

\* get_request of an update: only a pending request goes on, late or not.
Read(c) ==
    /\ pc[c] = "read"
    /\ Goto(c, IF Status(target[c]) = "pending" THEN AfterRead ELSE "refused")
    /\ UNCHANGED <<requests, late, versions, args, target, answer>>

\* request: an update's new request starts without approvals.
RequestApproval(c, t) ==
    /\ pc[c] = "request"
    /\ t \notin DOMAIN requests
    /\ requests' = [u \in DOMAIN requests \cup {t} |->
                       IF u = t THEN Fresh(wanted[c]) ELSE requests[u]]
    /\ versions' = versions \cup
          (IF job[c] = "update" THEN {<<target[c], t>>} ELSE {})
    /\ target' = [target EXCEPT ![c] = t]
    /\ Goto(c, IF job[c] = "engine" THEN "done" ELSE "answer")
    /\ UNCHANGED <<late, args, answer>>

\* Mutants: the deadline is not looked at; a closed request may still be signed; a
\* voter's second approval counts; one approval less is enough.
ExpiredNever(t) == FALSE
OpenAlways(k) == TRUE
GrantedAgain(k, a) == k.granted + 1
EnoughEarly(k) == k.granted + 1 >= k.required

\* is_expired
Expired(t) == t \in late

\* The guards and the count of ApprovalRequest::approve.
Open(k) == k.status = "pending"
Granted(k, a) == IF a \in k.approvers THEN k.granted ELSE k.granted + 1
Enough(k) == k.granted >= k.required

Signed(k, a) == [k EXCEPT !.approvers = @ \cup {a}, !.granted = Granted(k, a)]

\* approve: a request past its deadline becomes expired, whatever it was, and the
\* call fails; otherwise a pending request is signed, and approved if that is enough.
Approve(c) ==
    /\ pc[c] = "approve"
    /\ LET t == target[c]  k == requests[t]  s == Signed(k, voter[c])  IN
         \/ /\ Expired(t)
            /\ SetStatus(t, "expired")
            /\ Goto(c, "refused")
         \/ /\ ~Expired(t)
            /\ \/ ~Open(k) /\ UNCHANGED requests
               \/ Open(k) /\ Enough(s) /\ requests' = [requests EXCEPT ![t] = [s EXCEPT !.status = "approved"]]
               \/ Open(k) /\ ~Enough(s) /\ requests' = [requests EXCEPT ![t] = s]
            /\ Goto(c, IF job[c] = "vote" THEN "answer" ELSE "done")
    /\ UNCHANGED <<late, versions, args, target, answer>>

\* reject, whatever the status: of a vote, of a deletion, of an update.
Reject(c) ==
    /\ pc[c] = "reject"
    /\ SetStatus(target[c], "rejected")
    /\ \/ job[c] = "update" /\ Goto(c, "request")
       \/ job[c] = "vote" /\ Goto(c, "answer")
       \/ job[c] \in {"delete", "mcp"} /\ Goto(c, "done")
    /\ UNCHANGED <<late, versions, args, target, answer>>

\* get_request for the answer and, of a vote, for the event.
Answer(c) ==
    /\ pc[c] = "answer"
    /\ answer' = [answer EXCEPT ![c] = Status(target[c])]
    /\ Goto(c, "done")
    /\ UNCHANGED <<requests, late, versions, args, target>>

\* check_status of one request, expire_stale of all: the only operations that look
\* at the status before they expire a request.
ExpireStale ==
    LET stale == {t \in DOMAIN requests : Status(t) = "pending" /\ Expired(t)} IN
    /\ \E ts \in {stale} \cup {{t} : t \in stale} :
         /\ ts # {}
         /\ requests' = [t \in DOMAIN requests |->
                IF t \in ts THEN [requests[t] EXCEPT !.status = "expired"] ELSE requests[t]]
    /\ UNCHANGED <<late, versions, pc, args, target, answer>>

-------------------------------------------------------------------------------
(* Environment *)

\* The deadline of a request passes; the clock does not go back.
Elapse(t) ==
    /\ t \in DOMAIN requests \ late
    /\ late' = late \cup {t}
    /\ UNCHANGED <<requests, versions, pc, args, target, answer>>

\* The client hangs up while its handler waits for the registry's lock.
Disconnect(c) ==
    /\ pc[c] \notin {"idle"} \cup Settled
    /\ Goto(c, "gone")
    /\ UNCHANGED <<requests, late, versions, args, target, answer>>

-------------------------------------------------------------------------------
Init ==
    /\ requests = [t \in {} |-> Fresh(0)]
    /\ late = {} /\ versions = {}
    /\ pc = [c \in Calls |-> "idle"]
    /\ job = [c \in Calls |-> "none"]
    /\ target = [c \in Calls |-> NoId]
    /\ wanted = [c \in Calls |-> 0]
    /\ voter = [c \in Calls |-> NoId]
    /\ answer = [c \in Calls |-> "none"]

Arrivals(c) ==
    \/ \E n \in Required : CreateProposal(c, n)
    \/ \E t \in DOMAIN requests :
         \/ \E n \in Required : UpdateProposal(c, t, n)
         \/ DeleteProposal(c, t)
         \/ \E a \in Approvers : Vote(c, t, a)

Next ==
    \/ \E c \in Calls :
         \/ Arrivals(c) \/ Read(c) \/ Approve(c) \/ Reject(c) \/ Answer(c) \/ Disconnect(c)
         \/ \E t \in Ids : RequestApproval(c, t)
    \/ \E t \in Ids : Elapse(t)
    \/ ExpireStale

Spec == Init /\ [][Next]_vars

-------------------------------------------------------------------------------
(* Properties *)

\* Types; granted_approvals is the number of approvers, however often one votes.
TypeOK ==
    /\ DOMAIN requests \subseteq Ids
    /\ requests \in [DOMAIN requests -> Request]
    /\ \A t \in DOMAIN requests : requests[t].granted = Cardinality(requests[t].approvers)
    /\ late \subseteq DOMAIN requests
    /\ versions \subseteq Ids \X Ids
    /\ pc \in [Calls -> Steps]
    /\ job \in [Calls -> Jobs]
    /\ target \in [Calls -> DOMAIN requests \cup {NoId}]
    /\ wanted \in [Calls -> Required \cup {0}]
    /\ voter \in [Calls -> Approvers \cup {NoId}]
    /\ answer \in [Calls -> Statuses \cup {"none"}]

\* What the calls on their way know: whoever reads, votes, rejects or answers has found
\* its request; an update that opens the replacement has closed the old one; a call
\* that has answered is over.
Knows(c) ==
    /\ pc[c] \in {"read", "approve", "reject", "answer"} => target[c] \in DOMAIN requests
    /\ pc[c] = "approve" => voter[c] \in Approvers
    /\ pc[c] = "request" /\ job[c] = "update" =>
          target[c] \in DOMAIN requests /\ Status(target[c]) \in Closed
    /\ answer[c] # "none" => pc[c] = "done" /\ target[c] \in DOMAIN requests
Underway == \A c \in Calls : Knows(c)

\* The versions an update relates are requests.
VersionsKnown == \A v \in versions : v[1] \in DOMAIN requests

\* A request is approved, and a call answers that it is, only once as many different
\* approvers signed it as it requires (types/governance.rs approve).
Quorate(t) == Cardinality(requests[t].approvers) >= requests[t].required
ApprovedByQuorum ==
    /\ \A t \in DOMAIN requests : Status(t) = "approved" => Quorate(t)
    /\ \A c \in Calls : answer[c] = "approved" => Quorate(target[c])

\* A request that was rejected or expired is never approved nor pending again, not by a
\* vote that was on its way (approve signs pending requests only).
DenialsStand ==
    [][\A t \in DOMAIN requests : Status(t) \in Closed => Status(t)' \in Closed]_vars

\* No request becomes approved once its deadline has passed (approval.rs approve tests
\* is_expired under the lock it signs under).
ApprovedInTime ==
    [][\A t \in late : Status(t) # "approved" => Status(t)' # "approved"]_vars

\* A request that an update replaced is closed, whoever votes on it meanwhile: it and its
\* replacement are never both open (governance.rs update_proposal rejects, then requests).
ReplacedIsClosed ==
    \A v \in versions : Status(v[1]) \in Closed

\* Claimed by approval.rs ("This is a terminal state; no further transitions are
\* allowed", of Approved, Rejected and Expired): a request that is not pending stays
\* what it is.
TerminalStates ==
    [][\A t \in DOMAIN requests : Status(t) # "pending" => Status(t)' = Status(t)]_vars

===============================================================================
