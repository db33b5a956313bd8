---------------------------- MODULE TurnAdmission ---------------------------
(***************************************************************************)
(* How the worker admits a room's turn and charges it: the agent's         *)
(* runtime, the room's budget, the governance verdict, and the attribution *)
(* of the provider's costs.                                                *)
(*                                                                         *)
(* An agent's runtime has one cost tracker with one pending attribution.   *)
(* A turn sets it when it is admitted and clears it when it ends; the      *)
(* provider step copies it into the entry it records.  Turns of other      *)
(* rooms and direct chats with the same agent use the same tracker at the  *)
(* same time.  A runtime is named by the call that built it.               *)
(***************************************************************************)
EXTENDS Verdicts, FiniteSets

CONSTANTS Cap,          \* budget_cap in a room's snapshot, in answers; 0 for no cap
          MaxAnswers    \* provider answers in a turn

ASSUME AdmissionAssumption == Cap \in Nat /\ MaxAnswers \in Nat /\ None \notin Calls \cup Rooms

VARIABLES runtimes,   \* runtimes[a]: the runtime kept for a, None at first
          tracker,    \* tracker[c]: the runtime c works with
          slot,       \* slot[k]: the pending attribution of k, a room or None
          entries,    \* entries[k]: what was recorded on k
          read,       \* read[c]: the attribution c has copied
          answers,    \* answers[c]: provider answers of c so far
          admitted,   \* history: the turns let in
          mixed       \* history: calls that shared a runtime with another turn

turnVars == <<runtimes, tracker, slot, entries, read, answers, admitted, mixed>>
vars     == <<engineVars, turnVars>>

AgentOf(c) == key[c][1]
RoomOf(c)  == key[c][2]     \* None for a direct chat
Working    == {"turn", "record", "finalize"}

TypeOK ==
    /\ VerdictsTypeOK
    /\ pc \in [Calls -> {"idle", "runtime", "build", "budget", "answered", "done", "dropped"}
                        \cup EvalSteps \cup Working]
    /\ runtimes \in [Agents -> Calls \cup {None}]
    /\ tracker \in [Calls -> Calls \cup {None}]
    /\ slot \in [Calls -> Rooms \cup {None}] /\ read \in [Calls -> Rooms \cup {None}]
    /\ answers \in [Calls -> 0..MaxAnswers]
    /\ entries \in [Calls -> SUBSET [by : Calls, nth : 1..MaxAnswers, room : Rooms \cup {None}]]
    /\ admitted \subseteq Calls /\ mixed \subseteq Calls

Init ==
    /\ VerdictsInit
    /\ pc = [c \in Calls |-> "idle"]
    /\ runtimes = [a \in Agents |-> None]
    /\ tracker = [c \in Calls |-> None]
    /\ slot = [c \in Calls |-> None] /\ read = [c \in Calls |-> None]
    /\ answers = [c \in Calls |-> 0]
    /\ entries = [c \in Calls |-> {}]
    /\ admitted = {} /\ mixed = {}

rulings == <<now, changes, stores, cache>>
ruling  == <<rulings, low, verdict, asked>>

-----------------------------------------------------------------------------
(* Which runtime. *)

Arrive(c) ==
    /\ pc[c] = "idle"
    /\ \E a \in Agents, r \in Rooms \cup {None} : Ask(c, <<a, r>>)
    /\ Goto(c, "runtime")
    /\ UNCHANGED <<ruling, turnVars>>

\* Where a call goes once it has a runtime: a direct chat is not admitted by anyone.
Chosen(c, k) ==
    /\ tracker' = [tracker EXCEPT ![c] = k]
    /\ Goto(c, IF RoomOf(c) = None THEN "turn" ELSE "budget")

\* Calls whose turn is under way on k, and calls that left their attribution there.
SharedBy(c, k) == {d \in Calls \ {c} : tracker[d] = k /\ pc[d] \in Working}
LeftOn(k)      == {d \in Calls : tracker[d] = k /\ pc[d] = "dropped"}

\* History: who has company on a runtime when a turn starts there.
StartsTurn(c, k) ==
    LET others == SharedBy(c, k) IN
    mixed' = mixed \cup others
             \cup (IF others # {} \/ (RoomOf(c) = None /\ LeftOn(k) # {}) THEN {c} ELSE {})

Proceeds(c, k) ==
    /\ Chosen(c, k)
    /\ IF RoomOf(c) = None THEN StartsTurn(c, k) ELSE UNCHANGED mixed

\* The agent's runtime, unless the request names a model or a prompt of its own.
Reuse(c) ==
    /\ pc[c] = "runtime" /\ runtimes[AgentOf(c)] # None
    /\ Proceeds(c, runtimes[AgentOf(c)])
    /\ UNCHANGED <<ruling, key, runtimes, slot, entries, read, answers, admitted>>

Rebuild(c) ==
    /\ pc[c] = "runtime"
    /\ Goto(c, "build")
    /\ UNCHANGED <<ruling, key, turnVars>>

\* A new runtime has a new tracker.  It replaces the agent's, except for a request
\* with restricted tools.
Build(c) ==
    /\ pc[c] = "build"
    /\ Proceeds(c, c)
    /\ \/ runtimes' = [runtimes EXCEPT ![AgentOf(c)] = c]
       \/ UNCHANGED runtimes
    /\ UNCHANGED <<ruling, key, slot, entries, read, answers, admitted>>

-----------------------------------------------------------------------------
(* prepare_room_turn: budget, verdict, attribution. *)

Charged(k, r) == {e \in entries[k] : e.room = r}

\* The cap comes with the room's snapshot in the request; the turns of an orchestration
\* carry none and are not tested.
OverBudget(c) == Cap > 0 /\ Cardinality(Charged(tracker[c], RoomOf(c))) >= Cap

\* set_attribution comes after the verdict.  (Mutant: with the budget.)
AttributesFirst(c) == pc[c] = "budget"
Attributes(c)      == pc[c] = "answered"
SlotAfter(c) == IF Attributes(c) THEN [slot EXCEPT ![tracker[c]] = RoomOf(c)] ELSE slot

CheckBudget(c) ==
    /\ pc[c] = "budget"
    /\ slot' = SlotAfter(c)
    /\ \/ OverBudget(c) /\ Goto(c, "done")
       \/ Goto(c, "look")
    /\ UNCHANGED <<ruling, key, runtimes, tracker, entries, read, answers, admitted, mixed>>

EvaluateTurn(c) == Evaluate(c) /\ UNCHANGED turnVars

Allowed(c) == verdict[c].result = "allow"

Admit(c) ==
    /\ pc[c] = "answered" /\ Allowed(c)
    /\ slot' = SlotAfter(c)
    /\ admitted' = admitted \cup {c}
    /\ StartsTurn(c, tracker[c])
    /\ Goto(c, "turn") /\ Forget(c)
    /\ UNCHANGED <<rulings, key, runtimes, tracker, entries, read, answers>>

Refuse(c) ==
    /\ pc[c] = "answered" /\ ~Allowed(c)
    /\ Goto(c, "done") /\ Forget(c)
    /\ UNCHANGED <<rulings, key, turnVars>>

-----------------------------------------------------------------------------
(* The turn. *)

\* The provider has answered: record_cost copies the attribution ...
Answer(c) ==
    /\ pc[c] = "turn" /\ answers[c] < MaxAnswers
    /\ answers' = [answers EXCEPT ![c] = @ + 1]
    /\ read' = [read EXCEPT ![c] = slot[tracker[c]]]
    /\ Goto(c, "record")
    /\ UNCHANGED <<ruling, key, runtimes, tracker, slot, entries, admitted, mixed>>

\* ... and appends the entry under another lock.
Record(c) ==
    /\ pc[c] = "record"
    /\ entries' = [entries EXCEPT ![tracker[c]] =
                     @ \cup {[by |-> c, nth |-> answers[c], room |-> read[c]]}]
    /\ read' = [read EXCEPT ![c] = None]
    /\ Goto(c, "turn")
    /\ UNCHANGED <<ruling, key, runtimes, tracker, slot, answers, admitted, mixed>>

\* The turn ends, well or with an error; a direct chat has nothing to clean up.
EndTurn(c) ==
    /\ pc[c] = "turn"
    /\ Goto(c, IF RoomOf(c) = None THEN "done" ELSE "finalize")
    /\ UNCHANGED <<ruling, key, turnVars>>

\* (Mutant: the attribution stays.)
Kept(k)    == slot[k]
Cleared(k) == None

Finalize(c) ==
    /\ pc[c] = "finalize"
    /\ slot' = [slot EXCEPT ![tracker[c]] = Cleared(tracker[c])]
    /\ Goto(c, "done")
    /\ UNCHANGED <<ruling, key, runtimes, tracker, entries, read, answers, admitted, mixed>>

\* The client hangs up and the handler's future is dropped where it waits.
Drop(c) ==
    /\ pc[c] \notin {"idle", "done", "dropped"}
    /\ Goto(c, IF pc[c] \in Working /\ RoomOf(c) # None THEN "dropped" ELSE "done")
    /\ read' = [read EXCEPT ![c] = None] /\ Forget(c)
    /\ UNCHANGED <<rulings, key, runtimes, tracker, slot, entries, answers, admitted, mixed>>

-----------------------------------------------------------------------------
Call(c) ==
    \/ Arrive(c) \/ Reuse(c) \/ Rebuild(c) \/ Build(c)
    \/ CheckBudget(c) \/ EvaluateTurn(c) \/ Admit(c) \/ Refuse(c)
    \/ Answer(c) \/ Record(c) \/ EndTurn(c) \/ Finalize(c) \/ Drop(c)

Next == (\E c \in Calls : Call(c)) \/ (Govern /\ UNCHANGED turnVars)

Spec == Init /\ [][Next]_vars

-----------------------------------------------------------------------------
(* Properties *)

\* A reason to refuse a turn, a low score or a policy, is heeded once it has held for
\* the time to live of a verdict and as long as the evaluation behind it took: neither
\* the cache nor a slow evaluation that is stored late carries a permission further.
Unheeded(v, since, t) ==
    since # None /\ (since < v.began \/ since + TTL + (v.stored - v.began) <= t)
VerdictFresh ==
    \A c \in Calls : pc[c] = "answered" /\ Allowed(c) =>
        /\ ~Unheeded(verdict[c], lowSince[AgentOf(c)], asked[c])
        /\ ~Unheeded(verdict[c], policySince[key[c]], asked[c])

\* A room is charged on a runtime only if a turn of that room was admitted there:
\* refused and over-budget turns leave no attribution that a later chat is charged by.
ChargedOnlyAdmitted ==
    \A k \in Calls : \A e \in entries[k] : e.room # None =>
        \E c \in admitted : tracker[c] = k /\ RoomOf(c) = e.room

\* As long as the turns on a runtime do not overlap, every answer is charged to the
\* room that asked for it, and a direct chat to none.
ChargedApart ==
    \A k \in Calls : \A e \in entries[k] : e.by \notin mixed => e.room = RoomOf(e.by)
=============================================================================
