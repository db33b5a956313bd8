------------------------- MODULE TurnAdmission_proofs -----------------------
(***************************************************************************)
(* Proofs about the admission of room turns: types, that a permission is   *)
(* not carried past a reason to refuse, and who is charged.                *)
(***************************************************************************)
EXTENDS TurnAdmission, TLAPS

-----------------------------------------------------------------------------
(* Types *)

\* A call that has a key, a runtime or a verdict has it where its steps use it.
AtHand == \A c \in Calls :
    /\ pc[c] # "idle" => key[c] \in Agents \X (Rooms \cup {None})
    /\ pc[c] \in {"budget", "answered"} \cup EvalSteps => key[c] \in Keys /\ tracker[c] \in Calls
    /\ pc[c] \in Working \cup {"dropped"} => tracker[c] \in Calls
    /\ pc[c] \in {"trust", "policy", "store", "answered"} => verdict[c] \in Verdicts
    /\ pc[c] = "record" => answers[c] \in 1..MaxAnswers

Typed == TypeOK /\ AtHand

LEMMA TypedInit == Init => Typed
BY VerdictsAssumption, AdmissionAssumption
   DEF Init, VerdictsInit, Typed, TypeOK, VerdictsTypeOK, AtHand, Times, Effects, EvalSteps,
       Working

LEMMA ClampInRange == ASSUME NEW n \in Int PROVE Clamp(n) \in 0..Ceiling
BY VerdictsAssumption DEF Clamp

LEMMA TypedNext == Typed /\ [Next]_vars => Typed'
<1> SUFFICES ASSUME Typed, [Next]_vars PROVE Typed'
  OBVIOUS
<1>0. /\ Ceiling \in Nat /\ MaxTime \in Nat /\ MaxChanges \in Nat /\ MaxAnswers \in Nat
      /\ Deltas \subseteq Int /\ None \notin Calls \cup Rooms
      /\ now \in Times
  BY VerdictsAssumption, AdmissionAssumption DEF Typed, TypeOK, VerdictsTypeOK
<1> USE <1>0 DEF Typed, TypeOK, VerdictsTypeOK, AtHand, Goto, EvalSteps, Working
<1> USE DEF turnVars, ruling, rulings, stores
<1>1. ASSUME NEW c \in Calls, Arrive(c) PROVE Typed'
  BY <1>1 DEF Arrive, Ask
<1>2. ASSUME NEW c \in Calls, Reuse(c) PROVE Typed'
  BY <1>2 DEF Reuse, Proceeds, Chosen, StartsTurn, SharedBy, RoomOf, AgentOf, Keys
<1>3. ASSUME NEW c \in Calls, Rebuild(c) PROVE Typed'
  BY <1>3 DEF Rebuild
<1>4. ASSUME NEW c \in Calls, Build(c) PROVE Typed'
  BY <1>4 DEF Build, Proceeds, Chosen, StartsTurn, SharedBy, RoomOf, AgentOf, Keys
<1>5. ASSUME NEW c \in Calls, CheckBudget(c) PROVE Typed'
  BY <1>5 DEF CheckBudget, SlotAfter, Attributes
<1>6. ASSUME NEW c \in Calls, Look(c), UNCHANGED turnVars PROVE Typed'
  <2>1. key[c] \in Keys /\ [result |-> "deny", began |-> now, stored |-> now] \in Verdicts
    BY <1>6 DEF Look, Verdicts, Results
  <2>2. CASE Live(cache[key[c]])
    <3>1. cache[key[c]] \in Verdicts
      BY <2>1, <2>2 DEF Live
    <3> QED
      BY <1>6, <2>1, <2>2, <3>1 DEF Look
  <2>3. CASE ~Live(cache[key[c]])
    <3>1. verdict' = [verdict EXCEPT ![c] = [result |-> "deny", began |-> now, stored |-> now]]
          /\ pc' = [pc EXCEPT ![c] = "trust"]
      BY <1>6, <2>3 DEF Look
    <3>2. verdict' \in [Calls -> Verdicts \cup {None}] /\ verdict'[c] \in Verdicts
          /\ \A d \in Calls \ {c} : verdict'[d] = verdict[d]
      BY <2>1, <3>1
    <3>3. UNCHANGED <<now, changes, trust, policy, lowSince, policySince, cache, key, low>>
          /\ asked' = [asked EXCEPT ![c] = now]
      BY <1>6 DEF Look
    <3>4. TypeOK'
      BY <1>6, <3>1, <3>2, <3>3
    <3>5. AtHand'
      <4> SUFFICES ASSUME NEW d \in Calls
                   PROVE  /\ pc'[d] # "idle" => key[d] \in Agents \X (Rooms \cup {None})
                          /\ pc'[d] \in {"budget", "answered"} \cup EvalSteps =>
                               key[d] \in Keys /\ tracker[d] \in Calls
                          /\ pc'[d] \in Working \cup {"dropped"} => tracker[d] \in Calls
                          /\ pc'[d] \in {"trust", "policy", "store", "answered"} =>
                               verdict'[d] \in Verdicts
                          /\ pc'[d] = "record" => answers[d] \in 1..MaxAnswers
        BY <1>6, <3>3
      <4>1. CASE d = c
        BY <1>6, <3>1, <3>2, <4>1 DEF Look
      <4>2. CASE d # c
        BY <3>1, <3>2, <4>2
      <4> QED
        BY <4>1, <4>2
    <3> QED
      BY <3>4, <3>5
  <2> QED
    BY <2>2, <2>3
<1>7. ASSUME NEW c \in Calls, ReadTrust(c), UNCHANGED turnVars PROVE Typed'
  BY <1>7 DEF ReadTrust
<1>8. ASSUME NEW c \in Calls, ReadPolicies(c), UNCHANGED turnVars PROVE Typed'
  <2>1. Decided(policy[key[c]], low[c]) \in Results
    BY DEF Decided, Results
  <2> QED
    BY <1>8, <2>1 DEF ReadPolicies, Verdicts
<1>9. ASSUME NEW c \in Calls, Store(c), UNCHANGED turnVars PROVE Typed'
  BY <1>9 DEF Store, Verdicts
<1>10. ASSUME NEW c \in Calls, Admit(c) PROVE Typed'
  BY <1>10 DEF Admit, SlotAfter, Attributes, StartsTurn, SharedBy, Forget, RoomOf, Keys, Times
<1>11. ASSUME NEW c \in Calls, Refuse(c) PROVE Typed'
  BY <1>11 DEF Refuse, Forget, Times
<1>12. ASSUME NEW c \in Calls, Answer(c) PROVE Typed'
  BY <1>12 DEF Answer
<1>13. ASSUME NEW c \in Calls, Record(c) PROVE Typed'
  BY <1>13 DEF Record
<1>14. ASSUME NEW c \in Calls, EndTurn(c) PROVE Typed'
  BY <1>14 DEF EndTurn
<1>15. ASSUME NEW c \in Calls, Finalize(c) PROVE Typed'
  BY <1>15 DEF Finalize, Cleared
<1>16. ASSUME NEW c \in Calls, Drop(c) PROVE Typed'
  BY <1>16 DEF Drop, Forget, Times
<1>17. ASSUME NEW a \in Agents, UpdateTrust(a), UNCHANGED turnVars PROVE Typed'
  BY <1>17, ClampInRange DEF UpdateTrust, Since
<1>18. ASSUME NEW k \in Keys, AddPolicy(k), UNCHANGED turnVars PROVE Typed'
  BY <1>18 DEF AddPolicy, Since
<1>19. CASE Elapse /\ UNCHANGED turnVars
  BY <1>19 DEF Elapse, Times
<1>20. CASE UNCHANGED vars
  BY <1>20 DEF vars, engineVars
<1> QED
  BY <1>1, <1>2, <1>3, <1>4, <1>5, <1>6, <1>7, <1>8, <1>9, <1>10, <1>11, <1>12, <1>13, <1>14,
     <1>15, <1>16, <1>17, <1>18, <1>19, <1>20 DEF Next, Call, EvaluateTurn, Evaluate, Govern

\* Every table, queue of entries and call keeps its type: trust scores stay in their range,
\* whatever is added to them.
THEOREM SpecTypeOK == Spec => []TypeOK
<1>1. Typed => TypeOK
  BY DEF Typed
<1> QED
  BY <1>1, TypedInit, TypedNext, PTL DEF Spec

-----------------------------------------------------------------------------
(* Who is charged *)

\* A turn of r was admitted on k.
AdmittedOn(k, r) == \E c \in admitted : tracker[c] = k /\ RoomOf(c) = r

\* An admitted call keeps its runtime and its room to the end.
Settled   == \A c \in admitted : pc[c] \in Working \cup {"done", "dropped"}
SlotsOwed == \A k \in Calls : slot[k] # None => AdmittedOn(k, slot[k])
ReadsOwed == \A c \in Calls : pc[c] = "record" /\ read[c] # None =>
                AdmittedOn(tracker[c], read[c])
ChargeInv == Settled /\ SlotsOwed /\ ReadsOwed /\ ChargedOnlyAdmitted

LEMMA ChargeInvInit == Init => ChargeInv
BY DEF Init, ChargeInv, Settled, SlotsOwed, ReadsOwed, ChargedOnlyAdmitted

Begun == Working \cup {"done", "dropped"}

\* From the start of its turn on a call keeps its runtime and its room.
LEMMA BegunStays ==
    ASSUME Typed, [Next]_vars, NEW d \in Calls, pc[d] \in Begun
    PROVE  tracker'[d] = tracker[d] /\ key'[d] = key[d]
<1> USE DEF Typed, TypeOK, VerdictsTypeOK, Working, Begun
<1>1. ASSUME NEW e \in Calls, Arrive(e) PROVE tracker'[d] = tracker[d] /\ key'[d] = key[d]
  BY <1>1 DEF Arrive, Ask, turnVars
<1>2. ASSUME NEW e \in Calls, Reuse(e) \/ Build(e)
      PROVE  tracker'[d] = tracker[d] /\ key'[d] = key[d]
  BY <1>2 DEF Reuse, Build, Proceeds, Chosen
<1> QED
  BY <1>1, <1>2
     DEF Next, Call, Rebuild, CheckBudget, EvaluateTurn, Evaluate, Look, ReadTrust,
         ReadPolicies, Store, Admit, Refuse, Answer, Record, EndTurn, Finalize, Drop, Govern,
         UpdateTrust, AddPolicy, Elapse, turnVars, vars, engineVars

\* What was admitted stays admitted, where it was.
LEMMA AdmittedStays ==
    ASSUME Typed, Settled, [Next]_vars, NEW k, NEW r, AdmittedOn(k, r)
    PROVE  AdmittedOn(k, r)'
<1> SUFFICES ASSUME NEW c \in admitted
             PROVE  c \in admitted' /\ tracker'[c] = tracker[c] /\ key'[c] = key[c]
  BY DEF AdmittedOn, RoomOf
<1>1. pc[c] \in Working \cup {"done", "dropped"} /\ c \in Calls
  BY DEF Settled, Typed, TypeOK
<1>2. admitted \subseteq admitted'
  BY DEF Next, Call, Arrive, Reuse, Rebuild, Build, CheckBudget, EvaluateTurn, Admit, Refuse,
         Answer, Record, EndTurn, Finalize, Drop, Govern, turnVars, vars
<1> QED
  BY <1>1, <1>2, BegunStays DEF Begun

LEMMA ChargeInvNext == Typed /\ ChargeInv /\ [Next]_vars => ChargeInv'
<1> SUFFICES ASSUME Typed, ChargeInv, [Next]_vars PROVE ChargeInv'
  OBVIOUS
<1>1. \A k, r : AdmittedOn(k, r) => AdmittedOn(k, r)'
  BY AdmittedStays DEF ChargeInv
<1>2. Settled'
  <2> USE DEF Typed, TypeOK, ChargeInv, Settled, Working, Goto
  <2>1. ASSUME NEW c \in Calls, NEW l, pc' = [pc EXCEPT ![c] = l],
               \/ admitted' = admitted /\ pc[c] \notin Working \cup {"done", "dropped"}
               \/ admitted' \subseteq admitted \cup {c} /\ l \in Working \cup {"done", "dropped"}
        PROVE  Settled'
    BY <2>1
  <2>2. ASSUME NEW c \in Calls, Arrive(c) \/ Reuse(c) \/ Rebuild(c) \/ Build(c) PROVE Settled'
    BY <2>1, <2>2 DEF Arrive, Reuse, Rebuild, Build, Proceeds, Chosen, turnVars
  <2>3. ASSUME NEW c \in Calls, CheckBudget(c) \/ Admit(c) \/ Refuse(c) PROVE Settled'
    BY <2>1, <2>3 DEF CheckBudget, Admit, Refuse, turnVars
  <2>4. ASSUME NEW c \in Calls, Look(c) \/ ReadTrust(c) \/ ReadPolicies(c) \/ Store(c),
               UNCHANGED turnVars
        PROVE  Settled'
    BY <2>1, <2>4 DEF Look, ReadTrust, ReadPolicies, Store, turnVars
  <2>5. ASSUME NEW c \in Calls, Answer(c) \/ Record(c) \/ EndTurn(c) \/ Finalize(c) \/ Drop(c)
        PROVE  Settled'
    BY <2>1, <2>5 DEF Answer, Record, EndTurn, Finalize, Drop, turnVars
  <2>6. UNCHANGED <<pc, admitted>> => Settled'
    OBVIOUS
  <2> QED
    BY <2>2, <2>3, <2>4, <2>5, <2>6
       DEF Next, Call, EvaluateTurn, Evaluate, Govern, UpdateTrust, AddPolicy, Elapse,
           turnVars, vars, engineVars
\* A step that attributes, copies and records nothing.
<1>3. ASSUME UNCHANGED <<slot, entries, read>>,
             \A c \in Calls : pc'[c] = "record" => pc[c] = "record" /\ tracker'[c] = tracker[c]
      PROVE  ChargeInv'
  <2>1. SlotsOwed' /\ ReadsOwed'
    BY <1>1, <1>3 DEF ChargeInv, SlotsOwed, ReadsOwed
  <2>2. ChargedOnlyAdmitted'
    BY <1>1, <1>3 DEF ChargeInv, ChargedOnlyAdmitted, AdmittedOn
  <2> QED
    BY <1>2, <2>1, <2>2 DEF ChargeInv
<1>4. ASSUME NEW c \in Calls, NEW l, pc' = [pc EXCEPT ![c] = l], l # "record",
             UNCHANGED <<slot, entries, read>>,
             \A d \in Calls : d # c => tracker'[d] = tracker[d]
      PROVE  ChargeInv'
  BY <1>3, <1>4 DEF Typed, TypeOK
<1>5. ASSUME NEW c \in Calls, \/ Arrive(c) \/ Reuse(c) \/ Rebuild(c) \/ Build(c)
                             \/ CheckBudget(c) \/ Refuse(c) \/ EndTurn(c)
      PROVE  ChargeInv'
  <2>1. \A d \in Calls : d # c => tracker'[d] = tracker[d]
    BY <1>5 DEF Arrive, Reuse, Rebuild, Build, Proceeds, Chosen, CheckBudget, Refuse, EndTurn,
                turnVars, Typed, TypeOK
  <2>2. UNCHANGED <<slot, entries, read>>
    BY <1>5 DEF Arrive, Reuse, Rebuild, Build, CheckBudget, SlotAfter, Attributes, Refuse,
                EndTurn, turnVars
  <2>3. \E l : pc' = [pc EXCEPT ![c] = l] /\ l # "record"
    BY <1>5 DEF Arrive, Reuse, Rebuild, Build, Proceeds, Chosen, CheckBudget, Refuse, EndTurn,
                Goto
  <2> QED
    BY <1>4, <2>1, <2>2, <2>3
<1>6. ASSUME NEW c \in Calls, Look(c) \/ ReadTrust(c) \/ ReadPolicies(c) \/ Store(c),
             UNCHANGED turnVars
      PROVE  ChargeInv'
  BY <1>4, <1>6 DEF Look, ReadTrust, ReadPolicies, Store, Goto, turnVars
<1>7. ASSUME NEW c \in Calls, Admit(c) PROVE ChargeInv'
  <2>1. /\ slot' = [slot EXCEPT ![tracker[c]] = RoomOf(c)] /\ admitted' = admitted \cup {c}
        /\ UNCHANGED <<entries, tracker, read, key>> /\ pc' = [pc EXCEPT ![c] = "turn"]
    BY <1>7 DEF Admit, SlotAfter, Attributes, Goto, rulings
  <2>2. \A k, r : k = tracker[c] /\ r = RoomOf(c) => AdmittedOn(k, r)'
    BY <2>1 DEF AdmittedOn, RoomOf
  <2>3. SlotsOwed'
    <3> SUFFICES ASSUME NEW k \in Calls, NEW r, r = slot'[k], r # None
                 PROVE  AdmittedOn(k, r)'
      BY DEF SlotsOwed, AdmittedOn
    <3>1. CASE k = tracker[c]
      BY <2>1, <2>2, <3>1 DEF Typed, TypeOK
    <3>2. CASE k # tracker[c]
      BY <1>1, <2>1, <3>2 DEF ChargeInv, SlotsOwed, Typed, TypeOK
    <3> QED
      BY <3>1, <3>2
  <2>4. ReadsOwed'
    BY <1>1, <2>1 DEF ChargeInv, ReadsOwed, Typed, TypeOK
  <2>5. ChargedOnlyAdmitted'
    BY <1>1, <2>1 DEF ChargeInv, ChargedOnlyAdmitted, AdmittedOn
  <2> QED
    BY <1>2, <2>3, <2>4, <2>5 DEF ChargeInv
<1>8. ASSUME NEW c \in Calls, Answer(c) PROVE ChargeInv'
  <2>1. /\ UNCHANGED <<slot, entries, tracker>> /\ tracker[c] \in Calls
        /\ read' = [read EXCEPT ![c] = slot[tracker[c]]]
        /\ pc' = [pc EXCEPT ![c] = "record"]
    BY <1>8 DEF Answer, Goto, Typed, AtHand, Working
  <2>2. ReadsOwed'
    BY <1>1, <2>1 DEF ChargeInv, SlotsOwed, ReadsOwed, Typed, TypeOK
  <2>3. SlotsOwed'
    BY <1>1, <2>1 DEF ChargeInv, SlotsOwed
  <2>4. ChargedOnlyAdmitted'
    BY <1>1, <2>1 DEF ChargeInv, ChargedOnlyAdmitted, AdmittedOn
  <2> QED
    BY <1>2, <2>2, <2>3, <2>4 DEF ChargeInv
<1>9. ASSUME NEW c \in Calls, Record(c) PROVE ChargeInv'
  <2>1. /\ UNCHANGED <<slot, tracker>> /\ pc[c] = "record"
        /\ entries' = [entries EXCEPT ![tracker[c]] =
                         @ \cup {[by |-> c, nth |-> answers[c], room |-> read[c]]}]
        /\ read' = [read EXCEPT ![c] = None] /\ pc' = [pc EXCEPT ![c] = "turn"]
    BY <1>9 DEF Record, Goto
  <2>2. SlotsOwed' /\ ReadsOwed'
    BY <1>1, <2>1 DEF ChargeInv, SlotsOwed, ReadsOwed, Typed, TypeOK
  <2>3. ChargedOnlyAdmitted'
    <3> SUFFICES ASSUME NEW k \in Calls, NEW e \in entries'[k], e.room # None
                 PROVE  AdmittedOn(k, e.room)'
      BY DEF ChargedOnlyAdmitted, AdmittedOn
    <3>1. CASE e \in entries[k]
      BY <1>1, <3>1 DEF ChargeInv, ChargedOnlyAdmitted, AdmittedOn
    <3>2. CASE e \notin entries[k]
      <4>1. k = tracker[c] /\ e.room = read[c]
        BY <2>1, <3>2 DEF Typed, TypeOK
      <4> QED
        BY <1>1, <2>1, <4>1 DEF ChargeInv, ReadsOwed
    <3> QED
      BY <3>1, <3>2
  <2> QED
    BY <1>2, <2>2, <2>3 DEF ChargeInv
<1>10. ASSUME NEW c \in Calls, Finalize(c) \/ Drop(c) PROVE ChargeInv'
  <2>1. /\ UNCHANGED <<entries, tracker>>
        /\ \E l : l # "record" /\ pc' = [pc EXCEPT ![c] = l]
        /\ \A k \in Calls : slot'[k] \in {slot[k], None}
        /\ \A d \in Calls : d # c => read'[d] = read[d]
    BY <1>10 DEF Finalize, Cleared, Drop, Goto, Typed, TypeOK
  <2>2. SlotsOwed' /\ ReadsOwed'
    BY <1>1, <2>1 DEF ChargeInv, SlotsOwed, ReadsOwed, Typed, TypeOK
  <2>3. ChargedOnlyAdmitted'
    BY <1>1, <2>1 DEF ChargeInv, ChargedOnlyAdmitted, AdmittedOn
  <2> QED
    BY <1>2, <2>2, <2>3 DEF ChargeInv
<1>11. UNCHANGED <<pc, turnVars>> => ChargeInv'
  BY <1>3 DEF turnVars
<1> QED
  BY <1>5, <1>6, <1>7, <1>8, <1>9, <1>10, <1>11
     DEF Next, Call, EvaluateTurn, Evaluate, Govern, UpdateTrust, AddPolicy, Elapse, vars,
         engineVars

\* A room is charged only on a runtime where a turn of its was admitted, however calls for
\* the same agent are interleaved, refused, dropped or given a runtime of their own.
THEOREM SpecChargedOnlyAdmitted == Spec => []ChargedOnlyAdmitted
<1>1. ChargeInv => ChargedOnlyAdmitted
  BY DEF ChargeInv
<1> QED
  BY <1>1, TypedInit, TypedNext, ChargeInvInit, ChargeInvNext, PTL DEF Spec

-----------------------------------------------------------------------------
(* Permissions and reasons to refuse *)

\* A reason does not hold, or has not held before b.
NotBefore(since, b) == since = None \/ since >= b

\* A permission for k was begun before any reason that holds against k now.
Granted(v, k) == v.result = "allow" => /\ NotBefore(lowSince[k[1]], v.began)
                                       /\ NotBefore(policySince[k], v.began)

\* A score or a policy that gives no reason is not remembered as one.
Reasons == /\ \A a \in Agents : trust[a] >= MinTrust => lowSince[a] = None
           /\ \A k \in Keys : policy[k] = "none" => policySince[k] = None
Cached  == \A k \in Keys : cache[k] # None =>
              /\ Granted(cache[k], k)
              /\ cache[k].began <= cache[k].stored /\ cache[k].stored <= now
Held    == \A c \in Calls :
    /\ pc[c] \in {"trust", "policy", "store", "answered"} => verdict[c].began <= now
    /\ pc[c] \in {"trust", "policy", "store"} => verdict[c].began = asked[c]
    /\ pc[c] \in {"trust", "policy"} => verdict[c].result = "deny"
    /\ pc[c] = "policy" => low[c] \/ NotBefore(lowSince[key[c][1]], verdict[c].began)
    /\ pc[c] \in {"store", "answered"} => Granted(verdict[c], key[c])
    /\ pc[c] = "answered" => /\ verdict[c].began <= verdict[c].stored
                             /\ asked[c] < verdict[c].stored + TTL

FreshInv == Reasons /\ Cached /\ Held

LEMMA FreshInvInit == Init => FreshInv
BY VerdictsAssumption DEF Init, VerdictsInit, FreshInv, Reasons, Cached, Held

\* A permission of a time before now is held against no reason that is noted now.
LEMMA SinceLater ==
    ASSUME NEW since, NEW b \in Int, now \in Int, b <= now, NotBefore(since, b), NEW bad
    PROVE  NotBefore(Since(bad, since), b)
BY DEF NotBefore, Since

\* What was begun before every reason is not refused by one that is old enough.
LEMMA GrantedHeeded ==
    ASSUME Typed, Held, NEW c \in Calls, pc[c] = "answered",
           NEW since \in Times \cup {None}, NotBefore(since, verdict[c].began)
    PROVE  ~Unheeded(verdict[c], since, asked[c])
<1>1. /\ verdict[c] \in Verdicts /\ asked[c] \in Times
      /\ verdict[c].began <= verdict[c].stored /\ asked[c] < verdict[c].stored + TTL
  BY DEF Typed, TypeOK, VerdictsTypeOK, AtHand, Held
<1>2. \A t \in Times : t \in Int
  BY VerdictsAssumption DEF Times
<1>3. verdict[c].began \in Int /\ verdict[c].stored \in Int /\ asked[c] \in Int /\ TTL \in Int
  BY <1>1, <1>2, VerdictsAssumption DEF Verdicts
<1> QED
  BY <1>1, <1>2, <1>3 DEF Unheeded, NotBefore

LEMMA FreshIsVerdictFresh == Typed /\ FreshInv => VerdictFresh
<1> SUFFICES ASSUME Typed, Held, NEW c \in Calls, pc[c] = "answered", Allowed(c)
             PROVE  /\ ~Unheeded(verdict[c], lowSince[AgentOf(c)], asked[c])
                    /\ ~Unheeded(verdict[c], policySince[key[c]], asked[c])
  BY DEF FreshInv, VerdictFresh
<1>1. key[c] \in Keys /\ key[c][1] \in Agents
  BY DEF Typed, AtHand, Keys
<1>2. lowSince[key[c][1]] \in Times \cup {None} /\ policySince[key[c]] \in Times \cup {None}
  BY <1>1 DEF Typed, TypeOK, VerdictsTypeOK
<1>3. /\ NotBefore(lowSince[key[c][1]], verdict[c].began)
      /\ NotBefore(policySince[key[c]], verdict[c].began)
  BY DEF Held, Granted, Allowed
<1> QED
  BY <1>2, <1>3, GrantedHeeded DEF AgentOf

LEMMA FreshInvNext == Typed /\ FreshInv /\ [Next]_vars => FreshInv'
<1> SUFFICES ASSUME Typed, FreshInv, [Next]_vars PROVE FreshInv'
  OBVIOUS
<1>0. /\ now \in Int /\ TTL \in Nat \ {0} /\ MinTrust \in Int
      /\ \A t \in Times : t \in Int
      /\ \A v \in Verdicts : v.began \in Int /\ v.stored \in Int /\ v.result \in Results
      /\ now \in Times
  BY VerdictsAssumption DEF Typed, TypeOK, VerdictsTypeOK, Times, Verdicts
\* A step that leaves the scores, the policies and the cache alone.
<1>1. ASSUME UNCHANGED <<now, stores, cache>>, Held' PROVE FreshInv'
  BY <1>1 DEF FreshInv, Reasons, Cached, Granted, stores
<1>2. ASSUME NEW c \in Calls, NEW l, pc' = [pc EXCEPT ![c] = l],
             l \notin {"trust", "policy", "store", "answered"},
             UNCHANGED <<now, stores, cache>>,
             \A d \in Calls \ {c} : /\ verdict'[d] = verdict[d] /\ asked'[d] = asked[d]
                                    /\ key'[d] = key[d] /\ low'[d] = low[d]
      PROVE  FreshInv'
  <2>1. Held'
    BY <1>2 DEF FreshInv, Held, Granted, stores, Typed, TypeOK
  <2> QED
    BY <1>1, <1>2, <2>1
<1>3. ASSUME NEW c \in Calls, \/ Arrive(c) \/ Reuse(c) \/ Rebuild(c) \/ Build(c)
                              \/ CheckBudget(c) \/ Admit(c) \/ Refuse(c) \/ Answer(c)
                              \/ Record(c) \/ EndTurn(c) \/ Finalize(c) \/ Drop(c)
      PROVE  FreshInv'
  <2>1. /\ UNCHANGED <<now, stores, cache>>
        /\ \E l : /\ l \notin {"trust", "policy", "store", "answered"}
                  /\ pc' = [pc EXCEPT ![c] = l]
    BY <1>3 DEF Arrive, Reuse, Rebuild, Build, Proceeds, Chosen, CheckBudget, Admit, Refuse,
                Answer, Record, EndTurn, Finalize, Drop, Goto, ruling, rulings
  <2>2. \A d \in Calls \ {c} : /\ verdict'[d] = verdict[d] /\ asked'[d] = asked[d]
                               /\ key'[d] = key[d] /\ low'[d] = low[d]
    BY <1>3 DEF Arrive, Ask, Reuse, Rebuild, Build, CheckBudget, Admit, Refuse, Answer, Record,
                EndTurn, Finalize, Drop, Forget, ruling, Typed, TypeOK, VerdictsTypeOK
  <2> QED
    BY <1>2, <2>1, <2>2
\* What one evaluation does to the others' verdicts: nothing.
<1>4. ASSUME NEW c \in Calls, UNCHANGED <<now, stores, key>>,
             \A d \in Calls \ {c} : /\ verdict'[d] = verdict[d] /\ asked'[d] = asked[d]
                                    /\ low'[d] = low[d] /\ pc'[d] = pc[d],
             /\ pc'[c] \in {"trust", "policy", "store", "answered"} => verdict'[c].began <= now
             /\ pc'[c] \in {"trust", "policy", "store"} => verdict'[c].began = asked'[c]
             /\ pc'[c] \in {"trust", "policy"} => verdict'[c].result = "deny"
             /\ pc'[c] = "policy" => low'[c] \/ NotBefore(lowSince[key[c][1]], verdict'[c].began)
             /\ pc'[c] \in {"store", "answered"} =>
                  (verdict'[c].result = "allow" =>
                     /\ NotBefore(lowSince[key[c][1]], verdict'[c].began)
                     /\ NotBefore(policySince[key[c]], verdict'[c].began))
             /\ pc'[c] = "answered" => /\ verdict'[c].began <= verdict'[c].stored
                                       /\ asked'[c] < verdict'[c].stored + TTL
      PROVE  Held'
  BY <1>4 DEF FreshInv, Held, Granted, stores
<1>5. ASSUME NEW c \in Calls, Look(c), UNCHANGED turnVars PROVE FreshInv'
  <2>1. key[c] \in Keys /\ cache[key[c]] \in Verdicts \cup {None}
    BY <1>5 DEF Look, Typed, TypeOK, VerdictsTypeOK, AtHand, EvalSteps
  <2>2. /\ UNCHANGED <<now, stores, cache, key, low>>
        /\ \A d \in Calls \ {c} : /\ verdict'[d] = verdict[d] /\ asked'[d] = asked[d]
                                  /\ low'[d] = low[d] /\ pc'[d] = pc[d]
        /\ asked'[c] = now
    BY <1>5 DEF Look, Goto, Typed, TypeOK, VerdictsTypeOK
  <2>3. CASE Live(cache[key[c]])
    <3>1. pc'[c] = "answered" /\ verdict'[c] = cache[key[c]]
      BY <1>5, <2>3 DEF Look, Goto, Live, Typed, TypeOK, VerdictsTypeOK
    <3>2. /\ cache[key[c]] \in Verdicts /\ Granted(cache[key[c]], key[c])
          /\ cache[key[c]].began <= cache[key[c]].stored /\ cache[key[c]].stored <= now
          /\ now < cache[key[c]].stored + TTL
      BY <1>0, <2>1, <2>3 DEF Live, FreshInv, Cached
    <3>3. Held'
      BY <1>0, <1>4, <2>2, <3>1, <3>2 DEF Granted
    <3> QED
      BY <1>1, <2>2, <3>3
  <2>4. CASE ~Live(cache[key[c]])
    <3>1. pc'[c] = "trust" /\ verdict'[c] = [result |-> "deny", began |-> now, stored |-> now]
      BY <1>5, <2>4 DEF Look, Goto, Typed, TypeOK, VerdictsTypeOK
    <3>2. Held'
      BY <1>0, <1>4, <2>2, <3>1
    <3> QED
      BY <1>1, <2>2, <3>2
  <2> QED
    BY <2>3, <2>4
<1>6. ASSUME NEW c \in Calls, ReadTrust(c), UNCHANGED turnVars PROVE FreshInv'
  <2>1. /\ UNCHANGED <<now, stores, cache, key, verdict, asked>> /\ pc[c] = "trust"
        /\ \A d \in Calls \ {c} : low'[d] = low[d] /\ pc'[d] = pc[d]
        /\ low'[c] = (trust[key[c][1]] < MinTrust) /\ pc'[c] \in {"store", "policy"}
    BY <1>6 DEF ReadTrust, Goto, Typed, TypeOK, VerdictsTypeOK
  <2>2. key[c][1] \in Agents /\ trust[key[c][1]] \in Int
    BY <2>1, VerdictsAssumption DEF Typed, TypeOK, VerdictsTypeOK, AtHand, EvalSteps, Keys
  <2>3. low'[c] \/ lowSince[key[c][1]] = None
    <3>1. CASE trust[key[c][1]] >= MinTrust
      BY <2>2, <3>1 DEF FreshInv, Reasons
    <3>2. CASE trust[key[c][1]] < MinTrust
      BY <2>1, <3>2, Zenon
    <3> QED
      BY <1>0, <2>2, <3>1, <3>2
  <2>4. verdict[c].began <= now /\ verdict[c].began = asked[c] /\ verdict[c].result = "deny"
    BY <2>1 DEF FreshInv, Held
  <2>5. Held'
    BY <1>4, <2>1, <2>3, <2>4 DEF NotBefore
  <2> QED
    BY <1>1, <2>1, <2>5
<1>7. ASSUME NEW c \in Calls, ReadPolicies(c), UNCHANGED turnVars PROVE FreshInv'
  <2>1. /\ UNCHANGED <<now, stores, cache, key, low, asked>> /\ pc[c] = "policy"
        /\ \A d \in Calls \ {c} : verdict'[d] = verdict[d] /\ pc'[d] = pc[d]
        /\ pc'[c] = "store" /\ verdict[c] \in Verdicts /\ key[c] \in Keys
        /\ verdict' = [verdict EXCEPT ![c].result = Decided(policy[key[c]], low[c])]
    BY <1>7 DEF ReadPolicies, Goto, Typed, TypeOK, VerdictsTypeOK, AtHand, EvalSteps
  <2>2. /\ verdict'[c].result = Decided(policy[key[c]], low[c])
        /\ verdict'[c].began = verdict[c].began
    BY <2>1 DEF Verdicts, Typed, TypeOK, VerdictsTypeOK
  <2>3. policy[key[c]] \in Effects /\ low[c] \in BOOLEAN
    BY <2>1 DEF Typed, TypeOK, VerdictsTypeOK
  <2>4. verdict'[c].result = "allow" => ~low[c] /\ policy[key[c]] = "none"
    BY <2>2, <2>3 DEF Decided, Effects
  <2>5. verdict'[c].result = "allow" => /\ NotBefore(lowSince[key[c][1]], verdict'[c].began)
                                        /\ NotBefore(policySince[key[c]], verdict'[c].began)
    BY <2>1, <2>2, <2>4 DEF FreshInv, Held, Reasons, NotBefore
  <2>6. verdict[c].began <= now /\ verdict[c].began = asked[c]
    BY <2>1 DEF FreshInv, Held
  <2>7. Held'
    BY <1>4, <2>1, <2>2, <2>5, <2>6
  <2> QED
    BY <1>1, <2>1, <2>7
<1>8. ASSUME NEW c \in Calls, Store(c), UNCHANGED turnVars PROVE FreshInv'
  <2>1. /\ UNCHANGED <<now, stores, key, low, asked>> /\ pc[c] = "store"
        /\ \A d \in Calls \ {c} : verdict'[d] = verdict[d] /\ pc'[d] = pc[d]
        /\ pc'[c] = "answered" /\ verdict[c] \in Verdicts /\ key[c] \in Keys
        /\ verdict' = [verdict EXCEPT ![c].stored = now]
        /\ cache' = [cache EXCEPT ![key[c]] = [verdict[c] EXCEPT !.stored = now]]
    BY <1>8 DEF Store, Goto, Typed, TypeOK, VerdictsTypeOK, AtHand, EvalSteps
  <2>2. /\ verdict'[c].result = verdict[c].result /\ verdict'[c].began = verdict[c].began
        /\ verdict'[c].stored = now
        /\ cache'[key[c]] = verdict'[c] /\ \A k \in Keys \ {key[c]} : cache'[k] = cache[k]
    BY <2>1 DEF Verdicts, Typed, TypeOK, VerdictsTypeOK
  <2>3. /\ Granted(verdict[c], key[c])
        /\ verdict[c].began <= now /\ verdict[c].began = asked[c]
    BY <2>1 DEF FreshInv, Held
  <2>4. Held'
    BY <1>0, <1>4, <2>1, <2>2, <2>3 DEF Granted
  <2>5. Cached'
    BY <1>0, <2>1, <2>2, <2>3 DEF FreshInv, Cached, Granted, stores
  <2>6. Reasons'
    BY <2>1 DEF FreshInv, Reasons, stores
  <2> QED
    BY <2>4, <2>5, <2>6 DEF FreshInv
\* The reasons change.
<1>9. ASSUME UNCHANGED <<now, cache, pc, key, low, verdict, asked>>, Reasons',
             \A a \in Agents : \E bad : lowSince'[a] \in {lowSince[a], Since(bad, lowSince[a])},
             \A k \in Keys : \E bad :
                policySince'[k] \in {policySince[k], Since(bad, policySince[k])}
      PROVE  FreshInv'
  <2>1. \A a \in Agents, b \in Int : b <= now /\ NotBefore(lowSince[a], b) =>
           NotBefore(lowSince'[a], b)
    BY <1>0, <1>9, SinceLater
  <2>2. \A k \in Keys, b \in Int : b <= now /\ NotBefore(policySince[k], b) =>
           NotBefore(policySince'[k], b)
    BY <1>0, <1>9, SinceLater
  <2>3. \A k \in Keys, v \in Verdicts : v.began <= now /\ Granted(v, k) => Granted(v, k)'
    BY <1>0, <2>1, <2>2 DEF Granted, Keys
  <2>4. Cached'
    BY <1>0, <1>9, <2>3 DEF FreshInv, Cached, Typed, TypeOK, VerdictsTypeOK
  <2>5. Held'
    BY <1>0, <1>9, <2>1, <2>3 DEF FreshInv, Held, Typed, TypeOK, VerdictsTypeOK, AtHand,
                                  EvalSteps, Keys
  <2> QED
    BY <1>9, <2>4, <2>5 DEF FreshInv
<1>10. ASSUME NEW a \in Agents, UpdateTrust(a), UNCHANGED turnVars PROVE FreshInv'
  <2>1. PICK d \in Deltas : /\ trust' = [trust EXCEPT ![a] = Clamp(trust[a] + d)]
                            /\ lowSince' = [lowSince EXCEPT ![a] =
                                              Since(Clamp(trust[a] + d) < MinTrust, @)]
    BY <1>10 DEF UpdateTrust
  <2>2. UNCHANGED <<now, policy, policySince, cache, pc, key, low, verdict, asked>>
    BY <1>10 DEF UpdateTrust
  <2>3. trust[a] + d \in Int /\ Clamp(trust[a] + d) \in Int
    <3>1. trust[a] \in Int /\ d \in Int
      BY VerdictsAssumption DEF Typed, TypeOK, VerdictsTypeOK
    <3> QED
      BY <3>1, ClampInRange, VerdictsAssumption
  <2>4. Reasons'
    BY <1>0, <2>1, <2>2, <2>3 DEF FreshInv, Reasons, Since, Typed, TypeOK, VerdictsTypeOK
  <2>5. \A b \in Agents : \E bad : lowSince'[b] \in {lowSince[b], Since(bad, lowSince[b])}
    BY <2>1 DEF Typed, TypeOK, VerdictsTypeOK
  <2> QED
    BY <1>9, <2>2, <2>4, <2>5
<1>11. ASSUME NEW k \in Keys, AddPolicy(k), UNCHANGED turnVars PROVE FreshInv'
  <2>1. PICK e \in Effects : /\ policy' = [policy EXCEPT ![k] = e]
                             /\ policySince' = [policySince EXCEPT ![k] = Since(e # "none", @)]
    BY <1>11 DEF AddPolicy
  <2>2. UNCHANGED <<now, trust, lowSince, cache, pc, key, low, verdict, asked>>
    BY <1>11 DEF AddPolicy
  <2>3. Reasons'
    BY <2>1, <2>2 DEF FreshInv, Reasons, Since, Typed, TypeOK, VerdictsTypeOK
  <2>4. \A i \in Keys : \E bad : policySince'[i] \in {policySince[i], Since(bad, policySince[i])}
    BY <2>1 DEF Typed, TypeOK, VerdictsTypeOK
  <2> QED
    BY <1>9, <2>2, <2>3, <2>4
<1>12. CASE Elapse /\ UNCHANGED turnVars
  <2>1. now' = now + 1 /\ UNCHANGED <<stores, cache, pc, key, low, verdict, asked>>
    BY <1>12 DEF Elapse
  <2>2. Cached'
    BY <1>0, <2>1 DEF FreshInv, Cached, Granted, stores, Typed, TypeOK, VerdictsTypeOK
  <2>3. Held'
    BY <1>0, <2>1 DEF FreshInv, Held, Granted, stores, Typed, AtHand
  <2> QED
    BY <2>1, <2>2, <2>3 DEF FreshInv, Reasons, stores
<1>13. CASE UNCHANGED vars
  BY <1>1, <1>13 DEF vars, engineVars, stores, FreshInv, Held, Granted
<1> QED
  BY <1>3, <1>5, <1>6, <1>7, <1>8, <1>10, <1>11, <1>12, <1>13
     DEF Next, Call, EvaluateTurn, Evaluate, Govern

\* A reason to refuse that was there before an evaluation began, or has held for the time to
\* live of a verdict and the time its evaluation took, is heeded by every turn that asks
\* afterwards: for every number of calls, every threshold and every time to live.
THEOREM SpecVerdictFresh == Spec => []VerdictFresh
BY TypedInit, TypedNext, FreshInvInit, FreshInvNext, FreshIsVerdictFresh, PTL DEF Spec

-----------------------------------------------------------------------------
(* Turns that do not overlap *)

\* Two turns on one runtime know of each other.
Company  == \A c, d \in Calls : c # d /\ pc[c] \in Working /\ pc[d] \in Working
                                /\ tracker[c] = tracker[d] => c \in mixed /\ d \in mixed
\* The attribution is the room's whose turn has the runtime to itself.
OwnSlot  == \A c \in Calls \ mixed : pc[c] \in Working => slot[tracker[c]] = RoomOf(c)
OwnRead  == \A c \in Calls \ mixed : pc[c] = "record" => read[c] = RoomOf(c)
\* An attribution was left by a room's turn that is under way or was dropped.
LeftBy(k)  == \E d \in Calls : /\ tracker[d] = k
                               /\ pc[d] = "dropped" \/ (pc[d] \in Working /\ RoomOf(d) # None)
SlotsLeft  == \A k \in Calls : slot[k] # None => LeftBy(k)
OwnEntries == \A k \in Calls : \A e \in entries[k] :
                 pc[e.by] \in Begun /\ (e.by \notin mixed => e.room = RoomOf(e.by))

ApartInv == Company /\ OwnSlot /\ OwnRead /\ SlotsLeft /\ OwnEntries

LEMMA ApartInvInit == Init => ApartInv
BY DEF Init, ApartInv, Company, OwnSlot, OwnRead, SlotsLeft, OwnEntries, Working

LEMMA ApartInvNext == Typed /\ ApartInv /\ [Next]_vars => ApartInv'
<1> SUFFICES ASSUME Typed, ApartInv, [Next]_vars PROVE ApartInv'
  OBVIOUS
<1>0. /\ \A d \in Calls : pc[d] \in Begun => tracker'[d] = tracker[d] /\ key'[d] = key[d]
      /\ \A d \in Calls : pc[d] \in Working \cup {"dropped"} => tracker[d] \in Calls
      /\ \A k \in Calls : \A e \in entries[k] : e.by \in Calls
      /\ pc = [d \in Calls |-> pc[d]]
  <2>1. \A d \in Calls : pc[d] \in Begun => tracker'[d] = tracker[d] /\ key'[d] = key[d]
    BY BegunStays
  <2>2. \A d \in Calls : pc[d] \in Working \cup {"dropped"} => tracker[d] \in Calls
    BY DEF Typed, AtHand
  <2>3. \A k \in Calls : \A e \in entries[k] : e.by \in Calls
    BY DEF Typed, TypeOK
  <2>4. pc = [d \in Calls |-> pc[d]]
    BY DEF Typed, TypeOK
  <2> QED
    BY <2>1, <2>2, <2>3, <2>4
<1> USE DEF Begun, Working
\* The entries of calls that have begun stay theirs.
<1>1. ASSUME UNCHANGED entries, mixed \subseteq mixed',
             \A d \in Calls : pc[d] \in Begun => pc'[d] \in Begun
      PROVE  OwnEntries'
  BY <1>0, <1>1 DEF ApartInv, OwnEntries, RoomOf
\* A call that is not in its turn goes on to something that is no turn either.
<1>2. ASSUME NEW c \in Calls, NEW l, pc' = [pc EXCEPT ![c] = l],
             l \notin Working \cup {"dropped"},
             pc[c] \notin Begun,
             UNCHANGED <<slot, entries, mixed>>,
             \A d \in Calls \ {c} : read'[d] = read[d]
      PROVE  ApartInv'
  <2>1. \A d \in Calls : pc'[d] \in Working \cup {"dropped"} =>
           /\ d # c /\ pc'[d] = pc[d] /\ tracker'[d] = tracker[d] /\ key'[d] = key[d]
    BY <1>0, <1>2
  <2>2. Company' /\ OwnSlot' /\ OwnRead'
    BY <1>2, <2>1 DEF ApartInv, Company, OwnSlot, OwnRead, RoomOf
  <2>3. SlotsLeft'
    <3> SUFFICES ASSUME NEW k \in Calls, slot[k] # None PROVE LeftBy(k)'
      BY <1>2 DEF SlotsLeft, LeftBy
    <3>1. PICK d \in Calls : /\ tracker[d] = k
                             /\ pc[d] = "dropped" \/ (pc[d] \in Working /\ RoomOf(d) # None)
      BY DEF ApartInv, SlotsLeft, LeftBy
    <3>2. pc'[d] = pc[d] /\ tracker'[d] = tracker[d] /\ key'[d] = key[d]
      BY <1>0, <1>2, <3>1
    <3> QED
      BY <3>1, <3>2 DEF LeftBy, RoomOf
  <2>4. OwnEntries'
    BY <1>0, <1>1, <1>2
  <2> QED
    BY <2>2, <2>3, <2>4 DEF ApartInv
\* A turn starts: whoever is on the runtime has company.
<1>3. ASSUME NEW c \in Calls, NEW k \in Calls, NEW r, pc' = [pc EXCEPT ![c] = "turn"],
             pc[c] \notin Begun,
             UNCHANGED <<key, entries, read>>, tracker' = [tracker EXCEPT ![c] = k],
             StartsTurn(c, k), RoomOf(c) = r,
             slot' = IF r = None THEN slot ELSE [slot EXCEPT ![k] = r]
      PROVE  ApartInv'
  <2>1. /\ pc'[c] = "turn" /\ tracker'[c] = k
        /\ \A d \in Calls \ {c} : pc'[d] = pc[d] /\ tracker'[d] = tracker[d]
    BY <1>0, <1>3 DEF Typed, TypeOK
  <2>2. /\ mixed \subseteq mixed'
        /\ \A d \in Calls \ {c} : tracker[d] = k /\ pc[d] \in Working => {c, d} \subseteq mixed'
        /\ r = None => \A d \in Calls : tracker[d] = k /\ pc[d] = "dropped" => c \in mixed'
    BY <1>3 DEF StartsTurn, SharedBy, LeftOn
  <2>3. Company'
    BY <2>1, <2>2 DEF ApartInv, Company
  <2>4. c \notin mixed' => slot'[k] = r
    <3>1. CASE r # None
      BY <1>3, <3>1 DEF Typed, TypeOK
    <3>2. CASE r = None /\ c \notin mixed' /\ slot[k] # None
      <4>1. PICK d \in Calls : /\ tracker[d] = k
                               /\ pc[d] = "dropped" \/ (pc[d] \in Working /\ RoomOf(d) # None)
        BY <3>2 DEF ApartInv, SlotsLeft, LeftBy
      <4>2. d # c
        BY <1>3, <4>1
      <4> QED
        BY <2>2, <3>2, <4>1, <4>2
    <3> QED
      BY <1>3, <3>1, <3>2
  <2>5. OwnSlot'
    <3> SUFFICES ASSUME NEW d \in Calls \ mixed', pc'[d] \in Working
                 PROVE  slot'[tracker'[d]] = RoomOf(d)
      BY <1>3 DEF OwnSlot, RoomOf
    <3>1. CASE d = c
      BY <1>3, <2>1, <2>4, <3>1
    <3>2. CASE d # c
      <4>1. pc[d] \in Working /\ tracker'[d] = tracker[d] /\ tracker[d] # k /\ d \notin mixed
        BY <2>1, <2>2, <3>2
      <4>2. tracker[d] \in Calls /\ slot[tracker[d]] = RoomOf(d)
        BY <1>0, <4>1 DEF ApartInv, OwnSlot
      <4> QED
        BY <1>3, <4>1, <4>2 DEF Typed, TypeOK
    <3> QED
      BY <3>1, <3>2
  <2>6. OwnRead'
    BY <1>3, <2>1, <2>2 DEF ApartInv, OwnRead, RoomOf
  <2>7. SlotsLeft'
    <3> SUFFICES ASSUME NEW i \in Calls, slot'[i] # None PROVE LeftBy(i)'
      BY DEF SlotsLeft, LeftBy
    <3>1. CASE r # None /\ i = k
      BY <1>3, <2>1, <3>1 DEF LeftBy, RoomOf
    <3>2. CASE ~(r # None /\ i = k)
      <4>1. slot[i] # None
        BY <1>3, <3>2 DEF Typed, TypeOK
      <4>2. PICK d \in Calls : /\ tracker[d] = i
                               /\ pc[d] = "dropped" \/ (pc[d] \in Working /\ RoomOf(d) # None)
        BY <4>1 DEF ApartInv, SlotsLeft, LeftBy
      <4>3. d # c
        BY <1>3, <4>2
      <4> QED
        BY <1>3, <2>1, <4>2, <4>3 DEF LeftBy, RoomOf
    <3> QED
      BY <3>1, <3>2
  <2>8. OwnEntries'
    BY <1>1, <1>3, <2>1, <2>2
  <2> QED
    BY <2>3, <2>5, <2>6, <2>7, <2>8 DEF ApartInv
<1>4. ASSUME NEW c \in Calls, \/ Arrive(c) \/ Rebuild(c) \/ CheckBudget(c) \/ Refuse(c)
      PROVE  ApartInv'
  BY <1>2, <1>4 DEF Arrive, Rebuild, CheckBudget, SlotAfter, Attributes, Refuse, Goto, turnVars
<1>5. ASSUME NEW c \in Calls, Look(c) \/ ReadTrust(c) \/ ReadPolicies(c) \/ Store(c),
             UNCHANGED turnVars
      PROVE  ApartInv'
  BY <1>2, <1>5 DEF Look, ReadTrust, ReadPolicies, Store, Goto, turnVars
<1>6. ASSUME NEW c \in Calls, NEW k \in Calls, Proceeds(c, k), pc[c] \notin Begun,
             UNCHANGED <<key, slot, entries, read>>
      PROVE  ApartInv'
  <2>1. CASE RoomOf(c) = None
    BY <1>3, <1>6, <2>1 DEF Proceeds, Chosen, Goto
  <2>2. CASE RoomOf(c) # None
    BY <1>2, <1>6, <2>2 DEF Proceeds, Chosen, Goto
  <2> QED
    BY <2>1, <2>2
<1>7. ASSUME NEW c \in Calls, Reuse(c) PROVE ApartInv'
  <2>1. key[c] \in Agents \X (Rooms \cup {None})
    BY <1>7 DEF Reuse, Typed, AtHand
  <2>2. runtimes[AgentOf(c)] \in Calls
    BY <1>7, <2>1 DEF Reuse, AgentOf, Typed, TypeOK
  <2> QED
    BY <1>6, <1>7, <2>2 DEF Reuse
<1>8. ASSUME NEW c \in Calls, Build(c) PROVE ApartInv'
  BY <1>6, <1>8 DEF Build
<1>9. ASSUME NEW c \in Calls, Admit(c) PROVE ApartInv'
  <2>1. /\ tracker[c] \in Calls /\ RoomOf(c) # None
        /\ tracker' = [tracker EXCEPT ![c] = tracker[c]]
    BY <1>9, AdmissionAssumption DEF Admit, RoomOf, Keys, Typed, TypeOK, AtHand
  <2> QED
    BY <1>3, <1>9, <2>1 DEF Admit, SlotAfter, Attributes, Goto
\* A turn under way goes on, and the runtime and its attribution stay.
<1>10. ASSUME NEW c \in Calls, NEW l \in Working, pc' = [pc EXCEPT ![c] = l],
              pc[c] \in Working, UNCHANGED <<slot, tracker, key, mixed>>
       PROVE  Company' /\ OwnSlot' /\ SlotsLeft' /\ \A d \in Calls : pc[d] \in Begun => pc'[d] \in Begun
  <2>1. \A d \in Calls : /\ pc'[d] \in Working <=> pc[d] \in Working
                         /\ pc'[d] = "dropped" <=> pc[d] = "dropped"
                         /\ pc[d] \in Begun => pc'[d] \in Begun
    BY <1>0, <1>10
  <2> QED
    BY <1>10, <2>1 DEF ApartInv, Company, OwnSlot, SlotsLeft, LeftBy, RoomOf
<1>11. ASSUME NEW c \in Calls, Answer(c) PROVE ApartInv'
  <2>1. /\ UNCHANGED <<slot, tracker, key, mixed, entries>> /\ pc[c] = "turn"
        /\ pc' = [pc EXCEPT ![c] = "record"] /\ read' = [read EXCEPT ![c] = slot[tracker[c]]]
    BY <1>11 DEF Answer, Goto
  <2>2. OwnRead'
    BY <2>1, <1>0 DEF ApartInv, OwnSlot, OwnRead, RoomOf, Typed, TypeOK
  <2> QED
    BY <1>1, <1>10, <2>1, <2>2 DEF ApartInv
<1>12. ASSUME NEW c \in Calls, Record(c) PROVE ApartInv'
  <2>1. /\ UNCHANGED <<slot, tracker, key, mixed>> /\ pc[c] = "record"
        /\ entries' = [entries EXCEPT ![tracker[c]] =
                         @ \cup {[by |-> c, nth |-> answers[c], room |-> read[c]]}]
        /\ read' = [read EXCEPT ![c] = None] /\ pc' = [pc EXCEPT ![c] = "turn"]
    BY <1>12 DEF Record, Goto
  <2>2. OwnRead'
    BY <1>0, <2>1 DEF ApartInv, OwnRead, RoomOf, Typed, TypeOK
  <2>3. OwnEntries'
    <3> SUFFICES ASSUME NEW k \in Calls, NEW e \in entries'[k]
                 PROVE  pc'[e.by] \in Begun /\ (e.by \notin mixed => e.room = RoomOf(e.by))
      BY <2>1 DEF OwnEntries, RoomOf
    <3>1. CASE e \in entries[k]
      BY <1>0, <2>1, <3>1 DEF ApartInv, OwnEntries
    <3>2. CASE e = [by |-> c, nth |-> answers[c], room |-> read[c]]
      BY <1>0, <2>1, <3>2 DEF ApartInv, OwnRead
    <3> QED
      BY <2>1, <3>1, <3>2 DEF Typed, TypeOK
  <2> QED
    BY <1>10, <2>1, <2>2, <2>3 DEF ApartInv
\* A turn ends or is dropped: it was alone on its runtime, or the others know.
<1>13. ASSUME NEW c \in Calls, NEW l, pc' = [pc EXCEPT ![c] = l],
              pc[c] \in Working, l \in {"done", "dropped"},
              UNCHANGED <<tracker, key, mixed, entries>>,
              \/ slot' = slot /\ (RoomOf(c) # None => l = "dropped")
              \/ slot' = [slot EXCEPT ![tracker[c]] = None],
              \A d \in Calls \ {c} : read'[d] = read[d]
       PROVE  ApartInv'
  <2>1. \A d \in Calls : /\ pc'[d] \in Working <=> pc[d] \in Working /\ d # c
                         /\ d # c => pc'[d] = pc[d]
                         /\ pc[d] \in Begun => pc'[d] \in Begun
    BY <1>0, <1>13
  <2>2. pc'[c] = l /\ tracker[c] \in Calls
    BY <1>0, <1>13
  <2>3. Company' /\ OwnRead' /\ OwnEntries'
    BY <1>1, <1>13, <2>1 DEF ApartInv, Company, OwnRead, RoomOf
  <2>4. OwnSlot'
    <3> SUFFICES ASSUME NEW d \in Calls \ mixed, pc[d] \in Working, d # c
                 PROVE  slot'[tracker[d]] = RoomOf(d)
      BY <1>13, <2>1 DEF OwnSlot, RoomOf
    <3>1. slot[tracker[d]] = RoomOf(d) /\ tracker[d] # tracker[c] /\ tracker[d] \in Calls
      BY <1>0, <1>13 DEF ApartInv, OwnSlot, Company
    <3> QED
      BY <1>13, <2>2, <3>1 DEF Typed, TypeOK
  <2>5. SlotsLeft'
    <3> SUFFICES ASSUME NEW k \in Calls, slot'[k] # None PROVE LeftBy(k)'
      BY DEF SlotsLeft, LeftBy
    <3>1. slot[k] # None /\ (k = tracker[c] /\ RoomOf(c) # None => l = "dropped")
      BY <1>13, <2>2 DEF Typed, TypeOK
    <3>2. PICK d \in Calls : /\ tracker[d] = k
                             /\ pc[d] = "dropped" \/ (pc[d] \in Working /\ RoomOf(d) # None)
      BY <3>1 DEF ApartInv, SlotsLeft, LeftBy
    <3>3. CASE d = c
      <4>1. pc'[d] = "dropped"
        <5>1. RoomOf(c) # None /\ k = tracker[c]
          BY <1>13, <3>2, <3>3 DEF RoomOf
        <5> QED
          BY <2>2, <3>1, <3>3, <5>1 DEF RoomOf
      <4> QED
        BY <1>13, <3>2, <3>3, <4>1 DEF LeftBy, RoomOf
    <3>4. CASE d # c
      BY <1>13, <2>1, <3>2, <3>4 DEF LeftBy, RoomOf
    <3> QED
      BY <3>3, <3>4
  <2> QED
    BY <2>3, <2>4, <2>5 DEF ApartInv
<1>14. ASSUME NEW c \in Calls, EndTurn(c) PROVE ApartInv'
  <2>1. CASE RoomOf(c) = None
    BY <1>13, <1>14, <2>1 DEF EndTurn, Goto, turnVars
  <2>2. CASE RoomOf(c) # None
    <3>1. OwnRead'
      BY <1>0, <1>14, <2>2 DEF EndTurn, Goto, turnVars, ApartInv, OwnRead, RoomOf
    <3> QED
      BY <1>1, <1>10, <1>14, <2>2, <3>1 DEF EndTurn, Goto, turnVars, ApartInv
  <2> QED
    BY <2>1, <2>2
<1>15. ASSUME NEW c \in Calls, Finalize(c) PROVE ApartInv'
  BY <1>13, <1>15 DEF Finalize, Cleared, Goto
<1>16. ASSUME NEW c \in Calls, Drop(c) PROVE ApartInv'
  <2>1. /\ UNCHANGED <<tracker, key, mixed, slot, entries>> /\ pc[c] \notin {"done", "dropped"}
        /\ \A d \in Calls \ {c} : read'[d] = read[d]
        /\ pc' = [pc EXCEPT ![c] =
                    IF pc[c] \in Working /\ RoomOf(c) # None THEN "dropped" ELSE "done"]
    BY <1>16 DEF Drop, Goto, Typed, TypeOK
  <2>2. CASE pc[c] \in Working
    BY <1>13, <2>1, <2>2
  <2>3. CASE pc[c] \notin Working
    BY <1>2, <2>1, <2>3
  <2> QED
    BY <2>2, <2>3
<1>17. UNCHANGED <<pc, key, turnVars>> => ApartInv'
  BY DEF turnVars, ApartInv, Company, OwnSlot, OwnRead, SlotsLeft, LeftBy, OwnEntries, RoomOf
<1> QED
  BY <1>4, <1>5, <1>7, <1>8, <1>9, <1>11, <1>12, <1>14, <1>15, <1>16, <1>17
     DEF Next, Call, EvaluateTurn, Evaluate, Govern, UpdateTrust, AddPolicy, Elapse, vars,
         engineVars

\* As long as a call never shares its runtime, each of its answers is charged to its room,
\* and a direct chat's to none, whatever refused, dropped and finished turns leave behind.
THEOREM SpecChargedApart == Spec => []ChargedApart
<1>1. ApartInv => ChargedApart
  BY DEF ApartInv, OwnEntries, ChargedApart
<1> QED
  BY <1>1, TypedInit, TypedNext, ApartInvInit, ApartInvNext, PTL DEF Spec
=============================================================================
