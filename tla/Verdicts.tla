------------------------------ MODULE Verdicts ------------------------------
(***************************************************************************)
(* The governance engine's evaluate(): a cache of verdicts in front of the *)
(* trust scores and the policies, each behind a lock of its own.           *)
(*                                                                         *)
(* An evaluation is a caller's; it asks about one key, the agent and the   *)
(* context it acts in.  Every room turn asks about the same action, which  *)
(* the guardrails see and let pass, so they are left out; of a policy only *)
(* its effect on a key is kept, whichever rules bring it about.  Scores    *)
(* and policies are changed by the engine's public operations.  Time is    *)
(* discrete.                                                               *)
(***************************************************************************)
EXTENDS Integers

CONSTANTS Calls, Agents, Rooms,
          Ceiling, DefaultScore,      \* trust scores are in 0..Ceiling
          DenyBelow, MinTrust,        \* thresholds of the engine's configuration
          Deltas,                     \* changes of a score, already scaled
          TTL, MaxTime, MaxChanges,
          None

ASSUME VerdictsAssumption ==
    /\ Ceiling \in Nat /\ DefaultScore \in 0..Ceiling
    /\ DenyBelow \in Nat /\ MinTrust \in Nat /\ DenyBelow <= MinTrust
    /\ Deltas \subseteq Int
    /\ TTL \in Nat \ {0} /\ MaxTime \in Nat /\ MaxChanges \in Nat

VARIABLES now, changes,
          trust,      \* trust[a]: the score of a
          policy,     \* policy[k]: what the registered policies say of k
          cache,      \* cache[k]: the verdict stored last, None if there is none
          pc, key,    \* of a call: where it is, what it asks about
          low,        \* the score it read is below MinTrust
          verdict,    \* what it holds in its hands, None before and after
          asked,      \* history: when it looked into the cache
          lowSince, policySince   \* history: since when a reason to refuse holds

stores     == <<trust, policy, lowSince, policySince>>
engineVars == <<now, changes, stores, cache, pc, key, low, verdict, asked>>

Keys    == Agents \X Rooms
Effects == {"none", "review", "deny"}
Results == {"allow", "review", "deny"}
Times   == 0..MaxTime

\* A verdict with the times at which it was begun and stored.
Verdicts == [result : Results, began : Times, stored : Times]

EvalSteps == {"look", "trust", "policy", "store"}

VerdictsTypeOK ==
    /\ now \in Times /\ changes \in 0..MaxChanges
    /\ trust \in [Agents -> 0..Ceiling] /\ policy \in [Keys -> Effects]
    /\ cache \in [Keys -> Verdicts \cup {None}]
    /\ key \in [Calls -> (Agents \X (Rooms \cup {None})) \cup {None}]
    /\ low \in [Calls -> BOOLEAN]
    /\ verdict \in [Calls -> Verdicts \cup {None}]
    /\ asked \in [Calls -> Times]
    /\ lowSince \in [Agents -> Times \cup {None}]
    /\ policySince \in [Keys -> Times \cup {None}]

VerdictsInit ==
    /\ now = 0 /\ changes = 0
    /\ trust = [a \in Agents |-> DefaultScore]
    /\ policy = [k \in Keys |-> "none"]
    /\ cache = [k \in Keys |-> None]
    /\ key = [c \in Calls |-> None] /\ low = [c \in Calls |-> FALSE]
    /\ verdict = [c \in Calls |-> None]
    /\ asked = [c \in Calls |-> 0]
    /\ lowSince = [a \in Agents |-> IF DefaultScore < MinTrust THEN 0 ELSE None]
    /\ policySince = [k \in Keys |-> None]

Goto(c, l) == pc' = [pc EXCEPT ![c] = l]

(***************************************************************************)
(* The engine's decisions.                                                 *)
(***************************************************************************)
\* An entry counts until its expiry, which is reckoned from the time it was stored.
\* (Mutant: an entry counts for ever.)
LiveAlways(e) == e # None
Live(e) == e # None /\ e.stored + TTL > now

HardDenied(score) == score < DenyBelow

\* Violations deny; a low score or a review effect asks for approval, which is not
\* a permission either.
Decided(effect, isLow) ==
    CASE effect = "deny" -> "deny"
      [] effect # "deny" /\ (effect = "review" \/ isLow) -> "review"
      [] OTHER -> "allow"

-----------------------------------------------------------------------------
(* evaluate(), from the look-up to the store. *)

Ask(c, k) == key' = [key EXCEPT ![c] = k]

Look(c) ==
    /\ pc[c] = "look"
    /\ \/ /\ Live(cache[key[c]])
          /\ verdict' = [verdict EXCEPT ![c] = cache[key[c]]]
          /\ Goto(c, "answered")
       \/ /\ ~Live(cache[key[c]])
          /\ verdict' = [verdict EXCEPT ![c] =
                           [result |-> "deny", began |-> now, stored |-> now]]
          /\ Goto(c, "trust")
    /\ asked' = [asked EXCEPT ![c] = now]
    /\ UNCHANGED <<now, changes, stores, cache, key, low>>

\* The score is read once; too low a score is refused without asking the policies.
ReadTrust(c) ==
    LET score == trust[key[c][1]] IN
    /\ pc[c] = "trust"
    /\ low' = [low EXCEPT ![c] = score < MinTrust]
    /\ Goto(c, IF HardDenied(score) THEN "store" ELSE "policy")
    /\ UNCHANGED <<now, changes, stores, cache, key, verdict, asked>>

ReadPolicies(c) ==
    /\ pc[c] = "policy"
    /\ verdict' = [verdict EXCEPT ![c].result = Decided(policy[key[c]], low[c])]
    /\ Goto(c, "store")
    /\ UNCHANGED <<now, changes, stores, cache, key, low, asked>>

\* A slow evaluation replaces what a later one has stored.
Store(c) ==
    /\ pc[c] = "store"
    /\ verdict' = [verdict EXCEPT ![c].stored = now]
    /\ cache' = [cache EXCEPT ![key[c]] = [verdict[c] EXCEPT !.stored = now]]
    /\ Goto(c, "answered")
    /\ UNCHANGED <<now, changes, stores, key, low, asked>>

\* The caller has acted on the verdict, or is gone.
Forget(c) ==
    /\ verdict' = [verdict EXCEPT ![c] = None]
    /\ asked' = [asked EXCEPT ![c] = 0]
    /\ low' = [low EXCEPT ![c] = FALSE]

Evaluate(c) == Look(c) \/ ReadTrust(c) \/ ReadPolicies(c) \/ Store(c)

-----------------------------------------------------------------------------
(* What changes under a verdict. *)

Since(bad, old) == IF bad THEN (IF old = None THEN now ELSE old) ELSE None

\* (Mutant: a score that leaves its range.)
Unclamped(n) == n
Clamp(n) == IF n < 0 THEN 0 ELSE IF n > Ceiling THEN Ceiling ELSE n

UpdateTrust(a) ==
    /\ changes < MaxChanges
    /\ changes' = changes + 1
    /\ \E d \in Deltas : LET n == Clamp(trust[a] + d) IN
         /\ trust' = [trust EXCEPT ![a] = n]
         /\ lowSince' = [lowSince EXCEPT ![a] = Since(n < MinTrust, @)]
    /\ UNCHANGED <<now, policy, policySince, cache, pc, key, low, verdict, asked>>

\* A policy with a known id replaces the old one, so an effect may also go away.
AddPolicy(k) ==
    /\ changes < MaxChanges
    /\ changes' = changes + 1
    /\ \E e \in Effects :
         /\ policy' = [policy EXCEPT ![k] = e]
         /\ policySince' = [policySince EXCEPT ![k] = Since(e # "none", @)]
    /\ UNCHANGED <<now, trust, lowSince, cache, pc, key, low, verdict, asked>>

Elapse ==
    /\ now < MaxTime
    /\ now' = now + 1
    /\ UNCHANGED <<changes, stores, cache, pc, key, low, verdict, asked>>

Govern == (\E a \in Agents : UpdateTrust(a)) \/ (\E k \in Keys : AddPolicy(k)) \/ Elapse
=============================================================================
