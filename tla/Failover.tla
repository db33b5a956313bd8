-------------------------------- MODULE Failover --------------------------------
(***************************************************************************)
(* The provider router: circuit breakers, retries, fallback models and the *)
(* spending caps, shared by all calls.                                     *)
(*                                                                         *)
(* Calls are the places for calls under way at once: each makes one route  *)
(* or route_stream after another.  A call takes the breakers' lock and the *)
(* ledger's lock several times, for one test or one update each, and waits *)
(* for the provider in between, so its pc is the lock or the answer it     *)
(* waits for.  Every model of a fallback chain belongs to one provider     *)
(* (fallback_chain), so a call keeps its provider and only its position in *)
(* the chain moves.  Delays and the contents of answers are left out, and  *)
(* so is a model without a provider, whose call ends where it began.       *)
(***************************************************************************)
EXTENDS Integers, FiniteSets

CONSTANTS
    Calls,          \* the calls that may be under way at once
    Providers,      \* the configured providers
    ChainLength,    \* the length of a fallback chain
    Threshold,      \* circuit_breaker_threshold
    MaxRetries,     \* max_retries
    Cap,            \* the spending cap of a day and of a month
    MaxPrice        \* what one answer may cost at most

Periods == {"day", "month"}

ASSUME CallsAssumption == IsFiniteSet(Calls)
ASSUME ChainAssumption == ChainLength \in Nat \ {0}
ASSUME ThresholdAssumption == Threshold \in Nat \ {0}
ASSUME RetriesAssumption == MaxRetries \in Nat
ASSUME CapAssumption == Cap \in [Periods -> Nat \ {0}]
ASSUME PriceAssumption == MaxPrice \in Nat

VARIABLES
    breaker,        \* circuit_breakers, by provider
    due,            \* the providers whose open breaker is past its timeout
    spent,          \* daily_total and monthly_total of the ledger
    pc,
    kind,           \* the entry point: "route" or "stream"
    provider,       \* the provider of the model it names
    model,          \* the position in the fallback chain
    attempt,        \* the retries of the current model
    hits            \* history: requests sent since the breaker opened

vars == <<breaker, due, spent, pc, kind, provider, model, attempt, hits>>
args == <<kind, provider>>

Breaker == [state: {"closed", "open", "halfopen"}, failures: Nat]
Admitted == {"month", "gate", "chat", "won", "lost", "bill"}
Steps == {"idle"} \cup Admitted

Goto(c, step) == pc' = [pc EXCEPT ![c] = step]
IsOpen(p) == breaker[p].state = "open"

-------------------------------------------------------------------------------
(* CircuitBreaker *)

\* Mutants: failures are kept when the breaker half-opens; the request passes but the
\* breaker stays open; a success closes an open breaker too.
HalfOpenKept(b) == [b EXCEPT !.state = "halfopen"]
HalfOpenForgotten(b) == [b EXCEPT !.failures = 0]
SucceededAlways(b) == [state |-> "closed", failures |-> 0]

\* is_open answers FALSE and half-opens the breaker, as the timeout has passed.
HalfOpen(b) == [b EXCEPT !.state = "halfopen", !.failures = 0]

\* is_open answers TRUE.
Blocked(c) == IsOpen(provider[c]) /\ provider[c] \notin due

\* record_success
Succeeded(b) == [state |-> IF b.state = "halfopen" THEN "closed" ELSE b.state,
                 failures |-> 0]

Trips(b) == b.failures + 1 >= Threshold

\* record_failure
Failed(b) == [state |-> IF Trips(b) THEN "open" ELSE b.state,
              failures |-> b.failures + 1]

\* The timeout of an open breaker passes: opened_at.elapsed() >= timeout.
Expire(p) ==
    /\ IsOpen(p) /\ p \notin due
    /\ due' = due \cup {p}
    /\ UNCHANGED <<breaker, spent, pc, args, model, attempt, hits>>

-------------------------------------------------------------------------------
(* The budget *)

\* Mutant: a budget that is used up exactly still admits a call.
OverBudgetMore(t) == spent[t] > Cap[t]

\* is_over_budget
OverBudget(t) == spent[t] >= Cap[t]

\* check_budget reads the day's total (over the cap, the call ends with an error) ...
Arrive(c, k, p) ==
    /\ pc[c] = "idle" /\ ~OverBudget("day")
    /\ Goto(c, "month")
    /\ kind' = [kind EXCEPT ![c] = k]
    /\ provider' = [provider EXCEPT ![c] = p]
    /\ model' = [model EXCEPT ![c] = 1]
    /\ UNCHANGED <<breaker, due, spent, attempt, hits>>

\* ... and, under another lock, the month's.
CheckMonth(c) ==
    /\ pc[c] = "month"
    /\ Goto(c, IF OverBudget("month") THEN "idle" ELSE "gate")
    /\ UNCHANGED <<breaker, due, spent, args, model, attempt, hits>>

\* CostTracker::record.  route still holds the lock of the breakers here: a step of its
\* own allows more interleavings than the code does, and none fewer.
Bill(c) ==
    /\ pc[c] = "bill"
    /\ \E price \in 0..MaxPrice : spent' = [t \in Periods |-> spent[t] + price]
    /\ Goto(c, "idle")
    /\ UNCHANGED <<breaker, due, args, model, attempt, hits>>

\* A new day, or a new month, which is a new day as well: the totals count its entries only.
Elapse(t) ==
    /\ spent' = IF t = "month" THEN [u \in Periods |-> 0] ELSE [spent EXCEPT !["day"] = 0]
    /\ UNCHANGED <<breaker, due, pc, args, model, attempt, hits>>

-------------------------------------------------------------------------------
(* route and route_stream *)

\* Mutants: a retry is not counted; the last model is followed by another.
NextAttemptSame(c) == attempt[c]
HasFallbackMore(c) == kind[c] = "route" /\ model[c] <= ChainLength

\* A stream resolves one model only.
HasFallback(c) == kind[c] = "route" /\ model[c] < ChainLength

\* The loop over the chain goes on with the next model or ends with the last error.
NextModel(c) ==
    /\ model' = IF HasFallback(c) THEN [model EXCEPT ![c] = @ + 1] ELSE model
    /\ Goto(c, IF HasFallback(c) THEN "gate" ELSE "idle")

\* The breaker is open: this model is skipped.
Skip(c) ==
    /\ pc[c] = "gate" /\ Blocked(c)
    /\ NextModel(c)
    /\ UNCHANGED <<breaker, due, spent, args, attempt, hits>>

\* The breaker lets the call pass.
Pass(c) ==
    /\ pc[c] = "gate" /\ ~Blocked(c)
    /\ breaker' = IF IsOpen(provider[c])
                    THEN [breaker EXCEPT ![provider[c]] = HalfOpen(@)] ELSE breaker
    /\ due' = due \ {provider[c]}
    /\ attempt' = [attempt EXCEPT ![c] = 0]
    /\ Goto(c, "chat")
    /\ UNCHANGED <<spent, args, model, hits>>

Retries(c) == kind[c] = "route" /\ attempt[c] < MaxRetries

NextAttempt(c) == attempt[c] + 1

\* One request to the provider, counted while its breaker is open.
Chat(c) ==
    /\ pc[c] = "chat"
    /\ hits' = IF IsOpen(provider[c]) THEN [hits EXCEPT ![provider[c]] = @ + 1] ELSE hits
    /\ UNCHANGED <<breaker, due, spent, args, model>>

\* The provider answers.  A stream is neither recorded by the breaker nor billed.
ChatOk(c) ==
    /\ Chat(c)
    /\ Goto(c, IF kind[c] = "route" THEN "won" ELSE "idle")
    /\ UNCHANGED attempt

\* An error, or a rate limit: wait and try again, as long as retries are left.
ChatRetry(c) ==
    /\ Chat(c) /\ Retries(c)
    /\ attempt' = [attempt EXCEPT ![c] = NextAttempt(c)]
    /\ UNCHANGED pc

\* The last error, or an authentication error, which is not retried.
ChatFail(c) ==
    /\ Chat(c)
    /\ Goto(c, IF kind[c] = "route" THEN "lost" ELSE "idle")
    /\ UNCHANGED attempt

RecordSuccess(c) ==
    /\ pc[c] = "won"
    /\ breaker' = [breaker EXCEPT ![provider[c]] = Succeeded(@)]
    /\ Goto(c, "bill")
    /\ UNCHANGED <<due, spent, args, model, attempt, hits>>

\* A failure that trips the breaker starts its timeout (again).
RecordFailure(c) ==
    LET p == provider[c] IN
    /\ pc[c] = "lost"
    /\ breaker' = [breaker EXCEPT ![p] = Failed(@)]
    /\ due' = IF Trips(breaker[p]) THEN due \ {p} ELSE due
    /\ hits' = IF IsOpen(p) THEN hits ELSE [hits EXCEPT ![p] = 0]
    /\ NextModel(c)
    /\ UNCHANGED <<spent, args, attempt>>

\* FanOut::execute drops a call that takes too long, an HTTP handler one whose client hangs
\* up; what it holds is given back, what it recorded stays.
Drop(c) ==
    /\ pc[c] \in Admitted
    /\ Goto(c, "idle")
    /\ UNCHANGED <<breaker, due, spent, args, model, attempt, hits>>

-------------------------------------------------------------------------------
Init ==
    /\ breaker = [p \in Providers |-> [state |-> "closed", failures |-> 0]]
    /\ due = {}
    /\ spent = [t \in Periods |-> 0]
    /\ pc = [c \in Calls |-> "idle"]
    /\ kind = [c \in Calls |-> "route"]
    /\ \E p \in Providers : provider = [c \in Calls |-> p]
    /\ model = [c \in Calls |-> 1]
    /\ attempt = [c \in Calls |-> 0]
    /\ hits = [p \in Providers |-> 0]

Proceed(c) ==
    \/ CheckMonth(c) \/ Skip(c) \/ Pass(c)
    \/ ChatOk(c) \/ ChatRetry(c) \/ ChatFail(c)
    \/ RecordSuccess(c) \/ RecordFailure(c) \/ Bill(c)

Arrivals(c) == \E k \in {"route", "stream"}, p \in Providers : Arrive(c, k, p)

Next ==
    \/ \E c \in Calls : Arrivals(c) \/ Proceed(c) \/ Drop(c)
    \/ \E p \in Providers : Expire(p)
    \/ \E t \in Periods : Elapse(t)

\* The runtime polls a task that is ready; adapters give up after the client's 120 s.
Fairness == \A c \in Calls : WF_vars(Proceed(c))

Spec == Init /\ [][Next]_vars /\ Fairness

-------------------------------------------------------------------------------
(* Properties *)

\* Types; a call stays within its chain and its retries, and only an open breaker has a
\* timeout that may have passed (is_open, record_failure).
TypeOK ==
    /\ breaker \in [Providers -> Breaker]
    /\ due \subseteq {p \in Providers : IsOpen(p)}
    /\ spent \in [Periods -> Nat]
    /\ pc \in [Calls -> Steps]
    /\ kind \in [Calls -> {"route", "stream"}]
    /\ provider \in [Calls -> Providers]
    /\ model \in [Calls -> 1..ChainLength]
    /\ attempt \in [Calls -> 0..MaxRetries]
    /\ hits \in [Providers -> Nat]

\* However the failures and successes of concurrent calls interleave, a breaker that lets
\* requests pass has counted fewer than the threshold: half-opening must forget the old
\* failures, and the failure that reaches the threshold must trip it (record_failure).
ClosedBelowThreshold ==
    \A p \in Providers : ~IsOpen(p) => breaker[p].failures < Threshold

\* "Requests blocked until timeout elapses": a late success of a call that passed before
\* the breaker opened does not close it, only the timeout ends the open state.
OpenLasts ==
    [][\A p \in Providers : IsOpen(p) /\ ~IsOpen(p)' => p \in due]_vars

\* A provider whose breaker is open is left alone: it is sent no more than what the other
\* calls that passed before had left, one model's attempts each.
OpenDrains ==
    \A p \in Providers : IsOpen(p) =>
        hits[p] <= (Cardinality(Calls) - 1) * (MaxRetries + 1)

\* The spending of a day or a month is tested before a call and added after it.  The cap is
\* overdrawn all the same by no more than the answers of the calls then on their way.
SpendBounded ==
    \A t \in Periods : spent[t] < Cap[t] + Cardinality(Calls) * MaxPrice

\* A call that was admitted ends: retries, fallbacks and breakers together never keep it.
CallsSettle == \A c \in Calls : pc[c] \in Admitted ~> pc[c] = "idle"
=================================================================================
