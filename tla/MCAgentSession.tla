----------------------------- MODULE MCAgentSession -----------------------------
EXTENDS AgentSession, TLC

\* Calls are interchangeable: no property orders them.
CallSymmetry == Permutations(Calls)

\* States that differ in what is over alone are checked once: nothing reads what a call that
\* has ended held, and of the properties of that run none reads ran.
Held(c) ==
    IF pc[c] = "ended" THEN <<>>
    ELSE <<pc[c], job[c], session[c], loaded[c], ctx[c], turn[c], cost[c]>>
OfLiveCalls ==
    <<config, transcripts, memories, [c \in Calls |-> Held(c)], refused, crashes>>
===============================================================================
