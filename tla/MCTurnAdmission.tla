-------------------------- MODULE MCTurnAdmission --------------------------
\* Scores in steps for model checking: 0 is refused, 1 needs approval, 2 passes.
EXTENDS TurnAdmission, TLC

MCDeltas == {-1, 1}

\* Calls and rooms are interchangeable, and every property is a state predicate.
MCSymmetry == Permutations(Calls) \cup Permutations(Rooms)
=============================================================================
