----------------------------- MODULE MCRoomTurns -----------------------------
EXTENDS RoomTurns, TLC

\* Requests are interchangeable: sound for the runs without liveness.
RequestSymmetry == Permutations(Requests)
===============================================================================
