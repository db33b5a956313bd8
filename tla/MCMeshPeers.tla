---------------------------- MODULE MCMeshPeers -----------------------------
\* The peers of a mesh node for model checking.
EXTENDS MeshPeers
=============================================================================
