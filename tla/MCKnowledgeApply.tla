-------------------------- MODULE MCKnowledgeApply --------------------------
EXTENDS KnowledgeApply, TLC

\* The claims outside the policy are interchangeable: in every instance with this
\* symmetry they all exist at the start.
ClaimSymmetry == Permutations(Claims \ Sourced)
=============================================================================
