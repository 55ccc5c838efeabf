----------------------------- MODULE MCAutomations -----------------------------
EXTENDS Automations

\* The sessions are alike, and so are the rows and the requests.
Symmetry == Permutations(Rows) \cup Permutations(Sessions) \cup Permutations(Editors)
=============================================================================
