----------------------------- MODULE MCGeneration -----------------------------
EXTENDS Generation, TLC

CONSTANTS groq, openai, m1, m2

MCProviderOf == m1 :> groq @@ m2 :> openai

Symmetry == Permutations(Requests)
=============================================================================
