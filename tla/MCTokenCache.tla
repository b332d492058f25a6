---------------------------- MODULE MCTokenCache ----------------------------
(* Instances of TokenCache for TLC: documents of two lengths, a lifetime   *)
(* one tick longer than the buffer, and room for a token to expire.        *)
EXTENDS TokenCache, TLC

Symmetry == Permutations(Processes)
=============================================================================
