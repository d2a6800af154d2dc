--------------------------- MODULE MCProviderSync ---------------------------
(* Instances of ProviderSync for TLC. *)
EXTENDS ProviderSync, TLC

\* Workers, requests and job identities are interchangeable: no action or
\* property tells one from another.
Symmetric == Permutations(Workers) \cup Permutations(Requests) \cup Permutations(Jobs)
=============================================================================
