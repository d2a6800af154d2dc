--------------------------- MODULE MCProviderCalls ---------------------------
(* Three calls that may share the limiter; one may be a page or a lookup. *)
EXTENDS ProviderCalls, TLC

CONSTANTS c1, c2, c3
MCKindsOf ==
    c1 :> {"request"} @@ c2 :> {"request"} @@ c3 :> {"request", "page", "test", "lookup"}

=============================================================================
