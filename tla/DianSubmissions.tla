---------------------------- MODULE DianSubmissions ----------------------------
(***************************************************************************)
(* What DIAN is promised about the numbers of electronic documents, without *)
(* queues, workers or databases: a document is submitted at most once, and *)
(* a number that was submitted is submitted again only in another document, *)
(* once DIAN has rejected every earlier one for good.                      *)
(***************************************************************************)
CONSTANTS
    Documents,      \* versions of documents
    Numbers,        \* prefix and consecutive
    NoNumber        \* a document that does not exist yet

VARIABLES
    numbers,        \* the number each document was registered with
    verdicts        \* what DIAN holds about each document

vars == <<numbers, verdicts>>

Verdicts == {"none", "received", "accepted", "rejected"}
Final == {"accepted", "rejected"}

Init ==
    /\ numbers = [d \in Documents |-> NoNumber]
    /\ verdicts = [d \in Documents |-> "none"]

Register(d, n) ==
    /\ numbers[d] = NoNumber
    /\ numbers' = [numbers EXCEPT ![d] = n]
    /\ UNCHANGED verdicts

\* DIAN may settle a document as it receives it.
Submit(d) ==
    /\ numbers[d] # NoNumber
    /\ verdicts[d] = "none"
    /\ \A e \in Documents \ {d} : numbers[e] = numbers[d] => verdicts[e] = "rejected"
    /\ \E v \in Verdicts \ {"none"} : verdicts' = [verdicts EXCEPT ![d] = v]
    /\ UNCHANGED numbers

Settle(d) ==
    /\ verdicts[d] = "received"
    /\ \E v \in Final : verdicts' = [verdicts EXCEPT ![d] = v]
    /\ UNCHANGED numbers

Next == \E d \in Documents :
    (\E n \in Numbers : Register(d, n)) \/ Submit(d) \/ Settle(d)

Spec == Init /\ [][Next]_vars
=============================================================================
