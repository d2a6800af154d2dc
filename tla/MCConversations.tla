--------------------------- MODULE MCConversations ---------------------------
(* Two companies of one user, and the anonymous chat. *)
EXTENDS Conversations, TLC

MCChat(company, user) == [company |-> company, user |-> user, conversation |-> "k"]
\* A session id is a tuple, as a company's key is, so that TLC can compare them.
MCAnonymous == [company |-> None, user |-> None, conversation |-> <<"k">>]
MCChats == {MCChat("c1", "u"), MCChat("c2", "u"), MCAnonymous}
MCMessage(forced, intent) ==
    [forced |-> forced, intent |-> intent, sensitive |-> FALSE, local |-> FALSE, tagged |-> TRUE]
MCMessages ==
    {MCMessage("receivables", "chat"), MCMessage("treasury", "chat"),
     MCMessage(None, "accounting_health"), MCMessage(None, "exogena"), MCMessage(None, "chat"),
     [MCMessage("receivables", "chat") EXCEPT !.local = TRUE],
     [MCMessage("receivables", "chat") EXCEPT !.tagged = FALSE]}
\* Three conversations that only talk.
MCThreeChats == {MCChat(c, "u") : c \in {"c1", "c2", "c3"}}
MCTalk == {MCMessage(None, "chat")}
Symmetry == Permutations(Requests)

=============================================================================
