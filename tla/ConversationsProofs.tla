------------------------- MODULE ConversationsProofs -------------------------
(***************************************************************************)
(* Conversations stay apart, for any number of chats, messages, sessions   *)
(* and messages in flight.                                                 *)
(*                                                                         *)
(* What a context holds comes from messages of its own key (ContextSound). *)
(* That is not inductive over the contexts alone: a message finds its      *)
(* context through the store and comes back to it after it has waited. The *)
(* invariant adds that entries lead to contexts of their key (Placed), and *)
(* that a message that waits is one of the conversation its context        *)
(* belongs to, whose question is still there unless another message ran    *)
(* (Waits).                                                                *)
(***************************************************************************)
EXTENDS Conversations, SequenceTheorems, TLAPS

Keys == {SessionKey(chat) : chat \in Chats}
Companies == {chat.company : chat \in Chats} \cup {None}
Workflows == Agents \cup {"exogena", "chat"}
States == {"START", "WAITING_NIT", "WAITING_FISCAL_YEAR"}
Turns == [question : Nat, answer : Nat, mixed : BOOLEAN]
ContextSet ==
    [key : Keys, company : Companies, message : Nat, entities : Nat, correlation : Nat,
     workflow : Workflows \cup {None}, state : States, nit : Nat,
     history : [Narrating -> Seq(Turns)]]
Waiting == [context : Nat \ {0}, number : Nat, chat : Chats, agent : Narrating,
            correlation : Nat, company : Companies, mixed : BOOLEAN]
Entry == [key : Keys, at : Nat, context : Nat, after : SUBSET Keys]
Said == [chat : Chats, tagged : BOOLEAN]

Typed ==
    /\ sessions \subseteq Entry
    /\ contexts \in Seq(ContextSet)
    /\ requests \in [Requests -> Waiting \cup {NoRequest}]
    /\ asked \in Seq(Said)
    /\ now \in Nat

\* Message n of those that were said is one of the conversation of a key.
SaidIn(key, said, n) == n \in DOMAIN said /\ SessionKey(said[n].chat) = key

\* A company of a context is the one of the conversation whose key it has.
Owned(ctx) == \E chat \in Chats : chat.company = ctx.company /\ SessionKey(chat) = ctx.key

\* What a context holds: messages of its key, a turn filed with its question,
\* and a place in the exogenous workflow. An agent only runs for a company.
ContextSound(ctx, said) ==
    /\ ctx \in ContextSet
    /\ ctx.company # None => Owned(ctx)
    /\ ctx.workflow \in Agents => ctx.company # None
    /\ \A n \in Mentioned(ctx) : SaidIn(ctx.key, said, n)
    /\ \A t \in TurnsOf(ctx) : ~t.mixed => t.question = t.answer
    /\ ctx.state # "START" => ctx.workflow = "exogena"
    /\ ctx.state = "WAITING_FISCAL_YEAR" => ctx.nit # 0
ContextsSound == \A c \in DOMAIN contexts : ContextSound(contexts[c], asked)

Placed == \A e \in sessions : e.context \in DOMAIN contexts /\ contexts[e.context].key = e.key

\* The labels of an execution: its own company and request, or one of its
\* conversation.
OwnCompany(chat, company) ==
    company = chat.company \/ (chat.company = None /\ Spelled(chat.conversation))
Labelled(said, n, chat, correlation) ==
    /\ n \in DOMAIN said /\ said[n].chat = chat
    /\ IF said[n].tagged THEN correlation = n
       ELSE correlation # 0 => /\ correlation \in DOMAIN said
                               /\ SameConversation(said[correlation].chat, chat)
Wait(req, objects, said) ==
    /\ req.context \in DOMAIN objects
    /\ objects[req.context].key = SessionKey(req.chat)
    /\ Labelled(said, req.number, req.chat, req.correlation)
    /\ OwnCompany(req.chat, req.company)
    /\ ~req.mixed => objects[req.context].message = req.number
Waits ==
    /\ \A r \in Requests : requests[r] # NoRequest => Wait(requests[r], contexts, asked)
    /\ \A q, r \in Requests :
          (q # r /\ requests[q] # NoRequest /\ requests[q].context = requests[r].context)
             => requests[q].mixed

AuditsSound == \A a \in audits :
    \E chat \in Chats : OwnCompany(chat, a.company)
                        /\ Labelled(asked, a.request, chat, a.correlation)
ReportsSound == \A report \in reports :
    /\ report.nit \in 1..(report.year - 1)
    /\ report.year \in DOMAIN asked
    /\ SameConversation(asked[report.nit].chat, asked[report.year].chat)

\* Only a message in flight holds on to a question that must be forgotten.
Forgotten == \A c \in DOMAIN contexts :
    (~InFlight(c) /\ ~Spelled(contexts[c].key) /\ contexts[c].workflow \in Forgetful)
        => contexts[c].message = 0 /\ contexts[c].entities = 0

IInv ==
    /\ Typed /\ ContextsSound /\ Placed /\ Waits /\ AuditsSound /\ ReportsSound /\ Forgotten
-----------------------------------------------------------------------------
(* Chats and messages *)

LEMMA KeysApart ==
  ASSUME NEW p \in Chats, NEW q \in Chats, SessionKey(p) = SessionKey(q)
  PROVE  SameConversation(p, q)
  <1>1. CASE p.company = None /\ q.company = None
    <2>1. p.conversation = q.conversation /\ p.user = q.user
      BY <1>1, ChatsAssumption DEF SessionKey
    <2> QED BY <1>1, <2>1, ChatsAssumption DEF SameConversation
  <1>2. CASE p.company # None /\ q.company # None
    <2>1. /\ p.company = q.company /\ p.user = q.user /\ p.conversation = q.conversation
      BY <1>2 DEF SessionKey
    <2> QED BY <2>1, ChatsAssumption DEF SameConversation
  <1>3. CASE p.company = None /\ q.company # None
    BY <1>3 DEF SameConversation, SpelledAlike, SessionKey
  <1>4. CASE p.company # None /\ q.company = None
    BY <1>4 DEF SameConversation, SpelledAlike, SessionKey
  <1> QED BY <1>1, <1>2, <1>3, <1>4

\* An anonymous chat finds a company in its context only if its session id is
\* spelled like the key of one of that company's conversations.
LEMMA AnonymousShares ==
  ASSUME NEW chat \in Chats, NEW ctx, chat.company = None, ctx.key = SessionKey(chat),
         ctx.company # None, Owned(ctx)
  PROVE  Spelled(ctx.key) /\ ctx.key = chat.conversation
  <1>1. PICK p \in Chats : p.company = ctx.company /\ SessionKey(p) = ctx.key
    BY DEF Owned
  <1>2. ctx.key = chat.conversation
    BY DEF SessionKey
  <1>3. SpelledAlike(chat, p)
    BY <1>1, <1>2 DEF SpelledAlike
  <1> QED BY <1>2, <1>3 DEF Spelled

LEMMA Typing ==
  /\ None \notin Agents \cup {"exogena", "chat"}
  /\ Narrating \subseteq Forgetful /\ Forgetful = Agents \ {"treasury"} /\ Forgetful \subseteq Agents /\ Agents \subseteq Workflows
  /\ \A w \in Agents : w \notin {"exogena", "chat"}
  BY MessagesAssumption DEF Narrating, Forgetful, Agents, Workflows

\* What has been said is still so when something else is.
LEMMA SaidGrows ==
  ASSUME NEW said \in Seq(Said), NEW x \in Said
  PROVE  /\ Append(said, x) \in Seq(Said)
         /\ DOMAIN Append(said, x) = DOMAIN said \cup {Len(said) + 1}
         /\ Len(said) + 1 \notin DOMAIN said /\ DOMAIN said = 1..Len(said) /\ Len(said) \in Nat
         /\ Append(said, x)[Len(said) + 1] = x
         /\ \A n \in DOMAIN said : Append(said, x)[n] = said[n] /\ said[n] \in Said
  <1>1. Len(said) \in Nat /\ DOMAIN said = 1..Len(said)
    BY LenProperties
  <1>2. Append(said, x) \in Seq(Said) /\ Len(Append(said, x)) = Len(said) + 1
        /\ \A i \in 1..Len(said) : Append(said, x)[i] = said[i]
        /\ Append(said, x)[Len(said) + 1] = x
    BY AppendProperties
  <1>3. DOMAIN Append(said, x) = 1..(Len(said) + 1)
    BY <1>2, LenProperties
  <1> QED BY <1>1, <1>2, <1>3, ElementOfSeq

\* A context that takes in nothing but what was said in its conversation.
LEMMA ContextChanges ==
  ASSUME NEW ctx, NEW new \in ContextSet, NEW said, ContextSound(ctx, said),
         new.key = ctx.key,
         new.company = ctx.company \/ Owned(new),
         new.workflow \in Agents => new.company # None,
         \A t \in TurnsOf(new) :
            \/ t \in TurnsOf(ctx)
            \/ /\ ~t.mixed => t.question = t.answer
               /\ \A m \in {t.question, t.answer} \ {0} : SaidIn(ctx.key, said, m),
         \A m \in {new.message, new.entities, new.correlation, new.nit} \ {0} :
            \/ m \in {ctx.message, ctx.entities, ctx.correlation, ctx.nit}
            \/ SaidIn(ctx.key, said, m),
         new.state # "START" => new.workflow = "exogena",
         new.state = "WAITING_FISCAL_YEAR" => new.nit # 0
  PROVE  ContextSound(new, said)
  <1>1. \A n \in Mentioned(new) : SaidIn(ctx.key, said, n)
    <2> SUFFICES ASSUME NEW n \in Mentioned(new) PROVE SaidIn(ctx.key, said, n)
      OBVIOUS
    <2>1. n # 0
      BY DEF Mentioned
    <2>2. CASE n \in {new.message, new.entities, new.correlation, new.nit}
      BY <2>1, <2>2 DEF ContextSound, Mentioned
    <2>3. CASE \E t \in TurnsOf(new) : n \in {t.question, t.answer}
      BY <2>1, <2>3 DEF ContextSound, Mentioned
    <2> QED BY <2>2, <2>3 DEF Mentioned
  <1>2. \A t \in TurnsOf(new) : ~t.mixed => t.question = t.answer
    BY DEF ContextSound
  <1>3. new.company # None => Owned(new)
    BY DEF ContextSound, Owned
  <1> QED BY <1>1, <1>2, <1>3 DEF ContextSound

LEMMA ContextGrows ==
  ASSUME NEW said \in Seq(Said), NEW x \in Said, NEW ctx, ContextSound(ctx, said)
  PROVE  ContextSound(ctx, Append(said, x))
  <1>1. \A n \in DOMAIN said : n \in DOMAIN Append(said, x) /\ Append(said, x)[n] = said[n]
    BY SaidGrows
  <1> QED BY <1>1 DEF ContextSound, SaidIn

LEMMA LabelsGrow ==
  ASSUME NEW said \in Seq(Said), NEW x \in Said, NEW n, NEW chat, NEW label,
         Labelled(said, n, chat, label)
  PROVE  Labelled(Append(said, x), n, chat, label)
  BY SaidGrows DEF Labelled

-----------------------------------------------------------------------------
(* What a message does to a context *)

LEMMA FreshSound ==
  ASSUME NEW key \in Keys, NEW said
  PROVE  ContextSound(FreshContext(key), said) /\ FreshContext(key).key = key
  <1> DEFINE ctx == FreshContext(key)
  <1>1. <<>> \in Seq(Turns) /\ DOMAIN <<>> = {}
    BY EmptySeq
  <1>2. ctx \in ContextSet
    BY <1>1 DEF FreshContext, ContextSet, Companies, States
  <1>3. TurnsOf(ctx) = {}
    BY <1>1 DEF FreshContext, TurnsOf
  <1>4. Mentioned(ctx) = {}
    BY <1>3 DEF Mentioned, FreshContext
  <1>5. ctx.company = None /\ ctx.workflow \notin Agents
    BY Typing DEF FreshContext
  <1> QED BY <1>2, <1>3, <1>4, <1>5 DEF ContextSound, FreshContext

\* A context is in an agent's workflow only for a company.
LEMMA RoutedFields ==
  ASSUME NEW said, NEW ctx, ContextSound(ctx, said), NEW chat \in Chats, NEW msg \in Messages,
         NEW n \in Nat, msg.forced # None => chat.company # None
  PROVE  LET routed == Routed(ctx, chat, msg, n)
         IN  /\ routed \in ContextSet /\ routed.key = ctx.key /\ routed.message = n
             /\ routed.company = (IF chat.company = None THEN ctx.company ELSE chat.company)
             /\ routed.history = ctx.history
             /\ routed.nit = ctx.nit
             /\ routed.entities \in {0, n}
             /\ routed.workflow \in Workflows
             /\ routed.workflow \in Agents => routed.company # None
             /\ routed.state \in {"START", ctx.state}
             /\ routed.state # "START" => routed.workflow = "exogena"
             /\ routed.correlation =
                    IF chat.company = None \/ ~msg.tagged THEN ctx.correlation ELSE n
  <1> DEFINE label == IF chat.company = None \/ ~msg.tagged THEN ctx.correlation ELSE n
             company == IF chat.company = None THEN ctx.company ELSE chat.company
             own == [ctx EXCEPT !.company = company, !.correlation = label]
             workflow == Workflow(own, msg)
             state == IF msg.forced = None THEN ctx.state ELSE "START"
             entities == IF workflow \in Forgetful THEN 0 ELSE n
             routed == [own EXCEPT !.message = n, !.workflow = workflow, !.state = state,
                                   !.entities = entities]
  <1>1. ctx \in ContextSet
    BY DEF ContextSound
  <1>2. label \in Nat /\ company \in Companies /\ state \in States
    BY <1>1 DEF ContextSet, Companies, States
  <1>3. /\ own \in ContextSet /\ own.company = company /\ own.correlation = label
        /\ own.workflow = ctx.workflow /\ own.state = ctx.state /\ own.key = ctx.key
        /\ own.history = ctx.history /\ own.nit = ctx.nit
    BY <1>1, <1>2 DEF ContextSet
  <1>4. [own EXCEPT !.message = n, !.workflow = workflow,
                    !.state = IF msg.forced = None THEN @ ELSE "START",
                    !.entities = IF workflow \in Forgetful THEN 0 ELSE n] = routed
    BY <1>3 DEF ContextSet
  <1>5. Routed(ctx, chat, msg, n) = routed
    <2>1. Entered(ctx, chat, msg, n) = own
      <3>1. CASE chat.company = None
        BY <1>1, <3>1 DEF ContextSet, Entered
      <3>2. CASE chat.company # None
        <4>1. [ctx EXCEPT !.company = chat.company,
                          !.correlation = IF msg.tagged THEN n ELSE @] = own
          BY <1>1, <3>2 DEF ContextSet
        <4> QED BY <3>2, <4>1 DEF Entered
      <3> QED BY <3>1, <3>2
    <2> QED BY <1>4, <2>1 DEF Routed
  <1> HIDE DEF own, label
  <1>6. /\ workflow \in Workflows
        /\ workflow \in Agents => company # None
        /\ state # "START" => workflow = "exogena"
    <2>1. ctx.state # "START" => ctx.workflow = "exogena"
      BY DEF ContextSound
    <2>2. CASE msg.forced # None
      BY <2>2, MessagesAssumption DEF Workflow, Workflows
    <2>3. CASE msg.forced = None /\ ctx.workflow # None /\ ctx.state # "START"
      BY <1>3, <2>1, <2>3, Typing DEF Workflow, Workflows
    <2>4. CASE msg.forced = None /\ ~(ctx.workflow # None /\ ctx.state # "START")
      <3>1. workflow = IF msg.intent = "accounting_health" /\ company = None
                       THEN "chat" ELSE msg.intent
        BY <1>3, <2>4 DEF Workflow
      <3>2. state = "START"
        BY <2>1, <2>4, MessagesAssumption
      <3>3. msg.intent \in {"accounting_health", "exogena", "chat"}
        BY MessagesAssumption
      <3> QED BY <3>1, <3>2, <3>3, Typing DEF Workflows, Agents, Forgetful
    <2> QED BY <2>2, <2>3, <2>4
  <1> HIDE DEF workflow, company
  <1>7. entities \in {0, n} /\ state \in {"START", ctx.state}
    OBVIOUS
  <1> HIDE DEF entities, state
  <1>8. own \in ContextSet /\ entities \in Nat /\ state \in States /\ workflow \in Workflows
    BY <1>1, <1>3, <1>6, <1>7 DEF ContextSet, States
  <1>9. /\ routed \in ContextSet /\ routed.key = own.key /\ routed.message = n
        /\ routed.company = own.company /\ routed.history = own.history
        /\ routed.nit = own.nit /\ routed.entities = entities /\ routed.workflow = workflow
        /\ routed.state = state /\ routed.correlation = own.correlation
    BY ONLY <1>8, n \in Nat DEF ContextSet
  <1> HIDE DEF routed
  <1> QED BY <1>3, <1>5, <1>6, <1>7, <1>9 DEF label, company

LEMMA RoutedSound ==
  ASSUME NEW said \in Seq(Said), NEW ctx, ContextSound(ctx, said), NEW chat \in Chats,
         NEW msg \in Messages, ctx.key = SessionKey(chat),
         msg.forced # None => chat.company # None
  PROVE  LET now2 == Append(said, [chat |-> chat, tagged |-> msg.tagged /\ chat.company # None])
             n == Len(said) + 1
             routed == Routed(ctx, chat, msg, n)
         IN  /\ ContextSound(routed, now2)
             /\ Labelled(now2, n, chat, routed.correlation)
             /\ OwnCompany(chat, routed.company)
  <1> DEFINE tagged == msg.tagged /\ chat.company # None
             x == [chat |-> chat, tagged |-> tagged]
             now2 == Append(said, x)
             n == Len(said) + 1
             routed == Routed(ctx, chat, msg, n)
  <1>1. x \in Said /\ x.chat = chat /\ x.tagged = tagged
    <2>1. tagged \in BOOLEAN
      OBVIOUS
    <2> QED BY <2>1 DEF Said
  <1> HIDE DEF x
  <1>2. /\ n \in Nat /\ n \in DOMAIN now2 /\ now2[n] = x
        /\ \A i \in DOMAIN said : i \in DOMAIN now2 /\ now2[i] = said[i] /\ said[i].chat \in Chats
    <2>1. /\ n \in Nat /\ n \in DOMAIN now2 /\ now2[n] = x
          /\ \A i \in DOMAIN said : i \in DOMAIN now2 /\ now2[i] = said[i] /\ said[i] \in Said
      BY <1>1, SaidGrows
    <2> QED BY <2>1 DEF Said
  <1>3. ContextSound(ctx, now2)
    BY <1>1, ContextGrows
  <1>4. SaidIn(ctx.key, now2, n)
    BY <1>1, <1>2 DEF SaidIn
  <1> HIDE DEF n, now2
  <1>5. /\ routed \in ContextSet /\ routed.key = ctx.key /\ routed.message = n
        /\ routed.company = (IF chat.company = None THEN ctx.company ELSE chat.company)
        /\ routed.history = ctx.history
        /\ routed.nit = ctx.nit
        /\ routed.entities \in {0, n}
        /\ routed.workflow \in Agents => routed.company # None
        /\ routed.state \in {"START", ctx.state}
        /\ routed.state # "START" => routed.workflow = "exogena"
        /\ routed.correlation =
               IF chat.company = None \/ ~msg.tagged THEN ctx.correlation ELSE n
    BY <1>2, RoutedFields
  <1> HIDE DEF routed
  <1>6. ContextSound(routed, now2)
    <2>1. TurnsOf(routed) = TurnsOf(ctx)
      BY <1>5 DEF TurnsOf
    <2>2. routed.state = "WAITING_FISCAL_YEAR" => routed.nit # 0
      BY <1>5 DEF ContextSound
    <2>3. routed.company = ctx.company \/ Owned(routed)
      BY <1>5 DEF Owned
    <2> QED BY <1>3, <1>4, <1>5, <2>1, <2>2, <2>3, ContextChanges
  <1>7. Labelled(now2, n, chat, routed.correlation)
    <2>1. CASE tagged
      <3>1. routed.correlation = n
        BY <1>5, <2>1
      <3> QED BY <1>1, <1>2, <2>1, <3>1 DEF Labelled
    <2>2. CASE ~tagged
      <3>1. routed.correlation = ctx.correlation
        BY <1>5, <2>2
      <3>2. ASSUME ctx.correlation # 0
            PROVE  /\ ctx.correlation \in DOMAIN now2
                   /\ SameConversation(now2[ctx.correlation].chat, chat)
        <4>1. SaidIn(ctx.key, said, ctx.correlation)
          BY <3>2 DEF ContextSound, Mentioned
        <4> QED BY <1>2, <4>1, KeysApart DEF SaidIn
      <3> QED BY <1>1, <1>2, <2>2, <3>1, <3>2 DEF Labelled
    <2> QED BY <2>1, <2>2
  <1>8. OwnCompany(chat, routed.company)
    <2>1. CASE chat.company # None
      BY <1>5, <2>1 DEF OwnCompany
    <2>2. CASE chat.company = None /\ ctx.company = None
      BY <1>5, <2>2 DEF OwnCompany
    <2>3. CASE chat.company = None /\ ctx.company # None
      <3>1. Owned(ctx)
        BY <2>3 DEF ContextSound
      <3> QED BY <2>3, <3>1, AnonymousShares DEF OwnCompany
    <2> QED BY <2>1, <2>2, <2>3
  <1> QED BY <1>6, <1>7, <1>8 DEF routed, now2, n, x

LEMMA ExogenaSound ==
  ASSUME NEW said, NEW ctx, ContextSound(ctx, said), ctx.message # 0,
         ctx.workflow = "exogena"
  PROVE  LET new == Exogena(ctx)
         IN  /\ ContextSound(new, said) /\ new.key = ctx.key
             /\ new.workflow \notin Agents
  <1> DEFINE new == Exogena(ctx)
  <1>1. ctx \in ContextSet
    BY DEF ContextSound
  <1>2. /\ new \in ContextSet /\ new.key = ctx.key /\ new.history = ctx.history
        /\ new.message = ctx.message /\ new.entities = ctx.entities
        /\ new.correlation = ctx.correlation /\ new.nit \in {ctx.nit, ctx.message}
        /\ new.company = ctx.company
        /\ new.workflow \in {"exogena", None}
        /\ new.state # "START" => new.workflow = "exogena"
        /\ new.state = "WAITING_FISCAL_YEAR" => new.nit # 0
    <2>1. CASE ctx.state = "START"
      <3>1. new = [ctx EXCEPT !.state = "WAITING_NIT"]
        BY <2>1 DEF Exogena
      <3> QED BY <1>1, <3>1 DEF ContextSet, States
    <2>2. CASE ctx.state = "WAITING_NIT"
      <3>1. new = [ctx EXCEPT !.state = "WAITING_FISCAL_YEAR", !.nit = ctx.message]
        BY <2>2 DEF Exogena
      <3> QED BY <1>1, <3>1 DEF ContextSet, States
    <2>3. CASE ctx.state \notin {"START", "WAITING_NIT"}
      <3>1. new = [ctx EXCEPT !.state = "START", !.workflow = None]
        BY <2>3 DEF Exogena
      <3> QED BY <1>1, <3>1 DEF ContextSet, States
    <2> QED BY <2>1, <2>2, <2>3
  <1> HIDE DEF new
  <1>3. TurnsOf(new) = TurnsOf(ctx)
    BY <1>2 DEF TurnsOf
  <1>5. new.workflow \notin Agents
    BY <1>2, Typing
  <1>4. ContextSound(new, said)
    BY <1>2, <1>3, <1>5, ContextChanges
  <1> QED BY <1>2, <1>4, <1>5 DEF new

LEMMA LastTurnsKept ==
  ASSUME NEW turns \in Seq(Turns)
  PROVE  /\ LastTurns(turns) \in Seq(Turns)
         /\ \A i \in DOMAIN LastTurns(turns) :
               \E j \in DOMAIN turns : LastTurns(turns)[i] = turns[j]
  <1> DEFINE m == IF Len(turns) > MaxTurns THEN Len(turns) - MaxTurns + 1 ELSE 1
             last == LastTurns(turns)
  <1>1. Len(turns) \in Nat /\ DOMAIN turns = 1..Len(turns)
    BY LenProperties
  <1>2. m \in 1..(Len(turns) + 1) /\ last = SubSeq(turns, m, Len(turns))
    BY <1>1, StoreAssumption DEF LastTurns
  <1> HIDE DEF m, last
  <1>3. /\ last \in Seq(Turns)
        /\ Len(last) = IF m <= Len(turns) THEN Len(turns) - m + 1 ELSE 0
        /\ \A i \in 1..Len(turns)-m+1 : last[i] = turns[m+i-1]
    BY <1>1, <1>2, SubSeqProperties
  <1>4. DOMAIN last = 1..Len(last)
    BY <1>3, LenProperties
  <1>5. ASSUME NEW i \in DOMAIN last
        PROVE  \E j \in DOMAIN turns : last[i] = turns[j]
    <2>1. i \in 1..Len(turns)-m+1 /\ m+i-1 \in 1..Len(turns)
      BY <1>1, <1>2, <1>3, <1>4, <1>5
    <2> QED BY <1>1, <1>3, <2>1
  <1> QED BY <1>3, <1>5 DEF last

LEMMA RememberedSound ==
  ASSUME NEW said, NEW ctx, ContextSound(ctx, said), NEW agent, NEW n \in Nat,
         NEW mixed \in BOOLEAN, SaidIn(ctx.key, said, n), ~mixed => ctx.message = n
  PROVE  LET new == Remembered(ctx, agent, n, mixed)
         IN  /\ ContextSound(new, said) /\ new.key = ctx.key
             /\ new.workflow = ctx.workflow /\ new.company = ctx.company
  <1> DEFINE new == Remembered(ctx, agent, n, mixed)
  <1>1. ctx \in ContextSet
    BY DEF ContextSound
  <1>2. CASE agent \notin Narrating
    BY <1>2 DEF Remembered
  <1>3. CASE agent \in Narrating
    <2> DEFINE turn == Turn(ctx, n, mixed)
               turns == Append(ctx.history[agent], turn)
               last == LastTurns(turns)
    <2>1. turn \in Turns /\ turn.question = ctx.message /\ turn.answer = n /\ turn.mixed = mixed
      BY <1>1 DEF Turn, Turns, ContextSet
    <2> HIDE DEF turn
    <2>2. ctx.history[agent] \in Seq(Turns) /\ ctx.history \in [Narrating -> Seq(Turns)]
      BY <1>1, <1>3 DEF ContextSet
    <2>3. /\ turns \in Seq(Turns)
          /\ \A j \in DOMAIN turns : turns[j] = turn
                \/ \E i \in DOMAIN ctx.history[agent] : turns[j] = ctx.history[agent][i]
      <3> DEFINE h == ctx.history[agent]
      <3>1. h \in Seq(Turns) /\ Len(h) \in Nat /\ DOMAIN h = 1..Len(h)
        BY <2>2, LenProperties
      <3> HIDE DEF h
      <3>2. /\ Append(h, turn) \in Seq(Turns) /\ Len(Append(h, turn)) = Len(h) + 1
            /\ \A i \in 1..Len(h) : Append(h, turn)[i] = h[i]
            /\ Append(h, turn)[Len(h) + 1] = turn
        BY <2>1, <3>1, AppendProperties
      <3>3. DOMAIN Append(h, turn) = 1..(Len(h) + 1)
        BY <3>2, LenProperties
      <3> QED BY <3>1, <3>2, <3>3 DEF h
    <2> HIDE DEF turns
    <2>4. /\ last \in Seq(Turns)
          /\ \A i \in DOMAIN last : \E j \in DOMAIN turns : last[i] = turns[j]
      BY <2>3, LastTurnsKept
    <2>5. new = [ctx EXCEPT !.history = [ctx.history EXCEPT ![agent] = last]]
      <3>1. [ctx EXCEPT !.history[agent] = LastTurns(Append(@, Turn(ctx, n, mixed)))]
              = [ctx EXCEPT !.history = [ctx.history EXCEPT ![agent] = last]]
        BY <1>1 DEF ContextSet, turns, turn
      <3> QED BY <1>3, <3>1 DEF Remembered
    <2> HIDE DEF last, new
    <2>6. /\ new \in ContextSet /\ new.history = [ctx.history EXCEPT ![agent] = last]
          /\ new.key = ctx.key /\ new.message = ctx.message /\ new.entities = ctx.entities
          /\ new.correlation = ctx.correlation /\ new.nit = ctx.nit
          /\ new.workflow = ctx.workflow /\ new.state = ctx.state /\ new.company = ctx.company
      <3>1. [ctx.history EXCEPT ![agent] = last] \in [Narrating -> Seq(Turns)]
        BY <1>3, <2>2, <2>4
      <3> QED BY <1>1, <2>5, <3>1 DEF ContextSet
    <2>7. ASSUME NEW t \in TurnsOf(new)
          PROVE  t \in TurnsOf(ctx) \/ t = turn
      <3>1. PICK a \in Narrating : \E i \in DOMAIN new.history[a] : t = new.history[a][i]
        BY <2>7 DEF TurnsOf
      <3>2. CASE a = agent
        <4>1. new.history[a] = last
          BY <1>3, <2>2, <2>6, <3>2
        <4>2. t = turn \/ \E i \in DOMAIN ctx.history[agent] : t = ctx.history[agent][i]
          BY <2>3, <2>4, <3>1, <4>1
        <4> QED BY <1>3, <4>2 DEF TurnsOf
      <3>3. CASE a # agent
        <4>1. new.history[a] = ctx.history[a]
          BY <2>2, <2>6, <3>3
        <4> QED BY <3>1, <4>1 DEF TurnsOf
      <3> QED BY <3>2, <3>3
    <2>8. /\ ~turn.mixed => turn.question = turn.answer
          /\ \A m \in {turn.question, turn.answer} \ {0} : SaidIn(ctx.key, said, m)
      <3>1. ctx.message # 0 => SaidIn(ctx.key, said, ctx.message)
        BY DEF ContextSound, Mentioned
      <3> QED BY <2>1, <3>1
    <2>9. /\ new.state # "START" => new.workflow = "exogena"
          /\ new.state = "WAITING_FISCAL_YEAR" => new.nit # 0
          /\ new.workflow \in Agents => new.company # None
      BY <2>6 DEF ContextSound
    <2>10. ContextSound(new, said)
      <3>1. \A t \in TurnsOf(new) :
              \/ t \in TurnsOf(ctx)
              \/ /\ ~t.mixed => t.question = t.answer
                 /\ \A m \in {t.question, t.answer} \ {0} : SaidIn(ctx.key, said, m)
        BY <2>7, <2>8
      <3>2. \A m \in {new.message, new.entities, new.correlation, new.nit} \ {0} :
              m \in {ctx.message, ctx.entities, ctx.correlation, ctx.nit}
        BY <2>6
      <3> QED BY ONLY <2>6, <2>9, <3>1, <3>2, ContextChanges, ContextSound(ctx, said)
    <2> QED BY <2>6, <2>10 DEF new
  <1> QED BY <1>2, <1>3

LEMMA ClosedSound ==
  ASSUME NEW said, NEW ctx, ContextSound(ctx, said), NEW chat \in Chats,
         ctx.key = SessionKey(chat)
  PROVE  LET new == Closed(ctx, chat)
         IN  /\ ContextSound(new, said) /\ new.key = ctx.key
             /\ (~Spelled(new.key) /\ new.workflow \in Forgetful)
                    => new.message = 0 /\ new.entities = 0
  <1>1. CASE chat.company = None
    <2>1. Closed(ctx, chat) = ctx
      BY <1>1 DEF Closed
    <2>2. ctx.workflow \in Forgetful => Spelled(ctx.key)
      <3>1. ctx.workflow \in Forgetful => ctx.company # None /\ Owned(ctx)
        BY Typing DEF ContextSound
      <3> QED BY <1>1, <3>1, AnonymousShares
    <2> QED BY <2>1, <2>2
  <1>2. CASE chat.company # None
    <2> DEFINE forget == ctx.workflow \in Forgetful
               message == IF forget THEN 0 ELSE ctx.message
               entities == IF forget THEN 0 ELSE ctx.entities
               new == [ctx EXCEPT !.message = message, !.entities = entities,
                                  !.correlation = 0]
    <2>1. ctx \in ContextSet
      BY DEF ContextSound
    <2>2. Closed(ctx, chat) = new
      <3>1. [ctx EXCEPT !.message = IF ctx.workflow \in Forgetful THEN 0 ELSE @,
                        !.entities = IF ctx.workflow \in Forgetful THEN 0 ELSE @,
                        !.correlation = 0] = new
        BY <2>1 DEF ContextSet
      <3> QED BY <1>2, <3>1 DEF Closed
    <2>3. message \in {0, ctx.message} /\ entities \in {0, ctx.entities}
          /\ (forget => message = 0 /\ entities = 0)
      OBVIOUS
    <2>4. message \in Nat /\ entities \in Nat
      BY <2>1 DEF ContextSet
    <2> HIDE DEF message, entities
    <2>5. /\ new \in ContextSet /\ new.message = message /\ new.entities = entities
          /\ new.correlation = 0 /\ new.nit = ctx.nit /\ new.key = ctx.key
          /\ new.workflow = ctx.workflow /\ new.state = ctx.state
          /\ new.company = ctx.company /\ new.history = ctx.history
      BY <2>1, <2>4 DEF ContextSet
    <2> HIDE DEF new
    <2>6. TurnsOf(new) = TurnsOf(ctx)
      BY <2>5 DEF TurnsOf
    <2>7. /\ new.state # "START" => new.workflow = "exogena"
          /\ new.state = "WAITING_FISCAL_YEAR" => new.nit # 0
          /\ new.workflow \in Agents => new.company # None
      BY <2>5 DEF ContextSound
    <2>8. ContextSound(new, said)
      BY <2>3, <2>5, <2>6, <2>7, ContextChanges
    <2> QED BY <2>2, <2>3, <2>5, <2>8
  <1> QED BY <1>1, <1>2
-----------------------------------------------------------------------------
(* The store *)

LEMMA KeptEntries ==
  ASSUME NEW entries \in SUBSET Entry
  PROVE  /\ Kept(entries) \subseteq Entry
         /\ \A e \in Kept(entries) : \E f \in entries : f.key = e.key /\ f.context = e.context
  <1> DEFINE live == {f.key : f \in entries}
             stripped(f) == [f EXCEPT !.after = f.after \cap live]
  <1>1. live \subseteq Keys
    BY DEF Entry
  <1>2. Kept(entries) = {stripped(f) : f \in entries}
    <2>1. \A f \in entries : [f EXCEPT !.after = @ \cap live] = stripped(f)
      BY DEF Entry
    <2> QED BY <2>1 DEF Kept
  <1> HIDE DEF live
  <1>3. \A f \in entries :
          stripped(f) \in Entry /\ stripped(f).key = f.key /\ stripped(f).context = f.context
    BY <1>1 DEF Entry
  <1> HIDE DEF stripped
  <1> QED BY <1>2, <1>3

\* Saving adds one entry, and neither purging nor evicting adds any.
LEMMA SavedEntries ==
  ASSUME Typed, NEW key \in Keys, NEW c \in Nat
  PROVE  /\ Saved(key, c) \subseteq Entry
         /\ \A e \in Saved(key, c) :
               \/ e.key = key /\ e.context = c
               \/ \E f \in sessions : f.key = e.key /\ f.context = e.context
  <1>1. /\ Purged \subseteq Entry
        /\ \A e \in Purged : \E f \in sessions : f.key = e.key /\ f.context = e.context
    <2> DEFINE fresh == {e \in sessions : Fresh(e)}
    <2>1. fresh \in SUBSET Entry
      BY DEF Typed
    <2>2. \A f \in fresh : f \in sessions
      OBVIOUS
    <2>3. Purged = Kept(fresh)
      BY DEF Purged
    <2> HIDE DEF fresh
    <2> QED BY <2>1, <2>2, <2>3, KeptEntries
  <1> DEFINE entry == [key |-> key, at |-> now, context |-> c, after |-> {e.key : e \in Purged}]
             refreshed == {IF e.key = key THEN [e EXCEPT !.at = now, !.context = c] ELSE e :
                              e \in Purged}
             store == IF Stored(key) = {} THEN Purged \cup {entry} ELSE refreshed
             limit == IF MaxSessions = 0 THEN 1 ELSE MaxSessions
             newer(e) == {f \in store : e.key \in f.after}
             left == {e \in store : Cardinality(newer(e)) < limit}
  <1>2. entry \in Entry /\ entry.key = key /\ entry.context = c
    BY <1>1 DEF Typed, Entry
  <1>3. \A e \in Purged :
          LET new == [e EXCEPT !.at = now, !.context = c]
          IN  new \in Entry /\ new.key = e.key /\ new.context = c
    BY <1>1 DEF Typed, Entry
  <1> HIDE DEF entry
  <1>4. /\ store \subseteq Entry
        /\ \A e \in store :
              \/ e.key = key /\ e.context = c
              \/ \E f \in sessions : f.key = e.key /\ f.context = e.context
    <2>1. CASE Stored(key) = {}
      BY <1>1, <1>2, <2>1
    <2>2. CASE Stored(key) # {}
      BY <1>1, <1>3, <2>2, ZenonT(40)
    <2> QED BY <2>1, <2>2
  <1>5. Saved(key, c) = Kept(left)
    BY DEF Saved, Evicted, entry
  <1> HIDE DEF store
  <1>6. left \in SUBSET Entry /\ \A e \in left : e \in store
    BY <1>4
  <1> HIDE DEF left
  <1>7. /\ Kept(left) \subseteq Entry
        /\ \A e \in Kept(left) : \E f \in left : f.key = e.key /\ f.context = e.context
    BY <1>6, KeptEntries
  <1>8. ASSUME NEW e \in Kept(left)
        PROVE  \/ e.key = key /\ e.context = c
               \/ \E f \in sessions : f.key = e.key /\ f.context = e.context
    <2>1. PICK g \in left : g.key = e.key /\ g.context = e.context
      BY <1>7
    <2> QED BY <1>4, <1>6, <2>1
  <1> QED BY <1>5, <1>7, <1>8

\* The context a message finds is one of its key, or a fresh one.
LEMMA ContextFound ==
  ASSUME IInv, NEW key \in Keys
  PROVE  /\ Context(key) \in 1..(Len(contexts) + 1)
         /\ ContextSound(Object(key), asked) /\ Object(key).key = key
         /\ Context(key) \in DOMAIN contexts => contexts[Context(key)].key = key
  <1>1. contexts \in Seq(ContextSet) /\ Len(contexts) \in Nat
        /\ DOMAIN contexts = 1..Len(contexts)
    BY LenProperties DEF IInv, Typed
  <1>2. CASE Stored(key) = {}
    <2>1. Context(key) = Len(contexts) + 1 /\ Object(key) = FreshContext(key)
      BY <1>2 DEF Context, Object
    <2> QED BY <1>1, <2>1, FreshSound
  <1>3. CASE Stored(key) # {}
    <2> DEFINE e == CHOOSE e \in Stored(key) : TRUE
               fresh == {f \in sessions : Fresh(f)}
    <2>1. e \in Purged /\ e.key = key
      BY <1>3 DEF Stored
    <2>2. Context(key) = e.context
      BY <1>3 DEF Context
    <2>3. Object(key) = contexts[e.context]
      BY <1>3, <2>2 DEF Object
    <2> HIDE DEF e
    <2>4. PICK f \in sessions : f.key = e.key /\ f.context = e.context
      <3>1. fresh \in SUBSET Entry /\ Purged = Kept(fresh) /\ \A f \in fresh : f \in sessions
        BY DEF Purged, IInv, Typed
      <3> HIDE DEF fresh
      <3> QED BY <2>1, <3>1, KeptEntries
    <2>5. e.context \in DOMAIN contexts /\ contexts[e.context].key = key
      BY <2>1, <2>4 DEF IInv, Placed
    <2> QED BY <1>1, <2>2, <2>3, <2>5 DEF IInv, ContextsSound
  <1> QED BY <1>2, <1>3

LEMMA ContextWritten ==
  ASSUME NEW c \in 1..(Len(contexts) + 1), NEW ctx \in ContextSet, contexts \in Seq(ContextSet)
  PROVE  /\ WithContext(c, ctx) \in Seq(ContextSet)
         /\ DOMAIN WithContext(c, ctx) = DOMAIN contexts \cup {c}
         /\ WithContext(c, ctx)[c] = ctx
         /\ \A i \in DOMAIN contexts \ {c} : WithContext(c, ctx)[i] = contexts[i]
  <1> DEFINE objects == WithContext(c, ctx)
             len == IF c = Len(contexts) + 1 THEN c ELSE Len(contexts)
  <1>1. Len(contexts) \in Nat /\ DOMAIN contexts = 1..Len(contexts)
        /\ \A i \in 1..Len(contexts) : contexts[i] \in ContextSet
    BY LenProperties, ElementOfSeq
  <1>2. len \in Nat /\ DOMAIN contexts \cup {c} = 1..len
    BY <1>1
  <1> HIDE DEF len
  <1>3. objects = [i \in 1..len |-> IF i = c THEN ctx ELSE contexts[i]]
    BY <1>2 DEF WithContext
  <1>4. \A i \in 1..len : (IF i = c THEN ctx ELSE contexts[i]) \in ContextSet
    BY <1>1, <1>2
  <1>5. objects \in Seq(ContextSet)
    BY <1>2, <1>3, <1>4, IsASeq
  <1> QED BY <1>2, <1>3, <1>5
-----------------------------------------------------------------------------
(* Steps *)

\* A step that writes one context and saves its session.
LEMMA ContextStep ==
  ASSUME IInv, NEW key \in Keys, NEW c \in 1..(Len(contexts) + 1), NEW new,
         ContextSound(new, asked'), new.key = key,
         c \in DOMAIN contexts => contexts[c].key = key,
         \A i \in DOMAIN contexts : ContextSound(contexts[i], asked'),
         DOMAIN contexts' = DOMAIN contexts \cup {c}, contexts'[c] = new,
         \A i \in DOMAIN contexts \ {c} : contexts'[i] = contexts[i],
         sessions' \in {sessions, Saved(key, c)}
  PROVE  /\ sessions' \subseteq Entry /\ ContextsSound' /\ Placed'
         /\ \A i \in DOMAIN contexts : contexts'[i].key = contexts[i].key
  <1>1. \A i \in DOMAIN contexts' : ContextSound(contexts'[i], asked')
    OBVIOUS
  <1>2. ContextsSound'
    BY <1>1 DEF ContextsSound
  <1>3. \A i \in DOMAIN contexts : contexts'[i].key = contexts[i].key
    OBVIOUS
  <1>4. /\ sessions' \subseteq Entry
        /\ \A e \in sessions' : \/ e.key = key /\ e.context = c
                                \/ \E f \in sessions : f.key = e.key /\ f.context = e.context
    <2>1. Len(contexts) \in Nat
      BY LenProperties DEF IInv, Typed
    <2>2. sessions \subseteq Entry
      BY DEF IInv, Typed
    <2> QED BY <2>1, <2>2, SavedEntries DEF IInv
  <1>5. Placed'
    BY <1>3, <1>4 DEF IInv, Placed
  <1> QED BY <1>2, <1>3, <1>4, <1>5

\* When a message arrives, what the others wait for stays.
LEMMA ArrivalStep ==
  ASSUME IInv, NEW chat \in Chats, NEW msg \in Messages, Arrives(chat, msg), NEW new,
         ContextSound(new, asked'), new.key = SessionKey(chat),
         contexts' = WithContext(Context(SessionKey(chat)), new),
         sessions' = Saved(SessionKey(chat), Context(SessionKey(chat))),
         now' = now
  PROVE  /\ sessions' \subseteq Entry /\ contexts' \in Seq(ContextSet) /\ asked' \in Seq(Said)
         /\ ContextsSound' /\ Placed'
         /\ DOMAIN contexts' = DOMAIN contexts \cup {Context(SessionKey(chat))}
         /\ contexts'[Context(SessionKey(chat))] = new
         /\ \A i \in DOMAIN contexts :
               /\ contexts'[i].key = contexts[i].key
               /\ i # Context(SessionKey(chat)) => contexts'[i] = contexts[i]
         /\ \A n, label, p : Labelled(asked, n, p, label) => Labelled(asked', n, p, label)
         /\ \A n \in DOMAIN asked : n \in DOMAIN asked' /\ asked'[n] = asked[n]
         /\ Context(SessionKey(chat)) \in Nat \ {0}
  <1> DEFINE tagged == msg.tagged /\ chat.company # None
             x == [chat |-> chat, tagged |-> tagged]
  <1> PICK key \in Keys : key = SessionKey(chat)
    BY DEF Keys
  <1> PICK c : c = Context(key)
    OBVIOUS
  <1>1. x \in Said /\ asked \in Seq(Said) /\ asked' = Append(asked, x)
    <2>1. tagged \in BOOLEAN
      OBVIOUS
    <2> QED BY <2>1 DEF Said, Arrives, IInv, Typed
  <1> HIDE DEF x
  <1>2. asked' \in Seq(Said) /\ \A n \in DOMAIN asked : n \in DOMAIN asked' /\ asked'[n] = asked[n]
    BY <1>1, SaidGrows
  <1>3. \A n, label, p : Labelled(asked, n, p, label) => Labelled(asked', n, p, label)
    BY <1>1, LabelsGrow
  <1>4. c \in 1..(Len(contexts) + 1) /\ (c \in DOMAIN contexts => contexts[c].key = key)
    BY ContextFound
  <1>5. contexts \in Seq(ContextSet) /\ new \in ContextSet
    BY DEF IInv, Typed, ContextSound
  <1>6. /\ contexts' \in Seq(ContextSet) /\ DOMAIN contexts' = DOMAIN contexts \cup {c}
        /\ contexts'[c] = new /\ \A i \in DOMAIN contexts \ {c} : contexts'[i] = contexts[i]
    <2>1. contexts' = WithContext(c, new)
      OBVIOUS
    <2> QED BY ONLY <1>4, <1>5, <2>1, ContextWritten
  <1>7. \A i \in DOMAIN contexts : ContextSound(contexts[i], asked')
    BY <1>1, ContextGrows DEF IInv, ContextsSound
  <1>8. /\ sessions' \subseteq Entry /\ ContextsSound' /\ Placed'
        /\ \A i \in DOMAIN contexts : contexts'[i].key = contexts[i].key
    <2>1. sessions' = Saved(key, c) /\ new.key = key
      OBVIOUS
    <2> QED BY <1>4, <1>6, <1>7, <2>1, ContextStep
  <1> QED BY <1>2, <1>3, <1>4, <1>6, <1>8

\* Those that wait on the context of a message that arrives are overlapped.
LEMMA OverlappingWaits ==
  ASSUME IInv, NEW c \in Nat \ {0}, NEW r \in Requests
  PROVE  LET q == Overlapping(c)[r]
         IN  /\ requests[r] = NoRequest <=> q = NoRequest
             /\ q.context = requests[r].context
             /\ q \in Waiting \cup {NoRequest}
             /\ requests[r].context # c => q = requests[r]
             /\ requests[r].context = c => q.mixed
             /\ (requests[r] # NoRequest) =>
                    /\ q.number = requests[r].number /\ q.chat = requests[r].chat
                    /\ q.correlation = requests[r].correlation
                    /\ q.company = requests[r].company
                    /\ requests[r].mixed => q.mixed
  <1>1. requests[r] \in Waiting \cup {NoRequest}
    BY DEF IInv, Typed
  <1>2. NoRequest.context = 0 /\ \A w \in Waiting : w.context # 0 /\ w # NoRequest
    BY DEF NoRequest, Waiting
  <1>3. CASE requests[r].context # c
    <2>1. Overlapping(c)[r] = requests[r]
      BY <1>3 DEF Overlapping
    <2> QED BY <1>1, <1>3, <2>1
  <1>4. CASE requests[r].context = c
    <2> DEFINE q == [requests[r] EXCEPT !.mixed = TRUE]
    <2>1. requests[r] \in Waiting
      BY <1>1, <1>2, <1>4
    <2>2. /\ q \in Waiting /\ q.context = requests[r].context /\ q.mixed
          /\ q.number = requests[r].number /\ q.chat = requests[r].chat
          /\ q.correlation = requests[r].correlation /\ q.company = requests[r].company
      BY <2>1 DEF Waiting
    <2>3. Overlapping(c)[r] = q
      BY <1>4 DEF Overlapping
    <2> HIDE DEF q
    <2> QED BY <1>2, <1>4, <2>1, <2>2, <2>3
  <1> QED BY <1>3, <1>4

LEMMA WaitsOverlapped ==
  ASSUME IInv, NEW chat \in Chats, NEW msg \in Messages, Arrives(chat, msg), NEW new,
         ContextSound(new, asked'), new.key = SessionKey(chat),
         contexts' = WithContext(Context(SessionKey(chat)), new),
         sessions' = Saved(SessionKey(chat), Context(SessionKey(chat))),
         now' = now, NEW r \in Requests, requests[r] # NoRequest
  PROVE  Wait(Overlapping(Context(SessionKey(chat)))[r], contexts', asked')
  <1> PICK c \in Nat \ {0} : c = Context(SessionKey(chat))
    BY ArrivalStep
  <1> DEFINE q == Overlapping(c)[r]
  <1>1. Wait(requests[r], contexts, asked)
    BY DEF IInv, Waits
  <1>2. /\ q.context = requests[r].context
        /\ requests[r].context # c => q = requests[r]
        /\ requests[r].context = c => q.mixed
        /\ q.number = requests[r].number /\ q.chat = requests[r].chat
        /\ q.correlation = requests[r].correlation /\ q.company = requests[r].company
        /\ requests[r].mixed => q.mixed
    BY OverlappingWaits
  <1> HIDE DEF q
  <1>3. Wait(q, contexts, asked)
    BY <1>1, <1>2 DEF Wait
  <1>4. /\ q.context \in DOMAIN contexts' /\ contexts'[q.context].key = contexts[q.context].key
        /\ q.context # c => contexts'[q.context] = contexts[q.context]
        /\ Labelled(asked', q.number, q.chat, q.correlation)
    BY <1>3, ArrivalStep DEF Wait
  <1>5. q.mixed \/ contexts'[q.context] = contexts[q.context]
    BY <1>2, <1>4
  <1>6. Wait(q, contexts', asked')
    BY ONLY <1>3, <1>4, <1>5 DEF Wait
  <1> QED BY <1>6 DEF q
\* The context of a message that arrives, when its workflow starts.
LEMMA ArrivalRouted ==
  ASSUME IInv, NEW chat \in Chats, NEW msg \in Messages, Arrives(chat, msg)
  PROVE  LET n == Len(asked) + 1
             key == SessionKey(chat)
             routed == Routed(Object(key), chat, msg, n)
         IN  /\ n \in Nat \ {0} /\ DOMAIN asked = 1..(n - 1)
             /\ n \in DOMAIN asked' /\ asked'[n].chat = chat /\ SaidIn(key, asked', n)
             /\ ContextSound(routed, asked') /\ routed.key = key /\ routed.message = n
             /\ OwnCompany(chat, routed.company)
             /\ Labelled(asked', n, chat, routed.correlation)
             /\ routed.state = "WAITING_FISCAL_YEAR" =>
                    /\ routed.nit \in DOMAIN asked
                    /\ SameConversation(asked[routed.nit].chat, chat)
  <1> DEFINE tagged == msg.tagged /\ chat.company # None
             x == [chat |-> chat, tagged |-> tagged]
             n == Len(asked) + 1
             key == SessionKey(chat)
             ctx == Object(key)
             routed == Routed(ctx, chat, msg, n)
  <1>1. x \in Said /\ x.chat = chat /\ asked \in Seq(Said) /\ asked' = Append(asked, x)
        /\ (msg.forced # None => chat.company # None)
    <2>1. tagged \in BOOLEAN
      OBVIOUS
    <2> QED BY <2>1 DEF Said, Arrives, IInv, Typed
  <1>2. ContextSound(ctx, asked) /\ ctx.key = key
    BY ContextFound DEF Keys
  <1>3. /\ ContextSound(routed, asked')
        /\ Labelled(asked', n, chat, routed.correlation) /\ OwnCompany(chat, routed.company)
    BY <1>1, <1>2, RoutedSound
  <1> HIDE DEF x, ctx
  <1>4. /\ n \in Nat \ {0} /\ DOMAIN asked = 1..(n - 1)
        /\ n \in DOMAIN asked' /\ asked'[n].chat = chat
    BY <1>1, SaidGrows
  <1>5. SaidIn(key, asked', n)
    BY <1>4 DEF SaidIn
  <1> HIDE DEF n
  <1>6. /\ routed.key = key /\ routed.message = n
        /\ routed.nit = ctx.nit /\ routed.state \in {"START", ctx.state}
    BY <1>1, <1>2, <1>4, RoutedFields
  <1> HIDE DEF routed
  <1>7. ASSUME routed.state = "WAITING_FISCAL_YEAR"
        PROVE  /\ routed.nit \in DOMAIN asked
               /\ SameConversation(asked[routed.nit].chat, chat)
    <2>1. SaidIn(key, asked, routed.nit)
      BY <1>2, <1>6, <1>7 DEF ContextSound, Mentioned
    <2>2. routed.nit \in DOMAIN asked /\ asked[routed.nit].chat \in Chats
      BY <1>1, <2>1, SaidGrows DEF SaidIn, Said
    <2> QED BY <2>1, <2>2, KeysApart DEF SaidIn
  <1> QED BY <1>3, <1>4, <1>5, <1>6, <1>7 DEF routed, n, ctx

LEMMA AnswerStep ==
  ASSUME IInv, NEW chat \in Chats, NEW msg \in Messages, NEW failed \in BOOLEAN,
         Answer(chat, msg, failed)
  PROVE  IInv'
  <1> PICK n \in Nat \ {0} : n = Len(asked) + 1
    BY ArrivalRouted DEF Answer
  <1> PICK key \in Keys : key = SessionKey(chat)
    BY DEF Keys
  <1> DEFINE routed == Routed(Object(key), chat, msg, n)
             workflow == routed.workflow
             answered == IF workflow = "exogena" THEN Exogena(routed)
                         ELSE IF failed THEN routed
                         ELSE Remembered(routed, workflow, n, FALSE)
             new == Closed(answered, chat)
             kept == IF workflow = "exogena" /\ routed.state = "WAITING_FISCAL_YEAR"
                     THEN reports \cup {[nit |-> routed.nit, year |-> n]} ELSE reports
             status == IF failed THEN "failed" ELSE LocalStatus(workflow, msg)
  <1>1. PICK c : c = Context(key)
    OBVIOUS
  <1>2. /\ Arrives(chat, msg) /\ contexts' = WithContext(c, new) /\ requests' = Overlapping(c)
        /\ sessions' = Saved(key, c) /\ now' = now /\ reports' = kept
        /\ IF Recorded(workflow, failed)
           THEN audits' \in Audit(n, routed.correlation, routed.company, workflow, status)
           ELSE UNCHANGED audits
    BY <1>1 DEF Answer
  <1>3. /\ DOMAIN asked = 1..(n - 1)
        /\ n \in DOMAIN asked' /\ asked'[n].chat = chat /\ SaidIn(key, asked', n)
        /\ ContextSound(routed, asked') /\ routed.key = key /\ routed.message = n
        /\ Labelled(asked', n, chat, routed.correlation) /\ OwnCompany(chat, routed.company)
        /\ routed.state = "WAITING_FISCAL_YEAR" =>
               /\ routed.nit \in DOMAIN asked
               /\ SameConversation(asked[routed.nit].chat, chat)
    BY <1>2, ArrivalRouted
  <1> HIDE DEF routed
  <1>4. ContextSound(answered, asked') /\ answered.key = key
    <2>1. CASE workflow = "exogena"
      <3>1. routed.message # 0
        BY <1>3
      <3> QED BY <1>3, <2>1, <3>1, ExogenaSound
    <2>2. CASE workflow # "exogena" /\ failed
      BY <1>3, <2>2
    <2>3. CASE workflow # "exogena" /\ ~failed
      <3>1. /\ ContextSound(Remembered(routed, workflow, n, FALSE), asked')
            /\ Remembered(routed, workflow, n, FALSE).key = key
        <4>1. SaidIn(routed.key, asked', n) /\ (~FALSE => routed.message = n)
              /\ FALSE \in BOOLEAN /\ n \in Nat
          BY <1>3
        <4>2. ContextSound(routed, asked')
          BY <1>3
        <4>3. /\ ContextSound(Remembered(routed, workflow, n, FALSE), asked')
              /\ Remembered(routed, workflow, n, FALSE).key = routed.key
          <5>1. ASSUME NEW mixed \in BOOLEAN, mixed = FALSE
                PROVE  /\ ContextSound(Remembered(routed, workflow, n, mixed), asked')
                       /\ Remembered(routed, workflow, n, mixed).key = routed.key
            <6>1. ~mixed => routed.message = n
              BY <4>1
            <6> QED BY ONLY <4>1, <4>2, <5>1, <6>1, RememberedSound
          <5> QED BY <5>1
        <4> QED BY <1>3, <4>3
      <3> QED BY <2>3, <3>1
    <2> QED BY <2>1, <2>2, <2>3
  <1> HIDE DEF answered
  <1>5. /\ ContextSound(new, asked') /\ new.key = SessionKey(chat)
        /\ (~Spelled(new.key) /\ new.workflow \in Forgetful)
               => new.message = 0 /\ new.entities = 0
    BY <1>4, ClosedSound
  <1> HIDE DEF new
  <1>6. /\ contexts' = WithContext(Context(SessionKey(chat)), new)
        /\ sessions' = Saved(SessionKey(chat), Context(SessionKey(chat)))
    BY <1>1, <1>2
  <1>7. /\ sessions' \subseteq Entry /\ contexts' \in Seq(ContextSet) /\ asked' \in Seq(Said)
        /\ ContextsSound' /\ Placed'
        /\ DOMAIN contexts' = DOMAIN contexts \cup {c} /\ contexts'[c] = new
        /\ \A i \in DOMAIN contexts : i # c => contexts'[i] = contexts[i]
        /\ \A m, label, p : Labelled(asked, m, p, label) => Labelled(asked', m, p, label)
        /\ \A m \in DOMAIN asked : m \in DOMAIN asked' /\ asked'[m] = asked[m]
        /\ c \in Nat \ {0}
    BY ONLY <1>1, <1>2, <1>5, <1>6, ArrivalStep, IInv, chat \in Chats, msg \in Messages,
            key = SessionKey(chat)
  <1>8. ASSUME NEW r \in Requests
        PROVE  /\ requests'[r] = Overlapping(c)[r]
               /\ requests[r] = NoRequest <=> requests'[r] = NoRequest
               /\ requests'[r].context = requests[r].context
               /\ requests'[r] \in Waiting \cup {NoRequest}
               /\ requests[r].context # c => requests'[r] = requests[r]
               /\ requests[r].context = c => requests'[r].mixed
    BY <1>2, <1>7, <1>8, OverlappingWaits
  <1>9. Typed'
    <2>1. requests' \in [Requests -> Waiting \cup {NoRequest}]
      BY <1>2, <1>8 DEF Overlapping
    <2> QED BY <1>2, <1>7, <2>1 DEF IInv, Typed
  <1>10. Waits'
    <2>1. ASSUME NEW r \in Requests, requests'[r] # NoRequest
          PROVE  Wait(requests'[r], contexts', asked')
      <3>1. requests[r] # NoRequest /\ requests'[r] = Overlapping(Context(SessionKey(chat)))[r]
        BY <1>1, <1>8, <2>1
      <3> QED BY ONLY <1>2, <1>5, <1>6, <3>1, WaitsOverlapped, IInv, chat \in Chats,
                      msg \in Messages, r \in Requests
    <2>2. ASSUME NEW q \in Requests, NEW r \in Requests, q # r, requests'[q] # NoRequest,
                 requests'[q].context = requests'[r].context
          PROVE  requests'[q].mixed
      <3>1. requests[q] # NoRequest /\ requests[q].context = requests[r].context
        BY <1>8, <2>2
      <3>2. requests[q].mixed
        BY <2>2, <3>1 DEF IInv, Waits
      <3> QED BY <1>8, <3>2
    <2> QED BY <2>1, <2>2 DEF Waits
  <1>11. AuditsSound'
    <2> SUFFICES ASSUME NEW a \in audits'
                 PROVE  \E p \in Chats : OwnCompany(p, a.company)
                                         /\ Labelled(asked', a.request, p, a.correlation)
      BY DEF AuditsSound
    <2>1. CASE a \in audits
      BY <1>7, <2>1 DEF IInv, AuditsSound
    <2>2. CASE a \notin audits
      <3>1. a = [request |-> n, correlation |-> routed.correlation, agent |-> workflow,
                 company |-> routed.company, status |-> status]
        BY <1>2, <2>2 DEF Audit
      <3> QED BY <1>3, <3>1
    <2> QED BY <2>1, <2>2
  <1>12. ReportsSound'
    <2> SUFFICES ASSUME NEW report \in reports'
                 PROVE  /\ report.nit \in 1..(report.year - 1)
                        /\ report.year \in DOMAIN asked'
                        /\ SameConversation(asked'[report.nit].chat, asked'[report.year].chat)
      BY DEF ReportsSound
    <2>1. CASE report \in reports
      <3>1. /\ report.nit \in 1..(report.year - 1)
            /\ report.year \in DOMAIN asked
            /\ SameConversation(asked[report.nit].chat, asked[report.year].chat)
        BY <2>1 DEF IInv, ReportsSound
      <3>2. report.nit \in DOMAIN asked
        BY <1>3, <3>1
      <3> QED BY <1>7, <3>1, <3>2
    <2>2. CASE report \notin reports
      <3>1. report = [nit |-> routed.nit, year |-> n] /\ routed.state = "WAITING_FISCAL_YEAR"
        BY <1>2, <2>2
      <3> QED BY <1>3, <1>7, <3>1
    <2> QED BY <2>1, <2>2
  <1>13. Forgotten'
    <2> SUFFICES ASSUME NEW i \in DOMAIN contexts', ~InFlight(i)', ~Spelled(contexts'[i].key),
                        contexts'[i].workflow \in Forgetful
                 PROVE  contexts'[i].message = 0 /\ contexts'[i].entities = 0
      BY DEF Forgotten
    <2>1. ~InFlight(i)
      BY <1>8 DEF InFlight
    <2>2. CASE i = c
      BY <1>5, <1>7, <2>2
    <2>3. CASE i # c
      BY <1>7, <2>1, <2>3 DEF IInv, Forgotten
    <2> QED BY <2>2, <2>3
  <1> QED BY <1>7, <1>9, <1>10, <1>11, <1>12, <1>13 DEF IInv
LEMMA AskStep ==
  ASSUME IInv, NEW r \in Requests, NEW chat \in Chats, NEW msg \in Messages, Ask(r, chat, msg)
  PROVE  IInv'
  <1> PICK n \in Nat \ {0} : n = Len(asked) + 1
    BY ArrivalRouted DEF Ask
  <1> PICK key \in Keys : key = SessionKey(chat)
    BY DEF Keys
  <1> PICK c : c = Context(key)
    OBVIOUS
  <1> PICK mixed \in BOOLEAN : mixed = \E q \in Requests : requests[q].context = c
    OBVIOUS
  <1> DEFINE routed == Routed(Object(key), chat, msg, n)
             req == [context |-> c, number |-> n, chat |-> chat, agent |-> routed.workflow,
                     correlation |-> routed.correlation, company |-> routed.company,
                     mixed |-> mixed]
  <1>1. /\ Arrives(chat, msg) /\ contexts' = WithContext(c, routed)
        /\ requests' = [Overlapping(c) EXCEPT ![r] = req] /\ requests[r] = NoRequest
        /\ sessions' = Saved(key, c) /\ now' = now /\ reports' = reports /\ audits' = audits
        /\ ~AnsweredLocally(routed.workflow, msg)
    BY DEF Ask
  <1>2. /\ DOMAIN asked = 1..(n - 1)
        /\ n \in DOMAIN asked' /\ asked'[n].chat = chat
        /\ ContextSound(routed, asked') /\ routed.key = key /\ routed.message = n
        /\ Labelled(asked', n, chat, routed.correlation) /\ OwnCompany(chat, routed.company)
    BY <1>1, ArrivalRouted
  <1> HIDE DEF routed
  <1>3. routed.workflow \in Narrating /\ routed.correlation \in Nat
        /\ routed.company \in Companies
    BY <1>1, <1>2 DEF AnsweredLocally, ForTheModel, ContextSound, ContextSet
  <1>5. /\ contexts' = WithContext(Context(SessionKey(chat)), routed)
        /\ sessions' = Saved(SessionKey(chat), Context(SessionKey(chat)))
        /\ routed.key = SessionKey(chat)
    BY <1>1, <1>2
  <1>6. /\ sessions' \subseteq Entry /\ contexts' \in Seq(ContextSet) /\ asked' \in Seq(Said)
        /\ ContextsSound' /\ Placed'
        /\ DOMAIN contexts' = DOMAIN contexts \cup {c} /\ contexts'[c] = routed
        /\ \A i \in DOMAIN contexts : i # c => contexts'[i] = contexts[i]
        /\ \A m, label, p : Labelled(asked, m, p, label) => Labelled(asked', m, p, label)
        /\ \A m \in DOMAIN asked : m \in DOMAIN asked' /\ asked'[m] = asked[m]
        /\ c \in Nat \ {0}
    <2>1. c = Context(SessionKey(chat))
      OBVIOUS
    <2>2. Arrives(chat, msg) /\ now' = now /\ ContextSound(routed, asked')
      BY <1>1, <1>2
    <2> QED BY ONLY <1>5, <2>1, <2>2, ArrivalStep, IInv, chat \in Chats, msg \in Messages
  <1>7. /\ req \in Waiting /\ req.context = c /\ req.number = n /\ req.chat = chat
        /\ req.correlation = routed.correlation /\ req.mixed = mixed
        /\ req.company = routed.company
    BY <1>3, <1>6 DEF Waiting
  <1> HIDE DEF req
  <1>8. ASSUME NEW q \in Requests \ {r}
        PROVE  /\ requests'[q] = Overlapping(c)[q]
               /\ requests[q] = NoRequest <=> requests'[q] = NoRequest
               /\ requests'[q].context = requests[q].context
               /\ requests'[q] \in Waiting \cup {NoRequest}
               /\ requests[q].context # c => requests'[q] = requests[q]
               /\ requests[q].context = c => requests'[q].mixed
    <2>1. requests'[q] = Overlapping(c)[q]
      BY <1>1, <1>8 DEF Overlapping
    <2> QED BY <1>6, <1>8, <2>1, OverlappingWaits
  <1>9. requests'[r] = req
    BY <1>1 DEF Overlapping
  <1>10. Typed'
    <2>1. DOMAIN requests' = Requests
      BY <1>1 DEF Overlapping
    <2>2. requests' \in [Requests -> Waiting \cup {NoRequest}]
      <3>1. \A q \in Requests : requests'[q] \in Waiting \cup {NoRequest}
        BY <1>7, <1>8, <1>9
      <3>2. requests' = [q \in Requests |-> requests'[q]]
        BY <1>1, <2>1 DEF Overlapping
      <3> QED BY <3>1, <3>2
    <2> QED BY <1>1, <1>6, <2>2 DEF IInv, Typed
  <1>11. Waits'
    <2>1. ASSUME NEW q \in Requests, requests'[q] # NoRequest
          PROVE  Wait(requests'[q], contexts', asked')
      <3>1. CASE q = r
        <4>1. Wait(req, contexts', asked')
          BY <1>2, <1>6, <1>7 DEF Wait
        <4> QED BY <1>9, <3>1, <4>1
      <3>2. CASE q # r
        <4>1. requests[q] # NoRequest /\ requests'[q] = Overlapping(Context(SessionKey(chat)))[q]
          BY <1>8, <2>1, <3>2
        <4> QED BY ONLY <1>1, <1>2, <1>5, <4>1, WaitsOverlapped, IInv, chat \in Chats,
                        msg \in Messages, q \in Requests
      <3> QED BY <3>1, <3>2
    <2>2. ASSUME NEW p \in Requests, NEW q \in Requests, p # q, requests'[p] # NoRequest,
                 requests'[p].context = requests'[q].context
          PROVE  requests'[p].mixed
      <3>1. CASE p = r
        <4>1. requests[q].context = c
          BY <1>7, <1>8, <1>9, <2>2, <3>1
        <4>2. req.mixed = (\E s \in Requests : requests[s].context = c)
          BY <1>7
        <4> QED BY <1>9, <3>1, <4>1, <4>2
      <3>2. CASE q = r
        <4>1. requests[p].context = c
          BY <1>7, <1>8, <1>9, <2>2, <3>2
        <4> QED BY <1>8, <2>2, <3>2, <4>1
      <3>3. CASE p # r /\ q # r
        <4>1. requests[p] # NoRequest /\ requests[p].context = requests[q].context
          BY <1>8, <2>2, <3>3
        <4>2. requests[p].mixed
          BY <2>2, <4>1 DEF IInv, Waits
        <4> QED BY <1>8, <3>3, <4>2
      <3> QED BY <3>1, <3>2, <3>3
    <2> QED BY <2>1, <2>2 DEF Waits
  <1>12. AuditsSound' /\ ReportsSound'
    <2>1. AuditsSound'
      BY <1>1, <1>6 DEF IInv, AuditsSound
    <2> SUFFICES ASSUME NEW report \in reports
                 PROVE  /\ report.nit \in 1..(report.year - 1)
                        /\ report.year \in DOMAIN asked'
                        /\ SameConversation(asked'[report.nit].chat, asked'[report.year].chat)
      BY <1>1, <2>1 DEF ReportsSound
    <2>2. /\ report.nit \in 1..(report.year - 1)
          /\ report.year \in DOMAIN asked
          /\ SameConversation(asked[report.nit].chat, asked[report.year].chat)
      BY DEF IInv, ReportsSound
    <2>3. report.nit \in DOMAIN asked
      BY <1>2, <2>2
    <2> QED BY <1>6, <2>2, <2>3
  \* The message is in flight: its question may stay.
  <1>13. Forgotten'
    <2> SUFFICES ASSUME NEW i \in DOMAIN contexts', ~InFlight(i)', ~Spelled(contexts'[i].key),
                        contexts'[i].workflow \in Forgetful
                 PROVE  contexts'[i].message = 0 /\ contexts'[i].entities = 0
      BY DEF Forgotten
    <2>1. i # c
      BY <1>7, <1>9 DEF InFlight
    <2>2. i \in DOMAIN contexts /\ i # 0
      <3>1. \A j \in DOMAIN contexts : j # 0
        BY LenProperties DEF IInv, Typed
      <3> QED BY <1>6, <2>1, <3>1
    <2>3. ~InFlight(i)
      <3>1. requests[r].context = 0
        BY <1>1 DEF NoRequest
      <3> QED BY <1>8, <2>2, <3>1 DEF InFlight
    <2> QED BY <1>6, <2>1, <2>2, <2>3 DEF IInv, Forgotten
  <1> QED BY <1>6, <1>10, <1>11, <1>12, <1>13 DEF IInv

\* A message that has waited comes back to its own context.
LEMMA ReturnStep ==
  ASSUME IInv, NEW r \in Requests, requests[r] # NoRequest, NEW ctx,
         ContextSound(ctx, asked), ctx.key = contexts[requests[r].context].key,
         contexts' = [contexts EXCEPT ![requests[r].context] = Closed(ctx, requests[r].chat)],
         sessions' \in {sessions, Saved(contexts[requests[r].context].key, requests[r].context)},
         requests' = [requests EXCEPT ![r] = NoRequest],
         asked' = asked, now' = now
  PROVE  Typed' /\ ContextsSound' /\ Placed' /\ Waits' /\ Forgotten'
  <1>1. Wait(requests[r], contexts, asked)
    BY DEF IInv, Waits
  <1>2. PICK c \in DOMAIN contexts : c = requests[r].context
    BY <1>1 DEF Wait
  <1>3. PICK key : key = contexts[c].key
    OBVIOUS
  <1> DEFINE new == Closed(ctx, requests[r].chat)
  <1>4. /\ ContextSound(new, asked) /\ new.key = key /\ new \in ContextSet
        /\ (~Spelled(new.key) /\ new.workflow \in Forgetful)
               => new.message = 0 /\ new.entities = 0
    <2>1. requests[r].chat \in Chats /\ ctx.key = SessionKey(requests[r].chat)
      BY <1>1 DEF IInv, Typed, Waiting, Wait
    <2> QED BY <1>2, <1>3, <2>1, ClosedSound DEF ContextSound
  <1> HIDE DEF new
  <1>5. /\ contexts \in Seq(ContextSet) /\ DOMAIN contexts = 1..Len(contexts)
        /\ Len(contexts) \in Nat
    BY LenProperties DEF IInv, Typed
  <1>6. /\ contexts' = [contexts EXCEPT ![c] = new] /\ sessions' \in {sessions, Saved(key, c)}
    BY <1>2, <1>3 DEF new
  <1>7. /\ contexts' \in Seq(ContextSet) /\ DOMAIN contexts' = DOMAIN contexts
        /\ contexts'[c] = new /\ \A i \in DOMAIN contexts \ {c} : contexts'[i] = contexts[i]
    <2>1. c \in 1..Len(contexts)
      BY <1>2, <1>5
    <2>2. [contexts EXCEPT ![c] = new] \in Seq(ContextSet)
      BY <1>4, <1>5, <2>1, ExceptSeq
    <2> QED BY <1>2, <1>6, <2>2
  <1>8. key \in Keys /\ c \in 1..(Len(contexts) + 1)
    <2>1. contexts[c] \in ContextSet
      BY <1>2, <1>5, ElementOfSeq
    <2> QED BY <1>2, <1>3, <1>5, <2>1 DEF ContextSet
  <1>9. /\ sessions' \subseteq Entry /\ ContextsSound' /\ Placed'
        /\ \A i \in DOMAIN contexts : contexts'[i].key = contexts[i].key
    <2>1. ContextSound(new, asked') /\ \A i \in DOMAIN contexts : ContextSound(contexts[i], asked')
      BY <1>4 DEF IInv, ContextsSound
    <2>2. DOMAIN contexts' = DOMAIN contexts \cup {c}
      BY <1>2, <1>7
    <2> QED BY ONLY <1>3, <1>4, <1>6, <1>7, <1>8, <2>1, <2>2, ContextStep, IInv
  <1>10. requests'[r] = NoRequest /\ \A q \in Requests \ {r} : requests'[q] = requests[q]
    BY DEF IInv, Typed
  <1>11. Typed'
    BY <1>7, <1>9, <1>10 DEF IInv, Typed
  <1>12. Waits'
    <2>1. ASSUME NEW q \in Requests, requests'[q] # NoRequest
          PROVE  Wait(requests'[q], contexts', asked')
      <3>1. q # r /\ requests'[q] = requests[q] /\ requests[q] # NoRequest
        BY <1>10, <2>1
      <3>2. Wait(requests[q], contexts, asked)
        BY <3>1 DEF IInv, Waits
      <3>3. requests[q].context = c => requests[q].mixed
        BY <1>2, <3>1 DEF IInv, Waits
      <3>4. Wait(requests[q], contexts', asked')
        BY <1>7, <1>9, <3>2, <3>3 DEF Wait
      <3> QED BY <3>1, <3>4
    <2>2. ASSUME NEW p \in Requests, NEW q \in Requests, p # q, requests'[p] # NoRequest,
                 requests'[p].context = requests'[q].context
          PROVE  requests'[p].mixed
      <3>1. p # r /\ requests'[p] = requests[p] /\ requests[p] # NoRequest
        BY <1>10, <2>2
      <3>2. requests[p].context # 0
        BY <3>1 DEF IInv, Typed, Waiting
      <3>3. q # r
        BY <1>10, <2>2, <3>1, <3>2 DEF NoRequest
      <3> QED BY <1>10, <2>2, <3>1, <3>3 DEF IInv, Waits
    <2> QED BY <2>1, <2>2 DEF Waits
  <1>13. Forgotten'
    <2> SUFFICES ASSUME NEW i \in DOMAIN contexts', ~InFlight(i)', ~Spelled(contexts'[i].key),
                        contexts'[i].workflow \in Forgetful
                 PROVE  contexts'[i].message = 0 /\ contexts'[i].entities = 0
      BY DEF Forgotten
    <2>1. CASE i = c
      BY <1>4, <1>7, <2>1
    <2>2. CASE i # c
      <3>1. ~InFlight(i)
        BY <1>2, <1>10, <2>2 DEF InFlight
      <3> QED BY <1>7, <2>2, <3>1 DEF IInv, Forgotten
    <2> QED BY <2>1, <2>2
  <1> QED BY <1>9, <1>11, <1>12, <1>13

LEMMA FinishStep ==
  ASSUME IInv, NEW r \in Requests, NEW outcome \in Outcomes, Finish(r, outcome)
  PROVE  IInv'
  <1> DEFINE req == requests[r]
             ctx == contexts[req.context]
             new == Remembered(ctx, req.agent, req.number, req.mixed)
  <1>1. /\ req # NoRequest /\ req \in Waiting
        /\ contexts' = [contexts EXCEPT ![req.context] = Closed(new, req.chat)]
        /\ sessions' = Saved(ctx.key, req.context)
        /\ requests' = [requests EXCEPT ![r] = NoRequest]
        /\ audits' \in Audit(req.number, req.correlation, req.company, req.agent,
                             Status(outcome))
        /\ asked' = asked /\ reports' = reports /\ now' = now
    BY DEF Finish, Correlation, IInv, Typed
  <1>2. Wait(req, contexts, asked)
    BY <1>1 DEF IInv, Waits
  <1>3. ContextSound(ctx, asked)
    BY <1>2 DEF IInv, ContextsSound, Wait
  <1>4. ContextSound(new, asked) /\ new.key = ctx.key
    <2>1. SaidIn(ctx.key, asked, req.number) /\ (~req.mixed => ctx.message = req.number)
      BY <1>2 DEF Wait, Labelled, SaidIn
    <2>2. req.number \in Nat /\ req.mixed \in BOOLEAN
      BY <1>1 DEF Waiting
    <2> HIDE DEF ctx
    <2> QED BY ONLY <1>3, <2>1, <2>2, RememberedSound
  <1>5. Typed' /\ ContextsSound' /\ Placed' /\ Waits' /\ Forgotten'
    <2> HIDE DEF new
    <2> QED BY ONLY <1>1, <1>4, ReturnStep, IInv, r \in Requests
  <1>6. AuditsSound'
    <2> SUFFICES ASSUME NEW a \in audits'
                 PROVE  \E p \in Chats : OwnCompany(p, a.company)
                                         /\ Labelled(asked, a.request, p, a.correlation)
      BY <1>1 DEF AuditsSound
    <2>1. CASE a \in audits
      BY <2>1 DEF IInv, AuditsSound
    <2>2. CASE a \notin audits
      <3>1. a = [request |-> req.number, correlation |-> req.correlation, agent |-> req.agent,
                 company |-> req.company, status |-> Status(outcome)]
        BY <1>1, <2>2 DEF Audit
      <3>2. req.chat \in Chats /\ OwnCompany(req.chat, req.company)
            /\ Labelled(asked, req.number, req.chat, req.correlation)
        BY <1>1, <1>2 DEF Waiting, Wait
      <3> QED BY <3>1, <3>2
    <2> QED BY <2>1, <2>2
  <1>7. ReportsSound'
    BY <1>1 DEF IInv, ReportsSound
  <1> QED BY <1>5, <1>6, <1>7 DEF IInv

LEMMA CancelStep ==
  ASSUME IInv, NEW r \in Requests, Cancel(r)
  PROVE  IInv'
  <1> DEFINE ctx == contexts[requests[r].context]
  <1>1. /\ requests[r] # NoRequest
        /\ contexts' = [contexts EXCEPT ![requests[r].context] = Closed(ctx, requests[r].chat)]
        /\ sessions' \in {sessions, Saved(ctx.key, requests[r].context)}
        /\ requests' = [requests EXCEPT ![r] = NoRequest]
        /\ asked' = asked /\ reports' = reports /\ now' = now /\ audits' = audits
    BY DEF Cancel
  <1>2. ContextSound(ctx, asked)
    BY <1>1 DEF IInv, Waits, ContextsSound, Wait
  <1>3. Typed' /\ ContextsSound' /\ Placed' /\ Waits' /\ Forgotten'
    BY ONLY <1>1, <1>2, ReturnStep, IInv, r \in Requests
  <1>4. AuditsSound' /\ ReportsSound'
    BY <1>1 DEF IInv, AuditsSound, ReportsSound
  <1> QED BY <1>3, <1>4 DEF IInv

LEMMA RestartStep ==
  ASSUME IInv, Restart
  PROVE  IInv'
  <1>1. /\ sessions' = {} /\ contexts' = <<>> /\ requests' = [r \in Requests |-> NoRequest]
        /\ audits' = audits /\ asked' = asked /\ reports' = reports /\ now' = now
    BY DEF Restart
  <1>2. <<>> \in Seq(ContextSet) /\ DOMAIN <<>> = {}
    BY EmptySeq
  <1>3. Typed'
    BY <1>1, <1>2 DEF IInv, Typed
  <1>4. ContextsSound' /\ Placed' /\ Waits' /\ Forgotten'
    BY <1>1, <1>2 DEF ContextsSound, Placed, Waits, Forgotten
  <1>5. AuditsSound' /\ ReportsSound'
    BY <1>1 DEF IInv, AuditsSound, ReportsSound
  <1> QED BY <1>3, <1>4, <1>5 DEF IInv

LEMMA Quiet ==
  ASSUME IInv, UNCHANGED <<sessions, contexts, requests, audits, asked, reports>>, now' \in Nat
  PROVE  IInv'
  <1>1. Typed' /\ Placed' /\ AuditsSound' /\ ReportsSound'
    BY DEF IInv, Typed, Placed, AuditsSound, ReportsSound
  <1>2. ContextsSound'
    BY DEF IInv, ContextsSound
  <1>3. Waits'
    BY DEF IInv, Waits
  <1>4. Forgotten'
    BY DEF IInv, Forgotten, InFlight
  <1> QED BY <1>1, <1>2, <1>3, <1>4 DEF IInv

LEMMA IInvInit == Init => IInv
  <1> SUFFICES ASSUME Init PROVE IInv
    OBVIOUS
  <1>1. <<>> \in Seq(ContextSet) /\ <<>> \in Seq(Said) /\ DOMAIN <<>> = {}
    BY EmptySeq
  <1>2. Typed
    BY <1>1 DEF Init, Typed
  <1> QED BY <1>1, <1>2 DEF Init, IInv, ContextsSound, Placed, Waits, AuditsSound,
          ReportsSound, Forgotten

LEMMA IInvStep == IInv /\ [Next]_vars => IInv'
  <1> SUFFICES ASSUME IInv, [Next]_vars PROVE IInv'
    OBVIOUS
  <1>1. CASE Tick
    BY <1>1, Quiet DEF Tick, IInv, Typed
  <1>2. CASE UNCHANGED vars
    BY <1>2, Quiet DEF vars, IInv, Typed
  <1> QED BY <1>1, <1>2, AnswerStep, AskStep, FinishStep, CancelStep, RestartStep DEF Next

-----------------------------------------------------------------------------
(* Theorems *)

\* A context never holds anything said in another conversation, by another
\* user or in another company, for any number of chats and of messages that
\* run at once, and whatever sessions are evicted, expired or made again. An
\* anonymous chat whose session id is spelled like a company's key shares the
\* context of that one conversation, and no other.
THEOREM ConversationsStayApartAlways == Spec => []ConversationsStayApart
  <1>1. IInv => ConversationsStayApart
    <2> SUFFICES ASSUME IInv, NEW c \in DOMAIN contexts, NEW m \in Mentioned(contexts[c]),
                        NEW n \in Mentioned(contexts[c])
                 PROVE  SameConversation(asked[m].chat, asked[n].chat)
      BY DEF ConversationsStayApart
    <2>1. SaidIn(contexts[c].key, asked, m) /\ SaidIn(contexts[c].key, asked, n)
      BY DEF IInv, ContextsSound, ContextSound
    <2>2. \A i \in DOMAIN asked : asked[i].chat \in Chats
      <3>1. asked \in Seq(Said)
        BY DEF IInv, Typed
      <3>2. \A i \in DOMAIN asked : asked[i] \in Said
        BY <3>1, LenProperties, ElementOfSeq
      <3> QED BY <3>2 DEF Said
    <2> QED BY <2>1, <2>2, KeysApart DEF SaidIn
  <1> QED BY <1>1, IInvInit, IInvStep, PTL DEF Spec

\* An answer is filed with its own question unless another message of the
\* conversation ran meanwhile, and its execution is recorded under its own
\* request and company.
THEOREM FiledWithItsQuestionAlways == Spec => []FiledWithItsQuestion
  <1>1. IInv => FiledWithItsQuestion
    <2> SUFFICES ASSUME IInv PROVE FiledWithItsQuestion
      OBVIOUS
    <2>1. \A c \in DOMAIN contexts : \A t \in TurnsOf(contexts[c]) :
            ~t.mixed => t.question = t.answer
      BY DEF IInv, ContextsSound, ContextSound
    <2>2. \A a \in audits :
            LET chat == asked[a.request].chat
            IN  /\ \/ a.company = chat.company
                   \/ chat.company = None /\ Spelled(chat.conversation)
                /\ IF asked[a.request].tagged THEN a.correlation = a.request
                   ELSE a.correlation # 0 => SameConversation(asked[a.correlation].chat, chat)
      BY DEF IInv, AuditsSound, Labelled, OwnCompany
    <2> QED BY <2>1, <2>2 DEF FiledWithItsQuestion
  <1> QED BY <1>1, IInvInit, IInvStep, PTL DEF Spec

\* Once no message of a conversation is in flight, an agent that must not
\* leave its question behind has left neither it nor what was extracted from it.
THEOREM AgentsForgetAlways == Spec => []AgentsForget
  <1>1. IInv => AgentsForget
    BY Typing DEF IInv, Forgotten, AgentsForget
  <1> QED BY <1>1, IInvInit, IInvStep, PTL DEF Spec

\* The exogenous workflow keeps its place, and what it promises joins a NIT
\* and a year of one conversation, in that order.
THEOREM ExogenaKeepsItsPlaceAlways == Spec => []ExogenaKeepsItsPlace
  <1>1. IInv => ExogenaKeepsItsPlace
    BY DEF IInv, ContextsSound, ContextSound, ReportsSound, ExogenaKeepsItsPlace
  <1> QED BY <1>1, IInvInit, IInvStep, PTL DEF Spec
=============================================================================
