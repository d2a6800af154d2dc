---------------------------- MODULE Conversations ----------------------------
(***************************************************************************)
(* Conversations with the agents of a company: the chat handlers           *)
(* (api/v1/chat/controller.py), ChatService, SessionManager and its store, *)
(* the Orchestrator, the workflows and the agents.                         *)
(*                                                                         *)
(* The handlers run on one event loop. A message is handled in one step    *)
(* unless its agent asks the language model: that is the only suspension,  *)
(* and other messages, of the same conversation too, run meanwhile. A      *)
(* Context is one mutable object, shared by the messages that found it in  *)
(* the store. Sessions live in memory; the audit of an agent's executions  *)
(* is in the database.                                                     *)
(*                                                                         *)
(* A message is known by its number; 0 stands for an empty text.           *)
(***************************************************************************)
EXTENDS Naturals, Sequences, FiniteSets

CONSTANTS
    None,
    Requests,       \* messages that may be in flight at once
    Chats,          \* [company, user, conversation]; the anonymous chat has no company
                    \* and no user, and its conversation is the session id it sends
    Messages,       \* [forced, intent, sensitive, local, tagged]; `tagged' is one
                    \* sent with an X-Request-ID
    LLMEnabled,     \* FEATURE_LLM
    LLMReady,       \* the narrators have a key and a model
    MaxSessions,    \* SESSION_MAX_ACTIVE
    TTL,            \* SESSION_TTL_SECONDS
    MaxTurns,       \* the turns a history keeps, four in the code
    MaxArrivals,    \* bound: messages
    MaxTime         \* bound: the clock

ASSUME ChatsAssumption == \A chat \in Chats :
    /\ chat = [company |-> chat.company, user |-> chat.user,
                conversation |-> chat.conversation]
    /\ chat.company = None => chat.user = None
ASSUME FlagAssumption == LLMEnabled \in BOOLEAN /\ LLMReady \in BOOLEAN
ASSUME StoreAssumption == MaxSessions \in Nat /\ TTL \in Nat /\ MaxTurns \in Nat \ {0}
ASSUME BoundsAssumption == MaxArrivals \in Nat /\ MaxTime \in Nat

VARIABLES
    sessions,       \* the store: entries [key, at, context, after], where `after'
                    \* holds the keys that were inserted before
    contexts,       \* the Context objects of this process
    requests,       \* the messages that wait for the language model
    audits,         \* agent_executions
    asked,          \* history: every message with its chat
    reports,        \* history: the exogenous reports promised, [nit, year]
    now

vars == <<sessions, contexts, requests, audits, asked, reports, now>>

\* The agents that may ask the language model.
Narrating == {"accounting_health", "receivables"}
Agents == {"accounting_health", "receivables", "payables", "cash_flow", "treasury",
           "electronic_invoicing", "exogenous_information", "bank_reconciliation"}
\* The workflows whose question is not left in the session.
Forgetful_NotReceivables ==        \* mutant
    {"accounting_health", "payables", "cash_flow", "electronic_invoicing",
     "exogenous_information", "bank_reconciliation"}
Forgetful == {"accounting_health", "receivables", "payables", "cash_flow",
              "electronic_invoicing", "exogenous_information", "bank_reconciliation"}

\* The endpoints name an agent, IntentResolver one of three workflows.
ASSUME MessagesAssumption ==
    /\ None \notin Agents \cup {"exogena", "chat"}
    /\ \A msg \in Messages : /\ msg.forced \in Agents \cup {None}
                             /\ msg.intent \in {"accounting_health", "exogena", "chat"}
                             /\ msg.tagged \in BOOLEAN

NoRequest == [context |-> 0]
FreshContext(key) ==
    [key |-> key, company |-> None, message |-> 0, entities |-> 0, correlation |-> 0,
     workflow |-> None, state |-> "START", nit |-> 0,
     history |-> [a \in Narrating |-> <<>>]]

Init ==
    /\ sessions = {}
    /\ contexts = <<>>
    /\ requests = [r \in Requests |-> NoRequest]
    /\ audits = {}
    /\ asked = <<>>
    /\ reports = {}
    /\ now = 0

-----------------------------------------------------------------------------
(* The session store *)

SessionKey_WithoutCompany(chat) ==        \* mutant
    IF chat.company = None THEN chat.conversation ELSE <<chat.user, chat.conversation>>
\* The tuple stands for "company:...:user:...:conversation:...". A session id is
\* any text and is looked up in the same store as it is: it may be a tuple too.
SessionKey(chat) ==
    IF chat.company = None THEN chat.conversation
    ELSE <<chat.company, chat.user, chat.conversation>>

Fresh(entry) == now - entry.at <= TTL
Kept(entries) ==
    {[e EXCEPT !.after = @ \cap {f.key : f \in entries}] : e \in entries}
Purged == Kept({e \in sessions : Fresh(e)})
Stored(key) == {e \in Purged : e.key = key}

\* The oldest insertions go first; reading or saving a session again does not
\* move it (_evict_lru).
Evicted(store) ==
    LET limit == IF MaxSessions = 0 THEN 1 ELSE MaxSessions
        newer(e) == {f \in store : e.key \in f.after}
    IN  Kept({e \in store : Cardinality(newer(e)) < limit})

Saved(key, c) ==
    Evicted(IF Stored(key) = {}
            THEN Purged \cup {[key |-> key, at |-> now, context |-> c,
                               after |-> {e.key : e \in Purged}]}
            ELSE {IF e.key = key THEN [e EXCEPT !.at = now, !.context = c] ELSE e :
                     e \in Purged})

-----------------------------------------------------------------------------
(* Orchestrator.handle_message and the workflows *)

\* An agent's endpoint names its workflow; otherwise the conversation goes on
\* with the workflow it is in the middle of, or the message chooses one.
Workflow(ctx, msg) ==
    CASE msg.forced # None -> msg.forced
      [] msg.forced = None /\ ctx.workflow # None /\ ctx.state # "START" -> ctx.workflow
      [] OTHER -> IF msg.intent = "accounting_health" /\ ctx.company = None
                  THEN "chat" ELSE msg.intent

\* process_company labels the context with its company and its request id; the
\* anonymous chat takes the context as it is.
Entered(ctx, chat, msg, n) ==
    IF chat.company = None THEN ctx
    ELSE [ctx EXCEPT !.company = chat.company, !.correlation = IF msg.tagged THEN n ELSE @]

\* A mutant of Routed: an agent's endpoint leaves the state of the conversation.
Routed_KeepsState(ctx, chat, msg, n) ==
    LET own == Entered(ctx, chat, msg, n)
        workflow == Workflow(own, msg)
    IN  [own EXCEPT !.message = n, !.workflow = workflow,
                    !.entities = IF workflow \in Forgetful THEN 0 ELSE n]

\* What is set before the workflow runs.
Routed(ctx, chat, msg, n) ==
    LET own == Entered(ctx, chat, msg, n)
        workflow == Workflow(own, msg)
    IN  [own EXCEPT !.message = n, !.workflow = workflow,
                    !.state = IF msg.forced = None THEN @ ELSE "START",
                    !.entities = IF workflow \in Forgetful THEN 0 ELSE n]

\* ExogenaWorkflow: one question per message.
Exogena(ctx) ==
    CASE ctx.state = "START" -> [ctx EXCEPT !.state = "WAITING_NIT"]
      [] ctx.state = "WAITING_NIT" ->
            [ctx EXCEPT !.state = "WAITING_FISCAL_YEAR", !.nit = ctx.message]
      [] OTHER -> [ctx EXCEPT !.state = "START", !.workflow = None]

\* _conversation_for refuses sensitive text, and the accounting agent what is
\* out of its scope.
Refused(workflow, msg) == msg.sensitive \/ (workflow = "accounting_health" /\ msg.local)
\* The questions on receivables that the report itself answers.
FromReport(workflow, msg) == workflow = "receivables" /\ msg.local
ForTheModel(workflow, msg) ==
    workflow \in Narrating /\ ~Refused(workflow, msg) /\ ~FromReport(workflow, msg)
AnsweredLocally(workflow, msg) ==
    ForTheModel(workflow, msg) => ~LLMEnabled \/ ~LLMReady
\* A question for a model that is on but not configured is answered without it.
LocalStatus(workflow, msg) ==
    IF ForTheModel(workflow, msg) /\ LLMEnabled THEN "degraded" ELSE "succeeded"

Turn(ctx, n, mixed) == [question |-> ctx.message, answer |-> n, mixed |-> mixed]
LastTurns(turns) == SubSeq(turns, IF Len(turns) > MaxTurns THEN Len(turns) - MaxTurns + 1 ELSE 1,
                           Len(turns))

\* _remember_turn reads the question from the context, after the answer.
Remembered(ctx, agent, n, mixed) ==
    IF agent \notin Narrating THEN ctx
    ELSE [ctx EXCEPT !.history[agent] = LastTurns(Append(@, Turn(ctx, n, mixed)))]

\* The `finally' of process_company; the anonymous chat keeps everything.
Closed(ctx, chat) ==
    IF chat.company = None THEN ctx
    ELSE [ctx EXCEPT !.message = IF ctx.workflow \in Forgetful THEN 0 ELSE @,
                     !.entities = IF ctx.workflow \in Forgetful THEN 0 ELSE @,
                     !.correlation = 0]

\* An agent that fails to make its report says so in the audit only if it may
\* ask the model.
Recorded(workflow, failed) == workflow \in Agents /\ (failed => workflow \in Narrating)

\* _record_execution, from what the workflow put in the task and the agent read
\* of the context at their start; the commit may fail without failing the answer.
Audit(n, correlation, company, agent, status) ==
    {audits, audits \cup {[request |-> n, correlation |-> correlation, agent |-> agent,
                           company |-> company, status |-> status]}}

-----------------------------------------------------------------------------
(* A message arrives *)

Context(key) == IF Stored(key) = {} THEN Len(contexts) + 1
                ELSE (CHOOSE e \in Stored(key) : TRUE).context
Object(key) == IF Stored(key) = {} THEN FreshContext(key) ELSE contexts[Context(key)]
WithContext(c, ctx) == [i \in DOMAIN contexts \cup {c} |-> IF i = c THEN ctx ELSE contexts[i]]

\* Messages that wait on the same object have been overlapped.
Overlapping(c) ==
    [r \in Requests |-> IF requests[r].context = c THEN [requests[r] EXCEPT !.mixed = TRUE]
                        ELSE requests[r]]

Arrives(chat, msg) ==
    /\ Len(asked) < MaxArrivals
    /\ msg.forced # None => chat.company # None
    /\ asked' = Append(asked, [chat |-> chat,
                               tagged |-> msg.tagged /\ chat.company # None])

\* The message is answered in one step; an agent may fail to make its report.
Answer(chat, msg, failed) ==
    LET n == Len(asked) + 1
        key == SessionKey(chat)
        c == Context(key)
        routed == Routed(Object(key), chat, msg, n)
        workflow == routed.workflow
        answered == IF workflow = "exogena" THEN Exogena(routed)
                    ELSE IF failed THEN routed
                    ELSE Remembered(routed, workflow, n, FALSE)
    IN  /\ Arrives(chat, msg)
        /\ failed => workflow \in Agents
        /\ failed \/ AnsweredLocally(workflow, msg)
        /\ contexts' = WithContext(c, Closed(answered, chat))
        /\ requests' = Overlapping(c)
        /\ sessions' = Saved(key, c)
        /\ IF Recorded(workflow, failed)
           THEN audits' \in Audit(n, routed.correlation, routed.company, workflow,
                                  IF failed THEN "failed" ELSE LocalStatus(workflow, msg))
           ELSE UNCHANGED audits
        /\ reports' = IF workflow = "exogena" /\ routed.state = "WAITING_FISCAL_YEAR"
                      THEN reports \cup {[nit |-> routed.nit, year |-> n]} ELSE reports
        /\ UNCHANGED now

\* The agent has made its report and asks the model: the question and the
\* history it sends, and the labels of its audit, are taken now.
Ask(r, chat, msg) ==
    LET n == Len(asked) + 1
        key == SessionKey(chat)
        c == Context(key)
        routed == Routed(Object(key), chat, msg, n)
    IN  /\ requests[r] = NoRequest
        /\ Arrives(chat, msg)
        /\ ~AnsweredLocally(routed.workflow, msg)
        /\ contexts' = WithContext(c, routed)
        /\ requests' = [Overlapping(c) EXCEPT ![r] =
               [context |-> c, number |-> n, chat |-> chat, agent |-> routed.workflow,
                correlation |-> routed.correlation, company |-> routed.company,
                mixed |-> \E q \in Requests : requests[q].context = c]]
        /\ sessions' = Saved(key, c)
        /\ UNCHANGED <<audits, reports, now>>

\* A mutant of Correlation: the labels are read when the execution is recorded.
Correlation_Late(req) == contexts[req.context].correlation
Correlation(req) == req.correlation

\* What narrate returns: no answer is a network error or an error status; an
\* answer is unusable for its structure, for a digit in it, or for having no
\* finding to rest on.
Outcomes == {"narration", "no_answer", "unusable"}
Status(outcome) == IF outcome = "narration" THEN "succeeded" ELSE "degraded"

Finish(r, outcome) ==
    LET req == requests[r]
        ctx == contexts[req.context]
    IN  /\ req # NoRequest
        /\ contexts' = [contexts EXCEPT ![req.context] =
               Closed(Remembered(ctx, req.agent, req.number, req.mixed), req.chat)]
        /\ sessions' = Saved(ctx.key, req.context)
        /\ requests' = [requests EXCEPT ![r] = NoRequest]
        /\ audits' \in Audit(req.number, Correlation(req), req.company, req.agent,
                             Status(outcome))
        /\ UNCHANGED <<asked, reports, now>>

\* The task of the handler is cancelled while it waits; only process_company has
\* a `finally'.
Cancel(r) ==
    LET req == requests[r]
        ctx == contexts[req.context]
    IN  /\ req # NoRequest
        /\ contexts' = [contexts EXCEPT ![req.context] = Closed(ctx, req.chat)]
        /\ sessions' = IF req.chat.company = None THEN sessions
                       ELSE Saved(ctx.key, req.context)
        /\ requests' = [requests EXCEPT ![r] = NoRequest]
        /\ UNCHANGED <<audits, asked, reports, now>>

\* The process restarts: sessions do not survive it.
Restart ==
    /\ contexts # <<>>
    /\ sessions' = {}
    /\ contexts' = <<>>
    /\ requests' = [r \in Requests |-> NoRequest]
    /\ UNCHANGED <<audits, asked, reports, now>>

Tick == now < MaxTime /\ now' = now + 1 /\ UNCHANGED <<sessions, contexts, requests, audits,
                                                       asked, reports>>

Next ==
    \/ \E chat \in Chats, msg \in Messages :
          \/ \E failed \in BOOLEAN : Answer(chat, msg, failed)
          \/ \E r \in Requests : Ask(r, chat, msg)
    \/ \E r \in Requests : (\E outcome \in Outcomes : Finish(r, outcome)) \/ Cancel(r)
    \/ Restart
    \/ Tick

Spec == Init /\ [][Next]_vars

-----------------------------------------------------------------------------
(* Properties *)

TurnsOf(ctx) == UNION {{ctx.history[a][i] : i \in DOMAIN ctx.history[a]} : a \in Narrating}
Mentioned(ctx) ==
    ({ctx.message, ctx.entities, ctx.correlation, ctx.nit}
        \cup UNION {{t.question, t.answer} : t \in TurnsOf(ctx)}) \ {0}
InFlight(c) == \E r \in Requests : requests[r].context = c

\* A session id spelled like the key of a company's conversation, and the keys
\* that some session id of Chats spells.
SpelledAlike(p, q) ==
    p.company = None /\ q.company # None /\ p.conversation = SessionKey(q)
Spelled(key) == \E p, q \in Chats : SpelledAlike(p, q) /\ p.conversation = key
SameConversation(p, q) == p = q \/ SpelledAlike(p, q) \/ SpelledAlike(q, p)

\* Whatever messages run at once, and whichever sessions were evicted, expired
\* or made again meanwhile, a context never holds anything said in another
\* conversation, by another user or in another company (process_company: "una
\* clave que no puede cruzar empresas"); only an anonymous chat whose session id
\* is spelled like a company's key shares the context of that one conversation.
ConversationsStayApart ==
    \A c \in DOMAIN contexts : \A m, n \in Mentioned(contexts[c]) :
        SameConversation(asked[m].chat, asked[n].chat)

\* An answer is filed with its own question, unless another message of the
\* conversation ran while it waited for the model. Its execution is recorded
\* under its own request and company even then; one that came without a request
\* id is recorded under none, or under one of its own conversation. Only a
\* session id spelled like a company's key is recorded under that company.
FiledWithItsQuestion ==
    /\ \A c \in DOMAIN contexts : \A t \in TurnsOf(contexts[c]) : ~t.mixed => t.question = t.answer
    /\ \A a \in audits :
          LET chat == asked[a.request].chat
          IN  /\ \/ a.company = chat.company
                 \/ chat.company = None /\ Spelled(chat.conversation)
              /\ IF asked[a.request].tagged THEN a.correlation = a.request
                 ELSE a.correlation # 0 => SameConversation(asked[a.correlation].chat, chat)

\* Once nothing is in flight, a session whose last agent must not leave the
\* question behind, which is any but the treasury's, has neither the question
\* nor anything extracted from one, whether the agent answered, failed or was
\* cancelled. (The anonymous chat forgets nothing: a session it shares with a
\* company's conversation is exempt.)
AgentsForget ==
    \A c \in DOMAIN contexts :
        (/\ ~InFlight(c) /\ ~Spelled(contexts[c].key)
         /\ contexts[c].workflow \in Agents \ {"treasury"})
        => contexts[c].message = 0 /\ contexts[c].entities = 0

\* The exogenous workflow never loses its place: only it waits for an answer,
\* it has the NIT when it asks for the year, and the report it promises joins a
\* NIT and a year of one conversation, in that order.
ExogenaKeepsItsPlace ==
    /\ \A c \in DOMAIN contexts :
          /\ contexts[c].state # "START" => contexts[c].workflow = "exogena"
          /\ contexts[c].state = "WAITING_FISCAL_YEAR" => contexts[c].nit # 0
    /\ \A report \in reports :
          /\ report.nit \in 1..(report.year - 1)
          /\ SameConversation(asked[report.nit].chat, asked[report.year].chat)

\* What README.md says of the store: the session that makes room for another is
\* the least recently used.
EvictsLeastRecentlyUsed ==
    [][\A e \in sessions :
          (/\ contexts' # <<>> /\ Fresh(e)
           /\ \A f \in sessions' : f.key # e.key)
          => \A f \in sessions' : f.at >= e.at]_vars

=============================================================================
