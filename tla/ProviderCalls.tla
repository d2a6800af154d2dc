---------------------------- MODULE ProviderCalls ----------------------------
(***************************************************************************)
(* Calls to external providers: the HTTP transport with its retries        *)
(* (providers/transport.py), the sliding window of the rate limiter        *)
(* (rate_limit.py), the Siigo adapter's two requests per page (siigo.py)   *)
(* and DIAN's GetAcquirer lookup with its audit                            *)
(* (dian_acquirer_service.py, providers/dian.py).                          *)
(*                                                                         *)
(* Calls are coroutines of one event loop: a step runs from one await to   *)
(* the next. The adapters build their transport without a limiter; a       *)
(* "request" is the transport used with one. How long an answer or a       *)
(* back-off takes is left open; the window is measured in ticks.           *)
(***************************************************************************)
EXTENDS Naturals, Sequences, FiniteSets

CONSTANTS
    None,
    Calls,          \* calls, each made once
    Keys,           \* the limiter's keys: a company and a provider
    KindsOf,        \* the kinds a call may be of
    Retries,        \* retries of the transport, two in the code
    Limit,          \* requests_per_minute of the provider
    Window          \* a minute, in ticks

ASSUME KindsAssumption ==
    KindsOf \in [Calls -> SUBSET {"request", "page", "test", "lookup"}]
ASSUME RetriesAssumption == Retries \in Nat
ASSUME LimiterAssumption == Limit \in Nat \ {0} /\ Window \in Nat \ {0}

VARIABLES
    calls,
    windows,        \* key -> ages of the requests let through, oldest first
    source,         \* the DIAN source: [status, secret]
    lookups,        \* dian_acquirer_lookups: [call, status, code]
    through,        \* history: key -> ages of all requests let through, oldest first
    sent            \* history: HTTP requests a call has sent

vars == <<calls, windows, source, lookups, through, sent>>

NotMade == [phase |-> "none"]
Ended(kind, result) == [phase |-> "ended", kind |-> kind, result |-> result]

Init ==
    /\ calls = [c \in Calls |-> NotMade]
    /\ windows = [k \in Keys |-> <<>>]
    /\ source = [status |-> "pending", secret |-> None]
    /\ lookups = {}
    /\ through = [k \in Keys |-> <<>>]
    /\ sent = [c \in Calls |-> 0]

-----------------------------------------------------------------------------
(* InMemoryRateLimiter *)

InWindow(age) == age < Window
\* Requests leave the window from its old end, up to the first that is in it.
Expired(ages) == {n \in 1..Len(ages) : \A i \in 1..n : ~InWindow(ages[i])}
Kept(ages) == SubSeq(ages, Cardinality(Expired(ages)) + 1, Len(ages))

Acquires_OneMore(k) == Len(Kept(windows[k])) <= Limit        \* mutant
Acquires(k) == Len(Kept(windows[k])) < Limit

-----------------------------------------------------------------------------
(* ProviderHttpClient.request *)

Replies == {"answer", "garbled", "incomplete", "401", "404", "429", "500", "unreachable"}
Retryable(reply) == reply \in {"429", "500", "unreachable"}

Again(attempt) == attempt < Retries
NextAttempt_Same(attempt) == attempt      \* mutant
NextAttempt(attempt) == attempt + 1

Error(reply) ==
    CASE reply = "401" -> "AUTH_FAILED"
      [] reply = "429" -> "RATE_LIMITED"
      [] reply = "unreachable" -> "UNREACHABLE"
      [] OTHER -> "ERROR"

\* A page is one request for the token and one for the page.
Steps(kind) == IF kind = "page" THEN 2 ELSE 1
\* What the adapters make of an answer that is no document, or lacks what they
\* look for: one without a token is a failed authentication. The transport alone
\* returns any answer.
Misread(reply, kind, step) ==
    CASE kind = "request" -> "ok"
      [] kind \in {"page", "test"} /\ step = 1 /\ reply = "incomplete" -> "AUTH_FAILED"
      [] OTHER -> "ERROR"

Sending(kind, loaded) ==
    [phase |-> "sent", kind |-> kind, step |-> 1, attempt |-> 0, loaded |-> loaded]
\* The history stops counting once it is more than any call may send.
Sends(c) == sent' = [sent EXCEPT ![c] = IF @ > 2 * (Retries + 1) THEN @ ELSE @ + 1]

\* The transport with a limiter: the limiter is asked once for all attempts.
Request(c, k) ==
    /\ calls[c] = NotMade /\ "request" \in KindsOf[c]
    /\ windows' = [windows EXCEPT ![k] = IF Acquires(k) THEN Append(Kept(@), 0) ELSE Kept(@)]
    /\ IF Acquires(k)
       THEN /\ calls' = [calls EXCEPT ![c] = Sending("request", None)]
            /\ through' = [through EXCEPT ![k] = Append(@, 0)]
            /\ Sends(c)
       ELSE /\ calls' = [calls EXCEPT ![c] = Ended("request", "RATE_LIMITED")]
            /\ UNCHANGED <<through, sent>>
    /\ UNCHANGED <<source, lookups>>

\* SiigoProviderAdapter.fetch_parties and test_connection: the stored cursor of a
\* page and the secret are checked first.
Fetch(c, kind, refusal) ==
    /\ calls[c] = NotMade /\ kind \in KindsOf[c] \cap {"page", "test"}
    /\ refusal = "CONFLICT" => kind = "page"
    /\ IF refusal = None THEN calls' = [calls EXCEPT ![c] = Sending(kind, None)] /\ Sends(c)
       ELSE calls' = [calls EXCEPT ![c] = Ended(kind, refusal)] /\ UNCHANGED sent
    /\ UNCHANGED <<windows, source, lookups, through>>

-----------------------------------------------------------------------------
(* DianAcquirerService.lookup *)

Audited_Succeeded(c, result) ==                                  \* mutant
    IF result = "ok" THEN lookups \cup {[call |-> c, status |-> "succeeded", code |-> None]}
    ELSE lookups
\* The row is added before the lookup and committed once, when it has ended.
Audited(c, result) ==
    lookups \cup {IF result = "ok" THEN [call |-> c, status |-> "succeeded", code |-> None]
                  ELSE [call |-> c, status |-> "failed", code |-> result]}

\* A disabled source is refused before there is a row; then come the secret,
\* the feature flag, and the adapter's own checks.
Lookup(c, refusal) ==
    /\ calls[c] = NotMade /\ "lookup" \in KindsOf[c]
    /\ source.status # "disabled"
    /\ source.secret = None <=> refusal = "AUTH_FAILED"
    /\ IF refusal = None
       THEN /\ calls' = [calls EXCEPT ![c] = Sending("lookup", source.status)]
            /\ Sends(c)
            /\ UNCHANGED lookups
       ELSE /\ calls' = [calls EXCEPT ![c] = Ended("lookup", refusal)]
            /\ lookups' = Audited(c, refusal)
            /\ UNCHANGED sent
    /\ UNCHANGED <<windows, source, through>>

\* An answered lookup makes the source ACTIVE; the row it loaded is written only
\* where it changes.
Activated(c) == [source EXCEPT !.status = IF calls[c].loaded = "active" THEN @ ELSE "active"]

Ends(c, result) ==
    /\ calls' = [calls EXCEPT ![c] = Ended(calls[c].kind, result)]
    /\ IF calls[c].kind = "lookup"
       THEN /\ lookups' = Audited(c, result)
            /\ source' = IF result = "ok" THEN Activated(c) ELSE source
       ELSE UNCHANGED <<lookups, source>>
    /\ UNCHANGED sent

-----------------------------------------------------------------------------
(* An answer, a back-off, a cancelled call *)

Receive(c, reply) ==
    LET call == calls[c]
    IN  /\ call.phase = "sent"
        /\ CASE Retryable(reply) /\ Again(call.attempt) ->
                  /\ calls' = [calls EXCEPT ![c].phase = "waits"]
                  /\ UNCHANGED <<source, lookups, sent>>
             [] reply = "answer" /\ call.step < Steps(call.kind) ->
                  /\ calls' = [calls EXCEPT ![c].step = @ + 1, ![c].attempt = 0]
                  /\ Sends(c)
                  /\ UNCHANGED <<source, lookups>>
             [] OTHER ->
                  Ends(c, CASE reply = "answer" -> "ok"
                            [] reply \in {"garbled", "incomplete"} ->
                                  Misread(reply, call.kind, call.step)
                            [] OTHER -> Error(reply))
        /\ UNCHANGED <<windows, through>>

\* The back-off is over: the same request is sent once more.
Resend(c) ==
    /\ calls[c].phase = "waits"
    /\ calls' = [calls EXCEPT ![c].phase = "sent", ![c].attempt = NextAttempt(@)]
    /\ Sends(c)
    /\ UNCHANGED <<windows, source, lookups, through>>

\* The task is cancelled: CancelledError is no Exception, and the row is lost.
Cancel(c) ==
    /\ calls[c].phase \in {"sent", "waits"}
    /\ calls' = [calls EXCEPT ![c] = Ended(calls[c].kind, "cancelled")]
    /\ UNCHANGED <<windows, source, lookups, through, sent>>

-----------------------------------------------------------------------------
(* Around the calls *)

\* ProviderConnectionService.save_credentials and revoke_credentials.
SaveCredentials ==
    /\ source' = [status |-> "pending", secret |-> "secret"]
    /\ UNCHANGED <<calls, windows, lookups, through, sent>>
RevokeCredentials ==
    /\ source' = [status |-> "disabled", secret |-> None]
    /\ UNCHANGED <<calls, windows, lookups, through, sent>>

\* Time passes; a window forgets how much older than a minute a request is.
Older(ages) == [i \in DOMAIN ages |-> IF ages[i] < Window THEN ages[i] + 1 ELSE ages[i]]
Tick ==
    /\ windows' = [k \in Keys |-> Older(windows[k])]
    /\ through' = [k \in Keys |-> Older(through[k])]
    /\ UNCHANGED <<calls, source, lookups, sent>>

\* The service restarts: its limiter starts empty, its calls are gone.
Restart ==
    /\ calls' = [c \in Calls |-> IF calls[c].phase \in {"sent", "waits"} THEN Ended(calls[c].kind, "cancelled")
                                 ELSE calls[c]]
    /\ windows' = [k \in Keys |-> <<>>]
    /\ through' = [k \in Keys |-> <<>>]
    /\ UNCHANGED <<source, lookups, sent>>

Answered(c) == \E reply \in Replies : Receive(c, reply)

Next ==
    \/ \E c \in Calls :
          \/ \E k \in Keys : Request(c, k)
          \/ \E kind \in {"page", "test"}, refusal \in {None, "CONFLICT", "VALIDATION_ERROR"} :
                Fetch(c, kind, refusal)
          \/ \E refusal \in {None, "AUTH_FAILED", "DEPENDENCY_DISABLED", "VALIDATION_ERROR"} :
                Lookup(c, refusal)
          \/ Answered(c)
          \/ Resend(c)
          \/ Cancel(c)
    \/ SaveCredentials \/ RevokeCredentials \/ Tick \/ Restart

\* The client's timeouts end every attempt, and a sleep ends.
Fairness == \A c \in Calls : WF_vars(Answered(c)) /\ WF_vars(Resend(c))

Spec == Init /\ [][Next]_vars
FairSpec == Spec /\ Fairness

-----------------------------------------------------------------------------
(* Properties *)

\* A call sends as often as its retries allow and no more, and one that the
\* provider turned away for its rate had asked every time it could.
SendsBounded ==
    \A c \in Calls :
        /\ calls[c].phase = "none" => sent[c] = 0
        /\ calls[c].phase # "none" => sent[c] <= Steps(calls[c].kind) * (Retries + 1)
        /\ (calls[c].phase = "ended" /\ calls[c].result = "RATE_LIMITED" /\ sent[c] # 0)
           => sent[c] > Retries

\* Which of the requests let through are less than a minute old.
LastMinute(k) == {i \in 1..Len(through[k]) : InWindow(through[k][i])}

\* Whenever they come, no more requests of a company to a provider than the
\* limit are let through in any minute ("ventana móvil"), and none is resent
\* beyond its retries.
TrafficIsBounded == SendsBounded /\ \A k \in Keys : Cardinality(LastMinute(k)) <= Limit

\* A lookup that ended has one row, which says how it ended; only one that was
\* cancelled leaves no trace. The source is ACTIVE only after a lookup that its
\* row says was answered, whatever became of its credentials meanwhile.
LookupsAudited ==
    /\ \A c \in Calls :
          LET rows == {row \in lookups : row.call = c}
              ended == calls[c].phase = "ended" /\ calls[c].kind = "lookup"
          IN  IF ended /\ calls[c].result # "cancelled"
              THEN \E row \in rows :
                      /\ rows = {row}
                      /\ row.status = "succeeded" <=> calls[c].result = "ok"
                      /\ row.status = "succeeded" => sent[c] > 0
                      /\ row.status = "failed" => row.code = calls[c].result
              ELSE rows = {}
    /\ source.status = "active" => \E row \in lookups : row.status = "succeeded"

\* Every call ends, with an answer or with one error.
EveryCallEnds ==
    \A c \in Calls : calls[c].phase \in {"sent", "waits"} ~> calls[c].phase = "ended"

=============================================================================
