------------------------- MODULE ProviderCallsProofs -------------------------
(***************************************************************************)
(* Lookups are audited and calls send no more than their retries allow,    *)
(* for any number of calls, retries and companies.                         *)
(*                                                                         *)
(* What a call has sent follows from its step and its attempt (SentSoFar); *)
(* with that, a lookup's row can only say it was answered when it was      *)
(* asked (RowsTold). A window is an end of all that was let through, and    *)
(* what it no longer holds is out of the minute (Windowed).                 *)
(***************************************************************************)
EXTENDS ProviderCalls, FiniteSetTheorems, TLAPS

Kinds == {"request", "page", "test", "lookup"}
Flying == [phase : {"sent", "waits"}, kind : Kinds, step : {1, 2}, attempt : 0..Retries,
           loaded : {None, "pending", "active"}]
Outcomes == {"ok", "cancelled", "RATE_LIMITED", "AUTH_FAILED", "UNREACHABLE", "ERROR",
             "CONFLICT", "VALIDATION_ERROR", "DEPENDENCY_DISABLED"}
Over == [phase : {"ended"}, kind : Kinds, result : Outcomes]

Typed ==
    /\ calls \in [Calls -> {NotMade} \cup Flying \cup Over]
    /\ source \in [status : {"pending", "active", "disabled"}, secret : {None, "secret"}]
    /\ sent \in [Calls -> Nat]

\* How often a call may have sent while its current request is under way.
MaySend(step, attempt) == (IF step = 1 THEN 0 ELSE Retries + 1) + attempt + 1
SentSoFar ==
    \A c \in Calls :
        /\ calls[c].phase = "none" => sent[c] = 0
        /\ calls[c] \in Flying =>
               /\ calls[c].step <= Steps(calls[c].kind)
               /\ calls[c].attempt < sent[c]
               /\ calls[c].phase = "waits" => calls[c].attempt < Retries
               /\ sent[c] <= MaySend(calls[c].step, calls[c].attempt)
        /\ calls[c] \in Over => sent[c] <= Steps(calls[c].kind) * (Retries + 1)
        /\ (calls[c] \in Over /\ calls[c].result = "RATE_LIMITED" /\ sent[c] # 0)
           => sent[c] > Retries

RowsOf(c) == {row \in lookups : row.call = c}
RowsTold ==
    /\ lookups \subseteq [call : Calls, status : {"succeeded", "failed"}, code : Outcomes \cup {None}]
    /\ \A c \in Calls :
          IF calls[c].phase = "ended" /\ calls[c].kind = "lookup" /\ calls[c].result # "cancelled"
          THEN \E row \in RowsOf(c) :
                  /\ RowsOf(c) = {row}
                  /\ row.status = "succeeded" <=> calls[c].result = "ok"
                  /\ row.status = "succeeded" => sent[c] > 0
                  /\ row.status = "failed" => row.code = calls[c].result
          ELSE RowsOf(c) = {}
    /\ source.status = "active" => \E row \in lookups : row.status = "succeeded"

IInv == Typed /\ SentSoFar /\ RowsTold

LEMMA CallKinds ==
  ASSUME NEW call \in {NotMade} \cup Flying \cup Over
  PROVE  /\ call.phase = "none" <=> call = NotMade
         /\ call.phase \in {"sent", "waits"} <=> call \in Flying
         /\ call.phase = "ended" <=> call \in Over
  <1>1. CASE call = NotMade
    BY <1>1 DEF NotMade, Flying, Over
  <1>2. CASE call \in Flying
    <2>1. call.phase \in {"sent", "waits"}
      BY <1>2 DEF Flying
    <2> QED BY <1>2, <2>1 DEF NotMade, Over
  <1>3. CASE call \in Over
    <2>1. call.phase = "ended"
      BY <1>3 DEF Over
    <2> QED BY <1>3, <2>1 DEF NotMade, Flying
  <1> QED BY <1>1, <1>2, <1>3

\* A step that changes one call and leaves the audit and the source alone, or
\* ends the call with the row that is due.
LEMMA OneCall ==
  ASSUME IInv, NEW c \in Calls, NEW call \in Flying \cup Over, NEW n \in Nat,
         calls' = [calls EXCEPT ![c] = call],
         sent' = [sent EXCEPT ![c] = n],
         calls[c].phase # "ended",
         call \in Flying =>
             /\ call.step <= Steps(call.kind)
             /\ call.attempt < n /\ n <= MaySend(call.step, call.attempt)
             /\ call.phase = "waits" => call.attempt < Retries,
         call \in Over =>
             /\ n <= Steps(call.kind) * (Retries + 1)
             /\ (call.result = "RATE_LIMITED" /\ n # 0) => n > Retries
             /\ (call.kind = "lookup" /\ call.result = "ok") => n > 0,
         lookups' = IF call \in Over /\ call.kind = "lookup" /\ call.result # "cancelled"
                    THEN Audited(c, call.result) ELSE lookups,
         source' \in [status : {"pending", "active", "disabled"}, secret : {None, "secret"}],
         source'.status = "active" =>
             \/ source.status = "active"
             \/ call \in Over /\ call.kind = "lookup" /\ call.result = "ok"
  PROVE  IInv'
  <1>1. \A d \in Calls : /\ calls'[d] = IF d = c THEN call ELSE calls[d]
                         /\ sent'[d] = IF d = c THEN n ELSE sent[d]
    BY DEF IInv, Typed
  <1>2. Typed'
    BY DEF IInv, Typed
  <1>3. call.phase # "none" /\ (call \in Flying <=> call.phase # "ended")
        /\ (call \in Over <=> call.phase = "ended")
    BY CallKinds DEF NotMade
  <1>4. SentSoFar'
    <2>1. ASSUME NEW d \in Calls, d # c
          PROVE  calls'[d] = calls[d] /\ sent'[d] = sent[d]
      BY <1>1, <2>1
    <2>2. calls'[c] = call /\ sent'[c] = n
      BY <1>1
    <2>3. ~(call \in Flying /\ call \in Over)
      BY <1>3
    <2> QED BY <1>3, <2>1, <2>2, <2>3 DEF IInv, SentSoFar
  <1>5. RowsOf(c) = {}
    BY DEF IInv, RowsTold
  <1>6. RowsTold'
    <2>1. CASE call \in Over /\ call.kind = "lookup" /\ call.result # "cancelled"
      <3> DEFINE row == IF call.result = "ok"
                        THEN [call |-> c, status |-> "succeeded", code |-> None]
                        ELSE [call |-> c, status |-> "failed", code |-> call.result]
      <3>1. /\ row.call = c /\ row.status \in {"succeeded", "failed"}
            /\ row.status = "succeeded" <=> call.result = "ok"
            /\ row.status = "failed" => row.code = call.result
            /\ row \in [call : Calls, status : {"succeeded", "failed"}, code : Outcomes \cup {None}]
        <4>1. call.result \in Outcomes
          BY <2>1 DEF Over
        <4> QED BY <4>1
      <3>2. lookups' = lookups \cup {row}
        BY <2>1 DEF Audited
      <3> HIDE DEF row
      <3>3. /\ RowsOf(c)' = {row}
            /\ \A d \in Calls \ {c} : RowsOf(d)' = RowsOf(d)
        BY <1>5, <3>1, <3>2 DEF RowsOf
      <3>4. /\ lookups' \subseteq [call : Calls, status : {"succeeded", "failed"}, code : Outcomes \cup {None}]
            /\ source'.status = "active" => \E x \in lookups' : x.status = "succeeded"
        BY <2>1, <3>1, <3>2 DEF IInv, RowsTold
      <3>5. ASSUME NEW d \in Calls \ {c}
            PROVE  calls'[d] = calls[d] /\ sent'[d] = sent[d] /\ RowsOf(d)' = RowsOf(d)
        BY <1>1, <3>3
      <3>6. calls'[c] = call /\ sent'[c] = n /\ call.phase = "ended"
        BY <1>1, <1>3, <2>1
      <3> QED BY <2>1, <3>1, <3>3, <3>4, <3>5, <3>6 DEF IInv, RowsTold
    <2>2. CASE ~(call \in Over /\ call.kind = "lookup" /\ call.result # "cancelled")
      <3>1. lookups' = lookups /\ \A d \in Calls : RowsOf(d)' = RowsOf(d)
        BY <2>2 DEF RowsOf
      <3>2. ~(call.phase = "ended" /\ call.kind = "lookup" /\ call.result # "cancelled")
        BY <1>3, <2>2
      <3>3. source'.status = "active" => source.status = "active"
        BY <2>2
      <3>4. ASSUME NEW d \in Calls \ {c}
            PROVE  calls'[d] = calls[d] /\ sent'[d] = sent[d]
        BY <1>1
      <3>5. calls'[c] = call
        BY <1>1
      <3> QED BY <1>5, <3>1, <3>2, <3>3, <3>4, <3>5 DEF IInv, RowsTold
    <2> QED BY <2>1, <2>2
  <1> QED BY <1>2, <1>4, <1>6 DEF IInv

\* What a call under way knows of itself.
LEMMA InFlight ==
  ASSUME IInv, NEW c \in Calls, calls[c].phase \in {"sent", "waits"}
  PROVE  /\ calls[c] \in Flying /\ calls[c].kind \in Kinds
         /\ calls[c].step \in {1, 2} /\ calls[c].step <= Steps(calls[c].kind)
         /\ Steps(calls[c].kind) \in {1, 2}
         /\ calls[c].attempt \in 0..Retries /\ sent[c] \in Nat /\ calls[c].attempt < sent[c]
         /\ calls[c].phase = "waits" => calls[c].attempt < Retries
         /\ sent[c] <= MaySend(calls[c].step, calls[c].attempt)
         /\ calls[c].step = 1 => sent[c] <= Retries + 1
         /\ sent[c] <= Steps(calls[c].kind) * (Retries + 1)
         /\ sent[c] <= 2 * (Retries + 1)
  <1>1. /\ calls[c] \in Flying /\ sent[c] \in Nat
    BY CallKinds DEF IInv, Typed
  <1>2. /\ calls[c].kind \in Kinds /\ calls[c].step \in {1, 2}
        /\ calls[c].attempt \in 0..Retries
    BY <1>1 DEF Flying
  <1>3. /\ calls[c].step <= Steps(calls[c].kind) /\ calls[c].attempt < sent[c]
        /\ calls[c].phase = "waits" => calls[c].attempt < Retries
        /\ sent[c] <= MaySend(calls[c].step, calls[c].attempt)
    BY <1>1 DEF IInv, SentSoFar
  <1>4. Steps(calls[c].kind) \in {1, 2}
    BY DEF Steps
  <1> DEFINE step == calls[c].step
             steps == Steps(calls[c].kind)
             attempt == calls[c].attempt
             n == sent[c]
  <1>5. /\ step = 1 => n <= Retries + 1
        /\ n <= steps * (Retries + 1)
        /\ n <= 2 * (Retries + 1)
    <2>1. /\ step \in {1, 2} /\ steps \in {1, 2} /\ step <= steps /\ attempt \in 0..Retries
          /\ n \in Nat /\ n <= MaySend(step, attempt)
      BY <1>1, <1>2, <1>3, <1>4
    <2> HIDE DEF step, steps, attempt, n
    <2>2. CASE step = 1 /\ steps = 1
      BY <2>1, <2>2, RetriesAssumption DEF MaySend
    <2>3. CASE step = 1 /\ steps = 2
      BY <2>1, <2>3, RetriesAssumption DEF MaySend
    <2>4. CASE step = 2 /\ steps = 2
      BY <2>1, <2>4, RetriesAssumption DEF MaySend
    <2> QED BY <2>1, <2>2, <2>3, <2>4
  <1> QED BY <1>1, <1>2, <1>3, <1>4, <1>5

\* The history counts every request.
LEMMA CountsSends ==
  ASSUME sent \in [Calls -> Nat], NEW c \in Calls, sent[c] <= 2 * (Retries + 1), Sends(c)
  PROVE  sent' = [sent EXCEPT ![c] = sent[c] + 1]
  <1>1. ~(sent[c] > 2 * (Retries + 1))
    <2>1. sent[c] \in Nat /\ 2 * (Retries + 1) \in Nat
      BY RetriesAssumption
    <2> QED BY <2>1
  <1> QED BY <1>1 DEF Sends

\* A call that begins sends its first request.
LEMMA BeginsKeep ==
  ASSUME IInv, NEW c \in Calls, calls[c] = NotMade, NEW kind \in Kinds,
         NEW loaded \in {None, "pending", "active"},
         calls' = [calls EXCEPT ![c] = Sending(kind, loaded)], Sends(c),
         UNCHANGED <<lookups, source>>
  PROVE  IInv'
  <1> DEFINE call == Sending(kind, loaded)
             n == 1
  <1>1. call \in Flying /\ ~(call \in Over) /\ n \in Nat
    BY RetriesAssumption DEF Sending, Flying, Over
  <1>2. sent' = [sent EXCEPT ![c] = n]
    <2>1. sent[c] = 0
      BY DEF IInv, SentSoFar, NotMade
    <2>2. 0 <= 2 * (Retries + 1) /\ 0 + 1 = 1
      BY RetriesAssumption
    <2> QED BY <2>1, <2>2, CountsSends DEF IInv, Typed
  <1>3. call.step <= Steps(call.kind)
    BY DEF Sending, Steps
  <1>4. call.attempt < n /\ n <= MaySend(call.step, call.attempt) /\ call.phase # "waits"
    BY DEF Sending, MaySend
  <1>5. calls[c].phase # "ended"
    BY DEF NotMade
  <1>6. calls' = [calls EXCEPT ![c] = call]
    OBVIOUS
  <1>7. source' \in [status : {"pending", "active", "disabled"}, secret : {None, "secret"}]
        /\ source'.status = source.status /\ lookups' = lookups
    BY DEF IInv, Typed
  <1> HIDE DEF call, n
  <1> QED BY <1>1, <1>2, <1>3, <1>4, <1>5, <1>6, <1>7, OneCall

\* A call refused before it sends anything ends.
LEMMA RefusedKeeps ==
  ASSUME IInv, NEW c \in Calls, calls[c] = NotMade, NEW kind \in Kinds,
         NEW result \in Outcomes \ {"ok", "cancelled"},
         calls' = [calls EXCEPT ![c] = Ended(kind, result)],
         lookups' = IF kind = "lookup" THEN Audited(c, result) ELSE lookups,
         UNCHANGED <<sent, source>>
  PROVE  IInv'
  <1> DEFINE call == Ended(kind, result)
             n == 0
  <1>1. /\ call \in Over /\ ~(call \in Flying) /\ n \in Nat
        /\ call.kind = kind /\ call.result = result
    BY DEF Ended, Flying, Over
  <1>2. sent' = [sent EXCEPT ![c] = n]
    <2>1. sent[c] = 0
      BY DEF IInv, SentSoFar, NotMade
    <2> QED BY <2>1 DEF IInv, Typed
  <1>3. n <= Steps(call.kind) * (Retries + 1) /\ ~(n # 0)
    BY RetriesAssumption DEF Steps
  <1>4. calls[c].phase # "ended"
    BY DEF NotMade
  <1>5. calls' = [calls EXCEPT ![c] = call]
    OBVIOUS
  <1>6. source' \in [status : {"pending", "active", "disabled"}, secret : {None, "secret"}]
        /\ source'.status = source.status
        /\ lookups' = IF kind = "lookup" THEN Audited(c, result) ELSE lookups
    BY DEF IInv, Typed
  <1>7. call.result \notin {"ok", "cancelled"}
    BY <1>1
  <1> HIDE DEF call, n
  <1>8. lookups' = IF call \in Over /\ call.kind = "lookup" /\ call.result # "cancelled"
                   THEN Audited(c, call.result) ELSE lookups
    BY <1>1, <1>6, <1>7
  <1>9. call \in Over =>
             /\ n <= Steps(call.kind) * (Retries + 1)
             /\ (call.result = "RATE_LIMITED" /\ n # 0) => n > Retries
             /\ (call.kind = "lookup" /\ call.result = "ok") => n > 0
    BY <1>3, <1>7
  <1>10. call \in Flying \cup Over
    BY <1>1
  <1>11. call \notin Flying /\ n \in Nat
    BY <1>1
  <1>12. source'.status = "active" => source.status = "active"
    BY <1>6
  <1>13. source' \in [status : {"pending", "active", "disabled"}, secret : {None, "secret"}]
    BY <1>6
  <1>14. IInv /\ c \in Calls
    OBVIOUS
  <1> QED BY ONLY <1>2, <1>4, <1>5, <1>8, <1>9, <1>10, <1>11, <1>12, <1>13, <1>14, OneCall

\* A call under way ends.
LEMMA EndsKeep ==
  ASSUME IInv, NEW c \in Calls, calls[c].phase = "sent", NEW result \in Outcomes,
         result # "cancelled", result = "RATE_LIMITED" => calls[c].attempt = Retries,
         Ends(c, result)
  PROVE  IInv'
  <1> DEFINE call == Ended(calls[c].kind, result)
  <1>1. calls[c].kind \in Kinds /\ sent[c] \in Nat /\ calls[c].attempt < sent[c]
        /\ sent[c] <= Steps(calls[c].kind) * (Retries + 1) /\ calls[c] \in Flying
        /\ calls[c].attempt \in 0..Retries
    BY InFlight
  <1>2. /\ call \in Over /\ ~(call \in Flying)
        /\ call.kind = calls[c].kind /\ call.result = result
    BY <1>1 DEF Ended, Flying, Over
  <1>3. calls' = [calls EXCEPT ![c] = call] /\ sent' = [sent EXCEPT ![c] = sent[c]]
    BY DEF Ends, IInv, Typed
  <1>4. /\ lookups' = IF calls[c].kind = "lookup" THEN Audited(c, result) ELSE lookups
        /\ source' = IF calls[c].kind = "lookup" /\ result = "ok" THEN Activated(c) ELSE source
    BY DEF Ends
  <1>5. /\ source' \in [status : {"pending", "active", "disabled"}, secret : {None, "secret"}]
        /\ source'.status = "active" =>
              source.status = "active" \/ (calls[c].kind = "lookup" /\ result = "ok")
    BY <1>4 DEF IInv, Typed, Activated
  <1> HIDE DEF call
  <1>6. /\ result = "RATE_LIMITED" => sent[c] > Retries
        /\ sent[c] > 0
    BY <1>1, RetriesAssumption
  <1> QED BY <1>1, <1>2, <1>3, <1>4, <1>5, <1>6, OneCall

LEMMA ReceiveKeeps ==
  ASSUME IInv, NEW c \in Calls, NEW reply \in Replies, Receive(c, reply)
  PROVE  IInv'
  <1>1. calls[c].phase = "sent"
    BY DEF Receive
  <1>2. CASE Retryable(reply) /\ Again(calls[c].attempt)
    <2> DEFINE call == [calls[c] EXCEPT !.phase = "waits"]
    <2>1. /\ call \in Flying /\ ~(call \in Over) /\ call.step = calls[c].step
          /\ call.kind = calls[c].kind /\ call.attempt = calls[c].attempt
      BY <1>1, InFlight DEF Flying, Over
    <2>2. calls' = [calls EXCEPT ![c] = call] /\ sent' = [sent EXCEPT ![c] = sent[c]]
          /\ UNCHANGED <<lookups, source>>
      <3>1. calls' = [calls EXCEPT ![c].phase = "waits"] /\ UNCHANGED <<lookups, source, sent>>
        <4>1. reply # "answer"
          BY <1>2 DEF Retryable
        <4> QED BY <1>2, <4>1 DEF Receive
      <3> QED BY <3>1 DEF IInv, Typed
    <2>3. call.attempt < Retries
      BY <1>2, <2>1 DEF Again
    <2> HIDE DEF call
    <2> QED BY <1>1, <2>1, <2>2, <2>3, InFlight, OneCall DEF IInv, Typed
  <1>3. CASE /\ ~(Retryable(reply) /\ Again(calls[c].attempt))
             /\ reply = "answer" /\ calls[c].step < Steps(calls[c].kind)
    <2> DEFINE call == [calls[c] EXCEPT !.step = calls[c].step + 1, !.attempt = 0]
    <2>1. calls[c].step = 1 /\ Steps(calls[c].kind) = 2 /\ sent[c] \in Nat
          /\ sent[c] <= Retries + 1 /\ calls[c] \in Flying
      BY <1>1, <1>3, InFlight
    <2>2. /\ call \in Flying /\ ~(call \in Over) /\ call.step = 2
          /\ call.kind = calls[c].kind /\ call.attempt = 0 /\ call.phase = "sent"
      <3>1. 0 \in 0..Retries /\ calls[c].step + 1 = 2
        BY <2>1, RetriesAssumption
      <3> QED BY <1>1, <2>1, <3>1 DEF Flying, Over
    <2>3. calls' = [calls EXCEPT ![c] = call] /\ Sends(c) /\ UNCHANGED <<lookups, source>>
      BY <1>3 DEF Receive
    <2>4. sent' = [sent EXCEPT ![c] = sent[c] + 1]
      BY <1>1, <2>3, InFlight, CountsSends DEF IInv, Typed
    <2> HIDE DEF call
    <2>5. /\ 0 < sent[c] + 1 /\ sent[c] + 1 <= MaySend(2, 0)
          /\ sent[c] + 1 \in Nat
      BY <2>1, RetriesAssumption DEF MaySend
    <2>6. source' \in [status : {"pending", "active", "disabled"}, secret : {None, "secret"}]
          /\ source'.status = source.status /\ lookups' = lookups
      BY <2>3 DEF IInv, Typed
    <2>7. call.step <= Steps(call.kind)
      BY <2>1, <2>2
    <2> DEFINE n == sent[c] + 1
    <2>8. /\ sent' = [sent EXCEPT ![c] = n] /\ n \in Nat
          /\ call.attempt < n /\ n <= MaySend(call.step, call.attempt)
      BY <2>2, <2>4, <2>5
    <2> HIDE DEF n
    <2> QED BY <1>1, <2>2, <2>3, <2>6, <2>7, <2>8, OneCall
  <1>4. CASE /\ ~(Retryable(reply) /\ Again(calls[c].attempt))
             /\ ~(reply = "answer" /\ calls[c].step < Steps(calls[c].kind))
    <2> DEFINE result == CASE reply = "answer" -> "ok"
                           [] reply \in {"garbled", "incomplete"} ->
                                 Misread(reply, calls[c].kind, calls[c].step)
                           [] OTHER -> Error(reply)
    <2>1. Ends(c, result)
      BY <1>4 DEF Receive
    <2>2. /\ result \in Outcomes /\ result # "cancelled"
          /\ result = "RATE_LIMITED" => reply = "429"
      <3>1. Misread(reply, calls[c].kind, calls[c].step) \in {"ok", "AUTH_FAILED", "ERROR"}
        BY DEF Misread
      <3>2. /\ Error(reply) \in Outcomes \ {"cancelled"}
            /\ Error(reply) = "RATE_LIMITED" => reply = "429"
        BY DEF Error, Outcomes
      <3> QED BY <3>1, <3>2 DEF Outcomes
    <2>3. reply = "429" => calls[c].attempt = Retries
      <3>1. reply = "429" => ~(calls[c].attempt < Retries)
        BY <1>4 DEF Retryable, Again
      <3>2. calls[c].attempt \in 0..Retries
        BY <1>1, InFlight
      <3> QED BY <3>1, <3>2, RetriesAssumption
    <2> HIDE DEF result
    <2> QED BY <1>1, <2>1, <2>2, <2>3, EndsKeep
  <1> QED BY <1>2, <1>3, <1>4

LEMMA ResendKeeps ==
  ASSUME IInv, NEW c \in Calls, Resend(c)
  PROVE  IInv'
  <1>1. calls[c].phase = "waits" /\ UNCHANGED <<windows, source, lookups, through>>
    BY DEF Resend
  <1> DEFINE call == [calls[c] EXCEPT !.phase = "sent", !.attempt = calls[c].attempt + 1]
             n == sent[c] + 1
  <1>2. /\ calls[c] \in Flying /\ calls[c].attempt \in 0..Retries /\ calls[c].attempt < Retries
        /\ calls[c].step <= Steps(calls[c].kind) /\ calls[c].step \in {1, 2}
        /\ sent[c] \in Nat /\ calls[c].attempt < sent[c]
        /\ sent[c] <= MaySend(calls[c].step, calls[c].attempt)
    BY <1>1, InFlight
  <1>3. calls[c].attempt + 1 \in 0..Retries
    BY <1>2, RetriesAssumption
  <1>4. /\ call \in Flying /\ call \notin Over /\ call.phase = "sent" /\ call.kind = calls[c].kind
        /\ call.step = calls[c].step /\ call.attempt = calls[c].attempt + 1
    BY <1>2, <1>3 DEF Flying, Over
  <1>5. calls' = [calls EXCEPT ![c] = call]
    BY DEF Resend, NextAttempt, IInv, Typed
  <1>6. sent' = [sent EXCEPT ![c] = n]
    BY <1>1, InFlight, CountsSends DEF Resend, IInv, Typed
  <1>7. n \in Nat /\ call.attempt < n /\ n <= MaySend(call.step, call.attempt)
    BY <1>2, <1>4, RetriesAssumption DEF MaySend
  <1>8. source' \in [status : {"pending", "active", "disabled"}, secret : {None, "secret"}]
        /\ source'.status = source.status /\ lookups' = lookups
    BY <1>1 DEF IInv, Typed
  <1>9. IInv /\ c \in Calls /\ calls[c].phase # "ended" /\ call.step <= Steps(call.kind)
    BY <1>1, <1>2, <1>4
  <1> HIDE DEF call, n
  <1> QED BY ONLY <1>4, <1>5, <1>6, <1>7, <1>8, <1>9, OneCall

LEMMA CancelKeeps ==
  ASSUME IInv, NEW c \in Calls, Cancel(c)
  PROVE  IInv'
  <1>1. /\ calls[c].phase \in {"sent", "waits"}
        /\ UNCHANGED <<windows, source, lookups, through, sent>>
    BY DEF Cancel
  <1> DEFINE call == Ended(calls[c].kind, "cancelled")
             n == sent[c]
  <1>2. calls[c].kind \in Kinds /\ n \in Nat /\ n <= Steps(calls[c].kind) * (Retries + 1)
    BY <1>1, InFlight
  <1>3. /\ call \in Over /\ call \notin Flying /\ call.kind = calls[c].kind
        /\ call.result = "cancelled"
    BY <1>2 DEF Ended, Over, Flying, Outcomes
  <1>4. calls' = [calls EXCEPT ![c] = call] /\ sent' = [sent EXCEPT ![c] = n]
    BY <1>1 DEF Cancel, IInv, Typed
  <1>5. source' \in [status : {"pending", "active", "disabled"}, secret : {None, "secret"}]
        /\ source'.status = source.status /\ lookups' = lookups
    BY <1>1 DEF IInv, Typed
  <1>6. IInv /\ c \in Calls /\ calls[c].phase # "ended"
    BY <1>1
  <1> HIDE DEF call, n
  <1> QED BY ONLY <1>2, <1>3, <1>4, <1>5, <1>6, OneCall

LEMMA RestartKeeps ==
  ASSUME IInv, Restart
  PROVE  IInv'
  <1>1. /\ calls' = [c \in Calls |-> IF calls[c].phase \in {"sent", "waits"}
                                    THEN Ended(calls[c].kind, "cancelled") ELSE calls[c]]
        /\ UNCHANGED <<source, lookups, sent>>
    BY DEF Restart
  <1>2. ASSUME NEW c \in Calls, calls[c].phase \in {"sent", "waits"}
        PROVE  /\ calls'[c] \in Over /\ calls'[c] \notin Flying
               /\ calls'[c].kind = calls[c].kind /\ calls'[c].result = "cancelled"
               /\ calls'[c].phase = "ended" /\ sent[c] <= Steps(calls[c].kind) * (Retries + 1)
    <2>1. calls'[c] = Ended(calls[c].kind, "cancelled")
      BY <1>1, <1>2
    <2>2. calls[c].kind \in Kinds /\ sent[c] <= Steps(calls[c].kind) * (Retries + 1)
      BY <1>2, InFlight
    <2> QED BY <2>1, <2>2 DEF Ended, Over, Flying, Outcomes
  <1>3. ASSUME NEW c \in Calls, calls[c].phase \notin {"sent", "waits"}
        PROVE  calls'[c] = calls[c]
    BY <1>1, <1>3
  <1>4. Typed'
    <2>1. ASSUME NEW c \in Calls PROVE calls'[c] \in {NotMade} \cup Flying \cup Over
      BY <1>2, <1>3 DEF IInv, Typed
    <2> QED BY <1>1, <2>1 DEF IInv, Typed
  <1>5. SentSoFar'
    <2> SUFFICES ASSUME NEW c \in Calls
                 PROVE  /\ calls'[c].phase = "none" => sent[c] = 0
                        /\ calls'[c] \in Flying =>
                              /\ calls'[c].step <= Steps(calls'[c].kind)
                              /\ calls'[c].attempt < sent[c]
                              /\ calls'[c].phase = "waits" => calls'[c].attempt < Retries
                              /\ sent[c] <= MaySend(calls'[c].step, calls'[c].attempt)
                        /\ calls'[c] \in Over => sent[c] <= Steps(calls'[c].kind) * (Retries + 1)
                        /\ (calls'[c] \in Over /\ calls'[c].result = "RATE_LIMITED" /\ sent[c] # 0)
                           => sent[c] > Retries
      BY <1>1 DEF SentSoFar
    <2>1. CASE calls[c].phase \in {"sent", "waits"}
      BY <1>2, <2>1
    <2>2. CASE calls[c].phase \notin {"sent", "waits"}
      BY <1>3, <2>2 DEF IInv, SentSoFar
    <2> QED BY <2>1, <2>2
  <1>6. RowsTold'
    <2>1. \A c \in Calls : RowsOf(c)' = RowsOf(c)
      BY <1>1 DEF RowsOf
    <2> QED BY <1>1, <1>2, <1>3, <2>1 DEF IInv, RowsTold
  <1> QED BY <1>4, <1>5, <1>6 DEF IInv

\* What leaves calls and rows alone and makes no source ACTIVE.
LEMMA AroundKeeps ==
  ASSUME IInv, UNCHANGED <<calls, lookups, sent>>,
         source' \in [status : {"pending", "active", "disabled"}, secret : {None, "secret"}],
         source'.status = "active" => source.status = "active"
  PROVE  IInv'
  <1>1. \A c \in Calls : RowsOf(c)' = RowsOf(c)
    BY DEF RowsOf
  <1> QED BY <1>1 DEF IInv, Typed, SentSoFar, RowsTold

-----------------------------------------------------------------------------
LEMMA InitIInv == Init => IInv
  <1> SUFFICES ASSUME Init PROVE IInv
    OBVIOUS
  <1>1. Typed
    BY DEF Init, Typed
  <1>2. NotMade \notin Flying /\ NotMade \notin Over /\ NotMade.phase = "none"
    BY CallKinds DEF NotMade
  <1> QED BY <1>1, <1>2 DEF Init, IInv, SentSoFar, RowsTold, RowsOf, NotMade

LEMMA NextIInv == IInv /\ [Next]_vars => IInv'
  <1> SUFFICES ASSUME IInv, [Next]_vars PROVE IInv'
    OBVIOUS
  <1>1. ASSUME NEW c \in Calls, NEW k \in Keys, Request(c, k) PROVE IInv'
    <2>1. CASE Acquires(k)
      BY <1>1, <2>1, BeginsKeep DEF Request, Kinds
    <2>2. CASE ~Acquires(k)
      <3>1. "RATE_LIMITED" \in Outcomes \ {"ok", "cancelled"}
        BY DEF Outcomes
      <3>2. /\ calls[c] = NotMade /\ calls' = [calls EXCEPT ![c] = Ended("request", "RATE_LIMITED")]
            /\ UNCHANGED <<sent, source, lookups>>
        BY <1>1, <2>2 DEF Request
      <3>3. lookups' = IF "request" = "lookup" THEN Audited(c, "RATE_LIMITED") ELSE lookups
        BY <3>2
      <3> QED BY <3>1, <3>2, <3>3, RefusedKeeps DEF Kinds
    <2> QED BY <2>1, <2>2
  <1>2. ASSUME NEW c \in Calls, NEW kind \in {"page", "test"},
               NEW refusal \in {None, "CONFLICT", "VALIDATION_ERROR"}, Fetch(c, kind, refusal)
        PROVE  IInv'
    <2>1. CASE refusal = None
      BY <1>2, <2>1, BeginsKeep DEF Fetch, Kinds
    <2>2. CASE refusal # None
      <3>1. refusal \in Outcomes \ {"ok", "cancelled"}
        BY <2>2 DEF Outcomes
      <3>2. /\ calls[c] = NotMade /\ calls' = [calls EXCEPT ![c] = Ended(kind, refusal)]
            /\ UNCHANGED <<sent, source, lookups>>
        BY <1>2, <2>2 DEF Fetch
      <3>3. lookups' = IF kind = "lookup" THEN Audited(c, refusal) ELSE lookups
        BY <3>2
      <3> QED BY <3>1, <3>2, <3>3, RefusedKeeps DEF Kinds
    <2> QED BY <2>1, <2>2
  <1>3. ASSUME NEW c \in Calls,
               NEW refusal \in {None, "AUTH_FAILED", "DEPENDENCY_DISABLED", "VALIDATION_ERROR"},
               Lookup(c, refusal)
        PROVE  IInv'
    <2>1. CASE refusal = None
      <3>1. source.status \in {"pending", "active"}
        BY <1>3 DEF Lookup, IInv, Typed
      <3> QED BY <1>3, <2>1, <3>1, BeginsKeep DEF Lookup, Kinds
    <2>2. CASE refusal # None
      <3>1. refusal \in Outcomes \ {"ok", "cancelled"}
        BY <2>2 DEF Outcomes
      <3>2. /\ calls[c] = NotMade /\ calls' = [calls EXCEPT ![c] = Ended("lookup", refusal)]
            /\ lookups' = Audited(c, refusal) /\ UNCHANGED <<sent, source>>
        BY <1>3, <2>2 DEF Lookup
      <3> QED BY <3>1, <3>2, RefusedKeeps DEF Kinds
    <2> QED BY <2>1, <2>2
  <1>4. ASSUME NEW c \in Calls, Answered(c) PROVE IInv'
    BY <1>4, ReceiveKeeps DEF Answered
  <1>5. ASSUME NEW c \in Calls, Resend(c) PROVE IInv'
    BY <1>5, ResendKeeps
  <1>6. ASSUME NEW c \in Calls, Cancel(c) PROVE IInv'
    BY <1>6, CancelKeeps
  <1>7. CASE SaveCredentials
    BY <1>7, AroundKeeps DEF SaveCredentials
  <1>8. CASE RevokeCredentials
    BY <1>8, AroundKeeps DEF RevokeCredentials
  <1>9. CASE Tick
    BY <1>9, AroundKeeps DEF Tick, IInv, Typed
  <1>10. CASE Restart
    BY <1>10, RestartKeeps
  <1>11. CASE UNCHANGED vars
    BY <1>11, AroundKeeps DEF vars, IInv, Typed
  <1> QED BY <1>1, <1>2, <1>3, <1>4, <1>5, <1>6, <1>7, <1>8, <1>9, <1>10, <1>11 DEF Next

LEMMA AlwaysIInv == Spec => []IInv
  BY InitIInv, NextIInv, PTL DEF Spec

\* Every lookup that ended otherwise than by cancellation has its one row, which
\* tells how it ended, and only an answered one has made the source ACTIVE
\* (DianAcquirerService.lookup), for any number of calls and restarts.
THEOREM Audit == Spec => []LookupsAudited
  <1>1. IInv => LookupsAudited
    BY DEF IInv, RowsTold, RowsOf, LookupsAudited
  <1> QED BY <1>1, AlwaysIInv, PTL

\* A call sends no more than its retries allow, and one turned away for its rate
\* has asked every time it could (ProviderHttpClient.request), for any number of
\* calls and of retries. It is the first part of TrafficIsBounded.
THEOREM RetriesBounded == Spec => []SendsBounded
  <1>1. IInv => SendsBounded
    <2> SUFFICES ASSUME IInv, NEW c \in Calls
                 PROVE  /\ calls[c].phase = "none" => sent[c] = 0
                        /\ calls[c].phase # "none" => sent[c] <= Steps(calls[c].kind) * (Retries + 1)
                        /\ (calls[c].phase = "ended" /\ calls[c].result = "RATE_LIMITED" /\ sent[c] # 0)
                           => sent[c] > Retries
      BY DEF SendsBounded
    <2>1. CASE calls[c].phase \in {"sent", "waits"}
      BY <2>1, InFlight
    <2>2. CASE calls[c].phase \notin {"sent", "waits"}
      BY <2>2, CallKinds DEF IInv, Typed, SentSoFar, NotMade
    <2> QED BY <2>1, <2>2
  <1> QED BY <1>1, AlwaysIInv, PTL

-----------------------------------------------------------------------------
(* The sliding window *)

Windowed ==
    /\ windows \in [Keys -> Seq(Nat)]
    /\ through \in [Keys -> Seq(Nat)]
    /\ \A k \in Keys :
          /\ Len(windows[k]) <= Len(through[k])
          /\ \A i \in 1..Len(windows[k]) :
                windows[k][i] = through[k][Len(through[k]) - Len(windows[k]) + i]
          /\ \A i \in 1..(Len(through[k]) - Len(windows[k])) : ~InWindow(through[k][i])
    /\ \A k \in Keys : Cardinality(LastMinute(k)) <= Limit

LEMMA Interval ==
  ASSUME NEW a \in Nat, NEW b \in Nat, a <= b
  PROVE  IsFiniteSet((a + 1)..b) /\ Cardinality((a + 1)..b) = b - a
  <1>1. a + 1 \in Int /\ b \in Int
    OBVIOUS
  <1>2. /\ IsFiniteSet((a + 1)..b)
        /\ Cardinality((a + 1)..b) = IF a + 1 > b THEN 0 ELSE b - (a + 1) + 1
    BY <1>1, FS_Interval
  <1> QED BY <1>2

LEMMA Upto ==
  ASSUME NEW b \in Nat
  PROVE  IsFiniteSet(1..b) /\ Cardinality(1..b) = b
  <1>1. 0 + 1 = 1 /\ b - 0 = b /\ 0 <= b
    OBVIOUS
  <1> QED BY <1>1, Interval

\* The requests that leave a window are its first ones, and none of them is in it.
LEMMA ExpiredFirst ==
  ASSUME NEW ages \in Seq(Nat)
  PROVE  /\ Cardinality(Expired(ages)) \in 0..Len(ages)
         /\ Expired(ages) = 1..Cardinality(Expired(ages))
  <1> DEFINE gone == Expired(ages)
             m == Cardinality(gone)
  <1>1. IsFiniteSet(1..Len(ages)) /\ Cardinality(1..Len(ages)) = Len(ages)
    <2>1. Len(ages) \in Nat
      OBVIOUS
    <2> QED BY <2>1, Upto
  <1>2. gone \subseteq 1..Len(ages)
    BY DEF Expired
  <1>3. IsFiniteSet(gone) /\ m \in Nat /\ m <= Len(ages)
    BY <1>1, <1>2, FS_Subset, FS_CardinalityType
  <1>4. ASSUME NEW n \in gone PROVE n <= m
    <2>1. n \in 1..Len(ages) /\ 1..n \subseteq gone
      BY DEF Expired
    <2>2. Cardinality(1..n) <= m
      BY <1>3, <2>1, FS_Subset
    <2>3. Cardinality(1..n) = n
      BY <2>1, FS_Interval
    <2> QED BY <2>2, <2>3
  <1>5. gone \subseteq 1..m
    BY <1>2, <1>3, <1>4
  <1>6. IsFiniteSet(1..m) /\ Cardinality(1..m) = m
    BY <1>3, FS_Interval
  <1>7. gone = 1..m
    BY <1>5, <1>6, FS_Subset
  <1> QED BY <1>3, <1>7

LEMMA KeptSuffix ==
  ASSUME NEW ages \in Seq(Nat)
  PROVE  LET m == Cardinality(Expired(ages))
         IN  /\ m \in 0..Len(ages)
             /\ Kept(ages) \in Seq(Nat)
             /\ Len(Kept(ages)) = Len(ages) - m
             /\ \A i \in 1..Len(Kept(ages)) : Kept(ages)[i] = ages[m + i]
             /\ \A i \in 1..m : ~InWindow(ages[i])
  <1> DEFINE m == Cardinality(Expired(ages))
  <1>1. m \in 0..Len(ages) /\ Expired(ages) = 1..m
    BY ExpiredFirst
  <1>2. \A i \in 1..m : ~InWindow(ages[i])
    BY <1>1 DEF Expired
  <1>3. Kept(ages) = SubSeq(ages, m + 1, Len(ages))
    BY DEF Kept
  <1> HIDE DEF m
  <1>4. /\ SubSeq(ages, m + 1, Len(ages)) \in Seq(Nat)
        /\ Len(SubSeq(ages, m + 1, Len(ages))) = Len(ages) - m
        /\ \A i \in 1..(Len(ages) - m) : SubSeq(ages, m + 1, Len(ages))[i] = ages[m + i]
    BY <1>1
  <1>5. /\ m \in 0..Len(ages) /\ Kept(ages) \in Seq(Nat) /\ Len(Kept(ages)) = Len(ages) - m
        /\ \A i \in 1..Len(Kept(ages)) : Kept(ages)[i] = ages[m + i]
        /\ \A i \in 1..m : ~InWindow(ages[i])
    BY <1>1, <1>2, <1>3, <1>4
  <1> QED BY <1>5 DEF m

LEMMA OlderOnly ==
  ASSUME NEW ages \in Seq(Nat)
  PROVE  /\ Older(ages) \in Seq(Nat) /\ Len(Older(ages)) = Len(ages)
         /\ \A i \in 1..Len(ages) :
               /\ Older(ages)[i] = IF ages[i] < Window THEN ages[i] + 1 ELSE ages[i]
               /\ ~InWindow(ages[i]) => ~InWindow(Older(ages)[i])
  <1>1. DOMAIN ages = 1..Len(ages) /\ Len(ages) \in Nat
    OBVIOUS
  <1>2. \A i \in 1..Len(ages) : ages[i] \in Nat
    OBVIOUS
  <1>3. Older(ages) = [i \in 1..Len(ages) |-> IF ages[i] < Window THEN ages[i] + 1 ELSE ages[i]]
    BY <1>1 DEF Older
  <1>4. \A i \in 1..Len(ages) : (IF ages[i] < Window THEN ages[i] + 1 ELSE ages[i]) \in Nat
    BY <1>2
  <1>5. Older(ages) \in Seq(Nat) /\ Len(Older(ages)) = Len(ages)
    BY <1>1, <1>3, <1>4
  <1>6. ASSUME NEW i \in 1..Len(ages)
        PROVE  /\ Older(ages)[i] = IF ages[i] < Window THEN ages[i] + 1 ELSE ages[i]
               /\ ~InWindow(ages[i]) => ~InWindow(Older(ages)[i])
    BY <1>3 DEF InWindow
  <1> QED BY <1>5, <1>6

LEMMA RequestWindowed ==
  ASSUME Windowed, NEW c \in Calls, NEW k \in Keys, Request(c, k)
  PROVE  Windowed'
  <1> DEFINE w == windows[k]
             t == through[k]
             m == Cardinality(Expired(w))
             kept == Kept(w)
  <1>1. /\ w \in Seq(Nat) /\ t \in Seq(Nat) /\ Len(w) \in Nat /\ Len(t) \in Nat
        /\ Len(w) <= Len(t)
        /\ \A i \in 1..Len(w) : w[i] = t[Len(t) - Len(w) + i]
        /\ \A i \in 1..(Len(t) - Len(w)) : ~InWindow(t[i])
    BY DEF Windowed
  <1>2. /\ m \in 0..Len(w) /\ kept \in Seq(Nat) /\ Len(kept) = Len(w) - m
        /\ \A i \in 1..Len(kept) : kept[i] = w[m + i]
        /\ \A i \in 1..m : ~InWindow(w[i])
    BY <1>1, KeptSuffix
  <1>3. /\ Len(kept) \in Nat /\ Len(kept) <= Len(t)
        /\ \A i \in 1..Len(kept) : kept[i] = t[Len(t) - Len(kept) + i]
        /\ \A i \in 1..(Len(t) - Len(kept)) : ~InWindow(t[i])
    <2> HIDE DEF w, t, m, kept
    <2>1. ASSUME NEW i \in 1..Len(kept) PROVE kept[i] = t[Len(t) - Len(kept) + i]
      <3>1. /\ m + i \in 1..Len(w)
            /\ Len(t) - Len(w) + (m + i) = Len(t) - Len(kept) + i
        BY <1>1, <1>2
      <3> QED BY <1>1, <1>2, <3>1
    <2>2. ASSUME NEW i \in 1..(Len(t) - Len(kept)) PROVE ~InWindow(t[i])
      <3>1. CASE i <= Len(t) - Len(w)
        BY <1>1, <3>1
      <3>2. CASE i > Len(t) - Len(w)
        <4> DEFINE j == i - (Len(t) - Len(w))
        <4>0. /\ Len(t) \in Nat /\ Len(w) \in Nat /\ m \in Nat /\ m <= Len(w)
              /\ Len(kept) = Len(w) - m
          BY <1>1, <1>2
        <4>1. j \in 1..m /\ j \in 1..Len(w) /\ Len(t) - Len(w) + j = i
          BY <3>2, <4>0
        <4>2. w[j] = t[i]
          BY <1>1, <4>1
        <4> QED BY <1>2, <4>1, <4>2
      <3> QED BY <1>1, <3>1, <3>2
    <2>3. Len(kept) \in Nat /\ Len(kept) <= Len(t)
      BY <1>1, <1>2
    <2> QED BY <2>1, <2>2, <2>3
  <1>4. Cardinality(LastMinute(k)) <= Len(kept)
    <2>1. LastMinute(k) = {i \in 1..Len(t) : InWindow(t[i])}
      BY DEF LastMinute
    <2> HIDE DEF w, t, kept
    <2> DEFINE a == Len(t) - Len(kept)
    <2>2. a \in Nat /\ Len(t) \in Nat /\ a <= Len(t) /\ Len(t) - a = Len(kept)
      BY <1>1, <1>3
    <2>3. IsFiniteSet((a + 1)..Len(t)) /\ Cardinality((a + 1)..Len(t)) = Len(kept)
      BY <2>2, Interval
    <2>4. ASSUME NEW i \in 1..Len(t), InWindow(t[i]) PROVE i \in (a + 1)..Len(t)
      <3>1. i \notin 1..a
        BY <1>3, <2>4
      <3> QED BY <2>2, <3>1
    <2>5. LastMinute(k) \subseteq (a + 1)..Len(t)
      BY <2>1, <2>4
    <2> QED BY <2>3, <2>5, FS_Subset
  <1>5. CASE Acquires(k)
    <2>1. /\ windows' = [windows EXCEPT ![k] = Append(kept, 0)]
          /\ through' = [through EXCEPT ![k] = Append(t, 0)]
      BY <1>5 DEF Request
    <2>2. /\ Append(kept, 0) \in Seq(Nat) /\ Append(t, 0) \in Seq(Nat)
          /\ Len(Append(kept, 0)) = Len(kept) + 1 /\ Len(Append(t, 0)) = Len(t) + 1
          /\ Append(kept, 0)[Len(kept) + 1] = 0 /\ Append(t, 0)[Len(t) + 1] = 0
          /\ \A i \in 1..Len(kept) : Append(kept, 0)[i] = kept[i]
          /\ \A i \in 1..Len(t) : Append(t, 0)[i] = t[i]
      BY <1>1, <1>2, <1>3
    <2>3. /\ windows' \in [Keys -> Seq(Nat)] /\ through' \in [Keys -> Seq(Nat)]
          /\ windows'[k] = Append(kept, 0) /\ through'[k] = Append(t, 0)
          /\ \A l \in Keys \ {k} : windows'[l] = windows[l] /\ through'[l] = through[l]
      BY <2>1, <2>2 DEF Windowed
    <2> HIDE DEF w, t, kept
    <2>4. ASSUME NEW i \in 1..Len(windows'[k])
          PROVE  windows'[k][i] = through'[k][Len(through'[k]) - Len(windows'[k]) + i]
      <3>1. CASE i \in 1..Len(kept)
        <4> DEFINE j == Len(t) - Len(kept) + i
        <4>1. j \in 1..Len(t) /\ Len(through'[k]) - Len(windows'[k]) + i = j
          BY <1>1, <1>3, <2>2, <2>3, <3>1
        <4>2. windows'[k][i] = kept[i] /\ through'[k][j] = t[j]
          BY <2>2, <2>3, <3>1, <4>1
        <4> QED BY <1>3, <3>1, <4>1, <4>2
      <3>2. CASE i = Len(kept) + 1
        <4>1. Len(through'[k]) - Len(windows'[k]) + i = Len(t) + 1
          BY <1>1, <1>3, <2>2, <2>3, <3>2
        <4> QED BY <2>2, <2>3, <3>2, <4>1
      <3>3. i \in 1..(Len(kept) + 1) /\ Len(kept) \in Nat
        BY <1>3, <2>2, <2>3
      <3>4. i \in 1..Len(kept) \/ i = Len(kept) + 1
        BY <3>3
      <3> QED BY <3>1, <3>2, <3>4
    <2>5. ASSUME NEW i \in 1..(Len(through'[k]) - Len(windows'[k]))
          PROVE  ~InWindow(through'[k][i])
      <3>1. i \in 1..(Len(t) - Len(kept)) /\ i \in 1..Len(t)
        BY <1>1, <1>3, <2>2, <2>3
      <3> QED BY <1>3, <2>2, <2>3, <3>1
    <2>6. Cardinality(LastMinute(k)') <= Limit
      <3>1. LastMinute(k)' \subseteq LastMinute(k) \cup {Len(t) + 1}
        BY <1>1, <2>2, <2>3 DEF LastMinute, t
      <3>2. IsFiniteSet(LastMinute(k)) /\ Len(t) + 1 \notin LastMinute(k)
        <4>1. IsFiniteSet(1..Len(t)) /\ LastMinute(k) \subseteq 1..Len(t)
          BY <1>1, Upto DEF LastMinute, t
        <4> QED BY <1>1, <4>1, FS_Subset
      <3>3. /\ IsFiniteSet(LastMinute(k) \cup {Len(t) + 1})
            /\ Cardinality(LastMinute(k) \cup {Len(t) + 1}) = Cardinality(LastMinute(k)) + 1
            /\ Cardinality(LastMinute(k)) \in Nat
        BY <3>2, FS_AddElement, FS_CardinalityType
      <3>4. /\ Cardinality(LastMinute(k)') <= Cardinality(LastMinute(k)) + 1
            /\ Cardinality(LastMinute(k)') \in Nat
        BY <3>1, <3>3, FS_Subset, FS_CardinalityType
      <3>5. Len(kept) < Limit
        BY <1>5 DEF Acquires, kept, w
      <3> QED BY <1>3, <1>4, <3>3, <3>4, <3>5, LimiterAssumption
    <2>7. \A l \in Keys \ {k} : LastMinute(l)' = LastMinute(l)
      BY <2>3 DEF LastMinute
    <2>8. Len(windows'[k]) <= Len(through'[k])
      BY <1>3, <2>2, <2>3, <1>1
    <2>9. ASSUME NEW l \in Keys
          PROVE  /\ Len(windows'[l]) <= Len(through'[l])
                 /\ \A i \in 1..Len(windows'[l]) :
                       windows'[l][i] = through'[l][Len(through'[l]) - Len(windows'[l]) + i]
                 /\ \A i \in 1..(Len(through'[l]) - Len(windows'[l])) : ~InWindow(through'[l][i])
                 /\ Cardinality(LastMinute(l)') <= Limit
      <3>1. CASE l = k
        BY <2>4, <2>5, <2>6, <2>8, <3>1
      <3>2. CASE l # k
        BY <2>3, <2>7, <3>2 DEF Windowed
      <3> QED BY <3>1, <3>2
    <2> QED BY <2>3, <2>9 DEF Windowed
  <1>6. CASE ~Acquires(k)
    <2>1. windows' = [windows EXCEPT ![k] = kept] /\ through' = through
      BY <1>6 DEF Request
    <2>2. /\ windows' \in [Keys -> Seq(Nat)] /\ windows'[k] = kept
          /\ \A l \in Keys \ {k} : windows'[l] = windows[l]
      BY <1>2, <2>1 DEF Windowed
    <2>3. \A l \in Keys : LastMinute(l)' = LastMinute(l)
      BY <2>1 DEF LastMinute
    <2> HIDE DEF w, t, kept
    <2>4. ASSUME NEW l \in Keys
          PROVE  /\ Len(windows'[l]) <= Len(through'[l])
                 /\ \A i \in 1..Len(windows'[l]) :
                       windows'[l][i] = through'[l][Len(through'[l]) - Len(windows'[l]) + i]
                 /\ \A i \in 1..(Len(through'[l]) - Len(windows'[l])) : ~InWindow(through'[l][i])
      <3>1. CASE l = k
        BY <1>3, <2>1, <2>2, <3>1 DEF t
      <3>2. CASE l # k
        BY <2>1, <2>2, <3>2 DEF Windowed
      <3> QED BY <3>1, <3>2
    <2>5. through' \in [Keys -> Seq(Nat)] /\ \A l \in Keys : Cardinality(LastMinute(l)') <= Limit
      BY <2>1, <2>3 DEF Windowed
    <2> QED BY <2>2, <2>4, <2>5 DEF Windowed
  <1> QED BY <1>5, <1>6

LEMMA TickWindowed ==
  ASSUME Windowed, Tick
  PROVE  Windowed'
  <1>1. /\ windows' = [k \in Keys |-> Older(windows[k])]
        /\ through' = [k \in Keys |-> Older(through[k])]
    BY DEF Tick
  <1>2. ASSUME NEW k \in Keys
        PROVE  /\ windows'[k] \in Seq(Nat) /\ through'[k] \in Seq(Nat)
               /\ Len(windows'[k]) = Len(windows[k]) /\ Len(through'[k]) = Len(through[k])
               /\ Len(windows[k]) \in Nat /\ Len(through[k]) \in Nat
               /\ \A i \in 1..Len(windows[k]) :
                     windows'[k][i] = IF windows[k][i] < Window THEN windows[k][i] + 1 ELSE windows[k][i]
               /\ \A i \in 1..Len(through[k]) :
                     /\ through'[k][i] = IF through[k][i] < Window THEN through[k][i] + 1 ELSE through[k][i]
                     /\ ~InWindow(through[k][i]) => ~InWindow(through'[k][i])
    <2>1. windows[k] \in Seq(Nat) /\ through[k] \in Seq(Nat)
      BY DEF Windowed
    <2>2. windows'[k] = Older(windows[k]) /\ through'[k] = Older(through[k])
      BY <1>1
    <2> QED BY <2>1, <2>2, OlderOnly
  <1>3. windows' \in [Keys -> Seq(Nat)] /\ through' \in [Keys -> Seq(Nat)]
    BY <1>1, <1>2
  <1>4. ASSUME NEW k \in Keys
        PROVE  /\ Len(windows'[k]) <= Len(through'[k])
               /\ \A i \in 1..Len(windows'[k]) :
                     windows'[k][i] = through'[k][Len(through'[k]) - Len(windows'[k]) + i]
               /\ \A i \in 1..(Len(through'[k]) - Len(windows'[k])) : ~InWindow(through'[k][i])
    <2> DEFINE w == windows[k]
               t == through[k]
               v == windows'[k]
               u == through'[k]
    <2>1. /\ Len(w) <= Len(t) /\ Len(w) \in Nat /\ Len(t) \in Nat
          /\ Len(v) = Len(w) /\ Len(u) = Len(t)
          /\ \A i \in 1..Len(w) : w[i] = t[Len(t) - Len(w) + i]
          /\ \A i \in 1..(Len(t) - Len(w)) : ~InWindow(t[i])
          /\ \A i \in 1..Len(w) : v[i] = IF w[i] < Window THEN w[i] + 1 ELSE w[i]
          /\ \A i \in 1..Len(t) : /\ u[i] = IF t[i] < Window THEN t[i] + 1 ELSE t[i]
                                  /\ ~InWindow(t[i]) => ~InWindow(u[i])
      BY <1>2 DEF Windowed
    <2> HIDE DEF w, t, v, u
    <2>2. ASSUME NEW i \in 1..Len(v) PROVE v[i] = u[Len(u) - Len(v) + i]
      <3>1. Len(t) - Len(w) + i \in 1..Len(t) /\ i \in 1..Len(w)
        BY <2>1
      <3> QED BY <2>1, <3>1
    <2>3. ASSUME NEW i \in 1..(Len(u) - Len(v)) PROVE ~InWindow(u[i])
      <3>1. i \in 1..(Len(t) - Len(w)) /\ i \in 1..Len(t)
        BY <2>1
      <3> QED BY <2>1, <3>1
    <2>4. Len(v) <= Len(u)
      BY <2>1
    <2> QED BY <2>2, <2>3, <2>4 DEF v, u
  <1>5. ASSUME NEW k \in Keys PROVE Cardinality(LastMinute(k)') <= Limit
    <2>1. LastMinute(k)' \subseteq LastMinute(k)
      BY <1>2 DEF LastMinute
    <2>2. IsFiniteSet(LastMinute(k)) /\ Cardinality(LastMinute(k)) <= Limit
      <3>1. IsFiniteSet(1..Len(through[k])) /\ LastMinute(k) \subseteq 1..Len(through[k])
        BY <1>2, Upto DEF LastMinute
      <3> QED BY <3>1, FS_Subset DEF Windowed
    <2>3. /\ Cardinality(LastMinute(k)') <= Cardinality(LastMinute(k))
          /\ Cardinality(LastMinute(k)') \in Nat /\ Cardinality(LastMinute(k)) \in Nat
      BY <2>1, <2>2, FS_Subset, FS_CardinalityType
    <2> QED BY <2>2, <2>3, LimiterAssumption
  <1> QED BY <1>3, <1>4, <1>5 DEF Windowed

LEMMA EmptyWindowed ==
  ASSUME windows = [k \in Keys |-> <<>>], through = [k \in Keys |-> <<>>]
  PROVE  Windowed
  <1>1. \A k \in Keys : LastMinute(k) = {}
    BY DEF LastMinute
  <1>2. Cardinality({}) = 0
    BY FS_EmptySet
  <1> QED BY <1>1, <1>2, LimiterAssumption DEF Windowed

LEMMA AlwaysWindowed == Spec => []Windowed
  <1>1. Init => Windowed
    BY EmptyWindowed DEF Init
  <1>2. Windowed /\ [Next]_vars => Windowed'
    <2> SUFFICES ASSUME Windowed, [Next]_vars PROVE Windowed'
      OBVIOUS
    <2>1. ASSUME UNCHANGED <<windows, through>> PROVE Windowed'
      <3>1. \A k \in Keys : LastMinute(k)' = LastMinute(k)
        BY <2>1 DEF LastMinute
      <3> QED BY <2>1, <3>1 DEF Windowed
    <2>2. ASSUME NEW c \in Calls, NEW k \in Keys, Request(c, k) PROVE Windowed'
      BY <2>2, RequestWindowed
    <2>3. CASE Tick
      BY <2>3, TickWindowed
    <2>4. CASE Restart
      <3>1. windows' = [k \in Keys |-> <<>>] /\ through' = [k \in Keys |-> <<>>]
        BY <2>4 DEF Restart
      <3>2. \A k \in Keys : LastMinute(k)' = {}
        BY <3>1 DEF LastMinute
      <3>3. Cardinality({}) = 0
        BY FS_EmptySet
      <3>4. \A k \in Keys : windows'[k] = <<>> /\ through'[k] = <<>>
        BY <3>1
      <3>5. windows' \in [Keys -> Seq(Nat)] /\ through' \in [Keys -> Seq(Nat)]
        BY <3>1
      <3>6. Len(<<>>) = 0 /\ 0 - 0 = 0 /\ 0 <= 0 /\ 1..0 = {} /\ 0 <= Limit
        BY LimiterAssumption
      <3>7. \A k \in Keys : Cardinality(LastMinute(k)') <= Limit
        BY <3>2, <3>3, <3>6
      <3> QED BY <3>4, <3>5, <3>6, <3>7 DEF Windowed
    <2>5. ASSUME NEW c \in Calls, NEW kind \in {"page", "test"},
                 NEW refusal \in {None, "CONFLICT", "VALIDATION_ERROR"}, Fetch(c, kind, refusal)
          PROVE  Windowed'
      BY <2>1, <2>5 DEF Fetch
    <2>6. ASSUME NEW c \in Calls,
                 NEW refusal \in {None, "AUTH_FAILED", "DEPENDENCY_DISABLED", "VALIDATION_ERROR"},
                 Lookup(c, refusal)
          PROVE  Windowed'
      BY <2>1, <2>6 DEF Lookup
    <2>7. ASSUME NEW c \in Calls, Answered(c) PROVE Windowed'
      BY <2>1, <2>7 DEF Answered, Receive
    <2>8. ASSUME NEW c \in Calls, Resend(c) \/ Cancel(c) PROVE Windowed'
      BY <2>1, <2>8 DEF Resend, Cancel
    <2>9. CASE SaveCredentials \/ RevokeCredentials \/ UNCHANGED vars
      BY <2>1, <2>9 DEF SaveCredentials, RevokeCredentials, vars
    <2> QED BY <2>2, <2>3, <2>4, <2>5, <2>6, <2>7, <2>8, <2>9 DEF Next
  <1> QED BY <1>1, <1>2, PTL DEF Spec

\* However requests come and fall out of the window, no more of a company to a
\* provider than the limit are let through in any minute
\* (InMemoryRateLimiter.acquire), and no call resends beyond its retries, for any
\* limit, any length of the window and any number of companies.
THEOREM TrafficBounded == Spec => []TrafficIsBounded
  <1>1. Windowed => \A k \in Keys : Cardinality(LastMinute(k)) <= Limit
    BY DEF Windowed
  <1> QED BY <1>1, RetriesBounded, AlwaysWindowed, PTL DEF TrafficIsBounded

=============================================================================
