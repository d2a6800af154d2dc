----------------------- MODULE BankReconciliationProofs -----------------------
(***************************************************************************)
(* A payment is reconciled with at most one movement and an import changes *)
(* no movement that is there, for any number of movements, payments and    *)
(* overlapping requests; rows and suggestions agree with each other while  *)
(* requests do not overlap.                                                *)
(*                                                                         *)
(* The committed rows alone are not inductive: a transaction may have      *)
(* flushed a match and not committed it. MatchInv adds that a match that is*)
(* flushed differs from every committed match of another movement and from *)
(* every other flushed match, and that recomputing a suggestion never      *)
(* changes a match. SoundInv adds, for the one request in flight, what it  *)
(* has seen and flushed: an import's proposals, the row a review has       *)
(* loaded, the decision it has flushed and the open movements it refreshes.*)
(***************************************************************************)
EXTENDS BankReconciliation, FiniteSetTheorems, TLAPS

Pending(r, u) == requests[r].mine[u].matched

PendingFree == \A r \in Requests : \A u \in requests[r].locked :
    Pending(r, u) # NoPayment
        => \A v \in Movements \ {u} : rows[v].matched # Pending(r, u)
PendingDistinct == \A r, q \in Requests :
    \A u \in requests[r].locked, v \in requests[q].locked :
        ((r # q \/ u # v) /\ Pending(r, u) # NoPayment) => Pending(r, u) # Pending(q, v)
NextKeepsMatch == \A r \in Requests :
    requests[r].pc = "reset" =>
        \A t \in Movements : t \in requests[r].open =>
            requests[r].next[t].matched = requests[r].seen[t].matched

ReviewsMovement == \A r \in Requests :
    requests[r].op \in Reviews => requests[r].movement \in Movements

MatchInv == /\ TypeOK /\ ReviewsMovement
            /\ PaymentReconciledOnce /\ PendingFree /\ PendingDistinct
            /\ NextKeepsMatch

-----------------------------------------------------------------------------
(* Rows *)

LEMMA AbsentRowType == AbsentRow \in Row /\ NoRows \in [Movements -> Row]
  BY DEF AbsentRow, NoRows, Row, Statuses

LEMMA NoRequestType == NoRequest \in Request
  BY AbsentRowType DEF NoRequest, Request, Reviews

LEMMA ViewType ==
  ASSUME TypeOK, NEW r \in Requests, NEW t \in Movements
  PROVE  View(r, t) \in Row
  BY DEF TypeOK, View, Request

LEMMA UpdatedRow ==
  ASSUME NEW loaded \in Row, NEW new \in Row, NEW current \in Row
  PROVE  /\ Updated(loaded, new, current) \in Row
         /\ Updated(loaded, new, current).matched \in {new.matched, current.matched}
         /\ loaded.matched = new.matched
                => Updated(loaded, new, current).matched = current.matched
  BY DEF Updated, Written, Row

LEMMA DecidedRow ==
  ASSUME NEW row \in Row, NEW op \in Reviews
  PROVE  /\ Decided(op, row) \in Row
         /\ op = "dismiss" => Decided(op, row).matched = row.matched
         /\ op \in {"exclude", "reopen"} => Decided(op, row).matched = NoPayment
  BY DEF Decided, Reopened, Reviews, Row, Statuses

\* A suggestion changes no match.
LEMMA SuggestionRow ==
  ASSUME NEW row \in Row, NEW r \in Requests, NEW t \in Movements
  PROVE  Suggestion(r, t, row) \in Row /\ Suggestion(r, t, row).matched = row.matched
  <1>1. CASE Cardinality(Candidates(r, t)) = 1
    <2> DEFINE p == CHOOSE p \in Candidates(r, t) : TRUE
    <2>1. p \in Payments
      <3>1. Candidates(r, t) \subseteq Payments
        BY FitsAssumption DEF Candidates
      <3>2. Candidates(r, t) # {}
        BY <1>1, FS_EmptySet
      <3> QED BY <3>1, <3>2
    <2> HIDE DEF p
    <2>2. Suggestion(r, t, row) = [row EXCEPT !.status = "suggested", !.suggested = p]
      BY <1>1 DEF Suggestion, p
    <2> QED BY <2>1, <2>2 DEF Row, Statuses
  <1>2. CASE Cardinality(Candidates(r, t)) # 1
    BY <1>2 DEF Suggestion, Row, Statuses
  <1> QED BY <1>1, <1>2

-----------------------------------------------------------------------------
(* The two kinds of step *)

\* What a step that only changes the state of request r may add to the
\* versions it has flushed.
Flushes(r, req) == \A u \in req.locked :
    \/ u \in requests[r].locked /\ req.mine[u].matched = Pending(r, u)
    \/ req.mine[u].matched = NoPayment
    \/ /\ Free(r, {u})
       /\ req.mine[u].matched = rows[u].matched
    \/ /\ req.locked = {u}
       /\ PaymentFree(u, req.mine[u].matched)
       /\ PaymentSettled(r, req.mine[u].matched)

LEMMA FlushStep ==
  ASSUME MatchInv, NEW r \in Requests, NEW req \in Request, Flushes(r, req),
         requests' = [requests EXCEPT ![r] = req], rows' = rows
  PROVE  PaymentReconciledOnce' /\ PendingFree' /\ PendingDistinct'
  <1> USE DEF MatchInv
  <1>1. /\ requests'[r] = req
        /\ \A q \in Requests \ {r} : requests'[q] = requests[q]
        /\ \A q \in Requests : requests[q].locked \subseteq Movements
        /\ req.locked \subseteq Movements
    BY DEF TypeOK, Request
  <1>2. PaymentReconciledOnce'
    BY DEF PaymentReconciledOnce
  \* The flushed versions of the other requests against those of r.
  <1>3. ASSUME NEW u \in req.locked, req.mine[u].matched # NoPayment
        PROVE  /\ \A v \in Movements \ {u} : rows[v].matched # req.mine[u].matched
               /\ \A q \in Requests \ {r} : \A v \in requests[q].locked :
                    Pending(q, v) # req.mine[u].matched
    <2>1. CASE u \in requests[r].locked /\ req.mine[u].matched = Pending(r, u)
      BY <1>3, <2>1 DEF PendingFree, PendingDistinct
    <2>2. CASE Free(r, {u}) /\ req.mine[u].matched = rows[u].matched
      <3>1. \A v \in Movements \ {u} : rows[v].matched # rows[u].matched
        BY <1>1, <1>3, <2>2 DEF PaymentReconciledOnce
      <3>2. ASSUME NEW q \in Requests \ {r}, NEW v \in requests[q].locked
            PROVE  Pending(q, v) # rows[u].matched
        <4>1. u # v
          BY <2>2, <3>2 DEF Free
        <4>2. u \in Movements \ {v}
          BY <1>1, <4>1
        <4> QED BY <1>3, <2>2, <3>2, <4>2 DEF PendingFree
      <3> QED BY <2>2, <3>1, <3>2
    <2>3. CASE /\ PaymentFree(u, req.mine[u].matched)
               /\ PaymentSettled(r, req.mine[u].matched)
      BY <2>3 DEF PaymentFree, PaymentSettled, Pending
    <2> QED BY <1>3, <2>1, <2>2, <2>3 DEF Flushes
  <1>4. PendingFree'
    <2> SUFFICES ASSUME NEW q \in Requests, NEW u \in requests'[q].locked,
                        Pending(q, u)' # NoPayment
                 PROVE  \A v \in Movements \ {u} : rows[v].matched # Pending(q, u)'
      BY DEF PendingFree
    <2>1. CASE q = r
      BY <1>1, <1>3, <2>1 DEF Pending
    <2>2. CASE q # r
      BY <1>1, <2>2 DEF Pending, PendingFree
    <2> QED BY <2>1, <2>2
  <1>5. ASSUME NEW u \in req.locked, NEW v \in req.locked, u # v,
               req.mine[u].matched # NoPayment
        PROVE  req.mine[u].matched # req.mine[v].matched
    <2>1. u \in Movements /\ v \in Movements
      BY <1>1
    <2>2. CASE \/ Free(r, {v}) /\ req.mine[v].matched = rows[v].matched
               \/ req.mine[v].matched = NoPayment
      BY <1>3, <1>5, <2>1, <2>2
    <2>3. CASE v \in requests[r].locked /\ req.mine[v].matched = Pending(r, v)
      <3>1. CASE u \in requests[r].locked /\ req.mine[u].matched = Pending(r, u)
        BY <1>5, <2>3, <3>1 DEF PendingDistinct
      <3>2. CASE req.mine[u].matched = rows[u].matched
        BY <1>3, <1>5, <2>1, <3>2
      <3> QED BY <1>5, <3>1, <3>2 DEF Flushes
    <2> QED BY <1>5, <2>2, <2>3 DEF Flushes
  <1>6. PendingDistinct'
    <2> SUFFICES ASSUME NEW p \in Requests, NEW q \in Requests,
                        NEW u \in requests'[p].locked, NEW v \in requests'[q].locked,
                        p # q \/ u # v, Pending(p, u)' # NoPayment
                 PROVE  Pending(p, u)' # Pending(q, v)'
      BY DEF PendingDistinct
    <2>1. CASE p = r /\ q = r
      BY <1>1, <1>5, <2>1 DEF Pending
    <2>2. CASE p = r /\ q # r
      BY <1>1, <1>3, <2>2 DEF Pending
    <2>3. CASE p # r /\ q = r
      BY <1>1, <1>3, <2>3 DEF Pending
    <2>4. CASE p # r /\ q # r
      BY <1>1, <2>4 DEF Pending, PendingDistinct
    <2> QED BY <2>1, <2>2, <2>3, <2>4
  <1> QED BY <1>2, <1>4, <1>6

\* A step that ends request r and commits, for every row, no match, the
\* committed one or the flushed one.
LEMMA CommitStep ==
  ASSUME MatchInv, NEW r \in Requests, Close(r),
         \A t \in Movements :
            rows'[t].matched \in {NoPayment, rows[t].matched, View(r, t).matched}
  PROVE  PaymentReconciledOnce' /\ PendingFree' /\ PendingDistinct'
  <1> USE DEF MatchInv
  <1>1. /\ requests'[r].locked = {}
        /\ \A q \in Requests \ {r} : requests'[q] = requests[q]
        /\ \A q \in Requests : requests[q].locked \subseteq Movements
    BY DEF Close, NoRequest, TypeOK, Request
  <1>2. ASSUME NEW t \in Movements
        PROVE  \/ rows'[t].matched \in {NoPayment, rows[t].matched}
               \/ t \in requests[r].locked /\ rows'[t].matched = Pending(r, t)
    BY DEF View, Pending
  <1>3. PaymentReconciledOnce'
    <2> SUFFICES ASSUME NEW t \in Movements, NEW u \in Movements, t # u,
                        rows'[t].matched # NoPayment
                 PROVE  rows'[t].matched # rows'[u].matched
      BY DEF PaymentReconciledOnce
    <2>1. CASE rows'[t].matched = rows[t].matched /\ rows'[u].matched = rows[u].matched
      BY <2>1 DEF PaymentReconciledOnce
    <2>2. CASE rows'[t].matched = rows[t].matched /\ u \in requests[r].locked
               /\ rows'[u].matched = Pending(r, u)
      BY <2>2 DEF PendingFree
    <2>3. CASE rows'[u].matched = rows[u].matched /\ t \in requests[r].locked
               /\ rows'[t].matched = Pending(r, t)
      BY <2>3 DEF PendingFree
    <2>4. CASE t \in requests[r].locked /\ rows'[t].matched = Pending(r, t)
               /\ u \in requests[r].locked /\ rows'[u].matched = Pending(r, u)
      BY <2>4 DEF PendingDistinct
    <2> QED BY <1>2, <2>1, <2>2, <2>3, <2>4
  <1>4. PendingFree'
    <2> SUFFICES ASSUME NEW q \in Requests, NEW u \in requests'[q].locked,
                        Pending(q, u)' # NoPayment, NEW v \in Movements \ {u}
                 PROVE  rows'[v].matched # Pending(q, u)'
      BY DEF PendingFree
    <2>1. q # r /\ requests'[q] = requests[q]
      BY <1>1
    <2>2. Pending(q, u)' = Pending(q, u) /\ u \in requests[q].locked
      BY <2>1 DEF Pending
    <2>3. CASE rows'[v].matched \in {NoPayment, rows[v].matched}
      BY <2>2, <2>3 DEF PendingFree
    <2>4. CASE v \in requests[r].locked /\ rows'[v].matched = Pending(r, v)
      BY <2>1, <2>2, <2>4 DEF PendingDistinct
    <2> QED BY <1>2, <2>3, <2>4
  <1>5. PendingDistinct'
    BY <1>1 DEF PendingDistinct, Pending
  <1> QED BY <1>3, <1>4, <1>5

-----------------------------------------------------------------------------
(* Steps of the system *)

\* A step of request r that commits nothing.
Opens(r) == \E req \in Request :
    /\ Flushes(r, req)
    /\ req.op \in Reviews => req.movement \in Movements
    /\ req.pc = "reset" => \A t \in Movements : t \in req.open =>
            req.next[t].matched = req.seen[t].matched
    /\ requests' = [requests EXCEPT ![r] = req]
    /\ UNCHANGED <<rows, paid>>

\* A step that ends request r.
Closes(r) ==
    /\ Close(r)
    /\ rows' \in [Movements -> Row]
    /\ \A t \in Movements :
            rows'[t].matched \in {NoPayment, rows[t].matched, View(r, t).matched}
    /\ UNCHANGED paid

LEMMA OpensStep ==
  ASSUME MatchInv, NEW r \in Requests, Opens(r)
  PROVE  MatchInv'
  <1>1. PICK req \in Request :
          /\ Flushes(r, req)
          /\ req.op \in Reviews => req.movement \in Movements
          /\ req.pc = "reset" => \A t \in Movements : t \in req.open =>
                req.next[t].matched = req.seen[t].matched
          /\ requests' = [requests EXCEPT ![r] = req]
          /\ UNCHANGED <<rows, paid>>
    BY DEF Opens
  <1>2. PaymentReconciledOnce' /\ PendingFree' /\ PendingDistinct'
    BY <1>1, FlushStep
  <1>3. TypeOK'
    BY <1>1 DEF MatchInv, TypeOK
  <1>4. NextKeepsMatch' /\ ReviewsMovement'
    BY <1>1 DEF MatchInv, TypeOK, NextKeepsMatch, ReviewsMovement
  <1> QED BY <1>2, <1>3, <1>4 DEF MatchInv

LEMMA ClosesStep ==
  ASSUME MatchInv, NEW r \in Requests, Closes(r)
  PROVE  MatchInv'
  <1>1. PaymentReconciledOnce' /\ PendingFree' /\ PendingDistinct'
    BY CommitStep DEF Closes
  <1>2. TypeOK'
    BY NoRequestType DEF Closes, Close, MatchInv, TypeOK
  <1>3. NextKeepsMatch' /\ ReviewsMovement'
    BY DEF Closes, Close, MatchInv, TypeOK, NextKeepsMatch, ReviewsMovement, NoRequest, Reviews
  <1> QED BY <1>1, <1>2, <1>3 DEF MatchInv

LEMMA BeginImportOpens ==
  ASSUME MatchInv, NEW r \in Requests, NEW file \in SUBSET Movements, BeginImport(r, file)
  PROVE  Opens(r)
  <1> DEFINE req == [NoRequest EXCEPT !.op = "import", !.todo = file]
  <1>1. req \in Request /\ req.op = "import" /\ req.locked = {} /\ req.pc = "loaded"
    BY AbsentRowType DEF NoRequest, Request, Reviews
  <1>2. Flushes(r, req)
    BY <1>1 DEF Flushes
  <1> QED BY <1>1, <1>2 DEF BeginImport, Opens, Reviews

LEMMA ImportRowOpens ==
  ASSUME MatchInv, NEW r \in Requests, NEW t \in Movements, ImportRow(r, t)
  PROVE  Opens(r)
  <1> DEFINE req == requests[r]
             new == Suggestion(r, t, AbsentRow)
             skipped == [req EXCEPT !.todo = @ \ {t}]
             added == [req EXCEPT !.todo = @ \ {t}, !.locked = @ \cup {t}, !.mine[t] = new]
  <1>1. req \in Request /\ req.op = "import" /\ UNCHANGED <<rows, paid>>
    BY DEF MatchInv, TypeOK, ImportRow
  <1>2. new \in Row /\ new.matched = NoPayment
    BY SuggestionRow, AbsentRowType DEF AbsentRow
  <1> HIDE DEF new
  <1>3. requests' = [requests EXCEPT ![r] = skipped] \/ requests' = [requests EXCEPT ![r] = added]
    BY DEF ImportRow, new
  <1>4. CASE requests' = [requests EXCEPT ![r] = skipped]
    <2>1. skipped \in Request /\ skipped.op = "import" /\ Flushes(r, skipped)
      BY <1>1 DEF Request, Flushes, Pending
    <2>2. skipped.pc = "reset" => \A u \in Movements : u \in skipped.open =>
            skipped.next[u].matched = skipped.seen[u].matched
      BY <1>1 DEF MatchInv, NextKeepsMatch, Request
    <2> QED BY <1>1, <1>4, <2>1, <2>2 DEF Opens, Reviews
  <1>5. CASE requests' = [requests EXCEPT ![r] = added]
    <2>1. added \in Request /\ added.op = "import"
      BY <1>1, <1>2 DEF Request
    <2>2. /\ added.locked = req.locked \cup {t}
          /\ \A u \in Movements : added.mine[u] = IF u = t THEN new ELSE req.mine[u]
      BY <1>1 DEF Request
    <2>3. Flushes(r, added)
      BY <1>1, <1>2, <2>2 DEF Flushes, Pending, Request
    <2>4. added.pc = "reset" => \A u \in Movements : u \in added.open =>
            added.next[u].matched = added.seen[u].matched
      BY <1>1 DEF MatchInv, NextKeepsMatch, Request
    <2> QED BY <1>1, <1>5, <2>1, <2>3, <2>4 DEF Opens, Reviews
  <1> QED BY <1>3, <1>4, <1>5

LEMMA CommitImportCloses ==
  ASSUME MatchInv, NEW r \in Requests, CommitImport(r)
  PROVE  Closes(r)
  <1>1. \A t \in Movements : View(r, t) \in Row
    BY ViewType DEF MatchInv
  <1>2. rows' = rows \/ rows' = [t \in Movements |-> View(r, t)]
    BY DEF CommitImport
  <1> QED BY <1>1, <1>2 DEF CommitImport, Closes, MatchInv, TypeOK

LEMMA LoadOpens ==
  ASSUME MatchInv, NEW r \in Requests, NEW op \in Reviews, NEW t \in Movements, Load(r, op, t)
  PROVE  Opens(r)
  <1> DEFINE req == [NoRequest EXCEPT !.op = op, !.movement = t, !.seen[t] = rows[t]]
  <1>1. rows[t] \in Row
    BY DEF MatchInv, TypeOK
  <1>2. req \in Request /\ req.movement = t /\ req.locked = {} /\ req.pc = "loaded"
    BY <1>1, AbsentRowType DEF NoRequest, Request, Reviews
  <1>3. Flushes(r, req)
    BY <1>2 DEF Flushes
  <1> QED BY <1>2, <1>3 DEF Load, Opens

LEMMA CommitDecisionCloses ==
  ASSUME MatchInv, NEW r \in Requests, CommitDecision(r)
  PROVE  Closes(r)
  <1> DEFINE req == requests[r]
             t == req.movement
             new == Decided(req.op, req.seen[t])
  <1>1. CASE t \notin Movements
    <2>1. rows' = rows
      BY <1>1 DEF CommitDecision, MatchInv, TypeOK
    <2> QED BY <2>1 DEF CommitDecision, Closes, MatchInv, TypeOK
  <1>2. CASE t \in Movements
    <2>1. req.seen[t] \in Row /\ rows[t] \in Row /\ req.op \in {"dismiss", "exclude"}
      BY <1>2 DEF CommitDecision, MatchInv, TypeOK, Request
    <2>2. new \in Row /\ new.matched \in {NoPayment, req.seen[t].matched}
      BY <2>1, DecidedRow DEF Reviews
    <2>3. /\ Updated(req.seen[t], new, rows[t]) \in Row
          /\ Updated(req.seen[t], new, rows[t]).matched \in {NoPayment, rows[t].matched}
      BY <2>1, <2>2, UpdatedRow
    <2>4. rows' = [rows EXCEPT ![t] = Updated(req.seen[t], new, rows[t])]
      BY DEF CommitDecision
    <2> QED BY <1>2, <2>3, <2>4 DEF CommitDecision, Closes, MatchInv, TypeOK
  <1> QED BY <1>1, <1>2

LEMMA WriteDecisionOpens ==
  ASSUME MatchInv, NEW r \in Requests, WriteDecision(r)
  PROVE  Opens(r) \/ Closes(r)
  <1> DEFINE req == requests[r]
             t == req.movement
             new == Decided(req.op, req.seen[t])
             own == Updated(req.seen[t], new, rows[t])
             written == [req EXCEPT !.pc = "written", !.locked = {t}, !.seen[t] = new,
                                    !.mine[t] = own]
  <1>1. /\ req \in Request /\ req.op \in {"confirm", "reopen"}
        /\ t \in Movements
        /\ rows[t] \in Row /\ req.seen[t] \in Row
        /\ UNCHANGED <<rows, paid>>
    BY DEF WriteDecision, MatchInv, TypeOK, ReviewsMovement, Request, Reviews
  <1>2. new \in Row /\ (req.op = "reopen" => new.matched = NoPayment)
    BY <1>1, DecidedRow DEF Reviews
  <1>3. own \in Row /\ own.matched \in {new.matched, rows[t].matched}
    BY <1>1, <1>2, UpdatedRow
  <1>4. /\ Free(r, {t})
        /\ new.matched # NoPayment => PaymentSettled(r, new.matched)
        /\ \/ /\ new.matched # NoPayment => PaymentFree(t, new.matched)
              /\ requests' = [requests EXCEPT ![r] = written]
           \/ Close(r)
    BY DEF WriteDecision
  <1>5. CASE Close(r)
    BY <1>1, <1>5 DEF Closes, MatchInv, TypeOK
  <1>6. CASE /\ new.matched # NoPayment => PaymentFree(t, new.matched)
             /\ requests' = [requests EXCEPT ![r] = written]
    <2> HIDE DEF new, own
    <2>1. /\ written \in Request /\ written.pc = "written" /\ written.movement = t
          /\ written.locked = {t} /\ written.mine[t] = own
      BY <1>1, <1>2, <1>3 DEF Request
    <2>2. Flushes(r, written)
      BY <1>3, <1>4, <1>6, <2>1 DEF Flushes
    <2> QED BY <1>1, <1>6, <2>1, <2>2 DEF Opens
  <1> QED BY <1>4, <1>5, <1>6

LEMMA ScanOpens ==
  ASSUME MatchInv, NEW r \in Requests, Scan(r)
  PROVE  Opens(r)
  <1> DEFINE req == requests[r]
             open == OpenRows(r)
             seen == [t \in Movements |->
                        IF t \in OpenRows(r) \ {req.movement} THEN rows[t] ELSE req.seen[t]]
             scanned == [req EXCEPT !.pc = "scanned", !.open = open, !.seen = seen]
  <1>1. /\ req \in Request /\ (req.op \in Reviews => req.movement \in Movements)
        /\ open \in SUBSET Movements
        /\ seen \in [Movements -> Row]
    BY DEF MatchInv, TypeOK, ReviewsMovement, Request, OpenRows
  <1>2. UNCHANGED <<rows, paid>> /\ requests' = [requests EXCEPT ![r] = scanned]
    BY DEF Scan
  <1> HIDE DEF open, seen
  <1>3. /\ scanned \in Request /\ scanned.pc = "scanned"
        /\ scanned.op = req.op /\ scanned.movement = req.movement
        /\ scanned.locked = req.locked /\ scanned.mine = req.mine
    BY <1>1 DEF Request
  <1>4. Flushes(r, scanned)
    BY <1>3 DEF Flushes, Pending
  <1> QED BY <1>1, <1>2, <1>3, <1>4 DEF Opens

LEMMA ResetOpens ==
  ASSUME MatchInv, NEW r \in Requests, Reset(r)
  PROVE  Opens(r)
  <1> DEFINE req == requests[r]
             cleared(t) == [req.seen[t] EXCEPT !.status = "pending", !.suggested = NoPayment]
             changed == {t \in req.open : cleared(t) # req.seen[t]}
             seen == [t \in Movements |-> IF t \in req.open THEN cleared(t) ELSE req.seen[t]]
             mine == [t \in Movements |->
                        IF t \in changed
                        THEN Updated(req.seen[t], cleared(t), View(r, t)) ELSE req.mine[t]]
             cleaned == [req EXCEPT !.pc = "reset", !.todo = req.open,
                                    !.locked = @ \cup changed,
                                    !.seen = seen, !.next = seen, !.mine = mine]
  <1>1. /\ req \in Request /\ (req.op \in Reviews => req.movement \in Movements)
        /\ changed \in SUBSET Movements
    BY DEF MatchInv, TypeOK, ReviewsMovement, Request
  <1>2. ASSUME NEW t \in Movements
        PROVE  /\ cleared(t) \in Row
               /\ View(r, t) \in Row
               /\ Updated(req.seen[t], cleared(t), View(r, t)) \in Row
               /\ Updated(req.seen[t], cleared(t), View(r, t)).matched = View(r, t).matched
    <2>1. req.seen[t] \in Row /\ View(r, t) \in Row
      BY <1>1, ViewType DEF MatchInv, Request
    <2>2. cleared(t) \in Row /\ cleared(t).matched = req.seen[t].matched
      BY <2>1 DEF Row, Statuses
    <2> QED BY <2>1, <2>2, UpdatedRow
  <1>3. Free(r, changed) /\ UNCHANGED <<rows, paid>>
        /\ requests' = [requests EXCEPT ![r] = cleaned]
    BY DEF Reset
  <1>4. /\ seen \in [Movements -> Row] /\ mine \in [Movements -> Row]
        /\ \A t \in Movements : mine[t].matched =
                IF t \in changed THEN View(r, t).matched ELSE req.mine[t].matched
    BY <1>1, <1>2 DEF Request
  <1> HIDE DEF changed, seen, mine
  <1>5. /\ cleaned \in Request /\ cleaned.pc = "reset"
        /\ cleaned.op = req.op /\ cleaned.movement = req.movement
        /\ cleaned.locked = req.locked \cup changed /\ cleaned.mine = mine
        /\ cleaned.seen = seen /\ cleaned.next = seen
    BY <1>1, <1>4 DEF Request
  <1>6. Flushes(r, cleaned)
    <2> SUFFICES ASSUME NEW u \in req.locked \cup changed
                 PROVE  \/ u \in req.locked /\ mine[u].matched = Pending(r, u)
                        \/ Free(r, {u}) /\ mine[u].matched = rows[u].matched
      BY <1>5 DEF Flushes
    <2>1. u \in Movements
      BY <1>1 DEF Request
    <2>2. CASE u \in req.locked
      BY <1>4, <2>1, <2>2 DEF View, Pending
    <2>3. CASE u \in changed /\ u \notin req.locked
      BY <1>3, <1>4, <2>1, <2>3 DEF View, Free
    <2> QED BY <2>2, <2>3
  <1> QED BY <1>1, <1>3, <1>5, <1>6 DEF Opens

LEMMA SuggestOpens ==
  ASSUME MatchInv, NEW r \in Requests, NEW t \in Movements, Suggest(r, t)
  PROVE  Opens(r)
  <1> DEFINE req == requests[r]
             new == Suggestion(r, t, req.seen[t])
             computed == [req EXCEPT !.todo = @ \ {t}, !.next[t] = new]
  <1>1. /\ req \in Request /\ (req.op \in Reviews => req.movement \in Movements)
        /\ req.pc = "reset"
        /\ \A u \in Movements : u \in req.open => req.next[u].matched = req.seen[u].matched
    BY DEF MatchInv, TypeOK, ReviewsMovement, NextKeepsMatch, Suggest
  <1>2. new \in Row /\ new.matched = req.seen[t].matched
    BY <1>1, SuggestionRow DEF Request
  <1>3. UNCHANGED <<rows, paid>> /\ requests' = [requests EXCEPT ![r] = computed]
    BY DEF Suggest
  <1> HIDE DEF new
  <1>4. /\ computed \in Request
        /\ computed.op = req.op /\ computed.movement = req.movement
        /\ computed.locked = req.locked /\ computed.mine = req.mine
        /\ computed.open = req.open /\ computed.seen = req.seen
        /\ computed.next = [req.next EXCEPT ![t] = new]
    BY <1>1, <1>2 DEF Request
  <1>5. \A u \in Movements : u \in computed.open =>
            computed.next[u].matched = computed.seen[u].matched
    BY <1>1, <1>2, <1>4 DEF Request
  <1>6. Flushes(r, computed)
    BY <1>4 DEF Flushes, Pending
  <1> QED BY <1>1, <1>3, <1>4, <1>5, <1>6 DEF Opens

LEMMA CommitRefreshCloses ==
  ASSUME MatchInv, NEW r \in Requests, CommitRefresh(r)
  PROVE  Closes(r)
  <1> DEFINE req == requests[r]
             changed == {t \in req.open : req.next[t] # req.seen[t]}
  <1>1. req \in Request /\ changed \subseteq req.open
        /\ \A t \in Movements : t \in req.open => req.next[t].matched = req.seen[t].matched
    BY DEF CommitRefresh, MatchInv, TypeOK, NextKeepsMatch
  <1>2. ASSUME NEW t \in Movements
        PROVE  /\ View(r, t) \in Row
               /\ t \in changed =>
                    /\ Updated(req.seen[t], req.next[t], View(r, t)) \in Row
                    /\ Updated(req.seen[t], req.next[t], View(r, t)).matched
                            = View(r, t).matched
    <2>1. req.seen[t] \in Row /\ req.next[t] \in Row /\ View(r, t) \in Row
      BY <1>1, ViewType DEF MatchInv, Request
    <2> QED BY <1>1, <2>1, UpdatedRow
  <1>3. rows' = [t \in Movements |->
                IF t \in changed THEN Updated(req.seen[t], req.next[t], View(r, t))
                ELSE View(r, t)]
    BY DEF CommitRefresh
  <1> HIDE DEF changed
  <1> QED BY <1>2, <1>3 DEF CommitRefresh, Closes

LEMMA MatchInvInit == Init => MatchInv
  <1> SUFFICES ASSUME Init PROVE MatchInv
    OBVIOUS
  <1>1. TypeOK
    BY AbsentRowType, NoRequestType DEF Init, TypeOK
  <1> QED BY <1>1 DEF Init, MatchInv, ReviewsMovement, PaymentReconciledOnce, PendingFree,
          PendingDistinct, NextKeepsMatch, NoRequest, NoRows, AbsentRow, Reviews

LEMMA MatchInvStep == MatchInv /\ [Next]_vars => MatchInv'
  <1>1. ASSUME MatchInv, NEW r \in Requests, Import(r)
        PROVE  MatchInv'
    BY <1>1, BeginImportOpens, ImportRowOpens, CommitImportCloses, OpensStep, ClosesStep
       DEF Import
  <1>2. ASSUME MatchInv, NEW r \in Requests, Review(r)
        PROVE  MatchInv'
    BY <1>2, LoadOpens, CommitDecisionCloses, WriteDecisionOpens, ScanOpens, ResetOpens,
       SuggestOpens, CommitRefreshCloses, OpensStep, ClosesStep DEF Review
  <1>3. ASSUME MatchInv, NEW r \in Requests, Fail(r)
        PROVE  MatchInv'
    <2>1. Closes(r)
      BY <1>3 DEF Fail, Closes, MatchInv, TypeOK
    <2> QED BY <1>3, <2>1, ClosesStep
  <1>4. ASSUME MatchInv, NEW p \in Payments, RecordPayment(p)
        PROVE  MatchInv'
    BY <1>4 DEF RecordPayment, MatchInv, TypeOK, ReviewsMovement, PaymentReconciledOnce,
       PendingFree, PendingDistinct, NextKeepsMatch, Pending
  <1>5. ASSUME MatchInv, UNCHANGED vars
        PROVE  MatchInv'
    BY <1>5 DEF vars, MatchInv, TypeOK, ReviewsMovement, PaymentReconciledOnce,
       PendingFree, PendingDistinct, NextKeepsMatch, Pending
  <1> QED BY <1>1, <1>2, <1>3, <1>4, <1>5 DEF Next

\* Every reachable state is well typed, for any number of movements, payments
\* and overlapping requests.
THEOREM TypeCorrect == Spec => []TypeOK
  <1>1. MatchInv => TypeOK
    BY DEF MatchInv
  <1> QED BY <1>1, MatchInvInit, MatchInvStep, PTL DEF Spec

\* No interleaving of imports, reviews and rollbacks reconciles a payment
\* with two movements.
THEOREM PaymentReconciledOnceAlways == Spec => []PaymentReconciledOnce
  <1>1. MatchInv => PaymentReconciledOnce
    BY DEF MatchInv
  <1> QED BY <1>1, MatchInvInit, MatchInvStep, PTL DEF Spec

-----------------------------------------------------------------------------
(* Imports leave the decisions on movements alone, whatever overlaps *)

\* Only a confirmation or a reopening refreshes suggestions.
Staged == \A r \in Requests :
    requests[r].pc # "loaded" => requests[r].op \in {"confirm", "reopen"}
StagedInv == MatchInv /\ Staged

LEMMA StagedInit == Init => StagedInv
  BY MatchInvInit DEF Init, StagedInv, Staged, NoRequest

LEMMA StagedStep == StagedInv /\ [Next]_vars => StagedInv'
  <1> SUFFICES ASSUME StagedInv, [Next]_vars PROVE Staged'
    BY MatchInvStep DEF StagedInv
  <1> USE DEF StagedInv, MatchInv, TypeOK
  <1>0. \A r \in Requests : requests[r] \in Request
    OBVIOUS
  <1>1. ASSUME NEW r \in Requests, Close(r) PROVE Staged'
    BY <1>1 DEF Close, Staged, NoRequest
  <1>2. ASSUME NEW r \in Requests, NEW req, requests' = [requests EXCEPT ![r] = req],
               req.pc # "loaded" => req.op \in {"confirm", "reopen"}
        PROVE  Staged'
    BY <1>2 DEF Staged
  <1>3. ASSUME NEW r \in Requests, Import(r) PROVE Staged'
    <2>1. ASSUME NEW file \in SUBSET Movements, BeginImport(r, file) PROVE Staged'
      <3> DEFINE req == [NoRequest EXCEPT !.op = "import", !.todo = file]
      <3>1. req.pc = "loaded"
        BY DEF NoRequest
      <3> QED BY <1>2, <2>1, <3>1 DEF BeginImport
    <2>2. ASSUME NEW t \in Movements, ImportRow(r, t) PROVE Staged'
      <3>1. PICK req : /\ requests' = [requests EXCEPT ![r] = req]
                       /\ req.pc = requests[r].pc
        <4>1. CASE rows[t].status # "absent"
          <5> DEFINE req == [requests[r] EXCEPT !.todo = @ \ {t}]
          <5>1. requests' = [requests EXCEPT ![r] = req]
            BY <2>2, <4>1 DEF ImportRow
          <5>2. req.pc = requests[r].pc
            BY <1>0 DEF Request
          <5> QED BY <5>1, <5>2
        <4>2. CASE rows[t].status = "absent"
          <5> DEFINE new == Suggestion(r, t, AbsentRow)
                     req == [requests[r] EXCEPT !.todo = @ \ {t}, !.locked = @ \cup {t},
                                                !.mine[t] = new]
          <5>1. requests' = [requests EXCEPT ![r] = req]
            BY <2>2, <4>2 DEF ImportRow
          <5> HIDE DEF new
          <5>2. req.pc = requests[r].pc
            BY <1>0 DEF Request
          <5> QED BY <5>1, <5>2
        <4> QED BY <4>1, <4>2
      <3>2. requests[r].pc = "loaded"
        BY <2>2 DEF ImportRow, Staged
      <3> QED BY <1>2, <3>1, <3>2
    <2> QED BY <1>1, <1>3, <2>1, <2>2 DEF Import, CommitImport
  <1>4. ASSUME NEW r \in Requests, Review(r) PROVE Staged'
    <2>1. ASSUME NEW op \in Reviews, NEW t \in Movements, Load(r, op, t) PROVE Staged'
      <3> DEFINE req == [NoRequest EXCEPT !.op = op, !.movement = t, !.seen[t] = rows[t]]
      <3>1. req.pc = "loaded"
        BY DEF NoRequest
      <3> QED BY <1>2, <2>1, <3>1 DEF Load
    <2>2. ASSUME \/ WriteDecision(r) \/ Scan(r) \/ Reset(r)
                 \/ \E t \in Movements : Suggest(r, t),
                 ~Close(r)
          PROVE  Staged'
      <3>1. PICK req : /\ requests' = [requests EXCEPT ![r] = req]
                       /\ req.op = requests[r].op
        <4>1. \A pc, open, seen :
                [requests[r] EXCEPT !.pc = pc, !.open = open, !.seen = seen].op = requests[r].op
          BY <1>0 DEF Request
        <4>2. \A todo, t, new :
                [requests[r] EXCEPT !.todo = todo, !.next[t] = new].op = requests[r].op
          BY <1>0 DEF Request
        <4>4. CASE Scan(r)
          <5> DEFINE open == OpenRows(r)
                     seen == [t \in Movements |->
                                IF t \in OpenRows(r) \ {requests[r].movement} THEN rows[t]
                                ELSE requests[r].seen[t]]
          <5>1. requests' = [requests EXCEPT ![r] =
                  [requests[r] EXCEPT !.pc = "scanned", !.open = open, !.seen = seen]]
            <6>1. [requests[r] EXCEPT !.pc = "scanned", !.open = OpenRows(r),
                     !.seen = [t \in Movements |->
                        IF t \in OpenRows(r) \ {requests[r].movement} THEN rows[t] ELSE @[t]]]
                    = [requests[r] EXCEPT !.pc = "scanned", !.open = open, !.seen = seen]
              BY <1>0 DEF Request
            <6> QED BY <4>4, <6>1 DEF Scan
          <5> HIDE DEF open, seen
          <5>2. [requests[r] EXCEPT !.pc = "scanned", !.open = open, !.seen = seen].op
                  = requests[r].op
            BY <1>0 DEF Request
          <5> QED BY <5>1, <5>2
        <4>5. CASE \E t \in Movements : Suggest(r, t)
          <5>1. PICK t \in Movements : Suggest(r, t)
            BY <4>5
          <5> DEFINE new == Suggestion(r, t, requests[r].seen[t])
                     todo == requests[r].todo \ {t}
          <5>2. requests' = [requests EXCEPT ![r] =
                  [requests[r] EXCEPT !.todo = todo, !.next[t] = new]]
            BY <5>1 DEF Suggest
          <5> HIDE DEF new, todo
          <5> QED BY <4>2, <5>2
        <4>6. CASE Reset(r)
          <5> DEFINE req == requests[r]
                     cleared(t) == [req.seen[t] EXCEPT !.status = "pending",
                                                       !.suggested = NoPayment]
                     changed == {t \in req.open : cleared(t) # req.seen[t]}
                     locked == req.locked \cup changed
                     seen == [t \in Movements |->
                                IF t \in req.open THEN cleared(t) ELSE req.seen[t]]
                     mine == [t \in Movements |->
                                IF t \in changed
                                THEN Updated(req.seen[t], cleared(t), View(r, t))
                                ELSE req.mine[t]]
          <5>1. requests' = [requests EXCEPT ![r] =
                  [req EXCEPT !.pc = "reset", !.todo = req.open, !.locked = locked,
                              !.seen = seen, !.next = seen, !.mine = mine]]
            BY <4>6 DEF Reset
          <5> HIDE DEF locked, seen, mine
          <5>2. [req EXCEPT !.pc = "reset", !.todo = req.open, !.locked = locked,
                            !.seen = seen, !.next = seen, !.mine = mine].op = req.op
            BY <1>0 DEF Request
          <5> QED BY <5>1, <5>2
        <4>7. CASE WriteDecision(r)
          <5> DEFINE t == requests[r].movement
                     new == Decided(requests[r].op, requests[r].seen[t])
                     own == Updated(requests[r].seen[t], new, rows[t])
          <5>1. requests' = [requests EXCEPT ![r] =
                  [requests[r] EXCEPT !.pc = "written", !.locked = {t}, !.seen[t] = new,
                                      !.mine[t] = own]]
            BY <2>2, <4>7 DEF WriteDecision
          <5> HIDE DEF new, own
          <5>2. [requests[r] EXCEPT !.pc = "written", !.locked = {t}, !.seen[t] = new,
                                    !.mine[t] = own].op = requests[r].op
            BY <1>0 DEF Request
          <5> QED BY <5>1, <5>2
        <4> QED BY <2>2, <4>4, <4>5, <4>6, <4>7
      <3>2. requests[r].op \in {"confirm", "reopen"}
        BY <2>2 DEF WriteDecision, Scan, Reset, Suggest, Staged
      <3> QED BY <1>2, <3>1, <3>2
    <2> QED BY <1>1, <1>4, <2>1, <2>2 DEF Review, CommitDecision, CommitRefresh
  <1> QED BY <1>1, <1>3, <1>4 DEF Next, Fail, RecordPayment, Staged, vars

LEMMA StepKeepsDecisions ==
  ASSUME StagedInv, Next, NEW t \in Movements, rows[t].status # "absent", rows'[t] # rows[t]
  PROVE  \E r \in Requests : requests[r].op \in Reviews /\ requests'[r].op = "none"
  <1> USE DEF StagedInv, MatchInv, TypeOK
  <1>1. PICK r \in Requests : CommitImport(r) \/ CommitDecision(r) \/ CommitRefresh(r)
    BY DEF Next, RecordPayment, Import, BeginImport, ImportRow, Review, Load, WriteDecision,
       Scan, Reset, Suggest, Fail
  <1>2. requests'[r].op = "none"
    BY <1>1 DEF CommitImport, CommitDecision, CommitRefresh, Close, NoRequest
  <1>3. CASE CommitImport(r)
    BY <1>3 DEF CommitImport, FreshFingerprints, View
  <1>4. CASE CommitDecision(r) \/ CommitRefresh(r)
    <2>1. requests[r].op \in Reviews
      BY <1>4 DEF CommitDecision, CommitRefresh, Staged, Reviews
    <2> QED BY <1>2, <2>1
  <1> QED BY <1>1, <1>3, <1>4

\* Importing a statement again, at the same time as reviews or other imports,
\* changes no movement that is there: only a review that ends does.
THEOREM ImportsKeepDecisionsAlways == Spec => ImportsKeepDecisions
  <1> DEFINE Kept == \A t \in Movements :
        (rows[t].status # "absent" /\ rows'[t] # rows[t])
            => \E r \in Requests : requests[r].op \in Reviews /\ requests'[r].op = "none"
  <1>1. StagedInv /\ [Next]_vars => [Kept]_vars
    BY StepKeepsDecisions
  <1> QED BY <1>1, StagedInit, StagedStep, PTL DEF Spec, ImportsKeepDecisions
-----------------------------------------------------------------------------
(* One request at a time *)

\* No two requests are in flight at once: the assumption on the environment
\* under which rows and suggestions agree (ReconciledOnlyReopens is violated
\* without it: an exclusion may overlap a confirmation).
Alone == \A q, r \in Requests :
    (requests[q].op # "none" /\ requests[r].op # "none") => q = r

\* An open movement whose suggestion, if it has one, is none of `taken'.
Proposal(row, taken) ==
    /\ row.status \in OpenStatuses
    /\ row.matched = NoPayment
    /\ row.status = "suggested" => row.suggested \in Payments \ taken

\* The payments matched, as committed and as request r sees them.
Matched == {rows[u].matched : u \in Movements}
MatchedIn(r) == {View(r, u).matched : u \in Movements}

\* An import inserts movements with proposals.
Importing(r) == requests[r].op = "import" => \A t \in requests[r].locked :
    rows[t].status = "absent" /\ Proposal(requests[r].mine[t], Matched)

\* A review goes by the row that is stored.
Loaded(r) ==
    LET req == requests[r]
        t == req.movement
    IN  (req.op \in Reviews /\ req.pc = "loaded") =>
            t \in Movements /\ req.locked = {} /\ req.seen[t] = rows[t] /\ Allowed(req.op, t)

\* What a request that has flushed its decision sees of the movement it
\* reviews, and of the others: its refresh touches open movements only.
Decisive(r) ==
    LET req == requests[r]
        t == req.movement
    IN  req.pc # "loaded" =>
            /\ t \in req.locked
            /\ req.pc = "written" => req.locked = {t}
            /\ View(r, t) = req.seen[t]
            /\ \/ req.op = "confirm" /\ View(r, t).status = "reconciled"
                                     /\ View(r, t).matched \in Payments
               \/ req.op = "reopen" /\ Proposal(View(r, t), MatchedIn(r))
            /\ \A u \in Movements \ {t} :
                /\ View(r, u).matched = rows[u].matched
                /\ \/ View(r, u).status = rows[u].status
                   \/ View(r, u).status \in OpenStatuses /\ rows[u].status \in OpenStatuses

\* ... which goes by the rows it has loaded, and proposes free payments.
Refreshing(r) ==
    LET req == requests[r]
    IN  /\ req.pc \in {"scanned", "reset"} =>
            req.open = OpenRows(r) /\ \A t \in req.open : req.seen[t] = View(r, t)
        /\ req.pc = "reset" => \A t \in req.open : Proposal(req.next[t], MatchedIn(r))

Sound == \A r \in Requests : Importing(r) /\ Loaded(r) /\ Decisive(r) /\ Refreshing(r)
SoundInv == StagedInv /\ ReconciledIffMatched /\ SuggestionsAreFree /\ Sound
LEMMA SoundInit == Init => SoundInv
  <1> SUFFICES ASSUME Init PROVE SoundInv
    OBVIOUS
  <1>1. \A t \in Movements : rows[t] = AbsentRow
    BY DEF Init, NoRows
  <1>2. \A r \in Requests : requests[r].op = "none" /\ requests[r].pc = "loaded"
    BY DEF Init, NoRequest
  <1>3. ReconciledIffMatched /\ SuggestionsAreFree
    BY <1>1 DEF ReconciledIffMatched, SuggestionsAreFree, AbsentRow
  <1>4. Sound
    BY <1>2 DEF Sound, Importing, Loaded, Decisive, Refreshing, Reviews
  <1> QED BY <1>3, <1>4, StagedInit DEF SoundInv

\* A proposal is a free payment, or none.
LEMMA SuggestionProposes ==
  ASSUME NEW r \in Requests, NEW t \in Movements, NEW row \in Row, row.matched = NoPayment
  PROVE  Proposal(Suggestion(r, t, row), MatchedIn(r))
  <1>1. Suggestion(r, t, row).matched = NoPayment
    BY SuggestionRow
  <1>2. CASE Cardinality(Candidates(r, t)) = 1
    <2> DEFINE p == CHOOSE p \in Candidates(r, t) : TRUE
    <2>1. p \in Payments \ MatchedIn(r)
      <3>1. Candidates(r, t) \subseteq Payments \ MatchedIn(r)
        BY FitsAssumption DEF Candidates, MatchedIn
      <3>2. Candidates(r, t) # {}
        BY <1>2, FS_EmptySet
      <3> QED BY <3>1, <3>2
    <2> HIDE DEF p
    <2>2. Suggestion(r, t, row) = [row EXCEPT !.status = "suggested", !.suggested = p]
      BY <1>2 DEF Suggestion, p
    <2>3. Suggestion(r, t, row).status = "suggested" /\ Suggestion(r, t, row).suggested = p
      BY <2>2 DEF Row
    <2> QED BY <1>1, <2>1, <2>3 DEF Proposal, OpenStatuses
  <1>3. CASE Cardinality(Candidates(r, t)) # 1
    <2>1. Suggestion(r, t, row).status = "pending"
      BY <1>3 DEF Suggestion, Row
    <2> QED BY <1>1, <2>1 DEF Proposal, OpenStatuses
  <1> QED BY <1>2, <1>3

\* A step that changes one session, and no row, leaves the others sound.
LEMMA SessionStep ==
  ASSUME SoundInv, NEW r \in Requests, NEW req, requests' = [requests EXCEPT ![r] = req],
         rows' = rows, Importing(r)', Loaded(r)', Decisive(r)', Refreshing(r)'
  PROVE  ReconciledIffMatched' /\ SuggestionsAreFree' /\ Sound'
  <1>1. ReconciledIffMatched' /\ SuggestionsAreFree'
    BY DEF SoundInv, ReconciledIffMatched, SuggestionsAreFree
  <1>2. ASSUME NEW s \in Requests \ {r}
        PROVE  Importing(s)' /\ Loaded(s)' /\ Decisive(s)' /\ Refreshing(s)'
    <2>1. requests'[s] = requests[s]
      BY DEF SoundInv, StagedInv, MatchInv, TypeOK
    <2>2. \A u \in Movements : View(s, u)' = View(s, u)
      BY <2>1 DEF View
    <2>3. MatchedIn(s)' = MatchedIn(s) /\ OpenRows(s)' = OpenRows(s) /\ Matched' = Matched
      BY <2>2 DEF MatchedIn, OpenRows, Matched
    <2>4. Importing(s) /\ Loaded(s) /\ Decisive(s) /\ Refreshing(s)
      BY DEF SoundInv, Sound
    <2>5. Importing(s)'
      BY <2>1, <2>3, <2>4 DEF Importing
    <2>6. Loaded(s)'
      BY <2>1, <2>4 DEF Loaded, Allowed
    <2>7. Decisive(s)'
      <3>1. requests[s].pc # "loaded" => requests[s].movement \in Movements
        BY DEF SoundInv, StagedInv, Staged, MatchInv, ReviewsMovement, Reviews
      <3> QED BY <2>1, <2>2, <2>3, <2>4, <3>1 DEF Decisive
    <2>8. Refreshing(s)'
      <3>1. requests[s].open \subseteq Movements
        BY DEF SoundInv, StagedInv, MatchInv, TypeOK, Request
      <3> QED BY <2>1, <2>2, <2>3, <2>4, <3>1 DEF Refreshing
    <2> QED BY <2>5, <2>6, <2>7, <2>8
  <1> QED BY <1>1, <1>2 DEF Sound

\* When the one session in flight ends, none is left.
LEMMA SessionEnds ==
  ASSUME SoundInv, Alone, NEW r \in Requests, requests[r].op # "none", Close(r)
  PROVE  Sound'
  <1>1. \A s \in Requests : requests'[s].op = "none" /\ requests'[s].pc = "loaded"
    <2>1. requests'[r].op = "none" /\ requests'[r].pc = "loaded"
      BY DEF SoundInv, StagedInv, MatchInv, TypeOK, Close, NoRequest
    <2>2. ASSUME NEW s \in Requests \ {r}
          PROVE  requests'[s].op = "none" /\ requests'[s].pc = "loaded"
      <3>1. requests'[s] = requests[s]
        BY DEF SoundInv, StagedInv, MatchInv, TypeOK, Close
      <3>2. requests[s].op = "none"
        BY DEF Alone
      <3>3. requests[s].pc = "loaded"
        BY <3>2 DEF SoundInv, StagedInv, Staged
      <3> QED BY <3>1, <3>2, <3>3
    <2> QED BY <2>1, <2>2
  <1> QED BY <1>1 DEF Sound, Importing, Loaded, Decisive, Refreshing, Reviews

LEMMA Ends ==
  ASSUME SoundInv, Alone, NEW r \in Requests, requests[r].op # "none", Close(r), rows' = rows
  PROVE  ReconciledIffMatched' /\ SuggestionsAreFree' /\ Sound'
  BY SessionEnds DEF SoundInv, ReconciledIffMatched, SuggestionsAreFree

-----------------------------------------------------------------------------
(* Imports *)

LEMMA BeginImportSound ==
  ASSUME SoundInv, NEW r \in Requests, NEW file \in SUBSET Movements, BeginImport(r, file)
  PROVE  ReconciledIffMatched' /\ SuggestionsAreFree' /\ Sound'
  <1> DEFINE req == [NoRequest EXCEPT !.op = "import", !.todo = file]
  <1>1. requests' = [requests EXCEPT ![r] = req] /\ rows' = rows
    BY DEF BeginImport
  <1>2. req.op = "import" /\ req.pc = "loaded" /\ req.locked = {}
    BY DEF NoRequest
  <1>3. requests'[r] = req
    BY <1>1 DEF SoundInv, StagedInv, MatchInv, TypeOK
  <1> HIDE DEF req
  <1>4. Importing(r)' /\ Loaded(r)' /\ Decisive(r)' /\ Refreshing(r)'
    BY <1>2, <1>3 DEF Importing, Loaded, Decisive, Refreshing, Reviews
  <1> QED BY <1>1, <1>4, SessionStep

LEMMA ImportRowSound ==
  ASSUME SoundInv, NEW r \in Requests, NEW t \in Movements, ImportRow(r, t)
  PROVE  ReconciledIffMatched' /\ SuggestionsAreFree' /\ Sound'
  <1> USE DEF SoundInv, StagedInv, MatchInv, TypeOK
  <1>0. requests[r] \in Request /\ requests[r].op = "import" /\ rows' = rows
    BY DEF ImportRow
  <1>1. requests[r].pc = "loaded"
    BY <1>0 DEF Staged
  <1>2. ASSUME NEW req, requests' = [requests EXCEPT ![r] = req],
               req.op = "import", req.pc = "loaded", Importing(r)'
        PROVE  ReconciledIffMatched' /\ SuggestionsAreFree' /\ Sound'
    <2>1. requests'[r] = req
      BY <1>2
    <2>2. Loaded(r)' /\ Decisive(r)' /\ Refreshing(r)'
      BY <1>2, <2>1 DEF Loaded, Decisive, Refreshing, Reviews
    <2> QED BY ONLY <1>0, <1>2, <2>2, SessionStep, SoundInv, r \in Requests DEF SoundInv
  <1>3. CASE rows[t].status # "absent"
    <2> DEFINE req == [requests[r] EXCEPT !.todo = @ \ {t}]
    <2>1. requests' = [requests EXCEPT ![r] = req]
      BY <1>3 DEF ImportRow
    <2>2. req.op = "import" /\ req.pc = "loaded"
          /\ req.locked = requests[r].locked /\ req.mine = requests[r].mine
      BY <1>0, <1>1 DEF Request
    <2> HIDE DEF req
    <2>3. Importing(r)'
      BY <1>0, <2>1, <2>2 DEF Sound, Importing, Matched
    <2> QED BY <1>2, <2>1, <2>2, <2>3
  <1>4. CASE rows[t].status = "absent"
    <2> DEFINE new == Suggestion(r, t, AbsentRow)
               req == [requests[r] EXCEPT !.todo = @ \ {t}, !.locked = @ \cup {t},
                                          !.mine[t] = new]
    <2>1. requests' = [requests EXCEPT ![r] = req]
      BY <1>4 DEF ImportRow
    <2>2. Proposal(new, MatchedIn(r))
      BY AbsentRowType, SuggestionProposes DEF AbsentRow
    <2> HIDE DEF new
    <2>3. /\ req.op = "import" /\ req.pc = "loaded"
          /\ req.locked = requests[r].locked \cup {t}
          /\ req.mine = [requests[r].mine EXCEPT ![t] = new]
      BY <1>0, <1>1 DEF Request
    <2> HIDE DEF req
    \* What the import has inserted has no payment.
    <2>4. Matched \ {NoPayment} \subseteq MatchedIn(r)
      <3> SUFFICES ASSUME NEW u \in Movements, rows[u].matched # NoPayment
                   PROVE  rows[u].matched \in MatchedIn(r)
        BY DEF Matched
      <3>1. rows[u].status = "reconciled"
        BY DEF ReconciledIffMatched
      <3>2. u \notin requests[r].locked
        BY <1>0, <3>1 DEF Sound, Importing
      <3> QED BY <3>2 DEF View, MatchedIn
    <2>5. Proposal(new, Matched)
      BY <2>2, <2>4, DistinctNulls DEF Proposal
    <2>6. requests'[r] = req
      BY <2>1
    <2>7. \A u \in requests[r].locked : rows[u].status = "absent"
                                        /\ Proposal(requests[r].mine[u], Matched)
      BY <1>0 DEF Sound, Importing
    <2>8. \A u \in req.locked : rows[u].status = "absent" /\ Proposal(req.mine[u], Matched)
      <3> SUFFICES ASSUME NEW u \in req.locked
                   PROVE  rows[u].status = "absent" /\ Proposal(req.mine[u], Matched)
        OBVIOUS
      <3>0. requests[r].mine \in [Movements -> Row] /\ requests[r].locked \subseteq Movements
        BY <1>0 DEF Request
      <3>1. CASE u = t
        BY <1>4, <2>3, <2>5, <3>0, <3>1
      <3>2. CASE u # t
        <4>1. u \in requests[r].locked /\ req.mine[u] = requests[r].mine[u]
          BY <2>3, <3>0, <3>2
        <4> QED BY <2>7, <4>1
      <3> QED BY <3>1, <3>2
    <2>9. Matched' = Matched
      BY <1>0 DEF Matched
    <2>10. Importing(r)'
      BY <1>0, <2>6, <2>8, <2>9 DEF Importing
    <2> QED BY <1>2, <2>1, <2>3, <2>10
  <1> QED BY <1>3, <1>4

LEMMA CommitImportSound ==
  ASSUME SoundInv, Alone, NEW r \in Requests, CommitImport(r)
  PROVE  ReconciledIffMatched' /\ SuggestionsAreFree' /\ Sound'
  <1> USE DEF SoundInv, StagedInv, MatchInv, TypeOK
  <1>1. requests[r].op = "import" /\ Close(r)
    BY DEF CommitImport
  <1>2. CASE rows' = rows
    BY ONLY <1>1, <1>2, Ends, SoundInv, Alone, r \in Requests
  <1>3. CASE rows' = [t \in Movements |-> View(r, t)]
    <2>1. ASSUME NEW t \in Movements
          PROVE  \/ rows'[t] = rows[t]
                 \/ rows[t].status = "absent" /\ Proposal(rows'[t], Matched)
      BY <1>1, <1>3 DEF View, Sound, Importing
    <2>2. ReconciledIffMatched'
      BY <2>1 DEF ReconciledIffMatched, Proposal, OpenStatuses
    <2>3. ASSUME NEW t \in Movements, NEW u \in Movements, rows'[t].status = "suggested"
          PROVE  rows'[t].suggested # rows'[u].matched
      <3>1. rows'[t].suggested # NoPayment
        <4>1. CASE rows'[t] = rows[t]
          BY <2>3, <4>1 DEF ReconciledIffMatched, SuggestionsAreFree
        <4>2. CASE Proposal(rows'[t], Matched)
          BY <2>3, <4>2, DistinctNulls DEF Proposal
        <4> QED BY <2>1, <4>1, <4>2
      <3>2. rows'[u].matched \in {NoPayment, rows[u].matched}
        BY <2>1 DEF Proposal
      <3>3. rows'[t].suggested # rows[u].matched
        <4>1. CASE rows'[t] = rows[t]
          BY <2>3, <4>1 DEF SuggestionsAreFree
        <4>2. CASE Proposal(rows'[t], Matched)
          BY <2>3, <4>2 DEF Proposal, Matched
        <4> QED BY <2>1, <4>1, <4>2
      <3> QED BY <3>1, <3>2, <3>3
    <2>4. SuggestionsAreFree'
      BY <2>3 DEF SuggestionsAreFree
    <2>5. Sound'
      BY ONLY <1>1, SessionEnds, SoundInv, Alone, r \in Requests
    <2> QED BY <2>2, <2>4, <2>5
  <1> QED BY <1>2, <1>3 DEF CommitImport
-----------------------------------------------------------------------------
(* Reviews *)

\* An update of a row that is as it was loaded stores the new one.
LEMMA UpdatedAsLoaded ==
  ASSUME NEW loaded \in Row, NEW new \in Row
  PROVE  Updated(loaded, new, loaded) = new
  BY DEF Updated, Written, Row

\* What a decision makes of a row that allows it.
LEMMA DecisionOutcome ==
  ASSUME SoundInv, NEW op \in Reviews, NEW t \in Movements, Allowed(op, t)
  PROVE  LET new == Decided(op, rows[t])
         IN  /\ new \in Row
             /\ op = "confirm" => new.status = "reconciled" /\ new.matched \in Payments
             /\ op = "reopen" => \A taken : Proposal(new, taken)
             /\ op \in {"dismiss", "exclude"} =>
                    /\ new.status \notin OpenStatuses \cup {"reconciled"}
                    /\ new.matched = NoPayment
                    /\ rows[t].status # "reconciled"
  <1> DEFINE row == rows[t]
  <1>1. row \in Row /\ Decided(op, row) \in Row
    BY DecidedRow DEF SoundInv, StagedInv, MatchInv, TypeOK
  <1>2. row.status = "reconciled" <=> row.matched # NoPayment
    BY DEF SoundInv, ReconciledIffMatched
  <1>3. Allowed(op, t) =>
          /\ op = "confirm" => row.suggested # NoPayment
          /\ op = "dismiss" => row.status = "suggested"
          /\ op = "exclude" => row.status # "reconciled"
    BY DEF Allowed
  <1> HIDE DEF row
  <1>4. CASE op = "confirm"
    <2>1. Decided(op, row) = [row EXCEPT !.status = "reconciled", !.matched = row.suggested]
      BY <1>4 DEF Decided
    <2> QED BY <1>1, <1>3, <1>4, <2>1 DEF Row, row
  <1>5. CASE op = "dismiss"
    <2>1. Decided(op, row) = [row EXCEPT !.status = "dismissed", !.suggested = NoPayment]
      BY <1>5 DEF Decided
    <2> QED BY <1>1, <1>2, <1>3, <1>5, <2>1 DEF Row, OpenStatuses, row
  <1>6. CASE op = "exclude"
    <2>1. Decided(op, row) = [row EXCEPT !.status = "excluded", !.suggested = NoPayment,
                                         !.matched = NoPayment]
      BY <1>6 DEF Decided
    <2> QED BY <1>1, <1>2, <1>3, <1>6, <2>1 DEF Row, OpenStatuses, row
  <1>7. CASE op = "reopen"
    <2>1. Decided(op, row) = [row EXCEPT !.status = "pending", !.suggested = NoPayment,
                                         !.matched = NoPayment]
      BY <1>7 DEF Decided, Reopened
    <2> QED BY <1>1, <1>7, <2>1 DEF Row, OpenStatuses, Proposal, row
  <1> QED BY <1>4, <1>5, <1>6, <1>7 DEF Reviews

LEMMA LoadSound ==
  ASSUME SoundInv, NEW r \in Requests, NEW op \in Reviews, NEW t \in Movements,
         Load(r, op, t)
  PROVE  ReconciledIffMatched' /\ SuggestionsAreFree' /\ Sound'
  <1> DEFINE req == [NoRequest EXCEPT !.op = op, !.movement = t, !.seen[t] = rows[t]]
  <1>1. requests' = [requests EXCEPT ![r] = req] /\ rows' = rows /\ Allowed(op, t)
    BY DEF Load
  <1>2. /\ req.op = op /\ req.movement = t /\ req.pc = "loaded" /\ req.locked = {}
        /\ req.seen[t] = rows[t]
    BY DEF NoRequest, NoRows
  <1>3. requests'[r] = req
    BY <1>1 DEF SoundInv, StagedInv, MatchInv, TypeOK
  <1> HIDE DEF req
  <1>4. Allowed(op, t)'
    BY <1>1 DEF Allowed
  <1>5. Importing(r)' /\ Loaded(r)' /\ Decisive(r)' /\ Refreshing(r)'
    BY <1>1, <1>2, <1>3, <1>4 DEF Importing, Loaded, Decisive, Refreshing, Reviews, Allowed
  <1> QED BY <1>1, <1>5, SessionStep

LEMMA CommitDecisionSound ==
  ASSUME SoundInv, Alone, NEW r \in Requests, CommitDecision(r)
  PROVE  ReconciledIffMatched' /\ SuggestionsAreFree' /\ Sound'
  <1> USE DEF SoundInv, StagedInv, MatchInv, TypeOK
  <1> DEFINE t == requests[r].movement
             op == requests[r].op
             new == Decided(op, rows[t])
  <1>1. op \in {"dismiss", "exclude"} /\ Close(r)
    BY DEF CommitDecision
  <1>2. /\ t \in Movements /\ requests[r].seen[t] = rows[t] /\ Allowed(op, t)
        /\ requests[r].pc = "loaded"
    BY <1>1 DEF Sound, Loaded, Staged, Reviews
  <1>3. /\ new \in Row /\ new.status \notin OpenStatuses \cup {"reconciled"}
        /\ new.matched = NoPayment
    BY ONLY <1>1, <1>2, DecisionOutcome, SoundInv DEF Reviews
  <1>4. Updated(rows[t], new, rows[t]) = new
    BY <1>2, <1>3, UpdatedAsLoaded
  <1>5. rows' = [rows EXCEPT ![t] = new]
    BY <1>2, <1>4 DEF CommitDecision
  <1> HIDE DEF t, op, new
  <1>6. rows'[t] = new /\ \A u \in Movements \ {t} : rows'[u] = rows[u]
    BY <1>2, <1>5
  <1>7. ReconciledIffMatched'
    BY <1>3, <1>6 DEF ReconciledIffMatched
  <1>8. ASSUME NEW v \in Movements, NEW u \in Movements, rows'[v].status = "suggested"
        PROVE  rows'[v].suggested # rows'[u].matched
    <2>1. v # t /\ rows'[v] = rows[v]
      BY <1>3, <1>6, <1>8 DEF OpenStatuses
    <2>2. rows[v].matched = NoPayment
      BY <1>8, <2>1 DEF ReconciledIffMatched
    <2>3. rows[v].suggested # NoPayment
      BY <1>8, <2>1, <2>2 DEF SuggestionsAreFree
    <2> QED BY <1>3, <1>6, <1>8, <2>1, <2>3 DEF SuggestionsAreFree
  <1>9. SuggestionsAreFree'
    BY <1>8 DEF SuggestionsAreFree
  <1>10. Sound'
    <2>1. requests[r].op # "none"
      BY <1>1 DEF op
    <2> QED BY ONLY <1>1, <2>1, SessionEnds, SoundInv, Alone, r \in Requests
  <1> QED BY <1>7, <1>9, <1>10

LEMMA WriteDecisionSound ==
  ASSUME SoundInv, Alone, NEW r \in Requests, WriteDecision(r)
  PROVE  ReconciledIffMatched' /\ SuggestionsAreFree' /\ Sound'
  <1> USE DEF SoundInv, StagedInv, MatchInv, TypeOK
  <1> PICK t \in Movements : t = requests[r].movement
    BY DEF WriteDecision, ReviewsMovement, Reviews
  <1> DEFINE op == requests[r].op
             new == Decided(op, rows[t])
  <1>1. /\ op \in {"confirm", "reopen"} /\ requests[r].pc = "loaded"
        /\ requests[r] \in Request /\ rows' = rows
    BY DEF WriteDecision
  <1>2. /\ t \in Movements /\ requests[r].seen[t] = rows[t] /\ Allowed(op, t)
        /\ requests[r].locked = {}
    BY <1>1 DEF Sound, Loaded, Reviews
  <1>3. /\ new \in Row
        /\ op = "confirm" => new.status = "reconciled" /\ new.matched \in Payments
        /\ op = "reopen" => \A taken : Proposal(new, taken)
    BY ONLY <1>1, <1>2, DecisionOutcome, SoundInv DEF Reviews
  <1>4. Updated(rows[t], new, rows[t]) = new
    BY <1>2, <1>3, UpdatedAsLoaded
  <1>5. CASE Close(r)
    <2>1. op # "none"
      BY <1>1
    <2> QED BY ONLY <1>1, <1>5, <2>1, Ends, SoundInv, Alone, r \in Requests
  <1>6. CASE ~Close(r)
    <2> DEFINE req == [requests[r] EXCEPT !.pc = "written", !.locked = {t}, !.seen[t] = new,
                                          !.mine[t] = new]
    <2>1. requests' = [requests EXCEPT ![r] = req]
      BY <1>2, <1>4, <1>6 DEF WriteDecision
    <2> HIDE DEF new
    <2>2. /\ req.pc = "written" /\ req.op = op /\ req.movement = t /\ req.locked = {t}
          /\ req.seen[t] = new /\ req.mine[t] = new
      BY <1>1, <1>2 DEF Request
    <2> HIDE DEF req, op
    <2>3. requests'[r] = req
      BY <2>1
    <2>4. View(r, t)' = new /\ \A u \in Movements \ {t} : View(r, u)' = rows[u]
      BY <1>1, <2>2, <2>3 DEF View
    <2>5. Decisive(r)'
      <3>1. op = "confirm" \/ op = "reopen"
        BY <1>1
      <3> QED BY <1>1, <1>3, <2>2, <2>3, <2>4, <3>1 DEF Decisive
    <2>6. Importing(r)' /\ Loaded(r)' /\ Refreshing(r)'
      BY <1>1, <2>2, <2>3 DEF Importing, Loaded, Refreshing
    <2> QED BY ONLY <1>1, <2>1, <2>5, <2>6, SessionStep, SoundInv, r \in Requests
  <1> QED BY <1>5, <1>6

LEMMA ScanSound ==
  ASSUME SoundInv, NEW r \in Requests, Scan(r)
  PROVE  ReconciledIffMatched' /\ SuggestionsAreFree' /\ Sound'
  <1> USE DEF SoundInv, StagedInv, MatchInv, TypeOK
  <1> DEFINE t == requests[r].movement
             open == OpenRows(r)
             seen == [u \in Movements |->
                        IF u \in OpenRows(r) \ {requests[r].movement} THEN rows[u]
                        ELSE requests[r].seen[u]]
             req == [requests[r] EXCEPT !.pc = "scanned", !.open = open, !.seen = seen]
  <1>1. /\ requests[r].pc = "written" /\ requests[r] \in Request /\ rows' = rows
        /\ requests[r].op \in {"confirm", "reopen"}
    BY DEF Scan, Staged
  <1>2. requests' = [requests EXCEPT ![r] = req]
    <2>1. [requests[r] EXCEPT !.pc = "scanned", !.open = OpenRows(r),
             !.seen = [u \in Movements |->
                IF u \in OpenRows(r) \ {requests[r].movement} THEN rows[u] ELSE @[u]]] = req
      BY <1>1 DEF Request
    <2> QED BY <2>1 DEF Scan
  <1>3. \A u \in open : seen[u] = View(r, u)
    BY <1>1 DEF OpenRows, Sound, Decisive, View
  <1>4. t \in Movements /\ seen[t] = requests[r].seen[t]
    BY <1>1 DEF ReviewsMovement, Reviews
  <1>5. open \subseteq Movements
    BY DEF OpenRows
  <1> HIDE DEF seen, open
  <1>6. /\ req.pc = "scanned" /\ req.op = requests[r].op /\ req.movement = t
        /\ req.locked = requests[r].locked /\ req.mine = requests[r].mine
        /\ req.open = open /\ req.seen = seen
    BY <1>1 DEF Request
  <1> HIDE DEF req
  <1>7. requests'[r] = req
    BY <1>2
  <1>8. \A u \in Movements : View(r, u)' = View(r, u)
    BY <1>1, <1>6, <1>7 DEF View
  <1>9. OpenRows(r)' = open /\ MatchedIn(r)' = MatchedIn(r)
    BY <1>8 DEF OpenRows, open, MatchedIn
  <1>10. Decisive(r)'
    <2>1. Decisive(r)
      BY DEF Sound
    <2> QED BY <1>1, <1>4, <1>6, <1>7, <1>8, <1>9, <2>1 DEF Decisive
  <1>11. Refreshing(r)'
    BY <1>3, <1>5, <1>6, <1>7, <1>8, <1>9 DEF Refreshing
  <1>12. Importing(r)' /\ Loaded(r)'
    BY <1>1, <1>6, <1>7 DEF Importing, Loaded
  <1> QED BY ONLY <1>1, <1>2, <1>10, <1>11, <1>12, SessionStep, SoundInv, r \in Requests
\* No open movement of a refresh has a payment.
LEMMA OpenUnmatched ==
  ASSUME SoundInv, NEW r \in Requests, requests[r].pc # "loaded", NEW u \in OpenRows(r)
  PROVE  u \in Movements /\ View(r, u).matched = NoPayment
  <1>1. u \in Movements /\ View(r, u).status \in OpenStatuses
    BY DEF OpenRows
  <1>2. Decisive(r)
    BY DEF SoundInv, Sound
  <1>3. CASE u = requests[r].movement
    BY <1>1, <1>2, <1>3 DEF Decisive, Proposal, OpenStatuses
  <1>4. CASE u # requests[r].movement
    <2>1. View(r, u).matched = rows[u].matched /\ rows[u].status \in OpenStatuses
      BY <1>1, <1>2, <1>4 DEF Decisive
    <2> QED BY <1>1, <2>1 DEF SoundInv, ReconciledIffMatched, OpenStatuses
  <1> QED BY <1>1, <1>3, <1>4

LEMMA ResetSound ==
  ASSUME SoundInv, NEW r \in Requests, Reset(r)
  PROVE  ReconciledIffMatched' /\ SuggestionsAreFree' /\ Sound'
  <1> USE DEF SoundInv, StagedInv, MatchInv, TypeOK
  <1> PICK t \in Movements : t = requests[r].movement
    BY DEF Reset, Staged, ReviewsMovement, Reviews
  <1> DEFINE old == requests[r]
             cleared(u) == [old.seen[u] EXCEPT !.status = "pending", !.suggested = NoPayment]
             changed == {u \in old.open : cleared(u) # old.seen[u]}
             locked == old.locked \cup changed
             seen == [u \in Movements |-> IF u \in old.open THEN cleared(u) ELSE old.seen[u]]
             mine == [u \in Movements |->
                        IF u \in changed THEN Updated(old.seen[u], cleared(u), View(r, u))
                        ELSE old.mine[u]]
             req == [old EXCEPT !.pc = "reset", !.todo = old.open, !.locked = locked,
                                !.seen = seen, !.next = seen, !.mine = mine]
  <1>1. /\ old.pc = "scanned" /\ old \in Request /\ rows' = rows
        /\ old.op \in {"confirm", "reopen"}
    BY DEF Reset, Staged
  <1>2. requests' = [requests EXCEPT ![r] = req]
    BY DEF Reset
  <1>3. /\ old.open = OpenRows(r) /\ \A u \in old.open : old.seen[u] = View(r, u)
        /\ Decisive(r)
    BY <1>1 DEF Sound, Refreshing
  \* Every open row is cleared, whether or not that took a flush.
  <1>4. ASSUME NEW u \in old.open
        PROVE  /\ u \in Movements /\ cleared(u) \in Row
               /\ cleared(u).status = "pending" /\ cleared(u).matched = NoPayment
               /\ Updated(old.seen[u], cleared(u), View(r, u)) = cleared(u)
    <2>1. u \in Movements /\ View(r, u).matched = NoPayment
      BY ONLY <1>1, <1>3, <1>4, OpenUnmatched, SoundInv, r \in Requests
    <2>2. View(r, u) \in Row /\ old.seen[u] = View(r, u)
      BY <1>3, <2>1, ViewType
    <2>3. cleared(u) \in Row /\ cleared(u).status = "pending"
          /\ cleared(u).matched = NoPayment
      BY <2>1, <2>2 DEF Row, Statuses
    <2> QED BY <2>1, <2>2, <2>3, UpdatedAsLoaded
  <1>5. ASSUME NEW u \in Movements
        PROVE  (IF u \in locked THEN mine[u] ELSE rows[u])
                 = IF u \in old.open THEN cleared(u) ELSE View(r, u)
    <2>1. CASE u \in changed
      BY <1>4, <2>1
    <2>2. CASE u \notin changed
      <3>1. (IF u \in locked THEN mine[u] ELSE rows[u]) = View(r, u)
        BY <2>2 DEF View
      <3>2. u \in old.open => cleared(u) = View(r, u)
        BY <1>3, <2>2
      <3> QED BY <3>1, <3>2
    <2> QED BY <2>1, <2>2
  <1>6. old.locked \subseteq locked /\ \A u \in Movements :
            seen[u] = IF u \in old.open THEN cleared(u) ELSE old.seen[u]
    OBVIOUS
  <1> HIDE DEF cleared
  <1> HIDE DEF locked, seen, mine
  <1>7. /\ req.pc = "reset" /\ req.op = old.op /\ req.movement = t
        /\ req.locked = locked /\ req.mine = mine /\ req.open = old.open
        /\ req.seen = seen /\ req.next = seen
    BY <1>1 DEF Request
  <1> HIDE DEF req
  <1>8. requests'[r] = req
    BY <1>2
  <1>9. ASSUME NEW u \in Movements
        PROVE  View(r, u)' = IF u \in old.open THEN cleared(u) ELSE View(r, u)
    BY <1>1, <1>5, <1>7, <1>8 DEF View
  <1>10. \A u \in Movements :
            /\ u \in old.open <=> View(r, u)'.status \in OpenStatuses
            /\ View(r, u)'.matched = View(r, u).matched
    BY <1>1, <1>3, <1>4, <1>9, OpenUnmatched DEF OpenRows, OpenStatuses
  <1>11. OpenRows(r)' = old.open
    BY <1>3, <1>10 DEF OpenRows
  <1>12. Decisive(r)'
    <2>1. t \in locked /\ View(r, t) = old.seen[t]
      BY <1>1, <1>3, <1>6 DEF Decisive
    <2>2. View(r, t)' = seen[t]
      BY <1>6, <1>9, <2>1
    <2>3. ASSUME old.op = "confirm"
          PROVE  View(r, t)'.status = "reconciled" /\ View(r, t)'.matched \in Payments
      <3>1. View(r, t).status = "reconciled" /\ View(r, t).matched \in Payments
        BY <1>1, <1>3, <2>3 DEF Decisive
      <3>2. t \notin old.open
        BY <1>3, <3>1 DEF OpenRows, OpenStatuses
      <3> QED BY <1>9, <3>1, <3>2
    <2>4. ASSUME old.op = "reopen" PROVE Proposal(View(r, t)', MatchedIn(r)')
      <3>1. t \in old.open
        BY <1>1, <1>3, <2>4 DEF Decisive, Proposal, OpenRows
      <3> QED BY <1>4, <1>9, <3>1 DEF Proposal, OpenStatuses
    <2>5. ASSUME NEW u \in Movements \ {t}
          PROVE  /\ View(r, u)'.matched = rows[u].matched
                 /\ \/ View(r, u)'.status = rows[u].status
                    \/ View(r, u)'.status \in OpenStatuses /\ rows[u].status \in OpenStatuses
      <3>1. /\ View(r, u).matched = rows[u].matched
            /\ \/ View(r, u).status = rows[u].status
               \/ View(r, u).status \in OpenStatuses /\ rows[u].status \in OpenStatuses
        BY <1>1, <1>3 DEF Decisive
      <3>2. CASE u \in old.open
        <4>1. View(r, u).status \in OpenStatuses
          BY <1>3, <3>2 DEF OpenRows
        <4> QED BY <1>10, <3>1, <3>2, <4>1
      <3>3. CASE u \notin old.open
        BY <1>9, <3>1, <3>3
      <3> QED BY <3>2, <3>3
    <2>6. CASE old.op = "confirm"
      BY <1>1, <1>7, <1>8, <2>1, <2>2, <2>3, <2>5, <2>6 DEF Decisive
    <2>7. CASE old.op = "reopen"
      BY <1>1, <1>7, <1>8, <2>1, <2>2, <2>4, <2>5, <2>7 DEF Decisive
    <2> QED BY <1>1, <2>6, <2>7
  <1>13. Refreshing(r)'
    <2>1. \A u \in old.open : seen[u] = View(r, u)'
      BY <1>4, <1>6, <1>9
    <2>2. \A u \in old.open : Proposal(seen[u], MatchedIn(r)')
      BY <1>4, <1>6 DEF Proposal, OpenStatuses
    <2> QED BY <1>7, <1>8, <1>11, <2>1, <2>2 DEF Refreshing
  <1>14. Importing(r)' /\ Loaded(r)'
    BY <1>1, <1>7, <1>8 DEF Importing, Loaded
  <1> QED BY ONLY <1>1, <1>2, <1>12, <1>13, <1>14, SessionStep, SoundInv, r \in Requests

LEMMA SuggestSound ==
  ASSUME SoundInv, NEW r \in Requests, NEW t \in Movements, Suggest(r, t)
  PROVE  ReconciledIffMatched' /\ SuggestionsAreFree' /\ Sound'
  <1> USE DEF SoundInv, StagedInv, MatchInv, TypeOK
  <1> DEFINE old == requests[r]
             new == Suggestion(r, t, old.seen[t])
             req == [old EXCEPT !.todo = @ \ {t}, !.next[t] = new]
  <1>1. /\ old.pc = "reset" /\ old \in Request /\ rows' = rows
        /\ old.op \in {"confirm", "reopen"}
    BY DEF Suggest, Staged
  <1>2. requests' = [requests EXCEPT ![r] = req]
    BY DEF Suggest
  <1>3. /\ old.open = OpenRows(r) /\ \A u \in old.open : old.seen[u] = View(r, u)
        /\ \A u \in old.open : Proposal(old.next[u], MatchedIn(r))
        /\ Decisive(r)
    BY <1>1 DEF Sound, Refreshing
  <1>4. ASSUME t \in old.open
        PROVE  Proposal(new, MatchedIn(r))
    <2>1. View(r, t).matched = NoPayment
      BY ONLY <1>1, <1>3, <1>4, OpenUnmatched, SoundInv, r \in Requests
    <2>2. old.seen[t] \in Row /\ old.seen[t].matched = NoPayment
      BY <1>3, <1>4, <2>1, ViewType
    <2> QED BY <2>2, SuggestionProposes
  <1> HIDE DEF new
  <1>5. /\ req.pc = "reset" /\ req.op = old.op /\ req.movement = old.movement
        /\ req.locked = old.locked /\ req.mine = old.mine /\ req.open = old.open
        /\ req.seen = old.seen
        /\ \A u \in Movements : req.next[u] = IF u = t THEN new ELSE old.next[u]
    BY <1>1 DEF Request
  <1> HIDE DEF req
  <1>6. requests'[r] = req
    BY <1>2
  <1>7. \A u \in Movements : View(r, u)' = View(r, u)
    BY <1>1, <1>5, <1>6 DEF View
  <1>8. OpenRows(r)' = OpenRows(r) /\ MatchedIn(r)' = MatchedIn(r)
    BY <1>7 DEF OpenRows, MatchedIn
  <1>9. Decisive(r)'
    <2>1. old.movement \in Movements
      BY <1>1 DEF ReviewsMovement, Reviews
    <2> QED BY <1>1, <1>3, <1>5, <1>6, <1>7, <1>8, <2>1 DEF Decisive
  <1>10. Refreshing(r)'
    <2>1. old.open \subseteq Movements
      BY <1>1 DEF Request
    <2>2. \A u \in old.open : Proposal(req.next[u], MatchedIn(r))
      BY <1>3, <1>4, <1>5, <2>1
    <2> QED BY <1>3, <1>5, <1>6, <1>7, <1>8, <2>1, <2>2 DEF Refreshing
  <1>11. Importing(r)' /\ Loaded(r)'
    BY <1>1, <1>5, <1>6 DEF Importing, Loaded
  <1> QED BY ONLY <1>1, <1>2, <1>9, <1>10, <1>11, SessionStep, SoundInv, r \in Requests

\* What a refresh commits: its proposals for the open movements, what it
\* sees of the others.
LEMMA CommitRefreshRows ==
  ASSUME SoundInv, NEW r \in Requests, CommitRefresh(r)
  PROVE  /\ requests[r].open = OpenRows(r)
         /\ \A t \in Movements :
                rows'[t] = IF t \in requests[r].open THEN requests[r].next[t] ELSE View(r, t)
  <1> DEFINE old == requests[r]
             changed == {t \in old.open : old.next[t] # old.seen[t]}
  <1>1. old.pc = "reset" /\ old \in Request
    BY DEF CommitRefresh, SoundInv, StagedInv, MatchInv, TypeOK
  <1>2. old.open = OpenRows(r) /\ \A u \in old.open : old.seen[u] = View(r, u)
    BY <1>1 DEF SoundInv, Sound, Refreshing
  <1>3. rows' = [t \in Movements |->
            IF t \in changed THEN Updated(old.seen[t], old.next[t], View(r, t)) ELSE View(r, t)]
    BY DEF CommitRefresh
  <1>4. ASSUME NEW t \in Movements
        PROVE  rows'[t] = IF t \in old.open THEN old.next[t] ELSE View(r, t)
    <2>1. View(r, t) \in Row /\ old.next[t] \in Row
      BY <1>1, ViewType DEF SoundInv, StagedInv, MatchInv, Request
    <2>2. t \in old.open => Updated(old.seen[t], old.next[t], View(r, t)) = old.next[t]
      BY <1>2, <2>1, UpdatedAsLoaded
    <2> QED BY <1>2, <1>3, <2>2
  <1> QED BY <1>2, <1>4

LEMMA CommitRefreshSound ==
  ASSUME SoundInv, Alone, NEW r \in Requests, CommitRefresh(r)
  PROVE  ReconciledIffMatched' /\ SuggestionsAreFree' /\ Sound'
  <1> DEFINE old == requests[r]
  <1>1. /\ old.pc = "reset" /\ Close(r)
        /\ old.op \in {"confirm", "reopen"}
    BY DEF CommitRefresh, SoundInv, StagedInv, Staged
  <1>2. \A t \in Movements : View(r, t).matched # NoPayment <=> View(r, t).status = "reconciled"
    <2>1. Decisive(r)
      BY DEF SoundInv, Sound
    <2> SUFFICES ASSUME NEW t \in Movements
                 PROVE  View(r, t).matched # NoPayment <=> View(r, t).status = "reconciled"
      OBVIOUS
    <2>2. CASE t = old.movement
      BY <1>1, <2>1, <2>2, DistinctNulls DEF Decisive, Proposal, OpenStatuses
    <2>3. CASE t # old.movement
      BY <1>1, <2>1, <2>3 DEF Decisive, OpenStatuses, SoundInv, ReconciledIffMatched
    <2> QED BY <2>2, <2>3
  <1>3. \A t \in old.open : Proposal(old.next[t], MatchedIn(r)) /\ View(r, t).matched = NoPayment
    BY <1>1, OpenUnmatched, CommitRefreshRows DEF SoundInv, Sound, Refreshing
  <1>4. \A t \in Movements : rows'[t].matched = View(r, t).matched
    BY <1>3, CommitRefreshRows DEF Proposal
  <1>5. ReconciledIffMatched'
    <2> SUFFICES ASSUME NEW t \in Movements
                 PROVE  rows'[t].status = "reconciled" <=> rows'[t].matched # NoPayment
      BY DEF ReconciledIffMatched
    <2>1. CASE t \in old.open
      BY <1>3, <2>1, CommitRefreshRows DEF Proposal, OpenStatuses
    <2>2. CASE t \notin old.open
      BY <1>2, <2>2, CommitRefreshRows
    <2> QED BY <2>1, <2>2
  <1>6. SuggestionsAreFree'
    <2> SUFFICES ASSUME NEW t \in Movements, NEW u \in Movements, rows'[t].status = "suggested"
                 PROVE  rows'[t].suggested # rows'[u].matched
      BY DEF SuggestionsAreFree
    <2>1. t \in old.open
      BY CommitRefreshRows DEF OpenRows, OpenStatuses
    <2>2. rows'[t] = old.next[t]
      BY <2>1, CommitRefreshRows
    <2> QED BY <1>3, <1>4, <2>1, <2>2 DEF Proposal, MatchedIn
  <1>7. Sound'
    <2>1. old.op # "none"
      BY <1>1
    <2> QED BY ONLY <1>1, <2>1, SessionEnds, SoundInv, Alone, r \in Requests
  <1> QED BY <1>5, <1>6, <1>7

LEMMA SoundStep == SoundInv /\ Alone /\ [Next]_vars => SoundInv'
  <1> SUFFICES ASSUME SoundInv, Alone, [Next]_vars
               PROVE  ReconciledIffMatched' /\ SuggestionsAreFree' /\ Sound'
    BY StagedStep DEF SoundInv
  <1>1. ASSUME NEW r \in Requests, Import(r)
        PROVE  ReconciledIffMatched' /\ SuggestionsAreFree' /\ Sound'
    BY <1>1, BeginImportSound, ImportRowSound, CommitImportSound DEF Import
  <1>2. ASSUME NEW r \in Requests, Review(r)
        PROVE  ReconciledIffMatched' /\ SuggestionsAreFree' /\ Sound'
    BY <1>2, LoadSound, CommitDecisionSound, WriteDecisionSound, ScanSound, ResetSound,
       SuggestSound, CommitRefreshSound DEF Review
  <1>3. ASSUME NEW r \in Requests, Fail(r)
        PROVE  ReconciledIffMatched' /\ SuggestionsAreFree' /\ Sound'
    BY <1>3, Ends DEF Fail
  \* A payment recorded, or nothing at all, changes no row and no session.
  <1>4. ASSUME UNCHANGED <<rows, requests>>
        PROVE  ReconciledIffMatched' /\ SuggestionsAreFree' /\ Sound'
    <2>1. ReconciledIffMatched' /\ SuggestionsAreFree'
      BY <1>4 DEF SoundInv, ReconciledIffMatched, SuggestionsAreFree
    <2>2. ASSUME NEW r \in Requests
          PROVE  Importing(r)' /\ Loaded(r)' /\ Decisive(r)' /\ Refreshing(r)'
      <3>1. Importing(r) /\ Loaded(r) /\ Decisive(r) /\ Refreshing(r)
        BY DEF SoundInv, Sound
      <3>2. Importing(r)'
        BY <1>4, <3>1 DEF Importing, Matched
      <3>3. Loaded(r)'
        BY <1>4, <3>1 DEF Loaded, Allowed
      <3>4. Decisive(r)'
        BY <1>4, <3>1 DEF Decisive, View, MatchedIn
      <3>5. Refreshing(r)'
        BY <1>4, <3>1 DEF Refreshing, View, MatchedIn, OpenRows
      <3> QED BY <3>2, <3>3, <3>4, <3>5
    <2> QED BY <2>1, <2>2 DEF Sound
  <1> QED BY <1>1, <1>2, <1>3, <1>4 DEF Next, RecordPayment, vars

\* While requests do not overlap, a movement holds a payment exactly while
\* it is reconciled.
THEOREM ReconciledIffMatchedAlways == Spec /\ []Alone => []ReconciledIffMatched
  <1>1. SoundInv => ReconciledIffMatched
    BY DEF SoundInv
  <1> QED BY <1>1, SoundInit, SoundStep, PTL DEF Spec

\* While requests do not overlap, no suggestion offers a payment that has
\* been reconciled: every confirmation and reopening refreshes the others.
THEOREM SuggestionsAreFreeAlways == Spec /\ []Alone => []SuggestionsAreFree
  <1>1. SoundInv => SuggestionsAreFree
    BY DEF SoundInv
  <1> QED BY <1>1, SoundInit, SoundStep, PTL DEF Spec

LEMMA StepReopens ==
  ASSUME SoundInv, Next, NEW t \in Movements,
         rows[t].status = "reconciled", rows'[t].status # "reconciled"
  PROVE  \E r \in Requests : requests[r].op = "reopen" /\ requests[r].movement = t
  <1> USE DEF SoundInv, StagedInv, MatchInv, TypeOK
  <1>1. PICK r \in Requests : CommitImport(r) \/ CommitDecision(r) \/ CommitRefresh(r)
    BY DEF Next, RecordPayment, Import, BeginImport, ImportRow, Review, Load, WriteDecision,
       Scan, Reset, Suggest, Fail
  <1>2. CASE CommitImport(r)
    BY <1>2 DEF CommitImport, FreshFingerprints, View
  <1>3. CASE CommitDecision(r)
    <2>1. requests[r].op \in {"dismiss", "exclude"} /\ t = requests[r].movement
      BY <1>3 DEF CommitDecision
    <2>2. Allowed(requests[r].op, t)
      BY <1>3, <2>1 DEF Sound, Loaded, Staged, Reviews
    <2> QED BY ONLY <2>1, <2>2, DecisionOutcome, SoundInv, t \in Movements,
               rows[t].status = "reconciled" DEF Reviews
  <1>4. CASE CommitRefresh(r)
    <2>1. requests[r].pc # "loaded" /\ Decisive(r)
      BY <1>4 DEF CommitRefresh, Sound
    <2>2. rows'[t] = IF t \in OpenRows(r) THEN requests[r].next[t] ELSE View(r, t)
      BY <1>4, CommitRefreshRows
    <2>3. CASE requests[r].movement = t
      BY <2>1, <2>2, <2>3 DEF Decisive, OpenRows, OpenStatuses
    <2>4. CASE requests[r].movement # t
      BY <2>1, <2>2, <2>4 DEF Decisive, OpenRows, OpenStatuses
    <2> QED BY <2>3, <2>4
  <1> QED BY <1>1, <1>2, <1>3, <1>4

\* While requests do not overlap, a reconciliation ends only by reopening it.
THEOREM ReopensOnly == Spec /\ []Alone => ReconciledOnlyReopens
  <1> DEFINE Reopens == \A t \in Movements :
        (rows[t].status = "reconciled" /\ rows'[t].status # "reconciled")
            => \E r \in Requests : requests[r].op = "reopen" /\ requests[r].movement = t
  <1>1. SoundInv /\ [Next]_vars => [Reopens]_vars
    BY StepReopens
  <1> QED BY <1>1, SoundInit, SoundStep, PTL DEF Spec, ReconciledOnlyReopens
=============================================================================
