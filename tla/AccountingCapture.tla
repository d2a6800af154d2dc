-------------------------- MODULE AccountingCapture --------------------------
(***************************************************************************)
(* How rows get into the books of a company: ManualAccountingService       *)
(* (services/manual_accounting_service.py), AccountingFileImportService    *)
(* (services/accounting_file_import_service.py) and the party uploads of   *)
(* DataSourceService (services/data_source_service.py).                    *)
(*                                                                         *)
(* Requests run in threads of their own, each with a session that does not *)
(* flush before it queries: a look-up sees what others have committed and  *)
(* nothing the same request has only added. A row is looked up by its      *)
(* idempotency key in one step and inserted in a later one, where the      *)
(* unique constraint of its table has the last word.                       *)
(***************************************************************************)
EXTENDS Naturals, Sequences, FiniteSets

CONSTANTS
    Sources,        \* data sources, manual or for files
    Requests,       \* HTTP requests that may be in flight at once
    Forms,          \* payloads of manual captures, with their Idempotency-Key
    Labels,         \* codes, numbers and document numbers
    NoLabel,        \* the column is empty
    Files,          \* files that may be uploaded to an accounting profile
    Uploads,        \* sequences of the documents of party files
    Company,        \* source -> the company it belongs to
    Capabilities,   \* source -> the entities it may capture
    FileSources,    \* the sources of kind FILE_IMPORT
    MaxRows,        \* bound: rows in the tables
    MaxArrivals     \* bound: requests

Entities == {"tax", "item", "invoice", "payment", "journal"}

\* A file: the hash of its content, the entity of its profile, the label of
\* each row (of each group, for invoices and journals) in order, the label its
\* rows use to name another row, and whether payments carry a reference.
FileType == [content : STRING, entity : Entities, labels : Seq(Labels),
             names : Labels \cup {NoLabel}, referenced : BOOLEAN]

FormType == [source : Sources, entity : Entities, key : STRING,
             label : Labels \cup {NoLabel}]

ASSUME SourcesAssumption ==
    /\ FileSources \subseteq Sources
    /\ Capabilities \in [Sources -> SUBSET Entities]
    /\ DOMAIN Company = Sources
ASSUME LabelsAssumption == NoLabel \notin Labels
ASSUME FilesAssumption == /\ Forms \subseteq FormType /\ Files \subseteq FileType
                          /\ Uploads \subseteq Seq(Labels \cup {NoLabel})
ASSUME BoundsAssumption == MaxRows \in Nat /\ MaxArrivals \in Nat

VARIABLES
    rows,           \* the committed rows of all tables, by id
    requests,       \* what each request in flight has found and has to do
    batches,        \* import batches recorded
    answers,        \* history: which row each capture was answered with
    blind,          \* history: documents two look-ups missed before an insert
    arrivals        \* requests begun

vars == <<rows, requests, batches, answers, blind, arrivals>>

Ids == 1..MaxRows
NoKey == <<"none">>
ClientKey(k) == <<"client", k>>

\* The tables a row of an entity may reference.
Referenced(e) == CASE e = "item" -> {"tax"}
                   [] e = "invoice" -> {"party", "item", "tax"}
                   [] e = "payment" -> {"invoice"}
                   [] e = "journal" -> {"party"}
                   [] OTHER -> {}

NoRequest == [op |-> "none"]
Used == DOMAIN rows
NextId == Cardinality(Used) + 1
Room(n) == Cardinality(Used) + n <= MaxRows

RowsOf(s, e) == {i \in Used : rows[i].entity = e /\ Company[rows[i].source] = Company[s]}

\* _manual_source
Available(s, e) == e \in Capabilities[s]

\* _idempotent and _reject_existing
Existing(s, e, key) == {i \in Used : /\ rows[i].entity = e /\ rows[i].source = s
                                     /\ rows[i].key = key}

\* A mutant of Owned: _ensure_ids forgets the company.
Owned_AnyCompany(s, e, refs) ==
    refs \subseteq {i \in Used : rows[i].entity \in Referenced(e)}

\* _ensure_ids, once for each table the entity references
Owned(s, e, refs) == refs \subseteq UNION {RowsOf(s, t) : t \in Referenced(e)}

Inserted(i, e, s, key, refs, label) ==
    [j \in Used \cup {i} |->
        IF j = i THEN [entity |-> e, source |-> s, key |-> key, refs |-> refs,
                       label |-> label]
        ELSE rows[j]]

\* UniqueConstraint(company_id, data_source_id, idempotency_key)
KeyFree_Unchecked(s, e, key) == TRUE         \* mutant
KeyFree(s, e, key) == Existing(s, e, key) = {}

Arrive == arrivals < MaxArrivals /\ arrivals' = arrivals + 1

Init ==
    /\ rows = <<>>
    /\ requests = [r \in Requests |-> NoRequest]
    /\ batches = {}
    /\ answers = {}
    /\ blind = {}
    /\ arrivals = 0

-----------------------------------------------------------------------------
(* Manual capture: create_tax, create_item, create_invoice, create_payment, *)
(* create_journal_entry                                                     *)

Answer(form, i) == answers' = answers \cup {[form |-> form, id |-> i]}

\* A key that was used before: the row it created is the answer, whatever the
\* payload says this time.
AnswerExisting(form) ==
    /\ Arrive
    /\ Available(form.source, form.entity)
    /\ \E i \in Existing(form.source, form.entity, ClientKey(form.key)) : Answer(form, i)
    /\ UNCHANGED <<rows, requests, batches, blind>>

\* The key is new and the payload passes its checks.
BeginCapture(r, form, refs) ==
    /\ Arrive
    /\ requests[r] = NoRequest
    /\ Available(form.source, form.entity)
    /\ Existing(form.source, form.entity, ClientKey(form.key)) = {}
    /\ Owned(form.source, form.entity, refs)
    /\ requests' = [requests EXCEPT ![r] = [op |-> "capture", form |-> form, refs |-> refs]]
    /\ UNCHANGED <<rows, batches, answers, blind>>

\* The insert. When the constraint refuses it, the request ends in an error.
CommitCapture(r) ==
    LET q == requests[r]
        key == ClientKey(q.form.key)
    IN  /\ q.op = "capture"
        /\ IF KeyFree(q.form.source, q.form.entity, key)
           THEN /\ Room(1)
                /\ rows' = Inserted(NextId, q.form.entity, q.form.source, key, q.refs,
                                    q.form.label)
                /\ Answer(q.form, NextId)
           ELSE UNCHANGED <<rows, answers>>
        /\ requests' = [requests EXCEPT ![r] = NoRequest]
        /\ UNCHANGED <<batches, blind, arrivals>>

-----------------------------------------------------------------------------
(* File import: every row, or group of rows, is a transaction of its own *)

\* The keys of _single_rows, _grouped_invoices and _grouped_journals: an
\* invoice, or a payment with a reference, is known by its label; anything
\* else by the content of the file and its place or label in it.
Stable_Never(f) == FALSE     \* mutant
Stable(f) == f.entity = "invoice" \/ (f.entity = "payment" /\ f.referenced)
KeyOf(f, n) ==
    IF Stable(f) THEN <<"stable", f.entity, f.labels[n]>>
    ELSE <<"content", f.content, f.entity,
           IF f.entity = "journal" THEN f.labels[n] ELSE n>>

Imported(i) == rows[i].key[1] \in {"stable", "content"}

\* Only these are reported as rejected when they exist already.
RejectsExisting(f) == f.entity \in {"invoice", "payment"}

\* _party_id, _item_id, _tax_ids, _invoice_id: the rows a label may stand for.
\* A payment must name its invoice without ambiguity.
Matches(s, f) == {i \in UNION {RowsOf(s, t) : t \in Referenced(f.entity)} :
                     rows[i].label = f.names}
References(s, f) ==
    CASE f.names = NoLabel -> {{}}
      [] f.entity = "payment" /\ Cardinality(Matches(s, f)) > 1 -> {}
      [] OTHER -> {{i} : i \in Matches(s, f)}

BeginImport(r, s, f) ==
    /\ Arrive
    /\ requests[r] = NoRequest
    /\ s \in FileSources /\ Available(s, f.entity)
    /\ requests' = [requests EXCEPT ![r] =
           [op |-> "import", source |-> s, file |-> f, next |-> 1, refs |-> {},
            adding |-> FALSE, accepted |-> {}]]
    /\ UNCHANGED <<rows, batches, answers, blind>>

\* A mutant of LookUpRow: what cannot be resolved is counted as accepted.
LookUpRow_CountsAll(r) ==
    LET q == requests[r] IN
    /\ q.op = "import" /\ ~q.adding /\ q.next <= Len(q.file.labels)
    /\ IF References(q.source, q.file) = {}
       THEN requests' = [requests EXCEPT ![r] =
                [q EXCEPT !.next = @ + 1, !.accepted = @ \cup {q.next}]]
       ELSE \E refs \in References(q.source, q.file) :
                requests' = [requests EXCEPT ![r] = [q EXCEPT !.adding = TRUE, !.refs = refs]]
    /\ UNCHANGED <<rows, batches, answers, blind, arrivals>>

\* One row's look-ups: it is rejected, taken as imported already, or to be
\* inserted with the references it resolved to.
LookUpRow(r) ==
    LET q == requests[r]
        found == Existing(q.source, q.file.entity, KeyOf(q.file, q.next)) # {}
        rejected == [q EXCEPT !.next = @ + 1]
        accepted == [q EXCEPT !.next = @ + 1, !.accepted = @ \cup {q.next}]
    IN  /\ q.op = "import" /\ ~q.adding /\ q.next <= Len(q.file.labels)
        /\ requests' \in
             CASE found /\ RejectsExisting(q.file) -> {[requests EXCEPT ![r] = rejected]}
               [] References(q.source, q.file) = {} -> {[requests EXCEPT ![r] = rejected]}
               [] found -> {[requests EXCEPT ![r] = accepted]}
               [] OTHER -> {[requests EXCEPT ![r] = [q EXCEPT !.adding = TRUE, !.refs = refs]] :
                               refs \in References(q.source, q.file)}
        /\ UNCHANGED <<rows, batches, answers, blind, arrivals>>

\* The insert of one row. A refusal by the constraint is none of the errors the
\* loop rejects a row for: it ends the upload, without a batch.
CommitRow(r) ==
    LET q == requests[r]
        key == KeyOf(q.file, q.next)
    IN  /\ q.op = "import" /\ q.adding
        /\ IF KeyFree(q.source, q.file.entity, key)
           THEN /\ Room(1)
                /\ rows' = Inserted(NextId, q.file.entity, q.source, key, q.refs,
                                    q.file.labels[q.next])
                /\ requests' = [requests EXCEPT ![r] =
                       [q EXCEPT !.next = @ + 1, !.adding = FALSE,
                                 !.accepted = @ \cup {q.next}]]
           ELSE /\ rows' = rows
                /\ requests' = [requests EXCEPT ![r] = NoRequest]
        /\ UNCHANGED <<batches, answers, blind, arrivals>>

\* import_accounting records the batch in a transaction after the last row.
EndImport(r) ==
    LET q == requests[r] IN
    /\ q.op = "import" /\ ~q.adding /\ q.next > Len(q.file.labels)
    /\ batches' = batches \cup {[source |-> q.source, file |-> q.file,
                                 accepted |-> q.accepted]}
    /\ requests' = [requests EXCEPT ![r] = NoRequest]
    /\ UNCHANGED <<rows, answers, blind, arrivals>>

\* The process stops, or an unforeseen error ends the request.
Abandon(r) ==
    /\ requests[r].op # "none"
    /\ requests' = [requests EXCEPT ![r] = NoRequest]
    /\ UNCHANGED <<rows, batches, answers, blind, arrivals>>

-----------------------------------------------------------------------------
(* Parties: import_parties and capture_manual_party *)

PartiesNamed_OfSource(s, label) ==       \* mutant
    {i \in RowsOf(s, "party") : rows[i].label = label /\ rows[i].source = s}
PartiesNamed(s, label) ==
    IF label = NoLabel THEN {} ELSE {i \in RowsOf(s, "party") : rows[i].label = label}

\* Uploads of the company that have looked a document up and are yet to commit.
LookingUp(s, label) == {r \in Requests : /\ requests[r].op = "parties"
                                         /\ Company[requests[r].source] = Company[s]
                                         /\ \E n \in DOMAIN requests[r].labels :
                                                requests[r].labels[n] = label}

\* _upsert_party for every row: the look-ups. None of them sees a row that the
\* same upload is about to insert.
BeginParties(r, s, labels) ==
    /\ Arrive
    /\ requests[r] = NoRequest
    /\ s \in FileSources \/ Len(labels) = 1
    /\ \E found \in [DOMAIN labels -> Ids \cup {0}] :
           /\ \A n \in DOMAIN labels :
                 IF PartiesNamed(s, labels[n]) = {} THEN found[n] = 0
                 ELSE found[n] \in PartiesNamed(s, labels[n])
           /\ requests' = [requests EXCEPT ![r] =
                  [op |-> "parties", source |-> s, labels |-> labels, found |-> found,
                   taken |-> {i \in Used : /\ \E n \in DOMAIN labels : found[n] = i
                                           /\ rows[i].source # s}]]
    /\ blind' = blind \cup {labels[n] : n \in {m \in DOMAIN labels :
                               \/ LookingUp(s, labels[m]) # {}
                               \/ \E k \in 1..(m - 1) : labels[k] = labels[m]}}
    /\ UNCHANGED <<rows, batches, answers>>

\* The flush: rows found at another source go over to this one, the documents
\* not found are inserted.
CommitParties(r) ==
    LET q == requests[r]
        new == {n \in DOMAIN q.labels : q.found[n] = 0}
        IdOf(n) == NextId + Cardinality({m \in new : m < n})
        At(i) == CHOOSE n \in new : IdOf(n) = i
    IN  /\ q.op = "parties"
        /\ Room(Cardinality(new))
        /\ rows' = [i \in Used \cup {IdOf(n) : n \in new} |->
               IF i \notin Used
               THEN [entity |-> "party", source |-> q.source, key |-> NoKey, refs |-> {},
                     label |-> q.labels[At(i)]]
               ELSE IF i \in q.taken THEN [rows[i] EXCEPT !.source = q.source]
               ELSE rows[i]]
        /\ requests' = [requests EXCEPT ![r] = NoRequest]
        /\ UNCHANGED <<batches, answers, blind, arrivals>>

-----------------------------------------------------------------------------

Next ==
    \/ \E form \in Forms : AnswerExisting(form)
    \/ \E r \in Requests, form \in Forms, refs \in {{}} \cup {{i} : i \in Used} :
          BeginCapture(r, form, refs)
    \/ \E r \in Requests, s \in Sources, f \in Files : BeginImport(r, s, f)
    \/ \E r \in Requests, s \in Sources, labels \in Uploads : BeginParties(r, s, labels)
    \/ \E r \in Requests : \/ CommitCapture(r) \/ LookUpRow(r) \/ CommitRow(r)
                           \/ EndImport(r) \/ CommitParties(r) \/ Abandon(r)

Spec == Init /\ [][Next]_vars

-----------------------------------------------------------------------------
(* Properties *)

TypeOK ==
    /\ Used \subseteq Ids
    /\ \A i \in Used : rows[i].entity \in Entities \cup {"party"} /\ rows[i].source \in Sources
    /\ DOMAIN requests = Requests
    /\ \A r \in Requests : requests[r].op \in {"none", "capture", "import", "parties"}
    /\ blind \subseteq Labels \cup {NoLabel}
    /\ \A a \in answers : a.id \in Used

\* An idempotency key names one row: however requests with the same key, source
\* and entity overlap or repeat, all that are answered are answered with the
\* same row (ManualAccountingService._idempotent and the unique constraints).
OneAnswerPerKey ==
    \A a, b \in answers :
        (/\ a.form.source = b.form.source /\ a.form.entity = b.form.entity
         /\ a.form.key = b.form.key) => a.id = b.id

\* A row references only rows of its own company, of a table its entity may
\* reference, whatever identifiers a client sends and whichever row a label of
\* a file is resolved to (_ensure_ids).
ReferencesStayInCompany ==
    \A i \in Used : \A j \in rows[i].refs :
        /\ j \in Used
        /\ rows[j].entity \in Referenced(rows[i].entity)
        /\ Company[rows[j].source] = Company[rows[i].source]

\* An invoice that a file brought in is never brought in a second time by the
\* same source: not by the same file again, not by an edited one, not by two
\* uploads at once.
ImportedOnce ==
    \A i, j \in Used :
        (/\ rows[i].entity = "invoice" /\ rows[j].entity = "invoice"
         /\ rows[i].source = rows[j].source /\ rows[i].label = rows[j].label
         /\ Imported(i) /\ Imported(j)) => i = j

\* A batch says what the tables hold: each row of the file it counts as
\* accepted is stored exactly once, also when an earlier upload of the file
\* stopped half way or another ran beside it.
BatchesTellTheTruth ==
    \A b \in batches : \A n \in b.accepted :
        Cardinality(Existing(b.source, b.file.entity, KeyOf(b.file, n))) = 1

\* A document belongs to one party of a company, unless two look-ups missed it
\* before either inserted it: those of two uploads at once, or of two rows of
\* one upload, which does not flush in between.
PartyDocumentOnce ==
    \A i, j \in Used :
        (/\ rows[i].entity = "party" /\ rows[j].entity = "party"
         /\ rows[i].label = rows[j].label /\ rows[i].label \notin blind \cup {NoLabel}
         /\ Company[rows[i].source] = Company[rows[j].source]) => i = j

=============================================================================
