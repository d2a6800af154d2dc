----------------------- MODULE AccountingCaptureProofs -----------------------
(***************************************************************************)
(* What gets into the books, for any number of sources, companies, files,  *)
(* uploads, forms and requests.                                            *)
(*                                                                         *)
(* Each property speaks of the rows alone, and a request writes what it    *)
(* found when it looked. The invariant says what is still true of that     *)
(* when it commits: references it resolved belong to its company and rows  *)
(* it counted are stored (RequestSound, BatchesStored), and a document it  *)
(* did not find is not there, and is nobody else's to insert, unless two   *)
(* look-ups missed it (StillMissing, LookedUpOnce).                        *)
(***************************************************************************)
EXTENDS AccountingCapture, FiniteSetTheorems, SequenceTheorems, TLAPS

Labelled == Labels \cup {NoLabel}
Keys == {NoKey}
        \cup {"client"} \X STRING
        \cup {"stable"} \X Entities \X Labels
        \cup {"content"} \X STRING \X {"journal"} \X Labels
        \cup {"content"} \X STRING \X (Entities \ {"journal"}) \X Nat
Row == [entity : Entities \cup {"party"}, source : Sources, key : Keys,
        refs : SUBSET Ids, label : Labelled]

CaptureReq == [op : {"capture"}, form : Forms, refs : SUBSET Ids]
ImportReq == [op : {"import"}, source : Sources, file : Files, next : Nat \ {0},
              refs : SUBSET Ids, adding : BOOLEAN, accepted : SUBSET Nat]
PartiesReq(labels) == [op : {"parties"}, source : Sources, labels : {labels},
                       found : [DOMAIN labels -> Ids \cup {0}], taken : SUBSET Ids]
Busy == CaptureReq \cup ImportReq \cup UNION {PartiesReq(labels) : labels \in Uploads}

Typed ==
    /\ \E n \in 0..MaxRows : Used = 1..n
    /\ rows \in [Used -> Row]
    /\ requests \in [Requests -> Busy \cup {NoRequest}]
    /\ batches \subseteq [source : Sources, file : Files, accepted : SUBSET Nat]
    /\ answers \subseteq [form : Forms, id : Ids]
    /\ blind \subseteq Labelled

\* A key of a source names one row of a table.
KeysUnique ==
    \A i, j \in Used :
        (/\ rows[i].entity = rows[j].entity /\ rows[i].entity # "party"
         /\ rows[i].source = rows[j].source /\ rows[i].key = rows[j].key) => i = j

RefsOwned == \A i \in Used : Owned(rows[i].source, rows[i].entity, rows[i].refs)

\* An invoice that a file brought in is known by its number.
InvoicesNamed ==
    \A i \in Used : (rows[i].entity = "invoice" /\ Imported(i))
        => rows[i].key = <<"stable", "invoice", rows[i].label>>

RowsSound == KeysUnique /\ RefsOwned /\ InvoicesNamed /\ PartyDocumentOnce

\* The row of an answer is the one its key names, and what a batch counts is
\* stored.
Stored(s, f, n) == Existing(s, f.entity, KeyOf(f, n)) # {}
AnswersNamed ==
    \A a \in answers : a.id \in Existing(a.form.source, a.form.entity, ClientKey(a.form.key))
BatchesStored == \A b \in batches : \A n \in b.accepted : Stored(b.source, b.file, n)

\* What a request has found is still so: its references belong to its company,
\* the rows it counted are stored, the rows it takes over are parties of its
\* company, and the documents it missed are missing.
Documented(label) == label \notin blind \cup {NoLabel}
StillMissing(q) ==
    \A n \in DOMAIN q.labels :
        (q.found[n] = 0 /\ Documented(q.labels[n])) => PartiesNamed(q.source, q.labels[n]) = {}
RequestSound(q) ==
    /\ q.op = "capture" => Owned(q.form.source, q.form.entity, q.refs)
    /\ q.op = "import" => /\ Owned(q.source, q.file.entity, q.refs)
                          /\ q.adding => q.next <= Len(q.file.labels)
                          /\ \A n \in q.accepted : n \in 1..Len(q.file.labels)
                                                   /\ Stored(q.source, q.file, n)
    /\ q.op = "parties" => q.taken \subseteq RowsOf(q.source, "party") /\ StillMissing(q)
RequestsSound == \A r \in Requests : RequestSound(requests[r])

\* A document that no two look-ups missed is in one row of one upload.
Alone(p, q) ==
    \A m \in DOMAIN p.labels, n \in DOMAIN q.labels :
        ~(p.labels[m] = q.labels[n] /\ Documented(p.labels[m]))
LookedUpOnce ==
    \A r \in Requests : requests[r].op = "parties" =>
        /\ \A m, n \in DOMAIN requests[r].labels :
              (requests[r].labels[m] = requests[r].labels[n]
                  /\ Documented(requests[r].labels[m])) => m = n
        /\ \A s \in Requests \ {r} :
              (requests[s].op = "parties"
                  /\ Company[requests[s].source] = Company[requests[r].source])
              => Alone(requests[r], requests[s])

IInv ==
    /\ Typed /\ RowsSound /\ AnswersNamed /\ BatchesStored /\ RequestsSound /\ LookedUpOnce

-----------------------------------------------------------------------------
(* Values *)

LEMMA Kinds ==
  ASSUME NEW q \in Busy \cup {NoRequest}
  PROVE  /\ q.op = "capture" <=> q \in CaptureReq
         /\ q.op = "import" <=> q \in ImportReq
         /\ q.op = "parties" => /\ q.labels \in Uploads /\ q \in PartiesReq(q.labels)
                                /\ q.source \in Sources /\ q.taken \subseteq Ids
                                /\ q.found \in [DOMAIN q.labels -> Ids \cup {0}]
         /\ q.op \in {"none", "capture", "import", "parties"}
         /\ q = NoRequest <=> q.op = "none"
  <1>1. CASE q \in CaptureReq
    BY <1>1 DEF CaptureReq, ImportReq, NoRequest
  <1>2. CASE q \in ImportReq
    BY <1>2 DEF CaptureReq, ImportReq, NoRequest
  <1>3. ASSUME NEW labels \in Uploads, q \in PartiesReq(labels)
        PROVE  /\ q.op = "parties" /\ q.labels = labels
               /\ q.source \in Sources /\ q.taken \subseteq Ids
               /\ q.found \in [DOMAIN q.labels -> Ids \cup {0}]
    BY <1>3 DEF PartiesReq
  <1>4. CASE q = NoRequest
    BY <1>4 DEF CaptureReq, ImportReq, NoRequest
  <1>5. CASE q \in UNION {PartiesReq(labels) : labels \in Uploads}
    <2>1. PICK labels \in Uploads : q \in PartiesReq(labels)
      BY <1>5
    <2> QED BY <2>1, <1>3 DEF CaptureReq, ImportReq, NoRequest
  <1> QED BY <1>1, <1>2, <1>4, <1>5 DEF Busy

LEMMA FileFields ==
  ASSUME NEW f \in Files
  PROVE  /\ f.entity \in Entities /\ f.entity # "party" /\ f.content \in STRING
         /\ f.labels \in Seq(Labels) /\ Len(f.labels) \in Nat
         /\ \A n \in 1..Len(f.labels) : f.labels[n] \in Labels /\ KeyOf(f, n) \in Keys
         /\ f.entity = "invoice" => \A n : KeyOf(f, n) = <<"stable", "invoice", f.labels[n]>>
         /\ \A n : KeyOf(f, n)[1] \in {"stable", "content"}
  <1>1. f \in FileType
    BY FilesAssumption
  <1>2. f.entity \in Entities /\ f.content \in STRING /\ f.labels \in Seq(Labels)
    BY <1>1 DEF FileType
  <1>3. f.entity # "party"
    BY <1>2 DEF Entities
  <1>4. Len(f.labels) \in Nat /\ \A n \in 1..Len(f.labels) : f.labels[n] \in Labels
    BY <1>2, ElementOfSeq, LenProperties
  <1>5. ASSUME NEW n \in 1..Len(f.labels)
        PROVE  KeyOf(f, n) \in Keys
    <2>1. f.labels[n] \in Labels /\ n \in Nat
      BY <1>4
    <2>2. CASE Stable(f)
      BY <1>2, <2>1, <2>2 DEF KeyOf, Keys
    <2>3. CASE ~Stable(f) /\ f.entity = "journal"
      BY <1>2, <2>1, <2>3 DEF KeyOf, Keys
    <2>4. CASE ~Stable(f) /\ f.entity # "journal"
      BY <1>2, <2>1, <2>4 DEF KeyOf, Keys
    <2> QED BY <2>2, <2>3, <2>4
  <1>6. f.entity = "invoice" => \A n : KeyOf(f, n) = <<"stable", "invoice", f.labels[n]>>
    BY DEF KeyOf, Stable
  <1>7. \A n : KeyOf(f, n)[1] \in {"stable", "content"}
    BY DEF KeyOf
  <1> QED BY <1>2, <1>3, <1>4, <1>5, <1>6, <1>7

LEMMA FormFields ==
  ASSUME NEW form \in Forms
  PROVE  /\ form.source \in Sources /\ form.entity \in Entities /\ form.entity # "party"
         /\ form.label \in Labelled /\ form.key \in STRING
         /\ ClientKey(form.key) \in Keys /\ ClientKey(form.key)[1] = "client"
  <1>1. form \in FormType
    BY FilesAssumption
  <1> QED BY <1>1 DEF FormType, Entities, Labelled, ClientKey, Keys

LEMMA Rows ==
  ASSUME Typed
  PROVE  /\ Cardinality(Used) \in 0..MaxRows /\ Used = 1..Cardinality(Used)
         /\ NextId = Cardinality(Used) + 1 /\ NextId \notin Used
         /\ Used \subseteq Ids /\ IsFiniteSet(Used)
         /\ \A i \in Used : /\ rows[i] \in Row /\ rows[i].entity \in Entities \cup {"party"}
                            /\ rows[i].source \in Sources /\ rows[i].key \in Keys
                            /\ rows[i].refs \subseteq Ids /\ rows[i].label \in Labelled
  <1>1. PICK n \in 0..MaxRows : Used = 1..n
    BY DEF Typed
  <1>2. IsFiniteSet(1..n) /\ Cardinality(1..n) = n
    BY FS_Interval, BoundsAssumption
  <1>3. Cardinality(Used) = n
    BY <1>1, <1>2
  <1>4. \A i \in Used : rows[i] \in Row
    BY DEF Typed
  <1> QED BY <1>1, <1>2, <1>3, <1>4, BoundsAssumption DEF NextId, Ids, Row

-----------------------------------------------------------------------------
(* Rows stay *)

\* Rows are never deleted; only the source of a party changes, inside its
\* company.
Kept ==
    /\ Used \subseteq Used'
    /\ \A i \in Used :
          /\ rows'[i].entity = rows[i].entity /\ rows'[i].key = rows[i].key
          /\ rows'[i].refs = rows[i].refs /\ rows'[i].label = rows[i].label
          /\ Company[rows'[i].source] = Company[rows[i].source]
          /\ rows[i].entity # "party" => rows'[i].source = rows[i].source

LEMMA LookupsKept ==
  ASSUME Kept
  PROVE  /\ \A s, e : RowsOf(s, e) \subseteq RowsOf(s, e)'
         /\ \A s, e, refs : Owned(s, e, refs) => Owned(s, e, refs)'
         /\ \A s, e, key : e # "party" => Existing(s, e, key) \subseteq Existing(s, e, key)'
         /\ \A s, f, n : (f.entity # "party" /\ Stored(s, f, n)) => Stored(s, f, n)'
  <1>1. \A s, e : RowsOf(s, e) \subseteq RowsOf(s, e)'
    BY DEF Kept, RowsOf
  <1>2. \A s, e, refs : Owned(s, e, refs) => Owned(s, e, refs)'
    BY <1>1 DEF Owned
  <1>3. \A s, e, key : e # "party" => Existing(s, e, key) \subseteq Existing(s, e, key)'
    BY DEF Kept, Existing
  <1>4. \A s, f, n : (f.entity # "party" /\ Stored(s, f, n)) => Stored(s, f, n)'
    BY <1>3 DEF Stored
  <1> QED BY <1>1, <1>2, <1>3, <1>4

\* What a request has found is still so, but for the documents it missed.
LEMMA RequestKept ==
  ASSUME Kept, NEW q \in Busy \cup {NoRequest}, RequestSound(q),
         q.op = "parties" => StillMissing(q)'
  PROVE  RequestSound(q)'
  <1>1. CASE q.op = "capture"
    BY <1>1, LookupsKept DEF RequestSound
  <1>2. CASE q.op = "import"
    <2>1. q.file.entity # "party"
      BY <1>2, Kinds, FileFields DEF ImportReq
    <2> QED BY <1>2, <2>1, LookupsKept DEF RequestSound
  <1>3. CASE q.op = "parties"
    BY <1>3, LookupsKept DEF RequestSound
  <1> QED BY <1>1, <1>2, <1>3 DEF RequestSound

LEMMA AnswersKept ==
  ASSUME Typed, AnswersNamed, Kept, NEW a \in answers
  PROVE  a.id \in Existing(a.form.source, a.form.entity, ClientKey(a.form.key))'
  <1>1. a.form.entity # "party"
    BY FormFields DEF Typed
  <1> QED BY <1>1, LookupsKept DEF AnswersNamed

LEMMA BatchesKept ==
  ASSUME Typed, BatchesStored, Kept, batches' = batches
  PROVE  BatchesStored'
  <1> SUFFICES ASSUME NEW b \in batches, NEW n \in b.accepted
               PROVE  Stored(b.source, b.file, n)'
    BY DEF BatchesStored
  <1>1. b.file.entity # "party"
    BY FileFields DEF Typed
  <1> QED BY <1>1, LookupsKept DEF BatchesStored

\* A request that is not an upload of parties begins, goes on or ends.
LEMMA OneRequest ==
  ASSUME Typed, RequestsSound, LookedUpOnce, Kept, blind' = blind,
         NEW r \in Requests, NEW q \in Busy \cup {NoRequest}, q.op # "parties",
         requests' = [requests EXCEPT ![r] = q], RequestSound(q)',
         \A s \in Requests \ {r} : requests'[s].op = "parties" => StillMissing(requests[s])'
  PROVE  /\ requests' \in [Requests -> Busy \cup {NoRequest}]
         /\ RequestsSound' /\ LookedUpOnce'
  <1>1. /\ requests \in [Requests -> Busy \cup {NoRequest}]
        /\ requests' \in [Requests -> Busy \cup {NoRequest}]
        /\ requests'[r] = q
        /\ \A s \in Requests \ {r} : requests'[s] = requests[s]
    BY DEF Typed
  <1>2. RequestsSound'
    <2> SUFFICES ASSUME NEW s \in Requests
                 PROVE  RequestSound(requests[s])'
      BY DEF RequestsSound
    <2>1. CASE s = r
      BY <1>1, <2>1
    <2>2. CASE s # r
      <3>1. PICK old : old = requests[s]
        OBVIOUS
      <3>2. RequestSound(old) /\ old \in Busy \cup {NoRequest} /\ requests'[s] = old
        BY <1>1, <2>2, <3>1 DEF RequestsSound
      <3>3. old.op = "parties" => StillMissing(old)'
        BY <2>2, <3>2
      <3> QED BY <3>2, <3>3, RequestKept
    <2> QED BY <2>1, <2>2
  <1>3. LookedUpOnce'
    <2> SUFFICES ASSUME NEW s \in Requests, requests'[s].op = "parties"
                 PROVE  /\ \A m, n \in DOMAIN requests'[s].labels :
                              (requests'[s].labels[m] = requests'[s].labels[n]
                                  /\ Documented(requests[s].labels[m])') => m = n
                        /\ \A t \in Requests \ {s} :
                              (requests'[t].op = "parties"
                                  /\ Company[requests'[t].source] = Company[requests'[s].source])
                              => Alone(requests[s], requests[t])'
      BY DEF LookedUpOnce
    <2>1. s # r /\ requests'[s] = requests[s]
      BY <1>1
    <2>2. \A label : Documented(label)' <=> Documented(label)
      BY DEF Documented
    <2>3. ASSUME NEW t \in Requests \ {s}, requests'[t].op = "parties",
                 Company[requests'[t].source] = Company[requests'[s].source]
          PROVE  Alone(requests[s], requests[t])'
      <3>1. t # r /\ requests'[t] = requests[t]
        BY <1>1, <2>3
      <3>2. Alone(requests[s], requests[t])
        BY <2>1, <2>3, <3>1 DEF LookedUpOnce
      <3> QED BY <2>1, <2>2, <3>1, <3>2 DEF Alone
    <2> QED BY <2>1, <2>2, <2>3 DEF LookedUpOnce
  <1> QED BY <1>1, <1>2, <1>3

\* Nothing is written.
LEMMA SameRows ==
  ASSUME Typed, RowsSound, rows' = rows
  PROVE  /\ Kept
         /\ \A s, e : RowsOf(s, e)' = RowsOf(s, e)
         /\ \A s, e, refs : Owned(s, e, refs)' <=> Owned(s, e, refs)
         /\ \A s, e, key : Existing(s, e, key)' = Existing(s, e, key)
         /\ \A s, f, n : Stored(s, f, n)' <=> Stored(s, f, n)
         /\ \A s, label : PartiesNamed(s, label)' = PartiesNamed(s, label)
         /\ \E n \in 0..MaxRows : Used' = 1..n
         /\ rows' \in [Used' -> Row]
         /\ blind \subseteq blind' => RowsSound'
  <1>1. Used' = Used
    BY DEF Used
  <1>2. /\ \A s, e : RowsOf(s, e)' = RowsOf(s, e)
        /\ \A s, e, key : Existing(s, e, key)' = Existing(s, e, key)
    BY <1>1 DEF RowsOf, Existing
  <1>3. /\ \A s, e, refs : Owned(s, e, refs)' <=> Owned(s, e, refs)
        /\ \A s, f, n : Stored(s, f, n)' <=> Stored(s, f, n)
    BY <1>2 DEF Owned, Stored
  <1>4. \A s, label : PartiesNamed(s, label)' = PartiesNamed(s, label)
    BY <1>2 DEF PartiesNamed
  <1>5. ASSUME blind \subseteq blind'
        PROVE  RowsSound'
    <2>1. KeysUnique' /\ RefsOwned'
      BY <1>1, <1>3 DEF RowsSound, KeysUnique, RefsOwned
    <2>2. InvoicesNamed'
      BY <1>1 DEF RowsSound, InvoicesNamed, Imported
    <2>3. PartyDocumentOnce'
      BY <1>1, <1>5 DEF RowsSound, PartyDocumentOnce
    <2> QED BY <2>1, <2>2, <2>3 DEF RowsSound
  <1> QED BY <1>1, <1>2, <1>3, <1>4, <1>5 DEF Kept, Typed

LEMMA RequestOnly ==
  ASSUME IInv, rows' = rows, blind' = blind,
         NEW r \in Requests, NEW q \in Busy \cup {NoRequest}, q.op # "parties",
         requests' = [requests EXCEPT ![r] = q], RequestSound(q),
         batches' \subseteq [source : Sources, file : Files, accepted : SUBSET Nat],
         BatchesStored', UNCHANGED answers
  PROVE  IInv'
  <1>1. Typed /\ RowsSound /\ RequestsSound /\ LookedUpOnce /\ AnswersNamed
    BY DEF IInv
  <1>2. Kept /\ RowsSound' /\ (\E n \in 0..MaxRows : Used' = 1..n) /\ rows' \in [Used' -> Row]
    BY <1>1, SameRows
  <1>3. \A x : StillMissing(x) => StillMissing(x)'
    BY <1>1, SameRows DEF StillMissing, Documented
  <1>4. RequestSound(q)'
    BY <1>2, RequestKept
  <1>5. \A s \in Requests \ {r} : requests'[s].op = "parties" => StillMissing(requests[s])'
    <2> SUFFICES ASSUME NEW s \in Requests \ {r}, requests'[s].op = "parties"
                 PROVE  StillMissing(requests[s])'
      OBVIOUS
    <2>1. requests'[s] = requests[s]
      BY <1>1 DEF Typed
    <2>2. StillMissing(requests[s])
      BY <1>1, <2>1 DEF RequestsSound, RequestSound
    <2> QED BY <1>3, <2>1, <2>2
  <1>6. requests' \in [Requests -> Busy \cup {NoRequest}] /\ RequestsSound' /\ LookedUpOnce'
    BY <1>1, <1>2, <1>4, <1>5, OneRequest
  <1>7. AnswersNamed'
    BY <1>1, <1>2, AnswersKept DEF AnswersNamed
  <1> QED BY <1>1, <1>2, <1>6, <1>7 DEF IInv, Typed

-----------------------------------------------------------------------------
(* Requests that write nothing *)

LEMMA AnswerExistingKeeps ==
  ASSUME IInv, NEW form \in Forms, AnswerExisting(form)
  PROVE  IInv'
  <1>1. Typed /\ RowsSound /\ AnswersNamed /\ BatchesStored /\ RequestsSound /\ LookedUpOnce
    BY DEF IInv
  <1>2. UNCHANGED <<rows, requests, batches, blind>>
    BY DEF AnswerExisting
  <1>3. PICK i \in Existing(form.source, form.entity, ClientKey(form.key)) :
            answers' = answers \cup {[form |-> form, id |-> i]}
    BY DEF AnswerExisting, Answer
  <1>4. Kept /\ RowsSound' /\ (\E n \in 0..MaxRows : Used' = 1..n) /\ rows' \in [Used' -> Row]
    BY <1>1, <1>2, SameRows
  <1>5. AnswersNamed'
    BY <1>1, <1>2, <1>3 DEF AnswersNamed, Existing, Used
  <1>6. BatchesStored' /\ RequestsSound' /\ LookedUpOnce'
    <2>1. Used' = Used
      BY <1>2 DEF Used
    <2>2. BatchesStored'
      BY <1>1, <1>2, <1>4, BatchesKept
    <2>3. \A s, label : PartiesNamed(s, label)' = PartiesNamed(s, label)
      BY <1>1, <1>2, SameRows
    <2>4. RequestsSound'
      <3> SUFFICES ASSUME NEW s \in Requests
                   PROVE  RequestSound(requests[s])'
        BY DEF RequestsSound
      <3>1. PICK q : q = requests[s]
        OBVIOUS
      <3>2. q \in Busy \cup {NoRequest} /\ RequestSound(q) /\ requests'[s] = q
        BY <1>1, <1>2, <3>1 DEF Typed, RequestsSound
      <3>3. q.op = "parties" => StillMissing(q)'
        BY <1>2, <2>3, <3>2 DEF RequestSound, StillMissing, Documented
      <3> QED BY <1>4, <3>2, <3>3, RequestKept
    <2>5. LookedUpOnce'
      BY <1>1, <1>2 DEF LookedUpOnce, Alone, Documented
    <2> QED BY <2>2, <2>4, <2>5
  <1>7. i \in Ids
    BY <1>1, <1>3, Rows DEF Existing
  <1>8. Typed'
    BY <1>1, <1>2, <1>3, <1>4, <1>7 DEF Typed
  <1> QED BY <1>4, <1>5, <1>6, <1>8 DEF IInv

LEMMA OwnedIds ==
  ASSUME Typed, NEW s, NEW e, NEW refs, Owned(s, e, refs)
  PROVE  refs \subseteq Ids
  BY Rows DEF Owned, RowsOf

LEMMA BeginCaptureKeeps ==
  ASSUME IInv, NEW r \in Requests, NEW form \in Forms, NEW refs, BeginCapture(r, form, refs)
  PROVE  IInv'
  <1> DEFINE q == [op |-> "capture", form |-> form, refs |-> refs]
  <1>1. Owned(form.source, form.entity, refs) /\ requests' = [requests EXCEPT ![r] = q]
        /\ UNCHANGED <<rows, batches, answers, blind>>
    BY DEF BeginCapture
  <1>2. q \in Busy /\ q.op # "parties"
    BY <1>1, OwnedIds DEF IInv, Busy, CaptureReq
  <1>3. RequestSound(q)
    BY <1>1 DEF RequestSound
  <1>4. batches' \subseteq [source : Sources, file : Files, accepted : SUBSET Nat] /\ BatchesStored'
    BY <1>1, SameRows, BatchesKept DEF IInv, Typed
  <1> HIDE DEF q
  <1> QED BY <1>1, <1>2, <1>3, <1>4, RequestOnly

LEMMA BeginImportKeeps ==
  ASSUME IInv, NEW r \in Requests, NEW s \in Sources, NEW f \in Files, BeginImport(r, s, f)
  PROVE  IInv'
  <1> DEFINE q == [op |-> "import", source |-> s, file |-> f, next |-> 1, refs |-> {},
                   adding |-> FALSE, accepted |-> {}]
  <1>1. requests' = [requests EXCEPT ![r] = q] /\ UNCHANGED <<rows, batches, answers, blind>>
    BY DEF BeginImport
  <1>2. q \in Busy /\ q.op # "parties"
    BY DEF Busy, ImportReq
  <1>3. RequestSound(q)
    BY DEF RequestSound, Owned
  <1>4. batches' \subseteq [source : Sources, file : Files, accepted : SUBSET Nat] /\ BatchesStored'
    BY <1>1, SameRows, BatchesKept DEF IInv, Typed
  <1> HIDE DEF q
  <1> QED BY <1>1, <1>2, <1>3, <1>4, RequestOnly

\* The request of an upload of accounting rows.
LEMMA Importing ==
  ASSUME IInv, NEW r \in Requests, requests[r].op = "import"
  PROVE  LET q == requests[r] IN
         /\ q \in ImportReq /\ q.source \in Sources /\ q.file \in Files
         /\ q.next \in Nat \ {0} /\ q.refs \subseteq Ids /\ q.accepted \subseteq Nat
         /\ q.adding \in BOOLEAN
         /\ Owned(q.source, q.file.entity, q.refs)
         /\ q.adding => q.next <= Len(q.file.labels)
         /\ \A n \in q.accepted : n \in 1..Len(q.file.labels) /\ Stored(q.source, q.file, n)
  <1>1. requests[r] \in ImportReq
    BY Kinds DEF IInv, Typed
  <1>2. RequestSound(requests[r])
    BY DEF IInv, RequestsSound
  <1> QED BY <1>1, <1>2 DEF ImportReq, RequestSound

LEMMA ReferencesOwned ==
  ASSUME NEW s, NEW f, NEW refs \in References(s, f)
  PROVE  Owned(s, f.entity, refs)
  BY DEF References, Matches, Owned

LEMMA LookUpRowKeeps ==
  ASSUME IInv, NEW r \in Requests, LookUpRow(r)
  PROVE  IInv'
  <1> DEFINE q == requests[r]
             rejected == [q EXCEPT !.next = @ + 1]
             accepted == [q EXCEPT !.next = @ + 1, !.accepted = @ \cup {q.next}]
             adding(refs) == [q EXCEPT !.adding = TRUE, !.refs = refs]
  <1>1. q.op = "import" /\ ~q.adding /\ q.next <= Len(q.file.labels)
        /\ UNCHANGED <<rows, batches, answers, blind>>
    BY DEF LookUpRow
  <1>2. /\ q \in ImportReq /\ q.source \in Sources /\ q.file \in Files
        /\ q.next \in Nat \ {0} /\ q.refs \subseteq Ids /\ q.accepted \subseteq Nat
        /\ Owned(q.source, q.file.entity, q.refs)
        /\ \A n \in q.accepted : n \in 1..Len(q.file.labels) /\ Stored(q.source, q.file, n)
    BY <1>1, Importing
  <1>3. Len(q.file.labels) \in Nat
    BY <1>2, FileFields
  <1>4. batches' \subseteq [source : Sources, file : Files, accepted : SUBSET Nat] /\ BatchesStored'
    BY <1>1, SameRows, BatchesKept DEF IInv, Typed
  <1>5. CASE requests' = [requests EXCEPT ![r] = rejected]
    <2>1. rejected \in ImportReq
      BY <1>2 DEF ImportReq
    <2>2. rejected.op = "import" /\ ~rejected.adding /\ rejected.source = q.source
          /\ rejected.file = q.file /\ rejected.refs = q.refs /\ rejected.accepted = q.accepted
      BY <1>1, <1>2 DEF ImportReq
    <2>3. RequestSound(rejected)
      BY <1>2, <2>2 DEF RequestSound
    <2> HIDE DEF rejected
    <2> QED BY <1>1, <1>4, <1>5, <2>1, <2>2, <2>3, RequestOnly DEF Busy
  <1>6. CASE /\ Existing(q.source, q.file.entity, KeyOf(q.file, q.next)) # {}
             /\ requests' = [requests EXCEPT ![r] = accepted]
    <2>1. accepted \in ImportReq
      <3>1. q.accepted \cup {q.next} \in SUBSET Nat /\ q.next + 1 \in Nat \ {0}
        BY <1>2
      <3> QED BY <1>2, <3>1 DEF ImportReq
    <2>2. accepted.op = "import" /\ ~accepted.adding /\ accepted.source = q.source
          /\ accepted.file = q.file /\ accepted.refs = q.refs
          /\ accepted.accepted = q.accepted \cup {q.next}
      BY <1>1, <1>2 DEF ImportReq
    <2>3. Stored(q.source, q.file, q.next) /\ q.next \in 1..Len(q.file.labels)
      BY <1>1, <1>2, <1>3, <1>6 DEF Stored
    <2>4. RequestSound(accepted)
      BY <1>2, <2>2, <2>3 DEF RequestSound
    <2> HIDE DEF accepted
    <2> QED BY <1>1, <1>4, <1>6, <2>1, <2>2, <2>4, RequestOnly DEF Busy
  <1>7. ASSUME NEW refs \in References(q.source, q.file),
               requests' = [requests EXCEPT ![r] = adding(refs)]
        PROVE  IInv'
    <2>1. Owned(q.source, q.file.entity, refs) /\ refs \subseteq Ids
      BY <1>7, ReferencesOwned, OwnedIds DEF IInv
    <2>2. adding(refs) \in ImportReq
      BY <1>2, <2>1 DEF ImportReq
    <2>3. adding(refs).op = "import" /\ adding(refs).source = q.source
          /\ adding(refs).next = q.next
          /\ adding(refs).file = q.file /\ adding(refs).refs = refs
          /\ adding(refs).accepted = q.accepted
      BY <1>1, <1>2 DEF ImportReq
    <2>4. RequestSound(adding(refs))
      BY <1>1, <1>2, <2>1, <2>3 DEF RequestSound
    <2> HIDE DEF adding
    <2> QED BY <1>1, <1>4, <1>7, <2>2, <2>3, <2>4, RequestOnly DEF Busy
  <1>8. \/ requests' = [requests EXCEPT ![r] = rejected]
        \/ /\ Existing(q.source, q.file.entity, KeyOf(q.file, q.next)) # {}
           /\ requests' = [requests EXCEPT ![r] = accepted]
        \/ \E refs \in References(q.source, q.file) :
              requests' = [requests EXCEPT ![r] = adding(refs)]
    BY DEF LookUpRow
  <1> QED BY <1>5, <1>6, <1>7, <1>8

LEMMA EndsKeep ==
  ASSUME IInv, NEW r \in Requests, requests' = [requests EXCEPT ![r] = NoRequest],
         UNCHANGED <<rows, answers, blind>>,
         batches' \subseteq [source : Sources, file : Files, accepted : SUBSET Nat], BatchesStored'
  PROVE  IInv'
  <1>1. NoRequest \in Busy \cup {NoRequest} /\ NoRequest.op # "parties" /\ RequestSound(NoRequest)
    BY DEF NoRequest, RequestSound
  <1> QED BY <1>1, RequestOnly

LEMMA EndImportKeeps ==
  ASSUME IInv, NEW r \in Requests, EndImport(r)
  PROVE  IInv'
  <1> DEFINE q == requests[r]
             batch == [source |-> q.source, file |-> q.file, accepted |-> q.accepted]
  <1>1. q.op = "import" /\ batches' = batches \cup {batch}
        /\ requests' = [requests EXCEPT ![r] = NoRequest] /\ UNCHANGED <<rows, answers, blind>>
    BY DEF EndImport
  <1>2. /\ batch \in [source : Sources, file : Files, accepted : SUBSET Nat]
        /\ \A n \in batch.accepted : Stored(batch.source, batch.file, n)
    BY <1>1, Importing
  <1> HIDE DEF batch
  <1>3. batches' \subseteq [source : Sources, file : Files, accepted : SUBSET Nat]
    BY <1>1, <1>2 DEF IInv, Typed
  <1>4. BatchesStored'
    <2> SUFFICES ASSUME NEW b \in batches', NEW n \in b.accepted
                 PROVE  Stored(b.source, b.file, n)'
      BY DEF BatchesStored
    <2>1. Stored(b.source, b.file, n)
      BY <1>1, <1>2 DEF IInv, BatchesStored
    <2> QED BY <1>1, <2>1, SameRows DEF IInv
  <1> QED BY <1>1, <1>3, <1>4, EndsKeep

LEMMA AbandonKeeps ==
  ASSUME IInv, NEW r \in Requests, requests' = [requests EXCEPT ![r] = NoRequest],
         UNCHANGED <<rows, batches, answers, blind>>
  PROVE  IInv'
  <1>1. batches' \subseteq [source : Sources, file : Files, accepted : SUBSET Nat] /\ BatchesStored'
    BY SameRows, BatchesKept DEF IInv, Typed
  <1> QED BY <1>1, EndsKeep

-----------------------------------------------------------------------------
(* Captures and imports: one row is inserted *)

LEMMA OneRow ==
  ASSUME Typed, RowsSound, NEW e \in Entities, NEW s \in Sources, NEW key \in Keys,
         NEW refs, Owned(s, e, refs), NEW label \in Labelled, Room(1), KeyFree(s, e, key),
         (e = "invoice" /\ key[1] \in {"stable", "content"})
             => key = <<"stable", "invoice", label>>,
         rows' = Inserted(NextId, e, s, key, refs, label), blind' = blind
  PROVE  /\ Kept /\ RowsSound'
         /\ NextId \in Existing(s, e, key)' /\ NextId \in Ids
         /\ \E n \in 0..MaxRows : Used' = 1..n
         /\ rows' \in [Used' -> Row]
         /\ \A q : StillMissing(q) => StillMissing(q)'
  <1> DEFINE id == NextId
             new == [entity |-> e, source |-> s, key |-> key, refs |-> refs, label |-> label]
  <1>1. /\ Cardinality(Used) \in Nat /\ Used = 1..Cardinality(Used)
        /\ id = Cardinality(Used) + 1 /\ id \notin Used /\ id \in Ids
        /\ Cardinality(Used) + 1 \in 0..MaxRows
    BY Rows, BoundsAssumption DEF Room, Ids
  <1>2. /\ Used' = Used \cup {id}
        /\ rows'[id] = new
        /\ \A i \in Used : rows'[i] = rows[i]
        /\ rows' = [i \in Used' |-> rows'[i]]
    BY <1>1 DEF Inserted, Used
  <1>3. e # "party"
    BY DEF Entities
  <1>4. new \in Row
    <2>1. refs \subseteq Ids
      BY OwnedIds
    <2> QED BY <2>1 DEF Row
  <1> HIDE DEF id
  <1>5. Kept
    BY <1>2 DEF Kept
  <1>6. Used' = 1..(Cardinality(Used) + 1)
    BY <1>1, <1>2
  <1>7. rows' \in [Used' -> Row]
    <2>1. \A i \in Used' : rows'[i] \in Row
      BY <1>2, <1>4, Rows
    <2> QED BY <1>2, <2>1
  <1>8. KeysUnique'
    <2> SUFFICES ASSUME NEW i \in Used', NEW j \in Used', rows'[i].entity = rows'[j].entity,
                        rows'[i].entity # "party", rows'[i].source = rows'[j].source,
                        rows'[i].key = rows'[j].key
                 PROVE  i = j
      BY DEF KeysUnique
    <2>1. CASE i \in Used /\ j \in Used
      BY <1>2, <2>1 DEF RowsSound, KeysUnique
    <2>2. \A k \in Used : ~(rows[k].entity = e /\ rows[k].source = s /\ rows[k].key = key)
      BY DEF KeyFree, Existing
    <2>3. CASE i = id \/ j = id
      BY <1>2, <2>2, <2>3
    <2> QED BY <1>2, <2>1, <2>3
  <1>9. RefsOwned'
    <2> SUFFICES ASSUME NEW i \in Used'
                 PROVE  Owned(rows[i].source, rows[i].entity, rows[i].refs)'
      BY DEF RefsOwned
    <2>1. CASE i \in Used
      <3>1. Owned(rows[i].source, rows[i].entity, rows[i].refs)
        BY <2>1 DEF RowsSound, RefsOwned
      <3>2. PICK row : row = rows[i]
        OBVIOUS
      <3>3. Owned(row.source, row.entity, row.refs)'
        BY <1>5, <3>1, <3>2, LookupsKept
      <3> QED BY <1>2, <2>1, <3>2, <3>3
    <2>2. CASE i = id
      <3>1. Owned(s, e, refs)'
        BY <1>5, LookupsKept
      <3> QED BY <1>2, <2>2, <3>1
    <2> QED BY <1>2, <2>1, <2>2
  <1>10. InvoicesNamed'
    BY <1>2 DEF RowsSound, InvoicesNamed, Imported
  <1>11. PartyDocumentOnce'
    BY <1>2, <1>3 DEF RowsSound, PartyDocumentOnce
  <1>12. \A x, l : PartiesNamed(x, l)' = PartiesNamed(x, l)
    <2>1. \A x : RowsOf(x, "party")' = RowsOf(x, "party")
      BY <1>1, <1>2, <1>3 DEF RowsOf
    <2>2. ASSUME NEW x, NEW l
          PROVE  PartiesNamed(x, l)' = PartiesNamed(x, l)
      <3>1. \A i \in RowsOf(x, "party") : rows'[i].label = rows[i].label
        BY <1>2 DEF RowsOf
      <3>2. CASE l = NoLabel
        BY <3>2 DEF PartiesNamed
      <3>3. CASE l # NoLabel
        <4>1. PartiesNamed(x, l)' = {i \in RowsOf(x, "party")' : rows'[i].label = l}
          BY <3>3 DEF PartiesNamed
        <4>2. PartiesNamed(x, l) = {i \in RowsOf(x, "party") : rows[i].label = l}
          BY <3>3 DEF PartiesNamed
        <4>3. RowsOf(x, "party")' = RowsOf(x, "party")
          BY <2>1
        <4> QED BY <3>1, <4>1, <4>2, <4>3
      <3> QED BY <3>2, <3>3
    <2> QED BY <2>2
  <1>13. \A q : StillMissing(q) => StillMissing(q)'
    BY <1>12 DEF StillMissing, Documented
  <1>14. id \in Existing(s, e, key)'
    BY <1>2 DEF Existing
  <1> QED BY <1>1, <1>5, <1>6, <1>7, <1>8, <1>9, <1>10, <1>11, <1>13, <1>14 DEF RowsSound, id

\* A row is inserted for a request that is not an upload of parties.
LEMMA RowKeeps ==
  ASSUME IInv, NEW r \in Requests, NEW q \in Busy \cup {NoRequest}, q.op # "parties",
         requests' = [requests EXCEPT ![r] = q], RequestSound(q)', Kept, RowsSound',
         \E n \in 0..MaxRows : Used' = 1..n, rows' \in [Used' -> Row],
         \A x : StillMissing(x) => StillMissing(x)', UNCHANGED <<batches, blind>>,
         answers' \subseteq [form : Forms, id : Ids], AnswersNamed'
  PROVE  IInv'
  <1>1. Typed /\ RequestsSound /\ LookedUpOnce /\ BatchesStored
    BY DEF IInv
  <1>2. \A s \in Requests \ {r} : requests'[s].op = "parties" => StillMissing(requests[s])'
    <2> SUFFICES ASSUME NEW s \in Requests \ {r}, requests'[s].op = "parties"
                 PROVE  StillMissing(requests[s])'
      OBVIOUS
    <2>1. requests'[s] = requests[s]
      BY <1>1 DEF Typed
    <2>2. StillMissing(requests[s])
      BY <1>1, <2>1 DEF RequestsSound, RequestSound
    <2> QED BY <2>1, <2>2
  <1>3. requests' \in [Requests -> Busy \cup {NoRequest}] /\ RequestsSound' /\ LookedUpOnce'
    BY <1>1, <1>2, OneRequest
  <1>4. BatchesStored'
    BY <1>1, BatchesKept
  <1> QED BY <1>1, <1>3, <1>4 DEF IInv, Typed

LEMMA CommitCaptureKeeps ==
  ASSUME IInv, NEW r \in Requests, CommitCapture(r)
  PROVE  IInv'
  <1>1. PICK form, refs : requests[r].op = "capture" /\ requests[r].form = form
                          /\ requests[r].refs = refs
    BY DEF CommitCapture
  <1> DEFINE key == ClientKey(form.key)
  <1>2. /\ form \in Forms /\ Owned(form.source, form.entity, refs)
    <2>1. requests[r] \in CaptureReq /\ RequestSound(requests[r])
      BY <1>1, Kinds DEF IInv, Typed, RequestsSound
    <2> QED BY <1>1, <2>1 DEF CaptureReq, RequestSound
  <1>3. /\ form.source \in Sources /\ form.entity \in Entities /\ form.label \in Labelled
        /\ key \in Keys /\ key[1] = "client"
    BY <1>2, FormFields
  <1>4. requests' = [requests EXCEPT ![r] = NoRequest] /\ UNCHANGED <<batches, blind>>
    BY DEF CommitCapture
  <1>5. CASE KeyFree(form.source, form.entity, key)
    <2>1. /\ Room(1)
          /\ rows' = Inserted(NextId, form.entity, form.source, key, refs, form.label)
          /\ answers' = answers \cup {[form |-> form, id |-> NextId]}
      BY <1>1, <1>5 DEF CommitCapture, Answer
    <2>2. /\ Kept /\ RowsSound' /\ NextId \in Ids
          /\ NextId \in Existing(form.source, form.entity, key)'
          /\ (\E n \in 0..MaxRows : Used' = 1..n) /\ rows' \in [Used' -> Row]
          /\ \A x : StillMissing(x) => StillMissing(x)'
      <3> HIDE DEF key
      <3> QED BY <1>2, <1>3, <1>4, <1>5, <2>1, OneRow DEF IInv
    <2>3. answers' \subseteq [form : Forms, id : Ids]
      BY <1>2, <2>1, <2>2 DEF IInv, Typed
    <2>4. AnswersNamed'
      <3> SUFFICES ASSUME NEW a \in answers'
                   PROVE  a.id \in Existing(a.form.source, a.form.entity, ClientKey(a.form.key))'
        BY DEF AnswersNamed
      <3>1. CASE a \in answers
        BY <2>2, <3>1, AnswersKept DEF IInv
      <3>2. CASE a = [form |-> form, id |-> NextId]
        BY <2>2, <3>2
      <3> QED BY <2>1, <3>1, <3>2
    <2>5. NoRequest \in Busy \cup {NoRequest} /\ NoRequest.op # "parties" /\ RequestSound(NoRequest)'
      BY DEF NoRequest, RequestSound
    <2> QED BY <1>4, <2>2, <2>3, <2>4, <2>5, RowKeeps
  <1>6. CASE ~KeyFree(form.source, form.entity, key)
    <2>1. UNCHANGED <<rows, answers>>
      BY <1>1, <1>6 DEF CommitCapture
    <2> QED BY <1>4, <2>1, AbandonKeeps
  <1> QED BY <1>5, <1>6

LEMMA CommitRowKeeps ==
  ASSUME IInv, NEW r \in Requests, CommitRow(r)
  PROVE  IInv'
  <1>1. PICK q : q = requests[r]
    OBVIOUS
  <1>2. /\ q \in ImportReq /\ q.source \in Sources /\ q.file \in Files
        /\ q.next \in Nat \ {0} /\ q.refs \subseteq Ids /\ q.accepted \subseteq Nat
        /\ Owned(q.source, q.file.entity, q.refs) /\ q.next <= Len(q.file.labels)
        /\ \A n \in q.accepted : n \in 1..Len(q.file.labels) /\ Stored(q.source, q.file, n)
    BY <1>1, Importing DEF CommitRow
  <1>3. PICK e, s, key, label : /\ e = q.file.entity /\ s = q.source
                                /\ key = KeyOf(q.file, q.next) /\ label = q.file.labels[q.next]
    OBVIOUS
  <1>4. /\ e \in Entities /\ e # "party" /\ s \in Sources /\ key \in Keys /\ label \in Labelled
        /\ e = "invoice" => key = <<"stable", "invoice", label>>
        /\ q.next \in 1..Len(q.file.labels)
    BY <1>2, <1>3, FileFields DEF Labelled
  <1>5. UNCHANGED <<batches, answers, blind>>
    BY DEF CommitRow
  <1>6. CASE KeyFree(s, e, key)
    <2> DEFINE new == [q EXCEPT !.next = @ + 1, !.adding = FALSE, !.accepted = @ \cup {q.next}]
    <2>1. /\ Room(1) /\ rows' = Inserted(NextId, e, s, key, q.refs, label)
          /\ requests' = [requests EXCEPT ![r] = new]
      BY <1>1, <1>3, <1>6 DEF CommitRow
    <2>2. /\ Kept /\ RowsSound' /\ NextId \in Existing(s, e, key)'
          /\ (\E n \in 0..MaxRows : Used' = 1..n) /\ rows' \in [Used' -> Row]
          /\ \A x : StillMissing(x) => StillMissing(x)'
      BY <1>2, <1>3, <1>4, <1>5, <1>6, <2>1, OneRow DEF IInv
    <2>3. new \in ImportReq
      <3>1. q.accepted \cup {q.next} \in SUBSET Nat /\ q.next + 1 \in Nat \ {0}
        BY <1>2
      <3> QED BY <1>2, <3>1 DEF ImportReq
    <2>4. new.op = "import" /\ ~new.adding /\ new.source = s /\ new.file = q.file
          /\ new.refs = q.refs /\ new.accepted = q.accepted \cup {q.next}
      BY <1>2, <1>3 DEF ImportReq
    <2>5. RequestSound(new)'
      <3>1. Owned(s, e, q.refs)'
        BY <1>2, <1>3, <2>2, LookupsKept
      <3>2. \A n \in q.accepted : Stored(s, q.file, n)'
        BY <1>2, <1>3, <1>4, <2>2, LookupsKept
      <3>3. Stored(s, q.file, q.next)'
        BY <1>3, <2>2 DEF Stored
      <3> HIDE DEF new
      <3> QED BY <1>2, <1>3, <1>4, <2>4, <3>1, <3>2, <3>3 DEF RequestSound
    <2>6. answers' \subseteq [form : Forms, id : Ids] /\ AnswersNamed'
      BY <1>5, <2>2, AnswersKept DEF IInv, Typed, AnswersNamed
    <2> HIDE DEF new
    <2> QED BY <1>5, <2>1, <2>2, <2>3, <2>4, <2>5, <2>6, RowKeeps DEF Busy
  <1>7. CASE ~KeyFree(s, e, key)
    <2>1. rows' = rows /\ requests' = [requests EXCEPT ![r] = NoRequest]
      BY <1>1, <1>3, <1>7 DEF CommitRow
    <2> QED BY <1>5, <2>1, AbandonKeeps
  <1> QED BY <1>6, <1>7

-----------------------------------------------------------------------------
(* Parties *)

\* The rank of a number in a finite set of numbers.
Rank(S, n) == Cardinality({m \in S : m < n})

LEMMA Ranks ==
  ASSUME NEW S \in SUBSET Nat, IsFiniteSet(S)
  PROVE  /\ \A n \in S : Rank(S, n) \in 0..(Cardinality(S) - 1)
         /\ \A m, n \in S : Rank(S, m) = Rank(S, n) => m = n
         /\ \A k \in 0..(Cardinality(S) - 1) : \E n \in S : Rank(S, n) = k
  <1> DEFINE Below(n) == {m \in S : m < n}
  <1>1. ASSUME NEW n \in S
        PROVE  /\ IsFiniteSet(Below(n)) /\ Rank(S, n) = Cardinality(Below(n))
               /\ Rank(S, n) \in 0..(Cardinality(S) - 1)
    <2>1. IsFiniteSet(Below(n)) /\ Cardinality(Below(n)) <= Cardinality(S)
          /\ (Cardinality(S) = Cardinality(Below(n)) => S = Below(n))
      <3>1. Below(n) \in SUBSET S
        OBVIOUS
      <3> HIDE DEF Below
      <3> QED BY <3>1, FS_Subset
    <2>2. Cardinality(Below(n)) \in Nat /\ Cardinality(S) \in Nat
      BY <2>1, FS_CardinalityType
    <2>3. n \notin Below(n)
      OBVIOUS
    <2> HIDE DEF Below
    <2>4. Cardinality(Below(n)) < Cardinality(S)
      BY <2>1, <2>2, <2>3
    <2> QED BY <2>1, <2>2, <2>4 DEF Rank, Below
  <1>2. ASSUME NEW m \in S, NEW n \in S, m < n
        PROVE  Rank(S, m) # Rank(S, n)
    <2>1. Below(m) \in SUBSET Below(n) /\ m \in Below(n) /\ m \notin Below(m)
      <3>1. m \in Nat /\ n \in Nat /\ \A k \in S : k \in Nat
        OBVIOUS
      <3>2. \A k \in S : k < m => k < n
        BY <1>2, <3>1
      <3>3. ~(m < m)
        BY <3>1
      <3> QED BY <1>2, <3>2, <3>3
    <2> HIDE DEF Below
    <2> QED BY <1>1, <2>1, FS_Subset
  <1>3. ASSUME NEW m \in S, NEW n \in S, Rank(S, m) = Rank(S, n)
        PROVE  m = n
    <2>1. m < n \/ n < m \/ m = n
      OBVIOUS
    <2> QED BY <1>2, <1>3, <2>1
  <1> DEFINE T == 0..(Cardinality(S) - 1)
             f == [n \in S |-> Rank(S, n)]
  <1>4. IsFiniteSet(T) /\ Cardinality(T) = Cardinality(S)
    <2>1. PICK c \in Nat : c = Cardinality(S)
      BY FS_CardinalityType
    <2>2. IsFiniteSet(0..(c - 1)) /\ Cardinality(0..(c - 1)) = IF 0 > c - 1 THEN 0 ELSE c - 1 - 0 + 1
      BY FS_Interval
    <2>3. Cardinality(0..(c - 1)) = c
      BY <2>2
    <2> QED BY <2>1, <2>2, <2>3
  <1>5. f \in Injection(S, T)
    BY <1>1, <1>3 DEF Injection, IsInjective
  <1>6. f \in Surjection(S, T)
    <2> HIDE DEF f, T
    <2> QED BY <1>4, <1>5, FS_Injection
  <1>7. \A k \in T : \E n \in S : Rank(S, n) = k
    BY <1>6 DEF Surjection
  <1> QED BY <1>1, <1>3, <1>7

LEMMA UploadFields ==
  ASSUME NEW labels \in Uploads
  PROVE  /\ Len(labels) \in Nat /\ DOMAIN labels = 1..Len(labels)
         /\ \A n \in DOMAIN labels : n \in Nat /\ labels[n] \in Labelled
         /\ IsFiniteSet(DOMAIN labels)
  <1>1. labels \in Seq(Labelled)
    BY FilesAssumption DEF Labelled
  <1>2. Len(labels) \in Nat /\ DOMAIN labels = 1..Len(labels)
    BY <1>1, LenProperties
  <1>3. \A n \in DOMAIN labels : labels[n] \in Labelled
    BY <1>1, <1>2, ElementOfSeq
  <1>4. IsFiniteSet(1..Len(labels))
    BY <1>2, FS_Interval
  <1> QED BY <1>2, <1>3, <1>4

LEMMA BeginPartiesKeeps ==
  ASSUME IInv, NEW r \in Requests, NEW s \in Sources, NEW labels \in Uploads,
         BeginParties(r, s, labels)
  PROVE  IInv'
  <1>1. Typed /\ RowsSound /\ AnswersNamed /\ BatchesStored /\ RequestsSound /\ LookedUpOnce
    BY DEF IInv
  <1>2. PICK found \in [DOMAIN labels -> Ids \cup {0}] :
           /\ \A n \in DOMAIN labels :
                 IF PartiesNamed(s, labels[n]) = {} THEN found[n] = 0
                 ELSE found[n] \in PartiesNamed(s, labels[n])
           /\ requests' = [requests EXCEPT ![r] =
                  [op |-> "parties", source |-> s, labels |-> labels, found |-> found,
                   taken |-> {i \in Used : /\ \E n \in DOMAIN labels : found[n] = i
                                           /\ rows[i].source # s}]]
    BY DEF BeginParties
  <1> DEFINE taken == {i \in Used : /\ \E n \in DOMAIN labels : found[n] = i
                                    /\ rows[i].source # s}
             missed == {labels[n] : n \in {m \in DOMAIN labels :
                               \/ LookingUp(s, labels[m]) # {}
                               \/ \E k \in 1..(m - 1) : labels[k] = labels[m]}}
  <1>3. PICK q : q = [op |-> "parties", source |-> s, labels |-> labels, found |-> found,
                      taken |-> taken]
    OBVIOUS
  <1>4. /\ UNCHANGED <<rows, batches, answers>> /\ blind' = blind \cup missed
        /\ requests[r] = NoRequest
    BY DEF BeginParties
  <1>5. /\ Kept /\ RowsSound' /\ (\E n \in 0..MaxRows : Used' = 1..n)
        /\ rows' \in [Used' -> Row]
        /\ \A x, l : PartiesNamed(x, l)' = PartiesNamed(x, l)
        /\ \A l : Documented(l)' => Documented(l)
    BY <1>1, <1>4, SameRows DEF Documented
  <1>6. q \in Busy
    <2>1. taken \subseteq Ids
      BY <1>1, Rows
    <2> HIDE DEF taken
    <2>2. q \in PartiesReq(labels)
      BY <1>3, <2>1 DEF PartiesReq
    <2> QED BY <2>2 DEF Busy
  <1>7. /\ requests' \in [Requests -> Busy \cup {NoRequest}] /\ requests'[r] = q
        /\ \A t \in Requests \ {r} : requests'[t] = requests[t]
    BY <1>1, <1>2, <1>3, <1>6 DEF Typed
  <1>8. RequestSound(q)'
    <2>1. \A l : PartiesNamed(s, l) \subseteq RowsOf(s, "party") /\ PartiesNamed(s, l) \subseteq Ids
      BY <1>1, Rows DEF PartiesNamed, RowsOf
    <2>2. 0 \notin Ids /\ 0 \notin Used
      BY <1>1, Rows DEF Ids
    <2>3. q.taken \subseteq RowsOf(s, "party")
      BY <1>2, <1>3, <2>1, <2>2
    <2>4. \A n \in DOMAIN labels : found[n] = 0 => PartiesNamed(s, labels[n]) = {}
      BY <1>2, <2>1, <2>2
    <2>5. q.op = "parties" /\ q.source = s /\ q.labels = labels /\ q.found = found
      BY <1>3
    <2>6. RowsOf(s, "party") \subseteq RowsOf(s, "party")'
      BY <1>5, LookupsKept
    <2> QED BY <1>5, <2>3, <2>4, <2>5, <2>6 DEF RequestSound, StillMissing
  <1>9. RequestsSound'
    <2> SUFFICES ASSUME NEW t \in Requests
                 PROVE  RequestSound(requests[t])'
      BY DEF RequestsSound
    <2>1. CASE t = r
      BY <1>7, <1>8, <2>1
    <2>2. CASE t # r
      <3>1. PICK old : old = requests[t]
        OBVIOUS
      <3>2. RequestSound(old) /\ old \in Busy \cup {NoRequest} /\ requests'[t] = old
        BY <1>1, <1>7, <2>2, <3>1 DEF Typed, RequestsSound
      <3>3. old.op = "parties" => StillMissing(old)'
        BY <1>5, <3>2 DEF RequestSound, StillMissing
      <3> QED BY <1>5, <3>2, <3>3, RequestKept
    <2> QED BY <2>1, <2>2
  <1>10. \A m, n \in DOMAIN labels : (labels[m] = labels[n] /\ Documented(labels[m])') => m = n
    <2> SUFFICES ASSUME NEW m \in DOMAIN labels, NEW n \in DOMAIN labels, labels[m] = labels[n],
                        m < n
                 PROVE  labels[n] \in missed
      <3>1. \A m \in DOMAIN labels : m \in Nat
        BY UploadFields
      <3>2. \A m, n \in DOMAIN labels : m = n \/ m < n \/ n < m
        BY <3>1
      <3> HIDE DEF missed
      <3> QED BY <1>4, <3>2 DEF Documented
    <2>1. m \in 1..(n - 1)
      BY UploadFields
    <2> QED BY <2>1
  <1>11. ASSUME NEW t \in Requests \ {r}, requests[t].op = "parties",
                Company[requests[t].source] = Company[s]
         PROVE  /\ \A m \in DOMAIN labels, n \in DOMAIN requests[t].labels :
                      labels[m] = requests[t].labels[n] => labels[m] \in blind'
    <2>1. \A m \in DOMAIN labels, n \in DOMAIN requests[t].labels :
             labels[m] = requests[t].labels[n] => t \in LookingUp(s, labels[m])
      BY <1>11 DEF LookingUp
    <2> QED BY <1>4, <2>1
  <1>12. LookedUpOnce'
    <2> SUFFICES ASSUME NEW t \in Requests, requests'[t].op = "parties"
                 PROVE  /\ \A m, n \in DOMAIN requests'[t].labels :
                              (requests'[t].labels[m] = requests'[t].labels[n]
                                  /\ Documented(requests[t].labels[m])') => m = n
                        /\ \A u \in Requests \ {t} :
                              (requests'[u].op = "parties"
                                  /\ Company[requests'[u].source] = Company[requests'[t].source])
                              => Alone(requests[t], requests[u])'
      BY DEF LookedUpOnce
    <2>1. CASE t = r
      <3>1. /\ requests'[t].labels = labels /\ requests'[t].source = s
        BY <1>3, <1>7, <2>1
      <3>2. ASSUME NEW u \in Requests \ {t}, requests'[u].op = "parties",
                   Company[requests'[u].source] = Company[requests'[t].source]
            PROVE  Alone(requests[t], requests[u])'
        <4>1. requests'[u] = requests[u]
          BY <1>7, <2>1
        <4> QED BY <1>11, <2>1, <3>1, <3>2, <4>1 DEF Alone, Documented
      <3> QED BY <1>10, <3>1, <3>2
    <2>2. CASE t # r
      <3>1. requests'[t] = requests[t]
        BY <1>7, <2>2
      <3>2. ASSUME NEW u \in Requests \ {t}, requests'[u].op = "parties",
                   Company[requests'[u].source] = Company[requests'[t].source]
            PROVE  Alone(requests[t], requests[u])'
        <4>1. CASE u = r
          <5>1. /\ requests'[u].labels = labels /\ requests'[u].source = s
            BY <1>3, <1>7, <4>1
          <5> QED BY <1>11, <2>2, <3>1, <3>2, <5>1 DEF Alone, Documented
        <4>2. CASE u # r
          <5>1. requests'[u] = requests[u]
            BY <1>7, <4>2
          <5>2. Alone(requests[t], requests[u])
            BY <1>1, <3>1, <3>2, <5>1 DEF LookedUpOnce
          <5> QED BY <1>5, <3>1, <5>1, <5>2 DEF Alone
        <4> QED BY <4>1, <4>2
      <3>3. \A m, n \in DOMAIN requests[t].labels :
               (requests[t].labels[m] = requests[t].labels[n]
                   /\ Documented(requests[t].labels[m])) => m = n
        BY <1>1, <3>1 DEF LookedUpOnce
      <3> QED BY <1>5, <3>1, <3>2, <3>3
    <2> QED BY <2>1, <2>2
  <1>13. AnswersNamed' /\ BatchesStored'
    BY <1>1, <1>4, <1>5, AnswersKept, BatchesKept DEF AnswersNamed
  <1>14. blind' \subseteq Labelled
    BY <1>1, <1>4, UploadFields DEF Typed
  <1> HIDE DEF missed
  <1> QED BY <1>1, <1>4, <1>5, <1>7, <1>9, <1>12, <1>13, <1>14 DEF IInv, Typed

\* The rows after an upload of parties is written: what it took over has moved,
\* and each document it had missed has a row of its own.
NewParty(q, n) == [entity |-> "party", source |-> q.source, key |-> NoKey, refs |-> {},
                   label |-> q.labels[n]]
LEMMA PartiesWritten ==
  ASSUME IInv, NEW r \in Requests, CommitParties(r), NEW q, q = requests[r]
  PROVE  /\ \E n \in 0..MaxRows : Used' = 1..n
         /\ Used \subseteq Used'
         /\ rows' = [i \in Used' |-> rows'[i]]
         /\ \A i \in Used : rows'[i] = IF i \in q.taken THEN [rows[i] EXCEPT !.source = q.source]
                                       ELSE rows[i]
         /\ \E at : /\ \A i \in Used' \ Used : /\ at[i] \in DOMAIN q.labels /\ q.found[at[i]] = 0
                                               /\ rows'[i] = NewParty(q, at[i])
                    /\ \A i, j \in Used' \ Used : at[i] = at[j] => i = j
  <1> DEFINE new == {n \in DOMAIN q.labels : q.found[n] = 0}
             IdOf(n) == NextId + Cardinality({m \in new : m < n})
             At(i) == CHOOSE n \in new : IdOf(n) = i
             ids == {IdOf(n) : n \in new}
  <1>1. /\ q.op = "parties" /\ Room(Cardinality(new))
        /\ rows' = [i \in Used \cup ids |->
               IF i \notin Used
               THEN [entity |-> "party", source |-> q.source, key |-> NoKey, refs |-> {},
                     label |-> q.labels[At(i)]]
               ELSE IF i \in q.taken THEN [rows[i] EXCEPT !.source = q.source]
               ELSE rows[i]]
    BY DEF CommitParties
  <1>2. Used' = Used \cup ids
    <2> HIDE DEF At, ids
    <2> QED BY <1>1 DEF Used
  <1>3. q.labels \in Uploads
    BY <1>1, Kinds DEF IInv, Typed
  <1>4. /\ new \in SUBSET Nat /\ IsFiniteSet(new)
    <2>1. new \in SUBSET DOMAIN q.labels /\ IsFiniteSet(DOMAIN q.labels)
          /\ \A n \in DOMAIN q.labels : n \in Nat
      BY <1>3, UploadFields
    <2> HIDE DEF new
    <2> QED BY <2>1, FS_Subset
  <1>5. PICK c \in Nat, k \in Nat : /\ c = Cardinality(Used) /\ k = Cardinality(new)
                                    /\ Used = 1..c /\ NextId = c + 1 /\ c + k <= MaxRows
    <2>1. Cardinality(new) \in Nat
      BY <1>4, FS_CardinalityType
    <2>2. Cardinality(Used) \in Nat /\ Used = 1..Cardinality(Used)
          /\ NextId = Cardinality(Used) + 1
      BY Rows, BoundsAssumption DEF IInv
    <2> QED BY <1>1, <2>1, <2>2 DEF Room
  <1>6. \A n \in new : IdOf(n) = c + 1 + Rank(new, n)
    BY <1>5 DEF Rank
  <1>7. /\ \A n \in new : Rank(new, n) \in 0..(k - 1)
        /\ \A j \in 0..(k - 1) : \E n \in new : Rank(new, n) = j
    <2> HIDE DEF new
    <2> QED BY <1>4, <1>5, Ranks
  <1>8. ids = (c + 1)..(c + k)
    <2> HIDE DEF new, IdOf
    <2>1. \A n \in new : IdOf(n) \in (c + 1)..(c + k)
      BY <1>5, <1>6, <1>7
    <2>2. ASSUME NEW i \in (c + 1)..(c + k)
          PROVE  \E n \in new : IdOf(n) = i
      <3>1. i - (c + 1) \in 0..(k - 1)
        BY <1>5
      <3>2. PICK n \in new : Rank(new, n) = i - (c + 1)
        BY <1>7, <3>1
      <3>3. IdOf(n) = i
        BY <1>5, <1>6, <3>2
      <3> QED BY <3>3
    <2> QED BY <2>1, <2>2
  <1>9. Used' = 1..(c + k) /\ Used' \ Used = ids
    <2> HIDE DEF ids
    <2>1. (1..c) \cup ((c + 1)..(c + k)) = 1..(c + k)
      <3>1. \A x \in Int : x \in 1..(c + k) <=> (x \in 1..c \/ x \in (c + 1)..(c + k))
        BY <1>5
      <3>2. \A x \in 1..(c + k) : x \in Int
        OBVIOUS
      <3>3. \A x \in (1..c) \cup ((c + 1)..(c + k)) : x \in Int
        BY <1>5
      <3> QED BY <3>1, <3>2, <3>3
    <2>2. \A i \in (c + 1)..(c + k) : i \notin 1..c
      BY <1>5
    <2>3. Used' = (1..c) \cup ids /\ \A i \in ids : i \notin 1..c
      BY <1>2, <1>5, <1>8, <2>2
    <2> QED BY <1>5, <1>8, <2>1, <2>3
  <1>10. \A i \in ids : At(i) \in new /\ IdOf(At(i)) = i
    <2> HIDE DEF new, IdOf
    <2> QED OBVIOUS
  <1> DEFINE at == [i \in ids |-> At(i)]
  <1>11. /\ \A i \in ids : /\ at[i] \in DOMAIN q.labels /\ q.found[at[i]] = 0
                           /\ rows'[i] = NewParty(q, at[i])
         /\ \A i, j \in ids : at[i] = at[j] => i = j
    <2>1. \A i \in ids : at[i] \in DOMAIN q.labels /\ q.found[at[i]] = 0 /\ at[i] = At(i)
      <3>1. \A n \in new : n \in DOMAIN q.labels /\ q.found[n] = 0
        OBVIOUS
      <3> HIDE DEF new, ids, At
      <3> QED BY <1>10, <3>1
    <2>2. \A i \in ids : IdOf(at[i]) = i
      <3> HIDE DEF new, ids, At, IdOf
      <3> QED BY <1>10, <2>1
    <2>3. \A i \in ids : i \notin Used
      <3> HIDE DEF ids
      <3> QED BY <1>9
    <2> HIDE DEF new, ids, At, IdOf, at
    <2>4. \A i \in ids : rows'[i] = NewParty(q, at[i])
      BY <1>1, <2>1, <2>3 DEF NewParty
    <2> QED BY <2>1, <2>2, <2>4
  <1>12. \A i \in Used : rows'[i] = IF i \in q.taken THEN [rows[i] EXCEPT !.source = q.source]
                                    ELSE rows[i]
    <2> HIDE DEF ids, At
    <2> QED BY <1>1
  <1>13. rows' = [i \in Used' |-> rows'[i]]
    <2> HIDE DEF ids, At
    <2> QED BY <1>1, <1>2
  <1>14. c + k \in 0..MaxRows
    BY <1>5, BoundsAssumption
  <1>15. \E x : /\ \A i \in Used' \ Used : /\ x[i] \in DOMAIN q.labels /\ q.found[x[i]] = 0
                                           /\ rows'[i] = NewParty(q, x[i])
                /\ \A i, j \in Used' \ Used : x[i] = x[j] => i = j
    <2> HIDE DEF ids, at
    <2> QED BY <1>9, <1>11
  <1> HIDE DEF ids, at, new, At, IdOf
  <1> QED BY <1>2, <1>9, <1>12, <1>13, <1>14, <1>15

LEMMA CommitPartiesKeeps ==
  ASSUME IInv, NEW r \in Requests, CommitParties(r)
  PROVE  IInv'
  <1>1. Typed /\ RowsSound /\ AnswersNamed /\ BatchesStored /\ RequestsSound /\ LookedUpOnce
    BY DEF IInv
  <1>2. PICK q : q = requests[r]
    OBVIOUS
  <1>3. /\ q.op = "parties" /\ requests' = [requests EXCEPT ![r] = NoRequest]
        /\ UNCHANGED <<batches, answers, blind>>
    BY <1>2 DEF CommitParties
  <1>4. /\ q.source \in Sources /\ q.labels \in Uploads
        /\ q.taken \subseteq RowsOf(q.source, "party") /\ StillMissing(q)
    BY <1>1, <1>2, <1>3, Kinds DEF Typed, RequestsSound, RequestSound
  <1>5. PICK at :
         /\ \E n \in 0..MaxRows : Used' = 1..n
         /\ Used \subseteq Used'
         /\ rows' = [i \in Used' |-> rows'[i]]
         /\ \A i \in Used : rows'[i] = IF i \in q.taken THEN [rows[i] EXCEPT !.source = q.source]
                                       ELSE rows[i]
         /\ \A i \in Used' \ Used : /\ at[i] \in DOMAIN q.labels /\ q.found[at[i]] = 0
                                    /\ rows'[i] = NewParty(q, at[i])
         /\ \A i, j \in Used' \ Used : at[i] = at[j] => i = j
    BY <1>2, PartiesWritten
  <1>6. \A i \in Used :
            /\ rows'[i] \in Row /\ rows'[i].entity = rows[i].entity
            /\ rows'[i].key = rows[i].key /\ rows'[i].refs = rows[i].refs
            /\ rows'[i].label = rows[i].label
            /\ Company[rows'[i].source] = Company[rows[i].source]
            /\ rows[i].entity # "party" => rows'[i] = rows[i]
    <2> SUFFICES ASSUME NEW i \in Used
                 PROVE  /\ rows'[i] \in Row /\ rows'[i].entity = rows[i].entity
                        /\ rows'[i].key = rows[i].key /\ rows'[i].refs = rows[i].refs
                        /\ rows'[i].label = rows[i].label
                        /\ Company[rows'[i].source] = Company[rows[i].source]
                        /\ rows[i].entity # "party" => rows'[i] = rows[i]
      OBVIOUS
    <2>1. rows[i] \in Row
      BY <1>1, Rows
    <2>2. CASE i \in q.taken
      <3>1. rows'[i] = [rows[i] EXCEPT !.source = q.source]
        BY <1>5, <2>2
      <3>2. rows[i].entity = "party" /\ Company[rows[i].source] = Company[q.source]
        BY <1>4, <2>2 DEF RowsOf
      <3> QED BY <1>4, <2>1, <3>1, <3>2 DEF Row
    <2>3. CASE i \notin q.taken
      BY <1>5, <2>1, <2>3
    <2> QED BY <2>2, <2>3
  <1>7. \A i \in Used' \ Used :
            /\ rows'[i] \in Row /\ rows'[i].entity = "party" /\ rows'[i].source = q.source
            /\ rows'[i].refs = {} /\ rows'[i].label = q.labels[at[i]]
            /\ at[i] \in DOMAIN q.labels /\ q.found[at[i]] = 0
    <2> SUFFICES ASSUME NEW i \in Used' \ Used
                 PROVE  /\ rows'[i] \in Row /\ rows'[i].entity = "party"
                        /\ rows'[i].source = q.source
                        /\ rows'[i].refs = {} /\ rows'[i].label = q.labels[at[i]]
                        /\ at[i] \in DOMAIN q.labels /\ q.found[at[i]] = 0
      OBVIOUS
    <2>1. at[i] \in DOMAIN q.labels /\ q.found[at[i]] = 0 /\ rows'[i] = NewParty(q, at[i])
      BY <1>5
    <2>2. q.labels[at[i]] \in Labelled
      BY <1>4, <2>1, UploadFields
    <2> QED BY <1>4, <2>1, <2>2 DEF NewParty, Row, Keys, NoKey
  <1>8. Kept
    BY <1>5, <1>6 DEF Kept
  <1>9. rows' \in [Used' -> Row]
    <2>1. \A i \in Used' : rows'[i] \in Row
      BY <1>6, <1>7
    <2> QED BY <1>5, <2>1
  <1>10. KeysUnique' /\ InvoicesNamed'
    <2>1. ASSUME NEW i \in Used', rows'[i].entity # "party"
          PROVE  i \in Used /\ rows'[i] = rows[i]
      BY <1>6, <1>7, <2>1
    <2>2. KeysUnique'
      BY <1>1, <2>1 DEF RowsSound, KeysUnique
    <2>3. InvoicesNamed'
      BY <1>1, <2>1 DEF RowsSound, InvoicesNamed, Imported
    <2> QED BY <2>2, <2>3
  <1>11. RefsOwned'
    <2> SUFFICES ASSUME NEW i \in Used'
                 PROVE  Owned(rows[i].source, rows[i].entity, rows[i].refs)'
      BY DEF RefsOwned
    <2>1. CASE i \in Used
      <3>1. PICK s, e, refs : s = rows[i].source /\ e = rows[i].entity /\ refs = rows[i].refs
        OBVIOUS
      <3>2. Owned(s, e, refs)'
        BY <1>1, <1>8, <2>1, <3>1, LookupsKept DEF RowsSound, RefsOwned
      <3>3. PICK t : t = rows'[i].source /\ Company[t] = Company[s]
        BY <1>6, <2>1, <3>1
      <3>4. Owned(t, e, refs)'
        BY <3>2, <3>3 DEF Owned, RowsOf
      <3> QED BY <1>6, <2>1, <3>1, <3>3, <3>4
    <2>2. CASE i \notin Used
      BY <1>7, <2>2 DEF Owned
    <2> QED BY <2>1, <2>2
  <1>12. PartyDocumentOnce'
    <2> SUFFICES ASSUME NEW i \in Used', NEW j \in Used', rows'[i].entity = "party",
                        rows'[j].entity = "party", rows'[i].label = rows'[j].label,
                        rows'[i].label \notin blind' \cup {NoLabel},
                        Company[rows'[i].source] = Company[rows'[j].source]
                 PROVE  i = j
      BY DEF PartyDocumentOnce
    <2>1. CASE i \in Used /\ j \in Used
      BY <1>1, <1>3, <1>6, <2>1 DEF RowsSound, PartyDocumentOnce
    <2>2. ASSUME NEW x \in Used' \ Used, NEW y \in Used, rows[y].entity = "party",
                 rows[y].label = rows'[x].label, Documented(rows[y].label),
                 Company[rows[y].source] = Company[q.source]
          PROVE  FALSE
      <3>1. PartiesNamed(q.source, rows[y].label) = {}
        BY <1>4, <1>7, <2>2 DEF StillMissing
      <3> QED BY <2>2, <3>1 DEF PartiesNamed, RowsOf, Documented
    <2>3. CASE i \notin Used /\ j \in Used
      BY <1>3, <1>6, <1>7, <2>2, <2>3 DEF Documented
    <2>4. CASE i \in Used /\ j \notin Used
      BY <1>3, <1>6, <1>7, <2>2, <2>4 DEF Documented
    <2>5. CASE i \notin Used /\ j \notin Used
      <3>1. at[i] = at[j]
        BY <1>1, <1>2, <1>3, <1>7, <2>5 DEF LookedUpOnce, Documented
      <3> QED BY <1>5, <2>5, <3>1
    <2> QED BY <2>1, <2>3, <2>4, <2>5
  <1>13. ASSUME NEW t \in Requests \ {r}, requests'[t].op = "parties"
         PROVE  StillMissing(requests[t])'
    <2>1. PICK x : x = requests[t] /\ x = requests'[t]
      BY <1>1, <1>3 DEF Typed
    <2>2. StillMissing(x)
      BY <1>1, <1>13, <2>1 DEF RequestsSound, RequestSound
    <2>3. StillMissing(x)'
      <3> SUFFICES ASSUME NEW n \in DOMAIN x.labels, x.found[n] = 0, Documented(x.labels[n]),
                          NEW i \in PartiesNamed(x.source, x.labels[n])'
                   PROVE  FALSE
        BY <1>3 DEF StillMissing, Documented
      <3>1. /\ i \in Used' /\ rows'[i].entity = "party" /\ rows'[i].label = x.labels[n]
            /\ Company[rows'[i].source] = Company[x.source]
        BY DEF PartiesNamed, RowsOf, Documented
      <3>2. CASE i \in Used
        <4>1. i \in PartiesNamed(x.source, x.labels[n])
          BY <1>6, <3>1, <3>2 DEF PartiesNamed, RowsOf, Documented
        <4> QED BY <2>2, <4>1 DEF StillMissing
      <3>3. CASE i \notin Used
        <4>1. Alone(requests[r], requests[t])
          BY <1>1, <1>2, <1>3, <1>7, <1>13, <2>1, <3>1, <3>3 DEF LookedUpOnce
        <4> QED BY <1>2, <1>7, <2>1, <3>1, <3>3, <4>1 DEF Alone
      <3> QED BY <3>2, <3>3
    <2> QED BY <2>1, <2>3
  <1>14. NoRequest \in Busy \cup {NoRequest} /\ NoRequest.op # "parties" /\ RequestSound(NoRequest)'
    BY DEF NoRequest, RequestSound
  <1>15. requests' \in [Requests -> Busy \cup {NoRequest}] /\ RequestsSound' /\ LookedUpOnce'
    BY <1>1, <1>3, <1>8, <1>13, <1>14, OneRequest
  <1>16. AnswersNamed' /\ BatchesStored'
    BY <1>1, <1>3, <1>8, AnswersKept, BatchesKept DEF AnswersNamed
  <1> QED BY <1>1, <1>3, <1>5, <1>9, <1>10, <1>11, <1>12, <1>15, <1>16 DEF IInv, Typed, RowsSound

-----------------------------------------------------------------------------
(* The specification *)

LEMMA Initially == Init => IInv
  <1> SUFFICES ASSUME Init PROVE IInv
    OBVIOUS
  <1>1. Used = {} /\ Used = 1..0 /\ 0 \in 0..MaxRows
    BY BoundsAssumption DEF Init, Used
  <1>2. Typed
    BY <1>1 DEF Init, Typed
  <1>3. RowsSound
    BY <1>1 DEF RowsSound, KeysUnique, RefsOwned, InvoicesNamed, PartyDocumentOnce
  <1>4. RequestsSound /\ LookedUpOnce
    BY DEF Init, RequestsSound, RequestSound, LookedUpOnce, NoRequest
  <1>5. AnswersNamed /\ BatchesStored
    BY DEF Init, AnswersNamed, BatchesStored
  <1> QED BY <1>2, <1>3, <1>4, <1>5 DEF IInv

LEMMA Inductive == IInv /\ [Next]_vars => IInv'
  <1> SUFFICES ASSUME IInv, [Next]_vars PROVE IInv'
    OBVIOUS
  <1>1. ASSUME NEW form \in Forms, AnswerExisting(form) PROVE IInv'
    BY <1>1, AnswerExistingKeeps
  <1>2. ASSUME NEW r \in Requests, NEW form \in Forms, NEW refs, BeginCapture(r, form, refs)
        PROVE IInv'
    BY <1>2, BeginCaptureKeeps
  <1>3. ASSUME NEW r \in Requests, NEW s \in Sources, NEW f \in Files, BeginImport(r, s, f)
        PROVE IInv'
    BY <1>3, BeginImportKeeps
  <1>4. ASSUME NEW r \in Requests, NEW s \in Sources, NEW labels \in Uploads,
               BeginParties(r, s, labels)
        PROVE IInv'
    BY <1>4, BeginPartiesKeeps
  <1>5. ASSUME NEW r \in Requests, CommitCapture(r) PROVE IInv'
    BY <1>5, CommitCaptureKeeps
  <1>6. ASSUME NEW r \in Requests, LookUpRow(r) PROVE IInv'
    BY <1>6, LookUpRowKeeps
  <1>7. ASSUME NEW r \in Requests, CommitRow(r) PROVE IInv'
    BY <1>7, CommitRowKeeps
  <1>8. ASSUME NEW r \in Requests, EndImport(r) PROVE IInv'
    BY <1>8, EndImportKeeps
  <1>9. ASSUME NEW r \in Requests, CommitParties(r) PROVE IInv'
    BY <1>9, CommitPartiesKeeps
  <1>10. ASSUME NEW r \in Requests, Abandon(r) PROVE IInv'
    BY <1>10, AbandonKeeps DEF Abandon
  <1>11. CASE UNCHANGED vars
    <2>1. UNCHANGED <<rows, requests, batches, answers, blind>>
      BY <1>11 DEF vars
    <2>2. IInv /\ rows' = rows /\ requests' = requests /\ batches' = batches
          /\ answers' = answers /\ blind' = blind
      BY <2>1
    <2> QED BY <2>2 DEF IInv, Typed, RowsSound, KeysUnique, RefsOwned, InvoicesNamed,
                        PartyDocumentOnce, AnswersNamed, BatchesStored, RequestsSound,
                        LookedUpOnce, RequestSound, StillMissing, Alone, Documented, Stored,
                        Existing, Owned, RowsOf, PartiesNamed, Used, Imported
  <1> QED BY <1>1, <1>2, <1>3, <1>4, <1>5, <1>6, <1>7, <1>8, <1>9, <1>10, <1>11 DEF Next

\* The invariant of the books.
LEMMA InvariantHolds == Spec => []IInv
  BY Initially, Inductive, PTL DEF Spec

\* Every table and history stays of its type, and a request in flight holds what
\* its operation may hold and still relies on what is true: references of its own
\* company, counted rows that are stored, rows to take over that are parties of
\* the company, documents missed that are missing.
THEOREM TypeCorrect == Spec => [](TypeOK /\ Typed /\ RequestsSound)
  <1>1. IInv => TypeOK /\ Typed /\ RequestsSound
    <2> SUFFICES ASSUME IInv PROVE TypeOK /\ Typed /\ RequestsSound
      OBVIOUS
    <2>1. \A r \in Requests : requests[r].op \in {"none", "capture", "import", "parties"}
      BY Kinds DEF IInv, Typed
    <2>2. \A a \in answers : a.id \in Used
      BY DEF IInv, AnswersNamed, Existing
    <2> QED BY <2>1, <2>2, Rows DEF IInv, Typed, TypeOK, Labelled
  <1> QED BY <1>1, InvariantHolds, PTL

\* However many captures with one idempotency key overlap or repeat, whatever
\* else runs beside them, all that are answered name one row.
THEOREM OneAnswerPerKeyAlways == Spec => []OneAnswerPerKey
  <1>1. IInv => OneAnswerPerKey
    <2> SUFFICES ASSUME IInv, NEW a \in answers, NEW b \in answers,
                        a.form.source = b.form.source, a.form.entity = b.form.entity,
                        a.form.key = b.form.key
                 PROVE  a.id = b.id
      BY DEF OneAnswerPerKey
    <2>1. a.form.entity # "party"
      BY FormFields DEF IInv, Typed
    <2>2. /\ a.id \in Existing(a.form.source, a.form.entity, ClientKey(a.form.key))
          /\ b.id \in Existing(a.form.source, a.form.entity, ClientKey(a.form.key))
      BY DEF IInv, AnswersNamed
    <2> QED BY <2>1, <2>2 DEF IInv, RowsSound, KeysUnique, Existing
  <1> QED BY <1>1, InvariantHolds, PTL

\* No row ever references a row of another company or of the wrong table,
\* although the check and the insert are two steps.
THEOREM ReferencesStayInCompanyAlways == Spec => []ReferencesStayInCompany
  <1>1. IInv => ReferencesStayInCompany
    BY DEF IInv, RowsSound, RefsOwned, Owned, RowsOf, ReferencesStayInCompany
  <1> QED BY <1>1, InvariantHolds, PTL

\* A source brings an invoice in once, from any number of files and edits of
\* files, uploaded one after the other or at once.
THEOREM ImportedOnceAlways == Spec => []ImportedOnce
  <1>1. IInv => ImportedOnce
    BY DEF IInv, RowsSound, KeysUnique, InvoicesNamed, ImportedOnce
  <1> QED BY <1>1, InvariantHolds, PTL

\* Each row a batch counts is stored exactly once.
THEOREM BatchesTellTheTruthAlways == Spec => []BatchesTellTheTruth
  <1>1. IInv => BatchesTellTheTruth
    <2> SUFFICES ASSUME IInv, NEW b \in batches, NEW n \in b.accepted
                 PROVE  Cardinality(Existing(b.source, b.file.entity, KeyOf(b.file, n))) = 1
      BY DEF BatchesTellTheTruth
    <2> DEFINE found == Existing(b.source, b.file.entity, KeyOf(b.file, n))
    <2>1. b.file.entity # "party"
      BY FileFields DEF IInv, Typed
    <2>2. found # {}
      BY DEF IInv, BatchesStored, Stored
    <2>3. \A i, j \in found : i = j
      BY <2>1 DEF IInv, RowsSound, KeysUnique, Existing
    <2> HIDE DEF found
    <2>4. PICK i : found = {i}
      BY <2>2, <2>3
    <2> QED BY <2>4, FS_Singleton DEF found
  <1> QED BY <1>1, InvariantHolds, PTL

\* A document is one party of its company, unless two look-ups missed it before
\* either inserted it.
THEOREM PartyDocumentOnceAlways == Spec => []PartyDocumentOnce
  <1>1. IInv => PartyDocumentOnce
    BY DEF IInv, RowsSound
  <1> QED BY <1>1, InvariantHolds, PTL
=============================================================================
