-------------------------------- MODULE MCBooks --------------------------------
(* Small books: up to three rows, and two requests that may overlap. *)
EXTENDS BooksReports, TLC

Line(quantity, price) == [quantity |-> quantity, price |-> price]
Unit == 10000000        \* a quantity of one, as it is sent
Base == [type |-> "sale", number |-> "F1", party |-> TRUE, issue |-> -100, due |-> -1,
         terms |-> None, currency |-> "COP", lines |-> <<Line(Unit, 20)>>, tax |-> 0,
         withholding |-> 0, status |-> "accepted", reference |-> "A"]

\* Due on either side of the limits of the buckets and of the periods; a note
\* that no report of balances looks at, for half a cent its column rounds away.
MCInvoices ==
    {[Base EXCEPT !.due = d] : d \in {-91, 91}}
    \cup {[Base EXCEPT !.due = -90, !.number = "F2"],
          [Base EXCEPT !.due = None, !.status = "accented"],
          [Base EXCEPT !.due = 0, !.party = FALSE],
          [Base EXCEPT !.due = 30, !.number = None, !.status = "unknown", !.currency = "USD"],
          [Base EXCEPT !.issue = 1, !.due = None, !.terms = 10, !.withholding = 20],
          [Base EXCEPT !.due = 90, !.lines = <<Line(2 * Unit, 14), Line(Unit, 14)>>, !.tax = 6],
          [Base EXCEPT !.withholding = 30],
          [Base EXCEPT !.type = "credit_note", !.due = None, !.lines = <<Line(1666665, 30)>>],
          [Base EXCEPT !.type = "purchase", !.due = -91],
          [Base EXCEPT !.type = "purchase", !.due = 31]}
MCPayments == [amount : {10, 20}, currency : {"COP"}, date : {-2}]
              \cup {[amount |-> 20, currency |-> "USD", date |-> -101]}
Entry(debit, credit) == [debit |-> debit, credit |-> credit]
MCJournals == {<<Entry(10, 0), Entry(0, 10)>>, <<Entry(10, 0), Entry(0, 20)>>,
               <<Entry(16, 0), Entry(0, 8), Entry(0, 8)>>}
MCParties == [has : {PartyFields, {"city", "address", "type"}},
              document : {"D1"}]
MCFollowUps == {[status |-> "pending", date |-> None],
                [status |-> "promise_to_pay", date |-> -1],
                [status |-> "contacted", date |-> 1]}
MCTerms == {[fields |-> {"due"}, due |-> 5, terms |-> None],
            [fields |-> {"due"}, due |-> None, terms |-> None],
            [fields |-> {"terms"}, due |-> None, terms |-> 30],
            [fields |-> {"due", "terms"}, due |-> -90, terms |-> 10]}
MCFollowUpPatches == {[fields |-> {"status", "date"}, status |-> "resolved", date |-> None],
                      [fields |-> {"date"}, status |-> None, date |-> 9],
                      [fields |-> {"status", "date"}, status |-> "promise_to_pay", date |-> -1]}
Evidence(number, status, reference) ==
    [number |-> number, status |-> status, reference |-> reference]
MCEvidence == {<<Evidence("F1", "rejected", "A"), Evidence("F1", "accepted", "A")>>,
               <<Evidence("F1", "accepted", "B"), Evidence("F2", "pending", "B")>>,
               <<Evidence(None, "accepted", "A"), Evidence("F1", "odd", "A")>>}
Movement(status, candidates) == [status |-> status, candidates |-> candidates]
MCBank == {<<>>, <<Movement("reconciled", 1), Movement("excluded", 0)>>,
           <<Movement("reconciled", 1), Movement("suggested", 1)>>,
           <<Movement("pending", 0), Movement("pending", 2)>>,
           <<Movement("pending", 1)>>, <<Movement("dismissed", 1)>>}
MCYear == -200..164
Symmetry == Permutations(Requests)

=============================================================================
