------------------------------ MODULE MCTenancy ------------------------------
(* An account that its email makes an administrator, and one of the beta. *)
EXTENDS Tenancy, TLC

\* The requests are interchangeable.
Symmetry == Permutations(Requests)

\* What is unusual comes three times in all: a company of the migrations, a
\* change of a password, a change of a membership.
MigratedCompanies == {c \in DOMAIN companies : companies[c].creator = None}
AtMostThree == begun.changes + begun.grants + Cardinality(MigratedCompanies) <= 3

=============================================================================
