------------------------- MODULE MCDianHabilitation -------------------------
(* Instances of DianHabilitation for TLC. *)
EXTENDS DianHabilitation, TLC

\* Documents, jobs and workers are interchangeable: no action or property
\* tells one from another.
Symmetric == Permutations(Documents) \cup Permutations(Jobs) \cup Permutations(Workers)

\* A spare row is read by nothing: what it holds does not tell states apart.
ReadJobs == [j \in Jobs |-> IF Spare(j) THEN AbsentJob ELSE jobs[j]]
ReadState == <<documents, range, bounds, ReadJobs, workers, dian, sent, crashes, overruns>>

\* One worker dies or overruns its lease, not both.
OneFault == crashes + overruns <= 1
=============================================================================
