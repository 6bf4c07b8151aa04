-------------------------- MODULE MCStudentStages --------------------------
(* Instances of StudentStages for TLC. *)
EXTENDS StudentStages

CONSTANT teacher

\* Every admission asks for the same teacher job.
OneSource == [a \in Admissions |-> {teacher}]

Expiry == [t \in Teachers |-> 2]

=============================================================================
