----------------------------- MODULE MCQrMatrix -----------------------------
(* An instance of QrMatrix for TLC. *)
EXTENDS QrMatrix

\* The longest payload of each version, one byte more where the versions change the
\* width of the count or end, and nothing.
MCLengths == {Capacity[v] : v \in 1 .. 20} \cup {0, 181, 667}
=============================================================================
