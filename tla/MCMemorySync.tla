---------------------------- MODULE MCMemorySync ----------------------------
(* An instance of MemorySync for TLC. *)
EXTENDS MemorySync, TLC

CONSTANTS pc1, phone, x, xx, y, m, j

\* Lines x and xx differ by their indentation only.
Stripped == x :> "x" @@ xx :> "x" @@ y :> "y" @@ m :> "m"

\* A file with some of the lines.
With(L) == [l \in Line |-> IF l \in L THEN 1 ELSE 0]
Notes == {With({x}), With({xx}), With({x, y})}

\* One connection imports on the computer, one thread on the phone.
Places == [i \in Importer |-> IF i = j THEN phone ELSE pc1]

=============================================================================
