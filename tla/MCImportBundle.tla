--------------------------- MODULE MCImportBundle ---------------------------
(* Instances of ImportBundle for TLC. *)
EXTENDS ImportBundle, TLC

CONSTANTS s1, s2, x, y, i1, i2, i3

Msg(s, t, f) == [session |-> s, text |-> t, form |-> f]

\* Session s1 was begun on the computer; its first message is there.
Local == {Msg(s1, x, "real")}

\* The phone continued s1.
Continued ==
    [sessions |-> <<s1>>, messages |-> <<Msg(s1, x, "real"), Msg(s1, y, "real")>>]

\* The phone continued s1, began s2, which no other bundle carries, and has a message of
\* s1 twice.
Everything ==
    [sessions |-> <<s1, s2>>,
     messages |-> <<Msg(s1, y, "real"), Msg(s1, y, "real"), Msg(s2, x, "real")>>]

\* A bundle that lists no session for its message.
Unlisted == [sessions |-> <<>>, messages |-> <<Msg(s1, y, "real")>>]

\* A message whose stamp falls on a full second and is written without a fraction.
FullSecond == [sessions |-> <<s1>>, messages |-> <<Msg(s1, x, "int")>>]

\* What the phones send.
AllKinds == {Continued, Everything, Unlisted, FullSecond}
RetryOnly == {Continued}

Symmetry == Permutations(Importer)

=============================================================================
