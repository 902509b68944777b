---------------------------- MODULE MCPeerTrust -----------------------------
(* Instances of PeerTrust for TLC. *)
EXTENDS PeerTrust, TLC

CONSTANTS p1, p2, c1, c2, t1

\* The phones, and the connections, are interchangeable.
Symmetry == Permutations(Phone) \cup Permutations(Conn)

\* After two saves have overlapped, no property of the run looks at what the phones and
\* the user were told before, and no guard ever does.
Seen ==
    <<file, up, peers, window, thread, faults, starts, admitted, latest, served, overlapped,
      IF overlapped THEN <<>> ELSE <<revoked, welcomed, losses>> >>

=============================================================================
