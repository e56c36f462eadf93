--------------------------- MODULE MCDeviceUploads ---------------------------
(***************************************************************************)
(* Values of the constants of DeviceUploads for TLC.                       *)
(***************************************************************************)
EXTENDS DeviceUploads, TLC

CONSTANTS u1, u2, s1, b1, b2, a1, a2, p1, q1, q2, i1

\* A stream of one blob; b2 is in no stream that is sent, and so always early.
SmallContent == s1 :> <<b1>>

OneIV == [s \in SDs |-> [b \in Blobs |-> i1]]

PeerAtFirst == p1 :> a1

\* Two users and two requests may be exchanged: no property names any.
UserRequestSymmetry == Permutations({u1, u2}) \cup Permutations({q1, q2})
=============================================================================
