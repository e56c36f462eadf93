--------------------------- MODULE MCBlobStoreCalls ---------------------------
(***************************************************************************)
(* Values of the constants of BlobStoreCalls for TLC.                      *)
(***************************************************************************)
EXTENDS BlobStoreCalls, TLC

CONSTANTS s1, s2, b1, b2, c1, c2, i1, i2

\* Two streams with a blob in common.
SharedContent == s1 :> <<b1, b2>> @@ s2 :> <<b2>>

\* ... which they list under different IVs.
IVOfStream == [s \in SDs |-> [b \in Blobs |-> IF s = s1 THEN i1 ELSE i2]]

\* Callers may be exchanged: no property names any.
CallerSymmetry == Permutations({c1, c2})
=============================================================================
