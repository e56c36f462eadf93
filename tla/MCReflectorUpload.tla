-------------------------- MODULE MCReflectorUpload --------------------------
(***************************************************************************)
(* Values of the constants of ReflectorUpload for TLC.                     *)
(***************************************************************************)
EXTENDS ReflectorUpload, TLC

CONSTANTS u1, s1, s2, b1, b2, c1, c2, i1, i2

\* Two streams with a blob in common.
SharedContent == s1 :> <<b1, b2>> @@ s2 :> <<b2>>

\* Each stream lists its blobs, the common one too, under an IV of its own.
IVOfStream == [s \in SDs |-> [b \in Blobs |-> IF s = s1 THEN i1 ELSE i2]]

\* One stream of two blobs.
SingleContent == s1 :> <<b1, b2>>

OneUser == c1 :> u1
OneUserTwoConns == c1 :> u1 @@ c2 :> u1

\* Two connections of one user may be exchanged: no property names either.
ConnSymmetry == Permutations({c1, c2})
=============================================================================
