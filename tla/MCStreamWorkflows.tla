-------------------------- MODULE MCStreamWorkflows --------------------------
(***************************************************************************)
(* Values of the constants of StreamWorkflows for TLC.                     *)
(***************************************************************************)
EXTENDS StreamWorkflows, TLC

CONSTANTS u1, u2, s1, s2, s3, b1, b2, b3, b4, post, pinMade, pinFound, i1

\* The upload makes s1 or, at its second attempt, s2; peers have s3.
ThreeStreams == s1 :> <<b1, b2>> @@ s2 :> <<b3>> @@ s3 :> <<b4>>

\* No two streams list the same blob, so one IV does for all.
OneIV == [s \in SDs |-> [b \in Blobs |-> i1]]

OneUpload == post :> <<s1, s2>>

\* A pin request for the stream that the upload makes, and one of the uploader
\* for a stream that peers have.
TwoPins == pinMade :> s1 @@ pinFound :> s3

TwoUsers == post :> u1 @@ pinMade :> u2 @@ pinFound :> u1
=============================================================================
