------------------------- MODULE PendingUploadsFacts -------------------------
(***************************************************************************)
(* The operations of the pending side of the upload service keep the types *)
(* of its tables.                                                          *)
(***************************************************************************)
EXTENDS PendingUploads, StreamCatalogFacts

\* What an operation makes of a row is a row.
LEMMA PendingStreamRows ==
    ASSUME NEW r \in PendingStreamRow
    PROVE  /\ r.row \in RowStates
           /\ \A state \in RowStates : [r EXCEPT !.row = state] \in PendingStreamRow
           /\ [r EXCEPT !.terminating = TRUE] \in PendingStreamRow
BY DEF PendingStreamRow

LEMMA PendingBlobRows ==
    ASSUME NEW r \in PendingBlobRow, NEW state \in RowStates
    PROVE  /\ [r EXCEPT !.row = state] \in PendingBlobRow
           /\ [r EXCEPT !.row = state, !.received = TRUE] \in PendingBlobRow
BY DEF PendingBlobRow

LEMMA UpsertPendingStreamTypes ==
    ASSUME PendingTypeOK, NEW u \in Users, NEW s \in SDs, UpsertPendingStream(u, s)
    PROVE  PendingTypeOK'
<1> DEFINE r == pendingStreams[u][s]
<1>1. r \in PendingStreamRow
  BY DEF PendingTypeOK
<1>2. [r EXCEPT !.row = Upserted(r.row)] \in PendingStreamRow
  BY <1>1, UpsertedRow, PendingStreamRows
<1>3. QED
  BY <1>2 DEF UpsertPendingStream, PendingTypeOK

LEMMA CreatePendingBlobsTypes ==
    ASSUME PendingTypeOK, NEW u \in Users, NEW s \in SDs, CreatePendingBlobsFromSDBlob(u, s)
    PROVE  PendingTypeOK'
BY BlobNumberInt, UpsertedRow
   DEF CreatePendingBlobsFromSDBlob, PendingTypeOK, PendingBlobRow

LEMMA SetTerminatingTypes ==
    ASSUME PendingTypeOK, NEW u \in Users, NEW s \in SDs, SetTerminatingBlob(u, s)
    PROVE  PendingTypeOK'
<1> DEFINE r == pendingStreams[u][s]
<1>1. r \in PendingStreamRow
  BY DEF PendingTypeOK
<1>2. [r EXCEPT !.terminating = TRUE] \in PendingStreamRow
  BY <1>1, PendingStreamRows
<1>3. QED
  BY <1>2 DEF SetTerminatingBlob, PendingTypeOK

LEMMA MarkReceivedTypes ==
    ASSUME PendingTypeOK, NEW u \in Users, NEW b \in Blobs, MarkPendingBlobAsReceived(u, b)
    PROVE  PendingTypeOK'
<1> DEFINE r == pendingBlobs[u][b]
<1>1. r \in PendingBlobRow /\ "live" \in RowStates
  BY DEF PendingTypeOK, RowStates
<1>2. [r EXCEPT !.row = "live", !.received = TRUE] \in PendingBlobRow
  BY <1>1, PendingBlobRows
<1>3. QED
  BY <1>2 DEF MarkPendingBlobAsReceived, PendingTypeOK

LEMMA CleanupPendingTypes ==
    ASSUME PendingTypeOK, NEW u \in Users, NEW s \in SDs, CleanupPendingBlobs(u, s)
    PROVE  PendingTypeOK'
<1>1. pendingStreams' \in [Users -> [SDs -> PendingStreamRow]]
  <2> DEFINE r     == pendingStreams[u][s]
             state == IF r.row = "live" THEN "deleted" ELSE r.row
  <2>1. r \in PendingStreamRow
    BY DEF PendingTypeOK
  <2>2. state \in RowStates
    BY <2>1, PendingStreamRows DEF RowStates
  <2>3. [r EXCEPT !.row = state] \in PendingStreamRow
    BY <2>1, <2>2, PendingStreamRows
  <2>4. QED
    BY <2>3 DEF CleanupPendingBlobs, PendingTypeOK
<1>2. pendingBlobs' \in [Users -> [Blobs -> PendingBlobRow]]
  <2>1. "deleted" \in RowStates
    BY DEF RowStates
  <2>2. ASSUME NEW r \in PendingBlobRow
        PROVE  [r EXCEPT !.row = "deleted"] \in PendingBlobRow
    BY <2>1, PendingBlobRows
  <2>3. QED
    BY <2>2 DEF CleanupPendingBlobs, PendingTypeOK
<1>3. QED
  BY <1>1, <1>2 DEF PendingTypeOK
=============================================================================
