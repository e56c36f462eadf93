--------------------------- MODULE PendingUploads ---------------------------
(***************************************************************************)
(* The pending side of the upload service (internal/service/upload): the   *)
(* tables lbry_pending_streams and lbry_pending_blobs and the operations   *)
(* that the reflector store and the assembly workflow make on them.        *)
(*                                                                         *)
(* A pending stream is known by its unique key (user_id, sd_hash) and a    *)
(* pending blob by (user_id, blob_hash).  Each action is one transaction   *)
(* of the service.                                                         *)
(***************************************************************************)
EXTENDS StreamCatalog

CONSTANTS
    NoStream,           \* stream_id 0: a blob that no SD blob has named yet
    UniqueBlobNumber,   \* UNIQUE(user_id, stream_id, blob_number) (SQLite)
    ForeignKeys         \* stream_id must name a pending stream (MySQL)

ASSUME PendingAssumption ==
    /\ NoStream \notin SDs
    /\ UniqueBlobNumber \in BOOLEAN
    /\ ForeignKeys \in BOOLEAN

VARIABLES
    pendingStreams,     \* [Users -> [SDs -> row of lbry_pending_streams]]
    pendingBlobs        \* [Users -> [Blobs -> row of lbry_pending_blobs]]

pendingVars == <<pendingStreams, pendingBlobs>>

\* terminating: whether terminating_blob_number is set.
PendingStreamRow == [row : RowStates, terminating : BOOLEAN]

PendingBlobRow == [row      : RowStates,
                   stream   : SDs \cup {NoStream},
                   num      : Int,
                   received : BOOLEAN]

PendingTypeOK ==
    /\ pendingStreams \in [Users -> [SDs -> PendingStreamRow]]
    /\ pendingBlobs \in [Users -> [Blobs -> PendingBlobRow]]

PendingInit ==
    /\ pendingStreams =
           [u \in Users |-> [s \in SDs |-> [row |-> "none", terminating |-> FALSE]]]
    /\ pendingBlobs =
           [u \in Users |-> [b \in Blobs |->
               [row |-> "none", stream |-> NoStream, num |-> -1, received |-> FALSE]]]

-----------------------------------------------------------------------------
(* Queries: all of them filter out the deleted rows.                       *)

PendingStreamExists(u, s) == pendingStreams[u][s].row = "live"

PendingBlobsOf(u, s) ==
    {b \in Blobs : pendingBlobs[u][b].row = "live" /\ pendingBlobs[u][b].stream = s}

\* The blob list that the assembly rebuilds from the rows.
PendingBlobInfos(u, s) ==
    {<<pendingBlobs[u][b].num, b>> : b \in PendingBlobsOf(u, s)}

\* The rebuilt SD blob has the hash it was uploaded under exactly when it lists
\* the same blobs at the same places and ends with its terminating blob.
SDBlobMatches(u, s) ==
    /\ PendingBlobInfos(u, s) = SDBlobInfos(s)
    /\ pendingStreams[u][s].terminating

GetMissingBlobs(u, s) == ContentBlobs(s) \ PendingBlobsOf(u, s)

GetPendingBlobCount(u, s) == Cardinality(PendingBlobsOf(u, s))

-----------------------------------------------------------------------------
(* StorePendingStream: three transactions, none of which is undone when a  *)
(* later one fails.                                                        *)

\* Upsert on (user_id, sd_hash): the updated columns leave deleted_at and
\* terminating_blob_number alone.
UpsertPendingStream(u, s) ==
    /\ pendingStreams' = [pendingStreams EXCEPT ![u][s].row = Upserted(@)]
    /\ UNCHANGED pendingBlobs

\* A bug to catch: the upsert overwrites the received flag as well.
CreatePendingBlobsForgetting(u, s) ==
    /\ pendingBlobs' = [pendingBlobs EXCEPT ![u] =
           [b \in Blobs |->
               IF b \in ContentBlobs(s)
               THEN [row      |-> Upserted(pendingBlobs[u][b].row),
                     stream   |-> s,
                     num      |-> BlobNumber(s, b),
                     received |-> FALSE]
               ELSE pendingBlobs[u][b]]]
    /\ UNCHANGED pendingStreams

\* A bug to catch: a row that another stream has stays with it.
CreatePendingBlobsKeepingStream(u, s) ==
    /\ pendingBlobs' = [pendingBlobs EXCEPT ![u] =
           [b \in Blobs |->
               LET old == pendingBlobs[u][b]
               IN  IF b \in ContentBlobs(s)
                   THEN [row      |-> Upserted(old.row),
                         stream   |-> IF old.stream = NoStream THEN s ELSE old.stream,
                         num      |-> BlobNumber(s, b),
                         received |-> old.received]
                   ELSE old]]
    /\ UNCHANGED pendingStreams

\* A bug to catch: a row that came before its SD blob keeps its number.
CreatePendingBlobsKeepingNumber(u, s) ==
    /\ pendingBlobs' = [pendingBlobs EXCEPT ![u] =
           [b \in Blobs |->
               LET old == pendingBlobs[u][b]
               IN  IF b \in ContentBlobs(s)
                   THEN [row      |-> Upserted(old.row),
                         stream   |-> s,
                         num      |-> IF old.row = "none" THEN BlobNumber(s, b) ELSE old.num,
                         received |-> old.received]
                   ELSE old]]
    /\ UNCHANGED pendingStreams

\* Upsert of every content blob on (user_id, blob_hash): a row that exists is
\* given to this stream, whatever stream had it, with the number and the IV that this
\* stream lists it under, and keeps its received flag.
CreatePendingBlobsFromSDBlob(u, s) ==
    /\ pendingBlobs' = [pendingBlobs EXCEPT ![u] =
           [b \in Blobs |->
               IF b \in ContentBlobs(s)
               THEN [row      |-> Upserted(pendingBlobs[u][b].row),
                     stream   |-> s,
                     num      |-> BlobNumber(s, b),
                     received |-> pendingBlobs[u][b].received]
               ELSE pendingBlobs[u][b]]]
    /\ UNCHANGED pendingStreams

\* An UPDATE by id: it finds no row when the stream is deleted.
SetTerminatingBlob(u, s) ==
    /\ pendingStreams' = IF PendingStreamExists(u, s)
                         THEN [pendingStreams EXCEPT ![u][s].terminating = TRUE]
                         ELSE pendingStreams
    /\ UNCHANGED pendingBlobs

-----------------------------------------------------------------------------
(* MarkPendingBlobAsReceived: one transaction, either outcome.             *)


\* A blob that no SD blob has named yet is inserted with stream 0, number -1.
CanInsertEarlyBlob(u, b) ==
    /\ pendingBlobs[u][b].row = "none"
    /\ ~ForeignKeys
    /\ UniqueBlobNumber =>
           \A other \in Blobs : pendingBlobs[u][other].row # "none"
                                    => pendingBlobs[u][other].stream # NoStream

CanMarkReceived(u, b) ==
    pendingBlobs[u][b].row = "live" \/ CanInsertEarlyBlob(u, b)

MarkPendingBlobAsReceived(u, b) ==
    /\ CanMarkReceived(u, b)
    /\ pendingBlobs' = [pendingBlobs EXCEPT ![u][b] =
                            [@ EXCEPT !.row = "live", !.received = TRUE]]
    /\ UNCHANGED pendingStreams

-----------------------------------------------------------------------------
\* Bugs to catch: the delete of the streams lacks its condition on the SD hash;
\* the blobs are left to a cascade that a soft delete never triggers.
CleanupEveryPendingStream(u, s) ==
    /\ pendingStreams' = [pendingStreams EXCEPT ![u] =
           [t \in SDs |-> [pendingStreams[u][t] EXCEPT !.row =
                              IF @ = "live" THEN "deleted" ELSE @]]]
    /\ UNCHANGED pendingBlobs

CleanupPendingStreamOnly(u, s) ==
    /\ pendingStreams' = [pendingStreams EXCEPT ![u][s].row =
                              IF @ = "live" THEN "deleted" ELSE @]
    /\ UNCHANGED pendingBlobs

\* CleanupPendingBlobs: one transaction.  The blobs go only when the stream is
\* still there to give its id, and only those that belong to it.
CleanupPendingBlobs(u, s) ==
    /\ pendingBlobs' = [pendingBlobs EXCEPT ![u] =
           [b \in Blobs |->
               IF /\ PendingStreamExists(u, s)
                  /\ b \in PendingBlobsOf(u, s) \cap ContentBlobs(s)
               THEN [pendingBlobs[u][b] EXCEPT !.row = "deleted"]
               ELSE pendingBlobs[u][b]]]
    /\ pendingStreams' = [pendingStreams EXCEPT ![u][s].row =
                              IF @ = "live" THEN "deleted" ELSE @]
=============================================================================
