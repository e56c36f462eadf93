------------------------------ MODULE BlobStore ------------------------------
(***************************************************************************)
(* The permanent store (internal/protocol/blob_store.go): the tables       *)
(* lbry_streams, lbry_stream_blobs and lbry_blobs, and the objects kept in *)
(* the portal's object storage.  Each operator is one transaction or one   *)
(* storage call; the callers that string them together are in the modules  *)
(* that extend this one.  Blob hash, size and data go together, so an      *)
(* object is the hash of a blob whose data is stored.  A blob has one row, *)
(* with the IV of the SD blob that wrote it last.                          *)
(***************************************************************************)
EXTENDS StreamCatalog

VARIABLES
    streams,    \* [SDs -> row of lbry_streams with its lbry_stream_blobs]
    blobRows,   \* [Blobs -> row of lbry_blobs]
    objects     \* blobs whose data object storage holds

blobStoreVars == <<streams, blobRows, objects>>

StreamRow == [stored : BOOLEAN, blobs : SUBSET Blobs, terminating : BOOLEAN]

BlobRow == [row : RowStates, iv : IVs \cup {NoIV}]

BlobStoreTypeOK ==
    /\ streams \in [SDs -> StreamRow]
    /\ blobRows \in [Blobs -> BlobRow]
    /\ objects \subseteq Blobs

BlobStoreInit ==
    /\ streams = [s \in SDs |-> [stored |-> FALSE, blobs |-> {}, terminating |-> FALSE]]
    /\ blobRows = [b \in Blobs |-> [row |-> "none", iv |-> NoIV]]
    /\ objects = {}

-----------------------------------------------------------------------------
(* Queries.                                                                *)

HasBlobMetadata(b) == blobRows[b].row = "live"

\* Has and Get of a content blob: its row, then its object.
HasBlob(b) == HasBlobMetadata(b) /\ b \in objects

\* Get of an SD blob: what is rebuilt from the rows hashes to the SD hash when
\* every blob of the stream is associated and has a live row with its IV.
SDBlobReadable(s) ==
    /\ streams[s].stored
    /\ streams[s].terminating
    /\ streams[s].blobs = ContentBlobs(s)
    /\ \A b \in streams[s].blobs : HasBlobMetadata(b) /\ blobRows[b].iv = IV[s][b]

-----------------------------------------------------------------------------
(* PutSD: the stream row is upserted first, its blobs in a transaction of  *)
(* their own.                                                              *)

\* A bug to catch: the upsert writes every column.
UpsertStreamAfresh(s) ==
    /\ streams' = [streams EXCEPT ![s].stored = TRUE, ![s].terminating = FALSE]
    /\ UNCHANGED <<blobRows, objects>>

UpsertStream(s) ==
    /\ streams' = [streams EXCEPT ![s].stored = TRUE]
    /\ UNCHANGED <<blobRows, objects>>

\* The transaction reloads each blob after its upsert and so fails on a deleted
\* row; an association is added with each blob, never taken away.  The rows take the
\* IVs of this SD blob, whatever other stream lists the blobs.
CanProcessStreamBlobs(s) == \A b \in ContentBlobs(s) : blobRows[b].row # "deleted"

\* A bug to catch: an IV that is there stays.
ProcessStreamBlobsKeepingIVs(s) ==
    /\ CanProcessStreamBlobs(s)
    /\ blobRows' = [b \in Blobs |->
           IF b \in ContentBlobs(s)
           THEN [row |-> "live",
                 iv  |-> IF blobRows[b].iv = NoIV THEN IV[s][b] ELSE blobRows[b].iv]
           ELSE blobRows[b]]
    /\ streams' = [streams EXCEPT ![s].blobs = @ \cup ContentBlobs(s),
                                  ![s].terminating = TRUE]
    /\ UNCHANGED objects

ProcessStreamBlobs(s) ==
    /\ CanProcessStreamBlobs(s)
    /\ blobRows' = [b \in Blobs |->
           IF b \in ContentBlobs(s) THEN [row |-> "live", iv |-> IV[s][b]] ELSE blobRows[b]]
    /\ streams' = [streams EXCEPT ![s].blobs = @ \cup ContentBlobs(s),
                                  ![s].terminating = TRUE]
    /\ UNCHANGED objects

-----------------------------------------------------------------------------
(* Put of a content blob: the object, then its row.                        *)

\* A bug to catch: the object is taken to be there when its row is.
UploadObjectUnlessKnown(b) ==
    /\ objects' = IF HasBlobMetadata(b) THEN objects ELSE objects \cup {b}
    /\ UNCHANGED <<streams, blobRows>>

UploadObject(b) ==
    /\ objects' = objects \cup {b}
    /\ UNCHANGED <<streams, blobRows>>

\* A bug to catch: the IV goes when the row is updated without one.
UpsertBlobRecordNuking(b) ==
    /\ blobRows' = [blobRows EXCEPT ![b] = [row |-> Upserted(@.row), iv |-> NoIV]]
    /\ UNCHANGED <<streams, objects>>

\* Put has no IV to give and keeps the one the row has; a deleted row stays so.
UpsertBlobRecord(b) ==
    /\ blobRows' = [blobRows EXCEPT ![b].row = Upserted(@)]
    /\ UNCHANGED <<streams, objects>>

-----------------------------------------------------------------------------
(* Delete of a content blob: the object, then its row.                     *)

DeleteObject(b) ==
    /\ objects' = objects \ {b}
    /\ UNCHANGED <<streams, blobRows>>

DeleteBlobRecord(b) ==
    /\ blobRows' = [blobRows EXCEPT ![b].row = IF @ = "live" THEN "deleted" ELSE @]
    /\ UNCHANGED <<streams, objects>>

-----------------------------------------------------------------------------
(* What the callers rely on, and what readers see.                         *)

\* A stream is there with all of its blobs.
StreamWhole(s) ==
    /\ streams[s].stored
    /\ streams[s].terminating
    /\ streams[s].blobs = ContentBlobs(s)

\* A stream that lists a blob of s under another IV: only the one that was put last
\* matches its SD hash.
HasRival(s) == \E t \in SDs : StreamWhole(t) /\ Clash(s, t)

\* A stream is there with all of its blobs, and can be read unless it has a rival.
Published(s) ==
    /\ StreamWhole(s)
    /\ \A b \in ContentBlobs(s) : HasBlobMetadata(b)
    /\ SDBlobReadable(s) \/ HasRival(s)

HasIVOfStream(b) ==
    \E t \in SDs : StreamWhole(t) /\ b \in ContentBlobs(t) /\ blobRows[b].iv = IV[t][b]

\* A stream's blobs come all at once, and with them rows that have the IV of one of
\* the streams that list the blob.
RowsFollowStreams ==
    \A s \in SDs : streams[s].terminating \/ streams[s].blobs # {} =>
        /\ StreamWhole(s)
        /\ \A b \in ContentBlobs(s) : blobRows[b].row # "none" /\ HasIVOfStream(b)

Shelf ==
    INSTANCE BlobShelf
        WITH served    <- {b \in Blobs : HasBlob(b)},
             retired   <- {b \in Blobs : blobRows[b].row = "deleted"},
             published <- {s \in SDs : StreamWhole(s)},
             readable  <- {s \in SDs : SDBlobReadable(s)}
=============================================================================
