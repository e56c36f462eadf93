---------------------------- MODULE BlobStoreFacts ----------------------------
(***************************************************************************)
(* Facts about the operations of the permanent store: what each makes of a *)
(* table, that the tables stay whole and what readers see of it, in terms  *)
(* of BlobShelf.                                                           *)
(***************************************************************************)
EXTENDS BlobStore, StreamCatalogFacts

-----------------------------------------------------------------------------
(* What the operations make of the tables.                                 *)

TablesInv == BlobStoreTypeOK /\ RowsFollowStreams

LEMMA TablesInit == BlobStoreInit => TablesInv
BY DEF BlobStoreInit, TablesInv, BlobStoreTypeOK, RowsFollowStreams, StreamRow, BlobRow, RowStates

LEMMA UpsertStreamRows ==
    ASSUME BlobStoreTypeOK, NEW s \in SDs, UpsertStream(s)
    PROVE  /\ BlobStoreTypeOK'
           /\ streams'[s].stored
           /\ \A t \in SDs : /\ streams[t].stored => streams'[t].stored
                             /\ t # s => streams'[t].stored = streams[t].stored
                             /\ streams'[t].blobs = streams[t].blobs
                             /\ streams'[t].terminating = streams[t].terminating
<1>1. streams[s] \in StreamRow
  BY DEF BlobStoreTypeOK
<1> DEFINE r == [streams[s] EXCEPT !.stored = TRUE]
<1>2. r \in StreamRow
  BY <1>1 DEF StreamRow
<1>3. streams' = [streams EXCEPT ![s] = r]
  BY DEF UpsertStream, BlobStoreTypeOK
<1>4. BlobStoreTypeOK'
  BY <1>2, <1>3 DEF UpsertStream, BlobStoreTypeOK
<1>5. r.stored /\ r.blobs = streams[s].blobs /\ r.terminating = streams[s].terminating
  BY <1>1 DEF StreamRow
<1>6. streams'[s] = r /\ \A t \in SDs : t # s => streams'[t] = streams[t]
  BY <1>3 DEF BlobStoreTypeOK
<1>7. QED
  BY <1>4, <1>5, <1>6

LEMMA ProcessStreamBlobsRows ==
    ASSUME TablesInv, NEW s \in SDs, streams[s].stored, ProcessStreamBlobs(s)
    PROVE  /\ BlobStoreTypeOK'
           /\ StreamWhole(s)'
           /\ \A t \in SDs : t # s => streams'[t] = streams[t]
           /\ \A b \in Blobs :
                  /\ b \in ContentBlobs(s) => /\ blobRows[b].row # "deleted"
                                              /\ blobRows'[b].row = "live" /\ blobRows'[b].iv = IV[s][b]
                  /\ b \notin ContentBlobs(s) => blobRows'[b] = blobRows[b]
<1> DEFINE r == [streams[s] EXCEPT !.blobs = streams[s].blobs \cup ContentBlobs(s),
                                   !.terminating = TRUE]
<1>1. streams[s] \in StreamRow /\ ContentBlobs(s) \subseteq Blobs
  BY ContentFacts DEF TablesInv, BlobStoreTypeOK
<1>2. streams[s].blobs \subseteq ContentBlobs(s)
  BY DEF TablesInv, RowsFollowStreams, StreamWhole
<1>3. /\ r \in StreamRow
      /\ r.stored = streams[s].stored /\ r.terminating /\ r.blobs = ContentBlobs(s)
  BY <1>1, <1>2 DEF StreamRow
<1>4. streams' = [streams EXCEPT ![s] = r]
  BY DEF ProcessStreamBlobs, TablesInv, BlobStoreTypeOK
<1>5. streams'[s] = r /\ \A t \in SDs : t # s => streams'[t] = streams[t]
  BY <1>4 DEF TablesInv, BlobStoreTypeOK
<1>6. \A b \in Blobs :
          /\ b \in ContentBlobs(s) => /\ blobRows[b].row # "deleted"
                                      /\ blobRows'[b].row = "live" /\ blobRows'[b].iv = IV[s][b]
          /\ b \notin ContentBlobs(s) => blobRows'[b] = blobRows[b]
  BY DEF ProcessStreamBlobs, CanProcessStreamBlobs
<1>7. BlobStoreTypeOK'
  <2>1. blobRows' \in [Blobs -> BlobRow]
    <3>1. \A b \in ContentBlobs(s) : IV[s][b] \in IVs
      BY <1>1, IVAssumption
    <3>2. QED
      BY <3>1 DEF ProcessStreamBlobs, TablesInv, BlobStoreTypeOK, BlobRow, RowStates
  <2>2. QED
    BY <1>3, <1>4, <2>1 DEF ProcessStreamBlobs, TablesInv, BlobStoreTypeOK
<1>8. StreamWhole(s)'
  BY <1>3, <1>5 DEF StreamWhole
<1>9. QED
  BY <1>5, <1>6, <1>7, <1>8

LEMMA ProcessStreamBlobsWhole ==
    ASSUME TablesInv, NEW s \in SDs, streams[s].stored, ProcessStreamBlobs(s)
    PROVE  \A t \in SDs : /\ StreamWhole(t) => StreamWhole(t)'
                          /\ t # s => (StreamWhole(t)' <=> StreamWhole(t))
BY ProcessStreamBlobsRows DEF StreamWhole

LEMMA UpsertBlobRecordRows ==
    ASSUME BlobStoreTypeOK, NEW b \in Blobs, UpsertBlobRecord(b)
    PROVE  /\ BlobStoreTypeOK'
           /\ blobRows'[b].row = IF blobRows[b].row = "none" THEN "live" ELSE blobRows[b].row
           /\ \A o \in Blobs : /\ blobRows'[o].iv = blobRows[o].iv
                               /\ o # b => blobRows'[o] = blobRows[o]
<1>1. blobRows[b] \in BlobRow /\ Upserted(blobRows[b].row) \in RowStates
  BY UpsertedRow DEF BlobStoreTypeOK, BlobRow
<1>2. QED
  BY <1>1 DEF UpsertBlobRecord, BlobStoreTypeOK, BlobRow, Upserted

LEMMA DeleteBlobRecordRows ==
    ASSUME BlobStoreTypeOK, NEW b \in Blobs, DeleteBlobRecord(b)
    PROVE  /\ BlobStoreTypeOK'
           /\ blobRows'[b].row = IF blobRows[b].row = "live" THEN "deleted" ELSE blobRows[b].row
           /\ \A o \in Blobs : /\ blobRows'[o].iv = blobRows[o].iv
                               /\ o # b => blobRows'[o] = blobRows[o]
BY DEF DeleteBlobRecord, BlobStoreTypeOK, BlobRow, RowStates

-----------------------------------------------------------------------------
(* The tables stay whole.                                                  *)

\* Rows that stay, and keep their IV, are still what the streams need.
LEMMA TablesKeep ==
    ASSUME TablesInv, BlobStoreTypeOK',
           \A t \in SDs : /\ streams[t].stored => streams'[t].stored
                          /\ streams'[t].blobs = streams[t].blobs
                          /\ streams'[t].terminating = streams[t].terminating,
           \A b \in Blobs : /\ blobRows[b].row # "none" => blobRows'[b].row # "none"
                            /\ blobRows'[b].iv = blobRows[b].iv
    PROVE  TablesInv'
<1>1. \A t \in SDs : ContentBlobs(t) \subseteq Blobs
  BY ContentFacts
<1>2. \A t \in SDs : StreamWhole(t) => StreamWhole(t)'
  BY DEF StreamWhole
<1>3. RowsFollowStreams'
  <2>1. \A b \in Blobs : HasIVOfStream(b) => HasIVOfStream(b)'
    BY <1>2 DEF HasIVOfStream
  <2>2. QED
    BY <1>1, <1>2, <2>1 DEF TablesInv, RowsFollowStreams
<1>4. QED
  BY <1>3 DEF TablesInv

LEMMA UpsertStreamTables ==
    ASSUME TablesInv, NEW s \in SDs, UpsertStream(s)
    PROVE  TablesInv'
<1>1. \A b \in Blobs : blobRows'[b] = blobRows[b]
  BY DEF UpsertStream
<1>2. QED
  BY <1>1, UpsertStreamRows, TablesKeep DEF TablesInv

LEMMA ProcessStreamBlobsTables ==
    ASSUME TablesInv, NEW s \in SDs, streams[s].stored, ProcessStreamBlobs(s)
    PROVE  TablesInv'
<1> SUFFICES ASSUME NEW t \in SDs, streams'[t].terminating \/ streams'[t].blobs # {}
             PROVE  /\ StreamWhole(t)'
                    /\ \A b \in ContentBlobs(t) : blobRows'[b].row # "none" /\ HasIVOfStream(b)'
  BY ProcessStreamBlobsRows DEF TablesInv, RowsFollowStreams
<1>1. ContentBlobs(s) \subseteq Blobs /\ ContentBlobs(t) \subseteq Blobs
  BY ContentFacts
<1>2. \A b \in ContentBlobs(s) : blobRows'[b].row # "none" /\ HasIVOfStream(b)'
  BY <1>1, ProcessStreamBlobsRows DEF HasIVOfStream
<1>3. \A o \in SDs : StreamWhole(o) => StreamWhole(o)'
  BY ProcessStreamBlobsWhole
<1>4. CASE t = s
  BY <1>2, <1>4, ProcessStreamBlobsRows
<1>5. CASE t # s
  <2>1. streams'[t] = streams[t]
    BY <1>5, ProcessStreamBlobsRows
  <2>2. /\ StreamWhole(t)
        /\ \A b \in ContentBlobs(t) : blobRows[b].row # "none" /\ HasIVOfStream(b)
    BY <2>1 DEF TablesInv, RowsFollowStreams
  <2>3. ASSUME NEW b \in ContentBlobs(t), b \notin ContentBlobs(s)
        PROVE  blobRows'[b].row # "none" /\ HasIVOfStream(b)'
    <3>1. blobRows'[b] = blobRows[b]
      BY <1>1, <2>3, ProcessStreamBlobsRows
    <3>2. QED
      BY <1>3, <2>2, <3>1 DEF HasIVOfStream
  <2>4. QED
    BY <1>2, <1>3, <2>2, <2>3
<1>6. QED
  BY <1>4, <1>5

LEMMA BlobTables ==
    ASSUME TablesInv, NEW b \in Blobs,
           \/ UploadObject(b)
           \/ UpsertBlobRecord(b)
           \/ DeleteObject(b)
           \/ DeleteBlobRecord(b)
    PROVE  TablesInv'
<1>1. BlobStoreTypeOK
  BY DEF TablesInv
<1>2. CASE UploadObject(b) \/ DeleteObject(b)
  <2>1. BlobStoreTypeOK'
    BY <1>1, <1>2 DEF UploadObject, DeleteObject, BlobStoreTypeOK
  <2>2. QED
    BY <1>2, <2>1, TablesKeep DEF UploadObject, DeleteObject
<1>3. CASE UpsertBlobRecord(b)
  <2>1. streams' = streams
    BY <1>3 DEF UpsertBlobRecord
  <2>2. \A o \in Blobs : /\ blobRows[o].row # "none" => blobRows'[o].row # "none"
                         /\ blobRows'[o].iv = blobRows[o].iv
    BY <1>1, <1>3, UpsertBlobRecordRows
  <2>3. QED
    BY <1>1, <1>3, <2>1, <2>2, UpsertBlobRecordRows, TablesKeep
<1>4. CASE DeleteBlobRecord(b)
  <2>1. streams' = streams
    BY <1>4 DEF DeleteBlobRecord
  <2>2. \A o \in Blobs : /\ blobRows[o].row # "none" => blobRows'[o].row # "none"
                         /\ blobRows'[o].iv = blobRows[o].iv
    BY <1>1, <1>4, DeleteBlobRecordRows
  <2>3. QED
    BY <1>1, <1>4, <2>1, <2>2, DeleteBlobRecordRows, TablesKeep
<1>5. QED
  BY <1>2, <1>3, <1>4

-----------------------------------------------------------------------------
(* What readers see.                                                       *)

\* An SD blob is readable when its stream is whole, and each blob of it has its row,
\* which has the IV of this stream.
ReadableWhen ==
    \A s \in SDs : SDBlobReadable(s) <=>
        /\ StreamWhole(s)
        /\ \A b \in ContentBlobs(s) :
               blobRows[b].row # "deleted" /\ blobRows[b].iv = IV[s][b]

LEMMA ReadableNow == TablesInv => ReadableWhen
<1> SUFFICES ASSUME TablesInv, NEW s \in SDs
             PROVE  SDBlobReadable(s) <=>
                        /\ StreamWhole(s)
                        /\ \A b \in ContentBlobs(s) :
                               blobRows[b].row # "deleted" /\ blobRows[b].iv = IV[s][b]
  BY DEF ReadableWhen
<1>1. ContentBlobs(s) \subseteq Blobs
  BY ContentFacts
<1>2. StreamWhole(s) => \A b \in ContentBlobs(s) : blobRows[b].row \in {"live", "deleted"}
  BY <1>1 DEF StreamWhole, TablesInv, RowsFollowStreams, BlobStoreTypeOK, BlobRow, RowStates
<1>3. QED
  BY <1>2 DEF SDBlobReadable, StreamWhole, HasBlobMetadata

LEMMA ReadableNext == TablesInv' => ReadableWhen'
BY ReadableNow, PTL

\* A stream is published when it is whole and no blob of it is deleted: if its SD
\* blob cannot be read then, a row has the IV of another stream that is whole.
PublishedWhen ==
    \A s \in SDs : Published(s) <=>
        StreamWhole(s) /\ \A b \in ContentBlobs(s) : blobRows[b].row # "deleted"

LEMMA PublishedNow == TablesInv => PublishedWhen
<1> SUFFICES ASSUME TablesInv, NEW s \in SDs, StreamWhole(s),
                    \A b \in ContentBlobs(s) : blobRows[b].row # "deleted"
             PROVE  Published(s)
  BY DEF PublishedWhen, Published, HasBlobMetadata
<1>1. ContentBlobs(s) \subseteq Blobs
  BY ContentFacts
<1>2. \A b \in ContentBlobs(s) : HasBlobMetadata(b) /\ HasIVOfStream(b)
  BY <1>1 DEF StreamWhole, TablesInv, RowsFollowStreams, BlobStoreTypeOK, BlobRow, RowStates,
         HasBlobMetadata
<1>3. CASE \A b \in ContentBlobs(s) : blobRows[b].iv = IV[s][b]
  BY <1>2, <1>3 DEF Published, SDBlobReadable, StreamWhole
<1>4. ASSUME NEW b \in ContentBlobs(s), blobRows[b].iv # IV[s][b]
      PROVE  HasRival(s)
  BY <1>2, <1>4 DEF HasIVOfStream, HasRival, Clash
<1>5. QED
  BY <1>2, <1>3, <1>4 DEF Published

LEMMA PublishedNext == TablesInv' => PublishedWhen'
BY PublishedNow, PTL

LEMMA ShelfInit == BlobStoreInit => Shelf!Init
<1> SUFFICES ASSUME BlobStoreInit PROVE Shelf!Init
  OBVIOUS
<1>1. /\ \A b \in Blobs : ~HasBlob(b) /\ blobRows[b].row # "deleted"
      /\ \A s \in SDs : ~StreamWhole(s) /\ ~SDBlobReadable(s)
  BY DEF BlobStoreInit, HasBlob, HasBlobMetadata, SDBlobReadable, StreamWhole
<1>2. QED
  BY <1>1 DEF Shelf!Init

\* Steps that readers do not see.
ShelfSame ==
    /\ \A b \in Blobs : HasBlob(b)' = HasBlob(b)
    /\ \A b \in Blobs : (blobRows'[b].row = "deleted") = (blobRows[b].row = "deleted")
    /\ \A s \in SDs : StreamWhole(s)' = StreamWhole(s)
    /\ \A s \in SDs : SDBlobReadable(s)' = SDBlobReadable(s)

LEMMA SameShelf ==
    ASSUME ShelfSame
    PROVE  UNCHANGED Shelf!shelfVars
BY DEF ShelfSame, Shelf!shelfVars

LEMMA ShelfFrame ==
    ASSUME UNCHANGED blobStoreVars
    PROVE  UNCHANGED Shelf!shelfVars
<1>1. ShelfSame
  BY DEF blobStoreVars, ShelfSame, HasBlob, HasBlobMetadata, StreamWhole, SDBlobReadable
<1>2. QED
  BY <1>1, SameShelf

LEMMA ShelfKeeps ==
    ASSUME TablesInv, NEW s \in SDs, UpsertStream(s)
    PROVE  UNCHANGED Shelf!shelfVars
<1>1. ReadableWhen /\ ReadableWhen'
  BY UpsertStreamTables, ReadableNow, ReadableNext
<1>2. UNCHANGED <<blobRows, objects>>
  BY DEF UpsertStream
<1>3. streams[s].terminating => streams[s].stored
  BY DEF TablesInv, RowsFollowStreams, StreamWhole
<1>4. \A t \in SDs : StreamWhole(t)' <=> StreamWhole(t)
  BY <1>3, UpsertStreamRows DEF TablesInv, StreamWhole
<1>5. ShelfSame
  <2>1. \A t \in SDs : SDBlobReadable(t)' = SDBlobReadable(t)
    <3> SUFFICES ASSUME NEW t \in SDs PROVE SDBlobReadable(t)' <=> SDBlobReadable(t)
      BY DEF SDBlobReadable
    <3>1. QED
      BY <1>1, <1>2, <1>4 DEF ReadableWhen
  <2>2. QED
    BY <1>2, <1>4, <2>1 DEF ShelfSame, HasBlob, HasBlobMetadata, StreamWhole
<1>6. QED
  BY <1>5, SameShelf

LEMMA ShelfPublish ==
    ASSUME TablesInv, NEW s \in SDs, streams[s].stored, ProcessStreamBlobs(s)
    PROVE  Shelf!Publish(s)
<1>1. ContentBlobs(s) \subseteq Blobs /\ UNCHANGED objects
  BY ContentFacts DEF ProcessStreamBlobs
<1>2. \A b \in Blobs : (blobRows'[b].row = "deleted") = (blobRows[b].row = "deleted")
  BY ProcessStreamBlobsRows
<1>3. ReadableWhen /\ ReadableWhen'
  BY ProcessStreamBlobsTables, ReadableNow, ReadableNext
<1>4. SDBlobReadable(s)' /\ StreamWhole(s)'
  BY <1>1, <1>3, ProcessStreamBlobsRows DEF ReadableWhen
<1>5. ASSUME NEW t \in SDs, t # s
      PROVE  /\ SDBlobReadable(t)' => /\ StreamWhole(t)
                                      /\ ~Clash(s, t)
                                      /\ \A b \in ContentBlobs(t) : blobRows[b].row # "deleted"
             /\ SDBlobReadable(t) /\ ~Clash(s, t) => SDBlobReadable(t)'
             /\ ContentBlobs(s) \cap ContentBlobs(t) = {} /\ SDBlobReadable(t)'
                    => SDBlobReadable(t)
  <2>1. (StreamWhole(t)' <=> StreamWhole(t)) /\ ContentBlobs(t) \subseteq Blobs
    BY <1>5, ContentFacts, ProcessStreamBlobsWhole
  <2>2. \A b \in ContentBlobs(t) :
            IF b \in ContentBlobs(s) THEN blobRows'[b].iv = IV[s][b]
                                     ELSE blobRows'[b].iv = blobRows[b].iv
    BY <2>1, ProcessStreamBlobsRows
  <2>3. QED
    BY <1>2, <1>3, <2>1, <2>2 DEF ReadableWhen, Clash
<1>6. PICK early \in SUBSET ContentBlobs(s) :
          {b \in Blobs : HasBlob(b)'} = {b \in Blobs : HasBlob(b)} \cup early
  <2> DEFINE early == {b \in ContentBlobs(s) : b \in objects}
  <2>1. \A b \in Blobs : HasBlob(b)' <=> HasBlob(b) \/ b \in early
    BY <1>1, ProcessStreamBlobsRows DEF HasBlob, HasBlobMetadata
  <2>2. early \in SUBSET ContentBlobs(s)
    OBVIOUS
  <2>3. {b \in Blobs : HasBlob(b)'} = {b \in Blobs : HasBlob(b)} \cup early
    BY <1>1, <2>1
  <2>4. QED
    BY <2>2, <2>3
<1>7. ContentBlobs(s) \cap {b \in Blobs : blobRows[b].row = "deleted"} = {}
  BY ProcessStreamBlobsRows
<1>8. {b \in Blobs : blobRows'[b].row = "deleted"} = {b \in Blobs : blobRows[b].row = "deleted"}
  BY <1>2
<1>9. {t \in SDs : StreamWhole(t)'} = {t \in SDs : StreamWhole(t)} \cup {s}
  BY <1>4, ProcessStreamBlobsWhole
<1> DEFINE again == {t \in SDs \ {s} : SDBlobReadable(t)' /\ ~SDBlobReadable(t)}
<1>10. again \subseteq Shelf!Allies(s)
  BY <1>5 DEF Shelf!Allies, Shelf!ContentBlobs, ContentBlobs, Shelf!Clash, Clash
<1>11. {t \in SDs : SDBlobReadable(t)'} =
           {t \in {o \in SDs : SDBlobReadable(o)} : ~Shelf!Clash(s, t)} \cup again \cup {s}
  <2>1. \A t \in SDs : Shelf!Clash(s, t) <=> Clash(s, t)
    BY DEF Shelf!Clash, Clash, Shelf!ContentBlobs, ContentBlobs
  <2>2. ~Clash(s, s)
    BY DEF Clash
  <2>3. QED
    BY <1>4, <1>5, <2>1, <2>2
<1>12. QED
  BY <1>6, <1>7, <1>8, <1>9, <1>10, <1>11
     DEF Shelf!Publish, Shelf!ContentBlobs, ContentBlobs

\* Data for a row that is there, or a row for data that is there, serves the blob.
LEMMA ShelfServe ==
    ASSUME TablesInv, NEW b \in Blobs, UploadObject(b) \/ UpsertBlobRecord(b)
    PROVE  Shelf!Serve(b) \/ UNCHANGED Shelf!shelfVars
<1>1. BlobStoreTypeOK /\ \A s \in SDs : ContentBlobs(s) \subseteq Blobs
  BY ContentFacts DEF TablesInv
<1>2. \A o \in Blobs : (blobRows'[o].row = "deleted") = (blobRows[o].row = "deleted")
  BY <1>1, UpsertBlobRecordRows DEF UploadObject
<1>3. \A s \in SDs : /\ StreamWhole(s)' = StreamWhole(s)
                     /\ SDBlobReadable(s)' = SDBlobReadable(s)
  <2> SUFFICES ASSUME NEW s \in SDs
               PROVE  /\ StreamWhole(s)' = StreamWhole(s)
                      /\ SDBlobReadable(s)' <=> SDBlobReadable(s)
    BY DEF SDBlobReadable
  <2>1. ReadableWhen /\ ReadableWhen'
    BY BlobTables, ReadableNow, ReadableNext
  <2>2. StreamWhole(s)' = StreamWhole(s)
    BY DEF UploadObject, UpsertBlobRecord, StreamWhole
  <2>3. \A o \in Blobs : blobRows'[o].iv = blobRows[o].iv
    BY <1>1, UpsertBlobRecordRows DEF UploadObject
  <2>4. QED
    BY <1>1, <1>2, <2>1, <2>2, <2>3 DEF ReadableWhen
<1>4. \A o \in Blobs : HasBlob(o) => HasBlob(o)'
  BY <1>1, UpsertBlobRecordRows DEF UploadObject, UpsertBlobRecord, HasBlob, HasBlobMetadata
<1>5. \A o \in Blobs : o # b => HasBlob(o)' = HasBlob(o)
  BY <1>1, UpsertBlobRecordRows DEF UploadObject, UpsertBlobRecord, HasBlob, HasBlobMetadata
<1>6. CASE HasBlob(b)'
  <2>1. {o \in Blobs : HasBlob(o)'} = {o \in Blobs : HasBlob(o)} \cup {b}
    BY <1>4, <1>5, <1>6
  <2>2. blobRows[b].row # "deleted"
    BY <1>2, <1>6 DEF HasBlob, HasBlobMetadata
  <2>3. QED
    BY <1>2, <1>3, <2>1, <2>2 DEF Shelf!Serve
<1>7. CASE ~HasBlob(b)'
  <2>1. \A o \in Blobs : HasBlob(o)' = HasBlob(o)
    BY <1>4, <1>5, <1>7 DEF HasBlob, HasBlobMetadata
  <2>2. QED
    BY <1>2, <1>3, <2>1, SameShelf DEF ShelfSame
<1>8. QED
  BY <1>6, <1>7

LEMMA ShelfWithdraw ==
    ASSUME NEW b \in Blobs, DeleteObject(b)
    PROVE  Shelf!Withdraw(b)
<1>1. \A o \in Blobs : HasBlob(o)' <=> HasBlob(o) /\ o # b
  BY DEF DeleteObject, HasBlob, HasBlobMetadata
<1>2. {o \in Blobs : HasBlob(o)'} = {o \in Blobs : HasBlob(o)} \ {b}
  BY <1>1
<1>3. QED
  BY <1>2 DEF DeleteObject, Shelf!Withdraw, StreamWhole, SDBlobReadable, HasBlobMetadata

LEMMA ShelfRetire ==
    ASSUME TablesInv, NEW b \in Blobs, DeleteBlobRecord(b)
    PROVE  Shelf!Retire(b) \/ UNCHANGED Shelf!shelfVars
<1>1. /\ blobRows'[b].row = IF blobRows[b].row = "live" THEN "deleted" ELSE blobRows[b].row
      /\ \A o \in Blobs : /\ blobRows'[o].iv = blobRows[o].iv
                          /\ o # b => blobRows'[o] = blobRows[o]
      /\ UNCHANGED <<streams, objects>>
  BY DeleteBlobRecordRows DEF TablesInv, DeleteBlobRecord
<1>2. ReadableWhen /\ ReadableWhen'
  BY BlobTables, ReadableNow, ReadableNext
<1>3. \A s \in SDs : /\ ContentBlobs(s) \subseteq Blobs
                     /\ StreamWhole(s)' = StreamWhole(s)
  BY <1>1, ContentFacts DEF StreamWhole
<1>4. CASE blobRows[b].row # "live"
  <2>1. \A o \in Blobs : blobRows'[o].row = blobRows[o].row
    BY <1>1, <1>4
  <2>2. \A s \in SDs : SDBlobReadable(s)' = SDBlobReadable(s)
    <3> SUFFICES ASSUME NEW s \in SDs PROVE SDBlobReadable(s)' <=> SDBlobReadable(s)
      BY DEF SDBlobReadable
    <3>1. QED
      BY <1>1, <1>2, <1>3, <2>1 DEF ReadableWhen
  <2>3. QED
    BY <1>1, <1>3, <2>1, <2>2, SameShelf DEF ShelfSame, HasBlob, HasBlobMetadata
<1>5. CASE blobRows[b].row = "live"
  <2>1. \A o \in Blobs : HasBlob(o)' <=> HasBlob(o) /\ o # b
    BY <1>1, <1>5 DEF HasBlob, HasBlobMetadata
  <2>2. \A o \in Blobs : blobRows'[o].row = "deleted" <=> blobRows[o].row = "deleted" \/ o = b
    BY <1>1, <1>5
  <2>3. \A s \in SDs : SDBlobReadable(s)' <=> SDBlobReadable(s) /\ b \notin ContentBlobs(s)
    BY <1>1, <1>2, <1>3, <2>2 DEF ReadableWhen
  <2>4. /\ {o \in Blobs : HasBlob(o)'} = {o \in Blobs : HasBlob(o)} \ {b}
        /\ {o \in Blobs : blobRows'[o].row = "deleted"} =
               {o \in Blobs : blobRows[o].row = "deleted"} \cup {b}
    BY <2>1, <2>2
  <2>5. {s \in SDs : SDBlobReadable(s)'} =
            {s \in {t \in SDs : SDBlobReadable(t)} : b \notin ContentBlobs(s)}
    BY <2>3
  <2>6. QED
    BY <1>3, <2>4, <2>5 DEF Shelf!Retire, Shelf!ContentBlobs, ContentBlobs
<1>6. QED
  BY <1>4, <1>5

-----------------------------------------------------------------------------
(* What stays when nothing is deleted.                                     *)

BlobStoreGrows ==
    /\ objects \subseteq objects'
    /\ \A s \in SDs : streams[s].stored => streams'[s].stored
    /\ \A s \in SDs : Published(s) => Published(s)'
    /\ \A b \in Blobs : HasBlob(b) => HasBlob(b)'

LEMMA GrowsUnlessDeleted ==
    ASSUME TablesInv, TablesInv',
           objects \subseteq objects',
           \A s \in SDs : /\ streams[s].stored => streams'[s].stored
                          /\ StreamWhole(s) => StreamWhole(s)',
           \A b \in Blobs : /\ blobRows[b].row = "live" => blobRows'[b].row = "live"
                            /\ blobRows'[b].row = "deleted" => blobRows[b].row = "deleted"
    PROVE  BlobStoreGrows
<1>1. PublishedWhen /\ PublishedWhen'
  BY PublishedNow, PublishedNext
<1>2. \A s \in SDs : ContentBlobs(s) \subseteq Blobs
  BY ContentFacts
<1>3. \A s \in SDs : Published(s) => Published(s)'
  BY <1>1, <1>2 DEF PublishedWhen
<1>4. QED
  BY <1>3 DEF BlobStoreGrows, HasBlob, HasBlobMetadata

LEMMA UpsertStreamGrows ==
    ASSUME TablesInv, NEW s \in SDs, UpsertStream(s)
    PROVE  TablesInv' /\ BlobStoreGrows /\ streams'[s].stored
<1>1. TablesInv'
  BY UpsertStreamTables
<1>2. \A t \in SDs : /\ streams[t].stored => streams'[t].stored
                     /\ StreamWhole(t) => StreamWhole(t)'
  BY UpsertStreamRows DEF TablesInv, StreamWhole
<1>3. BlobStoreGrows
  BY <1>1, <1>2, GrowsUnlessDeleted DEF UpsertStream
<1>4. QED
  BY <1>1, <1>3, UpsertStreamRows DEF TablesInv

LEMMA ProcessStreamBlobsGrows ==
    ASSUME TablesInv, NEW s \in SDs, streams[s].stored, ProcessStreamBlobs(s)
    PROVE  TablesInv' /\ BlobStoreGrows /\ Published(s)'
<1>1. TablesInv'
  BY ProcessStreamBlobsTables
<1>2. \A t \in SDs : /\ streams[t].stored => streams'[t].stored
                     /\ StreamWhole(t) => StreamWhole(t)'
  BY ProcessStreamBlobsRows, ProcessStreamBlobsWhole DEF StreamWhole
<1>3. \A b \in Blobs : /\ blobRows[b].row = "live" => blobRows'[b].row = "live"
                       /\ blobRows'[b].row = "deleted" => blobRows[b].row = "deleted"
  BY ProcessStreamBlobsRows
<1>4. BlobStoreGrows
  BY <1>1, <1>2, <1>3, GrowsUnlessDeleted DEF ProcessStreamBlobs
<1>5. ContentBlobs(s) \subseteq Blobs /\ PublishedWhen'
  BY <1>1, ContentFacts, PublishedNext
<1>6. Published(s)'
  BY <1>5, ProcessStreamBlobsRows DEF PublishedWhen
<1>7. QED
  BY <1>1, <1>4, <1>6

LEMMA BlobGrows ==
    ASSUME TablesInv, NEW b \in Blobs, UploadObject(b) \/ UpsertBlobRecord(b)
    PROVE  TablesInv' /\ BlobStoreGrows
<1>1. TablesInv'
  BY BlobTables
<1>2. \A s \in SDs : streams'[s] = streams[s]
  BY DEF UploadObject, UpsertBlobRecord
<1>3. \A o \in Blobs : /\ blobRows[o].row = "live" => blobRows'[o].row = "live"
                       /\ blobRows'[o].row = "deleted" => blobRows[o].row = "deleted"
  BY UpsertBlobRecordRows DEF TablesInv, UploadObject
<1>4. objects \subseteq objects'
  BY DEF UploadObject, UpsertBlobRecord
<1>5. QED
  BY <1>1, <1>2, <1>3, <1>4, GrowsUnlessDeleted DEF StreamWhole

LEMMA SameStoreGrows ==
    ASSUME TablesInv, UNCHANGED blobStoreVars
    PROVE  TablesInv' /\ BlobStoreGrows
<1>1. TablesInv'
  BY TablesKeep DEF blobStoreVars, TablesInv, BlobStoreTypeOK
<1>2. QED
  BY <1>1, GrowsUnlessDeleted DEF blobStoreVars, StreamWhole
=============================================================================
