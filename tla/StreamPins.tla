----------------------------- MODULE StreamPins -----------------------------
(***************************************************************************)
(* The pins of a user: the portal's upload and pin records of each blob    *)
(* (made by ProcessUpload) and lbry_stream_pins (internal/service/upload). *)
(* A stream pin is soft-deleted and, unlike any other row of the plugin,   *)
(* comes back to life: CreateStreamPin restores it.                        *)
(***************************************************************************)
EXTENDS BlobStore

VARIABLES
    corePins,       \* [Users -> blobs with an upload and a pin record]
    streamPins      \* [Users -> [SDs -> state of the row of lbry_stream_pins]]

pinVars == <<corePins, streamPins>>

PinsTypeOK ==
    /\ corePins \in [Users -> SUBSET Blobs]
    /\ streamPins \in [Users -> [SDs -> RowStates]]

PinsInit ==
    /\ corePins = [u \in Users |-> {}]
    /\ streamPins = [u \in Users |-> [s \in SDs |-> "none"]]

\* A bug to catch: a blob that any user has pinned is taken for processed.
ProcessUploadBlobOnce(u, b) ==
    /\ corePins' = IF \E v \in Users : b \in corePins[v]
                   THEN corePins
                   ELSE [corePins EXCEPT ![u] = @ \cup {b}]
    /\ UNCHANGED streamPins

\* One turn of ProcessUpload's loop: SaveUpload and CreatePin for one blob.
ProcessUploadBlob(u, b) ==
    /\ corePins' = [corePins EXCEPT ![u] = @ \cup {b}]
    /\ UNCHANGED streamPins

\* One transaction: the stream is looked up by its SD hash, a pin that exists
\* is restored, one that does not is created.
CreateStreamPin(u, s) ==
    /\ streams[s].stored
    /\ streamPins' = [streamPins EXCEPT ![u][s] = "live"]
    /\ UNCHANGED corePins

\* The user unpins a stream: only the pin goes, and only when there is one.
DeleteStream(u, s) ==
    /\ streams[s].stored
    /\ streamPins[u][s] = "live"
    /\ streamPins' = [streamPins EXCEPT ![u][s] = "deleted"]
    /\ UNCHANGED corePins
=============================================================================
