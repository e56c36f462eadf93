---------------------------- MODULE StreamCatalog ----------------------------
(***************************************************************************)
(* What every table of the plugin is about: users, streams known by their  *)
(* SD hash, and the content blobs a stream lists.  The SD blob fixes what  *)
(* its stream lists: the blobs, their numbers, and the IV under which it   *)
(* lists each.  Another SD blob may list the same blob under another IV.   *)
(* The Length that an SD blob gives for a blob is taken to be the length   *)
(* of its data, and so to be the same in every SD blob.  Stream hash and   *)
(* SD hash are taken to name each other, as they do unless two SD blobs    *)
(* describe one stream.                                                    *)
(*                                                                         *)
(* Every model embeds gorm.Model, so a Delete only sets deleted_at: the    *)
(* row keeps its place in every unique index, no query sees it, and an     *)
(* upsert of this code never clears deleted_at again.  A row is therefore  *)
(* "none", "live" or "deleted".                                            *)
(***************************************************************************)
EXTENDS Integers, Sequences, FiniteSets

CONSTANTS
    Users,      \* owners of the devices that upload
    SDs,        \* SD hashes, one for each stream that may be uploaded
    Blobs,      \* hashes of content blobs
    Content,    \* Content[s]: the content blobs the SD blob s lists, in order
    IVs,        \* initialization vectors
    NoIV,       \* a row without iv_data
    IV          \* IV[s][b]: the IV under which the SD blob s lists b

\* A stream lists at least one content blob (the terminating blob comes after
\* them and has no row), and none twice, as each is encrypted with its own IV.
ASSUME ContentAssumption ==
    /\ Content \in [SDs -> Seq(Blobs)]
    /\ \A s \in SDs : Len(Content[s]) > 0
    /\ \A s \in SDs : \A i, j \in DOMAIN Content[s] :
           Content[s][i] = Content[s][j] => i = j

ASSUME IVAssumption ==
    /\ IV \in [SDs -> [Blobs -> IVs]]
    /\ NoIV \notin IVs

ContentBlobs(s) == {Content[s][i] : i \in DOMAIN Content[s]}

\* Blob numbers count from 0; the terminating blob has the one after the last.
BlobNumber(s, b) == (CHOOSE i \in DOMAIN Content[s] : Content[s][i] = b) - 1

SDBlobInfos(s) == {<<BlobNumber(s, b), b>> : b \in ContentBlobs(s)}

\* Two SD blobs that list a blob under different IVs.
Clash(s, t) == \E b \in ContentBlobs(s) \cap ContentBlobs(t) : IV[s][b] # IV[t][b]

RowStates == {"none", "live", "deleted"}

\* A bug to catch: an upsert that brings deleted rows back to life.
UpsertedReviving(row) == "live"

\* INSERT ... ON CONFLICT DO UPDATE: a deleted row stays deleted.
Upserted(row) == IF row = "none" THEN "live" ELSE row
=============================================================================
