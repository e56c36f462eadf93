---------------------------- MODULE UploadCustody ----------------------------
(***************************************************************************)
(* What the portal promises about the data it is sent, without how: a blob *)
(* lies in its sender's inbox until it is stored for good, a receipt is    *)
(* given only for a blob that is there, storage only grows and takes only  *)
(* what was sent, and a stream is pinned only when all of it is stored.    *)
(* ReflectorUpload implements this.                                        *)
(***************************************************************************)
EXTENDS StreamCatalog

VARIABLES
    inbox,      \* [Users -> blobs sent and not yet taken out]
    receipts,   \* [Users -> blobs whose receipt the user has]
    stored,     \* blobs stored for good
    pinned      \* [Users -> streams the user has pinned]

custodyVars == <<inbox, receipts, stored, pinned>>

Init ==
    /\ inbox = [u \in Users |-> {}]
    /\ receipts = [u \in Users |-> {}]
    /\ stored = {}
    /\ pinned = [u \in Users |-> {}]

Send(u, b) ==
    /\ inbox' = [inbox EXCEPT ![u] = @ \cup {b}]
    /\ UNCHANGED <<receipts, stored, pinned>>

GiveReceipt(u, b) ==
    /\ b \in inbox[u] \cup stored
    /\ receipts' = [receipts EXCEPT ![u] = @ \cup {b}]
    /\ UNCHANGED <<inbox, stored, pinned>>

Store(u, b) ==
    /\ b \in inbox[u]
    /\ stored' = stored \cup {b}
    /\ UNCHANGED <<inbox, receipts, pinned>>

TakeOut(u, b) ==
    /\ b \in stored
    /\ inbox' = [inbox EXCEPT ![u] = @ \ {b}]
    /\ UNCHANGED <<receipts, stored, pinned>>

Pin(u, s) ==
    /\ ContentBlobs(s) \subseteq stored
    /\ pinned' = [pinned EXCEPT ![u] = @ \cup {s}]
    /\ UNCHANGED <<inbox, receipts, stored>>

Unpin(u, s) ==
    /\ pinned' = [pinned EXCEPT ![u] = @ \ {s}]
    /\ UNCHANGED <<inbox, receipts, stored>>

Next ==
    \/ \E u \in Users, b \in Blobs :
           Send(u, b) \/ GiveReceipt(u, b) \/ Store(u, b) \/ TakeOut(u, b)
    \/ \E u \in Users, s \in SDs : Pin(u, s) \/ Unpin(u, s)

Spec == Init /\ [][Next]_custodyVars
=============================================================================
