------------------------------ MODULE BlobShelf ------------------------------
(***************************************************************************)
(* What the permanent store promises to those who read from it, without    *)
(* how: a blob is served or it is not, an SD blob is readable or it is     *)
(* not.  A blob may be withdrawn and served again, but one that is retired *)
(* is gone for good, and takes with it the SD blobs that list it.  An SD   *)
(* blob that is published displaces those that list a blob of it under     *)
(* another IV, and nothing else makes an SD blob unreadable.               *)
(* BlobStoreCalls implements this; the uploads and pin requests, which     *)
(* delete nothing, implement PutsOnlySpec.                                 *)
(***************************************************************************)
EXTENDS StreamCatalog

VARIABLES
    served,     \* blobs that Get returns
    retired,    \* blobs that no Put brings back
    published,  \* SD hashes that a PutSD has completed for
    readable    \* SD hashes that Get returns an SD blob for

shelfVars == <<served, retired, published, readable>>

Init ==
    /\ served = {}
    /\ retired = {}
    /\ published = {}
    /\ readable = {}

Serve(b) ==
    /\ b \notin retired
    /\ served' = served \cup {b}
    /\ UNCHANGED <<retired, published, readable>>

Withdraw(b) ==
    /\ served' = served \ {b}
    /\ UNCHANGED <<retired, published, readable>>

Retire(b) ==
    /\ served' = served \ {b}
    /\ retired' = retired \cup {b}
    /\ readable' = {s \in readable : b \notin ContentBlobs(s)}
    /\ UNCHANGED published

\* Published SD blobs that may be readable again with s: they list a blob of s under
\* the IV that s gives it, and nothing of theirs is retired.
Allies(s) ==
    {t \in published : /\ ContentBlobs(s) \cap ContentBlobs(t) # {}
                       /\ ~Clash(s, t)
                       /\ ContentBlobs(t) \cap retired = {}}

\* A stream's blobs whose data came first are served with it.
Publish(s) ==
    /\ ContentBlobs(s) \cap retired = {}
    /\ \E early \in SUBSET ContentBlobs(s) : served' = served \cup early
    /\ published' = published \cup {s}
    /\ \E again \in SUBSET Allies(s) :
           readable' = {t \in readable : ~Clash(s, t)} \cup again \cup {s}
    /\ UNCHANGED retired

Put ==
    \/ \E b \in Blobs : Serve(b)
    \/ \E s \in SDs : Publish(s)

Next == Put \/ \E b \in Blobs : Withdraw(b) \/ Retire(b)

Spec == Init /\ [][Next]_shelfVars

\* A shelf from which nobody withdraws or retires anything.
PutsOnlySpec == Init /\ [][Put]_shelfVars
=============================================================================
