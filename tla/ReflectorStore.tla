---------------------------- MODULE ReflectorStore ----------------------------
(***************************************************************************)
(* The blob store behind the reflector server                              *)
(* (internal/protocol/reflector_store.go).  Each connection hands it one   *)
(* SD blob (PutSD) or one content blob (Put) at a time.  Each action is    *)
(* one transaction or one storage call, so what another process does may   *)
(* come between two of them; with Faults a call may fail at any of them    *)
(* (a lost connection, an error of the database, a crash of the portal).   *)
(***************************************************************************)
EXTENDS PendingUploads

CONSTANTS
    Conns,          \* connections of the reflector server
    ConnUser,       \* ConnUser[c]: the user whose device opened c
    NoBlob,         \* no blob in transfer
    MaxRuns,        \* bound: workflow runs started for one upload
    Faults          \* whether calls may fail

ASSUME ReflectorAssumption ==
    /\ ConnUser \in [Conns -> Users]
    /\ NoBlob \notin Blobs
    /\ MaxRuns \in Nat \ {0}
    /\ Faults \in BOOLEAN

VARIABLES
    conns,      \* [Conns -> the call the connection is in]
    tempData,   \* [Users -> blobs the user has in temporary storage]
    acked,      \* <<u, s>> for which a PutSD returned without error
    runs        \* [Runs -> progress of the assembly workflow's run]

\* The k-th run of the assembly workflow started for user u and SD hash s.
Runs == Users \X SDs \X (1 .. MaxRuns)

ConnSteps == {"idle",
              "sdStream", "sdBlobs", "sdTerminating", "sdWorkflow",  \* PutSD
              "mark"}                                                \* Put

ReflectorStoreTypeOK ==
    /\ conns \in [Conns -> [step : ConnSteps,
                            sd   : SDs \cup {NoStream},
                            blob : Blobs \cup {NoBlob}]]
    /\ tempData \in [Users -> SUBSET Blobs]
    /\ acked \subseteq Users \X SDs

Idle == [step |-> "idle", sd |-> NoStream, blob |-> NoBlob]

ReflectorStoreInit ==
    /\ conns = [c \in Conns |-> Idle]
    /\ tempData = [u \in Users |-> {}]
    /\ acked = {}

-----------------------------------------------------------------------------
(* ReflectorStore.PutSD.                                                   *)

Acknowledge(c, s) == acked' = acked \cup {<<ConnUser[c], s>>}

\* The runs of <<u, s>> and the calls that will start one.
UnusedRuns(u, s) == {k \in 1 .. MaxRuns : runs[<<u, s, k>>].step = "unused"}

PutSDCalls(u, s) == {c \in Conns : conns[c].sd = s /\ ConnUser[c] = u}

\* A stream that is pending already: nothing more is done.
PutSDAlreadyPending(c, s) ==
    /\ conns[c].step = "idle"
    /\ PendingStreamExists(ConnUser[c], s)
    /\ Acknowledge(c, s)
    /\ UNCHANGED <<pendingVars, conns, tempData, runs>>

\* A lookup that fails is taken for a stream that is not pending.
PutSDNotPending(c, s) ==
    /\ conns[c].step = "idle"
    /\ ~PendingStreamExists(ConnUser[c], s) \/ Faults
    /\ Cardinality(PutSDCalls(ConnUser[c], s)) < Cardinality(UnusedRuns(ConnUser[c], s))
    /\ conns' = [conns EXCEPT ![c].step = "sdStream", ![c].sd = s]
    /\ UNCHANGED <<pendingVars, tempData, acked, runs>>

\* StorePendingStream, in its three transactions.
PutSDStream(c) ==
    /\ conns[c].step = "sdStream"
    /\ UpsertPendingStream(ConnUser[c], conns[c].sd)
    /\ conns' = [conns EXCEPT ![c].step = "sdBlobs"]
    /\ UNCHANGED <<tempData, acked, runs>>

PutSDBlobs(c) ==
    /\ conns[c].step = "sdBlobs"
    /\ CreatePendingBlobsFromSDBlob(ConnUser[c], conns[c].sd)
    /\ conns' = [conns EXCEPT ![c].step = "sdTerminating"]
    /\ UNCHANGED <<tempData, acked, runs>>

PutSDTerminating(c) ==
    /\ conns[c].step = "sdTerminating"
    /\ SetTerminatingBlob(ConnUser[c], conns[c].sd)
    /\ conns' = [conns EXCEPT ![c].step = "sdWorkflow"]
    /\ UNCHANGED <<tempData, acked, runs>>

\* A bug to catch: a workflow that fails to start is only logged.
PutSDWorkflowUnchecked(c) ==
    /\ conns[c].step = "sdWorkflow"
    /\ \/ \E k \in UnusedRuns(ConnUser[c], conns[c].sd) :
              runs' = [runs EXCEPT ![<<ConnUser[c], conns[c].sd, k>>].step = "ready"]
       \/ UNCHANGED runs
    /\ Acknowledge(c, conns[c].sd)
    /\ conns' = [conns EXCEPT ![c] = Idle]
    /\ UNCHANGED <<pendingVars, tempData>>

PutSDWorkflow(c) ==
    /\ conns[c].step = "sdWorkflow"
    /\ \E k \in UnusedRuns(ConnUser[c], conns[c].sd) :
           /\ \A j \in UnusedRuns(ConnUser[c], conns[c].sd) : k <= j
           /\ runs' = [runs EXCEPT ![<<ConnUser[c], conns[c].sd, k>>].step = "ready"]
    /\ Acknowledge(c, conns[c].sd)
    /\ conns' = [conns EXCEPT ![c] = Idle]
    /\ UNCHANGED <<pendingVars, tempData>>

-----------------------------------------------------------------------------
(* ReflectorStore.Put of a content blob.                                   *)

\* A bug to catch: the error of the upload to temporary storage is not returned.
PutTemporaryUnchecked(c, b) ==
    /\ conns[c].step = "idle"
    /\ tempData' \in {tempData, [tempData EXCEPT ![ConnUser[c]] = @ \cup {b}]}
    /\ conns' = [conns EXCEPT ![c].step = "mark", ![c].blob = b]
    /\ UNCHANGED <<pendingVars, acked, runs>>

PutTemporary(c, b) ==
    /\ conns[c].step = "idle"
    /\ tempData' = [tempData EXCEPT ![ConnUser[c]] = @ \cup {b}]
    /\ conns' = [conns EXCEPT ![c].step = "mark", ![c].blob = b]
    /\ UNCHANGED <<pendingVars, acked, runs>>

PutMarkReceived(c) ==
    /\ conns[c].step = "mark"
    /\ MarkPendingBlobAsReceived(ConnUser[c], conns[c].blob)
    /\ conns' = [conns EXCEPT ![c] = Idle]
    /\ UNCHANGED <<tempData, acked, runs>>

\* The transaction finds no row it may update or insert: Put returns an error.
PutMarkRejected(c) ==
    /\ conns[c].step = "mark"
    /\ ~CanMarkReceived(ConnUser[c], conns[c].blob)
    /\ conns' = [conns EXCEPT ![c] = Idle]
    /\ UNCHANGED <<pendingVars, tempData, acked, runs>>

\* Any call returns an error where it stands, with what it did kept.
CallFails(c) ==
    /\ Faults
    /\ conns[c].step # "idle"
    /\ conns' = [conns EXCEPT ![c] = Idle]
    /\ UNCHANGED <<pendingVars, tempData, acked, runs>>

-----------------------------------------------------------------------------
ConnNext(c) ==
    \/ \E s \in SDs : PutSDAlreadyPending(c, s)
    \/ \E s \in SDs : PutSDNotPending(c, s)
    \/ PutSDStream(c)
    \/ PutSDBlobs(c)
    \/ PutSDTerminating(c)
    \/ PutSDWorkflow(c)
    \/ \E b \in Blobs : PutTemporary(c, b)
    \/ PutMarkReceived(c)
    \/ PutMarkRejected(c)
    \/ CallFails(c)
=============================================================================
