-------------------------- MODULE StreamCatalogFacts --------------------------
(***************************************************************************)
(* What follows from the assumption on the content of streams.             *)
(***************************************************************************)
EXTENDS StreamCatalog, FiniteSetTheorems, TLAPS

\* A stream's blobs are the range of a sequence with something in it.
LEMMA ContentFacts ==
    ASSUME NEW s \in SDs
    PROVE  /\ Len(Content[s]) \in Nat \ {0}
           /\ DOMAIN Content[s] = 1 .. Len(Content[s])
           /\ \A i \in DOMAIN Content[s] : Content[s][i] \in Blobs
           /\ ContentBlobs(s) \subseteq Blobs
<1>1. Content[s] \in Seq(Blobs) /\ Len(Content[s]) > 0
  BY ContentAssumption
<1>2. QED
  BY <1>1 DEF ContentBlobs

\* A stream has as many blobs as its SD blob lists.
LEMMA ContentCount ==
    ASSUME NEW s \in SDs
    PROVE  Cardinality(ContentBlobs(s)) = Len(Content[s])
<1> DEFINE n == Len(Content[s])
           f == [i \in 1 .. n |-> Content[s][i]]
<1>1. n \in Nat /\ DOMAIN Content[s] = 1 .. n
  BY ContentFacts
<1>2. ContentBlobs(s) = {Content[s][i] : i \in 1 .. n}
  BY <1>1 DEF ContentBlobs
<1>3. f \in Injection(1 .. n, ContentBlobs(s))
  BY <1>1, <1>2, ContentAssumption DEF Injection, IsInjective
<1>4. f \in Surjection(1 .. n, ContentBlobs(s))
  BY <1>2 DEF Surjection
<1>5. ExistsBijection(1 .. n, ContentBlobs(s))
  BY <1>3, <1>4 DEF Bijection, ExistsBijection
<1>6. QED
  BY <1>1, <1>5, FS_CountingElements

\* The number is that of the blob's place in the SD blob ...
LEMMA BlobNumberPlace ==
    ASSUME NEW s \in SDs, NEW b \in ContentBlobs(s)
    PROVE  /\ BlobNumber(s, b) \in Int
           /\ BlobNumber(s, b) + 1 \in DOMAIN Content[s]
           /\ Content[s][BlobNumber(s, b) + 1] = b
<1> DEFINE k == CHOOSE i \in DOMAIN Content[s] : Content[s][i] = b
<1>1. \E i \in DOMAIN Content[s] : Content[s][i] = b
  BY DEF ContentBlobs
<1>2. k \in DOMAIN Content[s] /\ Content[s][k] = b
  BY <1>1
<1>3. k \in Int
  BY <1>2, ContentFacts
<1>4. BlobNumber(s, b) = k - 1
  BY DEF BlobNumber
<1>5. \A i \in Int : i - 1 \in Int /\ (i - 1) + 1 = i
  OBVIOUS
<1>6. QED
  BY <1>2, <1>3, <1>4, <1>5

LEMMA BlobNumberInt ==
    ASSUME NEW s \in SDs, NEW b \in ContentBlobs(s)
    PROVE  BlobNumber(s, b) \in Int
BY BlobNumberPlace

\* ... so no two blobs of a stream have the same.
LEMMA BlobNumberInjective ==
    ASSUME NEW s \in SDs, NEW a \in ContentBlobs(s), NEW b \in ContentBlobs(s),
           BlobNumber(s, a) = BlobNumber(s, b)
    PROVE  a = b
BY BlobNumberPlace

\* An upsert leaves a row.
LEMMA UpsertedRow ==
    ASSUME NEW row \in RowStates
    PROVE  Upserted(row) \in RowStates
BY DEF Upserted, RowStates
=============================================================================
