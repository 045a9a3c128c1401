--------------------------- MODULE AmsClientProofs ---------------------------
(***************************************************************************)
(* Theorems about AmsClient, for every set of clusters, every page size,   *)
(* and any number of subscriptions and of changes during a query.          *)
(*                                                                         *)
(* A list is read page by page from a sequence that changes between two    *)
(* pages.  Complete says where a cluster that has matched throughout and   *)
(* that no removal has moved can be: in the list, on the page at hand, or  *)
(* behind the pages that were read.  Inserting a subscription keeps that,  *)
(* and removing one breaks it only for the clusters that moved records.    *)
(***************************************************************************)
EXTENDS AmsClient, FiniteSetTheorems, SequenceTheorems, TLAPS

USE DEF vars, input, history

Places == {"idle", "params", "org", "query", "page", "item", "found", "managed", "fetch", "done"}
Statuses == {0, 200, 204, 400, 403, 404, 500, 503}

\* Where a request with or without a client can be, and what is empty there.
OwnPlaces ==
    /\ pc \in {"org", "query", "page", "item", "found", "managed"} => useAms
    /\ pc # "done" => outcome = 0
    /\ pc \in {"idle", "params", "org", "query"} =>
          seen = {} /\ stable = {} /\ infoList = <<>> /\ page = <<>> /\ matching = <<>>
    /\ pc \in {"org", "query", "page", "item", "found"} => op # "predictMulti"
    /\ pc = "managed" => op = "predict" /\ infoList # <<>>
    /\ pc = "fetch" => op \in {"predict", "predictMulti"}

\* All that is read was seen.
Matched ==
    /\ \A i \in 1..Len(matching) : matching[i] \in seen
    /\ \A i \in 1..Len(page) : page[i] \in seen
    /\ useAms => \A i \in 1..Len(infoList) : infoList[i] \in seen
    /\ BadID \notin stable
    /\ pc \in {"page", "item", "found"} => stable \subseteq Ids(matching)

\* The uniqueClusterMap: no cluster is listed twice.
Unique == \A i, j \in 1..Len(infoList) : infoList[i].id = infoList[j].id => i = j

\* What Subscribe and Unsubscribe make of a sequence.
InsertAt(m, i, s) == SubSeq(m, 1, i) \o <<s>> \o SubSeq(m, i + 1, Len(m))
RemoveAt(m, i) == SubSeq(m, 1, i - 1) \o SubSeq(m, i + 1, Len(m))

\* A subscription of the cluster is behind the first offset ones.
Behind(c, offset) == \E k \in 1..Len(matching) : k > offset /\ matching[k].id = c

\* Where a cluster is that has matched throughout and was not moved.
Complete ==
    \A c \in stable \ moved :
        /\ pc = "page" => c \in Ids(infoList) \/ Behind(c, (pageNum - 1) * PageSize)
        /\ pc = "item" => c \in Ids(infoList) \cup Ids(page) \/ Behind(c, pageNum * PageSize)
        /\ pc = "found" => c \in Ids(infoList)

\* The cluster for which a prediction is fetched was seen as not managed.
Unmanaged ==
    pc = "fetch" /\ op = "predict" => \E s \in seen : s.id = cluster /\ ~s.managed

\* The steps that change nothing but the place of the handler and the outcome.
Deciding ==
    \/ ReadParams \/ GetInternalOrgID \/ UseList \/ UseSingleClusterInfo \/ CheckManaged
    \/ FetchPrediction

-----------------------------------------------------------------------------
(***************************************************************************)
(* A page is never empty by its size.                                      *)
(***************************************************************************)
LEMMA PageSizePositive == PageSize \in Nat \ {0}
BY AmsClientAssumption DEF PageSize

(***************************************************************************)
(* The number of items on the pages before a page, and up to it.           *)
(***************************************************************************)
LEMMA Offsets ==
  ASSUME NEW n \in Nat \ {0}
  PROVE  /\ (n - 1) * PageSize \in Nat
         /\ n * PageSize \in Nat
         /\ n * PageSize = (n - 1) * PageSize + PageSize
         /\ ((n + 1) - 1) * PageSize = n * PageSize
         /\ n = 1 => (n - 1) * PageSize = 0
<1> DEFINE P == PageSize
<1>1. P \in Nat \ {0}
  BY PageSizePositive
<1> HIDE DEF P
<1>2. (n - 1) * P \in Nat /\ n * P \in Nat
  BY <1>1
<1>3. n * P = (n - 1) * P + P
  BY <1>1
<1>4. (n + 1) - 1 = n
  OBVIOUS
<1>5. n = 1 => (n - 1) * P = 0
  BY <1>1
<1>6. QED
  BY <1>2, <1>3, <1>4, <1>5 DEF P

(***************************************************************************)
(* The IDs in a sequence.                                                  *)
(***************************************************************************)
LEMMA IdsOf ==
  ASSUME NEW T, NEW list \in Seq(T), NEW c
  PROVE  c \in Ids(list) <=> \E i \in 1..Len(list) : list[i].id = c
BY DEF Ids

(***************************************************************************)
(* The items of a page: those between its offset and that of the next, and *)
(* none only if nothing is behind its offset.                              *)
(***************************************************************************)
LEMMA PageItems ==
  ASSUME matching \in Seq(Subscriptions), NEW n \in Nat \ {0}
  PROVE  /\ PageOf(n) \in Seq(Subscriptions)
         /\ \A i \in 1..Len(PageOf(n)) : \E k \in 1..Len(matching) : PageOf(n)[i] = matching[k]
         /\ \A k \in 1..Len(matching) :
               (n - 1) * PageSize < k /\ k <= n * PageSize =>
                   \E i \in 1..Len(PageOf(n)) : PageOf(n)[i] = matching[k]
         /\ PageOf(n) = <<>> => Len(matching) <= (n - 1) * PageSize
<1> DEFINE first == (n - 1) * PageSize
           last == IF n * PageSize < Len(matching) THEN n * PageSize ELSE Len(matching)
<1>1. /\ first \in Nat /\ last \in Nat /\ last <= Len(matching) /\ Len(matching) \in Nat
      /\ n * PageSize \in Nat /\ first < n * PageSize /\ last <= n * PageSize
      /\ last < n * PageSize => last = Len(matching)
  BY Offsets, PageSizePositive
<1>2. PageOf(n) = SubSeq(matching, first + 1, last)
  BY DEF PageOf
<1> HIDE DEF first, last
<1>3. \A i \in first + 1 .. last : i \in 1..Len(matching) /\ matching[i] \in Subscriptions
  BY <1>1
<1>4. /\ PageOf(n) \in Seq(Subscriptions)
      /\ Len(PageOf(n)) = IF first + 1 <= last THEN last - (first + 1) + 1 ELSE 0
      /\ \A i \in 1 .. last - (first + 1) + 1 : PageOf(n)[i] = matching[first + 1 + i - 1]
  BY <1>1, <1>2, <1>3, SubSeqProperties
<1>5. ASSUME NEW i \in 1..Len(PageOf(n))
      PROVE  \E k \in 1..Len(matching) : PageOf(n)[i] = matching[k]
  <2>1. i \in 1 .. last - (first + 1) + 1 /\ first + 1 + i - 1 \in first + 1 .. last
    BY <1>1, <1>4
  <2>2. QED
    BY <1>3, <1>4, <2>1
<1>6. ASSUME NEW k \in 1..Len(matching), first < k, k <= n * PageSize
      PROVE  \E i \in 1..Len(PageOf(n)) : PageOf(n)[i] = matching[k]
  <2>1. k <= last
    BY <1>1, <1>6
  <2>2. /\ k - first \in 1..Len(PageOf(n)) /\ k - first \in 1 .. last - (first + 1) + 1
        /\ first + 1 + (k - first) - 1 = k
    BY <1>1, <1>4, <1>6, <2>1
  <2>3. QED
    BY <1>4, <2>2
<1>7. PageOf(n) = <<>> => Len(matching) <= first
  BY <1>1, <1>4
<1>8. QED
  BY <1>4, <1>5, <1>6, <1>7 DEF first

(***************************************************************************)
(* A subscription is inserted at a position.                               *)
(***************************************************************************)
LEMMA Inserted ==
  ASSUME NEW m \in Seq(Subscriptions), NEW i \in 0..Len(m), NEW s \in Subscriptions
  PROVE  LET r == InsertAt(m, i, s) IN
         /\ r \in Seq(Subscriptions)
         /\ Len(r) = Len(m) + 1
         /\ \A k \in 1..Len(r) : r[k] = s \/ \E j \in 1..Len(m) : r[k] = m[j]
         /\ \A k \in 1..i : r[k] = m[k]
         /\ \A k \in i + 1 .. Len(m) : r[k + 1] = m[k]
<1> DEFINE r == InsertAt(m, i, s)
           a == SubSeq(m, 1, i)
           b == SubSeq(m, i + 1, Len(m))
           c == a \o <<s>>
<1>1. Len(m) \in Nat /\ i \in Nat /\ i <= Len(m) /\ \A k \in 1..Len(m) : m[k] \in Subscriptions
  OBVIOUS
<1>2. /\ a \in Seq(Subscriptions) /\ Len(a) = i
      /\ \A k \in 1..i : a[k] = m[k]
  <2>1. \A k \in 1..i : m[k] \in Subscriptions
    BY <1>1
  <2>2. QED
    BY <1>1, <2>1, SubSeqProperties
<1>3. /\ b \in Seq(Subscriptions) /\ Len(b) = Len(m) - i
      /\ \A k \in 1 .. Len(m) - i : b[k] = m[i + k]
  <2>1. \A k \in i + 1 .. Len(m) : m[k] \in Subscriptions
    BY <1>1
  <2>2. /\ b \in Seq(Subscriptions)
        /\ Len(b) = IF i + 1 <= Len(m) THEN Len(m) - (i + 1) + 1 ELSE 0
        /\ \A k \in 1 .. Len(m) - (i + 1) + 1 : b[k] = m[i + 1 + k - 1]
    BY <1>1, <2>1, SubSeqProperties
  <2> HIDE DEF b
  <2>3. QED
    BY <1>1, <2>2
<1> HIDE DEF r, a, b
<1>4. <<s>> \in Seq(Subscriptions) /\ Len(<<s>>) = 1 /\ <<s>>[1] = s
  OBVIOUS
<1>5. /\ c \in Seq(Subscriptions) /\ Len(c) = i + 1
      /\ \A k \in 1..i : c[k] = m[k]
      /\ c[i + 1] = s
  BY <1>1, <1>2, <1>4, ConcatProperties
<1> HIDE DEF c
<1>6. r = c \o b
  BY DEF r, a, b, c, InsertAt
<1>7. /\ r \in Seq(Subscriptions)
      /\ Len(r) = Len(c) + Len(b)
      /\ \A k \in 1 .. Len(c) + Len(b) : r[k] = IF k <= Len(c) THEN c[k] ELSE b[k - Len(c)]
  BY <1>3, <1>5, <1>6, ConcatProperties
<1>8. /\ Len(r) = Len(m) + 1
      /\ \A k \in 1..i : r[k] = m[k]
      /\ r[i + 1] = s
  <2>1. Len(c) = i + 1 /\ Len(c) + Len(b) = Len(m) + 1
    BY <1>1, <1>3, <1>5
  <2>2. ASSUME NEW k \in 1 .. i + 1 PROVE r[k] = c[k]
    <3>1. k \in 1 .. Len(c) + Len(b) /\ k <= Len(c)
      BY <1>1, <2>1
    <3>2. QED
      BY <1>7, <3>1
  <2>3. i + 1 \in 1 .. i + 1 /\ \A k \in 1..i : k \in 1 .. i + 1
    BY <1>1
  <2>4. QED
    BY <1>5, <1>7, <2>1, <2>2, <2>3
<1>9. ASSUME NEW k \in i + 1 .. Len(m)
      PROVE  r[k + 1] = m[k]
  <2>1. /\ k + 1 \in 1 .. Len(c) + Len(b) /\ ~(k + 1 <= Len(c)) /\ (k + 1) - Len(c) = k - i
        /\ k - i \in 1 .. Len(m) - i /\ i + (k - i) = k
    BY <1>1, <1>3, <1>5
  <2>2. r[k + 1] = b[k - i]
    BY <1>7, <2>1
  <2>3. b[k - i] = m[i + (k - i)]
    BY <1>3, <2>1
  <2>4. QED
    BY <2>1, <2>2, <2>3
<1>10. \A k \in 1..Len(r) : r[k] = s \/ \E j \in 1..Len(m) : r[k] = m[j]
  <2> SUFFICES ASSUME NEW k \in 1..Len(r) PROVE r[k] = s \/ \E j \in 1..Len(m) : r[k] = m[j]
    OBVIOUS
  <2>1. CASE k <= i
    BY <1>1, <1>8, <2>1
  <2>2. CASE k = i + 1
    BY <1>8, <2>2
  <2>3. CASE k > i + 1
    <3>1. k - 1 \in i + 1 .. Len(m) /\ (k - 1) + 1 = k /\ k - 1 \in 1..Len(m)
      BY <1>1, <1>8, <2>3
    <3>2. r[(k - 1) + 1] = m[k - 1]
      BY <1>9, <3>1
    <3>3. QED
      BY <3>1, <3>2
  <2>4. QED
    BY <1>1, <1>8, <2>1, <2>2, <2>3
<1>11. QED
  BY <1>7, <1>8, <1>9, <1>10 DEF r

(***************************************************************************)
(* The subscription at a position is removed.                              *)
(***************************************************************************)
LEMMA Removed ==
  ASSUME NEW m \in Seq(Subscriptions), NEW i \in 1..Len(m)
  PROVE  LET r == RemoveAt(m, i) IN
         /\ r \in Seq(Subscriptions)
         /\ Len(r) = Len(m) - 1
         /\ \A k \in 1..Len(r) : \E j \in 1..Len(m) : r[k] = m[j]
         /\ \A k \in 1 .. i - 1 : r[k] = m[k]
         /\ \A k \in i + 1 .. Len(m) : r[k - 1] = m[k]
<1> DEFINE r == RemoveAt(m, i)
           a == SubSeq(m, 1, i - 1)
           b == SubSeq(m, i + 1, Len(m))
<1>1. Len(m) \in Nat /\ i \in Nat /\ 1 <= i /\ i <= Len(m) /\ \A k \in 1..Len(m) : m[k] \in Subscriptions
  OBVIOUS
<1>2. /\ a \in Seq(Subscriptions) /\ Len(a) = i - 1
      /\ \A k \in 1 .. i - 1 : a[k] = m[k]
  <2>1. \A k \in 1 .. i - 1 : m[k] \in Subscriptions
    BY <1>1
  <2>2. /\ a \in Seq(Subscriptions)
        /\ Len(a) = IF 1 <= i - 1 THEN i - 1 - 1 + 1 ELSE 0
        /\ \A k \in 1 .. i - 1 - 1 + 1 : a[k] = m[1 + k - 1]
    BY <1>1, <2>1, SubSeqProperties
  <2> HIDE DEF a
  <2>3. QED
    BY <1>1, <2>2
<1>3. /\ b \in Seq(Subscriptions) /\ Len(b) = Len(m) - i
      /\ \A k \in 1 .. Len(m) - i : b[k] = m[i + k]
  <2>1. \A k \in i + 1 .. Len(m) : m[k] \in Subscriptions
    BY <1>1
  <2>2. /\ b \in Seq(Subscriptions)
        /\ Len(b) = IF i + 1 <= Len(m) THEN Len(m) - (i + 1) + 1 ELSE 0
        /\ \A k \in 1 .. Len(m) - (i + 1) + 1 : b[k] = m[i + 1 + k - 1]
    BY <1>1, <2>1, SubSeqProperties
  <2> HIDE DEF b
  <2>3. QED
    BY <1>1, <2>2
<1> HIDE DEF r, a, b
<1>4. r = a \o b
  BY DEF r, a, b, RemoveAt
<1>5. /\ r \in Seq(Subscriptions)
      /\ Len(r) = Len(a) + Len(b)
      /\ \A k \in 1 .. Len(a) + Len(b) : r[k] = IF k <= Len(a) THEN a[k] ELSE b[k - Len(a)]
  BY <1>2, <1>3, <1>4, ConcatProperties
<1>6. /\ Len(r) = Len(m) - 1
      /\ \A k \in 1 .. i - 1 : r[k] = m[k]
  BY <1>1, <1>2, <1>3, <1>5
<1>7. ASSUME NEW k \in i + 1 .. Len(m)
      PROVE  r[k - 1] = m[k]
  <2>1. /\ k - 1 \in 1 .. Len(a) + Len(b) /\ ~(k - 1 <= Len(a)) /\ (k - 1) - Len(a) = k - i
        /\ k - i \in 1 .. Len(m) - i /\ i + (k - i) = k
    BY <1>1, <1>2, <1>3
  <2>2. r[k - 1] = b[k - i]
    BY <1>5, <2>1
  <2>3. b[k - i] = m[i + (k - i)]
    BY <1>3, <2>1
  <2>4. QED
    BY <2>1, <2>2, <2>3
<1>8. ASSUME NEW k \in 1..Len(r)
      PROVE  \E j \in 1..Len(m) : r[k] = m[j]
  <2>1. CASE k < i
    BY <1>1, <1>6, <2>1
  <2>2. CASE ~(k < i)
    <3>1. k + 1 \in i + 1 .. Len(m) /\ k + 1 \in 1..Len(m) /\ (k + 1) - 1 = k
      BY <1>1, <1>6, <2>2
    <3>2. r[(k + 1) - 1] = m[k + 1]
      BY <1>7, <3>1
    <3>3. QED
      BY <3>1, <3>2
  <2>3. QED
    BY <2>1, <2>2
<1>9. QED
  BY <1>5, <1>6, <1>7, <1>8 DEF r

(***************************************************************************)
(* An item of a page goes into the list, or its cluster is there already.  *)
(***************************************************************************)
LEMMA ItemAdded ==
  ASSUME NEW list \in Seq(ClusterInfos), NEW item \in Subscriptions, NEW new,
         new = AddItem(list, item)
  PROVE  /\ new \in Seq(ClusterInfos)
         /\ \A i \in 1..Len(new) : new[i] = item \/ \E j \in 1..Len(list) : new[i] = list[j]
         /\ \A c : c \in Ids(list) => c \in Ids(new)
         /\ item.id # BadID => item.id \in Ids(new) /\ new # <<>>
         /\ list # <<>> => new # <<>>
<1>1. CASE item.id = BadID
  BY <1>1 DEF AddItem
<1>2. CASE item.id # BadID /\ item.id \in Ids(list)
  <2>1. new = list
    BY <1>2 DEF AddItem
  <2>2. \E i \in 1..Len(list) : list[i].id = item.id
    BY <1>2, IdsOf
  <2>3. list # <<>>
    BY <2>2
  <2>4. QED
    BY <1>2, <2>1, <2>3
<1>3. CASE item.id # BadID /\ item.id \notin Ids(list)
  <2>1. new = Append(list, item)
    BY <1>3 DEF AddItem
  <2>2. item \in ClusterInfos
    BY <1>3 DEF Subscriptions, ClusterInfos
  <2>3. /\ new \in Seq(ClusterInfos) /\ new # <<>> /\ Len(list) \in Nat
        /\ Len(new) = Len(list) + 1
        /\ \A i \in 1..Len(list) : new[i] = list[i]
        /\ new[Len(list) + 1] = item
    BY <2>1, <2>2, AppendProperties
  <2>4. \A i \in 1..Len(new) : i \in 1..Len(list) \/ i = Len(list) + 1
    BY <2>3
  <2>5. \A i \in 1..Len(list) : i \in 1..Len(new) /\ list[i].id # item.id
    BY <1>3, <2>3, IdsOf
  <2>6. item.id \in Ids(new)
    BY <2>3, IdsOf
  <2>7. ASSUME NEW c, c \in Ids(list) PROVE c \in Ids(new)
    <3>1. PICK i \in 1..Len(list) : list[i].id = c
      BY <2>7, IdsOf
    <3>2. i \in 1..Len(new) /\ new[i].id = c
      BY <2>3, <2>5, <3>1
    <3>3. QED
      BY <2>3, <3>2, IdsOf
  <2>8. \A i \in 1..Len(new) : new[i] = item \/ \E j \in 1..Len(list) : new[i] = list[j]
    BY <2>3, <2>4
  <2>9. QED
    BY <2>3, <2>6, <2>7, <2>8
<1>4. QED
  BY <1>1, <1>2, <1>3

(***************************************************************************)
(* An item that is added has a cluster that was not listed.                *)
(***************************************************************************)
LEMMA ItemAddedOnce ==
  ASSUME NEW list \in Seq(ClusterInfos), NEW item \in Subscriptions,
         \A i, j \in 1..Len(list) : list[i].id = list[j].id => i = j,
         NEW i \in 1..Len(AddItem(list, item)), NEW j \in 1..Len(AddItem(list, item)),
         AddItem(list, item)[i].id = AddItem(list, item)[j].id
  PROVE  i = j
<1> DEFINE new == AddItem(list, item)
<1>1. CASE item.id = BadID \/ item.id \in Ids(list)
  BY <1>1 DEF AddItem
<1>2. CASE item.id # BadID /\ item.id \notin Ids(list)
  <2>1. new = Append(list, item)
    BY <1>2 DEF AddItem
  <2> HIDE DEF new
  <2>2. item \in ClusterInfos
    BY <1>2 DEF Subscriptions, ClusterInfos
  <2>3. /\ Len(list) \in Nat /\ Len(new) = Len(list) + 1
        /\ \A k \in 1..Len(list) : new[k] = list[k]
        /\ new[Len(list) + 1] = item
    BY <2>1, <2>2, AppendProperties
  <2>4. \A k \in 1..Len(new) : k \in 1..Len(list) \/ k = Len(list) + 1
    BY <2>3
  <2>5. \A k \in 1..Len(list) : list[k].id # item.id
    BY <1>2, IdsOf
  <2>6. i \in 1..Len(new) /\ j \in 1..Len(new) /\ new[i].id = new[j].id
    BY DEF new
  <2>7. QED
    BY <2>3, <2>4, <2>5, <2>6
<1>3. QED
  BY <1>1, <1>2

(***************************************************************************)
(* A list of the aggregator is as long as its set of clusters, so it holds *)
(* each of them once.                                                      *)
(***************************************************************************)
LEMMA AggregatorList ==
  ASSUME NEW ids \in SUBSET Clusters,
         NEW list \in [1..Cardinality(ids) -> [id : ids, managed : {FALSE}]], Ids(list) = ids
  PROVE  /\ list \in Seq(ClusterInfos)
         /\ \A i, j \in 1..Len(list) : list[i].id = list[j].id => i = j
<1> DEFINE n == Cardinality(ids)
           f == [i \in 1..n |-> list[i].id]
<1>1. IsFiniteSet(ids) /\ n \in Nat
  BY FS_Subset, FS_CardinalityType, AmsClientAssumption
<1>2. IsFiniteSet(1..n) /\ Cardinality(1..n) = n
  BY <1>1, FS_Interval
<1> HIDE DEF n
<1>3. list \in [1..n -> [id : ids, managed : {FALSE}]]
  BY DEF n
<1>4. list \in Seq(ClusterInfos) /\ Len(list) = n
  <2>1. list \in [1..n -> ClusterInfos]
    BY <1>3 DEF ClusterInfos
  <2>2. QED
    BY <1>1, <2>1
<1>5. f \in Surjection(1..n, ids)
  <2>1. f \in [1..n -> ids]
    BY <1>3
  <2>2. ASSUME NEW c \in ids PROVE \E i \in 1..n : f[i] = c
    BY <1>3 DEF Ids
  <2>3. QED
    BY <2>1, <2>2 DEF Surjection
<1>6. f \in Injection(1..n, ids)
  BY <1>2, <1>5, FS_SurjSameCardinalityImpliesInj DEF n
<1>7. \A i, j \in 1..n : f[i] = f[j] => i = j
  BY <1>6 DEF Injection, IsInjective
<1>8. QED
  BY <1>4, <1>7

(***************************************************************************)
(* What AMS answers first is a sequence of subscriptions.                  *)
(***************************************************************************)
LEMMA QueryStarted ==
  ASSUME StartQuery
  PROVE  matching' \in Seq(Subscriptions) /\ Len(matching') <= MaxMatches
<1>1. PICK n \in 0..MaxMatches : matching' \in [1..n -> Subscriptions]
  BY DEF StartQuery
<1>2. n \in Nat /\ n <= MaxMatches
  BY AmsClientAssumption
<1>3. QED
  BY <1>1, <1>2

(***************************************************************************)
(* Every step changes the list or the pages, or only decides how to go on. *)
(***************************************************************************)
LEMMA Steps ==
  ASSUME Next
  PROVE  \/ Begin \/ NoClient \/ StartQuery \/ GetPage \/ GetPageFails \/ NextItem \/ EndRequest
         \/ Subscribe \/ Unsubscribe
         \/ Deciding /\ UNCHANGED <<matching, input, pageNum, page, infoList, history>>
BY DEF Next, Handler, Deciding, ReadParams, GetInternalOrgID, UseList, UseSingleClusterInfo,
       CheckManaged, FetchPrediction

(***************************************************************************)
(* A subscription comes: the others keep their order.                      *)
(***************************************************************************)
LEMMA SubscribeStep ==
  ASSUME matching \in Seq(Subscriptions), Subscribe
  PROVE  \E s \in Subscriptions, i \in 0..Len(matching) :
           /\ seen' = seen \cup {s}
           /\ matching' \in Seq(Subscriptions) /\ Len(matching') = Len(matching) + 1
           /\ \A k \in 1..Len(matching') :
                 matching'[k] = s \/ \E j \in 1..Len(matching) : matching'[k] = matching[j]
           /\ \A k \in 1..i : matching'[k] = matching[k]
           /\ \A k \in i + 1 .. Len(matching) : matching'[k + 1] = matching[k]
<1>1. PICK s \in Subscriptions, i \in 0..Len(matching) :
        /\ seen' = seen \cup {s}
        /\ matching' = InsertAt(matching, i, s)
  BY DEF Subscribe, InsertAt
<1> DEFINE r == InsertAt(matching, i, s)
<1>2. /\ r \in Seq(Subscriptions) /\ Len(r) = Len(matching) + 1
      /\ \A k \in 1..Len(r) : r[k] = s \/ \E j \in 1..Len(matching) : r[k] = matching[j]
      /\ \A k \in 1..i : r[k] = matching[k]
      /\ \A k \in i + 1 .. Len(matching) : r[k + 1] = matching[k]
  BY Inserted
<1> HIDE DEF r
<1>3. matching' = r
  BY <1>1 DEF r
<1>4. /\ matching' \in Seq(Subscriptions) /\ Len(matching') = Len(matching) + 1
      /\ \A k \in 1..Len(matching') :
            matching'[k] = s \/ \E j \in 1..Len(matching) : matching'[k] = matching[j]
      /\ \A k \in 1..i : matching'[k] = matching[k]
      /\ \A k \in i + 1 .. Len(matching) : matching'[k + 1] = matching[k]
  BY <1>2, <1>3
<1> WITNESS s \in Subscriptions, i \in 0..Len(matching)
<1>5. QED
  BY <1>1, <1>4

(***************************************************************************)
(* A subscription goes: those behind it move up, and moved records them if *)
(* the page that it was on was read before.                                *)
(***************************************************************************)
LEMMA UnsubscribeStep ==
  ASSUME matching \in Seq(Subscriptions), Unsubscribe
  PROVE  /\ UNCHANGED <<input, pc, pageNum, page, infoList, outcome, seen>>
         /\ stable' = stable \cap Ids(matching')
         /\ \A k \in 1..Len(matching') : \E j \in 1..Len(matching) : matching'[k] = matching[j]
         /\ \E i \in 1..Len(matching) :
              /\ matching' \in Seq(Subscriptions) /\ Len(matching') = Len(matching) - 1
              /\ \A k \in 1 .. i - 1 : matching'[k] = matching[k]
              /\ \A k \in i + 1 .. Len(matching) : matching'[k - 1] = matching[k]
              /\ moved' = moved \cup {matching[j].id : j \in
                    {k \in 1..Len(matching) : k = i \/ (i < k /\ i <= (pageNum - 1) * PageSize)}}
<1>1. DOMAIN matching = 1..Len(matching)
  OBVIOUS
<1>2. PICK i \in 1..Len(matching) :
        /\ matching' = RemoveAt(matching, i)
        /\ moved' = moved \cup {matching[j].id : j \in
              {k \in 1..Len(matching) : k = i \/ (i < k /\ i <= (pageNum - 1) * PageSize)}}
  BY <1>1 DEF Unsubscribe, RemoveAt
<1> DEFINE r == RemoveAt(matching, i)
<1>3. /\ r \in Seq(Subscriptions) /\ Len(r) = Len(matching) - 1
      /\ \A k \in 1..Len(r) : \E j \in 1..Len(matching) : r[k] = matching[j]
      /\ \A k \in 1 .. i - 1 : r[k] = matching[k]
      /\ \A k \in i + 1 .. Len(matching) : r[k - 1] = matching[k]
  BY Removed
<1> HIDE DEF r
<1>4. matching' = r
  BY <1>2 DEF r
<1>5. /\ UNCHANGED <<input, pc, pageNum, page, infoList, outcome, seen>>
      /\ stable' = stable \cap Ids(matching')
  BY DEF Unsubscribe
<1>6. QED
  BY <1>2, <1>3, <1>4, <1>5

-----------------------------------------------------------------------------
(***************************************************************************)
(* The type invariant: a page that is being read is not empty, the list    *)
(* holds valid cluster IDs only, and the matches stay within their bound.  *)
(***************************************************************************)
THEOREM TypeCorrect == Spec => []TypeOK
<1>1. Init => TypeOK
  <2> SUFFICES ASSUME Init PROVE TypeOK
    OBVIOUS
  <2>1. useAms \in BOOLEAN
    BY DEF Init
  <2>2. /\ matching = <<>> /\ Len(<<>>) = 0 /\ <<>> \in Seq(Subscriptions)
        /\ page = <<>> /\ infoList = <<>> /\ <<>> \in Seq(ClusterInfos)
        /\ MaxMatches \in Nat /\ changes \in 0..MaxChanges
    BY AmsClientAssumption DEF Init
  <2>3. QED
    BY <2>1, <2>2 DEF Init, TypeOK, Ops
<1>2. TypeOK /\ [Next]_vars => TypeOK'
  <2> SUFFICES ASSUME TypeOK, [Next]_vars PROVE TypeOK'
    OBVIOUS
  <2>1. CASE Begin
    BY <2>1 DEF Begin, TypeOK
  <2>2. CASE NoClient
    <3>1. infoList' \in Seq(ClusterInfos)
      <4>1. CASE UNCHANGED infoList
        BY <4>1 DEF TypeOK
      <4>2. CASE \E ids \in SUBSET Clusters :
                   /\ infoList' \in [1..Cardinality(ids) -> [id : ids, managed : {FALSE}]]
                   /\ Ids(infoList') = ids
        BY <4>2, AggregatorList
      <4>3. QED
        BY <2>2, <4>1, <4>2 DEF NoClient
    <3>2. pc' = "done" /\ outcome' \in {200, 500, 503}
      BY <2>2 DEF NoClient, End
    <3>3. QED
      BY <2>2, <3>1, <3>2 DEF NoClient, TypeOK
  <2>3. CASE StartQuery
    <3>1. \A i \in 1..Len(matching') : matching'[i] \in Subscriptions
      BY <2>3, QueryStarted
    <3>2. DOMAIN matching' = 1..Len(matching')
      BY <2>3, QueryStarted
    <3>3. seen' \subseteq Subscriptions
      BY <2>3, <3>1, <3>2 DEF StartQuery, Items
    <3>4. stable' \subseteq Clusters
      BY <2>3, <3>1, <3>2 DEF StartQuery, Ids, Subscriptions
    <3>5. QED
      BY <2>3, <3>3, <3>4, QueryStarted, AmsClientAssumption DEF StartQuery, TypeOK
  <2>4. CASE GetPage
    <3>1. page' \in Seq(Subscriptions)
      BY <2>4, PageItems DEF GetPage, TypeOK
    <3>2. pc' \in {"found", "item"} /\ (pc' = "item" => page' # <<>>)
      BY <2>4 DEF GetPage
    <3>3. QED
      BY <2>4, <3>1, <3>2 DEF GetPage, TypeOK
  <2>5. CASE GetPageFails
    <3>1. infoList' \in Seq(ClusterInfos)
      BY <2>5 DEF GetPageFails, TypeOK
    <3>2. QED
      BY <2>5, <3>1 DEF GetPageFails, End, TypeOK
  <2>6. CASE NextItem
    <3>1. /\ page # <<>> /\ Head(page) \in Subscriptions
          /\ page' \in Seq(Subscriptions)
      BY <2>6, HeadTailProperties DEF NextItem, TypeOK
    <3>2. infoList' \in Seq(ClusterInfos)
      BY <2>6, <3>1, ItemAdded DEF NextItem, TypeOK
    <3>3. pc' \in {"page", "item"} /\ (pc' = "item" => page' # <<>>) /\ pageNum' \in Nat \ {0}
      BY <2>6 DEF NextItem, TypeOK
    <3>4. QED
      BY <2>6, <3>1, <3>2, <3>3 DEF NextItem, TypeOK
  <2>7. CASE EndRequest
    <3>1. <<>> \in Seq(Subscriptions) /\ <<>> \in Seq(ClusterInfos) /\ Len(<<>>) = 0
      OBVIOUS
    <3>2. QED
      BY <2>7, <3>1, AmsClientAssumption DEF EndRequest, TypeOK
  <2>8. CASE Subscribe
    <3>1. matching \in Seq(Subscriptions)
      BY DEF TypeOK
    <3>2. /\ matching' \in Seq(Subscriptions) /\ Len(matching') = Len(matching) + 1
          /\ \E s \in Subscriptions : seen' = seen \cup {s}
      BY <2>8, <3>1, SubscribeStep
    <3>3. Len(matching) \in Nat /\ Len(matching) < MaxMatches
      BY <2>8 DEF Subscribe, TypeOK
    <3>4. changes' \in 0..MaxChanges
      BY <2>8, AmsClientAssumption DEF Subscribe, Changing, TypeOK
    <3>5. UNCHANGED <<input, pc, pageNum, page, infoList, outcome, stable, moved>>
      BY <2>8 DEF Subscribe
    <3>6. Len(matching') <= MaxMatches
      BY <3>2, <3>3, AmsClientAssumption
    <3>7. QED
      BY <3>2, <3>4, <3>5, <3>6 DEF TypeOK
  <2>9. CASE Unsubscribe
    <3>1. DOMAIN matching = 1..Len(matching) /\ Len(matching) \in Nat
      BY DEF TypeOK
    <3>2. matching \in Seq(Subscriptions)
      BY DEF TypeOK
    <3>3. matching' \in Seq(Subscriptions) /\ Len(matching') = Len(matching) - 1
      BY <2>9, <3>2, UnsubscribeStep
    <3>4. changes' \in 0..MaxChanges
      BY <2>9, AmsClientAssumption DEF Unsubscribe, Changing, TypeOK
    <3>5. \A k \in 1..Len(matching) : matching[k].id \in Clusters \cup {BadID}
      <4>1. \A s \in Subscriptions : s.id \in Clusters \cup {BadID}
        BY DEF Subscriptions
      <4>2. QED
        BY <4>1 DEF TypeOK
    <3>6. moved' \subseteq Clusters \cup {BadID}
      BY <2>9, <3>1, <3>5 DEF Unsubscribe, TypeOK
    <3>7. stable' \subseteq Clusters
      BY <2>9 DEF Unsubscribe, TypeOK
    <3>8. UNCHANGED <<input, pc, pageNum, page, infoList, outcome, seen>>
      BY <2>9 DEF Unsubscribe
    <3>9. Len(matching') <= MaxMatches
      BY <3>1, <3>3, AmsClientAssumption DEF TypeOK
    <3>10. QED
      BY <3>3, <3>4, <3>6, <3>7, <3>8, <3>9 DEF TypeOK
  <2>10. CASE Deciding /\ UNCHANGED <<matching, input, pageNum, page, infoList, history>>
    <3>1. pc' \in Places \ {"item"} /\ outcome' \in Statuses
      BY <2>10 DEF Deciding, ReadParams, GetInternalOrgID, UseList, UseSingleClusterInfo, CheckManaged,
                   FetchPrediction, End, Places, Statuses, TypeOK
    <3>2. QED
      BY <2>10, <3>1 DEF TypeOK, Places, Statuses
  <2>11. CASE UNCHANGED vars
    BY <2>11 DEF TypeOK
  <2>12. QED
    BY <2>1, <2>2, <2>3, <2>4, <2>5, <2>6, <2>7, <2>8, <2>9, <2>10, <2>11, Steps
<1>3. QED
  BY <1>1, <1>2, PTL DEF Spec

-----------------------------------------------------------------------------
(***************************************************************************)
(* Where a request can be.                                                 *)
(***************************************************************************)
LEMMA StepPlaces ==
  ASSUME TypeOK, OwnPlaces, Next
  PROVE  OwnPlaces'
<1> USE DEF OwnPlaces
<1>1. CASE Begin
  BY <1>1 DEF Begin
<1>2. CASE NoClient
  BY <1>2 DEF NoClient, End
<1>3. CASE StartQuery
  <2>1. pc = "query" /\ pc' = "page" /\ UNCHANGED <<input, outcome>>
    BY <1>3 DEF StartQuery
  <2>2. QED
    BY <2>1
<1>4. CASE GetPage
  BY <1>4 DEF GetPage
<1>5. CASE GetPageFails
  BY <1>5 DEF GetPageFails, End
<1>6. CASE NextItem
  <2>1. pc = "item" /\ pc' \in {"page", "item"} /\ UNCHANGED <<input, outcome>>
    BY <1>6 DEF NextItem
  <2>2. QED
    BY <2>1
<1>7. CASE EndRequest
  BY <1>7 DEF EndRequest
<1>8. CASE Subscribe \/ Unsubscribe
  <2>1. pc = "page" /\ UNCHANGED <<input, pc, outcome>>
    BY <1>8 DEF Subscribe, Unsubscribe, Changing
  <2>2. QED
    BY <2>1
<1>9. CASE Deciding /\ UNCHANGED <<matching, input, pageNum, page, infoList, history>>
  <2>1. CASE ReadParams
    BY <1>9, <2>1 DEF ReadParams, End, Ops
  <2>2. CASE GetInternalOrgID
    BY <1>9, <2>2 DEF GetInternalOrgID, End
  <2>3. CASE UseList \/ UseSingleClusterInfo \/ CheckManaged \/ FetchPrediction
    BY <1>9, <2>3 DEF UseList, UseSingleClusterInfo, CheckManaged, FetchPrediction, End
  <2>4. QED
    BY <1>9, <2>1, <2>2, <2>3 DEF Deciding
<1>10. QED
  BY <1>1, <1>2, <1>3, <1>4, <1>5, <1>6, <1>7, <1>8, <1>9, Steps

(***************************************************************************)
(* All that is read matched the query at some time.                        *)
(***************************************************************************)
LEMMA StepMatched ==
  ASSUME TypeOK, OwnPlaces, OwnPlaces', Matched, Next
  PROVE  Matched'
<1> USE DEF Matched
<1>1. CASE Begin \/ EndRequest
  <2>1. /\ matching' = <<>> /\ page' = <<>> /\ infoList' = <<>> /\ seen' = {} /\ stable' = {}
        /\ Len(<<>>) = 0
    BY <1>1 DEF Begin, EndRequest, OwnPlaces
  <2>2. QED
    BY <2>1
<1>2. CASE NoClient
  <2>1. /\ ~useAms' /\ pc' = "done"
        /\ UNCHANGED <<matching, page, seen, stable, op, cluster>>
    BY <1>2 DEF NoClient, End
  <2>2. QED
    BY <2>1
<1>3. CASE StartQuery
  <2>1. /\ infoList' = <<>> /\ page' = <<>> /\ Len(<<>>) = 0
        /\ seen' = Items(matching') /\ stable' = Ids(matching') \ {BadID} /\ UNCHANGED input
    BY <1>3 DEF StartQuery, OwnPlaces
  <2>2. DOMAIN matching' = 1..Len(matching')
    BY <1>3, QueryStarted
  <2>3. \A i \in 1..Len(matching') : matching'[i] \in seen'
    BY <2>1, <2>2 DEF Items
  <2>4. QED
    BY <2>1, <2>3
<1>4. CASE GetPage
  <2>1. /\ UNCHANGED <<matching, input, infoList, seen, stable>> /\ pc = "page"
        /\ page' = PageOf(pageNum)
    BY <1>4 DEF GetPage
  <2>2. \A i \in 1..Len(page') : \E k \in 1..Len(matching) : page'[i] = matching[k]
    <3>1. matching \in Seq(Subscriptions) /\ pageNum \in Nat \ {0}
      BY DEF TypeOK
    <3>2. \A i \in 1..Len(PageOf(pageNum)) :
             \E k \in 1..Len(matching) : PageOf(pageNum)[i] = matching[k]
      BY <3>1, PageItems
    <3>3. QED
      BY <2>1, <3>2
  <2>3. Ids(matching') = Ids(matching)
    BY <2>1
  <2>4. QED
    BY <2>1, <2>2, <2>3
<1>5. CASE GetPageFails
  <2>1. /\ infoList' = <<>> \/ infoList' = infoList
        /\ Len(<<>>) = 0 /\ pc' = "done"
        /\ UNCHANGED <<matching, page, input, seen, stable>>
    BY <1>5 DEF GetPageFails, End
  <2>2. QED
    BY <2>1
<1>6. CASE NextItem
  <2>1. /\ pc = "item" /\ page # <<>> /\ UNCHANGED <<matching, input, seen, stable>>
        /\ page' = Tail(page) /\ infoList' = AddItem(infoList, Head(page))
        /\ page \in Seq(Subscriptions) /\ infoList \in Seq(ClusterInfos) /\ useAms
    BY <1>6 DEF NextItem, TypeOK, OwnPlaces
  <2>2. /\ Head(page) \in Subscriptions /\ Head(page) = page[1] /\ 1 \in 1..Len(page)
        /\ Len(page') = Len(page) - 1 /\ Len(page) \in Nat
        /\ \A i \in 1..Len(page') : page'[i] = page[i + 1] /\ i + 1 \in 1..Len(page)
    BY <2>1, HeadTailProperties, EmptySeq
  <2>3. \A i \in 1..Len(infoList') :
           infoList'[i] = Head(page) \/ \E j \in 1..Len(infoList) : infoList'[i] = infoList[j]
    <3> DEFINE item == Head(page)
    <3>1. item \in Subscriptions /\ infoList \in Seq(ClusterInfos) /\ infoList' = AddItem(infoList, item)
      BY <2>1, <2>2
    <3> HIDE DEF item
    <3>2. \A i \in 1..Len(infoList') :
             infoList'[i] = item \/ \E j \in 1..Len(infoList) : infoList'[i] = infoList[j]
      BY <3>1, ItemAdded
    <3>3. QED
      BY <3>2 DEF item
  <2>4. \A i \in 1..Len(infoList') : infoList'[i] \in seen
    BY <2>1, <2>2, <2>3
  <2>5. \A i \in 1..Len(page') : page'[i] \in seen
    BY <2>2
  <2>6. Ids(matching') = Ids(matching)
    BY <2>1
  <2>7. QED
    BY <2>1, <2>4, <2>5, <2>6
<1>7. CASE Subscribe
  <2>1. matching \in Seq(Subscriptions) /\ Len(matching) \in Nat
    BY DEF TypeOK
  <2>2. PICK s \in Subscriptions, i \in 0..Len(matching) :
          /\ seen' = seen \cup {s}
          /\ matching' \in Seq(Subscriptions) /\ Len(matching') = Len(matching) + 1
          /\ \A k \in 1..Len(matching') :
                matching'[k] = s \/ \E j \in 1..Len(matching) : matching'[k] = matching[j]
          /\ \A k \in 1..i : matching'[k] = matching[k]
          /\ \A k \in i + 1 .. Len(matching) : matching'[k + 1] = matching[k]
    BY <1>7, <2>1, SubscribeStep
  <2>3. UNCHANGED <<input, pc, page, infoList, stable>> /\ pc = "page"
    BY <1>7 DEF Subscribe, Changing
  <2>4. \A k \in 1..Len(matching') : matching'[k] \in seen'
    BY <2>2, <2>1
  <2>5. ASSUME NEW c \in Ids(matching) PROVE c \in Ids(matching')
    <3>1. PICK k \in 1..Len(matching) : matching[k].id = c
      BY <2>2, <2>1, IdsOf
    <3>2. /\ k \in 1..i \/ k \in i + 1 .. Len(matching)
          /\ k \in 1..Len(matching') /\ k + 1 \in 1..Len(matching')
      BY <2>2, <2>1
    <3>3. \E j \in 1..Len(matching') : matching'[j].id = c
      BY <2>2, <2>1, <3>1, <3>2
    <3>4. QED
      BY <2>2, <2>1, <3>3, IdsOf
  <2>6. QED
    BY <2>2, <2>3, <2>4, <2>5
<1>8. CASE Unsubscribe
  <2>1. /\ \A k \in 1..Len(matching') : \E j \in 1..Len(matching) : matching'[k] = matching[j]
        /\ UNCHANGED <<input, pc, page, infoList, seen>> /\ stable' = stable \cap Ids(matching')
    <3>1. matching \in Seq(Subscriptions)
      BY DEF TypeOK
    <3>2. QED
      BY <1>8, <3>1, UnsubscribeStep
  <2>2. QED
    BY <2>1
<1>9. CASE Deciding /\ UNCHANGED <<matching, input, pageNum, page, infoList, history>>
  <2>1. pc' \in {"page", "item", "found"} => FALSE
    BY <1>9 DEF Deciding, ReadParams, GetInternalOrgID, UseList, UseSingleClusterInfo, CheckManaged,
                FetchPrediction, End, TypeOK
  <2>2. QED
    BY <1>9, <2>1
<1>10. QED
  BY <1>1, <1>2, <1>3, <1>4, <1>5, <1>6, <1>7, <1>8, <1>9, Steps

(***************************************************************************)
(* No cluster is listed twice, however the pages overlap.                  *)
(***************************************************************************)
LEMMA StepUnique ==
  ASSUME TypeOK, Unique, Next
  PROVE  Unique'
<1>1. CASE NextItem
  <2> DEFINE item == Head(page)
  <2>1. /\ item \in Subscriptions /\ infoList \in Seq(ClusterInfos)
        /\ infoList' = AddItem(infoList, item)
    BY <1>1, HeadTailProperties DEF NextItem, TypeOK
  <2> HIDE DEF item
  <2>2. \A i, j \in 1..Len(infoList) : infoList[i].id = infoList[j].id => i = j
    BY DEF Unique
  <2>3. ASSUME NEW i \in 1..Len(infoList'), NEW j \in 1..Len(infoList'),
               infoList'[i].id = infoList'[j].id
        PROVE  i = j
    BY <2>1, <2>2, <2>3, ItemAddedOnce
  <2>4. QED
    BY <2>3 DEF Unique
<1>2. CASE NoClient
  <2>1. CASE UNCHANGED infoList
    BY <2>1 DEF Unique
  <2>2. CASE \E ids \in SUBSET Clusters :
               /\ infoList' \in [1..Cardinality(ids) -> [id : ids, managed : {FALSE}]]
               /\ Ids(infoList') = ids
    BY <2>2, AggregatorList DEF Unique
  <2>3. QED
    BY <1>2, <2>1, <2>2 DEF NoClient
<1>3. CASE infoList' = <<>>
  BY <1>3 DEF Unique
<1>4. CASE UNCHANGED infoList
  BY <1>4 DEF Unique
<1>5. QED
  BY <1>1, <1>2, <1>3, <1>4, Steps
     DEF Begin, StartQuery, GetPage, GetPageFails, EndRequest, Subscribe, Unsubscribe

(***************************************************************************)
(* An insertion moves nothing to a page that was read before, and a        *)
(* removal only the clusters that moved records.                           *)
(***************************************************************************)
LEMMA StepBehind ==
  ASSUME TypeOK, Subscribe \/ Unsubscribe, NEW c, c \notin moved',
         Behind(c, (pageNum - 1) * PageSize)
  PROVE  Behind(c, (pageNum - 1) * PageSize)'
<1> DEFINE offset == (pageNum - 1) * PageSize
<1>1. /\ offset \in Nat /\ UNCHANGED pageNum
      /\ matching \in Seq(Subscriptions) /\ Len(matching) \in Nat
  <2>1. UNCHANGED pageNum
    BY DEF Subscribe, Unsubscribe
  <2>2. QED
    BY <2>1, Offsets DEF TypeOK
<1>2. offset' = offset
  <2>1. PageSize' = PageSize
    BY DEF PageSize
  <2>2. QED
    BY <1>1, <2>1
<1>3. PICK k \in 1..Len(matching) : k > offset /\ matching[k].id = c
  BY DEF Behind
<1> HIDE DEF offset
<1>4. SUFFICES \E j \in 1..Len(matching') : j > offset /\ matching'[j].id = c
  BY <1>2 DEF Behind, offset
<1>5. CASE Subscribe
  <2>1. PICK i \in 0..Len(matching) :
          /\ Len(matching') = Len(matching) + 1
          /\ \A j \in 1..i : matching'[j] = matching[j]
          /\ \A j \in i + 1 .. Len(matching) : matching'[j + 1] = matching[j]
    BY <1>1, <1>5, SubscribeStep
  <2>2. CASE k <= i
    <3>1. k \in 1..i /\ k \in 1..Len(matching')
      BY <1>1, <2>1, <2>2
    <3>2. QED
      BY <1>3, <2>1, <3>1
  <2>3. CASE ~(k <= i)
    <3>1. k \in i + 1 .. Len(matching) /\ k + 1 \in 1..Len(matching') /\ k + 1 > offset
      BY <1>1, <1>3, <2>1, <2>3
    <3>2. matching'[k + 1].id = c
      BY <1>3, <2>1, <3>1
    <3>3. QED
      BY <3>1, <3>2
  <2>4. QED
    BY <2>2, <2>3
<1>6. CASE Unsubscribe
  <2>1. PICK i \in 1..Len(matching) :
          /\ Len(matching') = Len(matching) - 1
          /\ \A j \in 1 .. i - 1 : matching'[j] = matching[j]
          /\ \A j \in i + 1 .. Len(matching) : matching'[j - 1] = matching[j]
          /\ moved' = moved \cup {matching[j].id : j \in
                {n \in 1..Len(matching) : n = i \/ (i < n /\ i <= (pageNum - 1) * PageSize)}}
    BY <1>1, <1>6, UnsubscribeStep
  <2>2. k # i /\ (i < k => i > offset)
    <3>1. \A n \in 1..Len(matching) : n = i \/ (i < n /\ i <= offset) => matching[n].id # c
      BY <2>1 DEF offset
    <3>2. k # i /\ ~(i < k /\ i <= offset)
      BY <1>3, <3>1
    <3>3. QED
      BY <1>1, <3>2
  <2>3. CASE k < i
    <3>1. k \in 1 .. i - 1 /\ k \in 1..Len(matching')
      BY <1>1, <2>1, <2>3
    <3>2. QED
      BY <1>3, <2>1, <3>1
  <2>4. CASE i < k
    <3>1. k \in i + 1 .. Len(matching) /\ k - 1 \in 1..Len(matching') /\ k - 1 > offset
      BY <1>1, <1>3, <2>1, <2>2, <2>4
    <3>2. matching'[k - 1].id = c
      BY <1>3, <2>1, <3>1
    <3>3. QED
      BY <3>1, <3>2
  <2>5. QED
    BY <1>1, <2>2, <2>3, <2>4
<1>7. QED
  BY <1>5, <1>6

(***************************************************************************)
(* A cluster that has matched throughout is not lost between two pages.    *)
(***************************************************************************)
LEMMA StepComplete ==
  ASSUME TypeOK, OwnPlaces, Matched, Complete, Next
  PROVE  Complete'
<1> DEFINE before == (pageNum - 1) * PageSize
           upto == pageNum * PageSize
<1> SUFFICES ASSUME NEW c \in stable' \ moved', pc' \in {"page", "item", "found"}
             PROVE  /\ pc' = "page" => c \in Ids(infoList') \/ Behind(c, before)'
                    /\ pc' = "item" => c \in Ids(infoList') \cup Ids(page') \/ Behind(c, upto)'
                    /\ pc' = "found" => c \in Ids(infoList')
  BY DEF Complete
<1>1. /\ matching \in Seq(Subscriptions) /\ infoList \in Seq(ClusterInfos)
      /\ page \in Seq(Subscriptions) /\ pageNum \in Nat \ {0}
      /\ before \in Nat /\ upto \in Nat /\ Len(matching) \in Nat
  BY Offsets DEF TypeOK
<1>2. PageSize' = PageSize
  BY DEF PageSize
<1>3. CASE StartQuery
  <2>1. /\ pc' = "page" /\ pageNum' = 1 /\ c \in Ids(matching')
        /\ matching' \in Seq(Subscriptions)
    BY <1>3, QueryStarted DEF StartQuery
  <2>2. PICK k \in 1..Len(matching') : matching'[k].id = c
    BY <2>1, IdsOf
  <2>3. before' = 0
    <3>1. (1 - 1) * PageSize = 0
      BY PageSizePositive
    <3>2. QED
      BY <1>2, <2>1, <3>1
  <2>4. Len(matching') \in Nat /\ k > 0
    BY <2>1
  <2>5. Behind(c, before)'
    BY <2>2, <2>3, <2>4 DEF Behind
  <2>6. QED
    BY <2>1, <2>5
<1>4. CASE Subscribe \/ Unsubscribe
  <2>1. /\ pc = "page" /\ pc' = "page" /\ UNCHANGED infoList
        /\ stable' \subseteq stable /\ moved \subseteq moved'
    BY <1>4 DEF Subscribe, Unsubscribe, Changing
  <2>2. c \in Ids(infoList) \/ Behind(c, before)
    BY <2>1 DEF Complete
  <2>3. QED
    BY <1>4, <2>1, <2>2, StepBehind
<1>5. CASE GetPage
  <2>1. /\ pc = "page" /\ page' = PageOf(pageNum)
        /\ pc' = (IF page' = <<>> THEN "found" ELSE "item")
        /\ UNCHANGED <<matching, pageNum, infoList, stable, moved>>
    BY <1>5 DEF GetPage
  <2>2. CASE c \in Ids(infoList)
    BY <2>1, <2>2
  <2>3. CASE Behind(c, before)
    <3>1. PICK k \in 1..Len(matching) : k > before /\ matching[k].id = c
      BY <2>3 DEF Behind
    <3>2. page' # <<>> /\ page' \in Seq(Subscriptions)
      <4>1. ~(Len(matching) <= before)
        BY <1>1, <3>1
      <4>2. QED
        BY <1>1, <2>1, <4>1, PageItems
    <3>3. CASE k <= upto
      <4>1. \E i \in 1..Len(page') : page'[i] = matching[k]
        BY <1>1, <2>1, <3>1, <3>3, PageItems
      <4>2. c \in Ids(page')
        BY <3>1, <3>2, <4>1, IdsOf
      <4>3. QED
        BY <2>1, <3>2, <4>2
    <3>4. CASE k > upto
      <4>1. upto' = upto
        BY <1>2, <2>1
      <4>2. Behind(c, upto)'
        BY <2>1, <3>1, <3>4, <4>1 DEF Behind
      <4>3. QED
        BY <2>1, <3>2, <4>2
    <3>5. QED
      BY <1>1, <3>3, <3>4
  <2>4. QED
    BY <2>1, <2>2, <2>3 DEF Complete
<1>6. CASE NextItem
  <2> DEFINE item == Head(page)
  <2>1. /\ pc = "item" /\ page # <<>> /\ page' = Tail(page)
        /\ infoList' = AddItem(infoList, item) /\ item \in Subscriptions
        /\ UNCHANGED <<matching, stable, moved>>
    BY <1>6, HeadTailProperties DEF NextItem, TypeOK
  <2>2. /\ page' = <<>> => pc' = "page" /\ pageNum' = pageNum + 1
        /\ page' # <<>> => pc' = "item" /\ pageNum' = pageNum
    BY <1>6 DEF NextItem
  <2>3. /\ Head(page) = page[1] /\ Len(page') = Len(page) - 1 /\ Len(page) \in Nat
        /\ page' \in Seq(Subscriptions)
        /\ \A i \in 1..Len(page') : page'[i] = page[i + 1]
    BY <1>1, <2>1, HeadTailProperties
  <2>4. /\ c \in Ids(infoList) => c \in Ids(infoList')
        /\ item.id # BadID => item.id \in Ids(infoList')
    BY <1>1, <2>1, ItemAdded
  <2>5. c \in Ids(page) => c = item.id \/ c \in Ids(page')
    <3>1. SUFFICES ASSUME c \in Ids(page) PROVE c = item.id \/ c \in Ids(page')
      OBVIOUS
    <3>2. PICK i \in 1..Len(page) : page[i].id = c
      BY <1>1, <3>1, IdsOf
    <3>3. CASE i = 1
      BY <2>3, <3>2, <3>3
    <3>4. CASE i # 1
      <4>1. i - 1 \in 1..Len(page') /\ (i - 1) + 1 = i
        BY <2>3, <3>4
      <4>2. page'[i - 1].id = c
        BY <2>3, <3>2, <4>1
      <4>3. QED
        BY <2>3, <4>1, <4>2, IdsOf
    <3>5. QED
      BY <3>3, <3>4
  <2>6. c # BadID
    BY <2>1 DEF Matched
  <2>7. c \in Ids(infoList') \cup Ids(page') \/ Behind(c, upto)
    BY <2>1, <2>4, <2>5, <2>6 DEF Complete
  <2>8. CASE page' = <<>>
    <3>1. c \notin Ids(page')
      BY <2>8 DEF Ids
    <3>2. before' = upto
      <4>1. pageNum' = pageNum + 1 /\ ((pageNum + 1) - 1) * PageSize = pageNum * PageSize
        BY <1>1, <2>2, <2>8, Offsets
      <4>2. QED
        BY <1>2, <4>1
    <3>3. Behind(c, upto) => Behind(c, before)'
      BY <2>1, <3>2 DEF Behind
    <3>4. QED
      BY <2>2, <2>7, <2>8, <3>1, <3>3
  <2>9. CASE page' # <<>>
    <3>1. upto' = upto
      BY <1>2, <2>2, <2>9
    <3>2. Behind(c, upto) => Behind(c, upto)'
      BY <2>1, <3>1 DEF Behind
    <3>3. QED
      BY <2>2, <2>7, <2>9, <3>2
  <2>10. QED
    BY <2>8, <2>9
<1>7. ~Begin /\ ~NoClient /\ ~GetPageFails /\ ~EndRequest
  BY DEF Begin, NoClient, GetPageFails, EndRequest, End
<1>8. ~Deciding
  BY DEF Deciding, ReadParams, GetInternalOrgID, UseList, UseSingleClusterInfo, CheckManaged,
         FetchPrediction, End
<1>9. StartQuery \/ Subscribe \/ Unsubscribe \/ GetPage \/ NextItem
  BY <1>7, <1>8, Steps
<1> HIDE DEF before, upto
<1>10. QED
  BY <1>3, <1>4, <1>5, <1>6, <1>9

(***************************************************************************)
(* A prediction is fetched only for a cluster that was seen as one that is *)
(* not managed.                                                            *)
(***************************************************************************)
LEMMA StepUnmanaged ==
  ASSUME TypeOK, OwnPlaces, Matched, Unmanaged, Next
  PROVE  Unmanaged'
<1> SUFFICES ASSUME pc' = "fetch", op' = "predict"
             PROVE  \E s \in seen' : s.id = cluster' /\ ~s.managed
  BY DEF Unmanaged
<1>1. Deciding /\ UNCHANGED <<matching, input, pageNum, page, infoList, history>>
  <2>1. ~Begin /\ ~NoClient /\ ~StartQuery /\ ~GetPage /\ ~GetPageFails /\ ~NextItem /\ ~EndRequest
    BY DEF Begin, NoClient, StartQuery, GetPage, GetPageFails, NextItem, EndRequest, End
  <2>2. ~Subscribe /\ ~Unsubscribe
    BY DEF Subscribe, Unsubscribe, Changing
  <2>3. QED
    BY <2>1, <2>2, Steps
<1>2. CheckManaged
  BY <1>1 DEF Deciding, ReadParams, GetInternalOrgID, UseList, UseSingleClusterInfo, FetchPrediction, End
<1>3. /\ infoList # <<>> /\ useAms /\ op = "predict"
      /\ infoList[1].id = cluster /\ ~infoList[1].managed
  BY <1>1, <1>2 DEF CheckManaged, OwnPlaces, End
<1>4. 1 \in 1..Len(infoList)
  BY <1>3, EmptySeq DEF TypeOK
<1>5. infoList[1] \in seen
  BY <1>3, <1>4 DEF Matched
<1>6. QED
  BY <1>1, <1>3, <1>5

-----------------------------------------------------------------------------
(***************************************************************************)
(* The inductive invariant of the paging.                                  *)
(***************************************************************************)
LEMMA PagesFollowed ==
  Spec => [](OwnPlaces /\ Matched /\ Unique /\ Complete /\ Unmanaged)
<1> DEFINE Inv == OwnPlaces /\ Matched /\ Unique /\ Complete /\ Unmanaged
<1>1. Init => Inv
  <2> SUFFICES ASSUME Init PROVE Inv
    OBVIOUS
  <2>1. /\ pc = "idle" /\ matching = <<>> /\ page = <<>> /\ infoList = <<>> /\ seen = {}
        /\ stable = {} /\ outcome = 0 /\ Len(<<>>) = 0
    BY DEF Init
  <2>2. QED
    BY <2>1 DEF OwnPlaces, Matched, Unique, Complete, Unmanaged
<1>2. TypeOK /\ Inv /\ [Next]_vars => Inv'
  <2> SUFFICES ASSUME TypeOK, Inv, [Next]_vars PROVE Inv'
    OBVIOUS
  <2>1. CASE Next
    <3>1. OwnPlaces'
      BY <2>1, StepPlaces
    <3>2. QED
      BY <2>1, <3>1, StepMatched, StepUnique, StepComplete, StepUnmanaged
  <2>2. CASE UNCHANGED vars
    BY <2>2 DEF OwnPlaces, Matched, Unique, Complete, Unmanaged, Behind, Ids, PageSize
  <2>3. QED
    BY <2>1, <2>2
<1>3. QED
  BY <1>1, <1>2, TypeCorrect, PTL DEF Spec

(***************************************************************************)
(* The steps that may end a request; after the others there is no outcome. *)
(***************************************************************************)
LEMMA Undecided ==
  ASSUME OwnPlaces, Next
  PROVE  outcome' = 0 \/ NoClient \/ GetPageFails \/ Deciding
<1>1. Begin \/ StartQuery \/ GetPage \/ NextItem \/ EndRequest => outcome' = 0
  BY DEF Begin, StartQuery, GetPage, NextItem, EndRequest, OwnPlaces
<1>2. Subscribe \/ Unsubscribe => outcome' = 0
  BY DEF Subscribe, Unsubscribe, Changing, OwnPlaces
<1>3. QED
  BY <1>1, <1>2, Steps

(***************************************************************************)
(* A list is answered with 200 without AMS, or once its last page is read. *)
(***************************************************************************)
LEMMA ListAnswered ==
  ASSUME OwnPlaces, Next, op' = "list", outcome' = 200
  PROVE  NoClient \/ UseList
<1>1. ~GetPageFails
  BY DEF GetPageFails, End
<1>2. ReadParams => outcome' = outcome \/ outcome' \in {400, 403}
  BY DEF ReadParams, End
<1>3. ReadParams \/ GetInternalOrgID => outcome = 0
  BY DEF ReadParams, GetInternalOrgID, OwnPlaces
<1>4. ~ReadParams
  BY <1>2, <1>3
<1>5. ~GetInternalOrgID
  BY <1>3 DEF GetInternalOrgID, End
<1>6. ~UseSingleClusterInfo /\ ~CheckManaged /\ ~FetchPrediction
  BY DEF UseSingleClusterInfo, CheckManaged, FetchPrediction, OwnPlaces
<1>7. QED
  BY <1>1, <1>4, <1>5, <1>6, Undecided DEF Deciding

(***************************************************************************)
(* The list of an organisation: no cluster twice, none that never matched, *)
(* and all that matched throughout but for those that a removal on a page  *)
(* already read has moved.                                                 *)
(***************************************************************************)
THEOREM ListExact == Spec => []ListingExact
<1> DEFINE Listed == op = "list" /\ useAms /\ outcome = 200 => stable \subseteq Ids(infoList) \cup moved
<1>1. Init => Listed
  BY DEF Init
<1>2. TypeOK /\ (OwnPlaces /\ Matched /\ Unique /\ Complete /\ Unmanaged)
        /\ Listed /\ [Next]_vars
        => Listed'
  <2> SUFFICES ASSUME TypeOK, OwnPlaces, Complete, Listed, [Next]_vars,
                      op' = "list", useAms', outcome' = 200
               PROVE  stable' \subseteq Ids(infoList') \cup moved'
    OBVIOUS
  <2>1. CASE UseList
    BY <2>1 DEF UseList, Complete, Ids
  <2>2. CASE UNCHANGED vars
    BY <2>2 DEF Ids
  <2>3. CASE Next /\ ~UseList
    <3>1. NoClient
      BY <2>3, ListAnswered
    <3>2. NoClient => ~useAms /\ useAms' = useAms
      BY DEF NoClient
    <3>3. QED
      BY <3>1, <3>2
  <2>4. QED
    BY <2>1, <2>2, <2>3
<1>3. TypeOK /\ (OwnPlaces /\ Matched /\ Unique /\ Complete /\ Unmanaged) /\ Listed
        => ListingExact
  <2> SUFFICES ASSUME TypeOK, Matched, Unique, Listed PROVE ListingExact
    OBVIOUS
  <2>1. DOMAIN infoList = 1..Len(infoList)
    BY DEF TypeOK
  <2>2. QED
    BY <2>1 DEF ListingExact, Matched, Unique, Items
<1>4. QED
  BY <1>1, <1>2, <1>3, TypeCorrect, PagesFollowed, PTL DEF Spec

(***************************************************************************)
(* The prediction endpoint answers about the cluster in the path only,     *)
(* whatever AMS lists, and the cluster endpoint says that there is no      *)
(* cluster only if none matched throughout, but for those that were moved. *)
(***************************************************************************)
THEOREM OwnClusterAnswered == Spec => []AnsweredAboutOwnCluster
<1>1. Init => AnsweredAboutOwnCluster
  BY DEF Init, AnsweredAboutOwnCluster
<1>2. TypeOK /\ (OwnPlaces /\ Matched /\ Unique /\ Complete /\ Unmanaged) /\ Unmanaged'
        /\ AnsweredAboutOwnCluster /\ [Next]_vars
        => AnsweredAboutOwnCluster'
  <2> SUFFICES ASSUME TypeOK, OwnPlaces, Matched, Complete, Unmanaged, Unmanaged',
                      AnsweredAboutOwnCluster, [Next]_vars
               PROVE  AnsweredAboutOwnCluster'
    OBVIOUS
  <2>1. CASE outcome' = 0
    BY <2>1 DEF AnsweredAboutOwnCluster, Unmanaged
  <2>2. CASE UNCHANGED vars
    BY <2>2 DEF AnsweredAboutOwnCluster
  <2>3. CASE NoClient
    <3>1. UNCHANGED input /\ pc' = "done" /\ (op \in {"single", "predict"} => outcome' = 503)
      BY <2>3 DEF NoClient, End
    <3>2. QED
      BY <3>1 DEF AnsweredAboutOwnCluster
  <2>4. CASE GetPageFails
    BY <2>4 DEF GetPageFails, End, AnsweredAboutOwnCluster
  <2>5. CASE ReadParams \/ UseList
    BY <2>5 DEF ReadParams, UseList, End, OwnPlaces, AnsweredAboutOwnCluster
  <2>6. CASE GetInternalOrgID
    BY <2>6 DEF GetInternalOrgID, End, OwnPlaces, AnsweredAboutOwnCluster
  <2>7. CASE UseSingleClusterInfo
    <3>1. UNCHANGED <<input, seen, stable, moved, infoList>> /\ pc = "found" /\ outcome = 0 /\ useAms
      BY <2>7 DEF UseSingleClusterInfo, OwnPlaces
    <3>2. outcome' = 200 => op = "single" /\ infoList # <<>> /\ infoList[1] \in seen
      <4>1. SUFFICES ASSUME outcome' = 200
                     PROVE  op = "single" /\ infoList # <<>> /\ infoList[1] \in seen
        OBVIOUS
      <4>2. op = "single" /\ infoList # <<>>
        BY <2>7, <3>1, <4>1 DEF UseSingleClusterInfo, End
      <4>3. 1 \in 1..Len(infoList)
        BY <4>2, EmptySeq DEF TypeOK
      <4>4. QED
        BY <3>1, <4>2, <4>3 DEF Matched
    <3>3. outcome' = 404 => stable \subseteq moved
      <4>1. SUFFICES ASSUME outcome' = 404 PROVE stable \subseteq moved
        OBVIOUS
      <4>2. infoList = <<>>
        BY <2>7, <3>1, <4>1 DEF UseSingleClusterInfo, End
      <4>3. Ids(infoList) = {}
        BY <4>2 DEF Ids
      <4>4. QED
        BY <3>1, <4>3 DEF Complete
    <3>4. outcome' \in {0, 200, 404} /\ pc' # "fetch"
      BY <2>7, <3>1 DEF UseSingleClusterInfo, End
    <3>5. QED
      BY <3>1, <3>2, <3>3, <3>4 DEF AnsweredAboutOwnCluster
  <2>8. CASE CheckManaged
    <3>1. /\ UNCHANGED <<input, seen, infoList>> /\ pc = "managed" /\ outcome = 0
          /\ op = "predict" /\ useAms /\ infoList # <<>>
      BY <2>8 DEF CheckManaged, OwnPlaces
    <3>2. 1 \in 1..Len(infoList)
      BY <3>1, EmptySeq DEF TypeOK
    <3>3. infoList[1] \in seen
      BY <3>1, <3>2 DEF Matched
    <3>4. \/ outcome' = 404
          \/ outcome' = 204 /\ infoList[1].id = cluster /\ infoList[1].managed
          \/ outcome' = 0
      BY <2>8, <3>1 DEF CheckManaged, End
    <3>5. QED
      BY <3>1, <3>3, <3>4 DEF AnsweredAboutOwnCluster, Unmanaged
  <2>9. CASE FetchPrediction
    <3>1. /\ UNCHANGED <<input, seen>> /\ pc = "fetch" /\ op # "single"
          /\ outcome' # 204 /\ pc' = "done"
      BY <2>9 DEF FetchPrediction, OwnPlaces, End
    <3>2. QED
      BY <3>1 DEF Unmanaged, AnsweredAboutOwnCluster
  <2>10. QED
    BY <2>1, <2>2, <2>3, <2>4, <2>5, <2>6, <2>7, <2>8, <2>9, Undecided DEF Deciding
<1>3. QED
  BY <1>1, <1>2, TypeCorrect, PagesFollowed, PTL DEF Spec
=============================================================================
