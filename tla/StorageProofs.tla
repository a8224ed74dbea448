--------------------------- MODULE StorageProofs ----------------------------
(* Proofs about the components of Storage: the inductive invariant of each, which
   stands at the end of its module, and the properties it implies. *)
EXTENDS Storage, FiniteSetTheorems, WellFoundedInduction, TLAPS

-----------------------------------------------------------------------------
(* DataFile: the mutations of a file. *)

LEMMA DataInductive ==
    Data!ConstantsAreLegal /\ Data!IInv /\ [Data!Next]_Data!vars => Data!IInv'
<1> SUFFICES ASSUME Data!ConstantsAreLegal, Data!IInv, [Data!Next]_Data!vars
             PROVE  Data!IInv'
  OBVIOUS
<1> USE DEF Data!ConstantsAreLegal, Data!IInv, Data!TypeOK, Data!NoUpdateIsLost
<1>1. ASSUME NEW r \in Mutation, Data!Start(r)
      PROVE  Data!IInv'
  BY <1>1 DEF Data!Start, Data!Moves
<1>2. ASSUME NEW r \in Mutation, Data!LockFile(r)
      PROVE  Data!IInv'
  BY <1>2 DEF Data!LockFile, Data!Moves
<1>3. ASSUME NEW r \in Mutation, Data!Busy(r)
      PROVE  Data!IInv'
  BY <1>3 DEF Data!Busy, Data!Moves
<1>4. ASSUME NEW r \in Mutation, Data!Read(r)
      PROVE  Data!IInv'
  BY <1>4 DEF Data!Read, Data!Moves
<1>5. ASSUME NEW r \in Mutation, Data!Refuse(r)
      PROVE  Data!IInv'
  BY <1>5 DEF Data!Refuse, Data!Moves, Data!Unlocked
<1>6. ASSUME NEW r \in Mutation, Data!Replace(r)
      PROVE  Data!IInv'
  BY <1>6 DEF Data!Replace, Data!Moves
<1>7. ASSUME NEW r \in Mutation, Data!Unlock(r)
      PROVE  Data!IInv'
  BY <1>7 DEF Data!Unlock, Data!Moves, Data!Unlocked
<1>8. ASSUME NEW r \in Mutation, Data!Cancel(r)
      PROVE  Data!IInv'
  BY <1>8 DEF Data!Cancel
<1>9. ASSUME NEW w \in FileWorker, Data!Crash(w)
      PROVE  Data!IInv'
  BY <1>9 DEF Data!Crash
<1>10. CASE UNCHANGED Data!vars
  BY <1>10 DEF Data!vars
<1> QED
  BY <1>1, <1>2, <1>3, <1>4, <1>5, <1>6, <1>7, <1>8, <1>9, <1>10 DEF Data!Next, Data!Finished

\* The file is what the mutations leave when each is one step, for any requests, workers
\* and items, whatever is cancelled, times out or crashes.
THEOREM DataLossless == Data!Spec => []NoUpdateIsLost
<1> Data!ConstantsAreLegal
  BY DataIsLegal
<1>1. Data!Init => Data!IInv
  BY DEF Data!ConstantsAreLegal, Data!Init, Data!IInv, Data!TypeOK, NoUpdateIsLost,
     Data!NoUpdateIsLost
<1>2. Data!IInv /\ [Data!Next]_Data!vars => Data!IInv'
  BY DataInductive
<1>3. Data!IInv => NoUpdateIsLost
  BY DEF Data!IInv, NoUpdateIsLost, Data!NoUpdateIsLost
<1> QED
  BY <1>1, <1>2, <1>3, PTL DEF Data!Spec

-----------------------------------------------------------------------------
(* Media: rows, files and quotas. *)

\* The cardinality of FiniteSets, and finiteness, under the names they have in the instance.
LEMMA ShelfCounted ==
  ASSUME NEW S
  PROVE  /\ Shelf!Cardinality(S) = Cardinality(S)
         /\ Shelf!IsFiniteSet(S) <=> IsFiniteSet(S)
<1> DEFINE F == CHOOSE CS : CS = [T \in SUBSET S |->
                    IF T = {} THEN 0 ELSE 1 + CS[T \ {CHOOSE x : x \in T}]]
<1>1. Cardinality(S) = F[S]
  BY DEF Cardinality
<1>2. Shelf!Cardinality(S) = F[S]
  BY DEF Shelf!Cardinality
<1>3. Shelf!IsFiniteSet(S) <=> IsFiniteSet(S)
  BY DEF Shelf!IsFiniteSet, IsFiniteSet
<1> HIDE DEF F
<1> QED
  BY <1>1, <1>2, <1>3

LEMMA ShelfBytesFinite ==
  ASSUME Shelf!ConstantsAreLegal, NEW w, NEW R, R \subseteq Shelf!Object
  PROVE  IsFiniteSet(Shelf!BytesOf(w, R)) /\ Shelf!Bytes(w, R) \in Nat
<1> DEFINE A == {o \in R : OwnerOf[o] = w}
           f == [o \in A |-> {o} \X (1..Size[o])]
           T == {f[o] : o \in A}
<1>1. IsFiniteSet(A)
  BY FS_Subset, ShelfCounted DEF Shelf!ConstantsAreLegal
<1>2. f \in Surjection(A, T)
  BY DEF Surjection
<1>3. IsFiniteSet(T)
  BY <1>1, <1>2, FS_Surjection
<1>4. ASSUME NEW o \in A
      PROVE  IsFiniteSet(f[o])
  <2>1. 1 \in Int /\ Size[o] \in Int
    BY DEF Shelf!ConstantsAreLegal
  <2>2. IsFiniteSet({o}) /\ IsFiniteSet(1..Size[o])
    BY <2>1, FS_Singleton, FS_Interval
  <2> QED
    BY <2>2, FS_Product
<1>5. IsFiniteSet(UNION T)
  BY <1>3, <1>4, FS_UNION
<1>6. Shelf!BytesOf(w, R) = UNION T
  BY DEF Shelf!BytesOf
<1> QED
  BY <1>5, <1>6, FS_CardinalityType, ShelfCounted DEF Shelf!Bytes

\* One more row counts for its owner, and for nobody else.
LEMMA ShelfBytesAdded ==
  ASSUME Shelf!ConstantsAreLegal, NEW w, NEW R, R \subseteq Shelf!Object,
         NEW o \in Shelf!Object \ R
  PROVE  Shelf!Bytes(w, R \cup {o}) = Shelf!Bytes(w, R) + Shelf!Share(o, w)
<1> DEFINE New == {o} \X (1..Size[o])
<1>1. CASE OwnerOf[o] # w
  <2>1. Shelf!BytesOf(w, R \cup {o}) = Shelf!BytesOf(w, R)
    BY <1>1 DEF Shelf!BytesOf
  <2> QED
    BY <1>1, <2>1, ShelfBytesFinite DEF Shelf!Bytes, Shelf!Share
<1>2. CASE OwnerOf[o] = w
  <2>1. Shelf!BytesOf(w, R \cup {o}) = Shelf!BytesOf(w, R) \cup New
    BY <1>2 DEF Shelf!BytesOf
  <2>2. Shelf!BytesOf(w, R) \cap New = {}
    BY DEF Shelf!BytesOf
  <2>3. IsFiniteSet(New) /\ Cardinality(New) = Size[o]
    <3>1. 1 \in Int /\ Size[o] \in Int /\ Size[o] \in Nat
      BY DEF Shelf!ConstantsAreLegal
    <3>2. IsFiniteSet({o}) /\ Cardinality({o}) = 1
      BY FS_Singleton
    <3>3. IsFiniteSet(1..Size[o]) /\ Cardinality(1..Size[o]) = Size[o]
      BY <3>1, FS_Interval
    <3>4. IsFiniteSet(New) /\ Cardinality(New) = Cardinality({o}) * Cardinality(1..Size[o])
      BY <3>2, <3>3, FS_Product
    <3> QED
      BY <3>1, <3>2, <3>3, <3>4
  <2>4. Cardinality(Shelf!BytesOf(w, R) \cup New) =
            Cardinality(Shelf!BytesOf(w, R)) + Cardinality(New) - 0
    BY <2>2, <2>3, ShelfBytesFinite, FS_Union, FS_EmptySet
  <2>5. Cardinality(Shelf!BytesOf(w, R)) \in Nat
    BY ShelfBytesFinite, FS_CardinalityType
  <2>6. /\ Shelf!Bytes(w, R) = Cardinality(Shelf!BytesOf(w, R))
        /\ Shelf!Bytes(w, R \cup {o}) = Cardinality(Shelf!BytesOf(w, R \cup {o}))
    BY ShelfCounted DEF Shelf!Bytes
  <2>7. Size[o] \in Nat
    BY DEF Shelf!ConstantsAreLegal
  <2>8. Cardinality(Shelf!BytesOf(w, R \cup {o})) = Cardinality(Shelf!BytesOf(w, R)) + Size[o]
    <3>1. Cardinality(Shelf!BytesOf(w, R \cup {o})) = Cardinality(Shelf!BytesOf(w, R) \cup New)
      BY <2>1
    <3>2. Cardinality(New) = Size[o]
      BY <2>3
    <3> HIDE DEF New
    <3> QED
      BY <2>4, <2>5, <2>7, <3>1, <3>2
  <2> QED
    BY <1>2, <2>6, <2>8 DEF Shelf!Share
<1> QED
  BY <1>1, <1>2

LEMMA ShelfBytesRemoved ==
  ASSUME Shelf!ConstantsAreLegal, NEW w, NEW R, R \subseteq Shelf!Object, NEW o \in R
  PROVE  Shelf!Bytes(w, R) = Shelf!Bytes(w, R \ {o}) + Shelf!Share(o, w)
<1>1. (R \ {o}) \cup {o} = R
  OBVIOUS
<1> QED
  BY <1>1, ShelfBytesAdded

\* The steps that change no row and no usage row.
LEMMA ShelfQuietStep ==
  ASSUME Shelf!ConstantsAreLegal, Shelf!IInv, UNCHANGED <<mediaRows, mediaUsed>>,
         Shelf!TypeOK', Shelf!Working',
         \A o \in mediaRows : o \in mediaFiles /\ o \notin mediaFiles' =>
             o \in Upload /\ mediaStage'[o] = "failed",
         \A o \in Upload : mediaStage[o] = "failed" => mediaStage'[o] = "failed",
         \A u \in Upload : mediaStage'[u] = "summed" =>
             \/ mediaStage[u] = "summed" /\ mediaSum'[u] = mediaSum[u]
             \/ Quota > 0 /\ mediaSum'[u] = Shelf!Bytes(OwnerOf[u], mediaRows)
  PROVE  Shelf!IInv'
<1>1. Shelf!QuotaHolds'
  BY DEF Shelf!IInv, Shelf!QuotaHolds
<1>2. Shelf!RowsHaveFiles'
  BY DEF Shelf!IInv, Shelf!RowsHaveFiles
<1>3. Shelf!Unused'
  <2>1. \A u \in Upload : Shelf!Bytes(OwnerOf[u], mediaRows) \in Nat
    BY ShelfBytesFinite DEF Shelf!IInv, Shelf!TypeOK
  <2> QED
    BY <2>1 DEF Shelf!IInv, Shelf!Unused
<1> QED
  BY <1>1, <1>2, <1>3 DEF Shelf!IInv

LEMMA ShelfSaveStep ==
  ASSUME Shelf!ConstantsAreLegal, Shelf!IInv, NEW u \in Upload, Shelf!SaveRow(u) \/
             Shelf!SaveIsLost(u)
  PROVE  Shelf!IInv'
<1> DEFINE w == OwnerOf[u]
<1>1. PICK a \in {"answered", "failed"} :
          /\ mediaStage[u] = "counted" /\ mediaStage' = [mediaStage EXCEPT ![u] = a]
          /\ mediaFiles' = IF a = "failed" THEN mediaFiles \ {u} ELSE mediaFiles
  BY DEF Shelf!SaveRow, Shelf!SaveIsLost, Shelf!Moves
<1>2. /\ Quota = 0 \/ Shelf!FitsQuota(u)
      /\ mediaUsed' = Shelf!Reserved(u) /\ mediaRows' = mediaRows \cup {u} /\ mediaSum' =
             mediaSum
  BY DEF Shelf!SaveRow, Shelf!SaveIsLost
<1>3. /\ w \in Owner /\ u \in Shelf!Object /\ Size[u] \in Nat /\ u \notin Old
      /\ u \notin mediaRows /\ u \in mediaFiles
  BY <1>1 DEF Shelf!ConstantsAreLegal, Shelf!Object, Shelf!IInv, Shelf!Working, Shelf!Ended
<1>4. /\ mediaStage' \in [Upload \cup Removal -> Shelf!Stage] /\ mediaStage'[u] = a
      /\ \A q \in Upload \cup Removal : q # u => mediaStage'[q] = mediaStage[q]
  BY <1>1 DEF Shelf!IInv, Shelf!TypeOK, Shelf!Stage, Shelf!Ended
<1>5. /\ Shelf!Working' /\ Shelf!RowsHaveFiles'
      /\ mediaFiles' \subseteq Shelf!Object /\ mediaRows' \subseteq Shelf!Object
  BY <1>1, <1>2, <1>3, <1>4 DEF Shelf!IInv, Shelf!TypeOK, Shelf!Working, Shelf!RowsHaveFiles,
     Shelf!Ended,
     Shelf!ConstantsAreLegal
<1>6. /\ Shelf!Bytes(w, mediaRows') = Shelf!Bytes(w, mediaRows) + Size[u]
      /\ \A v \in Owner : v # w => Shelf!Bytes(v, mediaRows') = Shelf!Bytes(v, mediaRows)
      /\ \A v \in Owner : Shelf!Bytes(v, mediaRows) \in Nat
  <2>1. \A v \in Owner : Shelf!Bytes(v, mediaRows) \in Nat
    BY ShelfBytesFinite DEF Shelf!IInv, Shelf!TypeOK
  <2> QED
    BY <1>2, <1>3, <2>1, ShelfBytesAdded DEF Shelf!IInv, Shelf!TypeOK, Shelf!Share
<1>7. CASE Quota = 0
  <2>1. /\ mediaUsed' = mediaUsed /\ \A v \in Owner : mediaUsed[v] = Nothing
        /\ \A v \in Upload : mediaStage'[v] # "summed"
    BY <1>2, <1>4, <1>7 DEF Shelf!Reserved, Shelf!IInv, Shelf!Unused
  <2>2. Shelf!Unused' /\ Shelf!QuotaHolds' /\ Shelf!TypeOK'
    BY <1>2, <1>4, <1>5, <1>7, <2>1 DEF Shelf!IInv, Shelf!TypeOK, Shelf!Unused,
       Shelf!QuotaHolds
  <2> QED
    BY <1>5, <2>2 DEF Shelf!IInv
<1>8. CASE Quota > 0
  <2>1. /\ mediaUsed[w] \in Nat /\ mediaUsed[w] # Nothing /\ mediaUsed[w] + Size[u] <= Quota
        /\ mediaUsed' = [mediaUsed EXCEPT ![w] = mediaUsed[w] + Size[u]]
    BY <1>2, <1>3, <1>8 DEF Shelf!FitsQuota, Shelf!Reserved, Shelf!IInv, Shelf!TypeOK
  <2>2. /\ mediaUsed'[w] = mediaUsed[w] + Size[u]
        /\ \A v \in Owner : v # w => mediaUsed'[v] = mediaUsed[v]
        /\ mediaUsed' \in [Owner -> Nat \cup {Nothing}]
    BY <2>1, <1>3 DEF Shelf!IInv, Shelf!TypeOK
  <2>3. mediaUsed'[w] >= Shelf!Bytes(w, mediaRows') /\ Shelf!Bytes(w, mediaRows') <= Quota
    BY <1>3, <1>6, <2>1, <2>2 DEF Shelf!IInv, Shelf!QuotaHolds, Shelf!ConstantsAreLegal
  <2>4. Shelf!QuotaHolds'
    <3>1. ASSUME NEW v \in Owner, v # w
          PROVE  /\ mediaUsed'[v] # Nothing => mediaUsed'[v] >= Shelf!Bytes(v, mediaRows')
                 /\ Shelf!Bytes(v, mediaRows') <= Quota \/ \A o \in mediaRows' :
                        OwnerOf[o] = v => o \in Old
      BY <1>2, <1>6, <1>8, <2>2, <3>1 DEF Shelf!IInv, Shelf!QuotaHolds
    <3> QED
      BY <2>3, <3>1 DEF Shelf!QuotaHolds
  <2>5. \A v \in Owner : mediaUsed'[v] = Nothing => v # w /\ mediaUsed[v] = Nothing
    BY <1>3, <2>1, <2>2 DEF Shelf!ConstantsAreLegal
  <2>6. \A o \in mediaRows' : mediaUsed'[OwnerOf[o]] = Nothing => o \in Old
    <3>1. \A o \in mediaRows : OwnerOf[o] \in Owner
      BY DEF Shelf!ConstantsAreLegal, Shelf!IInv, Shelf!TypeOK
    <3> QED
      BY <1>2, <1>3, <1>8, <2>5, <3>1 DEF Shelf!IInv, Shelf!Unused
  <2>7. \A v \in Upload : mediaStage'[v] = "summed" =>
            mediaStage[v] = "summed" /\ OwnerOf[v] \in Owner
    BY <1>1, <1>4 DEF Shelf!ConstantsAreLegal, Shelf!Object
  <2>8. ASSUME NEW v \in Upload, mediaStage'[v] = "summed"
        PROVE  /\ mediaSum'[v] \in Nat
               /\ mediaUsed'[OwnerOf[v]] = Nothing =>
                      mediaSum'[v] >= Shelf!Bytes(OwnerOf[v], mediaRows')
    <3>1. /\ mediaSum'[v] = mediaSum[v] /\ mediaSum[v] \in Nat /\ OwnerOf[v] \in Owner
          /\ mediaUsed[OwnerOf[v]] = Nothing =>
                 mediaSum[v] >= Shelf!Bytes(OwnerOf[v], mediaRows)
      BY <1>2, <2>7, <2>8 DEF Shelf!IInv, Shelf!Unused
    <3>2. mediaUsed'[OwnerOf[v]] = Nothing =>
              mediaUsed[OwnerOf[v]] = Nothing /\ Shelf!Bytes(OwnerOf[v], mediaRows') =
                  Shelf!Bytes(OwnerOf[v], mediaRows)
      BY <1>6, <2>5, <3>1
    <3> QED
      BY <3>1, <3>2
  <2>9. Shelf!Unused'
    BY <1>8, <2>6, <2>8 DEF Shelf!Unused
  <2> QED
    BY <1>4, <1>5, <1>2, <2>2, <2>4, <2>9 DEF Shelf!IInv, Shelf!TypeOK
<1> QED
  BY <1>7, <1>8 DEF Shelf!ConstantsAreLegal

LEMMA ShelfDeleteStep ==
  ASSUME Shelf!ConstantsAreLegal, Shelf!IInv, NEW d \in Removal, Shelf!DeleteRow(d)
  PROVE  Shelf!IInv'
<1> DEFINE o == Target[d]
           w == OwnerOf[o]
<1>1. /\ mediaStage[d] = "found"
      /\ mediaStage' = [mediaStage EXCEPT ![d] = IF o \in mediaRows THEN "cut" ELSE "refused"]
      /\ mediaRows' = mediaRows \ {o} /\ mediaFiles' = mediaFiles /\ mediaSum' = mediaSum
      /\ mediaUsed' = IF o \in mediaRows THEN Shelf!Lowered(o) ELSE mediaUsed
  BY DEF Shelf!DeleteRow, Shelf!Moves
<1>2. o \in Shelf!Object /\ w \in Owner /\ Size[o] \in Nat /\ d \notin Upload
  BY DEF Shelf!ConstantsAreLegal
<1>3. /\ DOMAIN mediaStage = Upload \cup Removal /\ mediaUsed \in [Owner -> Nat \cup {Nothing}]
      /\ mediaRows \subseteq Shelf!Object
  BY DEF Shelf!IInv, Shelf!TypeOK
<1>4. CASE o \notin mediaRows
  <2>1. Shelf!TypeOK' /\ Shelf!Working'
    BY <1>1, <1>2, <1>4 DEF Shelf!IInv, Shelf!TypeOK, Shelf!Working, Shelf!Stage, Shelf!Ended
  <2> QED
    BY <1>1, <1>2, <1>3, <1>4, <2>1, ShelfQuietStep
<1>5. CASE o \in mediaRows
  <2>1. /\ Shelf!Bytes(w, mediaRows) = Shelf!Bytes(w, mediaRows') + Size[o]
        /\ \A v \in Owner : v # w => Shelf!Bytes(v, mediaRows') = Shelf!Bytes(v, mediaRows)
        /\ \A v \in Owner :
               Shelf!Bytes(v, mediaRows') \in Nat /\ Shelf!Bytes(v, mediaRows) \in Nat
    <3>1. \A v \in Owner :
              Shelf!Bytes(v, mediaRows') \in Nat /\ Shelf!Bytes(v, mediaRows) \in Nat
      BY <1>1, <1>3, ShelfBytesFinite
    <3> QED
      <4>1. ASSUME NEW v \in Owner
            PROVE  Shelf!Bytes(v, mediaRows) =
                       Shelf!Bytes(v, mediaRows \ {o}) + Shelf!Share(o, v)
        <5>1. mediaRows \subseteq Shelf!Object /\ o \in mediaRows
          BY <1>3, <1>5
        <5> HIDE DEF o, w
        <5> QED
          BY <5>1, ShelfBytesRemoved
      <4>2. mediaRows' = mediaRows \ {o}
        BY <1>1
      <4>3. /\ Shelf!Share(o, w) = Size[o]
            /\ \A v \in Owner : v # w => Shelf!Share(o, v) = 0
        BY DEF Shelf!Share
      <4>4. Shelf!Bytes(w, mediaRows) = Shelf!Bytes(w, mediaRows') + Size[o]
        BY <1>2, <4>1, <4>2, <4>3
      <4>5. ASSUME NEW v \in Owner, v # w
            PROVE  Shelf!Bytes(v, mediaRows') = Shelf!Bytes(v, mediaRows)
        <5>1. Shelf!Share(o, v) = 0 /\ Shelf!Bytes(v, mediaRows') \in Nat
          BY <3>1, <4>3, <4>5
        <5>2. Shelf!Bytes(v, mediaRows) = Shelf!Bytes(v, mediaRows') + Shelf!Share(o, v)
          BY <4>1, <4>2
        <5> QED
          BY <5>1, <5>2
      <4> QED
        BY <3>1, <4>4, <4>5
  <2>2. /\ mediaUsed' \in [Owner -> Nat \cup {Nothing}]
        /\ \A v \in Owner : mediaUsed'[v] = Nothing <=> mediaUsed[v] = Nothing
        /\ \A v \in Owner : v # w => mediaUsed'[v] = mediaUsed[v]
        /\ mediaUsed[w] # Nothing => mediaUsed'[w] >= mediaUsed[w] - Size[o]
    <3>1. CASE mediaUsed[w] = Nothing
      BY <1>1, <1>3, <1>5, <3>1 DEF Shelf!Lowered
    <3>2. CASE mediaUsed[w] # Nothing
      <4>1. mediaUsed[w] \in Nat
        BY <1>2, <1>3, <3>2
      <4>2. mediaUsed' = [mediaUsed EXCEPT ![w] =
                IF mediaUsed[w] >= Size[o] THEN mediaUsed[w] - Size[o] ELSE 0]
        BY <1>1, <1>5, <3>2 DEF Shelf!Lowered
      <4>3. mediaUsed'[w] = (IF mediaUsed[w] >= Size[o] THEN mediaUsed[w] - Size[o] ELSE 0) /\
                mediaUsed'[w] \in Nat
        BY <1>2, <1>3, <4>1, <4>2
      <4> QED
        BY <1>2, <1>3, <3>2, <4>1, <4>2, <4>3 DEF Shelf!ConstantsAreLegal
    <3> QED
      BY <3>1, <3>2
  <2>3. Shelf!TypeOK' /\ Shelf!Working'
    BY <1>1, <1>2, <1>5, <2>2 DEF Shelf!IInv, Shelf!TypeOK, Shelf!Working, Shelf!Stage,
       Shelf!Ended
  <2>4. Shelf!RowsHaveFiles'
    BY <1>1, <1>2, <1>3 DEF Shelf!IInv, Shelf!RowsHaveFiles
  <2>5. Shelf!QuotaHolds'
    <3>1. ASSUME NEW v \in Owner, mediaUsed'[v] # Nothing
          PROVE  mediaUsed'[v] >= Shelf!Bytes(v, mediaRows')
      <4>1. mediaUsed[v] # Nothing /\ mediaUsed[v] \in Nat /\
                mediaUsed[v] >= Shelf!Bytes(v, mediaRows) /\ mediaUsed'[v] \in Nat
        BY <2>2, <3>1, <1>3 DEF Shelf!IInv, Shelf!QuotaHolds
      <4>2. CASE v = w
        BY <1>2, <2>1, <2>2, <4>1, <4>2
      <4>3. CASE v # w
        BY <2>1, <2>2, <4>1, <4>3
      <4> QED
        BY <4>2, <4>3
    <3>2. ASSUME NEW v \in Owner, Quota > 0
          PROVE  Shelf!Bytes(v, mediaRows') <= Quota \/ \A p \in mediaRows' : OwnerOf[p] = v =>
                     p \in Old
      <4>1. Shelf!Bytes(v, mediaRows') <= Shelf!Bytes(v, mediaRows)
        BY <1>2, <2>1
      <4>2. Shelf!Bytes(v, mediaRows) <= Quota \/ \A p \in mediaRows : OwnerOf[p] = v =>
                p \in Old
        BY <3>2 DEF Shelf!IInv, Shelf!QuotaHolds
      <4>3. /\ Shelf!Bytes(v, mediaRows) \in Nat /\ Shelf!Bytes(v, mediaRows') \in Nat
            /\ Quota \in Nat
            /\ mediaRows' \subseteq mediaRows
        BY <1>1, <2>1 DEF Shelf!ConstantsAreLegal
      <4>4. CASE Shelf!Bytes(v, mediaRows) <= Quota
        BY <4>1, <4>3, <4>4
      <4>5. CASE \A p \in mediaRows : OwnerOf[p] = v => p \in Old
        BY <4>3, <4>5
      <4> QED
        BY <4>2, <4>4, <4>5
    <3> QED
      BY <3>1, <3>2 DEF Shelf!QuotaHolds
  <2>6. Shelf!Unused'
    <3>1. \A v \in Owner : Shelf!Bytes(v, mediaRows') <= Shelf!Bytes(v, mediaRows)
      BY <1>2, <2>1
    <3>2. \A u \in Upload : mediaStage'[u] = mediaStage[u] /\ OwnerOf[u] \in Owner
      BY <1>1, <1>2, <1>3 DEF Shelf!ConstantsAreLegal, Shelf!Object
    <3>3. ASSUME NEW u \in Upload, mediaStage'[u] = "summed"
          PROVE  /\ Quota > 0 /\ mediaSum'[u] \in Nat
                 /\ mediaUsed'[OwnerOf[u]] = Nothing =>
                        mediaSum'[u] >= Shelf!Bytes(OwnerOf[u], mediaRows')
      <4>1. /\ mediaSum'[u] = mediaSum[u] /\ mediaSum[u] \in Nat
            /\ OwnerOf[u] \in Owner /\ Quota > 0
            /\ mediaUsed[OwnerOf[u]] = Nothing =>
                   mediaSum[u] >= Shelf!Bytes(OwnerOf[u], mediaRows)
        BY <1>1, <3>2, <3>3 DEF Shelf!IInv, Shelf!Unused
      <4>2. /\ mediaUsed'[OwnerOf[u]] = Nothing => mediaUsed[OwnerOf[u]] = Nothing
            /\ Shelf!Bytes(OwnerOf[u], mediaRows') <= Shelf!Bytes(OwnerOf[u], mediaRows)
            /\ Shelf!Bytes(OwnerOf[u], mediaRows') \in Nat /\
                   Shelf!Bytes(OwnerOf[u], mediaRows) \in Nat
        BY <2>1, <2>2, <3>1, <4>1
      <4> QED
        BY <4>1, <4>2
    <3>4. Quota > 0 => \A p \in mediaRows' : mediaUsed'[OwnerOf[p]] = Nothing => p \in Old
      <4>1. \A p \in mediaRows : OwnerOf[p] \in Owner
        BY <1>3 DEF Shelf!ConstantsAreLegal
      <4> QED
        BY <1>1, <2>2, <4>1 DEF Shelf!IInv, Shelf!Unused
    <3> QED
      BY <2>2, <3>3, <3>4 DEF Shelf!IInv, Shelf!Unused
  <2> QED
    BY <2>3, <2>4, <2>5, <2>6 DEF Shelf!IInv
<1> QED
  BY <1>4, <1>5
LEMMA ShelfInsertStep ==
  ASSUME Shelf!ConstantsAreLegal, Shelf!IInv, NEW u \in Upload, Shelf!InsertUsage(u)
  PROVE  Shelf!IInv'
<1> DEFINE w == OwnerOf[u]
<1>1. /\ mediaStage[u] = "summed" /\ mediaStage' = [mediaStage EXCEPT ![u] = "counted"]
      /\ mediaUsed' = IF mediaUsed[w] = Nothing THEN [mediaUsed EXCEPT ![w] =
             mediaSum[u]] ELSE mediaUsed
      /\ UNCHANGED <<mediaFiles, mediaRows, mediaSum>>
  BY DEF Shelf!InsertUsage, Shelf!Moves
<1>2. /\ u \in Shelf!Object /\ w \in Owner /\ mediaSum[u] \in Nat /\ Quota > 0
      /\ mediaUsed[w] = Nothing => mediaSum[u] >= Shelf!Bytes(w, mediaRows)
  BY <1>1 DEF Shelf!Object, Shelf!ConstantsAreLegal, Shelf!IInv, Shelf!Unused
<1>3. /\ \A q \in Upload \cup Removal : q # u => mediaStage'[q] = mediaStage[q]
      /\ mediaStage'[u] = "counted"
  BY <1>1 DEF Shelf!IInv, Shelf!TypeOK
<1>4. /\ mediaUsed' \in [Owner -> Nat \cup {Nothing}]
      /\ \A v \in Owner : mediaUsed'[v] = Nothing => mediaUsed[v] = Nothing
      /\ \A v \in Owner : mediaUsed'[v] = mediaUsed[v] \/ (v = w /\ mediaUsed[w] =
             Nothing /\ mediaUsed'[w] = mediaSum[u])
  <2>1. mediaUsed \in [Owner -> Nat \cup {Nothing}]
    BY DEF Shelf!IInv, Shelf!TypeOK
  <2>2. CASE mediaUsed[w] = Nothing
    BY <1>1, <1>2, <2>1, <2>2
  <2>3. CASE mediaUsed[w] # Nothing
    <3>1. mediaUsed' = mediaUsed
      BY <1>1, <2>3
    <3> QED
      BY <2>1, <3>1
  <2> QED
    BY <2>2, <2>3
<1>5. Shelf!TypeOK' /\ Shelf!Working' /\ Shelf!RowsHaveFiles'
  BY <1>1, <1>2, <1>3, <1>4 DEF Shelf!IInv, Shelf!TypeOK, Shelf!Working, Shelf!RowsHaveFiles,
     Shelf!Stage, Shelf!Ended,
     Shelf!ConstantsAreLegal
<1>6. Shelf!QuotaHolds'
  BY <1>1, <1>2, <1>4 DEF Shelf!IInv, Shelf!QuotaHolds
<1>7. \A v \in Upload : OwnerOf[v] \in Owner
  BY DEF Shelf!ConstantsAreLegal, Shelf!Object
<1>8. \A o \in mediaRows : OwnerOf[o] \in Owner
  BY DEF Shelf!ConstantsAreLegal, Shelf!IInv, Shelf!TypeOK
<1>9. Shelf!Unused'
  BY <1>1, <1>2, <1>3, <1>4, <1>7, <1>8 DEF Shelf!IInv, Shelf!Unused, Shelf!ConstantsAreLegal
<1> QED
  BY <1>5, <1>6, <1>9 DEF Shelf!IInv

LEMMA ShelfInductive ==
    Shelf!ConstantsAreLegal /\ Shelf!IInv /\ [Shelf!Next]_Shelf!vars => Shelf!IInv'
<1> SUFFICES ASSUME Shelf!ConstantsAreLegal, Shelf!IInv, [Shelf!Next]_Shelf!vars
             PROVE  Shelf!IInv'
  OBVIOUS
<1>1. ASSUME NEW u \in Upload, Shelf!Uploading(u)
      PROVE  Shelf!IInv'
  <2>1. u \in Shelf!Object /\ u \notin Old
    BY DEF Shelf!Object, Shelf!ConstantsAreLegal
  <2> USE DEF Shelf!IInv, Shelf!TypeOK, Shelf!Working, Shelf!Moves, Shelf!Stage, Shelf!Ended,
      Shelf!ConstantsAreLegal
  <2>2. CASE Shelf!Refuse(u)
    <3>1. Shelf!TypeOK' /\ Shelf!Working'
      BY <2>2 DEF Shelf!Refuse
    <3> QED
      BY <2>2, <3>1, ShelfQuietStep DEF Shelf!Refuse
  <2>3. CASE Shelf!Store(u)
    <3>1. Shelf!TypeOK' /\ Shelf!Working'
      BY <2>1, <2>3 DEF Shelf!Store
    <3> QED
      BY <2>3, <3>1, ShelfQuietStep DEF Shelf!Store
  <2>4. CASE Shelf!FindDuplicate(u)
    <3>1. Shelf!TypeOK' /\ Shelf!Working'
      BY <2>4 DEF Shelf!FindDuplicate
    <3> QED
      BY <2>4, <3>1, ShelfQuietStep DEF Shelf!FindDuplicate
  <2>5. CASE Shelf!FindNone(u)
    <3>1. Shelf!TypeOK' /\ Shelf!Working'
      BY <2>5 DEF Shelf!FindNone
    <3> QED
      BY <2>5, <3>1, ShelfQuietStep DEF Shelf!FindNone
  <2>6. CASE Shelf!SumUsage(u)
    <3>1. Shelf!Bytes(OwnerOf[u], mediaRows) \in Nat
      BY ShelfBytesFinite
    <3>2. Shelf!TypeOK' /\ Shelf!Working'
      BY <2>6, <3>1 DEF Shelf!SumUsage
    <3> QED
      BY <2>6, <3>2, ShelfQuietStep DEF Shelf!SumUsage
  <2>7. CASE Shelf!FindUsage(u)
    <3>1. Shelf!TypeOK' /\ Shelf!Working'
      BY <2>7 DEF Shelf!FindUsage
    <3> QED
      BY <2>7, <3>1, ShelfQuietStep DEF Shelf!FindUsage
  <2>8. CASE Shelf!InsertUsage(u)
    BY <2>1, <2>8, ShelfInsertStep
  <2>9. CASE Shelf!SaveFails(u)
    <3>1. Shelf!TypeOK' /\ Shelf!Working'
      BY <2>9 DEF Shelf!SaveFails
    <3> QED
      BY <2>9, <3>1, ShelfQuietStep DEF Shelf!SaveFails
  <2> QED
    BY <1>1, <2>2, <2>3, <2>4, <2>5, <2>6, <2>7, <2>8, <2>9, ShelfSaveStep DEF Shelf!Uploading
<1>2. ASSUME NEW d \in Removal, Shelf!Removing(d)
      PROVE  Shelf!IInv'
  <2> USE DEF Shelf!IInv, Shelf!TypeOK, Shelf!Working, Shelf!Moves, Shelf!Stage, Shelf!Ended,
      Shelf!ConstantsAreLegal
  <2>1. CASE Shelf!Find(d)
    <3>1. Target[d] \in mediaRows /\ Target[d] \in Upload =>
              mediaStage[Target[d]] \in Shelf!Ended
      OBVIOUS
    <3>2. Shelf!TypeOK' /\ Shelf!Working'
      BY <2>1, <3>1 DEF Shelf!Find
    <3> QED
      BY <2>1, <3>2, ShelfQuietStep DEF Shelf!Find
  <2>2. CASE Shelf!DeleteFile(d)
    <3>1. Target[d] \notin mediaRows /\ (Target[d] \in Upload =>
              mediaStage[Target[d]] \in Shelf!Ended)
      BY <2>2 DEF Shelf!DeleteFile
    <3>2. Shelf!TypeOK' /\ Shelf!Working'
      BY <2>2, <3>1 DEF Shelf!DeleteFile
    <3> QED
      BY <2>2, <3>1, <3>2, ShelfQuietStep DEF Shelf!DeleteFile
  <2> QED
    BY <1>2, <2>1, <2>2, ShelfDeleteStep DEF Shelf!Removing
<1>3. ASSUME NEW q \in Upload \cup Removal, Shelf!Crash(q)
      PROVE  Shelf!IInv'
  <2> USE DEF Shelf!IInv, Shelf!TypeOK, Shelf!Working, Shelf!Stage, Shelf!Ended,
      Shelf!ConstantsAreLegal
  <2>1. Shelf!TypeOK' /\ Shelf!Working'
    BY <1>3 DEF Shelf!Crash
  <2> QED
    BY <1>3, <2>1, ShelfQuietStep DEF Shelf!Crash
<1>4. CASE UNCHANGED Shelf!vars
  <2>1. Shelf!TypeOK' /\ Shelf!Working'
    BY <1>4 DEF Shelf!vars, Shelf!IInv, Shelf!TypeOK, Shelf!Working
  <2> QED
    BY <1>4, <2>1, ShelfQuietStep DEF Shelf!vars
<1> QED
  BY <1>1, <1>2, <1>3, <1>4 DEF Shelf!Next, Shelf!Finished

LEMMA ShelfInitial == Shelf!ConstantsAreLegal /\ Shelf!Init => Shelf!IInv
<1> SUFFICES ASSUME Shelf!ConstantsAreLegal, Shelf!Init
             PROVE  Shelf!IInv
  OBVIOUS
<1>1. Shelf!TypeOK /\ Shelf!Working
  BY DEF Shelf!Init, Shelf!TypeOK, Shelf!Working, Shelf!Object, Shelf!Stage, Shelf!Ended,
     Shelf!ConstantsAreLegal
<1>2. Shelf!Unused /\ Shelf!QuotaHolds /\ Shelf!RowsHaveFiles
  BY DEF Shelf!Init, Shelf!Unused, Shelf!QuotaHolds, Shelf!RowsHaveFiles,
     Shelf!ConstantsAreLegal
<1> QED
  BY <1>1, <1>2 DEF Shelf!IInv

\* For any uploads and deletions of any sizes, an owner's usage row counts its rows at
\* least, and no upload brings them beyond the quota.
THEOREM ShelfQuotaCorrect == Shelf!Spec => []QuotaHolds
<1> Shelf!ConstantsAreLegal
  BY ShelfIsLegal
<1>1. Shelf!Init => Shelf!IInv
  BY ShelfInitial
<1>2. Shelf!IInv /\ [Shelf!Next]_Shelf!vars => Shelf!IInv'
  BY ShelfInductive
<1>3. Shelf!IInv => QuotaHolds
  BY DEF Shelf!IInv, QuotaHolds, Shelf!QuotaHolds
<1> QED
  BY <1>1, <1>2, <1>3, PTL DEF Shelf!Spec

\* A row has its file, whichever requests store, deduplicate, delete, fail or crash.
THEOREM ShelfFilesCorrect == Shelf!Spec => []RowsHaveFiles
<1> Shelf!ConstantsAreLegal
  BY ShelfIsLegal
<1>1. Shelf!Init => Shelf!IInv
  BY ShelfInitial
<1>2. Shelf!IInv /\ [Shelf!Next]_Shelf!vars => Shelf!IInv'
  BY ShelfInductive
<1>3. Shelf!IInv => RowsHaveFiles
  BY DEF Shelf!IInv, RowsHaveFiles, Shelf!RowsHaveFiles
<1> QED
  BY <1>1, <1>2, <1>3, PTL DEF Shelf!Spec

-----------------------------------------------------------------------------
(* Documents: saves and creations. *)

LEMMA EditorInitIInv ==
    ASSUME Editor!ConstantsAreLegal, Editor!Init
    PROVE  Editor!IInv
<1>1. DOMAIN docStage = Editor!Job /\ \A q \in Editor!Job : docStage[q] = "new"
  BY DEF Editor!Init
<1>2. Editor!LockIsHeld /\ Editor!ComparisonHolds /\ Editor!CopyLoads /\ Editor!CreatedOnce
  BY <1>1 DEF Editor!LockIsHeld, Editor!Held, Editor!ComparisonHolds, Editor!CopyLoads,
     Editor!CreatedOnce, Editor!Job
<1>3. Editor!ProjectLoads
  BY DEF Editor!ConstantsAreLegal, Editor!Init, Editor!ProjectLoads
<1> QED
  BY <1>1, <1>2, <1>3 DEF Editor!IInv

\* A step that moves no save into a stage that claims anything, and neither the file nor
\* the file lock, leaves nothing to prove but what it says of the creations.
LEMMA EditorQuietStep ==
    ASSUME Editor!ConstantsAreLegal, Editor!IInv, NEW q \in Editor!Job, NEW from, NEW to,
           Editor!Moves(q, from, to), to \notin {"holding", "staging", "staged"},
           from \in Editor!Held \/ to \notin Editor!Held, to = "done" => q \notin Create,
           UNCHANGED <<docFile, docProject, docFileLock, docDown>>
    PROVE  Editor!IInv'
<1>1. /\ DOMAIN docStage' = Editor!Job
      /\ docStage[q] = from
      /\ \A r \in Editor!Job : docStage'[r] = IF r = q THEN to ELSE docStage[r]
      /\ \A r \in Editor!Job : Editor!Up(r)' <=> Editor!Up(r)
  BY DEF Editor!Moves, Editor!IInv, Editor!Up
<1>2. Editor!LockIsHeld'
  BY <1>1 DEF Editor!IInv, Editor!LockIsHeld, Editor!Held, Editor!Job
<1>3. Editor!ComparisonHolds'
  BY <1>1 DEF Editor!IInv, Editor!ComparisonHolds, Editor!Job
<1>4. Editor!CopyLoads'
  BY <1>1 DEF Editor!IInv, Editor!CopyLoads, Editor!Job
<1>5. Editor!ProjectLoads' /\ Editor!CreatedOnce'
  BY <1>1 DEF Editor!IInv, Editor!ProjectLoads, Editor!CreatedOnce, Editor!Job
<1> QED
  BY <1>1, <1>2, <1>3, <1>4, <1>5 DEF Editor!IInv

\* A save takes the file lock: until then no other save of a worker that is up has it.
LEMMA EditorAcquireStep ==
    ASSUME Editor!ConstantsAreLegal, Editor!IInv, NEW s \in Save, NEW t \in Thread,
           Editor!Acquire(s, t)
    PROVE  Editor!IInv'
<1>1. /\ DOMAIN docStage' = Editor!Job
      /\ \A r \in Editor!Job : docStage'[r] = IF r = s THEN "holding" ELSE docStage[r]
      /\ \A r \in Editor!Job : Editor!Up(r)' <=> Editor!Up(r)
      /\ docFileLock = Nothing /\ docFileLock' = s
      /\ UNCHANGED <<docFile, docProject>>
  BY DEF Editor!Acquire, Editor!Moves, Editor!IInv, Editor!Up, Editor!Job
<1>2. Editor!LockIsHeld'
  BY <1>1 DEF Editor!ConstantsAreLegal, Editor!IInv, Editor!LockIsHeld, Editor!Job
<1>3. Editor!ComparisonHolds' /\ Editor!CopyLoads' /\ Editor!ProjectLoads'
  BY <1>1 DEF Editor!IInv, Editor!ComparisonHolds, Editor!CopyLoads, Editor!ProjectLoads,
     Editor!Job
<1>4. Editor!CreatedOnce'
  BY <1>1 DEF Editor!IInv, Editor!CreatedOnce, Editor!Job
<1> QED
  BY <1>1, <1>2, <1>3, <1>4 DEF Editor!IInv

\* Comparing and staging record what is true of the file.
LEMMA EditorCheckStep ==
    ASSUME Editor!ConstantsAreLegal, Editor!IInv, NEW s \in Save,
           \/ Editor!Compare(s) /\ docFile[DocumentOf[s]] = Expects[s]
           \/ Editor!Stage(s) /\ [docFile EXCEPT ![DocumentOf[s]] = Text[s]] \in Loads
    PROVE  Editor!IInv'
<1> DEFINE to == IF docStage[s] = "holding" THEN "staging" ELSE "staged"
<1>1. /\ DOMAIN docStage' = Editor!Job
      /\ docStage[s] \in {"holding", "staging"} /\ Editor!Up(s)
      /\ \A r \in Editor!Job : docStage'[r] = IF r = s THEN to ELSE docStage[r]
      /\ \A r \in Editor!Job : Editor!Up(r)' <=> Editor!Up(r)
      /\ UNCHANGED <<docFile, docProject, docFileLock>>
  BY DEF Editor!Compare, Editor!Stage, Editor!Moves, Editor!IInv, Editor!Up, Editor!Job
<1>2. Editor!LockIsHeld'
  BY <1>1 DEF Editor!IInv, Editor!LockIsHeld, Editor!Held, Editor!Job
<1>3. Editor!ComparisonHolds'
  BY <1>1 DEF Editor!Compare, Editor!Stage, Editor!Moves, Editor!IInv, Editor!ComparisonHolds,
     Editor!Job
<1>4. Editor!CopyLoads'
  BY <1>1 DEF Editor!Compare, Editor!Stage, Editor!Moves, Editor!IInv, Editor!CopyLoads,
     Editor!Job
<1>5. Editor!ProjectLoads' /\ Editor!CreatedOnce'
  BY <1>1 DEF Editor!IInv, Editor!ProjectLoads, Editor!CreatedOnce, Editor!Job
<1> QED
  BY <1>1, <1>2, <1>3, <1>4, <1>5 DEF Editor!IInv

\* The replacement: no other save has compared, for none has the lock.
LEMMA EditorPutStep ==
    ASSUME Editor!ConstantsAreLegal, Editor!IInv, NEW s \in Save, Editor!Put(s)
    PROVE  Editor!IInv'
<1>1. /\ DOMAIN docStage' = Editor!Job
      /\ docStage[s] = "staged" /\ Editor!Up(s)
      /\ \A r \in Editor!Job : docStage'[r] = IF r = s THEN "saved" ELSE docStage[r]
      /\ \A r \in Editor!Job : Editor!Up(r)' <=> Editor!Up(r)
      /\ UNCHANGED <<docProject, docFileLock>>
      /\ docFile' = [docFile EXCEPT ![DocumentOf[s]] = Text[s]]
  BY DEF Editor!Put, Editor!Moves, Editor!IInv, Editor!Up, Editor!Job
<1>2. Editor!LockIsHeld'
  BY <1>1 DEF Editor!IInv, Editor!LockIsHeld, Editor!Held, Editor!Job
<1>3. ASSUME NEW r \in Save, Editor!Up(r)', docStage'[r] \in {"staging", "staged"}
      PROVE  FALSE
  BY <1>1, <1>3 DEF Editor!IInv, Editor!LockIsHeld, Editor!Held, Editor!Job
<1>4. Editor!ComparisonHolds' /\ Editor!CopyLoads'
  BY <1>3 DEF Editor!ComparisonHolds, Editor!CopyLoads
<1>5. Editor!ProjectLoads'
  BY <1>1 DEF Editor!IInv, Editor!CopyLoads, Editor!ProjectLoads
<1>6. Editor!CreatedOnce'
  BY <1>1 DEF Editor!IInv, Editor!CreatedOnce, Editor!Job
<1> QED
  BY <1>1, <1>2, <1>4, <1>5, <1>6 DEF Editor!IInv

\* A save ends: the file lock it gives back was its own.
LEMMA EditorReleaseStep ==
    ASSUME Editor!ConstantsAreLegal, Editor!IInv, NEW s \in Save, NEW t \in Thread,
           Editor!Release(s, t)
    PROVE  Editor!IInv'
<1>1. /\ DOMAIN docStage' = Editor!Job
      /\ docStage'[s] \in {"done", "conflict", "invalid"}
      /\ \A r \in Editor!Job : r # s => docStage'[r] = docStage[r]
      /\ \A r \in Editor!Job : Editor!Up(r)' <=> Editor!Up(r)
      /\ docFileLock' = docFileLock \/ docFileLock = s
      /\ UNCHANGED <<docFile, docProject>>
  BY DEF Editor!Release, Editor!Answer, Editor!Outcome, Editor!Moves, Editor!IInv, Editor!Up,
     Editor!Job
<1>2. Editor!LockIsHeld'
  BY <1>1 DEF Editor!IInv, Editor!LockIsHeld, Editor!Held, Editor!Job
<1>3. Editor!ComparisonHolds' /\ Editor!CopyLoads' /\ Editor!ProjectLoads'
  BY <1>1 DEF Editor!IInv, Editor!ComparisonHolds, Editor!CopyLoads, Editor!ProjectLoads,
     Editor!Job
<1>4. Editor!CreatedOnce'
  BY <1>1 DEF Editor!ConstantsAreLegal, Editor!IInv, Editor!CreatedOnce, Editor!Job
<1> QED
  BY <1>1, <1>2, <1>3, <1>4 DEF Editor!IInv

\* The directory of a project appears once.
LEMMA EditorPublishStep ==
    ASSUME Editor!ConstantsAreLegal, Editor!IInv, NEW c \in Create, Editor!Publish(c)
    PROVE  Editor!IInv'
<1>1. /\ DOMAIN docStage' = Editor!Job
      /\ docStage'[c] = IF docProject = Nothing THEN "done" ELSE "failed"
      /\ \A r \in Editor!Job : r # c => docStage'[r] = docStage[r]
      /\ \A r \in Editor!Job : Editor!Up(r)' <=> Editor!Up(r)
      /\ docProject' = IF docProject = Nothing THEN c ELSE docProject
      /\ UNCHANGED <<docFile, docFileLock>>
  BY DEF Editor!Publish, Editor!Answer, Editor!Moves, Editor!IInv, Editor!Up, Editor!Job
<1>2. Editor!LockIsHeld' /\ Editor!ComparisonHolds' /\ Editor!CopyLoads' /\
          Editor!ProjectLoads'
  BY <1>1 DEF Editor!ConstantsAreLegal, Editor!IInv, Editor!LockIsHeld, Editor!Held,
     Editor!ComparisonHolds, Editor!CopyLoads,
              Editor!ProjectLoads, Editor!Job
<1>3. Editor!CreatedOnce'
  <2> SUFFICES ASSUME NEW d \in Create, docStage'[d] = "done"
               PROVE  docProject' = d
    BY DEF Editor!CreatedOnce
  <2>1. CASE d = c
    BY <1>1, <2>1
  <2>2. CASE d # c
    <3>1. docProject = d /\ d # Nothing
      BY <1>1, <2>2 DEF Editor!ConstantsAreLegal, Editor!IInv, Editor!CreatedOnce, Editor!Job
    <3> QED
      BY <1>1, <3>1
  <2> QED
    BY <2>1, <2>2
<1> QED
  BY <1>1, <1>2, <1>3 DEF Editor!IInv

\* A crash takes the lock of no save of another worker.
LEMMA EditorCrashStep ==
    ASSUME Editor!ConstantsAreLegal, Editor!IInv, NEW w \in EditorWorker, Editor!Crash(w)
    PROVE  Editor!IInv'
<1>1. /\ UNCHANGED <<docFile, docProject, docStage>>
      /\ \A r \in Editor!Job : Editor!Up(r)' => Editor!Up(r) /\ WorkerOfEditor[r] # w
      /\ \/ docFileLock' = docFileLock
         \/ docFileLock # Nothing /\ WorkerOfEditor[docFileLock] = w
  BY DEF Editor!Crash, Editor!Up
<1> QED
  BY <1>1 DEF Editor!IInv, Editor!LockIsHeld, Editor!ComparisonHolds, Editor!CopyLoads,
     Editor!ProjectLoads, Editor!CreatedOnce,
              Editor!Job

LEMMA EditorStepIInv ==
    ASSUME Editor!ConstantsAreLegal, Editor!IInv, [Editor!Next]_Editor!vars
    PROVE  Editor!IInv'
<1>1. CASE UNCHANGED Editor!vars
  BY <1>1 DEF Editor!vars, Editor!IInv, Editor!LockIsHeld, Editor!ComparisonHolds,
     Editor!CopyLoads, Editor!ProjectLoads,
              Editor!CreatedOnce, Editor!Up
<1>2. ASSUME NEW q \in Editor!Job, Editor!Lock(q) \/ Editor!Refuse(q)
      PROVE  Editor!IInv'
  <2>1. /\ Editor!Moves(q, "new", "locked") \/ Editor!Moves(q, "new", "invalid")
        /\ UNCHANGED <<docFile, docProject, docFileLock, docDown>>
    BY <1>2 DEF Editor!Lock, Editor!Refuse
  <2> QED
    BY <2>1, EditorQuietStep DEF Editor!Held
<1>3. ASSUME NEW s \in Save, Editor!TimeOut(s) \/ Editor!Compare(s) \/ Editor!Stage(s) \/
                 Editor!Put(s)
      PROVE  Editor!IInv'
  <2>1. s \in Editor!Job /\ s \notin Create
    BY DEF Editor!ConstantsAreLegal, Editor!Job
  <2>2. CASE Editor!TimeOut(s)
    <3>1. Editor!Moves(s, "locked", "busy") /\
              UNCHANGED <<docFile, docProject, docFileLock, docDown>>
      BY <2>2 DEF Editor!TimeOut, Editor!Answer
    <3> QED
      BY <2>1, <3>1, EditorQuietStep DEF Editor!Held
  <2>3. CASE Editor!Compare(s)
    <3>1. CASE docFile[DocumentOf[s]] = Expects[s]
      BY <2>3, <3>1, EditorCheckStep
    <3>2. CASE docFile[DocumentOf[s]] # Expects[s]
      <4>1. Editor!Moves(s, "holding", "conflicting") /\
                UNCHANGED <<docFile, docProject, docFileLock, docDown>>
        BY <2>3, <3>2 DEF Editor!Compare
      <4> QED
        BY <2>1, <4>1, EditorQuietStep DEF Editor!Held
    <3> QED
      BY <3>1, <3>2
  <2>4. CASE Editor!Stage(s)
    <3>1. CASE [docFile EXCEPT ![DocumentOf[s]] = Text[s]] \in Loads
      BY <2>4, <3>1, EditorCheckStep
    <3>2. CASE [docFile EXCEPT ![DocumentOf[s]] = Text[s]] \notin Loads
      <4>1. Editor!Moves(s, "staging", "failing") /\
                UNCHANGED <<docFile, docProject, docFileLock, docDown>>
        BY <2>4, <3>2 DEF Editor!Stage
      <4> QED
        BY <2>1, <4>1, EditorQuietStep DEF Editor!Held
    <3> QED
      BY <3>1, <3>2
  <2> QED
    BY <1>3, <2>2, <2>3, <2>4, EditorPutStep
<1>4. ASSUME NEW s \in Save, NEW t \in Thread, Editor!Acquire(s, t) \/ Editor!Release(s, t)
      PROVE  Editor!IInv'
  BY <1>4, EditorAcquireStep, EditorReleaseStep
<1>5. ASSUME NEW c \in Create, Editor!FindName(c) \/ Editor!Publish(c)
      PROVE  Editor!IInv'
  <2>1. CASE Editor!FindName(c)
    <3>1. /\ Editor!Moves(c, "locked", "building") \/ Editor!Moves(c, "locked", "conflict")
          /\ UNCHANGED <<docFile, docProject, docFileLock, docDown>>
      BY <2>1 DEF Editor!FindName, Editor!Answer
    <3> QED
      BY <3>1, EditorQuietStep DEF Editor!Held, Editor!Job
  <2> QED
    BY <1>5, <2>1, EditorPublishStep
<1> QED
  BY <1>1, <1>2, <1>3, <1>4, <1>5, EditorCrashStep DEF Editor!Next, Editor!Finished

\* The inductive invariant of the saves and the creation.
THEOREM EditorInvariance == Editor!Spec => []Editor!IInv
<1> Editor!ConstantsAreLegal
  BY EditorIsLegal
<1>1. Editor!Init => Editor!IInv
  BY EditorInitIInv
<1>2. Editor!IInv /\ [Editor!Next]_Editor!vars => Editor!IInv'
  BY EditorStepIInv
<1> QED
  BY <1>1, <1>2, PTL DEF Editor!Spec

\* Whatever the workers, their crashes and the documents: a save replaces the content its
\* digest was of, so that no save is overwritten unseen.
THEOREM EditorSavesCorrect == Editor!Spec => SavesReplaceWhatTheyRead
<1> Editor!ConstantsAreLegal
  BY EditorIsLegal
<1>1. Editor!IInv /\ [Editor!Next]_Editor!vars =>
          [\A s \in Save : docStage[s] = "staged" /\ docStage'[s] = "saved"
                => docFile[DocumentOf[s]] = Expects[s]]_Editor!vars
  <2> SUFFICES ASSUME Editor!IInv, Editor!Next, NEW s \in Save, docStage[s] =
          "staged", docStage'[s] = "saved"
               PROVE  docFile[DocumentOf[s]] = Expects[s]
    BY DEF Editor!vars
  <2>1. docStage' # docStage
    BY DEF Editor!IInv
  <2>2. Editor!Up(s)
    <3>1. \A q \in Editor!Job : \A from, to : Editor!Moves(q, from, to) /\ q # s =>
              docStage'[s] = docStage[s]
      BY DEF Editor!Moves, Editor!IInv, Editor!Job
    <3>2. \A q \in Editor!Job : \A from, to : Editor!Moves(q, from, to) =>
              q = s /\ Editor!Up(s)
      BY <3>1 DEF Editor!Moves
    <3> QED
      BY <2>1, <3>2 DEF Editor!Next, Editor!Finished, Editor!vars, Editor!Lock, Editor!Refuse,
         Editor!TimeOut, Editor!Compare, Editor!Stage, Editor!Put,
                        Editor!Acquire, Editor!Release, Editor!FindName, Editor!Publish,
                        Editor!Answer, Editor!Crash, Editor!Job
  <2> QED
    BY <2>2 DEF Editor!IInv, Editor!ComparisonHolds
<1> QED
  BY <1>1, EditorInvariance, PTL DEF Editor!Spec, SavesReplaceWhatTheyRead,
     Editor!SavesReplaceWhatTheyRead

\* Two saves, each valid beside the old content of the other's document, are not both
\* accepted: what is on disk always loads.
THEOREM EditorLoadingCorrect == Editor!Spec => []ProjectLoads
<1> Editor!ConstantsAreLegal
  BY EditorIsLegal
<1>1. Editor!IInv => ProjectLoads
  BY DEF Editor!IInv, ProjectLoads, Editor!ProjectLoads
<1> QED
  BY <1>1, EditorInvariance, PTL

\* Of the requests that create one project, on whichever workers, one is told that it did.
THEOREM EditorCreationCorrect == Editor!Spec => []Editor!CreatedOnce
<1> Editor!ConstantsAreLegal
  BY EditorIsLegal
<1>1. Editor!IInv => Editor!CreatedOnce
  BY DEF Editor!IInv
<1> QED
  BY <1>1, EditorInvariance, PTL

-----------------------------------------------------------------------------
(* GraphCheck: the order of elimination. *)

\* The cardinality of FiniteSets, and finiteness, under the names they have in the instance.
LEMMA GraphCounted ==
  ASSUME NEW S
  PROVE  /\ Graph!Cardinality(S) = Cardinality(S)
         /\ Graph!IsFiniteSet(S) <=> IsFiniteSet(S)
<1> DEFINE F == CHOOSE CS : CS = [T \in SUBSET S |->
                    IF T = {} THEN 0 ELSE 1 + CS[T \ {CHOOSE x : x \in T}]]
<1>1. Cardinality(S) = F[S]
  BY DEF Cardinality
<1>2. Graph!Cardinality(S) = F[S]
  BY DEF Graph!Cardinality
<1>3. Graph!IsFiniteSet(S) <=> IsFiniteSet(S)
  BY DEF Graph!IsFiniteSet, IsFiniteSet
<1> HIDE DEF F
<1> QED
  BY <1>1, <1>2, <1>3

LEMMA GraphAdjacentAreNodes ==
  ASSUME Graph!WellFormed, NEW n
  PROVE  Graph!Adjacent(n) \subseteq graphNodes
BY DEF Graph!WellFormed, Graph!Adjacent

LEMMA GraphRemainingFinite ==
  ASSUME Graph!ConstantsAreLegal, Graph!TypeOK, NEW G, NEW n
  PROVE  /\ IsFiniteSet(graphNodes) /\ IsFiniteSet(Graph!Remaining(G, n))
         /\ Cardinality(Graph!Remaining(G, n)) \in Nat
         /\ Cardinality(Graph!Remaining(G, n)) = 0 <=> Graph!Remaining(G, n) = {}
<1>1. IsFiniteSet(graphNodes)
  BY FS_Subset, GraphCounted DEF Graph!ConstantsAreLegal, Graph!TypeOK
<1>2. Graph!Remaining(G, n) \in SUBSET graphNodes
  BY DEF Graph!Remaining
<1>3. IsFiniteSet(Graph!Remaining(G, n))
  BY <1>1, <1>2, FS_Subset
<1>4. /\ Cardinality(Graph!Remaining(G, n)) \in Nat
      /\ Cardinality(Graph!Remaining(G, n)) = 0 <=> Graph!Remaining(G, n) = {}
  BY <1>3, FS_CardinalityType, FS_EmptySet
<1> QED
  BY <1>1, <1>3, <1>4, GraphCounted

\* Nodes that all have a predecessor among themselves contain a cycle: the smallest such
\* set would lose no more than a node that is followed by none of them.
LEMMA GraphPredecessorsLoop ==
  ASSUME NEW R, IsFiniteSet(R), R # {}, R \subseteq graphNodes,
         \A n \in R : \E m \in R : n \in Graph!Adjacent(m)
  PROVE  Graph!Cyclic
<1> DEFINE Preceded(P) == P # {} /\ \A n \in P : \E m \in P : n \in Graph!Adjacent(m)
           T == {P \in SUBSET R : Preceded(P)}
<1>1. T \subseteq FiniteSubsetsOf(R) /\ R \in T
  BY FS_Subset DEF FiniteSubsetsOf
<1>2. PICK P \in T : \A Q \in T : <<Q, P>> \notin StrictSubsetOrdering(R)
  BY <1>1, WFMin, FS_StrictSubsetOrderingWellFounded
<1>3. \A Q \in T : Q \subseteq P => Q = P
  BY <1>2 DEF StrictSubsetOrdering
<1>4. ASSUME NEW n \in P, Graph!Adjacent(n) \cap P = {}
      PROVE  FALSE
  <2>1. \A k \in P \ {n} : \E m \in P \ {n} : k \in Graph!Adjacent(m)
    BY <1>4
  <2>2. PICK m \in P : n \in Graph!Adjacent(m)
    OBVIOUS
  <2>3. m # n
    BY <1>4, <2>2
  <2>4. P \ {n} \in T
    BY <2>1, <2>2, <2>3
  <2> QED
    BY <1>3, <2>4
<1>5. Graph!Loops(P) /\ P \in SUBSET graphNodes
  BY <1>4 DEF Graph!Loops
<1> QED
  BY <1>5 DEF Graph!Cyclic

LEMMA GraphCountStep ==
  ASSUME Graph!ConstantsAreLegal, Graph!IInv, Graph!Count
  PROVE  Graph!IInv'
<1>1. Graph!TypeOK /\ Graph!WellFormed /\ graphNodes' = graphNodes /\ graphEdges' =
          graphEdges /\ graphVisited' = 0
  BY DEF Graph!IInv, Graph!TypeOK, Graph!Count
<1>2. \A n : Graph!Indegree(n) = Cardinality(Graph!Remaining({}, n))
  BY GraphCounted DEF Graph!Indegree, Graph!Remaining
<1>3. \A n : /\ Cardinality(Graph!Remaining({}, n)) \in Nat
             /\ Cardinality(Graph!Remaining({}, n)) = 0 <=> Graph!Remaining({}, n) = {}
  BY <1>1, GraphRemainingFinite
<1>4. \A G, n : Graph!Remaining(G, n)' = Graph!Remaining(G, n)
  BY <1>1 DEF Graph!Remaining, Graph!Adjacent
<1>5. \A C : Graph!Loops(C)' <=> Graph!Loops(C)
  BY <1>1 DEF Graph!Loops, Graph!Adjacent
<1>6. /\ graphIndegree' = [n \in graphNodes |-> Graph!Indegree(n)]
      /\ graphReady' = {n \in graphNodes : Graph!Indegree(n) = 0}
  BY DEF Graph!Count
<1>7. Graph!Left({})'
  <2>1. graphVisited' = Cardinality({})
    BY <1>1, FS_EmptySet
  <2>2. \A C \in SUBSET graphNodes : Graph!Loops(C) => ~(C \subseteq {})
    BY DEF Graph!Loops
  <2>3. graphIndegree' \in [graphNodes -> Nat] /\ \A n \in graphNodes :
            graphIndegree'[n] = Cardinality(Graph!Remaining({}, n))
    BY <1>2, <1>3, <1>6
  <2>4. graphReady' = {n \in graphNodes \ {} : Graph!Remaining({}, n) = {}}
    BY <1>2, <1>3, <1>6
  <2> QED
    BY <1>1, <1>4, <1>5, <2>1, <2>2, <2>3, <2>4, GraphCounted DEF Graph!Left
<1>8. Graph!WellFormed' /\ Graph!TypeOK' /\ Graph!AcyclicGraphsPass'
  BY <1>1 DEF Graph!Count, Graph!WellFormed, Graph!TypeOK, Graph!AcyclicGraphsPass
<1> QED
  BY <1>7, <1>8 DEF Graph!IInv

\* A node without predecessors leaves; it ends no cycle, for what follows it on one is
\* still there.
LEMMA GraphEliminateStep ==
  ASSUME Graph!ConstantsAreLegal, Graph!IInv, NEW n \in graphReady, Graph!Eliminate(n)
  PROVE  Graph!IInv'
<1>1. /\ Graph!TypeOK /\ Graph!WellFormed
      /\ graphStage = "eliminating" /\ graphStage' = graphStage
      /\ graphNodes' = graphNodes /\ graphEdges' = graphEdges /\ graphVisited' =
             graphVisited + 1
  BY DEF Graph!IInv, Graph!Eliminate
<1>2. PICK G \in SUBSET graphNodes : Graph!Left(G)
  BY <1>1 DEF Graph!IInv
<1> DEFINE H == G \cup {n}
<1>3. n \in graphNodes /\ n \notin G /\ Graph!Remaining(G, n) = {}
  BY <1>2 DEF Graph!Left
<1>4. /\ \A m \in Graph!Adjacent(n) :
             Graph!Remaining(H, m) = Graph!Remaining(G, m) \ {n} /\ n \in Graph!Remaining(G, m)
      /\ \A m : m \notin Graph!Adjacent(n) => Graph!Remaining(H, m) = Graph!Remaining(G, m)
  BY <1>3 DEF Graph!Remaining
<1>5. \A m \in graphNodes :
          /\ graphIndegree[m] \in Nat
          /\ m \in Graph!Adjacent(n) =>
                 Cardinality(Graph!Remaining(H, m)) = graphIndegree[m] - 1
          /\ m \notin Graph!Adjacent(n) =>
                 Cardinality(Graph!Remaining(H, m)) = graphIndegree[m]
          /\ Cardinality(Graph!Remaining(H, m)) \in Nat
          /\ Cardinality(Graph!Remaining(H, m)) = 0 <=> Graph!Remaining(H, m) = {}
  <2> TAKE m \in graphNodes
  <2>1. /\ IsFiniteSet(Graph!Remaining(G, m))
        /\ graphIndegree[m] = Cardinality(Graph!Remaining(G, m)) /\ graphIndegree[m] \in Nat
        /\ Cardinality(Graph!Remaining(G, m)) \in Nat
        /\ Cardinality(Graph!Remaining(H, m)) \in Nat
        /\ Cardinality(Graph!Remaining(H, m)) = 0 <=> Graph!Remaining(H, m) = {}
    BY <1>1, <1>2, GraphRemainingFinite, GraphCounted DEF Graph!Left
  <2>2. CASE m \in Graph!Adjacent(n)
    BY <1>4, <2>1, <2>2, FS_RemoveElement
  <2>3. CASE m \notin Graph!Adjacent(n)
    BY <1>4, <2>1, <2>3
  <2> QED
    BY <2>1, <2>2, <2>3
<1>6. Cardinality(H) = Cardinality(G) + 1
  <2>1. IsFiniteSet(G)
    BY <1>1, GraphRemainingFinite, FS_Subset
  <2> QED
    BY <1>3, <2>1, FS_AddElement
<1>7. /\ graphIndegree' \in [graphNodes -> Nat]
      /\ \A m \in graphNodes : graphIndegree'[m] = Cardinality(Graph!Remaining(H, m))
  <2>1. graphIndegree' =
            [m \in graphNodes |-> IF m \in Graph!Adjacent(n) THEN graphIndegree[m] - 1
                                                            ELSE graphIndegree[m]]
    BY DEF Graph!Eliminate
  <2>2. \A m \in graphNodes : graphIndegree'[m] = Cardinality(Graph!Remaining(H, m))
    BY <1>5, <2>1
  <2> QED
    BY <1>5, <2>1, <2>2
<1>8. graphReady' = {m \in graphNodes \ H : Graph!Remaining(H, m) = {}}
  <2>1. graphReady' = (graphReady \ {n}) \cup {m \in Graph!Adjacent(n) : graphIndegree[m] = 1}
    BY DEF Graph!Eliminate
  <2>2. /\ graphReady = {m \in graphNodes \ G : Graph!Remaining(G, m) = {}}
        /\ \A m \in G : Graph!Remaining(G, m) = {}
        /\ graphIndegree \in [graphNodes -> Nat]
    BY <1>2 DEF Graph!Left
  <2>3. Graph!Adjacent(n) \subseteq graphNodes
    BY <1>1, GraphAdjacentAreNodes
  <2>4. \A m \in Graph!Adjacent(n) : m \notin G /\ m # n /\ m \notin graphReady
    BY <1>3, <1>4, <2>2
  <2>5. ASSUME NEW m \in Graph!Adjacent(n)
        PROVE  graphIndegree[m] = 1 <=> Graph!Remaining(H, m) = {}
    <3>1. m \in graphNodes
      BY <2>3
    <3>2. /\ graphIndegree[m] \in Nat
          /\ Cardinality(Graph!Remaining(H, m)) = graphIndegree[m] - 1
          /\ Cardinality(Graph!Remaining(H, m)) = 0 <=> Graph!Remaining(H, m) = {}
      BY <1>5, <2>5, <3>1
    <3> HIDE DEF H
    <3> QED
      BY <3>2
  <2> QED
    BY <1>4, <2>1, <2>2, <2>3, <2>4, <2>5
<1>9. \A m \in H : Graph!Remaining(H, m) = {}
  BY <1>2, <1>3, <1>4 DEF Graph!Left
<1>10. ASSUME NEW C \in SUBSET graphNodes, Graph!Loops(C), C \subseteq H
       PROVE  FALSE
  <2>1. n \in C
    BY <1>2, <1>10 DEF Graph!Left
  <2>2. PICK m \in C : m \in Graph!Adjacent(n)
    BY <1>10, <2>1 DEF Graph!Loops
  <2>3. n \in Graph!Remaining(G, m)
    BY <1>4, <2>2
  <2>4. m \in G \/ m = n
    BY <1>10, <2>2
  <2> QED
    BY <1>2, <1>3, <2>3, <2>4 DEF Graph!Left
<1>11. Graph!Left(H)'
  <2>1. \A m : Graph!Remaining(H, m)' = Graph!Remaining(H, m)
    BY <1>1 DEF Graph!Remaining, Graph!Adjacent
  <2>2. \A C : Graph!Loops(C)' <=> Graph!Loops(C)
    BY <1>1 DEF Graph!Loops, Graph!Adjacent
  <2>3. graphVisited' = Cardinality(H)
    BY <1>1, <1>2, <1>6, GraphCounted DEF Graph!Left
  <2>4. \A C \in SUBSET graphNodes : Graph!Loops(C)' => ~(C \subseteq H)
    BY <1>10, <2>2
  <2>5. \A m \in graphNodes : graphIndegree'[m] = Cardinality(Graph!Remaining(H, m)')
    BY <1>7, <2>1
  <2> HIDE DEF H
  <2> QED
    BY <1>1, <1>7, <1>8, <1>9, <2>1, <2>3, <2>4, <2>5, GraphCounted DEF Graph!Left
<1>12. Graph!WellFormed' /\ Graph!TypeOK' /\ Graph!AcyclicGraphsPass'
  BY <1>1 DEF Graph!WellFormed, Graph!TypeOK, Graph!AcyclicGraphsPass
<1>13. H \in SUBSET graphNodes'
  BY <1>1, <1>3
<1> QED
  BY <1>11, <1>12, <1>13 DEF Graph!IInv

\* Nothing is ready: either all nodes have left, or those that stay all have predecessors.
LEMMA GraphDecideStep ==
  ASSUME Graph!ConstantsAreLegal, Graph!IInv, Graph!Decide
  PROVE  Graph!IInv'
<1>1. /\ Graph!TypeOK /\ Graph!WellFormed /\ graphStage = "eliminating" /\ graphReady = {}
      /\ graphNodes' = graphNodes /\ graphEdges' = graphEdges
      /\ graphStage' = IF graphVisited = Cardinality(graphNodes) THEN "accepted" ELSE "refused"
  BY GraphCounted DEF Graph!IInv, Graph!Decide
<1>2. PICK G \in SUBSET graphNodes : Graph!Left(G)
  BY <1>1 DEF Graph!IInv
<1>3. IsFiniteSet(graphNodes) /\ IsFiniteSet(graphNodes \ G)
  BY <1>1, GraphRemainingFinite, FS_Subset
<1>4. graphVisited = Cardinality(graphNodes) <=> G = graphNodes
  BY <1>2, <1>3, FS_Subset, GraphCounted DEF Graph!Left
<1>5. G = graphNodes => ~Graph!Cyclic
  BY <1>2 DEF Graph!Left, Graph!Cyclic
<1>6. ASSUME G # graphNodes
      PROVE  Graph!Cyclic
  <2>1. \A n \in graphNodes \ G : \E m \in graphNodes \ G : n \in Graph!Adjacent(m)
    BY <1>1, <1>2 DEF Graph!Left, Graph!Remaining
  <2>2. graphNodes \ G # {} /\ graphNodes \ G \subseteq graphNodes
    BY <1>6
  <2> QED
    BY <1>3, <2>1, <2>2, GraphPredecessorsLoop
<1>7. /\ Graph!WellFormed' <=> Graph!WellFormed
      /\ Graph!Cyclic' <=> Graph!Cyclic
  BY <1>1 DEF Graph!WellFormed, Graph!Cyclic, Graph!Loops, Graph!Adjacent
<1>8. graphStage' = "accepted" <=> ~Graph!Cyclic
  BY <1>1, <1>4, <1>5, <1>6
<1>9. Graph!TypeOK' /\ Graph!AcyclicGraphsPass' /\ graphStage' # "eliminating"
  BY <1>1, <1>7, <1>8 DEF Graph!TypeOK, Graph!AcyclicGraphsPass
<1> QED
  BY <1>9 DEF Graph!IInv
LEMMA GraphInductive ==
    Graph!ConstantsAreLegal /\ Graph!IInv /\ [Graph!Next]_Graph!vars => Graph!IInv'
<1> SUFFICES ASSUME Graph!ConstantsAreLegal, Graph!IInv, [Graph!Next]_Graph!vars
             PROVE  Graph!IInv'
  OBVIOUS
<1>1. CASE Graph!Refuse
  BY <1>1 DEF Graph!Refuse, Graph!IInv, Graph!TypeOK, Graph!AcyclicGraphsPass, Graph!WellFormed
<1>2. CASE UNCHANGED Graph!vars
  <2>1. \A G, n : Graph!Remaining(G, n)' = Graph!Remaining(G, n)
    BY <1>2 DEF Graph!vars, Graph!Remaining, Graph!Adjacent
  <2>2. \A C : Graph!Loops(C)' <=> Graph!Loops(C)
    BY <1>2 DEF Graph!vars, Graph!Loops, Graph!Adjacent
  <2>3. \A G : Graph!Left(G)' <=> Graph!Left(G)
    BY <1>2, <2>1, <2>2 DEF Graph!vars, Graph!Left
  <2>4. (Graph!WellFormed' <=> Graph!WellFormed) /\ (Graph!Cyclic' <=> Graph!Cyclic)
    BY <1>2, <2>2 DEF Graph!vars, Graph!WellFormed, Graph!Cyclic
  <2> QED
    BY <1>2, <2>3, <2>4 DEF Graph!vars, Graph!IInv, Graph!TypeOK, Graph!AcyclicGraphsPass
<1> QED
  BY <1>1, <1>2, GraphCountStep, GraphEliminateStep, GraphDecideStep DEF Graph!Next,
     Graph!Finished

\* A graph of any nodes and edges is accepted exactly when it is well formed and has no
\* cycle, in whatever order its nodes leave.
THEOREM GraphDecided == Graph!Spec => []AcyclicGraphsPass
<1> Graph!ConstantsAreLegal
  BY GraphIsLegal
<1>1. Graph!Init => Graph!IInv
  BY DEF Graph!Init, Graph!IInv, Graph!TypeOK, AcyclicGraphsPass, Graph!AcyclicGraphsPass
<1>2. Graph!IInv /\ [Graph!Next]_Graph!vars => Graph!IInv'
  BY GraphInductive
<1>3. Graph!IInv => AcyclicGraphsPass
  BY DEF Graph!IInv, AcyclicGraphsPass, Graph!AcyclicGraphsPass
<1> QED
  BY <1>1, <1>2, <1>3, PTL DEF Graph!Spec

=============================================================================
