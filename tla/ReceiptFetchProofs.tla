------------------------- MODULE ReceiptFetchProofs -------------------------
(***************************************************************************)
(* What the fetch within a time frame returns, for any number of receipts, *)
(* pages of any size and any frames. First where the bytes of a receipt    *)
(* are: it is a theorem here that the places named by hand, the published  *)
(* interfaces and the structs of the program agree.                        *)
(***************************************************************************)
EXTENDS ReceiptFetch, ArithmeticTheorems, SequenceTheorems

-----------------------------------------------------------------------------
\* The fields of a receipt.
ReceiptFields ==
    <<[name |-> "discriminator", width |-> 8],
      [name |-> "owner", width |-> 32],
      [name |-> "payer", width |-> 32],
      [name |-> "stakePool", width |-> 32],
      [name |-> "lockupDuration", width |-> 8],
      [name |-> "depositTimestamp", width |-> 8],
      [name |-> "depositAmount", width |-> 8],
      [name |-> "effectiveStake", width |-> 16],
      [name |-> "claimedAmounts", width |-> 10 * 16]>>

\* The program's struct and the interfaces published for both versions list the
\* same fields in the same order.
LEMMA ReceiptLayouts ==
    /\ Source!StakeDepositReceipt = ReceiptFields
    /\ Current!stakeDepositReceipt = ReceiptFields
    /\ V0!stakeDepositReceipt = ReceiptFields
<1>1. Source!StakeDepositReceipt = ReceiptFields
  BY Zenon DEF Source!StakeDepositReceipt, ReceiptFields, Source!Discriminator, Source!PublicKey,
        Source!U64, Source!I64, Source!U128, Source!Field
<1>2. Current!stakeDepositReceipt = ReceiptFields
  BY Zenon DEF Current!stakeDepositReceipt, ReceiptFields, Current!Discriminator,
        Current!PublicKey, Current!U64, Current!I64, Current!U128, Current!Field
<1>3. V0!stakeDepositReceipt = ReceiptFields
  BY Zenon DEF V0!stakeDepositReceipt, V0!Current!stakeDepositReceipt, ReceiptFields,
        V0!Current!Discriminator, V0!Current!PublicKey, V0!Current!U64, V0!Current!I64,
        V0!Current!U128, V0!Current!Field
<1> QED BY <1>1, <1>2, <1>3

\* Where they begin.
LEMMA ReceiptOffsets ==
    /\ OffsetOf(ReceiptFields, 1) = 0
    /\ OffsetOf(ReceiptFields, 4) = 72
    /\ OffsetOf(ReceiptFields, 5) = 104
    /\ OffsetOf(ReceiptFields, 6) = 112
<1> DEFINE w == [j \in DOMAIN ReceiptFields |-> ReceiptFields[j].width]
<1>1. /\ w[1] = 8 /\ w[2] = 32 /\ w[3] = 32 /\ w[4] = 32 /\ w[5] = 8
  BY DEF ReceiptFields
<1>2. \A i : OffsetOf(ReceiptFields, i) = Total(w, i - 1)
  BY DEF OffsetOf
<1> HIDE DEF w
<1>3. Total(w, 0) = 0
  BY TotalDef
<1>4. \A n \in Nat : Total(w, n + 1) = Total(w, n) + w[n + 1]
  BY TotalDef
<1>5. Total(w, 1) = 8
  BY <1>1, <1>3, <1>4, SMT
<1>6. Total(w, 2) = 40
  BY <1>1, <1>5, <1>4, SMT
<1>7. Total(w, 3) = 72
  BY <1>1, <1>6, <1>4, SMT
<1>8. Total(w, 4) = 104
  BY <1>1, <1>7, <1>4, SMT
<1>9. Total(w, 5) = 112
  BY <1>1, <1>8, <1>4, SMT
<1> QED BY <1>2, <1>3, <1>7, <1>8, <1>9, SMT

\* The bytes of the receipt at an address.
LEMMA ReceiptBytes ==
    ASSUME NEW a
    PROVE  Stored(ReceiptFields, [discriminator    |-> STAKE_DEPOSIT_RECEIPT_DISCRIMINATOR,
                                  stakePool        |-> PoolOf[a],
                                  lockupDuration   |-> 0,
                                  depositTimestamp |-> deposit_timestamp[a]])
           = {<<0, 8, STAKE_DEPOSIT_RECEIPT_DISCRIMINATOR>>, <<72, 32, PoolOf[a]>>,
              <<104, 8, 0>>, <<112, 8, deposit_timestamp[a]>>}
<1> DEFINE values == [discriminator    |-> STAKE_DEPOSIT_RECEIPT_DISCRIMINATOR,
                      stakePool        |-> PoolOf[a],
                      lockupDuration   |-> 0,
                      depositTimestamp |-> deposit_timestamp[a]]
           given == {j \in DOMAIN ReceiptFields : ReceiptFields[j].name \in DOMAIN values}
<1>1. given = {1, 4, 5, 6}
  <2>1. DOMAIN values = {"discriminator", "stakePool", "lockupDuration", "depositTimestamp"}
    OBVIOUS
  <2>2. DOMAIN ReceiptFields = 1..9
    BY DEF ReceiptFields
  <2> HIDE DEF values
  <2>3. given = {j \in 1..9 : ReceiptFields[j].name \in
                      {"discriminator", "stakePool", "lockupDuration", "depositTimestamp"}}
    BY <2>1, <2>2
  <2> QED BY <2>3 DEF ReceiptFields
<1>2. /\ ReceiptFields[1].name = "discriminator" /\ ReceiptFields[1].width = 8
      /\ ReceiptFields[4].name = "stakePool" /\ ReceiptFields[4].width = 32
      /\ ReceiptFields[5].name = "lockupDuration" /\ ReceiptFields[5].width = 8
      /\ ReceiptFields[6].name = "depositTimestamp" /\ ReceiptFields[6].width = 8
  BY DEF ReceiptFields
<1>3. /\ values["discriminator"] = STAKE_DEPOSIT_RECEIPT_DISCRIMINATOR
      /\ values["stakePool"] = PoolOf[a]
      /\ values["lockupDuration"] = 0
      /\ values["depositTimestamp"] = deposit_timestamp[a]
  OBVIOUS
<1>4. Stored(ReceiptFields, values)
      = {<<OffsetOf(ReceiptFields, i), ReceiptFields[i].width, values[ReceiptFields[i].name]>> :
            i \in given}
  BY Zenon DEF Stored
<1> HIDE DEF values, given
<1>5. Stored(ReceiptFields, values)
      = {<<OffsetOf(ReceiptFields, 1), ReceiptFields[1].width, values[ReceiptFields[1].name]>>,
         <<OffsetOf(ReceiptFields, 4), ReceiptFields[4].width, values[ReceiptFields[4].name]>>,
         <<OffsetOf(ReceiptFields, 5), ReceiptFields[5].width, values[ReceiptFields[5].name]>>,
         <<OffsetOf(ReceiptFields, 6), ReceiptFields[6].width, values[ReceiptFields[6].name]>>}
  BY <1>1, <1>4, Zenon
<1>6. Stored(ReceiptFields, values)
      = {<<0, 8, STAKE_DEPOSIT_RECEIPT_DISCRIMINATOR>>, <<72, 32, PoolOf[a]>>,
         <<104, 8, 0>>, <<112, 8, deposit_timestamp[a]>>}
  <2>1. OffsetOf(ReceiptFields, 1) = 0 /\ values[ReceiptFields[1].name]
                                         = STAKE_DEPOSIT_RECEIPT_DISCRIMINATOR
    BY <1>2, <1>3, ReceiptOffsets
  <2>2. OffsetOf(ReceiptFields, 4) = 72 /\ values[ReceiptFields[4].name] = PoolOf[a]
    BY <1>2, <1>3, ReceiptOffsets
  <2>3. OffsetOf(ReceiptFields, 5) = 104 /\ values[ReceiptFields[5].name] = 0
    BY <1>2, <1>3, ReceiptOffsets
  <2>4. /\ OffsetOf(ReceiptFields, 6) = 112
        /\ values[ReceiptFields[6].name] = deposit_timestamp[a]
    BY <1>2, <1>3, ReceiptOffsets
  <2> QED BY <1>2, <1>5, <2>1, <2>2, <2>3, <2>4
<1> QED BY <1>6, Zenon DEF values

\* What is read of a receipt: its type, its pool and the time of its deposit, the
\* same by the places named by hand and by the interface (utils.ts:52-98, 228-290).
LEMMA ReceiptRead ==
    ASSUME version \in DOMAIN ProgramLayout, NEW a
    PROVE  /\ Filters(AccountData(a)) <=> PoolOf[a] = AskedPool
           /\ BytesAt(AccountData(a), DepositTimestampSlice.offset, DepositTimestampSlice.length)
              = deposit_timestamp[a]
           /\ Decoded(ClientLayout[version], AccountData(a), "depositTimestamp")
              = deposit_timestamp[a]
<1>1. ProgramLayout[version] = ReceiptFields /\ ClientLayout[version] = ReceiptFields
  BY ReceiptLayouts DEF ProgramLayout, ClientLayout
<1> DEFINE data == {<<0, 8, STAKE_DEPOSIT_RECEIPT_DISCRIMINATOR>>, <<72, 32, PoolOf[a]>>,
                    <<104, 8, 0>>, <<112, 8, deposit_timestamp[a]>>}
<1>2. AccountData(a) = data
  BY <1>1, ReceiptBytes, Zenon DEF AccountData
<1>3. BytesAt(data, 0, 8) = STAKE_DEPOSIT_RECEIPT_DISCRIMINATOR
  <2>1. \A value \in data : value[1] = 0 /\ value[2] = 8
                            => value[3] = STAKE_DEPOSIT_RECEIPT_DISCRIMINATOR
    OBVIOUS
  <2>2. \E value \in data : value[1] = 0 /\ value[2] = 8
    OBVIOUS
  <2> HIDE DEF data
  <2> QED BY <2>1, <2>2 DEF BytesAt
<1>4. BytesAt(data, 72, 32) = PoolOf[a]
  <2>1. \A value \in data : value[1] = 72 /\ value[2] = 32 => value[3] = PoolOf[a]
    OBVIOUS
  <2>2. \E value \in data : value[1] = 72 /\ value[2] = 32
    OBVIOUS
  <2> HIDE DEF data
  <2> QED BY <2>1, <2>2 DEF BytesAt
<1>5. BytesAt(data, 112, 8) = deposit_timestamp[a]
  <2>1. \A value \in data : value[1] = 112 /\ value[2] = 8 => value[3] = deposit_timestamp[a]
    OBVIOUS
  <2>2. \E value \in data : value[1] = 112 /\ value[2] = 8
    OBVIOUS
  <2> HIDE DEF data
  <2> QED BY <2>1, <2>2 DEF BytesAt
<1> HIDE DEF data
<1>6. 8 + 32 + 32 = 72 /\ 8 + 32 + 32 + 32 + 8 = 112
  OBVIOUS
<1>7. Filters(AccountData(a)) <=> PoolOf[a] = AskedPool
  BY <1>2, <1>3, <1>4, <1>6, Zenon DEF Filters
<1>8. BytesAt(AccountData(a), DepositTimestampSlice.offset, DepositTimestampSlice.length)
      = deposit_timestamp[a]
  <2>1. DepositTimestampSlice.offset = 112 /\ DepositTimestampSlice.length = 8
    BY <1>6 DEF DepositTimestampSlice
  <2> QED BY <1>2, <1>5, <2>1, Zenon
<1>9. Decoded(ClientLayout[version], AccountData(a), "depositTimestamp") = deposit_timestamp[a]
  <2>1. (CHOOSE j \in DOMAIN ReceiptFields : ReceiptFields[j].name = "depositTimestamp") = 6
    <3>1. \A j \in DOMAIN ReceiptFields : ReceiptFields[j].name = "depositTimestamp" <=> j = 6
      BY DEF ReceiptFields
    <3>2. 6 \in DOMAIN ReceiptFields
      BY DEF ReceiptFields
    <3> QED BY <3>1, <3>2
  <2>2. ReceiptFields[6].width = 8
    BY DEF ReceiptFields
  <2>3. Decoded(ReceiptFields, data, "depositTimestamp")
        = BytesAt(data, OffsetOf(ReceiptFields, 6), ReceiptFields[6].width)
    BY <2>1 DEF Decoded
  <2>4. Decoded(ReceiptFields, data, "depositTimestamp") = BytesAt(data, 112, 8)
    BY <2>2, <2>3, ReceiptOffsets
  <2> QED BY <1>1, <1>2, <1>5, <2>4
<1> QED BY <1>7, <1>8, <1>9

-----------------------------------------------------------------------------
\* An order in which the node lists the accounts has each of them.
LEMMA ListedOnce ==
    ASSUME NEW S, IsFiniteSet(S), NEW keys \in SetToSeqs(S)
    PROVE  keys \in Seq(S) /\ \A x \in S : \E i \in 1..Len(keys) : keys[i] = x
<1> DEFINE n == Cardinality(S)
<1>1. n \in Nat
  BY FS_CardinalityType
<1>2. keys \in [1..n -> S] /\ \A i, j \in 1..n : i # j => keys[i] # keys[j]
  BY DEF SetToSeqs
<1>3. keys \in Injection(1..n, S)
  BY <1>2 DEF Injection, IsInjective
<1>4. IsFiniteSet(1..n) /\ Cardinality(1..n) = n
  BY <1>1, FS_Interval
<1>5. keys \in Surjection(1..n, S)
  BY <1>3, <1>4, FS_Injection
<1>6. \A x \in S : \E i \in 1..n : keys[i] = x
  BY <1>5 DEF Surjection
<1> HIDE DEF n
<1>7. keys \in Seq(S) /\ Len(keys) = n
  BY <1>1, <1>2
<1> QED BY <1>6, <1>7

\* A chunk is neither empty nor longer than a page, and every key is in one.
LEMMA ChunksCover ==
    ASSUME NEW S, NEW keys \in Seq(S)
    PROVE  /\ \A chunk \in Chunks(keys) : chunk \in Seq(S) /\ Len(chunk) \in 1..PAGE_COUNT
           /\ \A i \in 1..Len(keys) : \E chunk \in Chunks(keys) :
                  \E j \in DOMAIN chunk : chunk[j] = keys[i]
<1> DEFINE first(k) == k * PAGE_COUNT + 1
           last(k) == IF (k + 1) * PAGE_COUNT <= Len(keys) THEN (k + 1) * PAGE_COUNT
                      ELSE Len(keys)
           pages == {j \in 0..Len(keys) : j * PAGE_COUNT < Len(keys)}
<1>1. PAGE_COUNT \in Nat \ {0} /\ Len(keys) \in Nat
  BY FetchAssumption
<1>2. Chunks(keys) = {SubSeq(keys, first(k), last(k)) : k \in pages}
  BY Zenon DEF Chunks
<1>3. ASSUME NEW k \in pages
      PROVE  /\ first(k) \in 1..Len(keys)
             /\ last(k) \in first(k)..Len(keys)
             /\ last(k) - first(k) + 1 <= PAGE_COUNT
  <2>1. k \in Nat /\ k * PAGE_COUNT \in Nat /\ k * PAGE_COUNT < Len(keys)
    BY <1>1
  <2>2. (k + 1) * PAGE_COUNT = k * PAGE_COUNT + PAGE_COUNT
    BY <1>1, <2>1
  <2> DEFINE m == k * PAGE_COUNT
  <2> HIDE DEF m
  <2>3. first(k) = m + 1
    BY DEF m
  <2>4. last(k) = IF m + PAGE_COUNT <= Len(keys) THEN m + PAGE_COUNT ELSE Len(keys)
    BY <2>2 DEF m
  <2>5. m \in Nat /\ m < Len(keys)
    BY <2>1 DEF m
  <2> HIDE DEF first, last
  <2> QED BY <1>1, <2>3, <2>4, <2>5
<1>4. ASSUME NEW k \in pages
      PROVE  LET chunk == SubSeq(keys, first(k), last(k))
             IN  /\ chunk \in Seq(S)
                 /\ Len(chunk) = last(k) - first(k) + 1
                 /\ \A j \in 1..(last(k) - first(k) + 1) : chunk[j] = keys[first(k) + j - 1]
  <2>1. first(k) \in Int /\ last(k) \in Int /\ first(k) <= last(k)
    BY <1>1, <1>3
  <2>2. \A i \in first(k)..last(k) : keys[i] \in S
    BY <1>1, <1>3
  <2> HIDE DEF first, last, pages
  <2> QED BY <2>1, <2>2, SubSeqProperties
<1>5. ASSUME NEW chunk \in Chunks(keys)
      PROVE  chunk \in Seq(S) /\ Len(chunk) \in 1..PAGE_COUNT
  <2>1. PICK k \in pages : chunk = SubSeq(keys, first(k), last(k))
    BY <1>2
  <2>2. /\ first(k) \in Int /\ last(k) \in Int /\ first(k) <= last(k)
        /\ last(k) - first(k) + 1 <= PAGE_COUNT
    BY <1>1, <1>3
  <2>3. chunk \in Seq(S) /\ Len(chunk) = last(k) - first(k) + 1
    BY <1>4, <2>1
  <2> HIDE DEF first, last, pages
  <2> QED BY <1>1, <2>2, <2>3
<1>6. ASSUME NEW i \in 1..Len(keys)
      PROVE  \E chunk \in Chunks(keys) : \E j \in DOMAIN chunk : chunk[j] = keys[i]
  <2> DEFINE k == (i - 1) \div PAGE_COUNT
             m == k * PAGE_COUNT
             j == i - m
  <2>1. i - 1 \in Nat
    OBVIOUS
  <2>2. k \in Nat /\ PAGE_COUNT * k <= i - 1 /\ i - 1 < PAGE_COUNT * k + PAGE_COUNT
    BY <1>1, <2>1, DivBounds
  <2>3. m = PAGE_COUNT * k /\ m \in Nat /\ (k + 1) * PAGE_COUNT = m + PAGE_COUNT /\ k <= m
    <3> HIDE DEF k
    <3> QED BY <1>1, <2>2
  <2>4. k \in pages
    <3> HIDE DEF k, m
    <3>1. k <= Len(keys) /\ m < Len(keys)
      BY <1>1, <2>2, <2>3
    <3> QED BY <1>1, <2>2, <3>1 DEF m
  <2>5. first(k) = m + 1
    OBVIOUS
  <2>6. last(k) = IF m + PAGE_COUNT <= Len(keys) THEN m + PAGE_COUNT ELSE Len(keys)
    BY <2>3
  <2> DEFINE chunk == SubSeq(keys, first(k), last(k))
  <2>7. /\ chunk \in Seq(S)
        /\ Len(chunk) = last(k) - first(k) + 1
        /\ \A n \in 1..(last(k) - first(k) + 1) : chunk[n] = keys[first(k) + n - 1]
    BY <1>4, <2>4
  <2>8. chunk \in Chunks(keys)
    BY <1>2, <2>4
  <2> HIDE DEF k, m, first, last, pages, chunk
  <2>9. j \in 1..(last(k) - first(k) + 1) /\ first(k) + j - 1 = i
    BY <1>1, <2>2, <2>3, <2>5, <2>6
  <2>10. j \in DOMAIN chunk /\ chunk[j] = keys[i]
    <3> HIDE DEF j
    <3> QED BY <2>7, <2>9
  <2> QED BY <2>8, <2>10
<1> QED BY <1>5, <1>6

-----------------------------------------------------------------------------
\* Nothing is left over between two fetches, and all chunks are answered when one
\* ends.
CleanBetween ==
    /\ op = "idle" => chunks = {} /\ fetched = {} /\ steady = {}
    /\ op = "fetched" => chunks = {}

Awaited(a) == \E chunk \in chunks : \E i \in DOMAIN chunk : chunk[i] = a

\* A steady receipt is asked for still, or has been read as it is.
SteadyOnTheWay ==
    \A a \in steady : /\ deposit_timestamp[a] # NoAccount
                      /\ Awaited(a) \/ <<a, deposit_timestamp[a]>> \in fetched

\* What is asked for still is of the pool, and was not deposited before the frame,
\* nor can it be from now on.
AwaitedWithin ==
    /\ \A a \in Addresses : Awaited(a) =>
           /\ PoolOf[a] = AskedPool
           /\ deposit_timestamp[a] # NoAccount => frame[1] <= deposit_timestamp[a]
    /\ chunks # {} => frame[1] <= clock

NothingFromTheFuture == \A a \in Addresses : deposit_timestamp[a] <= clock

FetchInvariant ==
    /\ TypeOK
    /\ NothingFromBeforeFrame
    /\ CleanBetween
    /\ SteadyOnTheWay
    /\ AwaitedWithin
    /\ NothingFromTheFuture

-----------------------------------------------------------------------------
LEMMA FetchInit == Init => FetchInvariant
<1> SUFFICES ASSUME Init PROVE FetchInvariant
  OBVIOUS
<1>1. TypeOK
  BY FetchAssumption DEF Init, TypeOK, ProgramLayout, NoAccount
<1> QED
  BY <1>1 DEF Init, FetchInvariant, NothingFromBeforeFrame, CleanBetween, SteadyOnTheWay,
              AwaitedWithin, Awaited, NothingFromTheFuture, NoAccount

\* What the first request keeps: the receipts of the pool within the frame, in
\* chunks.
LEMMA FetchKeysKeeps ==
    ASSUME FetchInvariant, NEW f \in TimeFrames, FetchKeys(f)
    PROVE  FetchInvariant'
<1> DEFINE within == {a \in Addresses : /\ deposit_timestamp[a] # NoAccount
                                        /\ PoolOf[a] = AskedPool
                                        /\ f[1] <= deposit_timestamp[a]
                                        /\ deposit_timestamp[a] <= f[2]}
<1> USE DEF NoAccount
<1>1. /\ TypeOK
      /\ \A a \in Addresses : deposit_timestamp[a] \in 0..MaxTime
      /\ f[1] \in Nat
      /\ clock \in Nat
  BY FetchAssumption DEF FetchInvariant, TypeOK
<1>2. /\ op = "idle" /\ op' = "fetching" /\ frame' = f
      /\ UNCHANGED <<version, deposit_timestamp, clock, fetched>>
  BY DEF FetchKeys
<1>3. PICK keys \in SetToSeqs(within) : chunks' = Chunks(keys)
  <2> DEFINE time(a) == BytesAt(AccountData(a), DepositTimestampSlice.offset,
                                DepositTimestampSlice.length)
             kept == {a \in Addresses : /\ deposit_timestamp[a] # NoAccount
                                        /\ Filters(AccountData(a))
                                        /\ WithinFrame(time(a), f)}
  <2>1. \E keys \in SetToSeqs(kept) : chunks' = Chunks(keys)
    BY Zenon DEF FetchKeys
  <2>2. \A a : (Filters(AccountData(a)) <=> PoolOf[a] = AskedPool) /\ time(a) = deposit_timestamp[a]
    BY <1>1, ReceiptRead, Zenon DEF TypeOK
  <2>3. kept = within
    <3> HIDE DEF time
    <3> QED BY <2>2 DEF WithinFrame
  <2> QED BY <2>1, <2>3, Zenon
<1>4. steady' = within
  BY DEF FetchKeys
<1>5. IsFiniteSet(within) /\ within \subseteq Addresses
  BY FetchAssumption, FS_Subset
<1>6. fetched = {} /\ fetched' = {}
  BY <1>2 DEF FetchInvariant, CleanBetween
<1>7. \A a \in within : /\ PoolOf[a] = AskedPool
                        /\ deposit_timestamp'[a] # NoAccount
                        /\ frame'[1] <= deposit_timestamp'[a]
                        /\ deposit_timestamp[a] <= clock
  BY <1>2, <1>5 DEF FetchInvariant, NothingFromTheFuture
<1> HIDE DEF within
<1>8. keys \in Seq(within) /\ \A a \in within : \E i \in 1..Len(keys) : keys[i] = a
  BY <1>3, <1>5, ListedOnce
<1>9. /\ \A chunk \in chunks' : chunk \in Seq(within) /\ Len(chunk) \in 1..PAGE_COUNT
      /\ \A i \in 1..Len(keys) : \E chunk \in chunks' :
             \E j \in DOMAIN chunk : chunk[j] = keys[i]
  BY <1>3, <1>8, ChunksCover
<1>10. \A a \in within : Awaited(a)'
  BY <1>8, <1>9 DEF Awaited
<1>11. \A a : Awaited(a)' => a \in within
  BY <1>9 DEF Awaited
<1>12. TypeOK'
  <2>1. \A chunk \in chunks' : chunk \in Seq(Addresses) /\ Len(chunk) \in 1..PAGE_COUNT
    BY <1>5, <1>9
  <2> QED BY <1>1, <1>2, <1>4, <1>5, <2>1 DEF TypeOK
<1>13. CleanBetween' /\ NothingFromBeforeFrame'
  BY <1>2, <1>6 DEF CleanBetween, NothingFromBeforeFrame
<1>14. SteadyOnTheWay'
  BY <1>4, <1>7, <1>10 DEF SteadyOnTheWay
<1>15. AwaitedWithin'
  <2>1. \A a \in Addresses : Awaited(a)' =>
           /\ PoolOf[a] = AskedPool
           /\ frame'[1] <= deposit_timestamp'[a]
    BY <1>7, <1>11
  <2>2. ASSUME chunks' # {} PROVE frame'[1] <= clock'
    <3>1. PICK chunk \in chunks' : chunk \in Seq(within) /\ Len(chunk) \in 1..PAGE_COUNT
      BY <2>2, <1>9
    <3>2. chunk[1] \in within
      BY <3>1, FetchAssumption
    <3>3. f[1] <= deposit_timestamp[chunk[1]] /\ deposit_timestamp[chunk[1]] <= clock
      BY <1>2, <1>7, <3>2
    <3>4. deposit_timestamp[chunk[1]] \in Nat
      BY <1>1, <1>5, <3>2
    <3> QED BY <1>1, <1>2, <3>3, <3>4
  <2> QED BY <2>1, <2>2 DEF AwaitedWithin
<1>16. NothingFromTheFuture'
  BY <1>2 DEF FetchInvariant, NothingFromTheFuture
<1> QED BY <1>12, <1>13, <1>14, <1>15, <1>16 DEF FetchInvariant

\* The answer to a chunk has what its addresses hold at that moment.
LEMMA FetchChunkKeeps ==
    ASSUME FetchInvariant, NEW chunk \in chunks, FetchChunk(chunk)
    PROVE  FetchInvariant'
<1> USE DEF NoAccount
<1>1. /\ TypeOK
      /\ chunk \in Seq(Addresses)
      /\ \A a \in Addresses : deposit_timestamp[a] \in 0..MaxTime
  BY DEF FetchInvariant, TypeOK
<1>2. /\ op = "fetching" /\ chunks' = chunks \ {chunk}
      /\ UNCHANGED <<version, deposit_timestamp, clock, frame, op, steady>>
  BY DEF FetchChunk
<1>3. \A a : FetchedTime(a) = deposit_timestamp[a]
  BY <1>1, ReceiptRead, Zenon DEF TypeOK, FetchedTime
<1>4. fetched' = fetched \cup {<<chunk[i], deposit_timestamp[chunk[i]]>> : i \in DOMAIN chunk}
  BY <1>3, Zenon DEF FetchChunk
<1>5. \A i \in DOMAIN chunk : /\ chunk[i] \in Addresses
                              /\ Awaited(chunk[i])
  BY <1>1 DEF Awaited
<1>6. \A i \in DOMAIN chunk :
          /\ PoolOf[chunk[i]] = AskedPool
          /\ deposit_timestamp[chunk[i]] # NoAccount => frame[1] <= deposit_timestamp[chunk[i]]
  BY <1>5 DEF FetchInvariant, AwaitedWithin
<1>7. \A a : Awaited(a)' => Awaited(a)
  BY <1>2 DEF Awaited
<1>8. \A a : Awaited(a) => Awaited(a)' \/ \E i \in DOMAIN chunk : chunk[i] = a
  BY <1>2 DEF Awaited
<1>9. TypeOK'
  <2>1. \A i \in DOMAIN chunk :
            <<chunk[i], deposit_timestamp[chunk[i]]>>
                \in {a \in Addresses : PoolOf[a] = AskedPool} \X (NoAccount..MaxTime)
    BY <1>1, <1>5, <1>6
  <2>2. fetched' \subseteq {a \in Addresses : PoolOf[a] = AskedPool} \X (NoAccount..MaxTime)
    <3> DEFINE T == {a \in Addresses : PoolOf[a] = AskedPool} \X (NoAccount..MaxTime)
    <3>1. fetched \subseteq T
      BY <1>1 DEF TypeOK
    <3>2. \A i \in DOMAIN chunk : <<chunk[i], deposit_timestamp[chunk[i]]>> \in T
      BY <2>1
    <3> HIDE DEF T
    <3>3. fetched' \subseteq T
      BY <1>4, <3>1, <3>2
    <3> QED BY <3>3 DEF T
  <2> QED BY <1>1, <1>2, <2>2 DEF TypeOK
<1>10. NothingFromBeforeFrame'
  <2> SUFFICES ASSUME NEW read \in fetched', read[2] # NoAccount PROVE frame[1] <= read[2]
    BY <1>2 DEF NothingFromBeforeFrame
  <2>1. CASE read \in fetched
    BY <2>1 DEF FetchInvariant, NothingFromBeforeFrame
  <2>2. CASE \E i \in DOMAIN chunk : read = <<chunk[i], deposit_timestamp[chunk[i]]>>
    BY <1>6, <2>2
  <2> QED BY <1>4, <2>1, <2>2
<1>11. CleanBetween'
  BY <1>2 DEF CleanBetween
<1>12. SteadyOnTheWay'
  <2> SUFFICES ASSUME NEW a \in steady
               PROVE  /\ deposit_timestamp[a] # NoAccount
                      /\ Awaited(a)' \/ <<a, deposit_timestamp[a]>> \in fetched'
    BY <1>2 DEF SteadyOnTheWay
  <2>1. /\ deposit_timestamp[a] # NoAccount
        /\ Awaited(a) \/ <<a, deposit_timestamp[a]>> \in fetched
    BY DEF FetchInvariant, SteadyOnTheWay
  <2> QED BY <1>4, <1>8, <2>1
<1>13. AwaitedWithin'
  BY <1>2, <1>7 DEF FetchInvariant, AwaitedWithin
<1>14. NothingFromTheFuture'
  BY <1>2 DEF FetchInvariant, NothingFromTheFuture
<1> QED BY <1>9, <1>10, <1>11, <1>12, <1>13, <1>14 DEF FetchInvariant

LEMMA FetchEndsKeeps == FetchInvariant /\ FetchEnds => FetchInvariant'
<1> SUFFICES ASSUME FetchInvariant, FetchEnds PROVE FetchInvariant'
  OBVIOUS
<1> USE DEF FetchEnds, FetchInvariant
<1>1. TypeOK'
  BY DEF TypeOK
<1>2. NothingFromBeforeFrame' /\ CleanBetween' /\ NothingFromTheFuture'
  BY DEF NothingFromBeforeFrame, CleanBetween, NothingFromTheFuture
<1>3. \A a : Awaited(a)' <=> Awaited(a)
  BY DEF Awaited
<1>4. SteadyOnTheWay' /\ AwaitedWithin'
  BY <1>3 DEF SteadyOnTheWay, AwaitedWithin
<1> QED BY <1>1, <1>2, <1>4

LEMMA ReturnKeeps == FetchInvariant /\ Return => FetchInvariant'
<1> SUFFICES ASSUME FetchInvariant, Return PROVE FetchInvariant'
  OBVIOUS
<1> USE DEF Return, FetchInvariant
<1>1. chunks = {} /\ chunks' = {}
  BY DEF CleanBetween
<1>2. TypeOK'
  BY DEF TypeOK
<1>3. NothingFromBeforeFrame' /\ CleanBetween' /\ NothingFromTheFuture'
  BY <1>1 DEF NothingFromBeforeFrame, CleanBetween, NothingFromTheFuture
<1>4. SteadyOnTheWay' /\ AwaitedWithin'
  BY <1>1 DEF SteadyOnTheWay, AwaitedWithin, Awaited
<1> QED BY <1>2, <1>3, <1>4

\* A receipt that is deposited was not steady, and is not from before the frame.
LEMMA DepositKeeps ==
    ASSUME FetchInvariant, NEW a \in Addresses, Deposit(a)
    PROVE  FetchInvariant'
<1> USE DEF NoAccount
<1>1. /\ deposit_timestamp[a] = NoAccount
      /\ deposit_timestamp' = [deposit_timestamp EXCEPT ![a] = clock]
      /\ UNCHANGED <<version, clock, frame, chunks, fetched, op, steady>>
  BY DEF Deposit
<1>2. TypeOK /\ clock \in 1..MaxTime /\ MaxTime \in Nat
  BY FetchAssumption DEF FetchInvariant, TypeOK
<1>3. /\ deposit_timestamp'[a] = clock
      /\ \A b \in Addresses \ {a} : deposit_timestamp'[b] = deposit_timestamp[b]
  BY <1>1, <1>2 DEF TypeOK
<1>4. a \notin steady /\ steady \subseteq Addresses
  BY <1>1, <1>2 DEF FetchInvariant, SteadyOnTheWay, TypeOK
<1>5. \A b : Awaited(b)' <=> Awaited(b)
  BY <1>1 DEF Awaited
<1>6. TypeOK'
  <2>1. deposit_timestamp' \in [Addresses -> NoAccount..MaxTime]
    BY <1>1, <1>2 DEF TypeOK
  <2> QED BY <1>1, <1>2, <2>1 DEF TypeOK
<1>7. NothingFromBeforeFrame' /\ CleanBetween'
  BY <1>1 DEF FetchInvariant, NothingFromBeforeFrame, CleanBetween
<1>8. SteadyOnTheWay'
  <2>1. \A b \in steady : deposit_timestamp'[b] = deposit_timestamp[b]
    BY <1>3, <1>4
  <2> QED BY <1>1, <1>5, <2>1 DEF FetchInvariant, SteadyOnTheWay
<1>9. AwaitedWithin'
  <2>1. Awaited(a) => chunks # {}
    BY DEF Awaited
  <2> QED BY <1>1, <1>3, <1>5, <2>1 DEF FetchInvariant, AwaitedWithin
<1>10. NothingFromTheFuture'
  BY <1>1, <1>2, <1>3 DEF FetchInvariant, NothingFromTheFuture
<1> QED BY <1>6, <1>7, <1>8, <1>9, <1>10 DEF FetchInvariant

LEMMA WithdrawKeeps ==
    ASSUME FetchInvariant, NEW a \in Addresses, Withdraw(a)
    PROVE  FetchInvariant'
<1> USE DEF NoAccount
<1>1. /\ deposit_timestamp' = [deposit_timestamp EXCEPT ![a] = NoAccount]
      /\ steady' = steady \ {a}
      /\ UNCHANGED <<version, clock, frame, chunks, fetched, op>>
  BY DEF Withdraw
<1>2. TypeOK /\ clock \in 1..MaxTime /\ MaxTime \in Nat /\ steady \subseteq Addresses
  BY FetchAssumption DEF FetchInvariant, TypeOK
<1>3. /\ deposit_timestamp'[a] = NoAccount
      /\ \A b \in Addresses \ {a} : deposit_timestamp'[b] = deposit_timestamp[b]
  BY <1>1, <1>2 DEF TypeOK
<1>4. \A b : Awaited(b)' <=> Awaited(b)
  BY <1>1 DEF Awaited
<1>5. TypeOK'
  <2>1. deposit_timestamp' \in [Addresses -> NoAccount..MaxTime]
    BY <1>1, <1>2 DEF TypeOK
  <2> QED BY <1>1, <1>2, <2>1 DEF TypeOK
<1>6. NothingFromBeforeFrame' /\ CleanBetween'
  BY <1>1 DEF FetchInvariant, NothingFromBeforeFrame, CleanBetween
<1>7. SteadyOnTheWay'
  <2>1. \A b \in steady' : b \in steady /\ deposit_timestamp'[b] = deposit_timestamp[b]
    BY <1>1, <1>2, <1>3
  <2> QED BY <1>1, <1>4, <2>1 DEF FetchInvariant, SteadyOnTheWay
<1>8. AwaitedWithin'
  BY <1>1, <1>3, <1>4 DEF FetchInvariant, AwaitedWithin
<1>9. NothingFromTheFuture'
  BY <1>1, <1>2, <1>3 DEF FetchInvariant, NothingFromTheFuture
<1> QED BY <1>5, <1>6, <1>7, <1>8, <1>9 DEF FetchInvariant

LEMMA TickKeeps == FetchInvariant /\ Tick => FetchInvariant'
<1> SUFFICES ASSUME FetchInvariant, Tick PROVE FetchInvariant'
  OBVIOUS
<1> USE DEF Tick, FetchInvariant
<1>1. /\ clock \in Nat /\ clock' = clock + 1
      /\ \A a \in Addresses : deposit_timestamp[a] \in Nat
      /\ frame[1] \in Nat
  BY FetchAssumption DEF TypeOK, NoAccount
<1>2. TypeOK'
  BY FetchAssumption DEF TypeOK
<1>3. NothingFromBeforeFrame' /\ CleanBetween'
  BY DEF NothingFromBeforeFrame, CleanBetween
<1>4. \A a : Awaited(a)' <=> Awaited(a)
  BY DEF Awaited
<1>5. SteadyOnTheWay'
  BY <1>4 DEF SteadyOnTheWay
<1>6. AwaitedWithin' /\ NothingFromTheFuture'
  BY <1>1, <1>4 DEF AwaitedWithin, NothingFromTheFuture
<1> QED BY <1>2, <1>3, <1>5, <1>6

-----------------------------------------------------------------------------
\* The invariant the theorems below follow from (utils.ts:228-290).
THEOREM FetchIsInvariant == Spec => []FetchInvariant
<1>1. FetchInvariant /\ [Next]_vars => FetchInvariant'
  <2> SUFFICES ASSUME FetchInvariant, [Next]_vars PROVE FetchInvariant'
    OBVIOUS
  <2>1. ASSUME NEW f \in TimeFrames, FetchKeys(f) PROVE FetchInvariant'
    BY <2>1, FetchKeysKeeps
  <2>2. ASSUME NEW chunk \in chunks, FetchChunk(chunk) PROVE FetchInvariant'
    BY <2>2, FetchChunkKeeps
  <2>3. CASE FetchEnds
    BY <2>3, FetchEndsKeeps
  <2>4. CASE Return
    BY <2>4, ReturnKeeps
  <2>5. ASSUME NEW a \in Addresses, Deposit(a) PROVE FetchInvariant'
    BY <2>5, DepositKeeps
  <2>6. ASSUME NEW a \in Addresses, Withdraw(a) PROVE FetchInvariant'
    BY <2>6, WithdrawKeeps
  <2>7. CASE Tick
    BY <2>7, TickKeeps
  <2>8. CASE UNCHANGED vars
    BY <2>8, Zenon DEF vars, FetchInvariant, TypeOK, NothingFromBeforeFrame, CleanBetween,
              SteadyOnTheWay, AwaitedWithin, Awaited, NothingFromTheFuture
  <2> QED BY <2>1, <2>2, <2>3, <2>4, <2>5, <2>6, <2>7, <2>8 DEF Next
<1> QED BY FetchInit, <1>1, PTL DEF Spec

\* Requests are never empty nor longer than a page, and only receipts of the pool
\* asked for are returned (utils.ts:228-290).
THEOREM FetchesAreOfThePool == Spec => []TypeOK
<1>1. FetchInvariant => TypeOK
  BY DEF FetchInvariant
<1> QED BY <1>1, FetchIsInvariant, PTL

\* Every receipt of the pool and the frame that stays open is returned as it is, by
\* either version of the program, in whatever order the chunks are answered
\* (utils.ts:228-290).
THEOREM SteadyReceiptsAreFetched == Spec => []SteadyAreFetched
<1>1. FetchInvariant => SteadyAreFetched
  <2> SUFFICES ASSUME FetchInvariant, op = "fetched", NEW a \in steady
               PROVE  <<a, deposit_timestamp[a]>> \in fetched
    BY DEF SteadyAreFetched
  <2>1. ~ Awaited(a)
    BY DEF FetchInvariant, CleanBetween, Awaited
  <2> QED BY <2>1 DEF FetchInvariant, SteadyOnTheWay
<1> QED BY <1>1, FetchIsInvariant, PTL

\* A receipt closed and opened again while its chunk is awaited is never returned
\* with a time before the frame (utils.ts:252-255).
THEOREM FetchesRespectFrame == Spec => []NothingFromBeforeFrame
<1>1. FetchInvariant => NothingFromBeforeFrame
  BY DEF FetchInvariant
<1> QED BY <1>1, FetchIsInvariant, PTL

=============================================================================
