---------------------------- MODULE ReceiptFetch ----------------------------
(***************************************************************************)
(* fetchStakeReceiptsOfStakersWithinTimeFrame of the SDK (utils.ts): the   *)
(* receipts of a pool whose deposit was made within a time frame. A first  *)
(* request reads the deposit times of all receipts and filters them; the   *)
(* addresses kept are then fetched in chunks, by requests sent together    *)
(* and answered in any order, while stakers deposit and withdraw.          *)
(*                                                                         *)
(* The first request names bytes by places counted by hand, the second     *)
(* decodes them by the published interface; the program of either version  *)
(* put them where its own structs say.                                     *)
(***************************************************************************)
EXTENDS Interface

CONSTANTS
    Addresses,      \* addresses of receipts, each used again after a withdrawal
    PoolOf,         \* the pool a receipt's address is derived from
    AskedPool,      \* the pool that is asked for
    TimeFrames,     \* the <<startTime, endTime>> that are asked for
    PAGE_COUNT,     \* how many addresses are fetched by one request
    MaxTime         \* the last instant of the clock

ASSUME FetchAssumption ==
    /\ IsFiniteSet(Addresses)
    /\ PAGE_COUNT \in Nat \ {0}
    /\ MaxTime \in Nat \ {0}
    /\ TimeFrames \subseteq Nat \X Nat

Source  == INSTANCE Program
Current == INSTANCE IDL
V0      == INSTANCE IDLV0

\* The sizes the code asserts at compile time.
ASSUME SizesAsserted ==
    SizeOf(Source!RewardPool) = 64 /\ SizeOf(Source!StakePool) = 8 + 1112

\* How a receipt is laid out by the program, and by the interface a client uses.
\* Of the program's version 0, only the interface is known.
ProgramLayout == [current |-> Source!StakeDepositReceipt, v0 |-> V0!stakeDepositReceipt]

ClientLayout == [current |-> Current!stakeDepositReceipt, v0 |-> V0!stakeDepositReceipt]

NoAccount == 0      \* the clock starts at 1

VARIABLES
    version,            \* of the program and of the client's interface
    deposit_timestamp,  \* of the receipt at each address, or NoAccount
    clock,
    frame,              \* the time frame asked for
    chunks,             \* the chunks of addresses not yet answered
    fetched,            \* the answers: addresses with what was read there
    op,                 \* "idle", "fetching" or "fetched"
    \* --- history, read by the properties only
    steady              \* receipts of the first request still open since

vars == <<version, deposit_timestamp, clock, frame, chunks, fetched, op, steady>>

Init ==
    /\ version \in {"current", "v0"}
    /\ deposit_timestamp = [a \in Addresses |-> NoAccount]
    /\ clock = 1
    /\ frame = <<0, 0>>
    /\ chunks = {}
    /\ fetched = {}
    /\ op = "idle"
    /\ steady = {}

-----------------------------------------------------------------------------
STAKE_DEPOSIT_RECEIPT_DISCRIMINATOR == <<210, 98, 254, 196, 151, 68, 235, 0>>

\* The account at an address: the fields that are filtered by, and the one that
\* lies next to them.
AccountData(a) ==
    Stored(ProgramLayout[version],
           [discriminator    |-> STAKE_DEPOSIT_RECEIPT_DISCRIMINATOR,
            stakePool        |-> PoolOf[a],
            lockupDuration   |-> 0,
            depositTimestamp |-> deposit_timestamp[a]])

\* Mutant: the lockup is read.
DepositTimestampSliceEarly == [offset |-> 8 + 32 + 32 + 32, length |-> 8]

\* The places the SDK names.
DepositTimestampSlice == [offset |-> 8 + 32 + 32 + 32 + 8, length |-> 8]

\* Mutant: receipts of all pools.
FiltersAnyPool(data) == BytesAt(data, 0, 8) = STAKE_DEPOSIT_RECEIPT_DISCRIMINATOR

Filters(data) ==
    /\ BytesAt(data, 0, 8) = STAKE_DEPOSIT_RECEIPT_DISCRIMINATOR
    /\ BytesAt(data, 8 + 32 + 32, 32) = AskedPool

\* Mutants of the filter: a receipt on an end of the frame is left out; the start
\* is not looked at.
WithinOpenFrame(t, f) == f[1] < t /\ t < f[2]

WithinEndOnly(t, f) == t <= f[2]

\* Both ends are inclusive.
WithinFrame(t, f) == f[1] <= t /\ t <= f[2]

\* Mutant: the last chunk is dropped when it is not full.
FullChunks(keys) ==
    {SubSeq(keys, k * PAGE_COUNT + 1, (k + 1) * PAGE_COUNT) :
        k \in 0..(Len(keys) \div PAGE_COUNT - 1)}

\* Mutant: a last chunk follows the full ones even if nothing is left for it.
ChunksTrailing(keys) ==
    {SubSeq(keys, k * PAGE_COUNT + 1,
            IF (k + 1) * PAGE_COUNT <= Len(keys) THEN (k + 1) * PAGE_COUNT ELSE Len(keys)) :
        k \in 0..(Len(keys) \div PAGE_COUNT)}

\* lodash.chunk: consecutive runs of PAGE_COUNT, the last one maybe shorter.
Chunks(keys) ==
    {SubSeq(keys, k * PAGE_COUNT + 1,
            IF (k + 1) * PAGE_COUNT <= Len(keys) THEN (k + 1) * PAGE_COUNT ELSE Len(keys)) :
        k \in {j \in 0..Len(keys) : j * PAGE_COUNT < Len(keys)}}

\* fetchChunkedListOfStakeReceiptKeysWithinTimeFrame. The node lists the accounts
\* in an order of its own.
FetchKeys(f) ==
    LET time(a) == BytesAt(AccountData(a), DepositTimestampSlice.offset,
                           DepositTimestampSlice.length)
        within  == {a \in Addresses : /\ deposit_timestamp[a] # NoAccount
                                      /\ Filters(AccountData(a))
                                      /\ WithinFrame(time(a), f)}
    IN  /\ op = "idle"
        /\ op' = "fetching"
        /\ frame' = f
        /\ \E keys \in SetToSeqs(within) : chunks' = Chunks(keys)
        /\ steady' = {a \in Addresses : /\ PoolOf[a] = AskedPool
                                        /\ deposit_timestamp[a] # NoAccount
                                        /\ f[1] <= deposit_timestamp[a]
                                        /\ deposit_timestamp[a] <= f[2]}
        /\ UNCHANGED <<version, deposit_timestamp, clock, fetched>>

\* fetchMultiple decodes what an address holds now; without an account it is null.
FetchedTime(a) ==
    IF deposit_timestamp[a] = NoAccount THEN NoAccount
    ELSE Decoded(ClientLayout[version], AccountData(a), "depositTimestamp")

\* The answer for one chunk.
FetchChunk(chunk) ==
    /\ op = "fetching"
    /\ chunk \in chunks
    /\ chunks' = chunks \ {chunk}
    /\ fetched' = fetched \cup {<<chunk[i], FetchedTime(chunk[i])>> : i \in DOMAIN chunk}
    /\ UNCHANGED <<version, deposit_timestamp, clock, frame, op, steady>>

\* Promise.all: every chunk has been answered.
FetchEnds ==
    /\ op = "fetching"
    /\ chunks = {}
    /\ op' = "fetched"
    /\ UNCHANGED <<version, deposit_timestamp, clock, frame, chunks, fetched, steady>>

Return ==
    /\ op = "fetched"
    /\ op' = "idle"
    /\ fetched' = {}
    /\ frame' = <<0, 0>>
    /\ steady' = {}
    /\ UNCHANGED <<version, deposit_timestamp, clock, chunks>>

-----------------------------------------------------------------------------
\* The program: deposits stamp a receipt with the time, withdrawals close it.
Deposit(a) ==
    /\ deposit_timestamp[a] = NoAccount
    /\ deposit_timestamp' = [deposit_timestamp EXCEPT ![a] = clock]
    /\ UNCHANGED <<version, clock, frame, chunks, fetched, op, steady>>

Withdraw(a) ==
    /\ deposit_timestamp[a] # NoAccount
    /\ deposit_timestamp' = [deposit_timestamp EXCEPT ![a] = NoAccount]
    /\ steady' = steady \ {a}
    /\ UNCHANGED <<version, clock, frame, chunks, fetched, op>>

Tick ==
    /\ clock < MaxTime
    /\ clock' = clock + 1
    /\ UNCHANGED <<version, deposit_timestamp, frame, chunks, fetched, op, steady>>

Next ==
    \/ \E f \in TimeFrames : FetchKeys(f)
    \/ \E chunk \in chunks : FetchChunk(chunk)
    \/ FetchEnds
    \/ Return
    \/ \E a \in Addresses : Deposit(a) \/ Withdraw(a)
    \/ Tick

Spec == Init /\ [][Next]_vars

-----------------------------------------------------------------------------
\* No request is empty or asks for more addresses than PAGE_COUNT, and all that is
\* fetched are receipts of the pool asked for.
TypeOK ==
    /\ version \in DOMAIN ProgramLayout
    /\ deposit_timestamp \in [Addresses -> NoAccount..MaxTime]
    /\ clock \in 1..MaxTime
    /\ frame \in TimeFrames \cup {<<0, 0>>}
    /\ \A chunk \in chunks : chunk \in Seq(Addresses) /\ Len(chunk) \in 1..PAGE_COUNT
    /\ fetched \subseteq {a \in Addresses : PoolOf[a] = AskedPool} \X (NoAccount..MaxTime)
    /\ op \in {"idle", "fetching", "fetched"}
    /\ steady \subseteq Addresses

\* However the answers to the chunks are ordered, the whole fetch returns every
\* receipt of the pool and the frame that stayed open, as it is, from programs of
\* both versions (utils.ts:228-290): the places named by hand and the interface
\* agree with the program's structs.
SteadyAreFetched ==
    op = "fetched" => \A a \in steady : <<a, deposit_timestamp[a]>> \in fetched

\* A receipt closed and opened again between the two requests is fetched with
\* its new time, which is later: no receipt from before the frame is ever
\* returned (utils.ts:252-255).
NothingFromBeforeFrame ==
    \A read \in fetched : read[2] # NoAccount => frame[1] <= read[2]

=============================================================================
