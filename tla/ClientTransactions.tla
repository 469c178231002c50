------------------------- MODULE ClientTransactions -------------------------
(***************************************************************************)
(* Transactions the SDK builds (utils.ts, instructions.ts), and what the   *)
(* program makes of them when they arrive: a staker's are built from a     *)
(* pool read earlier, while the authority adds reward pools, hands the     *)
(* pool on and sets the metadata of its stake mint.                        *)
(*                                                                         *)
(* Accounts and arguments are put in the order of the published interface  *)
(* and taken in the order of the program's structs. Of the pool, only what *)
(* a transaction's accounts are compared with is kept.                     *)
(***************************************************************************)
EXTENDS Interface

CONSTANTS
    Clients,            \* stakers' programs using the SDK
    Keys,               \* keys that can be creator and authority
    Mints,              \* reward mints; a vault is named by its mint
    NoKey,              \* Pubkey::default(), and a mint the caller passes as null
    MAX_REWARD_POOLS

ASSUME KeyAssumption == NoKey \notin Keys \cup Mints
ASSUME SizeAssumption == MAX_REWARD_POOLS \in Nat

Slots == 1..MAX_REWARD_POOLS

Source  == INSTANCE Program
Current == INSTANCE IDL
V0      == INSTANCE IDLV0

VARIABLES
    version,        \* of the program and of the clients' interface
    stake_pool,     \* the pool's address, or NoAddress before there is one
    creator,        \* the pool's fields
    authority,
    reward_vaults,  \* the reward vault of each slot, or NoKey
    staked,         \* total_weighted_stake > 0
    metadata,       \* has the stake mint a metadata account?
    call,           \* the transaction each client is building or has sent
    admin           \* how the last instruction of an authority's ended

poolVars == <<version, stake_pool, creator, authority>>
vars == <<poolVars, reward_vaults, staked, metadata, call, admin>>

NoAddress == <<"none">>

NoPools == [i \in Slots |-> NoKey]

Idle == [op |-> "idle", seen |-> NoPools, mints |-> NoPools, accounts |-> <<>>, sent |-> "none"]

\* What decides the fate of an authority's instruction: was the caller the
\* authority, the address the pool's, the slot free and the payer writable?
NoCall == [op |-> "none", by_authority |-> FALSE, on_pool |-> TRUE, free |-> TRUE,
           writable |-> TRUE, result |-> "none"]

Init ==
    /\ version \in {"current", "v0"}
    /\ stake_pool = NoAddress
    /\ creator = NoKey
    /\ authority = NoKey
    /\ reward_vaults = NoPools
    /\ staked = FALSE
    /\ metadata = FALSE
    /\ call = [c \in Clients |-> Idle]
    /\ admin = NoCall

-----------------------------------------------------------------------------
\* What a client knows of the program, and the program of itself. Of version 0,
\* only the interface is known.
Published ==
    IF version = "v0" THEN [instructions |-> V0!instructions, stakePool |-> V0!stakePool]
    ELSE [instructions |-> Current!instructions, stakePool |-> Current!stakePool]

Own ==
    IF version = "v0" THEN [instructions |-> V0!instructions, stakePool |-> V0!stakePool]
    ELSE [instructions |-> Source!instructions, stakePool |-> Source!StakePool]

Offered(name) == name \in DOMAIN Own.instructions

Accounts(name) == Own.instructions[name].accounts

CanBuildIx(name, keys) == CanBuild(Published.instructions[name].accounts, keys)

Build(name, keys) == Metas(Published.instructions[name].accounts, keys)

ArgumentOf(name, values, arg) ==
    Argument(Published.instructions[name].args, values, Own.instructions[name].args, arg)

\* Addresses, by what they are derived from.
Wallet(key)            == <<"wallet", key>>
StakePoolKey(key)      == <<"stakePool", key>>
StakeMintKey(pool)     == <<"stakeMint", pool>>
VaultKey(pool)         == <<"vault", pool>>
RewardVaultKey(pool, mint) == <<"rewardVault", pool, mint>>
ReceiptKey(owner, pool)    == <<"stakeDepositReceipt", owner, pool>>
MetadataKey(stakeMint) == <<"metadata", stakeMint>>
TokenAccount(owner, mint)  == <<"tokenAccount", owner, mint>>
Sponsor                == <<"sponsor">>

\* The well-known accounts every client names.
Sysvars == [tokenProgram |-> <<"spl-token">>, rent |-> <<"rent">>, systemProgram |-> <<"system">>]

\* The accounts a client names, with the well-known ones.
AndSysvars(keys) ==
    [name \in DOMAIN keys \cup DOMAIN Sysvars |->
        IF name \in DOMAIN keys THEN keys[name] ELSE Sysvars[name]]

NamesSysvars(name, metas) ==
    \A a \in ToSet(Accounts(name)) :
        a.name \in DOMAIN Sysvars => KeyOf(Accounts(name), metas, a.name) = Sysvars[a.name]

\* Mutant: the seeds name the authority of the day.
PoolSignsAsAuthority == StakePoolKey(authority) = stake_pool

\* stake_pool_signer_seeds: the pool can sign if they lead to its own address.
PoolSigns == StakePoolKey(creator) = stake_pool

-----------------------------------------------------------------------------
\* The vaults of the slots in use, in the order of the slots.
UsedVaults(slots) ==
    FlattenSeq([i \in Slots |-> IF slots[i] = NoKey THEN <<>> ELSE <<slots[i]>>])

\* Mutant: the unused slots are sent along.
AllVaults(rewardPools) ==
    [i \in DOMAIN rewardPools |-> Meta(RewardVaultKey(stake_pool, rewardPools[i]), FALSE, FALSE)]

\* getRewardPoolPublicKeys, and the accounts createStakeBuilder makes of them.
RewardPoolPublicKeys(rewardPools) ==
    [k \in 1..Len(UsedVaults(rewardPools)) |->
        Meta(RewardVaultKey(stake_pool, UsedVaults(rewardPools)[k]), FALSE, FALSE)]

\* getRemainingAccountsForClaimOrWithdraw: a vault and the owner's token account
\* for each slot in use whose mint the caller knows.
RemainingAccounts(rewardPools, mints, owner) ==
    FlattenSeq([i \in Slots |->
        IF rewardPools[i] = NoKey \/ mints[i] = NoKey THEN <<>>
        ELSE <<Meta(RewardVaultKey(stake_pool, rewardPools[i]), TRUE, FALSE),
               Meta(TokenAccount(owner, mints[i]), TRUE, FALSE)>>])

\* recalculate_rewards_per_effective_stake: one account in every offset is the
\* vault of the next slot in use. Nothing is compared while nobody is staked.
RefreshAccepts(accounts, offset) ==
    staked => \A k \in 1..Len(UsedVaults(reward_vaults)) :
        /\ (k - 1) * offset + 1 <= Len(accounts)
        /\ accounts[(k - 1) * offset + 1].pubkey
               = RewardVaultKey(stake_pool, UsedVaults(reward_vaults)[k])

\* Mutant: missing accounts end the claim without an error.
ClaimAcceptsPart(accounts) ==
    \A k \in 1..Len(UsedVaults(reward_vaults)) :
        2 * k <= Len(accounts) =>
            accounts[2 * k - 1].pubkey = RewardVaultKey(stake_pool, UsedVaults(reward_vaults)[k])

\* transfer_all_claimable_rewards: pairs of a vault and an account to pay, both
\* written by the transfer; that there is something to claim is assumed.
ClaimAccepts(accounts) ==
    \A k \in 1..Len(UsedVaults(reward_vaults)) :
        /\ 2 * k <= Len(accounts)
        /\ accounts[2 * k - 1].pubkey = RewardVaultKey(stake_pool, UsedVaults(reward_vaults)[k])
        /\ accounts[2 * k - 1].isWritable /\ accounts[2 * k].isWritable

-----------------------------------------------------------------------------
\* The pool's data as the program stores it and as the interface reads it.
PoolData ==
    Stored(Own.stakePool,
           [rewardPools |-> [i \in Slots |->
               Stored(Source!RewardPool, [rewardVault |-> reward_vaults[i]])]])

SeenRewardPools ==
    LET rewardPools == Decoded(Published.stakePool, PoolData, "rewardPools")
    IN  [i \in Slots |-> Decoded(Current!RewardPool, rewardPools[i], "rewardVault")]

ReadPool(c) ==
    /\ stake_pool # NoAddress
    /\ call[c] = Idle
    /\ call' = [call EXCEPT ![c].op = "read", ![c].seen = SeenRewardPools]
    /\ UNCHANGED <<poolVars, reward_vaults, staked, metadata, admin>>

BuildDeposit(c) ==
    /\ call[c].op = "read"
    /\ call' = [call EXCEPT ![c].op = "deposit",
                            ![c].accounts = RewardPoolPublicKeys(call[c].seen)]
    /\ UNCHANGED <<poolVars, reward_vaults, staked, metadata, admin>>

\* The caller passes the mint of each slot, or null.
BuildClaim(c, mints) ==
    /\ call[c].op = "read"
    /\ \A i \in Slots : mints[i] \in {call[c].seen[i], NoKey}
    /\ call' = [call EXCEPT ![c].op = "claim",
                            ![c].mints = mints,
                            ![c].accounts = RemainingAccounts(call[c].seen, mints, Wallet(c))]
    /\ UNCHANGED <<poolVars, reward_vaults, staked, metadata, admin>>

\* The accounts createStakeBuilder names. The program pays out stake mint tokens.
DepositKeys(c) ==
    AndSysvars(
        [payer |-> Wallet(c), owner |-> Wallet(c), from |-> TokenAccount(Wallet(c), NoKey),
         stakePool |-> stake_pool, vault |-> VaultKey(stake_pool),
         stakeMint |-> StakeMintKey(stake_pool),
         destination |-> TokenAccount(Wallet(c), StakeMintKey(stake_pool)),
         stakeDepositReceipt |-> ReceiptKey(Wallet(c), stake_pool)])

DepositAccepted(metas, feePayer) ==
    LET key(name) == KeyOf(Accounts("deposit"), metas, name)
    IN  /\ HasPrivileges(Accounts("deposit"), metas, feePayer)
        /\ NamesSysvars("deposit", metas)
        /\ key("stakePool") = stake_pool
        /\ key("vault") = VaultKey(stake_pool)
        /\ key("stakeMint") = StakeMintKey(stake_pool)
        /\ key("stakeDepositReceipt") = ReceiptKey(key("owner"), stake_pool)
        /\ key("from")[2] = key("payer") /\ key("destination")[2] = key("owner")
        /\ RefreshAccepts(Remaining(Accounts("deposit"), metas), 1)
        /\ PoolSigns

\* The accounts a caller names for claim_all and for withdraw.
ClaimKeys(c) ==
    AndSysvars(
        [owner |-> Wallet(c), stakePool |-> stake_pool,
         stakeDepositReceipt |-> ReceiptKey(Wallet(c), stake_pool),
         vault |-> VaultKey(stake_pool), stakeMint |-> StakeMintKey(stake_pool),
         destination |-> TokenAccount(Wallet(c), NoKey)])

WithFrom(keys) ==
    [name \in DOMAIN keys \cup {"from"} |->
        IF name = "from" THEN TokenAccount(keys.owner, keys.stakeMint) ELSE keys[name]]

ClaimAccepted(name, metas, feePayer) ==
    LET key(account) == KeyOf(Accounts(name), metas, account)
        remaining    == Remaining(Accounts(name), metas)
    IN  /\ HasPrivileges(Accounts(name), metas, feePayer)
        /\ NamesSysvars(name, metas)
        /\ key("stakePool") = stake_pool
        /\ key("stakeDepositReceipt") = ReceiptKey(key("owner"), stake_pool)
        /\ name = "withdraw" =>
              /\ key("vault") = VaultKey(stake_pool)
              /\ key("stakeMint") = StakeMintKey(stake_pool)
              /\ key("from") \in {ProgramId, TokenAccount(key("owner"), key("stakeMint"))}
        /\ RefreshAccepts(remaining, 2)
        /\ ClaimAccepts(remaining)
        /\ PoolSigns

\* The transaction runs; a deposit of no tokens adds no stake. Another key than
\* the staker's may pay the fee.
SubmitDeposit(c, feePayer) ==
    LET accepted == DepositAccepted(Build("deposit", DepositKeys(c)) \o call[c].accounts, feePayer)
    IN  /\ call[c].op = "deposit"
        /\ CanBuildIx("deposit", DepositKeys(c))
        /\ call' = [call EXCEPT ![c] =
                     [Idle EXCEPT !.sent = IF accepted THEN "accepted" ELSE "rejected"]]
        /\ staked' \in IF accepted THEN {staked, TRUE} ELSE {staked}
        /\ UNCHANGED <<poolVars, reward_vaults, metadata, admin>>

\* A withdrawal may be the last and leave nothing staked.
SubmitClaim(c, name, keys, feePayer) ==
    LET accepted == ClaimAccepted(name, Build(name, keys) \o call[c].accounts, feePayer)
    IN  /\ call[c].op = "claim"
        /\ CanBuildIx(name, keys)
        /\ call' = [call EXCEPT ![c] =
                     [Idle EXCEPT !.sent = IF accepted THEN "accepted" ELSE "rejected"]]
        /\ staked' \in IF accepted /\ name = "withdraw" THEN {staked, FALSE} ELSE {staked}
        /\ UNCHANGED <<poolVars, reward_vaults, metadata, admin>>

Return(c) ==
    /\ call[c].sent # "none"
    /\ call' = [call EXCEPT ![c] = Idle]
    /\ UNCHANGED <<poolVars, reward_vaults, staked, metadata, admin>>

-----------------------------------------------------------------------------
\* initStakePool of the SDK; the authority does not sign.
SdkInitStakePool(caller, auth) ==
    LET pool  == StakePoolKey(auth)
        metas == Build("initializeStakePool",
                       AndSysvars([payer |-> Wallet(caller), authority |-> Wallet(auth),
                                   stakePool |-> pool, stakeMint |-> StakeMintKey(pool),
                                   mint |-> <<"mint">>, vault |-> VaultKey(pool)]))
        key(name) == KeyOf(Accounts("initializeStakePool"), metas, name)
    IN  /\ stake_pool = NoAddress
        /\ HasPrivileges(Accounts("initializeStakePool"), metas, Wallet(caller))
        /\ NamesSysvars("initializeStakePool", metas)
        /\ key("stakePool") = StakePoolKey(key("authority")[2])
        /\ key("stakeMint") = StakeMintKey(key("stakePool"))
        /\ key("vault") = VaultKey(key("stakePool"))
        /\ stake_pool' = key("stakePool")
        /\ creator' = key("authority")[2]
        /\ authority' = key("authority")[2]
        /\ UNCHANGED <<version, reward_vaults, staked, metadata, call, admin>>

\* Mutant: an account that exists already is taken as the slot's vault.
SlotFreeAgain(i, mint) == reward_vaults[i] = NoKey

\* A slot the program lets the mint's vault be put into.
SlotFree(i, mint) ==
    /\ reward_vaults[i] = NoKey
    /\ \A j \in Slots : reward_vaults[j] # mint

\* What the program checks of every instruction of the authority's.
AuthorityAccepted(name, metas, feePayer) ==
    LET key(account) == KeyOf(Accounts(name), metas, account)
    IN  /\ HasPrivileges(Accounts(name), metas, feePayer)
        /\ NamesSysvars(name, metas)
        /\ key("stakePool") = stake_pool
        /\ key("authority") = Wallet(authority)

\* addRewardPool of the SDK derives the pool's address from the key it is given
\* as authority, which also signs; callers that build the instruction by
\* themselves name the pool.
AddRewardPool(caller, pool, i, mint) ==
    LET metas == Build("addRewardPool",
                       AndSysvars([payer |-> Wallet(caller), authority |-> Wallet(caller),
                                   rewardMint |-> <<"mint", mint>>, stakePool |-> pool,
                                   rewardVault |-> RewardVaultKey(pool, mint)]))
        key(name) == KeyOf(Accounts("addRewardPool"), metas, name)
        index     == ArgumentOf("addRewardPool", <<i>>, "index")
        accepted  == /\ AuthorityAccepted("addRewardPool", metas, Wallet(caller))
                     /\ index \in Slots
                     /\ SlotFree(index, key("rewardMint")[2])
                     /\ key("rewardVault") = RewardVaultKey(key("stakePool"), key("rewardMint")[2])
    IN  /\ stake_pool # NoAddress /\ admin = NoCall
        /\ admin' = [NoCall EXCEPT !.op = "addRewardPool",
                                   !.by_authority = caller = authority,
                                   !.on_pool = pool = stake_pool,
                                   !.free = SlotFree(i, mint),
                                   !.result = IF accepted THEN "accepted" ELSE "rejected"]
        /\ reward_vaults' = IF accepted
                            THEN [reward_vaults EXCEPT ![index] = key("rewardVault")[3]]
                            ELSE reward_vaults
        /\ UNCHANGED <<poolVars, staked, metadata, call>>

\* The authority's other instructions, whose accounts the caller names: the
\* instruction, the key it makes authority, and who pays the fee.
AdminKeys(caller, new_authority) ==
    AndSysvars(
        [payer |-> Wallet(caller), authority |-> Wallet(caller),
         newAuthority |-> Wallet(new_authority), stakePool |-> stake_pool,
         stakeMint |-> StakeMintKey(stake_pool), destination |-> TokenAccount(Wallet(caller), NoKey),
         metadataAccount |-> MetadataKey(StakeMintKey(stake_pool)),
         metadataProgram |-> <<"metadata">>])

\* dangerously_mint_stake_mint, of a pool the program lists: the pool signs.
MintAccepted(metas, feePayer) ==
    /\ AuthorityAccepted("dangerouslyMintStakeMint", metas, feePayer)
    /\ KeyOf(Accounts("dangerouslyMintStakeMint"), metas, "stakeMint") = StakeMintKey(stake_pool)
    /\ PoolSigns

\* Mutant: a new metadata account costs nothing.
PayerWritableAlways(metas, feePayer) == TRUE

\* update_token_meta pays for a new metadata account from the authority's, and
\* can pass on no privilege that the message does not give it.
PayerWritable(metas, feePayer) ==
    metadata \/ KeyOf(Accounts("updateTokenMeta"), metas, "authority") \in Writable(metas, feePayer)

MetaAccepted(metas, feePayer) ==
    LET key(account) == KeyOf(Accounts("updateTokenMeta"), metas, account)
    IN  /\ AuthorityAccepted("updateTokenMeta", metas, feePayer)
        /\ key("stakeMint") = StakeMintKey(stake_pool)
        /\ key("metadataProgram") = <<"metadata">>
        /\ key("metadataAccount") = MetadataKey(key("stakeMint"))
        /\ PayerWritable(metas, feePayer)
        /\ PoolSigns

AdminAccepted(name, metas, feePayer) ==
    \/ name \in {"setFlags", "transferAuthority"} /\ AuthorityAccepted(name, metas, feePayer)
    \/ name = "dangerouslyMintStakeMint" /\ MintAccepted(metas, feePayer)
    \/ name = "updateTokenMeta" /\ MetaAccepted(metas, feePayer)

AdminCall(name, caller, new_authority, feePayer) ==
    LET metas    == Build(name, AdminKeys(caller, new_authority))
        accepted == AdminAccepted(name, metas, feePayer)
    IN  /\ Offered(name)
        /\ stake_pool # NoAddress /\ admin = NoCall
        /\ admin' = [NoCall EXCEPT !.op = name,
                                   !.by_authority = caller = authority,
                                   !.writable = metadata \/ feePayer = Wallet(caller)
                                                \/ name # "updateTokenMeta",
                                   !.result = IF accepted THEN "accepted" ELSE "rejected"]
        /\ authority' = IF accepted /\ name = "transferAuthority"
                        THEN KeyOf(Accounts(name), metas, "newAuthority")[2] ELSE authority
        /\ metadata' = (metadata \/ (accepted /\ name = "updateTokenMeta"))
        /\ UNCHANGED <<version, stake_pool, creator, reward_vaults, staked, call>>

AdminReturn ==
    /\ admin # NoCall
    /\ admin' = NoCall
    /\ UNCHANGED <<poolVars, reward_vaults, staked, metadata, call>>

Next ==
    \/ \E c \in Clients : ReadPool(c) \/ BuildDeposit(c)
    \/ \E c \in Clients, mints \in [Slots -> Mints \cup {NoKey}] : BuildClaim(c, mints)
    \/ \E c \in Clients : \E payer \in {Wallet(c), Sponsor} : SubmitDeposit(c, payer)
    \/ \E c \in Clients, name \in {"claimAll", "withdraw"} :
          \E keys \in {ClaimKeys(c), WithFrom(ClaimKeys(c))}, payer \in {Wallet(c), Sponsor} :
              SubmitClaim(c, name, keys, payer)
    \/ \E c \in Clients : Return(c)
    \/ \E k, auth \in Keys : SdkInitStakePool(k, auth)
    \/ \E k \in Keys, i \in Slots, m \in Mints :
          \E pool \in {StakePoolKey(k), stake_pool} : AddRewardPool(k, pool, i, m)
    \/ \E name \in {"setFlags", "dangerouslyMintStakeMint", "transferAuthority", "updateTokenMeta"} :
          \E k, new \in Keys : \E payer \in {Wallet(k), Sponsor} : AdminCall(name, k, new, payer)
    \/ AdminReturn

Spec == Init /\ [][Next]_vars

-----------------------------------------------------------------------------
\* No vault is in two slots.
TypeOK ==
    /\ version \in {"current", "v0"}
    /\ stake_pool \in {StakePoolKey(k) : k \in Keys} \cup {NoAddress}
    /\ creator \in Keys \cup {NoKey} /\ authority \in Keys \cup {NoKey}
    /\ reward_vaults \in [Slots -> Mints \cup {NoKey}]
    /\ \A i, j \in Slots : reward_vaults[i] = reward_vaults[j] => i = j \/ reward_vaults[i] = NoKey
    /\ staked \in BOOLEAN /\ metadata \in BOOLEAN
    /\ \A c \in Clients :
          /\ call[c].op \in {"idle", "read", "deposit", "claim"}
          /\ call[c].seen \in [Slots -> Mints \cup {NoKey}]
          /\ call[c].mints \in [Slots -> Mints \cup {NoKey}]
          /\ call[c].sent \in {"none", "accepted", "rejected"}
    /\ admin.result \in {"none", "accepted", "rejected"}

\* The accounts of a deposit were chosen when the pool was read. When the deposit
\* runs on a pool with stake, it is accepted exactly if no reward pool has been
\* added since, whoever pays the fee and whoever has the pool's authority now: it
\* never skips the refresh of a pool the client did not know (utils.ts:148-153,
\* instructions.ts:164-185, state.rs:206-224).
DepositAcceptedIffCurrent ==
    [][\A c \in Clients :
          call[c].op = "deposit" /\ call'[c].sent # "none" /\ staked =>
              (call'[c].sent = "accepted" <=> reward_vaults = call[c].seen)]_vars

\* Likewise a claim or a withdrawal: accepted exactly if no reward pool has been
\* added since the pool was read and the caller knew every mint, so that no
\* reward pool's payout is skipped (utils.ts:162-185, claim_base.rs:61-88).
ClaimAcceptedIffCurrent ==
    [][\A c \in Clients :
          call[c].op = "claim" /\ call'[c].sent # "none" =>
              (call'[c].sent = "accepted"
                   <=> reward_vaults = call[c].seen /\ call[c].mints = call[c].seen)]_vars

\* However often the pool was handed on, the one who has the authority is obeyed,
\* and nobody else, in every instruction built from the published interface
\* (idl.ts, has_one = authority), but for the reasons the two exceptions below
\* give and an occupied slot: the seeds the pool signs with (macros.rs) keep
\* leading to its address.
AuthorityIsObeyed ==
    admin.result # "none" =>
        (admin.result = "accepted"
             <=> admin.by_authority /\ admin.on_pool /\ admin.free /\ admin.writable)

\* "Add a RewardPool to an existing StakePool" (instructions.ts:64): the call
\* succeeds when the pool's authority makes it for an unused slot and a new mint.
AuthorityAddsRewardPools ==
    admin.op = "addRewardPool" /\ admin.by_authority /\ admin.free => admin.result = "accepted"

\* "isMut: false" of updateTokenMeta's authority (idl.ts:485): the instruction
\* only reads that account, so it succeeds for the authority whoever pays the fee.
AuthoritySetsMetadata ==
    admin.op = "updateTokenMeta" /\ admin.by_authority /\ version = "current" =>
        admin.result = "accepted"

=============================================================================
