------------------------------- MODULE Program -------------------------------
(***************************************************************************)
(* The program's own account of its interface: the Accounts structs and    *)
(* handler arguments of its instructions, and the fields of its accounts   *)
(* in the order they lie in memory. The names are spelt as the interface   *)
(* spells them. An account that an instruction creates is written.         *)
(***************************************************************************)
EXTENDS Interface

InitializeStakePool ==
    [accounts |-> <<MutSigner("payer"), Plain("authority"), Plain("mint"), Mut("stakePool"),
                    Mut("stakeMint"), Mut("vault"),
                    Plain("tokenProgram"), Plain("rent"), Plain("systemProgram")>>,
     args |-> <<U8("nonce"), U64("maxWeight"), U64("minDuration"), U64("maxDuration")>>]

TransferAuthority ==
    [accounts |-> <<MutSigner("authority"), Plain("newAuthority"), Mut("stakePool")>>,
     args |-> <<>>]

DangerouslyMintStakeMint ==
    [accounts |-> <<MutSigner("payer"), Signer("authority"), Mut("stakeMint"),
                    Mut("destination"), Mut("stakePool"), Plain("tokenProgram")>>,
     args |-> <<U64("amount")>>]

AddRewardPool ==
    [accounts |-> <<MutSigner("payer"), Signer("authority"), Plain("rewardMint"),
                    Mut("stakePool"), Mut("rewardVault"),
                    Plain("tokenProgram"), Plain("rent"), Plain("systemProgram")>>,
     args |-> <<U8("index")>>]

SetFlags ==
    [accounts |-> <<MutSigner("authority"), Mut("stakePool")>>,
     args |-> <<U8("flags")>>]

Deposit ==
    [accounts |-> <<MutSigner("payer"), Plain("owner"), Mut("from"), Mut("vault"),
                    Mut("stakeMint"), Mut("destination"), Mut("stakePool"),
                    Mut("stakeDepositReceipt"),
                    Plain("tokenProgram"), Plain("rent"), Plain("systemProgram")>>,
     args |-> <<U32("nonce"), U64("amount"), U64("lockupDuration")>>]

ClaimAll ==
    [accounts |-> <<MutSigner("owner"), Mut("stakePool"), Mut("stakeDepositReceipt"),
                    Plain("tokenProgram")>>,
     args |-> <<>>]

Withdraw ==
    [accounts |-> ClaimAll.accounts
                  \o <<Mut("vault"), Mut("stakeMint"), Mut("from"), Mut("destination")>>,
     args |-> <<>>]

UpdateTokenMeta ==
    [accounts |-> <<Signer("authority"), Mut("metadataAccount"), Plain("stakePool"),
                    Plain("stakeMint"), Plain("metadataProgram"),
                    Plain("rent"), Plain("systemProgram")>>,
     args |-> <<Text("name"), Text("symbol"), Text("uri")>>]

instructions ==
    [initializeStakePool      |-> InitializeStakePool,
     transferAuthority        |-> TransferAuthority,
     dangerouslyMintStakeMint |-> DangerouslyMintStakeMint,
     addRewardPool            |-> AddRewardPool,
     setFlags                 |-> SetFlags,
     deposit                  |-> Deposit,
     claimAll                 |-> ClaimAll,
     withdraw                 |-> Withdraw,
     updateTokenMeta          |-> UpdateTokenMeta]

-----------------------------------------------------------------------------
RewardPool ==
    <<PublicKey("rewardVault"), U128("rewardsPerEffectiveStake"), U64("lastAmount"),
      Field("padding0", 8)>>

StakePool ==
    <<Discriminator, PublicKey("creator"), PublicKey("authority"), U128("totalWeightedStake"),
      PublicKey("vault"), PublicKey("mint"), PublicKey("stakeMint"),
      Field("rewardPools", 10 * SizeOf(RewardPool)),
      U64("baseWeight"), U64("maxWeight"), U64("minDuration"), U64("maxDuration"),
      U8("nonce"), U8("bumpSeed"), U8("flags"),
      Field("padding0", 5), Field("reserved0", 256)>>

StakeDepositReceipt ==
    <<Discriminator, PublicKey("owner"), PublicKey("payer"), PublicKey("stakePool"),
      U64("lockupDuration"), I64("depositTimestamp"), U64("depositAmount"),
      U128("effectiveStake"), Field("claimedAmounts", 10 * 16)>>

=============================================================================
