--------------------------------- MODULE IDL ---------------------------------
(***************************************************************************)
(* The published interface of the program, version 1.1.6 (idl.ts): what a  *)
(* client knows of the instructions and of the accounts.                   *)
(***************************************************************************)
EXTENDS Interface

initializeStakePool ==
    [accounts |-> <<MutSigner("payer"), Plain("authority"), Plain("mint"), Mut("stakePool"),
                    Mut("stakeMint"), Mut("vault"),
                    Plain("tokenProgram"), Plain("rent"), Plain("systemProgram")>>,
     args |-> <<U8("nonce"), U64("maxWeight"), U64("minDuration"), U64("maxDuration")>>]

\* Mutant: the old and the new authority change places.
transferAuthoritySwapped ==
    [accounts |-> <<Plain("newAuthority"), MutSigner("authority"), Mut("stakePool")>>,
     args |-> <<>>]

transferAuthority ==
    [accounts |-> <<MutSigner("authority"), Plain("newAuthority"), Mut("stakePool")>>,
     args |-> <<>>]

dangerouslyMintStakeMint ==
    [accounts |-> <<MutSigner("payer"), Signer("authority"), Mut("stakeMint"),
                    Mut("destination"), Mut("stakePool"), Plain("tokenProgram")>>,
     args |-> <<U64("amount")>>]

addRewardPool ==
    [accounts |-> <<MutSigner("payer"), Signer("authority"), Plain("rewardMint"),
                    Mut("stakePool"), Mut("rewardVault"),
                    Plain("tokenProgram"), Plain("rent"), Plain("systemProgram")>>,
     args |-> <<U8("index")>>]

setFlags ==
    [accounts |-> <<MutSigner("authority"), Mut("stakePool")>>,
     args |-> <<U8("flags")>>]

deposit ==
    [accounts |-> <<MutSigner("payer"), Plain("owner"), Mut("from"), Mut("vault"),
                    Mut("stakeMint"), Mut("destination"), Mut("stakePool"),
                    Mut("stakeDepositReceipt"),
                    Plain("tokenProgram"), Plain("rent"), Plain("systemProgram")>>,
     args |-> <<U32("nonce"), U64("amount"), U64("lockupDuration")>>]

claimAll ==
    [accounts |-> <<MutSigner("owner"), Mut("stakePool"), Mut("stakeDepositReceipt"),
                    Plain("tokenProgram")>>,
     args |-> <<>>]

\* Mutant: the vault is only read.
withdrawVaultReadOnly ==
    [accounts |-> claimAll.accounts
                  \o <<Plain("vault"), Mut("stakeMint"), Mut("from"), Mut("destination")>>,
     args |-> <<>>]

withdraw ==
    [accounts |-> claimAll.accounts
                  \o <<Mut("vault"), Mut("stakeMint"), Mut("from"), Mut("destination")>>,
     args |-> <<>>]

updateTokenMeta ==
    [accounts |-> <<Signer("authority"), Mut("metadataAccount"), Plain("stakePool"),
                    Plain("stakeMint"), Plain("metadataProgram"),
                    Plain("rent"), Plain("systemProgram")>>,
     args |-> <<Text("name"), Text("symbol"), Text("uri")>>]

instructions ==
    [initializeStakePool      |-> initializeStakePool,
     transferAuthority        |-> transferAuthority,
     dangerouslyMintStakeMint |-> dangerouslyMintStakeMint,
     addRewardPool            |-> addRewardPool,
     setFlags                 |-> setFlags,
     deposit                  |-> deposit,
     claimAll                 |-> claimAll,
     withdraw                 |-> withdraw,
     updateTokenMeta          |-> updateTokenMeta]

-----------------------------------------------------------------------------
RewardPool ==
    <<PublicKey("rewardVault"), U128("rewardsPerEffectiveStake"), U64("lastAmount"),
      Field("padding0", 8)>>

stakePool ==
    <<Discriminator, PublicKey("creator"), PublicKey("authority"), U128("totalWeightedStake"),
      PublicKey("vault"), PublicKey("mint"), PublicKey("stakeMint"),
      Field("rewardPools", 10 * SizeOf(RewardPool)),
      U64("baseWeight"), U64("maxWeight"), U64("minDuration"), U64("maxDuration"),
      U8("nonce"), U8("bumpSeed"), U8("flags"),
      Field("padding0", 5), Field("reserved0", 256)>>

stakeDepositReceipt ==
    <<Discriminator, PublicKey("owner"), PublicKey("payer"), PublicKey("stakePool"),
      U64("lockupDuration"), I64("depositTimestamp"), U64("depositAmount"),
      U128("effectiveStake"), Field("claimedAmounts", 10 * 16)>>

=============================================================================
