-------------------------------- MODULE IDLV0 --------------------------------
(***************************************************************************)
(* The published interface of the program's version 0.1.5 (idl_v0.ts),     *)
(* which the SDK serves beside the current one. What did not change is     *)
(* stated by naming the current interface.                                 *)
(***************************************************************************)
EXTENDS Interface

Current == INSTANCE IDL

initializeStakePool == Current!initializeStakePool

addRewardPool == Current!addRewardPool

deposit == Current!deposit

claimAll == Current!claimAll

\* An owner without stake mint tokens leaves their account out.
withdraw ==
    [accounts |-> claimAll.accounts
                  \o <<Mut("vault"), Mut("stakeMint"), Optional(Mut("from")), Mut("destination")>>,
     args |-> <<>>]

updateTokenMeta == Current!updateTokenMeta

instructions ==
    [initializeStakePool |-> initializeStakePool,
     addRewardPool       |-> addRewardPool,
     deposit             |-> deposit,
     claimAll            |-> claimAll,
     withdraw            |-> withdraw,
     updateTokenMeta     |-> updateTokenMeta]

-----------------------------------------------------------------------------
RewardPool == Current!RewardPool

\* Neither creator nor flags, and less in reserve.
stakePool ==
    <<Discriminator, PublicKey("authority"), U128("totalWeightedStake"),
      PublicKey("vault"), PublicKey("mint"), PublicKey("stakeMint"),
      Field("rewardPools", 10 * SizeOf(RewardPool)),
      U64("baseWeight"), U64("maxWeight"), U64("minDuration"), U64("maxDuration"),
      U8("nonce"), U8("bumpSeed"), Field("padding0", 6), Field("reserved0", 8)>>

stakeDepositReceipt == Current!stakeDepositReceipt

=============================================================================
